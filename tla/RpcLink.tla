------------------------------ MODULE RpcLink ------------------------------
(***************************************************************************)
(* lesson6/rpc_client.cpp against the JSON-RPC server of lesson5: one TCP   *)
(* connection, shared by the telemetry thread and the command worker.  An   *)
(* answer carries an id that nobody looks at, so whose answer is read       *)
(* depends on what is still under way on the connection.                    *)
(*                                                                          *)
(* A request and its answer are one record: the kind of result, and the     *)
(* thread that waits for it, Nobody once that call has returned without it. *)
(* The worker's calls also stand for those of automatic control and of the  *)
(* camera, which the telemetry thread makes between its rounds.             *)
(***************************************************************************)
EXTENDS Integers, Sequences

CONSTANT MaxBehind   \* bound on the answers a call may find ahead of its own

ASSUME RpcLinkAssumption == MaxBehind \in Nat

VARIABLES
  reading,    \* per thread: the kind of result it waits for, holding rpc_mutex
  turn,       \* the next read of refresh_sensor_cache
  sock,       \* g_iSocketClient: none, open
  peer,       \* the server's end: there, gone (closed), reset (a send was refused)
  up,         \* rpc_server runs
  wire,       \* requests the server has not read
  pending,    \* requests it has read and not parsed (conn->buffer)
  newlineDue, \* it wrote an answer and not yet the newline after it
  rcv,        \* answers the client has not read
  newline,    \* some newline it has not read
  skipped,    \* the call under way has read a newline alone
  stack,      \* kinds of the answers read so far, which buf may still hold
  handed,     \* what the last call gave its caller: nothing, or an answer that
              \* was its own, another's, or an old one found in buf
  late,       \* some call on this connection returned without its answer
  clean,      \* telemetry reads since a call gave up, or the worker read dht11
  behind      \* answers nobody waited for when that count began

stream == <<wire, pending, newlineDue, rcv, newline>>
connection == <<sock, peer, stream, late>>
count == <<clean, behind>>
vars == <<reading, turn, connection, up, skipped, stack, handed, count>>

Threads == {"telemetry", "worker"}
Nobody == "nobody"
Kinds == {"int", "array"}

(* pir, light, dht11, relay, relay2, smoke.                                *)
RoundKinds == <<"int", "int", "array", "int", "int", "int">>
HealingCalls == (behind + 1) * Len(RoundKinds)

Request(k, t) == [kind |-> k, caller |-> t]

UnderWay == rcv \o pending \o wire
Leftovers == {i \in DOMAIN UnderWay : UnderWay[i].caller = Nobody}

Init ==
  /\ reading = [t \in Threads |-> "none"] /\ turn = 1
  /\ sock = "open" /\ peer = "there" /\ up = TRUE
  /\ wire = <<>> /\ pending = <<>> /\ newlineDue = FALSE
  /\ rcv = <<>> /\ newline = FALSE
  /\ skipped = FALSE /\ stack = {}
  /\ handed = "nothing" /\ late = FALSE /\ clean = 0 /\ behind = 0

-----------------------------------------------------------------------------
(* Mutant: rpc_mutex is not taken.                                         *)
NoMutex(t) == reading[t] = "none"

(* pthread_mutex_lock(&rpc_mutex).                                         *)
MutexFree(t) == \A u \in Threads : reading[u] = "none"

KindsOf(t) == IF t = "telemetry" THEN {RoundKinds[turn]} ELSE Kinds

Unread(answers, withNewline) == rcv' = answers /\ newline' = withNewline
AtServer(w, p, due) == wire' = w /\ pending' = p /\ newlineDue' = due

(* close() of g_iSocketClient: what was under way on it is lost.           *)
CloseConnection ==
  /\ sock' = "none" /\ peer' = "gone"
  /\ AtServer(<<>>, <<>>, FALSE) /\ Unread(<<>>, FALSE)
  /\ UNCHANGED late

(* RPC_Client_Init succeeds, and the request is sent on the new connection.*)
SendOnNewConnection(r) ==
  /\ sock' = "open" /\ peer' = "there"
  /\ AtServer(<<r>>, <<>>, FALSE) /\ Unread(<<>>, FALSE)
  /\ late' = FALSE

(* The count begins again, with what is under way now.                     *)
CountAgain == clean' = 0 /\ behind' = Len(UnderWay')

NextTurn(t) == turn' = IF t = "telemetry" THEN (turn % Len(RoundKinds)) + 1 ELSE turn

Transmit(t, k) ==
  /\ sock = "open" /\ peer = "there"
  /\ Len(UnderWay) <= MaxBehind
  /\ wire' = Append(wire, Request(k, t))
  /\ reading' = [reading EXCEPT ![t] = k]
  /\ UNCHANGED <<sock, peer, pending, newlineDue, rcv, newline, late, count>>

(* The server closed its end: the kernel accepts one more send.            *)
TransmitIntoVoid(t, k) ==
  /\ sock = "open" /\ peer = "gone"
  /\ peer' = "reset"
  /\ reading' = [reading EXCEPT ![t] = k]
  /\ UNCHANGED <<sock, stream, late, count>>

(* Mutant: EPIPE and ECONNRESET only make the call fail.                   *)
ReconnectIfNeverConnected(t, k) ==
  \/ /\ sock = "none" /\ up
     /\ SendOnNewConnection(Request(k, t))
     /\ reading' = [reading EXCEPT ![t] = k]
     /\ UNCHANGED count
  \/ /\ IF sock = "none" THEN ~up ELSE peer = "reset"
     /\ UNCHANGED <<connection, reading>>
     /\ CountAgain

(* No connection, or EPIPE / ECONNRESET: connect and send, or fail.        *)
Reconnect(t, k) ==
  /\ sock = "none" \/ peer = "reset"
  /\ IF up
     THEN /\ SendOnNewConnection(Request(k, t))
          /\ reading' = [reading EXCEPT ![t] = k]
          /\ UNCHANGED count
     ELSE /\ CloseConnection
          /\ CountAgain
          /\ UNCHANGED reading

(* rpc_call_int_result and rpc_dht11_read up to safe_send_locked.          *)
StartCall(t) ==
  /\ MutexFree(t)
  /\ \E k \in KindsOf(t) :
       Transmit(t, k) \/ TransmitIntoVoid(t, k) \/ Reconnect(t, k)
  /\ NextTurn(t)
  /\ skipped' = FALSE /\ handed' = "nothing"
  /\ UNCHANGED <<up, stack>>

-----------------------------------------------------------------------------
(* t returns: what is still under way for it has nobody waiting any more.  *)
Forget(t, s) ==
  [i \in DOMAIN s |-> IF s[i].caller = t THEN [s[i] EXCEPT !.caller = Nobody] ELSE s[i]]

(* All there is has been read, and the connection stays open.              *)
KeepConnection(t) ==
  /\ Unread(<<>>, FALSE)
  /\ wire' = Forget(t, wire) /\ pending' = Forget(t, pending)
  /\ UNCHANGED <<sock, peer, newlineDue>>

CountClean(t) ==
  IF t = "worker"
  THEN IF reading[t] = "array" THEN CountAgain ELSE UNCHANGED count
  ELSE /\ clean' = IF clean < HealingCalls THEN clean + 1 ELSE clean
       /\ UNCHANGED behind

(* Mutant: an answer without a number leaves the connection open.          *)
UnusableIsIgnored(t) == KeepConnection(t) /\ UNCHANGED late

(* The result is not of the kind asked for: only the int version closes.   *)
UnusableAnswer(t) ==
  IF reading[t] = "int"
  THEN CloseConnection
  ELSE KeepConnection(t) /\ UNCHANGED late

(***************************************************************************)
(* read() takes all there is.  A newline alone is skipped; of several       *)
(* answers the first one is parsed and the others are gone.                 *)
(***************************************************************************)
Read(t) ==
  /\ reading[t] # "none" /\ (rcv # <<>> \/ newline)
  /\ IF rcv = <<>>
     THEN /\ newline' = FALSE /\ skipped' = TRUE
          /\ UNCHANGED <<sock, peer, wire, pending, newlineDue, rcv, late, reading,
                         stack, handed, count>>
     ELSE /\ IF Head(rcv).kind = reading[t]
             THEN /\ handed' = IF Head(rcv).caller = t THEN "own" ELSE "foreign"
                  /\ KeepConnection(t) /\ UNCHANGED late
             ELSE handed' = "nothing" /\ UnusableAnswer(t)
          /\ reading' = [reading EXCEPT ![t] = "none"]
          /\ stack' = stack \cup {Head(rcv).kind} /\ skipped' = FALSE
          /\ CountClean(t)
  /\ UNCHANGED <<turn, up>>

(* Mutant: the read has no time-out and ends with the connection only.     *)
GiveUpAtEnd(t) ==
  /\ reading[t] # "none" /\ rcv = <<>> /\ ~newline /\ peer # "there"
  /\ CloseConnection /\ CountAgain
  /\ reading' = [reading EXCEPT ![t] = "none"] /\ skipped' = FALSE
  /\ UNCHANGED <<turn, up, stack, handed>>

(***************************************************************************)
(* buf is parsed although nothing was read into it.  It is not initialised: *)
(* an answer of an earlier call may stand there whole, unless this call has *)
(* read a newline over it, and is handed out if its kind fits.              *)
(***************************************************************************)
ParseOldAnswer(t) ==
  /\ ~skipped /\ reading[t] \in stack
  /\ KeepConnection(t) /\ late' = TRUE
  /\ handed' = "old"

(***************************************************************************)
(* Time-out or end of stream: continue leads to the condition of the        *)
(* do-while, which ends the loop, so MAX_RETRIES and its close are never    *)
(* reached, and the buffer is parsed as it is.  Without an answer in it the *)
(* int version closes then; the array version does not, and neither does    *)
(* after an error of select or read.                                        *)
(***************************************************************************)
GiveUp(t) ==
  /\ reading[t] # "none" /\ rcv = <<>> /\ ~newline
  /\ \/ reading[t] = "int" /\ CloseConnection /\ UNCHANGED handed
     \/ KeepConnection(t) /\ late' = TRUE /\ UNCHANGED handed
     \/ ParseOldAnswer(t)
  /\ CountAgain
  /\ reading' = [reading EXCEPT ![t] = "none"] /\ skipped' = FALSE
  /\ UNCHANGED <<turn, up, stack>>

-----------------------------------------------------------------------------
(***************************************************************************)
(* connection_cb: one read takes all requests that arrived, but one event   *)
(* parses and answers one request only.                                     *)
(***************************************************************************)
Serve ==
  /\ peer = "there" /\ ~newlineDue /\ wire # <<>>
  /\ LET buffer == pending \o wire IN
       /\ rcv' = Append(rcv, Head(buffer))
       /\ pending' = Tail(buffer)
  /\ wire' = <<>> /\ newlineDue' = TRUE
  /\ UNCHANGED <<reading, turn, sock, peer, newline, up, late>>
  /\ UNCHANGED <<skipped, stack, handed, count>>

(* The second write of send_response.                                      *)
ServeNewline ==
  /\ newlineDue
  /\ newline' = TRUE /\ newlineDue' = FALSE
  /\ UNCHANGED <<reading, turn, sock, peer, up, wire, pending, rcv, late>>
  /\ UNCHANGED <<skipped, stack, handed, count>>

(* rpc_server ends; a reset may take the unread answers with it.           *)
ServerStops ==
  /\ up /\ up' = FALSE
  /\ AtServer(<<>>, <<>>, FALSE)
  /\ IF peer = "there"
     THEN \/ peer' = "gone" /\ UNCHANGED <<rcv, newline>>
          \/ peer' = "reset" /\ Unread(<<>>, FALSE)
     ELSE UNCHANGED <<peer, rcv, newline>>
  /\ UNCHANGED <<reading, turn, sock, late, skipped, stack, handed, count>>

ServerStarts ==
  /\ ~up /\ up' = TRUE
  /\ UNCHANGED <<reading, turn, connection, skipped, stack, handed, count>>

Call == \E t \in Threads : StartCall(t)
Finish(t) == Read(t) \/ GiveUp(t)
Server == Serve \/ ServeNewline \/ ServerStops \/ ServerStarts
Next == Call \/ (\E t \in Threads : Finish(t)) \/ Server

Spec == Init /\ [][Next]_vars

(***************************************************************************)
(* select has a time-out, and the telemetry thread goes on calling.  The    *)
(* server owes nothing.                                                     *)
(***************************************************************************)
FairSpec == Spec /\ WF_vars(Call) /\ \A t \in Threads : WF_vars(Finish(t))

-----------------------------------------------------------------------------
Requests == [kind : Kinds, caller : Threads \cup {Nobody}]

TypeOK ==
  /\ reading \in [Threads -> Kinds \cup {"none"}]
  /\ \E t \in Threads : \A u \in Threads \ {t} : reading[u] = "none"
  /\ turn \in DOMAIN RoundKinds
  /\ sock \in {"none", "open"} /\ peer \in {"there", "gone", "reset"}
  /\ up \in BOOLEAN /\ late \in BOOLEAN
  /\ newlineDue \in BOOLEAN /\ newline \in BOOLEAN
  /\ wire \in Seq(Requests) /\ pending \in Seq(Requests) /\ rcv \in Seq(Requests)
  /\ Len(UnderWay) <= MaxBehind + 1
  /\ skipped \in BOOLEAN /\ stack \subseteq Kinds
  /\ handed \in {"nothing", "own", "foreign", "old"}
  /\ behind \in 0 .. MaxBehind + 1 /\ clean \in 0 .. HealingCalls

(***************************************************************************)
(* "Thread safe": with two threads on one connection, a call that succeeds  *)
(* hands out the answer to its own request, unless some call on this        *)
(* connection came back without its answer: an earlier one, whose answer is *)
(* read instead, or this one itself, which timed out and found an old       *)
(* answer in its buffer.  The code tells neither from a good answer.        *)
(***************************************************************************)
OwnAnswers == handed \in {"foreign", "old"} => late

(***************************************************************************)
(* Answers that are shifted, because calls gave up and left the connection  *)
(* open, do not stay shifted if the shift is shorter than a round of        *)
(* telemetry reads.  In every round either the answer of dht11_read reaches *)
(* an integer call, which closes, or it is dropped with others and the      *)
(* shift is smaller; so after one more round than the shift was long        *)
(* nothing left over is under way, whatever integer calls the worker mixes  *)
(* in.  A shift by a whole round may last: every answer is of the kind that *)
(* the read which gets it asks for.                                         *)
(***************************************************************************)
HealedInTime ==
  behind < Len(RoundKinds) /\ clean = HealingCalls => Leftovers = {}

(* "Read time-out protection": no call waits for ever on a silent server.  *)
CallReturns == \A t \in Threads : reading[t] # "none" ~> reading[t] = "none"

(***************************************************************************)
(* "Automatic reconnection": a connection whose server has gone is replaced *)
(* or dropped.                                                              *)
(***************************************************************************)
DeadConnectionIsDropped ==
  sock = "open" /\ peer # "there" ~> (sock = "none" \/ peer = "there")
=============================================================================
