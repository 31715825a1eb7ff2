--------------------------- MODULE RpcLinkProofs ---------------------------
(***************************************************************************)
(* Proofs about RpcLink: its types, that a call hands out its own answer    *)
(* unless it or an earlier one gave up, and that shifted answers are gone   *)
(* after HealingCalls telemetry reads if the shift is shorter than a round. *)
(*                                                                          *)
(* What is under way is the three pieces rcv, pending and wire in a row.    *)
(* The lemmas of the first part say what each action does to that row; the  *)
(* invariants speak of the row only.                                        *)
(***************************************************************************)
EXTENDS RpcLink, SequenceTheorems, TLAPS

Idle == \A t \in Threads : reading[t] = "none"

(* Somebody still waits for the last request under way.                     *)
OwnIsLast ==
  Len(UnderWay) >= 1 /\ UnderWay[Len(UnderWay)].caller # Nobody

(* By how many answers the next call would be off.                          *)
Shift == IF OwnIsLast THEN Len(UnderWay) - 1 ELSE Len(UnderWay)

(***************************************************************************)
(* What rpc_mutex is for: only the last request has somebody waiting for    *)
(* it, who reads an answer of its kind; a call whose request was lost has   *)
(* nothing to expect but what the client received already.                  *)
(***************************************************************************)
OnlyLastIsAwaited ==
  \A i \in 1 .. Len(UnderWay) :
    UnderWay[i].caller # Nobody =>
      i = Len(UnderWay) /\ reading[UnderWay[i].caller] = UnderWay[i].kind

LostWithTheRest ==
  ~Idle /\ ~OwnIsLast => pending = <<>> /\ wire = <<>>

DeadServerHoldsNothing == peer # "there" => pending = <<>> /\ wire = <<>>

LinkInv == OnlyLastIsAwaited /\ LostWithTheRest /\ DeadServerHoldsNothing

(* Nothing is left over before a call gives up and keeps the connection.    *)
LateMeansShift == ~late => Shift = 0

-----------------------------------------------------------------------------
(* Three sequences in a row.                                                *)

LEMMA ThreePieces ==
  ASSUME NEW S, NEW r \in Seq(S), NEW p \in Seq(S), NEW w \in Seq(S)
  PROVE  /\ r \o p \o w \in Seq(S)
         /\ Len(r) \in Nat /\ Len(p) \in Nat /\ Len(w) \in Nat
         /\ Len(r \o p \o w) = Len(r) + Len(p) + Len(w)
         /\ \A i \in 1 .. Len(r) : (r \o p \o w)[i] = r[i]
         /\ \A i \in 1 .. Len(p) : (r \o p \o w)[Len(r) + i] = p[i]
         /\ \A i \in 1 .. Len(w) : (r \o p \o w)[Len(r) + Len(p) + i] = w[i]
<1> DEFINE rp == r \o p
           a == Len(r)
           b == Len(p)
           c == Len(w)
<1>1. a \in Nat /\ b \in Nat /\ c \in Nat
  BY LenProperties
<1>2. /\ rp \in Seq(S) /\ Len(rp) = a + b
      /\ \A i \in 1 .. (a + b) : rp[i] = IF i <= a THEN r[i] ELSE p[i - a]
  BY ConcatProperties
<1>3. /\ rp \o w \in Seq(S) /\ Len(rp \o w) = Len(rp) + c
      /\ \A i \in 1 .. (Len(rp) + c) :
           (rp \o w)[i] = IF i <= Len(rp) THEN rp[i] ELSE w[i - Len(rp)]
  BY <1>2, ConcatProperties
<1> HIDE DEF rp, a, b, c
<1>4. \A i \in 1 .. a : (rp \o w)[i] = r[i]
  BY <1>1, <1>2, <1>3
<1>5. ASSUME NEW i \in 1 .. b PROVE (rp \o w)[a + i] = p[i]
  <2>1. a + i \in 1 .. (a + b) /\ ~ (a + i <= a) /\ (a + i) - a = i
    BY <1>1
  <2>2. (rp \o w)[a + i] = rp[a + i]
    BY <2>1, <1>1, <1>2, <1>3
  <2>3. QED
    BY <2>1, <2>2, <1>2
<1>6. ASSUME NEW i \in 1 .. c PROVE (rp \o w)[a + b + i] = w[i]
  <2>1. a + b + i \in 1 .. (a + b + c) /\ ~ (a + b + i <= a + b) /\ (a + b + i) - (a + b) = i
    BY <1>1
  <2>2. QED
    BY <2>1, <1>1, <1>2, <1>3
<1>7. QED
  BY <1>1, <1>2, <1>3, <1>4, <1>5, <1>6 DEF rp, a, b, c

(* The same for a row that has a name.                                      *)
LEMMA RowOfThree ==
  ASSUME NEW r \in Seq(Requests), NEW p \in Seq(Requests), NEW w \in Seq(Requests),
         NEW u, u = r \o p \o w
  PROVE  /\ u \in Seq(Requests)
         /\ Len(u) = Len(r) + Len(p) + Len(w)
         /\ \A i \in 1 .. Len(p) : u[Len(r) + i] = p[i]
         /\ \A i \in 1 .. Len(w) : u[Len(r) + Len(p) + i] = w[i]
BY ThreePieces

LEMMA AppendToThird ==
  ASSUME NEW S, NEW r \in Seq(S), NEW p \in Seq(S), NEW w \in Seq(S), NEW x \in S
  PROVE  r \o p \o Append(w, x) = Append(r \o p \o w, x)
<1>1. r \o p \in Seq(S) /\ <<x>> \in Seq(S)
  BY ConcatProperties
<1>2. Append(w, x) = w \o <<x>>
  BY AppendIsConcat
<1>3. (r \o p) \o (w \o <<x>>) = ((r \o p) \o w) \o <<x>>
  BY <1>1, ConcatAssociative
<1>4. (r \o p) \o w \in Seq(S)
  BY <1>1, ConcatProperties
<1>5. Append((r \o p) \o w, x) = ((r \o p) \o w) \o <<x>>
  BY <1>4, AppendIsConcat
<1>6. QED
  BY <1>2, <1>3, <1>5

(* A sequence is its head and its tail.                                     *)
LEMMA HeadThenTail ==
  ASSUME NEW S, NEW s \in Seq(S), s # <<>>
  PROVE  s = <<Head(s)>> \o Tail(s)
<1> DEFINE h == <<Head(s)>>
           t == Tail(s)
<1>1. /\ Head(s) \in S /\ t \in Seq(S) /\ Len(t) = Len(s) - 1
      /\ \A i \in 1 .. Len(t) : t[i] = s[i + 1]
      /\ Len(s) \in Nat /\ Len(s) >= 1 /\ Head(s) = s[1]
  BY HeadTailProperties, LenProperties, EmptySeq
<1>2. h \in Seq(S) /\ Len(h) = 1 /\ h[1] = s[1]
  BY <1>1
<1> HIDE DEF h, t
<1>3. /\ h \o t \in Seq(S) /\ Len(h \o t) = Len(s)
      /\ \A i \in 1 .. Len(s) : (h \o t)[i] = IF i <= 1 THEN h[i] ELSE t[i - 1]
  <2>1. h \in Seq(S) /\ t \in Seq(S)
    BY <1>1, <1>2
  <2>2. /\ h \o t \in Seq(S) /\ Len(h \o t) = Len(h) + Len(t)
        /\ \A i \in 1 .. Len(h) + Len(t) :
             (h \o t)[i] = IF i <= Len(h) THEN h[i] ELSE t[i - Len(h)]
    BY <2>1, ConcatProperties
  <2>3. Len(h) + Len(t) = Len(s)
    BY <1>1, <1>2
  <2>4. QED
    BY <1>2, <2>2, <2>3
<1>4. ASSUME NEW i \in 1 .. Len(s) PROVE s[i] = (h \o t)[i]
  <2>1. CASE i = 1
    BY <2>1, <1>1, <1>2, <1>3
  <2>2. CASE i # 1
    <3>1. ~ (i <= 1) /\ i - 1 \in 1 .. Len(t) /\ (i - 1) + 1 = i
      BY <2>2, <1>1
    <3>2. QED
      BY <3>1, <1>1, <1>3
  <2>3. QED
    BY <2>1, <2>2
<1>5. s = h \o t
  BY <1>3, <1>4, SeqEqual
<1>6. QED
  BY <1>5 DEF h, t

(* A caller that leaves changes no kind and no caller but its own.          *)
LEMMA ForgetProperties ==
  ASSUME NEW t \in Threads, NEW s \in Seq(Requests)
  PROVE  /\ Forget(t, s) \in Seq(Requests)
         /\ Len(Forget(t, s)) = Len(s)
         /\ \A i \in 1 .. Len(s) :
              /\ Forget(t, s)[i].kind = s[i].kind
              /\ Forget(t, s)[i].caller = IF s[i].caller = t THEN Nobody ELSE s[i].caller
<1> DEFINE n == Len(s)
           e(i) == IF s[i].caller = t THEN [s[i] EXCEPT !.caller = Nobody] ELSE s[i]
<1>1. n \in Nat /\ DOMAIN s = 1 .. n /\ \A i \in 1 .. n : s[i] \in Requests
  BY LenProperties, ElementOfSeq
<1>2. ASSUME NEW i \in 1 .. n
      PROVE  /\ e(i) \in Requests /\ e(i).kind = s[i].kind
             /\ e(i).caller = IF s[i].caller = t THEN Nobody ELSE s[i].caller
  BY <1>1 DEF Requests
<1>3. Forget(t, s) = [i \in 1 .. n |-> e(i)]
  BY <1>1 DEF Forget
<1> HIDE DEF n, e
<1>4. Forget(t, s) \in [1 .. n -> Requests]
  BY <1>2, <1>3
<1>5. Forget(t, s) \in Seq(Requests) /\ DOMAIN Forget(t, s) = 1 .. n
  BY <1>1, <1>4, SeqDef
<1>6. Len(Forget(t, s)) = n
  BY <1>1, <1>5, LenProperties
<1>7. QED
  BY <1>2, <1>3, <1>5, <1>6 DEF n

-----------------------------------------------------------------------------
(* What each action does to the row.                                        *)

LEMMA Row ==
  ASSUME TypeOK
  PROVE  /\ UnderWay \in Seq(Requests) /\ Len(UnderWay) \in Nat
         /\ Len(rcv) \in Nat /\ Len(pending) \in Nat /\ Len(wire) \in Nat
         /\ Len(UnderWay) = Len(rcv) + Len(pending) + Len(wire)
         /\ \A i \in 1 .. Len(rcv) : UnderWay[i] = rcv[i]
         /\ \A i \in 1 .. Len(UnderWay) : UnderWay[i] \in Requests
<1>1. rcv \in Seq(Requests) /\ pending \in Seq(Requests) /\ wire \in Seq(Requests)
  BY DEF TypeOK
<1>2. UnderWay \in Seq(Requests)
  BY <1>1, ThreePieces DEF UnderWay
<1>3. QED
  BY <1>1, <1>2, ThreePieces, ElementOfSeq, LenProperties DEF UnderWay

LEMMA RowAfterTransmit ==
  ASSUME TypeOK, NEW t \in Threads, NEW k \in Kinds, Transmit(t, k)
  PROVE  /\ UnderWay' = Append(UnderWay, Request(k, t))
         /\ wire' \in Seq(Requests)
<1>1. Request(k, t) \in Requests
  BY DEF Request, Requests
<1>2. rcv \in Seq(Requests) /\ pending \in Seq(Requests) /\ wire \in Seq(Requests)
  BY DEF TypeOK
<1>3. rcv \o pending \o Append(wire, Request(k, t))
        = Append(rcv \o pending \o wire, Request(k, t))
  BY <1>1, <1>2, AppendToThird
<1>4. UnderWay' = rcv \o pending \o Append(wire, Request(k, t))
  BY DEF Transmit, UnderWay
<1>5. wire' = Append(wire, Request(k, t))
  BY DEF Transmit
<1>6. QED
  BY <1>1, <1>2, <1>3, <1>4, <1>5, AppendProperties DEF UnderWay

LEMMA RowAfterClose ==
  ASSUME CloseConnection
  PROVE  UnderWay' = <<>> /\ Len(UnderWay') = 0
<1>1. UnderWay' = <<>> \o <<>> \o <<>>
  BY DEF CloseConnection, AtServer, Unread, UnderWay
<1>2. <<>> \o <<>> = <<>>
  BY EmptySeq, ConcatEmptySeq
<1>3. QED
  BY <1>1, <1>2

LEMMA RowAfterSend ==
  ASSUME NEW r \in Requests, SendOnNewConnection(r)
  PROVE  UnderWay' = <<r>> /\ wire' \in Seq(Requests)
<1>1. UnderWay' = <<>> \o <<>> \o <<r>> /\ wire' = <<r>>
  BY DEF SendOnNewConnection, AtServer, Unread, UnderWay
<1>2. <<r>> \in Seq(Requests) /\ <<>> \in Seq(Requests)
  BY EmptySeq
<1>3. <<>> \o <<>> = <<>> /\ <<>> \o <<r>> = <<r>>
  BY <1>2, ConcatEmptySeq
<1>4. QED
  BY <1>1, <1>2, <1>3

(* t leaves the connection open: what it has not received stays behind it.  *)
LEMMA RowAfterKeep ==
  ASSUME TypeOK, NEW t \in Threads, KeepConnection(t)
  PROVE  /\ pending' \in Seq(Requests) /\ wire' \in Seq(Requests) /\ rcv' = <<>>
         /\ UnderWay' \in Seq(Requests)
         /\ Len(UnderWay') = Len(UnderWay) - Len(rcv)
         /\ Len(UnderWay') = Len(pending) + Len(wire)
         /\ \A i \in 1 .. Len(UnderWay') :
              /\ i + Len(rcv) \in 1 .. Len(UnderWay)
              /\ UnderWay'[i].kind = UnderWay[i + Len(rcv)].kind
              /\ UnderWay'[i].caller =
                   IF UnderWay[i + Len(rcv)].caller = t THEN Nobody
                   ELSE UnderWay[i + Len(rcv)].caller
<1> DEFINE p == Forget(t, pending)
           w == Forget(t, wire)
           a == Len(rcv)
           b == Len(pending)
           c == Len(wire)
<1>1. rcv \in Seq(Requests) /\ pending \in Seq(Requests) /\ wire \in Seq(Requests)
  BY DEF TypeOK
<1>2. rcv' = <<>> /\ pending' = p /\ wire' = w
  BY DEF KeepConnection, Unread
<1>3. /\ p \in Seq(Requests) /\ Len(p) = b
      /\ \A i \in 1 .. b :
           /\ p[i].kind = pending[i].kind
           /\ p[i].caller = IF pending[i].caller = t THEN Nobody ELSE pending[i].caller
  BY <1>1, ForgetProperties
<1>4. /\ w \in Seq(Requests) /\ Len(w) = c
      /\ \A i \in 1 .. c :
           /\ w[i].kind = wire[i].kind
           /\ w[i].caller = IF wire[i].caller = t THEN Nobody ELSE wire[i].caller
  BY <1>1, ForgetProperties
<1> HIDE DEF p, w
<1>5. UnderWay' = rcv' \o p \o w
  BY <1>2 DEF UnderWay
<1>6. rcv' \in Seq(Requests) /\ Len(rcv') = 0
  BY <1>2, EmptySeq
<1>7. /\ UnderWay' \in Seq(Requests)
      /\ Len(UnderWay') = Len(rcv') + b + c
      /\ \A i \in 1 .. b : UnderWay'[Len(rcv') + i] = p[i]
      /\ \A i \in 1 .. c : UnderWay'[Len(rcv') + b + i] = w[i]
  <2>1. p \in Seq(Requests) /\ w \in Seq(Requests) /\ rcv' \in Seq(Requests)
    BY <1>3, <1>4, <1>6
  <2>2. /\ UnderWay' \in Seq(Requests)
        /\ Len(UnderWay') = Len(rcv') + Len(p) + Len(w)
        /\ \A i \in 1 .. Len(p) : UnderWay'[Len(rcv') + i] = p[i]
        /\ \A i \in 1 .. Len(w) : UnderWay'[Len(rcv') + Len(p) + i] = w[i]
    BY <1>5, <2>1, RowOfThree
  <2>3. QED
    BY <2>2, <1>3, <1>4
<1>8. /\ a \in Nat /\ b \in Nat /\ c \in Nat
      /\ Len(UnderWay) = a + b + c
      /\ \A i \in 1 .. b : UnderWay[a + i] = pending[i]
      /\ \A i \in 1 .. c : UnderWay[a + b + i] = wire[i]
  <2>1. LET u == rcv \o pending \o wire IN
          /\ a \in Nat /\ b \in Nat /\ c \in Nat
          /\ Len(u) = a + b + c
          /\ \A i \in 1 .. b : u[a + i] = pending[i]
          /\ \A i \in 1 .. c : u[a + b + i] = wire[i]
    BY <1>1, ThreePieces
  <2>2. QED
    BY <2>1 DEF UnderWay
<1> HIDE DEF a, b, c
<1>9. ASSUME NEW i \in 1 .. (b + c)
      PROVE  /\ i + a \in 1 .. Len(UnderWay)
             /\ UnderWay'[i].kind = UnderWay[i + a].kind
             /\ UnderWay'[i].caller =
                  IF UnderWay[i + a].caller = t THEN Nobody ELSE UnderWay[i + a].caller
  <2>1. CASE i \in 1 .. b
    <3>1. 0 + i = i /\ a + i = i + a
      BY <2>1, <1>8
    <3>2. UnderWay'[i] = p[i] /\ UnderWay[i + a] = pending[i]
      BY <2>1, <3>1, <1>6, <1>7, <1>8
    <3>3. QED
      BY <2>1, <3>2, <1>3, <1>8
  <2>2. CASE i \notin 1 .. b
    <3> DEFINE j == i - b
    <3>1. j \in 1 .. c /\ 0 + b + j = i /\ a + b + j = i + a
      BY <2>2, <1>8
    <3> HIDE DEF j
    <3>2. UnderWay'[i] = w[j] /\ UnderWay[i + a] = wire[j]
      BY <3>1, <1>6, <1>7, <1>8
    <3>3. QED
      BY <3>1, <3>2, <1>4, <1>8
  <2>3. QED
    BY <2>1, <2>2
<1>10. QED
  BY <1>2, <1>3, <1>4, <1>6, <1>7, <1>8, <1>9 DEF a, b, c

(* connection_cb moves requests between the pieces and keeps their order.   *)
LEMMA RowAfterServe ==
  ASSUME TypeOK, Serve
  PROVE  /\ UnderWay' = UnderWay
         /\ rcv' \in Seq(Requests) /\ pending' \in Seq(Requests) /\ wire' = <<>>
<1> DEFINE b == pending \o wire
           h == Head(b)
           t == Tail(b)
<1>1. rcv \in Seq(Requests) /\ pending \in Seq(Requests) /\ wire \in Seq(Requests)
  BY DEF TypeOK
<1>2. wire # <<>>
  BY DEF Serve
<1>3. rcv' = Append(rcv, h) /\ pending' = t /\ wire' = <<>>
  BY DEF Serve
<1>4. b \in Seq(Requests) /\ b # <<>>
  BY <1>1, <1>2, ConcatProperties, ConcatEqualIffEmpty
<1>5. rcv \o pending \o wire = rcv \o b
  BY <1>1, ConcatAssociative
<1> HIDE DEF b
<1>6. h \in Requests /\ t \in Seq(Requests) /\ b = <<h>> \o t
  BY <1>4, HeadTailProperties, HeadThenTail
<1> HIDE DEF h, t
<1>7. /\ Append(rcv, h) = rcv \o <<h>> /\ Append(rcv, h) \in Seq(Requests)
      /\ <<h>> \in Seq(Requests)
  BY <1>1, <1>6, AppendIsConcat, AppendProperties
<1>8. (rcv \o <<h>>) \o t = rcv \o (<<h>> \o t)
  BY <1>1, <1>6, <1>7, ConcatAssociative
<1>9. (rcv' \o pending') \o wire' = rcv' \o pending'
  <2>1. rcv' \o pending' \in Seq(Requests)
    BY <1>3, <1>6, <1>7, ConcatProperties
  <2>2. QED
    BY <1>3, <2>1, ConcatEmptySeq
<1>10. UnderWay' = UnderWay
  BY <1>3, <1>5, <1>6, <1>7, <1>8, <1>9 DEF UnderWay
<1>11. QED
  BY <1>3, <1>6, <1>7, <1>10

(* A server that ends takes the end of the row with it, or all of it.       *)
LEMMA RowAfterStop ==
  ASSUME TypeOK, ServerStops
  PROVE  /\ rcv' \in Seq(Requests) /\ pending' = <<>> /\ wire' = <<>>
         /\ UnderWay' = rcv'
         /\ Len(UnderWay') \in Nat /\ Len(UnderWay') <= Len(UnderWay)
         /\ \A i \in 1 .. Len(UnderWay') : UnderWay'[i] = UnderWay[i]
<1>1. pending' = <<>> /\ wire' = <<>> /\ rcv' \in {rcv, <<>>}
  BY DEF ServerStops, AtServer, Unread
<1>2. rcv' \in Seq(Requests)
  BY <1>1, EmptySeq DEF TypeOK
<1>3. UnderWay' = rcv'
  <2>1. UnderWay' = rcv' \o <<>> \o <<>>
    BY <1>1 DEF UnderWay
  <2>2. QED
    BY <1>2, <2>1, ConcatEmptySeq
<1>4. QED
  BY <1>1, <1>2, <1>3, Row, EmptySeq
-----------------------------------------------------------------------------
(* The constants of the round.                                              *)
LEMMA RoundFacts ==
  /\ DOMAIN RoundKinds = 1 .. 6 /\ Len(RoundKinds) = 6
  /\ \A i \in 1 .. 6 : RoundKinds[i] \in Kinds /\ RoundKinds[i] # "none"
  /\ HealingCalls = (behind + 1) * 6
<1>1. Len(RoundKinds) = 6 /\ DOMAIN RoundKinds = 1 .. 6
  BY DEF RoundKinds
<1>2. \A i \in 1 .. 6 : RoundKinds[i] \in Kinds /\ RoundKinds[i] # "none"
  BY DEF RoundKinds, Kinds
<1>3. HealingCalls = (behind + 1) * 6
  BY <1>1 DEF HealingCalls
<1>4. QED
  BY <1>1, <1>2, <1>3

(* The count goes on, begins again, or waits.                               *)
CountOK == behind \in 0 .. MaxBehind + 1 /\ clean \in 0 .. HealingCalls

LEMMA CountTypes ==
  ASSUME TypeOK, NEW t \in Threads, CountClean(t) \/ CountAgain \/ UNCHANGED count,
         Len(UnderWay') \in Nat, Len(UnderWay') <= MaxBehind + 1
  PROVE  CountOK'
<1>1. /\ behind \in Nat /\ clean \in Nat /\ HealingCalls \in Nat /\ HealingCalls >= 6
      /\ HealingCalls = (behind + 1) * 6 /\ HealingCalls' = (behind' + 1) * 6
      /\ behind <= MaxBehind + 1 /\ clean <= HealingCalls
  <2>1. HealingCalls' = (behind' + 1) * 6
    BY RoundFacts DEF HealingCalls
  <2>2. /\ HealingCalls = (behind + 1) * 6 /\ behind \in 0 .. MaxBehind + 1
        /\ clean \in 0 .. HealingCalls
    BY RoundFacts DEF TypeOK
  <2>3. QED
    BY <2>1, <2>2, RpcLinkAssumption
<1>2. CASE CountAgain
  <2>1. behind' \in 0 .. MaxBehind + 1 /\ clean' = 0
    BY <1>2, RpcLinkAssumption DEF CountAgain
  <2>2. HealingCalls' \in Nat
    <3>1. \A b \in Nat : (b + 1) * 6 \in Nat
      OBVIOUS
    <3>2. behind' \in Nat
      BY <2>1, RpcLinkAssumption
    <3>3. QED
      BY <1>1, <3>1, <3>2
  <2>3. 0 \in 0 .. HealingCalls'
    BY <2>2
  <2>4. QED
    BY <2>1, <2>3 DEF CountOK
<1>3. CASE /\ behind' = behind
           /\ clean' = clean \/ (clean < HealingCalls /\ clean' = clean + 1)
  BY <1>1, <1>3, RpcLinkAssumption DEF CountOK
<1>4. QED
  BY <1>2, <1>3 DEF CountClean, count

(* A call asks for a kind, and telemetry goes on to the next read.          *)
LEMMA StartFacts ==
  ASSUME TypeOK, NEW t \in Threads
  PROVE  /\ KindsOf(t) \subseteq Kinds
         /\ NextTurn(t) => turn' \in 1 .. 6
<1>1. turn \in 1 .. 6
  BY RoundFacts DEF TypeOK
<1>2. KindsOf(t) \subseteq Kinds
  BY <1>1, RoundFacts DEF KindsOf
<1>3. ASSUME NextTurn(t) PROVE turn' \in 1 .. 6
  <2>1. turn' = IF t = "telemetry" THEN (turn % 6) + 1 ELSE turn
    BY <1>3, RoundFacts DEF NextTurn
  <2>2. turn % 6 \in 0 .. 5
    BY <1>1
  <2>3. QED
    BY <1>1, <2>1, <2>2
<1>4. QED
  BY <1>2, <1>3

LEMMA TypeInit == Init => TypeOK
<1> SUFFICES ASSUME Init PROVE TypeOK
  OBVIOUS
<1>1. UnderWay = <<>> \o <<>> \o <<>>
  BY DEF Init, UnderWay
<1>2. <<>> \in Seq(Requests) /\ <<>> \o <<>> = <<>> /\ Len(<<>>) = 0
  BY EmptySeq, ConcatEmptySeq
<1>3. Len(UnderWay) = 0
  BY <1>1, <1>2
<1>4. /\ 1 \in DOMAIN RoundKinds
      /\ behind \in 0 .. MaxBehind + 1 /\ clean \in 0 .. HealingCalls
  BY RoundFacts, RpcLinkAssumption DEF Init
<1>5. /\ reading \in [Threads -> Kinds \cup {"none"}]
      /\ \E t \in Threads : \A u \in Threads \ {t} : reading[u] = "none"
  BY DEF Init, Threads
<1>6. wire \in Seq(Requests) /\ pending \in Seq(Requests) /\ rcv \in Seq(Requests)
  BY <1>2 DEF Init
<1>7. Len(UnderWay) <= MaxBehind + 1
  BY <1>3, RpcLinkAssumption
<1>8. QED
  BY <1>4, <1>5, <1>6, <1>7 DEF Init, TypeOK

(* A thread that finishes its call leaves nobody reading.                   *)
LEMMA FinishTypes ==
  ASSUME TypeOK, NEW t \in Threads, reading[t] # "none"
  PROVE  \A u \in Threads : u # t => reading[u] = "none"
BY DEF TypeOK

LEMMA TypeStep ==
  ASSUME TypeOK, [Next]_vars
  PROVE  TypeOK'
<1>1. ASSUME NEW t \in Threads, StartCall(t) PROVE TypeOK'
  <2>1. PICK k \in Kinds : Transmit(t, k) \/ TransmitIntoVoid(t, k) \/ Reconnect(t, k)
    BY <1>1, StartFacts DEF StartCall
  <2>2. /\ turn' \in DOMAIN RoundKinds /\ handed' = "nothing" /\ up' = up
        /\ skipped' = FALSE /\ stack' = stack
        /\ \A u \in Threads : reading[u] = "none"
    BY <1>1, StartFacts, RoundFacts DEF StartCall, MutexFree
  <2> DEFINE started == [reading EXCEPT ![t] = k]
  <2>3. /\ started \in [Threads -> Kinds \cup {"none"}]
        /\ \A u \in Threads \ {t} : started[u] = "none"
    BY <2>2 DEF TypeOK
  <2>4. CASE Transmit(t, k)
    <3>1. /\ UnderWay' = Append(UnderWay, Request(k, t)) /\ wire' \in Seq(Requests)
          /\ Request(k, t) \in Requests
      BY <2>4, RowAfterTransmit DEF Request, Requests
    <3>2. Len(UnderWay') = Len(UnderWay) + 1 /\ Len(UnderWay) <= MaxBehind
      BY <2>4, <3>1, Row, AppendProperties DEF Transmit
    <3>3. Len(UnderWay') <= MaxBehind + 1
      BY <3>2, Row, RpcLinkAssumption
    <3>4. /\ reading' = started
          /\ UNCHANGED <<sock, peer, pending, newlineDue, rcv, newline, late, count>>
      BY <2>4 DEF Transmit
    <3>5. CountOK'
      BY <3>2, <3>3, <3>4, Row, CountTypes
    <3> HIDE DEF started
    <3>6. QED
      BY <2>2, <2>3, <3>1, <3>3, <3>4, <3>5 DEF TypeOK, CountOK
  <2>5. CASE TransmitIntoVoid(t, k)
    <3>1. /\ reading' = started /\ peer' = "reset"
          /\ UNCHANGED <<sock, wire, pending, newlineDue, rcv, newline, late, count>>
      BY <2>5 DEF TransmitIntoVoid, stream
    <3>2. UnderWay' = UnderWay
      BY <3>1 DEF UnderWay
    <3>3. CountOK'
      BY <3>1, <3>2, Row, CountTypes DEF TypeOK
    <3> HIDE DEF started
    <3>4. QED
      BY <2>2, <2>3, <3>1, <3>2, <3>3 DEF TypeOK, CountOK
  <2>6. CASE Reconnect(t, k) /\ up
    <3>1. SendOnNewConnection(Request(k, t)) /\ reading' = started /\ UNCHANGED count
      BY <2>6 DEF Reconnect
    <3>2. Request(k, t) \in Requests
      BY DEF Request, Requests
    <3>3. UnderWay' = <<Request(k, t)>> /\ wire' \in Seq(Requests)
      BY <3>1, <3>2, RowAfterSend
    <3>4. Len(UnderWay') <= MaxBehind + 1
      BY <3>3, RpcLinkAssumption
    <3>5. /\ sock' = "open" /\ peer' = "there" /\ late' = FALSE
          /\ pending' = <<>> /\ newlineDue' = FALSE /\ rcv' = <<>> /\ newline' = FALSE
      BY <3>1 DEF SendOnNewConnection, AtServer, Unread
    <3>6. CountOK'
      BY <3>1, <3>3, <3>4, CountTypes
    <3> HIDE DEF started
    <3>7. QED
      BY <2>2, <2>3, <3>1, <3>3, <3>4, <3>5, <3>6, EmptySeq DEF TypeOK, CountOK
  <2>7. CASE Reconnect(t, k) /\ ~up
    <3>1. CloseConnection /\ reading' = reading /\ CountAgain
      BY <2>7 DEF Reconnect
    <3>2. Len(UnderWay') <= MaxBehind + 1 /\ Len(UnderWay') \in Nat
      BY <3>1, RowAfterClose, RpcLinkAssumption
    <3>3. /\ sock' = "none" /\ peer' = "gone" /\ late' = late
          /\ wire' = <<>> /\ pending' = <<>> /\ newlineDue' = FALSE
          /\ rcv' = <<>> /\ newline' = FALSE
      BY <3>1 DEF CloseConnection, AtServer, Unread
    <3>4. CountOK'
      BY <3>1, <3>2, CountTypes
    <3>5. QED
      BY <2>2, <3>1, <3>2, <3>3, <3>4, EmptySeq DEF TypeOK, CountOK
  <2>8. QED
    BY <2>1, <2>4, <2>5, <2>6, <2>7
<1>2. ASSUME NEW t \in Threads, Finish(t) PROVE TypeOK'
  <2>1. /\ reading[t] # "none" /\ turn' = turn /\ up' = up
        /\ \A u \in Threads : u # t => reading[u] = "none"
    BY <1>2, FinishTypes DEF Finish, Read, GiveUp
  <2>2. [reading EXCEPT ![t] = "none"] \in [Threads -> Kinds \cup {"none"}]
    BY DEF TypeOK
  <2>3. CountClean(t) \/ CountAgain \/ UNCHANGED count
    BY <1>2 DEF Finish, Read, GiveUp
  <2>4. /\ handed' \in {"nothing", "own", "foreign", "old"}
        /\ skipped' \in BOOLEAN /\ stack' \subseteq Kinds
    <3>1. rcv # <<>> => Head(rcv) \in Requests
      BY HeadTailProperties DEF TypeOK
    <3>2. rcv # <<>> => Head(rcv).kind \in Kinds
      BY <3>1 DEF Requests
    <3>3. QED
      BY <1>2, <3>2 DEF Finish, Read, GiveUp, ParseOldAnswer, TypeOK
  <2>5. CASE newline' = FALSE /\ UNCHANGED <<sock, peer, wire, pending, newlineDue, rcv, late,
                                            reading, handed, count>>
    <3>1. UnderWay' = UnderWay
      BY <2>5 DEF UnderWay
    <3>2. CountOK'
      BY <2>5, <3>1, Row, CountTypes DEF TypeOK
    <3>3. QED
      BY <2>1, <2>4, <2>5, <3>1, <3>2 DEF TypeOK, CountOK
  <2>6. CASE KeepConnection(t) /\ late' \in BOOLEAN /\ reading' = [reading EXCEPT ![t] = "none"]
    <3>1. /\ pending' \in Seq(Requests) /\ wire' \in Seq(Requests) /\ rcv' = <<>>
          /\ Len(UnderWay') <= MaxBehind + 1 /\ Len(UnderWay') \in Nat
      BY <2>6, RowAfterKeep, Row, RpcLinkAssumption DEF TypeOK
    <3>2. newline' = FALSE /\ UNCHANGED <<sock, peer, newlineDue>>
      BY <2>6 DEF KeepConnection, Unread
    <3>3. CountOK'
      BY <2>3, <3>1, CountTypes
    <3>4. QED
      BY <2>1, <2>2, <2>4, <2>6, <3>1, <3>2, <3>3, EmptySeq DEF TypeOK, CountOK
  <2>7. CASE CloseConnection /\ reading' = [reading EXCEPT ![t] = "none"]
    <3>1. Len(UnderWay') <= MaxBehind + 1 /\ Len(UnderWay') \in Nat
      BY <2>7, RowAfterClose, RpcLinkAssumption
    <3>2. /\ sock' = "none" /\ peer' = "gone" /\ late' = late
          /\ wire' = <<>> /\ pending' = <<>> /\ newlineDue' = FALSE
          /\ rcv' = <<>> /\ newline' = FALSE
      BY <2>7 DEF CloseConnection, AtServer, Unread
    <3>3. CountOK'
      BY <2>3, <3>1, CountTypes
    <3>4. QED
      BY <2>1, <2>2, <2>4, <2>7, <3>1, <3>2, <3>3, EmptySeq DEF TypeOK, CountOK
  <2>8. QED
    BY <1>2, <2>5, <2>6, <2>7 DEF Finish, Read, GiveUp, ParseOldAnswer, UnusableAnswer, TypeOK
<1>3. CASE Serve
  <2>1. CountOK'
    BY <1>3 DEF Serve, TypeOK, CountOK, HealingCalls, count
  <2>2. QED
    BY <1>3, <2>1, RowAfterServe, EmptySeq DEF Serve, TypeOK, CountOK
<1>4. CASE ServeNewline
  <2>1. UnderWay' = UnderWay
    BY <1>4 DEF ServeNewline, UnderWay
  <2>2. CountOK'
    BY <1>4 DEF ServeNewline, TypeOK, CountOK, HealingCalls, count
  <2>3. QED
    BY <1>4, <2>1, <2>2 DEF ServeNewline, TypeOK, CountOK
<1>5. CASE ServerStops
  <2>1. /\ rcv' \in Seq(Requests) /\ pending' = <<>> /\ wire' = <<>>
        /\ Len(UnderWay') <= MaxBehind + 1
    BY <1>5, RowAfterStop, Row, RpcLinkAssumption DEF TypeOK
  <2>2. /\ up' = FALSE /\ newlineDue' = FALSE /\ newline' \in BOOLEAN
        /\ peer' \in {"there", "gone", "reset"}
        /\ UNCHANGED <<reading, turn, sock, late, skipped, stack, handed, count>>
    BY <1>5 DEF ServerStops, AtServer, Unread, TypeOK
  <2>3. CountOK'
    BY <2>2 DEF TypeOK, CountOK, HealingCalls, count
  <2>4. QED
    BY <2>1, <2>2, <2>3, EmptySeq DEF TypeOK, CountOK
<1>6. CASE ServerStarts \/ UNCHANGED vars
  <2>1. /\ UNCHANGED <<reading, turn, sock, peer, wire, pending, newlineDue, rcv, newline,
                       late, skipped, stack, handed, count>>
        /\ up' \in BOOLEAN
    BY <1>6 DEF ServerStarts, vars, connection, stream, TypeOK
  <2>2. UnderWay' = UnderWay
    BY <2>1 DEF UnderWay
  <2>3. CountOK'
    BY <2>1 DEF TypeOK, CountOK, HealingCalls, count
  <2>4. QED
    BY <2>1, <2>2, <2>3 DEF TypeOK, CountOK
<1>7. QED
  BY <1>1, <1>2, <1>3, <1>4, <1>5, <1>6 DEF Next, Call, Server

(***************************************************************************)
(* Every variable stays in its type; in particular rpc_mutex lets one       *)
(* thread at most be on the connection.                                     *)
(***************************************************************************)
THEOREM TypeCorrect == Spec => []TypeOK
<1>1. TypeOK /\ [Next]_vars => TypeOK'
  BY TypeStep
<1>2. QED
  BY TypeInit, <1>1, PTL DEF Spec
-----------------------------------------------------------------------------
(* Whose answers are under way.                                             *)

(* A request somebody waits for is that of the one thread that reads.       *)
LEMMA AwaitedByReader ==
  ASSUME TypeOK, LinkInv, NEW t \in Threads, reading[t] # "none",
         NEW i \in 1 .. Len(UnderWay), UnderWay[i].caller # Nobody
  PROVE  UnderWay[i].caller = t /\ i = Len(UnderWay)
<1>1. UnderWay[i].caller \in Threads /\ UnderWay[i].kind \in Kinds
  BY Row DEF Requests
<1>2. reading[UnderWay[i].caller] = UnderWay[i].kind /\ i = Len(UnderWay)
  BY DEF LinkInv, OnlyLastIsAwaited
<1>3. reading[UnderWay[i].caller] # "none"
  BY <1>1, <1>2 DEF Kinds
<1>4. QED
  BY <1>1, <1>2, <1>3, FinishTypes

LEMMA NobodyWaits ==
  ASSUME TypeOK, LinkInv, Idle
  PROVE  /\ \A i \in 1 .. Len(UnderWay) : UnderWay[i].caller = Nobody
         /\ ~OwnIsLast /\ Shift = Len(UnderWay)
<1>1. ASSUME NEW i \in 1 .. Len(UnderWay) PROVE UnderWay[i].caller = Nobody
  <2>1. UnderWay[i].caller \in Threads \cup {Nobody} /\ UnderWay[i].kind \in Kinds
    BY Row DEF Requests
  <2>2. QED
    BY <2>1 DEF LinkInv, OnlyLastIsAwaited, Idle, Kinds
<1>2. QED
  BY <1>1, Row DEF OwnIsLast, Shift

(* All but the awaited request are left over.                               *)
LEMMA ShiftFacts ==
  ASSUME TypeOK, LinkInv
  PROVE  /\ Shift \in Nat /\ Shift <= Len(UnderWay) /\ Len(UnderWay) \in Nat
         /\ \A i \in 1 .. Shift : UnderWay[i].caller = Nobody
         /\ OwnIsLast => Shift = Len(UnderWay) - 1
<1>1. Len(UnderWay) \in Nat
  BY Row
<1>2. Shift \in Nat /\ Shift <= Len(UnderWay) /\ (OwnIsLast => Shift = Len(UnderWay) - 1)
  BY <1>1 DEF Shift, OwnIsLast
<1>3. ASSUME NEW i \in 1 .. Shift, UnderWay[i].caller # Nobody PROVE FALSE
  <2>1. i \in 1 .. Len(UnderWay)
    BY <1>1, <1>2
  <2>2. i = Len(UnderWay)
    BY <1>3, <2>1 DEF LinkInv, OnlyLastIsAwaited
  <2>3. OwnIsLast
    BY <1>1, <1>3, <2>1, <2>2 DEF OwnIsLast
  <2>4. QED
    BY <1>1, <1>2, <2>2, <2>3
<1>4. QED
  BY <1>1, <1>2, <1>3

(* A call that ends on an open connection: what it leaves has nobody        *)
(* waiting, and if it read an answer the shift is no longer than before.    *)
LEMMA ShiftAfterKeep ==
  ASSUME TypeOK, LinkInv, NEW t \in Threads, reading[t] # "none",
         KeepConnection(t), reading' = [reading EXCEPT ![t] = "none"]
  PROVE  /\ Idle' /\ ~OwnIsLast' /\ Shift' = Len(UnderWay')
         /\ \A i \in 1 .. Len(UnderWay') : UnderWay'[i].caller = Nobody
         /\ rcv # <<>> => Shift' <= Shift /\ (Shift' >= 1 => OwnIsLast)
<1>1. Idle'
  BY FinishTypes DEF Idle, TypeOK
<1>2. /\ UnderWay' \in Seq(Requests) /\ Len(UnderWay') \in Nat
      /\ Len(UnderWay') = Len(UnderWay) - Len(rcv)
      /\ Len(UnderWay') = Len(pending) + Len(wire)
  BY RowAfterKeep, LenProperties
<1>3. ASSUME NEW i \in 1 .. Len(UnderWay') PROVE UnderWay'[i].caller = Nobody
  <2> DEFINE j == i + Len(rcv)
  <2>1. /\ j \in 1 .. Len(UnderWay)
        /\ UnderWay'[i].caller = IF UnderWay[j].caller = t THEN Nobody ELSE UnderWay[j].caller
    BY RowAfterKeep
  <2> HIDE DEF j
  <2>2. UnderWay[j].caller = Nobody \/ UnderWay[j].caller = t
    BY <2>1, AwaitedByReader
  <2>3. QED
    BY <2>1, <2>2
<1>4. ~OwnIsLast' /\ Shift' = Len(UnderWay')
  BY <1>2, <1>3 DEF OwnIsLast, Shift
<1>5. ASSUME rcv # <<>> PROVE Shift' <= Shift /\ (Shift' >= 1 => OwnIsLast)
  <2>1. Len(rcv) \in Nat /\ Len(rcv) >= 1
    BY <1>5, Row, EmptySeq DEF TypeOK
  <2>2. CASE OwnIsLast
    BY <2>1, <2>2, <1>2, <1>4, ShiftFacts
  <2>3. CASE ~OwnIsLast
    <3>1. pending = <<>> /\ wire = <<>>
      BY <2>3 DEF LinkInv, LostWithTheRest, Idle
    <3>2. Len(UnderWay') = 0
      BY <3>1, <1>2, EmptySeq
    <3>3. QED
      BY <3>2, <1>4, ShiftFacts
  <2>4. QED
    BY <2>2, <2>3
<1>6. QED
  BY <1>1, <1>3, <1>4, <1>5

(* A server that ends makes the shift no longer.                            *)
LEMMA ShiftAfterStop ==
  ASSUME TypeOK, LinkInv, ServerStops
  PROVE  Shift' \in Nat /\ Shift' <= Shift
<1>1. /\ Len(UnderWay') \in Nat /\ Len(UnderWay') <= Len(UnderWay)
      /\ \A i \in 1 .. Len(UnderWay') : UnderWay'[i] = UnderWay[i]
  BY RowAfterStop
<1>2. CASE OwnIsLast'
  <2>1. Len(UnderWay') >= 1 /\ UnderWay'[Len(UnderWay')].caller # Nobody
    BY <1>2 DEF OwnIsLast
  <2>2. UnderWay[Len(UnderWay')].caller # Nobody /\ Len(UnderWay') \in 1 .. Len(UnderWay)
    BY <1>1, <2>1, ShiftFacts
  <2>3. Len(UnderWay') = Len(UnderWay)
    BY <2>2 DEF LinkInv, OnlyLastIsAwaited
  <2>4. Shift = Len(UnderWay) - 1
    BY <2>1, <2>2, <2>3 DEF OwnIsLast, Shift
  <2>5. Shift' = Len(UnderWay') - 1
    BY <1>2 DEF Shift
  <2>6. QED
    BY <1>1, <2>1, <2>3, <2>4, <2>5
<1>3. CASE ~OwnIsLast'
  <2>1. Shift' = Len(UnderWay')
    BY <1>3 DEF Shift
  <2>2. CASE OwnIsLast
    <3>1. Len(UnderWay') # Len(UnderWay)
      BY <1>1, <1>3, <2>2 DEF OwnIsLast
    <3>2. QED
      BY <1>1, <2>1, <2>2, <3>1, ShiftFacts
  <2>3. CASE ~OwnIsLast
    BY <1>1, <2>1, <2>3 DEF Shift
  <2>4. QED
    BY <2>2, <2>3
<1>4. QED
  BY <1>2, <1>3

LEMMA LinkInit == Init => LinkInv /\ LateMeansShift /\ OwnAnswers
<1> SUFFICES ASSUME Init PROVE LinkInv /\ LateMeansShift /\ OwnAnswers
  OBVIOUS
<1>1. TypeOK /\ rcv = <<>> /\ pending = <<>> /\ wire = <<>>
  BY TypeInit DEF Init
<1>2. Len(UnderWay) = 0
  BY <1>1, Row, EmptySeq
<1>3. LinkInv
  BY <1>1, <1>2 DEF LinkInv, OnlyLastIsAwaited, LostWithTheRest, DeadServerHoldsNothing
<1>4. Shift = 0
  BY <1>2 DEF Shift, OwnIsLast
<1>5. QED
  BY <1>3, <1>4 DEF Init, LateMeansShift, OwnAnswers

(* The row does not change, and nobody starts or stops reading.             *)
LEMMA SameRow ==
  ASSUME UnderWay' = UnderWay, reading' = reading
  PROVE  /\ OnlyLastIsAwaited => OnlyLastIsAwaited'
         /\ Shift' = Shift /\ (OwnIsLast' <=> OwnIsLast) /\ (Idle' <=> Idle)
BY DEF OnlyLastIsAwaited, Shift, OwnIsLast, Idle

LEMMA EmptyRow ==
  ASSUME Len(UnderWay') = 0, pending' = <<>>, wire' = <<>>
  PROVE  LinkInv' /\ Shift' = 0
BY DEF LinkInv, OnlyLastIsAwaited, LostWithTheRest, DeadServerHoldsNothing, Shift, OwnIsLast

(* A call starts: the shift stays, or the connection is a new one.          *)
LEMMA LinkStart ==
  ASSUME TypeOK, LinkInv, LateMeansShift, NEW t \in Threads, StartCall(t)
  PROVE  LinkInv' /\ LateMeansShift' /\ OwnAnswers'
<1>1. PICK k \in Kinds : Transmit(t, k) \/ TransmitIntoVoid(t, k) \/ Reconnect(t, k)
  BY StartFacts DEF StartCall
<1>2. Idle /\ handed' = "nothing"
  BY DEF StartCall, MutexFree, Idle
<1>3. /\ \A i \in 1 .. Len(UnderWay) : UnderWay[i].caller = Nobody
      /\ Shift = Len(UnderWay) /\ Len(UnderWay) \in Nat
  BY <1>2, NobodyWaits, Row
<1>4. OwnAnswers'
  BY <1>2 DEF OwnAnswers
<1>5. Request(k, t).kind = k /\ Request(k, t).caller = t /\ t # Nobody
      /\ Request(k, t) \in Requests
  BY DEF Request, Threads, Nobody, Requests
<1>6. CASE Transmit(t, k)
  <2>1. /\ UnderWay' = Append(UnderWay, Request(k, t))
        /\ UnderWay \in Seq(Requests)
    BY <1>6, RowAfterTransmit, Row
  <2>2. /\ Len(UnderWay') = Len(UnderWay) + 1
        /\ \A i \in 1 .. Len(UnderWay) : UnderWay'[i] = UnderWay[i]
        /\ UnderWay'[Len(UnderWay) + 1] = Request(k, t)
    BY <1>5, <2>1, AppendProperties
  <2>3. reading'[t] = k /\ peer' = "there" /\ late' = late
    BY <1>6 DEF Transmit, TypeOK
  <2>4. OnlyLastIsAwaited'
    <3>1. SUFFICES ASSUME NEW i \in 1 .. (Len(UnderWay) + 1), UnderWay'[i].caller # Nobody
                   PROVE  /\ i = Len(UnderWay) + 1
                          /\ reading'[UnderWay'[i].caller] = UnderWay'[i].kind
      BY <2>2 DEF OnlyLastIsAwaited
    <3>2. i \notin 1 .. Len(UnderWay)
      BY <1>3, <2>2, <3>1
    <3>3. i = Len(UnderWay) + 1
      BY <1>3, <3>1, <3>2
    <3>4. QED
      BY <1>5, <2>2, <2>3, <3>3
  <2>5. OwnIsLast'
    BY <1>3, <1>5, <2>2 DEF OwnIsLast
  <2>6. Shift' = Shift
    BY <1>3, <2>2, <2>5 DEF Shift
  <2>7. LinkInv'
    BY <2>3, <2>4, <2>5 DEF LinkInv, LostWithTheRest, DeadServerHoldsNothing
  <2>8. QED
    BY <1>4, <2>3, <2>6, <2>7 DEF LateMeansShift
<1>7. CASE TransmitIntoVoid(t, k)
  <2>1. /\ UNCHANGED <<wire, pending, rcv, late>>
        /\ pending = <<>> /\ wire = <<>>
    BY <1>7 DEF TransmitIntoVoid, stream, LinkInv, DeadServerHoldsNothing
  <2>2. UnderWay' = UnderWay
    BY <2>1 DEF UnderWay
  <2>3. LinkInv'
    BY <1>3, <2>1, <2>2
    DEF LinkInv, OnlyLastIsAwaited, LostWithTheRest, DeadServerHoldsNothing
  <2>4. Shift' = Shift
    BY <2>2 DEF Shift, OwnIsLast
  <2>5. QED
    BY <1>4, <2>1, <2>3, <2>4 DEF LateMeansShift
<1>8. CASE Reconnect(t, k) /\ up
  <2>1. SendOnNewConnection(Request(k, t)) /\ reading'[t] = k
    BY <1>8 DEF Reconnect, TypeOK
  <2>2. UnderWay' = <<Request(k, t)>> /\ peer' = "there"
    BY <1>5, <2>1, RowAfterSend DEF SendOnNewConnection
  <2>3. Len(UnderWay') = 1 /\ UnderWay'[1] = Request(k, t)
    BY <2>2
  <2>4. OwnIsLast' /\ Shift' = 0
    BY <1>5, <2>3 DEF OwnIsLast, Shift
  <2>5. OnlyLastIsAwaited'
    BY <1>5, <2>1, <2>3 DEF OnlyLastIsAwaited
  <2>6. QED
    BY <1>4, <2>2, <2>4, <2>5
    DEF LinkInv, LostWithTheRest, DeadServerHoldsNothing, LateMeansShift
<1>9. CASE Reconnect(t, k) /\ ~up
  <2>1. CloseConnection
    BY <1>9 DEF Reconnect
  <2>2. Len(UnderWay') = 0 /\ pending' = <<>> /\ wire' = <<>>
    BY <2>1, RowAfterClose DEF CloseConnection, AtServer
  <2>3. QED
    BY <1>4, <2>2, EmptyRow DEF LateMeansShift
<1>10. QED
  BY <1>1, <1>6, <1>7, <1>8, <1>9

(* A call ends: with its own answer, unless an earlier call was late.       *)
LEMMA LinkFinish ==
  ASSUME TypeOK, LinkInv, LateMeansShift, OwnAnswers, NEW t \in Threads, Finish(t)
  PROVE  LinkInv' /\ LateMeansShift' /\ OwnAnswers'
<1>1. reading[t] # "none"
  BY DEF Finish, Read, GiveUp
<1>2. CASE /\ newline' = FALSE
           /\ UNCHANGED <<sock, peer, wire, pending, newlineDue, rcv, late, reading,
                          handed>>
  <2>1. UnderWay' = UnderWay
    BY <1>2 DEF UnderWay
  <2>2. QED
    BY <1>2, <2>1, SameRow
    DEF LinkInv, LostWithTheRest, DeadServerHoldsNothing, LateMeansShift, OwnAnswers
<1>3. CASE CloseConnection /\ handed' \in {"nothing", handed}
  <2>1. Len(UnderWay') = 0 /\ pending' = <<>> /\ wire' = <<>> /\ late' = late
    BY <1>3, RowAfterClose DEF CloseConnection, AtServer
  <2>2. QED
    BY <1>3, <2>1, EmptyRow DEF LateMeansShift, OwnAnswers
<1>4. CASE KeepConnection(t) /\ reading' = [reading EXCEPT ![t] = "none"]
  <2>1. /\ Idle' /\ ~OwnIsLast' /\ Shift' = Len(UnderWay')
        /\ \A i \in 1 .. Len(UnderWay') : UnderWay'[i].caller = Nobody
        /\ rcv # <<>> => Shift' <= Shift
    BY <1>1, <1>4, ShiftAfterKeep
  <2>2. DeadServerHoldsNothing'
    <3>1. SUFFICES ASSUME peer' # "there" PROVE pending' = <<>> /\ wire' = <<>>
      BY DEF DeadServerHoldsNothing
    <3>2. pending = <<>> /\ wire = <<>> /\ pending' \in Seq(Requests) /\ wire' \in Seq(Requests)
      BY <1>4, <3>1, RowAfterKeep DEF KeepConnection, LinkInv, DeadServerHoldsNothing
    <3>3. pending' = Forget(t, pending) /\ wire' = Forget(t, wire)
      BY <1>4 DEF KeepConnection
    <3>4. Len(pending') = 0 /\ Len(wire') = 0
      BY <3>2, <3>3, ForgetProperties, EmptySeq DEF TypeOK
    <3>5. QED
      BY <3>2, <3>4, EmptySeq
  <2>3. LinkInv'
    BY <2>1, <2>2 DEF LinkInv, OnlyLastIsAwaited, LostWithTheRest
  <2>4. LateMeansShift'
    <3>1. SUFFICES ASSUME ~late' PROVE Shift' = 0
      BY DEF LateMeansShift
    <3>2. CASE rcv # <<>>
      <4>1. late' = late
        BY <3>2 DEF Finish, Read, GiveUp, UnusableAnswer, CloseConnection
      <4>2. Shift = 0 /\ Shift' <= 0
        BY <2>1, <3>1, <3>2, <4>1 DEF LateMeansShift
      <4>3. Len(UnderWay') \in Nat
        BY <1>4, RowAfterKeep, LenProperties
      <4>4. QED
        BY <2>1, <4>2, <4>3
    <3>3. CASE rcv = <<>>
      <4>1. Read(t) => reading' = reading
        BY <3>3 DEF Read
      <4>2. GiveUp(t)
        BY <1>1, <1>4, <4>1 DEF Finish, TypeOK
      <4>3. CloseConnection
        BY <3>1, <4>2 DEF GiveUp, ParseOldAnswer
      <4>4. QED
        BY <2>1, <4>3, RowAfterClose
    <3>4. QED
      BY <3>2, <3>3
  <2>5. OwnAnswers'
    <3>1. SUFFICES ASSUME handed' \in {"foreign", "old"}, ~late' PROVE FALSE
      BY DEF OwnAnswers
    <3>2. CASE handed' = handed
      <4>1. late
        BY <3>1, <3>2 DEF OwnAnswers
      <4>2. late'
        BY <4>1 DEF Finish, Read, GiveUp, ParseOldAnswer, UnusableAnswer, CloseConnection
      <4>3. QED
        BY <3>1, <4>2
    <3>3. CASE handed' # handed
      <4>1. rcv # <<>> /\ Head(rcv).caller # t /\ late' = late
        BY <3>1, <3>3
        DEF Finish, Read, GiveUp, ParseOldAnswer, UnusableAnswer, CloseConnection
      <4>2. Shift = 0
        BY <3>1, <4>1 DEF LateMeansShift
      <4>3. Len(rcv) >= 1 /\ Head(rcv) = rcv[1] /\ 1 \in 1 .. Len(rcv)
        BY <4>1, EmptySeq, HeadTailProperties, Row DEF TypeOK
      <4>4. UnderWay[1] = Head(rcv) /\ Len(UnderWay) >= 1
        BY <4>3, Row
      <4>5. OwnIsLast /\ Len(UnderWay) = 1
        BY <4>2, <4>4, Row DEF Shift
      <4>6. UnderWay[1].caller # Nobody
        BY <4>5 DEF OwnIsLast
      <4>7. 1 \in 1 .. Len(UnderWay)
        BY <4>5
      <4>8. UnderWay[1].caller = t
        BY <1>1, <4>6, <4>7, AwaitedByReader
      <4>9. QED
        BY <4>1, <4>4, <4>8
    <3>4. QED
      BY <3>2, <3>3
  <2>6. QED
    BY <2>3, <2>4, <2>5
<1>5. QED
  BY <1>2, <1>3, <1>4 DEF Finish, Read, GiveUp, ParseOldAnswer, UnusableAnswer

LEMMA LinkServer ==
  ASSUME TypeOK, LinkInv, LateMeansShift, OwnAnswers, Server \/ UNCHANGED vars
  PROVE  LinkInv' /\ LateMeansShift' /\ OwnAnswers'
<1>1. reading' = reading /\ late' = late /\ handed' = handed
  BY DEF Server, Serve, ServeNewline, ServerStops, ServerStarts, vars, connection
<1>2. CASE Serve
  <2>1. UnderWay' = UnderWay /\ peer' = "there" /\ wire # <<>>
    BY <1>2, RowAfterServe DEF Serve
  <2>2. Idle \/ OwnIsLast
    BY <2>1 DEF LinkInv, LostWithTheRest
  <2>3. QED
    BY <1>1, <2>1, <2>2, SameRow
    DEF LinkInv, LostWithTheRest, DeadServerHoldsNothing, LateMeansShift, OwnAnswers
<1>3. CASE ServerStops
  <2>1. /\ pending' = <<>> /\ wire' = <<>>
        /\ Len(UnderWay') \in Nat /\ Len(UnderWay') <= Len(UnderWay)
        /\ \A i \in 1 .. Len(UnderWay') : UnderWay'[i] = UnderWay[i]
    BY <1>3, RowAfterStop
  <2>2. OnlyLastIsAwaited'
    <3>1. SUFFICES ASSUME NEW i \in 1 .. Len(UnderWay'), UnderWay[i].caller # Nobody
                   PROVE  /\ i = Len(UnderWay')
                          /\ reading[UnderWay[i].caller] = UnderWay[i].kind
      BY <1>1, <2>1 DEF OnlyLastIsAwaited
    <3>2. i \in 1 .. Len(UnderWay)
      BY <2>1, ShiftFacts
    <3>3. i = Len(UnderWay) /\ reading[UnderWay[i].caller] = UnderWay[i].kind
      BY <3>1, <3>2 DEF LinkInv, OnlyLastIsAwaited
    <3>4. QED
      BY <2>1, <3>3
  <2>3. Shift' \in Nat /\ Shift' <= Shift
    BY <1>3, ShiftAfterStop
  <2>4. QED
    BY <1>1, <2>1, <2>2, <2>3
    DEF LinkInv, LostWithTheRest, DeadServerHoldsNothing, LateMeansShift, OwnAnswers
<1>4. CASE ServeNewline \/ ServerStarts \/ UNCHANGED vars
  <2>1. UNCHANGED <<peer, wire, pending, rcv>>
    BY <1>4 DEF ServeNewline, ServerStarts, vars, connection, stream
  <2>2. UnderWay' = UnderWay
    BY <2>1 DEF UnderWay
  <2>3. QED
    BY <1>1, <2>1, <2>2, SameRow
    DEF LinkInv, LostWithTheRest, DeadServerHoldsNothing, LateMeansShift, OwnAnswers
<1>5. QED
  BY <1>2, <1>3, <1>4 DEF Server

LEMMA LinkStep ==
  ASSUME TypeOK, LinkInv, LateMeansShift, OwnAnswers, [Next]_vars
  PROVE  LinkInv' /\ LateMeansShift' /\ OwnAnswers'
BY LinkStart, LinkFinish, LinkServer DEF Next, Call

(***************************************************************************)
(* "Thread safe", for any number of answers under way: a call that succeeds *)
(* hands out its own answer unless this call or an earlier one on this      *)
(* connection came back without its.                                        *)
(***************************************************************************)
THEOREM AnswersAreOwn == Spec => []OwnAnswers
<1> DEFINE I == TypeOK /\ LinkInv /\ LateMeansShift /\ OwnAnswers
<1>1. Init => I
  BY TypeInit, LinkInit
<1>2. I /\ [Next]_vars => I'
  BY TypeStep, LinkStep
<1>3. I => OwnAnswers
  OBVIOUS
<1> HIDE DEF I
<1>4. QED
  BY <1>1, <1>2, <1>3, PTL DEF Spec
-----------------------------------------------------------------------------
(***************************************************************************)
(* How a shift ends.  Position is the read of the round that is under way   *)
(* or next, ToGo the reads before that of dht11.  Per length of the shift   *)
(* the counter clean may run for a round: either the round's request for    *)
(* dht11 is still to be made, or it is under way so near the front that an  *)
(* integer call takes its answer first, and closes.                         *)
(***************************************************************************)
Position ==
  IF reading["telemetry"] = "none" THEN turn
  ELSE IF turn = 1 THEN 6 ELSE turn - 1

ToGo == IF Position <= 3 THEN 3 - Position ELSE 9 - Position

Rounds(n) == 6 * n + 5 - ToGo

RightRead == reading["telemetry"] # "none" => reading["telemetry"] = RoundKinds[Position]

ArrayAhead == \E p \in 1 .. Shift : p <= ToGo /\ UnderWay[p].kind = "array"

Healing ==
  \/ clean = 0 \/ Shift = 0
  \/ clean <= Rounds(behind - Shift)
  \/ clean <= Rounds(behind + 1 - Shift) /\ ArrayAhead

(* Nothing but a call that gives up makes the shift longer.                 *)
NoLonger == Shift <= behind

(* A shift by a whole round or more promises nothing.                       *)
HealingInv == NoLonger /\ (behind < Len(RoundKinds) => Healing)

LEMMA CountFacts ==
  ASSUME TypeOK
  PROVE  behind \in Nat /\ clean \in Nat
BY RoundFacts, RpcLinkAssumption DEF TypeOK

LEMMA PositionFacts ==
  ASSUME TypeOK
  PROVE  Position \in 1 .. 6 /\ ToGo \in 0 .. 5
<1>1. turn \in 1 .. 6
  BY RoundFacts DEF TypeOK
<1>2. Position \in 1 .. 6
  BY <1>1 DEF Position
<1>3. QED
  BY <1>2 DEF ToGo

(* Only the third read of a round asks for an array.                        *)
LEMMA ArrayRead ==
  ASSUME TypeOK
  PROVE  /\ RoundKinds[Position] = "array" <=> ToGo = 0
         /\ RoundKinds[Position] = "int" <=> ToGo # 0
<1>1. Position \in 1 .. 6
  BY PositionFacts
<1>2. /\ RoundKinds[1] = "int" /\ RoundKinds[2] = "int" /\ RoundKinds[3] = "array"
      /\ RoundKinds[4] = "int" /\ RoundKinds[5] = "int" /\ RoundKinds[6] = "int"
  BY DEF RoundKinds
<1>3. \/ Position = 1 \/ Position = 2 \/ Position = 3
      \/ Position = 4 \/ Position = 5 \/ Position = 6
  BY <1>1
<1>4. RoundKinds[Position] = IF Position = 3 THEN "array" ELSE "int"
  BY <1>2, <1>3
<1>5. ToGo = 0 <=> Position = 3
  BY <1>3 DEF ToGo
<1>6. QED
  BY <1>4, <1>5

(* A shorter shift allows a higher count.                                   *)
LEMMA Allowance ==
  ASSUME NEW b \in Nat, NEW c \in Nat, NEW n \in Nat, NEW m \in Nat, NEW g \in 0 .. 5, m <= n
  PROVE  /\ c <= 6 * (b - n) + 5 - g => c <= 6 * (b - m) + 5 - g
         /\ c <= 6 * (b + 1 - n) + 5 - g
              => /\ c <= 6 * (b + 1 - m) + 5 - g
                 /\ m < n => c <= 6 * (b - m) + 5 - g
OBVIOUS

(* One read counted, one read nearer to that of dht11.                      *)
LEMMA OneMoreRead ==
  ASSUME NEW b \in Nat, NEW c \in Nat, NEW d, d = c \/ d = c + 1, NEW m \in Nat,
         NEW g \in 1 .. 5
  PROVE  /\ c <= 6 * (b - m) + 5 - g => d <= 6 * (b - m) + 5 - (g - 1)
         /\ c <= 6 * (b + 1 - m) + 5 - g => d <= 6 * (b + 1 - m) + 5 - (g - 1)
         /\ c = 0 /\ m <= b => d <= 6 * (b - m) + 5 - (g - 1)
OBVIOUS

(* A count that begins again, or a connection without a shift.              *)
LEMMA HealingAgain ==
  ASSUME TypeOK', Shift' \in Nat, Shift' = 0 \/ (clean' = 0 /\ Shift' <= behind')
  PROVE  HealingInv'
<1>1. behind' >= 0
  BY RpcLinkAssumption DEF TypeOK
<1>2. QED
  BY <1>1 DEF HealingInv, NoLonger, Healing

(* A shift that is no longer, the same dht11 request under way or the shift *)
(* shorter: the bound still holds.                                          *)
LEMMA HealingKept ==
  ASSUME TypeOK, LinkInv, HealingInv, UNCHANGED count, ToGo' = ToGo,
         Shift' \in Nat, Shift' <= Shift,
         Shift' < Shift \/ (ArrayAhead => ArrayAhead')
  PROVE  HealingInv'
<1>1. /\ Shift \in Nat /\ ToGo \in 0 .. 5 /\ clean \in Nat /\ behind \in Nat
      /\ clean' = clean /\ behind' = behind
  BY ShiftFacts, PositionFacts, CountFacts DEF count
<1>2. NoLonger'
  BY <1>1 DEF HealingInv, NoLonger
<1>3. SUFFICES ASSUME Healing PROVE Healing'
  BY <1>1, <1>2 DEF HealingInv
<1>4. CASE clean = 0 \/ Shift = 0
  BY <1>1, <1>4 DEF Healing
<1>5. CASE clean <= Rounds(behind - Shift)
  <2>1. clean <= 6 * (behind - Shift') + 5 - ToGo'
    BY <1>1, <1>5, Allowance DEF Rounds
  <2>2. QED
    BY <1>1, <2>1 DEF Healing, Rounds
<1>6. CASE clean <= Rounds(behind + 1 - Shift) /\ ArrayAhead
  <2>1. clean <= 6 * (behind + 1 - Shift') + 5 - ToGo'
    BY <1>1, <1>6, Allowance DEF Rounds
  <2>2. Shift' < Shift => clean <= 6 * (behind - Shift') + 5 - ToGo'
    BY <1>1, <1>6, Allowance DEF Rounds
  <2>3. QED
    BY <1>1, <1>6, <2>1, <2>2 DEF Healing, Rounds
<1>7. QED
  BY <1>3, <1>4, <1>5, <1>6 DEF Healing

LEMMA HealingInit == Init => RightRead /\ HealingInv
<1> SUFFICES ASSUME Init PROVE RightRead /\ HealingInv
  OBVIOUS
<1>1. TypeOK /\ rcv = <<>> /\ pending = <<>> /\ wire = <<>>
  BY TypeInit DEF Init
<1>2. Shift = 0
  BY <1>1, Row, EmptySeq DEF Shift, OwnIsLast
<1>3. QED
  BY <1>2 DEF Init, RightRead, HealingInv, NoLonger, Healing, Threads

(* What does not touch the row from its front keeps the request for dht11.  *)
LEMMA AheadKept ==
  ASSUME Shift' = Shift, ToGo' = ToGo,
         \A i \in 1 .. Shift : UnderWay'[i] = UnderWay[i]
  PROVE  ArrayAhead => ArrayAhead'
BY DEF ArrayAhead

LEMMA HealingStart ==
  ASSUME TypeOK, LinkInv, RightRead, HealingInv, NEW t \in Threads, StartCall(t)
  PROVE  RightRead' /\ HealingInv'
<1>1. PICK k \in KindsOf(t) : Transmit(t, k) \/ TransmitIntoVoid(t, k) \/ Reconnect(t, k)
  BY DEF StartCall
<1>2. k \in Kinds /\ k # "none" /\ t \in {"telemetry", "worker"} /\ "telemetry" \in Threads
  BY <1>1, StartFacts DEF Kinds, Threads
<1>3. /\ Idle /\ turn \in 1 .. 6 /\ NextTurn(t)
      /\ reading["telemetry"] = "none" /\ Position = turn
  BY <1>2, RoundFacts DEF StartCall, MutexFree, Idle, TypeOK, Position
<1>4. ASSUME reading' = [reading EXCEPT ![t] = k]
      PROVE  RightRead' /\ ToGo' = ToGo
  <2>1. CASE t = "telemetry"
    <3>1. turn' = (turn % 6) + 1
      BY <1>3, <2>1, RoundFacts DEF NextTurn
    <3>2. IF turn' = 1 THEN turn = 6 ELSE turn = turn' - 1
      BY <1>3, <3>1
    <3>3. reading'["telemetry"] = k /\ k = RoundKinds[turn]
      BY <1>1, <1>2, <1>4, <2>1 DEF TypeOK, KindsOf
    <3>4. Position' = turn
      BY <1>2, <3>2, <3>3 DEF Position
    <3>5. QED
      BY <1>3, <3>3, <3>4 DEF RightRead, ToGo
  <2>2. CASE t = "worker"
    <3>1. reading'["telemetry"] = "none" /\ turn' = turn
      BY <1>2, <1>3, <1>4, <2>2 DEF TypeOK, NextTurn
    <3>2. Position' = Position
      BY <1>3, <3>1 DEF Position
    <3>3. QED
      BY <3>1, <3>2 DEF RightRead, ToGo
  <2>3. QED
    BY <1>2, <2>1, <2>2
<1>5. CASE Transmit(t, k)
  <2>1. UnderWay' = Append(UnderWay, Request(k, t)) /\ UnderWay \in Seq(Requests)
    BY <1>2, <1>5, RowAfterTransmit, Row
  <2>2. Request(k, t) \in Requests /\ Request(k, t).caller # Nobody
    BY <1>2 DEF Request, Requests, Nobody
  <2>3. /\ Len(UnderWay') = Len(UnderWay) + 1 /\ Len(UnderWay) \in Nat
        /\ \A i \in 1 .. Len(UnderWay) : UnderWay'[i] = UnderWay[i]
        /\ UnderWay'[Len(UnderWay) + 1].caller # Nobody
    BY <2>1, <2>2, AppendProperties, Row
  <2>4. Shift = Len(UnderWay) /\ Shift' = Len(UnderWay)
    BY <1>3, <2>3, NobodyWaits DEF Shift, OwnIsLast
  <2>5. RightRead' /\ ToGo' = ToGo /\ UNCHANGED count
    BY <1>4, <1>5 DEF Transmit
  <2>6. ArrayAhead => ArrayAhead'
    BY <2>3, <2>4, <2>5, AheadKept
  <2>7. Shift' \in Nat /\ Shift' <= Shift
    BY <2>3, <2>4
  <2>8. QED
    BY <2>5, <2>6, <2>7, HealingKept
<1>6. CASE TransmitIntoVoid(t, k)
  <2>1. UnderWay' = UnderWay
    BY <1>6 DEF TransmitIntoVoid, stream, UnderWay
  <2>2. Shift' = Shift /\ Shift \in Nat
    BY <2>1, ShiftFacts DEF Shift, OwnIsLast
  <2>3. RightRead' /\ ToGo' = ToGo /\ UNCHANGED count
    BY <1>4, <1>6 DEF TransmitIntoVoid
  <2>4. ArrayAhead => ArrayAhead'
    BY <2>1, <2>2, <2>3, AheadKept
  <2>5. Shift' \in Nat /\ Shift' <= Shift
    BY <2>2
  <2>6. QED
    BY <2>3, <2>4, <2>5, HealingKept
<1>7. CASE Reconnect(t, k) /\ up
  <2>1. SendOnNewConnection(Request(k, t)) /\ reading' = [reading EXCEPT ![t] = k]
    BY <1>7 DEF Reconnect
  <2>2. Request(k, t) \in Requests /\ Request(k, t).caller # Nobody
    BY <1>2 DEF Request, Requests, Nobody
  <2>3. UnderWay' = <<Request(k, t)>>
    BY <2>1, <2>2, RowAfterSend
  <2>4. Shift' = 0
    BY <2>2, <2>3 DEF Shift, OwnIsLast
  <2>5. TypeOK'
    BY TypeStep DEF Next, Call
  <2>6. QED
    BY <1>4, <2>1, <2>4, <2>5, HealingAgain
<1>8. CASE Reconnect(t, k) /\ ~up
  <2>1. CloseConnection /\ reading' = reading
    BY <1>8 DEF Reconnect
  <2>2. Shift' = 0
    BY <2>1, RowAfterClose DEF Shift, OwnIsLast
  <2>3. TypeOK'
    BY TypeStep DEF Next, Call
  <2>4. QED
    BY <1>3, <2>1, <2>2, <2>3, HealingAgain DEF RightRead
<1>9. QED
  BY <1>1, <1>5, <1>6, <1>7, <1>8

LEMMA HealingServer ==
  ASSUME TypeOK, LinkInv, RightRead, HealingInv, Server \/ UNCHANGED vars
  PROVE  RightRead' /\ HealingInv'
<1>1. reading' = reading /\ turn' = turn /\ UNCHANGED count
  BY DEF Server, Serve, ServeNewline, ServerStops, ServerStarts, vars
<1>2. RightRead' /\ ToGo' = ToGo
  BY <1>1 DEF RightRead, Position, ToGo
<1>3. CASE ServerStops
  <2>1. Shift' \in Nat /\ Shift' <= Shift
    BY <1>3, ShiftAfterStop
  <2>2. /\ Len(UnderWay') \in Nat
        /\ \A i \in 1 .. Len(UnderWay') : UnderWay'[i] = UnderWay[i]
    BY <1>3, RowAfterStop
  <2>3. Shift' <= Len(UnderWay')
    BY <2>2 DEF Shift, OwnIsLast
  <2>4. CASE Shift' = Shift
    <3>1. \A i \in 1 .. Shift : UnderWay'[i] = UnderWay[i]
      BY <2>1, <2>2, <2>3, <2>4
    <3>2. QED
      BY <1>1, <1>2, <2>1, <2>4, <3>1, AheadKept, HealingKept
  <2>5. CASE Shift' # Shift
    <3>1. Shift' < Shift
      BY <2>1, <2>5, ShiftFacts
    <3>2. QED
      BY <1>1, <1>2, <2>1, <3>1, HealingKept
  <2>6. QED
    BY <2>4, <2>5
<1>4. CASE ~ServerStops
  <2>1. UnderWay' = UnderWay
    <3>1. Serve => UnderWay' = UnderWay
      BY RowAfterServe
    <3>2. ServeNewline \/ ServerStarts \/ UNCHANGED vars => UNCHANGED <<rcv, pending, wire>>
      BY DEF ServeNewline, ServerStarts, vars, connection, stream
    <3>3. QED
      BY <1>4, <3>1, <3>2 DEF Server, UnderWay
  <2>2. Shift' = Shift /\ Shift \in Nat
    BY <2>1, ShiftFacts DEF Shift, OwnIsLast
  <2>3. ArrayAhead => ArrayAhead'
    BY <1>2, <2>1, <2>2, AheadKept
  <2>4. Shift' \in Nat /\ Shift' <= Shift
    BY <2>2
  <2>5. QED
    BY <1>1, <1>2, <2>3, <2>4, HealingKept
<1>5. QED
  BY <1>3, <1>4

(***************************************************************************)
(* A call reads an answer and keeps the connection.  n answers leave the    *)
(* row, its own request, if still there, joins the shift.                   *)
(***************************************************************************)
LEMMA AnswerRead ==
  ASSUME TypeOK, LinkInv, NEW t \in Threads, reading[t] # "none", rcv # <<>>,
         KeepConnection(t), reading' = [reading EXCEPT ![t] = "none"], Shift' >= 1
  PROVE  /\ Len(rcv) \in Nat \ {0} /\ Shift \in Nat /\ Shift' \in Nat
         /\ OwnIsLast
         /\ Shift' = Shift + 1 - Len(rcv)
         /\ UnderWay[1] = Head(rcv)
         /\ \A i \in 1 .. Shift' : UnderWay'[i].kind = UnderWay[i + Len(rcv)].kind
         /\ UnderWay'[Shift'].kind = reading[t]
<1>1. /\ OwnIsLast /\ Shift' = Len(UnderWay') /\ Shift' <= Shift
  BY ShiftAfterKeep
<1>2. /\ Len(UnderWay') = Len(UnderWay) - Len(rcv) /\ Len(UnderWay') \in Nat
      /\ \A i \in 1 .. Len(UnderWay') : UnderWay'[i].kind = UnderWay[i + Len(rcv)].kind
  BY RowAfterKeep, LenProperties
<1>3. Shift \in Nat /\ Shift = Len(UnderWay) - 1
  BY <1>1, ShiftFacts
<1>4. /\ Len(rcv) \in Nat \ {0} /\ Head(rcv) = rcv[1] /\ 1 \in 1 .. Len(rcv)
  BY Row, EmptySeq, HeadTailProperties DEF TypeOK
<1>5. UnderWay[1] = Head(rcv)
  BY <1>4, Row
<1>6. UnderWay'[Shift'].kind = reading[t]
  <2>1. Len(UnderWay) \in 1 .. Len(UnderWay) /\ UnderWay[Len(UnderWay)].caller # Nobody
    BY <1>1, Row DEF OwnIsLast
  <2>2. /\ UnderWay[Len(UnderWay)].caller = t
        /\ reading[UnderWay[Len(UnderWay)].caller] = UnderWay[Len(UnderWay)].kind
    BY <2>1, AwaitedByReader DEF LinkInv, OnlyLastIsAwaited
  <2>3. Shift' \in 1 .. Len(UnderWay') /\ Shift' + Len(rcv) = Len(UnderWay)
    BY <1>1, <1>2, <1>3, <1>4
  <2>4. QED
    BY <1>2, <2>2, <2>3
<1>7. QED
  BY <1>1, <1>2, <1>3, <1>4, <1>5, <1>6

(***************************************************************************)
(* An integer call that keeps the connection read an integer first.  If the *)
(* request for dht11 was under way it is still, nearer to the front by the  *)
(* answers read, or the call dropped it and the shift is shorter.           *)
(***************************************************************************)
LEMMA ArrayComesNearer ==
  ASSUME TypeOK, LinkInv, NEW t \in Threads, reading[t] # "none", rcv # <<>>,
         KeepConnection(t), reading' = [reading EXCEPT ![t] = "none"], Shift' >= 1,
         Head(rcv).kind = "int", ArrayAhead
  PROVE  \/ Shift' < Shift
         \/ \E p \in 1 .. Shift' : p <= ToGo - 1 /\ UnderWay'[p].kind = "array"
<1> DEFINE n == Len(rcv)
<1>1. /\ n \in Nat \ {0} /\ Shift \in Nat /\ Shift' = Shift + 1 - n
      /\ UnderWay[1].kind = "int"
      /\ \A i \in 1 .. Shift' : UnderWay'[i].kind = UnderWay[i + n].kind
  <2>1. /\ Len(rcv) \in Nat \ {0} /\ Shift \in Nat /\ Shift' = Shift + 1 - Len(rcv)
        /\ UnderWay[1] = Head(rcv)
    BY AnswerRead
  <2>2. \A i \in 1 .. Shift' : UnderWay'[i].kind = UnderWay[i + Len(rcv)].kind
    BY AnswerRead
  <2>3. QED
    BY <2>1, <2>2
<1>2. PICK p \in 1 .. Shift : p <= ToGo /\ UnderWay[p].kind = "array"
  BY DEF ArrayAhead
<1> HIDE DEF n
<1>3. p # 1 /\ ToGo \in 0 .. 5
  BY <1>1, <1>2, PositionFacts
<1>4. CASE p > n
  <2>1. p - n \in 1 .. Shift' /\ p - n <= ToGo - 1 /\ (p - n) + n = p
    BY <1>1, <1>2, <1>3, <1>4
  <2>2. UnderWay'[p - n].kind = "array"
    BY <1>1, <1>2, <2>1
  <2>3. QED
    BY <2>1, <2>2
<1>5. CASE ~ (p > n)
  BY <1>1, <1>2, <1>3, <1>5
<1>6. QED
  BY <1>4, <1>5

(* The worker mixes in an integer call: the count and the round stay.       *)
LEMMA WorkerReadsInt ==
  ASSUME TypeOK, LinkInv, HealingInv, reading["worker"] # "none", rcv # <<>>,
         KeepConnection("worker"), reading' = [reading EXCEPT !["worker"] = "none"],
         Shift' >= 1, Head(rcv).kind = "int", UNCHANGED count, turn' = turn
  PROVE  HealingInv'
<1>1. "worker" \in Threads /\ "telemetry" \in Threads
  BY DEF Threads
<1>2. Shift' <= Shift /\ Shift' \in Nat
  BY <1>1, ShiftAfterKeep, AnswerRead
<1>3. ToGo' = ToGo
  BY <1>1 DEF TypeOK, Position, ToGo
<1>4. ArrayAhead => Shift' < Shift \/ ArrayAhead'
  <2>1. SUFFICES ASSUME ArrayAhead PROVE Shift' < Shift \/ ArrayAhead'
    OBVIOUS
  <2>2. \/ Shift' < Shift
        \/ \E p \in 1 .. Shift' : p <= ToGo - 1 /\ UnderWay'[p].kind = "array"
    BY <1>1, <2>1, ArrayComesNearer
  <2>3. ASSUME NEW p \in 1 .. Shift', p <= ToGo - 1 PROVE p <= ToGo
    BY <1>2, <2>3, PositionFacts
  <2>4. QED
    BY <1>3, <2>2, <2>3 DEF ArrayAhead
<1>5. QED
  BY <1>2, <1>3, <1>4, HealingKept

(* Telemetry's next read of the round.                                      *)
LEMMA NextPosition ==
  ASSUME TypeOK, reading["telemetry"] # "none", turn' = turn,
         reading' = [reading EXCEPT !["telemetry"] = "none"]
  PROVE  ToGo' = IF ToGo = 0 THEN 5 ELSE ToGo - 1
<1>1. turn \in 1 .. 6 /\ reading'["telemetry"] = "none"
  BY RoundFacts DEF TypeOK, Threads
<1>2. Position' = turn /\ Position = IF turn = 1 THEN 6 ELSE turn - 1
  BY <1>1 DEF Position
<1>3. \/ turn = 1 \/ turn = 2 \/ turn = 3 \/ turn = 4 \/ turn = 5 \/ turn = 6
  BY <1>1
<1>4. QED
  BY <1>2, <1>3 DEF ToGo

LEMMA TelemetryReadsInt ==
  ASSUME TypeOK, LinkInv, HealingInv, reading["telemetry"] # "none", rcv # <<>>,
         KeepConnection("telemetry"), reading' = [reading EXCEPT !["telemetry"] = "none"],
         Shift' >= 1, Head(rcv).kind = "int", ToGo # 0, turn' = turn,
         behind' = behind, clean' = clean \/ clean' = clean + 1
  PROVE  HealingInv'
<1>1. "telemetry" \in Threads
  BY DEF Threads
<1>2. /\ Shift' <= Shift /\ Shift' \in Nat /\ Shift \in Nat /\ Shift <= behind
  BY <1>1, ShiftAfterKeep, AnswerRead DEF HealingInv, NoLonger
<1>3. /\ ToGo' = ToGo - 1 /\ ToGo \in 1 .. 5 /\ ToGo \in 0 .. 5 /\ clean \in Nat /\ behind \in Nat
      /\ NoLonger'
  BY <1>2, NextPosition, PositionFacts, CountFacts DEF NoLonger
<1> SUFFICES ASSUME Healing PROVE Healing'
  BY <1>3, RoundFacts DEF HealingInv
<1>4. CASE clean = 0 \/ Shift = 0
  <2>1. clean = 0 /\ Shift' <= behind
    BY <1>2, <1>3, <1>4
  <2>2. clean' <= 6 * (behind - Shift') + 5 - ToGo'
    BY <1>2, <1>3, <2>1, OneMoreRead
  <2>3. QED
    BY <1>3, <2>2 DEF Healing, Rounds
<1>5. CASE clean <= Rounds(behind - Shift)
  <2>1. clean <= 6 * (behind - Shift') + 5 - ToGo
    BY <1>2, <1>3, <1>5, Allowance DEF Rounds
  <2>2. clean' <= 6 * (behind - Shift') + 5 - ToGo'
    BY <1>2, <1>3, <2>1, OneMoreRead
  <2>3. QED
    BY <1>3, <2>2 DEF Healing, Rounds
<1>6. CASE clean <= Rounds(behind + 1 - Shift) /\ ArrayAhead
  <2>1. /\ clean <= 6 * (behind + 1 - Shift') + 5 - ToGo
        /\ Shift' < Shift => clean <= 6 * (behind - Shift') + 5 - ToGo
    BY <1>2, <1>3, <1>6, Allowance DEF Rounds
  <2>2. CASE Shift' < Shift
    <3>1. clean' <= 6 * (behind - Shift') + 5 - ToGo'
      BY <1>2, <1>3, <2>1, <2>2, OneMoreRead
    <3>2. QED
      BY <3>1 DEF Healing, Rounds
  <2>3. CASE ~ (Shift' < Shift)
    <3>1. \E p \in 1 .. Shift' : p <= ToGo - 1 /\ UnderWay'[p].kind = "array"
      BY <1>1, <1>6, <2>3, ArrayComesNearer
    <3>2. ArrayAhead'
      BY <1>3, <3>1 DEF ArrayAhead
    <3>3. clean' <= 6 * (behind + 1 - Shift') + 5 - ToGo'
      BY <1>2, <1>3, <2>1, OneMoreRead
    <3>4. QED
      BY <3>2, <3>3 DEF Healing, Rounds
  <2>4. QED
    BY <2>2, <2>3
<1>7. QED
  BY <1>4, <1>5, <1>6 DEF Healing

(* The read of dht11 ends: its own request is the last of the shift now,    *)
(* and nearer than a round, because the shift is shorter than a round.      *)
LEMMA TelemetryReadsArray ==
  ASSUME TypeOK, LinkInv, HealingInv, reading["telemetry"] = "array", rcv # <<>>,
         KeepConnection("telemetry"), reading' = [reading EXCEPT !["telemetry"] = "none"],
         Shift' >= 1, ToGo = 0, turn' = turn,
         behind' = behind, clean' = clean \/ clean' = clean + 1
  PROVE  HealingInv'
<1>1. "telemetry" \in Threads /\ reading["telemetry"] # "none"
  BY DEF Threads
<1>2. /\ Shift' <= Shift /\ Shift' \in Nat /\ Shift \in Nat /\ Shift <= behind
      /\ UnderWay'[Shift'].kind = "array"
  BY <1>1, ShiftAfterKeep, AnswerRead DEF HealingInv, NoLonger
<1>3. ToGo' = 5 /\ clean \in Nat /\ behind \in Nat /\ NoLonger'
  BY <1>1, <1>2, NextPosition, CountFacts DEF NoLonger
<1> SUFFICES ASSUME Healing, behind \in 0 .. 5 PROVE Healing'
  BY <1>3, RoundFacts DEF HealingInv
<1>4. ArrayAhead'
  <2>1. Shift' \in 1 .. Shift' /\ Shift' <= ToGo'
    BY <1>2, <1>3
  <2>2. QED
    BY <1>2, <2>1 DEF ArrayAhead
<1>5. ~ArrayAhead
  BY <1>2 DEF ArrayAhead
<1>6. clean = 0 \/ clean <= 6 * (behind - Shift) + 5
  <2>1. Shift # 0
    BY <1>2
  <2>2. clean <= Rounds(behind - Shift) => clean <= 6 * (behind - Shift) + 5
    BY <1>2, <1>3 DEF Rounds
  <2>3. QED
    BY <1>5, <2>1, <2>2 DEF Healing
<1>7. clean' <= 6 * (behind + 1 - Shift') + 5 - ToGo'
  BY <1>2, <1>3, <1>6
<1>8. QED
  BY <1>4, <1>7 DEF Healing, Rounds

LEMMA TypeAfterFinish ==
  ASSUME TypeOK, NEW t \in Threads, Finish(t)
  PROVE  TypeOK'
BY TypeStep DEF Next

LEMMA HealingFinish ==
  ASSUME TypeOK, LinkInv, RightRead, HealingInv, NEW t \in Threads, Finish(t)
  PROVE  RightRead' /\ HealingInv'
<1>1. /\ reading[t] # "none" /\ turn' = turn /\ t \in {"telemetry", "worker"}
      /\ \A u \in Threads : u # t => reading[u] = "none"
      /\ "telemetry" \in Threads
  BY FinishTypes DEF Finish, Read, GiveUp, Threads
<1>2. reading' \in {reading, [reading EXCEPT ![t] = "none"]}
  BY DEF Finish, Read, GiveUp
<1>3. RightRead'
  <2>1. CASE reading' = reading
    BY <1>1, <2>1 DEF RightRead, Position
  <2>2. CASE reading' = [reading EXCEPT ![t] = "none"]
    BY <1>1, <2>2 DEF RightRead, TypeOK
  <2>3. QED
    BY <1>2, <2>1, <2>2
<1>4. CASE UNCHANGED <<wire, pending, rcv, reading, count>>
  <2>1. UnderWay' = UnderWay /\ ToGo' = ToGo
    BY <1>1, <1>4 DEF UnderWay, Position, ToGo
  <2>2. Shift' = Shift /\ Shift \in Nat
    BY <2>1, ShiftFacts DEF Shift, OwnIsLast
  <2>3. ArrayAhead => ArrayAhead'
    BY <2>1, <2>2, AheadKept
  <2>4. Shift' \in Nat /\ Shift' <= Shift
    BY <2>2
  <2>5. QED
    BY <1>3, <1>4, <2>1, <2>3, <2>4, HealingKept
<1>5. CASE CloseConnection
  <2>1. Shift' = 0
    BY <1>5, RowAfterClose DEF Shift, OwnIsLast
  <2>2. QED
    BY <1>3, <2>1, TypeAfterFinish, HealingAgain
<1>6. CASE KeepConnection(t) /\ CountAgain /\ reading' = [reading EXCEPT ![t] = "none"]
  <2>1. Shift' = Len(UnderWay') /\ Len(UnderWay') \in Nat
    BY <1>1, <1>6, ShiftAfterKeep, RowAfterKeep, LenProperties
  <2>2. clean' = 0 /\ Shift' <= behind'
    BY <1>6, <2>1 DEF CountAgain
  <2>3. QED
    BY <1>3, <2>1, <2>2, TypeAfterFinish, HealingAgain
<1>7. CASE /\ rcv # <<>> /\ KeepConnection(t) /\ CountClean(t)
           /\ reading' = [reading EXCEPT ![t] = "none"]
           /\ Head(rcv).kind = "int" \/ reading[t] = "array"
  <2>1. CASE Shift' = 0
    BY <1>3, <2>1, TypeAfterFinish, HealingAgain
  <2>2. CASE Shift' # 0 /\ t = "worker"
    <3>1. Shift' >= 1
      <4>1. Shift' = Len(UnderWay') /\ Len(UnderWay') \in Nat
        BY <1>1, <1>7, ShiftAfterKeep, RowAfterKeep, LenProperties
      <4>2. QED
        BY <4>1, <2>2
    <3>2. CASE reading[t] = "array"
      BY <1>6, <1>7, <2>2, <3>2 DEF CountClean
    <3>3. CASE reading[t] # "array"
      <4>1. UNCHANGED count
        BY <1>7, <2>2, <3>3 DEF CountClean
      <4>2. QED
        BY <1>1, <1>3, <1>7, <2>2, <3>1, <3>3, <4>1, WorkerReadsInt
    <3>4. QED
      BY <3>2, <3>3
  <2>3. CASE Shift' # 0 /\ t = "telemetry"
    <3>1. Shift' >= 1
      <4>1. Shift' = Len(UnderWay') /\ Len(UnderWay') \in Nat
        BY <1>1, <1>7, ShiftAfterKeep, RowAfterKeep, LenProperties
      <4>2. QED
        BY <4>1, <2>3
    <3>2. behind' = behind /\ (clean' = clean \/ clean' = clean + 1)
      BY <1>7, <2>3 DEF CountClean
    <3>3. reading["telemetry"] = RoundKinds[Position]
      BY <1>1, <2>3 DEF RightRead
    <3>4. CASE ToGo = 0
      BY <1>1, <1>3, <1>7, <2>3, <3>1, <3>2, <3>3, <3>4, ArrayRead, TelemetryReadsArray
    <3>5. CASE ToGo # 0
      <4>1. reading["telemetry"] = "int"
        BY <3>3, <3>5, ArrayRead
      <4>2. Head(rcv).kind = "int"
        BY <1>7, <2>3, <4>1
      <4>3. QED
        BY <1>1, <1>3, <1>7, <2>3, <3>1, <3>2, <3>5, <4>2, TelemetryReadsInt
    <3>6. QED
      BY <3>4, <3>5
  <2>4. QED
    BY <1>1, <2>1, <2>2, <2>3
<1>8. CASE GiveUp(t)
  BY <1>5, <1>6, <1>8 DEF GiveUp, ParseOldAnswer
<1>9. CASE Read(t)
  <2>1. reading[t] \in {"int", "array"}
    BY <1>1 DEF TypeOK, Kinds
  <2>2. QED
    BY <1>4, <1>5, <1>7, <1>9, <2>1 DEF Read, UnusableAnswer
<1>10. QED
  BY <1>8, <1>9 DEF Finish

LEMMA HealingStep ==
  ASSUME TypeOK, LinkInv, RightRead, HealingInv, [Next]_vars
  PROVE  RightRead' /\ HealingInv'
BY HealingStart, HealingFinish, HealingServer DEF Next, Call

(* The counter is full: no shift is possible any more.                      *)
LEMMA NothingLeftOver ==
  ASSUME TypeOK, LinkInv, HealingInv, behind < Len(RoundKinds), clean = HealingCalls
  PROVE  Leftovers = {}
<1>1. /\ Shift \in Nat /\ ToGo \in 0 .. 5 /\ behind \in Nat
      /\ clean = 6 * (behind + 1) /\ Healing
  BY ShiftFacts, PositionFacts, RoundFacts, CountFacts DEF HealingInv
<1>2. Shift = 0
  BY <1>1 DEF Healing, Rounds
<1>3. UnderWay \in Seq(Requests) /\ Len(UnderWay) \in Nat /\ DOMAIN UnderWay = 1 .. Len(UnderWay)
  BY Row, LenProperties
<1>4. CASE OwnIsLast
  <2>1. Len(UnderWay) = 1 /\ UnderWay[1].caller # Nobody
    BY <1>2, <1>3, <1>4 DEF Shift, OwnIsLast
  <2>2. QED
    BY <1>3, <2>1 DEF Leftovers
<1>5. CASE ~OwnIsLast
  <2>1. Len(UnderWay) = 0
    BY <1>2, <1>5 DEF Shift
  <2>2. QED
    BY <1>3, <2>1 DEF Leftovers
<1>6. QED
  BY <1>4, <1>5

(***************************************************************************)
(* Answers that are shifted by less than a round, when the last call gave   *)
(* up or the worker last read dht11, are back in place after one more round *)
(* of telemetry reads than the shift was long, whatever integer calls the   *)
(* worker mixes in and whenever the server stops.  It holds for every bound *)
(* on what is under way, and the bound plays no part in it.  A longer shift *)
(* is another matter: an answer of dht11 that is a whole round late is read *)
(* by the next dht11_read, which does not mind.                             *)
(***************************************************************************)
THEOREM ShiftsHeal == Spec => []HealedInTime
<1> DEFINE I == /\ TypeOK /\ LinkInv /\ LateMeansShift /\ OwnAnswers
                /\ RightRead /\ HealingInv
<1>1. Init => I
  BY TypeInit, LinkInit, HealingInit
<1>2. I /\ [Next]_vars => I'
  BY TypeStep, LinkStep, HealingStep
<1>3. I => HealedInTime
  BY NothingLeftOver DEF HealedInTime
<1> HIDE DEF I
<1>4. QED
  BY <1>1, <1>2, <1>3, PTL DEF Spec
=============================================================================
