--------------------------- MODULE ServerLifecycle ---------------------------
(***************************************************************************)
(* The end of lesson5/rpc_server: a signal runs cleanup_resources on the    *)
(* thread it interrupts, the others go on, and exit runs it a second time.  *)
(* The threads are the RPC loop of main, the HTTP thread, the thread that   *)
(* feeds the watchdog and the watchdog's monitor.  A thread blocks a signal *)
(* only while its own handler runs: the next one, or SIGTERM after SIGINT,  *)
(* runs the cleanup on another thread at the same time, or anew on top of   *)
(* the one it interrupts.                                                   *)
(*                                                                          *)
(* Abstracted: a request is one that uses the heap and may set a relay; a   *)
(* write to a pin succeeds while the pin is exported; a signal that hits a  *)
(* thread in its cleanup hits it between two steps.  Time: a Tick is a few  *)
(* seconds in which nobody has anything to do at once; it is short of the   *)
(* feeding interval, which is short of the watchdog's 30 seconds.           *)
(***************************************************************************)
EXTENDS Integers

CONSTANTS
  ServerTimeout,   \* ticks without a feed after which the watchdog fires
  MaxSignals,      \* bound: signals sent
  Served           \* bound: which of loop and http get requests

VARIABLES
  doing,           \* what each thread does next
  lockedBy,        \* who holds the watchdog's mutex and the heap's
  stage,           \* where each thread is in cleanup_resources
  leaving,         \* exit has called the function registered by atexit
  freed,           \* the HTTP handlers are freed
  httpRunning, feedRunning, watchdogRunning,
  level, exported, \* the relays' pins
  unfed,           \* now - last_feed_time
  fired,           \* the watchdog's monitor found the time exceeded
  off, late,       \* history: relays a cleanup switched off; set again after that
  signals,         \* how many signals have come
  server           \* up, exited; aborted in a double free

serverVars == <<doing, lockedBy, stage, leaving, freed, httpRunning, feedRunning,
                watchdogRunning, level, exported, unfed, fired, off, late, signals, server>>
flags == <<freed, httpRunning, feedRunning, watchdogRunning>>
cleaning == <<stage, leaving, flags, signals>>
pins == <<level, exported, off, late>>

ServerThreads == {"loop", "http", "feeder", "monitor"}
NoThread == "nobody"
Relays == {1, 2}

ServerInit ==
  /\ doing = [t \in ServerThreads |->
                CASE t = "feeder" -> "feed" [] t = "monitor" -> "second" [] OTHER -> "idle"]
  /\ lockedBy = [watchdog |-> NoThread, heap |-> NoThread]
  /\ stage = [t \in ServerThreads |-> "none"] /\ leaving = FALSE /\ freed = FALSE
  /\ httpRunning = TRUE /\ feedRunning = TRUE /\ watchdogRunning = TRUE
  /\ level = [r \in Relays |-> 0] /\ exported = [r \in Relays |-> TRUE]
  /\ unfed = 0 /\ fired = FALSE /\ off = {} /\ late = {} /\ signals = 0 /\ server = "up"

Cleans(t) == stage[t] # "none"

(* A thread goes on while the process is up, unless its handler runs.      *)
Steps(t, from, to) ==
  /\ server = "up" /\ ~Cleans(t) /\ doing[t] = from
  /\ doing' = [doing EXCEPT ![t] = to]

Locks(t, lock) ==
  /\ lockedBy[lock] = NoThread
  /\ lockedBy' = [lockedBy EXCEPT ![lock] = t]

Unlocks(lock) == lockedBy' = [lockedBy EXCEPT ![lock] = NoThread]

-----------------------------------------------------------------------------
(* Requests.  The HTTP thread accepts while the server runs; one it is      *)
(* serving, or a last accept that the closing of the socket does not        *)
(* interrupt, is served all the same.  A request may hang in a driver.      *)
Accept(t) ==
  /\ Steps(t, "idle", "request") /\ Locks(t, "heap")
  /\ UNCHANGED <<cleaning, pins, unfed, fired, server>>

Serve(t) ==
  /\ \/ Steps(t, "request", "serve") /\ Unlocks("heap") /\ UNCHANGED pins
     \/ Steps(t, "serve", "hung") /\ UNCHANGED <<lockedBy, pins>>
     \/ /\ Steps(t, "serve", IF t = "http" /\ ~httpRunning THEN "gone" ELSE "idle")
        /\ \E r \in Relays, on \in {0, 1} :
             /\ level' = [level EXCEPT ![r] = IF exported[r] THEN on ELSE @]
             /\ late' = IF on = 1 /\ exported[r] /\ r \in off THEN late \cup {r} ELSE late
        /\ UNCHANGED <<lockedBy, exported, off>>
  /\ UNCHANGED <<cleaning, unfed, fired, server>>

(* watchdog_feed_thread_func.                                              *)
FeedThread ==
  /\ \/ Steps("feeder", "feed", "feeding") /\ Locks("feeder", "watchdog") /\ UNCHANGED unfed
     \/ Steps("feeder", "feeding", "sleep") /\ Unlocks("watchdog") /\ unfed' = 0
     \/ /\ Steps("feeder", "awake", IF feedRunning THEN "feed" ELSE "gone")
        /\ UNCHANGED <<lockedBy, unfed>>
  /\ UNCHANGED <<cleaning, pins, fired, server>>

(* watchdog_monitor_thread: it looks, and calls exit when it was not fed.   *)
MonitorLooks ==
  /\ Steps("monitor", "check", IF watchdogRunning THEN "second" ELSE "gone")
  /\ Unlocks("watchdog")
  /\ fired' = (fired \/ (watchdogRunning /\ unfed >= ServerTimeout))
  /\ stage' = IF fired' THEN [stage EXCEPT !["monitor"] = "fire"] ELSE stage
  /\ UNCHANGED <<leaving, flags, signals>>

ServerMonitor ==
  /\ \/ Steps("monitor", "awake", "check") /\ Locks("monitor", "watchdog")
        /\ UNCHANGED <<cleaning, fired>>
     \/ MonitorLooks
  /\ UNCHANGED <<pins, unfed, server>>

-----------------------------------------------------------------------------
(* signal_handler on thread t, which stands still from here on; where it    *)
(* stands matters only inside of a mutex.                                   *)
Inside == {"request", "feeding", "check"}

ServerSignal(t) ==
  /\ server = "up" /\ doing[t] # "gone" /\ signals < MaxSignals
  /\ stage' = [stage EXCEPT ![t] = "http"] /\ signals' = signals + 1
  /\ doing' = [doing EXCEPT ![t] = IF @ \in Inside THEN @ ELSE "caught"]
  /\ UNCHANGED <<lockedBy, leaving, flags, pins, unfed, fired, server>>

At(t, s, next) ==
  /\ server = "up" /\ stage[t] = s
  /\ stage' = [stage EXCEPT ![t] = next]
  /\ UNCHANGED <<doing, lockedBy, unfed, fired, signals>>

(* http_server_stop: the socket is closed.                                 *)
StopHttp(t) ==
  /\ At(t, "http", "handlers")
  /\ httpRunning' = FALSE
  /\ UNCHANGED <<leaving, freed, feedRunning, watchdogRunning, pins, server>>

(* http_server_cleanup frees the handlers while there are any, so it needs  *)
(* the heap.  Two that free the same list may abort the process.            *)
FreeHandlers(t) ==
  /\ At(t, "handlers", "join")
  /\ freed \/ lockedBy["heap"] = NoThread
  /\ freed' = TRUE
  /\ \/ server' = "up"
     \/ ~freed /\ (\E u \in ServerThreads \ {t} : stage[u] = "handlers") /\ server' = "aborted"
  /\ UNCHANGED <<leaving, httpRunning, feedRunning, watchdogRunning, pins>>

AskFeeder(t) ==
  /\ At(t, "join", IF feedRunning THEN "joining" ELSE "watchdog")
  /\ feedRunning' = FALSE
  /\ UNCHANGED <<leaving, freed, httpRunning, watchdogRunning, pins, server>>

(* Mutant: a thread that joins itself waits for ever.                      *)
JoinItself(t) ==
  /\ At(t, "joining", "watchdog")
  /\ doing["feeder"] = "gone"
  /\ UNCHANGED <<leaving, flags, pins, server>>

(* pthread_join; a thread that joins itself gets an error and goes on.     *)
JoinFeeder(t) ==
  /\ At(t, "joining", "watchdog")
  /\ doing["feeder"] = "gone" \/ t = "feeder"
  /\ UNCHANGED <<leaving, flags, pins, server>>

(* watchdog_cleanup.  After the first its mutex is destroyed: locking it    *)
(* is an error that nobody looks at.                                        *)
StopWatchdog(t) ==
  /\ At(t, "watchdog", "relay1")
  /\ watchdogRunning => lockedBy["watchdog"] = NoThread
  /\ watchdogRunning' = FALSE
  /\ UNCHANGED <<leaving, freed, httpRunning, feedRunning, pins, server>>

(* hal_cleanup: both relays off, then their pins are given back.           *)
SwitchOff(t, r) ==
  /\ At(t, <<"relay1", "relay2">>[r], <<"relay2", "unexport1">>[r])
  /\ level' = [level EXCEPT ![r] = IF exported[r] THEN 0 ELSE @]
  /\ late' = IF exported[r] THEN late \ {r} ELSE late
  /\ off' = off \cup {r}
  /\ UNCHANGED exported

Unexport(t, r) ==
  /\ At(t, <<"unexport1", "unexport2">>[r], <<"unexport2", "exit">>[r])
  /\ exported' = [exported EXCEPT ![r] = FALSE]
  /\ UNCHANGED <<level, off, late>>

(* Mutant: the pins are given back before they are switched off.           *)
UnexportFirst(t) ==
  /\ \E r \in Relays :
       \/ /\ At(t, <<"relay1", "relay2">>[r], <<"relay2", "unexport1">>[r])
          /\ exported' = [exported EXCEPT ![r] = FALSE]
          /\ UNCHANGED <<level, off, late>>
       \/ /\ At(t, <<"unexport1", "unexport2">>[r], <<"unexport2", "exit">>[r])
          /\ level' = [level EXCEPT ![r] = IF exported[r] THEN 0 ELSE @]
          /\ off' = off \cup {r}
          /\ UNCHANGED <<exported, late>>
  /\ UNCHANGED <<leaving, flags, server>>

CleanHal(t) ==
  /\ \E r \in Relays : SwitchOff(t, r) \/ Unexport(t, r)
  /\ UNCHANGED <<leaving, flags, server>>

(* exit, from the handler or from the watchdog's monitor, calls             *)
(* cleanup_resources again, but only for the first that comes; whoever      *)
(* comes later, or comes back, ends the process.                            *)
Exit(t) ==
  /\ \E s \in {"exit", "fire"} : At(t, s, "http")
  /\ leaving' = TRUE
  /\ server' = IF leaving THEN "exited" ELSE "up"
  /\ UNCHANGED <<flags, pins>>

Cleanup(t) ==
  \/ StopHttp(t) \/ FreeHandlers(t) \/ AskFeeder(t) \/ JoinFeeder(t) \/ StopWatchdog(t)
  \/ CleanHal(t) \/ Exit(t)

-----------------------------------------------------------------------------
(* A thread in the handler waits for the heap, for the watchdog's mutex or  *)
(* for the feeding thread.                                                  *)
Waits(t) ==
  \/ stage[t] = "handlers" /\ ~freed /\ lockedBy["heap"] # NoThread
  \/ stage[t] = "watchdog" /\ watchdogRunning /\ lockedBy["watchdog"] # NoThread
  \/ stage[t] = "joining" /\ t # "feeder" /\ doing["feeder"] # "gone"

Rests(t) ==
  \/ doing[t] \in {"idle", "hung", "sleep", "second", "gone"}
  \/ lockedBy["watchdog"] # NoThread /\ <<t, doing[t]>> \in {<<"feeder", "feed">>, <<"monitor", "awake">>}

ServerTick ==
  /\ server = "up"
  /\ \A t \in ServerThreads : IF Cleans(t) THEN Waits(t) ELSE Rests(t)
  /\ unfed' = IF unfed < ServerTimeout THEN unfed + 1 ELSE unfed
  /\ doing' = [t \in ServerThreads |->
                 IF ~Cleans(t) /\ doing[t] \in {"sleep", "second"} THEN "awake" ELSE doing[t]]
  /\ UNCHANGED <<lockedBy, cleaning, pins, fired, server>>

ServerNext ==
  \/ \E t \in Served : Accept(t) \/ Serve(t)
  \/ FeedThread \/ ServerMonitor \/ ServerTick
  \/ \E t \in ServerThreads : Cleanup(t) \/ ServerSignal(t)

-----------------------------------------------------------------------------
ServerTypeOK ==
  /\ doing \in [ServerThreads -> {"idle", "request", "serve", "hung", "feed", "feeding",
                                  "sleep", "awake", "second", "check", "caught", "gone"}]
  /\ lockedBy \in [{"watchdog", "heap"} -> ServerThreads \cup {NoThread}]
  /\ stage \in [ServerThreads -> {"none", "http", "handlers", "join", "joining", "watchdog",
                 "relay1", "relay2", "unexport1", "unexport2", "exit", "fire"}]
  /\ {leaving, freed, httpRunning, feedRunning, watchdogRunning, fired} \subseteq BOOLEAN
  /\ level \in [Relays -> {0, 1}] /\ exported \in [Relays -> BOOLEAN]
  /\ off \subseteq Relays /\ late \subseteq Relays
  /\ unfed \in 0..ServerTimeout /\ signals \in 0..MaxSignals
  /\ server \in {"up", "exited", "aborted"}

(* Whatever thread a signal hits, also a second one while the cleanup runs, *)
(* fan and lamp are off when the process has exited.  The one exception is  *)
(* open in the code: a request that switches one on between its switching   *)
(* off and the giving back of its pin leaves it on.  An abort in the double *)
(* free of two cleanups is no exit and switches nothing off.                *)
RelaysOffAtExit == server = "exited" => \A r \in Relays : level[r] = 1 => r \in late

(* The watchdog never ends this process.  The feeding thread feeds it       *)
(* whether the RPC loop works or hangs; it fires only when that thread      *)
(* waits in a cleanup for a heap that stays locked, and then its own exit   *)
(* waits there too.                                                         *)
WatchdogEndsNothing == fired => server = "up"

(* The server ends by its own cleanup, never by the watchdog, and with      *)
(* everything switched off but for the late request.                        *)
ExitIsSafe == RelaysOffAtExit /\ WatchdogEndsNothing

(* A thread was interrupted with a mutex that its own cleanup, and everyone *)
(* else's, still needs.                                                     *)
SelfDeadlock ==
  \E t \in ServerThreads : Cleans(t) /\ \/ ~freed /\ lockedBy["heap"] = t
                                        \/ watchdogRunning /\ lockedBy["watchdog"] = t

(* A signal ends the process, whatever the loop and the HTTP thread hang    *)
(* in, unless one interrupted its thread in the allocator or in the         *)
(* watchdog: then the server never ends.                                    *)
SignalEndsServer == signals > 0 ~> server # "up" \/ SelfDeadlock

(* What the comment at the feeding thread says (rpc_server.c:416): when the *)
(* main loop is stuck, the watchdog triggers.                               *)
WatchdogGuardsLoop == doing["loop"] = "hung" ~> fired \/ server # "up"
=============================================================================
