--------------------------- MODULE BridgeLifecycle ---------------------------
(***************************************************************************)
(* Start and end of lesson6/mqtt_bridge: main, the telemetry thread, the    *)
(* command worker, the network thread of mqttclient, the thread that        *)
(* carries out an upgrade (ota) and the monitor thread of the watchdog, the *)
(* mutexes they meet at, the signal handler, which runs on any of them, and *)
(* pthread_cancel.                                                          *)
(*                                                                          *)
(* at[t] is what thread t does next.  A critical section is two steps,      *)
(* taking the mutex and giving it back, because a signal or a cancellation  *)
(* may hit in between.  What the threads compute is left open: whether a    *)
(* command is waiting, whether a call succeeds.  state_mutex is left out:   *)
(* nobody blocks, ends or is interrupted for long while it is held.         *)
(*                                                                          *)
(* Time: a Tick is a second in which nobody has anything to do at once:     *)
(* calls and the start are short against the watchdog's time-out.  Main's   *)
(* second of sleep ends with a Tick, or while the others work.  An upgrade  *)
(* downloads for as long as it takes; what it does is in module OtaManager. *)
(***************************************************************************)
EXTENDS Integers

CONSTANTS
  WatchdogTimeout,  \* 60 s; here the number of ticks after which it fires
  Signals           \* how many signals arrive

VARIABLES
  at, holder,       \* where each thread is; who holds each mutex
  queue,            \* cmd_queue: none, open, closed, gone (freed)
  running, cmd_worker_running,
  cancelled,        \* pthread_cancel(telemetry_tid) was called
  inHandler,        \* the thread is in signal_handler, about to close the queue
  signalsLeft,
  sinceFeed,        \* now - last_feed_time
  saved,            \* the cache file was written
  upgradeHeld,      \* history: a tick passed while main waited for an upgrade
  process           \* up; exited, killed (by the watchdog) or crashed

lifecycleVars == <<at, holder, queue, running, cmd_worker_running, cancelled,
                   inHandler, signalsLeft, sinceFeed, saved, upgradeHeld, process>>
flags == <<running, cmd_worker_running>>
control == <<cancelled, inHandler, signalsLeft, process>>
disk == <<saved, upgradeHeld>>

Threads == {"main", "telemetry", "worker", "network", "ota", "monitor"}
Locks == {"queue", "rpc", "cache", "audit", "watchdog"}
None == "none"
CmdQueueSet == queue \in {"open", "closed"}

(* The mutex a thread takes next at this point.                            *)
Wanted(t) ==
  CASE at[t] \in {"close", "destroy", "receive", "wait", "send"} -> "queue"
    [] at[t] = "call" -> "rpc"
    [] at[t] \in {"push", "save"} -> "cache"
    [] at[t] \in {"audit", "log", "event"} -> "audit"
    [] at[t] \in {"feed", "wake"} -> "watchdog"
    [] OTHER -> None

Runs(t) == process = "up" /\ ~inHandler[t]
Go(t, from, to) == Runs(t) /\ at[t] = from /\ at' = [at EXCEPT ![t] = to]

Take(t, from, to) ==
  /\ Go(t, from, to)
  /\ holder[Wanted(t)] = None
  /\ holder' = [holder EXCEPT ![Wanted(t)] = t]

Release(t, lock, from, to) ==
  /\ Go(t, from, to)
  /\ holder' = [holder EXCEPT ![lock] = None]

LifecycleInit ==
  /\ at = [t \in Threads |-> CASE t = "main" -> "subscribe" [] t = "monitor" -> "second"
                               [] OTHER -> "dead"]
  /\ holder = [l \in Locks |-> None]
  /\ queue = "none"
  /\ running = TRUE /\ cmd_worker_running = TRUE
  /\ cancelled = FALSE /\ inHandler = [t \in Threads |-> FALSE]
  /\ signalsLeft = Signals
  /\ sinceFeed = 0 /\ saved = FALSE /\ upgradeHeld = FALSE /\ process = "up"

-----------------------------------------------------------------------------
(* Start: the topic is subscribed before the queue exists, the handler is   *)
(* installed last.  Any of the steps may fail; then main returns.           *)

Subscribe ==
  /\ Runs("main") /\ at["main"] = "subscribe"
  /\ at' = [at EXCEPT !["main"] = "create", !["network"] = "idle"]
  /\ UNCHANGED <<holder, queue, flags, control, sinceFeed, disk>>

CreateQueue ==
  /\ Go("main", "create", "start")
  /\ queue' = "open"
  /\ UNCHANGED <<holder, flags, control, sinceFeed, disk>>

StartThreads ==
  /\ Runs("main") /\ at["main"] = "start"
  /\ at' = [at EXCEPT !["main"] = "loop", !["worker"] = "check", !["telemetry"] = "sleep"]
  /\ UNCHANGED <<holder, queue, flags, control, sinceFeed, disk>>

GiveUp ==
  /\ Runs("main") /\ at["main"] \in {"subscribe", "create", "start"}
  /\ process' = "exited"
  /\ UNCHANGED <<at, holder, queue, flags, cancelled, inHandler, signalsLeft, sinceFeed, disk>>

(* The main loop feeds the watchdog once a second.                         *)
Wake ==
  /\ Go("main", "sleep", "loop")
  /\ UNCHANGED <<holder, queue, flags, control, sinceFeed, disk>>

Loop ==
  /\ Go("main", "loop", IF running THEN "feed" ELSE "close")
  /\ cmd_worker_running' = (cmd_worker_running /\ running)
  /\ UNCHANGED <<holder, queue, running, control, sinceFeed, disk>>

Feed ==
  /\ Release("main", "watchdog", "feeding", "sleep")
  /\ sinceFeed' = 0
  /\ UNCHANGED <<queue, flags, control, disk>>

-----------------------------------------------------------------------------
(* The end of main, in its order.                                          *)

CloseQueue ==
  /\ Release("main", "queue", "closing", "cancel")
  /\ queue' = "closed"
  /\ UNCHANGED <<flags, control, sinceFeed, disk>>

CancelTelemetry ==
  /\ Go("main", "cancel", "join_telemetry")
  /\ cancelled' = TRUE
  /\ UNCHANGED <<holder, queue, flags, inHandler, signalsLeft, process, sinceFeed, disk>>

JoinTelemetry ==
  /\ at["telemetry"] = "dead"
  /\ Go("main", "join_telemetry", "join_worker")
  /\ UNCHANGED <<holder, queue, flags, control, sinceFeed, disk>>

(* Mutant: the worker is not waited for.                                   *)
JoinNobody ==
  /\ Go("main", "join_worker", "destroy")
  /\ UNCHANGED <<holder, queue, flags, control, sinceFeed, disk>>

JoinWorker ==
  /\ at["worker"] = "dead"
  /\ Go("main", "join_worker", "destroy")
  /\ UNCHANGED <<holder, queue, flags, control, sinceFeed, disk>>

(* msgq_destroy takes the mutex once more, then frees the queue.            *)
DestroyQueue ==
  /\ holder["queue"] = None
  /\ Go("main", "destroy", "save")
  /\ queue' = "gone"
  /\ UNCHANGED <<holder, flags, control, sinceFeed, disk>>

(* data_cache_save_to_file; data_cache_cleanup then writes the same again. *)
(* What a failing write does is in module DataCache.                        *)
SaveCache ==
  /\ Release("main", "cache", "saving", "join_upgrade")
  /\ saved' = TRUE
  /\ UNCHANGED <<queue, flags, control, sinceFeed, upgradeHeld>>

(* ota_cleanup waits for an upgrade that is under way, however long.        *)
JoinUpgrade ==
  /\ at["ota"] = "dead"
  /\ Go("main", "join_upgrade", "audit")
  /\ UNCHANGED <<holder, queue, flags, control, sinceFeed, disk>>

(* security_audit_cleanup holds its mutex when audit_log_event, at "event", *)
(* takes it again: there main stays, so nothing of main is modelled after   *)
(* it.                                                                      *)
MainTakes ==
  /\ \/ Take("main", "feed", "feeding") \/ Take("main", "close", "closing")
     \/ Take("main", "save", "saving") \/ Take("main", "audit", "event")
  /\ UNCHANGED <<queue, flags, control, sinceFeed, disk>>

Main ==
  \/ Subscribe \/ CreateQueue \/ StartThreads \/ Wake \/ Loop \/ Feed
  \/ CloseQueue \/ CancelTelemetry \/ JoinTelemetry \/ JoinWorker \/ DestroyQueue
  \/ SaveCache \/ JoinUpgrade \/ MainTakes

-----------------------------------------------------------------------------
(* A round of telemetry_thread_func is a call to the server and perhaps a   *)
(* report put into the cache; then it looks whether it shall go on.         *)
Telemetry ==
  /\ LET next == IF running THEN "sleep" ELSE "dead" IN
     \/ Go("telemetry", "sleep", "call") /\ UNCHANGED holder
     \/ Take("telemetry", "call", "calling")
     \/ Release("telemetry", "rpc", "calling", "push")
     \/ Release("telemetry", "rpc", "calling", next)
     \/ Take("telemetry", "push", "pushing")
     \/ Release("telemetry", "cache", "pushing", next)
  /\ UNCHANGED <<queue, flags, control, sinceFeed, disk>>

(* The thread dies where it waits or prints, with the mutex it holds: no    *)
(* cleanup handler is pushed, and mutexes are not robust.                   *)
Cancelled ==
  /\ cancelled
  /\ \E point \in {"sleep", "calling", "pushing"} : Go("telemetry", point, "dead")
  /\ UNCHANGED <<holder, queue, flags, control, sinceFeed, disk>>

-----------------------------------------------------------------------------
(* cmd_worker_thread and the commands it executes.                         *)

WorkerChecks ==
  /\ \/ Go("worker", "check", IF cmd_worker_running THEN "receive" ELSE "dead")
     \/ \E next \in {"call", "log", "check"} : Go("worker", "command", next)
  /\ UNCHANGED <<holder, queue, flags, control, sinceFeed, disk>>

(* A closed queue that is not empty still delivers; its end ends the worker.*)
AfterReceive == IF queue = "open" THEN {"command", "wait", "check"} ELSE {"command", "dead"}

WorkerReceives ==
  /\ \/ Take("worker", "receive", "receiving")
     \/ Take("worker", "wait", "receiving")
     \/ \E next \in AfterReceive : Release("worker", "queue", "receiving", next)
  /\ UNCHANGED <<queue, flags, control, sinceFeed, disk>>

WorkerRestartsDevice ==
  /\ Go("worker", "command", "check")
  /\ running' = FALSE
  /\ UNCHANGED <<holder, queue, cmd_worker_running, control, sinceFeed, disk>>

WorkerExecutes ==
  /\ \/ Take("worker", "call", "calling")
     \/ \E next \in {"log", "check"} : Release("worker", "rpc", "calling", next)
     \/ Take("worker", "log", "logging")
     \/ Release("worker", "audit", "logging", "check")
  /\ UNCHANGED <<queue, flags, control, sinceFeed, disk>>

(* ota_upgrade: one upgrade at a time, in a thread of its own; then the log. *)
WorkerStartsUpgrade ==
  /\ Runs("worker") /\ at["worker"] = "command" /\ at["ota"] = "dead"
  /\ at' = [at EXCEPT !["worker"] = "log", !["ota"] = "upgrade"]
  /\ UNCHANGED <<holder, queue, flags, control, sinceFeed, disk>>

Worker ==
  \/ WorkerChecks \/ WorkerReceives \/ WorkerRestartsDevice \/ WorkerExecutes
  \/ WorkerStartsUpgrade

UpgradeEnds ==
  /\ Go("ota", "upgrade", "dead")
  /\ UNCHANGED <<holder, queue, flags, control, sinceFeed, disk>>

-----------------------------------------------------------------------------
(* message_handler reads cmd_queue, then sends.                            *)
Message ==
  /\ CmdQueueSet
  /\ Go("network", "idle", "send")
  /\ UNCHANGED <<holder, queue, flags, control, sinceFeed, disk>>

Send ==
  /\ \/ queue # "gone" /\ Take("network", "send", "sending")
     \/ Release("network", "queue", "sending", "idle")
  /\ UNCHANGED <<queue, flags, control, sinceFeed, disk>>

(* A thread that read cmd_queue before it was freed: undefined, so the      *)
(* process dies or nothing is noticed.                                      *)
UseFreedQueue(t) ==
  /\ process = "up" /\ queue = "gone"
  /\ \/ inHandler[t] /\ inHandler' = [inHandler EXCEPT ![t] = FALSE] /\ UNCHANGED at
     \/ Go(t, "send", "idle") /\ UNCHANGED inHandler
  /\ process' \in {"up", "crashed"}
  /\ UNCHANGED <<holder, queue, flags, cancelled, signalsLeft, sinceFeed, disk>>

-----------------------------------------------------------------------------
(* signal_handler on thread t.  Main's sleep ends early.                   *)
Signal(t) ==
  /\ Runs(t) /\ signalsLeft > 0
  /\ at[t] # "dead" /\ at["main"] \notin {"subscribe", "create", "start"}
  /\ signalsLeft' = signalsLeft - 1
  /\ running' = FALSE /\ cmd_worker_running' = FALSE
  /\ inHandler' = [inHandler EXCEPT ![t] = CmdQueueSet]
  /\ at' = IF t = "main" /\ at[t] = "sleep" THEN [at EXCEPT ![t] = "loop"] ELSE at
  /\ UNCHANGED <<holder, queue, cancelled, process, sinceFeed, disk>>

HandlerCloses(t) ==
  /\ process = "up" /\ inHandler[t]
  /\ CmdQueueSet /\ holder["queue"] = None
  /\ queue' = "closed"
  /\ inHandler' = [inHandler EXCEPT ![t] = FALSE]
  /\ UNCHANGED <<at, holder, flags, cancelled, signalsLeft, process, sinceFeed, disk>>

(* watchdog_monitor_thread, once a second.                                 *)
Monitor ==
  /\ \/ Take("monitor", "wake", "checking") /\ UNCHANGED process
     \/ /\ sinceFeed < WatchdogTimeout
        /\ Release("monitor", "watchdog", "checking", "second") /\ UNCHANGED process
     \/ /\ sinceFeed >= WatchdogTimeout
        /\ Release("monitor", "watchdog", "checking", "second") /\ process' = "killed"
  /\ UNCHANGED <<queue, flags, cancelled, inHandler, signalsLeft, sinceFeed, disk>>

(* Blocked: waiting for a mutex, or joining.  Idle: waiting for time, for a *)
(* message or for a download.  Closing the queue wakes the worker.          *)
Blocked(t) ==
  \/ inHandler[t] /\ holder["queue"] # None
  \/ Wanted(t) # None /\ holder[Wanted(t)] # None
  \/ at[t] = "join_telemetry" /\ at["telemetry"] # "dead"
  \/ at[t] = "join_worker" /\ at["worker"] # "dead"
  \/ at[t] = "join_upgrade" /\ at["ota"] # "dead"

Idle(t) ==
  /\ ~inHandler[t]
  /\ at[t] \in {"dead", "sleep", "idle", "wait", "upgrade", "second"}
  /\ ~(cancelled /\ t = "telemetry" /\ at[t] = "sleep")
  /\ ~(queue = "closed" /\ at[t] = "wait")

Tick ==
  /\ process = "up"
  /\ \A t \in Threads : Blocked(t) \/ Idle(t)
  /\ sinceFeed' = IF sinceFeed < WatchdogTimeout THEN sinceFeed + 1 ELSE sinceFeed
  /\ at' = [at EXCEPT !["main"] = IF @ = "sleep" /\ ~inHandler["main"] THEN "loop" ELSE @,
                      !["monitor"] = IF @ = "second" /\ ~inHandler["monitor"]
                                     THEN "wake" ELSE @]
  /\ upgradeHeld' = (upgradeHeld \/ at["main"] = "join_upgrade")
  /\ UNCHANGED <<holder, queue, flags, control, saved>>

Handler(t) == HandlerCloses(t) \/ UseFreedQueue(t)

LifecycleNext ==
  \/ Main \/ GiveUp \/ Telemetry \/ Cancelled \/ Worker \/ Message \/ Send
  \/ UpgradeEnds \/ Monitor \/ Tick
  \/ \E t \in Threads : Signal(t) \/ Handler(t)

-----------------------------------------------------------------------------
(* Where a thread can be.                                                  *)
Points ==
  {"subscribe", "create", "start", "sleep", "loop", "feed", "feeding", "close", "closing",
   "cancel", "join_telemetry", "join_worker", "destroy", "save", "saving", "join_upgrade",
   "audit", "event", "call", "calling", "push", "pushing", "check", "receive",
   "receiving", "wait", "command", "log", "logging", "idle", "send", "sending", "upgrade",
   "second", "wake", "checking", "dead"}

LifecycleTypeOK ==
  /\ at \in [Threads -> Points]
  /\ holder \in [Locks -> Threads \cup {None}]
  /\ queue \in {"none", "open", "closed", "gone"}
  /\ {running, cmd_worker_running, cancelled, saved, upgradeHeld} \subseteq BOOLEAN
  /\ inHandler \in [Threads -> BOOLEAN] /\ signalsLeft \in 0..Signals
  /\ sinceFeed \in 0..WatchdogTimeout
  /\ process \in {"up", "exited", "killed", "crashed"}

(* The command worker is never left with a queue that was freed, whatever   *)
(* signal, command or close ends it.  The network thread may be: see        *)
(* UseFreedQueue.                                                           *)
QueueOutlivesWorker ==
  queue = "gone" => at["worker"] = "dead" /\ holder["queue"] = None

(* The watchdog never ends a bridge nobody has asked to stop: as long as    *)
(* it runs, no other thread, whatever it holds, keeps main from feeding.    *)
NeverKilledWhileRunning == process = "killed" => ~running

(* A mutex nobody will give back: its holder died, or waits in the handler  *)
(* for the queue it has locked itself.                                      *)
Stranded(lock) ==
  /\ holder[lock] # None
  /\ \/ at[holder[lock]] = "dead"
     \/ inHandler[holder[lock]] /\ holder["queue"] = holder[lock]

(* The watchdog ends the shutdown for three reasons only: the log entry     *)
(* that security_audit_cleanup writes; a mutex stranded by the cancellation *)
(* or by the handler; an upgrade that main waited for, unfed, and that may  *)
(* have ended since.                                                        *)
KilledForReason ==
  process = "killed" =>
    \/ at["main"] = "event" \/ upgradeHeld
    \/ \E lock \in Locks : Stranded(lock)

(* Unless a mutex was stranded, the backlog of reports is on disk when the  *)
(* watchdog ends the process.                                               *)
BacklogSaved ==
  process = "killed" /\ ~(\E lock \in Locks : Stranded(lock)) => saved

(* A stop, by signal or by device_restart, ends the process in the end.     *)
StopEndsProcess == ~running ~> process # "up"
(* main's way out, as far as safety goes.                                   *)
EndIsOrderly ==
  /\ QueueOutlivesWorker
  /\ NeverKilledWhileRunning
  /\ KilledForReason
  /\ BacklogSaved
=============================================================================
