----------------------------- MODULE BridgeProofs -----------------------------
(***************************************************************************)
(* Proofs about the six parts of the bridge in MCBridgeParts: what their    *)
(* safety properties say holds for any number of signals, devices, blocks   *)
(* and users, any temperatures and any time-outs.  One part moves at a      *)
(* time, so each has an inductive invariant of its own.                     *)
(*                                                                          *)
(* The end of the process: a mutex is held by the thread inside its         *)
(* section, or by the telemetry thread that was cancelled there.  So when   *)
(* time passes and nobody is stranded, no mutex is held at all, and main    *)
(* waits for an upgrade or is asleep right after a feed: everybody else     *)
(* main could wait for would have a step.                                   *)
(***************************************************************************)
EXTENDS MCBridgeParts, Integers, Sequences, FiniteSets, FiniteSetTheorems,
        WellFoundedInduction, TLAPS

(* Where each thread can be.                                               *)
Starting == {"subscribe", "create", "start"}
Looping == {"sleep", "loop", "feed", "feeding"}
Joining == {"cancel", "join_telemetry", "join_worker"}
Saved == {"join_upgrade", "audit", "event"}
Ending == {"save", "saving"} \cup Saved

Places ==
  /\ at["main"] \in Starting \cup Looping \cup {"close", "closing", "destroy"}
                      \cup Joining \cup Ending
  /\ at["telemetry"] \in {"sleep", "call", "calling", "push", "pushing", "dead"}
  /\ at["worker"] \in {"check", "receive", "receiving", "wait", "command", "call", "calling",
                       "log", "logging", "dead"}
  /\ at["network"] \in {"dead", "idle", "send", "sending"}
  /\ at["ota"] \in {"dead", "upgrade"}
  /\ at["monitor"] \in {"second", "wake", "checking"}

(* A mutex is held by the thread that is inside its section; only the       *)
(* cancelled telemetry thread died inside.                                  *)
HeldInside ==
  /\ holder["queue"] \in {"none", "main", "worker", "network"}
  /\ holder["queue"] = "main" <=> at["main"] = "closing"
  /\ holder["queue"] = "worker" <=> at["worker"] = "receiving"
  /\ holder["queue"] = "network" <=> at["network"] = "sending"
  /\ holder["rpc"] \in {"none", "telemetry", "worker"}
  /\ holder["rpc"] = "worker" <=> at["worker"] = "calling"
  /\ at["telemetry"] = "calling" => holder["rpc"] = "telemetry"
  /\ holder["rpc"] = "telemetry" =>
       at["telemetry"] = "calling" \/ (at["telemetry"] = "dead" /\ cancelled)
  /\ holder["cache"] \in {"none", "main", "telemetry"}
  /\ holder["cache"] = "main" <=> at["main"] = "saving"
  /\ at["telemetry"] = "pushing" => holder["cache"] = "telemetry"
  /\ holder["cache"] = "telemetry" =>
       at["telemetry"] = "pushing" \/ (at["telemetry"] = "dead" /\ cancelled)
  /\ holder["audit"] \in {"none", "main", "worker"}
  /\ holder["audit"] = "main" <=> at["main"] = "event"
  /\ holder["audit"] = "worker" <=> at["worker"] = "logging"
  /\ holder["watchdog"] \in {"none", "main", "monitor"}
  /\ holder["watchdog"] = "main" <=> at["main"] = "feeding"
  /\ holder["watchdog"] = "monitor" <=> at["monitor"] = "checking"

(* What main has done by where it is.                                      *)
MainsWay ==
  /\ queue = "none" <=> at["main"] \in {"subscribe", "create"}
  /\ queue = "gone" <=> at["main"] \in Ending
  /\ at["main"] \in Joining \cup {"destroy"} => queue = "closed"
  /\ at["main"] \in Ending \cup {"destroy"} => at["worker"] = "dead"
  /\ at["main"] \in Starting => at["worker"] = "dead" /\ at["telemetry"] = "dead"
  /\ at["main"] = "subscribe" => at["network"] = "dead"
  /\ at["main"] = "join_telemetry" => cancelled
  /\ cancelled => at["main"] \in {"join_telemetry", "join_worker", "destroy"} \cup Ending
  /\ at["main"] \in Saved => saved
  /\ upgradeHeld => at["main"] \in Saved

(* The queue is freed when nobody is inside.                               *)
FreedEmpty == queue = "gone" => holder["queue"] = "none"

(* A bridge nobody has asked to stop is in its loop, outside any handler.   *)
RunsUndisturbed ==
  running => /\ at["main"] \in Starting \cup Looping
             /\ \A t \in Life!Threads : ~inHandler[t]

(* Main sleeps after a feed only.                                          *)
SleepsFed == at["main"] = "sleep" => sinceFeed = 0 /\ ~inHandler["main"]

(* Main or a mutex is stuck for good: main at the log entry of its own      *)
(* audit, a mutex the cancelled thread died with, or the queue's mutex held *)
(* by a thread whose handler waits for it.  Or main was held up by an       *)
(* upgrade, and nothing feeds the watchdog after that.                      *)
Stuck ==
  \/ at["main"] = "event" \/ upgradeHeld
  \/ at["telemetry"] = "dead" /\ "telemetry" \in {holder["rpc"], holder["cache"]}
  \/ holder["queue"] # "none" /\ inHandler[holder["queue"]]

FedUnlessStuck == sinceFeed \in {0, 1} \/ Stuck

KilledWhenStuck == process = "killed" => Stuck /\ ~running

LifeInv ==
  /\ Life!LifecycleTypeOK
  /\ Places /\ HeldInside /\ MainsWay /\ FreedEmpty /\ RunsUndisturbed
  /\ SleepsFed /\ FedUnlessStuck /\ KilledWhenStuck

-----------------------------------------------------------------------------
(* A thread goes to another place; the variables most steps leave alone.    *)
Moves(t, to) == at' = [at EXCEPT ![t] = to]
Locks(t, lock) == holder[lock] = "none" /\ holder' = [holder EXCEPT ![lock] = t]
Unlocks(lock) == holder' = [holder EXCEPT ![lock] = "none"]

Rest == <<queue, running, cmd_worker_running, cancelled, inHandler, signalsLeft,
          sinceFeed, saved, upgradeHeld, process>>

(* Which mutex a thread takes at which place.                              *)
LEMMA Takes ==
  ASSUME NEW t, NEW from, NEW to, Life!Take(t, from, to)
  PROVE  /\ process = "up" /\ ~inHandler[t] /\ at[t] = from /\ Moves(t, to)
         /\ from \in {"close", "destroy", "receive", "wait", "send"} => Locks(t, "queue")
         /\ from = "call" => Locks(t, "rpc")
         /\ from \in {"push", "save"} => Locks(t, "cache")
         /\ from \in {"audit", "log", "event"} => Locks(t, "audit")
         /\ from \in {"feed", "wake"} => Locks(t, "watchdog")
BY DEF Life!Take, Life!Go, Life!Runs, Life!Wanted, Life!None, Moves, Locks

(* The topic is subscribed: the network thread begins.                     *)
LEMMA SubscribeInv ==
  ASSUME LifeInv, Life!Subscribe
  PROVE  LifeInv'
<1> USE DEF LifeInv, Life!LifecycleTypeOK, Life!Threads, Life!Locks, Life!None, Moves,
            Locks, Unlocks, Rest
<1>1. /\ process = "up" /\ at["main"] = "subscribe"
      /\ at' = [at EXCEPT !["main"] = "create", !["network"] = "idle"]
      /\ UNCHANGED <<holder, Rest>>
  BY DEF Life!Subscribe, Life!Go, Life!Runs, Life!Release, Life!flags, Life!disk, Life!control
<1>2. Life!LifecycleTypeOK'
  <2>1. at' \in [Life!Threads -> Life!Points]
    BY <1>1 DEF Life!Points
  <2>2. holder' \in [Life!Locks -> Life!Threads \cup {Life!None}]
    BY <1>1
  <2> QED  BY <1>1, <2>1, <2>2
<1>3. Places'
  BY <1>1 DEF Places, Starting, Looping, Joining, Ending, Saved
<1>4. HeldInside'
  BY <1>1 DEF Places, HeldInside, MainsWay
<1>5. MainsWay'
  BY <1>1 DEF Places, MainsWay, Starting, Looping, Joining, Ending, Saved
<1>6. FreedEmpty'
  BY <1>1 DEF HeldInside, MainsWay, FreedEmpty, Ending, Saved
<1>7. RunsUndisturbed'
  BY <1>1 DEF Places, MainsWay, RunsUndisturbed, Life!Threads, Starting, Looping,
     Joining, Ending, Saved
<1>8. SleepsFed'
  BY <1>1 DEF SleepsFed
<1>9. FedUnlessStuck' /\ KilledWhenStuck'
  BY <1>1 DEF Places, HeldInside, MainsWay, Stuck, FedUnlessStuck, KilledWhenStuck,
     Starting, Looping, Joining, Ending, Saved
<1> QED  BY <1>2, <1>3, <1>4, <1>5, <1>6, <1>7, <1>8, <1>9

(* The queue is created.                                                   *)
LEMMA CreateQueueInv ==
  ASSUME LifeInv, Life!CreateQueue
  PROVE  LifeInv'
<1> USE DEF LifeInv, Life!LifecycleTypeOK, Life!Threads, Life!Locks, Life!None, Moves,
            Locks, Unlocks, Rest
<1>1. /\ process = "up" /\ at["main"] = "create" /\ Moves("main", "start")
      /\ queue' = "open"
      /\ UNCHANGED <<holder, running, cmd_worker_running, cancelled, inHandler, signalsLeft,
                     sinceFeed, saved, upgradeHeld, process>>
  BY DEF Life!CreateQueue, Life!Go, Life!Runs,
       Life!Release, Life!flags, Life!disk, Life!control
<1>2. Life!LifecycleTypeOK'
  <2>1. at' \in [Life!Threads -> Life!Points]
    BY <1>1 DEF Life!Points
  <2>2. holder' \in [Life!Locks -> Life!Threads \cup {Life!None}]
    BY <1>1
  <2> QED  BY <1>1, <2>1, <2>2
<1>3. Places'
  BY <1>1 DEF Places, Starting, Looping, Joining, Ending, Saved
<1>4. HeldInside'
  BY <1>1 DEF Places, HeldInside
<1>5. MainsWay'
  BY <1>1 DEF Places, MainsWay, Starting, Looping, Joining, Ending, Saved
<1>6. FreedEmpty'
  BY <1>1 DEF HeldInside, MainsWay, FreedEmpty, Ending, Saved
<1>7. RunsUndisturbed'
  BY <1>1 DEF Places, MainsWay, RunsUndisturbed, Life!Threads, Starting, Looping,
     Joining, Ending, Saved
<1>8. SleepsFed'
  BY <1>1 DEF SleepsFed
<1>9. FedUnlessStuck' /\ KilledWhenStuck'
  BY <1>1 DEF Places, HeldInside, MainsWay, Stuck, FedUnlessStuck, KilledWhenStuck,
     Starting, Looping, Joining, Ending, Saved
<1> QED  BY <1>2, <1>3, <1>4, <1>5, <1>6, <1>7, <1>8, <1>9

(* The worker and the telemetry thread begin.                              *)
LEMMA StartThreadsInv ==
  ASSUME LifeInv, Life!StartThreads
  PROVE  LifeInv'
<1> USE DEF LifeInv, Life!LifecycleTypeOK, Life!Threads, Life!Locks, Life!None, Moves,
            Locks, Unlocks, Rest
<1>1. /\ process = "up" /\ at["main"] = "start"
      /\ at' = [at EXCEPT !["main"] = "loop", !["worker"] = "check", !["telemetry"] = "sleep"]
      /\ UNCHANGED <<holder, Rest>>
  BY DEF Life!StartThreads, Life!Go, Life!Runs,
       Life!Release, Life!flags, Life!disk, Life!control
<1>2. Life!LifecycleTypeOK'
  <2>1. at' \in [Life!Threads -> Life!Points]
    BY <1>1 DEF Life!Points
  <2>2. holder' \in [Life!Locks -> Life!Threads \cup {Life!None}]
    BY <1>1
  <2> QED  BY <1>1, <2>1, <2>2
<1>3. Places'
  BY <1>1 DEF Places, Starting, Looping, Joining, Ending, Saved
<1>4. HeldInside'
  BY <1>1 DEF Places, HeldInside, MainsWay, Starting, Joining, Ending, Saved
<1>5. MainsWay'
  BY <1>1 DEF Places, MainsWay, Starting, Looping, Joining, Ending, Saved
<1>6. FreedEmpty'
  BY <1>1 DEF HeldInside, MainsWay, FreedEmpty, Ending, Saved
<1>7. RunsUndisturbed'
  BY <1>1 DEF Places, MainsWay, RunsUndisturbed, Life!Threads, Starting, Looping,
     Joining, Ending, Saved
<1>8. SleepsFed'
  BY <1>1 DEF SleepsFed
<1>9. FedUnlessStuck' /\ KilledWhenStuck'
  BY <1>1 DEF Places, HeldInside, MainsWay, Stuck, FedUnlessStuck, KilledWhenStuck,
     Starting, Looping, Joining, Ending, Saved
<1> QED  BY <1>2, <1>3, <1>4, <1>5, <1>6, <1>7, <1>8, <1>9

(* The start failed.                                                       *)
LEMMA GiveUpInv ==
  ASSUME LifeInv, Life!GiveUp
  PROVE  LifeInv'
<1> USE DEF LifeInv, Life!LifecycleTypeOK, Life!Threads, Life!Locks, Life!None, Moves,
            Locks, Unlocks, Rest
<1>1. /\ process = "up" /\ process' = "exited"
      /\ UNCHANGED <<at, holder, queue, running, cmd_worker_running, cancelled, inHandler,
                     signalsLeft, sinceFeed, saved, upgradeHeld>>
  BY DEF Life!GiveUp, Life!Go, Life!Runs, Life!Release, Life!flags, Life!disk, Life!control
<1>2. Life!LifecycleTypeOK'
  <2>1. at' \in [Life!Threads -> Life!Points]
    BY <1>1 DEF Life!Points
  <2>2. holder' \in [Life!Locks -> Life!Threads \cup {Life!None}]
    BY <1>1
  <2> QED  BY <1>1, <2>1, <2>2
<1>3. Places'
  <2>1. at' = at /\ Places
    BY <1>1
  <2> HIDE DEF LifeInv
  <2> QED  BY <2>1 DEF Places
<1>4. HeldInside'
  BY <1>1 DEF Places, HeldInside
<1>5. MainsWay'
  BY <1>1 DEF Places, MainsWay, Starting, Looping, Joining, Ending, Saved
<1>6. FreedEmpty'
  BY <1>1 DEF HeldInside, MainsWay, FreedEmpty, Ending, Saved
<1>7. RunsUndisturbed'
  BY <1>1 DEF Places, MainsWay, RunsUndisturbed, Life!Threads, Starting, Looping,
     Joining, Ending, Saved
<1>8. SleepsFed'
  BY <1>1 DEF SleepsFed
<1>9. FedUnlessStuck' /\ KilledWhenStuck'
  BY <1>1 DEF Places, HeldInside, MainsWay, Stuck, FedUnlessStuck, KilledWhenStuck,
     Starting, Looping, Joining, Ending, Saved
<1> QED  BY <1>2, <1>3, <1>4, <1>5, <1>6, <1>7, <1>8, <1>9

(* The main loop begins a round.                                           *)
LEMMA WakeInv ==
  ASSUME LifeInv, Life!Wake
  PROVE  LifeInv'
<1> USE DEF LifeInv, Life!LifecycleTypeOK, Life!Threads, Life!Locks, Life!None, Moves,
            Locks, Unlocks, Rest
<1>1. /\ process = "up" /\ at["main"] = "sleep" /\ Moves("main", "loop")
      /\ UNCHANGED <<holder, Rest>>
  BY DEF Life!Wake, Life!Go, Life!Runs, Life!Release, Life!flags, Life!disk, Life!control
<1>2. Life!LifecycleTypeOK'
  <2>1. at' \in [Life!Threads -> Life!Points]
    BY <1>1 DEF Life!Points
  <2>2. holder' \in [Life!Locks -> Life!Threads \cup {Life!None}]
    BY <1>1
  <2> QED  BY <1>1, <2>1, <2>2
<1>3. Places'
  BY <1>1 DEF Places, Starting, Looping, Joining, Ending, Saved
<1>4. HeldInside'
  BY <1>1 DEF Places, HeldInside
<1>5. MainsWay'
  BY <1>1 DEF Places, MainsWay, Starting, Looping, Joining, Ending, Saved
<1>6. FreedEmpty'
  BY <1>1 DEF HeldInside, MainsWay, FreedEmpty, Ending, Saved
<1>7. RunsUndisturbed'
  BY <1>1 DEF Places, MainsWay, RunsUndisturbed, Life!Threads, Starting, Looping,
     Joining, Ending, Saved
<1>8. SleepsFed'
  BY <1>1 DEF SleepsFed
<1>9. FedUnlessStuck' /\ KilledWhenStuck'
  BY <1>1 DEF Places, HeldInside, MainsWay, Stuck, FedUnlessStuck, KilledWhenStuck,
     Starting, Looping, Joining, Ending, Saved
<1> QED  BY <1>2, <1>3, <1>4, <1>5, <1>6, <1>7, <1>8, <1>9

(* The main loop looks whether it shall end.                               *)
LEMMA LoopInv ==
  ASSUME LifeInv, Life!Loop
  PROVE  LifeInv'
<1> USE DEF LifeInv, Life!LifecycleTypeOK, Life!Threads, Life!Locks, Life!None, Moves,
            Locks, Unlocks, Rest
<1>1. /\ process = "up" /\ at["main"] = "loop"
      /\ Moves("main", IF running THEN "feed" ELSE "close")
      /\ cmd_worker_running' \in BOOLEAN
      /\ UNCHANGED <<holder, queue, running, cancelled, inHandler, signalsLeft, sinceFeed,
                     saved, upgradeHeld, process>>
  BY DEF Life!Loop, Life!Go, Life!Runs, Life!Release, Life!flags, Life!disk, Life!control
<1>2. Life!LifecycleTypeOK'
  <2>1. at' \in [Life!Threads -> Life!Points]
    BY <1>1 DEF Life!Points
  <2>2. holder' \in [Life!Locks -> Life!Threads \cup {Life!None}]
    BY <1>1
  <2> QED  BY <1>1, <2>1, <2>2
<1>3. Places'
  BY <1>1 DEF Places, Starting, Looping, Joining, Ending, Saved
<1>4. HeldInside'
  BY <1>1 DEF Places, HeldInside
<1>5. MainsWay'
  BY <1>1 DEF Places, MainsWay, Starting, Looping, Joining, Ending, Saved
<1>6. FreedEmpty'
  BY <1>1 DEF HeldInside, MainsWay, FreedEmpty, Ending, Saved
<1>7. RunsUndisturbed'
  BY <1>1 DEF Places, MainsWay, RunsUndisturbed, Life!Threads, Starting, Looping,
     Joining, Ending, Saved
<1>8. SleepsFed'
  BY <1>1 DEF SleepsFed
<1>9. FedUnlessStuck' /\ KilledWhenStuck'
  BY <1>1 DEF Places, HeldInside, MainsWay, Stuck, FedUnlessStuck, KilledWhenStuck,
     Starting, Looping, Joining, Ending, Saved
<1> QED  BY <1>2, <1>3, <1>4, <1>5, <1>6, <1>7, <1>8, <1>9

(* The watchdog is fed.                                                    *)
LEMMA FeedInv ==
  ASSUME WatchdogTimeout \in Nat, LifeInv, Life!Feed
  PROVE  LifeInv'
<1> USE DEF LifeInv, Life!LifecycleTypeOK, Life!Threads, Life!Locks, Life!None, Moves,
            Locks, Unlocks, Rest
<1>1. /\ process = "up" /\ ~inHandler["main"] /\ at["main"] = "feeding"
      /\ Moves("main", "sleep") /\ Unlocks("watchdog") /\ sinceFeed' = 0
      /\ UNCHANGED <<queue, running, cmd_worker_running, cancelled, inHandler, signalsLeft,
                     saved, upgradeHeld, process>>
  BY DEF Life!Feed, Life!Go, Life!Runs,
       Life!Release, Life!flags, Life!disk, Life!control, Life!None
<1>2. Life!LifecycleTypeOK'
  <2>1. at' \in [Life!Threads -> Life!Points]
    BY <1>1 DEF Life!Points
  <2>2. holder' \in [Life!Locks -> Life!Threads \cup {Life!None}]
    BY <1>1
  <2>3. sinceFeed' \in 0..WatchdogTimeout
    BY <1>1
  <2> QED  BY <1>1, <2>1, <2>2, <2>3
<1>3. Places'
  BY <1>1 DEF Places, Starting, Looping, Joining, Ending, Saved
<1>4. HeldInside'
  BY <1>1 DEF Places, HeldInside
<1>5. MainsWay'
  BY <1>1 DEF Places, MainsWay, Starting, Looping, Joining, Ending, Saved
<1>6. FreedEmpty'
  BY <1>1 DEF HeldInside, MainsWay, FreedEmpty, Ending, Saved
<1>7. RunsUndisturbed'
  BY <1>1 DEF Places, MainsWay, RunsUndisturbed, Life!Threads, Starting, Looping,
     Joining, Ending, Saved
<1>8. SleepsFed'
  BY <1>1 DEF SleepsFed
<1>9. FedUnlessStuck' /\ KilledWhenStuck'
  BY <1>1 DEF Places, HeldInside, MainsWay, Stuck, FedUnlessStuck, KilledWhenStuck,
     Starting, Looping, Joining, Ending, Saved
<1> QED  BY <1>2, <1>3, <1>4, <1>5, <1>6, <1>7, <1>8, <1>9

(* Main closes the queue.                                                  *)
LEMMA CloseQueueInv ==
  ASSUME LifeInv, Life!CloseQueue
  PROVE  LifeInv'
<1> USE DEF LifeInv, Life!LifecycleTypeOK, Life!Threads, Life!Locks, Life!None, Moves,
            Locks, Unlocks, Rest
<1>1. /\ process = "up" /\ ~inHandler["main"] /\ at["main"] = "closing"
      /\ Moves("main", "cancel") /\ Unlocks("queue") /\ queue' = "closed"
      /\ UNCHANGED <<running, cmd_worker_running, cancelled, inHandler, signalsLeft,
                     sinceFeed, saved, upgradeHeld, process>>
  BY DEF Life!CloseQueue, Life!Go, Life!Runs,
       Life!Release, Life!flags, Life!disk, Life!control, Life!None
<1>2. Life!LifecycleTypeOK'
  <2>1. at' \in [Life!Threads -> Life!Points]
    BY <1>1 DEF Life!Points
  <2>2. holder' \in [Life!Locks -> Life!Threads \cup {Life!None}]
    BY <1>1
  <2> QED  BY <1>1, <2>1, <2>2
<1>3. Places'
  BY <1>1 DEF Places, Starting, Looping, Joining, Ending, Saved
<1>4. HeldInside'
  BY <1>1 DEF Places, HeldInside
<1>5. MainsWay'
  BY <1>1 DEF Places, MainsWay, Starting, Looping, Joining, Ending, Saved
<1>6. FreedEmpty'
  BY <1>1 DEF HeldInside, MainsWay, FreedEmpty, Ending, Saved
<1>7. RunsUndisturbed'
  BY <1>1 DEF Places, MainsWay, RunsUndisturbed, Life!Threads, Starting, Looping,
     Joining, Ending, Saved
<1>8. SleepsFed'
  BY <1>1 DEF SleepsFed
<1>9. FedUnlessStuck' /\ KilledWhenStuck'
  BY <1>1 DEF Places, HeldInside, MainsWay, Stuck, FedUnlessStuck, KilledWhenStuck,
     Starting, Looping, Joining, Ending, Saved
<1> QED  BY <1>2, <1>3, <1>4, <1>5, <1>6, <1>7, <1>8, <1>9

(* Main cancels the telemetry thread.                                      *)
LEMMA CancelTelemetryInv ==
  ASSUME LifeInv, Life!CancelTelemetry
  PROVE  LifeInv'
<1> USE DEF LifeInv, Life!LifecycleTypeOK, Life!Threads, Life!Locks, Life!None, Moves,
            Locks, Unlocks, Rest
<1>1. /\ process = "up" /\ at["main"] = "cancel" /\ Moves("main", "join_telemetry")
      /\ cancelled' = TRUE
      /\ UNCHANGED <<holder, queue, running, cmd_worker_running, inHandler, signalsLeft,
                     sinceFeed, saved, upgradeHeld, process>>
  BY DEF Life!CancelTelemetry, Life!Go, Life!Runs,
       Life!Release, Life!flags, Life!disk, Life!control
<1>2. Life!LifecycleTypeOK'
  <2>1. at' \in [Life!Threads -> Life!Points]
    BY <1>1 DEF Life!Points
  <2>2. holder' \in [Life!Locks -> Life!Threads \cup {Life!None}]
    BY <1>1
  <2> QED  BY <1>1, <2>1, <2>2
<1>3. Places'
  BY <1>1 DEF Places, Starting, Looping, Joining, Ending, Saved
<1>4. HeldInside'
  BY <1>1 DEF Places, HeldInside
<1>5. MainsWay'
  BY <1>1 DEF Places, MainsWay, Starting, Looping, Joining, Ending, Saved
<1>6. FreedEmpty'
  BY <1>1 DEF HeldInside, MainsWay, FreedEmpty, Ending, Saved
<1>7. RunsUndisturbed'
  BY <1>1 DEF Places, MainsWay, RunsUndisturbed, Life!Threads, Starting, Looping,
     Joining, Ending, Saved
<1>8. SleepsFed'
  BY <1>1 DEF SleepsFed
<1>9. FedUnlessStuck' /\ KilledWhenStuck'
  BY <1>1 DEF Places, HeldInside, MainsWay, Stuck, FedUnlessStuck, KilledWhenStuck,
     Starting, Looping, Joining, Ending, Saved
<1> QED  BY <1>2, <1>3, <1>4, <1>5, <1>6, <1>7, <1>8, <1>9

(* Main joins the telemetry thread.                                        *)
LEMMA JoinTelemetryInv ==
  ASSUME LifeInv, Life!JoinTelemetry
  PROVE  LifeInv'
<1> USE DEF LifeInv, Life!LifecycleTypeOK, Life!Threads, Life!Locks, Life!None, Moves,
            Locks, Unlocks, Rest
<1>1. /\ process = "up" /\ at["main"] = "join_telemetry" /\ Moves("main", "join_worker")
      /\ UNCHANGED <<holder, Rest>>
  BY DEF Life!JoinTelemetry, Life!Go, Life!Runs,
       Life!Release, Life!flags, Life!disk, Life!control
<1>2. Life!LifecycleTypeOK'
  <2>1. at' \in [Life!Threads -> Life!Points]
    BY <1>1 DEF Life!Points
  <2>2. holder' \in [Life!Locks -> Life!Threads \cup {Life!None}]
    BY <1>1
  <2> QED  BY <1>1, <2>1, <2>2
<1>3. Places'
  BY <1>1 DEF Places, Starting, Looping, Joining, Ending, Saved
<1>4. HeldInside'
  BY <1>1 DEF Places, HeldInside
<1>5. MainsWay'
  BY <1>1 DEF Places, MainsWay, Starting, Looping, Joining, Ending, Saved
<1>6. FreedEmpty'
  BY <1>1 DEF HeldInside, MainsWay, FreedEmpty, Ending, Saved
<1>7. RunsUndisturbed'
  BY <1>1 DEF Places, MainsWay, RunsUndisturbed, Life!Threads, Starting, Looping,
     Joining, Ending, Saved
<1>8. SleepsFed'
  BY <1>1 DEF SleepsFed
<1>9. FedUnlessStuck' /\ KilledWhenStuck'
  BY <1>1 DEF Places, HeldInside, MainsWay, Stuck, FedUnlessStuck, KilledWhenStuck,
     Starting, Looping, Joining, Ending, Saved
<1> QED  BY <1>2, <1>3, <1>4, <1>5, <1>6, <1>7, <1>8, <1>9

(* Main joins the worker.                                                  *)
LEMMA JoinWorkerInv ==
  ASSUME LifeInv, Life!JoinWorker
  PROVE  LifeInv'
<1> USE DEF LifeInv, Life!LifecycleTypeOK, Life!Threads, Life!Locks, Life!None, Moves,
            Locks, Unlocks, Rest
<1>1. /\ process = "up" /\ at["main"] = "join_worker" /\ Moves("main", "destroy")
      /\ at["worker"] = "dead"
      /\ UNCHANGED <<holder, Rest>>
  BY DEF Life!JoinWorker, Life!Go, Life!Runs, Life!Release, Life!flags, Life!disk, Life!control
<1>2. Life!LifecycleTypeOK'
  <2>1. at' \in [Life!Threads -> Life!Points]
    BY <1>1 DEF Life!Points
  <2>2. holder' \in [Life!Locks -> Life!Threads \cup {Life!None}]
    BY <1>1
  <2> QED  BY <1>1, <2>1, <2>2
<1>3. Places'
  BY <1>1 DEF Places, Starting, Looping, Joining, Ending, Saved
<1>4. HeldInside'
  BY <1>1 DEF Places, HeldInside
<1>5. MainsWay'
  BY <1>1 DEF Places, MainsWay, Starting, Looping, Joining, Ending, Saved
<1>6. FreedEmpty'
  BY <1>1 DEF HeldInside, MainsWay, FreedEmpty, Ending, Saved
<1>7. RunsUndisturbed'
  BY <1>1 DEF Places, MainsWay, RunsUndisturbed, Life!Threads, Starting, Looping,
     Joining, Ending, Saved
<1>8. SleepsFed'
  BY <1>1 DEF SleepsFed
<1>9. FedUnlessStuck' /\ KilledWhenStuck'
  BY <1>1 DEF Places, HeldInside, MainsWay, Stuck, FedUnlessStuck, KilledWhenStuck,
     Starting, Looping, Joining, Ending, Saved
<1> QED  BY <1>2, <1>3, <1>4, <1>5, <1>6, <1>7, <1>8, <1>9

(* Main frees the queue.                                                   *)
LEMMA DestroyQueueInv ==
  ASSUME LifeInv, Life!DestroyQueue
  PROVE  LifeInv'
<1> USE DEF LifeInv, Life!LifecycleTypeOK, Life!Threads, Life!Locks, Life!None, Moves,
            Locks, Unlocks, Rest
<1>1. /\ process = "up" /\ at["main"] = "destroy" /\ Moves("main", "save")
      /\ holder["queue"] = "none" /\ queue' = "gone"
      /\ UNCHANGED <<holder, running, cmd_worker_running, cancelled, inHandler, signalsLeft,
                     sinceFeed, saved, upgradeHeld, process>>
  BY DEF Life!DestroyQueue, Life!Go, Life!Runs,
       Life!Release, Life!flags, Life!disk, Life!control, Life!None
<1>2. Life!LifecycleTypeOK'
  <2>1. at' \in [Life!Threads -> Life!Points]
    BY <1>1 DEF Life!Points
  <2>2. holder' \in [Life!Locks -> Life!Threads \cup {Life!None}]
    BY <1>1
  <2> QED  BY <1>1, <2>1, <2>2
<1>3. Places'
  BY <1>1 DEF Places, Starting, Looping, Joining, Ending, Saved
<1>4. HeldInside'
  BY <1>1 DEF Places, HeldInside
<1>5. MainsWay'
  BY <1>1 DEF Places, MainsWay, Starting, Looping, Joining, Ending, Saved
<1>6. FreedEmpty'
  BY <1>1 DEF HeldInside, MainsWay, FreedEmpty, Ending, Saved
<1>7. RunsUndisturbed'
  BY <1>1 DEF Places, MainsWay, RunsUndisturbed, Life!Threads, Starting, Looping,
     Joining, Ending, Saved
<1>8. SleepsFed'
  BY <1>1 DEF SleepsFed
<1>9. FedUnlessStuck' /\ KilledWhenStuck'
  BY <1>1 DEF Places, HeldInside, MainsWay, Stuck, FedUnlessStuck, KilledWhenStuck,
     Starting, Looping, Joining, Ending, Saved
<1> QED  BY <1>2, <1>3, <1>4, <1>5, <1>6, <1>7, <1>8, <1>9

(* Main writes the cache file.                                             *)
LEMMA SaveCacheInv ==
  ASSUME LifeInv, Life!SaveCache
  PROVE  LifeInv'
<1> USE DEF LifeInv, Life!LifecycleTypeOK, Life!Threads, Life!Locks, Life!None, Moves,
            Locks, Unlocks, Rest
<1>1. /\ process = "up" /\ ~inHandler["main"] /\ at["main"] = "saving"
      /\ Moves("main", "join_upgrade") /\ Unlocks("cache") /\ saved' = TRUE
      /\ UNCHANGED <<queue, running, cmd_worker_running, cancelled, inHandler, signalsLeft,
                     sinceFeed, upgradeHeld, process>>
  BY DEF Life!SaveCache, Life!Go, Life!Runs,
       Life!Release, Life!flags, Life!disk, Life!control, Life!None
<1>2. Life!LifecycleTypeOK'
  <2>1. at' \in [Life!Threads -> Life!Points]
    BY <1>1 DEF Life!Points
  <2>2. holder' \in [Life!Locks -> Life!Threads \cup {Life!None}]
    BY <1>1
  <2> QED  BY <1>1, <2>1, <2>2
<1>3. Places'
  BY <1>1 DEF Places, Starting, Looping, Joining, Ending, Saved
<1>4. HeldInside'
  BY <1>1 DEF Places, HeldInside
<1>5. MainsWay'
  BY <1>1 DEF Places, MainsWay, Starting, Looping, Joining, Ending, Saved
<1>6. FreedEmpty'
  BY <1>1 DEF HeldInside, MainsWay, FreedEmpty, Ending, Saved
<1>7. RunsUndisturbed'
  BY <1>1 DEF Places, MainsWay, RunsUndisturbed, Life!Threads, Starting, Looping,
     Joining, Ending, Saved
<1>8. SleepsFed'
  BY <1>1 DEF SleepsFed
<1>9. FedUnlessStuck' /\ KilledWhenStuck'
  BY <1>1 DEF Places, HeldInside, MainsWay, Stuck, FedUnlessStuck, KilledWhenStuck,
     Starting, Looping, Joining, Ending, Saved
<1> QED  BY <1>2, <1>3, <1>4, <1>5, <1>6, <1>7, <1>8, <1>9

(* Main joins the upgrade.                                                 *)
LEMMA JoinUpgradeInv ==
  ASSUME LifeInv, Life!JoinUpgrade
  PROVE  LifeInv'
<1> USE DEF LifeInv, Life!LifecycleTypeOK, Life!Threads, Life!Locks, Life!None, Moves,
            Locks, Unlocks, Rest
<1>1. /\ process = "up" /\ at["main"] = "join_upgrade" /\ Moves("main", "audit")
      /\ at["ota"] = "dead"
      /\ UNCHANGED <<holder, Rest>>
  BY DEF Life!JoinUpgrade, Life!Go, Life!Runs,
       Life!Release, Life!flags, Life!disk, Life!control
<1>2. Life!LifecycleTypeOK'
  <2>1. at' \in [Life!Threads -> Life!Points]
    BY <1>1 DEF Life!Points
  <2>2. holder' \in [Life!Locks -> Life!Threads \cup {Life!None}]
    BY <1>1
  <2> QED  BY <1>1, <2>1, <2>2
<1>3. Places'
  BY <1>1 DEF Places, Starting, Looping, Joining, Ending, Saved
<1>4. HeldInside'
  BY <1>1 DEF Places, HeldInside
<1>5. MainsWay'
  BY <1>1 DEF Places, MainsWay, Starting, Looping, Joining, Ending, Saved
<1>6. FreedEmpty'
  BY <1>1 DEF HeldInside, MainsWay, FreedEmpty, Ending, Saved
<1>7. RunsUndisturbed'
  BY <1>1 DEF Places, MainsWay, RunsUndisturbed, Life!Threads, Starting, Looping,
     Joining, Ending, Saved
<1>8. SleepsFed'
  BY <1>1 DEF SleepsFed
<1>9. FedUnlessStuck' /\ KilledWhenStuck'
  BY <1>1 DEF Places, HeldInside, MainsWay, Stuck, FedUnlessStuck, KilledWhenStuck,
     Starting, Looping, Joining, Ending, Saved
<1> QED  BY <1>2, <1>3, <1>4, <1>5, <1>6, <1>7, <1>8, <1>9

(* Main takes a mutex.                                                     *)
LEMMA MainTakesInv ==
  ASSUME LifeInv, Life!MainTakes
  PROVE  LifeInv'
<1> USE DEF LifeInv, Life!LifecycleTypeOK, Life!Threads, Life!Locks, Life!None, Moves,
            Locks, Unlocks, Rest
<1>1. /\ process = "up" /\ ~inHandler["main"]
      /\ \/ at["main"] = "feed" /\ Moves("main", "feeding") /\ Locks("main", "watchdog")
         \/ at["main"] = "close" /\ Moves("main", "closing") /\ Locks("main", "queue")
         \/ at["main"] = "save" /\ Moves("main", "saving") /\ Locks("main", "cache")
         \/ at["main"] = "audit" /\ Moves("main", "event") /\ Locks("main", "audit")
      /\ UNCHANGED Rest
  BY Takes DEF Life!MainTakes, Life!flags, Life!disk, Life!control
<1>2. Life!LifecycleTypeOK'
  <2>1. at' \in [Life!Threads -> Life!Points]
    <3>1. \E to \in Life!Points : at' = [at EXCEPT !["main"] = to]
      BY <1>1 DEF Life!Points
    <3> QED  BY <3>1
  <2>2. holder' \in [Life!Locks -> Life!Threads \cup {Life!None}]
    BY <1>1
  <2> QED  BY <1>1, <2>1, <2>2
<1>3. Places'
  BY <1>1 DEF Places, Starting, Looping, Joining, Ending, Saved
<1>4. HeldInside'
  BY <1>1 DEF Places, HeldInside
<1>5. MainsWay'
  BY <1>1 DEF Places, MainsWay, Starting, Looping, Joining, Ending, Saved
<1>6. FreedEmpty'
  BY <1>1 DEF HeldInside, MainsWay, FreedEmpty, Ending, Saved
<1>7. RunsUndisturbed'
  BY <1>1 DEF Places, MainsWay, RunsUndisturbed, Life!Threads, Starting, Looping,
     Joining, Ending, Saved
<1>8. SleepsFed'
  BY <1>1 DEF SleepsFed
<1>9. FedUnlessStuck' /\ KilledWhenStuck'
  BY <1>1 DEF Places, HeldInside, MainsWay, Stuck, FedUnlessStuck, KilledWhenStuck,
     Starting, Looping, Joining, Ending, Saved
<1> QED  BY <1>2, <1>3, <1>4, <1>5, <1>6, <1>7, <1>8, <1>9

(* A round of the telemetry thread.                                        *)
LEMMA TelemetryInv ==
  ASSUME LifeInv, Life!Telemetry
  PROVE  LifeInv'
<1> USE DEF LifeInv, Life!LifecycleTypeOK, Life!Threads, Life!Locks, Life!None, Moves,
            Locks, Unlocks, Rest
<1>1. /\ process = "up" /\ ~inHandler["telemetry"]
      /\ \/ at["telemetry"] = "sleep" /\ Moves("telemetry", "call") /\ holder' = holder
         \/ at["telemetry"] = "call" /\ Moves("telemetry", "calling") /\ Locks("telemetry", "rpc")
         \/ at["telemetry"] = "calling" /\ Moves("telemetry", "push") /\ Unlocks("rpc")
         \/ at["telemetry"] = "calling" /\ Unlocks("rpc")
            /\ (Moves("telemetry", "sleep") \/ Moves("telemetry", "dead"))
         \/ at["telemetry"] = "push" /\ Moves("telemetry", "pushing") /\ Locks("telemetry", "cache")
         \/ at["telemetry"] = "pushing" /\ Unlocks("cache")
            /\ (Moves("telemetry", "sleep") \/ Moves("telemetry", "dead"))
      /\ UNCHANGED Rest
  BY Takes DEF Life!Telemetry, Life!Go, Life!Runs,
       Life!Release, Life!flags, Life!disk, Life!control
<1>2. Life!LifecycleTypeOK'
  <2>1. at' \in [Life!Threads -> Life!Points]
    <3>1. \E to \in Life!Points : at' = [at EXCEPT !["telemetry"] = to]
      BY <1>1 DEF Life!Points
    <3> QED  BY <3>1
  <2>2. holder' \in [Life!Locks -> Life!Threads \cup {Life!None}]
    BY <1>1
  <2> QED  BY <1>1, <2>1, <2>2
<1>3. Places'
  BY <1>1 DEF Places, Starting, Looping, Joining, Ending, Saved
<1>4. HeldInside'
  BY <1>1 DEF Places, HeldInside
<1>5. MainsWay'
  BY <1>1 DEF Places, MainsWay, Starting, Looping, Joining, Ending, Saved
<1>6. FreedEmpty'
  BY <1>1 DEF HeldInside, MainsWay, FreedEmpty, Ending, Saved
<1>7. RunsUndisturbed'
  BY <1>1 DEF Places, MainsWay, RunsUndisturbed, Life!Threads, Starting, Looping,
     Joining, Ending, Saved
<1>8. SleepsFed'
  BY <1>1 DEF SleepsFed
<1>9. FedUnlessStuck' /\ KilledWhenStuck'
  BY <1>1 DEF Places, HeldInside, MainsWay, Stuck, FedUnlessStuck, KilledWhenStuck,
     Starting, Looping, Joining, Ending, Saved
<1> QED  BY <1>2, <1>3, <1>4, <1>5, <1>6, <1>7, <1>8, <1>9

(* The cancelled thread dies where it is.                                  *)
LEMMA CancelledInv ==
  ASSUME LifeInv, Life!Cancelled
  PROVE  LifeInv'
<1> USE DEF LifeInv, Life!LifecycleTypeOK, Life!Threads, Life!Locks, Life!None, Moves,
            Locks, Unlocks, Rest
<1>1. /\ process = "up" /\ cancelled /\ ~inHandler["telemetry"]
      /\ at["telemetry"] \in {"sleep", "calling", "pushing"} /\ Moves("telemetry", "dead")
      /\ UNCHANGED <<holder, Rest>>
  BY DEF Life!Cancelled, Life!Go, Life!Runs, Life!Release, Life!flags, Life!disk, Life!control
<1>2. Life!LifecycleTypeOK'
  <2>1. at' \in [Life!Threads -> Life!Points]
    BY <1>1 DEF Life!Points
  <2>2. holder' \in [Life!Locks -> Life!Threads \cup {Life!None}]
    BY <1>1
  <2> QED  BY <1>1, <2>1, <2>2
<1>3. Places'
  BY <1>1 DEF Places, Starting, Looping, Joining, Ending, Saved
<1>4. HeldInside'
  BY <1>1 DEF Places, HeldInside
<1>5. MainsWay'
  BY <1>1 DEF Places, MainsWay, Starting, Looping, Joining, Ending, Saved
<1>6. FreedEmpty'
  BY <1>1 DEF HeldInside, MainsWay, FreedEmpty, Ending, Saved
<1>7. RunsUndisturbed'
  BY <1>1 DEF Places, MainsWay, RunsUndisturbed, Life!Threads, Starting, Looping,
     Joining, Ending, Saved
<1>8. SleepsFed'
  BY <1>1 DEF SleepsFed
<1>9. FedUnlessStuck' /\ KilledWhenStuck'
  BY <1>1 DEF Places, HeldInside, MainsWay, Stuck, FedUnlessStuck, KilledWhenStuck,
     Starting, Looping, Joining, Ending, Saved
<1> QED  BY <1>2, <1>3, <1>4, <1>5, <1>6, <1>7, <1>8, <1>9

(* The worker.                                                             *)
LEMMA WorkerInv ==
  ASSUME LifeInv, Life!Worker
  PROVE  LifeInv'
<1> USE DEF LifeInv, Life!LifecycleTypeOK, Life!Threads, Life!Locks, Life!None, Moves,
            Locks, Unlocks, Rest
<1>1. /\ process = "up" /\ ~inHandler["worker"]
      /\ \/ at["worker"] = "check" /\ holder' = holder
            /\ (Moves("worker", "receive") \/ Moves("worker", "dead"))
         \/ at["worker"] = "command" /\ holder' = holder
            /\ \/ Moves("worker", "call") \/ Moves("worker", "log") \/ Moves("worker", "check")
               \/ at' = [at EXCEPT !["worker"] = "log", !["ota"] = "upgrade"]
         \/ at["worker"] \in {"receive", "wait"} /\ Moves("worker", "receiving")
            /\ Locks("worker", "queue")
         \/ at["worker"] = "receiving" /\ Unlocks("queue")
            /\ \E to \in {"command", "wait", "check", "dead"} : Moves("worker", to)
         \/ at["worker"] = "call" /\ Moves("worker", "calling") /\ Locks("worker", "rpc")
         \/ at["worker"] = "calling" /\ Unlocks("rpc")
            /\ (Moves("worker", "log") \/ Moves("worker", "check"))
         \/ at["worker"] = "log" /\ Moves("worker", "logging") /\ Locks("worker", "audit")
         \/ at["worker"] = "logging" /\ Moves("worker", "check") /\ Unlocks("audit")
  <2>1. CASE Life!WorkerChecks
    BY <2>1 DEF Life!WorkerChecks, Life!Go, Life!Runs,
         Life!Release, Life!flags, Life!disk, Life!control
  <2>2. CASE Life!WorkerReceives
    BY <2>2, Takes DEF Life!WorkerReceives, Life!AfterReceive, Life!Go, Life!Runs,
         Life!Release, Life!flags, Life!disk, Life!control
  <2>3. CASE Life!WorkerRestartsDevice
    BY <2>3 DEF Life!WorkerRestartsDevice, Life!Go, Life!Runs,
         Life!Release, Life!flags, Life!disk, Life!control
  <2>4. CASE Life!WorkerExecutes
    BY <2>4, Takes DEF Life!WorkerExecutes, Life!Go, Life!Runs,
         Life!Release, Life!flags, Life!disk, Life!control
  <2>5. CASE Life!WorkerStartsUpgrade
    BY <2>5 DEF Life!WorkerStartsUpgrade, Life!Runs
  <2> QED  BY <2>1, <2>2, <2>3, <2>4, <2>5 DEF Life!Worker
<1>2. /\ running' \in BOOLEAN
      /\ running' => running
      /\ UNCHANGED <<queue, cmd_worker_running, cancelled, inHandler, signalsLeft,
                     sinceFeed, saved, upgradeHeld, process>>
  <2>1. running \in BOOLEAN
    OBVIOUS
  <2>2. /\ running' \in {running, FALSE}
        /\ UNCHANGED <<queue, cmd_worker_running, cancelled, inHandler, signalsLeft,
                       sinceFeed, saved, upgradeHeld, process>>
    BY DEF Life!Worker, Life!WorkerChecks, Life!WorkerReceives, Life!WorkerRestartsDevice,
           Life!WorkerExecutes, Life!WorkerStartsUpgrade, Life!flags, Life!disk, Life!control
  <2> HIDE DEF LifeInv
  <2>3. CASE running' = running
    BY <2>1, <2>2, <2>3
  <2>4. CASE running' = FALSE
    BY <2>2, <2>4
  <2> QED  BY <2>2, <2>3, <2>4
<1>3. Life!LifecycleTypeOK'
  <2>1. at' \in [Life!Threads -> Life!Points]
    <3>1. \/ \E to \in Life!Points : at' = [at EXCEPT !["worker"] = to]
          \/ at' = [at EXCEPT !["worker"] = "log", !["ota"] = "upgrade"]
      BY <1>1 DEF Life!Points
    <3>2. {"log", "upgrade"} \subseteq Life!Points
      BY DEF Life!Points
    <3> QED  BY <3>1, <3>2
  <2>2. holder' \in [Life!Locks -> Life!Threads \cup {Life!None}]
    BY <1>1, <1>2
  <2>3. {running', cmd_worker_running', cancelled', saved', upgradeHeld'} \subseteq BOOLEAN
    BY <1>2
  <2> QED  BY <1>2, <2>1, <2>2, <2>3
<1>4. Places'
  BY <1>1, <1>2 DEF Places, Starting, Looping, Joining, Ending, Saved
<1>5. HeldInside'
  BY <1>1, <1>2 DEF Places, HeldInside
<1>6. MainsWay'
  BY <1>1, <1>2 DEF Places, MainsWay, Starting, Looping, Joining, Ending, Saved
<1>7. FreedEmpty'
  BY <1>1, <1>2 DEF HeldInside, MainsWay, FreedEmpty, Ending, Saved
<1>8. RunsUndisturbed'
  BY <1>1, <1>2 DEF Places, MainsWay, RunsUndisturbed, Life!Threads, Starting,
     Looping, Joining, Ending, Saved
<1>9. SleepsFed'
  BY <1>1, <1>2 DEF SleepsFed
<1>10. FedUnlessStuck' /\ KilledWhenStuck'
  <2>1. at'["main"] = at["main"] /\ at'["telemetry"] = at["telemetry"]
    BY <1>1
  <2>2. \A lock \in {"rpc", "cache"} : holder[lock] = "telemetry" => holder'[lock] = "telemetry"
    BY <1>1 DEF Places, HeldInside
  <2>3. holder["queue"] \notin {"none", "worker"} => holder'["queue"] = holder["queue"]
    BY <1>1 DEF HeldInside
  <2>4. Stuck => Stuck'
    BY <1>1, <1>2, <2>1, <2>2, <2>3 DEF Stuck
  <2> HIDE DEF LifeInv
  <2>5. FedUnlessStuck /\ process = "up"
    BY <1>1 DEF LifeInv
  <2> QED  BY <1>2, <2>4, <2>5 DEF FedUnlessStuck, KilledWhenStuck
<1> QED  BY <1>3, <1>4, <1>5, <1>6, <1>7, <1>8, <1>9, <1>10

(* An upgrade ends.                                                        *)
LEMMA UpgradeEndsInv ==
  ASSUME LifeInv, Life!UpgradeEnds
  PROVE  LifeInv'
<1> USE DEF LifeInv, Life!LifecycleTypeOK, Life!Threads, Life!Locks, Life!None, Moves,
            Locks, Unlocks, Rest
<1>1. /\ process = "up" /\ at["ota"] = "upgrade" /\ Moves("ota", "dead")
      /\ UNCHANGED <<holder, Rest>>
  BY DEF Life!UpgradeEnds, Life!Go, Life!Runs,
       Life!Release, Life!flags, Life!disk, Life!control
<1>2. Life!LifecycleTypeOK'
  <2>1. at' \in [Life!Threads -> Life!Points]
    BY <1>1 DEF Life!Points
  <2>2. holder' \in [Life!Locks -> Life!Threads \cup {Life!None}]
    BY <1>1
  <2> QED  BY <1>1, <2>1, <2>2
<1>3. Places'
  BY <1>1 DEF Places, Starting, Looping, Joining, Ending, Saved
<1>4. HeldInside'
  BY <1>1 DEF Places, HeldInside
<1>5. MainsWay'
  BY <1>1 DEF Places, MainsWay, Starting, Looping, Joining, Ending, Saved
<1>6. FreedEmpty'
  BY <1>1 DEF HeldInside, MainsWay, FreedEmpty, Ending, Saved
<1>7. RunsUndisturbed'
  BY <1>1 DEF Places, MainsWay, RunsUndisturbed, Life!Threads, Starting, Looping,
     Joining, Ending, Saved
<1>8. SleepsFed'
  BY <1>1 DEF SleepsFed
<1>9. FedUnlessStuck' /\ KilledWhenStuck'
  BY <1>1 DEF Places, HeldInside, MainsWay, Stuck, FedUnlessStuck, KilledWhenStuck,
     Starting, Looping, Joining, Ending, Saved
<1> QED  BY <1>2, <1>3, <1>4, <1>5, <1>6, <1>7, <1>8, <1>9

(* A message arrives.                                                      *)
LEMMA MessageInv ==
  ASSUME LifeInv, Life!Message
  PROVE  LifeInv'
<1> USE DEF LifeInv, Life!LifecycleTypeOK, Life!Threads, Life!Locks, Life!None, Moves,
            Locks, Unlocks, Rest
<1>1. /\ process = "up" /\ at["network"] = "idle" /\ Moves("network", "send")
      /\ UNCHANGED <<holder, Rest>>
  BY DEF Life!Message, Life!Go, Life!Runs, Life!Release, Life!flags, Life!disk, Life!control
<1>2. Life!LifecycleTypeOK'
  <2>1. at' \in [Life!Threads -> Life!Points]
    BY <1>1 DEF Life!Points
  <2>2. holder' \in [Life!Locks -> Life!Threads \cup {Life!None}]
    BY <1>1
  <2> QED  BY <1>1, <2>1, <2>2
<1>3. Places'
  BY <1>1 DEF Places, Starting, Looping, Joining, Ending, Saved
<1>4. HeldInside'
  BY <1>1 DEF Places, HeldInside
<1>5. MainsWay'
  BY <1>1 DEF Places, MainsWay, Starting, Looping, Joining, Ending, Saved
<1>6. FreedEmpty'
  BY <1>1 DEF HeldInside, MainsWay, FreedEmpty, Ending, Saved
<1>7. RunsUndisturbed'
  BY <1>1 DEF Places, MainsWay, RunsUndisturbed, Life!Threads, Starting, Looping,
     Joining, Ending, Saved
<1>8. SleepsFed'
  BY <1>1 DEF SleepsFed
<1>9. FedUnlessStuck' /\ KilledWhenStuck'
  BY <1>1 DEF Places, HeldInside, MainsWay, Stuck, FedUnlessStuck, KilledWhenStuck,
     Starting, Looping, Joining, Ending, Saved
<1> QED  BY <1>2, <1>3, <1>4, <1>5, <1>6, <1>7, <1>8, <1>9

(* It is put into the queue.                                               *)
LEMMA SendInv ==
  ASSUME LifeInv, Life!Send
  PROVE  LifeInv'
<1> USE DEF LifeInv, Life!LifecycleTypeOK, Life!Threads, Life!Locks, Life!None, Moves,
            Locks, Unlocks, Rest
<1>1. /\ process = "up" /\ ~inHandler["network"]
      /\ \/ at["network"] = "send" /\ Moves("network", "sending") /\ Locks("network", "queue")
            /\ queue # "gone"
         \/ at["network"] = "sending" /\ Moves("network", "idle") /\ Unlocks("queue")
      /\ UNCHANGED Rest
  BY Takes DEF Life!Send, Life!Go, Life!Runs, Life!Release, Life!flags, Life!disk, Life!control
<1>2. Life!LifecycleTypeOK'
  <2>1. at' \in [Life!Threads -> Life!Points]
    <3>1. \E to \in Life!Points : at' = [at EXCEPT !["network"] = to]
      BY <1>1 DEF Life!Points
    <3> QED  BY <3>1
  <2>2. holder' \in [Life!Locks -> Life!Threads \cup {Life!None}]
    BY <1>1
  <2> QED  BY <1>1, <2>1, <2>2
<1>3. Places'
  BY <1>1 DEF Places, Starting, Looping, Joining, Ending, Saved
<1>4. HeldInside'
  BY <1>1 DEF Places, HeldInside
<1>5. MainsWay'
  BY <1>1 DEF Places, MainsWay, Starting, Looping, Joining, Ending, Saved
<1>6. FreedEmpty'
  BY <1>1 DEF HeldInside, MainsWay, FreedEmpty, Ending, Saved
<1>7. RunsUndisturbed'
  BY <1>1 DEF Places, MainsWay, RunsUndisturbed, Life!Threads, Starting, Looping,
     Joining, Ending, Saved
<1>8. SleepsFed'
  BY <1>1 DEF SleepsFed
<1>9. FedUnlessStuck' /\ KilledWhenStuck'
  BY <1>1 DEF Places, HeldInside, MainsWay, Stuck, FedUnlessStuck, KilledWhenStuck,
     Starting, Looping, Joining, Ending, Saved
<1> QED  BY <1>2, <1>3, <1>4, <1>5, <1>6, <1>7, <1>8, <1>9

(* The monitor: what it kills is stuck.                                    *)
LEMMA MonitorInv ==
  ASSUME WatchdogTimeout \in Nat, WatchdogTimeout >= 2, LifeInv, Life!Monitor
  PROVE  LifeInv'
<1> USE DEF LifeInv, Life!LifecycleTypeOK, Life!Threads, Life!Locks, Life!None, Moves,
            Locks, Unlocks, Rest
<1>1. /\ process = "up" /\ ~inHandler["monitor"]
      /\ \/ at["monitor"] = "wake" /\ Moves("monitor", "checking") /\ Locks("monitor", "watchdog")
            /\ process' = process
         \/ at["monitor"] = "checking" /\ Moves("monitor", "second") /\ Unlocks("watchdog")
            /\ (process' = process \/ (process' = "killed" /\ sinceFeed \notin {0, 1}))
      /\ UNCHANGED <<queue, running, cmd_worker_running, cancelled, inHandler, signalsLeft,
                     sinceFeed, saved, upgradeHeld>>
  BY Takes DEF Life!Monitor, Life!Go, Life!Runs,
       Life!Release, Life!flags, Life!disk, Life!control
<1>2. Life!LifecycleTypeOK'
  <2>1. at' \in [Life!Threads -> Life!Points]
    <3>1. \E to \in Life!Points : at' = [at EXCEPT !["monitor"] = to]
      BY <1>1 DEF Life!Points
    <3> QED  BY <3>1
  <2>2. holder' \in [Life!Locks -> Life!Threads \cup {Life!None}]
    BY <1>1
  <2> QED  BY <1>1, <2>1, <2>2
<1>3. Places'
  BY <1>1 DEF Places, Starting, Looping, Joining, Ending, Saved
<1>4. HeldInside'
  BY <1>1 DEF Places, HeldInside
<1>5. MainsWay'
  BY <1>1 DEF Places, MainsWay, Starting, Looping, Joining, Ending, Saved
<1>6. FreedEmpty'
  BY <1>1 DEF HeldInside, MainsWay, FreedEmpty, Ending, Saved
<1>7. RunsUndisturbed'
  BY <1>1 DEF Places, MainsWay, RunsUndisturbed, Life!Threads, Starting, Looping,
     Joining, Ending, Saved
<1>8. SleepsFed'
  BY <1>1 DEF SleepsFed
<1>9. FedUnlessStuck' /\ KilledWhenStuck'
  <2>1. at'["main"] = at["main"] /\ at'["telemetry"] = at["telemetry"]
    BY <1>1
  <2>2. \A lock \in {"rpc", "cache", "queue"} : holder'[lock] = holder[lock]
    BY <1>1
  <2>3. Stuck => Stuck'
    BY <1>1, <2>1, <2>2 DEF Stuck
  <2>4. running => ~Stuck
    BY DEF RunsUndisturbed, MainsWay, HeldInside, Stuck, Starting, Looping, Joining, Ending, Saved
  <2>5. process' = "killed" => sinceFeed \notin {0, 1}
    BY <1>1
  <2> HIDE DEF LifeInv
  <2>6. FedUnlessStuck
    BY DEF LifeInv
  <2> QED  BY <1>1, <2>3, <2>4, <2>5, <2>6 DEF FedUnlessStuck, KilledWhenStuck
<1> QED  BY <1>2, <1>3, <1>4, <1>5, <1>6, <1>7, <1>8, <1>9

(* A signal: its thread closes the queue next, if there is one.            *)
LEMMA SignalInv ==
  ASSUME Signals \in Nat, LifeInv, NEW t \in Life!Threads, Life!Signal(t)
  PROVE  LifeInv'
<1> USE DEF LifeInv, Life!LifecycleTypeOK, Life!Threads, Life!Locks, Life!None, Moves,
            Locks, Unlocks, Rest
<1>1. /\ process = "up" /\ ~inHandler[t] /\ at["main"] \notin Starting
      /\ signalsLeft > 0
      /\ signalsLeft' = signalsLeft - 1
      /\ running' = FALSE /\ cmd_worker_running' = FALSE
      /\ inHandler' = [inHandler EXCEPT ![t] = queue \in {"open", "closed"}]
      /\ UNCHANGED <<holder, queue, cancelled, process, sinceFeed, saved, upgradeHeld>>
  BY DEF Life!Signal, Life!Runs, Life!CmdQueueSet, Life!disk, Starting
<1>2. \/ at["main"] = "sleep" /\ t = "main" /\ Moves("main", "loop")
      \/ (at["main"] # "sleep" \/ t # "main") /\ at' = at
  BY DEF Life!Signal
<1>3. Life!LifecycleTypeOK'
  <2>1. at' \in [Life!Threads -> Life!Points]
    <3>1. at' = at \/ at' = [at EXCEPT !["main"] = "loop"]
      BY <1>2
    <3>2. "loop" \in Life!Points
      BY DEF Life!Points
    <3> QED  BY <3>1, <3>2
  <2>2. holder' \in [Life!Locks -> Life!Threads \cup {Life!None}]
    BY <1>1, <1>2
  <2>3. signalsLeft' \in 0..Signals
    <3>1. signalsLeft \in 0..Signals
      OBVIOUS
    <3> HIDE DEF LifeInv
    <3> QED  BY <1>1, <3>1
  <2>4. inHandler' \in [Life!Threads -> BOOLEAN]
    BY <1>1
  <2>5. {running', cmd_worker_running', cancelled', saved', upgradeHeld'} \subseteq BOOLEAN
    BY <1>1
  <2> QED  BY <1>1, <2>1, <2>2, <2>3, <2>4, <2>5
<1>4. Places'
  BY <1>1, <1>2 DEF Places, Starting, Looping, Joining, Ending, Saved
<1>5. HeldInside'
  BY <1>1, <1>2 DEF Places, HeldInside
<1>6. MainsWay'
  BY <1>1, <1>2 DEF Places, MainsWay, Starting, Looping, Joining, Ending, Saved
<1>7. FreedEmpty'
  BY <1>1, <1>2 DEF HeldInside, MainsWay, FreedEmpty, Ending, Saved
<1>8. RunsUndisturbed'
  BY <1>1, <1>2 DEF Places, MainsWay, RunsUndisturbed, Life!Threads, Starting,
     Looping, Joining, Ending, Saved
<1>9. SleepsFed'
  BY <1>1, <1>2 DEF SleepsFed
<1>10. FedUnlessStuck' /\ KilledWhenStuck'
  <2>1. at["main"] = "event" => at'["main"] = "event"
    BY <1>2
  <2>2. at'["telemetry"] = at["telemetry"]
    BY <1>2
  <2>3. \A u \in Life!Threads : inHandler[u] => inHandler'[u] \/ queue = "gone"
    BY <1>1
  <2>4. Stuck => Stuck'
    BY <1>1, <2>1, <2>2, <2>3 DEF Stuck, HeldInside, FreedEmpty
  <2> HIDE DEF LifeInv
  <2>5. FedUnlessStuck /\ process = "up"
    BY <1>1 DEF LifeInv
  <2> QED  BY <1>1, <2>4, <2>5 DEF FedUnlessStuck, KilledWhenStuck
<1> QED  BY <1>3, <1>4, <1>5, <1>6, <1>7, <1>8, <1>9, <1>10

(* The handler closes the queue.                                           *)
LEMMA HandlerClosesInv ==
  ASSUME LifeInv, NEW t \in Life!Threads, Life!HandlerCloses(t)
  PROVE  LifeInv'
<1> USE DEF LifeInv, Life!LifecycleTypeOK, Life!Threads, Life!Locks, Life!None, Moves,
            Locks, Unlocks, Rest
<1>1. /\ process = "up" /\ inHandler[t] /\ queue \in {"open", "closed"}
      /\ holder["queue"] = "none" /\ queue' = "closed"
      /\ inHandler' = [inHandler EXCEPT ![t] = FALSE]
      /\ UNCHANGED <<at, holder, running, cmd_worker_running, cancelled, signalsLeft,
                     sinceFeed, saved, upgradeHeld, process>>
  BY DEF Life!HandlerCloses, Life!CmdQueueSet, Life!flags, Life!disk
<1>2. Life!LifecycleTypeOK'
  <2>1. at' \in [Life!Threads -> Life!Points]
    BY <1>1 DEF Life!Points
  <2>2. holder' \in [Life!Locks -> Life!Threads \cup {Life!None}]
    BY <1>1
  <2> QED  BY <1>1, <2>1, <2>2
<1>3. Places'
  <2>1. at' = at /\ Places
    BY <1>1
  <2> HIDE DEF LifeInv
  <2> QED  BY <2>1 DEF Places
<1>4. HeldInside'
  BY <1>1 DEF Places, HeldInside
<1>5. MainsWay'
  BY <1>1 DEF Places, MainsWay, Starting, Looping, Joining, Ending, Saved
<1>6. FreedEmpty'
  BY <1>1 DEF HeldInside, MainsWay, FreedEmpty, Ending, Saved
<1>7. RunsUndisturbed'
  BY <1>1 DEF Places, MainsWay, RunsUndisturbed, Life!Threads, Starting, Looping,
     Joining, Ending, Saved
<1>8. SleepsFed'
  BY <1>1 DEF SleepsFed
<1>9. FedUnlessStuck' /\ KilledWhenStuck'
  BY <1>1 DEF Places, HeldInside, MainsWay, Stuck, FedUnlessStuck, KilledWhenStuck,
     Starting, Looping, Joining, Ending, Saved
<1> QED  BY <1>2, <1>3, <1>4, <1>5, <1>6, <1>7, <1>8, <1>9

(* The freed queue is used.                                                *)
LEMMA UseFreedQueueInv ==
  ASSUME LifeInv, NEW t \in Life!Threads, Life!UseFreedQueue(t)
  PROVE  LifeInv'
<1> USE DEF LifeInv, Life!LifecycleTypeOK, Life!Threads, Life!Locks, Life!None, Moves,
            Locks, Unlocks, Rest
<1>1. /\ process = "up" /\ queue = "gone" /\ process' \in {"up", "crashed"}
      /\ UNCHANGED <<holder, queue, running, cmd_worker_running, cancelled, signalsLeft,
                     sinceFeed, saved, upgradeHeld>>
      /\ \/ inHandler' = [inHandler EXCEPT ![t] = FALSE] /\ at' = at
         \/ at[t] = "send" /\ Moves(t, "idle") /\ inHandler' = inHandler
  BY DEF Life!UseFreedQueue, Life!Go, Life!Runs, Life!flags, Life!disk
<1>2. Life!LifecycleTypeOK'
  <2>1. at' \in [Life!Threads -> Life!Points]
    <3>1. at' = at \/ at' = [at EXCEPT ![t] = "idle"]
      BY <1>1
    <3>2. "idle" \in Life!Points
      BY DEF Life!Points
    <3> QED  BY <3>1, <3>2
  <2>2. holder' \in [Life!Locks -> Life!Threads \cup {Life!None}]
    BY <1>1
  <2>3. inHandler' \in [Life!Threads -> BOOLEAN]
    BY <1>1
  <2>4. /\ queue' = "gone" /\ {running', cmd_worker_running', cancelled', saved', upgradeHeld'} \subseteq BOOLEAN
        /\ signalsLeft' \in 0..Signals /\ sinceFeed' \in 0..WatchdogTimeout
        /\ process' \in {"up", "crashed"}
    BY <1>1
  <2> HIDE DEF LifeInv, Moves
  <2> QED  BY <2>1, <2>2, <2>3, <2>4
<1>3. Places'
  BY <1>1 DEF Places, Starting, Looping, Joining, Ending, Saved
<1>4. HeldInside'
  BY <1>1 DEF Places, HeldInside
<1>5. MainsWay'
  BY <1>1 DEF Places, MainsWay, Starting, Looping, Joining, Ending, Saved
<1>6. FreedEmpty'
  BY <1>1 DEF HeldInside, MainsWay, FreedEmpty, Ending, Saved
<1>7. RunsUndisturbed'
  BY <1>1 DEF Places, MainsWay, RunsUndisturbed, Life!Threads, Starting, Looping,
     Joining, Ending, Saved
<1>8. SleepsFed'
  BY <1>1 DEF SleepsFed
<1>9. FedUnlessStuck' /\ KilledWhenStuck'
  <2>1. at'["main"] = at["main"] /\ at'["telemetry"] = at["telemetry"]
    <3>1. t \in {"main", "telemetry"} => at[t] # "send"
      BY DEF Places, Starting, Looping, Joining, Ending, Saved
    <3> QED  BY <1>1, <3>1
  <2>2. Stuck => Stuck'
    BY <1>1, <2>1 DEF Stuck, FreedEmpty
  <2> HIDE DEF LifeInv
  <2>3. FedUnlessStuck /\ process = "up"
    BY <1>1 DEF LifeInv
  <2> QED  BY <1>1, <2>2, <2>3 DEF FedUnlessStuck, KilledWhenStuck
<1> QED  BY <1>2, <1>3, <1>4, <1>5, <1>6, <1>7, <1>8, <1>9

(* Time passes: then nobody holds a mutex, or somebody is stuck.            *)
LEMMA NobodyInside ==
  ASSUME LifeInv, Life!Tick, ~Stuck, NEW lock \in Life!Locks
  PROVE  holder[lock] = "none"
<1>1. \A t \in Life!Threads : Life!Blocked(t) \/ Life!Idle(t)
  BY DEF Life!Tick
<1>2. holder["queue"] = "none"
  <2>1. SUFFICES ASSUME holder["queue"] # "none" PROVE FALSE
    OBVIOUS
  <2>2. PICK t \in Life!Threads : holder["queue"] = t
    BY <2>1 DEF LifeInv, HeldInside, Life!Threads
  <2>3. at[t] \in {"closing", "receiving", "sending"}
    BY <2>2 DEF LifeInv, HeldInside, Life!Threads
  <2>4. ~inHandler[t]
    BY <2>1, <2>2 DEF Stuck
  <2>5. Life!Wanted(t) = "none"
    BY <2>3 DEF Life!Wanted, Life!None
  <2> QED  BY <1>1, <2>3, <2>4, <2>5 DEF Life!Blocked, Life!Idle, Life!None
<1>3. ASSUME NEW t \in Life!Threads,
             at[t] \in {"calling", "saving", "pushing", "logging", "feeding", "checking"}
      PROVE  FALSE
  <2>1. Life!Wanted(t) = "none"
    BY <1>3 DEF Life!Wanted, Life!None
  <2> QED  BY <1>1, <1>2, <1>3, <2>1 DEF Life!Blocked, Life!Idle, Life!None
<1> QED
  BY <1>2, <1>3 DEF LifeInv, HeldInside, Stuck, Life!Locks, Life!Threads

(* And then main sleeps, or somebody is stuck: whoever main joins has a     *)
(* step to take.                                                            *)
LEMMA MainSleeps ==
  ASSUME LifeInv, Life!Tick, ~Stuck'
  PROVE  at["main"] = "sleep"
<1>0. ~Stuck
  BY DEF Life!Tick, Life!control, LifeInv, Life!LifecycleTypeOK, Stuck, Life!Threads
<1>1. \A t \in Life!Threads : Life!Blocked(t) \/ Life!Idle(t)
  BY DEF Life!Tick
<1>2. ASSUME NEW t \in Life!Threads
      PROVE  /\ ~(inHandler[t] /\ holder["queue"] # Life!None)
             /\ ~(Life!Wanted(t) # Life!None /\ holder[Life!Wanted(t)] # Life!None)
  <2>1. holder["queue"] = "none"
    BY <1>0, NobodyInside DEF Life!Locks
  <2>2. Life!Wanted(t) \in Life!Locks \cup {"none"}
    BY DEF Life!Wanted, Life!Locks, Life!None
  <2> QED  BY <1>0, <2>1, <2>2, NobodyInside DEF Life!None
<1>3. ASSUME NEW t \in {"telemetry", "worker"}
      PROVE  Life!Idle(t)
  <2>1. at[t] \notin {"join_telemetry", "join_worker", "join_upgrade"}
    BY <1>3 DEF LifeInv, Places
  <2> QED  BY <1>1, <1>2, <2>1 DEF Life!Blocked, Life!Threads
<1>4. at["main"] # "join_telemetry"
  <2>1. SUFFICES ASSUME at["main"] = "join_telemetry" PROVE at["telemetry"] = "dead" /\ FALSE
    OBVIOUS
  <2>2. cancelled
    BY <2>1 DEF LifeInv, MainsWay
  <2> QED  BY <1>1, <1>2, <1>3, <2>1, <2>2
           DEF Life!Blocked, Life!Idle, Life!Threads, LifeInv, Places
<1>5. at["main"] # "join_worker"
  <2>1. SUFFICES ASSUME at["main"] = "join_worker" PROVE FALSE
    OBVIOUS
  <2>2. queue = "closed"
    BY <2>1 DEF LifeInv, MainsWay, Joining
  <2> QED  BY <1>1, <1>2, <1>3, <2>1, <2>2
           DEF Life!Blocked, Life!Idle, Life!Threads, LifeInv, Places
<1>6. at["main"] # "join_upgrade"
  BY DEF Life!Tick, Stuck
<1>7. Life!Idle("main")
  BY <1>1, <1>2, <1>4, <1>5, <1>6 DEF Life!Blocked, Life!Threads
<1> QED
  BY <1>7 DEF Life!Idle, LifeInv, Places, Starting, Looping, Joining, Ending, Saved

(* Time passes.                                                            *)
LEMMA TickInv ==
  ASSUME WatchdogTimeout \in Nat, WatchdogTimeout >= 2, LifeInv, Life!Tick
  PROVE  LifeInv'
<1>1. /\ process = "up"
      /\ sinceFeed' = IF sinceFeed < WatchdogTimeout THEN sinceFeed + 1 ELSE sinceFeed
      /\ upgradeHeld' = (upgradeHeld \/ at["main"] = "join_upgrade")
      /\ UNCHANGED <<holder, queue, running, cmd_worker_running, cancelled, inHandler,
                     signalsLeft, saved, process>>
  BY DEF Life!Tick, Life!flags, Life!disk, Life!control
<1>2. /\ at' \in [Life!Threads -> Life!Points]
      /\ \A t \in Life!Threads \ {"main", "monitor"} : at'[t] = at[t]
      /\ at["main"] = "sleep" /\ ~inHandler["main"] => at'["main"] = "loop"
      /\ at["main"] # "sleep" => at'["main"] = at["main"]
      /\ at'["monitor"] = at["monitor"] \/ (at["monitor"] = "second" /\ at'["monitor"] = "wake")
  <2>1. at \in [Life!Threads -> Life!Points]
    BY DEF LifeInv, Life!LifecycleTypeOK
  <2>2. at' = [at EXCEPT !["main"] = IF @ = "sleep" /\ ~inHandler["main"] THEN "loop" ELSE @,
                         !["monitor"] = IF @ = "second" /\ ~inHandler["monitor"]
                                        THEN "wake" ELSE @]
    BY DEF Life!Tick
  <2> QED  BY <2>1, <2>2 DEF Life!Threads, Life!Points
<1>3. at["main"] = "sleep" => at'["main"] = "loop"
  BY <1>2 DEF LifeInv, SleepsFed
<1>4. Life!LifecycleTypeOK'
  <2>1. sinceFeed' \in 0..WatchdogTimeout
    <3>1. sinceFeed \in 0..WatchdogTimeout
      BY DEF LifeInv, Life!LifecycleTypeOK
    <3> QED  BY <1>1, <3>1
  <2>2. upgradeHeld' \in BOOLEAN
    BY <1>1, Zenon
  <2> QED  BY <1>1, <1>2, <2>1, <2>2 DEF LifeInv, Life!LifecycleTypeOK
<1>5. Places'
  BY <1>2, <1>3 DEF LifeInv, Places, Life!Threads, Starting, Looping, Joining, Ending, Saved
<1>6. HeldInside'
  BY <1>1, <1>2, <1>3 DEF LifeInv, Places, HeldInside, Life!Threads
<1>7. MainsWay'
  BY <1>1, <1>2, <1>3
     DEF LifeInv, MainsWay, Life!Threads, Starting, Looping, Joining, Ending, Saved
<1>8. FreedEmpty' /\ RunsUndisturbed' /\ SleepsFed'
  BY <1>1, <1>2, <1>3 DEF LifeInv, FreedEmpty, RunsUndisturbed, SleepsFed, Looping, Starting
<1>9. Stuck => Stuck'
  BY <1>1, <1>2 DEF Stuck, Life!Threads
<1>10. ~Stuck' => sinceFeed' = 1
  <2>1. ~Stuck' => sinceFeed = 0
    BY MainSleeps DEF LifeInv, SleepsFed
  <2> QED  BY <1>1, <2>1
<1> QED
  BY <1>1, <1>4, <1>5, <1>6, <1>7, <1>8, <1>9, <1>10
     DEF LifeInv, FedUnlessStuck, KilledWhenStuck

(* The beginning.                                                          *)
LEMMA StartInv ==
  ASSUME WatchdogTimeout \in Nat, Signals \in Nat, Life!LifecycleInit
  PROVE  LifeInv
<1> USE DEF Life!LifecycleInit, Life!Threads, Life!Locks, Life!None
<1>1. /\ at["main"] = "subscribe" /\ at["monitor"] = "second"
      /\ at["telemetry"] = "dead" /\ at["worker"] = "dead" /\ at["network"] = "dead"
      /\ at["ota"] = "dead"
  OBVIOUS
<1>2. Life!LifecycleTypeOK
  <2>1. at \in [Life!Threads -> Life!Points]
    <3>1. \A t \in Life!Threads :
            (CASE t = "main" -> "subscribe" [] t = "monitor" -> "second" [] OTHER -> "dead")
              \in Life!Points
      BY DEF Life!Points
    <3> QED  BY <3>1
  <2>2. holder \in [Life!Locks -> Life!Threads \cup {Life!None}]
        /\ inHandler \in [Life!Threads -> BOOLEAN]
    OBVIOUS
  <2>3. signalsLeft \in 0..Signals /\ sinceFeed \in 0..WatchdogTimeout
    OBVIOUS
  <2> QED  BY <2>1, <2>2, <2>3 DEF Life!LifecycleTypeOK
<1>3. Places /\ HeldInside
  BY <1>1 DEF Places, HeldInside, Starting
<1>4. MainsWay /\ FreedEmpty /\ RunsUndisturbed
  BY <1>1 DEF MainsWay, FreedEmpty, RunsUndisturbed, Starting, Joining, Ending, Saved
<1>5. SleepsFed /\ FedUnlessStuck /\ KilledWhenStuck
  BY <1>1 DEF SleepsFed, FedUnlessStuck, KilledWhenStuck
<1> QED  BY <1>2, <1>3, <1>4, <1>5 DEF LifeInv

(* No step leaves the invariant.                                           *)
LEMMA LifeNextInv ==
  ASSUME WatchdogTimeout \in Nat, WatchdogTimeout >= 2, Signals \in Nat,
         LifeInv, [Next]_vars
  PROVE  LifeInv'
<1>1. CASE UNCHANGED lifeVars
  <2>1. /\ at' = at /\ holder' = holder /\ queue' = queue /\ running' = running
        /\ cmd_worker_running' = cmd_worker_running /\ cancelled' = cancelled
        /\ inHandler' = inHandler /\ signalsLeft' = signalsLeft
        /\ sinceFeed' = sinceFeed /\ saved' = saved /\ process' = process
        /\ upgradeHeld' = upgradeHeld
    BY <1>1 DEF lifeVars
  <2>2. Life!LifecycleTypeOK'
    BY <2>1 DEF LifeInv, Life!LifecycleTypeOK
  <2>3. Places'
    BY <2>1 DEF LifeInv, Places
  <2>4. HeldInside'
    BY <2>1 DEF LifeInv, HeldInside
  <2>5. (MainsWay /\ FreedEmpty /\ RunsUndisturbed)'
    BY <2>1 DEF LifeInv, MainsWay, FreedEmpty, RunsUndisturbed
  <2>6. (SleepsFed /\ FedUnlessStuck /\ KilledWhenStuck)'
    BY <2>1 DEF LifeInv, SleepsFed, FedUnlessStuck, KilledWhenStuck, Stuck
  <2> QED  BY <2>2, <2>3, <2>4, <2>5, <2>6 DEF LifeInv
<1>2. CASE Life!LifecycleNext
  <2>1. CASE Life!Main
    BY <2>1, SubscribeInv, CreateQueueInv, StartThreadsInv, WakeInv, LoopInv, FeedInv,
       CloseQueueInv, CancelTelemetryInv, JoinTelemetryInv, JoinWorkerInv, DestroyQueueInv,
       SaveCacheInv, JoinUpgradeInv, MainTakesInv DEF Life!Main
  <2>2. CASE Life!GiveUp \/ Life!Telemetry \/ Life!Cancelled \/ Life!Worker \/ Life!Message
             \/ Life!Send \/ Life!UpgradeEnds
    BY <2>2, UpgradeEndsInv, GiveUpInv, TelemetryInv, CancelledInv, WorkerInv, MessageInv, SendInv
  <2>3. CASE Life!Monitor \/ Life!Tick
    BY <2>3, MonitorInv, TickInv
  <2>4. CASE \E t \in Life!Threads : Life!Signal(t) \/ Life!Handler(t)
    BY <2>4, SignalInv, HandlerClosesInv, UseFreedQueueInv DEF Life!Handler
  <2> QED  BY <1>2, <2>1, <2>2, <2>3, <2>4 DEF Life!LifecycleNext
<1> QED
  BY <1>1, <1>2 DEF Next, LifeStep, FusionStep, LampStep, OtaStep, SearchStep, PoolStep, vars

(* What the watchdog kills is a shutdown, deadlocked or held up by an       *)
(* upgrade, with the backlog saved unless a mutex was stranded; the queue   *)
(* outlives the worker.                                                     *)
LEMMA InvIsOrderly ==
  ASSUME LifeInv
  PROVE  EndIsOrderly
<1>1. Stuck => at["main"] = "event" \/ upgradeHeld \/ \E lock \in Life!Locks : Life!Stranded(lock)
  <2>1. ASSUME NEW lock \in {"rpc", "cache"}, holder[lock] = "telemetry",
               at["telemetry"] = "dead"
        PROVE  Life!Stranded(lock) /\ lock \in Life!Locks
    BY <2>1 DEF Life!Stranded, Life!Locks, Life!None
  <2>2. ASSUME holder["queue"] # "none", inHandler[holder["queue"]]
        PROVE  Life!Stranded("queue") /\ "queue" \in Life!Locks
    BY <2>2 DEF Life!Stranded, Life!Locks, Life!None
  <2> QED  BY <2>1, <2>2 DEF Stuck
<1>2. Life!QueueOutlivesWorker
  BY DEF LifeInv, FreedEmpty, MainsWay, Life!QueueOutlivesWorker, Life!None
<1>3. Life!NeverKilledWhileRunning /\ Life!KilledForReason
  BY <1>1 DEF LifeInv, KilledWhenStuck, Life!NeverKilledWhileRunning, Life!KilledForReason
<1>4. Life!BacklogSaved
  BY <1>1 DEF LifeInv, KilledWhenStuck, MainsWay, Saved, Life!BacklogSaved
<1> QED  BY <1>2, <1>3, <1>4 DEF EndIsOrderly, Life!EndIsOrderly

-----------------------------------------------------------------------------
(* For any number of signals, hitting any thread at any moment: the command *)
(* queue is never freed under its worker, the watchdog never ends a bridge  *)
(* nobody asked to stop, it ends a shutdown only for a deadlock or because  *)
(* main waited for an upgrade, and then with the backlog on disk, if no     *)
(* mutex was stranded.  The time-out must be longer than one second of      *)
(* main's sleep.                                                            *)
THEOREM BridgeEndIsOrderly ==
  ASSUME WatchdogTimeout \in Nat, WatchdogTimeout >= 2, Signals \in Nat
  PROVE  Spec => []EndIsOrderly
<1>1. Init => LifeInv
  BY StartInv DEF Init
<1>2. LifeInv /\ [Next]_vars => LifeInv'
  BY LifeNextInv
<1> QED  BY <1>1, <1>2, InvIsOrderly, PTL DEF Spec
-----------------------------------------------------------------------------
(* The fire score.  What light and presence add stays so small that it does *)
(* not count as a signal, so the age of the last signal is never less than  *)
(* that of the last evidence; presence at night adds 3 points a round to a  *)
(* score that loses a twentieth, which ends at 59; light adds 5 or 10 in    *)
(* each round that lightRounds counts.                                      *)
FusionTypes ==
  /\ hour \in {"night", "work", "evening", "other"}
  /\ accum \in Nat /\ signalAge \in {Fusion!Never} \cup 0..(Fusion!Minute + 1)
  /\ lastTemp \in Int /\ fireAge \in Int
  /\ ai \in {"none", "low", "high"}
  /\ fire \in {"SAFE", "MONITOR", "ALERT", "COOLDOWN"}
  /\ evidenceAge \in {Fusion!Never} \cup 0..(Fusion!Minute + 1) /\ smokeRounds \in 0..3
  /\ lightRounds \in 0..Fusion!Minute

SignalsAreEvidence ==
  signalAge # Fusion!Never => evidenceAge # Fusion!Never /\ evidenceAge <= signalAge

Calm == fire \in {"SAFE", "MONITOR"}

NoEvidence ==
  evidenceAge = Fusion!Never =>
    /\ Calm => ai # "high"
    /\ hour = "night" => accum <= 59 /\ Calm
    /\ hour = "other" => accum = 0 /\ Calm
    /\ hour = "work" /\ lightRounds < 12 => accum <= 5 * lightRounds /\ Calm
    /\ hour = "evening" /\ lightRounds < 6 => accum <= 10 * lightRounds /\ Calm

SmokeCounts ==
  /\ smokeRounds = 1 => accum >= 40 /\ signalAge = 0
  /\ smokeRounds = 2 => accum >= 78 /\ signalAge = 0 /\ fire \in {"MONITOR", "ALERT"}
  /\ smokeRounds = 3 => fire = "ALERT"

FusionInv == FusionTypes /\ SignalsAreEvidence /\ NoEvidence /\ SmokeCounts

(* The weights are whole numbers, for every hour, sensor and temperature.   *)
LEMMA WeightIsNat ==
  ASSUME NEW base \in Nat, NEW sensor, NEW temp
  PROVE  Fusion!Weight(base, sensor, temp) \in Nat
BY DEF Fusion!Weight

(* What each source adds to the score.                                      *)
LEMMA PointsOfSources ==
  ASSUME Temps \subseteq Int, FusionTypes, NEW r \in Fusion!Readings, NEW newAi
  PROVE  /\ Fusion!HeatPoints(r) \in Nat /\ Fusion!BaselinePoints(r) \in Nat
         /\ Fusion!LightPoints(r) \in IF hour = "work" THEN {0, 5}
                                       ELSE IF hour = "evening" THEN {0, 10} ELSE {0}
         /\ Fusion!DevicePoints(r) \in Nat
         /\ ~Fusion!Smoke(r) => Fusion!DevicePoints(r) = 0
         /\ Fusion!PresencePoints(r, newAi) \in Nat
         /\ ~Fusion!Smoke(r) /\ ~Fusion!AiSees(newAi) =>
              IF hour = "night" THEN Fusion!PresencePoints(r, newAi) <= 3
                                ELSE Fusion!PresencePoints(r, newAi) = 0
<1>1. r.temp \in Int /\ r.baseline \in Int
  <2>1. /\ r.temp \in Fusion!Either("heat", 25, Temps \cup {Fusion!Unread})
        /\ r.baseline \in Fusion!Either("heat", 25, Temps)
    BY DEF Fusion!Readings
  <2>2. /\ Fusion!Either("heat", 25, Temps \cup {Fusion!Unread}) \subseteq Int
        /\ Fusion!Either("heat", 25, Temps) \subseteq Int
    BY DEF Fusion!Either, Fusion!Unread
  <2> QED  BY <2>1, <2>2
<1>2. Fusion!HeatPoints(r) \in Nat
  <2>1. /\ Fusion!Weight(Fusion!WeightTempRise, "temp", r.temp) \in Nat
        /\ Fusion!Weight(Fusion!WeightTempHigh, "temp", r.temp) \in Nat
    BY WeightIsNat DEF Fusion!WeightTempRise, Fusion!WeightTempHigh
  <2> QED  BY <1>1, <2>1 DEF Fusion!HeatPoints, Fusion!Points
<1>3. Fusion!BaselinePoints(r) \in Nat
  BY <1>1 DEF Fusion!BaselinePoints, Fusion!Points, Fusion!Capped
<1>4. Fusion!LightPoints(r) \in IF hour = "work" THEN {0, 5}
                                 ELSE IF hour = "evening" THEN {0, 10} ELSE {0}
  BY DEF Fusion!LightPoints, Fusion!Points, Fusion!Weight, Fusion!WeightLight, FusionTypes
<1>5. Fusion!DevicePoints(r) \in Nat /\ (~Fusion!Smoke(r) => Fusion!DevicePoints(r) = 0)
  <2>1. Fusion!Weight(Fusion!WeightDevice, "device", r.temp) \in Nat
    BY WeightIsNat DEF Fusion!WeightDevice
  <2> QED  BY <2>1 DEF Fusion!DevicePoints, Fusion!Points
<1>6. /\ Fusion!PresencePoints(r, newAi) \in Nat
      /\ ~Fusion!Smoke(r) /\ ~Fusion!AiSees(newAi) =>
           IF hour = "night" THEN Fusion!PresencePoints(r, newAi) <= 3
                             ELSE Fusion!PresencePoints(r, newAi) = 0
  BY DEF Fusion!PresencePoints, Fusion!Points, Fusion!Weight, Fusion!WeightPir
<1> QED  BY <1>2, <1>3, <1>4, <1>5, <1>6

(* Smoke adds 40 points or more; without evidence a round adds the points   *)
(* of light, or at night at most 3 for presence.                            *)
LEMMA SignalsOfRound ==
  ASSUME Temps \subseteq Int, FusionTypes, NEW r \in Fusion!Readings, NEW newAi, NEW newAiAge
  PROVE  LET signals == Fusion!NewSignals(r, newAi, newAiAge) IN
         /\ signals \in Nat
         /\ Fusion!Smoke(r) => signals >= 40
         /\ ~Fusion!Evidence(r, newAi) =>
              IF hour = "night" THEN signals <= 3 ELSE signals = Fusion!LightPoints(r)
<1> DEFINE smoke == Fusion!Points(Fusion!Smoke(r), Fusion!Weight(Fusion!WeightSmoke, "smoke", r.temp))
           heat == Fusion!HeatPoints(r)
           humidity == Fusion!Points(r.humiDrops, Fusion!Weight(Fusion!WeightHumiDrop, "humi", r.temp))
           lights == Fusion!LightPoints(r)
           device == Fusion!DevicePoints(r)
           presence == Fusion!PresencePoints(r, newAi)
           camera == Fusion!Points(Fusion!AiSees(newAi) /\ newAiAge = 0, Fusion!WeightAiFire)
           strong == Fusion!StrongSignals(r, newAi, newAiAge)
           baseline == Fusion!BaselinePoints(r)
           sum == smoke + heat + humidity + lights + device + presence + camera
           signals == sum + Fusion!Points(strong >= 2, sum \div 2) + baseline
<1>1. signals = Fusion!NewSignals(r, newAi, newAiAge)
  BY DEF Fusion!NewSignals
<1>2. /\ smoke \in Nat /\ (Fusion!Smoke(r) => smoke >= 40)
      /\ ~Fusion!Smoke(r) => smoke = 0
  BY DEF Fusion!Points, Fusion!Weight, Fusion!WeightSmoke
<1>3. humidity \in Nat /\ (~r.humiDrops => humidity = 0)
  BY DEF Fusion!Points, Fusion!Weight, Fusion!WeightHumiDrop
<1>4. camera \in Nat /\ (~Fusion!AiSees(newAi) => camera = 0)
  BY DEF Fusion!Points, Fusion!WeightAiFire
<1>5. strong \in Nat /\ (~Fusion!Smoke(r) /\ ~Fusion!AiSees(newAi) => strong <= 1)
  BY DEF Fusion!StrongSignals, Fusion!Points
<1>6. /\ heat \in Nat /\ baseline \in Nat /\ lights \in 0..10 /\ (hour = "night" => lights = 0)
      /\ device \in Nat /\ (~Fusion!Smoke(r) => device = 0) /\ presence \in Nat
      /\ ~Fusion!Smoke(r) /\ ~Fusion!AiSees(newAi) =>
           IF hour = "night" THEN presence <= 3 ELSE presence = 0
  BY PointsOfSources
<1>7. ~Fusion!Evidence(r, newAi) =>
        /\ ~Fusion!Smoke(r) /\ ~Fusion!AiSees(newAi) /\ ~r.humiDrops
        /\ heat = 0 /\ baseline = 0
  BY <1>6 DEF Fusion!Evidence
<1> HIDE DEF smoke, heat, humidity, lights, device, presence, camera, strong, baseline
<1>8. sum \in Nat /\ (Fusion!Smoke(r) => sum >= 40)
  BY <1>2, <1>3, <1>4, <1>6
<1>9. ~Fusion!Evidence(r, newAi) => sum = lights + presence /\ strong <= 1 /\ baseline = 0
  BY <1>2, <1>3, <1>4, <1>5, <1>6, <1>7
<1> HIDE DEF sum
<1>10. /\ signals \in Nat /\ (Fusion!Smoke(r) => signals >= 40)
       /\ ~Fusion!Evidence(r, newAi) => signals = lights + presence
  BY <1>5, <1>6, <1>8, <1>9 DEF Fusion!Points
<1>11. lights = Fusion!LightPoints(r)
  BY DEF lights
<1> HIDE DEF signals
<1> QED  BY <1>1, <1>6, <1>7, <1>10, <1>11

(* What a round in SAFE or MONITOR does to the ages and the score.          *)
LEMMA ScoreKeepsInv ==
  ASSUME Temps \subseteq Int, FusionInv, NEW answer \in Fusion!AiAnswers,
         Fusion!ScoreRound(answer)
  PROVE  /\ FusionInv'
         /\ fire' = "ALERT" /\ signalAge # Fusion!Never => evidenceAge' \in 0..Fusion!Minute
<1> DEFINE newAi == Fusion!AiCheck(answer)[1]
           newAiAge == Fusion!AiCheck(answer)[2]
           age == Fusion!Older(signalAge, Fusion!Minute + 1)
<1>1. PICK r \in Fusion!Readings :
        LET signals == Fusion!NewSignals(r, newAi, newAiAge) IN
        /\ ai' = newAi
        /\ accum' = Fusion!Faded(age) + signals
        /\ signalAge' = IF signals > 2 * Fusion!WeightPir THEN 0 ELSE age
        /\ lastTemp' = IF r.temp > 0 THEN r.temp ELSE lastTemp
        /\ evidenceAge' = IF Fusion!Evidence(r, newAi) THEN 0
                          ELSE Fusion!Older(evidenceAge, Fusion!Minute + 1)
        /\ smokeRounds' = IF Fusion!Smoke(r) THEN Fusion!Capped(smokeRounds + 1, 3) ELSE 0
        /\ lightRounds' = Fusion!Capped(lightRounds
                             + Fusion!Points(Fusion!LightPoints(r) > 0, 1), Fusion!Minute)
        /\ Fusion!AfterScore(r, accum', newAi)
  BY DEF Fusion!ScoreRound
<1> DEFINE signals == Fusion!NewSignals(r, newAi, newAiAge)
           smoke == Fusion!Smoke(r)
           evidence == Fusion!Evidence(r, newAi)
           lights == Fusion!LightPoints(r)
<1>2. hour' = hour /\ fire \in {"SAFE", "MONITOR"}
  BY DEF Fusion!ScoreRound
<1>3. /\ signals \in Nat /\ (smoke => signals >= 40)
      /\ ~evidence => IF hour = "night" THEN signals <= 3 ELSE signals = lights
      /\ lights \in IF hour = "work" THEN {0, 5} ELSE IF hour = "evening" THEN {0, 10} ELSE {0}
      /\ smoke \/ newAi = "high" => evidence
  BY SignalsOfRound, PointsOfSources DEF FusionInv, Fusion!Evidence, Fusion!AiSees
<1>4. newAi \in {"none", "low", "high"}
  BY DEF Fusion!AiCheck, Fusion!AiAnswers, Fusion!Either, FusionInv, FusionTypes
<1>5. lastTemp' \in Int
  <2>1. r.temp \in Fusion!Either("heat", 25, Temps \cup {Fusion!Unread})
    BY DEF Fusion!Readings
  <2>2. Fusion!Either("heat", 25, Temps \cup {Fusion!Unread}) \subseteq Int
    BY DEF Fusion!Either, Fusion!Unread
  <2> QED  BY <1>1, <2>1, <2>2 DEF FusionInv, FusionTypes
<1>6. /\ fire = "SAFE" =>
           fire' = IF accum' >= 60 \/ smoke \/ newAi # "none" THEN "MONITOR" ELSE "SAFE"
      /\ fire = "MONITOR" /\ accum' >= 60 => fire' = "ALERT"
      /\ fire = "MONITOR" /\ ~(accum' >= 60) => fire' \in {"SAFE", "MONITOR"}
      /\ fireAge' \in Int
  BY <1>1, <1>2 DEF Fusion!AfterScore, Fusion!Enter, Fusion!Alarm, Fusion!Older, Fusion!Capped,
     Fusion!Never, Fusion!Minute, FusionInv, FusionTypes
<1> HIDE DEF newAi, newAiAge, signals, smoke, evidence, lights
<1>7. /\ accum' = Fusion!Faded(age) + signals /\ ai' = newAi
      /\ signalAge' = IF signals > 10 THEN 0 ELSE age
      /\ evidenceAge' = IF evidence THEN 0 ELSE Fusion!Older(evidenceAge, Fusion!Minute + 1)
      /\ smokeRounds' = IF smoke THEN Fusion!Capped(smokeRounds + 1, 3) ELSE 0
      /\ lightRounds' = Fusion!Capped(lightRounds + Fusion!Points(lights > 0, 1), 12)
  BY <1>1 DEF newAi, newAiAge, signals, smoke, evidence, lights, Fusion!WeightPir, Fusion!Minute
<1>8. /\ age \in {-1} \cup 0..13 /\ (signalAge = -1 => age = -1)
      /\ (signalAge # -1 => age = IF signalAge < 12 THEN signalAge + 1 ELSE 13)
  BY DEF Fusion!Older, Fusion!Capped, Fusion!Never, Fusion!Minute, FusionInv, FusionTypes
<1>9. /\ Fusion!Faded(age) \in Nat
      /\ age > 12 => Fusion!Faded(age) = 0
      /\ age <= 12 => Fusion!Faded(age) = (95 * accum) \div 100
  BY <1>8 DEF Fusion!Faded, Fusion!Minute, FusionInv, FusionTypes
<1> HIDE DEF age
<1>10. /\ evidence => evidenceAge' = 0
       /\ ~evidence /\ evidenceAge = -1 => evidenceAge' = -1
       /\ ~evidence /\ evidenceAge # -1 =>
            evidenceAge' = IF evidenceAge < 12 THEN evidenceAge + 1 ELSE 13
  BY <1>7 DEF Fusion!Older, Fusion!Capped, Fusion!Never, Fusion!Minute, FusionInv, FusionTypes
<1>11. /\ ~smoke => smokeRounds' = 0
       /\ smoke => smokeRounds' = IF smokeRounds < 2 THEN smokeRounds + 1 ELSE 3
  BY <1>7 DEF Fusion!Capped, FusionInv, FusionTypes
<1>12. /\ lightRounds' \in 0..12 /\ lightRounds' >= lightRounds
       /\ lights > 0 /\ lightRounds' < 12 => lightRounds' = lightRounds + 1
  BY <1>3, <1>7 DEF Fusion!Capped, Fusion!Points, Fusion!Minute, FusionInv, FusionTypes
<1>17. FusionTypes'
  BY <1>2, <1>3, <1>4, <1>5, <1>6, <1>7, <1>8, <1>9, <1>10, <1>11, <1>12
     DEF FusionInv, FusionTypes, Fusion!Never, Fusion!Minute
<1>13. SignalsAreEvidence'
  BY <1>3, <1>7, <1>8, <1>10
     DEF FusionInv, FusionTypes, SignalsAreEvidence, Fusion!Never, Fusion!Minute
<1>14. NoEvidence'
  <2>1. SUFFICES ASSUME evidenceAge' = -1
                 PROVE  /\ ai' # "high"
                        /\ hour = "night" => accum' <= 59 /\ Calm'
                        /\ hour = "other" => accum' = 0 /\ Calm'
                        /\ hour = "work" /\ lightRounds' < 12 =>
                             accum' <= 5 * lightRounds' /\ Calm'
                        /\ hour = "evening" /\ lightRounds' < 6 =>
                             accum' <= 10 * lightRounds' /\ Calm'
    BY <1>2 DEF NoEvidence, Fusion!Never
  <2>2. ~evidence /\ evidenceAge = -1
    BY <2>1, <1>10 DEF FusionInv, FusionTypes, Fusion!Never, Fusion!Minute
  <2>3. /\ newAi # "high" /\ accum \in Nat /\ lightRounds \in 0..12
        /\ Fusion!Faded(age) <= (95 * accum) \div 100
    BY <2>2, <1>3, <1>8, <1>9 DEF FusionInv, FusionTypes, Fusion!Minute
  <2>4. accum' < 60 => Calm'
    BY <1>2, <1>3, <1>6, <1>7, <1>9 DEF Calm
  <2>5. ASSUME hour = "night" PROVE accum' <= 59
    BY <2>2, <2>3, <2>5, <1>3, <1>7, <1>9 DEF FusionInv, NoEvidence, Fusion!Never
  <2>6. ASSUME hour = "other" PROVE accum' = 0
    BY <2>2, <2>3, <2>6, <1>3, <1>7, <1>9 DEF FusionInv, NoEvidence, Fusion!Never
  <2>7. ASSUME hour = "work", lightRounds' < 12 PROVE accum' <= 5 * lightRounds'
    <3>1. accum <= 5 * lightRounds /\ signals = lights /\ lights \in {0, 5}
      BY <2>2, <2>3, <2>7, <1>3, <1>12 DEF FusionInv, NoEvidence, Fusion!Never
    <3>2. lights <= 5 * (lightRounds' - lightRounds)
      <4>1. lightRounds \in Int /\ lightRounds' \in Int /\ lightRounds' >= lightRounds
        BY <2>3, <1>12
      <4>2. CASE lights = 0
        <5>1. \A new, old \in Int : new >= old => 0 <= 5 * (new - old)
          OBVIOUS
        <5> QED  BY <4>1, <4>2, <5>1
      <4>3. CASE lights = 5
        <5>1. lightRounds' = lightRounds + 1
          BY <2>7, <4>1, <4>3, <1>12
        <5> QED  BY <4>1, <4>3, <5>1
      <4> QED  BY <3>1, <4>2, <4>3
    <3> QED  BY <2>3, <3>1, <3>2, <1>7, <1>9, <1>12
  <2>8. ASSUME hour = "evening", lightRounds' < 6 PROVE accum' <= 10 * lightRounds'
    <3>1. accum <= 10 * lightRounds /\ signals = lights /\ lights \in {0, 10}
      BY <2>2, <2>3, <2>8, <1>3, <1>12 DEF FusionInv, NoEvidence, Fusion!Never
    <3>2. lights <= 10 * (lightRounds' - lightRounds)
      <4>1. lightRounds \in Int /\ lightRounds' \in Int /\ lightRounds' >= lightRounds
        BY <2>3, <1>12
      <4>2. CASE lights = 0
        <5>1. \A new, old \in Int : new >= old => 0 <= 10 * (new - old)
          OBVIOUS
        <5> QED  BY <4>1, <4>2, <5>1
      <4>3. CASE lights = 10
        <5>1. lightRounds' = lightRounds + 1
          BY <2>8, <4>1, <4>3, <1>12
        <5> QED  BY <4>1, <4>3, <5>1
      <4> QED  BY <3>1, <4>2, <4>3
    <3> QED  BY <2>3, <3>1, <3>2, <1>7, <1>9, <1>12
  <2>9. ai' # "high"
    BY <2>3, <1>7
  <2> QED  BY <2>4, <2>5, <2>6, <2>7, <2>8, <2>9, <1>3, <1>7, <1>9, <1>12
<1>15. SmokeCounts'
  <2>1. CASE ~smoke
    BY <2>1, <1>11 DEF SmokeCounts
  <2>2. CASE smoke /\ smokeRounds = 0
    BY <2>2, <1>3, <1>7, <1>9, <1>11 DEF SmokeCounts
  <2>3. CASE smoke /\ smokeRounds \in {1, 2}
    <3>1. accum >= 40 /\ age = 1 /\ (smokeRounds = 2 => fire = "MONITOR")
      BY <2>3, <1>2, <1>8 DEF FusionInv, FusionTypes, SmokeCounts
    <3>2. Fusion!Faded(age) >= 38
      BY <3>1, <1>9 DEF FusionInv, FusionTypes
    <3>3. accum' >= 78 /\ signalAge' = 0
      BY <2>3, <3>2, <1>3, <1>7, <1>9
    <3>4. smokeRounds = 1 => fire' \in {"MONITOR", "ALERT"}
      BY <3>3, <1>2, <1>3, <1>6, <1>7, <1>9
    <3>5. smokeRounds = 2 => fire' = "ALERT"
      BY <3>1, <3>3, <1>3, <1>6, <1>7, <1>9
    <3> QED  BY <2>3, <3>3, <3>4, <3>5, <1>11 DEF SmokeCounts
  <2>4. CASE smokeRounds = 3
    BY <2>4, <1>2 DEF FusionInv, SmokeCounts
  <2> QED  BY <2>1, <2>2, <2>3, <2>4 DEF FusionInv, FusionTypes
<1>16. ASSUME fire' = "ALERT", signalAge # Fusion!Never
       PROVE  evidenceAge' \in 0..Fusion!Minute
  <2>1. Fusion!Faded(age) + signals >= 60
    BY <1>16, <1>2, <1>3, <1>6, <1>7, <1>9
  <2>2. CASE evidence
    BY <2>2, <1>10 DEF Fusion!Minute
  <2>3. CASE ~evidence
    <3>1. age <= 12 /\ signalAge <= 11
      BY <2>1, <2>3, <1>3, <1>8, <1>9, <1>16 DEF FusionInv, FusionTypes, Fusion!Never, Fusion!Minute
    <3>2. evidenceAge # -1 /\ evidenceAge <= 11
      BY <3>1, <1>16 DEF FusionInv, FusionTypes, SignalsAreEvidence, Fusion!Never, Fusion!Minute
    <3> QED
      BY <3>2, <2>3, <1>10 DEF FusionInv, FusionTypes, Fusion!Never, Fusion!Minute
  <2> QED  BY <2>2, <2>3
<1> QED  BY <1>13, <1>14, <1>15, <1>16, <1>17 DEF FusionInv

(* A round in ALERT or COOLDOWN only lets time pass.                        *)
LEMMA WaitKeepsInv ==
  ASSUME FusionInv, NEW answer \in Fusion!AiAnswers, Fusion!WaitRound(answer)
  PROVE  /\ FusionInv'
         /\ fire' = "ALERT" => fire = "ALERT"
<1>1. /\ hour' = hour /\ accum' = accum /\ lastTemp' = lastTemp /\ smokeRounds' = 0
      /\ lightRounds' = lightRounds
      /\ fire \in {"ALERT", "COOLDOWN"}
      /\ signalAge' = Fusion!Older(signalAge, Fusion!Minute + 1)
      /\ evidenceAge' = Fusion!Older(evidenceAge, Fusion!Minute + 1)
  BY DEF Fusion!WaitRound
<1>2. /\ fire' \in {"ALERT", "COOLDOWN", "SAFE"} /\ (fire' = "ALERT" => fire = "ALERT")
      /\ fireAge' \in Int
  BY DEF Fusion!WaitRound, Fusion!Enter, Fusion!Older, Fusion!Capped, Fusion!Never,
         Fusion!Minute, FusionInv, FusionTypes
<1>3. ai' \in {"none", "low", "high"}
  BY DEF Fusion!WaitRound, Fusion!AiCheck, Fusion!AiAnswers, Fusion!Either, FusionInv, FusionTypes
<1>4. FusionTypes' /\ SignalsAreEvidence'
  BY <1>1, <1>2, <1>3 DEF FusionInv, FusionTypes, SignalsAreEvidence, Fusion!Older,
     Fusion!Capped, Fusion!Never, Fusion!Minute
<1>5. fire' \in {"SAFE", "MONITOR"} => ai' # "high"
  BY <1>1, <1>2 DEF Fusion!WaitRound
<1>6. evidenceAge' = -1 => evidenceAge = -1
  BY <1>1 DEF FusionInv, FusionTypes, Fusion!Older, Fusion!Capped, Fusion!Never, Fusion!Minute
<1>7. NoEvidence'
  BY <1>1, <1>5, <1>6 DEF FusionInv, NoEvidence, Calm, Fusion!Never
<1> QED
  BY <1>1, <1>2, <1>4, <1>7 DEF FusionInv, SmokeCounts

(* The score starts at zero, without evidence.                              *)
LEMMA FusionStarts ==
  ASSUME Init
  PROVE  FusionInv
<1>1. hour \in {"night", "work", "evening", "other"}
  BY DEF Init, Fusion!FusionInit, Scenes, Scene
<1> QED
  BY <1>1 DEF Init, Fusion!FusionInit, FusionInv, FusionTypes, SignalsAreEvidence,
     NoEvidence, Calm, SmokeCounts, Fusion!Never, Fusion!Unread, Fusion!Minute

(* The invariant of the score is kept, and alarms are fresh.                *)
LEMMA FusionNextInv ==
  ASSUME Temps \subseteq Int, FusionInv, [Next]_vars
  PROVE  /\ FusionInv'
         /\ fire' = "ALERT" /\ fire # "ALERT" /\ signalAge # Fusion!Never =>
              evidenceAge' \in 0..Fusion!Minute
<1>1. CASE \E answer \in Fusion!AiAnswers : Fusion!ScoreRound(answer)
  BY <1>1, ScoreKeepsInv
<1>2. CASE \E answer \in Fusion!AiAnswers : Fusion!WaitRound(answer)
  BY <1>2, WaitKeepsInv
<1>3. CASE UNCHANGED fusionVars
  BY <1>3 DEF fusionVars, FusionInv, FusionTypes, SignalsAreEvidence, NoEvidence, Calm,
     SmokeCounts
<1> QED
  BY <1>1, <1>2, <1>3 DEF Next, LifeStep, FusionStep, LampStep, OtaStep, SearchStep,
     PoolStep, Fusion!FusionNext, vars

(* The score tells fire from everything else, whatever temperatures are     *)
(* read: presence alone raises no alarm, light alone not before it scored   *)
(* in twelve rounds at work or six times in an evening, smoke that lasts    *)
(* three rounds does, and after a first strong signal old ones do not.      *)
THEOREM ScoreMeansFire ==
  ASSUME Temps \subseteq Int
  PROVE  Spec => AlarmsMeanFire
<1>1. Init => FusionInv
  BY FusionStarts
<1>2. FusionInv /\ [Next]_vars =>
        /\ FusionInv'
        /\ fire' = "ALERT" /\ fire # "ALERT" /\ signalAge # Fusion!Never =>
             evidenceAge' \in 0..Fusion!Minute
  BY FusionNextInv
<1>3. FusionInv => Fusion!HarmlessIsNoFire /\ Fusion!LastingSmokeAlarms
  <2>1. FusionInv => Fusion!HarmlessIsNoFire
    BY DEF FusionInv, FusionTypes, NoEvidence, Calm, Fusion!HarmlessIsNoFire, Fusion!Never,
       Fusion!Minute, Fusion!HalfMinute
  <2> QED  BY <2>1 DEF FusionInv, SmokeCounts, Fusion!LastingSmokeAlarms
<1>4. Spec => []Fusion!HarmlessIsNoFire /\ []Fusion!LastingSmokeAlarms
  BY <1>1, <1>2, <1>3, PTL DEF Spec
<1>5. Spec => Fusion!AlarmsAreFresh
  BY <1>1, <1>2, PTL DEF Spec, Fusion!AlarmsAreFresh
<1> QED  BY <1>4, <1>5 DEF AlarmsMeanFire, Fusion!AlarmsMeanFire

-----------------------------------------------------------------------------
(* The off timer is no older than the absence, unless somebody was          *)
(* overlooked; a call under way was made by the round before.               *)
TimerIsAbsence == ~overlooked /\ offTimer # Lamp!NotSet => absent >= offTimer

LampInv == Lamp!LampTypeOK /\ TimerIsAbsence

(* Every step of the lamp keeps the invariant, and a round that switches    *)
(* the lamp off has seen nobody, or overlooked somebody.                    *)
LEMMA LampStepKeepsInv ==
  ASSUME LampInv, Lamp!LampNext
  PROVE  LampInv' /\ (Lamp!SwitchesOff => absent' >= Lamp!PIR_OFF_DELAY \/ overlooked)
<1> USE DEF LampInv, Lamp!LampTypeOK, TimerIsAbsence, Lamp!Off, Lamp!On, Lamp!Failed,
            Lamp!NotSet, Lamp!Idle, Lamp!PIR_OFF_DELAY
<1>1. CASE Lamp!LampRound
  <2>1. /\ light' \in {0, 1, -1} /\ pir' \in {0, 1, -1} /\ telemetry = -1
        /\ offTimer' = IF light' = 1 /\ pir' = 1 THEN -1
                       ELSE IF pir' = 0 /\ light' # -1 /\ offTimer = -1 THEN 0
                       ELSE IF offTimer = -1 THEN -1
                       ELSE IF offTimer < 6 THEN offTimer + 1 ELSE offTimer
        /\ absent' = IF pir' = 1 THEN 0 ELSE IF absent < 6 THEN absent + 1 ELSE absent
        /\ overlooked' = (offTimer # -1 /\ ~(light' = 1 /\ pir' = 1) /\ (overlooked \/ pir' = 1))
        /\ UNCHANGED <<disturbed, led_state, worker>>
    BY <1>1 DEF Lamp!LampRound, Lamp!Timer, Lamp!DarkAndPresent, Lamp!Unread, Lamp!Aged
  <2>2. /\ lamp' \in {0, 1} /\ telemetry' \in {0, 1, -1}
        /\ telemetry' = 0 => pir' = 0 /\ light' # -1 /\ offTimer' >= 6
    BY <1>1, <2>1 DEF Lamp!LampRound, Lamp!SwitchLamp, Lamp!NoCall, Lamp!DarkAndPresent, Lamp!Unread
  <2>3. overlooked' \in BOOLEAN
    BY <2>1, Zenon
  <2>4. TimerIsAbsence'
    <3>1. absent \in 0..6 /\ offTimer \in {-1} \cup 0..6 /\ overlooked \in BOOLEAN
      OBVIOUS
    <3>2. CASE offTimer = -1
      BY <2>1, <3>1, <3>2
    <3>3. CASE offTimer # -1 /\ ~overlooked'
      <4>1. (~overlooked /\ pir' # 1) \/ offTimer' = -1
        BY <2>1, <3>3
      <4> QED  BY <2>1, <3>1, <3>3, <4>1
    <3> QED  BY <3>2, <3>3
  <2>5. Lamp!LampTypeOK'
    BY <2>1, <2>2, <2>3
  <2>6. telemetry' = 0 => absent' >= 6 \/ overlooked
    BY <2>1, <2>2
  <2> QED  BY <2>4, <2>5, <2>6 DEF Lamp!SwitchesOff
<1>2. CASE Lamp!StoreLedState \/ Lamp!Command \/ Lamp!WebSwitch
  <2>1. /\ lamp' \in {0, 1} /\ led_state' \in {0, 1}
        /\ telemetry' \in {0, 1, -1} /\ worker' \in {0, 1, -1}
        /\ UNCHANGED <<disturbed, light, pir, offTimer, absent, overlooked>>
    BY <1>2 DEF Lamp!StoreLedState, Lamp!Command, Lamp!WebSwitch
  <2>2. LampInv'
    BY <2>1
  <2> QED  BY <1>1, <2>2 DEF Lamp!SwitchesOff
<1> QED  BY <1>1, <1>2 DEF Lamp!LampNext

(* The lamp's invariant holds at the start.                                 *)
LEMMA LampStarts ==
  Init => LampInv
<1>1. Init => {disturbed, overlooked} \subseteq BOOLEAN
  BY Zenon DEF Init, Lamp!LampInit
<1> QED
  BY <1>1 DEF Init, Lamp!LampInit, LampInv, Lamp!LampTypeOK, TimerIsAbsence, Lamp!Off, Lamp!On,
     Lamp!Failed, Lamp!NotSet, Lamp!Idle, Lamp!PIR_OFF_DELAY

(* ... and is kept, and the lamp goes off as the property says.             *)
LEMMA LampNextInv ==
  ASSUME LampInv, [Next]_vars
  PROVE  LampInv' /\ [Lamp!SwitchesOff => absent' >= Lamp!PIR_OFF_DELAY \/ overlooked]_Lamp!lampVars
<1>1. CASE Lamp!LampNext
  BY <1>1, LampStepKeepsInv
<1>2. CASE UNCHANGED Lamp!lampVars
  BY <1>2 DEF Lamp!lampVars, LampInv, Lamp!LampTypeOK, TimerIsAbsence
<1> QED
  BY <1>1, <1>2 DEF Next, LifeStep, FusionStep, LampStep, OtaStep, SearchStep, PoolStep,
     vars, lampVars, Lamp!lampVars

(* The lamp never goes off with somebody there who was seen in the dark.    *)
THEOREM LampNeedsAbsence ==
  Spec => LampFollowsPresence
<1>1. Init => LampInv
  BY LampStarts
<1>2. LampInv /\ [Next]_vars =>
        LampInv' /\ [Lamp!SwitchesOff => absent' >= Lamp!PIR_OFF_DELAY \/ overlooked]_Lamp!lampVars
  BY LampNextInv
<1> QED  BY <1>1, <1>2, PTL DEF Spec, LampFollowsPresence, Lamp!OffNeedsAbsence

-----------------------------------------------------------------------------
(* The flag is set exactly while an upgrade is under way, and a rollback    *)
(* runs in between.                                                         *)
FlagIsUpgrade ==
  /\ ota_upgrading <=> upgrade # "none"
  /\ rollback # "none" => upgrade = "none"

(* Unless somebody gambled, the file that is not being written is whole.    *)
SourceIsWhole ==
  ~gambled => /\ Ota!Whole(current) \/ Ota!Whole(backup)
              /\ upgrade = "backing_up" => Ota!Whole(current)
              /\ upgrade \in {"install", "installing", "restore", "restoring"} =>
                   Ota!Whole(backup)
              /\ rollback = "rolling_back" => Ota!Whole(backup)

OtaInv == Ota!OtaTypeOK /\ FlagIsUpgrade /\ SourceIsWhole

(* Every step of an upgrade or a rollback, and a restart, keeps it.         *)
LEMMA OtaStepKeepsInv ==
  ASSUME OtaInv, Ota!OtaNext
  PROVE  OtaInv'
<1> USE DEF OtaInv, Ota!OtaTypeOK, FlagIsUpgrade, SourceIsWhole, Ota!Whole, Ota!Upgrades,
            Ota!RollsBack, Ota!files
<1>1. CASE Ota!StartUpgrade
  BY <1>1 DEF Ota!StartUpgrade
<1>2. ASSUME NEW from, NEW why, Ota!Fail(from, why), from # "none",
             why \in {"Download_failed", "Checksum_mismatch", "Backup_failed",
                      "Install_failed_rolled_back"}
      PROVE  OtaInv'
  BY <1>2 DEF Ota!Fail
<1>3. CASE Ota!Download
  <2>1. CASE Ota!Fail("download", "Download_failed")
    BY <2>1, <1>2
  <2>2. CASE ~Ota!Fail("download", "Download_failed")
    BY <2>2, <1>3 DEF Ota!Download
  <2> QED  BY <2>1, <2>2
<1>4. CASE Ota!Verify
  <2>1. CASE Ota!Fail("verify", "Checksum_mismatch")
    BY <2>1, <1>2
  <2>2. CASE ~Ota!Fail("verify", "Checksum_mismatch")
    BY <2>2, <1>4 DEF Ota!Verify
  <2> QED  BY <2>1, <2>2
<1>5. CASE Ota!BeginCopies
  BY <1>5 DEF Ota!BeginCopies
<1>6. CASE Ota!Backup
  <2>1. CASE Ota!Fail("back_up", "Backup_failed") \/ Ota!Fail("backing_up", "Backup_failed")
    BY <2>1, <1>2
  <2>2. CASE ~(Ota!Fail("back_up", "Backup_failed") \/ Ota!Fail("backing_up", "Backup_failed"))
    BY <2>2, <1>6 DEF Ota!Backup
  <2> QED  BY <2>1, <2>2
<1>7. CASE Ota!Install
  BY <1>7 DEF Ota!Install
<1>8. CASE Ota!Restore
  <2>1. CASE \E from \in {"restore", "restoring"} : Ota!Fail(from, "Install_failed_rolled_back")
    BY <2>1, <1>2
  <2>2. CASE ~\E from \in {"restore", "restoring"} : Ota!Fail(from, "Install_failed_rolled_back")
    BY <2>2, <1>8 DEF Ota!Restore
  <2> QED  BY <2>1, <2>2
<1>9. CASE Ota!StartRollback
  BY <1>9 DEF Ota!StartRollback
<1>10. CASE Ota!EndRollback
  BY <1>10 DEF Ota!EndRollback
<1>11. CASE Ota!End
  BY <1>11 DEF Ota!End
<1>12. CASE Ota!Start
  BY <1>12 DEF Ota!Start
<1> QED
  BY <1>1, <1>3, <1>4, <1>5, <1>6, <1>7, <1>8, <1>9, <1>10, <1>11, <1>12
     DEF Ota!OtaNext, Ota!Upgrade

(* No upgrade is under way at the start.                                    *)
LEMMA OtaStarts ==
  Init => OtaInv
<1>1. Init => {ota_upgrading, up, gambled} \subseteq BOOLEAN
  BY Zenon DEF Init, Ota!OtaInit
<1> QED
  BY <1>1 DEF Init, Ota!OtaInit, OtaInv, Ota!OtaTypeOK, FlagIsUpgrade, SourceIsWhole, Ota!Whole

(* The invariant of the updates is kept.                                    *)
LEMMA OtaNextInv ==
  ASSUME OtaInv, [Next]_vars
  PROVE  OtaInv'
<1>1. CASE Ota!OtaNext
  BY <1>1, OtaStepKeepsInv
<1>2. CASE UNCHANGED Ota!otaVars
  BY <1>2 DEF Ota!otaVars, OtaInv, Ota!OtaTypeOK, FlagIsUpgrade, SourceIsWhole, Ota!Whole
<1> QED
  BY <1>1, <1>2 DEF Next, LifeStep, FusionStep, LampStep, OtaStep, SearchStep,
     PoolStep, vars, otaVars, Ota!otaVars

(* Through any upgrades, rollbacks and power cuts a whole image survives.   *)
THEOREM ImageSurvives ==
  Spec => []UpgradeIsSafe
<1>1. Init => OtaInv
  BY OtaStarts
<1>2. OtaInv /\ [Next]_vars => OtaInv'
  BY OtaNextInv
<1>3. OtaInv => UpgradeIsSafe
  BY DEF OtaInv, FlagIsUpgrade, SourceIsWhole, UpgradeIsSafe, Ota!UpgradeIsSafe,
     Ota!OneImageSurvives, Ota!OneAtATime
<1> QED  BY <1>1, <1>2, <1>3, PTL DEF Spec

-----------------------------------------------------------------------------
(* What the program has started and not ended yet.                         *)
ThreadsOfSearch ==
  /\ socket = "open" <=> g_initialized
  /\ g_running \/ app # "idle" => g_initialized
  /\ g_running => app = "idle"
  /\ app = "close" \/ (app = "idle" /\ ~g_running) => listener = "off" /\ broadcaster = "off"
  /\ listener = "record" => heard \in Ids

NoDoubles == \A i, j \in DOMAIN g_devices : g_devices[i] = g_devices[j] => i = j

SearchInv == Search!DiscoveryTypeOK /\ ThreadsOfSearch /\ NoDoubles

LEMMA CardinalityOfSearch ==
  ASSUME NEW S
  PROVE  Search!Cardinality(S) = Cardinality(S)
BY DEF Search!Cardinality, Cardinality

(* Closing the gaps keeps the table a table, without doubles.               *)
LEMMA KeepOnlyKeepsTable ==
  ASSUME MaxDevices \in Nat, g_devices \in Seq(Ids), Len(g_devices) <= MaxDevices, NoDoubles,
         NEW kept \in SUBSET DOMAIN g_devices, Search!KeepOnly(kept)
  PROVE  g_devices' \in Seq(Ids) /\ Len(g_devices') <= MaxDevices /\ NoDoubles'
<1>0. kept \subseteq 1..Len(g_devices)
  OBVIOUS
<1>1. PICK from \in [1..Search!Cardinality(kept) -> kept] :
        /\ \A i, j \in DOMAIN from : i < j => from[i] < from[j]
        /\ g_devices' = [i \in DOMAIN from |-> g_devices[from[i]]]
  BY DEF Search!KeepOnly
<1> DEFINE n == Cardinality(kept)
<1>2. n \in Nat /\ n <= Len(g_devices) /\ from \in [1..n -> kept]
  <2>1. IsFiniteSet(1..Len(g_devices)) /\ Cardinality(1..Len(g_devices)) = Len(g_devices)
    <3>1. \A m \in Nat : IsFiniteSet(1..m) /\ Cardinality(1..m) = IF 1 > m THEN 0 ELSE m - 1 + 1
      BY FS_Interval
    <3>2. Len(g_devices) \in Nat
      OBVIOUS
    <3> QED  BY <3>1, <3>2
  <2>2. IsFiniteSet(kept) /\ Cardinality(kept) <= Len(g_devices)
    BY <2>1, FS_Subset
  <2> QED  BY <1>1, <2>2, FS_CardinalityType, CardinalityOfSearch
<1> HIDE DEF n
<1>3. \A i \in 1..n : from[i] \in 1..Len(g_devices)
  BY <1>0, <1>2
<1>4. g_devices' = [i \in 1..n |-> g_devices[from[i]]]
  BY <1>1, <1>2
<1>5. g_devices' \in Seq(Ids) /\ Len(g_devices') = n
  BY <1>2, <1>3, <1>4
<1>6. ASSUME NEW i \in 1..n, NEW j \in 1..n, g_devices'[i] = g_devices'[j]
      PROVE  i = j
  <2>1. from[i] = from[j]
    BY <1>3, <1>4, <1>6 DEF NoDoubles
  <2>2. i \in DOMAIN from /\ j \in DOMAIN from /\ from[i] \in Int /\ from[j] \in Int
    <3>1. DOMAIN from = 1..n
      BY <1>2
    <3>2. from[i] \in 1..Len(g_devices) /\ from[j] \in 1..Len(g_devices)
      BY <1>3
    <3> QED  BY <3>1, <3>2
  <2>3. ~(i < j) /\ ~(j < i)
    BY <1>1, <2>1, <2>2
  <2> QED  BY <2>3, <1>2
<1> QED  BY <1>2, <1>4, <1>5, <1>6 DEF NoDoubles

(* A device that was not in the table is put at its end.                    *)
LEMMA InsertKeepsTable ==
  ASSUME MaxDevices \in Nat, g_devices \in Seq(Ids), Len(g_devices) < MaxDevices, NoDoubles,
         NEW id \in Ids, ~Search!Listed(id), Search!Insert(id)
  PROVE  g_devices' \in Seq(Ids) /\ Len(g_devices') <= MaxDevices /\ NoDoubles'
<1>1. g_devices' = Append(g_devices, id)
  BY DEF Search!Insert
<1>2. \A i \in 1..Len(g_devices) : g_devices[i] # id
  BY DEF Search!Listed
<1> QED  BY <1>1, <1>2 DEF NoDoubles

(* Steps that leave the table alone: the threads come and go, the socket    *)
(* with them.                                                               *)
LEMMA ThreadsStep ==
  ASSUME SearchInv,
         \/ Search!Begin \/ Search!End("stop") \/ Search!End("cleanup") \/ Search!Join
         \/ Search!Listen \/ Search!Receive \/ Search!Broadcast
         \/ \E id \in Ids : Search!Announce(id)
  PROVE  SearchInv'
<1> USE DEF SearchInv, Search!DiscoveryTypeOK, ThreadsOfSearch, NoDoubles, Search!table,
            Search!threads, Search!Nothing, Search!Discover, Search!Finish
<1>1. CASE Search!Begin
  BY <1>1 DEF Search!Begin
<1>2. CASE Search!End("stop") \/ Search!End("cleanup")
  BY <1>2 DEF Search!End
<1>3. CASE Search!Join
  BY <1>3 DEF Search!Join
<1>4. CASE Search!Listen
  BY <1>4 DEF Search!Listen
<1>5. CASE Search!Receive
  BY <1>5 DEF Search!Receive
<1>6. CASE Search!Broadcast
  BY <1>6 DEF Search!Broadcast
<1>7. CASE \E id \in Ids : Search!Announce(id)
  BY <1>7 DEF Search!Announce
<1> QED  BY <1>1, <1>2, <1>3, <1>4, <1>5, <1>6, <1>7

(* A device that is heard of is silent no longer.                          *)
LEMMA SilentReset ==
  ASSUME DeviceTimeout \in Nat, silent \in [Ids -> 0..DeviceTimeout + 1], NEW id \in Ids
  PROVE  [silent EXCEPT ![id] = 0] \in [Ids -> 0..DeviceTimeout + 1]
<1> DEFINE Ages == 0..DeviceTimeout + 1
<1>1. 0 \in Ages
  OBVIOUS
<1> HIDE DEF Ages
<1>2. ASSUME NEW f \in [Ids -> Ages]
      PROVE  [f EXCEPT ![id] = 0] \in [Ids -> Ages]
  BY <1>1
<1> QED  BY <1>2 DEF Ages

(* Steps that change the table.                                            *)
LEMMA TableStep ==
  ASSUME MaxDevices \in Nat, DeviceTimeout \in Nat, SearchInv,
         \/ Search!Initialize \/ Search!Close \/ Search!Record \/ Search!DropSilent
         \/ Search!DiscoveryTick
         \/ \E id \in Ids : Search!Register(id) \/ Search!Unregister(id)
  PROVE  SearchInv'
<1> DEFINE TableOK == /\ g_devices \in Seq(Ids) /\ Len(g_devices) <= MaxDevices /\ NoDoubles
                      /\ silent \in [Ids -> 0..DeviceTimeout + 1]
<1>1. TableOK
  BY DEF SearchInv, Search!DiscoveryTypeOK
<1>2. ASSUME TableOK', UNCHANGED <<g_initialized, g_running, Search!threads, socket, app>>
      PROVE  SearchInv'
  BY <1>2 DEF SearchInv, Search!DiscoveryTypeOK, ThreadsOfSearch, Search!threads
<1>3. CASE Search!Initialize
  BY <1>3 DEF Search!Initialize, Search!threads, SearchInv, Search!DiscoveryTypeOK,
     ThreadsOfSearch, NoDoubles
<1>4. CASE Search!Close
  <2>1. TableOK'
    BY <1>1, <1>4 DEF Search!Close, NoDoubles
  <2>2. /\ app = "close" /\ app' = "idle" /\ socket' = "closed" /\ g_initialized' = FALSE
        /\ datagram' = Search!Nothing /\ UNCHANGED <<g_running, listener, broadcaster, heard>>
    BY <1>4 DEF Search!Close
  <2>3. g_initialized' \in BOOLEAN /\ g_running' \in BOOLEAN
    BY <2>2, Zenon DEF SearchInv, Search!DiscoveryTypeOK
  <2> QED  BY <2>1, <2>2, <2>3 DEF SearchInv, Search!DiscoveryTypeOK, ThreadsOfSearch
<1>5. ASSUME NEW id \in Ids, ~Search!Listed(id), Len(g_devices) < MaxDevices, Search!Insert(id)
      PROVE  TableOK'
  <2>1. g_devices' \in Seq(Ids) /\ Len(g_devices') <= MaxDevices /\ NoDoubles'
    BY <1>1, <1>5, InsertKeepsTable
  <2>2. silent' = [silent EXCEPT ![id] = 0]
    BY <1>5 DEF Search!Insert
  <2> QED  BY <1>1, <2>1, <2>2, SilentReset
<1>6. CASE Search!Record
  <2>1. TableOK'
    <3>1. heard \in Ids
      BY <1>6 DEF Search!Record, SearchInv, ThreadsOfSearch
    <3>2. CASE UNCHANGED g_devices /\ silent' = [silent EXCEPT ![heard] = 0]
      BY <1>1, <3>1, <3>2, SilentReset DEF NoDoubles
    <3>3. CASE UNCHANGED Search!table
      BY <1>1, <3>3 DEF Search!table, NoDoubles
    <3> QED  BY <1>5, <1>6, <3>1, <3>2, <3>3 DEF Search!Record
  <2>2. UNCHANGED <<g_initialized, g_running, broadcaster, heard, datagram, socket, app>>
        /\ listener = "record" /\ listener' = "check"
    BY <1>6 DEF Search!Record
  <2> QED  BY <2>1, <2>2 DEF SearchInv, Search!DiscoveryTypeOK, ThreadsOfSearch
<1>7. CASE Search!DropSilent
  <2>1. PICK kept \in SUBSET DOMAIN g_devices : Search!KeepOnly(kept)
    BY <1>7 DEF Search!DropSilent
  <2>2. g_devices' \in Seq(Ids) /\ Len(g_devices') <= MaxDevices /\ NoDoubles'
    BY <1>1, <2>1, KeepOnlyKeepsTable
  <2>3. silent' \in [Ids -> 0..DeviceTimeout + 1]
    BY <1>1, <1>7 DEF Search!DropSilent
  <2> QED  BY <1>2, <1>7, <2>2, <2>3 DEF Search!DropSilent
<1>8. CASE Search!DiscoveryTick
  <2>1. silent' \in [Ids -> 0..DeviceTimeout + 1]
    BY <1>1, <1>8 DEF Search!DiscoveryTick
  <2> QED  BY <1>1, <1>2, <1>8, <2>1 DEF Search!DiscoveryTick, NoDoubles
<1>9. ASSUME NEW id \in Ids, Search!Register(id)
      PROVE  SearchInv'
  BY <1>2, <1>5, <1>9 DEF Search!Register
<1>10. ASSUME NEW id \in Ids, Search!Unregister(id)
       PROVE  SearchInv'
  <2>1. PICK kept \in SUBSET DOMAIN g_devices : Search!KeepOnly(kept)
    BY <1>10 DEF Search!Unregister
  <2>2. g_devices' \in Seq(Ids) /\ Len(g_devices') <= MaxDevices /\ NoDoubles'
    BY <1>1, <2>1, KeepOnlyKeepsTable
  <2>3. silent' \in [Ids -> 0..DeviceTimeout + 1]
    BY <1>1, <1>10 DEF Search!Unregister
  <2> QED  BY <1>2, <1>10, <2>2, <2>3 DEF Search!Unregister
<1> QED  BY <1>3, <1>4, <1>6, <1>7, <1>8, <1>9, <1>10

(* No search runs at the start.                                             *)
LEMMA SearchStarts ==
  ASSUME MaxDevices \in Nat, DeviceTimeout \in Nat
  PROVE  Init => SearchInv
<1>1. Init => {g_initialized, g_running} \subseteq BOOLEAN
  BY Zenon DEF Init, Search!DiscoveryInit
<1>2. Init => NoDoubles /\ g_devices \in Seq(Ids) /\ Len(g_devices) <= MaxDevices
  BY DEF Init, Search!DiscoveryInit, NoDoubles
<1>3. Init => silent \in [Ids -> 0..DeviceTimeout + 1]
  BY DEF Init, Search!DiscoveryInit
<1> QED
  BY <1>1, <1>2, <1>3 DEF Init, Search!DiscoveryInit, Search!Nothing, SearchInv,
     Search!DiscoveryTypeOK, ThreadsOfSearch

(* The invariant of the search is kept.                                     *)
LEMMA SearchNextInv ==
  ASSUME MaxDevices \in Nat, DeviceTimeout \in Nat, SearchInv, [Next]_vars
  PROVE  SearchInv'
<1>1. CASE Search!DiscoveryNext
  BY <1>1, ThreadsStep, TableStep DEF Search!DiscoveryNext, Search!Listener
<1>2. CASE UNCHANGED searchVars
  BY <1>2 DEF searchVars, SearchInv, Search!DiscoveryTypeOK, ThreadsOfSearch, NoDoubles
<1> QED
  BY <1>1, <1>2 DEF Next, LifeStep, FusionStep, LampStep, OtaStep, SearchStep,
     PoolStep, vars

(* However the search is started, stopped and cleaned up, no thread of it   *)
(* outlives its socket, and the table names each device once.               *)
THEOREM SearchEndsAfterThreads ==
  ASSUME MaxDevices \in Nat, DeviceTimeout \in Nat
  PROVE  Spec => []SearchIsSafe
<1>1. Init => SearchInv
  BY SearchStarts
<1>2. SearchInv /\ [Next]_vars => SearchInv'
  BY SearchNextInv
<1>3. SearchInv => SearchIsSafe
  BY DEF SearchInv, Search!DiscoveryTypeOK, ThreadsOfSearch, NoDoubles,
     SearchIsSafe, Search!SearchIsSafe, Search!SocketOutlivesThreads, Search!EachDeviceOnce
<1> QED  BY <1>1, <1>2, <1>3, PTL DEF Spec

-----------------------------------------------------------------------------
(* The free list holds the blocks s[1], ..., s[free_blocks], the last one   *)
(* first.                                                                   *)
Chain(s) ==
  /\ s \in [1..free_blocks -> Pool!Blocks]
  /\ \A i, j \in 1..free_blocks : s[i] = s[j] => i = j
  /\ free_list = IF free_blocks = 0 THEN 0 ELSE s[free_blocks]
  /\ \A i \in 1..free_blocks : next[s[i]] = IF i = 1 THEN 0 ELSE s[i - 1]

OnList(s, b) == \E i \in 1..free_blocks : s[i] = b
Has(u, b) == b \in held[u] \/ (doing[u] = "free" /\ node[u] = b)

(* Each block is on the list or with one user.                             *)
OnePlace(s) ==
  \A b \in Pool!Blocks :
    /\ OnList(s, b) \/ \E u \in Users : Has(u, b)
    /\ \A u \in Users : Has(u, b) => ~OnList(s, b)
    /\ \A u, v \in Users : Has(u, b) /\ Has(v, b) => u = v

(* What a call knows: a user about to pop holds the mutex and has the head  *)
(* of the list; a block on its way back is the caller's no more.            *)
Calls ==
  \A u \in Users :
    /\ doing[u] = "pop" => poolLock = u /\ node[u] = free_list /\ free_list # 0
    /\ doing[u] = "free" => node[u] \in Pool!Blocks /\ node[u] \notin held[u]

AtRest == \A u \in Users : doing[u] = "idle" /\ held[u] = {}

PoolInv ==
  /\ Pool!PoolTypeOK
  /\ ~active /\ ~astray => AtRest
  /\ active => ~astray /\ Calls /\ \E s : Chain(s) /\ OnePlace(s)

(* mempool_create chains all blocks.                                       *)
LEMMA CreateKeepsInv ==
  ASSUME BlockCount \in Nat, BlockCount # 0, PoolInv, ~astray, Pool!Create
  PROVE  PoolInv'
<1> DEFINE s == [i \in 1..BlockCount |-> BlockCount + 1 - i]
<1>1. /\ ~active /\ active' = TRUE /\ free_list' = 1 /\ free_blocks' = BlockCount
      /\ next' = [b \in Pool!Blocks |-> IF b = BlockCount THEN 0 ELSE b + 1]
      /\ poolLock' = Pool!Nobody /\ UNCHANGED <<doing, node, held, astray>>
  BY DEF Pool!Create, Pool!NULL
<1>2. AtRest
  BY <1>1 DEF PoolInv
<1>3. Pool!PoolTypeOK'
  <2>1. next' \in [Pool!Blocks -> Pool!Blocks \cup {Pool!NULL}]
    BY <1>1 DEF Pool!Blocks, Pool!NULL
  <2>2. free_list' \in Pool!Blocks \cup {Pool!NULL} /\ free_blocks' \in 0..BlockCount
    BY <1>1 DEF Pool!Blocks, Pool!NULL
  <2>3. {active', astray'} \subseteq BOOLEAN
    BY <1>1 DEF PoolInv, Pool!PoolTypeOK
  <2> QED  BY <1>1, <2>1, <2>2, <2>3 DEF PoolInv, Pool!PoolTypeOK
<1>4. Chain(s)'
  BY <1>1 DEF Chain, Pool!Blocks
<1>5. \A b \in Pool!Blocks : OnList(s, b)'
  <2>1. ASSUME NEW b \in 1..BlockCount
        PROVE  s[BlockCount + 1 - b] = b /\ BlockCount + 1 - b \in 1..BlockCount
    OBVIOUS
  <2> HIDE DEF s
  <2> QED  BY <1>1, <2>1 DEF OnList, Pool!Blocks
<1>6. OnePlace(s)'
  BY <1>1, <1>2, <1>5 DEF OnePlace, AtRest, Has
<1>7. Calls'
  BY <1>1, <1>2 DEF AtRest, Calls
<1> QED  BY <1>1, <1>3, <1>4, <1>6, <1>7 DEF PoolInv

(* mempool_destroy takes all blocks from their users.                      *)
LEMMA DestroyKeepsInv ==
  ASSUME PoolInv, ~astray, Pool!Destroy
  PROVE  PoolInv'
<1>1. /\ active' = FALSE /\ free_list' = 0 /\ held' = [u \in Users |-> {}]
      /\ astray' = (\E u \in Users : doing[u] # "idle")
      /\ UNCHANGED <<next, free_blocks, poolLock, doing, node>>
  BY DEF Pool!Destroy, Pool!NULL
<1>2. {active', astray'} \subseteq BOOLEAN
  BY <1>1, Zenon
<1>3. Pool!PoolTypeOK'
  BY <1>1, <1>2 DEF PoolInv, Pool!PoolTypeOK, Pool!NULL
<1>4. ~astray' => AtRest'
  BY <1>1 DEF AtRest
<1> QED  BY <1>1, <1>3, <1>4 DEF PoolInv

(* A call of a user begins, or looks at the list.                          *)
LEMMA BeginKeepsInv ==
  ASSUME Pool!Nobody \notin Users, PoolInv, ~astray, NEW u \in Users,
         Pool!Alloc(u) \/ Pool!ReadList(u)
  PROVE  PoolInv'
<1>1. active
  BY DEF Pool!Alloc, Pool!ReadList, Pool!CallStep, PoolInv, AtRest
<1>2. PICK s : Chain(s) /\ OnePlace(s)
  BY <1>1 DEF PoolInv
<1>3. /\ doing[u] \in {"idle", "alloc"} /\ doing' \in [Users -> {"idle", "alloc", "pop", "free"}]
      /\ doing'[u] \in {"idle", "alloc", "pop"}
      /\ doing'[u] = "pop" => poolLock' = u /\ node'[u] = free_list /\ free_list # 0
      /\ \A v \in Users \ {u} : doing'[v] = doing[v] /\ node'[v] = node[v]
      /\ node' \in [Users -> Pool!Blocks \cup {Pool!NULL}]
      /\ poolLock' \in Users \cup {Pool!Nobody}
      /\ UNCHANGED <<active, free_list, next, free_blocks, held, astray>>
      /\ poolLock' = poolLock \/ poolLock = Pool!Nobody
  BY DEF Pool!Alloc, Pool!ReadList, Pool!CallStep, PoolInv, Pool!PoolTypeOK, Pool!NULL
<1>4. Pool!PoolTypeOK'
  BY <1>3 DEF PoolInv, Pool!PoolTypeOK
<1>5. \A v \in Users, b \in Pool!Blocks : Has(v, b)' <=> Has(v, b)
  BY <1>3 DEF Has
<1>6. Chain(s)' /\ OnePlace(s)'
  BY <1>2, <1>3, <1>5 DEF Chain, OnePlace, OnList
<1>7. Calls'
  BY <1>1, <1>3 DEF PoolInv, Calls
<1> QED  BY <1>1, <1>3, <1>4, <1>6, <1>7 DEF PoolInv

(* The head of the list goes to the user.                                  *)
LEMMA PopKeepsInv ==
  ASSUME BlockCount \in Nat, Pool!Nobody \notin Users, PoolInv, ~astray, NEW u \in Users,
         Pool!Pop(u)
  PROVE  PoolInv'
<1>1. /\ doing[u] = "pop" /\ doing' = [doing EXCEPT ![u] = "idle"]
      /\ free_list' = next[node[u]] /\ free_blocks' = free_blocks - 1
      /\ held' = [held EXCEPT ![u] = @ \cup {node[u]}]
      /\ poolLock' = Pool!Nobody /\ node' = [node EXCEPT ![u] = 0]
      /\ UNCHANGED <<active, next, astray>>
  BY DEF Pool!Pop, Pool!CallStep, Pool!NULL
<1>2. active /\ Calls
  BY <1>1 DEF PoolInv, AtRest
<1>3. PICK s : Chain(s) /\ OnePlace(s)
  BY <1>2 DEF PoolInv
<1> DEFINE b == node[u]
<1>0. PICK t : t = [i \in 1..free_blocks - 1 |-> s[i]]
  OBVIOUS
<1>4. free_blocks \in 0..BlockCount /\ poolLock = u /\ b = free_list /\ free_list # 0
  BY <1>1, <1>2 DEF Calls, PoolInv, Pool!PoolTypeOK
<1>5. free_blocks \in 1..BlockCount /\ b = s[free_blocks] /\ b \in Pool!Blocks
  BY <1>3, <1>4 DEF Chain
<1>6. free_list' = IF free_blocks - 1 = 0 THEN 0 ELSE s[free_blocks - 1]
  BY <1>1, <1>3, <1>5 DEF Chain
<1>7. Chain(t)'
  BY <1>0, <1>1, <1>3, <1>5, <1>6 DEF Chain
<1>8. \A c \in Pool!Blocks : OnList(t, c)' <=> OnList(s, c) /\ c # b
  <2>1. ASSUME NEW c \in Pool!Blocks
        PROVE  OnList(t, c)' <=> OnList(s, c) /\ c # b
    <3>1. OnList(t, c)' <=> \E i \in 1..free_blocks - 1 : s[i] = c
      BY <1>0, <1>1, <1>5 DEF OnList
    <3>2. \A i \in 1..free_blocks : s[i] = b <=> i = free_blocks
      BY <1>3, <1>5 DEF Chain
    <3> HIDE DEF b
    <3> QED  BY <1>5, <3>1, <3>2 DEF OnList
  <2> QED  BY <2>1
<1>9. \A v \in Users, c \in Pool!Blocks : Has(v, c)' <=> Has(v, c) \/ (v = u /\ c = b)
  BY <1>1 DEF Has, PoolInv, Pool!PoolTypeOK
<1>10. OnList(s, b)
  BY <1>5 DEF OnList
<1> HIDE DEF b
<1>11. OnePlace(t)'
  BY <1>3, <1>5, <1>8, <1>9, <1>10 DEF OnePlace
<1>12. Calls'
  <2>1. ASSUME NEW v \in Users, v # u
        PROVE  doing'[v] = doing[v] /\ node'[v] = node[v] /\ held'[v] = held[v]
    BY <1>1, <2>1
  <2>2. doing'[u] = "idle"
    BY <1>1 DEF PoolInv, Pool!PoolTypeOK
  <2>3. \A v \in Users : v # u => doing[v] # "pop"
    BY <1>2, <1>4 DEF Calls
  <2> QED  BY <1>2, <2>1, <2>2, <2>3 DEF Calls
<1>13. Pool!PoolTypeOK'
  <2>1. free_blocks' \in 0..BlockCount /\ free_list' \in Pool!Blocks \cup {Pool!NULL}
    BY <1>1, <1>5 DEF PoolInv, Pool!PoolTypeOK, Pool!NULL, b
  <2>2. held' \in [Users -> SUBSET Pool!Blocks]
    BY <1>1, <1>5 DEF PoolInv, Pool!PoolTypeOK, b
  <2>3. node' \in [Users -> Pool!Blocks \cup {Pool!NULL}]
    BY <1>1 DEF PoolInv, Pool!PoolTypeOK, Pool!NULL
  <2> QED  BY <1>1, <2>1, <2>2, <2>3 DEF PoolInv, Pool!PoolTypeOK
<1> QED  BY <1>1, <1>2, <1>7, <1>11, <1>12, <1>13 DEF PoolInv

(* A user gives a block back: from now on it is the call's.                *)
LEMMA FreeKeepsInv ==
  ASSUME PoolInv, ~astray, NEW u \in Users, NEW b \in Pool!Blocks, Pool!Free(u, b)
  PROVE  PoolInv'
<1>1. /\ doing[u] = "idle" /\ doing' = [doing EXCEPT ![u] = "free"]
      /\ active /\ b \in held[u]
      /\ node' = [node EXCEPT ![u] = b] /\ held' = [held EXCEPT ![u] = @ \ {b}]
      /\ UNCHANGED <<active, free_list, next, free_blocks, poolLock, astray>>
  BY DEF Pool!Free, Pool!CallStep
<1>2. PICK s : Chain(s) /\ OnePlace(s)
  BY <1>1 DEF PoolInv
<1>3. \A v \in Users, c \in Pool!Blocks : Has(v, c)' <=> Has(v, c)
  BY <1>1 DEF Has, PoolInv, Pool!PoolTypeOK
<1>4. Chain(s)' /\ OnePlace(s)'
  BY <1>1, <1>2, <1>3 DEF Chain, OnePlace, OnList
<1>5. Calls'
  BY <1>1 DEF PoolInv, Calls, Pool!PoolTypeOK
<1>6. Pool!PoolTypeOK'
  BY <1>1 DEF PoolInv, Pool!PoolTypeOK
<1> QED  BY <1>1, <1>4, <1>5, <1>6 DEF PoolInv

(* Distinct blocks are no more than there are.                             *)
LEMMA ChainIsShort ==
  ASSUME BlockCount \in Nat, NEW n \in Nat, NEW t \in [1..n -> Pool!Blocks],
         \A i, j \in 1..n : t[i] = t[j] => i = j
  PROVE  n <= BlockCount
<1>1. \A m \in Nat : IsFiniteSet(1..m) /\ Cardinality(1..m) = IF 1 > m THEN 0 ELSE m - 1 + 1
  BY FS_Interval
<1>2. \A m \in Nat : IsFiniteSet(1..m) /\ Cardinality(1..m) = m
  BY <1>1
<1>3. SUFFICES ASSUME BlockCount < n
               PROVE  FALSE
  OBVIOUS
<1>4. \E i, j \in 1..n : i # j /\ t[i] = t[j]
  <2>1. IsFiniteSet(1..n) /\ IsFiniteSet(1..BlockCount)
        /\ Cardinality(1..BlockCount) < Cardinality(1..n)
    BY <1>2, <1>3
  <2>2. t \in [1..n -> 1..BlockCount]
    BY DEF Pool!Blocks
  <2> QED  BY <2>1, <2>2, FS_PigeonHole
<1> QED  BY <1>4

(* A block given back becomes the head of the list.                        *)
LEMMA PushKeepsInv ==
  ASSUME BlockCount \in Nat, Pool!Nobody \notin Users, PoolInv, ~astray, NEW u \in Users,
         Pool!Push(u)
  PROVE  PoolInv'
<1>1. /\ doing[u] = "free" /\ doing' = [doing EXCEPT ![u] = "idle"]
      /\ poolLock = Pool!Nobody
      /\ next' = [next EXCEPT ![node[u]] = free_list] /\ free_list' = node[u]
      /\ free_blocks' = free_blocks + 1 /\ node' = [node EXCEPT ![u] = 0]
      /\ UNCHANGED <<active, poolLock, held, astray>>
  BY DEF Pool!Push, Pool!CallStep, Pool!NULL
<1>2. active /\ Calls
  BY <1>1 DEF PoolInv, AtRest
<1>3. PICK s : Chain(s) /\ OnePlace(s)
  BY <1>2 DEF PoolInv
<1> DEFINE b == node[u]
           n == free_blocks
<1>0. PICK t : t = [i \in 1..n + 1 |-> IF i = n + 1 THEN b ELSE s[i]]
  OBVIOUS
<1>4. n \in Nat /\ b \in Pool!Blocks /\ b \notin held[u] /\ Has(u, b)
  BY <1>1, <1>2 DEF Calls, Has, PoolInv, Pool!PoolTypeOK
<1>5. \A i \in 1..n : s[i] # b /\ s[i] \in Pool!Blocks
  BY <1>3, <1>4 DEF OnePlace, OnList, Chain
<1>6. next \in [Pool!Blocks -> Pool!Blocks \cup {0}]
  BY DEF PoolInv, Pool!PoolTypeOK, Pool!NULL
<1> HIDE DEF b
<1>7. /\ t \in [1..n + 1 -> Pool!Blocks] /\ t[n + 1] = b
      /\ \A i \in 1..n : t[i] = s[i]
      /\ \A i, j \in 1..n + 1 : t[i] = t[j] => i = j
  BY <1>0, <1>3, <1>4, <1>5 DEF Chain
<1>8. \A i \in 1..n + 1 : next'[t[i]] = IF i = 1 THEN 0 ELSE t[i - 1]
  <2>1. next'[b] = free_list /\ \A i \in 1..n : next'[s[i]] = next[s[i]]
    BY <1>1, <1>4, <1>5, <1>6 DEF b
  <2> QED  BY <1>3, <1>4, <1>7, <2>1 DEF Chain
<1>9. free_list' = b /\ n' = n + 1
  BY <1>1 DEF b
<1>10. Chain(t)'
  <2>1. free_list' = t[n + 1] /\ n + 1 # 0
    BY <1>4, <1>7, <1>9
  <2>2. t \in [1..n' -> Pool!Blocks']
    BY <1>7, <1>9 DEF Pool!Blocks
  <2>3. \A i, j \in 1..n' : t[i] = t[j] => i = j
    BY <1>7, <1>9
  <2>4. \A i \in 1..n' : next'[t[i]] = IF i = 1 THEN 0 ELSE t[i - 1]
    BY <1>8, <1>9
  <2> QED  BY <1>9, <2>1, <2>2, <2>3, <2>4 DEF Chain
<1>11. \A c \in Pool!Blocks : OnList(t, c)' <=> OnList(s, c) \/ c = b
  BY <1>4, <1>7, <1>9 DEF OnList
<1>12. \A v \in Users, c \in Pool!Blocks : Has(v, c)' <=> Has(v, c) /\ ~(v = u /\ c = b)
  BY <1>1, <1>4 DEF Has, PoolInv, Pool!PoolTypeOK, b
<1>13. OnePlace(t)'
  BY <1>3, <1>4, <1>11, <1>12 DEF OnePlace
<1>14. Calls'
  <2>1. \A v \in Users : doing[v] # "pop"
    BY <1>1, <1>2 DEF Calls
  <2> QED  BY <1>1, <1>2, <2>1 DEF Calls, PoolInv, Pool!PoolTypeOK
<1>15. Pool!PoolTypeOK'
  <2>1. n + 1 <= BlockCount
    <3>1. \A m \in Nat : t \in [1..m -> Pool!Blocks]
                         /\ (\A i, j \in 1..m : t[i] = t[j] => i = j) => m <= BlockCount
      BY ChainIsShort
    <3>2. n + 1 \in Nat
      BY <1>4
    <3> QED  BY <1>7, <3>1, <3>2
  <2>2. free_blocks' \in 0..BlockCount /\ free_list' \in Pool!Blocks \cup {Pool!NULL}
    BY <1>4, <1>9, <2>1
  <2>3. next' \in [Pool!Blocks -> Pool!Blocks \cup {Pool!NULL}]
    BY <1>1, <1>4 DEF PoolInv, Pool!PoolTypeOK, b
  <2>4. node' \in [Users -> Pool!Blocks \cup {Pool!NULL}]
    BY <1>1 DEF PoolInv, Pool!PoolTypeOK, Pool!NULL
  <2> QED  BY <1>1, <2>2, <2>3, <2>4 DEF PoolInv, Pool!PoolTypeOK
<1> QED  BY <1>1, <1>2, <1>10, <1>13, <1>14, <1>15 DEF PoolInv

(* A set of numbers has a least one, which is induction for what follows.   *)
LEMMA Least ==
  ASSUME NEW T, T \subseteq Nat, T # {}
  PROVE  \E x \in T : \A y \in T : x <= y
<1> DEFINE Below == {p \in Nat \X Nat : p[1] < p[2]}
<1>1. IsWellFoundedOn(Below, Nat)
  BY NatLessThanWellFounded DEF OpToRel
<1> HIDE DEF Below
<1>2. \E x \in T : \A y \in T : ~(<<y, x>> \in Below)
  BY <1>1, WFMin, Zenon
<1>3. ASSUME NEW x \in Nat, NEW y \in Nat, <<y, x>> \notin Below
      PROVE  x <= y
  <2>1. <<y, x>> \in Nat \X Nat /\ <<y, x>>[1] = y /\ <<y, x>>[2] = x
    OBVIOUS
  <2>2. ~(y < x)
    BY <1>3, <2>1, Zenon DEF Below
  <2> QED  BY <2>2
<1> QED  BY <1>2, <1>3

(* Walking from free_list meets the chain from its end, then NULL.          *)
LEMMA WalkFollowsChain ==
  ASSUME BlockCount \in Nat, free_blocks \in 0..BlockCount, NEW s, Chain(s)
  PROVE  Pool!Walk = [k \in 0..BlockCount |-> IF k < free_blocks THEN s[free_blocks - k] ELSE 0]
<1> DEFINE n == free_blocks
           Way == [k \in 0..BlockCount |-> IF k < n THEN s[n - k] ELSE 0]
           Along(f) == [k \in 0..BlockCount |->
                          IF k = 0 THEN free_list
                          ELSE IF f[k - 1] = 0 THEN 0 ELSE next[f[k - 1]]]
<1>1. \A i \in 1..n : s[i] # 0
  BY DEF Chain, Pool!Blocks
<1>2. Way[0] = free_list
  BY DEF Chain
<1>3. ASSUME NEW k \in 1..BlockCount
      PROVE  Way[k] = IF Way[k - 1] = 0 THEN 0 ELSE next[Way[k - 1]]
  BY <1>1 DEF Chain
<1>4. Along(Way) = Way
  <2>1. \A k \in 0..BlockCount : Along(Way)[k] = Way[k]
    <3> HIDE DEF Way
    <3> QED  BY <1>2, <1>3
  <2>2. /\ Way = [k \in 0..BlockCount |-> Way[k]]
        /\ Along(Way) = [k \in 0..BlockCount |-> Along(Way)[k]]
    OBVIOUS
  <2> HIDE DEF Way, Along
  <2> QED  BY <2>1, <2>2
<1>5. Pool!Walk = Along(Pool!Walk)
  <2>1. Pool!Walk = CHOOSE f : f = Along(f)
    BY DEF Pool!Walk, Pool!NULL
  <2> HIDE DEF Along, Way
  <2> QED  BY <1>4, <2>1
<1> DEFINE Off == {k \in 0..BlockCount : Pool!Walk[k] # Way[k]}
<1>6. ASSUME Off # {}
      PROVE  FALSE
  <2>1. PICK k \in Off : \A j \in Off : k <= j
    <3>1. Off \subseteq Nat
      OBVIOUS
    <3> HIDE DEF Off
    <3> QED  BY <1>6, <3>1, Least
  <2>2. k # 0
    BY <1>2, <1>5, <2>1
  <2>3. k - 1 \in 0..BlockCount /\ k \in 1..BlockCount /\ k - 1 \notin Off
    BY <2>1, <2>2
  <2>4. Pool!Walk[k - 1] = Way[k - 1]
    BY <2>3
  <2>5. Pool!Walk[k] = IF Pool!Walk[k - 1] = 0 THEN 0 ELSE next[Pool!Walk[k - 1]]
    BY <1>5, <2>3
  <2> HIDE DEF Way
  <2> QED  BY <1>3, <2>1, <2>3, <2>4, <2>5
<1>7. \A k \in 0..BlockCount : Pool!Walk[k] = Way[k]
  BY <1>6
<1> QED  BY <1>5, <1>7

LEMMA CardinalityOfPool ==
  ASSUME NEW S
  PROVE  Pool!Cardinality(S) = Cardinality(S)
BY DEF Pool!Cardinality, Cardinality

(* The invariant means what the property says.                             *)
LEMMA InvMeansOnce ==
  ASSUME BlockCount \in Nat, PoolInv
  PROVE  EachBlockOnce
<1>1. SUFFICES ASSUME active, ~astray
               PROVE  /\ free_blocks = Pool!Cardinality(Pool!FreeBlocks)
                      /\ \A b \in Pool!Blocks :
                           Pool!Cardinality({u \in Users : b \in held[u] \cup Pool!Returning(u)})
                             = IF b \in Pool!FreeBlocks THEN 0 ELSE 1
  BY DEF EachBlockOnce, Pool!EachBlockOnce
<1>2. PICK s : Chain(s) /\ OnePlace(s)
  BY <1>1 DEF PoolInv
<1>3. free_blocks \in 0..BlockCount
  BY DEF PoolInv, Pool!PoolTypeOK
<1> DEFINE n == free_blocks
<1>4. Pool!FreeBlocks = {s[i] : i \in 1..n}
  <2>1. Pool!Walk = [k \in 0..BlockCount |-> IF k < n THEN s[n - k] ELSE 0]
    BY <1>2, <1>3, WalkFollowsChain
  <2>2. \A i \in 1..n : s[i] # 0 /\ n - i \in 0..BlockCount /\ Pool!Walk[n - i] = s[i]
    BY <1>2, <1>3, <2>1 DEF Chain, Pool!Blocks
  <2>3. \A k \in 0..BlockCount :
          Pool!Walk[k] = 0 \/ (n - k \in 1..n /\ Pool!Walk[k] = s[n - k])
    BY <1>3, <2>1
  <2> QED  BY <2>2, <2>3 DEF Pool!FreeBlocks, Pool!NULL
<1>5. Pool!Cardinality(Pool!FreeBlocks) = n
  <2>1. s \in Bijection(1..n, Pool!FreeBlocks)
    BY <1>2, <1>4 DEF Chain, Bijection, Injection, Surjection, IsInjective
  <2>2. IsFiniteSet(1..n) /\ Cardinality(1..n) = n
    <3>1. \A m \in Nat : IsFiniteSet(1..m) /\ Cardinality(1..m) = IF 1 > m THEN 0 ELSE m - 1 + 1
      BY FS_Interval
    <3> QED  BY <1>3, <3>1
  <2> QED  BY <2>1, <2>2, FS_Bijection, CardinalityOfPool DEF ExistsBijection
<1>6. ASSUME NEW b \in Pool!Blocks
      PROVE  Pool!Cardinality({u \in Users : b \in held[u] \cup Pool!Returning(u)})
               = IF b \in Pool!FreeBlocks THEN 0 ELSE 1
  <2> DEFINE Owners == {u \in Users : b \in held[u] \cup Pool!Returning(u)}
  <2>1. Owners = {u \in Users : Has(u, b)}
    BY DEF Pool!Returning, Has
  <2>2. b \in Pool!FreeBlocks <=> OnList(s, b)
    BY <1>4 DEF OnList
  <2>3. CASE OnList(s, b)
    <3>1. Owners = {}
      BY <1>2, <2>1, <2>3 DEF OnePlace
    <3> QED  BY <2>2, <2>3, <3>1, FS_EmptySet, CardinalityOfPool
  <2>4. CASE ~OnList(s, b)
    <3>1. PICK u \in Users : Has(u, b)
      BY <1>2, <2>4 DEF OnePlace
    <3>2. Owners = {u}
      BY <1>2, <2>1, <3>1 DEF OnePlace
    <3> QED  BY <2>2, <2>4, <3>2, FS_Singleton, CardinalityOfPool
  <2> QED  BY <2>3, <2>4
<1> QED  BY <1>5, <1>6

(* There is no pool at the start.                                           *)
LEMMA PoolStarts ==
  ASSUME BlockCount \in Nat
  PROVE  Init => PoolInv
<1>1. Init => {active, astray} \subseteq BOOLEAN
  BY Zenon DEF Init, Pool!PoolInit
<1> QED
  BY <1>1 DEF Init, Pool!PoolInit, PoolInv, AtRest, Pool!PoolTypeOK, Pool!Blocks, Pool!NULL

(* The invariant of the pool is kept.                                       *)
LEMMA PoolNextInv ==
  ASSUME BlockCount \in Nat, BlockCount # 0, Pool!Nobody \notin Users, PoolInv, [Next]_vars
  PROVE  PoolInv'
<1>1. CASE Pool!PoolNext
  BY <1>1, CreateKeepsInv, DestroyKeepsInv, BeginKeepsInv, PopKeepsInv, FreeKeepsInv,
     PushKeepsInv DEF Pool!PoolNext, Pool!Use
<1>2. CASE UNCHANGED poolVars
  BY <1>2 DEF poolVars, PoolInv, AtRest, Calls, Chain, OnePlace, OnList, Has,
     Pool!PoolTypeOK
<1> QED
  BY <1>1, <1>2 DEF Next, LifeStep, FusionStep, LampStep, OtaStep, SearchStep,
     PoolStep, vars

(* No block is lost or handed out twice, for any number of users and        *)
(* blocks, as long as the pool is not destroyed during a call.              *)
THEOREM BlocksAreOnce ==
  ASSUME BlockCount \in Nat, BlockCount # 0, Pool!Nobody \notin Users
  PROVE  Spec => []EachBlockOnce
<1>1. Init => PoolInv
  BY PoolStarts
<1>2. PoolInv /\ [Next]_vars => PoolInv'
  BY PoolNextInv
<1> QED  BY <1>1, <1>2, InvMeansOnce, PTL DEF Spec

-----------------------------------------------------------------------------
(* While the alarm stands and cools down no score is taken, and the time    *)
(* since the last one follows from how long.                                *)
NoScoreInAlarm ==
  /\ fire = "ALERT" => fireAge \in 0..6 /\ scoreAge = fireAge + 1
  /\ fire = "COOLDOWN" => fireAge \in 0..6 /\ scoreAge = fireAge + 8

FusionTypeInv == Fusion!FusionTypeOK /\ NoScoreInAlarm

(* What the fusion score remembers keeps its type.                         *)
LEMMA FusionStepKeepsTypes ==
  ASSUME FusionInv, FusionInv', FusionTypeInv, Fusion!FusionNext
  PROVE  FusionTypeInv'
<1> USE DEF Fusion!Never, Fusion!Unread, Fusion!Minute, Fusion!HalfMinute
<1>1. PICK answer \in Fusion!AiAnswers : Fusion!ScoreRound(answer) \/ Fusion!WaitRound(answer)
  BY DEF Fusion!FusionNext
<1>2. Fusion!AiCheck(answer)[2] \in 0..12
  BY DEF Fusion!AiCheck, Fusion!AiAnswers, Fusion!Either, Fusion!Older, Fusion!Capped,
     FusionTypeInv, Fusion!FusionTypeOK
<1>3. /\ hour' \in {"night", "work", "evening", "other"} /\ accum' \in Nat
      /\ signalAge' \in {-1} \cup 0..13 /\ ai' \in {"none", "low", "high"}
      /\ fire' \in {"SAFE", "MONITOR", "ALERT", "COOLDOWN"}
      /\ evidenceAge' \in {-1} \cup 0..13 /\ smokeRounds' \in 0..3
      /\ lightRounds' \in 0..12
  BY DEF FusionInv, FusionTypes
<1>4. /\ fireAge \in 0..13 /\ scoreAge \in 1..15 /\ lastTemp \in Temps \cup {25, -1}
      /\ lastLight \in {0, 1, -1} /\ fan_toggled_recently \in BOOLEAN
      /\ fire \in {"SAFE", "MONITOR", "ALERT", "COOLDOWN"}
  BY DEF FusionTypeInv, Fusion!FusionTypeOK
<1>5. ASSUME NEW to, Fusion!Enter(to)
      PROVE  /\ fire' = to
             /\ fireAge' = IF to = fire THEN (IF fireAge < 12 THEN fireAge + 1 ELSE 13) ELSE 0
  BY <1>4, <1>5 DEF Fusion!Enter, Fusion!Older, Fusion!Capped
<1>6. CASE Fusion!ScoreRound(answer)
  <2>1. PICK r \in Fusion!Readings :
          /\ lastTemp' = IF r.temp > 0 THEN r.temp ELSE lastTemp
          /\ lastLight' = r.light
          /\ fan_toggled_recently' = (fan_toggled_recently \/ r.relayRead)
          /\ Fusion!AfterScore(r, accum', Fusion!AiCheck(answer)[1])
    BY <1>6 DEF Fusion!ScoreRound
  <2>2. /\ fire \in {"SAFE", "MONITOR"} /\ scoreAge' = 1
        /\ aiAge' = Fusion!AiCheck(answer)[2]
    BY <1>6 DEF Fusion!ScoreRound
  <2>3. r.temp \in Temps \cup {25, -1} /\ r.light \in {0, 1}
    BY DEF Fusion!Readings, Fusion!Either
  <2>4. fan_toggled_recently' \in BOOLEAN
    BY <2>1, Zenon
  <2>5. \E to \in {"SAFE", "MONITOR", "ALERT"} : Fusion!Enter(to)
    BY <2>1, <2>2 DEF Fusion!AfterScore
  <2>6. fireAge' \in 0..13 /\ (fire' = "ALERT" => fireAge' = 0)
        /\ fire' \in {"SAFE", "MONITOR", "ALERT"}
    BY <1>4, <1>5, <2>2, <2>5
  <2>7. lastTemp' \in Temps \cup {25, -1} /\ lastLight' \in {0, 1, -1}
    BY <1>4, <2>1, <2>3
  <2>8. NoScoreInAlarm'
    <3>1. fire' # "COOLDOWN" /\ (fire' = "ALERT" => fireAge' = 0) /\ scoreAge' = 1
      BY <2>2, <2>6
    <3>2. 0 \in 0..6 /\ 1 = 0 + 1
      OBVIOUS
    <3> QED  BY ONLY <3>1, <3>2 DEF NoScoreInAlarm
  <2>9. scoreAge' \in 1..15
    BY <2>2
  <2> QED
    BY <1>2, <1>3, <2>2, <2>4, <2>6, <2>7, <2>8, <2>9 DEF FusionTypeInv, Fusion!FusionTypeOK
<1>7. CASE Fusion!WaitRound(answer)
  <2>1. /\ fire \in {"ALERT", "COOLDOWN"} /\ scoreAge' = scoreAge + 1
        /\ aiAge' = IF fire' = "SAFE" THEN 12 ELSE Fusion!AiCheck(answer)[2]
        /\ Fusion!Enter(IF fireAge + 1 <= 6 THEN fire
                        ELSE IF fire = "ALERT" THEN "COOLDOWN" ELSE "SAFE")
        /\ UNCHANGED <<lastTemp, lastLight, fan_toggled_recently>>
    BY <1>7 DEF Fusion!WaitRound
  <2>2. /\ fire' = IF fireAge + 1 <= 6 THEN fire
                   ELSE IF fire = "ALERT" THEN "COOLDOWN" ELSE "SAFE"
        /\ fireAge' = IF fireAge + 1 <= 6 THEN fireAge + 1 ELSE 0
    BY <1>4, <1>5, <2>1
  <2>3. NoScoreInAlarm' /\ fireAge' \in 0..13 /\ scoreAge' \in 1..15
    BY <1>4, <2>1, <2>2 DEF FusionTypeInv, NoScoreInAlarm
  <2>4. fan_toggled_recently' \in BOOLEAN
    BY <1>4, <2>1, Zenon
  <2> QED
    BY <1>2, <1>3, <1>4, <2>1, <2>3, <2>4 DEF FusionTypeInv, Fusion!FusionTypeOK
<1> QED  BY <1>1, <1>6, <1>7

(* The types of the score at the start.                                     *)
LEMMA FusionTypesStart ==
  ASSUME Init
  PROVE  FusionTypeInv
<1>1. hour \in {"night", "work", "evening", "other"}
  BY FusionStarts DEF FusionInv, FusionTypes
<1>2. fan_toggled_recently \in BOOLEAN
  BY Zenon DEF Init, Fusion!FusionInit
<1> QED
  BY <1>1, <1>2 DEF Init, Fusion!FusionInit, FusionTypeInv, Fusion!FusionTypeOK, NoScoreInAlarm,
     Fusion!Never, Fusion!Unread, Fusion!Minute, Fusion!HalfMinute

(* Every part keeps the types of its state.                                *)
THEOREM TypeCorrect ==
  ASSUME WatchdogTimeout \in Nat, WatchdogTimeout >= 2, Signals \in Nat, Temps \subseteq Int,
         MaxDevices \in Nat, DeviceTimeout \in Nat,
         BlockCount \in Nat, BlockCount # 0, Pool!Nobody \notin Users
  PROVE  Spec => []TypeOK
<1>1. Init => LifeInv /\ LampInv /\ OtaInv /\ SearchInv /\ PoolInv
  BY StartInv, LampStarts, OtaStarts, SearchStarts, PoolStarts DEF Init
<1>2. Init => FusionInv /\ FusionTypeInv
  BY FusionStarts, FusionTypesStart
<1>3. [Next]_vars /\ LifeInv => LifeInv'
  BY LifeNextInv
<1>4. [Next]_vars /\ LampInv => LampInv'
  BY LampNextInv
<1>5. [Next]_vars /\ OtaInv => OtaInv'
  BY OtaNextInv
<1>6. [Next]_vars /\ SearchInv => SearchInv'
  BY SearchNextInv
<1>7. [Next]_vars /\ PoolInv => PoolInv'
  BY PoolNextInv
<1>8. [Next]_vars /\ FusionInv => FusionInv'
  BY FusionNextInv
<1>9. [Next]_vars /\ FusionInv /\ FusionInv' /\ FusionTypeInv => FusionTypeInv'
  <2>1. CASE Fusion!FusionNext
    BY <2>1, FusionStepKeepsTypes
  <2>2. CASE UNCHANGED fusionVars
    BY <2>2 DEF fusionVars, FusionTypeInv, Fusion!FusionTypeOK, NoScoreInAlarm
  <2> QED
    BY <2>1, <2>2 DEF Next, LifeStep, FusionStep, LampStep, OtaStep, SearchStep, PoolStep, vars
<1>10. LifeInv /\ FusionTypeInv /\ LampInv /\ OtaInv /\ SearchInv /\ PoolInv => TypeOK
  BY DEF TypeOK, LifeInv, FusionTypeInv, LampInv, OtaInv, SearchInv, PoolInv
<1> QED
  BY <1>1, <1>2, <1>3, <1>4, <1>5, <1>6, <1>7, <1>8, <1>9, <1>10, PTL DEF Spec
=============================================================================
