----------------------------- MODULE ServerProofs -----------------------------
(***************************************************************************)
(* Proofs about the parts of rpc_server.                                    *)
(*                                                                          *)
(* First its end: whatever threads the signals hit and however the others   *)
(* go on, the relays end switched off and the watchdog never ends the       *)
(* process.  The argument rests on four facts.  A mutex is held by exactly  *)
(* the thread that is between its lock and its unlock, so it tells where    *)
(* that thread stands.  The flags and the pins follow from how far the      *)
(* cleanups are.  Time passes for at most one tick without a feed, unless a *)
(* cleanup keeps the watchdog's mutex, and then the monitor never looks, or *)
(* the heap, and then the cleanup that the monitor begins never ends.  A    *)
(* relay that was switched off stays off unless a request comes late, and   *)
(* cannot change after its pin is given back.                               *)
(***************************************************************************)
EXTENDS MCServerParts, Integers, Sequences, FiniteSets, FiniteSetTheorems, TLAPS

Doings == {"idle", "request", "serve", "hung", "feed", "feeding", "sleep", "awake", "second",
           "check", "caught", "gone"}
Stages == {"none", "http", "handlers", "join", "joining", "watchdog", "relay1", "relay2",
           "unexport1", "unexport2", "exit", "fire"}
Threads == {"loop", "http", "feeder", "monitor"}

(* Where each thread can be.                                               *)
Places ==
  /\ doing["loop"] \in {"idle", "request", "serve", "hung", "caught"}
  /\ doing["http"] \in {"idle", "request", "serve", "hung", "caught", "gone"}
  /\ doing["feeder"] \in {"feed", "feeding", "sleep", "awake", "caught", "gone"}
  /\ doing["monitor"] \in {"second", "awake", "check", "caught", "gone"}
  /\ \A t \in Threads : doing[t] = "caught" => stage[t] # "none"

(* A mutex is held by the thread that is inside its section.               *)
HeldInside ==
  /\ lockedBy["watchdog"] \notin {"loop", "http"}
  /\ lockedBy["watchdog"] = "feeder" <=> doing["feeder"] = "feeding"
  /\ lockedBy["watchdog"] = "monitor" <=> doing["monitor"] = "check"
  /\ lockedBy["heap"] \notin {"feeder", "monitor"}
  /\ \A t \in {"loop", "http"} : lockedBy["heap"] = t <=> doing[t] = "request"

(* How far the cleanups are, and what they have done by then.               *)
Begun ==
  /\ ~freed => feedRunning /\ \A t \in Threads : stage[t] \in {"none", "http", "handlers", "fire"}
  /\ freed => \E t \in Threads : stage[t] # "none"
  /\ doing["feeder"] = "gone" => ~feedRunning

Stopped ==
  /\ \A t \in Threads :
       stage[t] \in {"relay1", "relay2", "unexport1", "unexport2", "exit"} => ~watchdogRunning
  /\ leaving => ~watchdogRunning \/ fired

(* What was switched off is off, but for a late request.                   *)
SwitchedOff ==
  /\ \A t \in Threads :
       /\ stage[t] \in {"relay2", "unexport1", "unexport2", "exit"} => 1 \in off
       /\ stage[t] \in {"unexport1", "unexport2", "exit"} => 2 \in off
  /\ \A r \in {1, 2} : /\ ~exported[r] => r \in off
                       /\ r \in off /\ level[r] = 1 => r \in late
  /\ server = "exited" => 1 \in off /\ 2 \in off

(* A cleanup keeps the heap for ever.                                      *)
HeapGone == ~freed /\ \E t \in Threads : stage[t] # "none" /\ lockedBy["heap"] = t

MutexGone == \E t \in Threads : stage[t] # "none" /\ lockedBy["watchdog"] = t

(* The watchdog fires only then, and its exit ends nothing.                *)
FiredInVain ==
  /\ \A t \in Threads : stage[t] = "fire" => t = "monitor" /\ fired /\ ~leaving
  /\ fired => HeapGone /\ stage["monitor"] # "none" /\ server = "up"

(* The feeding thread feeds before a second tick passes.                   *)
FedInTime ==
  \/ MutexGone
  \/ HeapGone /\ stage["feeder"] # "none"
  \/ /\ unfed \in {0, 1}
     /\ doing["feeder"] = "sleep" /\ stage["feeder"] = "none" => unfed = 0

ServerInv ==
  /\ Server!ServerTypeOK
  /\ Places /\ HeldInside /\ Begun /\ Stopped /\ SwitchedOff /\ FiredInVain /\ FedInTime

ServerLimits == ServerTimeout \in Nat /\ ServerTimeout >= 2 /\ MaxSignals \in Nat
                /\ Served \subseteq {"loop", "http"}

LEMMA ServerTypes ==
  Server!ServerTypeOK <=>
    /\ doing \in [Threads -> Doings]
    /\ lockedBy \in [{"watchdog", "heap"} -> Threads \cup {"nobody"}]
    /\ stage \in [Threads -> Stages]
    /\ leaving \in BOOLEAN /\ freed \in BOOLEAN /\ httpRunning \in BOOLEAN
    /\ feedRunning \in BOOLEAN /\ watchdogRunning \in BOOLEAN /\ fired \in BOOLEAN
    /\ level \in [{1, 2} -> {0, 1}] /\ exported \in [{1, 2} -> BOOLEAN]
    /\ off \subseteq {1, 2} /\ late \subseteq {1, 2}
    /\ unfed \in 0..ServerTimeout /\ signals \in 0..MaxSignals
    /\ server \in {"up", "exited", "aborted"}
BY DEF Server!ServerTypeOK, Threads, Doings, Stages, Server!ServerThreads, Server!NoThread,
       Server!Relays

-----------------------------------------------------------------------------
(* The beginning has everything on its place.                              *)
LEMMA StartInv ==
  ASSUME ServerLimits, Server!ServerInit
  PROVE  ServerInv
<1> USE DEF Server!ServerInit, Server!ServerThreads, Server!NoThread, Server!Relays, Threads,
            ServerLimits
<1>1. /\ doing["loop"] = "idle" /\ doing["http"] = "idle"
      /\ doing["feeder"] = "feed" /\ doing["monitor"] = "second"
  OBVIOUS
<1>2. doing \in [Threads -> Doings]
  <2>1. \A t \in Threads :
          (CASE t = "feeder" -> "feed" [] t = "monitor" -> "second" [] OTHER -> "idle")
            \in {"feed", "second", "idle"}
    OBVIOUS
  <2> QED  BY <2>1 DEF Doings
<1>3. \A t \in Threads : stage[t] = "none"
  OBVIOUS
<1>4. /\ lockedBy \in [{"watchdog", "heap"} -> Threads \cup {"nobody"}]
      /\ stage \in [Threads -> Stages]
      /\ level \in [{1, 2} -> {0, 1}] /\ exported \in [{1, 2} -> BOOLEAN]
      /\ unfed \in 0..ServerTimeout /\ signals \in 0..MaxSignals
  BY DEF Stages
<1>5. Server!ServerTypeOK
  <2>1. /\ leaving = FALSE /\ freed = FALSE /\ httpRunning = TRUE /\ feedRunning = TRUE
        /\ watchdogRunning = TRUE /\ fired = FALSE /\ off = {} /\ late = {} /\ server = "up"
    OBVIOUS
  <2> QED  BY <1>2, <1>4, <2>1, ServerTypes
<1>6. Places /\ HeldInside /\ Begun
  BY <1>1, <1>3 DEF Places, HeldInside, Begun
<1>7. Stopped /\ SwitchedOff /\ FiredInVain /\ FedInTime
  BY <1>3 DEF Stopped, SwitchedOff, FiredInVain, FedInTime
<1> QED  BY <1>5, <1>6, <1>7 DEF ServerInv

(* A request is taken in: its thread enters the heap.                       *)
LEMMA AcceptInv ==
  ASSUME ServerInv, NEW t \in {"loop", "http"}, Server!Accept(t)
  PROVE  ServerInv'
<1> USE DEF Threads
<1>1. /\ stage[t] = "none" /\ doing[t] = "idle" /\ lockedBy["heap"] = "nobody"
      /\ doing' = [doing EXCEPT ![t] = "request"] /\ lockedBy' = [lockedBy EXCEPT !["heap"] = t]
      /\ UNCHANGED <<stage, leaving, freed, httpRunning, feedRunning, watchdogRunning, signals,
                     level, exported, off, late, unfed, fired, server>>
  BY DEF Server!Accept, Server!Steps, Server!Locks, Server!Cleans, Server!cleaning, Server!pins,
         Server!flags, Server!NoThread
<1>2. Server!ServerTypeOK'
  <2>1. doing' \in [Threads -> Doings]
    BY <1>1, ServerTypes DEF ServerInv, Doings
  <2>2. lockedBy' \in [{"watchdog", "heap"} -> Threads \cup {"nobody"}]
    BY <1>1, ServerTypes DEF ServerInv
  <2> QED  BY <1>1, <2>1, <2>2 DEF ServerInv, Server!ServerTypeOK, Doings, Server!ServerThreads,
              Server!NoThread
<1>3. Places' /\ HeldInside'
  BY <1>1, ServerTypes DEF ServerInv, Places, HeldInside
<1>4. Begun' /\ Stopped' /\ SwitchedOff'
  BY <1>1, ServerTypes DEF ServerInv, Begun, Stopped, SwitchedOff
<1>5. (HeapGone => HeapGone') /\ (MutexGone => MutexGone') /\ doing'["feeder"] = doing["feeder"]
  BY <1>1, ServerTypes DEF ServerInv, HeapGone, MutexGone
<1>6. FiredInVain' /\ FedInTime'
  BY <1>1, <1>5 DEF ServerInv, FiredInVain, FedInTime
<1> QED  BY <1>2, <1>3, <1>4, <1>6 DEF ServerInv

(* A request is served, hangs, or sets a relay.                            *)
LEMMA ServeInv ==
  ASSUME ServerInv, NEW t \in {"loop", "http"}, Server!Serve(t)
  PROVE  ServerInv'
<1> USE DEF Threads
<1>1. /\ server = "up" /\ stage[t] = "none"
      /\ UNCHANGED <<stage, leaving, freed, httpRunning, feedRunning, watchdogRunning, signals,
                     exported, off, unfed, fired, server>>
  BY DEF Server!Serve, Server!Steps, Server!Cleans, Server!cleaning, Server!flags, Server!pins
<1>2. PICK next \in {"serve", "hung", "idle", "gone"} :
        /\ doing[t] \in {"request", "serve"}
        /\ doing' = [doing EXCEPT ![t] = next]
        /\ next = "gone" => t = "http"
        /\ lockedBy' = IF doing[t] = "request" THEN [lockedBy EXCEPT !["heap"] = "nobody"]
                                               ELSE lockedBy
  BY DEF Server!Serve, Server!Steps, Server!Unlocks, Server!NoThread
<1>3. \/ level' = level /\ late' = late
      \/ \E r \in {1, 2}, on \in {0, 1} :
           /\ level' = [level EXCEPT ![r] = IF exported[r] THEN on ELSE level[r]]
           /\ late' = IF on = 1 /\ exported[r] /\ r \in off THEN late \cup {r} ELSE late
  BY DEF Server!Serve, Server!pins, Server!Relays
<1>4. Server!ServerTypeOK'
  <2>1. doing' \in [Threads -> Doings]
    BY <1>2, ServerTypes DEF ServerInv, Doings
  <2>2. lockedBy' \in [{"watchdog", "heap"} -> Threads \cup {"nobody"}]
    BY <1>2, ServerTypes DEF ServerInv
  <2>3. late' \subseteq {1, 2}
    BY <1>3, ServerTypes DEF ServerInv
  <2>4. level' \in [{1, 2} -> {0, 1}]
    <3>1. level \in [{1, 2} -> {0, 1}]
      BY ServerTypes DEF ServerInv
    <3>2. level' = level \/ \E r \in {1, 2}, v \in {0, 1} \cup {level[1], level[2]} :
                              level' = [level EXCEPT ![r] = v]
      BY <1>3
    <3> QED  BY <3>1, <3>2
  <2> QED  BY <1>1, <2>1, <2>2, <2>3, <2>4 DEF ServerInv, Server!ServerTypeOK, Doings,
              Server!ServerThreads, Server!NoThread, Server!Relays
<1>5. Places' /\ HeldInside'
  BY <1>1, <1>2, ServerTypes DEF ServerInv, Places, HeldInside
<1>6. Begun' /\ Stopped'
  BY <1>1, <1>2, ServerTypes DEF ServerInv, Begun, Stopped
<1>7. SwitchedOff'
  <2>1. ASSUME NEW r \in {1, 2}, r \in off, level'[r] = 1
        PROVE  r \in late'
    <3>1. late \subseteq late'
      BY <1>3
    <3>2. level[r] = 1 => r \in late
      BY <2>1 DEF ServerInv, SwitchedOff
    <3>3. level'[r] # level[r] => r \in late'
      BY <1>3, <2>1, ServerTypes DEF ServerInv
    <3> QED  BY <2>1, <3>1, <3>2, <3>3
  <2> QED  BY <1>1, <2>1 DEF ServerInv, SwitchedOff
<1>8. (HeapGone => HeapGone') /\ (MutexGone => MutexGone') /\ doing'["feeder"] = doing["feeder"]
  BY <1>1, <1>2, ServerTypes DEF ServerInv, HeapGone, MutexGone, HeldInside
<1>9. FiredInVain' /\ FedInTime'
  BY <1>1, <1>8 DEF ServerInv, FiredInVain, FedInTime
<1> QED  BY <1>4, <1>5, <1>6, <1>7, <1>9 DEF ServerInv

(* The feeding thread.                                                      *)
LEMMA FeedInv ==
  ASSUME ServerLimits, ServerInv, Server!FeedThread
  PROVE  ServerInv'
<1> USE DEF Threads
<1>1. /\ server = "up" /\ stage["feeder"] = "none"
      /\ UNCHANGED <<stage, leaving, freed, httpRunning, feedRunning, watchdogRunning, signals,
                     level, exported, off, late, fired, server>>
  BY DEF Server!FeedThread, Server!Steps, Server!Cleans, Server!cleaning, Server!flags, Server!pins
<1>2. \/ /\ doing["feeder"] = "feed" /\ doing' = [doing EXCEPT !["feeder"] = "feeding"]
         /\ lockedBy["watchdog"] = "nobody" /\ lockedBy' = [lockedBy EXCEPT !["watchdog"] = "feeder"]
         /\ unfed' = unfed
      \/ /\ doing["feeder"] = "feeding" /\ doing' = [doing EXCEPT !["feeder"] = "sleep"]
         /\ lockedBy' = [lockedBy EXCEPT !["watchdog"] = "nobody"] /\ unfed' = 0
      \/ /\ doing["feeder"] = "awake" /\ lockedBy' = lockedBy /\ unfed' = unfed
         /\ \/ feedRunning /\ doing' = [doing EXCEPT !["feeder"] = "feed"]
            \/ ~feedRunning /\ doing' = [doing EXCEPT !["feeder"] = "gone"]
  BY DEF Server!FeedThread, Server!Steps, Server!Locks, Server!Unlocks, Server!NoThread
<1>3. Server!ServerTypeOK'
  <2>1. doing' \in [Threads -> Doings]
    BY <1>2, ServerTypes DEF ServerInv, Doings
  <2>2. lockedBy' \in [{"watchdog", "heap"} -> Threads \cup {"nobody"}]
    BY <1>2, ServerTypes DEF ServerInv
  <2>3. unfed' \in 0..ServerTimeout
    <3>1. unfed' \in {unfed, 0} /\ unfed \in 0..ServerTimeout
      BY <1>2, ServerTypes DEF ServerInv
    <3> QED  BY <3>1 DEF ServerLimits
  <2> QED  BY <1>1, <2>1, <2>2, <2>3 DEF ServerInv, Server!ServerTypeOK, Doings,
              Server!ServerThreads, Server!NoThread
<1>4. Places' /\ HeldInside'
  BY <1>1, <1>2, ServerTypes DEF ServerInv, Places, HeldInside
<1>5. Begun' /\ Stopped' /\ SwitchedOff'
  BY <1>1, <1>2, ServerTypes DEF ServerInv, Begun, Stopped, SwitchedOff
<1>6. (HeapGone => HeapGone') /\ (MutexGone => MutexGone')
  BY <1>1, <1>2, ServerTypes DEF ServerInv, HeapGone, MutexGone, HeldInside
<1>7. FiredInVain' /\ FedInTime'
  <2>1. FiredInVain'
    BY <1>1, <1>6 DEF ServerInv, FiredInVain
  <2>2. unfed \in {0, 1} => unfed' \in {0, 1} /\ (doing'["feeder"] = "sleep" => unfed' = 0)
    BY <1>2, ServerTypes DEF ServerInv
  <2> QED  BY <1>1, <1>6, <2>1, <2>2 DEF ServerInv, FedInTime
<1> QED  BY <1>3, <1>4, <1>5, <1>7 DEF ServerInv

(* The monitor locks the mutex, or looks.                                   *)
LEMMA MonitorInv ==
  ASSUME ServerLimits, ServerInv, Server!ServerMonitor
  PROVE  ServerInv'
<1> USE DEF Threads
<1>1. /\ server = "up" /\ stage["monitor"] = "none"
      /\ UNCHANGED <<leaving, freed, httpRunning, feedRunning, watchdogRunning, signals,
                     level, exported, off, late, unfed, server>>
  BY DEF Server!ServerMonitor, Server!MonitorLooks, Server!Steps, Server!Cleans, Server!cleaning,
         Server!flags, Server!pins
<1>2. ~fired
  BY <1>1 DEF ServerInv, FiredInVain
<1>3. \/ /\ doing["monitor"] = "awake" /\ doing' = [doing EXCEPT !["monitor"] = "check"]
         /\ lockedBy["watchdog"] = "nobody" /\ lockedBy' = [lockedBy EXCEPT !["watchdog"] = "monitor"]
         /\ stage' = stage /\ fired' = fired
      \/ /\ doing["monitor"] = "check" /\ lockedBy' = [lockedBy EXCEPT !["watchdog"] = "nobody"]
         /\ \E next \in {"second", "gone"} : doing' = [doing EXCEPT !["monitor"] = next]
         /\ \/ stage' = stage /\ fired' = fired
            \/ /\ watchdogRunning /\ unfed >= ServerTimeout
               /\ stage' = [stage EXCEPT !["monitor"] = "fire"] /\ fired' = TRUE
  <2>1. CASE Server!MonitorLooks
    <3>1. /\ doing["monitor"] = "check" /\ lockedBy' = [lockedBy EXCEPT !["watchdog"] = "nobody"]
          /\ doing' = [doing EXCEPT !["monitor"] = IF watchdogRunning THEN "second" ELSE "gone"]
          /\ fired' = (fired \/ (watchdogRunning /\ unfed >= ServerTimeout))
          /\ stage' = IF fired' THEN [stage EXCEPT !["monitor"] = "fire"] ELSE stage
      BY <2>1 DEF Server!MonitorLooks, Server!Steps, Server!Unlocks, Server!NoThread
    <3>2. \E next \in {"second", "gone"} : doing' = [doing EXCEPT !["monitor"] = next]
      BY <3>1
    <3>3. \/ stage' = stage /\ fired' = fired
          \/ /\ watchdogRunning /\ unfed >= ServerTimeout
             /\ stage' = [stage EXCEPT !["monitor"] = "fire"] /\ fired' = TRUE
      <4>1. fired = FALSE
        BY <1>2, ServerTypes DEF ServerInv
      <4>2. CASE watchdogRunning /\ unfed >= ServerTimeout
        BY <3>1, <4>2
      <4>3. CASE ~(watchdogRunning /\ unfed >= ServerTimeout)
        <5>1. fired' = FALSE
          BY <3>1, <4>1, <4>3
        <5> QED  BY <3>1, <4>1, <5>1
      <4> QED  BY <4>2, <4>3
    <3> QED  BY <3>1, <3>2, <3>3
  <2>2. CASE ~Server!MonitorLooks
    BY <2>2 DEF Server!ServerMonitor, Server!Steps, Server!Locks, Server!NoThread, Server!cleaning
  <2> QED  BY <2>1, <2>2
<1>4. fired' # fired => HeapGone /\ watchdogRunning /\ stage' = [stage EXCEPT !["monitor"] = "fire"]
  <2>1. SUFFICES ASSUME fired' # fired
                 PROVE  HeapGone /\ watchdogRunning /\ stage' = [stage EXCEPT !["monitor"] = "fire"]
    OBVIOUS
  <2>2. doing["monitor"] = "check" /\ watchdogRunning /\ unfed >= ServerTimeout
        /\ stage' = [stage EXCEPT !["monitor"] = "fire"]
    BY <1>3, <2>1
  <2>3. unfed \notin {0, 1}
    BY <2>2 DEF ServerLimits
  <2>4. ~MutexGone
    BY <1>1, <2>2 DEF ServerInv, HeldInside, MutexGone
  <2> QED  BY <2>2, <2>3, <2>4 DEF ServerInv, FedInTime
<1>5. Server!ServerTypeOK'
  <2>1. doing' \in [Threads -> Doings]
    BY <1>3, ServerTypes DEF ServerInv, Doings
  <2>2. lockedBy' \in [{"watchdog", "heap"} -> Threads \cup {"nobody"}]
    BY <1>3, ServerTypes DEF ServerInv
  <2>3. stage' \in [Threads -> Stages] /\ fired' \in BOOLEAN
    <3>1. stage \in [Threads -> Stages] /\ "fire" \in Stages /\ fired \in BOOLEAN
      BY ServerTypes DEF ServerInv, Stages
    <3> QED  BY <1>3, <3>1
  <2> QED  BY <1>1, <2>1, <2>2, <2>3 DEF ServerInv, Server!ServerTypeOK, Doings, Stages,
              Server!ServerThreads, Server!NoThread
<1>6. /\ \A t \in Threads \ {"monitor"} : stage'[t] = stage[t]
      /\ stage'["monitor"] \in {"none", "fire"} /\ doing'["feeder"] = doing["feeder"]
      /\ stage'["monitor"] = "fire" <=> fired'
  BY <1>1, <1>2, <1>3, ServerTypes DEF ServerInv
<1>7. Places' /\ HeldInside'
  BY <1>1, <1>3, <1>6, ServerTypes DEF ServerInv, Places, HeldInside
<1>8. Begun' /\ Stopped' /\ SwitchedOff'
  <2>1. Begun'
    BY <1>1, <1>6 DEF ServerInv, Begun
  <2>2. Stopped' /\ SwitchedOff'
    BY <1>1, <1>2, <1>6 DEF ServerInv, Stopped, SwitchedOff
  <2> QED  BY <2>1, <2>2
<1>9. (HeapGone => HeapGone') /\ (MutexGone => MutexGone')
  BY <1>1, <1>3, <1>6, ServerTypes DEF ServerInv, HeapGone, MutexGone, HeldInside
<1>10. FiredInVain'
  BY <1>1, <1>2, <1>4, <1>6, <1>9 DEF ServerInv, FiredInVain, Stopped
<1>11. FedInTime'
  BY <1>1, <1>6, <1>9 DEF ServerInv, FedInTime
<1> QED  BY <1>5, <1>7, <1>8, <1>10, <1>11 DEF ServerInv

(* A signal begins a cleanup.                                               *)
LEMMA SignalInv ==
  ASSUME ServerLimits, ServerInv, NEW t \in Threads, Server!ServerSignal(t)
  PROVE  ServerInv'
<1> USE DEF Threads
<1>1. /\ server = "up" /\ doing[t] # "gone"
      /\ signals < MaxSignals /\ signals' = signals + 1
      /\ stage' = [stage EXCEPT ![t] = "http"]
      /\ \/ doing' = doing
         \/ /\ doing[t] \notin {"request", "feeding", "check"}
            /\ doing' = [doing EXCEPT ![t] = "caught"]
      /\ UNCHANGED <<lockedBy, leaving, freed, httpRunning, feedRunning, watchdogRunning,
                     level, exported, off, late, unfed, fired, server>>
  <2>1. /\ doing' = [doing EXCEPT ![t] = IF doing[t] \in {"request", "feeding", "check"}
                                         THEN doing[t] ELSE "caught"]
        /\ doing \in [Threads -> Doings]
    BY ServerTypes DEF Server!ServerSignal, Server!Inside, ServerInv
  <2>2. doing' = doing \/ (doing[t] \notin {"request", "feeding", "check"}
                           /\ doing' = [doing EXCEPT ![t] = "caught"])
    BY <2>1
  <2> QED  BY <2>2 DEF Server!ServerSignal, Server!flags, Server!pins
<1>2. Server!ServerTypeOK'
  <2>1. doing' \in [Threads -> Doings]
    BY <1>1, ServerTypes DEF ServerInv, Doings
  <2>2. signals' \in 0..MaxSignals
    BY <1>1, ServerTypes DEF ServerInv, ServerLimits
  <2>3. stage' \in [Threads -> Stages]
    <3>1. stage \in [Threads -> Stages] /\ "http" \in Stages
      BY ServerTypes DEF ServerInv, Stages
    <3> QED  BY <1>1, <3>1
  <2> QED  BY <1>1, <2>1, <2>2, <2>3 DEF ServerInv, Server!ServerTypeOK, Doings, Stages,
              Server!ServerThreads
<1>3. /\ \A u \in Threads \ {t} : stage'[u] = stage[u] /\ doing'[u] = doing[u]
      /\ stage'[t] = "http" /\ doing'[t] \in {doing[t], "caught"}
      /\ doing[t] \in {"request", "feeding", "check"} => doing'[t] = doing[t]
  BY <1>1, ServerTypes DEF ServerInv
<1>4. Places'
  BY <1>1, <1>3, ServerTypes DEF ServerInv, Places
<1>5. HeldInside'
  BY <1>1, <1>3 DEF ServerInv, HeldInside
<1>6. Begun' /\ Stopped' /\ SwitchedOff'
  BY <1>1, <1>3 DEF ServerInv, Begun, Stopped, SwitchedOff
<1>7. (HeapGone => HeapGone') /\ (MutexGone => MutexGone')
  BY <1>1, <1>3 DEF HeapGone, MutexGone
<1>8. FiredInVain' /\ FedInTime'
  BY <1>1, <1>3, <1>7 DEF ServerInv, FiredInVain, FedInTime
<1> QED  BY <1>2, <1>4, <1>5, <1>6, <1>8 DEF ServerInv

-----------------------------------------------------------------------------
(* The steps of a cleanup leave alone whatever depends on the mutexes and   *)
(* the threads only.                                                        *)
LEMMA CleanupKeeps ==
  ASSUME ServerInv, NEW t \in Threads, NEW from \in Stages \ {"none"},
         NEW next \in Stages \ {"none", "fire"}, Server!At(t, from, next)
  PROVE  /\ server = "up" /\ stage[t] = from
         /\ UNCHANGED <<doing, lockedBy, unfed, fired, signals>>
         /\ stage' \in [Threads -> Stages] /\ stage'[t] = next
         /\ \A u \in Threads \ {t} : stage'[u] = stage[u]
         /\ Places' /\ HeldInside' /\ (MutexGone => MutexGone')
         /\ freed' = freed => (HeapGone => HeapGone')
         /\ \A u \in Threads : stage'[u] # "none" <=> stage[u] # "none"
<1> USE DEF Threads
<1>1. /\ server = "up" /\ stage[t] = from /\ UNCHANGED <<doing, lockedBy, unfed, fired, signals>>
      /\ stage' = [stage EXCEPT ![t] = next]
  BY DEF Server!At
<1>2. /\ stage' \in [Threads -> Stages] /\ stage'[t] = next
      /\ \A u \in Threads \ {t} : stage'[u] = stage[u]
  BY <1>1, ServerTypes DEF ServerInv
<1>3. \A u \in Threads : stage'[u] # "none" <=> stage[u] # "none"
  BY <1>1, <1>2
<1>4. Places' /\ HeldInside'
  BY <1>1, <1>3 DEF ServerInv, Places, HeldInside
<1>5. (MutexGone => MutexGone') /\ (freed' = freed => (HeapGone => HeapGone'))
  BY <1>1, <1>3 DEF MutexGone, HeapGone
<1> QED  BY <1>1, <1>2, <1>3, <1>4, <1>5

(* The socket is closed.                                                   *)
LEMMA StopHttpInv ==
  ASSUME ServerInv, NEW t \in Threads, Server!StopHttp(t)
  PROVE  ServerInv'
<1>1. /\ Server!At(t, "http", "handlers") /\ httpRunning' = FALSE
      /\ UNCHANGED <<leaving, freed, feedRunning, watchdogRunning, level, exported, off, late,
                     server>>
  BY DEF Server!StopHttp, Server!pins
<1>2. "http" \in Stages \ {"none"} /\ "handlers" \in Stages \ {"none", "fire"}
  BY DEF Stages
<1>3. /\ server = "up" /\ stage[t] = "http"
      /\ UNCHANGED <<doing, lockedBy, unfed, fired, signals>>
      /\ stage' \in [Threads -> Stages] /\ stage'[t] = "handlers"
      /\ \A u \in Threads \ {t} : stage'[u] = stage[u]
      /\ Places' /\ HeldInside' /\ (MutexGone => MutexGone') /\ (HeapGone => HeapGone')
      /\ \A u \in Threads : stage'[u] # "none" <=> stage[u] # "none"
  BY <1>1, <1>2, CleanupKeeps
<1>4. Server!ServerTypeOK'
  BY <1>1, <1>3 DEF ServerInv, Server!ServerTypeOK, Threads, Stages, Server!ServerThreads
<1>5. Begun' /\ Stopped' /\ SwitchedOff' /\ FiredInVain' /\ FedInTime'
  BY <1>1, <1>3 DEF ServerInv, Begun, Stopped, SwitchedOff, FiredInVain, FedInTime, Threads
<1> QED  BY <1>3, <1>4, <1>5 DEF ServerInv

(* The handlers are freed.                                                  *)
LEMMA FreeHandlersInv ==
  ASSUME ServerInv, NEW t \in Threads, Server!FreeHandlers(t)
  PROVE  ServerInv'
<1>1. /\ Server!At(t, "handlers", "join") /\ freed' = TRUE /\ server' \in {"up", "aborted"}
      /\ freed \/ lockedBy["heap"] = "nobody"
      /\ UNCHANGED <<leaving, httpRunning, feedRunning, watchdogRunning, level, exported, off, late>>
  BY DEF Server!FreeHandlers, Server!pins, Server!NoThread
<1>2. "handlers" \in Stages \ {"none"} /\ "join" \in Stages \ {"none", "fire"}
  BY DEF Stages
<1>3. /\ server = "up" /\ stage[t] = "handlers"
      /\ UNCHANGED <<doing, lockedBy, unfed, fired, signals>>
      /\ stage' \in [Threads -> Stages] /\ stage'[t] = "join"
      /\ \A u \in Threads \ {t} : stage'[u] = stage[u]
      /\ Places' /\ HeldInside' /\ (MutexGone => MutexGone')
      /\ \A u \in Threads : stage'[u] # "none" <=> stage[u] # "none"
  BY <1>1, <1>2, CleanupKeeps
<1>4. ~HeapGone
  BY <1>1 DEF HeapGone, Threads
<1>5. Server!ServerTypeOK'
  BY <1>1, <1>3 DEF ServerInv, Server!ServerTypeOK, Threads, Stages, Server!ServerThreads
<1>6. Begun' /\ Stopped' /\ SwitchedOff' /\ FiredInVain' /\ FedInTime'
  BY <1>1, <1>3, <1>4 DEF ServerInv, Begun, Stopped, SwitchedOff, FiredInVain, FedInTime, Threads
<1> QED  BY <1>3, <1>5, <1>6 DEF ServerInv

(* The feeding thread is asked to end.                                      *)
LEMMA AskFeederInv ==
  ASSUME ServerInv, NEW t \in Threads, Server!AskFeeder(t)
  PROVE  ServerInv'
<1> DEFINE next == IF feedRunning THEN "joining" ELSE "watchdog"
<1>1. /\ Server!At(t, "join", next) /\ feedRunning' = FALSE
      /\ UNCHANGED <<leaving, freed, httpRunning, watchdogRunning, level, exported, off, late,
                     server>>
  BY DEF Server!AskFeeder, Server!pins
<1>2. "join" \in Stages \ {"none"} /\ next \in Stages \ {"none", "fire"}
      /\ next \in {"joining", "watchdog"}
  BY DEF Stages
<1> HIDE DEF next
<1>3. /\ server = "up" /\ stage[t] = "join"
      /\ UNCHANGED <<doing, lockedBy, unfed, fired, signals>>
      /\ stage' \in [Threads -> Stages] /\ stage'[t] = next
      /\ \A u \in Threads \ {t} : stage'[u] = stage[u]
      /\ Places' /\ HeldInside' /\ (MutexGone => MutexGone') /\ (HeapGone => HeapGone')
      /\ \A u \in Threads : stage'[u] # "none" <=> stage[u] # "none"
  BY <1>1, <1>2, CleanupKeeps
<1>4. Server!ServerTypeOK'
  BY <1>1, <1>3 DEF ServerInv, Server!ServerTypeOK, Threads, Stages, Server!ServerThreads
<1>5. Begun' /\ Stopped' /\ SwitchedOff' /\ FiredInVain' /\ FedInTime'
  BY <1>1, <1>2, <1>3 DEF ServerInv, Begun, Stopped, SwitchedOff, FiredInVain, FedInTime, Threads
<1> QED  BY <1>3, <1>4, <1>5 DEF ServerInv

(* The feeding thread is joined.                                            *)
LEMMA JoinFeederInv ==
  ASSUME ServerInv, NEW t \in Threads, Server!JoinFeeder(t)
  PROVE  ServerInv'
<1>1. /\ Server!At(t, "joining", "watchdog")
      /\ UNCHANGED <<leaving, freed, httpRunning, feedRunning, watchdogRunning, level, exported,
                     off, late, server>>
  BY DEF Server!JoinFeeder, Server!pins, Server!flags
<1>2. "joining" \in Stages \ {"none"} /\ "watchdog" \in Stages \ {"none", "fire"}
  BY DEF Stages
<1>3. /\ server = "up" /\ stage[t] = "joining"
      /\ UNCHANGED <<doing, lockedBy, unfed, fired, signals>>
      /\ stage' \in [Threads -> Stages] /\ stage'[t] = "watchdog"
      /\ \A u \in Threads \ {t} : stage'[u] = stage[u]
      /\ Places' /\ HeldInside' /\ (MutexGone => MutexGone') /\ (HeapGone => HeapGone')
      /\ \A u \in Threads : stage'[u] # "none" <=> stage[u] # "none"
  BY <1>1, <1>2, CleanupKeeps
<1>4. Server!ServerTypeOK'
  BY <1>1, <1>3 DEF ServerInv, Server!ServerTypeOK, Threads, Stages, Server!ServerThreads
<1>5. Begun' /\ Stopped' /\ SwitchedOff' /\ FiredInVain' /\ FedInTime'
  BY <1>1, <1>3 DEF ServerInv, Begun, Stopped, SwitchedOff, FiredInVain, FedInTime, Threads
<1> QED  BY <1>3, <1>4, <1>5 DEF ServerInv

(* The watchdog is stopped.                                                 *)
LEMMA StopWatchdogInv ==
  ASSUME ServerInv, NEW t \in Threads, Server!StopWatchdog(t)
  PROVE  ServerInv'
<1>1. /\ Server!At(t, "watchdog", "relay1") /\ watchdogRunning' = FALSE
      /\ UNCHANGED <<leaving, freed, httpRunning, feedRunning, level, exported, off, late, server>>
  BY DEF Server!StopWatchdog, Server!pins
<1>2. "watchdog" \in Stages \ {"none"} /\ "relay1" \in Stages \ {"none", "fire"}
  BY DEF Stages
<1>3. /\ server = "up" /\ stage[t] = "watchdog"
      /\ UNCHANGED <<doing, lockedBy, unfed, fired, signals>>
      /\ stage' \in [Threads -> Stages] /\ stage'[t] = "relay1"
      /\ \A u \in Threads \ {t} : stage'[u] = stage[u]
      /\ Places' /\ HeldInside' /\ (MutexGone => MutexGone') /\ (HeapGone => HeapGone')
      /\ \A u \in Threads : stage'[u] # "none" <=> stage[u] # "none"
  BY <1>1, <1>2, CleanupKeeps
<1>4. Server!ServerTypeOK'
  BY <1>1, <1>3 DEF ServerInv, Server!ServerTypeOK, Threads, Stages, Server!ServerThreads
<1>5. Begun' /\ Stopped' /\ SwitchedOff' /\ FiredInVain' /\ FedInTime'
  BY <1>1, <1>3 DEF ServerInv, Begun, Stopped, SwitchedOff, FiredInVain, FedInTime, Threads
<1> QED  BY <1>3, <1>4, <1>5 DEF ServerInv

(* Relays off, then pins given back.                                        *)
LEMMA CleanHalInv ==
  ASSUME ServerInv, NEW t \in Threads, Server!CleanHal(t)
  PROVE  ServerInv'
<1>1. UNCHANGED <<leaving, freed, httpRunning, feedRunning, watchdogRunning, server>>
  BY DEF Server!CleanHal, Server!flags
<1>2. PICK r \in {1, 2} : Server!SwitchOff(t, r) \/ Server!Unexport(t, r)
  BY DEF Server!CleanHal, Server!Relays
<1>3. PICK from \in {"relay1", "relay2", "unexport1", "unexport2"},
           next \in {"relay2", "unexport1", "unexport2", "exit"} :
        /\ Server!At(t, from, next)
        /\ from = "relay1" => next = "relay2" /\ 1 \in off'
        /\ from = "relay2" => next = "unexport1" /\ 2 \in off'
        /\ from \in {"unexport1", "unexport2"} => next \in {"unexport2", "exit"}
        /\ off \subseteq off'
  <2>1. CASE Server!SwitchOff(t, r) /\ r = 1
    BY <2>1 DEF Server!SwitchOff, Server!Unexport, Server!At
  <2>2. CASE Server!SwitchOff(t, r) /\ r = 2
    BY <2>2 DEF Server!SwitchOff, Server!Unexport, Server!At
  <2>3. CASE Server!Unexport(t, r) /\ r = 1
    BY <2>3 DEF Server!Unexport, Server!At
  <2>4. CASE Server!Unexport(t, r) /\ r = 2
    BY <2>4 DEF Server!Unexport, Server!At
  <2> QED  BY <1>2, <2>1, <2>2, <2>3, <2>4
<1>4. from \in Stages \ {"none"} /\ next \in Stages \ {"none", "fire"}
  BY DEF Stages
<1>5. /\ server = "up" /\ stage[t] = from
      /\ UNCHANGED <<doing, lockedBy, unfed, fired, signals>>
      /\ stage' \in [Threads -> Stages] /\ stage'[t] = next
      /\ \A u \in Threads \ {t} : stage'[u] = stage[u]
      /\ Places' /\ HeldInside' /\ (MutexGone => MutexGone') /\ (HeapGone => HeapGone')
      /\ \A u \in Threads : stage'[u] # "none" <=> stage[u] # "none"
  BY <1>1, <1>3, <1>4, CleanupKeeps
<1>6. /\ level \in [{1, 2} -> {0, 1}] /\ exported \in [{1, 2} -> BOOLEAN]
      /\ off \subseteq {1, 2} /\ late \subseteq {1, 2}
  BY ServerTypes DEF ServerInv
<1>7. \/ /\ level' = [level EXCEPT ![r] = IF exported[r] THEN 0 ELSE level[r]]
         /\ late' = (IF exported[r] THEN late \ {r} ELSE late)
         /\ off' = off \cup {r} /\ exported' = exported
      \/ /\ exported' = [exported EXCEPT ![r] = FALSE] /\ r \in off
         /\ level' = level /\ off' = off /\ late' = late
  <2>1. Server!Unexport(t, r) => r \in off
    <3>1. Server!Unexport(t, r) => stage[t] = IF r = 1 THEN "unexport1" ELSE "unexport2"
      BY DEF Server!Unexport, Server!At
    <3> QED  BY <3>1 DEF ServerInv, SwitchedOff
  <2> QED  BY <1>2, <2>1 DEF Server!SwitchOff, Server!Unexport
<1>8. /\ level' \in [{1, 2} -> {0, 1}] /\ exported' \in [{1, 2} -> BOOLEAN]
      /\ off' \subseteq {1, 2} /\ late' \subseteq {1, 2}
  <2>1. level' = level \/ level' = [level EXCEPT ![r] = 0]
    <3>1. [level EXCEPT ![r] = level[r]] = level
      BY <1>6
    <3> QED  BY <1>7, <3>1
  <2>2. exported' = exported \/ exported' = [exported EXCEPT ![r] = FALSE]
    BY <1>7
  <2>3. off' \in {off, off \cup {r}} /\ late' \in {late, late \ {r}}
    BY <1>7
  <2>4. level' \in [{1, 2} -> {0, 1}]
    BY <1>6, <2>1
  <2>5. exported' \in [{1, 2} -> BOOLEAN]
    BY <1>6, <2>2
  <2> QED  BY <1>6, <2>3, <2>4, <2>5
<1>9. \A q \in {1, 2} : /\ ~exported'[q] => q \in off'
                        /\ q \in off' /\ level'[q] = 1 => q \in late'
  <2>1. SUFFICES ASSUME NEW q \in {1, 2}
                 PROVE  /\ ~exported'[q] => q \in off'
                        /\ q \in off' /\ level'[q] = 1 => q \in late'
    OBVIOUS
  <2>2. (~exported[q] => q \in off) /\ (q \in off /\ level[q] = 1 => q \in late)
    BY DEF ServerInv, SwitchedOff
  <2>3. CASE q # r
    <3>1. exported'[q] = exported[q] /\ level'[q] = level[q]
      BY <1>6, <1>7, <2>3
    <3>2. (q \in off' <=> q \in off) /\ (q \in late' <=> q \in late)
      BY <1>7, <2>3
    <3> QED  BY <2>2, <3>1, <3>2
  <2>4. CASE q = r
    <3>1. q \in off'
      BY <1>7, <2>4
    <3>2. \/ exported[r] /\ level'[r] = 0
          \/ ~exported[r] /\ level'[r] = level[r] /\ late' = late
          \/ level' = level /\ late' = late /\ r \in off
      <4>1. CASE exported[r] /\ level' = [level EXCEPT ![r] = IF exported[r] THEN 0 ELSE level[r]]
        BY <1>6, <4>1
      <4>2. CASE ~exported[r] /\ level' = [level EXCEPT ![r] = IF exported[r] THEN 0 ELSE level[r]]
                 /\ late' = (IF exported[r] THEN late \ {r} ELSE late)
        BY <1>6, <4>2
      <4> QED  BY <1>7, <4>1, <4>2
    <3> QED
      <4>1. CASE exported[r] /\ level'[r] = 0
        BY <2>4, <3>1, <4>1
      <4>2. CASE ~exported[r] /\ level'[r] = level[r] /\ late' = late
        BY <2>2, <2>4, <3>1, <4>2
      <4>3. CASE level' = level /\ late' = late /\ r \in off
        BY <2>2, <2>4, <3>1, <4>3
      <4> QED  BY <3>2, <4>1, <4>2, <4>3
  <2> QED  BY <2>3, <2>4
<1>10. Server!ServerTypeOK'
  BY <1>1, <1>5, <1>8 DEF ServerInv, Server!ServerTypeOK, Threads, Stages, Server!ServerThreads,
     Server!Relays
<1>11. SwitchedOff'
  <2>1. \A u \in Threads :
          /\ stage'[u] \in {"relay2", "unexport1", "unexport2", "exit"} => 1 \in off'
          /\ stage'[u] \in {"unexport1", "unexport2", "exit"} => 2 \in off'
    BY <1>3, <1>5 DEF ServerInv, SwitchedOff
  <2> QED  BY <1>1, <1>5, <1>9, <2>1 DEF SwitchedOff
<1>12. Begun' /\ Stopped' /\ FiredInVain' /\ FedInTime'
  BY <1>1, <1>3, <1>5 DEF ServerInv, Begun, Stopped, FiredInVain, FedInTime, Threads
<1> QED  BY <1>5, <1>10, <1>11, <1>12 DEF ServerInv

(* exit begins the second pass, or ends the process.                        *)
LEMMA ExitInv ==
  ASSUME ServerInv, NEW t \in Threads, Server!Exit(t)
  PROVE  ServerInv'
<1>1. PICK from \in {"exit", "fire"} : Server!At(t, from, "http")
  BY DEF Server!Exit
<1>2. /\ leaving' = TRUE /\ server' = IF leaving THEN "exited" ELSE "up"
      /\ UNCHANGED <<freed, httpRunning, feedRunning, watchdogRunning, level, exported, off, late>>
  BY DEF Server!Exit, Server!pins, Server!flags
<1>3. from \in Stages \ {"none"} /\ "http" \in Stages \ {"none", "fire"}
  BY DEF Stages
<1>4. /\ server = "up" /\ stage[t] = from
      /\ UNCHANGED <<doing, lockedBy, unfed, fired, signals>>
      /\ stage' \in [Threads -> Stages] /\ stage'[t] = "http"
      /\ \A u \in Threads \ {t} : stage'[u] = stage[u]
      /\ Places' /\ HeldInside' /\ (MutexGone => MutexGone') /\ (HeapGone => HeapGone')
      /\ \A u \in Threads : stage'[u] # "none" <=> stage[u] # "none"
  BY <1>1, <1>2, <1>3, CleanupKeeps
<1>5. from = "exit" => freed /\ ~watchdogRunning /\ 1 \in off /\ 2 \in off
  BY <1>4 DEF ServerInv, Begun, Stopped, SwitchedOff
<1>6. from = "fire" => t = "monitor" /\ fired /\ ~leaving
  BY <1>4 DEF ServerInv, FiredInVain
<1>7. fired => ~freed
  BY DEF ServerInv, FiredInVain, HeapGone
<1>8. Server!ServerTypeOK'
  BY <1>2, <1>4 DEF ServerInv, Server!ServerTypeOK, Threads, Stages, Server!ServerThreads
<1>9. Begun' /\ Stopped' /\ SwitchedOff'
  BY <1>1, <1>2, <1>4, <1>5, <1>6 DEF ServerInv, Begun, Stopped, SwitchedOff, Threads
<1>10. FiredInVain' /\ FedInTime'
  BY <1>1, <1>2, <1>4, <1>5, <1>6, <1>7 DEF ServerInv, FiredInVain, FedInTime, Threads
<1> QED  BY <1>4, <1>8, <1>9, <1>10 DEF ServerInv

(* Time passes only when nobody can do anything at once.                   *)
LEMMA TickInv ==
  ASSUME ServerLimits, ServerInv, Server!ServerTick
  PROVE  ServerInv'
<1> USE DEF Threads
<1>1. /\ server = "up"
      /\ UNCHANGED <<lockedBy, stage, leaving, freed, httpRunning, feedRunning, watchdogRunning,
                     signals, level, exported, off, late, fired, server>>
      /\ unfed' = IF unfed < ServerTimeout THEN unfed + 1 ELSE unfed
      /\ doing' = [t \in Threads |->
                     IF stage[t] = "none" /\ doing[t] \in {"sleep", "second"} THEN "awake"
                                                                              ELSE doing[t]]
      /\ \A t \in Threads : /\ stage[t] # "none" => Server!Waits(t)
                            /\ stage[t] = "none" => Server!Rests(t)
  BY DEF Server!ServerTick, Server!cleaning, Server!pins, Server!flags, Server!Cleans,
         Server!ServerThreads
<1>2. Places'
  BY <1>1 DEF ServerInv, Places
<1>3. Server!ServerTypeOK'
  <2>1. doing' \in [Threads -> Doings]
    BY <1>1, ServerTypes DEF ServerInv, Doings
  <2>2. unfed' \in 0..ServerTimeout
    BY <1>1, ServerTypes DEF ServerInv, ServerLimits
  <2> QED  BY <1>1, <2>1, <2>2 DEF ServerInv, Server!ServerTypeOK, Doings, Server!ServerThreads
<1>4. HeldInside'
  BY <1>1 DEF ServerInv, Places, HeldInside
<1>5. Begun' /\ Stopped' /\ SwitchedOff'
  BY <1>1 DEF ServerInv, Places, Begun, Stopped, SwitchedOff
<1>6. (HeapGone => HeapGone') /\ (MutexGone => MutexGone') /\ FiredInVain'
  BY <1>1 DEF ServerInv, HeapGone, MutexGone, FiredInVain
<1>7. FedInTime'
  <2>1. SUFFICES ASSUME ~MutexGone, ~(HeapGone /\ stage["feeder"] # "none")
                 PROVE  unfed' = 1 /\ doing'["feeder"] # "sleep"
    BY <1>1, <1>6 DEF FedInTime
  <2>2. lockedBy["watchdog"] \in {"feeder", "monitor"} => FALSE
    BY <1>1, <2>1 DEF MutexGone, Server!Rests, ServerInv, HeldInside
  <2>3. lockedBy["watchdog"] = "nobody"
    BY <2>2, ServerTypes DEF ServerInv, HeldInside
  <2>4. lockedBy["heap"] # "nobody" => \E t \in Threads : stage[t] # "none" /\ lockedBy["heap"] = t
    <3>1. lockedBy["heap"] \in {"loop", "http", "nobody"}
      BY ServerTypes DEF ServerInv, HeldInside
    <3>2. \A t \in {"loop", "http"} : stage[t] = "none" => doing[t] # "request"
      BY <1>1, <2>3 DEF Server!Rests, Server!NoThread
    <3> QED  BY <3>1, <3>2 DEF ServerInv, HeldInside
  <2>5. stage["feeder"] = "none"
    <3>1. SUFFICES ASSUME stage["feeder"] # "none"
                   PROVE  FALSE
      OBVIOUS
    <3>2. Server!Waits("feeder")
      BY <1>1, <3>1
    <3>3. ~freed /\ lockedBy["heap"] # "nobody"
      BY <2>3, <3>2 DEF Server!Waits, Server!NoThread
    <3> QED  BY <2>1, <2>4, <3>1, <3>3 DEF HeapGone
  <2>6. doing["feeder"] # "gone"
    <3>1. SUFFICES ASSUME doing["feeder"] = "gone"
                   PROVE  FALSE
      OBVIOUS
    <3>2. freed
      BY <3>1 DEF ServerInv, Begun
    <3>3. PICK t \in Threads : stage[t] # "none"
      BY <3>2 DEF ServerInv, Begun
    <3> QED  BY <1>1, <2>3, <3>1, <3>2, <3>3 DEF Server!Waits, Server!NoThread
  <2>7. doing["feeder"] = "sleep"
    BY <1>1, <2>3, <2>5, <2>6 DEF Server!Rests, Server!NoThread, ServerInv, Places
  <2>8. unfed = 0
    BY <2>1, <2>5, <2>7 DEF ServerInv, FedInTime
  <2> QED  BY <1>1, <2>5, <2>7, <2>8 DEF ServerLimits
<1> QED  BY <1>2, <1>3, <1>4, <1>5, <1>6, <1>7 DEF ServerInv

(* No step of the server, and of another part none either, leaves the       *)
(* invariant.                                                               *)
LEMMA ServerNextInv ==
  ASSUME ServerLimits, ServerInv, [Next]_vars
  PROVE  ServerInv'
<1>1. CASE UNCHANGED serverVars
  <2>1. /\ doing' = doing /\ lockedBy' = lockedBy /\ stage' = stage /\ leaving' = leaving
        /\ freed' = freed /\ httpRunning' = httpRunning /\ feedRunning' = feedRunning
        /\ watchdogRunning' = watchdogRunning /\ level' = level /\ exported' = exported
        /\ unfed' = unfed /\ fired' = fired /\ off' = off /\ late' = late
        /\ signals' = signals /\ server' = server
    BY <1>1 DEF serverVars
  <2>2. Server!ServerTypeOK'
    BY <2>1 DEF ServerInv, Server!ServerTypeOK
  <2>3. (Places /\ HeldInside)'
    BY <2>1 DEF ServerInv, Places, HeldInside
  <2>4. (Begun /\ Stopped /\ SwitchedOff)'
    BY <2>1 DEF ServerInv, Begun, Stopped, SwitchedOff
  <2>5. (FiredInVain /\ FedInTime)'
    BY <2>1 DEF ServerInv, FiredInVain, FedInTime, HeapGone, MutexGone
  <2> QED  BY <2>2, <2>3, <2>4, <2>5 DEF ServerInv
<1>2. CASE Server!ServerNext
  <2>1. ASSUME NEW t \in Threads, Server!Cleanup(t)
        PROVE  ServerInv'
    BY <2>1, StopHttpInv, FreeHandlersInv, AskFeederInv, JoinFeederInv, StopWatchdogInv,
       CleanHalInv, ExitInv DEF Server!Cleanup
  <2>2. ASSUME NEW t \in Served, Server!Accept(t) \/ Server!Serve(t)
        PROVE  ServerInv'
    BY <2>2, AcceptInv, ServeInv DEF ServerLimits
  <2> QED
    BY <1>2, <2>1, <2>2, FeedInv, MonitorInv, TickInv, SignalInv
       DEF Server!ServerNext, Server!ServerThreads, Threads
<1> QED
  BY <1>1, <1>2 DEF Next, ServerStep, HalStep, SessionStep, PairingStep, vars

-----------------------------------------------------------------------------
(* Whatever threads signals interrupt, any number of them and at the same   *)
(* time, fan and lamp are off when the server has exited, but for a request *)
(* that set one between its switching off and the giving back of its pin,   *)
(* and the watchdog never ends the process, for any time-out longer than    *)
(* one feeding interval.                                                    *)
THEOREM ServerExitIsSafe ==
  ASSUME ServerLimits
  PROVE  Spec => []ExitIsSafe
<1>1. Init => ServerInv
  BY StartInv DEF Init
<1>2. ServerInv /\ [Next]_vars => ServerInv'
  BY ServerNextInv
<1>3. ServerInv => ExitIsSafe
  BY DEF ServerInv, SwitchedOff, FiredInVain, ExitIsSafe, Server!ExitIsSafe,
         Server!RelaysOffAtExit, Server!WatchdogEndsNothing, Server!Relays
<1> QED  BY <1>1, <1>2, <1>3, PTL DEF Spec

-----------------------------------------------------------------------------
(* The logins.  A login that was logged out and not yet expired can be in   *)
(* the file only if the logout could not parse it; then nobody can, until   *)
(* it is begun anew.                                                           *)
(* The number of logins in the file is a cardinality like any other.        *)
LEMMA LoginCount ==
  ASSUME NEW S
  PROVE  Session!Cardinality(S) = Cardinality(S)
BY DEF Session!Cardinality, Cardinality

Unreadable == ~Session!Parses(SaveLimit)

SessionInv ==
  /\ Session!SessionTypeOK
  /\ \A t \in loggedOut : t \in sessions /\ left[t] > 0 => Unreadable

(* The file is read back by a check only if a login could have read it, and *)
(* tokens are strings of one length.                                        *)
SessionLimits ==
  /\ IsFiniteSet(Tokens)
  /\ VerifyLimit \in Nat /\ SaveLimit \in Nat /\ Lifetime \in Nat
  /\ 1 <= VerifyLimit /\ VerifyLimit <= SaveLimit /\ 1 <= Lifetime

(* No request to log in or out, no day and no restart leaves it.            *)
LEMMA SessionNextInv ==
  ASSUME SessionLimits, SessionInv, [Next]_vars
  PROVE  SessionInv'
<1> USE DEF SessionInv, Session!SessionTypeOK, SessionLimits
<1>1. ASSUME NEW t \in Tokens, NEW opened \in BOOLEAN, NEW outcome \in Session!Outcomes,
             Session!Login(t, opened, outcome)
      PROVE  SessionInv'
  <2>1. /\ left' = [left EXCEPT ![t] = Lifetime] /\ loggedOut' = loggedOut \ {t}
        /\ t \notin sessions
    BY <1>1 DEF Session!Login
  <2>2. left' \in [Tokens -> 0..Lifetime]
    BY <2>1
  <2>3. CASE outcome = "kept"
    <3>1. sessions' = sessions /\ whole' = whole
      BY <1>1, <2>3 DEF Session!Login, Session!Write
    <3>2. \A u \in loggedOut' : u # t /\ left'[u] = left[u]
      BY <2>1
    <3> QED  BY <2>1, <2>2, <3>1, <3>2 DEF Unreadable, Session!Parses
  <2>4. CASE outcome # "kept"
    <3>1. sessions' = Session!Saved(t, opened) /\ whole' \in BOOLEAN
      BY <1>1, <2>4 DEF Session!Login, Session!Write
    <3>2. \A u \in sessions' : u = t \/ (u \in sessions /\ left[u] > 0 /\ ~Unreadable)
      BY <3>1 DEF Session!Saved, Session!Parses, Session!Alive, Unreadable
    <3>3. \A u \in loggedOut' : u \notin sessions'
      BY <2>1, <3>2
    <3>4. sessions' \subseteq Tokens
      BY <3>2
    <3> QED  BY <2>1, <2>2, <3>1, <3>3, <3>4
  <2> QED  BY <2>3, <2>4
<1>2. ASSUME NEW t \in Tokens, NEW opened \in BOOLEAN, NEW outcome \in Session!Outcomes,
             Session!Logout(t, opened, outcome)
      PROVE  SessionInv'
  <2>1. left' = left
    BY <1>2 DEF Session!Logout
  <2>2. CASE ~opened \/ Unreadable \/ outcome = "kept"
    <3>1. /\ sessions' = sessions /\ whole' = whole
          /\ loggedOut' = loggedOut \/ (loggedOut' = loggedOut \cup {t} /\ Unreadable)
      BY <1>2, <2>2 DEF Session!Logout, Session!Write, Session!Parses, Unreadable
    <3>2. loggedOut' \subseteq Tokens
      BY <3>1
    <3>3. \A u \in loggedOut' : u \in sessions' /\ left'[u] > 0 => Unreadable
      BY <2>1, <3>1
    <3> QED  BY <2>1, <3>1, <3>2, <3>3 DEF Unreadable, Session!Parses
  <2>3. CASE opened /\ ~Unreadable /\ outcome # "kept"
    <3>1. sessions' = sessions \ {t} /\ whole' \in BOOLEAN /\ loggedOut' = loggedOut \cup {t}
      BY <1>2, <2>3 DEF Session!Logout, Session!Write, Session!Parses, Unreadable
    <3>2. \A u \in loggedOut' : ~(u \in sessions' /\ left'[u] > 0)
      BY <2>1, <2>3, <3>1
    <3> QED  BY <2>1, <3>1, <3>2
  <2> QED  BY <2>2, <2>3
<1>3. CASE Session!SessionTick
  <2>1. sessions' = sessions /\ whole' = whole /\ loggedOut' \subseteq loggedOut
        /\ left' = [t \in Tokens |-> IF left[t] > 0 THEN left[t] - 1 ELSE 0]
    BY <1>3 DEF Session!SessionTick, Session!Alive
  <2>2. left' \in [Tokens -> 0..Lifetime] /\ \A t \in Tokens : left'[t] > 0 => left[t] > 0
    BY <2>1
  <2> QED  BY <2>1, <2>2 DEF Unreadable, Session!Parses
<1>4. CASE Session!Reboot
  BY <1>4 DEF Session!Reboot
<1>5. CASE UNCHANGED sessionVars
  BY <1>5 DEF sessionVars, Unreadable, Session!Parses
<1> QED
  BY <1>1, <1>2, <1>3, <1>4, <1>5 DEF Next, ServerStep, HalStep, SessionStep, PairingStep, vars,
     Session!SessionNext

LEMMA SessionInitInv ==
  ASSUME SessionLimits, Init
  PROVE  SessionInv
BY DEF Init, Session!SessionInit, SessionInv, Session!SessionTypeOK, SessionLimits

(* Whoever logged out, where the file could be opened, stays out, and a     *)
(* login that could be written after all others expired gets in, for all    *)
(* limits in which a login reads at least what a check reads.               *)
THEOREM LogoutsLast ==
  ASSUME SessionLimits
  PROVE  Spec => SessionsAreSound
<1>1. Init => SessionInv
  BY SessionInitInv
<1>2. SessionInv /\ [Next]_vars => SessionInv'
  BY SessionNextInv
<1>3. SessionInv => Session!LoggedOutStaysOut
  <2>1. SUFFICES ASSUME SessionInv
                 PROVE  Session!LoggedOutStaysOut
    OBVIOUS
  <2>2. Session!Cardinality(sessions) \in Nat
    BY <2>1, LoginCount, FS_Subset, FS_CardinalityType
       DEF SessionInv, Session!SessionTypeOK, SessionLimits
  <2> QED
    BY <2>1, <2>2 DEF SessionInv, Session!LoggedOutStaysOut, Session!Authenticated,
       Session!Parses, Session!Alive, Unreadable, SessionLimits
<1>4. SessionInv /\ [Next]_vars =>
        [\A t \in Tokens, opened \in BOOLEAN :
           Session!Login(t, opened, "written") /\ (\A s \in Tokens : ~Session!Alive(s))
             => Session!Authenticated(t)']_Session!sessionVars
  <2>1. SUFFICES ASSUME SessionInv, NEW t \in Tokens, NEW opened \in BOOLEAN,
                        Session!Login(t, opened, "written"),
                        \A s \in Tokens : ~Session!Alive(s)
                 PROVE  Session!Authenticated(t)'
    OBVIOUS
  <2>2. sessions' = {t}
    BY <2>1 DEF Session!Login, Session!Write, Session!Saved, SessionInv, Session!SessionTypeOK
  <2>3. Session!Cardinality(sessions') = 1
    BY <2>2, FS_Singleton, LoginCount
  <2>4. whole' = TRUE /\ left'[t] = Lifetime
    BY <2>1 DEF Session!Login, Session!Write, SessionInv, Session!SessionTypeOK
  <2> QED
    BY <2>2, <2>3, <2>4 DEF Session!Authenticated, Session!Parses, Session!Alive, SessionLimits
<1>5. Spec => []Session!LoggedOutStaysOut
  BY <1>1, <1>2, <1>3, PTL DEF Spec
<1>6. Spec => Session!QuietDayHeals
  BY <1>1, <1>2, <1>4, PTL DEF Spec, Session!QuietDayHeals
<1> QED  BY <1>5, <1>6 DEF SessionsAreSound, Session!SessionsAreSound
-----------------------------------------------------------------------------
(* The smoke sensor.  A counter at the threshold belongs to a caller that   *)
(* is about to take it back.  While the RPC loop alone reads, the counter   *)
(* follows the number of reads in a row that differ: it is that number      *)
(* between two reads, and one behind it during a read that differs.         *)
CounterHasTaker ==
  smoke_debounce_count >= 3 => \E c \in callers : reading[c] = "test"

CountsReads ==
  LET differs == raw["rpc"] # smoke_confirmed_state IN
    callers = {"rpc"} =>
      /\ reading["rpc"] \in {"idle", "good", "online", "failed", "judge"} =>
           streak = smoke_debounce_count /\ smoke_debounce_count < 3
      /\ reading["rpc"] = "compare" =>
           /\ smoke_debounce_count < 3
           /\ streak = IF differs THEN smoke_debounce_count + 1 ELSE 0
      /\ reading["rpc"] = "count" =>
           /\ differs /\ smoke_debounce_count < 3 /\ loaded["rpc"] = smoke_debounce_count
           /\ streak = smoke_debounce_count + 1
      /\ reading["rpc"] = "test" => differs /\ streak = smoke_debounce_count

HalInv == Hal!HalTypeOK /\ CounterHasTaker /\ CountsReads

(* Reading the sensor keeps the counter tied to the reads, and changes the  *)
(* confirmed state after three reads only.                                  *)
LEMMA HalUseInv ==
  ASSUME FailureThreshold \in Nat, RetryInterval \in Nat, HalInv,
         NEW c \in callers, Hal!Use(c)
  PROVE  /\ HalInv'
         /\ smoke_confirmed_state' # smoke_confirmed_state /\ callers = {"rpc"} => streak = 3
<1> USE DEF Hal!AllCallers, Hal!SmokeThreshold, Hal!Upto, Hal!Moves, Hal!debounce, Hal!health,
            Hal!sensor
<1>1. c \in {"rpc", "web"} /\ callers \subseteq {"rpc", "web"}
  BY DEF HalInv, Hal!HalTypeOK
<1>2. callers' = callers /\ pin' = pin /\ works' = works
  BY DEF Hal!Use, Hal!ReadPin, Hal!Refuse, Hal!Compare, Hal!Count, Hal!Confirm,
         Hal!RecordSuccess, Hal!RecordFailure
<1>3. Hal!HalTypeOK'
  <2> USE <1>1, <1>2 DEF HalInv, Hal!HalTypeOK
  <2>1. CASE Hal!ReadPin(c)
    BY <2>1 DEF Hal!ReadPin
  <2>2. CASE Hal!Refuse(c)
    BY <2>2 DEF Hal!Refuse
  <2>3. CASE Hal!Compare(c)
    BY <2>3 DEF Hal!Compare
  <2>4. CASE Hal!Count(c)
    BY <2>4 DEF Hal!Count
  <2>5. CASE Hal!Confirm(c)
    BY <2>5 DEF Hal!Confirm
  <2>6. CASE Hal!RecordSuccess(c)
    BY <2>6 DEF Hal!RecordSuccess
  <2>7. CASE Hal!RecordFailure(c)
    BY <2>7 DEF Hal!RecordFailure
  <2> QED  BY <2>1, <2>2, <2>3, <2>4, <2>5, <2>6, <2>7 DEF Hal!Use
<1>4. CounterHasTaker'
  <2> USE <1>1, <1>2 DEF HalInv, Hal!HalTypeOK, CounterHasTaker
  <2>1. CASE Hal!ReadPin(c)
    BY <2>1 DEF Hal!ReadPin
  <2>2. CASE Hal!Refuse(c)
    BY <2>2 DEF Hal!Refuse
  <2>3. CASE Hal!Compare(c)
    BY <2>3 DEF Hal!Compare
  <2>4. CASE Hal!Count(c)
    BY <2>4 DEF Hal!Count
  <2>5. CASE Hal!Confirm(c)
    BY <2>5 DEF Hal!Confirm
  <2>6. CASE Hal!RecordSuccess(c)
    BY <2>6 DEF Hal!RecordSuccess
  <2>7. CASE Hal!RecordFailure(c)
    BY <2>7 DEF Hal!RecordFailure
  <2> QED  BY <2>1, <2>2, <2>3, <2>4, <2>5, <2>6, <2>7 DEF Hal!Use
<1>5. ASSUME callers = {"rpc"}
      PROVE  /\ CountsReads'
             /\ smoke_confirmed_state' # smoke_confirmed_state => streak = 3
  <2> USE <1>2, <1>5 DEF HalInv, Hal!HalTypeOK, CountsReads
  <2>1. CASE Hal!ReadPin(c)
    BY <2>1 DEF Hal!ReadPin
  <2>2. CASE Hal!Refuse(c)
    BY <2>2 DEF Hal!Refuse
  <2>3. CASE Hal!Compare(c)
    BY <2>3 DEF Hal!Compare
  <2>4. CASE Hal!Count(c)
    BY <2>4 DEF Hal!Count
  <2>5. CASE Hal!Confirm(c)
    BY <2>5 DEF Hal!Confirm
  <2>6. CASE Hal!RecordSuccess(c)
    BY <2>6 DEF Hal!RecordSuccess
  <2>7. CASE Hal!RecordFailure(c)
    BY <2>7 DEF Hal!RecordFailure
  <2> QED  BY <2>1, <2>2, <2>3, <2>4, <2>5, <2>6, <2>7 DEF Hal!Use
<1> QED  BY <1>2, <1>3, <1>4, <1>5 DEF HalInv, CountsReads

LEMMA HalNextInv ==
  ASSUME FailureThreshold \in Nat, RetryInterval \in Nat, HalInv, [Next]_vars
  PROVE  /\ HalInv'
         /\ smoke_confirmed_state' # smoke_confirmed_state /\ callers = {"rpc"} => streak = 3
<1>1. CASE \E c \in callers : Hal!Use(c)
  BY <1>1, HalUseInv
<1>2. CASE Hal!World
  <2>1. /\ UNCHANGED <<callers, reading, raw, loaded, smoke_confirmed_state,
                       smoke_debounce_count, streak, status, failure_count>>
        /\ pin' \in {pin, 1 - pin} /\ works' \in {works, ~works}
        /\ sinceFailure' \in {sinceFailure, Hal!Upto(sinceFailure + 1, RetryInterval)}
    BY <1>2 DEF Hal!World, Hal!debounce
  <2>2. Hal!HalTypeOK'
    <3>1. pin' \in {0, 1}
      BY <2>1 DEF HalInv, Hal!HalTypeOK
    <3>2. works' \in BOOLEAN
      BY <2>1, Zenon DEF HalInv, Hal!HalTypeOK
    <3>3. sinceFailure' \in 0..RetryInterval
      BY <2>1 DEF HalInv, Hal!HalTypeOK, Hal!Upto
    <3> QED  BY <2>1, <3>1, <3>2, <3>3 DEF HalInv, Hal!HalTypeOK
  <2>3. CounterHasTaker' /\ CountsReads'
    BY <2>1 DEF HalInv, CounterHasTaker, CountsReads
  <2> QED  BY <2>1, <2>2, <2>3 DEF HalInv
<1>3. CASE UNCHANGED halVars
  BY <1>3 DEF halVars, HalInv, Hal!HalTypeOK, CounterHasTaker, CountsReads
<1> QED
  BY <1>1, <1>2, <1>3 DEF Next, ServerStep, HalStep, SessionStep, PairingStep, vars, Hal!HalNext

LEMMA HalInitInv ==
  ASSUME FailureThreshold \in Nat, RetryInterval \in Nat, Init
  PROVE  HalInv
BY DEF Init, Hal!HalInit, Hal!AllCallers, HalInv, Hal!HalTypeOK, Hal!SmokeThreshold,
       CounterHasTaker, CountsReads

(* For any number of failures that make a sensor offline and any interval:  *)
(* however two callers interleave, no counter stays at the threshold, and   *)
(* as long as the RPC loop alone reads, three reads in a row have to differ *)
(* before the smoke state changes.                                          *)
THEOREM SmokeNeedsThreeReads ==
  ASSUME FailureThreshold \in Nat, RetryInterval \in Nat
  PROVE  Spec => SmokeIsDebounced
<1>1. Init => HalInv
  BY HalInitInv
<1>2. HalInv /\ [Next]_vars => HalInv'
  BY HalNextInv
<1>3. HalInv => Hal!CounterIsTaken
  BY DEF HalInv, Hal!HalTypeOK, CounterHasTaker, Hal!CounterIsTaken, Hal!SmokeThreshold
<1>4. HalInv /\ [Next]_vars =>
        [smoke_confirmed_state' # smoke_confirmed_state /\ callers = {"rpc"}
           => streak = Hal!SmokeThreshold]_Hal!halVars
  BY HalNextInv DEF Hal!SmokeThreshold
<1>5. Spec => []Hal!CounterIsTaken
  BY <1>1, <1>2, <1>3, PTL DEF Spec
<1>6. Spec => Hal!ChangeNeedsThreeReads
  BY <1>1, <1>2, <1>4, PTL DEF Spec, Hal!ChangeNeedsThreeReads
<1> QED  BY <1>5, <1>6 DEF SmokeIsDebounced
-----------------------------------------------------------------------------
(* Alerts and their pictures.  Alerts are numbered in the order in which    *)
(* they were published and arrive in that order, so one that is still under *)
(* way is newer than all that are waiting, taken or sent.  The announcement *)
(* of a picture is under way behind its alert.                              *)
IsAlert(i) == mqtt[i].what = "alert"
Announces(i, a) == mqtt[i] = [what |-> "image_uploaded", alert |-> a]

Numbered ==
  /\ \A i \in DOMAIN mqtt : mqtt[i].alert <= published
  /\ pending <= published /\ \A h \in Pairing!Handlers : taken[h] <= published
  /\ \A pair \in sent : pair[1] <= published
  /\ \A a \in announced : a <= published
  /\ camera # "idle" => published > 0

ArrivesInOrder ==
  /\ \A i \in DOMAIN mqtt : IsAlert(i) =>
       /\ mqtt[i].alert > pending /\ \A h \in Pairing!Handlers : mqtt[i].alert > taken[h]
       /\ \A pair \in sent : mqtt[i].alert > pair[1]
  /\ \A i, j \in DOMAIN mqtt :
       i < j /\ IsAlert(i) /\ IsAlert(j) => mqtt[i].alert < mqtt[j].alert

HasPicture ==
  /\ camera = "sending" /\ request = 0 => latest # 0
  /\ \A i \in DOMAIN mqtt : mqtt[i].what = "image_uploaded" => latest # 0

AnnouncedBehind ==
  \A i \in DOMAIN mqtt : IsAlert(i) /\ mqtt[i].alert \in announced =>
    \E j \in DOMAIN mqtt : j > i /\ Announces(j, mqtt[i].alert)

PairingInv ==
  /\ Pairing!PairingTypeOK
  /\ Numbered /\ ArrivesInOrder /\ Pairing!EachAlertOnce
  /\ HasPicture /\ AnnouncedBehind /\ Pairing!AnnouncedIsNotHeldBack

Messages == [what : {"alert", "image_uploaded", "image_upload"}, alert : Pairing!Alerts]

(* Only alerts up to the last one published were sent.                      *)
LEMMA NewerIsNotNotified ==
  ASSUME NEW a, \A pair \in sent : pair[1] # a
  PROVE  ~Pairing!Notified(a)
BY DEF Pairing!Notified

(* The bridge sends a message: it is the last one under way.                *)
LEMMA BridgeSendsInv ==
  ASSUME MaxAlerts \in Nat, PairingInv,
         Pairing!PublishAlert \/ Pairing!AnnouncePhoto \/ Pairing!FallBack
  PROVE  PairingInv'
<1> USE DEF Pairing!Alerts, Pairing!Pictures, Pairing!NoAlert, Pairing!NoPicture, Pairing!Look,
            Pairing!Handlers
<1>1. /\ published \in 0..MaxAlerts /\ pending \in 0..MaxAlerts
      /\ taken \in [{"http", "mqtt"} -> 1..MaxAlerts \cup {0, -1}]
      /\ announced \subseteq 1..MaxAlerts /\ sent \subseteq (1..MaxAlerts) \X (0..MaxAlerts)
      /\ mqtt \in Seq(Messages)
  BY DEF PairingInv, Pairing!PairingTypeOK, Messages
<1>2. /\ UNCHANGED <<request, pending, age, latest, taken, sent>>
      /\ camera' \in {"idle", "photo", "fall_back"}
  BY DEF Pairing!PublishAlert, Pairing!AnnouncePhoto, Pairing!FallBack
<1>3. published' \in 0..MaxAlerts /\ published <= published'
  BY <1>1 DEF Pairing!PublishAlert, Pairing!AnnouncePhoto, Pairing!FallBack
<1>4. camera' # "idle" => published' > 0
  BY <1>1, <1>3 DEF Pairing!PublishAlert, Pairing!AnnouncePhoto, Pairing!FallBack, PairingInv, Numbered
<1>5. CASE UNCHANGED <<mqtt, announced>>
  <2>1. Pairing!PairingTypeOK'
    BY <1>2, <1>3, <1>5 DEF PairingInv, Pairing!PairingTypeOK
  <2>2. Numbered'
    <3>1. Numbered
      BY DEF PairingInv
    <3>2. \A i \in DOMAIN mqtt : mqtt[i].alert \in Int
      <4>1. \A i \in DOMAIN mqtt : mqtt[i] \in Messages
        BY <1>1
      <4> QED  BY <4>1 DEF Messages
    <3> QED  BY <1>1, <1>2, <1>3, <1>4, <1>5, <3>1, <3>2 DEF Numbered
  <2>3. (ArrivesInOrder /\ HasPicture /\ AnnouncedBehind)'
    BY <1>2, <1>5 DEF PairingInv, ArrivesInOrder, HasPicture, AnnouncedBehind, IsAlert, Announces
  <2>4. (Pairing!EachAlertOnce /\ Pairing!AnnouncedIsNotHeldBack)'
    BY <1>2, <1>5 DEF PairingInv, Pairing!EachAlertOnce, Pairing!AnnouncedIsNotHeldBack,
       Pairing!Notified
  <2> QED  BY <2>1, <2>2, <2>3, <2>4 DEF PairingInv
<1>6. ASSUME NEW m \in Messages, mqtt' = Append(mqtt, m), m.alert = published',
             \/ m.what = "alert" /\ announced' = announced /\ published' = published + 1
             \/ m.what = "image_uploaded" /\ announced' = announced \cup {published}
                 /\ published' = published /\ latest # 0
             \/ m.what = "image_upload" /\ announced' = announced /\ published' = published
      PROVE  PairingInv'
  <2>1. /\ mqtt' \in Seq(Messages) /\ DOMAIN mqtt' = 1..(Len(mqtt) + 1)
        /\ DOMAIN mqtt = 1..Len(mqtt) /\ Len(mqtt) \in Nat
        /\ \A i \in DOMAIN mqtt : i \in DOMAIN mqtt' /\ mqtt'[i] = mqtt[i]
        /\ mqtt'[Len(mqtt) + 1] = m
    BY <1>1, <1>6
  <2>2. \A i \in DOMAIN mqtt' : i \in DOMAIN mqtt \/ i = Len(mqtt) + 1
    BY <2>1
  <2>3. \A i \in DOMAIN mqtt : mqtt[i] \in Messages
    BY <1>1
  <2>4. m.alert \in 1..MaxAlerts /\ \A i \in DOMAIN mqtt : mqtt[i].alert \in 1..MaxAlerts
    BY <2>3, <1>6 DEF Messages
  <2>5. announced' \subseteq 1..MaxAlerts
    BY <1>1, <1>6, <2>4
  <2>6. Pairing!PairingTypeOK'
    BY <1>2, <1>3, <2>1, <2>5 DEF PairingInv, Pairing!PairingTypeOK, Messages
  <2>7. Numbered'
    <3>1. Numbered
      BY DEF PairingInv
    <3>2. \A i \in DOMAIN mqtt' : mqtt'[i].alert <= published'
      BY <1>1, <1>3, <1>6, <2>1, <2>2, <2>4, <3>1 DEF Numbered
    <3>3. \A a \in announced' : a <= published'
      <4>1. \A a \in announced : a \in Int /\ a <= published
        BY <1>1, <3>1 DEF Numbered
      <4>2. \A a \in announced' : a \in announced \/ a = published
        BY <1>6
      <4>3. published \in Int /\ published' \in Int
        BY <1>1, <1>3
      <4>4. ASSUME NEW a \in announced'
            PROVE  a <= published'
        <5>1. a \in Int /\ a <= published
          BY <4>1, <4>2, <4>3
        <5> QED  BY <1>3, <4>3, <5>1
      <4> QED  BY <4>4
    <3> QED  BY <1>1, <1>2, <1>3, <1>4, <3>1, <3>2, <3>3 DEF Numbered
  <2>8. ArrivesInOrder'
    <3>1. ArrivesInOrder /\ Numbered
      BY DEF PairingInv
    <3>2. CASE m.what = "alert"
      <4>1. m.alert = published + 1 /\ published' = published + 1 /\ published \in Int
        BY <1>1, <1>6, <3>2
      <4>2. /\ pending' = pending /\ taken' = taken /\ sent' = sent
            /\ m.alert > pending /\ \A h \in Pairing!Handlers : m.alert > taken[h]
            /\ \A pair \in sent : m.alert > pair[1]
        BY <1>1, <1>2, <3>1, <4>1 DEF Numbered
      <4>3. \A i \in DOMAIN mqtt : mqtt[i].alert < m.alert
        BY <2>4, <3>1, <4>1 DEF Numbered
      <4> HIDE <1>6
      <4>4. \A i \in DOMAIN mqtt' : IsAlert(i)' =>
              /\ mqtt'[i].alert > pending' /\ \A h \in Pairing!Handlers : mqtt'[i].alert > taken'[h]
              /\ \A pair \in sent' : mqtt'[i].alert > pair[1]
        BY <2>1, <2>2, <3>1, <4>2 DEF ArrivesInOrder, IsAlert
      <4>5. \A i, j \in DOMAIN mqtt' :
              i < j /\ IsAlert(i)' /\ IsAlert(j)' => mqtt'[i].alert < mqtt'[j].alert
        BY <2>1, <2>2, <3>1, <4>3 DEF ArrivesInOrder, IsAlert
      <4> QED  BY <4>4, <4>5 DEF ArrivesInOrder
    <3>3. CASE m.what # "alert"
      BY <1>1, <1>2, <1>6, <2>1, <2>2, <2>4, <3>1, <3>3 DEF ArrivesInOrder, IsAlert
    <3> QED  BY <3>2, <3>3
  <2>9. HasPicture'
    BY <1>2, <1>6, <2>1, <2>2 DEF PairingInv, HasPicture
  <2>10. AnnouncedBehind'
    <3>1. AnnouncedBehind /\ Numbered
      BY DEF PairingInv
    <3>2. CASE m.what = "alert"
      <4>1. m.alert \notin announced'
        BY <1>1, <1>6, <2>4, <3>1, <3>2 DEF Numbered
      <4> QED  BY <1>6, <2>1, <2>2, <3>1, <3>2, <4>1 DEF AnnouncedBehind, IsAlert, Announces
    <3>3. CASE m.what = "image_uploaded"
      <4>1. m = [what |-> "image_uploaded", alert |-> published]
        BY <1>6, <3>3 DEF Messages
      <4> QED  BY <1>6, <2>1, <2>2, <3>1, <3>3, <4>1 DEF AnnouncedBehind, IsAlert, Announces
    <3>4. CASE m.what = "image_upload"
      BY <1>6, <2>1, <2>2, <3>1, <3>4 DEF AnnouncedBehind, IsAlert, Announces
    <3> QED  BY <1>6, <3>2, <3>3, <3>4
  <2>11. Pairing!EachAlertOnce'
    BY <1>2 DEF PairingInv, Pairing!EachAlertOnce, Pairing!Notified
  <2>12. Pairing!AnnouncedIsNotHeldBack'
    <3>1. m.what = "image_uploaded" => m = [what |-> "image_uploaded", alert |-> published]
      BY <1>6 DEF Messages
    <3>2. SUFFICES ASSUME NEW a \in announced', pending = a, taken["mqtt"] # -1
                   PROVE  \E i \in DOMAIN mqtt' :
                            mqtt'[i] = [what |-> "image_uploaded", alert |-> a]
      BY <1>2 DEF Pairing!AnnouncedIsNotHeldBack
    <3>3. CASE a \in announced
      <4>1. PICK i \in DOMAIN mqtt : mqtt[i] = [what |-> "image_uploaded", alert |-> a]
        BY <3>2, <3>3 DEF PairingInv, Pairing!AnnouncedIsNotHeldBack
      <4> QED  BY <2>1, <4>1
    <3>4. CASE a \notin announced
      <4>1. a = published /\ m = [what |-> "image_uploaded", alert |-> a]
        BY <1>6, <3>1, <3>2, <3>4
      <4>2. Len(mqtt) + 1 \in DOMAIN mqtt'
        BY <2>1
      <4> QED  BY <2>1, <4>1, <4>2
    <3> QED  BY <3>3, <3>4
  <2> QED
    BY <2>6, <2>7, <2>8, <2>9, <2>10, <2>11, <2>12 DEF PairingInv
<1>7. CASE Pairing!PublishAlert
  <2>1. [what |-> "alert", alert |-> published'] \in Messages /\ published' = published + 1
    BY <1>1, <1>3, <1>7 DEF Pairing!PublishAlert, Messages
  <2> QED  BY <1>6, <1>7, <2>1 DEF Pairing!PublishAlert
<1>8. CASE Pairing!AnnouncePhoto
  <2>1. published \in 1..MaxAlerts /\ published' = published
    BY <1>1, <1>8 DEF Pairing!AnnouncePhoto, PairingInv, Numbered
  <2>2. [what |-> "image_uploaded", alert |-> published] \in Messages
    BY <2>1 DEF Messages
  <2>3. request = 0 => latest # 0
    BY <1>8 DEF Pairing!AnnouncePhoto, PairingInv, HasPicture
  <2> QED  BY <1>5, <1>6, <1>8, <2>1, <2>2, <2>3 DEF Pairing!AnnouncePhoto
<1>9. CASE Pairing!FallBack
  <2>1. published \in 1..MaxAlerts /\ published' = published
    BY <1>1, <1>9 DEF Pairing!FallBack, PairingInv, Numbered
  <2>2. [what |-> "image_upload", alert |-> published] \in Messages
    BY <2>1 DEF Messages
  <2> QED  BY <1>5, <1>6, <1>9, <2>1, <2>2 DEF Pairing!FallBack
<1> QED  BY <1>7, <1>8, <1>9

(* The rest of the bridge and the HTTP thread: no message is sent or taken. *)
LEMMA QuietPairingInv ==
  ASSUME MaxAlerts \in Nat, PendingLimit \in Nat, PairingInv,
         Pairing!TakePhoto \/ Pairing!ReceivePicture \/ Pairing!PairingTick
  PROVE  PairingInv'
<1> USE DEF Pairing!Alerts, Pairing!Pictures, Pairing!NoAlert, Pairing!NoPicture, Pairing!Look,
            Pairing!Handlers, Pairing!bridgeSide
<1>1. /\ UNCHANGED <<published, mqtt, pending, announced, sent>>
      /\ taken' \in {taken, [taken EXCEPT !["http"] = -1]}
      /\ taken' # taken => taken["http"] = 0
      /\ latest' \in {latest, request} /\ (latest' # latest => request # 0)
  BY DEF Pairing!TakePhoto, Pairing!ReceivePicture, Pairing!PairingTick
<1>2. \A h \in {"http", "mqtt"} : taken'[h] \in {taken[h], -1} /\ taken'["mqtt"] = taken["mqtt"]
  BY <1>1 DEF PairingInv, Pairing!PairingTypeOK
<1>3. Pairing!PairingTypeOK'
  <2>1. taken' \in [{"http", "mqtt"} -> 1..MaxAlerts \cup {0, -1}]
    BY <1>1 DEF PairingInv, Pairing!PairingTypeOK
  <2>2. age' \in 0..PendingLimit
    BY DEF PairingInv, Pairing!PairingTypeOK, Pairing!TakePhoto, Pairing!ReceivePicture,
           Pairing!PairingTick
  <2>3. camera' \in {"idle", "photo", "sending", "fall_back"} /\ request' \in 0..MaxAlerts
    BY DEF PairingInv, Pairing!PairingTypeOK, Pairing!TakePhoto, Pairing!ReceivePicture,
           Pairing!PairingTick
  <2>4. latest' \in 0..MaxAlerts
    BY <1>1 DEF PairingInv, Pairing!PairingTypeOK
  <2> QED  BY <1>1, <2>1, <2>2, <2>3, <2>4 DEF PairingInv, Pairing!PairingTypeOK
<1>4. published \in Nat /\ \A h \in {"http", "mqtt"} : taken[h] \in Int
  BY DEF PairingInv, Pairing!PairingTypeOK
<1>5. Numbered'
  <2>1. camera' # "idle" => published > 0
    BY DEF PairingInv, Numbered, Pairing!TakePhoto, Pairing!ReceivePicture, Pairing!PairingTick
  <2> QED  BY <1>1, <1>2, <1>4, <2>1 DEF PairingInv, Numbered
<1>6. ArrivesInOrder'
  <2>1. \A i \in DOMAIN mqtt : mqtt[i] \in Messages
    <3>1. mqtt \in Seq(Messages)
      BY DEF PairingInv, Pairing!PairingTypeOK, Messages
    <3> QED  BY <3>1
  <2>2. \A i \in DOMAIN mqtt : mqtt[i].alert \in 1..MaxAlerts
    BY <2>1 DEF Messages
  <2> QED  BY <1>1, <1>2, <1>4, <2>2 DEF PairingInv, ArrivesInOrder, IsAlert
<1>7. Pairing!EachAlertOnce'
  BY <1>1, <1>2, <1>4 DEF PairingInv, Pairing!EachAlertOnce, Pairing!Notified
<1>8. AnnouncedBehind' /\ Pairing!AnnouncedIsNotHeldBack'
  BY <1>1, <1>2 DEF PairingInv, AnnouncedBehind, IsAlert, Announces, Pairing!AnnouncedIsNotHeldBack
<1>9. HasPicture'
  <2>1. camera' = "sending" /\ request' = 0 => latest' # 0
    <3>1. CASE Pairing!TakePhoto
      BY <3>1 DEF PairingInv, HasPicture, Numbered, Pairing!TakePhoto
    <3>2. CASE Pairing!ReceivePicture
      BY <3>2 DEF Pairing!ReceivePicture
    <3>3. CASE Pairing!PairingTick
      BY <3>3 DEF PairingInv, HasPicture, Pairing!PairingTick
    <3> QED  BY <3>1, <3>2, <3>3
  <2> QED  BY <1>1, <2>1 DEF PairingInv, HasPicture
<1> QED  BY <1>3, <1>5, <1>6, <1>7, <1>8, <1>9 DEF PairingInv

(* The service takes the oldest message.                                   *)
LEMMA ReceiveInv ==
  ASSUME MaxAlerts \in Nat, PendingLimit \in Nat, PairingInv, Pairing!ReceiveMessage
  PROVE  PairingInv'
<1> USE DEF Pairing!Alerts, Pairing!Pictures, Pairing!NoAlert, Pairing!NoPicture, Pairing!Look,
            Pairing!Handlers, Pairing!bridgeSide
<1> DEFINE m == Head(mqtt)
<1>1. /\ mqtt \in Seq(Messages) /\ published \in 0..MaxAlerts /\ pending \in 0..MaxAlerts
      /\ taken \in [{"http", "mqtt"} -> 1..MaxAlerts \cup {0, -1}]
      /\ announced \subseteq 1..MaxAlerts /\ sent \subseteq (1..MaxAlerts) \X (0..MaxAlerts)
      /\ latest \in 0..MaxAlerts /\ age \in 0..PendingLimit
  BY DEF PairingInv, Pairing!PairingTypeOK, Messages
<1>2. /\ mqtt # <<>> /\ taken["mqtt"] = 0 /\ mqtt' = Tail(mqtt)
      /\ pending' = IF m.what = "alert" THEN m.alert ELSE pending
      /\ age' = IF m.what = "alert" THEN 0 ELSE age
      /\ latest' = IF m.what = "image_upload" THEN m.alert ELSE latest
      /\ taken' = [taken EXCEPT !["mqtt"] =
                     IF \/ m.what = "image_upload"
                        \/ m.what = "image_uploaded" /\ latest # 0
                     THEN -1 ELSE taken["mqtt"]]
      /\ UNCHANGED <<published, camera, announced, request, sent>>
  BY DEF Pairing!ReceiveMessage
<1>3. /\ mqtt' \in Seq(Messages) /\ m = mqtt[1] /\ 1 \in DOMAIN mqtt
      /\ DOMAIN mqtt' = 1..(Len(mqtt) - 1) /\ DOMAIN mqtt = 1..Len(mqtt) /\ Len(mqtt) \in Nat
      /\ \A i \in DOMAIN mqtt' : mqtt'[i] = mqtt[i + 1]
  BY <1>1, <1>2
<1>4. \A i \in DOMAIN mqtt' : i + 1 \in DOMAIN mqtt /\ i \in Nat /\ i + 1 > 1
  BY <1>3
<1>5. \A j \in DOMAIN mqtt : j # 1 => j - 1 \in DOMAIN mqtt' /\ mqtt'[j - 1] = mqtt[j]
  <2>1. \A j \in DOMAIN mqtt : j # 1 => j - 1 \in DOMAIN mqtt' /\ (j - 1) + 1 = j
    BY <1>3
  <2> QED  BY <1>3, <2>1
<1>6. \A i \in DOMAIN mqtt : mqtt[i] \in Messages
  BY <1>1
<1>7. \A i \in DOMAIN mqtt : mqtt[i].alert \in 1..MaxAlerts
  BY <1>6 DEF Messages
<1>8. m.alert \in 1..MaxAlerts /\ m.what \in {"alert", "image_uploaded", "image_upload"}
  BY <1>3, <1>6 DEF Messages
<1>9. /\ \A h \in {"http", "mqtt"} : taken'[h] \in {taken[h], -1}
      /\ taken'["http"] = taken["http"]
      /\ m.what = "image_upload" \/ (m.what = "image_uploaded" /\ latest # 0) =>
           taken'["mqtt"] = -1
      /\ taken'["mqtt"] \in {0, -1}
  BY <1>1, <1>2
<1> HIDE DEF m
<1>10. Pairing!PairingTypeOK'
  <2>1. taken' \in [{"http", "mqtt"} -> 1..MaxAlerts \cup {0, -1}]
    BY <1>1, <1>2
  <2>2. pending' \in 0..MaxAlerts /\ latest' \in 0..MaxAlerts /\ age' \in 0..PendingLimit
    BY <1>1, <1>2, <1>8
  <2> QED
    BY <1>2, <1>3, <2>1, <2>2 DEF PairingInv, Pairing!PairingTypeOK, Messages
<1>11. Numbered'
  <2>1. Numbered
    BY DEF PairingInv
  <2>2. m.alert <= published
    BY <1>3, <2>1 DEF Numbered
  <2>3. \A h \in {"http", "mqtt"} : taken'[h] <= published
    BY <1>1, <1>9, <2>1 DEF Numbered
  <2>4. \A i \in DOMAIN mqtt' : mqtt'[i].alert <= published
    BY <1>3, <1>4, <2>1 DEF Numbered
  <2> QED  BY <1>2, <2>1, <2>2, <2>3, <2>4 DEF Numbered
<1>12. ArrivesInOrder'
  <2>1. ArrivesInOrder
    BY DEF PairingInv
  <2>2. ASSUME NEW i \in DOMAIN mqtt', mqtt'[i].what = "alert"
        PROVE  /\ mqtt'[i].alert > pending'
               /\ \A h \in {"http", "mqtt"} : mqtt'[i].alert > taken'[h]
               /\ \A pair \in sent : mqtt'[i].alert > pair[1]
    <3>1. i + 1 \in DOMAIN mqtt /\ 1 < i + 1 /\ mqtt'[i] = mqtt[i + 1] /\ IsAlert(i + 1)
      BY <1>3, <1>4, <2>2 DEF IsAlert
    <3>2. mqtt[i + 1].alert \in 1..MaxAlerts
      BY <1>7, <3>1
    <3>3. /\ mqtt[i + 1].alert > pending
          /\ \A h \in {"http", "mqtt"} : mqtt[i + 1].alert > taken[h]
          /\ \A pair \in sent : mqtt[i + 1].alert > pair[1]
      BY <2>1, <3>1 DEF ArrivesInOrder
    <3>4. m.what = "alert" => m.alert < mqtt[i + 1].alert
      BY <1>3, <2>1, <3>1 DEF ArrivesInOrder, IsAlert
    <3>5. mqtt[i + 1].alert > pending'
      BY <1>2, <1>8, <3>2, <3>3, <3>4
    <3>6. \A h \in {"http", "mqtt"} : mqtt[i + 1].alert > taken'[h]
      BY <1>1, <1>9, <3>2, <3>3
    <3> QED  BY <3>1, <3>3, <3>5, <3>6
  <2>3. ASSUME NEW i \in DOMAIN mqtt', NEW j \in DOMAIN mqtt', i < j,
               mqtt'[i].what = "alert", mqtt'[j].what = "alert"
        PROVE  mqtt'[i].alert < mqtt'[j].alert
    <3>1. /\ i + 1 \in DOMAIN mqtt /\ j + 1 \in DOMAIN mqtt /\ i + 1 < j + 1
          /\ mqtt'[i] = mqtt[i + 1] /\ mqtt'[j] = mqtt[j + 1]
      BY <1>3, <1>4, <2>3
    <3> QED  BY <2>1, <2>3, <3>1 DEF ArrivesInOrder, IsAlert
  <2> QED  BY <1>2, <2>2, <2>3 DEF ArrivesInOrder, IsAlert
<1>13. HasPicture'
  <2>1. latest # 0 => latest' # 0
    BY <1>2, <1>8
  <2> QED  BY <1>2, <1>3, <1>4, <2>1 DEF PairingInv, HasPicture
<1>14. Pairing!EachAlertOnce'
  <2>1. Pairing!EachAlertOnce /\ ArrivesInOrder
    BY DEF PairingInv
  <2>2. m.what = "alert" => ~Pairing!Notified(m.alert) /\ taken["http"] # m.alert
    <3>1. SUFFICES ASSUME m.what = "alert"
                   PROVE  ~Pairing!Notified(m.alert) /\ taken["http"] # m.alert
      OBVIOUS
    <3>2. m.alert > taken["http"] /\ \A pair \in sent : m.alert > pair[1]
      BY <1>3, <2>1, <3>1 DEF ArrivesInOrder, IsAlert
    <3>3. \A pair \in sent : pair[1] # m.alert
      BY <1>1, <1>8, <3>2
    <3> QED  BY <1>1, <1>8, <3>2, <3>3, NewerIsNotNotified
  <2> QED
    BY <1>2, <1>8, <1>9, <2>1, <2>2 DEF Pairing!EachAlertOnce, Pairing!Notified
<1>15. AnnouncedBehind'
  <2>1. SUFFICES ASSUME NEW i \in DOMAIN mqtt', mqtt'[i].what = "alert",
                        mqtt'[i].alert \in announced
                 PROVE  \E j \in DOMAIN mqtt' : j > i /\
                          mqtt'[j] = [what |-> "image_uploaded", alert |-> mqtt'[i].alert]
    BY <1>2 DEF AnnouncedBehind, IsAlert, Announces
  <2>2. PICK j \in DOMAIN mqtt : j > i + 1 /\ Announces(j, mqtt[i + 1].alert)
    BY <1>3, <1>4, <2>1 DEF PairingInv, AnnouncedBehind, IsAlert
  <2>3. j # 1 /\ j - 1 > i
    BY <1>3, <1>4, <2>2
  <2> QED  BY <1>3, <1>5, <2>2, <2>3 DEF Announces
<1>16. Pairing!AnnouncedIsNotHeldBack'
  <2>1. SUFFICES ASSUME NEW a \in announced, pending' = a, taken'["mqtt"] # -1
                 PROVE  \E i \in DOMAIN mqtt' :
                          mqtt'[i] = [what |-> "image_uploaded", alert |-> a]
    BY <1>2 DEF Pairing!AnnouncedIsNotHeldBack
  <2>2. \E j \in DOMAIN mqtt : j # 1 /\ mqtt[j] = [what |-> "image_uploaded", alert |-> a]
    <3>1. CASE m.what = "alert"
      <4>1. mqtt[1].what = "alert" /\ mqtt[1].alert = a
        BY <1>2, <1>3, <2>1, <3>1
      <4>2. PICK j \in DOMAIN mqtt : j > 1 /\ Announces(j, a)
        BY <1>3, <4>1 DEF PairingInv, AnnouncedBehind, IsAlert
      <4>3. j # 1
        BY <1>3, <4>2
      <4> QED  BY <4>2, <4>3 DEF Announces
    <3>2. CASE m.what # "alert"
      <4>1. PICK j \in DOMAIN mqtt : mqtt[j] = [what |-> "image_uploaded", alert |-> a]
        BY <1>2, <2>1, <3>2 DEF PairingInv, Pairing!AnnouncedIsNotHeldBack
      <4>2. mqtt[j].what = "image_uploaded" /\ latest # 0
        BY <4>1 DEF PairingInv, HasPicture
      <4>3. m.what # "image_uploaded"
        BY <1>9, <2>1, <4>2
      <4> QED  BY <1>3, <4>1, <4>2, <4>3
    <3> QED  BY <3>1, <3>2
  <2> QED  BY <1>5, <2>2
<1> QED
  BY <1>10, <1>11, <1>12, <1>13, <1>14, <1>15, <1>16 DEF PairingInv

(* An alert is taken, and sent with what is there.                         *)
LEMMA TakeAlertInv ==
  ASSUME MaxAlerts \in Nat, PendingLimit \in Nat, PairingInv, NEW h \in Pairing!Handlers, Pairing!TakeAlert(h)
  PROVE  PairingInv'
<1> USE DEF Pairing!Alerts, Pairing!Pictures, Pairing!NoAlert, Pairing!NoPicture, Pairing!Look,
            Pairing!Handlers, Pairing!bridgeSide
<1>1. /\ taken[h] = -1 /\ taken' = [taken EXCEPT ![h] = pending] /\ pending' = 0 /\ age' = 0
      /\ UNCHANGED <<published, camera, announced, mqtt, request, latest, sent>>
  BY DEF Pairing!TakeAlert
<1>2. /\ taken \in [{"http", "mqtt"} -> 1..MaxAlerts \cup {0, -1}] /\ pending \in 0..MaxAlerts
      /\ announced \subseteq 1..MaxAlerts
  BY DEF PairingInv, Pairing!PairingTypeOK
<1>3. taken'[h] = pending /\ \A g \in {"http", "mqtt"} : g # h => taken'[g] = taken[g]
  BY <1>1, <1>2
<1>4. Pairing!PairingTypeOK'
  <2>1. taken' \in [{"http", "mqtt"} -> 1..MaxAlerts \cup {0, -1}]
    BY <1>1, <1>2
  <2>2. age' \in 0..PendingLimit /\ pending' \in 0..MaxAlerts
    BY <1>1 DEF PairingInv, Pairing!PairingTypeOK
  <2> QED  BY <1>1, <2>1, <2>2 DEF PairingInv, Pairing!PairingTypeOK
<1>5. Numbered' /\ ArrivesInOrder'
  <2>1. \A i \in DOMAIN mqtt : mqtt[i] \in Messages
    <3>1. mqtt \in Seq(Messages)
      BY DEF PairingInv, Pairing!PairingTypeOK, Messages
    <3> QED  BY <3>1
  <2>2. \A i \in DOMAIN mqtt : mqtt[i].alert \in 1..MaxAlerts
    BY <2>1 DEF Messages
  <2>3. published \in Nat
    BY DEF PairingInv, Pairing!PairingTypeOK
  <2>4. Numbered'
    BY <1>1, <1>2, <1>3, <2>3 DEF PairingInv, Numbered
  <2>5. ArrivesInOrder'
    BY <1>1, <1>2, <1>3, <2>2 DEF PairingInv, ArrivesInOrder, IsAlert
  <2> QED  BY <2>4, <2>5
<1>6. Pairing!EachAlertOnce'
  BY <1>1, <1>2, <1>3 DEF PairingInv, Pairing!EachAlertOnce, Pairing!Notified
<1>7. (HasPicture /\ AnnouncedBehind)'
  BY <1>1 DEF PairingInv, HasPicture, AnnouncedBehind, IsAlert, Announces
<1>8. Pairing!AnnouncedIsNotHeldBack'
  BY <1>1, <1>2 DEF Pairing!AnnouncedIsNotHeldBack
<1> QED  BY <1>4, <1>5, <1>6, <1>7, <1>8 DEF PairingInv

LEMMA SendAlertInv ==
  ASSUME MaxAlerts \in Nat, PendingLimit \in Nat, PairingInv,
         Pairing!CheckPending \/ \E h \in Pairing!Handlers : Pairing!SendAlert(h)
  PROVE  PairingInv'
<1> USE DEF Pairing!Alerts, Pairing!Pictures, Pairing!NoAlert, Pairing!NoPicture, Pairing!Look,
            Pairing!Handlers, Pairing!bridgeSide
<1>1. /\ taken \in [{"http", "mqtt"} -> 1..MaxAlerts \cup {0, -1}] /\ pending \in 0..MaxAlerts
      /\ latest \in 0..MaxAlerts /\ sent \subseteq (1..MaxAlerts) \X (0..MaxAlerts)
      /\ announced \subseteq 1..MaxAlerts /\ age \in 0..PendingLimit /\ published \in 0..MaxAlerts
  BY DEF PairingInv, Pairing!PairingTypeOK
<1>2. PICK a \in 1..MaxAlerts :
        /\ sent' = sent \cup {<<a, latest>>}
        /\ UNCHANGED <<published, camera, announced, mqtt, request, latest>>
        /\ \/ /\ a = pending /\ pending' = 0 /\ age' = 0 /\ taken' = taken
           \/ /\ \E h \in {"http", "mqtt"} : taken[h] = a /\ taken' = [taken EXCEPT ![h] = 0]
              /\ pending' = pending /\ age' = age
  <2>1. CASE Pairing!CheckPending
    BY <1>1, <2>1 DEF Pairing!CheckPending
  <2>2. CASE \E h \in Pairing!Handlers : Pairing!SendAlert(h)
    <3>1. PICK h \in {"http", "mqtt"} : Pairing!SendAlert(h)
      BY <2>2
    <3>2. taken[h] \in 1..MaxAlerts
      BY <1>1, <3>1 DEF Pairing!SendAlert
    <3> QED  BY <3>1, <3>2 DEF Pairing!SendAlert
  <2> QED  BY <2>1, <2>2
<1>3. /\ \A h \in {"http", "mqtt"} : taken'[h] \in {taken[h], 0} /\ taken'[h] # a
      /\ pending' \in {pending, 0} /\ pending' # a
      /\ a = pending \/ \E h \in {"http", "mqtt"} : a = taken[h]
  BY <1>1, <1>2 DEF PairingInv, Pairing!EachAlertOnce
<1>4. /\ \A pair \in sent' : pair \in sent \/ pair[1] = a
      /\ \A b \in 1..MaxAlerts : Pairing!Notified(b)' => Pairing!Notified(b) \/ b = a
  BY <1>1, <1>2 DEF Pairing!Notified
<1>5. Pairing!PairingTypeOK'
  <2>1. taken' \in [{"http", "mqtt"} -> 1..MaxAlerts \cup {0, -1}]
    BY <1>1, <1>2
  <2>2. age' \in 0..PendingLimit /\ pending' \in 0..MaxAlerts
    BY <1>1, <1>2
  <2>3. sent' \subseteq (1..MaxAlerts) \X (0..MaxAlerts)
    BY <1>1, <1>2
  <2> QED  BY <1>2, <2>1, <2>2, <2>3 DEF PairingInv, Pairing!PairingTypeOK
<1>6. Numbered'
  BY <1>1, <1>2, <1>3, <1>4 DEF PairingInv, Numbered
<1>7. ArrivesInOrder'
  <2>1. \A i \in DOMAIN mqtt : mqtt[i] \in Messages
    <3>1. mqtt \in Seq(Messages)
      BY DEF PairingInv, Pairing!PairingTypeOK, Messages
    <3> QED  BY <3>1
  <2>2. \A i \in DOMAIN mqtt : mqtt[i].alert \in 1..MaxAlerts
    BY <2>1 DEF Messages
  <2>3. ArrivesInOrder
    BY DEF PairingInv
  <2>4. \A i \in DOMAIN mqtt : IsAlert(i) => mqtt[i].alert > a
    BY <1>3, <2>3 DEF ArrivesInOrder
  <2> QED  BY <1>1, <1>2, <1>3, <1>4, <2>2, <2>3, <2>4 DEF ArrivesInOrder, IsAlert
<1>8. Pairing!EachAlertOnce'
  BY <1>1, <1>2, <1>3, <1>4 DEF PairingInv, Pairing!EachAlertOnce
<1>9. (HasPicture /\ AnnouncedBehind)'
  BY <1>2 DEF PairingInv, HasPicture, AnnouncedBehind, IsAlert, Announces
<1>10. Pairing!AnnouncedIsNotHeldBack'
  <2>1. taken["mqtt"] = -1 => taken'["mqtt"] = -1
    BY <1>1, <1>2
  <2> QED  BY <1>1, <1>2, <2>1 DEF PairingInv, Pairing!AnnouncedIsNotHeldBack
<1> QED  BY <1>5, <1>6, <1>7, <1>8, <1>9, <1>10 DEF PairingInv

LEMMA PairingNextInv ==
  ASSUME MaxAlerts \in Nat, PendingLimit \in Nat, PairingInv, [Next]_vars
  PROVE  PairingInv'
<1>1. CASE Pairing!PairingNext
  BY <1>1, BridgeSendsInv, QuietPairingInv, ReceiveInv, TakeAlertInv, SendAlertInv
     DEF Pairing!PairingNext, Pairing!Bridge, Pairing!Handle
<1>2. CASE UNCHANGED pairingVars
  <2>1. UNCHANGED <<published, camera, mqtt, request, pending, age, latest, taken, announced, sent>>
    BY <1>2 DEF pairingVars
  <2>2. (Pairing!PairingTypeOK /\ Numbered)'
    BY <2>1 DEF PairingInv, Pairing!PairingTypeOK, Numbered
  <2>3. (ArrivesInOrder /\ Pairing!EachAlertOnce)'
    BY <2>1 DEF PairingInv, ArrivesInOrder, IsAlert, Pairing!EachAlertOnce, Pairing!Notified
  <2>4. (HasPicture /\ AnnouncedBehind /\ Pairing!AnnouncedIsNotHeldBack)'
    BY <2>1 DEF PairingInv, HasPicture, AnnouncedBehind, IsAlert, Announces,
       Pairing!AnnouncedIsNotHeldBack
  <2> QED  BY <2>2, <2>3, <2>4 DEF PairingInv
<1> QED
  BY <1>1, <1>2 DEF Next, ServerStep, HalStep, SessionStep, PairingStep, vars

LEMMA PairingInitInv ==
  ASSUME MaxAlerts \in Nat, PendingLimit \in Nat, Init
  PROVE  PairingInv
<1>1. Pairing!PairingInit
  BY DEF Init
<1> USE DEF Pairing!PairingInit, Pairing!Alerts, Pairing!Pictures, Pairing!NoAlert,
            Pairing!NoPicture, Pairing!Look, Pairing!Handlers
<1>2. Pairing!PairingTypeOK
  BY <1>1 DEF Pairing!PairingTypeOK
<1>3. Numbered /\ ArrivesInOrder /\ HasPicture /\ AnnouncedBehind
  BY <1>1 DEF Numbered, ArrivesInOrder, HasPicture, AnnouncedBehind
<1>4. Pairing!EachAlertOnce /\ Pairing!AnnouncedIsNotHeldBack
  BY <1>1 DEF Pairing!EachAlertOnce, Pairing!AnnouncedIsNotHeldBack
<1> QED  BY <1>2, <1>3, <1>4 DEF PairingInv

(* For any number of alerts and any time-out: the two threads and the       *)
(* time-out never send an alert twice, and none whose picture was announced *)
(* waits for the time-out.                                                  *)
THEOREM AlertsShared ==
  ASSUME MaxAlerts \in Nat, PendingLimit \in Nat
  PROVE  Spec => []AlertsGoOutOnce
<1>1. Init => PairingInv
  BY PairingInitInv
<1>2. PairingInv /\ [Next]_vars => PairingInv'
  BY PairingNextInv
<1>3. PairingInv => AlertsGoOutOnce
  BY DEF PairingInv, AlertsGoOutOnce, Pairing!AlertsGoOutOnce
<1> QED  BY <1>1, <1>2, <1>3, PTL DEF Spec

-----------------------------------------------------------------------------
(* All variables of the four parts keep their types.                       *)
THEOREM TypeCorrect ==
  ASSUME ServerLimits, SessionLimits,
         FailureThreshold \in Nat, RetryInterval \in Nat, MaxAlerts \in Nat, PendingLimit \in Nat
  PROVE  Spec => []TypeOK
<1> DEFINE AllInv == ServerInv /\ SessionInv /\ HalInv /\ PairingInv
<1>1. Init => AllInv
  BY StartInv, HalInitInv, PairingInitInv, SessionInitInv DEF Init
<1>2. AllInv /\ [Next]_vars => AllInv'
  BY ServerNextInv, SessionNextInv, HalNextInv, PairingNextInv
<1>3. AllInv => TypeOK
  BY DEF TypeOK, ServerInv, SessionInv, HalInv, PairingInv
<1> QED  BY <1>1, <1>2, <1>3, PTL DEF Spec
=============================================================================
