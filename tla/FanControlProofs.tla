-------------------------- MODULE FanControlProofs --------------------------
(***************************************************************************)
(* Proofs about FanControl, for every threshold, hold time, fan time and    *)
(* debounce count, and every temperature range, whatever the worker, the    *)
(* web API and failing calls do to the relay: types, the priority of smoke, *)
(* what the bridge knows of its relay, the fan in ALERT, and that no ALERT  *)
(* ends unannounced.                                                        *)
(***************************************************************************)
EXTENDS FanControl, TLAPS

-----------------------------------------------------------------------------
(***************************************************************************)
(* Inductive invariants.                                                    *)
(***************************************************************************)
Switchers == {"telemetry", "worker", "other"}

(* Which part of which round goes with which state: g_fusion_state changes  *)
(* only as a round begins or ends, and only from SAFE and MONITOR as it     *)
(* begins.                                                                  *)
RoundInv ==
  /\ pc # "idle" /\ round \in {"ALERT", "COOLDOWN"} => g_fusion_state = round
  /\ pc # "idle" /\ g_fusion_state = "COOLDOWN" => round = "COOLDOWN"
  /\ g_alert_sent_flag => g_fusion_state = "ALERT" /\ (pc # "idle" => round = "ALERT")
  /\ pc = "force" => round = "ALERT"
  /\ pc = "temp" => round # "ALERT"

(* The flag that lets an ALERT be announced once tells whether it was.      *)
AnnouncedInv == g_fusion_state = "ALERT" => (announced <=> g_alert_sent_flag)

(* An ALERT round that the bridge was the last to switch in ends with the   *)
(* fan on, and the bridge does not turn it off between rounds.              *)
FanOnInv ==
  /\ pc = "close" /\ round = "ALERT" /\ lastSwitch = "telemetry" => relay = 1
  /\ FanRunsInAlert

-----------------------------------------------------------------------------
(* The constants of time, one by one.                                       *)
LEMMA Times ==
  /\ DebounceCount \in Nat \ {0} /\ AlertHold \in Nat \ {0} /\ CoolHold \in Nat \ {0}
  /\ MonitorHold \in Nat \ {0} /\ FanHold \in Nat \ {0} /\ FaultTimeout \in Nat \ {0}
  /\ AlertInterval \in Nat \ {0}
BY TimeAssumption

(* stateAge is counted past every hold time before it stops.                *)
LEMMA MaxAgeBound ==
  /\ MaxAge \in Nat
  /\ MaxAge >= AlertHold + 1 /\ MaxAge >= CoolHold + 1 /\ MaxAge >= MonitorHold + 1
<1> DEFINE IsLongest(h) == \A other \in Holds : other <= h
           longest == CHOOSE h \in Holds : IsLongest(h)
<1>1. \E h \in Holds : IsLongest(h)
  BY Times DEF Holds
<1>2. longest \in Holds /\ IsLongest(longest)
  BY <1>1
<1>3. MaxAge = 1 + longest
  BY DEF MaxAge
<1> HIDE DEF longest
<1>4. QED
  BY <1>2, <1>3, Times DEF Holds

LEMMA OlderType ==
  ASSUME NEW limit \in Nat, NEW age \in -1 .. limit
  PROVE  /\ Older(age, limit) \in -1 .. limit
         /\ age # NotSet => Older(age, limit) \in 0 .. limit
BY DEF Older, UpTo, NotSet

LEMMA SoonerType ==
  ASSUME NEW limit \in Nat, NEW left \in -1 .. limit
  PROVE  Sooner(left) \in -1 .. limit
BY DEF Sooner

LEMMA UpToType ==
  ASSUME NEW limit \in Nat, NEW n \in Nat
  PROVE  UpTo(limit, n) \in 0 .. limit
BY DEF UpTo

(* Whatever a relay call reports, the relay is where it was or where it was *)
(* told to go.                                                              *)
LEMMA RelayCallType ==
  ASSUME NEW caller \in {"telemetry", "worker"}, NEW v \in {0, 1}, NEW ok \in BOOLEAN,
         relay \in {0, 1}, RelayCall(caller, v, ok)
  PROVE  /\ relay' \in {relay, v} /\ relay' \in {0, 1} /\ lastSwitch' \in {caller, "other"}
         /\ lastSwitch' = caller => ok /\ relay' = v
BY DEF RelayCall

LEMMA SwitchFanType ==
  ASSUME NEW v \in {0, 1}, relay \in {0, 1}, SwitchFan(v)
  PROVE  /\ relay' \in {relay, v} /\ relay' \in {0, 1} /\ pendingFan' \in {Nothing, 0, 1}
         /\ lastSwitch' \in {"telemetry", "other"}
         /\ lastSwitch' = "telemetry" => relay' = v /\ pendingFan' = v
<1>1. PICK ok \in BOOLEAN :
        RelayCall("telemetry", v, ok) /\ pendingFan' = IF ok THEN v ELSE Nothing
  BY DEF SwitchFan
<1>2. QED
  BY <1>1, RelayCallType

USE DEF Switchers

-----------------------------------------------------------------------------
LEMMA InitType == Init => TypeOK
<1> SUFFICES ASSUME Init PROVE TypeOK
  OBVIOUS
<1>1. stateAge \in 0 .. MaxAge
  BY MaxAgeBound DEF Init
<1>2. smoke_debounce_cnt \in 0 .. DebounceCount /\ faultAlertAge \in 0 .. AlertInterval + 1
  BY Times DEF Init
<1>3. alarmAge \in Ages(FaultTimeout) /\ fanLeft \in Ages(FanHold)
  BY Times DEF Init, Ages, NotSet
<1>4. relay \in {0, 1}
  BY DisturbanceAssumption DEF Init
<1>5. QED
  BY <1>1, <1>2, <1>3, <1>4 DEF Init, TypeOK, States

LEMMA BeginRoundType ==
  ASSUME TypeOK, BeginRound
  PROVE  TypeOK'
<1> DEFINE age == Older(stateAge, MaxAge)
<1>1. /\ alarmAge \in -1 .. FaultTimeout /\ fanLeft \in -1 .. FanHold
      /\ faultAlertAge \in -1 .. AlertInterval + 1 /\ faultAlertAge # NotSet
      /\ stateAge \in -1 .. MaxAge /\ stateAge # NotSet /\ AlertInterval + 1 \in Nat
  BY Times, MaxAgeBound DEF TypeOK, Ages, NotSet
<1>2. age \in 0 .. MaxAge /\ 0 \in 0 .. MaxAge
  BY <1>1, MaxAgeBound, OlderType
<1>3. /\ alarmAge' \in Ages(FaultTimeout) /\ fanLeft' \in Ages(FanHold)
      /\ faultAlertAge' \in 0 .. AlertInterval + 1
  BY <1>1, Times, OlderType, SoonerType DEF BeginRound, Ages, NotSet
<1> HIDE DEF age
<1>4. PICK newState \in States :
        /\ g_fusion_state' = newState
        /\ stateAge' = IF newState # g_fusion_state THEN 0 ELSE age
        /\ pc' = FirstPart(g_fusion_state, newState)
  BY DEF BeginRound, age
<1>5. pc' \in {"idle", "smoke", "force", "temp", "close"} /\ stateAge' \in 0 .. MaxAge
  BY <1>2, <1>4 DEF FirstPart
<1>6. /\ smoke' \in {ReadFailed, Alarm, Clear} /\ temp' \in Temps \cup {ReadFailed}
      /\ round' \in States /\ g_fusion_state' \in States /\ published' = {}
      /\ announced' \in BOOLEAN /\ lastSwitch' = lastSwitch
  BY <1>4 DEF BeginRound, Unread, TypeOK
<1>7. QED
  BY <1>3, <1>5, <1>6 DEF BeginRound, TypeOK

(* What the smoke control may do to the relay, in whichever of its cases:   *)
(* nothing, switch it on, or switch it off with clear air and the fan time  *)
(* over.                                                                    *)
LEMMA SmokeControlRelay ==
  ASSUME TypeOK, SmokeControl
  PROVE  /\ relay' \in {0, 1} /\ pendingFan' \in {Nothing, 0, 1} /\ lastSwitch' \in Switchers
         /\ relay' # relay /\ relay' = 0 => smoke = Clear /\ fanLeft = 0
<1>1. relay \in {0, 1} /\ pendingFan \in {Nothing, 0, 1} /\ lastSwitch \in Switchers
  BY DEF TypeOK
<1>2. CASE LeaveFan
  BY <1>1, <1>2 DEF LeaveFan
<1>3. CASE SwitchFan(1)
  BY <1>1, <1>3, SwitchFanType
<1>4. CASE SwitchFan(0) /\ smoke = Clear /\ fanLeft = 0
  BY <1>1, <1>4, SwitchFanType
<1>5. QED
  BY <1>2, <1>3, <1>4
     DEF SmokeControl, SmokeUnread, SmokeDebounced, SmokeFault, SmokeFanOn, SmokeCleared

LEMMA SmokeControlType ==
  ASSUME TypeOK, SmokeControl
  PROVE  TypeOK'
<1>1. /\ smoke_debounce_cnt \in Nat /\ smoke_debounce_cnt <= DebounceCount
      /\ alarmAge \in -1 .. FaultTimeout /\ fanLeft \in -1 .. FanHold
      /\ faultAlertAge \in 0 .. AlertInterval + 1 /\ smoke_sensor_fault \in BOOLEAN
      /\ published \subseteq {"smoke", "smoke_sensor_fault"}
  BY Times DEF TypeOK, Ages, NotSet
<1>2. 0 \in 0 .. DebounceCount /\ 0 \in 0 .. AlertInterval + 1
      /\ UpTo(DebounceCount, smoke_debounce_cnt + 1) \in 0 .. DebounceCount
  BY <1>1, Times, UpToType
<1>3. smoke_debounce_cnt' \in 0 .. DebounceCount
  BY <1>1, <1>2, Times
     DEF SmokeControl, SmokeUnread, SmokeDebounced, SmokeFault, SmokeFanOn,
         SmokeCleared, CountedAlarm, smokeVars
<1>4. alarmAge' \in -1 .. FaultTimeout /\ fanLeft' \in -1 .. FanHold
  BY <1>1, Times
     DEF SmokeControl, SmokeUnread, SmokeDebounced, SmokeFault, SmokeFanOn,
         SmokeCleared, CountedAlarm, smokeVars, NotSet
<1>5. /\ faultAlertAge' \in 0 .. AlertInterval + 1 /\ smoke_sensor_fault' \in BOOLEAN
      /\ published' \subseteq {"smoke", "smoke_sensor_fault"}
  BY <1>1, <1>2
     DEF SmokeControl, SmokeUnread, SmokeDebounced, SmokeFault, SmokeFanOn,
         SmokeCleared, CountedAlarm, smokeVars
<1>6. relay' \in {0, 1} /\ pendingFan' \in {Nothing, 0, 1} /\ lastSwitch' \in Switchers
  BY SmokeControlRelay
<1>7. /\ round' = round /\ g_fusion_state' = g_fusion_state /\ stateAge' = stateAge
      /\ smoke' = smoke /\ temp' = temp /\ fan_state' = fan_state
      /\ workerPending' = workerPending /\ g_alert_sent_flag' = g_alert_sent_flag
      /\ announced' = announced /\ pc' \in {"force", "temp"}
  BY DEF SmokeControl, fusion, sensors
<1>8. alarmAge' \in Ages(FaultTimeout) /\ fanLeft' \in Ages(FanHold)
  BY <1>4 DEF Ages, NotSet
<1>9. QED
  BY <1>3, <1>5, <1>6, <1>7, <1>8 DEF TypeOK

(* The two other parts that may switch the fan.                             *)
LEMMA ForceFanRelay ==
  ASSUME TypeOK, ForceFan
  PROVE  /\ relay' \in {relay, 1} /\ relay' \in {0, 1} /\ pendingFan' \in {Nothing, 0, 1}
         /\ lastSwitch' \in Switchers
BY SwitchFanType DEF ForceFan, LeaveFan, TypeOK

LEMMA TempControlRelay ==
  ASSUME TypeOK, TempControl
  PROVE  /\ relay' \in {0, 1} /\ pendingFan' \in {Nothing, 0, 1} /\ lastSwitch' \in Switchers
         /\ relay' # relay /\ relay' = 0 => ~TempSuspended
<1>1. relay \in {0, 1} /\ pendingFan \in {Nothing, 0, 1} /\ lastSwitch \in Switchers
  BY DEF TypeOK
<1>2. CASE LeaveFan
  BY <1>1, <1>2 DEF LeaveFan
<1>3. CASE SwitchFan(1)
  BY <1>1, <1>3, SwitchFanType
<1>4. CASE SwitchFan(0) /\ ~TempSuspended
  BY <1>1, <1>4, SwitchFanType
<1>5. QED
  BY <1>2, <1>3, <1>4 DEF TempControl

(* Every step keeps the types.                                              *)
LEMMA TypeStep ==
  ASSUME TypeOK, [Next]_vars
  PROVE  TypeOK'
<1>1. CASE BeginRound
  BY <1>1, BeginRoundType
<1>2. CASE SmokeControl
  BY <1>2, SmokeControlType
<1>3. CASE ForceFan
  <2>1. relay' \in {0, 1} /\ pendingFan' \in {Nothing, 0, 1} /\ lastSwitch' \in Switchers
    BY <1>3, ForceFanRelay
  <2>2. QED
    BY <1>3, <2>1 DEF ForceFan, fusion, sensors, smokeVars, alerts, TypeOK
<1>4. CASE TempControl
  <2>1. relay' \in {0, 1} /\ pendingFan' \in {Nothing, 0, 1} /\ lastSwitch' \in Switchers
    BY <1>4, TempControlRelay
  <2>2. QED
    BY <1>4, <2>1 DEF TempControl, fusion, sensors, smokeVars, alerts, TypeOK
<1>5. CASE StoreFanState
  BY <1>5 DEF StoreFanState, Overtaken, fusion, sensors, smokeVars, alerts, TypeOK
<1>6. CASE EndRound
  <2>1. 0 \in 0 .. MaxAge
    BY MaxAgeBound
  <2>2. /\ g_fusion_state' \in States /\ stateAge' \in 0 .. MaxAge
        /\ g_alert_sent_flag' \in BOOLEAN /\ announced' \in BOOLEAN
        /\ published' \subseteq {"smoke", "smoke_sensor_fault"}
    BY <1>6, <2>1
       DEF EndRound, CloseAlert, AnnounceOnce, CloseCooldown, EnterState, alerts, States, TypeOK
  <2>3. QED
    BY <1>6, <2>2 DEF EndRound, sensors, smokeVars, TypeOK
<1>7. CASE \E v \in {0, 1} : WorkerSwitches(v)
  <2>1. PICK v \in {0, 1}, ok \in BOOLEAN :
          RelayCall("worker", v, ok) /\ workerPending' = IF ok THEN v ELSE Nothing
    BY <1>7 DEF WorkerSwitches
  <2>2. relay' \in {0, 1} /\ workerPending' \in {Nothing, 0, 1} /\ lastSwitch' \in Switchers
    BY <2>1, RelayCallType DEF TypeOK
  <2>3. QED
    BY <1>7, <2>2 DEF WorkerSwitches, fusion, sensors, smokeVars, alerts, TypeOK
<1>8. CASE \E v \in {0, 1} : WebSwitches(v)
  BY <1>8 DEF WebSwitches, fusion, sensors, smokeVars, alerts, TypeOK
<1>9. CASE WorkerStores
  BY <1>9 DEF WorkerStores, Overtaken, fusion, sensors, smokeVars, alerts, TypeOK
<1>10. CASE UNCHANGED vars
  BY <1>10 DEF vars, fusion, sensors, smokeVars, alerts, TypeOK
<1>11. QED
  BY <1>1, <1>2, <1>3, <1>4, <1>5, <1>6, <1>7, <1>8, <1>9, <1>10
     DEF Next, TelemetryStep

(* The bridge's state, its timers and the relay always have their types.    *)
THEOREM TypeCorrect == Spec => []TypeOK
<1>1. Init => TypeOK
  BY InitType
<1>2. TypeOK /\ [Next]_vars => TypeOK'
  BY TypeStep
<1>3. QED
  BY <1>1, <1>2, PTL DEF Spec

-----------------------------------------------------------------------------
(* One step of a round that turns the fan off does so in clear (or unread)  *)
(* air with no fan time left.                                               *)
LEMMA SmokePriorityStep ==
  ASSUME TypeOK, [Next]_vars, pc' # pc, relay = 1, relay' = 0
  PROVE  smoke # Alarm /\ fanLeft <= 0
<1>1. CASE SmokeControl
  BY <1>1, SmokeControlRelay DEF Alarm, Clear
<1>2. CASE ForceFan
  BY <1>2, ForceFanRelay
<1>3. CASE TempControl
  <2>1. ~TempSuspended
    BY <1>3, TempControlRelay
  <2>2. fanLeft \in Int
    BY Times DEF TypeOK, Ages, NotSet
  <2>3. QED
    BY <2>1, <2>2 DEF TempSuspended
<1>4. QED
  BY <1>1, <1>2, <1>3
     DEF Next, TelemetryStep, BeginRound, StoreFanState, EndRound, WorkerSwitches,
         WebSwitches, WorkerStores, vars

(* Smoke before temperature: no part of a round turns the fan off while     *)
(* smoke is read or before the fan time smoke asked for is over, whatever   *)
(* the command worker, the web API and failing calls do in between.         *)
THEOREM SmokeFirst == Spec => SmokeHasPriority
<1>1. TypeOK /\ [Next]_vars =>
        [pc' # pc /\ relay = 1 /\ relay' = 0 => smoke # Alarm /\ fanLeft <= 0]_vars
  BY SmokePriorityStep
<1>2. QED
  BY <1>1, TypeCorrect, PTL DEF Spec, SmokeHasPriority

-----------------------------------------------------------------------------
(* What the steps of a round do to the state machine, and that no other     *)
(* step touches it.                                                         *)
LEMMA BeginRoundMoves ==
  ASSUME TypeOK, BeginRound
  PROVE  /\ pc = "idle" /\ pc' \in {"smoke", "temp"} /\ round' = g_fusion_state
         /\ g_alert_sent_flag' = g_alert_sent_flag /\ lastSwitch' = lastSwitch
         /\ announced' = (announced /\ g_fusion_state' = g_fusion_state)
         /\ relay' = relay /\ fan_state' = fan_state
         /\ pendingFan' = pendingFan /\ workerPending' = workerPending
         /\ g_fusion_state \in {"ALERT", "COOLDOWN"} =>
              g_fusion_state' = g_fusion_state /\ pc' = "smoke"
         /\ g_fusion_state' # g_fusion_state => stateAge' = 0
         /\ g_fusion_state' = g_fusion_state => stateAge' = Older(stateAge, MaxAge)
         /\ g_fusion_state' = "COOLDOWN" => g_fusion_state = "COOLDOWN"
<1> DEFINE age == Older(stateAge, MaxAge)
<1> HIDE DEF age
<1>1. PICK newState \in States :
        /\ MayMoveTo(g_fusion_state, smoke', age, newState)
        /\ g_fusion_state' = newState
        /\ stateAge' = IF newState # g_fusion_state THEN 0 ELSE age
        /\ pc' = FirstPart(g_fusion_state, newState)
        /\ announced' = (announced /\ newState = g_fusion_state)
  BY DEF BeginRound, age
<1>2. /\ pc' \in {"smoke", "temp"}
      /\ g_fusion_state \in {"ALERT", "COOLDOWN"} =>
              newState = g_fusion_state /\ pc' = "smoke"
      /\ newState = "COOLDOWN" => g_fusion_state = "COOLDOWN"
  BY <1>1 DEF FirstPart, MayMoveTo
<1>3. QED
  BY <1>1, <1>2 DEF BeginRound, age

LEMMA EndRoundMoves ==
  ASSUME TypeOK, EndRound
  PROVE  /\ pc = "close" /\ pc' = "idle" /\ round' = round
         /\ relay' = relay /\ fan_state' = fan_state /\ lastSwitch' = lastSwitch
         /\ pendingFan' = pendingFan /\ workerPending' = workerPending
         /\ round = "ALERT" => CloseAlert
         /\ round = "COOLDOWN" => CloseCooldown
         /\ round \notin {"ALERT", "COOLDOWN"} =>
              UNCHANGED <<g_fusion_state, stateAge, alerts>>
BY DEF EndRound

(* The parts between, and the steps of the others.                          *)
LEMMA OtherSteps ==
  ASSUME TypeOK, [Next]_vars
  PROVE  \/ BeginRound
         \/ EndRound
         \/ /\ UNCHANGED <<fusion, g_alert_sent_flag, announced>>
            /\ \/ UNCHANGED pc
               \/ SmokeControl /\ pc = "smoke"
                               /\ pc' = IF round = "ALERT" THEN "force" ELSE "temp"
               \/ ForceFan /\ pc = "force" /\ pc' = "close"
               \/ TempControl /\ pc = "temp" /\ pc' = "close"
<1> USE DEF alerts
<1>1. CASE SmokeControl
  BY <1>1 DEF SmokeControl
<1>2. CASE ForceFan
  BY <1>2 DEF ForceFan
<1>3. CASE TempControl
  BY <1>3 DEF TempControl
<1>4. CASE StoreFanState
  BY <1>4 DEF StoreFanState
<1>5. CASE \E v \in {0, 1} : WorkerSwitches(v) \/ WebSwitches(v)
  BY <1>5 DEF WorkerSwitches, WebSwitches
<1>6. CASE WorkerStores
  BY <1>6 DEF WorkerStores
<1>7. CASE UNCHANGED vars
  BY <1>7 DEF vars
<1>8. QED
  BY <1>1, <1>2, <1>3, <1>4, <1>5, <1>6, <1>7 DEF Next, TelemetryStep

(* A round keeps to the state it began in.                                  *)
LEMMA RoundStep ==
  ASSUME TypeOK, RoundInv, [Next]_vars
  PROVE  RoundInv'
<1>1. CASE BeginRound
  BY <1>1, BeginRoundMoves DEF RoundInv
<1>2. CASE EndRound
  <2>1. CASE round = "ALERT"
    BY <1>2, <2>1, EndRoundMoves DEF RoundInv, CloseAlert, EnterState
  <2>2. CASE round = "COOLDOWN"
    BY <1>2, <2>2, EndRoundMoves DEF RoundInv, CloseCooldown, EnterState, alerts
  <2>3. CASE round \notin {"ALERT", "COOLDOWN"}
    BY <1>2, <2>3, EndRoundMoves DEF RoundInv, alerts
  <2>4. QED
    BY <2>1, <2>2, <2>3
<1>3. CASE /\ UNCHANGED <<fusion, g_alert_sent_flag>>
           /\ \/ UNCHANGED pc
              \/ pc = "smoke" /\ pc' = IF round = "ALERT" THEN "force" ELSE "temp"
              \/ pc = "force" /\ pc' = "close"
              \/ pc = "temp" /\ pc' = "close"
  BY <1>3 DEF RoundInv, fusion
<1>4. QED
  BY <1>1, <1>2, <1>3, OtherSteps

LEMMA RoundAlways == Spec => []RoundInv
<1>1. Init => RoundInv
  BY DEF Init, RoundInv
<1>2. TypeOK /\ RoundInv /\ [Next]_vars => RoundInv'
  BY RoundStep
<1>3. QED
  BY <1>1, <1>2, TypeCorrect, PTL DEF Spec

-----------------------------------------------------------------------------
(* The flag is put back as ALERT ends, so the next ALERT starts without it. *)
LEMMA AnnouncedStep ==
  ASSUME TypeOK, RoundInv, AnnouncedInv, [Next]_vars
  PROVE  /\ AnnouncedInv'
         /\ g_fusion_state = "ALERT" /\ g_fusion_state' # "ALERT" => announced'
<1>1. CASE BeginRound
  <2>1. g_alert_sent_flag \in BOOLEAN /\ announced \in BOOLEAN
    BY DEF TypeOK
  <2>2. CASE g_fusion_state = "ALERT"
    BY <1>1, <2>1, <2>2, BeginRoundMoves DEF AnnouncedInv
  <2>3. CASE g_fusion_state # "ALERT"
    <3>1. ~g_alert_sent_flag /\ ~g_alert_sent_flag'
      BY <1>1, <2>1, <2>3, BeginRoundMoves DEF RoundInv
    <3>2. g_fusion_state' = "ALERT" => ~announced'
      BY <1>1, <2>3, BeginRoundMoves
    <3>3. QED
      BY <2>3, <3>1, <3>2 DEF AnnouncedInv
  <2>4. QED
    BY <2>2, <2>3
<1>2. CASE EndRound
  <2>1. CASE round = "ALERT"
    BY <1>2, <2>1, EndRoundMoves
       DEF RoundInv, AnnouncedInv, CloseAlert, AnnounceOnce, EnterState, TypeOK
  <2>2. CASE round = "COOLDOWN"
    BY <1>2, <2>2, EndRoundMoves
       DEF RoundInv, AnnouncedInv, CloseCooldown, EnterState, alerts
  <2>3. CASE round \notin {"ALERT", "COOLDOWN"}
    BY <1>2, <2>3, EndRoundMoves DEF AnnouncedInv, alerts
  <2>4. QED
    BY <2>1, <2>2, <2>3
<1>3. CASE UNCHANGED <<fusion, g_alert_sent_flag, announced>>
  BY <1>3 DEF AnnouncedInv, fusion
<1>4. QED
  BY <1>1, <1>2, <1>3, OtherSteps

(* No ALERT ends without having been announced, for every choice of the     *)
(* hold times and whatever sensors, calls, worker and web API do.           *)
THEOREM EveryAlertAnnounced == Spec => NoSilentAlert
<1>1. Init => AnnouncedInv
  BY DEF Init, AnnouncedInv
<1>2. TypeOK /\ RoundInv /\ AnnouncedInv /\ [Next]_vars =>
        /\ AnnouncedInv'
        /\ [g_fusion_state = "ALERT" /\ g_fusion_state' # "ALERT" => announced']_vars
  BY AnnouncedStep
<1>3. QED
  BY <1>1, <1>2, TypeCorrect, RoundAlways, PTL DEF Spec, NoSilentAlert

-----------------------------------------------------------------------------
(* What the three parts of a round that may switch the fan leave behind:    *)
(* the fan as it was, or their value on its way to fan_state, unless the    *)
(* call failed or was misreported.                                          *)
LEMMA PartsSwitch ==
  ASSUME TypeOK, SmokeControl \/ ForceFan \/ TempControl
  PROVE  /\ pendingFan = Nothing /\ UNCHANGED <<fan_state, workerPending>>
         /\ \/ LeaveFan
            \/ lastSwitch' = "other"
            \/ lastSwitch' = "telemetry" /\ pendingFan' = relay' /\ relay' \in {0, 1}
<1>1. ASSUME NEW v \in {0, 1}, SwitchFan(v)
      PROVE  \/ lastSwitch' = "other"
             \/ lastSwitch' = "telemetry" /\ pendingFan' = relay' /\ relay' \in {0, 1}
  BY <1>1, SwitchFanType DEF TypeOK
<1>2. CASE SmokeControl
  BY <1>1, <1>2
     DEF SmokeControl, SmokeUnread, SmokeDebounced, SmokeFault, SmokeFanOn,
         SmokeCleared, Telemetry
<1>3. CASE ForceFan
  BY <1>1, <1>3 DEF ForceFan, Telemetry
<1>4. CASE TempControl
  BY <1>1, <1>4 DEF TempControl, Telemetry
<1>5. QED
  BY <1>2, <1>3, <1>4

(* Every step keeps what the bridge knows.                                  *)
LEMMA KnowsStep ==
  ASSUME TypeOK, FanStateTracksRelay, [Next]_vars
  PROVE  FanStateTracksRelay'
<1>1. CASE SmokeControl \/ ForceFan \/ TempControl
  BY <1>1, PartsSwitch DEF LeaveFan, FanStateTracksRelay, Nothing
<1>2. CASE StoreFanState
  BY <1>2 DEF StoreFanState, Overtaken, FanStateTracksRelay
<1>3. CASE \E v \in {0, 1} : WorkerSwitches(v)
  <2>1. PICK v \in {0, 1}, ok \in BOOLEAN :
          /\ RelayCall("worker", v, ok) /\ workerPending' = IF ok THEN v ELSE Nothing
          /\ UNCHANGED <<fan_state, pendingFan>>
    BY <1>3 DEF WorkerSwitches
  <2>2. \/ lastSwitch' = "other"
        \/ lastSwitch' = "worker" /\ workerPending' = v /\ relay' = v
    BY <2>1 DEF RelayCall
  <2>3. QED
    BY <2>2 DEF FanStateTracksRelay, Nothing
<1>4. CASE WorkerStores
  BY <1>4 DEF WorkerStores, Overtaken, FanStateTracksRelay
<1>5. CASE \E v \in {0, 1} : WebSwitches(v)
  BY <1>5 DEF WebSwitches, FanStateTracksRelay
<1>6. CASE BeginRound \/ EndRound
  BY <1>6, BeginRoundMoves, EndRoundMoves DEF FanStateTracksRelay
<1>7. CASE UNCHANGED vars
  BY <1>7 DEF vars, FanStateTracksRelay
<1>8. QED
  BY <1>1, <1>2, <1>3, <1>4, <1>5, <1>6, <1>7 DEF Next, TelemetryStep

(* The bridge knows its relay, wherever the calls and the stores of its two *)
(* threads fall between each other's, until the web API switches it, a call *)
(* fails or is misreported, or stores come in the other order than calls.   *)
THEOREM BridgeKnowsRelay == Spec => []FanStateTracksRelay
<1>1. Init => FanStateTracksRelay
  BY DEF Init, FanStateTracksRelay
<1>2. TypeOK /\ FanStateTracksRelay /\ [Next]_vars => FanStateTracksRelay'
  BY KnowsStep
<1>3. QED
  BY <1>1, <1>2, TypeCorrect, PTL DEF Spec

(* ForceFan closes an ALERT round with the fan on, though smoke control may *)
(* just have turned it off; the rest of the round keeps it on.              *)
LEMMA FanOnStep ==
  ASSUME TypeOK, RoundInv, RoundInv', FanStateTracksRelay, FanOnInv, [Next]_vars
  PROVE  FanOnInv'
<1>1. CASE BeginRound
  BY <1>1, BeginRoundMoves DEF FanOnInv, FanRunsInAlert
<1>2. CASE EndRound
  <2>1. relay' = relay /\ lastSwitch' = lastSwitch /\ pc = "close" /\ pc' = "idle"
    BY <1>2, EndRoundMoves
  <2>2. CASE round = "ALERT"
    BY <2>1, <2>2 DEF FanOnInv, FanRunsInAlert
  <2>3. CASE round # "ALERT"
    <3>1. ~g_alert_sent_flag
      BY <2>1, <2>3 DEF RoundInv
    <3>2. ~g_alert_sent_flag'
      BY <1>2, <2>3, <3>1, EndRoundMoves DEF CloseCooldown, alerts
    <3>3. QED
      BY <2>1, <3>2 DEF FanOnInv, FanRunsInAlert
  <2>4. QED
    BY <2>2, <2>3
<1>3. CASE ForceFan
  <2>1. lastSwitch' = "telemetry" => relay' = 1
    <3>1. CASE fan_state = 0
      <4>1. SwitchFan(1)
        BY <1>3, <3>1 DEF ForceFan
      <4>2. QED
        BY <4>1, SwitchFanType DEF TypeOK
    <3>2. CASE fan_state = 1
      BY <1>3, <3>2 DEF ForceFan, Telemetry, LeaveFan, FanStateTracksRelay
    <3>3. QED
      BY <3>1, <3>2 DEF TypeOK
  <2>2. QED
    BY <1>3, <2>1 DEF ForceFan, FanOnInv, FanRunsInAlert
<1>4. CASE SmokeControl
  BY <1>4 DEF SmokeControl, FanOnInv, FanRunsInAlert
<1>5. CASE TempControl
  BY <1>5 DEF TempControl, FanOnInv, FanRunsInAlert, RoundInv, fusion
<1>6. CASE StoreFanState \/ WorkerStores
  BY <1>6 DEF StoreFanState, WorkerStores, Overtaken, FanOnInv, FanRunsInAlert, fusion, alerts
<1>7. CASE \E v \in {0, 1} : WorkerSwitches(v) \/ WebSwitches(v)
  <2>1. lastSwitch' # "telemetry"
    BY <1>7 DEF WorkerSwitches, WebSwitches, RelayCall
  <2>2. QED
    BY <2>1 DEF FanOnInv, FanRunsInAlert
<1>8. CASE UNCHANGED vars
  BY <1>8 DEF vars, fusion, alerts, FanOnInv, FanRunsInAlert
<1>9. QED
  BY <1>1, <1>2, <1>3, <1>4, <1>5, <1>6, <1>7, <1>8 DEF Next, TelemetryStep

(* The fan runs from the first whole ALERT round to the end of ALERT, for   *)
(* every fan time, debounce count and threshold, unless somebody else       *)
(* switched it after the bridge or the bridge's own call failed.            *)
THEOREM FanRuns == Spec => []FanRunsInAlert
<1>1. Init => FanOnInv
  BY DEF Init, FanOnInv, FanRunsInAlert
<1>2. /\ TypeOK /\ RoundInv /\ RoundInv' /\ FanStateTracksRelay /\ FanOnInv /\ [Next]_vars
      => FanOnInv'
  BY FanOnStep
<1>3. FanOnInv => FanRunsInAlert
  BY DEF FanOnInv
<1>4. QED
  BY <1>1, <1>2, <1>3, TypeCorrect, RoundAlways, BridgeKnowsRelay, PTL DEF Spec
=============================================================================
