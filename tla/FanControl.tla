----------------------------- MODULE FanControl -----------------------------
(***************************************************************************)
(* The fan relay of lesson6/mqtt_bridge.cpp: the telemetry thread's          *)
(* auto_control (fire state machine, smoke and temperature control), the    *)
(* command worker that executes relay_control messages, and the web API of  *)
(* rpc_server, which switches the same relay without telling the bridge.    *)
(*                                                                          *)
(* A round is one pass of telemetry_thread_func.  It is cut wherever it     *)
(* calls the relay or takes state_mutex, because there the worker and the   *)
(* web API get in between: "pc" is the part of auto_control that is next,   *)
(* and pendingFan the value the thread is about to store in fan_state after *)
(* the RPC returned 0.  Time is counted in rounds and stands still within   *)
(* one; absolute times of the code are kept as ages.  The fusion score is   *)
(* any value: only "score >= 60" and "suspicious" matter here.              *)
(***************************************************************************)
EXTENDS Integers

CONSTANTS
  Temps,        \* temperatures the sensor reports (a failed read gives -1)
  TempHigh, TempLow,    \* thresholds.temp_high, thresholds.temp_low
  DebounceCount,        \* 3 calls with smoke before it counts
  AlertHold, CoolHold, MonitorHold,  \* 30, 30 and 60 seconds, in rounds
  FanHold,              \* smoke_fan_duration, in rounds
  FaultTimeout,         \* smoke_fault_timeout, in rounds
  AlertInterval,        \* smoke_alert_interval, in rounds
  Remote,               \* which others switch the relay: "mqtt", "web"
  ReadsMayFail,         \* sensor reads may fail
  RpcMayFail,           \* relay calls may time out, or fail on the server
  RelayAtStart          \* what the relay may be when the bridge starts: rpc_server
                        \* turns it off at its own start, not at the bridge's

ASSUME TempAssumption ==
  Temps \subseteq Int /\ TempHigh \in Int /\ TempLow \in Int
ASSUME TimeAssumption ==
  {DebounceCount, AlertHold, CoolHold, MonitorHold, FanHold, FaultTimeout,
   AlertInterval} \subseteq Nat \ {0}
ASSUME DisturbanceAssumption ==
  /\ Remote \subseteq {"mqtt", "web"} /\ RpcMayFail \in BOOLEAN
  /\ ReadsMayFail \in BOOLEAN
  /\ RelayAtStart \subseteq {0, 1}

VARIABLES
  pc,               \* next part of the round: idle, smoke, force, temp, close
  round,            \* g_fusion_state when the round began
  g_fusion_state, stateAge,       \* stateAge: now - g_state_enter_time
  smoke, temp,                    \* g_sensor_cache
  relay,                          \* the relay itself
  fan_state,
  pendingFan, workerPending,      \* values on their way to fan_state
  smoke_debounce_cnt,
  alarmAge,         \* now - smoke_alarm_start_time, or NotSet
  fanLeft,          \* smoke_fan_until - now (0: expired), or NotSet
  smoke_sensor_fault, faultAlertAge,  \* now - last_fault_alert_time
  g_alert_sent_flag,
  published,        \* the alerts of this round
  lastSwitch,       \* history: whose call the relay obeyed last, and nobody else's
  announced         \* history: a fire alert was published since ALERT began

sensors == <<smoke, temp>>
fusion == <<round, g_fusion_state, stateAge>>
smokeVars == <<smoke_debounce_cnt, alarmAge, smoke_sensor_fault, faultAlertAge>>
alerts == <<g_alert_sent_flag, published, announced>>
vars == <<pc, fusion, sensors, relay, fan_state, pendingFan, workerPending,
          smokeVars, fanLeft, alerts, lastSwitch>>

States == {"SAFE", "MONITOR", "ALERT", "COOLDOWN"}
ReadFailed == -1
Alarm == 0           \* smoke_alert_level: the sensor is active low
Clear == 1
Unread == IF ReadsMayFail THEN {ReadFailed} ELSE {}
NotSet == -1
Nothing == -1        \* no value on its way to fan_state

Holds == {AlertHold, CoolHold, MonitorHold}
MaxAge == 1 + CHOOSE h \in Holds : \A other \in Holds : other <= h  \* stateAge stops here
UpTo(limit, n) == IF n < limit THEN n ELSE limit
Older(age, limit) == IF age = NotSet THEN NotSet ELSE UpTo(limit, age + 1)

(* Mutant: a deadline never set counts as one that has passed.             *)
SoonerUnset(left) == left - 1
Sooner(left) == IF left > 0 THEN left - 1 ELSE left

Init ==
  /\ pc = "idle" /\ round = "SAFE"
  /\ g_fusion_state = "SAFE" /\ stateAge = MaxAge
  /\ smoke = ReadFailed /\ temp = ReadFailed
  /\ relay \in RelayAtStart /\ fan_state = 0
  /\ pendingFan = Nothing /\ workerPending = Nothing
  /\ smoke_debounce_cnt = 0 /\ alarmAge = NotSet /\ fanLeft = NotSet
  /\ smoke_sensor_fault = FALSE /\ faultAlertAge = AlertInterval + 1
  /\ g_alert_sent_flag = FALSE
  /\ published = {}
  /\ lastSwitch = "other" /\ announced = FALSE

-----------------------------------------------------------------------------
(***************************************************************************)
(* A round begins: time has passed, refresh_sensor_cache reads the sensors, *)
(* auto_control looks at its state.  In SAFE and MONITOR the score decides  *)
(* at once; only the entry to ALERT, ALERT and COOLDOWN look at the smoke   *)
(* control.                                                                 *)
(***************************************************************************)
Telemetry == pendingFan = Nothing

FirstPart(state, newState) ==
  IF state \in {"ALERT", "COOLDOWN"} \/ (state = "MONITOR" /\ newState = "ALERT")
  THEN "smoke" ELSE "temp"

(* score >= 60, or (SAFE) smoke or an AI confidence above 0.20.            *)
MayMoveTo(state, newSmoke, age, newState) ==
  \/ state = "SAFE" /\ newState = "MONITOR"
  \/ state = "SAFE" /\ newState = "SAFE" /\ newSmoke # Alarm
  \/ state = "MONITOR" /\ newState = "ALERT"
  \/ state = "MONITOR" /\ newState = (IF age > MonitorHold THEN "SAFE" ELSE "MONITOR")
  \/ state \in {"ALERT", "COOLDOWN"} /\ newState = state

BeginRound ==
  /\ pc = "idle" /\ Telemetry
  /\ smoke' \in {Alarm, Clear} \cup Unread /\ temp' \in Temps \cup Unread
  /\ alarmAge' = Older(alarmAge, FaultTimeout)
  /\ faultAlertAge' = Older(faultAlertAge, AlertInterval + 1)
  /\ fanLeft' = Sooner(fanLeft)
  /\ round' = g_fusion_state
  /\ LET age == Older(stateAge, MaxAge) IN
       \E newState \in States :
         /\ MayMoveTo(g_fusion_state, smoke', age, newState)
         /\ g_fusion_state' = newState
         /\ stateAge' = IF newState # g_fusion_state THEN 0 ELSE age
         /\ pc' = FirstPart(g_fusion_state, newState)
         /\ announced' = (announced /\ newState = g_fusion_state)
  /\ published' = {}
  /\ UNCHANGED <<relay, fan_state, pendingFan, workerPending, lastSwitch,
                 smoke_debounce_cnt, smoke_sensor_fault, g_alert_sent_flag>>

(***************************************************************************)
(* rpc_relay_control(v) as its caller sees it.  It may report failure       *)
(* though the server switched the relay (the answer was late), or success   *)
(* though it did not (the result value, -1, is not looked at).              *)
(***************************************************************************)
RelayCall(caller, v, reportsOk) ==
  /\ \/ reportsOk /\ relay' = v
     \/ RpcMayFail /\ relay' \in {relay, v}
  /\ lastSwitch' = IF reportsOk /\ relay' = v THEN caller ELSE "other"

(* The telemetry thread switches the fan and, if told so, notes the value. *)
SwitchFan(v) ==
  \E ok \in BOOLEAN :
    /\ RelayCall("telemetry", v, ok)
    /\ pendingFan' = IF ok THEN v ELSE Nothing

LeaveFan == UNCHANGED <<relay, pendingFan, lastSwitch>>

(* History: one who stores after the other's call and after the other's     *)
(* store replaces the newer value.                                          *)
Overtaken(other, otherPending) ==
  lastSwitch' = IF lastSwitch = other /\ otherPending = Nothing THEN "other" ELSE lastSwitch

(* Mutant: only that the fan was turned on is stored.                      *)
StoreFanOn ==
  /\ pendingFan # Nothing
  /\ fan_state' = IF pendingFan = 1 THEN 1 ELSE fan_state
  /\ pendingFan' = Nothing
  /\ Overtaken("worker", workerPending)
  /\ UNCHANGED <<pc, fusion, sensors, relay, workerPending, smokeVars, fanLeft, alerts>>

(* The section under state_mutex: fan_state = v.                           *)
StoreFanState ==
  /\ pendingFan # Nothing
  /\ fan_state' = pendingFan
  /\ pendingFan' = Nothing
  /\ Overtaken("worker", workerPending)
  /\ UNCHANGED <<pc, fusion, sensors, relay, workerPending, smokeVars, fanLeft, alerts>>

(***************************************************************************)
(* auto_control_smoke.                                                      *)
(***************************************************************************)
SmokeUnread == smoke = ReadFailed /\ LeaveFan /\ UNCHANGED <<smokeVars, fanLeft, published>>

SmokeDebounced ==
  /\ smoke = Alarm /\ smoke_debounce_cnt + 1 < DebounceCount
  /\ smoke_debounce_cnt' = smoke_debounce_cnt + 1
  /\ LeaveFan
  /\ UNCHANGED <<alarmAge, smoke_sensor_fault, faultAlertAge, fanLeft, published>>

CountedAlarm ==
  /\ smoke = Alarm /\ smoke_debounce_cnt + 1 >= DebounceCount
  /\ smoke_debounce_cnt' = UpTo(DebounceCount, smoke_debounce_cnt + 1)
  /\ alarmAge' = IF alarmAge = NotSet THEN 0 ELSE alarmAge

(* An alarm that lasts too long is a broken sensor: an alert, no fan.      *)
SmokeFault ==
  /\ CountedAlarm /\ alarmAge' >= FaultTimeout
  /\ smoke_sensor_fault' = TRUE
  /\ IF ~smoke_sensor_fault \/ faultAlertAge > AlertInterval
     THEN faultAlertAge' = 0 /\ published' = published \cup {"smoke_sensor_fault"}
     ELSE UNCHANGED <<faultAlertAge, published>>
  /\ LeaveFan /\ UNCHANGED fanLeft

SmokeFanOn ==
  /\ CountedAlarm /\ alarmAge' < FaultTimeout
  /\ IF fan_state = 0 THEN SwitchFan(1) ELSE LeaveFan
  /\ fanLeft' = FanHold
  /\ UNCHANGED <<smoke_sensor_fault, faultAlertAge, published>>

SmokeCleared ==
  /\ smoke = Clear
  /\ smoke_debounce_cnt' = 0 /\ alarmAge' = NotSet /\ smoke_sensor_fault' = FALSE
  /\ IF fan_state # 0 /\ fanLeft = 0
     THEN /\ fanLeft' = NotSet
          /\ IF temp < TempHigh \/ temp = ReadFailed THEN SwitchFan(0) ELSE LeaveFan
     ELSE UNCHANGED fanLeft /\ LeaveFan
  /\ UNCHANGED <<faultAlertAge, published>>

SmokeControl ==
  /\ pc = "smoke" /\ Telemetry
  /\ SmokeUnread \/ SmokeDebounced \/ SmokeFault \/ SmokeFanOn \/ SmokeCleared
  /\ pc' = IF round = "ALERT" THEN "force" ELSE "temp"
  /\ UNCHANGED <<fusion, sensors, fan_state, workerPending, g_alert_sent_flag, announced>>

(* Mutant: the fan is forced on only while the smoke sensor is in alarm.   *)
ForceFanIfSmoke ==
  /\ pc = "force" /\ Telemetry
  /\ IF fan_state = 0 /\ smoke = Alarm THEN SwitchFan(1) ELSE LeaveFan
  /\ pc' = "close"
  /\ UNCHANGED <<fusion, sensors, fan_state, workerPending, smokeVars, fanLeft, alerts>>

(* ALERT turns the fan on whatever the smoke sensor says.                  *)
ForceFan ==
  /\ pc = "force" /\ Telemetry
  /\ IF fan_state = 0 THEN SwitchFan(1) ELSE LeaveFan
  /\ pc' = "close"
  /\ UNCHANGED <<fusion, sensors, fan_state, workerPending, smokeVars, fanLeft, alerts>>

(***************************************************************************)
(* auto_control_temp: hysteresis, suspended during smoke and its fan time.  *)
(***************************************************************************)
(* Mutant: the fan time that smoke asked for is not respected.             *)
TempNotSuspendedByTimer == temp = ReadFailed \/ smoke = Alarm
TempSuspended == temp = ReadFailed \/ smoke = Alarm \/ fanLeft > 0

TempControl ==
  /\ pc = "temp" /\ Telemetry
  /\ IF ~TempSuspended /\ temp > TempHigh /\ fan_state = 0 THEN SwitchFan(1)
     ELSE IF ~TempSuspended /\ temp < TempLow /\ fan_state # 0
     THEN SwitchFan(0)
     ELSE LeaveFan
  /\ pc' = "close"
  /\ UNCHANGED <<fusion, sensors, fan_state, workerPending, smokeVars, fanLeft, alerts>>

(***************************************************************************)
(* The end of the round: the alert of an ALERT state not yet announced, and *)
(* the timed transitions ALERT -> COOLDOWN -> SAFE.                         *)
(***************************************************************************)
EnterState(s) == g_fusion_state' = s /\ stateAge' = 0

AnnounceOnce ==
  /\ published' = IF g_alert_sent_flag THEN published ELSE published \cup {"smoke"}
  /\ announced' = (announced \/ ~g_alert_sent_flag)

(* Mutant: the flag of an alert already sent survives its ALERT.           *)
CloseAlertKeepsFlag ==
  /\ AnnounceOnce
  /\ g_alert_sent_flag' = TRUE
  /\ IF stateAge > AlertHold THEN EnterState("COOLDOWN") ELSE UNCHANGED <<g_fusion_state, stateAge>>

CloseAlert ==
  /\ AnnounceOnce
  /\ IF stateAge > AlertHold
     THEN EnterState("COOLDOWN") /\ g_alert_sent_flag' = FALSE
     ELSE g_alert_sent_flag' = TRUE /\ UNCHANGED <<g_fusion_state, stateAge>>

(* Mutant: COOLDOWN waits for clear air.                                   *)
CloseCooldownWhenClear ==
  /\ IF stateAge > CoolHold /\ smoke = Clear
     THEN EnterState("SAFE")
     ELSE UNCHANGED <<g_fusion_state, stateAge>>
  /\ UNCHANGED alerts

CloseCooldown ==
  /\ IF stateAge > CoolHold
     THEN EnterState("SAFE")
     ELSE UNCHANGED <<g_fusion_state, stateAge>>
  /\ UNCHANGED alerts

EndRound ==
  /\ pc = "close" /\ Telemetry
  /\ CASE round = "ALERT" -> CloseAlert
       [] round = "COOLDOWN" -> CloseCooldown
       [] OTHER -> UNCHANGED <<g_fusion_state, stateAge, alerts>>
  /\ pc' = "idle"
  /\ UNCHANGED <<round, sensors, relay, fan_state, pendingFan, workerPending,
                 smokeVars, fanLeft, lastSwitch>>

-----------------------------------------------------------------------------
(***************************************************************************)
(* handle_rpc_control for relay_control, in the command worker: the RPC,    *)
(* then *state = v without state_mutex.                                     *)
(***************************************************************************)
WorkerSwitches(v) ==
  /\ "mqtt" \in Remote /\ workerPending = Nothing
  /\ \E ok \in BOOLEAN :
       /\ RelayCall("worker", v, ok)
       /\ workerPending' = IF ok THEN v ELSE Nothing
  /\ UNCHANGED <<pc, fusion, sensors, fan_state, pendingFan, smokeVars, fanLeft, alerts>>

WorkerStores ==
  /\ workerPending # Nothing
  /\ fan_state' = workerPending
  /\ workerPending' = Nothing
  /\ Overtaken("telemetry", pendingFan)
  /\ UNCHANGED <<pc, fusion, sensors, relay, pendingFan, smokeVars, fanLeft, alerts>>

(* api_control_relay in rpc_server.                                        *)
WebSwitches(v) ==
  /\ "web" \in Remote
  /\ relay' = v /\ lastSwitch' = "other"
  /\ UNCHANGED <<pc, fusion, sensors, fan_state, pendingFan, workerPending,
                 smokeVars, fanLeft, alerts>>

TelemetryStep ==
  BeginRound \/ SmokeControl \/ ForceFan \/ TempControl \/ StoreFanState \/ EndRound

Next ==
  \/ TelemetryStep
  \/ \E v \in {0, 1} : WorkerSwitches(v) \/ WebSwitches(v)
  \/ WorkerStores

Spec == Init /\ [][Next]_vars

(* telemetry_thread_func loops for as long as the program runs.            *)
FairSpec == Spec /\ WF_vars(TelemetryStep)

-----------------------------------------------------------------------------
Ages(limit) == NotSet .. limit

TypeOK ==
  /\ pc \in {"idle", "smoke", "force", "temp", "close"}
  /\ round \in States /\ g_fusion_state \in States /\ stateAge \in 0 .. MaxAge
  /\ smoke \in {ReadFailed, Alarm, Clear} /\ temp \in Temps \cup {ReadFailed}
  /\ relay \in {0, 1} /\ fan_state \in {0, 1}
  /\ pendingFan \in {Nothing, 0, 1} /\ workerPending \in {Nothing, 0, 1}
  /\ smoke_debounce_cnt \in 0 .. DebounceCount
  /\ alarmAge \in Ages(FaultTimeout) /\ fanLeft \in Ages(FanHold)
  /\ smoke_sensor_fault \in BOOLEAN
  /\ faultAlertAge \in 0 .. AlertInterval + 1
  /\ g_alert_sent_flag \in BOOLEAN /\ announced \in BOOLEAN
  /\ lastSwitch \in {"telemetry", "worker", "other"}
  /\ published \subseteq {"smoke", "smoke_sensor_fault"}

(***************************************************************************)
(* Smoke before temperature (README, "linkage"): no part of a round turns   *)
(* the fan off while smoke is read, or before the fan time that smoke asked *)
(* for is over, whatever the worker and the web API do in between.          *)
(***************************************************************************)
SmokeHasPriority ==
  [][pc' # pc /\ relay = 1 /\ relay' = 0 => smoke # Alarm /\ fanLeft <= 0]_vars

(***************************************************************************)
(* ALERT turns the fan on in each of its rounds, also when smoke control,   *)
(* just before, found its fan time over and turned it off.  So between two  *)
(* rounds of an announced ALERT the fan runs, unless the worker or the web  *)
(* API switched it after the bridge, or the bridge's own call failed.       *)
(***************************************************************************)
FanRunsInAlert ==
  pc = "idle" /\ g_alert_sent_flag /\ lastSwitch = "telemetry" => relay = 1

(***************************************************************************)
(* The bridge knows its relay, once the values on their way are stored,     *)
(* whichever of telemetry and worker switched it last and wherever their    *)
(* calls and stores fall between each other's.  Exempt are the three cases  *)
(* the code does not handle: a switch by the web API, a call that failed or *)
(* was misreported, and a store that comes after the call and the store of  *)
(* the other thread though its own call was earlier.                        *)
(***************************************************************************)
FanStateTracksRelay ==
  /\ lastSwitch = "telemetry" => relay = IF pendingFan = Nothing THEN fan_state ELSE pendingFan
  /\ lastSwitch = "worker" => relay = IF workerPending = Nothing THEN fan_state ELSE workerPending

(* No ALERT ends, and leaves for COOLDOWN, without having been announced:   *)
(* the flag of the one before is not taken for its own.                     *)
NoSilentAlert ==
  [][g_fusion_state = "ALERT" /\ g_fusion_state' # "ALERT" => announced']_vars

(* An ALERT always ends, and the machine is ready for the next one.        *)
BackToSafe == (g_fusion_state = "ALERT") ~> (g_fusion_state = "SAFE")

(***************************************************************************)
(* auto_control_smoke, "4. turns the fan off when the smoke is gone": when  *)
(* the air stays clear and the temperature below the threshold, the fan     *)
(* time asked for by smoke does not stay open for ever with the fan on.     *)
(***************************************************************************)
SmokeFanIsReleased ==
  <>[](smoke = Clear /\ temp < TempHigh) => []<>(fanLeft = NotSet \/ fan_state = 0)
=============================================================================
