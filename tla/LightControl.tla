----------------------------- MODULE LightControl -----------------------------
(***************************************************************************)
(* The lamp on relay 2: auto_control_light_pir in lesson6/mqtt_bridge.cpp,  *)
(* called once in every round of the telemetry thread, the command worker's *)
(* relay2_control, and the web page, which switches the relay behind the    *)
(* bridge's back.  A round is five seconds; ages are in rounds.             *)
(***************************************************************************)
EXTENDS Integers

VARIABLES
  disturbed,       \* others switch the lamp too, and calls may fail
  light, pir,      \* this round's readings; light 1 is dark, -1 a failed read
  lamp,            \* the relay
  led_state,       \* the lamp as the bridge knows it
  offTimer,        \* now - last_pir_off_time, or NotSet
  telemetry, worker,  \* what each thread will store in led_state, or Idle
  absent,          \* history: rounds since somebody was seen
  overlooked       \* history: since last_pir_off_time was set, and since presence in the
                   \* dark, somebody was seen

lampVars == <<disturbed, light, pir, lamp, led_state, offTimer, telemetry, worker,
              absent, overlooked>>
Off == 0
On == 1
Failed == -1
NotSet == -1
Idle == -1
PIR_OFF_DELAY == 6   \* 30 seconds
Aged(age) == IF age = NotSet THEN NotSet ELSE IF age < PIR_OFF_DELAY THEN age + 1 ELSE age

LampInit ==
  /\ disturbed \in BOOLEAN
  /\ light = 1 /\ pir = 0
  /\ lamp = Off /\ led_state = Off /\ offTimer = NotSet
  /\ telemetry = Idle /\ worker = Idle
  /\ absent = 0 /\ overlooked = FALSE

(* rpc_relay2_control: the caller stores the new state only after a call    *)
(* that succeeded; one that failed may have switched the lamp all the same. *)
SwitchLamp(value) ==
  \/ lamp' = value /\ telemetry' = value
  \/ disturbed /\ lamp' \in {lamp, value} /\ UNCHANGED telemetry

NoCall == UNCHANGED <<lamp, telemetry>>

DarkAndPresent == light' = 1 /\ pir' = 1
Unread == Failed \in {light', pir'}

(* Mutant: presence in the dark leaves the timer running.                   *)
TimerKept ==
  IF pir' = 0 /\ ~Unread /\ offTimer = NotSet THEN 0 ELSE Aged(offTimer)

(* Presence in the light, and a round with a failed read, leave it running. *)
Timer ==
  IF DarkAndPresent THEN NotSet
  ELSE IF pir' = 0 /\ ~Unread /\ offTimer = NotSet THEN 0
  ELSE Aged(offTimer)

(* auto_control_light_pir                                                  *)
LampRound ==
  /\ telemetry = Idle
  /\ light' \in {0, 1, Failed} /\ pir' \in {0, 1, Failed}
  /\ offTimer' = Timer
  /\ IF DarkAndPresent /\ led_state = Off THEN SwitchLamp(On)
     ELSE IF pir' = 0 /\ ~Unread /\ led_state = On /\ offTimer' >= PIR_OFF_DELAY
     THEN SwitchLamp(Off)
     ELSE NoCall
  /\ absent' = IF pir' = 1 THEN 0 ELSE Aged(absent)
  /\ overlooked' = (offTimer # NotSet /\ ~DarkAndPresent /\ (overlooked \/ pir' = 1))
  /\ UNCHANGED <<disturbed, led_state, worker>>

StoreLedState ==
  /\ telemetry # Idle
  /\ led_state' = telemetry /\ telemetry' = Idle
  /\ UNCHANGED <<disturbed, light, pir, lamp, offTimer, worker, absent, overlooked>>

(* handle_rpc_control with relay2_control on the worker.                    *)
Command ==
  /\ disturbed
  /\ \/ worker = Idle /\ lamp' \in {Off, On} /\ worker' = lamp' /\ UNCHANGED led_state
     \/ worker # Idle /\ led_state' = worker /\ worker' = Idle /\ UNCHANGED lamp
  /\ UNCHANGED <<disturbed, light, pir, offTimer, telemetry, absent, overlooked>>

(* api_control_relay in rpc_server.                                        *)
WebSwitch ==
  /\ disturbed /\ lamp' = 1 - lamp
  /\ UNCHANGED <<disturbed, light, pir, led_state, offTimer, telemetry, worker,
                 absent, overlooked>>

LampNext == LampRound \/ StoreLedState \/ Command \/ WebSwitch

-----------------------------------------------------------------------------
LampTypeOK ==
  /\ {disturbed, overlooked} \subseteq BOOLEAN
  /\ {light, pir} \subseteq {0, 1, Failed}
  /\ {lamp, led_state} \subseteq {Off, On}
  /\ offTimer \in {NotSet} \cup 0..PIR_OFF_DELAY /\ absent \in 0..PIR_OFF_DELAY
  /\ {telemetry, worker} \subseteq {Off, On, Idle}

SwitchesOff == LampRound /\ telemetry' = Off

(* mqtt_bridge.cpp:1553: the lamp goes off when nobody was there for more   *)
(* than 30 seconds.  It does as long as nobody is overlooked: only presence *)
(* seen in the light (which the lamp itself may make), or with a failed     *)
(* read of the light, lets it go off under somebody who has just moved.     *)
OffNeedsAbsence ==
  [][SwitchesOff => absent' >= PIR_OFF_DELAY \/ overlooked]_lampVars

(* Left to itself the bridge puts the lamp out in a room nobody enters any  *)
(* more.                                                                    *)
EmptyRoomGoesDark == ~disturbed /\ <>[](pir = 0 /\ light # Failed) => <>[](lamp = Off)
=============================================================================
