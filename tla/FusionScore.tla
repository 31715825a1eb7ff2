----------------------------- MODULE FusionScore -----------------------------
(***************************************************************************)
(* The fire score of lesson6/mqtt_bridge.cpp, sensor_fusion_score, with its *)
(* weights as config.c sets them, and the fire state machine of             *)
(* auto_control, which raises an alarm when the score reaches 60.  A step   *)
(* is one round of the telemetry thread, five seconds; ages are in rounds.  *)
(* The hour of the day decides about weights: 0-6 is night, 8-18 is work,   *)
(* 18-24 is evening, 6-8 is other.  It stays the same in a behaviour, and   *)
(* so does which of the sources vary: the others are at rest.               *)
(*                                                                          *)
(* Abstracted: whether the humidity dropped sharply is any choice, and the  *)
(* average of the last ten temperatures is one of Temps.                    *)
(***************************************************************************)
EXTENDS Integers

CONSTANTS
  Scenes,          \* records of an hour and of the sources that vary in it
  Temps            \* the temperatures read when "heat" is among the sources

VARIABLES
  hour, sources,
  accum,           \* g_fusion_accum_score
  signalAge,       \* now - last_signal_time, or Never
  lastTemp, lastLight,         \* g_last_temp, last_light_val
  scoreAge,        \* rounds since the last score: now - g_last_sensor_time
  fan_toggled_recently,
  ai, aiAge,       \* g_ai_best_confidence: none, low (> 0.20), high (> 0.30); its age
  fire, fireAge,   \* g_fusion_state and now - g_state_enter_time
  evidenceAge,     \* history: rounds since smoke, heat, a humidity drop or a standing AI hit
  smokeRounds,     \* history: rounds with smoke in a row in SAFE or MONITOR
  lightRounds      \* history: rounds in which light scored, counted up to twelve

fusionVars == <<hour, sources, accum, signalAge, lastTemp, lastLight, scoreAge,
                fan_toggled_recently, ai, aiAge, fire, fireAge, evidenceAge, smokeRounds,
                lightRounds>>

Never == -1
Unread == -1
Minute == 12        \* 60 seconds in rounds
HalfMinute == 6
Alarm == 60         \* the score that raises an alarm
Capped(n, limit) == IF n < limit THEN n ELSE limit
Older(age, limit) == IF age = Never THEN Never ELSE Capped(age + 1, limit)

WeightSmoke == 40
WeightAiFire == 30
WeightTempRise == 20
WeightTempHigh == 15
WeightHumiDrop == 10
WeightLight == 10
WeightDevice == 10
WeightPir == 5

FusionInit ==
  /\ \E scene \in Scenes : hour = scene.hour /\ sources = scene.sources
  /\ accum = 0 /\ signalAge = Never
  /\ lastTemp = Unread /\ lastLight = Unread /\ scoreAge = 1
  /\ fan_toggled_recently = FALSE
  /\ ai = "none" /\ aiAge = Minute
  /\ fire = "SAFE" /\ fireAge = Minute + 1
  /\ evidenceAge = Never /\ smokeRounds = 0 /\ lightRounds = 0

-----------------------------------------------------------------------------
(* get_dynamic_weight                                                      *)
Weight(base, sensor, temp) ==
  IF hour = "night" THEN (3 * base) \div 2
  ELSE IF \/ hour = "work" /\ sensor = "pir"
          \/ sensor = "temp" /\ temp \in 31..39 THEN base \div 2
  ELSE base

Points(condition, n) == IF condition THEN n ELSE 0

Either(source, rest, others) == IF source \in sources THEN {rest} \cup others ELSE {rest}

(* One round's readings, g_sensor_cache.  A failed read gives -1.  At rest  *)
(* it is 25 degrees, light reads 1, and nobody is there.                    *)
Readings ==
  [smoke : Either("smoke", 1, {0}), temp : Either("heat", 25, Temps \cup {Unread}),
   humiDrops : Either("humidity", FALSE, {TRUE}), light : Either("light", 1, {0}),
   someone : Either("presence", FALSE, {TRUE}), relayRead : Either("relay", TRUE, {FALSE}),
   baseline : Either("heat", 25, Temps)]

(* none: no check, or one that ended without sending a picture or without   *)
(* an answer that could be read.                                            *)
AiAnswers ==
  Either("ai", "none", {"clear", "high"}) \cup Either("ai_unsure", "none", {"clear", "low"})

TempComparable(r) == lastTemp > 0 /\ r.temp > 0

(* More than 3 degrees a minute, and at least two degrees.                 *)
Rising(r) == TempComparable(r) /\ r.temp - lastTemp >= 2 /\ 4 * (r.temp - lastTemp) > scoreAge

HeatPoints(r) ==
  Points(TempComparable(r),
           Points(Rising(r), Weight(WeightTempRise, "temp", r.temp))
         + Points(r.temp > 45, Weight(WeightTempHigh, "temp", r.temp))
         + Points(r.temp \in 34..45, 10 + (r.temp - 33)))

LightPoints(r) ==
  LET w == Weight(WeightLight, "light", r.temp) IN
    Points(lastLight = 0 /\ r.light = 1 /\ hour = "evening", w)
  + Points(r.light = 0 /\ hour = "work", w \div 2)

Smoke(r) == r.smoke = 0
AiSees(newAi) == newAi = "high"

(* Somebody is there (and the lamp is off): next to a sign of fire, or      *)
(* half of it at night.                                                     *)
PresencePoints(r, newAi) ==
  LET w == Weight(WeightPir, "pir", r.temp) IN
    IF ~r.someone THEN 0
    ELSE IF Smoke(r) \/ AiSees(newAi) THEN w
    ELSE Points(hour = "night", w \div 2)

DevicePoints(r) ==
  Points(Smoke(r) /\ (fan_toggled_recently \/ r.relayRead), Weight(WeightDevice, "device", r.temp))

StrongSignals(r, newAi, newAiAge) ==
    Points(Smoke(r), 1) + Points(AiSees(newAi) /\ newAiAge < Minute, 1)
  + Points(TempComparable(r) /\ (r.temp - lastTemp > 3 \/ lastTemp - r.temp > 3), 1)

BaselinePoints(r) ==
  Points(r.temp > r.baseline + 5, Capped(2 * (r.temp - r.baseline), 20))

(* What this round adds, new_signals.                                      *)
NewSignals(r, newAi, newAiAge) ==
  LET sum == Points(Smoke(r), Weight(WeightSmoke, "smoke", r.temp)) + HeatPoints(r)
           + Points(r.humiDrops, Weight(WeightHumiDrop, "humi", r.temp))
           + LightPoints(r) + DevicePoints(r) + PresencePoints(r, newAi)
           + Points(AiSees(newAi) /\ newAiAge = 0, WeightAiFire)
  IN sum + Points(StrongSignals(r, newAi, newAiAge) >= 2, sum \div 2) + BaselinePoints(r)

(* Mutant: the score does not fade to zero after a minute.                 *)
FadedForever(age) == (95 * accum) \div 100

(* The score fades by 5 % a round; a minute after the last real signal it   *)
(* is zero, provided there ever was one.                                    *)
Faded(age) == IF age > Minute THEN 0 ELSE (95 * accum) \div 100

(* A hit of the AI stays a sign for as long as no later picture could be    *)
(* checked: next to it presence counts in full.                             *)
Evidence(r, newAi) ==
  \/ Smoke(r) \/ AiSees(newAi) \/ r.humiDrops
  \/ HeatPoints(r) > 0 \/ BaselinePoints(r) > 0

-----------------------------------------------------------------------------
(* The AI check before the round's score: a picture in which nothing burns, *)
(* or a failed upload, clears the confidence; a hit only raises it.  The    *)
(* age is of a hit; once that was cleared nothing reads it.                 *)
AiCheck(answer) ==
  CASE answer = "none" -> <<ai, Older(aiAge, Minute)>>
    [] answer = "clear" -> <<"none", Minute>>
    [] answer = "low" -> <<IF ai = "high" THEN "high" ELSE "low", 0>>
    [] answer = "high" -> <<"high", 0>>

Enter(state) ==
  /\ fire' = state
  /\ fireAge' = IF state = fire THEN Older(fireAge, Minute + 1) ELSE 0

AfterScore(r, score, newAi) ==
  IF fire = "SAFE"
  THEN Enter(IF score >= Alarm \/ Smoke(r) \/ newAi # "none" THEN "MONITOR" ELSE "SAFE")
  ELSE Enter(IF score >= Alarm THEN "ALERT"
             ELSE IF fireAge + 1 > Minute THEN "SAFE" ELSE "MONITOR")

(* A round in SAFE or MONITOR.                                             *)
ScoreRound(answer) ==
  /\ fire \in {"SAFE", "MONITOR"}
  /\ LET newAi == AiCheck(answer)[1]
         newAiAge == AiCheck(answer)[2]
         age == Older(signalAge, Minute + 1)
     IN \E r \in Readings :
          LET signals == NewSignals(r, newAi, newAiAge) IN
          /\ ai' = newAi /\ aiAge' = newAiAge
          /\ accum' = Faded(age) + signals
          /\ signalAge' = IF signals > 2 * WeightPir THEN 0 ELSE age
          /\ lastTemp' = IF r.temp > 0 THEN r.temp ELSE lastTemp
          /\ lastLight' = r.light
          /\ fan_toggled_recently' = (fan_toggled_recently \/ r.relayRead)
          /\ evidenceAge' = IF Evidence(r, newAi) THEN 0
                            ELSE Older(evidenceAge, Minute + 1)
          /\ smokeRounds' = IF Smoke(r) THEN Capped(smokeRounds + 1, 3) ELSE 0
          /\ lightRounds' = Capped(lightRounds + Points(LightPoints(r) > 0, 1), Minute)
          /\ AfterScore(r, accum', newAi)
  /\ scoreAge' = 1
  /\ UNCHANGED <<hour, sources>>

(* A round in ALERT or COOLDOWN: no score is taken.                        *)
WaitRound(answer) ==
  /\ fire \in {"ALERT", "COOLDOWN"}
  /\ Enter(IF fireAge + 1 <= HalfMinute THEN fire
           ELSE IF fire = "ALERT" THEN "COOLDOWN" ELSE "SAFE")
  /\ ai' = IF fire' = "SAFE" THEN "none" ELSE AiCheck(answer)[1]
  /\ aiAge' = IF fire' = "SAFE" THEN Minute ELSE AiCheck(answer)[2]
  /\ signalAge' = Older(signalAge, Minute + 1)
  /\ evidenceAge' = Older(evidenceAge, Minute + 1)
  /\ scoreAge' = scoreAge + 1
  /\ smokeRounds' = 0
  /\ UNCHANGED <<hour, sources, accum, lastTemp, lastLight, fan_toggled_recently,
                 lightRounds>>

FusionNext == \E answer \in AiAnswers : ScoreRound(answer) \/ WaitRound(answer)

-----------------------------------------------------------------------------
FusionTypeOK ==
  /\ hour \in {"night", "work", "evening", "other"}
  /\ accum \in Nat /\ signalAge \in {Never} \cup 0..(Minute + 1)
  /\ lastTemp \in Temps \cup {25, Unread} /\ lastLight \in {0, 1, Unread}
  /\ scoreAge \in 1..(2 * (HalfMinute + 1) + 1) /\ fan_toggled_recently \in BOOLEAN
  /\ ai \in {"none", "low", "high"} /\ aiAge \in 0..Minute
  /\ fire \in {"SAFE", "MONITOR", "ALERT", "COOLDOWN"} /\ fireAge \in 0..(Minute + 1)
  /\ evidenceAge \in {Never} \cup 0..(Minute + 1) /\ smokeRounds \in 0..3
  /\ lightRounds \in 0..Minute

(***************************************************************************)
(* What neither smoke, heat, a humidity drop nor the AI ever confirmed.     *)
(* Presence adds points every round of the night, and they fade: however    *)
(* long it lasts, it raises no fire alarm, at any hour.  Light does raise   *)
(* one on its own, since its weight adds up: 5 points in every round of the *)
(* working hours in which it reads 0, 10 for each change from 0 to 1 in the *)
(* evening.  It takes at least twelve such rounds at work and six such      *)
(* changes in an evening: a single one is no alarm.                         *)
(***************************************************************************)
HarmlessIsNoFire ==
  evidenceAge = Never /\ fire = "ALERT" =>
    \/ hour = "work" /\ lightRounds >= Minute
    \/ hour = "evening" /\ lightRounds >= HalfMinute

(* Once there was a signal worth more than ten points, an alarm is raised   *)
(* within a minute of the last sign of fire or not at all: neither light    *)
(* nor presence keeps an old score alive.  Before the first such signal     *)
(* nothing clears the score.                                                *)
AlarmsAreFresh ==
  [][fire' = "ALERT" /\ fire # "ALERT" /\ signalAge # Never
       => evidenceAge' \in 0..Minute]_fusionVars

(* Smoke that lasts three rounds raises the alarm, at any hour and whatever *)
(* the other sensors say or fail to say.  Two are not enough: the minute in *)
(* MONITOR may end with the first of them.                                  *)
LastingSmokeAlarms == smokeRounds = 3 => fire = "ALERT"
(* Presence alone raises no alarm, and light alone only after many rounds;  *)
(* lasting smoke does; once there was a strong signal, an old one does not. *)
AlarmsMeanFire == []HarmlessIsNoFire /\ []LastingSmokeAlarms /\ AlarmsAreFresh
=============================================================================
