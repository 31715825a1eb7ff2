----------------------------- MODULE Telemetry -----------------------------
(***************************************************************************)
(* publish_telemetry of lesson6/mqtt_bridge.cpp: which rounds are reported, *)
(* and how a report and the backlog of the data cache leave over a network  *)
(* that comes and goes.  One step ends at each mqtt_publish, because the    *)
(* network may change between two of them.                                  *)
(*                                                                          *)
(* The cache is the plain queue that DataCache is shown to implement.  A    *)
(* report is its number.  smoke stands for the digital smoke sensor, pir    *)
(* for it and its like (pir, light, both relays: one rule), temp for        *)
(* temperature and humidity (one rule, two thresholds).                     *)
(***************************************************************************)
EXTENDS Integers, Sequences, SequencesExt

CONSTANTS
  Temps,          \* temperatures the sensor reports
  TempChange,     \* TEMP_CHANGE_THRESHOLD
  FullInterval,   \* FULL_REPORT_INTERVAL, in rounds
  CacheMax,       \* CACHE_MAX_ENTRIES
  ReadsMayFail,   \* sensor reads may fail
  LinkMayFail,    \* mqtt_publish may fail
  MaxReports      \* bound on the reports made

ASSUME TelemetryAssumption ==
  /\ Temps \subseteq Nat /\ TempChange \in Nat \ {0} /\ FullInterval \in Nat \ {0}
  /\ CacheMax \in Nat \ {0} /\ MaxReports \in Nat
  /\ ReadsMayFail \in BOOLEAN /\ LinkMayFail \in BOOLEAN

VARIABLES
  smoke, pir, temp,             \* g_sensor_cache
  last_smoke, last_pir, last_temp,   \* last_reported_*
  sinceFull,      \* now - last_full_report_time
  pc,             \* idle, drain, resend, current
  reports,        \* number of the last report made
  inHand,         \* popped from the cache and not yet published
  backlog,        \* the cache, oldest slot first
  linkUp,
  broker,         \* what the broker received, in order
  displaced       \* what a full cache gave up

readings == <<smoke, pir, temp>>
lasts == <<last_smoke, last_pir, last_temp, sinceFull>>
vars == <<readings, lasts, pc, reports, inHand, backlog, linkUp, broker, displaced>>

ReadFailed == -1
NeverReported == -999   \* of last_temp; last_pir and last_smoke start at ReadFailed
NoReport == 0
Unread == IF ReadsMayFail THEN {ReadFailed} ELSE {}

Init ==
  /\ smoke = ReadFailed /\ pir = ReadFailed /\ temp = ReadFailed
  /\ last_smoke = ReadFailed /\ last_pir = ReadFailed /\ last_temp = NeverReported
  /\ sinceFull = FullInterval
  /\ pc = "idle" /\ reports = 0 /\ inHand = NoReport
  /\ backlog = <<>> /\ linkUp = TRUE /\ broker = <<>> /\ displaced = {}

-----------------------------------------------------------------------------
Distance(a, b) == IF a < b THEN b - a ELSE a - b

(* pir, light, relay, relay2, smoke_digital.                               *)
SwitchChanged(new, last) == new # ReadFailed /\ new # last /\ last # ReadFailed

(* Mutant: the change must exceed the threshold.                           *)
LevelExceeded(new, last) ==
  new # ReadFailed /\ last # NeverReported /\ Distance(new, last) > TempChange

(* temp, humi: a failed read was reported as -1 and is compared like any.  *)
LevelChanged(new, last) ==
  new # ReadFailed /\ last # NeverReported /\ Distance(new, last) >= TempChange

NeedReport(s, p, t, age) ==
  \/ last_pir = ReadFailed /\ last_temp = NeverReported
  \/ SwitchChanged(p, last_pir)
  \/ SwitchChanged(s, last_smoke)
  \/ LevelChanged(t, last_temp)
  \/ age >= FullInterval

(***************************************************************************)
(* refresh_sensor_cache, then the decision.  The last_reported values are   *)
(* stored after the publishing below; nobody else reads them, so they are   *)
(* stored here.                                                             *)
(***************************************************************************)
Report ==
  /\ reports < MaxReports
  /\ reports' = reports + 1
  /\ last_smoke' = smoke' /\ last_pir' = pir' /\ last_temp' = temp'
  /\ sinceFull' = 0
  /\ pc' = "drain"

Round ==
  /\ pc = "idle"
  /\ smoke' \in {0, 1} \cup Unread /\ pir' \in {0, 1} \cup Unread
  /\ temp' \in Temps \cup Unread
  /\ LET age == IF sinceFull < FullInterval THEN sinceFull + 1 ELSE sinceFull IN
       \/ NeedReport(smoke', pir', temp', age) /\ Report
       \/ /\ ~NeedReport(smoke', pir', temp', age)
          /\ sinceFull' = age
          /\ UNCHANGED <<last_smoke, last_pir, last_temp, pc, reports>>
  /\ UNCHANGED <<inHand, backlog, linkUp, broker, displaced>>

(* Mutant: the cache has no limit.                                         *)
PushUnlimited(r) == backlog' = Append(backlog, r) /\ UNCHANGED displaced

(* data_cache_push.                                                        *)
PushToCache(r) ==
  IF Len(backlog) < CacheMax
  THEN backlog' = Append(backlog, r) /\ UNCHANGED displaced
  ELSE /\ backlog' = Append(Tail(backlog), r)
       /\ displaced' = displaced \cup {Head(backlog)}

(* One turn of the loop that empties the cache first: pop ...              *)
DrainPop ==
  /\ pc = "drain"
  /\ IF backlog = <<>>
     THEN pc' = "current" /\ UNCHANGED <<inHand, backlog>>
     ELSE pc' = "resend" /\ inHand' = Head(backlog) /\ backlog' = Tail(backlog)
  /\ UNCHANGED <<readings, lasts, reports, linkUp, broker, displaced>>

(* Mutant: a failing publish does not end the loop.                        *)
ResendWithoutBreak ==
  /\ pc = "resend"
  /\ inHand' = NoReport
  /\ pc' = "drain"
  /\ IF linkUp
     THEN broker' = Append(broker, inHand) /\ UNCHANGED <<backlog, displaced>>
     ELSE PushToCache(inHand) /\ UNCHANGED broker
  /\ UNCHANGED <<readings, lasts, reports, linkUp>>

(* ... and publish; a failure puts the report back, at the end, and stops. *)
DrainPublish ==
  /\ pc = "resend"
  /\ inHand' = NoReport
  /\ IF linkUp
     THEN /\ pc' = "drain"
          /\ broker' = Append(broker, inHand) /\ UNCHANGED <<backlog, displaced>>
     ELSE /\ pc' = "current"
          /\ PushToCache(inHand) /\ UNCHANGED broker
  /\ UNCHANGED <<readings, lasts, reports, linkUp>>

(* Mutant: a report that fails is cached only while the cache has room.    *)
PublishCurrentOrLose ==
  /\ pc = "current"
  /\ pc' = "idle"
  /\ IF linkUp
     THEN broker' = Append(broker, reports) /\ UNCHANGED <<backlog, displaced>>
     ELSE /\ IF Len(backlog) < CacheMax
             THEN PushToCache(reports)
             ELSE UNCHANGED <<backlog, displaced>>
          /\ UNCHANGED broker
  /\ UNCHANGED <<readings, lasts, reports, inHand, linkUp>>

(* The report of this round, sent whatever became of the backlog.          *)
PublishCurrent ==
  /\ pc = "current"
  /\ pc' = "idle"
  /\ IF linkUp
     THEN broker' = Append(broker, reports) /\ UNCHANGED <<backlog, displaced>>
     ELSE PushToCache(reports) /\ UNCHANGED broker
  /\ UNCHANGED <<readings, lasts, reports, inHand, linkUp>>

(* The network; mqttclient reconnects by itself.                           *)
LinkChanges ==
  /\ LinkMayFail
  /\ linkUp' = ~linkUp
  /\ UNCHANGED <<readings, lasts, pc, reports, inHand, backlog, broker, displaced>>

TelemetryStep == Round \/ DrainPop \/ DrainPublish \/ PublishCurrent
Next == TelemetryStep \/ LinkChanges

Spec == Init /\ [][Next]_vars

(* The telemetry thread is never blocked for good between two publishes.   *)
FairSpec == Spec /\ WF_vars(DrainPop \/ DrainPublish \/ PublishCurrent)

-----------------------------------------------------------------------------
Readings == {ReadFailed, 0, 1}
ReportIds == 1 .. reports

TypeOK ==
  /\ smoke \in Readings /\ pir \in Readings /\ temp \in Temps \cup {ReadFailed}
  /\ last_smoke \in Readings /\ last_pir \in Readings
  /\ last_temp \in Temps \cup {ReadFailed, NeverReported}
  /\ sinceFull \in 0 .. FullInterval
  /\ pc \in {"idle", "drain", "resend", "current"}
  /\ reports \in 0 .. MaxReports
  /\ inHand \in ReportIds \cup {NoReport}
  /\ backlog \in Seq(ReportIds) /\ Len(backlog) <= CacheMax
  /\ linkUp \in BOOLEAN
  /\ broker \in Seq(ReportIds)
  /\ displaced \subseteq ReportIds

(***************************************************************************)
(* Every report made is in exactly one place, once: at the broker, in the   *)
(* cache, in the hands of the thread, or given up by a full cache.  However *)
(* the network flaps, none is lost otherwise and none is sent twice.        *)
(***************************************************************************)
InTransit ==
  (IF inHand = NoReport THEN <<>> ELSE <<inHand>>)
    \o (IF pc = "idle" THEN <<>> ELSE <<reports>>)
Places == broker \o backlog \o InTransit \o SetToSeq(displaced)
EachReportOnce == IsInjective(Places) /\ ToSet(Places) = ReportIds

(* The value read is not the one last reported.                            *)
Unreported(new, last) == new # ReadFailed /\ new # last

(* ... only if the last report had no value because its read had failed.   *)
SwitchesAreReported ==
  /\ Unreported(smoke, last_smoke) => last_smoke = ReadFailed
  /\ Unreported(pir, last_pir) => last_pir = ReadFailed

(* A reported failure is the level -1, from which any level read is far.   *)
TemperatureIsReported == temp # ReadFailed => Distance(temp, last_temp) < TempChange

(***************************************************************************)
(* What a sensor that fails in some rounds may hide, and for how long.  A   *)
(* change of a switch stays unreported only if the last report was made     *)
(* while its read failed, and for less than FULL_REPORT_INTERVAL; a change  *)
(* of a temperature by the threshold never does.                            *)
(***************************************************************************)
OnlyFailedReadsHideChanges ==
  pc = "idle" /\ reports > 0 =>
    SwitchesAreReported /\ TemperatureIsReported /\ sinceFull < FullInterval

(* publish_telemetry ends, however often the network fails meanwhile.      *)
RoundEnds == (pc # "idle") ~> (pc = "idle")

(***************************************************************************)
(* publish_telemetry: "smoke detection is a key safety event and must be    *)
(* reported at once".  A smoke value read is the one last reported, also    *)
(* after a report made while the sensor could not be read.                  *)
(***************************************************************************)
SmokeIsReported == pc = "idle" /\ smoke # ReadFailed => last_smoke = smoke
=============================================================================
