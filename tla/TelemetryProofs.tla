-------------------------- MODULE TelemetryProofs --------------------------
(***************************************************************************)
(* Proofs about Telemetry, for all temperatures, thresholds, cache sizes    *)
(* and bounds on the reports: every state has its type, no change of a      *)
(* reading stays unreported, and every report is in exactly one place.      *)
(*                                                                          *)
(* EachReportOnce speaks of one long sequence.  The proof keeps the places  *)
(* apart: it shows that each holds no report twice, that no two of them     *)
(* share one and that together they hold all, and puts the sequence         *)
(* together only at the end.                                                *)
(***************************************************************************)
EXTENDS Telemetry, FiniteSetTheorems, SequenceTheorems, TLAPS

(* What the thread holds, as sets.                                          *)
Popped == {inHand} \ {NoReport}
Current == IF pc = "idle" THEN {} ELSE {reports}

(* The cache is popped for a resend only, and a report under way exists.    *)
HandsInv ==
  /\ pc = "resend" <=> inHand # NoReport
  /\ pc # "idle" => reports >= 1

(* No report is twice in one place, in two places or in none.               *)
PlacesInv ==
  /\ IsInjective(broker) /\ IsInjective(backlog)
  /\ ToSet(broker) \cap ToSet(backlog) = {}
  /\ ToSet(broker) \cap (Popped \cup Current \cup displaced) = {}
  /\ ToSet(backlog) \cap (Popped \cup Current \cup displaced) = {}
  /\ Popped \cap Current = {}
  /\ displaced \cap (Popped \cup Current) = {}
  /\ ToSet(broker) \cup ToSet(backlog) \cup Popped \cup Current \cup displaced = ReportIds

(* While a report is under way it holds the readings of this round, and     *)
(* once there was a report its temperature is known to have been one.       *)
LastsInv ==
  /\ pc # "idle" => /\ last_smoke = smoke /\ last_pir = pir /\ last_temp = temp
                    /\ sinceFull = 0 /\ reports >= 1
  /\ reports >= 1 => last_temp # NeverReported

-----------------------------------------------------------------------------
(* Lemmas about sequences without repetition.                               *)

(* Appending something new keeps a sequence free of repetition.             *)
LEMMA AppendOnce ==
  ASSUME NEW S, NEW s \in Seq(S), NEW x \in S
  PROVE  /\ ToSet(Append(s, x)) = ToSet(s) \cup {x}
         /\ IsInjective(s) /\ x \notin ToSet(s) => IsInjective(Append(s, x))
<1> DEFINE t == Append(s, x)
<1>1. /\ t \in Seq(S) /\ Len(t) = Len(s) + 1 /\ Len(s) \in Nat
      /\ \A i \in 1 .. Len(s) : t[i] = s[i]
      /\ t[Len(s) + 1] = x
  BY AppendProperties, LenProperties
<1>2. DOMAIN s = 1 .. Len(s) /\ DOMAIN t = 1 .. (Len(s) + 1)
  BY <1>1, LenProperties
<1> HIDE DEF t
<1>3. ToSet(t) = ToSet(s) \cup {x}
  <2>1. ASSUME NEW y \in ToSet(t) PROVE y \in ToSet(s) \cup {x}
    <3>1. PICK i \in 1 .. (Len(s) + 1) : y = t[i]
      BY <2>1, <1>2 DEF ToSet
    <3>2. i \in 1 .. Len(s) \/ i = Len(s) + 1
      BY <3>1, <1>1
    <3>3. QED
      BY <3>1, <3>2, <1>1, <1>2 DEF ToSet
  <2>2. ASSUME NEW y \in ToSet(s) PROVE y \in ToSet(t)
    <3>1. PICK i \in 1 .. Len(s) : y = s[i]
      BY <2>2, <1>2 DEF ToSet
    <3>2. i \in 1 .. (Len(s) + 1) /\ t[i] = y
      BY <3>1, <1>1
    <3>3. QED
      BY <3>2, <1>2 DEF ToSet
  <2>3. Len(s) + 1 \in DOMAIN t
    BY <1>1, <1>2
  <2>4. x \in ToSet(t)
    BY <1>1, <2>3 DEF ToSet
  <2>5. QED
    BY <2>1, <2>2, <2>4
<1>4. ASSUME IsInjective(s), x \notin ToSet(s) PROVE IsInjective(t)
  <2>1. SUFFICES ASSUME NEW i \in 1 .. (Len(s) + 1), NEW j \in 1 .. (Len(s) + 1), t[i] = t[j]
                 PROVE  i = j
    BY <1>2 DEF IsInjective
  <2>2. CASE i \in 1 .. Len(s) /\ j \in 1 .. Len(s)
    BY <2>1, <2>2, <1>1, <1>2, <1>4 DEF IsInjective
  <2>3. CASE i \in 1 .. Len(s) /\ j = Len(s) + 1
    BY <2>1, <2>3, <1>1, <1>2, <1>4 DEF ToSet
  <2>4. CASE i = Len(s) + 1 /\ j \in 1 .. Len(s)
    BY <2>1, <2>4, <1>1, <1>2, <1>4 DEF ToSet
  <2>5. QED
    BY <2>1, <2>2, <2>3, <2>4, <1>1
<1>5. QED
  BY <1>3, <1>4 DEF t

(* What the tail of such a sequence holds: all but the head.                *)
LEMMA TailOnce ==
  ASSUME NEW S, NEW s \in Seq(S), s # <<>>
  PROVE  /\ ToSet(s) = ToSet(Tail(s)) \cup {Head(s)}
         /\ IsInjective(s) => IsInjective(Tail(s)) /\ Head(s) \notin ToSet(Tail(s))
<1> DEFINE t == Tail(s)
<1>1. /\ t \in Seq(S) /\ Len(t) = Len(s) - 1 /\ Len(s) \in Nat /\ Len(s) >= 1
      /\ \A i \in 1 .. Len(t) : t[i] = s[i + 1]
      /\ Head(s) = s[1]
  BY HeadTailProperties, LenProperties, EmptySeq
<1>2. DOMAIN s = 1 .. Len(s) /\ DOMAIN t = 1 .. (Len(s) - 1)
  BY <1>1, LenProperties
<1> HIDE DEF t
<1>3. ToSet(s) = ToSet(t) \cup {Head(s)}
  <2>1. ASSUME NEW y \in ToSet(s) PROVE y \in ToSet(t) \cup {Head(s)}
    <3>1. PICK i \in 1 .. Len(s) : y = s[i]
      BY <2>1, <1>2 DEF ToSet
    <3>2. CASE i = 1
      BY <3>1, <3>2, <1>1
    <3>3. CASE i # 1
      <4>1. i - 1 \in 1 .. (Len(s) - 1) /\ (i - 1) + 1 = i
        BY <3>1, <3>3, <1>1
      <4>2. t[i - 1] = y
        BY <4>1, <3>1, <1>1
      <4>3. QED
        BY <4>1, <4>2, <1>2 DEF ToSet
    <3>4. QED
      BY <3>2, <3>3
  <2>2. ASSUME NEW y \in ToSet(t) PROVE y \in ToSet(s)
    <3>1. PICK i \in 1 .. (Len(s) - 1) : y = t[i]
      BY <2>2, <1>2 DEF ToSet
    <3>2. i + 1 \in 1 .. Len(s) /\ s[i + 1] = y
      BY <3>1, <1>1
    <3>3. QED
      BY <3>2, <1>2 DEF ToSet
  <2>3. Head(s) \in ToSet(s)
    BY <1>1, <1>2 DEF ToSet
  <2>4. QED
    BY <2>1, <2>2, <2>3
<1>4. ASSUME IsInjective(s) PROVE IsInjective(t) /\ Head(s) \notin ToSet(t)
  <2>1. ASSUME NEW i \in 1 .. (Len(s) - 1), NEW j \in 1 .. (Len(s) - 1), t[i] = t[j]
        PROVE  i = j
    <3>1. /\ i + 1 \in 1 .. Len(s) /\ j + 1 \in 1 .. Len(s)
          /\ s[i + 1] = s[j + 1]
      BY <2>1, <1>1
    <3>2. i + 1 = j + 1
      BY <3>1, <1>2, <1>4 DEF IsInjective
    <3>3. QED
      BY <3>2, <2>1
  <2>2. ASSUME NEW i \in 1 .. (Len(s) - 1) PROVE t[i] # Head(s)
    <3>1. /\ 1 \in 1 .. Len(s) /\ i + 1 \in 1 .. Len(s) /\ 1 # i + 1
          /\ t[i] = s[i + 1]
      BY <2>2, <1>1
    <3>2. QED
      BY <3>1, <1>1, <1>2, <1>4 DEF IsInjective
  <2>3. QED
    BY <2>1, <2>2, <1>2 DEF IsInjective, ToSet
<1>5. QED
  BY <1>3, <1>4 DEF t

(* Two such sequences with nothing in common make one.                      *)
LEMMA ConcatOnce ==
  ASSUME NEW S, NEW s \in Seq(S), NEW t \in Seq(S),
         IsInjective(s), IsInjective(t), ToSet(s) \cap ToSet(t) = {}
  PROVE  /\ s \o t \in Seq(S)
         /\ IsInjective(s \o t)
         /\ ToSet(s \o t) = ToSet(s) \cup ToSet(t)
<1> DEFINE u == s \o t
           m == Len(s)
           n == Len(t)
<1>1. /\ u \in Seq(S) /\ Len(u) = m + n /\ m \in Nat /\ n \in Nat
      /\ \A i \in 1 .. (m + n) : u[i] = IF i <= m THEN s[i] ELSE t[i - m]
  BY ConcatProperties, LenProperties
<1>2. DOMAIN s = 1 .. m /\ DOMAIN t = 1 .. n /\ DOMAIN u = 1 .. (m + n)
  BY <1>1, LenProperties
<1> HIDE DEF u, m, n
<1>3. ASSUME NEW i \in 1 .. (m + n)
      PROVE  \/ i \in 1 .. m /\ u[i] = s[i]
             \/ i - m \in 1 .. n /\ i \in (m + 1) .. (m + n) /\ u[i] = t[i - m]
  BY <1>1
<1>4. IsInjective(u)
  <2>1. SUFFICES ASSUME NEW i \in 1 .. (m + n), NEW j \in 1 .. (m + n), u[i] = u[j]
                 PROVE  i = j
    BY <1>2 DEF IsInjective
  <2>2. CASE i \in 1 .. m /\ j \in 1 .. m
    <3>1. u[i] = s[i] /\ u[j] = s[j]
      BY <2>2, <1>1
    <3>2. QED
      BY <3>1, <2>1, <2>2, <1>2 DEF IsInjective
  <2>3. CASE i \notin 1 .. m /\ j \notin 1 .. m
    <3>1. /\ i - m \in 1 .. n /\ j - m \in 1 .. n
          /\ u[i] = t[i - m] /\ u[j] = t[j - m]
      BY <2>3, <1>3
    <3>2. i - m = j - m
      BY <3>1, <2>1, <1>2 DEF IsInjective
    <3>3. QED
      BY <3>2, <2>1, <1>1
  <2>4. CASE i \in 1 .. m /\ j \notin 1 .. m
    <3>1. u[i] = s[i] /\ j - m \in 1 .. n /\ u[j] = t[j - m]
      BY <2>4, <1>1, <1>3
    <3>2. QED
      BY <3>1, <2>1, <2>4, <1>2 DEF ToSet
  <2>5. CASE i \notin 1 .. m /\ j \in 1 .. m
    <3>1. u[j] = s[j] /\ i - m \in 1 .. n /\ u[i] = t[i - m]
      BY <2>5, <1>1, <1>3
    <3>2. QED
      BY <3>1, <2>1, <2>5, <1>2 DEF ToSet
  <2>6. QED
    BY <2>2, <2>3, <2>4, <2>5
<1>5. ASSUME NEW y \in ToSet(u) PROVE y \in ToSet(s) \cup ToSet(t)
  BY <1>2, <1>3 DEF ToSet
<1>6. ASSUME NEW y \in ToSet(s) PROVE y \in ToSet(u)
  <2>1. PICK i \in 1 .. m : y = s[i]
    BY <1>2 DEF ToSet
  <2>2. i \in 1 .. (m + n) /\ u[i] = y
    BY <2>1, <1>1
  <2>3. QED
    BY <2>2, <1>2 DEF ToSet
<1>7. ASSUME NEW y \in ToSet(t) PROVE y \in ToSet(u)
  <2>1. PICK i \in 1 .. n : y = t[i]
    BY <1>2 DEF ToSet
  <2>2. i + m \in 1 .. (m + n) /\ u[i + m] = t[(i + m) - m] /\ (i + m) - m = i
    BY <2>1, <1>1
  <2>3. QED
    BY <2>1, <2>2, <1>2 DEF ToSet
<1>8. QED
  BY <1>1, <1>4, <1>5, <1>6, <1>7 DEF u

(* A finite set written out as a sequence holds each element once.          *)
LEMMA SetToSeqOnce ==
  ASSUME NEW S, IsFiniteSet(S)
  PROVE  /\ SetToSeq(S) \in Seq(S)
         /\ IsInjective(SetToSeq(S))
         /\ ToSet(SetToSeq(S)) = S
<1> DEFINE n == Cardinality(S)
           f == SetToSeq(S)
<1>1. n \in Nat /\ ExistsBijection(1 .. n, S)
  BY FS_CardinalityType
<1>2. PICK g \in [1 .. n -> S] : IsInjective(g)
  BY <1>1 DEF ExistsBijection, Bijection, Injection
<1>3. f \in [1 .. n -> S] /\ IsInjective(f)
  BY <1>2 DEF SetToSeq
<1> HIDE DEF f
<1>4. f \in Seq(S)
  BY <1>1, <1>3, SeqDef
<1>5. IsFiniteSet(1 .. n) /\ Cardinality(1 .. n) = n
  BY <1>1, FS_Interval
<1>6. f \in Injection(1 .. n, S)
  BY <1>3 DEF Injection
<1>7. f \in Surjection(1 .. n, S)
  BY <1>5, <1>6, FS_Injection
<1>8. ToSet(f) = S
  <2>1. DOMAIN f = 1 .. n
    BY <1>3
  <2>2. QED
    BY <1>3, <1>7, <2>1 DEF Surjection, ToSet
<1>9. QED
  BY <1>3, <1>4, <1>8 DEF f

-----------------------------------------------------------------------------
(* data_cache_push: what it gives up is the head of a full cache.           *)
LEMMA PushToCacheTypes ==
  ASSUME TypeOK, NEW r \in ReportIds, PushToCache(r)
  PROVE  /\ backlog' \in Seq(ReportIds) /\ Len(backlog') <= CacheMax
         /\ displaced' \subseteq ReportIds
<1>1. CASE Len(backlog) < CacheMax
  <2>1. backlog' = Append(backlog, r) /\ displaced' = displaced
    BY <1>1 DEF PushToCache
  <2>2. Len(backlog) \in Nat
    BY LenProperties DEF TypeOK
  <2>3. QED
    BY <1>1, <2>1, <2>2, AppendProperties, TelemetryAssumption DEF TypeOK
<1>2. CASE ~ (Len(backlog) < CacheMax)
  <2>1. /\ backlog' = Append(Tail(backlog), r)
        /\ displaced' = displaced \cup {Head(backlog)}
    BY <1>2 DEF PushToCache
  <2>2. backlog # <<>>
    BY <1>2, TelemetryAssumption, EmptySeq
  <2>3. /\ Tail(backlog) \in Seq(ReportIds) /\ Head(backlog) \in ReportIds
        /\ Len(Tail(backlog)) = Len(backlog) - 1 /\ Len(backlog) \in Nat
    BY <2>2, HeadTailProperties, LenProperties DEF TypeOK
  <2>4. /\ Append(Tail(backlog), r) \in Seq(ReportIds)
        /\ Len(Append(Tail(backlog), r)) = Len(Tail(backlog)) + 1
    BY <2>3, AppendProperties
  <2>5. QED
    BY <2>1, <2>3, <2>4, TelemetryAssumption DEF TypeOK
<1>3. QED
  BY <1>1, <1>2

LEMMA TypeInit == Init => TypeOK /\ HandsInv
<1>1. SUFFICES ASSUME Init PROVE TypeOK /\ HandsInv
  OBVIOUS
<1>2. <<>> \in Seq(ReportIds) /\ Len(<<>>) = 0
  BY EmptySeq
<1>3. QED
  BY <1>1, <1>2, TelemetryAssumption
  DEF Init, TypeOK, HandsInv, Readings, ReadFailed, NeverReported, NoReport, ReportIds

(* The reports made so far stay reports when one more is made.              *)
LEMMA MoreReports ==
  ASSUME TypeOK, reports' \in {reports, reports + 1}
  PROVE  ReportIds \subseteq ReportIds' /\ reports \in Nat
BY DEF TypeOK, ReportIds

LEMMA TypeStep ==
  ASSUME TypeOK, HandsInv, [Next]_vars
  PROVE  TypeOK' /\ HandsInv'
<1> USE TelemetryAssumption
<1>1. CASE Round
  <2>1. /\ smoke' \in Readings /\ pir' \in Readings /\ temp' \in Temps \cup {ReadFailed}
        /\ UNCHANGED <<inHand, backlog, linkUp, broker, displaced>>
        /\ pc = "idle"
    BY <1>1 DEF Round, Readings, Unread
  <2>2. \/ Report
        \/ /\ sinceFull' \in 0 .. FullInterval
           /\ UNCHANGED <<last_smoke, last_pir, last_temp, pc, reports>>
    BY <1>1 DEF Round, TypeOK
  <2>3. ReportIds \subseteq ReportIds'
    BY <2>2, MoreReports DEF Report
  <2>4. backlog \in Seq(ReportIds') /\ broker \in Seq(ReportIds')
    BY <2>3, SeqMonotonic DEF TypeOK
  <2>5. inHand = NoReport
    BY <2>1 DEF HandsInv
  <2>6. CASE Report
    BY <2>1, <2>3, <2>4, <2>5, <2>6 DEF Report, TypeOK, HandsInv, Readings
  <2>7. CASE /\ sinceFull' \in 0 .. FullInterval
             /\ UNCHANGED <<last_smoke, last_pir, last_temp, pc, reports>>
    BY <2>1, <2>3, <2>4, <2>5, <2>7 DEF TypeOK, HandsInv
  <2>8. QED
    BY <2>2, <2>6, <2>7
<1>2. CASE DrainPop
  <2>1. UNCHANGED ReportIds
    BY <1>2 DEF DrainPop, ReportIds
  <2>2. CASE backlog = <<>>
    BY <1>2, <2>1, <2>2 DEF DrainPop, TypeOK, HandsInv, readings, lasts
  <2>3. CASE backlog # <<>>
    <3>1. /\ Head(backlog) \in ReportIds /\ Tail(backlog) \in Seq(ReportIds)
          /\ Len(Tail(backlog)) = Len(backlog) - 1 /\ Len(backlog) \in Nat
      BY <2>3, HeadTailProperties, LenProperties DEF TypeOK
    <3>2. Head(backlog) # NoReport /\ Len(Tail(backlog)) <= CacheMax
      BY <3>1 DEF ReportIds, NoReport, TypeOK
    <3>3. QED
      BY <1>2, <2>1, <2>3, <3>1, <3>2 DEF DrainPop, TypeOK, HandsInv, readings, lasts
  <2>4. QED
    BY <2>2, <2>3
<1>3. CASE DrainPublish
  <2>1. UNCHANGED ReportIds /\ inHand \in ReportIds
    BY <1>3 DEF DrainPublish, ReportIds, HandsInv, TypeOK
  <2>2. Append(broker, inHand) \in Seq(ReportIds)
    BY <2>1, AppendProperties DEF TypeOK
  <2>3. CASE linkUp
    BY <1>3, <2>1, <2>2, <2>3 DEF DrainPublish, TypeOK, HandsInv, readings, lasts
  <2>4. CASE ~linkUp
    <3>1. PushToCache(inHand)
      BY <1>3, <2>4 DEF DrainPublish
    <3>2. QED
      BY <1>3, <2>1, <2>4, <3>1, PushToCacheTypes
      DEF DrainPublish, TypeOK, HandsInv, readings, lasts
  <2>5. QED
    BY <2>3, <2>4
<1>4. CASE PublishCurrent
  <2>1. UNCHANGED ReportIds /\ reports \in ReportIds
    BY <1>4 DEF PublishCurrent, ReportIds, HandsInv, TypeOK
  <2>2. Append(broker, reports) \in Seq(ReportIds)
    BY <2>1, AppendProperties DEF TypeOK
  <2>3. CASE linkUp
    BY <1>4, <2>1, <2>2, <2>3 DEF PublishCurrent, TypeOK, HandsInv, readings, lasts
  <2>4. CASE ~linkUp
    <3>1. PushToCache(reports)
      BY <1>4, <2>4 DEF PublishCurrent
    <3>2. QED
      BY <1>4, <2>1, <2>4, <3>1, PushToCacheTypes
      DEF PublishCurrent, TypeOK, HandsInv, readings, lasts
  <2>5. QED
    BY <2>3, <2>4
<1>5. CASE LinkChanges
  BY <1>5 DEF LinkChanges, TypeOK, HandsInv, readings, lasts, ReportIds
<1>6. CASE UNCHANGED vars
  BY <1>6 DEF vars, TypeOK, HandsInv, readings, lasts, ReportIds
<1>7. QED
  BY <1>1, <1>2, <1>3, <1>4, <1>5, <1>6 DEF Next, TelemetryStep

(* Every variable of the telemetry thread stays in its type.                *)
THEOREM TypeCorrect == Spec => []TypeOK
<1>1. Init => TypeOK /\ HandsInv
  BY TypeInit
<1>2. (TypeOK /\ HandsInv) /\ [Next]_vars => (TypeOK /\ HandsInv)'
  BY TypeStep
<1>3. QED
  BY <1>1, <1>2, PTL DEF Spec

-----------------------------------------------------------------------------
(***************************************************************************)
(* Which rounds are reported.  OnlyFailedReadsHideChanges is not inductive: *)
(* a round may only keep silent because the values last reported are those  *)
(* of the round that reported them, which LastsInv says.                    *)
(***************************************************************************)
LEMMA ChangesStep ==
  ASSUME TypeOK, LastsInv, OnlyFailedReadsHideChanges, [Next]_vars
  PROVE  LastsInv' /\ OnlyFailedReadsHideChanges'
<1> USE TelemetryAssumption
<1>1. CASE Round
  <2>1. /\ pc = "idle" /\ reports \in Nat
        /\ smoke' \in Readings /\ pir' \in Readings /\ temp' \in Temps \cup {ReadFailed}
    BY <1>1 DEF Round, Readings, Unread, TypeOK
  <2>2. temp' \in Int /\ temp' # NeverReported
    BY <2>1 DEF ReadFailed, NeverReported
  <2>3. CASE Report
    BY <2>1, <2>2, <2>3
    DEF Report, LastsInv, OnlyFailedReadsHideChanges
  <2>4. CASE ~Report
    <3>1. PICK age \in 0 .. FullInterval :
                     /\ ~NeedReport(smoke', pir', temp', age) /\ sinceFull' = age
                     /\ UNCHANGED <<last_smoke, last_pir, last_temp, pc, reports>>
      BY <1>1, <2>4 DEF Round, TypeOK
    <3>2. LastsInv'
      BY <2>1, <3>1 DEF LastsInv
    <3>3. SwitchesAreReported'
      BY <3>1 DEF SwitchesAreReported, Unreported, NeedReport, SwitchChanged
    <3>4. ASSUME reports > 0, temp' # ReadFailed
          PROVE  Distance(temp', last_temp) < TempChange
      <4>1. last_temp # NeverReported /\ last_temp \in Int
        BY <3>4 DEF LastsInv, TypeOK, ReadFailed, NeverReported
      <4>2. ~ (Distance(temp', last_temp) >= TempChange)
        BY <3>1, <3>4, <4>1 DEF NeedReport, LevelChanged
      <4>3. Distance(temp', last_temp) \in Int /\ TempChange \in Int
        BY <4>1, <2>2 DEF Distance
      <4>4. QED
        BY <4>2, <4>3
    <3>5. reports > 0 => TemperatureIsReported'
      BY <3>1, <3>4, <2>1 DEF TemperatureIsReported
    <3>6. sinceFull' < FullInterval
      BY <3>1 DEF NeedReport
    <3>7. QED
      BY <3>1, <3>2, <3>3, <3>5, <3>6 DEF OnlyFailedReadsHideChanges
  <2>5. QED
    BY <2>3, <2>4
<1>2. CASE DrainPop \/ DrainPublish \/ PublishCurrent
  <2>1. UNCHANGED <<readings, lasts, reports>> /\ pc # "idle"
    BY <1>2 DEF DrainPop, DrainPublish, PublishCurrent
  <2>2. /\ last_smoke = smoke /\ last_pir = pir /\ last_temp = temp
        /\ temp \in Int /\ sinceFull = 0
    BY <2>1 DEF LastsInv, TypeOK, ReadFailed
  <2>3. Distance(temp, temp) < TempChange
    BY <2>2 DEF Distance
  <2>4. QED
    BY <2>1, <2>2, <2>3
    DEF readings, lasts, LastsInv, OnlyFailedReadsHideChanges, SwitchesAreReported,
        TemperatureIsReported, Unreported
<1>3. CASE LinkChanges \/ UNCHANGED vars
  BY <1>3
  DEF LinkChanges, vars, readings, lasts, LastsInv, OnlyFailedReadsHideChanges,
      SwitchesAreReported, TemperatureIsReported, Unreported
<1>4. QED
  BY <1>1, <1>2, <1>3 DEF Next, TelemetryStep

(***************************************************************************)
(* Whatever the sensors read and whichever reads fail: a switch read is the *)
(* one last reported, or that report was made while its read failed and is  *)
(* younger than a full interval; a temperature read is always less than a   *)
(* threshold away from the one last reported.                               *)
(***************************************************************************)
THEOREM ChangesHidden == Spec => []OnlyFailedReadsHideChanges
<1>1. Init => TypeOK /\ HandsInv
  BY TypeInit
<1>2. Init => LastsInv /\ OnlyFailedReadsHideChanges
  BY DEF Init, LastsInv, OnlyFailedReadsHideChanges
<1>3. (TypeOK /\ HandsInv) /\ (LastsInv /\ OnlyFailedReadsHideChanges) /\ [Next]_vars
        => (TypeOK /\ HandsInv)' /\ (LastsInv /\ OnlyFailedReadsHideChanges)'
  BY TypeStep, ChangesStep
<1>4. QED
  BY <1>1, <1>2, <1>3, PTL DEF Spec

-----------------------------------------------------------------------------
(* data_cache_push of a report the cache does not hold: it holds it now,    *)
(* and if it gave one up, that one is no longer there.                      *)
LEMMA PushToCacheOnce ==
  ASSUME TypeOK, NEW r \in ReportIds, PushToCache(r),
         IsInjective(backlog), r \notin ToSet(backlog)
  PROVE  /\ IsInjective(backlog')
         /\ \/ /\ ToSet(backlog') = ToSet(backlog) \cup {r}
               /\ displaced' = displaced
            \/ \E h \in ToSet(backlog) :
                 /\ ToSet(backlog') = (ToSet(backlog) \ {h}) \cup {r}
                 /\ displaced' = displaced \cup {h}
<1>1. CASE Len(backlog) < CacheMax
  <2>1. backlog' = Append(backlog, r) /\ displaced' = displaced
    BY <1>1 DEF PushToCache
  <2>2. backlog \in Seq(ReportIds)
    BY DEF TypeOK
  <2>3. QED
    BY <2>1, <2>2, AppendOnce
<1>2. CASE ~ (Len(backlog) < CacheMax)
  <2> DEFINE h == Head(backlog)
             t == Tail(backlog)
  <2>1. backlog' = Append(t, r) /\ displaced' = displaced \cup {h}
    BY <1>2 DEF PushToCache
  <2>2. backlog # <<>> /\ backlog \in Seq(ReportIds)
    BY <1>2, TelemetryAssumption, EmptySeq DEF TypeOK
  <2>3. t \in Seq(ReportIds) /\ h \in ReportIds
    BY <2>2, HeadTailProperties
  <2>4. /\ ToSet(backlog) = ToSet(t) \cup {h}
        /\ IsInjective(t) /\ h \notin ToSet(t)
    BY <2>2, TailOnce
  <2>5. r \notin ToSet(t)
    BY <2>4
  <2> HIDE DEF h, t
  <2>6. IsInjective(Append(t, r)) /\ ToSet(Append(t, r)) = ToSet(t) \cup {r}
    BY <2>3, <2>4, <2>5, AppendOnce
  <2>7. h \in ToSet(backlog) /\ ToSet(backlog') = (ToSet(backlog) \ {h}) \cup {r}
    BY <2>1, <2>4, <2>6
  <2>8. QED
    BY <2>1, <2>6, <2>7
<1>3. QED
  BY <1>1, <1>2

LEMMA PlacesInit == Init => PlacesInv
<1>1. ToSet(<<>>) = {} /\ IsInjective(<<>>)
  BY DEF ToSet, IsInjective
<1>2. QED
  BY <1>1 DEF Init, PlacesInv, Popped, Current, NoReport, ReportIds

LEMMA PlacesStep ==
  ASSUME TypeOK, HandsInv, PlacesInv, [Next]_vars
  PROVE  PlacesInv'
<1>1. CASE Round
  <2>1. /\ pc = "idle" /\ reports \in Nat
        /\ UNCHANGED <<inHand, backlog, broker, displaced>>
    BY <1>1 DEF Round, TypeOK
  <2>2. CASE Report
    <3>1. reports' = reports + 1 /\ pc' = "drain"
      BY <2>2 DEF Report
    <3>2. ReportIds' = ReportIds \cup {reports'} /\ reports' \notin ReportIds
      BY <2>1, <3>1 DEF ReportIds
    <3>3. Current = {} /\ Current' = {reports'} /\ Popped' = Popped
      BY <2>1, <3>1 DEF Current, Popped
    <3>4. QED
      BY <2>1, <3>2, <3>3 DEF PlacesInv
  <2>3. CASE ~Report
    <3>1. UNCHANGED <<pc, reports>>
      BY <1>1, <2>3 DEF Round
    <3>2. QED
      BY <2>1, <3>1 DEF PlacesInv, Current, Popped, ReportIds
  <2>4. QED
    BY <2>2, <2>3
<1>2. CASE DrainPop
  <2>1. UNCHANGED <<reports, broker, displaced>> /\ pc = "drain" /\ inHand = NoReport
    BY <1>2 DEF DrainPop, HandsInv
  <2>2. CASE backlog = <<>>
    BY <1>2, <2>1, <2>2 DEF DrainPop, PlacesInv, Current, Popped, ReportIds
  <2>3. CASE backlog # <<>>
    <3>1. inHand' = Head(backlog) /\ backlog' = Tail(backlog) /\ pc' = "resend"
      BY <1>2, <2>3 DEF DrainPop
    <3>2. Head(backlog) \in ReportIds /\ backlog \in Seq(ReportIds)
      BY <2>3, HeadTailProperties DEF TypeOK
    <3>3. /\ ToSet(backlog) = ToSet(backlog') \cup {inHand'}
          /\ IsInjective(backlog') /\ inHand' \notin ToSet(backlog')
      BY <2>3, <3>1, <3>2, TailOnce DEF PlacesInv
    <3>4. Popped = {} /\ Popped' = {inHand'}
      BY <2>1, <3>1, <3>2 DEF Popped, NoReport, ReportIds
    <3>5. Current' = Current /\ ReportIds' = ReportIds
      BY <2>1, <3>1 DEF Current, ReportIds
    <3>6. QED
      BY <2>1, <3>3, <3>4, <3>5 DEF PlacesInv
  <2>4. QED
    BY <2>2, <2>3
<1>3. CASE DrainPublish
  <2>1. /\ reports' = reports /\ ReportIds' = ReportIds
        /\ pc # "idle" /\ pc' # "idle" /\ inHand' = NoReport
    BY <1>3 DEF DrainPublish, ReportIds
  <2>2. inHand \in ReportIds /\ inHand # NoReport
    BY <1>3 DEF DrainPublish, HandsInv, TypeOK
  <2>3. Popped = {inHand} /\ Popped' = {} /\ Current' = Current
    BY <2>1, <2>2 DEF Popped, Current
  <2>4. CASE linkUp
    <3>1. broker' = Append(broker, inHand) /\ UNCHANGED <<backlog, displaced>>
      BY <1>3, <2>4 DEF DrainPublish
    <3>2. broker \in Seq(ReportIds) /\ inHand \notin ToSet(broker)
      BY <2>3 DEF TypeOK, PlacesInv
    <3>3. ToSet(broker') = ToSet(broker) \cup {inHand} /\ IsInjective(broker')
      BY <2>2, <3>1, <3>2, AppendOnce DEF PlacesInv
    <3>4. QED
      BY <2>1, <2>3, <3>1, <3>3 DEF PlacesInv
  <2>5. CASE ~linkUp
    <3>1. PushToCache(inHand) /\ broker' = broker
      BY <1>3, <2>5 DEF DrainPublish
    <3>2. inHand \notin ToSet(backlog)
      BY <2>3 DEF PlacesInv
    <3>3. /\ IsInjective(backlog')
          /\ \/ /\ ToSet(backlog') = ToSet(backlog) \cup {inHand}
                /\ displaced' = displaced
             \/ \E h \in ToSet(backlog) :
                  /\ ToSet(backlog') = (ToSet(backlog) \ {h}) \cup {inHand}
                  /\ displaced' = displaced \cup {h}
      BY <2>2, <3>1, <3>2, PushToCacheOnce DEF PlacesInv
    <3>4. QED
      BY <2>1, <2>3, <3>1, <3>3 DEF PlacesInv
  <2>6. QED
    BY <2>4, <2>5
<1>4. CASE PublishCurrent
  <2>1. /\ reports' = reports /\ ReportIds' = ReportIds
        /\ pc # "idle" /\ pc' = "idle" /\ inHand' = inHand
    BY <1>4 DEF PublishCurrent, ReportIds
  <2>2. reports \in ReportIds
    BY <2>1 DEF HandsInv, TypeOK, ReportIds
  <2>3. Current = {reports} /\ Current' = {} /\ Popped' = Popped
    BY <2>1 DEF Popped, Current
  <2>4. CASE linkUp
    <3>1. broker' = Append(broker, reports) /\ UNCHANGED <<backlog, displaced>>
      BY <1>4, <2>4 DEF PublishCurrent
    <3>2. broker \in Seq(ReportIds) /\ reports \notin ToSet(broker)
      BY <2>3 DEF TypeOK, PlacesInv
    <3>3. ToSet(broker') = ToSet(broker) \cup {reports} /\ IsInjective(broker')
      BY <2>2, <3>1, <3>2, AppendOnce DEF PlacesInv
    <3>4. QED
      BY <2>1, <2>3, <3>1, <3>3 DEF PlacesInv
  <2>5. CASE ~linkUp
    <3>1. PushToCache(reports) /\ broker' = broker
      BY <1>4, <2>5 DEF PublishCurrent
    <3>2. reports \notin ToSet(backlog)
      BY <2>3 DEF PlacesInv
    <3>3. /\ IsInjective(backlog')
          /\ \/ /\ ToSet(backlog') = ToSet(backlog) \cup {reports}
                /\ displaced' = displaced
             \/ \E h \in ToSet(backlog) :
                  /\ ToSet(backlog') = (ToSet(backlog) \ {h}) \cup {reports}
                  /\ displaced' = displaced \cup {h}
      BY <2>2, <3>1, <3>2, PushToCacheOnce DEF PlacesInv
    <3>4. QED
      BY <2>1, <2>3, <3>1, <3>3 DEF PlacesInv
  <2>6. QED
    BY <2>4, <2>5
<1>5. CASE LinkChanges \/ UNCHANGED vars
  BY <1>5 DEF LinkChanges, vars, PlacesInv, Popped, Current, ReportIds
<1>6. QED
  BY <1>1, <1>2, <1>3, <1>4, <1>5 DEF Next, TelemetryStep

(* At most one report is popped and one is under way: one short sequence.   *)
LEMMA InTransitOnce ==
  ASSUME TypeOK, HandsInv, PlacesInv
  PROVE  /\ InTransit \in Seq(ReportIds) /\ IsInjective(InTransit)
         /\ ToSet(InTransit) = Popped \cup Current
<1> DEFINE a == IF inHand = NoReport THEN <<>> ELSE <<inHand>>
           b == IF pc = "idle" THEN <<>> ELSE <<reports>>
<1>1. a \in Seq(ReportIds) /\ IsInjective(a) /\ ToSet(a) = Popped
  <2>1. CASE inHand = NoReport
    BY <2>1, EmptySeq DEF Popped, IsInjective, ToSet
  <2>2. CASE inHand # NoReport
    BY <2>2 DEF Popped, IsInjective, ToSet, TypeOK
  <2>3. QED
    BY <2>1, <2>2
<1>2. b \in Seq(ReportIds) /\ IsInjective(b) /\ ToSet(b) = Current
  <2>1. CASE pc = "idle"
    BY <2>1, EmptySeq DEF Current, IsInjective, ToSet
  <2>2. CASE pc # "idle"
    <3>1. reports \in ReportIds
      BY <2>2 DEF HandsInv, TypeOK, ReportIds
    <3>2. QED
      BY <2>2, <3>1 DEF Current, IsInjective, ToSet
  <2>3. QED
    BY <2>1, <2>2
<1>3. InTransit = a \o b
  BY DEF InTransit
<1> HIDE DEF a, b
<1>4. ToSet(a) \cap ToSet(b) = {}
  BY <1>1, <1>2 DEF PlacesInv
<1>5. QED
  BY <1>1, <1>2, <1>3, <1>4, ConcatOnce

LEMMA PlacesOnce ==
  ASSUME TypeOK, HandsInv, PlacesInv
  PROVE  EachReportOnce
<1> DEFINE bb == broker \o backlog
           bt == bb \o InTransit
           dd == SetToSeq(displaced)
<1>1. dd \in Seq(ReportIds) /\ IsInjective(dd) /\ ToSet(dd) = displaced
  <2>1. displaced \subseteq ReportIds /\ IsFiniteSet(ReportIds)
    BY FS_Interval DEF TypeOK, ReportIds
  <2>2. IsFiniteSet(displaced)
    BY <2>1, FS_Subset
  <2>3. dd \in Seq(displaced) /\ IsInjective(dd) /\ ToSet(dd) = displaced
    BY <2>2, SetToSeqOnce
  <2> HIDE DEF dd
  <2>4. QED
    BY <2>1, <2>3, SeqMonotonic
<1>2. /\ InTransit \in Seq(ReportIds) /\ IsInjective(InTransit)
      /\ ToSet(InTransit) = Popped \cup Current
  BY InTransitOnce
<1>3. /\ bb \in Seq(ReportIds) /\ IsInjective(bb)
      /\ ToSet(bb) = ToSet(broker) \cup ToSet(backlog)
  <2>1. broker \in Seq(ReportIds) /\ backlog \in Seq(ReportIds)
    BY DEF TypeOK
  <2>2. QED
    BY <2>1, ConcatOnce DEF PlacesInv
<1> HIDE DEF bb
<1>4. /\ bt \in Seq(ReportIds) /\ IsInjective(bt)
      /\ ToSet(bt) = ToSet(bb) \cup Popped \cup Current
  <2>1. ToSet(bb) \cap ToSet(InTransit) = {}
    BY <1>2, <1>3 DEF PlacesInv
  <2>2. QED
    BY <1>2, <1>3, <2>1, ConcatOnce
<1> HIDE DEF bt, dd
<1>5. /\ IsInjective(bt \o dd)
      /\ ToSet(bt \o dd) = ToSet(bt) \cup displaced
  <2>1. ToSet(bt) \cap ToSet(dd) = {}
    BY <1>1, <1>3, <1>4 DEF PlacesInv
  <2>2. QED
    BY <1>1, <1>4, <2>1, ConcatOnce
<1>6. Places = bt \o dd
  <2>1. Places = ((broker \o backlog) \o InTransit) \o SetToSeq(displaced)
    BY DEF Places
  <2>2. QED
    BY <2>1 DEF bt, bb, dd
<1>7. QED
  BY <1>3, <1>4, <1>5, <1>6 DEF EachReportOnce, PlacesInv

(***************************************************************************)
(* However the network flaps, whatever the cache size: every report made is *)
(* at the broker, in the cache, in hand or given up by a full cache, in one *)
(* of these places and once.  So none is sent twice, and a full cache is    *)
(* the only way to lose one.                                                *)
(***************************************************************************)
THEOREM ReportsOnce == Spec => []EachReportOnce
<1>1. Init => (TypeOK /\ HandsInv) /\ PlacesInv
  BY TypeInit, PlacesInit
<1>2. ((TypeOK /\ HandsInv) /\ PlacesInv) /\ [Next]_vars
        => ((TypeOK /\ HandsInv) /\ PlacesInv)'
  BY TypeStep, PlacesStep
<1>3. (TypeOK /\ HandsInv) /\ PlacesInv => EachReportOnce
  BY PlacesOnce
<1>4. QED
  BY <1>1, <1>2, <1>3, PTL DEF Spec
=============================================================================
