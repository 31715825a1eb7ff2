------------------------- MODULE FanControlHistory -------------------------
(***************************************************************************)
(* FanControl with an observer of the smoke sensor over several rounds.  It *)
(* never constrains a step.                                                 *)
(***************************************************************************)
EXTENDS FanControl

VARIABLE sinceClear   \* rounds since the smoke sensor was last read as clear

hvars == <<vars, sinceClear>>

HInit == Init /\ sinceClear = 0

Begins == pc = "idle" /\ pc' # "idle"

Observe ==
  sinceClear' = IF ~Begins THEN sinceClear
                ELSE IF smoke' = Clear THEN 0 ELSE UpTo(FaultTimeout, sinceClear + 1)

HSpec == HInit /\ [][Next /\ Observe]_hvars

-----------------------------------------------------------------------------
Announces(kind) == kind \in published' /\ kind \notin published

(***************************************************************************)
(* auto_control_smoke, "5. smoke that lasts longer than smoke_fault_timeout *)
(* is taken for a broken sensor": never smoke that came and went.           *)
(***************************************************************************)
FaultNeedsLastingSmoke ==
  [][Announces("smoke_sensor_fault") => sinceClear >= FaultTimeout]_hvars
=============================================================================
