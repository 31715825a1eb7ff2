--------------------------- MODULE DropOldestFifo ---------------------------
(***************************************************************************)
(* What lesson6/data_cache.h promises the telemetry thread: the last        *)
(* MaxEntries reports not yet taken out, oldest first, kept over an orderly *)
(* restart.  A crash forgets all of them; nothing forgets some of them,     *)
(* except that a new report displaces the oldest of a full backlog.  Once a *)
(* save has failed nothing is promised any more.                            *)
(***************************************************************************)
EXTENDS Integers, Sequences

CONSTANTS MaxEntries

VARIABLES
  backlog,  \* the reports, oldest first
  accepted, \* how many reports were ever pushed
  damaged   \* a save failed

FifoInit == backlog = <<>> /\ accepted = 0 /\ damaged = FALSE

Add ==
  /\ accepted' = accepted + 1
  /\ backlog' = Append(IF Len(backlog) < MaxEntries THEN backlog ELSE Tail(backlog),
                       accepted + 1)

Take == backlog # <<>> /\ backlog' = Tail(backlog) /\ UNCHANGED accepted

ForgetAll == backlog' = <<>> /\ UNCHANGED accepted

FifoNext == damaged' \/ (~damaged' /\ (Add \/ Take \/ ForgetAll))

FifoSpec == FifoInit /\ [][FifoNext]_<<backlog, accepted, damaged>>
=============================================================================
