---------------------------- MODULE MCDataCache ----------------------------
(***************************************************************************)
(* Instances of DataCache for TLC.                                          *)
(***************************************************************************)
EXTENDS DataCache, Sequences

(* The backlog is in memory while the process lives, else in the file.     *)
Backlog(e, h, c) == [i \in 1 .. c |-> e[SlotOf(h, i - 1)]]

Waiting == IF phase = "down" THEN Backlog(file.entries, file.head, file.count)
                             ELSE Backlog(entries, head, count)

Fifo == INSTANCE DropOldestFifo WITH
          backlog <- Waiting,
          accepted <- pushed,
          damaged <- saveFailed

(***************************************************************************)
(* Until a save fails, ring, file, shutdown and restart together are the    *)
(* plain FIFO: a crash loses the whole backlog or none of it.               *)
(***************************************************************************)
ImplementsBacklog == Fifo!FifoSpec
=============================================================================
