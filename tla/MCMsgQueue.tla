----------------------------- MODULE MCMsgQueue -----------------------------
(***************************************************************************)
(* Instances of MsgQueue for TLC.                                           *)
(***************************************************************************)
EXTENDS MsgQueue, Sequences

(***************************************************************************)
(* Refinement: the ring, read from head over count slots, is the abstract   *)
(* queue; ids are counters; whoever waits for room or comes back from it is *)
(* blocked.                                                                 *)
(***************************************************************************)
BacklogFrom(m, h, c) == [i \in 1 .. c |-> m[(h + (i - 1)) % Capacity]]
Backlog == BacklogFrom(messages, head, count)

Fifo == INSTANCE BoundedFifo WITH
          queue <- Backlog,
          accepted <- next_msg_id - 1,
          delivered <- lastReceived,
          blocked <- BlockedSenders,
          shut <- closed

(***************************************************************************)
(* Every behaviour of the ring with its threads is one of the plain FIFO;   *)
(* after msgq_close nothing is accepted but what was blocked, each once.    *)
(***************************************************************************)
ImplementsFifo == Fifo!FifoSpec
=============================================================================
