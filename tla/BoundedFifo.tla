---------------------------- MODULE BoundedFifo ----------------------------
(***************************************************************************)
(* What lesson6/msg_queue.c does for its callers, without slots, indices,   *)
(* mutex or condition variables: a FIFO of at most Capacity messages that   *)
(* numbers what it accepts 1, 2, 3, ..., hands each message out once, in    *)
(* that order, and once closed begins no send any more.                     *)
(*                                                                          *)
(* It is not all that msg_queue.h announces.  The header speaks of          *)
(* priorities (line 9); a priority is carried along here and decides        *)
(* nothing.  And it says that after msgq_close all blocked operations       *)
(* return an error (line 174); here a message inside is still delivered,    *)
(* and a send that was blocked when the queue was closed may still be       *)
(* accepted, each at most once.                                             *)
(***************************************************************************)
EXTENDS Integers, Sequences

CONSTANTS Capacity, Priorities, Senders

VARIABLES
  queue,      \* the messages inside, oldest first
  accepted,   \* how many messages were accepted so far
  delivered,  \* how many were handed out so far
  blocked,    \* the senders that wait for room
  shut        \* msgq_close was called

fifoVars == <<queue, accepted, delivered, blocked, shut>>

FifoInit == queue = <<>> /\ accepted = 0 /\ delivered = 0 /\ blocked = {} /\ shut = FALSE

(* A send that begins now, or one that was blocked.                         *)
Accept ==
  /\ Len(queue) < Capacity
  /\ \/ ~shut /\ UNCHANGED blocked
     \/ \E s \in blocked : blocked' = blocked \ {s}
  /\ accepted' = accepted + 1
  /\ \E p \in Priorities :
       queue' = Append(queue, [msg_id |-> accepted + 1, priority |-> p])
  /\ UNCHANGED <<delivered, shut>>

Block ==
  /\ ~shut /\ Len(queue) = Capacity
  /\ \E s \in Senders \ blocked : blocked' = blocked \cup {s}
  /\ UNCHANGED <<queue, accepted, delivered, shut>>

(* A blocked send returns an error: time-out, or closed and still full.     *)
Refuse ==
  /\ \E s \in blocked : blocked' = blocked \ {s}
  /\ UNCHANGED <<queue, accepted, delivered, shut>>

Deliver ==
  /\ queue # <<>>
  /\ delivered' = queue[1].msg_id
  /\ queue' = Tail(queue)
  /\ UNCHANGED <<accepted, blocked, shut>>

Shut == ~shut /\ shut' = TRUE /\ UNCHANGED <<queue, accepted, delivered, blocked>>

FifoNext == Accept \/ Block \/ Refuse \/ Deliver \/ Shut

FifoSpec == FifoInit /\ [][FifoNext]_fifoVars
=============================================================================
