------------------------------ MODULE MsgQueue ------------------------------
(***************************************************************************)
(* lesson6/msg_queue.c: the bounded queue between the MQTT network thread   *)
(* (message_handler, which sends) and the command worker of mqtt_bridge     *)
(* (which receives).  A ring buffer guarded by one mutex, with a condition  *)
(* variable for each side.                                                  *)
(*                                                                          *)
(* One action is one critical section: everything a thread does between     *)
(* taking queue->mutex and giving it back, by unlocking or by waiting on a  *)
(* condition variable.  A thread is                                         *)
(*   - outside (in none of the sets below),                                 *)
(*   - in notFullWaiters / notEmptyWaiters: inside pthread_cond_wait or     *)
(*     pthread_cond_timedwait on that condition variable,                   *)
(*   - in woken: taken off the condition variable by a signal, a broadcast  *)
(*     or a spurious wakeup, and about to re-acquire the mutex and test the *)
(*     loop condition again.                                                *)
(* A message is its priority and the msg_id the queue gives it; payload and *)
(* type are opaque to the queue.                                            *)
(***************************************************************************)
EXTENDS Integers, FiniteSets

CONSTANTS
  Senders,     \* threads that call msgq_send
  Receivers,   \* threads that call msgq_receive
  Capacity,    \* queue->capacity (64 in main, 32 by default)
  Priorities,  \* msg_prio_t
  MaxMsgId     \* bound on the ids given out (an unsigned int in the code)

ASSUME CapacityAssumption == Capacity \in Nat \ {0}
ASSUME ThreadAssumption ==
  /\ IsFiniteSet(Senders) /\ IsFiniteSet(Receivers)
  /\ Senders \cap Receivers = {}
ASSUME PriorityAssumption == Priorities \subseteq Int /\ Priorities # {}
ASSUME MaxMsgIdAssumption == MaxMsgId \in Nat

VARIABLES
  messages, head, tail, count, next_msg_id, closed,  \* msg_queue_t
  notEmptyWaiters, notFullWaiters,  \* threads inside each condition variable
  timed,       \* waiting threads that passed timeout_ms > 0
  woken,       \* threads that must re-acquire the mutex
  lastReceived \* msg_id of the last message handed to a receiver (0: none)

ring == <<messages, head, tail, count, next_msg_id>>
vars == <<ring, closed, notEmptyWaiters, notFullWaiters, timed, woken,
          lastReceived>>

Threads == Senders \cup Receivers
Slots == 0 .. Capacity - 1
Message == [msg_id : Nat, priority : Priorities]

Outside(t) == t \notin notEmptyWaiters \cup notFullWaiters \cup woken
BlockedSenders == Senders \cap (notFullWaiters \cup woken)
IsFull == count >= Capacity
IsEmpty == count = 0

(* Mutant: the index runs off the end of the ring.                         *)
NextSlotNoWrap(i) == i + 1
NextSlot(i) == (i + 1) % Capacity

(***************************************************************************)
(* msgq_create: an empty open queue whose ids start at 1.  malloc leaves    *)
(* the slots uninitialised.                                                 *)
(***************************************************************************)
Init ==
  /\ messages \in [Slots -> [msg_id : {0}, priority : Priorities]]
  /\ head = 0 /\ tail = 0 /\ count = 0
  /\ next_msg_id = 1
  /\ closed = FALSE
  /\ notEmptyWaiters = {} /\ notFullWaiters = {}
  /\ timed = {} /\ woken = {}
  /\ lastReceived = 0

(***************************************************************************)
(* pthread_cond_signal: takes one thread off the condition variable, if     *)
(* there is one.  "others" are the woken threads that stay woken.           *)
(***************************************************************************)
(* Mutant: the receiver is signalled only when the queue was empty.         *)
SignalNotEmptyOnEdge(others) ==
  IF notEmptyWaiters = {} \/ count > 0
  THEN UNCHANGED notEmptyWaiters /\ woken' = others
  ELSE \E r \in notEmptyWaiters :
         /\ notEmptyWaiters' = notEmptyWaiters \ {r}
         /\ woken' = others \cup {r}

SignalNotEmpty(others) ==
  IF notEmptyWaiters = {}
  THEN UNCHANGED notEmptyWaiters /\ woken' = others
  ELSE \E r \in notEmptyWaiters :
         /\ notEmptyWaiters' = notEmptyWaiters \ {r}
         /\ woken' = others \cup {r}

SignalNotFull(others) ==
  IF notFullWaiters = {}
  THEN UNCHANGED notFullWaiters /\ woken' = others
  ELSE \E s \in notFullWaiters :
         /\ notFullWaiters' = notFullWaiters \ {s}
         /\ woken' = others \cup {s}

(***************************************************************************)
(* The tails of msgq_send and msgq_receive, after their waiting loops.      *)
(***************************************************************************)
Enqueue(s, prio) ==
  /\ messages' = [messages EXCEPT
                    ![tail] = [msg_id |-> next_msg_id, priority |-> prio]]
  /\ next_msg_id' = next_msg_id + 1
  /\ tail' = NextSlot(tail)
  /\ count' = count + 1
  /\ timed' = timed \ {s}
  /\ SignalNotEmpty(woken \ {s})
  /\ UNCHANGED <<head, closed, notFullWaiters, lastReceived>>

Dequeue(r) ==
  /\ lastReceived' = messages[head].msg_id
  /\ head' = NextSlot(head)
  /\ count' = count - 1
  /\ timed' = timed \ {r}
  /\ SignalNotFull(woken \ {r})
  /\ UNCHANGED <<messages, tail, next_msg_id, closed, notEmptyWaiters>>

(* The error returns: the thread leaves the queue without touching it.     *)
Leave(t) ==
  /\ notEmptyWaiters' = notEmptyWaiters \ {t}
  /\ notFullWaiters' = notFullWaiters \ {t}
  /\ woken' = woken \ {t}
  /\ timed' = timed \ {t}
  /\ UNCHANGED <<ring, closed, lastReceived>>

(* pthread_cond_wait / pthread_cond_timedwait in the two loops.            *)
WaitNotFull(s, isTimed) ==
  /\ notFullWaiters' = notFullWaiters \cup {s}
  /\ woken' = woken \ {s}
  /\ timed' = IF isTimed THEN timed \cup {s} ELSE timed \ {s}
  /\ UNCHANGED <<ring, closed, notEmptyWaiters, lastReceived>>

WaitNotEmpty(r, isTimed) ==
  /\ notEmptyWaiters' = notEmptyWaiters \cup {r}
  /\ woken' = woken \ {r}
  /\ timed' = IF isTimed THEN timed \cup {r} ELSE timed \ {r}
  /\ UNCHANGED <<ring, closed, notFullWaiters, lastReceived>>

-----------------------------------------------------------------------------
(***************************************************************************)
(* msgq_send.  SendStart is the first pass: closed is tested once, before   *)
(* the loop.  A full queue turns a msgq_try_send away (timeout_ms = 0, no   *)
(* state changes, so it is no step) and blocks the other callers.  MaxMsgId *)
(* bounds the sends begun, so a sender inside is never held up by it.       *)
(***************************************************************************)
(* Mutant: closed is looked at in the waiting loop only.                    *)
SendStartWhenClosed(s, prio) ==
  /\ Outside(s)
  /\ next_msg_id + Cardinality(BlockedSenders) <= MaxMsgId
  /\ \/ ~IsFull /\ Enqueue(s, prio)
     \/ IsFull /\ ~closed /\ \E isTimed \in BOOLEAN : WaitNotFull(s, isTimed)

SendStart(s, prio) ==
  /\ Outside(s) /\ ~closed
  /\ next_msg_id + Cardinality(BlockedSenders) <= MaxMsgId
  /\ \/ ~IsFull /\ Enqueue(s, prio)
     \/ IsFull /\ \E isTimed \in BOOLEAN : WaitNotFull(s, isTimed)

(***************************************************************************)
(* A sender back from its wait tests the loop condition again.  closed is   *)
(* looked at only while the queue is still full.                            *)
(***************************************************************************)
SendResume(s, prio) ==
  /\ s \in woken
  /\ \/ ~IsFull /\ Enqueue(s, prio)
     \/ IsFull /\ closed /\ Leave(s)
     \/ IsFull /\ ~closed /\ WaitNotFull(s, s \in timed)

(* msgq_receive, first pass: a closed queue is drained before it errs.     *)
ReceiveStart(r) ==
  /\ Outside(r)
  /\ \/ ~IsEmpty /\ Dequeue(r)
     \/ IsEmpty /\ ~closed /\ \E isTimed \in BOOLEAN : WaitNotEmpty(r, isTimed)

(* Mutant: "if" for "while" around the wait, so count is not tested again.  *)
ReceiveResumeNoRetest(r) == r \in woken /\ Dequeue(r)

ReceiveResume(r) ==
  /\ r \in woken
  /\ \/ ~IsEmpty /\ Dequeue(r)
     \/ IsEmpty /\ closed /\ Leave(r)
     \/ IsEmpty /\ ~closed /\ WaitNotEmpty(r, r \in timed)

(* ETIMEDOUT: the caller returns without another look at the queue.        *)
TimeOut(t) ==
  /\ t \in timed \cap (notEmptyWaiters \cup notFullWaiters)
  /\ Leave(t)

(* POSIX lets pthread_cond_wait return without a signal.                   *)
SpuriousWakeup(t) ==
  /\ t \in notEmptyWaiters \cup notFullWaiters
  /\ notEmptyWaiters' = notEmptyWaiters \ {t}
  /\ notFullWaiters' = notFullWaiters \ {t}
  /\ woken' = woken \cup {t}
  /\ UNCHANGED <<ring, closed, timed, lastReceived>>

(***************************************************************************)
(* msgq_close, called by main and by signal_handler: closes the queue and   *)
(* broadcasts both condition variables.                                     *)
(***************************************************************************)
(* Mutant: the senders are not broadcast.                                   *)
CloseNotEmptyOnly ==
  /\ ~closed
  /\ closed' = TRUE
  /\ woken' = woken \cup notEmptyWaiters
  /\ notEmptyWaiters' = {}
  /\ UNCHANGED <<ring, timed, lastReceived, notFullWaiters>>

Close ==
  /\ ~closed
  /\ closed' = TRUE
  /\ woken' = woken \cup notEmptyWaiters \cup notFullWaiters
  /\ notEmptyWaiters' = {} /\ notFullWaiters' = {}
  /\ UNCHANGED <<ring, timed, lastReceived>>

Next ==
  \/ \E s \in Senders, prio \in Priorities :
       SendStart(s, prio) \/ SendResume(s, prio)
  \/ \E r \in Receivers : ReceiveStart(r) \/ ReceiveResume(r)
  \/ \E t \in Threads : TimeOut(t) \/ SpuriousWakeup(t)
  \/ Close

Spec == Init /\ [][Next]_vars

(***************************************************************************)
(* A woken thread gets the mutex in the end, and a timed wait ends.  Nobody *)
(* is obliged to send, to receive, or to close.                             *)
(***************************************************************************)
Fairness ==
  /\ \A s \in Senders : WF_vars(\E prio \in Priorities : SendResume(s, prio))
  /\ \A r \in Receivers : WF_vars(ReceiveResume(r))
  /\ \A t \in Threads : WF_vars(TimeOut(t))

FairSpec == Spec /\ Fairness

-----------------------------------------------------------------------------
TypeOK ==
  /\ messages \in [Slots -> Message]
  /\ head \in Slots /\ tail \in Slots /\ count \in 0 .. Capacity
  /\ next_msg_id \in Nat \ {0}
  /\ closed \in BOOLEAN
  /\ notEmptyWaiters \subseteq Receivers
  /\ notFullWaiters \subseteq Senders
  /\ woken \subseteq Threads \ (notEmptyWaiters \cup notFullWaiters)
  /\ timed \subseteq notEmptyWaiters \cup notFullWaiters \cup woken
  /\ lastReceived \in Nat

(***************************************************************************)
(* The ring holds exactly the messages accepted and not yet received, oldest *)
(* at head: ids are consecutive from the one after the last received to the *)
(* last one given out, so the queue loses, duplicates and reorders nothing  *)
(* however its threads interleave.                                          *)
(***************************************************************************)
RingHoldsBacklog ==
  /\ next_msg_id = lastReceived + count + 1
  /\ \A i \in 0 .. count - 1 :
       messages[(head + i) % Capacity].msg_id = lastReceived + 1 + i

(***************************************************************************)
(* No lost wakeup: while a receiver sleeps on not_empty, at least as many    *)
(* receivers are on their way back to the mutex as there are messages; and   *)
(* the same for senders and free slots.  It is what lets the code signal    *)
(* one waiter per message instead of broadcasting.                          *)
(***************************************************************************)
NoLostWakeup ==
  /\ notEmptyWaiters # {} => count <= Cardinality(woken \cap Receivers)
  /\ notFullWaiters # {} => Capacity - count <= Cardinality(woken \cap Senders)

(***************************************************************************)
(* The inductive invariant: the two above, the position of tail, and that a *)
(* closed queue has nobody inside its condition variables.                  *)
(***************************************************************************)
TailFollowsBacklog == tail = (head + count) % Capacity
ClosedHasNoWaiters == closed => notEmptyWaiters = {} /\ notFullWaiters = {}

RingInv == TailFollowsBacklog /\ RingHoldsBacklog
WakeupInv == ClosedHasNoWaiters /\ NoLostWakeup
IndInv == TypeOK /\ RingInv /\ WakeupInv

(***************************************************************************)
(* msgq_close releases every thread blocked at that moment, and nobody can   *)
(* block on a closed queue afterwards.                                      *)
(***************************************************************************)
CloseReleasesAll == closed ~> (notEmptyWaiters \cup notFullWaiters \cup woken = {})

(* A message in the queue is never left there while a receiver sleeps.      *)
BlockedReceiverIsServed ==
  \A r \in Receivers :
    (r \in notEmptyWaiters /\ count > 0) ~> (r \notin notEmptyWaiters \/ count = 0)
=============================================================================
