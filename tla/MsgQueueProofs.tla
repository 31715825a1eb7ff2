--------------------------- MODULE MsgQueueProofs ---------------------------
(***************************************************************************)
(* Proofs about MsgQueue for every capacity, every finite set of senders    *)
(* and receivers and every number of messages.                              *)
(***************************************************************************)
EXTENDS MCMsgQueue, RingLemmas, FiniteSetTheorems, SequenceTheorems

(* The slot after any slot is a slot.                                       *)
LEMMA NextSlotType ==
  ASSUME NEW i \in Slots
  PROVE  NextSlot(i) \in Slots
<1>1. 1 \in 0 .. Capacity
  BY CapacityAssumption
<1>2. QED
  BY <1>1, CapacityAssumption, SlotInRing DEF NextSlot, Slots

(* A send is accepted when it begins, on an open queue, or after its wait.  *)
MayAccept(s) == s \in woken \/ (Outside(s) /\ ~closed)

(* Every step is one of the critical sections that starting an operation    *)
(* and resuming it share, with what both entries know on entering it.       *)
LEMMA StepCases ==
  ASSUME TypeOK, [Next]_vars
  PROVE  \/ \E s \in Senders, prio \in Priorities :
              Enqueue(s, prio) /\ ~IsFull /\ MayAccept(s)
         \/ \E r \in Receivers : Dequeue(r) /\ ~IsEmpty
         \/ \E t \in Threads : Leave(t) /\ (closed \/ t \notin woken)
         \/ \E s \in Senders, b \in BOOLEAN : WaitNotFull(s, b) /\ IsFull /\ ~closed
         \/ \E r \in Receivers, b \in BOOLEAN : WaitNotEmpty(r, b) /\ IsEmpty /\ ~closed
         \/ \E t \in Threads : SpuriousWakeup(t)
         \/ Close
         \/ UNCHANGED vars
<1>1. CASE \E s \in Senders, prio \in Priorities : SendStart(s, prio)
  BY <1>1 DEF SendStart, MayAccept
<1>2. CASE \E s \in Senders, prio \in Priorities : SendResume(s, prio)
  <2>1. PICK s \in Senders, prio \in Priorities : SendResume(s, prio)
    BY <1>2
  <2>2. (s \in timed) \in BOOLEAN /\ s \in Threads
    BY DEF Threads
  <2>3. MayAccept(s)
    BY <2>1 DEF SendResume, MayAccept
  <2>4. QED
    BY <2>1, <2>2, <2>3 DEF SendResume
<1>3. CASE \E r \in Receivers : ReceiveStart(r)
  BY <1>3 DEF ReceiveStart
<1>4. CASE \E r \in Receivers : ReceiveResume(r)
  <2>1. PICK r \in Receivers : ReceiveResume(r)
    BY <1>4
  <2>2. (r \in timed) \in BOOLEAN /\ r \in Threads
    BY DEF Threads
  <2>3. QED
    BY <2>1, <2>2 DEF ReceiveResume
<1>5. CASE \E t \in Threads : TimeOut(t)
  BY <1>5 DEF TimeOut, TypeOK
<1>6. QED
  BY <1>1, <1>2, <1>3, <1>4, <1>5 DEF Next

-----------------------------------------------------------------------------
(* The queue a sender leaves behind is well typed.                          *)
LEMMA EnqueueType ==
  ASSUME TypeOK, NEW s \in Senders, NEW prio \in Priorities,
         Enqueue(s, prio), ~IsFull
  PROVE  TypeOK'
<1> USE DEF Enqueue
<1>1. messages' \in [Slots -> Message]
  BY DEF TypeOK, Message
<1>2. tail' \in Slots /\ head' \in Slots
  BY NextSlotType DEF TypeOK
<1>3. count' \in 0 .. Capacity
  BY CapacityAssumption DEF TypeOK, IsFull
<1>4. next_msg_id' \in Nat \ {0} /\ closed' \in BOOLEAN /\ lastReceived' \in Nat
  BY DEF TypeOK
<1>5. /\ notEmptyWaiters' \subseteq Receivers
      /\ notFullWaiters' \subseteq Senders
      /\ woken' \subseteq Threads \ (notEmptyWaiters' \cup notFullWaiters')
      /\ timed' \subseteq notEmptyWaiters' \cup notFullWaiters' \cup woken'
  <2>1. CASE notEmptyWaiters = {}
    BY <2>1 DEF TypeOK, SignalNotEmpty
  <2>2. CASE notEmptyWaiters # {}
    <3>1. PICK r \in notEmptyWaiters : /\ notEmptyWaiters' = notEmptyWaiters \ {r}
                                       /\ woken' = (woken \ {s}) \cup {r}
      BY <2>2 DEF SignalNotEmpty
    <3>2. r \in Receivers /\ r \in Threads /\ r \notin notFullWaiters
      BY <3>1, ThreadAssumption DEF TypeOK, Threads
    <3>3. QED
      BY <3>1, <3>2 DEF TypeOK
  <2>3. QED
    BY <2>1, <2>2
<1>6. QED
  BY <1>1, <1>2, <1>3, <1>4, <1>5 DEF TypeOK

(* And so is the queue a receiver leaves behind.                            *)
LEMMA DequeueType ==
  ASSUME TypeOK, NEW r \in Receivers, Dequeue(r), ~IsEmpty
  PROVE  TypeOK'
<1> USE DEF Dequeue
<1>1. messages' \in [Slots -> Message] /\ lastReceived' \in Nat
  BY DEF TypeOK, Message
<1>2. tail' \in Slots /\ head' \in Slots
  BY NextSlotType DEF TypeOK
<1>3. count' \in 0 .. Capacity
  BY CapacityAssumption DEF TypeOK, IsEmpty
<1>4. next_msg_id' \in Nat \ {0} /\ closed' \in BOOLEAN
  BY DEF TypeOK
<1>5. /\ notEmptyWaiters' \subseteq Receivers
      /\ notFullWaiters' \subseteq Senders
      /\ woken' \subseteq Threads \ (notEmptyWaiters' \cup notFullWaiters')
      /\ timed' \subseteq notEmptyWaiters' \cup notFullWaiters' \cup woken'
  <2>1. CASE notFullWaiters = {}
    BY <2>1 DEF TypeOK, SignalNotFull
  <2>2. CASE notFullWaiters # {}
    <3>1. PICK s \in notFullWaiters : /\ notFullWaiters' = notFullWaiters \ {s}
                                      /\ woken' = (woken \ {r}) \cup {s}
      BY <2>2 DEF SignalNotFull
    <3>2. s \in Senders /\ s \in Threads /\ s \notin notEmptyWaiters
      BY <3>1, ThreadAssumption DEF TypeOK, Threads
    <3>3. QED
      BY <3>1, <3>2 DEF TypeOK
  <2>3. QED
    BY <2>1, <2>2
<1>6. QED
  BY <1>1, <1>2, <1>3, <1>4, <1>5 DEF TypeOK

(* Every step keeps the types.                                              *)
LEMMA TypeStep ==
  ASSUME TypeOK, [Next]_vars
  PROVE  TypeOK'
<1>1. CASE \E s \in Senders, prio \in Priorities : Enqueue(s, prio) /\ ~IsFull
  BY <1>1, EnqueueType
<1>2. CASE \E r \in Receivers : Dequeue(r) /\ ~IsEmpty
  BY <1>2, DequeueType
<1>3. CASE \E t \in Threads : Leave(t)
  BY <1>3 DEF Leave, TypeOK, ring
<1>4. CASE \E s \in Senders, b \in BOOLEAN : WaitNotFull(s, b)
  <2>1. PICK s \in Senders, b \in BOOLEAN : WaitNotFull(s, b)
    BY <1>4
  <2>2. s \notin Receivers
    BY ThreadAssumption
  <2>3. timed' \subseteq notEmptyWaiters' \cup notFullWaiters' \cup woken'
    BY <2>1 DEF WaitNotFull, TypeOK
  <2>4. QED
    BY <2>1, <2>2, <2>3 DEF WaitNotFull, TypeOK, ring
<1>5. CASE \E r \in Receivers, b \in BOOLEAN : WaitNotEmpty(r, b)
  <2>1. PICK r \in Receivers, b \in BOOLEAN : WaitNotEmpty(r, b)
    BY <1>5
  <2>2. r \notin Senders
    BY ThreadAssumption
  <2>3. timed' \subseteq notEmptyWaiters' \cup notFullWaiters' \cup woken'
    BY <2>1 DEF WaitNotEmpty, TypeOK
  <2>4. QED
    BY <2>1, <2>2, <2>3 DEF WaitNotEmpty, TypeOK, ring
<1>6. CASE \E t \in Threads : SpuriousWakeup(t)
  BY <1>6 DEF SpuriousWakeup, TypeOK, ring
<1>7. CASE Close
  BY <1>7 DEF Close, TypeOK, ring, Threads
<1>8. CASE UNCHANGED vars
  BY <1>8 DEF TypeOK, vars, ring
<1>9. QED
  BY <1>1, <1>2, <1>3, <1>4, <1>5, <1>6, <1>7, <1>8, StepCases

(* The queue msgq_create returns is well typed.                             *)
LEMMA InitType == Init => TypeOK
<1> SUFFICES ASSUME Init PROVE TypeOK
  OBVIOUS
<1>1. [msg_id : {0}, priority : Priorities] \subseteq Message
  BY DEF Message
<1>2. messages \in [Slots -> Message]
  BY <1>1 DEF Init
<1>3. 0 \in Slots /\ 0 \in 0 .. Capacity
  BY CapacityAssumption DEF Slots
<1>4. next_msg_id \in Nat \ {0} /\ lastReceived \in Nat
  BY DEF Init
<1>5. QED
  BY <1>2, <1>3, <1>4 DEF Init, TypeOK

(* The queue's fields and its waiting threads always have their types; in   *)
(* particular head, tail and count stay inside the ring.                    *)
THEOREM TypeCorrect == Spec => []TypeOK
<1>1. Init => TypeOK
  BY InitType
<1>2. TypeOK /\ [Next]_vars => TypeOK'
  BY TypeStep
<1>3. QED
  BY <1>1, <1>2, PTL DEF Spec

-----------------------------------------------------------------------------
(* The new queue is empty, with tail at head.                               *)
LEMMA InitRing == Init => RingInv
<1> SUFFICES ASSUME Init PROVE RingInv
  OBVIOUS
<1>1. 0 \in 0 .. Capacity - 1
  BY CapacityAssumption
<1>2. TailFollowsBacklog
  BY <1>1, CapacityAssumption, ModSmall DEF Init, TailFollowsBacklog
<1>3. RingHoldsBacklog
  BY DEF Init, RingHoldsBacklog
<1>4. QED
  BY <1>2, <1>3 DEF RingInv

(* Writing at tail leaves the backlog where it was and extends it by one.   *)
LEMMA EnqueueRing ==
  ASSUME TypeOK, RingInv, NEW s \in Senders, NEW prio \in Priorities,
         Enqueue(s, prio), ~IsFull
  PROVE  RingInv'
<1> USE CapacityAssumption
<1>1. /\ head \in 0 .. Capacity - 1 /\ tail \in 0 .. Capacity - 1
      /\ count \in 0 .. Capacity - 1
      /\ next_msg_id \in Nat /\ lastReceived \in Nat
      /\ messages \in [0 .. Capacity - 1 -> Message]
  BY DEF TypeOK, Slots, IsFull
<1>2. /\ head' = head /\ lastReceived' = lastReceived /\ count' = count + 1
      /\ next_msg_id' = next_msg_id + 1
      /\ tail' = (tail + 1) % Capacity
      /\ messages' = [messages EXCEPT
                        ![tail] = [msg_id |-> next_msg_id, priority |-> prio]]
  BY DEF Enqueue, NextSlot
<1>3. tail = (head + count) % Capacity
  BY DEF RingInv, TailFollowsBacklog
<1>4. TailFollowsBacklog'
  <2>1. (((head + count) % Capacity) + 1) % Capacity = (head + (count + 1)) % Capacity
    BY <1>1, SlotNext
  <2>2. QED
    BY <1>2, <1>3, <2>1 DEF TailFollowsBacklog
<1>5. next_msg_id' = lastReceived' + count' + 1
  BY <1>1, <1>2 DEF RingInv, RingHoldsBacklog
<1>6. ASSUME NEW i \in 0 .. count' - 1
      PROVE  messages'[(head' + i) % Capacity].msg_id = lastReceived' + 1 + i
  <2>0. i \in 0 .. Capacity - 1 /\ i \in 0 .. Capacity
    BY <1>1, <1>2
  <2>1. (head + i) % Capacity \in 0 .. Capacity - 1
    BY <1>1, <2>0, SlotInRing
  <2>2. CASE i = count
    <3>1. messages'[tail].msg_id = next_msg_id
      BY <1>1, <1>2
    <3>2. QED
      BY <1>1, <1>2, <1>3, <1>5, <2>2, <3>1
  <2>3. CASE i # count
    <3>1. i \in 0 .. count - 1
      BY <1>1, <1>2, <2>3
    <3>2. (head + i) % Capacity # tail
      BY <1>1, <1>3, <2>0, <2>3, SlotsDiffer
    <3>3. messages'[(head + i) % Capacity] = messages[(head + i) % Capacity]
      BY <1>1, <1>2, <2>1, <3>2
    <3>4. messages[(head + i) % Capacity].msg_id = lastReceived + 1 + i
      BY <3>1 DEF RingInv, RingHoldsBacklog
    <3>5. QED
      BY <1>2, <3>3, <3>4
  <2>4. QED
    BY <2>2, <2>3
<1>7. QED
  BY <1>4, <1>5, <1>6 DEF RingInv, RingHoldsBacklog

(* Stepping head drops exactly the message that is handed out.              *)
LEMMA DequeueRing ==
  ASSUME TypeOK, RingInv, NEW r \in Receivers, Dequeue(r), ~IsEmpty
  PROVE  RingInv'
<1> USE CapacityAssumption
<1>1. /\ head \in 0 .. Capacity - 1 /\ tail \in 0 .. Capacity - 1
      /\ count \in 1 .. Capacity
      /\ next_msg_id \in Nat /\ lastReceived \in Nat
  BY DEF TypeOK, Slots, IsEmpty
<1>2. /\ head' = (head + 1) % Capacity /\ count' = count - 1
      /\ lastReceived' = messages[head].msg_id
      /\ messages' = messages /\ tail' = tail /\ next_msg_id' = next_msg_id
  BY DEF Dequeue, NextSlot
<1>3. lastReceived' = lastReceived + 1
  <2>1. (head + 0) % Capacity = head
    BY <1>1, ModSmall
  <2>2. messages[(head + 0) % Capacity].msg_id = lastReceived + 1 + 0
    BY <1>1 DEF RingInv, RingHoldsBacklog
  <2>3. QED
    BY <1>1, <1>2, <2>1, <2>2
<1>4. ASSUME NEW i \in 0 .. count - 1
      PROVE  (head' + i) % Capacity = (head + (i + 1)) % Capacity
  <2>1. i \in 0 .. Capacity - 1
    BY <1>1
  <2>2. QED
    BY <1>1, <1>2, <2>1, SlotShift
<1>5. TailFollowsBacklog'
  <2>1. count - 1 \in 0 .. count - 1 /\ (count - 1) + 1 = count
    BY <1>1
  <2>2. (head' + (count - 1)) % Capacity = (head + count) % Capacity
    BY <1>4, <2>1
  <2>3. QED
    BY <1>2, <2>2 DEF RingInv, TailFollowsBacklog
<1>6. next_msg_id' = lastReceived' + count' + 1
  BY <1>1, <1>2, <1>3 DEF RingInv, RingHoldsBacklog
<1>7. ASSUME NEW i \in 0 .. count' - 1
      PROVE  messages'[(head' + i) % Capacity].msg_id = lastReceived' + 1 + i
  <2>1. i \in 0 .. count - 1 /\ i + 1 \in 0 .. count - 1
    BY <1>1, <1>2
  <2>2. messages[(head + (i + 1)) % Capacity].msg_id = lastReceived + 1 + (i + 1)
    BY <2>1 DEF RingInv, RingHoldsBacklog
  <2>3. QED
    BY <1>1, <1>2, <1>3, <1>4, <2>1, <2>2
<1>8. QED
  BY <1>5, <1>6, <1>7 DEF RingInv, RingHoldsBacklog

(* Every step keeps the ring and its backlog in agreement.                  *)
LEMMA RingStep ==
  ASSUME TypeOK, RingInv, [Next]_vars
  PROVE  RingInv'
<1>1. CASE \E s \in Senders, prio \in Priorities : Enqueue(s, prio) /\ ~IsFull
  BY <1>1, EnqueueRing
<1>2. CASE \E r \in Receivers : Dequeue(r) /\ ~IsEmpty
  BY <1>2, DequeueRing
<1>3. CASE UNCHANGED <<ring, lastReceived>>
  BY <1>3 DEF RingInv, TailFollowsBacklog, RingHoldsBacklog, ring
<1>4. QED
  BY <1>1, <1>2, <1>3, StepCases
     DEF Leave, WaitNotFull, WaitNotEmpty, SpuriousWakeup, Close, vars

(* However senders, receivers, timeouts, spurious wakeups and closing       *)
(* interleave, the ring holds exactly the messages accepted and not yet     *)
(* received, in the order they were accepted.                               *)
THEOREM BacklogPreserved == Spec => []RingHoldsBacklog
<1>1. Init => TypeOK /\ RingInv
  BY InitType, InitRing
<1>2. TypeOK /\ RingInv /\ [Next]_vars => (TypeOK /\ RingInv)'
  BY TypeStep, RingStep
<1>3. RingInv => RingHoldsBacklog
  BY DEF RingInv
<1>4. QED
  BY <1>1, <1>2, <1>3, PTL DEF Spec

-----------------------------------------------------------------------------
(* The numbers NoLostWakeup counts are natural numbers.                     *)
LEMMA WokenCountable ==
  /\ IsFiniteSet(woken \cap Receivers) /\ Cardinality(woken \cap Receivers) \in Nat
  /\ IsFiniteSet(woken \cap Senders) /\ Cardinality(woken \cap Senders) \in Nat
BY ThreadAssumption, FS_Intersection, FS_CardinalityType

(* The message an Enqueue adds is matched by the receiver it signals.       *)
LEMMA EnqueueWakeup ==
  ASSUME TypeOK, WakeupInv, NEW s \in Senders, NEW prio \in Priorities,
         Enqueue(s, prio), ~IsFull
  PROVE  WakeupInv'
<1> DEFINE R == woken \cap Receivers
           S == woken \cap Senders
<1>1. /\ IsFiniteSet(R) /\ Cardinality(R) \in Nat
      /\ IsFiniteSet(S) /\ Cardinality(S) \in Nat
  BY WokenCountable
<1>2. /\ closed' = closed /\ notFullWaiters' = notFullWaiters
      /\ count' = count + 1 /\ SignalNotEmpty(woken \ {s})
  BY DEF Enqueue
<1>3. count \in Nat /\ Capacity \in Nat
  BY CapacityAssumption DEF TypeOK
<1>4. s \notin Receivers
  BY ThreadAssumption
<1>5. notEmptyWaiters' # {} => count' <= Cardinality((woken \cap Receivers)')
  <2> SUFFICES ASSUME notEmptyWaiters' # {}
               PROVE  count' <= Cardinality((woken \cap Receivers)')
    OBVIOUS
  <2>1. notEmptyWaiters # {}
    BY <1>2 DEF SignalNotEmpty
  <2>2. PICK r \in notEmptyWaiters : woken' = (woken \ {s}) \cup {r}
    BY <1>2, <2>1 DEF SignalNotEmpty
  <2>3. r \in Receivers /\ r \notin R
    BY <2>2 DEF TypeOK
  <2>4. (woken \cap Receivers)' = R \cup {r}
    BY <1>4, <2>2, <2>3
  <2>5. Cardinality(R \cup {r}) = Cardinality(R) + 1
    BY <1>1, <2>3, FS_AddElement
  <2>6. count <= Cardinality(R)
    BY <2>1 DEF WakeupInv, NoLostWakeup
  <2> HIDE DEF R
  <2>7. QED
    BY <1>1, <1>2, <1>3, <2>4, <2>5, <2>6
<1>6. notFullWaiters' # {} => Capacity - count' <= Cardinality((woken \cap Senders)')
  <2> SUFFICES ASSUME notFullWaiters # {}
               PROVE  Capacity - count' <= Cardinality((woken \cap Senders)')
    BY <1>2
  <2>1. (woken \cap Senders)' = S \ {s}
    <3>1. CASE notEmptyWaiters = {}
      BY <1>2, <3>1 DEF SignalNotEmpty
    <3>2. CASE notEmptyWaiters # {}
      <4>1. PICK r \in notEmptyWaiters : woken' = (woken \ {s}) \cup {r}
        BY <1>2, <3>2 DEF SignalNotEmpty
      <4>2. r \notin Senders
        BY ThreadAssumption DEF TypeOK
      <4>3. QED
        BY <4>1, <4>2
    <3>3. QED
      BY <3>1, <3>2
  <2>2. /\ Cardinality(S \ {s}) \in Nat
        /\ Cardinality(S \ {s}) >= Cardinality(S) - 1
    <3>1. Cardinality(S \ {s}) = IF s \in S THEN Cardinality(S) - 1 ELSE Cardinality(S)
      BY <1>1, FS_RemoveElement
    <3>2. IsFiniteSet(S \ {s})
      BY <1>1, FS_RemoveElement
    <3>3. Cardinality(S \ {s}) \in Nat
      BY <3>2, FS_CardinalityType
    <3> HIDE DEF S
    <3>4. QED
      BY <1>1, <3>1, <3>3
  <2>3. Capacity - count <= Cardinality(S)
    BY DEF WakeupInv, NoLostWakeup
  <2>4. /\ Cardinality((woken \cap Senders)') \in Nat
        /\ Cardinality((woken \cap Senders)') >= Cardinality(S) - 1
    BY <2>1, <2>2
  <2>5. count' = count + 1 /\ Cardinality(S) \in Nat
    BY <1>1, <1>2
  <2> HIDE DEF S
  <2>6. QED
    BY <1>3, <2>3, <2>4, <2>5
<1>7. ClosedHasNoWaiters'
  BY <1>2 DEF WakeupInv, ClosedHasNoWaiters, SignalNotEmpty
<1>8. QED
  BY <1>5, <1>6, <1>7 DEF WakeupInv, NoLostWakeup

(* The slot a Dequeue frees is matched by the sender it signals.            *)
LEMMA DequeueWakeup ==
  ASSUME TypeOK, WakeupInv, NEW r \in Receivers, Dequeue(r), ~IsEmpty
  PROVE  WakeupInv'
<1> DEFINE R == woken \cap Receivers
           S == woken \cap Senders
<1>1. /\ IsFiniteSet(R) /\ Cardinality(R) \in Nat
      /\ IsFiniteSet(S) /\ Cardinality(S) \in Nat
  BY WokenCountable
<1>2. /\ closed' = closed /\ notEmptyWaiters' = notEmptyWaiters
      /\ count' = count - 1 /\ SignalNotFull(woken \ {r})
  BY DEF Dequeue
<1>3. count \in Nat /\ Capacity \in Nat
  BY CapacityAssumption DEF TypeOK
<1>4. r \notin Senders
  BY ThreadAssumption
<1>5. notFullWaiters' # {} => Capacity - count' <= Cardinality((woken \cap Senders)')
  <2> SUFFICES ASSUME notFullWaiters' # {}
               PROVE  Capacity - count' <= Cardinality((woken \cap Senders)')
    OBVIOUS
  <2>1. notFullWaiters # {}
    BY <1>2 DEF SignalNotFull
  <2>2. PICK s \in notFullWaiters : woken' = (woken \ {r}) \cup {s}
    BY <1>2, <2>1 DEF SignalNotFull
  <2>3. s \in Senders /\ s \notin S
    BY <2>2 DEF TypeOK
  <2>4. (woken \cap Senders)' = S \cup {s}
    BY <1>4, <2>2, <2>3
  <2>5. Cardinality(S \cup {s}) = Cardinality(S) + 1
    BY <1>1, <2>3, FS_AddElement
  <2>6. Capacity - count <= Cardinality(S)
    BY <2>1 DEF WakeupInv, NoLostWakeup
  <2>7. Cardinality((woken \cap Senders)') = Cardinality(S) + 1
    BY <2>4, <2>5
  <2>8. count' = count - 1 /\ Cardinality(S) \in Nat
    BY <1>1, <1>2
  <2> HIDE DEF S
  <2>9. QED
    BY <1>3, <2>6, <2>7, <2>8
<1>6. notEmptyWaiters' # {} => count' <= Cardinality((woken \cap Receivers)')
  <2> SUFFICES ASSUME notEmptyWaiters # {}
               PROVE  count' <= Cardinality((woken \cap Receivers)')
    BY <1>2
  <2>1. (woken \cap Receivers)' = R \ {r}
    <3>1. CASE notFullWaiters = {}
      BY <1>2, <3>1 DEF SignalNotFull
    <3>2. CASE notFullWaiters # {}
      <4>1. PICK s \in notFullWaiters : woken' = (woken \ {r}) \cup {s}
        BY <1>2, <3>2 DEF SignalNotFull
      <4>2. s \notin Receivers
        BY ThreadAssumption DEF TypeOK
      <4>3. QED
        BY <4>1, <4>2
    <3>3. QED
      BY <3>1, <3>2
  <2>2. /\ Cardinality(R \ {r}) \in Nat
        /\ Cardinality(R \ {r}) >= Cardinality(R) - 1
    <3>1. Cardinality(R \ {r}) = IF r \in R THEN Cardinality(R) - 1 ELSE Cardinality(R)
      BY <1>1, FS_RemoveElement
    <3>2. IsFiniteSet(R \ {r})
      BY <1>1, FS_RemoveElement
    <3>3. Cardinality(R \ {r}) \in Nat
      BY <3>2, FS_CardinalityType
    <3> HIDE DEF R
    <3>4. QED
      BY <1>1, <3>1, <3>3
  <2>3. count <= Cardinality(R)
    BY DEF WakeupInv, NoLostWakeup
  <2>4. /\ Cardinality((woken \cap Receivers)') \in Nat
        /\ Cardinality((woken \cap Receivers)') >= Cardinality(R) - 1
    BY <2>1, <2>2
  <2>5. count' = count - 1 /\ Cardinality(R) \in Nat
    BY <1>1, <1>2
  <2> HIDE DEF R
  <2>6. QED
    BY <1>3, <2>3, <2>4, <2>5
<1>7. ClosedHasNoWaiters'
  BY <1>2 DEF WakeupInv, ClosedHasNoWaiters, SignalNotFull
<1>8. QED
  BY <1>5, <1>6, <1>7 DEF WakeupInv, NoLostWakeup

(* A thread that leaves, waits, wakes or closes moves no message.           *)
LEMMA WakeupStep ==
  ASSUME TypeOK, WakeupInv, [Next]_vars
  PROVE  WakeupInv'
<1> USE DEF WakeupInv, ClosedHasNoWaiters, NoLostWakeup, ring
<1>0. /\ IsFiniteSet(woken \cap Receivers) /\ Cardinality(woken \cap Receivers) \in Nat
      /\ IsFiniteSet(woken \cap Senders) /\ Cardinality(woken \cap Senders) \in Nat
      /\ count \in Nat /\ Capacity \in Nat
  BY WokenCountable, CapacityAssumption DEF TypeOK
<1>1. CASE \E s \in Senders, prio \in Priorities : Enqueue(s, prio) /\ ~IsFull
  BY <1>1, EnqueueWakeup
<1>2. CASE \E r \in Receivers : Dequeue(r) /\ ~IsEmpty
  BY <1>2, DequeueWakeup
<1>3. CASE \E t \in Threads : Leave(t) /\ (closed \/ t \notin woken)
  <2>1. PICK t \in Threads : Leave(t) /\ (closed \/ t \notin woken)
    BY <1>3
  <2>2. CASE closed
    BY <2>1, <2>2 DEF Leave
  <2>3. CASE t \notin woken
    <3>1. woken' = woken /\ closed' = closed /\ count' = count
      BY <2>1, <2>3 DEF Leave
    <3>2. notEmptyWaiters' \subseteq notEmptyWaiters /\ notFullWaiters' \subseteq notFullWaiters
      BY <2>1 DEF Leave
    <3>3. QED
      BY <3>1, <3>2
  <2>4. QED
    BY <2>1, <2>2, <2>3
<1>4. CASE \E s \in Senders, b \in BOOLEAN : WaitNotFull(s, b) /\ IsFull /\ ~closed
  <2>1. PICK s \in Senders, b \in BOOLEAN : WaitNotFull(s, b) /\ IsFull /\ ~closed
    BY <1>4
  <2>2. /\ woken' = woken \ {s} /\ closed' = closed /\ count' = count
        /\ notEmptyWaiters' = notEmptyWaiters
    BY <2>1 DEF WaitNotFull
  <2>3. (woken \cap Receivers)' = woken \cap Receivers
    BY <2>2, ThreadAssumption
  <2>4. IsFiniteSet((woken \cap Senders)') /\ Cardinality((woken \cap Senders)') \in Nat
    BY ThreadAssumption, FS_Intersection, FS_CardinalityType
  <2>5. Capacity - count' <= 0
    BY <1>0, <2>1, <2>2 DEF IsFull
  <2>6. Capacity - count' <= Cardinality((woken \cap Senders)')
    BY <1>0, <2>2, <2>4, <2>5
  <2>7. notEmptyWaiters' # {} => count' <= Cardinality((woken \cap Receivers)')
    BY <2>2, <2>3
  <2>8. QED
    BY <2>1, <2>2, <2>6, <2>7
<1>5. CASE \E r \in Receivers, b \in BOOLEAN : WaitNotEmpty(r, b) /\ IsEmpty /\ ~closed
  <2>1. PICK r \in Receivers, b \in BOOLEAN : WaitNotEmpty(r, b) /\ IsEmpty /\ ~closed
    BY <1>5
  <2>2. /\ woken' = woken \ {r} /\ closed' = closed /\ count' = count
        /\ notFullWaiters' = notFullWaiters
    BY <2>1 DEF WaitNotEmpty
  <2>3. (woken \cap Senders)' = woken \cap Senders
    BY <2>2, ThreadAssumption
  <2>4. IsFiniteSet((woken \cap Receivers)') /\ Cardinality((woken \cap Receivers)') \in Nat
    BY ThreadAssumption, FS_Intersection, FS_CardinalityType
  <2>5. count' = 0
    BY <2>1, <2>2 DEF IsEmpty
  <2>6. count' <= Cardinality((woken \cap Receivers)')
    BY <2>4, <2>5
  <2>7. notFullWaiters' # {} => Capacity - count' <= Cardinality((woken \cap Senders)')
    BY <2>2, <2>3
  <2>8. QED
    BY <2>1, <2>2, <2>6, <2>7
<1>6. CASE \E t \in Threads : SpuriousWakeup(t)
  <2>1. PICK t \in Threads : SpuriousWakeup(t)
    BY <1>6
  <2>2. /\ woken' = woken \cup {t} /\ closed' = closed /\ count' = count
        /\ notEmptyWaiters' \subseteq notEmptyWaiters
        /\ notFullWaiters' \subseteq notFullWaiters
    BY <2>1 DEF SpuriousWakeup
  <2>3. ASSUME NEW T, IsFiniteSet(T)
        PROVE  Cardinality(woken \cap T) <= Cardinality(woken' \cap T)
    <3>1. woken \cap T \in SUBSET (woken' \cap T) /\ IsFiniteSet(woken' \cap T)
      BY <2>2, <2>3, FS_Intersection
    <3>2. QED
      BY <3>1, FS_Subset
  <2>4. /\ Cardinality(woken \cap Receivers) <= Cardinality((woken \cap Receivers)')
        /\ Cardinality(woken \cap Senders) <= Cardinality((woken \cap Senders)')
    BY <2>3, ThreadAssumption
  <2>5. /\ Cardinality((woken \cap Receivers)') \in Nat
        /\ Cardinality((woken \cap Senders)') \in Nat
    BY ThreadAssumption, FS_Intersection, FS_CardinalityType
  <2>6. notEmptyWaiters' # {} => count' <= Cardinality((woken \cap Receivers)')
    BY <1>0, <2>2, <2>4, <2>5
  <2>7. notFullWaiters' # {} => Capacity - count' <= Cardinality((woken \cap Senders)')
    BY <1>0, <2>2, <2>4, <2>5
  <2>8. QED
    BY <2>2, <2>6, <2>7
<1>7. CASE Close
  BY <1>7 DEF Close
<1>8. CASE UNCHANGED vars
  BY <1>8 DEF vars
<1>9. QED
  BY <1>1, <1>2, <1>3, <1>4, <1>5, <1>6, <1>7, <1>8, StepCases

(* Signalling a single waiter per message and per freed slot is enough: no  *)
(* receiver sleeps on a message nobody was woken for, and no sender on a    *)
(* free slot nobody was woken for, under any interleaving.                  *)
THEOREM WakeupsNotLost == Spec => []NoLostWakeup
<1>1. Init => TypeOK /\ WakeupInv
  BY InitType DEF Init, WakeupInv, ClosedHasNoWaiters, NoLostWakeup
<1>2. TypeOK /\ WakeupInv /\ [Next]_vars => (TypeOK /\ WakeupInv)'
  BY TypeStep, WakeupStep
<1>3. WakeupInv => NoLostWakeup
  BY DEF WakeupInv
<1>4. QED
  BY <1>1, <1>2, <1>3, PTL DEF Spec

-----------------------------------------------------------------------------
(***************************************************************************)
(* The refinement: the ring read from head is the FIFO of BoundedFifo.      *)
(***************************************************************************)
LEMMA BacklogSeq ==
  ASSUME NEW m \in [Slots -> Message], NEW h \in Slots, NEW c \in 0 .. Capacity
  PROVE  /\ BacklogFrom(m, h, c) \in Seq(Message) /\ Len(BacklogFrom(m, h, c)) = c
         /\ \A i \in 1 .. c : BacklogFrom(m, h, c)[i] = m[(h + (i - 1)) % Capacity]
<1>1. /\ h \in 0 .. Capacity - 1 /\ c \in Nat /\ m \in [0 .. Capacity - 1 -> Message]
  BY CapacityAssumption DEF Slots
<1>2. ASSUME NEW i \in 1 .. c
      PROVE  m[(h + (i - 1)) % Capacity] \in Message
  <2>1. i - 1 \in 0 .. Capacity
    BY <1>1, CapacityAssumption
  <2>2. (h + (i - 1)) % Capacity \in 0 .. Capacity - 1
    BY <1>1, <2>1, CapacityAssumption, SlotInRing
  <2>3. QED
    BY <1>1, <2>2
<1>3. QED
  BY <1>1, <1>2 DEF BacklogFrom

(* A send that goes through is not blocked any more.                        *)
LEMMA BlockedAfterEnqueue ==
  ASSUME TypeOK, NEW s \in Senders, NEW prio \in Priorities, Enqueue(s, prio), MayAccept(s)
  PROVE  \/ ~closed /\ BlockedSenders' = BlockedSenders
         \/ s \in BlockedSenders /\ BlockedSenders' = BlockedSenders \ {s}
<1>1. notFullWaiters' = notFullWaiters /\ SignalNotEmpty(woken \ {s})
  BY DEF Enqueue
<1>2. (woken \cap Senders)' = (woken \cap Senders) \ {s}
  <2>1. CASE notEmptyWaiters = {}
    BY <1>1, <2>1 DEF SignalNotEmpty
  <2>2. CASE notEmptyWaiters # {}
    <3>1. PICK r \in notEmptyWaiters : woken' = (woken \ {s}) \cup {r}
      BY <1>1, <2>2 DEF SignalNotEmpty
    <3>2. r \notin Senders
      BY ThreadAssumption DEF TypeOK
    <3>3. QED
      BY <3>1, <3>2
  <2>3. QED
    BY <2>1, <2>2
<1>3. CASE s \in woken
  <2>1. s \notin notFullWaiters
    BY <1>3 DEF TypeOK
  <2>2. QED
    BY <1>1, <1>2, <1>3, <2>1 DEF BlockedSenders
<1>4. CASE Outside(s) /\ ~closed
  BY <1>1, <1>2, <1>4 DEF Outside, BlockedSenders
<1>5. QED
  BY <1>3, <1>4 DEF MayAccept

(* A receiver that signals moves a sender, if any, from the one set to the  *)
(* other; so do spurious wake-ups and msgq_close.                           *)
LEMMA BlockedAfterDequeue ==
  ASSUME TypeOK, NEW r \in Receivers, Dequeue(r)
  PROVE  BlockedSenders' = BlockedSenders
<1>1. r \notin Senders /\ SignalNotFull(woken \ {r})
  BY ThreadAssumption DEF Dequeue
<1>2. CASE notFullWaiters = {}
  BY <1>1, <1>2 DEF SignalNotFull, BlockedSenders
<1>3. CASE notFullWaiters # {}
  <2>1. PICK s \in notFullWaiters : /\ notFullWaiters' = notFullWaiters \ {s}
                                    /\ woken' = (woken \ {r}) \cup {s}
    BY <1>1, <1>3 DEF SignalNotFull
  <2>2. QED
    BY <1>1, <2>1 DEF BlockedSenders
<1>4. QED
  BY <1>2, <1>3

LEMMA BlockedUnlessRefused ==
  ASSUME TypeOK,
         \/ \E t \in Threads : Leave(t) \/ SpuriousWakeup(t)
         \/ \E r \in Receivers, b \in BOOLEAN : WaitNotEmpty(r, b)
         \/ Close
  PROVE  \/ BlockedSenders' = BlockedSenders
         \/ \E s \in BlockedSenders : BlockedSenders' = BlockedSenders \ {s} /\ Leave(s)
<1>1. ASSUME NEW t \in Threads, Leave(t)
      PROVE  \/ BlockedSenders' = BlockedSenders
             \/ \E s \in BlockedSenders : BlockedSenders' = BlockedSenders \ {s} /\ Leave(s)
  <2>1. BlockedSenders' = BlockedSenders \ {t}
    BY <1>1 DEF Leave, BlockedSenders
  <2>2. QED
    BY <1>1, <2>1
<1>2. ASSUME NEW t \in Threads, SpuriousWakeup(t) PROVE BlockedSenders' = BlockedSenders
  BY <1>2, ThreadAssumption DEF SpuriousWakeup, BlockedSenders, TypeOK
<1>3. ASSUME NEW r \in Receivers, NEW b \in BOOLEAN, WaitNotEmpty(r, b)
      PROVE  BlockedSenders' = BlockedSenders
  BY <1>3, ThreadAssumption DEF WaitNotEmpty, BlockedSenders
<1>4. CASE Close
  BY <1>4, ThreadAssumption DEF Close, BlockedSenders, TypeOK
<1>5. QED
  BY <1>1, <1>2, <1>3, <1>4

LEMMA BlockedAfterWait ==
  ASSUME TypeOK, NEW s \in Senders, NEW b \in BOOLEAN, WaitNotFull(s, b)
  PROVE  BlockedSenders' = BlockedSenders \cup {s}
BY DEF WaitNotFull, BlockedSenders

(* A send appends the message, numbered one past the last accepted.         *)
LEMMA EnqueueAccepts ==
  ASSUME TypeOK, RingInv, NEW s \in Senders, NEW prio \in Priorities,
         Enqueue(s, prio), ~IsFull, MayAccept(s)
  PROVE  Fifo!Accept
<1> DEFINE m == [msg_id |-> next_msg_id, priority |-> prio]
           q == Append(Backlog, m)
<1>1. /\ head \in 0 .. Capacity - 1 /\ tail \in 0 .. Capacity - 1
      /\ count \in 0 .. Capacity - 1 /\ count \in Nat /\ next_msg_id \in Nat
      /\ messages \in [0 .. Capacity - 1 -> Message] /\ Capacity \in Nat \ {0}
  BY CapacityAssumption DEF TypeOK, Slots, IsFull
<1>2. /\ head' = head /\ count' = count + 1 /\ next_msg_id' = next_msg_id + 1
      /\ messages' = [messages EXCEPT ![tail] = m]
      /\ lastReceived' = lastReceived /\ closed' = closed
  BY DEF Enqueue
<1>3. m \in Message
  BY <1>1 DEF Message
<1>4. tail = (head + count) % Capacity
  BY DEF RingInv, TailFollowsBacklog
<1>5. /\ Backlog \in Seq(Message) /\ Len(Backlog) = count
      /\ \A i \in 1 .. count : Backlog[i] = messages[(head + (i - 1)) % Capacity]
  BY BacklogSeq DEF TypeOK, Backlog
<1> HIDE DEF m
<1>6. /\ q \in Seq(Message) /\ Len(q) = count + 1
      /\ \A i \in 1 .. count : q[i] = Backlog[i]
      /\ q[count + 1] = m
  BY <1>3, <1>5, AppendProperties
<1>7. /\ Backlog' \in Seq(Message) /\ Len(Backlog') = count + 1
      /\ \A i \in 1 .. count + 1 : Backlog'[i] = messages'[(head + (i - 1)) % Capacity]
  <2>1. TypeOK'
    BY EnqueueType
  <2>2. messages' \in [Slots -> Message] /\ head' \in Slots /\ count' \in 0 .. Capacity
    BY <2>1 DEF TypeOK
  <2>3. Backlog' = BacklogFrom(messages', head', count')
    BY DEF Backlog
  <2>4. /\ Backlog' \in Seq(Message) /\ Len(Backlog') = count'
        /\ \A i \in 1 .. count' : Backlog'[i] = messages'[(head' + (i - 1)) % Capacity]
    BY <2>2, <2>3, BacklogSeq
  <2>5. QED
    BY <1>2, <2>4
<1>8. ASSUME NEW i \in 1 .. count + 1
      PROVE  Backlog'[i] = q[i]
  <2>1. i - 1 \in 0 .. Capacity - 1 /\ i - 1 \in 0 .. Capacity
    BY <1>1
  <2>2. (head + (i - 1)) % Capacity \in 0 .. Capacity - 1
    BY <1>1, <2>1, SlotInRing
  <2>3. CASE i = count + 1
    <3>1. (head + (i - 1)) % Capacity = tail
      BY <1>1, <1>4, <2>3
    <3>2. QED
      BY <1>1, <1>2, <1>6, <1>7, <2>3, <3>1
  <2>4. CASE i # count + 1
    <3>1. i - 1 # count /\ i \in 1 .. count
      BY <1>1, <2>4
    <3>2. (head + (i - 1)) % Capacity # tail
      BY <1>1, <1>4, <2>1, <3>1, SlotsDiffer
    <3>3. QED
      BY <1>1, <1>2, <1>5, <1>6, <1>7, <2>2, <3>1, <3>2
  <2>5. QED
    BY <2>3, <2>4
<1>9. Backlog' = q
  BY <1>6, <1>7, <1>8, SeqEqual
<1>10. (next_msg_id - 1) + 1 = next_msg_id /\ next_msg_id' - 1 = next_msg_id
  BY <1>1, <1>2
<1>11. count < Capacity
  BY <1>1
<1>12. \/ ~closed /\ BlockedSenders' = BlockedSenders
       \/ s \in BlockedSenders /\ BlockedSenders' = BlockedSenders \ {s}
  BY BlockedAfterEnqueue
<1>13. QED
  BY <1>2, <1>5, <1>9, <1>10, <1>11, <1>12 DEF Fifo!Accept, m

(* A receive takes the head of the backlog.                                 *)
LEMMA DequeueDelivers ==
  ASSUME TypeOK, RingInv, NEW r \in Receivers, Dequeue(r), ~IsEmpty
  PROVE  Fifo!Deliver
<1>1. /\ head \in 0 .. Capacity - 1 /\ count \in 1 .. Capacity /\ count \in Nat
      /\ Capacity \in Nat \ {0}
  BY CapacityAssumption DEF TypeOK, Slots, IsEmpty
<1>2. /\ head' = (head + 1) % Capacity /\ count' = count - 1
      /\ lastReceived' = messages[head].msg_id /\ messages' = messages
      /\ next_msg_id' = next_msg_id /\ closed' = closed
  BY DEF Dequeue, NextSlot
<1>3. /\ Backlog \in Seq(Message) /\ Len(Backlog) = count
      /\ \A i \in 1 .. count : Backlog[i] = messages[(head + (i - 1)) % Capacity]
  BY BacklogSeq DEF TypeOK, Backlog
<1>4. Backlog # <<>>
  BY <1>1, <1>3
<1>5. /\ Tail(Backlog) \in Seq(Message) /\ Len(Tail(Backlog)) = count - 1
      /\ \A i \in 1 .. count - 1 : Tail(Backlog)[i] = Backlog[i + 1]
  BY <1>3, <1>4, HeadTailProperties
<1>6. /\ Backlog' \in Seq(Message) /\ Len(Backlog') = count - 1
      /\ \A i \in 1 .. count - 1 : Backlog'[i] = messages[(head' + (i - 1)) % Capacity]
  <2>1. TypeOK'
    BY DequeueType
  <2>2. messages' \in [Slots -> Message] /\ head' \in Slots /\ count' \in 0 .. Capacity
    BY <2>1 DEF TypeOK
  <2>3. Backlog' = BacklogFrom(messages', head', count')
    BY DEF Backlog
  <2>4. /\ Backlog' \in Seq(Message) /\ Len(Backlog') = count'
        /\ \A i \in 1 .. count' : Backlog'[i] = messages'[(head' + (i - 1)) % Capacity]
    BY <2>2, <2>3, BacklogSeq
  <2>5. QED
    BY <1>2, <2>4
<1>7. ASSUME NEW i \in 1 .. count - 1
      PROVE  Backlog'[i] = Tail(Backlog)[i]
  <2>1. i - 1 \in 0 .. Capacity - 1 /\ i + 1 \in 1 .. count /\ (i - 1) + 1 = (i + 1) - 1
    BY <1>1
  <2>2. (head' + (i - 1)) % Capacity = (head + ((i + 1) - 1)) % Capacity
    BY <1>1, <1>2, <2>1, SlotShift
  <2>3. QED
    BY <1>3, <1>5, <1>6, <2>1, <2>2
<1>8. Backlog' = Tail(Backlog)
  BY <1>5, <1>6, <1>7, SeqEqual
<1>9. Backlog[1] = messages[head]
  <2>1. 1 \in 1 .. count /\ head + (1 - 1) = head
    BY <1>1
  <2>2. QED
    BY <1>1, <1>3, <2>1, ModSmall
<1>10. BlockedSenders' = BlockedSenders
  BY BlockedAfterDequeue
<1>11. QED
  BY <1>2, <1>4, <1>8, <1>9, <1>10 DEF Fifo!Deliver

(* Each critical section is one step of the FIFO, or changes nothing of it. *)
LEMMA StepImplements ==
  ASSUME TypeOK, RingInv, [Next]_vars
  PROVE  [Fifo!FifoNext]_Fifo!fifoVars
<1>1. CASE \E s \in Senders, prio \in Priorities : Enqueue(s, prio) /\ ~IsFull /\ MayAccept(s)
  BY <1>1, EnqueueAccepts DEF Fifo!FifoNext
<1>2. CASE \E r \in Receivers : Dequeue(r) /\ ~IsEmpty
  BY <1>2, DequeueDelivers DEF Fifo!FifoNext
<1>3. CASE Close
  <2>1. BlockedSenders' = BlockedSenders
    BY <1>3, ThreadAssumption DEF Close, BlockedSenders, TypeOK
  <2>2. QED
    BY <1>3, <2>1 DEF Close, ring, Backlog, BacklogFrom, Fifo!FifoNext, Fifo!Shut
<1>4. CASE \E s \in Senders, b \in BOOLEAN : WaitNotFull(s, b) /\ IsFull /\ ~closed
  <2>1. PICK s \in Senders, b \in BOOLEAN : WaitNotFull(s, b) /\ IsFull /\ ~closed
    BY <1>4
  <2>2. BlockedSenders' = BlockedSenders \cup {s}
    BY <2>1, BlockedAfterWait
  <2>3. Backlog' = Backlog /\ UNCHANGED <<ring, closed, lastReceived>>
    BY <2>1 DEF WaitNotFull, ring, Backlog, BacklogFrom
  <2>4. Len(Backlog) = Capacity
    BY <2>1, BacklogSeq, CapacityAssumption DEF TypeOK, Backlog, IsFull
  <2>5. CASE s \in BlockedSenders
    <3>1. BlockedSenders' = BlockedSenders
      BY <2>2, <2>5
    <3>2. QED
      BY <2>3, <3>1 DEF Fifo!fifoVars, ring
  <2>6. CASE s \notin BlockedSenders
    BY <2>1, <2>2, <2>3, <2>4, <2>6 DEF Fifo!FifoNext, Fifo!Block, ring
  <2>7. QED
    BY <2>5, <2>6
<1>5. CASE \/ \E t \in Threads : Leave(t) \/ SpuriousWakeup(t)
           \/ \E r \in Receivers, b \in BOOLEAN : WaitNotEmpty(r, b)
  <2>1. Backlog' = Backlog /\ UNCHANGED <<ring, closed, lastReceived>>
    BY <1>5 DEF Leave, SpuriousWakeup, WaitNotEmpty, ring, Backlog, BacklogFrom
  <2>2. \/ BlockedSenders' = BlockedSenders
        \/ \E s \in BlockedSenders : BlockedSenders' = BlockedSenders \ {s}
    BY <1>5, BlockedUnlessRefused
  <2>3. QED
    BY <2>1, <2>2 DEF Fifo!FifoNext, Fifo!Refuse, Fifo!fifoVars, ring
<1>6. CASE UNCHANGED vars
  BY <1>6 DEF vars, ring, Backlog, BacklogFrom, BlockedSenders, Fifo!fifoVars
<1>7. QED
  BY <1>1, <1>2, <1>3, <1>4, <1>5, <1>6, StepCases

(***************************************************************************)
(* The ring, its mutex and its two condition variables implement the FIFO   *)
(* of BoundedFifo: at most Capacity messages, each accepted message handed  *)
(* out once and in order, whoever waits, times out or wakes, and no send    *)
(* begun on a closed queue.                                                 *)
(***************************************************************************)
THEOREM QueueImplementsFifo == Spec => ImplementsFifo
<1>1. Init => Fifo!FifoInit
  BY DEF Init, Backlog, BacklogFrom, BlockedSenders, Fifo!FifoInit
<1>2. Init => TypeOK /\ RingInv
  BY InitType, InitRing
<1>3. TypeOK /\ RingInv /\ [Next]_vars => (TypeOK /\ RingInv)'
  BY TypeStep, RingStep
<1>4. TypeOK /\ RingInv /\ [Next]_vars => [Fifo!FifoNext]_Fifo!fifoVars
  BY StepImplements
<1>5. QED
  BY <1>1, <1>2, <1>3, <1>4, PTL DEF Spec, ImplementsFifo, Fifo!FifoSpec
=============================================================================
