----------------------------- MODULE RingLemmas -----------------------------
(***************************************************************************)
(* Arithmetic of the ring buffers of lesson6: msg_queue.c and data_cache.c  *)
(* step an index with (i + 1) % N and reach the k-th entry as (head + k) %  *)
(* N.  These lemmas say what that index is and that distinct offsets are    *)
(* distinct slots, for every ring size N.                                   *)
(***************************************************************************)
EXTENDS Integers, TLAPS

(* An index inside the ring is its own remainder.                           *)
LEMMA ModSmall ==
  ASSUME NEW N \in Nat \ {0}, NEW a \in 0 .. N - 1
  PROVE  a % N = a
BY SMT

(* An index less than one turn past the end wraps once.                     *)
LEMMA ModWrap ==
  ASSUME NEW N \in Nat \ {0}, NEW a \in N .. 2 * N - 1
  PROVE  a % N = a - N
BY SMT

(* Where offset i from head h lies, without the remainder.                  *)
LEMMA SlotCases ==
  ASSUME NEW N \in Nat \ {0}, NEW h \in 0 .. N - 1, NEW i \in 0 .. N
  PROVE  (h + i) % N = IF h + i < N THEN h + i ELSE h + i - N
<1>1. CASE h + i < N
  <2>1. h + i \in 0 .. N - 1
    BY <1>1
  <2>2. QED
    BY <2>1, <1>1, ModSmall
<1>2. CASE ~ (h + i < N)
  <2>1. h + i \in N .. 2 * N - 1
    BY <1>2
  <2>2. QED
    BY <2>1, <1>2, ModWrap
<1>3. QED
  BY <1>1, <1>2

(* Every offset lies in the ring.                                           *)
LEMMA SlotInRing ==
  ASSUME NEW N \in Nat \ {0}, NEW h \in 0 .. N - 1, NEW i \in 0 .. N
  PROVE  (h + i) % N \in 0 .. N - 1
BY SlotCases

(* Two offsets below the ring size are two slots.                           *)
LEMMA SlotsDiffer ==
  ASSUME NEW N \in Nat \ {0}, NEW h \in 0 .. N - 1,
         NEW i \in 0 .. N - 1, NEW j \in 0 .. N - 1, i # j
  PROVE  (h + i) % N # (h + j) % N
<1>1. i \in 0 .. N /\ j \in 0 .. N
  OBVIOUS
<1>2. /\ (h + i) % N = IF h + i < N THEN h + i ELSE h + i - N
      /\ (h + j) % N = IF h + j < N THEN h + j ELSE h + j - N
  BY <1>1, SlotCases
<1>3. QED
  BY <1>2

(* Advancing head by one slot shifts every offset by one.                   *)
LEMMA SlotShift ==
  ASSUME NEW N \in Nat \ {0}, NEW h \in 0 .. N - 1, NEW i \in 0 .. N - 1
  PROVE  (((h + 1) % N) + i) % N = (h + (i + 1)) % N
<1> DEFINE g == (h + 1) % N
<1>0. 1 \in 0 .. N
  OBVIOUS
<1>1. g = IF h + 1 < N THEN h + 1 ELSE h + 1 - N
  BY <1>0, SlotCases
<1>2. g \in 0 .. N - 1
  BY <1>1
<1>3. i \in 0 .. N /\ i + 1 \in 0 .. N
  OBVIOUS
<1> HIDE DEF g
<1>4. (g + i) % N = IF g + i < N THEN g + i ELSE g + i - N
  BY <1>2, <1>3, SlotCases
<1>5. (h + (i + 1)) % N = IF h + (i + 1) < N THEN h + (i + 1) ELSE h + (i + 1) - N
  BY <1>3, SlotCases
<1>6. (g + i) % N = (h + (i + 1)) % N
  BY <1>1, <1>2, <1>4, <1>5
<1>7. QED
  BY <1>6 DEF g

(* Stepping the slot of offset i gives the slot of offset i + 1.            *)
LEMMA SlotNext ==
  ASSUME NEW N \in Nat \ {0}, NEW h \in 0 .. N - 1, NEW i \in 0 .. N - 1
  PROVE  (((h + i) % N) + 1) % N = (h + (i + 1)) % N
<1> DEFINE g == (h + i) % N
<1>1. i \in 0 .. N /\ i + 1 \in 0 .. N /\ 1 \in 0 .. N
  OBVIOUS
<1>2. g = IF h + i < N THEN h + i ELSE h + i - N
  BY <1>1, SlotCases
<1>3. g \in 0 .. N - 1
  BY <1>2
<1> HIDE DEF g
<1>4. (g + 1) % N = IF g + 1 < N THEN g + 1 ELSE g + 1 - N
  BY <1>1, <1>3, SlotCases
<1>5. (h + (i + 1)) % N = IF h + (i + 1) < N THEN h + (i + 1) ELSE h + (i + 1) - N
  BY <1>1, SlotCases
<1>6. (g + 1) % N = (h + (i + 1)) % N
  BY <1>2, <1>3, <1>4, <1>5
<1>7. QED
  BY <1>6 DEF g
=============================================================================
