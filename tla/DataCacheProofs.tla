--------------------------- MODULE DataCacheProofs ---------------------------
(***************************************************************************)
(* Proofs about DataCache for every ring size, every number of reports, and *)
(* whether or not saves may fail and processes may die: the types, the      *)
(* indices, the order of the reports, that none is replayed, and that the   *)
(* cache implements the FIFO of DropOldestFifo.                             *)
(***************************************************************************)
EXTENDS MCDataCache, RingLemmas, SequenceTheorems

-----------------------------------------------------------------------------
(***************************************************************************)
(* The inductive invariant.  What data_cache.c keeps to without ever saying *)
(* so: no report is newer than the last one pushed (a torn file included);  *)
(* until a save fails the file is either absent or whole, and its reports   *)
(* are as fresh as those in memory; memory is empty while no process runs;  *)
(* and between main's save and the second one of data_cache_cleanup the     *)
(* file repeats memory.                                                     *)
(***************************************************************************)
Known(e, h, c, newest) == \A i \in 0 .. c - 1 : e[SlotOf(h, i)] <= newest
Fresh(e, h, c, last) ==
  \A i \in 0 .. c - 1 : e[SlotOf(h, i)] # Blank /\ e[SlotOf(h, i)] > last

NothingFromTheFuture ==
  /\ sent <= pushed
  /\ Known(entries, head, count, pushed)
  /\ Known(file.entries, file.head, file.count, pushed)

FileIsFresh ==
  ~saveFailed => /\ file = NoFile \/ IsWhole(file)
                 /\ Fresh(file.entries, file.head, file.count, sent)

EmptyWhileDown == phase = "down" => count = 0

FileRepeatsMemory ==
  phase = "saved" /\ ~saveFailed =>
    file.entries = entries /\ file.head = head /\ file.count = count

CacheInv ==
  /\ IndicesAgree /\ OldestFirst /\ NothingReplayed
  /\ NothingFromTheFuture /\ FileIsFresh
  /\ EmptyWhileDown /\ FileRepeatsMemory

-----------------------------------------------------------------------------
(* The facts of RingLemmas in the cache's words.                            *)
LEMMA SlotOfType ==
  ASSUME NEW h \in Slots, NEW i \in 0 .. MaxEntries
  PROVE  SlotOf(h, i) \in Slots
BY MaxEntriesAssumption, SlotInRing DEF SlotOf, Slots

LEMMA SlotOfHead ==
  ASSUME NEW h \in Slots
  PROVE  SlotOf(h, 0) = h
BY MaxEntriesAssumption, ModSmall DEF SlotOf, Slots

LEMMA NextSlotType ==
  ASSUME NEW h \in Slots
  PROVE  NextSlot(h) \in Slots
<1>1. 1 \in 0 .. MaxEntries
  BY MaxEntriesAssumption
<1>2. QED
  BY <1>1, SlotOfType DEF NextSlot, SlotOf

(* Stepping head shifts the backlog by one.                                 *)
LEMMA SlotAfterDrop ==
  ASSUME NEW h \in Slots, NEW i \in 0 .. MaxEntries - 1
  PROVE  SlotOf(NextSlot(h), i) = SlotOf(h, i + 1)
BY MaxEntriesAssumption, SlotShift DEF SlotOf, NextSlot, Slots

(* Stepping tail keeps it one slot past the backlog.                        *)
LEMMA SlotAfterAdd ==
  ASSUME NEW h \in Slots, NEW c \in 0 .. MaxEntries - 1
  PROVE  NextSlot(SlotOf(h, c)) = SlotOf(h, c + 1)
BY MaxEntriesAssumption, SlotNext DEF SlotOf, NextSlot, Slots

(* Writing the slot at tail changes no report of the backlog.               *)
LEMMA EntryAfterAdd ==
  ASSUME NEW e \in [Slots -> Nat], NEW v \in Nat,
         NEW h \in Slots, NEW c \in 0 .. MaxEntries - 1, NEW i \in 0 .. c
  PROVE  [e EXCEPT ![SlotOf(h, c)] = v][SlotOf(h, i)]
           = IF i = c THEN v ELSE e[SlotOf(h, i)]
<1>1. i \in 0 .. MaxEntries - 1 /\ i \in 0 .. MaxEntries /\ c \in 0 .. MaxEntries
  BY MaxEntriesAssumption
<1>2. SlotOf(h, i) \in Slots /\ SlotOf(h, c) \in Slots
  BY <1>1, SlotOfType
<1>3. i # c => SlotOf(h, i) # SlotOf(h, c)
  BY <1>1, MaxEntriesAssumption, SlotsDiffer DEF SlotOf, Slots
<1>4. QED
  BY <1>2, <1>3

-----------------------------------------------------------------------------
(* Dropping the oldest report of a ring leaves the rest as it was.          *)
LEMMA DropOldest ==
  ASSUME NEW e \in [Slots -> Nat], NEW h \in Slots, NEW c \in 1 .. MaxEntries,
         NEW t, NEW newest \in Nat,
         TailMatches(h, t, c), Ordered(e, h, c), Known(e, h, c, newest)
  PROVE  /\ TailMatches(NextSlot(h), t, c - 1)
         /\ Ordered(e, NextSlot(h), c - 1)
         /\ Known(e, NextSlot(h), c - 1, newest)
<1>1. \A i \in 0 .. c - 1 : SlotOf(NextSlot(h), i) = SlotOf(h, i + 1)
  BY MaxEntriesAssumption, SlotAfterDrop
<1>2. TailMatches(NextSlot(h), t, c - 1)
  <2>1. c - 1 \in 0 .. c - 1 /\ (c - 1) + 1 = c
    OBVIOUS
  <2>2. QED
    BY <1>1, <2>1 DEF TailMatches
<1>3. \A i \in 0 .. (c - 1) - 1 : /\ i + 1 \in 0 .. c - 1
                                  /\ SlotOf(NextSlot(h), i) = SlotOf(h, i + 1)
  BY <1>1
<1>4. Known(e, NextSlot(h), c - 1, newest)
  BY <1>3 DEF Known
<1>5. Ordered(e, NextSlot(h), c - 1)
  <2> SUFFICES ASSUME NEW i \in 0 .. (c - 1) - 1, NEW j \in 0 .. (c - 1) - 1, i < j,
                      e[SlotOf(h, i + 1)] # Blank, e[SlotOf(h, j + 1)] # Blank
               PROVE  e[SlotOf(h, i + 1)] < e[SlotOf(h, j + 1)]
    BY <1>3 DEF Ordered
  <2>1. i + 1 \in 0 .. c - 1 /\ j + 1 \in 0 .. c - 1 /\ i + 1 < j + 1
    OBVIOUS
  <2>2. QED
    BY <2>1 DEF Ordered
<1>6. QED
  BY <1>2, <1>4, <1>5

(* Adding report newest + 1 to a ring with room keeps the order.            *)
LEMMA AddNewest ==
  ASSUME NEW e \in [Slots -> Nat], NEW h \in Slots, NEW c \in 0 .. MaxEntries - 1,
         NEW newest \in Nat, Ordered(e, h, c), Known(e, h, c, newest)
  PROVE  LET f == [e EXCEPT ![SlotOf(h, c)] = newest + 1]
         IN  /\ TailMatches(h, NextSlot(SlotOf(h, c)), c + 1)
             /\ Ordered(f, h, c + 1)
             /\ Known(f, h, c + 1, newest + 1)
<1> DEFINE f == [e EXCEPT ![SlotOf(h, c)] = newest + 1]
<1>1. TailMatches(h, NextSlot(SlotOf(h, c)), c + 1)
  BY SlotAfterAdd DEF TailMatches
<1>2. ASSUME NEW i \in 0 .. c
      PROVE  f[SlotOf(h, i)] = IF i = c THEN newest + 1 ELSE e[SlotOf(h, i)]
  <2>1. newest + 1 \in Nat
    OBVIOUS
  <2>2. QED
    BY <2>1, EntryAfterAdd
<1>3. \A i \in 0 .. c - 1 : e[SlotOf(h, i)] \in Nat /\ e[SlotOf(h, i)] <= newest
  <2> SUFFICES ASSUME NEW i \in 0 .. c - 1
               PROVE  e[SlotOf(h, i)] \in Nat /\ e[SlotOf(h, i)] <= newest
    OBVIOUS
  <2>1. i \in 0 .. MaxEntries
    BY MaxEntriesAssumption
  <2>2. SlotOf(h, i) \in Slots
    BY <2>1, SlotOfType
  <2>3. QED
    BY <2>2 DEF Known
<1> HIDE DEF f
<1>4. Known(f, h, c + 1, newest + 1)
  BY <1>2, <1>3 DEF Known
<1>5. Ordered(f, h, c + 1)
  <2> SUFFICES ASSUME NEW i \in 0 .. c, NEW j \in 0 .. c, i < j,
                      f[SlotOf(h, i)] # Blank, f[SlotOf(h, j)] # Blank
               PROVE  f[SlotOf(h, i)] < f[SlotOf(h, j)]
    BY DEF Ordered
  <2>1. i \in 0 .. c - 1 /\ f[SlotOf(h, i)] = e[SlotOf(h, i)]
    BY <1>2
  <2>2. CASE j = c
    BY <1>2, <1>3, <2>1, <2>2
  <2>3. CASE j # c
    <3>1. j \in 0 .. c - 1 /\ f[SlotOf(h, j)] = e[SlotOf(h, j)]
      BY <1>2, <2>3
    <3>2. QED
      BY <2>1, <3>1 DEF Ordered
  <2>4. QED
    BY <2>2, <2>3
<1>6. QED
  BY <1>1, <1>4, <1>5 DEF f

(* Blanking any of the slots, as a torn file does, keeps the order.         *)
LEMMA BlankSome ==
  ASSUME NEW e \in [Slots -> Nat], NEW f \in [Slots -> Nat],
         NEW h \in Slots, NEW c \in 0 .. MaxEntries, NEW newest \in Nat,
         \A i \in Slots : f[i] = e[i] \/ f[i] = Blank,
         Ordered(e, h, c), Known(e, h, c, newest)
  PROVE  Ordered(f, h, c) /\ Known(f, h, c, newest)
<1>1. \A i \in 0 .. c - 1 : SlotOf(h, i) \in Slots
  BY MaxEntriesAssumption, SlotOfType
<1>2. \A i \in 0 .. c - 1 : f[SlotOf(h, i)] = e[SlotOf(h, i)] \/ f[SlotOf(h, i)] = Blank
  BY <1>1
<1>3. Known(f, h, c, newest)
  BY <1>2 DEF Known, Blank
<1>4. Ordered(f, h, c)
  BY <1>2 DEF Ordered
<1>5. QED
  BY <1>3, <1>4

-----------------------------------------------------------------------------
(* A file with everything the invariant asks of it.                         *)
FileSound(f) ==
  /\ f \in FileType
  /\ TailMatches(f.head, f.tail, f.count)
  /\ Ordered(f.entries, f.head, f.count)
  /\ Known(f.entries, f.head, f.count, pushed)

LEMMA BlankType == Blank \in Reports /\ ZeroSlots \in [Slots -> Reports] /\ 0 \in Slots
BY MaxEntriesAssumption, MaxReportsAssumption DEF Blank, Reports, ZeroSlots, Slots

LEMMA NoFileSound == FileSound(NoFile) /\ FileSound(HeaderlessFile)
<1>1. /\ NoFile \in FileType /\ HeaderlessFile \in FileType
  BY BlankType, MaxEntriesAssumption
     DEF NoFile, HeaderlessFile, FileType, FileStates
<1>2. TailMatches(0, 0, 0)
  BY BlankType, SlotOfHead DEF TailMatches
<1>3. \A e, newest : Ordered(e, 0, 0) /\ Known(e, 0, 0, newest)
  BY DEF Ordered, Known
<1>4. /\ NoFile.head = 0 /\ NoFile.tail = 0 /\ NoFile.count = 0
      /\ HeaderlessFile.head = 0 /\ HeaderlessFile.tail = 0 /\ HeaderlessFile.count = 0
  BY DEF NoFile, HeaderlessFile
<1>5. QED
  BY <1>1, <1>2, <1>3, <1>4 DEF FileSound

(* However much of the array a save gets to write, the file is sound.       *)
LEMMA FileUpToSound ==
  ASSUME TypeOK, CacheInv, NEW n \in 0 .. MaxEntries
  PROVE  FileSound(FileUpTo(n))
<1> DEFINE f == [i \in Slots |-> IF i < n THEN entries[i] ELSE Blank]
<1>1. f \in [Slots -> Reports]
  BY BlankType DEF TypeOK
<1>2. FileUpTo(n) \in FileType
  BY <1>1 DEF FileUpTo, FileType, FileStates, TypeOK
<1>3. \A i \in Slots : f[i] = entries[i] \/ f[i] = Blank
  OBVIOUS
<1>4. /\ FileUpTo(n).entries = f /\ FileUpTo(n).head = head
      /\ FileUpTo(n).tail = tail /\ FileUpTo(n).count = count
  BY DEF FileUpTo
<1>5. /\ entries \in [Slots -> Nat] /\ f \in [Slots -> Nat]
      /\ head \in Slots /\ count \in 0 .. MaxEntries /\ pushed \in Nat
  BY <1>1, MaxReportsAssumption DEF TypeOK, Reports, Blank
<1> HIDE DEF f
<1>6. Ordered(f, head, count) /\ Known(f, head, count, pushed)
  BY <1>3, <1>5, BlankSome DEF CacheInv, OldestFirst, NothingFromTheFuture
<1>7. QED
  BY <1>2, <1>4, <1>6 DEF FileSound, CacheInv, IndicesAgree

(* A complete save repeats memory.                                          *)
LEMMA WholeFile ==
  ASSUME TypeOK
  PROVE  /\ IsWhole(FileUpTo(MaxEntries))
         /\ FileUpTo(MaxEntries).entries = entries
         /\ FileUpTo(MaxEntries).head = head
         /\ FileUpTo(MaxEntries).count = count
<1>1. \A i \in Slots : i < MaxEntries
  BY MaxEntriesAssumption DEF Slots
<1>2. [i \in Slots |-> IF i < MaxEntries THEN entries[i] ELSE Blank] = entries
  BY <1>1 DEF TypeOK
<1>3. QED
  BY <1>2 DEF FileUpTo, IsWhole

(* Every file a save or a crash during one may leave behind is sound.       *)
LEMMA TornFileSound ==
  ASSUME TypeOK, CacheInv, NEW f \in TornFiles
  PROVE  FileSound(f)
<1>1. CASE f = HeaderlessFile
  BY <1>1, NoFileSound
<1>2. CASE f # HeaderlessFile
  <2>1. PICK n \in 0 .. MaxEntries - 1 : f = FileUpTo(n)
    BY <1>2 DEF TornFiles
  <2>2. n \in 0 .. MaxEntries
    BY MaxEntriesAssumption
  <2>3. QED
    BY <2>1, <2>2, FileUpToSound
<1>3. QED
  BY <1>1, <1>2

LEMMA OldFileSound == TypeOK /\ CacheInv => FileSound(file)
BY DEF FileSound, TypeOK, CacheInv, IndicesAgree, OldestFirst, NothingFromTheFuture

LEMMA SavedFileSound ==
  ASSUME TypeOK, CacheInv, SaveToFile
  PROVE  FileSound(file') /\ saveFailed' \in BOOLEAN
<1>1. CASE file' = FileUpTo(MaxEntries) /\ UNCHANGED saveFailed
  <2>1. MaxEntries \in 0 .. MaxEntries
    BY MaxEntriesAssumption
  <2>2. QED
    BY <1>1, <2>1, FileUpToSound DEF TypeOK
<1>2. CASE file' \in TornFiles \cup {file} /\ saveFailed' = TRUE
  BY <1>2, TornFileSound, OldFileSound
<1>3. QED
  BY <1>1, <1>2 DEF SaveToFile

-----------------------------------------------------------------------------
(* An empty ring satisfies everything that is said of a ring.               *)
LEMMA EmptyRing ==
  ASSUME NEW e, NEW n
  PROVE  /\ TailMatches(0, 0, 0) /\ Ordered(e, 0, 0)
         /\ Known(e, 0, 0, n) /\ Fresh(e, 0, 0, n)
BY BlankType, SlotOfHead DEF TailMatches, Ordered, Known, Fresh

LEMMA NoFileFields ==
  /\ NoFile.count = 0 /\ NoFile.head = 0 /\ NoFile.tail = 0
  /\ ~IsWhole(NoFile) /\ NoFile.state # "header"
BY DEF NoFile, IsWhole

LEMMA FreshMeans ==
  NothingReplayed <=> /\ phase = "up" => ~IsWhole(file)
                      /\ ~saveFailed => Fresh(entries, head, count, sent)
BY DEF NothingReplayed, Fresh

(* The first start of the first process.                                    *)
LEMMA InitInv == Init => TypeOK /\ CacheInv
<1> SUFFICES ASSUME Init PROVE TypeOK /\ CacheInv
  OBVIOUS
<1>1. file \in FileType /\ entries \in [Slots -> Reports] /\ sent \in Reports
  BY BlankType, NoFileSound DEF Init, FileSound
<1>2. head \in Slots /\ tail \in Slots /\ count \in 0 .. MaxEntries /\ pushed \in 0 .. MaxReports
  BY BlankType, MaxEntriesAssumption, MaxReportsAssumption DEF Init
<1>3. TypeOK
  BY <1>1, <1>2 DEF Init, TypeOK
<1>4. CacheInv
  BY EmptyRing, NoFileFields, FreshMeans
     DEF Init, CacheInv, IndicesAgree, OldestFirst, NothingFromTheFuture,
         FileIsFresh, EmptyWhileDown, FileRepeatsMemory, Blank
<1>5. QED
  BY <1>3, <1>4

(* A start brings the file's ring into memory, or finds none.               *)
LEMMA CacheInitInv ==
  ASSUME TypeOK, CacheInv, CacheInit
  PROVE  TypeOK' /\ CacheInv'
<1> USE DEF CacheInit
<1>1. /\ count' \in 0 .. MaxEntries /\ head' \in Slots /\ tail' \in Slots
      /\ entries' \in [Slots -> Reports]
  BY DEF LoadFromFile, TypeOK, FileType, memory
<1>2. FileSound(file)
  BY OldFileSound
<1>3. FileSound(file')
  BY <1>2, NoFileSound DEF LoadFromFile
<1>4. /\ TailMatches(head', tail', count') /\ Ordered(entries', head', count')
      /\ Known(entries', head', count', pushed)
  BY <1>2 DEF LoadFromFile, memory, FileSound, CacheInv, IndicesAgree,
              OldestFirst, NothingFromTheFuture
<1>5. ~saveFailed => /\ Fresh(entries', head', count', sent)
                     /\ file' = NoFile
  BY FreshMeans, NoFileFields DEF LoadFromFile, memory, CacheInv, FileIsFresh, IsWhole
<1>6. ~IsWhole(file')
  BY NoFileFields DEF LoadFromFile
<1>7. Fresh(NoFile.entries, NoFile.head, NoFile.count, sent)
  BY NoFileFields, EmptyRing
<1>8. TypeOK'
  BY <1>1, <1>3 DEF TypeOK, FileSound
<1>9. QED
  BY <1>3, <1>4, <1>5, <1>6, <1>7, <1>8, FreshMeans
     DEF CacheInv, IndicesAgree, OldestFirst, NothingReplayed, Fresh,
         NothingFromTheFuture, FileIsFresh, EmptyWhileDown, FileRepeatsMemory, FileSound

(* What was fresh stays fresh when the oldest goes or a new report comes.   *)
LEMMA DropOldestFresh ==
  ASSUME NEW e \in [Slots -> Nat], NEW h \in Slots, NEW c \in 1 .. MaxEntries,
         NEW last \in Nat, Fresh(e, h, c, last)
  PROVE  Fresh(e, NextSlot(h), c - 1, last)
<1>1. \A i \in 0 .. (c - 1) - 1 : /\ i + 1 \in 0 .. c - 1
                                  /\ SlotOf(NextSlot(h), i) = SlotOf(h, i + 1)
  BY MaxEntriesAssumption, SlotAfterDrop
<1>2. QED
  BY <1>1 DEF Fresh

LEMMA AddNewestFresh ==
  ASSUME NEW e \in [Slots -> Nat], NEW h \in Slots, NEW c \in 0 .. MaxEntries - 1,
         NEW newest \in Nat, NEW last \in Nat, last <= newest, Fresh(e, h, c, last)
  PROVE  Fresh([e EXCEPT ![SlotOf(h, c)] = newest + 1], h, c + 1, last)
<1> DEFINE f == [e EXCEPT ![SlotOf(h, c)] = newest + 1]
<1>1. ASSUME NEW i \in 0 .. c
      PROVE  f[SlotOf(h, i)] = IF i = c THEN newest + 1 ELSE e[SlotOf(h, i)]
  <2>1. newest + 1 \in Nat
    OBVIOUS
  <2>2. QED
    BY <2>1, EntryAfterAdd
<1> HIDE DEF f
<1>2. Fresh(f, h, c + 1, last)
  BY <1>1 DEF Fresh, Blank
<1>3. QED
  BY <1>2 DEF f

(* Once room is made, a push adds behind the rest.                          *)
LEMMA PushInv ==
  ASSUME TypeOK, CacheInv, Push
  PROVE  TypeOK' /\ CacheInv'
<1> DEFINE full == count >= MaxEntries
           h == IF full THEN NextSlot(head) ELSE head
           c == IF full THEN count - 1 ELSE count
<1>1. /\ head' = h /\ count' = c + 1 /\ tail' = NextSlot(tail)
      /\ entries' = [entries EXCEPT ![tail] = pushed + 1]
      /\ pushed' = pushed + 1 /\ pushed < MaxReports
      /\ phase = "up" /\ phase' = "up"
      /\ file' = file /\ sent' = sent /\ saveFailed' = saveFailed
  BY DEF Push
<1>2. /\ entries \in [Slots -> Nat] /\ head \in Slots /\ tail \in Slots
      /\ count \in 0 .. MaxEntries /\ pushed \in Nat /\ sent \in Nat
  BY MaxReportsAssumption DEF TypeOK, Reports, Blank
<1>3. /\ TailMatches(head, tail, count) /\ Ordered(entries, head, count)
      /\ Known(entries, head, count, pushed) /\ sent <= pushed
      /\ ~saveFailed => Fresh(entries, head, count, sent)
  BY FreshMeans DEF CacheInv, IndicesAgree, OldestFirst, NothingFromTheFuture
<1>4. h \in Slots /\ c \in 0 .. MaxEntries - 1
  BY <1>2, MaxEntriesAssumption, NextSlotType
<1>5. /\ TailMatches(h, tail, c) /\ Ordered(entries, h, c)
      /\ Known(entries, h, c, pushed)
      /\ ~saveFailed => Fresh(entries, h, c, sent)
  <2>1. CASE full
    <3>1. count \in 1 .. MaxEntries
      BY <1>2, <2>1, MaxEntriesAssumption
    <3>2. QED
      BY <1>2, <1>3, <2>1, <3>1, DropOldest, DropOldestFresh
  <2>2. CASE ~full
    BY <1>3, <2>2
  <2>3. QED
    BY <2>1, <2>2
<1> HIDE DEF h, c
<1>6. tail = SlotOf(h, c)
  BY <1>5 DEF TailMatches
<1>7. /\ TailMatches(h, tail', c + 1) /\ Ordered(entries', h, c + 1)
      /\ Known(entries', h, c + 1, pushed + 1)
  BY <1>1, <1>2, <1>4, <1>5, <1>6, AddNewest
<1>8. ~saveFailed => Fresh(entries', h, c + 1, sent)
  BY <1>1, <1>2, <1>3, <1>4, <1>5, <1>6, AddNewestFresh
<1>9. TypeOK'
  <2>1. pushed + 1 \in Reports /\ pushed + 1 \in 0 .. MaxReports
    BY <1>1, <1>2, MaxReportsAssumption DEF Reports, Blank
  <2>2. entries' \in [Slots -> Reports]
    BY <1>1, <2>1 DEF TypeOK
  <2>3. tail' \in Slots
    BY <1>1, <1>2, NextSlotType
  <2>4. c + 1 \in 0 .. MaxEntries
    BY <1>4, MaxEntriesAssumption
  <2>5. QED
    BY <1>1, <1>4, <2>1, <2>2, <2>3, <2>4 DEF TypeOK
<1>10. Known(file.entries, file.head, file.count, pushed + 1)
  <2>1. /\ file.entries \in [Slots -> Nat] /\ file.head \in Slots
        /\ file.count \in 0 .. MaxEntries
    BY DEF TypeOK, FileType, Reports, Blank
  <2>2. \A i \in 0 .. file.count - 1 : SlotOf(file.head, i) \in Slots
    BY <2>1, MaxEntriesAssumption, SlotOfType
  <2>3. \A i \in 0 .. file.count - 1 :
          /\ file.entries[SlotOf(file.head, i)] \in Nat
          /\ file.entries[SlotOf(file.head, i)] <= pushed
    BY <2>1, <2>2 DEF CacheInv, NothingFromTheFuture, Known
  <2>4. QED
    BY <1>2, <2>3 DEF Known
<1>11. NothingFromTheFuture' /\ IndicesAgree' /\ OldestFirst'
  BY <1>1, <1>2, <1>3, <1>7, <1>10
     DEF NothingFromTheFuture, IndicesAgree, OldestFirst, CacheInv
<1>12. NothingReplayed'
  BY <1>1, <1>8, FreshMeans DEF NothingReplayed, Fresh, CacheInv
<1>13. FileIsFresh' /\ EmptyWhileDown' /\ FileRepeatsMemory'
  BY <1>1 DEF FileIsFresh, EmptyWhileDown, FileRepeatsMemory, CacheInv
<1>14. QED
  BY <1>9, <1>11, <1>12, <1>13 DEF CacheInv

(* The oldest report is handed out, and all that stay are newer.            *)
LEMMA PopInv ==
  ASSUME TypeOK, CacheInv, Pop
  PROVE  TypeOK' /\ CacheInv'
<1> DEFINE first == entries[head]
<1>1. /\ head' = NextSlot(head) /\ count' = count - 1
      /\ sent' = Later(first, sent)
      /\ phase = "up" /\ phase' = "up" /\ count > 0
      /\ entries' = entries /\ tail' = tail /\ file' = file
      /\ pushed' = pushed /\ saveFailed' = saveFailed
  BY DEF Pop
<1>2. /\ entries \in [Slots -> Nat] /\ head \in Slots
      /\ count \in 1 .. MaxEntries /\ pushed \in Nat /\ sent \in Nat
  BY <1>1, MaxReportsAssumption, MaxEntriesAssumption DEF TypeOK, Reports, Blank
<1>3. /\ TailMatches(head, tail, count) /\ Ordered(entries, head, count)
      /\ Known(entries, head, count, pushed) /\ sent <= pushed
  BY DEF CacheInv, IndicesAgree, OldestFirst, NothingFromTheFuture
<1>4. /\ TailMatches(head', tail, count') /\ Ordered(entries, head', count')
      /\ Known(entries, head', count', pushed)
  BY <1>1, <1>2, <1>3, DropOldest
<1>5. 0 \in 0 .. count - 1 /\ SlotOf(head, 0) = head
  BY <1>2, SlotOfHead
<1>6. first \in Nat /\ first <= pushed /\ first \in Reports
  BY <1>2, <1>3, <1>5 DEF Known, TypeOK
<1>7. sent' \in Nat /\ sent' <= pushed /\ sent' \in Reports
  BY <1>1, <1>2, <1>3, <1>6 DEF Later, TypeOK
<1>8. ~saveFailed => Fresh(entries, head', count', sent')
  <2> SUFFICES ASSUME ~saveFailed, NEW i \in 0 .. (count - 1) - 1
               PROVE  /\ entries[SlotOf(NextSlot(head), i)] # Blank
                      /\ entries[SlotOf(NextSlot(head), i)] > sent'
    BY <1>1 DEF Fresh
  <2>1. i + 1 \in 0 .. count - 1 /\ 0 < i + 1 /\ i \in 0 .. MaxEntries - 1
    BY <1>2, MaxEntriesAssumption
  <2>2. SlotOf(NextSlot(head), i) = SlotOf(head, i + 1)
    BY <1>2, <2>1, SlotAfterDrop
  <2>3. \A j \in 0 .. count - 1 : entries[SlotOf(head, j)] # Blank /\ entries[SlotOf(head, j)] > sent
    BY FreshMeans DEF CacheInv, Fresh
  <2>4. first < entries[SlotOf(head, i + 1)]
    BY <1>3, <1>5, <2>1, <2>3 DEF Ordered
  <2>5. QED
    BY <1>1, <2>1, <2>2, <2>3, <2>4 DEF Later
<1>9. TypeOK'
  <2>1. head' \in Slots /\ count' \in 0 .. MaxEntries
    BY <1>1, <1>2, NextSlotType, MaxEntriesAssumption
  <2>2. QED
    BY <1>1, <1>7, <2>1 DEF TypeOK
<1>10. ~saveFailed => file = NoFile
  BY <1>1 DEF CacheInv, FileIsFresh, NothingReplayed
<1>11. FileIsFresh' /\ EmptyWhileDown' /\ FileRepeatsMemory'
  BY <1>1, <1>10, EmptyRing, NoFileFields DEF FileIsFresh, EmptyWhileDown, FileRepeatsMemory
<1>12. NothingFromTheFuture' /\ IndicesAgree' /\ OldestFirst'
  BY <1>1, <1>4, <1>7
     DEF NothingFromTheFuture, IndicesAgree, OldestFirst, CacheInv
<1>13. NothingReplayed'
  BY <1>1, <1>8 DEF NothingReplayed, Fresh, CacheInv
<1>14. QED
  BY <1>9, <1>11, <1>12, <1>13 DEF CacheInv

(* data_cache_clear forgets memory and file together.                       *)
LEMMA ClearInv ==
  ASSUME TypeOK, CacheInv, Clear
  PROVE  TypeOK' /\ CacheInv'
<1>1. /\ head' = 0 /\ tail' = 0 /\ count' = 0 /\ file' = NoFile
      /\ entries' = entries /\ phase = "up" /\ phase' = "up"
      /\ pushed' = pushed /\ sent' = sent /\ saveFailed' = saveFailed
  BY DEF Clear
<1>2. TypeOK'
  <2>1. 0 \in 0 .. MaxEntries
    BY MaxEntriesAssumption
  <2>2. QED
    BY <1>1, <2>1, BlankType, NoFileSound DEF TypeOK, FileSound
<1>3. NothingFromTheFuture' /\ IndicesAgree' /\ OldestFirst'
  BY <1>1, EmptyRing, NoFileFields
     DEF NothingFromTheFuture, IndicesAgree, OldestFirst, CacheInv
<1>4. FileIsFresh' /\ EmptyWhileDown' /\ FileRepeatsMemory'
  BY <1>1, EmptyRing, NoFileFields DEF FileIsFresh, EmptyWhileDown, FileRepeatsMemory
<1>5. NothingReplayed'
  BY <1>1, EmptyRing, NoFileFields DEF NothingReplayed, Fresh
<1>6. QED
  BY <1>2, <1>3, <1>4, <1>5 DEF CacheInv

(* A save that does not fail leaves memory's own ring in the file.          *)
LEMMA GoodSave ==
  ASSUME TypeOK, CacheInv, SaveToFile, ~saveFailed'
  PROVE  /\ ~saveFailed /\ IsWhole(file')
         /\ file'.entries = entries /\ file'.head = head /\ file'.count = count
         /\ Fresh(file'.entries, file'.head, file'.count, sent)
<1>1. file' = FileUpTo(MaxEntries) /\ ~saveFailed
  BY DEF SaveToFile
<1>2. Fresh(entries, head, count, sent)
  BY <1>1, FreshMeans DEF CacheInv
<1>3. QED
  BY <1>1, <1>2, WholeFile

(* main's own save.                                                         *)
LEMMA SaveInv ==
  ASSUME TypeOK, CacheInv, Save
  PROVE  TypeOK' /\ CacheInv'
<1>1. /\ head' = head /\ tail' = tail /\ count' = count /\ entries' = entries
      /\ phase' = "saved" /\ pushed' = pushed /\ sent' = sent /\ SaveToFile
  BY DEF Save, memory, history
<1>2. FileSound(file') /\ saveFailed' \in BOOLEAN
  BY <1>1, SavedFileSound
<1>3. TypeOK'
  BY <1>1, <1>2 DEF TypeOK, FileSound
<1>4. NothingFromTheFuture' /\ IndicesAgree' /\ OldestFirst'
  BY <1>1, <1>2 DEF NothingFromTheFuture, IndicesAgree, OldestFirst, CacheInv, FileSound
<1>5. FileIsFresh' /\ EmptyWhileDown' /\ FileRepeatsMemory'
  BY <1>1, GoodSave DEF FileIsFresh, EmptyWhileDown, FileRepeatsMemory
<1>6. NothingReplayed'
  BY <1>1, GoodSave DEF NothingReplayed, CacheInv
<1>7. QED
  BY <1>3, <1>4, <1>5, <1>6 DEF CacheInv

(* The memory of a process that is gone is empty.                           *)
LEMMA VanishedRing ==
  ASSUME TypeOK, CacheInv, Vanish, FileSound(file'), saveFailed' \in BOOLEAN
  PROVE  /\ TypeOK' /\ IndicesAgree' /\ OldestFirst' /\ NothingFromTheFuture'
         /\ NothingReplayed' /\ EmptyWhileDown' /\ FileRepeatsMemory'
<1>1. /\ head' = 0 /\ tail' = 0 /\ count' = 0 /\ entries' = ZeroSlots
      /\ phase' = "down" /\ pushed' = pushed /\ sent' = sent
  BY DEF Vanish, history
<1>2. TypeOK'
  <2>1. 0 \in 0 .. MaxEntries
    BY MaxEntriesAssumption
  <2>2. QED
    BY <1>1, <2>1, BlankType DEF TypeOK, FileSound
<1>3. NothingFromTheFuture' /\ IndicesAgree' /\ OldestFirst'
  BY <1>1, EmptyRing
     DEF NothingFromTheFuture, IndicesAgree, OldestFirst, CacheInv, FileSound
<1>4. NothingReplayed' /\ EmptyWhileDown' /\ FileRepeatsMemory'
  BY <1>1 DEF NothingReplayed, EmptyWhileDown, FileRepeatsMemory
<1>5. QED
  BY <1>2, <1>3, <1>4

(* The second save and the end of the process.                              *)
LEMMA CleanupInv ==
  ASSUME TypeOK, CacheInv, Cleanup
  PROVE  TypeOK' /\ CacheInv'
<1>1. SaveToFile /\ Vanish /\ sent' = sent
  BY DEF Cleanup, Vanish, history
<1>2. FileSound(file') /\ saveFailed' \in BOOLEAN
  BY <1>1, SavedFileSound
<1>3. FileIsFresh'
  BY <1>1, GoodSave DEF FileIsFresh
<1>4. QED
  BY <1>1, <1>2, <1>3, VanishedRing DEF CacheInv

(* A crash leaves the file it found, or a torn one and a failed save.       *)
LEMMA CrashInv ==
  ASSUME TypeOK, CacheInv, Crash
  PROVE  TypeOK' /\ CacheInv'
<1>1. Vanish /\ sent' = sent
  BY DEF Crash, Vanish, history
<1>2. /\ FileSound(file') /\ saveFailed' \in BOOLEAN
      /\ (file' = file /\ saveFailed' = saveFailed) \/ saveFailed'
  BY OldFileSound, TornFileSound DEF Crash, TypeOK
<1>3. FileIsFresh'
  BY <1>1, <1>2 DEF FileIsFresh, CacheInv
<1>4. QED
  BY <1>1, <1>2, <1>3, VanishedRing DEF CacheInv

(* Every step keeps the invariant.                                          *)
LEMMA InvStep ==
  ASSUME TypeOK, CacheInv, [Next]_vars
  PROVE  TypeOK' /\ CacheInv'
<1>1. CASE CacheInit
  BY <1>1, CacheInitInv
<1>2. CASE Push
  BY <1>2, PushInv
<1>3. CASE Pop
  BY <1>3, PopInv
<1>4. CASE Clear
  BY <1>4, ClearInv
<1>5. CASE Save
  BY <1>5, SaveInv
<1>6. CASE Cleanup
  BY <1>6, CleanupInv
<1>7. CASE Crash
  BY <1>7, CrashInv
<1>8. CASE UNCHANGED vars
  <2>1. /\ entries' = entries /\ head' = head /\ tail' = tail /\ count' = count
        /\ phase' = phase /\ file' = file /\ pushed' = pushed /\ sent' = sent
        /\ saveFailed' = saveFailed
    BY <1>8 DEF vars, memory, history
  <2>2. TypeOK'
    BY <2>1 DEF TypeOK
  <2>3. QED
    BY <2>1, <2>2 DEF CacheInv, IndicesAgree, OldestFirst, NothingReplayed,
      NothingFromTheFuture, FileIsFresh, EmptyWhileDown, FileRepeatsMemory
<1>9. QED
  BY <1>1, <1>2, <1>3, <1>4, <1>5, <1>6, <1>7, <1>8 DEF Next

-----------------------------------------------------------------------------
(* In every state the program reaches.                                      *)
LEMMA InvAlways == Spec => [](TypeOK /\ CacheInv)
<1>1. Init => TypeOK /\ CacheInv
  BY InitInv
<1>2. (TypeOK /\ CacheInv) /\ [Next]_vars => (TypeOK /\ CacheInv)'
  BY InvStep
<1>3. QED
  BY <1>1, <1>2, PTL DEF Spec

(* The ring, the file and the counters always have their types; head, tail  *)
(* and count stay inside the ring in memory and in any file left behind.    *)
THEOREM TypeCorrect == Spec => []TypeOK
BY InvAlways, PTL

(* tail is count slots after head, in memory and in every header: whatever  *)
(* was lost of a file, load_from_file yields indices that agree.            *)
THEOREM IndicesAlwaysAgree == Spec => []IndicesAgree
<1>1. TypeOK /\ CacheInv => IndicesAgree
  BY DEF CacheInv
<1>2. QED
  BY <1>1, InvAlways, PTL

(* The reports stand in the order they were pushed, over any sequence of    *)
(* overflows, crashes, torn files and restarts.                             *)
THEOREM OrderPreserved == Spec => []OldestFirst
<1>1. TypeOK /\ CacheInv => OldestFirst
  BY DEF CacheInv
<1>2. QED
  BY <1>1, InvAlways, PTL

(* A running cache never has a whole file beside it, and until a save fails *)
(* nothing that was popped waits in the cache again.                        *)
THEOREM NoReplay == Spec => []NothingReplayed
<1>1. TypeOK /\ CacheInv => NothingReplayed
  BY DEF CacheInv
<1>2. QED
  BY <1>1, InvAlways, PTL

-----------------------------------------------------------------------------
(***************************************************************************)
(* The refinement.  The backlog as a sequence, and what the ring's two      *)
(* moves do to it.                                                          *)
(***************************************************************************)
LEMMA BacklogSeq ==
  ASSUME NEW e \in [Slots -> Nat], NEW h \in Slots, NEW c \in 0 .. MaxEntries
  PROVE  /\ Backlog(e, h, c) \in Seq(Nat)
         /\ Len(Backlog(e, h, c)) = c
         /\ \A i \in 1 .. c : Backlog(e, h, c)[i] = e[SlotOf(h, i - 1)]
<1>1. \A i \in 1 .. c : SlotOf(h, i - 1) \in Slots
  BY MaxEntriesAssumption, SlotOfType
<1>2. \A i \in 1 .. c : e[SlotOf(h, i - 1)] \in Nat
  BY <1>1
<1>3. c \in Nat
  BY MaxEntriesAssumption
<1>4. QED
  BY <1>2, <1>3 DEF Backlog

LEMMA BacklogDrop ==
  ASSUME NEW e \in [Slots -> Nat], NEW h \in Slots, NEW c \in 1 .. MaxEntries
  PROVE  /\ Backlog(e, h, c) # <<>>
         /\ Backlog(e, NextSlot(h), c - 1) = Tail(Backlog(e, h, c))
<1> DEFINE s == Backlog(e, h, c)
           r == Backlog(e, NextSlot(h), c - 1)
<1>1. /\ c \in 0 .. MaxEntries /\ c - 1 \in 0 .. MaxEntries /\ c \in Nat /\ c > 0
      /\ NextSlot(h) \in Slots
  BY MaxEntriesAssumption, NextSlotType
<1>2. /\ s \in Seq(Nat) /\ Len(s) = c
      /\ \A i \in 1 .. c : s[i] = e[SlotOf(h, i - 1)]
  BY <1>1, BacklogSeq
<1>3. /\ r \in Seq(Nat) /\ Len(r) = c - 1
      /\ \A i \in 1 .. c - 1 : r[i] = e[SlotOf(NextSlot(h), i - 1)]
  BY <1>1, BacklogSeq
<1>4. \A i \in 1 .. c - 1 : SlotOf(NextSlot(h), i - 1) = SlotOf(h, (i + 1) - 1)
  <2> SUFFICES ASSUME NEW i \in 1 .. c - 1
               PROVE  SlotOf(NextSlot(h), i - 1) = SlotOf(h, (i + 1) - 1)
    OBVIOUS
  <2>1. i - 1 \in 0 .. MaxEntries - 1 /\ (i - 1) + 1 = (i + 1) - 1
    BY MaxEntriesAssumption
  <2>2. QED
    BY <2>1, SlotAfterDrop
<1> HIDE DEF s, r
<1>5. s # <<>>
  BY <1>1, <1>2
<1>6. Tail(s) \in Seq(Nat) /\ Len(Tail(s)) = c - 1
  BY <1>1, <1>2, <1>5
<1>7. \A i \in 1 .. c - 1 : Tail(s)[i] = s[i + 1]
  BY <1>1, <1>2, <1>5
<1>8. ASSUME NEW i \in 1 .. c - 1
      PROVE  r[i] = Tail(s)[i]
  <2>1. i + 1 \in 1 .. c
    BY <1>1
  <2>2. Tail(s)[i] = e[SlotOf(h, (i + 1) - 1)]
    BY <1>2, <1>7, <2>1
  <2>3. QED
    BY <1>3, <1>4, <2>2
<1>9. r = Tail(s)
  BY <1>3, <1>6, <1>8, SeqEqual
<1>10. QED
  BY <1>5, <1>9 DEF s, r

LEMMA BacklogAdd ==
  ASSUME NEW e \in [Slots -> Nat], NEW h \in Slots, NEW c \in 0 .. MaxEntries - 1,
         NEW v \in Nat
  PROVE  Backlog([e EXCEPT ![SlotOf(h, c)] = v], h, c + 1) = Append(Backlog(e, h, c), v)
<1> DEFINE f == [e EXCEPT ![SlotOf(h, c)] = v]
           s == Backlog(e, h, c)
           r == Backlog(f, h, c + 1)
<1>0. f \in [Slots -> Nat]
  OBVIOUS
<1>1. /\ c \in 0 .. MaxEntries /\ c + 1 \in 0 .. MaxEntries /\ c \in Nat
      /\ f \in [Slots -> Nat]
  BY <1>0, MaxEntriesAssumption
<1>2. ASSUME NEW i \in 0 .. c
      PROVE  f[SlotOf(h, i)] = IF i = c THEN v ELSE e[SlotOf(h, i)]
  BY EntryAfterAdd
<1> HIDE DEF f
<1>3. /\ s \in Seq(Nat) /\ Len(s) = c
      /\ \A i \in 1 .. c : s[i] = e[SlotOf(h, i - 1)]
  BY <1>1, BacklogSeq
<1>4. /\ r \in Seq(Nat) /\ Len(r) = c + 1
      /\ \A i \in 1 .. c + 1 : r[i] = f[SlotOf(h, i - 1)]
  BY <1>1, BacklogSeq
<1> HIDE DEF s, r
<1>5. /\ Append(s, v) \in Seq(Nat) /\ Len(Append(s, v)) = c + 1
      /\ \A i \in 1 .. c + 1 : Append(s, v)[i] = IF i = c + 1 THEN v ELSE s[i]
  BY <1>1, <1>3
<1>6. \A i \in 1 .. c + 1 : r[i] = Append(s, v)[i]
  <2> SUFFICES ASSUME NEW i \in 1 .. c + 1
               PROVE  r[i] = Append(s, v)[i]
    OBVIOUS
  <2>1. i - 1 \in 0 .. c
    BY <1>1
  <2>2. r[i] = IF i - 1 = c THEN v ELSE e[SlotOf(h, i - 1)]
    BY <1>2, <1>4, <2>1
  <2>3. Append(s, v)[i] = IF i = c + 1 THEN v ELSE s[i]
    BY <1>5
  <2>4. CASE i = c + 1
    BY <1>1, <2>2, <2>3, <2>4
  <2>5. CASE i # c + 1
    <3>1. i \in 1 .. c /\ i - 1 # c
      BY <1>1, <2>5
    <3>2. s[i] = e[SlotOf(h, i - 1)]
      BY <1>3, <3>1
    <3>3. QED
      BY <2>2, <2>3, <2>5, <3>1, <3>2
  <2>6. QED
    BY <2>4, <2>5
<1>7. r = Append(s, v)
  BY <1>4, <1>5, <1>6, SeqEqual
<1>8. QED
  BY <1>7 DEF r, s, f

(* No process, no file: nothing waits.                                      *)
LEMMA BacklogEmpty ==
  ASSUME NEW e, NEW h
  PROVE  Backlog(e, h, 0) = <<>>
BY DEF Backlog

-----------------------------------------------------------------------------
(* What waits in memory, while a process runs.                              *)
LEMMA WaitingUp ==
  ASSUME TypeOK, phase # "down"
  PROVE  /\ Waiting = Backlog(entries, head, count)
         /\ Len(Waiting) = count
<1>1. /\ entries \in [Slots -> Nat] /\ head \in Slots /\ count \in 0 .. MaxEntries
  BY DEF TypeOK, Reports, Blank
<1>2. QED
  BY <1>1, BacklogSeq DEF Waiting

(* A push adds behind the backlog, and drops its oldest when it is full.    *)
LEMMA PushAdds ==
  ASSUME TypeOK, CacheInv, Push
  PROVE  Fifo!Add
<1> DEFINE full == count >= MaxEntries
           h == IF full THEN NextSlot(head) ELSE head
           c == IF full THEN count - 1 ELSE count
<1>1. /\ head' = h /\ count' = c + 1
      /\ entries' = [entries EXCEPT ![tail] = pushed + 1]
      /\ pushed' = pushed + 1 /\ phase = "up" /\ phase' = "up"
  BY DEF Push
<1>2. /\ entries \in [Slots -> Nat] /\ head \in Slots
      /\ count \in 0 .. MaxEntries /\ pushed \in Nat
  BY MaxReportsAssumption DEF TypeOK, Reports, Blank
<1>3. h \in Slots /\ c \in 0 .. MaxEntries - 1
  BY <1>2, MaxEntriesAssumption, NextSlotType
<1>4. Waiting = Backlog(entries, head, count) /\ Len(Waiting) = count
  BY <1>1, WaitingUp
<1>5. Backlog(entries, h, c) = IF Len(Waiting) < MaxEntries THEN Waiting ELSE Tail(Waiting)
  <2>1. CASE full
    <3>1. count \in 1 .. MaxEntries /\ ~(count < MaxEntries)
      BY <1>2, <2>1, MaxEntriesAssumption
    <3>2. QED
      BY <1>2, <1>4, <2>1, <3>1, BacklogDrop
  <2>2. CASE ~full
    <3>1. count < MaxEntries
      BY <1>2, <2>2, MaxEntriesAssumption
    <3>2. QED
      BY <1>4, <2>2, <3>1
  <2>3. QED
    BY <2>1, <2>2
<1>6. tail = SlotOf(h, c)
  <2>1. TailMatches(head, tail, count)
    BY DEF CacheInv, IndicesAgree
  <2>2. CASE full
    <3>1. count \in 1 .. MaxEntries /\ count - 1 \in 0 .. MaxEntries - 1
      BY <1>2, <2>2, MaxEntriesAssumption
    <3>2. SlotOf(NextSlot(head), count - 1) = SlotOf(head, (count - 1) + 1)
      BY <1>2, <3>1, SlotAfterDrop
    <3>3. (count - 1) + 1 = count
      BY <3>1
    <3>4. QED
      BY <2>1, <2>2, <3>2, <3>3 DEF TailMatches
  <2>3. CASE ~full
    BY <2>1, <2>3 DEF TailMatches
  <2>4. QED
    BY <2>2, <2>3
<1> HIDE DEF h, c
<1>7. Waiting' = Append(Backlog(entries, h, c), pushed + 1)
  <2>1. pushed + 1 \in Nat
    BY <1>2
  <2>2. Backlog([entries EXCEPT ![SlotOf(h, c)] = pushed + 1], h, c + 1)
          = Append(Backlog(entries, h, c), pushed + 1)
    BY <1>2, <1>3, <2>1, BacklogAdd
  <2>3. Waiting' = Backlog(entries', head', count')
    BY <1>1 DEF Waiting
  <2>4. QED
    BY <1>1, <1>6, <2>2, <2>3
<1>8. QED
  BY <1>1, <1>5, <1>7 DEF Fifo!Add

(* A pop takes the oldest of the backlog.                                   *)
LEMMA PopTakes ==
  ASSUME TypeOK, CacheInv, Pop
  PROVE  Fifo!Take
<1>1. /\ head' = NextSlot(head) /\ count' = count - 1 /\ entries' = entries
      /\ pushed' = pushed /\ phase = "up" /\ phase' = "up" /\ count > 0
  BY DEF Pop
<1>2. /\ entries \in [Slots -> Nat] /\ head \in Slots /\ count \in 1 .. MaxEntries
  BY <1>1, MaxEntriesAssumption DEF TypeOK, Reports, Blank
<1>3. /\ Waiting = Backlog(entries, head, count)
      /\ Waiting' = Backlog(entries, NextSlot(head), count - 1)
  BY <1>1 DEF Waiting
<1>4. QED
  BY <1>1, <1>2, <1>3, BacklogDrop DEF Fifo!Take

(* data_cache_clear forgets all.                                            *)
LEMMA ClearForgets ==
  ASSUME Clear
  PROVE  Fifo!ForgetAll
BY BacklogEmpty DEF Clear, Waiting, Fifo!ForgetAll

(* A start, a save and an orderly end leave the backlog as it was.          *)
LEMMA CacheInitKeeps ==
  ASSUME TypeOK, CacheInv, CacheInit, ~saveFailed
  PROVE  Waiting' = Waiting
<1>1. /\ phase = "down" /\ phase' = "up" /\ LoadFromFile
  BY DEF CacheInit
<1>2. CASE file.state = "header"
  BY <1>1, <1>2 DEF LoadFromFile, Waiting
<1>3. CASE file.state # "header"
  <2>1. file.count = 0 /\ count' = 0
    BY <1>1, <1>3, NoFileFields
       DEF LoadFromFile, memory, CacheInv, FileIsFresh, IsWhole, EmptyWhileDown
  <2>2. QED
    BY <1>1, <2>1, BacklogEmpty DEF Waiting
<1>4. QED
  BY <1>2, <1>3

LEMMA SaveKeeps ==
  ASSUME Save
  PROVE  Waiting' = Waiting
BY DEF Save, Waiting, memory

LEMMA CleanupKeeps ==
  ASSUME TypeOK, CacheInv, Cleanup, ~saveFailed'
  PROVE  Waiting' = Waiting
BY GoodSave DEF Cleanup, Vanish, Waiting

(* A crash loses the whole backlog, or, when it was already saved, none.    *)
LEMMA CrashForgets ==
  ASSUME TypeOK, CacheInv, Crash, ~saveFailed'
  PROVE  Waiting' = Waiting \/ Waiting' = <<>>
<1>1. file' = file /\ ~saveFailed /\ phase \in {"up", "saved"} /\ phase' = "down"
  BY DEF Crash, Vanish, TypeOK
<1>2. CASE phase = "up"
  <2>1. file = NoFile
    BY <1>1, <1>2 DEF CacheInv, FileIsFresh, NothingReplayed
  <2>2. QED
    BY <1>1, <2>1, NoFileFields, BacklogEmpty DEF Waiting
<1>3. CASE phase = "saved"
  BY <1>1, <1>3 DEF CacheInv, FileRepeatsMemory, Waiting
<1>4. QED
  BY <1>1, <1>2, <1>3

(* Each step of the cache is a step of the FIFO, or changes nothing of it.  *)
LEMMA StepImplements ==
  ASSUME TypeOK, CacheInv, [Next]_vars
  PROVE  [Fifo!FifoNext]_<<Waiting, pushed, saveFailed>>
<1>1. CASE saveFailed'
  BY <1>1 DEF Fifo!FifoNext
<1>2. CASE ~saveFailed'
  <2>1. CASE CacheInit
    BY <1>2, <2>1, CacheInitKeeps DEF CacheInit
  <2>2. CASE Push
    BY <1>2, <2>2, PushAdds DEF Fifo!FifoNext
  <2>3. CASE Pop
    BY <1>2, <2>3, PopTakes DEF Fifo!FifoNext
  <2>4. CASE Clear
    BY <1>2, <2>4, ClearForgets DEF Fifo!FifoNext
  <2>5. CASE Save
    <3>1. saveFailed' = saveFailed /\ pushed' = pushed
      BY <1>2, <2>5 DEF Save, SaveToFile, history
    <3>2. QED
      BY <2>5, <3>1, SaveKeeps
  <2>6. CASE Cleanup
    <3>1. saveFailed' = saveFailed /\ pushed' = pushed
      BY <1>2, <2>6 DEF Cleanup, Vanish, SaveToFile, history
    <3>2. QED
      BY <1>2, <2>6, <3>1, CleanupKeeps
  <2>7. CASE Crash
    <3>1. saveFailed' = saveFailed /\ pushed' = pushed
      BY <1>2, <2>7 DEF Crash, Vanish, history
    <3>2. QED
      BY <1>2, <2>7, <3>1, CrashForgets DEF Fifo!FifoNext, Fifo!ForgetAll
  <2>8. CASE UNCHANGED vars
    BY <2>8 DEF vars, memory, history, Waiting
  <2>9. QED
    BY <2>1, <2>2, <2>3, <2>4, <2>5, <2>6, <2>7, <2>8 DEF Next
<1>3. QED
  BY <1>1, <1>2

(* Ring, file, shutdown and restart together are the FIFO that drops its    *)
(* oldest when full: until a save fails, a crash loses the whole backlog or *)
(* none of it, and nothing else is ever lost, repeated or reordered.        *)
THEOREM CacheImplementsFifo == Spec => ImplementsBacklog
<1>1. Init => Fifo!FifoInit
  BY BacklogEmpty, NoFileFields DEF Init, Waiting, Fifo!FifoInit
<1>2. (TypeOK /\ CacheInv) /\ [Next]_vars => [Fifo!FifoNext]_<<Waiting, pushed, saveFailed>>
  BY StepImplements
<1>3. QED
  BY <1>1, <1>2, InvAlways, PTL DEF Spec, ImplementsBacklog, Fifo!FifoSpec
=============================================================================
