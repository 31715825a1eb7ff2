------------------------------ MODULE DataCache ------------------------------
(***************************************************************************)
(* lesson6/data_cache.c: the ring of telemetry reports that wait for the    *)
(* network, and the file that carries them from one run of mqtt_bridge to   *)
(* the next.  Every function holds g_cache.lock from end to end, so each is *)
(* one action; a crash falls between two of them or inside the writing of   *)
(* the file.                                                                *)
(*                                                                          *)
(* A report is the number of the push that brought it; Blank is what a slot *)
(* of zeroed memory holds (data_len 0, which pop hands out as an empty      *)
(* report).  The 16 bytes of the file's header leave stdio's buffer in one  *)
(* write, so a torn file has all of them or none.                           *)
(***************************************************************************)
EXTENDS Integers

CONSTANTS
  MaxEntries,   \* CACHE_MAX_ENTRIES (100)
  MaxReports,   \* bound on the reports pushed
  SaveMayFail,  \* fopen/fwrite may fail, or a crash may cut a save short
  MayCrash      \* the process may die without the shutdown sequence

ASSUME MaxEntriesAssumption == MaxEntries \in Nat \ {0}
ASSUME MaxReportsAssumption == MaxReports \in Nat
ASSUME FaultAssumption == SaveMayFail \in BOOLEAN /\ MayCrash \in BOOLEAN

VARIABLES
  entries, head, tail, count,  \* g_cache
  phase,      \* "down", "up", or "saved": main is past its own save
  file,       \* /etc/device/telemetry_cache.dat
  pushed,     \* number of the last report pushed
  sent,       \* the highest report popped (Blank: none yet)
  saveFailed  \* some save so far did not write the whole file

memory == <<entries, head, tail, count>>
history == <<pushed, sent>>
vars == <<memory, phase, file, history, saveFailed>>

Slots == 0 .. MaxEntries - 1
Blank == 0
ZeroSlots == [i \in Slots |-> Blank]
NextSlot(i) == (i + 1) % MaxEntries

(***************************************************************************)
(* The file: absent, without a readable header, or a header followed by the *)
(* first "stored" entries of the array.                                     *)
(***************************************************************************)
FileStates == {"absent", "no_header", "header"}
NoFile ==
  [state |-> "absent", count |-> 0, head |-> 0, tail |-> 0,
   entries |-> ZeroSlots, stored |-> 0]
HeaderlessFile == [NoFile EXCEPT !.state = "no_header"]
(* Mutant: the header holds the count, and the reader starts at slot 0.    *)
FileFromZero(n) ==
  [state |-> "header", count |-> count, head |-> 0, tail |-> count % MaxEntries,
   entries |-> [i \in Slots |-> IF i < n THEN entries[i] ELSE Blank],
   stored |-> n]
FileUpTo(n) ==
  [state |-> "header", count |-> count, head |-> head, tail |-> tail,
   entries |-> [i \in Slots |-> IF i < n THEN entries[i] ELSE Blank],
   stored |-> n]

IsWhole(f) == f.state = "header" /\ f.stored = MaxEntries
TornFiles == {HeaderlessFile} \cup {FileUpTo(n) : n \in 0 .. MaxEntries - 1}

Init ==
  /\ entries = ZeroSlots /\ head = 0 /\ tail = 0 /\ count = 0
  /\ phase = "down"
  /\ file = NoFile
  /\ pushed = 0 /\ sent = Blank
  /\ saveFailed = FALSE

-----------------------------------------------------------------------------
(***************************************************************************)
(* load_from_file.  A short file leaves its header and the entries it has   *)
(* in memory and stays on disk; only a complete load removes it.            *)
(***************************************************************************)
(* Mutant: the file stays after a successful load.                         *)
LoadKeepingFile ==
  /\ IF file.state = "header"
     THEN /\ count' = file.count /\ head' = file.head /\ tail' = file.tail
          /\ entries' = file.entries
     ELSE UNCHANGED memory
  /\ UNCHANGED file

LoadFromFile ==
  /\ IF file.state = "header"
     THEN /\ count' = file.count /\ head' = file.head /\ tail' = file.tail
          /\ entries' = file.entries
     ELSE UNCHANGED memory
  /\ file' = IF IsWhole(file) THEN NoFile ELSE file

(* data_cache_init in a fresh process ignores the loader's error return.   *)
CacheInit ==
  /\ phase = "down"
  /\ phase' = "up"
  /\ LoadFromFile
  /\ UNCHANGED <<pushed, sent, saveFailed>>

(* Mutant: nothing keeps count at or below MaxEntries.                      *)
PushUnbounded ==
  /\ phase = "up" /\ pushed < MaxReports
  /\ entries' = [entries EXCEPT ![tail] = pushed + 1]
  /\ tail' = NextSlot(tail)
  /\ count' = count + 1
  /\ pushed' = pushed + 1
  /\ UNCHANGED <<head, phase, file, sent, saveFailed>>

(* Mutant: a full ring keeps its count but not its head in step.           *)
PushNoDrop ==
  /\ phase = "up" /\ pushed < MaxReports
  /\ entries' = [entries EXCEPT ![tail] = pushed + 1]
  /\ tail' = NextSlot(tail)
  /\ count' = IF count < MaxEntries THEN count + 1 ELSE count
  /\ pushed' = pushed + 1
  /\ UNCHANGED <<head, phase, file, sent, saveFailed>>

(* data_cache_push: a full ring first gives up its oldest report.          *)
Push ==
  /\ phase = "up" /\ pushed < MaxReports
  /\ head' = IF count >= MaxEntries THEN NextSlot(head) ELSE head
  /\ count' = (IF count >= MaxEntries THEN count - 1 ELSE count) + 1
  /\ entries' = [entries EXCEPT ![tail] = pushed + 1]
  /\ tail' = NextSlot(tail)
  /\ pushed' = pushed + 1
  /\ UNCHANGED <<phase, file, sent, saveFailed>>

Later(a, b) == IF a > b THEN a ELSE b

(* data_cache_pop on a non-empty ring.                                     *)
Pop ==
  /\ phase = "up" /\ count > 0
  /\ sent' = Later(entries[head], sent)
  /\ head' = NextSlot(head)
  /\ count' = count - 1
  /\ UNCHANGED <<entries, tail, phase, file, pushed, saveFailed>>

(* Mutant: tail is forgotten.                                              *)
ClearKeepingTail ==
  /\ phase = "up"
  /\ head' = 0 /\ count' = 0
  /\ file' = NoFile
  /\ UNCHANGED <<entries, tail, phase, pushed, sent, saveFailed>>

(* data_cache_clear, which the tests call: the file goes too.              *)
Clear ==
  /\ phase = "up"
  /\ head' = 0 /\ tail' = 0 /\ count' = 0
  /\ file' = NoFile
  /\ UNCHANGED <<entries, phase, pushed, sent, saveFailed>>

(***************************************************************************)
(* data_cache_save_to_file opens with "wb", so the old file is gone before  *)
(* the new one is written.  A failing fopen leaves the old file, a failing  *)
(* fwrite a torn one; no caller looks at the result.                        *)
(***************************************************************************)
SaveToFile ==
  \/ file' = FileUpTo(MaxEntries) /\ UNCHANGED saveFailed
  \/ SaveMayFail /\ file' \in TornFiles \cup {file} /\ saveFailed' = TRUE

(* main's shutdown: telemetry is joined, data_cache_save_to_file returns.  *)
Save ==
  /\ phase = "up"
  /\ SaveToFile
  /\ phase' = "saved"
  /\ UNCHANGED <<memory, history>>

(* The process is gone, and its memory with it.                            *)
Vanish ==
  /\ phase' = "down"
  /\ entries' = ZeroSlots /\ head' = 0 /\ tail' = 0 /\ count' = 0
  /\ UNCHANGED history

(* data_cache_cleanup saves once more; the process exits.                  *)
Cleanup ==
  /\ phase = "saved"
  /\ SaveToFile
  /\ Vanish

(* A crash, a kill or a watchdog's exit(1), also half way through a save.  *)
Crash ==
  /\ MayCrash /\ phase # "down"
  /\ \/ UNCHANGED <<file, saveFailed>>
     \/ SaveMayFail /\ file' \in TornFiles /\ saveFailed' = TRUE
  /\ Vanish

Next == CacheInit \/ Push \/ Pop \/ Clear \/ Save \/ Cleanup \/ Crash

Spec == Init /\ [][Next]_vars

-----------------------------------------------------------------------------
Reports == Blank .. MaxReports
FileType ==
  [state : FileStates, count : 0 .. MaxEntries, head : Slots, tail : Slots,
   entries : [Slots -> Reports], stored : 0 .. MaxEntries]

TypeOK ==
  /\ entries \in [Slots -> Reports]
  /\ head \in Slots /\ tail \in Slots /\ count \in 0 .. MaxEntries
  /\ phase \in {"down", "up", "saved"}
  /\ file \in FileType
  /\ pushed \in 0 .. MaxReports
  /\ sent \in Reports
  /\ saveFailed \in BOOLEAN

(* The slot of the i-th oldest report (from 0) of a ring that starts at h. *)
SlotOf(h, i) == (h + i) % MaxEntries

(***************************************************************************)
(* tail is always count slots after head, in memory and in every header the *)
(* file can hold: a load never yields indices that disagree, whatever was   *)
(* lost of the entries behind the header.                                   *)
(***************************************************************************)
TailMatches(h, t, c) == t = SlotOf(h, c)
IndicesAgree ==
  /\ TailMatches(head, tail, count)
  /\ TailMatches(file.head, file.tail, file.count)

(***************************************************************************)
(* The reports in the ring stand in the order they were pushed, whatever    *)
(* crash, torn file or overflow came between: only blanks may stand among   *)
(* them.                                                                    *)
(***************************************************************************)
Ordered(e, h, c) ==
  \A i, j \in 0 .. c - 1 :
    i < j /\ e[SlotOf(h, i)] # Blank /\ e[SlotOf(h, j)] # Blank
      => e[SlotOf(h, i)] < e[SlotOf(h, j)]
OldestFirst == Ordered(entries, head, count) /\ Ordered(file.entries, file.head, file.count)

(***************************************************************************)
(* While every save succeeds, what waits in the cache was never handed out  *)
(* before: reports leave in the order they entered, each at most once, over *)
(* any number of crashes and restarts.  This needs that a running cache and *)
(* a whole file of earlier reports never exist together ("removed after     *)
(* loading, to avoid loading twice"), whatever became of the saves.         *)
(***************************************************************************)
NothingReplayed ==
  /\ phase = "up" => ~IsWhole(file)
  /\ ~saveFailed => \A i \in 0 .. count - 1 :
       entries[SlotOf(head, i)] # Blank /\ entries[SlotOf(head, i)] > sent
=============================================================================
