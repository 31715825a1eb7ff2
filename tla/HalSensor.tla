------------------------------ MODULE HalSensor ------------------------------
(***************************************************************************)
(* Reading the smoke sensor in lesson5/rpc_server/hal.c: the debouncing of  *)
(* its pin and the bookkeeping about a sensor that fails.  Both are static  *)
(* variables without a lock, used by the RPC loop and, while somebody has   *)
(* the web page open, by the HTTP thread.  A step is a statement; count++   *)
(* is a load and a store.                                                   *)
(***************************************************************************)
EXTENDS Integers

CONSTANTS
  FailureThreshold,  \* HAL_SENSOR_FAILURE_THRESHOLD, 5
  RetryInterval      \* HAL_SENSOR_RETRY_INTERVAL, 60 s; here ticks

VARIABLES
  callers,           \* who reads: the RPC loop, or the HTTP thread too
  reading, raw, loaded,   \* each caller's place, value read (1 when done with) and count
                     \* loaded (0 when stored)
  smoke_confirmed_state, smoke_debounce_count,
  status, failure_count,
  sinceFailure,      \* now - last_failure_time
  pin, works,        \* what the sensor says, and whether it can be read
  streak             \* history, if the RPC loop alone reads: reads in a row that
                     \* differ from the confirmed state

halVars == <<callers, reading, raw, loaded, smoke_confirmed_state, smoke_debounce_count,
             status, failure_count, sinceFailure, pin, works, streak>>
debounce == <<smoke_confirmed_state, smoke_debounce_count, streak>>
health == <<status, failure_count, sinceFailure>>
sensor == <<callers, pin, works>>

SmokeThreshold == 3  \* SMOKE_DEBOUNCE_THRESHOLD
AllCallers == {"rpc", "web"}
Upto(n, limit) == IF n < limit THEN n ELSE limit

HalInit ==
  /\ callers \in {{"rpc"}, AllCallers}
  /\ reading = [c \in AllCallers |-> "idle"]
  /\ raw = [c \in AllCallers |-> 1] /\ loaded = [c \in AllCallers |-> 0]
  /\ smoke_confirmed_state = 1 /\ smoke_debounce_count = 0
  /\ status = "UNKNOWN" /\ failure_count = 0 /\ sinceFailure = 0
  /\ pin = 1 /\ works = TRUE /\ streak = 0

Moves(c, from, to) == reading[c] = from /\ reading' = [reading EXCEPT ![c] = to]

(* sensor_should_retry                                                     *)
ShouldRetry == status # "OFFLINE" \/ sinceFailure >= RetryInterval

(* hal_sensor_smoke_digital_read: nothing is read while the sensor is taken *)
(* to be offline.                                                           *)
ReadPin(c) ==
  /\ ShouldRetry
  /\ Moves(c, "idle", IF works THEN "compare" ELSE "failed")
  /\ raw' = [raw EXCEPT ![c] = IF works THEN pin ELSE @]
  /\ streak' = IF ~works \/ callers # {"rpc"} THEN streak
               ELSE IF pin # smoke_confirmed_state THEN Upto(streak + 1, SmokeThreshold)
               ELSE 0
  /\ UNCHANGED <<loaded, smoke_confirmed_state, smoke_debounce_count, health, sensor>>

Refuse(c) ==
  /\ ~ShouldRetry
  /\ Moves(c, "idle", "idle")
  /\ UNCHANGED <<raw, loaded, debounce, health, sensor>>

(* Mutant: a read that agrees does not begin the count anew.               *)
CompareKeepsCount(c) ==
  LET same == raw[c] = smoke_confirmed_state IN
  /\ Moves(c, "compare", IF same THEN "good" ELSE "count")
  /\ loaded' = [loaded EXCEPT ![c] = IF same THEN @ ELSE smoke_debounce_count]
  /\ raw' = [raw EXCEPT ![c] = IF same THEN 1 ELSE @]
  /\ UNCHANGED <<smoke_confirmed_state, smoke_debounce_count, streak, health, sensor>>

Compare(c) ==
  LET same == raw[c] = smoke_confirmed_state IN
  /\ Moves(c, "compare", IF same THEN "good" ELSE "count")
  /\ smoke_debounce_count' = IF same THEN 0 ELSE smoke_debounce_count
  /\ loaded' = [loaded EXCEPT ![c] = IF same THEN @ ELSE smoke_debounce_count]
  /\ raw' = [raw EXCEPT ![c] = IF same THEN 1 ELSE @]
  /\ UNCHANGED <<smoke_confirmed_state, streak, health, sensor>>

(* Two callers can pass a count above the threshold to and fro; four stands *)
(* for all of these.                                                        *)
Count(c) ==
  /\ Moves(c, "count", "test")
  /\ smoke_debounce_count' = Upto(loaded[c] + 1, SmokeThreshold + 1)
  /\ loaded' = [loaded EXCEPT ![c] = 0]
  /\ UNCHANGED <<raw, smoke_confirmed_state, streak, health, sensor>>

Confirm(c) ==
  LET enough == smoke_debounce_count >= SmokeThreshold IN
  /\ Moves(c, "test", "good")
  /\ smoke_confirmed_state' = IF enough THEN raw[c] ELSE smoke_confirmed_state
  /\ smoke_debounce_count' = IF enough THEN 0 ELSE smoke_debounce_count
  /\ streak' = IF smoke_confirmed_state' # smoke_confirmed_state THEN 0 ELSE streak
  /\ raw' = [raw EXCEPT ![c] = 1]
  /\ UNCHANGED <<loaded, health, sensor>>

(* Mutant: a success takes one off the count instead of resetting it.       *)
SuccessCountsDown(c) ==
  /\ \/ Moves(c, "good", "online") /\ failure_count' = failure_count - 1 /\ UNCHANGED status
     \/ Moves(c, "online", "idle") /\ status' = "ONLINE" /\ UNCHANGED failure_count
  /\ UNCHANGED <<raw, loaded, debounce, sinceFailure, sensor>>

(* sensor_record_success                                                   *)
RecordSuccess(c) ==
  /\ \/ Moves(c, "good", "online") /\ failure_count' = 0 /\ UNCHANGED status
     \/ Moves(c, "online", "idle") /\ status' = "ONLINE" /\ UNCHANGED failure_count
  /\ UNCHANGED <<raw, loaded, debounce, sinceFailure, sensor>>

(* sensor_record_failure                                                   *)
RecordFailure(c) ==
  /\ \/ /\ Moves(c, "failed", "judge")
        /\ failure_count' = Upto(failure_count + 1, FailureThreshold)
        /\ sinceFailure' = 0 /\ UNCHANGED status
     \/ /\ Moves(c, "judge", "idle")
        /\ status' = IF failure_count >= FailureThreshold THEN "OFFLINE" ELSE status
        /\ UNCHANGED <<failure_count, sinceFailure>>
  /\ UNCHANGED <<raw, loaded, debounce, sensor>>

Use(c) ==
  \/ ReadPin(c) \/ Refuse(c) \/ Compare(c) \/ Count(c) \/ Confirm(c)
  \/ RecordSuccess(c) \/ RecordFailure(c)

(* The sensor's pin changes, its wire breaks or is mended, time passes.     *)
World ==
  /\ \/ pin' = 1 - pin /\ UNCHANGED <<works, sinceFailure>>
     \/ works' = ~works /\ UNCHANGED <<pin, sinceFailure>>
     \/ sinceFailure' = Upto(sinceFailure + 1, RetryInterval) /\ UNCHANGED <<pin, works>>
  /\ UNCHANGED <<callers, reading, raw, loaded, debounce, status, failure_count>>

HalNext == World \/ \E c \in callers : Use(c)

-----------------------------------------------------------------------------
HalTypeOK ==
  /\ callers \subseteq AllCallers
  /\ reading \in [AllCallers -> {"idle", "compare", "count", "test", "good", "online",
                                 "failed", "judge"}]
  /\ raw \in [AllCallers -> {0, 1}] /\ loaded \in [AllCallers -> 0..(SmokeThreshold + 1)]
  /\ smoke_confirmed_state \in {0, 1} /\ smoke_debounce_count \in 0..(SmokeThreshold + 1)
  /\ status \in {"UNKNOWN", "ONLINE", "OFFLINE"} /\ failure_count \in 0..FailureThreshold
  /\ sinceFailure \in 0..RetryInterval /\ pin \in {0, 1} /\ works \in BOOLEAN
  /\ streak \in 0..SmokeThreshold

(* As long as the RPC loop alone reads, what counts as smoke changes only   *)
(* after three reads in a row that say so, failed reads left aside.  With   *)
(* the web page open one read can be enough: a caller stores the count it   *)
(* loaded before the other one took it back to zero.                        *)
ChangeNeedsThreeReads ==
  [][smoke_confirmed_state' # smoke_confirmed_state /\ callers = {"rpc"}
       => streak = SmokeThreshold]_halVars

(* However the two callers interleave, the counter never stays at the       *)
(* threshold: whoever brings it there or beyond takes it back.              *)
CounterIsTaken ==
  (\A c \in callers : reading[c] = "idle") => smoke_debounce_count < SmokeThreshold

(* A sensor that was offline and works again is used again: being polled    *)
(* while it is not due does not put off the next try.                       *)
SensorRecovers == <>[]works => <>[](status = "ONLINE")
=============================================================================
