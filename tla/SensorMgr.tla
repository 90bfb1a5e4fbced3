----------------------------- MODULE SensorMgr -----------------------------
(***************************************************************************)
(* The periodic sensor manager (components/sensor_mgr): the sensor task    *)
(* that polls the sensors into s_cache, the RTOS timer that triggers it,   *)
(* and the threads that read the cache through the public functions.  The  *)
(* threads run on two cores, so every access to shared memory is a step of *)
(* its own: a record is written field by field and copied word by word.    *)
(***************************************************************************)
EXTENDS Integers

CONSTANTS Count,        \* s_cache.count; 2 in the code
          Deliveries,   \* the pairs of bytes the sensors may deliver
          TickMod,      \* the tick counter's modulus; 2^32 in the code
          Readers,      \* the threads that call get_cached / get_cache_snapshot
          SensorTask,   \* the holder of the mutex while the sensor task has it
          Free,         \* the holder of the mutex while nobody has it
          Nothing       \* no result (refinement mapping)

Int16 == {n \in Int : -32768 <= n /\ n <= 32767}

ASSUME CountAssumption   == Count \in 1 .. 2     \* s_calibration has entries 0 and 1
ASSUME BytesAssumption   == Deliveries \subseteq (0 .. 255) \X (0 .. 255)
ASSUME TickAssumption    == TickMod \in Nat \ {0}
ASSUME ThreadsAssumption == /\ SensorTask \notin Readers
                            /\ Free \notin Readers \cup {SensorTask}

Sensors == 0 .. Count - 1

AsInt16(n) == ((n + 32768) % 65536) - 32768

(* The sample in a reply of two bytes, the high one first. *)
sensor_protocol_read(bytes) == AsInt16(256 * bytes[1] + bytes[2])

Raw == {sensor_protocol_read(bytes) : bytes \in Deliveries}

VARIABLES
    tick,            \* rtos_get_tick_ms()
    timerOn,         \* the auto-reload timer s_poll_timer is running
    s_poll_trigger,
    mutex,           \* holder of s_cache_mutex
    s_cache,         \* s_cache.records, the fields that are ever written
    pc, i, raw,      \* the sensor task: next statement, sensor index, sample
    rpc, want, todo, out,  \* a reader: state, sensors asked, words left, copy
    published,       \* history: the records as of their last complete update
    owed             \* history: the timer fired and no poll began since

memory     == <<s_cache, published>>
taskVars   == <<pc, i, raw>>
readerVars == <<rpc, want, todo, out>>
vars == <<tick, timerOn, s_poll_trigger, mutex, memory, taskVars, readerVars, owed>>

-----------------------------------------------------------------------------
(* Calibration and thresholds, as the C code computes them.                *)

offset         == 0
scale_num      == 1
scale_den      == 16
upper_critical == 85
lower_critical == -40

(* C division drops the fraction towards zero; TLA+ division rounds down. *)
CDiv(a, b) == IF a >= 0 THEN a \div b ELSE -((-a) \div b)

apply_calibration(sample) ==
    AsInt16(CDiv((sample + offset) * scale_num, scale_den))

check_thresholds(scaled) ==
    IF scaled >= upper_critical \/ scaled <= lower_critical
    THEN "CRITICAL" ELSE "OK"

(* memset: no code ever writes sensor_id, sensor_type or unit again. *)
Zero == [id |-> 0, raw |-> 0, scaled |-> 0, state |-> "OK", ts |-> 0]

(* The struct's aligned words that hold these fields. *)
Words == {"id_state", "raw_scaled", "ts"}

-----------------------------------------------------------------------------
Init ==
    /\ tick = 0 /\ timerOn = FALSE /\ s_poll_trigger = FALSE /\ mutex = Free
    /\ s_cache = [s \in Sensors |-> Zero]
    /\ published = [s \in Sensors |-> Zero]
    /\ pc = "start" /\ i = 0 /\ raw = 0 /\ owed = FALSE
    /\ rpc = [r \in Readers |-> "idle"]
    /\ want = [r \in Readers |-> {}]
    /\ todo = [r \in Readers |-> {}]
    /\ out = [r \in Readers |-> [s \in Sensors |-> Zero]]

Tick == /\ tick' = (tick + 1) % TickMod
        /\ UNCHANGED <<timerOn, s_poll_trigger, mutex, memory, taskVars, readerVars, owed>>

(* The timer daemon: sensor_poll_timer_cb. *)
TimerFires ==
    /\ timerOn
    /\ s_poll_trigger' = TRUE /\ owed' = TRUE
    /\ UNCHANGED <<tick, timerOn, mutex, memory, taskVars, readerVars>>

-----------------------------------------------------------------------------
(* The sensor task.                                                        *)

(* The return value of rtos_timer_start is ignored: it may have failed. *)
StartTimer ==
    /\ pc = "start" /\ pc' = "test"
    /\ timerOn' \in BOOLEAN
    /\ UNCHANGED <<tick, s_poll_trigger, mutex, memory, i, raw, readerVars, owed>>

TestTrigger ==
    /\ pc = "test"
    /\ pc' = IF s_poll_trigger THEN "clear" ELSE "alert"
    /\ UNCHANGED <<tick, timerOn, s_poll_trigger, mutex, memory, i, raw, readerVars, owed>>

ClearTrigger ==
    /\ pc = "clear" /\ pc' = "begin"
    /\ s_poll_trigger' = FALSE
    /\ UNCHANGED <<tick, timerOn, mutex, memory, i, raw, readerVars, owed>>

BeginPoll ==
    /\ pc = "begin" /\ pc' = "read"
    /\ i' = 0 /\ owed' = FALSE
    /\ UNCHANGED <<tick, timerOn, s_poll_trigger, mutex, memory, raw, readerVars>>

(* Mutant: a failed read skips the sensor after it as well. *)
ReadFails_SkipsTwo ==
    /\ pc = "read" /\ i < Count
    /\ i' = i + 2
    /\ UNCHANGED <<tick, timerOn, s_poll_trigger, mutex, memory, pc, raw, readerVars, owed>>

(* A failed sensor_protocol_read leaves the record as it was. *)
ReadFails ==
    /\ pc = "read" /\ i < Count
    /\ i' = i + 1
    /\ UNCHANGED <<tick, timerOn, s_poll_trigger, mutex, memory, pc, raw, readerVars, owed>>

ReadSucceeds ==
    /\ pc = "read" /\ i < Count /\ pc' = "take"
    /\ raw' \in Raw
    /\ UNCHANGED <<tick, timerOn, s_poll_trigger, mutex, memory, i, readerVars, owed>>

(* Mutant: the trigger is cleared once more after the poll. *)
EndPoll_ClearsTrigger ==
    /\ pc = "read" /\ i = Count /\ pc' = "alert"
    /\ s_poll_trigger' = FALSE
    /\ UNCHANGED <<tick, timerOn, mutex, memory, i, raw, readerVars, owed>>

EndPoll ==
    /\ pc = "read" /\ i = Count /\ pc' = "alert"
    /\ UNCHANGED <<tick, timerOn, s_poll_trigger, mutex, memory, i, raw, readerVars, owed>>

TakeMutex ==
    /\ pc = "take" /\ mutex = Free /\ pc' = "raw"
    /\ mutex' = SensorTask
    /\ UNCHANGED <<tick, timerOn, s_poll_trigger, memory, i, raw, readerVars, owed>>

WriteRaw ==
    /\ pc = "raw" /\ pc' = "scaled"
    /\ s_cache' = [s_cache EXCEPT ![i].raw = raw]
    /\ UNCHANGED <<tick, timerOn, s_poll_trigger, mutex, published, i, raw, readerVars, owed>>

WriteScaled ==
    /\ pc = "scaled" /\ pc' = "state"
    /\ s_cache' = [s_cache EXCEPT ![i].scaled = apply_calibration(raw)]
    /\ UNCHANGED <<tick, timerOn, s_poll_trigger, mutex, published, i, raw, readerVars, owed>>

WriteState ==
    /\ pc = "state" /\ pc' = "ts"
    /\ s_cache' = [s_cache EXCEPT ![i].state = check_thresholds(apply_calibration(raw))]
    /\ UNCHANGED <<tick, timerOn, s_poll_trigger, mutex, published, i, raw, readerVars, owed>>

(* The last field: from here on the record is a complete update. *)
WriteTimestamp ==
    /\ pc = "ts" /\ pc' = "give"
    /\ s_cache' = [s_cache EXCEPT ![i].ts = tick]
    /\ published' = s_cache'
    /\ UNCHANGED <<tick, timerOn, s_poll_trigger, mutex, i, raw, readerVars, owed>>

(* Mutant: the mutex is not given back after the first sensor. *)
GiveMutex_OnlyLast ==
    /\ pc = "give" /\ pc' = "read"
    /\ mutex' = IF i = 0 THEN mutex ELSE Free
    /\ i' = i + 1
    /\ UNCHANGED <<tick, timerOn, s_poll_trigger, memory, raw, readerVars, owed>>

GiveMutex ==
    /\ pc = "give" /\ pc' = "read"
    /\ mutex' = Free
    /\ i' = i + 1
    /\ UNCHANGED <<tick, timerOn, s_poll_trigger, memory, raw, readerVars, owed>>

(* Nothing posts to s_sensor_alert_queue: the receive always times out. *)
AlertTimeout ==
    /\ pc = "alert" /\ pc' = "test"
    /\ UNCHANGED <<tick, timerOn, s_poll_trigger, mutex, memory, i, raw, readerVars, owed>>

SensorTaskStep ==
    \/ StartTimer \/ TestTrigger \/ ClearTrigger \/ BeginPoll
    \/ ReadFails \/ ReadSucceeds \/ EndPoll
    \/ TakeMutex \/ WriteRaw \/ WriteScaled \/ WriteState \/ WriteTimestamp
    \/ GiveMutex \/ AlertTimeout

-----------------------------------------------------------------------------
(* The readers.                                                            *)

Ask(r, ids) ==
    /\ rpc[r] = "idle"
    /\ rpc' = [rpc EXCEPT ![r] = "take"]
    /\ want' = [want EXCEPT ![r] = ids]
    /\ UNCHANGED <<tick, timerOn, s_poll_trigger, mutex, memory, taskVars, todo, out, owed>>

(* sensor_mgr_get_cached(id): refused, without the mutex, beyond count. *)
GetCached(r, id) == id < Count /\ Ask(r, {id})

Refuse(r, id) ==
    /\ rpc[r] = "idle" /\ id >= Count
    /\ rpc' = [rpc EXCEPT ![r] = "failed"]
    /\ UNCHANGED <<tick, timerOn, s_poll_trigger, mutex, memory, taskVars, want, todo, out, owed>>

GetSnapshot(r) == Ask(r, Sensors)

(* Mutant: the reader goes on when the mutex could not be taken at once. *)
ReaderTake_NoWait(r) ==
    /\ rpc[r] = "take"
    /\ mutex' = IF mutex = Free THEN r ELSE mutex
    /\ rpc' = [rpc EXCEPT ![r] = "copy"]
    /\ todo' = [todo EXCEPT ![r] = want[r] \X Words]
    /\ UNCHANGED <<tick, timerOn, s_poll_trigger, memory, taskVars, want, out, owed>>

ReaderTake(r) ==
    /\ rpc[r] = "take" /\ mutex = Free
    /\ mutex' = r
    /\ rpc' = [rpc EXCEPT ![r] = "copy"]
    /\ todo' = [todo EXCEPT ![r] = want[r] \X Words]
    /\ UNCHANGED <<tick, timerOn, s_poll_trigger, memory, taskVars, want, out, owed>>

(* The record d after one of its words is copied from record c. *)
WithWord(d, c, w) ==
    [d EXCEPT !.id     = IF w = "id_state" THEN c.id ELSE @,
              !.state  = IF w = "id_state" THEN c.state ELSE @,
              !.raw    = IF w = "raw_scaled" THEN c.raw ELSE @,
              !.scaled = IF w = "raw_scaled" THEN c.scaled ELSE @,
              !.ts     = IF w = "ts" THEN c.ts ELSE @]

(* The compiler or memcpy chooses the order in which the words are copied. *)
CopyWord(r) ==
    /\ rpc[r] = "copy"
    /\ \E s \in Sensors, w \in Words :
        /\ <<s, w>> \in todo[r]
        /\ todo' = [todo EXCEPT ![r] = @ \ {<<s, w>>}]
        /\ out' = [out EXCEPT ![r][s] = WithWord(@, s_cache[s], w)]
    /\ UNCHANGED <<tick, timerOn, s_poll_trigger, mutex, memory, taskVars, rpc, want, owed>>

(* Mutant: the reader lets go of the mutex before it has copied everything. *)
ReaderGive_Early(r) ==
    /\ rpc[r] = "copy"
    /\ mutex' = Free
    /\ rpc' = [rpc EXCEPT ![r] = "done"]
    /\ UNCHANGED <<tick, timerOn, s_poll_trigger, memory, taskVars, want, todo, out, owed>>

ReaderGive(r) ==
    /\ rpc[r] = "copy" /\ todo[r] = {}
    /\ mutex' = Free
    /\ rpc' = [rpc EXCEPT ![r] = "done"]
    /\ UNCHANGED <<tick, timerOn, s_poll_trigger, memory, taskVars, want, todo, out, owed>>

(* The caller has used the answer; its buffer is dead. *)
Return(r) ==
    /\ rpc[r] \in {"done", "failed"}
    /\ rpc' = [rpc EXCEPT ![r] = "idle"]
    /\ want' = [want EXCEPT ![r] = {}]
    /\ out' = [out EXCEPT ![r] = [s \in Sensors |-> Zero]]
    /\ UNCHANGED <<tick, timerOn, s_poll_trigger, mutex, memory, taskVars, todo, owed>>

Serve(r) == ReaderTake(r) \/ CopyWord(r) \/ ReaderGive(r) \/ Return(r)

(* Ids asked for: those of the table and the first one beyond it. *)
ReaderStep(r) == \/ \E id \in 0 .. Count : GetCached(r, id) \/ Refuse(r, id)
                 \/ GetSnapshot(r)
                 \/ Serve(r)

Next == Tick \/ TimerFires \/ SensorTaskStep \/ \E r \in Readers : ReaderStep(r)

Spec == Init /\ [][Next]_vars

(* A thread that can run does; a thread waiting for the mutex is not passed *)
(* over for ever, since FreeRTOS wakes the waiter when the mutex is given.  *)
Fairness == /\ WF_vars(SensorTaskStep) /\ SF_vars(TakeMutex)
            /\ \A r \in Readers : WF_vars(Serve(r)) /\ SF_vars(ReaderTake(r))

FairSpec == Spec /\ Fairness

-----------------------------------------------------------------------------
(* Properties.                                                             *)

Record == [id : {0}, raw : Raw \cup {0}, scaled : Int16,
           state : {"OK", "CRITICAL"}, ts : 0 .. TickMod - 1]

(* Every variable has its type: in particular the poll index never passes  *)
(* count, and every record holds a legal sample, state and time.           *)
TypeOK ==
    /\ tick \in 0 .. TickMod - 1
    /\ timerOn \in BOOLEAN /\ s_poll_trigger \in BOOLEAN /\ owed \in BOOLEAN
    /\ mutex \in Readers \cup {SensorTask, Free}
    /\ s_cache \in [Sensors -> Record]
    /\ published \in [Sensors -> Record]
    /\ pc \in {"start", "test", "clear", "begin", "read", "take",
               "raw", "scaled", "state", "ts", "give", "alert"}
    /\ i \in 0 .. Count
    /\ pc \in {"take", "raw", "scaled", "state", "ts", "give"} => i \in Sensors
    /\ raw \in Raw \cup {0}
    /\ rpc \in [Readers -> {"idle", "take", "copy", "done", "failed"}]
    /\ want \in [Readers -> SUBSET Sensors]
    /\ todo \in [Readers -> SUBSET (Sensors \X Words)]
    /\ out \in [Readers -> [Sensors -> Record]]

Cache == INSTANCE SensorCache
         WITH UpperLimit <- upper_critical, LowerLimit <- lower_critical,
              Times <- 0 .. TickMod - 1,
              cache <- published,
              result <- [r \in Readers |->
                            IF rpc[r] = "done"
                            THEN [s \in want[r] |-> out[r][s]] ELSE Nothing]

(* A record that sensor_mgr_get_cached or the snapshot hands out is never  *)
(* torn between two polls: the temperature and the alarm state in it are   *)
(* those of the one raw sample in it, the alarm being raised exactly from  *)
(* 85 degrees up and from -40 degrees down.                                *)
ServedCoherent ==
    \A r \in Readers : rpc[r] = "done" => \A s \in want[r] : Cache!Whole(out[r][s])

(* Every firing of the poll timer that no poll has answered yet is still   *)
(* remembered by the flag or by the task on its way to the poll: a firing  *)
(* during the test, the clear or the poll itself is not swallowed.         *)
NoLostTrigger == owed => s_poll_trigger \/ pc \in {"clear", "begin"}

(* A poll begins after every firing of the timer.                          *)
PollFollows == owed ~> ~owed

(* A thread that asks for a record gets an answer: the mutex is always     *)
(* given back, by the sensor task and by the other readers.                *)
ReadCompletes == \A r \in Readers : rpc[r] = "take" ~> rpc[r] = "done"

(* The whole manager behaves as a table with atomic updates and atomic     *)
(* reads (module SensorCache).                                             *)
ImplementsCache == Cache!Spec
=============================================================================
