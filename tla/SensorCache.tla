---------------------------- MODULE SensorCache ----------------------------
(***************************************************************************)
(* What the sensor manager promises its callers: a table of records that  *)
(* changes one whole record at a time and is read one whole record, or one *)
(* whole table, at a time.  A record is always the calibrated image of one *)
(* raw sample, and its state tells exactly whether that sample is at or    *)
(* beyond a critical limit.  Raw samples are in sixteenths of a degree.    *)
(***************************************************************************)
EXTENDS Integers

CONSTANTS Sensors,      \* the sensor numbers of the table
          Readers,      \* the threads that read it
          Raw,          \* the samples the sensors may deliver
          Times,        \* the time stamps
          UpperLimit,   \* critical limits in degrees
          LowerLimit,
          Nothing       \* the result of a thread that has none

VARIABLES cache,        \* [Sensors -> record]
          result        \* [Readers -> function on the sensors read, or Nothing]

vars == <<cache, result>>

(* scaled is raw in whole degrees, the fraction dropped towards zero. *)
Calibrated(rec) ==
    /\ rec.raw >= 0 => 16 * rec.scaled <= rec.raw /\ rec.raw < 16 * (rec.scaled + 1)
    /\ rec.raw <= 0 => 16 * rec.scaled >= rec.raw /\ rec.raw > 16 * (rec.scaled - 1)

(* The alarm is raised exactly at the limits, stated on the raw sample. *)
AlarmRight(rec) ==
    (rec.state = "CRITICAL") <=> \/ rec.raw >= 16 * UpperLimit
                                 \/ rec.raw <= 16 * LowerLimit

Whole(rec) == Calibrated(rec) /\ AlarmRight(rec)

Record == [id : {0}, raw : Raw \cup {0}, scaled : Int,
           state : {"OK", "CRITICAL"}, ts : Times]

Zero == [id |-> 0, raw |-> 0, scaled |-> 0, state |-> "OK", ts |-> 0]

Init == /\ cache = [s \in Sensors |-> Zero]
        /\ result = [r \in Readers |-> Nothing]

(* One record is replaced by the whole record of a new sample. *)
Publish(s) == /\ cache'[s] \in Record
              /\ Whole(cache'[s])
              /\ cache' = [cache EXCEPT ![s] = cache'[s]]
              /\ UNCHANGED result

(* A thread gets the records of some sensors as they are at one instant. *)
Read(r) == /\ \E W \in SUBSET Sensors : result' = [result EXCEPT ![r] = [s \in W |-> cache[s]]]
           /\ UNCHANGED cache

(* The thread is done with what it read. *)
Forget(r) == /\ result' = [result EXCEPT ![r] = Nothing]
             /\ UNCHANGED cache

Next == \/ \E s \in Sensors : Publish(s)
        \/ \E r \in Readers : Read(r) \/ Forget(r)

Spec == Init /\ [][Next]_vars
=============================================================================
