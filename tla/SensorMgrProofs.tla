-------------------------- MODULE SensorMgrProofs --------------------------
(***************************************************************************)
(* Proofs about SensorMgr, for any number of readers, any set of samples   *)
(* and any width of the tick counter.                                      *)
(***************************************************************************)
EXTENDS SensorMgr, TLAPS

(* Division by the scale drops the fraction towards zero. *)
LEMMA CDivSixteen ==
    ASSUME NEW x \in Int
    PROVE  /\ CDiv(x, 16) \in Int
           /\ x >= 0 => 16 * CDiv(x, 16) <= x /\ x < 16 * (CDiv(x, 16) + 1)
           /\ x <= 0 => 16 * CDiv(x, 16) >= x /\ x > 16 * (CDiv(x, 16) - 1)
<1>1. \A n \in Nat : n \div 16 \in Int /\ 16 * (n \div 16) <= n /\ n < 16 * (n \div 16 + 1)
  OBVIOUS
<1>2. CASE x >= 0
  <2>1. CDiv(x, 16) = x \div 16  BY <1>2 DEF CDiv
  <2> QED  BY <1>1, <1>2, <2>1
<1>3. CASE x < 0
  <2>1. CDiv(x, 16) = -((-x) \div 16)  BY <1>3 DEF CDiv
  <2> DEFINE d == (-x) \div 16
  <2>2. -x \in Nat  BY <1>3
  <2>3. d \in Int /\ 16 * d <= -x /\ -x < 16 * (d + 1)  BY <1>1, <2>2
  <2> HIDE DEF d
  <2>4. CDiv(x, 16) = -d  BY <2>1 DEF d
  <2> QED  BY <1>3, <2>3, <2>4
<1> QED  BY <1>2, <1>3

(* The cast leaves a number that fits as it is. *)
LEMMA AsInt16Fits ==
    ASSUME NEW q \in Int, -32768 <= q, q <= 32767
    PROVE  AsInt16(q) = q
<1>1. \A n \in Int : 0 <= n /\ n < 65536 => n % 65536 = n  BY Z3
<1>2. (q + 32768) % 65536 = q + 32768  BY <1>1
<1> QED  BY <1>2 DEF AsInt16

(* Every reply of two bytes is a sample of 16 bits. *)
LEMMA RawFits == Raw \subseteq Int16
<1>1. ASSUME NEW n \in Int  PROVE AsInt16(n) \in Int16
  <2> DEFINE k == n + 32768
  <2>1. k \in Int  OBVIOUS
  <2> HIDE DEF k
  <2>2. k % 65536 \in Int /\ 0 <= k % 65536 /\ k % 65536 <= 65535  BY <2>1, Z3
  <2>3. AsInt16(n) = (k % 65536) - 32768  BY DEF AsInt16, k
  <2> DEFINE r == k % 65536
  <2>4. r \in Int /\ 0 <= r /\ r <= 65535 /\ AsInt16(n) = r - 32768  BY <2>2, <2>3
  <2> HIDE DEF r
  <2> QED  BY <2>4 DEF Int16
<1>2. ASSUME NEW b \in Deliveries  PROVE sensor_protocol_read(b) \in Int16
  <2>1. b[1] \in Int /\ b[2] \in Int  BY BytesAssumption
  <2>2. 256 * b[1] + b[2] \in Int  BY <2>1
  <2> QED  BY <1>1, <2>2 DEF sensor_protocol_read
<1> QED  BY <1>2 DEF Raw

(* The C arithmetic: the quotient is the degree nearest zero, it fits its  *)
(* int16_t, and the alarm is raised exactly at the limits.                 *)
LEMMA CalibrationCorrect ==
    ASSUME NEW x \in Int16
    PROVE  /\ apply_calibration(x) \in Int16
           /\ x >= 0 => /\ 16 * apply_calibration(x) <= x
                        /\ x < 16 * (apply_calibration(x) + 1)
           /\ x <= 0 => /\ 16 * apply_calibration(x) >= x
                        /\ x > 16 * (apply_calibration(x) - 1)
           /\ check_thresholds(apply_calibration(x)) \in {"OK", "CRITICAL"}
           /\ check_thresholds(apply_calibration(x)) = "CRITICAL"
                  <=> (x >= 16 * upper_critical \/ x <= 16 * lower_critical)
<1> DEFINE q == CDiv(x, 16)
<1>0. x \in Int  BY DEF Int16
<1>1. /\ q \in Int
      /\ x >= 0 => 16 * q <= x /\ x < 16 * (q + 1)
      /\ x <= 0 => 16 * q >= x /\ x > 16 * (q - 1)
  BY CDivSixteen DEF Int16
<1>2. apply_calibration(x) = AsInt16(q)
  <2>1. (x + offset) * scale_num = x  BY <1>0 DEF offset, scale_num
  <2> QED  BY <2>1 DEF apply_calibration, scale_den
<1> HIDE DEF q
<1>3. -32768 <= q /\ q <= 32767 /\ x \in Int  BY <1>1 DEF Int16
<1>4. apply_calibration(x) = q  BY <1>1, <1>2, <1>3, AsInt16Fits
<1>5. (q >= 85 \/ q <= -40) <=> (x >= 16 * 85 \/ x <= 16 * (-40))  BY <1>1, <1>3
<1>6. check_thresholds(q) \in {"OK", "CRITICAL"}  BY DEF check_thresholds
<1>7. check_thresholds(q) = "CRITICAL" <=> (x >= 16 * upper_critical \/ x <= 16 * lower_critical)
  BY <1>5 DEF check_thresholds, upper_critical, lower_critical
<1>8. q \in Int16  BY <1>1, <1>3 DEF Int16
<1> QED  BY <1>1, <1>4, <1>6, <1>7, <1>8

(* A record made of a sample and what the sensor task computes from it is  *)
(* whole in the sense of SensorCache.                                      *)
LEMMA WrittenRecordIsWhole ==
    ASSUME NEW x \in Int16, NEW rec,
           rec.raw = x, rec.scaled = apply_calibration(x),
           rec.state = check_thresholds(apply_calibration(x))
    PROVE  Cache!Whole(rec)
BY CalibrationCorrect DEF Cache!Whole, Cache!Calibrated, Cache!AlarmRight
-----------------------------------------------------------------------------
(* Who is inside the critical section of s_cache_mutex.                    *)
MutexInv ==
    /\ mutex = SensorTask <=> pc \in {"raw", "scaled", "state", "ts", "give"}
    /\ \A r \in Readers : mutex = r <=> rpc[r] = "copy"

(* The cache differs from the published records only in the fields of the  *)
(* record that the sensor task is writing.                                 *)
MemoryInv ==
    /\ pc \notin {"scaled", "state", "ts"} => s_cache = published
    /\ \A s \in Sensors : pc \in {"scaled", "state", "ts"} /\ s # i => s_cache[s] = published[s]
    /\ pc \in {"take", "raw", "scaled", "state", "ts"} => raw \in Raw
    /\ pc \in {"scaled", "state", "ts"} => s_cache[i].raw = raw
    /\ pc \in {"state", "ts"} => s_cache[i].scaled = apply_calibration(raw)
    /\ pc = "ts" => s_cache[i].state = check_thresholds(apply_calibration(raw))
    /\ \A s \in Sensors : Cache!Whole(published[s])

(* The words a reader has copied are those of the published record; when   *)
(* it has given the mutex back its copies are whole records.               *)
CopyInv ==
    \A r \in Readers :
        /\ rpc[r] = "copy" => \A s \in want[r] :
              /\ <<s, "id_state">> \notin todo[r] => out[r][s].state = published[s].state
              /\ <<s, "raw_scaled">> \notin todo[r] => /\ out[r][s].raw = published[s].raw
                                                       /\ out[r][s].scaled = published[s].scaled
              /\ <<s, "ts">> \notin todo[r] => out[r][s].ts = published[s].ts
        /\ rpc[r] = "done" => \A s \in want[r] : Cache!Whole(out[r][s])

IInv == TypeOK /\ MutexInv /\ MemoryInv /\ CopyInv

(* The fields of a record can be overwritten one by one. *)
LEMMA RecordUpdates ==
    ASSUME NEW rec \in Record
    PROVE  /\ \A x \in Raw \cup {0} : [rec EXCEPT !.raw = x] \in Record
           /\ \A x \in Int16 : [rec EXCEPT !.scaled = x] \in Record
           /\ \A x \in {"OK", "CRITICAL"} : [rec EXCEPT !.state = x] \in Record
           /\ \A x \in 0 .. TickMod - 1 : [rec EXCEPT !.ts = x] \in Record
           /\ \A c \in Record, w \in Words : WithWord(rec, c, w) \in Record
<1>1. \A c \in Record, w \in Words : WithWord(rec, c, w) \in Record
  BY DEF Record, WithWord
<1> QED  BY <1>1 DEF Record

LEMMA InitInv == Init => IInv
<1> SUFFICES ASSUME Init PROVE IInv  OBVIOUS
<1>1. Zero \in Record
  BY TickAssumption DEF Zero, Record, Int16
<1>2. TypeOK
  <2>1. 0 \in 0 .. Count /\ 0 \in 0 .. TickMod - 1  BY CountAssumption, TickAssumption
  <2> QED  BY <1>1, <2>1 DEF Init, TypeOK
<1>3. MutexInv
  BY ThreadsAssumption DEF Init, MutexInv
<1>4. Cache!Whole(Zero)
  BY DEF Zero, Cache!Whole, Cache!Calibrated, Cache!AlarmRight, upper_critical, lower_critical
<1>5. MemoryInv
  BY <1>4 DEF Init, MemoryInv
<1>6. CopyInv
  BY DEF Init, CopyInv
<1> QED  BY <1>2, <1>3, <1>5, <1>6 DEF IInv

(* Every step keeps the types. *)
LEMMA TypeStep == TypeOK /\ MemoryInv /\ [Next]_vars => TypeOK'
<1> SUFFICES ASSUME TypeOK, MemoryInv, [Next]_vars PROVE TypeOK'
  OBVIOUS
<1> USE DEF TypeOK, memory, taskVars, readerVars
<1>1. CASE Tick
  <2>1. (tick + 1) % TickMod \in 0 .. TickMod - 1
    BY TickAssumption
  <2> QED  BY <1>1, <2>1 DEF Tick
<1>2. CASE TimerFires
  BY <1>2 DEF TimerFires
<1>3. CASE StartTimer \/ TestTrigger \/ ClearTrigger \/ AlertTimeout \/ EndPoll
  BY <1>3 DEF StartTimer, TestTrigger, ClearTrigger, AlertTimeout, EndPoll
<1>4. CASE BeginPoll
  <2>1. 0 \in 0 .. Count  BY CountAssumption
  <2>2. i' \in 0 .. Count /\ pc' = "read"  BY <1>4, <2>1 DEF BeginPoll
  <2> QED  BY <1>4, <2>2 DEF BeginPoll
<1>5. CASE ReadFails
  BY <1>5, CountAssumption DEF ReadFails
<1>6. CASE ReadSucceeds
  BY <1>6, CountAssumption DEF ReadSucceeds, Sensors
<1>7. CASE TakeMutex
  BY <1>7 DEF TakeMutex
<1>8. CASE WriteRaw
  <2>1. i \in Sensors /\ s_cache[i] \in Record /\ raw \in Raw \cup {0}  BY <1>8 DEF WriteRaw
  <2>2. [s_cache[i] EXCEPT !.raw = raw] \in Record  BY <2>1, RecordUpdates
  <2> QED  BY <1>8, <2>1, <2>2 DEF WriteRaw
<1>9. CASE WriteScaled
  <2>1. i \in Sensors /\ s_cache[i] \in Record  BY <1>9 DEF WriteScaled
  <2>2. raw \in Int16  BY <1>9, RawFits DEF WriteScaled, MemoryInv
  <2>3. apply_calibration(raw) \in Int16  BY <2>2, CalibrationCorrect
  <2>4. [s_cache[i] EXCEPT !.scaled = apply_calibration(raw)] \in Record
    BY <2>1, <2>3, RecordUpdates
  <2> QED  BY <1>9, <2>1, <2>4 DEF WriteScaled
<1>10. CASE WriteState
  <2>1. i \in Sensors /\ s_cache[i] \in Record  BY <1>10 DEF WriteState
  <2>2. check_thresholds(apply_calibration(raw)) \in {"OK", "CRITICAL"}
    BY DEF check_thresholds
  <2>3. [s_cache[i] EXCEPT !.state = check_thresholds(apply_calibration(raw))] \in Record
    BY <2>1, <2>2, RecordUpdates
  <2> QED  BY <1>10, <2>1, <2>3 DEF WriteState
<1>11. CASE WriteTimestamp
  <2>1. i \in Sensors /\ s_cache[i] \in Record  BY <1>11 DEF WriteTimestamp
  <2>2. [s_cache[i] EXCEPT !.ts = tick] \in Record  BY <2>1, RecordUpdates
  <2> QED  BY <1>11, <2>1, <2>2 DEF WriteTimestamp
<1>12. CASE GiveMutex
  BY <1>12, CountAssumption DEF GiveMutex, Sensors
<1>13. ASSUME NEW r \in Readers, ReaderStep(r) PROVE TypeOK'
  <2>1. ASSUME NEW id \in 0 .. Count, GetCached(r, id) PROVE TypeOK'
    BY <2>1, CountAssumption DEF GetCached, Ask, Sensors
  <2>2. ASSUME NEW id \in 0 .. Count, Refuse(r, id) PROVE TypeOK'
    BY <2>2 DEF Refuse
  <2>3. CASE GetSnapshot(r)
    BY <2>3 DEF GetSnapshot, Ask
  <2>4. CASE ReaderTake(r)
    BY <2>4 DEF ReaderTake
  <2>5. CASE CopyWord(r)
    <3>1. PICK s \in Sensors, w \in Words :
            /\ todo' = [todo EXCEPT ![r] = @ \ {<<s, w>>}]
            /\ out' = [out EXCEPT ![r][s] = WithWord(@, s_cache[s], w)]
      BY <2>5 DEF CopyWord
    <3>2. WithWord(out[r][s], s_cache[s], w) \in Record
      BY RecordUpdates
    <3> DEFINE d == [out[r] EXCEPT ![s] = WithWord(out[r][s], s_cache[s], w)]
    <3>3. out' = [out EXCEPT ![r] = d]  BY <3>1
    <3>4. d \in [Sensors -> Record]  BY <3>2
    <3> HIDE DEF d
    <3>5. out' \in [Readers -> [Sensors -> Record]]  BY <3>3, <3>4
    <3>6. todo' \in [Readers -> SUBSET (Sensors \X Words)]  BY <3>1
    <3> QED  BY <2>5, <3>5, <3>6 DEF CopyWord
  <2>6. CASE ReaderGive(r)
    BY <2>6 DEF ReaderGive
  <2>7. CASE Return(r)
    <3>1. Zero \in Record  BY TickAssumption DEF Zero, Record, Int16
    <3> QED  BY <2>7, <3>1 DEF Return
  <2> QED  BY <1>13, <2>1, <2>2, <2>3, <2>4, <2>5, <2>6, <2>7 DEF ReaderStep, Serve
<1>14. CASE UNCHANGED vars
  BY <1>14 DEF vars
<1> QED
  BY <1>1, <1>2, <1>3, <1>4, <1>5, <1>6, <1>7, <1>8, <1>9, <1>10, <1>11, <1>12, <1>13, <1>14
  DEF Next, SensorTaskStep
-----------------------------------------------------------------------------
(* Only the holder of the mutex gives it back, and nobody takes it twice.  *)
LEMMA MutexStep == TypeOK /\ MutexInv /\ [Next]_vars => MutexInv'
<1> SUFFICES ASSUME TypeOK, MutexInv, [Next]_vars PROVE MutexInv'
  OBVIOUS
<1> USE DEF MutexInv, memory, taskVars, readerVars
<1>1. rpc \in [Readers -> {"idle", "take", "copy", "done", "failed"}]
  BY DEF TypeOK
<1>2. CASE Tick \/ TimerFires
  BY <1>2 DEF Tick, TimerFires
<1>3. CASE SensorTaskStep
  BY <1>3, ThreadsAssumption
  DEF SensorTaskStep, StartTimer, TestTrigger, ClearTrigger, BeginPoll, ReadFails,
      ReadSucceeds, EndPoll, TakeMutex, WriteRaw, WriteScaled, WriteState,
      WriteTimestamp, GiveMutex, AlertTimeout
<1>4. ASSUME NEW r \in Readers, ReaderStep(r) PROVE MutexInv'
  <2>1. ASSUME NEW id \in 0 .. Count, GetCached(r, id) \/ Refuse(r, id) PROVE MutexInv'
    BY <1>1, <2>1 DEF GetCached, Refuse, Ask
  <2>2. CASE GetSnapshot(r) \/ CopyWord(r)
    BY <1>1, <2>2 DEF GetSnapshot, Ask, CopyWord
  <2>3. CASE ReaderTake(r)
    BY <1>1, <2>3, ThreadsAssumption DEF ReaderTake
  <2>4. CASE ReaderGive(r)
    BY <1>1, <2>4, ThreadsAssumption DEF ReaderGive
  <2>5. CASE Return(r)
    BY <1>1, <2>5 DEF Return
  <2> QED  BY <1>4, <2>1, <2>2, <2>3, <2>4, <2>5 DEF ReaderStep, Serve
<1>5. CASE UNCHANGED vars
  BY <1>5 DEF vars
<1> QED  BY <1>2, <1>3, <1>4, <1>5 DEF Next

(* The sensor task completes every record before it gives the mutex back.  *)
LEMMA MemoryStep == TypeOK /\ MutexInv /\ MemoryInv /\ [Next]_vars => MemoryInv'
<1> SUFFICES ASSUME TypeOK, MutexInv, MemoryInv, [Next]_vars PROVE MemoryInv'
  OBVIOUS
<1> USE DEF MemoryInv, memory, taskVars, readerVars
<1>1. /\ s_cache \in [Sensors -> Record] /\ published \in [Sensors -> Record]
      /\ pc \in {"take", "raw", "scaled", "state", "ts", "give"} => i \in Sensors
  BY DEF TypeOK
<1>2. CASE \/ Tick \/ TimerFires \/ UNCHANGED vars
           \/ \E r \in Readers : ReaderStep(r)
  <2>1. UNCHANGED <<memory, taskVars>>
    BY <1>2 DEF Tick, TimerFires, ReaderStep, GetCached, Refuse, GetSnapshot, Ask, Serve,
                ReaderTake, CopyWord, ReaderGive, Return, vars
  <2> QED  BY <2>1
<1>3. CASE \/ StartTimer \/ TestTrigger \/ ClearTrigger \/ BeginPoll \/ ReadFails
           \/ EndPoll \/ GiveMutex \/ AlertTimeout
  <2>1. /\ UNCHANGED memory
        /\ pc \notin {"raw", "scaled", "state", "ts"}
        /\ pc' \notin {"take", "raw", "scaled", "state", "ts"}
    BY <1>3 DEF StartTimer, TestTrigger, ClearTrigger, BeginPoll, ReadFails, EndPoll,
                GiveMutex, AlertTimeout
  <2> QED  BY <2>1
<1>4. CASE ReadSucceeds
  BY <1>4 DEF ReadSucceeds
<1>5. CASE TakeMutex
  BY <1>5 DEF TakeMutex
<1>6. CASE WriteRaw
  <2>1. i \in Sensors  BY <1>1, <1>6 DEF WriteRaw
  <2>2. s_cache'[i].raw = raw  BY <1>1, <1>6, <2>1 DEF WriteRaw, Record
  <2>3. \A s \in Sensors : s # i => s_cache'[s] = published[s]
    BY <1>1, <1>6, <2>1 DEF WriteRaw
  <2> QED  BY <1>6, <2>2, <2>3 DEF WriteRaw
<1>7. CASE WriteScaled
  <2>1. i \in Sensors  BY <1>1, <1>7 DEF WriteScaled
  <2>2. s_cache'[i].raw = raw /\ s_cache'[i].scaled = apply_calibration(raw)
    BY <1>1, <1>7, <2>1 DEF WriteScaled, Record
  <2>3. \A s \in Sensors : s # i => s_cache'[s] = published[s]
    BY <1>1, <1>7, <2>1 DEF WriteScaled
  <2> QED  BY <1>7, <2>2, <2>3 DEF WriteScaled
<1>8. CASE WriteState
  <2>1. i \in Sensors  BY <1>1, <1>8 DEF WriteState
  <2>2. /\ s_cache'[i].raw = raw /\ s_cache'[i].scaled = apply_calibration(raw)
        /\ s_cache'[i].state = check_thresholds(apply_calibration(raw))
    BY <1>1, <1>8, <2>1 DEF WriteState, Record
  <2>3. \A s \in Sensors : s # i => s_cache'[s] = published[s]
    BY <1>1, <1>8, <2>1 DEF WriteState
  <2> QED  BY <1>8, <2>2, <2>3 DEF WriteState
<1>9. CASE WriteTimestamp
  <2>1. i \in Sensors /\ raw \in Int16  BY <1>1, <1>9, RawFits DEF WriteTimestamp
  <2>2. /\ s_cache'[i].raw = raw /\ s_cache'[i].scaled = apply_calibration(raw)
        /\ s_cache'[i].state = check_thresholds(apply_calibration(raw))
    BY <1>1, <1>9, <2>1 DEF WriteTimestamp, Record
  <2>3. Cache!Whole(s_cache'[i])  BY <2>1, <2>2, WrittenRecordIsWhole
  <2>4. \A s \in Sensors : s # i => s_cache'[s] = published[s]
    BY <1>1, <1>9, <2>1 DEF WriteTimestamp
  <2>5. \A s \in Sensors : Cache!Whole(s_cache'[s])  BY <2>3, <2>4
  <2>6. published' = s_cache' /\ pc' = "give"  BY <1>9 DEF WriteTimestamp
  <2> QED  BY <2>5, <2>6 DEF Cache!Whole, Cache!Calibrated, Cache!AlarmRight
<1> QED
  BY <1>2, <1>3, <1>4, <1>5, <1>6, <1>7, <1>8, <1>9 DEF Next, SensorTaskStep

(* What a reader has copied cannot change under it while it holds the      *)
(* mutex, and everything is copied when it gives the mutex back.           *)
LEMMA CopyStep == IInv /\ [Next]_vars => CopyInv'
<1> SUFFICES ASSUME IInv, [Next]_vars PROVE CopyInv'
  OBVIOUS
<1> USE DEF CopyInv, memory, taskVars, readerVars
<1>1. /\ rpc \in [Readers -> {"idle", "take", "copy", "done", "failed"}]
      /\ want \in [Readers -> SUBSET Sensors]
      /\ todo \in [Readers -> SUBSET (Sensors \X Words)]
      /\ out \in [Readers -> [Sensors -> Record]]
  BY DEF IInv, TypeOK
<1>2. CopyInv  BY DEF IInv
<1>3. CASE Tick \/ TimerFires \/ UNCHANGED vars
  <2>1. UNCHANGED <<published, readerVars>>  BY <1>3 DEF Tick, TimerFires, vars
  <2> QED  BY <1>2, <2>1 DEF Cache!Whole, Cache!Calibrated, Cache!AlarmRight
<1>4. CASE SensorTaskStep /\ ~WriteTimestamp
  <2>1. UNCHANGED <<published, readerVars>>
    BY <1>4
    DEF SensorTaskStep, StartTimer, TestTrigger, ClearTrigger, BeginPoll, ReadFails,
        ReadSucceeds, EndPoll, TakeMutex, WriteRaw, WriteScaled, WriteState, GiveMutex,
        AlertTimeout
  <2> QED  BY <1>2, <2>1 DEF Cache!Whole, Cache!Calibrated, Cache!AlarmRight
<1>5. CASE WriteTimestamp
  <2>1. mutex = SensorTask  BY <1>5 DEF IInv, MutexInv, WriteTimestamp
  <2>2. \A r \in Readers : rpc[r] # "copy"  BY <2>1, ThreadsAssumption DEF IInv, MutexInv
  <2>3. UNCHANGED readerVars  BY <1>5 DEF WriteTimestamp
  <2> QED  BY <1>2, <2>2, <2>3 DEF Cache!Whole, Cache!Calibrated, Cache!AlarmRight
<1>6. ASSUME NEW r \in Readers, ReaderStep(r) PROVE CopyInv'
  <2> DEFINE Inv(x) ==
        /\ rpc[x] = "copy" => \A s \in want[x] :
              /\ <<s, "id_state">> \notin todo[x] => out[x][s].state = published[s].state
              /\ <<s, "raw_scaled">> \notin todo[x] => /\ out[x][s].raw = published[s].raw
                                                       /\ out[x][s].scaled = published[s].scaled
              /\ <<s, "ts">> \notin todo[x] => out[x][s].ts = published[s].ts
        /\ rpc[x] = "done" => \A s \in want[x] : Cache!Whole(out[x][s])
  <2>1. UNCHANGED published
    BY <1>6 DEF ReaderStep, GetCached, Refuse, GetSnapshot, Ask, Serve, ReaderTake,
                CopyWord, ReaderGive, Return
  <2>2. ASSUME NEW x \in Readers, x # r PROVE Inv(x)'
    <3>1. /\ rpc'[x] = rpc[x] /\ want'[x] = want[x]
          /\ todo'[x] = todo[x] /\ out'[x] = out[x]
      <4>1. CASE \E id \in 0 .. Count : GetCached(r, id) \/ Refuse(r, id)
        BY <1>1, <2>2, <4>1 DEF GetCached, Refuse, Ask
      <4>2. CASE GetSnapshot(r) \/ Serve(r)
        BY <1>1, <2>2, <4>2 DEF GetSnapshot, Ask, Serve, ReaderTake, CopyWord, ReaderGive, Return
      <4> QED  BY <1>6, <4>1, <4>2 DEF ReaderStep
    <3> QED  BY <1>2, <2>1, <3>1 DEF Cache!Whole, Cache!Calibrated, Cache!AlarmRight
  <2>3. Inv(r)'
    <3>1. CASE \/ GetSnapshot(r) \/ Return(r)
               \/ \E id \in 0 .. Count : GetCached(r, id) \/ Refuse(r, id)
      <4>1. rpc'[r] \in {"idle", "take", "failed"}
        BY <1>1, <3>1 DEF GetSnapshot, Return, GetCached, Refuse, Ask
      <4> QED  BY <4>1
    <3>2. CASE ReaderTake(r)
      <4>1. rpc'[r] = "copy" /\ want' = want /\ todo'[r] = want[r] \X Words
        BY <1>1, <3>2 DEF ReaderTake
      <4>2. \A s \in want'[r], w \in Words : <<s, w>> \in todo'[r]  BY <4>1
      <4> QED  BY <4>1, <4>2 DEF Words
    <3>3. CASE CopyWord(r)
      <4>1. PICK s \in Sensors, w \in Words :
              /\ todo' = [todo EXCEPT ![r] = @ \ {<<s, w>>}]
              /\ out' = [out EXCEPT ![r][s] = WithWord(@, s_cache[s], w)]
        BY <3>3 DEF CopyWord
      <4>2. rpc[r] = "copy" /\ UNCHANGED <<rpc, want>>  BY <3>3 DEF CopyWord
      <4>3. s_cache[s] = published[s]
        BY <4>2, ThreadsAssumption DEF IInv, MutexInv, MemoryInv
      <4>4. out'[r][s] = WithWord(out[r][s], published[s], w)  BY <1>1, <4>1, <4>3
      <4>5. \A t \in Sensors : t # s => out'[r][t] = out[r][t]  BY <1>1, <4>1
      <4>6. \A t \in Sensors, v \in Words :
              <<t, v>> \notin todo'[r] => <<t, v>> \notin todo[r] \/ (t = s /\ v = w)
        BY <1>1, <4>1
      <4>7. out[r][s] \in Record  BY <1>1
      <4>8. /\ w = "id_state" => out'[r][s].state = published[s].state
            /\ w # "id_state" => out'[r][s].state = out[r][s].state
            /\ w = "raw_scaled" => /\ out'[r][s].raw = published[s].raw
                                   /\ out'[r][s].scaled = published[s].scaled
            /\ w # "raw_scaled" => /\ out'[r][s].raw = out[r][s].raw
                                   /\ out'[r][s].scaled = out[r][s].scaled
            /\ w = "ts" => out'[r][s].ts = published[s].ts
            /\ w # "ts" => out'[r][s].ts = out[r][s].ts
        BY <4>4, <4>7 DEF WithWord, Record
      <4>9. want[r] \in SUBSET Sensors  BY <1>1
      <4> QED  BY <1>2, <2>1, <4>2, <4>5, <4>6, <4>8, <4>9 DEF Words
    <3>4. CASE ReaderGive(r)
      <4>1. rpc[r] = "copy" /\ todo[r] = {} /\ rpc'[r] = "done" /\ UNCHANGED <<want, out>>
        BY <1>1, <3>4 DEF ReaderGive
      <4>2. \A s \in want[r] : /\ out[r][s].state = published[s].state
                               /\ out[r][s].raw = published[s].raw
                               /\ out[r][s].scaled = published[s].scaled
        BY <1>2, <4>1
      <4>3. \A s \in want[r] : Cache!Whole(published[s])
        BY <1>1 DEF IInv, MemoryInv
      <4>4. \A s \in want[r] : Cache!Whole(out[r][s])
        BY <4>2, <4>3 DEF Cache!Whole, Cache!Calibrated, Cache!AlarmRight
      <4> QED  BY <4>1, <4>4 DEF Cache!Whole, Cache!Calibrated, Cache!AlarmRight
    <3> QED  BY <1>6, <3>1, <3>2, <3>3, <3>4 DEF ReaderStep, Serve
  <2> HIDE DEF Inv
  <2>4. \A x \in Readers : Inv(x)'  BY <2>2, <2>3
  <2> QED  BY <2>4 DEF Inv
<1> QED  BY <1>3, <1>4, <1>5, <1>6 DEF Next
-----------------------------------------------------------------------------
(* In every reachable state the cache is either unlocked and whole or      *)
(* being written by the sensor task alone: the inductive invariant.        *)
THEOREM Invariance == Spec => []IInv
<1>1. Init => IInv  BY InitInv
<1>2. IInv /\ [Next]_vars => IInv'
  BY TypeStep, MutexStep, MemoryStep, CopyStep DEF IInv
<1> QED  BY <1>1, <1>2, PTL DEF Spec

(* Every variable keeps its type, whatever the samples and the readers.    *)
THEOREM TypeCorrect == Spec => []TypeOK
<1>1. IInv => TypeOK  BY DEF IInv
<1> QED  BY <1>1, Invariance, PTL

(* No reader is ever handed a torn record or a wrong alarm state.          *)
THEOREM Coherence == Spec => []ServedCoherent
<1>1. IInv => ServedCoherent  BY DEF IInv, CopyInv, ServedCoherent
<1> QED  BY <1>1, Invariance, PTL
-----------------------------------------------------------------------------
(* The mapped value of SensorCache's variable result. *)
Result == [r \in Readers |-> IF rpc[r] = "done"
                             THEN [s \in want[r] |-> out[r][s]] ELSE Nothing]

(* Completing a time stamp publishes a record, giving the mutex back is    *)
(* the atomic read, returning forgets it; every other step is invisible.   *)
LEMMA RefinementStep ==
    IInv /\ IInv' /\ [Next]_vars => [Cache!Next]_(Cache!vars)
<1> SUFFICES ASSUME IInv, IInv', [Next]_vars
             PROVE  Cache!Next \/ UNCHANGED <<published, Result>>
  BY DEF Cache!vars, Result
<1> USE DEF memory, taskVars, readerVars
<1>1. /\ rpc \in [Readers -> {"idle", "take", "copy", "done", "failed"}]
      /\ want \in [Readers -> SUBSET Sensors]
      /\ out \in [Readers -> [Sensors -> Record]]
      /\ published \in [Sensors -> Record]
  BY DEF IInv, TypeOK
<1>2. CASE Tick \/ TimerFires \/ UNCHANGED vars
  BY <1>2 DEF Tick, TimerFires, vars, Result
<1>3. CASE SensorTaskStep /\ ~WriteTimestamp
  BY <1>3
  DEF SensorTaskStep, StartTimer, TestTrigger, ClearTrigger, BeginPoll, ReadFails,
      ReadSucceeds, EndPoll, TakeMutex, WriteRaw, WriteScaled, WriteState, GiveMutex,
      AlertTimeout, Result
<1>4. CASE WriteTimestamp
  <2>1. i \in Sensors  BY <1>4 DEF WriteTimestamp, IInv, TypeOK
  <2>2. s_cache = [published EXCEPT ![i] = s_cache[i]]
    BY <1>4, <2>1 DEF WriteTimestamp, IInv, TypeOK, MemoryInv
  <2>3. published' = [s_cache EXCEPT ![i].ts = tick] /\ UNCHANGED Result
    BY <1>4 DEF WriteTimestamp, Result
  <2>4. published' = [published EXCEPT ![i] = published'[i]]
    BY <1>1, <2>1, <2>2, <2>3 DEF IInv, TypeOK
  <2>5. published'[i] \in Record /\ Cache!Whole(published'[i])
    BY <2>1 DEF IInv, TypeOK, MemoryInv, Cache!Whole, Cache!Calibrated, Cache!AlarmRight
  <2>6. published'[i] \in Cache!Record
    BY <2>5 DEF Record, Cache!Record, Int16
  <2>7. Cache!Publish(i)
    BY <2>3, <2>4, <2>5, <2>6
    DEF Cache!Publish, Result, Cache!Whole, Cache!Calibrated, Cache!AlarmRight
  <2> QED  BY <2>1, <2>7 DEF Cache!Next
<1>5. ASSUME NEW r \in Readers, ReaderStep(r)
      PROVE  Cache!Next \/ UNCHANGED <<published, Result>>
  <2>1. UNCHANGED published
    BY <1>5 DEF ReaderStep, GetCached, Refuse, GetSnapshot, Ask, Serve, ReaderTake,
                CopyWord, ReaderGive, Return
  <2>2. CASE \/ GetSnapshot(r) \/ ReaderTake(r) \/ CopyWord(r)
             \/ \E id \in 0 .. Count : GetCached(r, id) \/ Refuse(r, id)
    <3>1. /\ \A x \in Readers : rpc'[x] = "done" <=> rpc[x] = "done"
          /\ \A x \in Readers : rpc[x] = "done" => want'[x] = want[x] /\ out'[x] = out[x]
      BY <1>1, <2>2 DEF GetSnapshot, Ask, ReaderTake, CopyWord, GetCached, Refuse
    <3> QED  BY <2>1, <3>1 DEF Result
  <2>3. CASE ReaderGive(r)
    <3> DEFINE W == want[r]
               Copy == [s \in W |-> out[r][s]]
               Now  == [s \in W |-> published[s]]
    <3>1. \A s \in W : out[r][s] = published[s]
      <4> SUFFICES ASSUME NEW s \in W PROVE out[r][s] = published[s]
        OBVIOUS
      <4>1. s \in Sensors  BY <1>1
      <4>2. out[r][s] \in Record /\ published[s] \in Record  BY <1>1, <4>1
      <4>3. /\ out[r][s].state = published[s].state /\ out[r][s].raw = published[s].raw
            /\ out[r][s].scaled = published[s].scaled /\ out[r][s].ts = published[s].ts
        BY <2>3 DEF ReaderGive, IInv, CopyInv
      <4> QED  BY <4>2, <4>3 DEF Record
    <3>2. Copy = Now  BY <3>1
    <3>3. rpc' = [rpc EXCEPT ![r] = "done"] /\ UNCHANGED <<want, out>>
      BY <2>3 DEF ReaderGive
    <3>4. Result' = [Result EXCEPT ![r] = Copy]  BY <1>1, <3>3 DEF Result
    <3>5. W \in SUBSET Sensors  BY <1>1
    <3>6. \E V \in SUBSET Sensors : Result' = [Result EXCEPT ![r] = [s \in V |-> published[s]]]
      BY <3>2, <3>4, <3>5
    <3>7. Cache!Read(r)  BY <2>1, <3>6 DEF Cache!Read, Result
    <3> QED  BY <3>7 DEF Cache!Next
  <2>4. CASE Return(r)
    <3>1. Result' = [Result EXCEPT ![r] = Nothing]  BY <1>1, <2>4 DEF Return, Result
    <3>2. Cache!Forget(r)  BY <2>1, <3>1 DEF Cache!Forget, Result
    <3> QED  BY <3>2 DEF Cache!Next
  <2> QED  BY <1>5, <2>2, <2>3, <2>4 DEF ReaderStep, Serve
<1> QED  BY <1>2, <1>3, <1>4, <1>5 DEF Next

(* The polling, locking and word by word copying implements a table whose  *)
(* records are replaced and read atomically.                               *)
THEOREM Refinement == Spec => ImplementsCache
<1>1. Init => Cache!Init
  BY DEF Init, Cache!Init, Zero, Cache!Zero
<1>2. IInv /\ IInv' /\ [Next]_vars => [Cache!Next]_(Cache!vars)
  BY RefinementStep
<1> QED  BY <1>1, <1>2, Invariance, PTL DEF Spec, Cache!Spec, ImplementsCache
-----------------------------------------------------------------------------
(* A timer firing stays recorded until a poll has begun after it. *)
THEOREM TriggerKept == Spec => []NoLostTrigger
<1>1. Init => NoLostTrigger
  BY DEF Init, NoLostTrigger
<1>2. TypeOK /\ NoLostTrigger /\ [Next]_vars => NoLostTrigger'
  <2> SUFFICES ASSUME TypeOK, NoLostTrigger, [Next]_vars PROVE NoLostTrigger'
    OBVIOUS
  <2> USE DEF NoLostTrigger, memory, taskVars, readerVars
  <2>1. owed \in BOOLEAN /\ s_poll_trigger \in BOOLEAN  BY DEF TypeOK
  <2>2. CASE TestTrigger
    <3>1. s_poll_trigger = TRUE => pc' = "clear"  BY <2>2 DEF TestTrigger
    <3>2. UNCHANGED <<owed, s_poll_trigger>> /\ pc = "test"  BY <2>2 DEF TestTrigger
    <3>3. owed = FALSE \/ s_poll_trigger = TRUE  BY <2>1, <3>2
    <3> QED  BY <3>1, <3>2, <3>3
  <2>5. CASE TimerFires
    BY <2>5 DEF TimerFires
  <2>6. CASE ClearTrigger
    <3>1. pc' = "begin"  BY <2>6 DEF ClearTrigger
    <3> QED  BY <3>1
  <2>7. CASE BeginPoll
    <3>1. owed' = FALSE  BY <2>7 DEF BeginPoll
    <3> QED  BY <3>1
  <2>3. CASE SensorTaskStep /\ ~(TestTrigger \/ ClearTrigger \/ BeginPoll)
    <3>1. UNCHANGED <<owed, s_poll_trigger>> /\ pc \notin {"clear", "begin"}
      BY <2>3
      DEF SensorTaskStep, StartTimer, ReadFails, ReadSucceeds, EndPoll, TakeMutex, WriteRaw,
          WriteScaled, WriteState, WriteTimestamp, GiveMutex, AlertTimeout
    <3> QED  BY <2>1, <3>1
  <2>4. CASE \/ Tick \/ UNCHANGED vars
             \/ \E r \in Readers : ReaderStep(r)
    <3>1. UNCHANGED <<owed, s_poll_trigger, pc>>
      BY <2>4 DEF Tick, vars, ReaderStep, GetCached, Refuse, GetSnapshot, Ask, Serve,
                  ReaderTake, CopyWord, ReaderGive, Return
    <3> QED  BY <2>1, <3>1
  <2> QED  BY <2>2, <2>3, <2>4, <2>5, <2>6, <2>7 DEF Next
<1> QED  BY <1>1, <1>2, TypeCorrect, PTL DEF Spec
=============================================================================
