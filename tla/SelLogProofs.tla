---------------------------- MODULE SelLogProofs ----------------------------
(***************************************************************************)
(* The circular buffer implements the event log, whatever its capacity.    *)
(***************************************************************************)
EXTENDS SelLog, TLAPS

(* The write index wraps around at the end of the buffer. *)
LEMMA HeadWraps ==
    ASSUME NEW n \in Nat, n > 0, NEW h \in 0 .. n - 1
    PROVE  (h + 1) % n = IF h + 1 = n THEN 0 ELSE h + 1
<1>1. CASE h + 1 = n
  <2>1. n % n = 0  OBVIOUS
  <2> QED  BY <1>1, <2>1
<1>2. CASE h + 1 < n
  <2>1. \A q \in Int, m \in Int : 0 <= q /\ q < m => q % m = q  OBVIOUS
  <2> QED  BY <1>2, <2>1
<1> QED  BY <1>1, <1>2

(* Until the buffer is full it is filled from its first slot on. *)
SelInv == /\ SelTypeOK
          /\ s_sel_count < SEL_MAX_ENTRIES => s_sel_head = s_sel_count

(* Every slot in use differs from the write slot, except the oldest entry  *)
(* of a full buffer, and one more entry moves every other one down.        *)
LEMMA Slotting ==
    ASSUME SelInv
    PROVE  /\ \A k \in 1 .. s_sel_count : SlotOf(k) \in Slots
           /\ s_sel_count < SEL_MAX_ENTRIES =>
                \A k \in 1 .. s_sel_count : SlotOf(k) = k - 1
           /\ s_sel_count = SEL_MAX_ENTRIES => SlotOf(1) = s_sel_head
BY SelAssumption DEF SelInv, SelTypeOK, Slots, SlotOf

LEMMA SelStart == (SelInit => SelInv) /\ (nic_gen_mgr_init => SelInv')
BY SelAssumption DEF SelInit, nic_gen_mgr_init, SelInv, SelTypeOK, Slots

(* What one logged event does to the index and the count. *)
LEMMA SelStep ==
    ASSUME SelInv, NEW type \in EventTypes, NEW data \in EventData, NEW now \in Stamps,
           nic_gen_mgr_log_sel_event(type, data, now)
    PROVE  /\ SelInv'
           /\ s_sel_head' = IF s_sel_head + 1 = SEL_MAX_ENTRIES THEN 0 ELSE s_sel_head + 1
<1> DEFINE e == [event_type |-> type, event_data |-> data, timestamp_ms |-> now]
<1>1. e \in Entries  BY DEF Entries
<1> HIDE DEF e
<1>2. SEL_MAX_ENTRIES \in Nat /\ SEL_MAX_ENTRIES > 0  BY SelAssumption
<1>3. s_sel_head' = IF s_sel_head + 1 = SEL_MAX_ENTRIES THEN 0 ELSE s_sel_head + 1
  BY <1>2, HeadWraps DEF SelInv, SelTypeOK, Slots, nic_gen_mgr_log_sel_event
<1>4. s_sel_log' = [s_sel_log EXCEPT ![s_sel_head] = e]
  BY DEF nic_gen_mgr_log_sel_event, e
<1>5. s_sel_log' \in [Slots -> Entries \cup {Blank}]
  BY <1>1, <1>4 DEF SelInv, SelTypeOK
<1>6. /\ s_sel_head' \in Slots /\ s_sel_count' \in 0 .. SEL_MAX_ENTRIES
      /\ s_sel_count' < SEL_MAX_ENTRIES => s_sel_head' = s_sel_count'
  BY <1>2, <1>3 DEF SelInv, SelTypeOK, Slots, nic_gen_mgr_log_sel_event
<1> QED  BY <1>3, <1>5, <1>6 DEF SelInv, SelTypeOK

(* The buffer is well formed in every reachable state. *)
THEOREM SelInvariance == SelSpec => []SelInv
<1>1. SelInv /\ [SelNext]_selVars => SelInv'
  <2> SUFFICES ASSUME SelInv, [SelNext]_selVars PROVE SelInv'
    OBVIOUS
  <2>1. CASE SelNext  BY <2>1, SelStep, SelStart DEF SelNext
  <2>2. CASE UNCHANGED selVars  BY <2>2 DEF selVars, SelInv, SelTypeOK
  <2> QED  BY <2>1, <2>2
<1> QED  BY <1>1, SelStart, PTL DEF SelSpec

(* Index, count and slots of the log keep their types.                     *)
THEOREM SelTypeCorrect == SelSpec => []SelTypeOK
<1>1. SelInv => SelTypeOK  BY DEF SelInv
<1> QED  BY <1>1, SelInvariance, PTL
-----------------------------------------------------------------------------
(* The mapped value of EventLog's variable events. *)
Events == [k \in 1 .. s_sel_count |-> s_sel_log[SlotOf(k)]]

(* Logging an event appends it and drops at most the oldest one. *)
LEMMA LogStep ==
    ASSUME SelInv, NEW type \in EventTypes, NEW data \in EventData, NEW now \in Stamps,
           nic_gen_mgr_log_sel_event(type, data, now)
    PROVE  Log!Next
<1> DEFINE e == [event_type |-> type, event_data |-> data, timestamp_ms |-> now]
<1>1. e \in Entries  BY DEF Entries
<1>2. s_sel_log' = [s_sel_log EXCEPT ![s_sel_head] = e]
  BY DEF nic_gen_mgr_log_sel_event
<1> HIDE DEF e
<1>3. /\ SEL_MAX_ENTRIES \in Nat /\ SEL_MAX_ENTRIES > 0
      /\ s_sel_head \in Slots /\ s_sel_count \in 0 .. SEL_MAX_ENTRIES
      /\ s_sel_log \in [Slots -> Entries \cup {Blank}]
  BY SelAssumption DEF SelInv, SelTypeOK
<1>4. /\ SelInv'
      /\ s_sel_head' = IF s_sel_head + 1 = SEL_MAX_ENTRIES THEN 0 ELSE s_sel_head + 1
  BY SelStep
<1>5. Len(Events) = s_sel_count
  BY <1>3 DEF Events
<1>6. CASE s_sel_count < SEL_MAX_ENTRIES
  <2>1. s_sel_count' = s_sel_count + 1 /\ s_sel_head = s_sel_count
    BY <1>6 DEF SelInv, nic_gen_mgr_log_sel_event
  <2>2. \A k \in 1 .. s_sel_count : SlotOf(k) = k - 1  BY <1>6, Slotting
  <2>3. \A k \in 1 .. s_sel_count + 1 : SlotOf(k)' = k - 1
    BY <1>3, <1>4, <1>6, <2>1 DEF SlotOf, Slots
  <2>4. \A k \in 1 .. s_sel_count + 1 :
            s_sel_log'[k - 1] = IF k <= s_sel_count THEN s_sel_log[k - 1] ELSE e
    BY <1>2, <1>3, <1>6, <2>1 DEF Slots
  <2>5. Events' = [k \in 1 .. s_sel_count + 1 |->
                      IF k <= s_sel_count THEN Events[k] ELSE e]
    BY <1>3, <2>1, <2>2, <2>3, <2>4 DEF Events
  <2> QED  BY <1>1, <1>5, <1>6, <2>5 DEF Log!Next, Log!Log, Events
<1>7. CASE s_sel_count = SEL_MAX_ENTRIES
  <2>1. s_sel_count' = s_sel_count  BY <1>3, <1>7 DEF nic_gen_mgr_log_sel_event
  <2>2. /\ \A k \in 1 .. SEL_MAX_ENTRIES - 1 : SlotOf(k)' = SlotOf(k + 1)
        /\ SlotOf(SEL_MAX_ENTRIES)' = s_sel_head
        /\ \A k \in 2 .. SEL_MAX_ENTRIES : SlotOf(k) # s_sel_head /\ SlotOf(k) \in Slots
    BY <1>3, <1>4, <1>7, <2>1 DEF SlotOf, Slots
  <2>3. Events' = [k \in 1 .. SEL_MAX_ENTRIES |->
                      IF k < SEL_MAX_ENTRIES THEN Events[k + 1] ELSE e]
    <3> SUFFICES ASSUME NEW k \in 1 .. SEL_MAX_ENTRIES
                 PROVE  s_sel_log'[SlotOf(k)'] = IF k < SEL_MAX_ENTRIES THEN Events[k + 1] ELSE e
      BY <1>7, <2>1 DEF Events
    <3>1. CASE k < SEL_MAX_ENTRIES
      <4>1. k \in 1 .. SEL_MAX_ENTRIES - 1 /\ k + 1 \in 2 .. SEL_MAX_ENTRIES
        BY <1>3, <3>1
      <4>2. s_sel_log'[SlotOf(k)'] = s_sel_log[SlotOf(k + 1)]
        BY <1>2, <1>3, <2>2, <4>1
      <4> QED  BY <1>7, <3>1, <4>1, <4>2 DEF Events
    <3>2. CASE k = SEL_MAX_ENTRIES
      BY <1>2, <1>3, <2>2, <3>2
    <3> QED  BY <1>3, <3>1, <3>2
  <2>4. ~(Len(Events) < SEL_MAX_ENTRIES)  BY <1>3, <1>5, <1>7
  <2>5. Log!Log(e)  BY <2>3, <2>4 DEF Log!Log, Events
  <2> QED  BY <1>1, <2>5 DEF Log!Next
<1> QED  BY <1>3, <1>6, <1>7

(* The circular buffer with its two counters behaves as a log that keeps   *)
(* the latest SEL_MAX_ENTRIES events, for every capacity the index allows. *)
THEOREM LogRefinement == SelSpec => ImplementsLog
<1>1. SelInit => Log!Init
  BY DEF SelInit, Log!Init
<1>2. SelInv /\ [SelNext]_selVars => [Log!Next]_Events
  <2> SUFFICES ASSUME SelInv, [SelNext]_selVars PROVE Log!Next \/ UNCHANGED Events
    OBVIOUS
  <2>1. CASE nic_gen_mgr_init
    <3>1. Events' = <<>>  BY <2>1 DEF nic_gen_mgr_init, Events
    <3> QED  BY <3>1 DEF Log!Next, Log!Clear, Events
  <2>2. CASE SelNext  BY <2>1, <2>2, LogStep DEF SelNext
  <2>3. CASE UNCHANGED selVars  BY <2>3 DEF selVars, Events, SlotOf
  <2> QED  BY <2>2, <2>3
<1> QED  BY <1>1, <1>2, SelInvariance, PTL DEF SelSpec, ImplementsLog, Log!Spec, Events
=============================================================================
