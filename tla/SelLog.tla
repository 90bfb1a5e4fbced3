------------------------------- MODULE SelLog -------------------------------
(***************************************************************************)
(* The system event log of the NIC general manager: a circular buffer of   *)
(* SEL_MAX_ENTRIES entries, its write index and its fill count.  It has no *)
(* lock: every caller runs in the BMC manager's thread.                    *)
(***************************************************************************)
EXTENDS Integers, Sequences

CONSTANTS SEL_MAX_ENTRIES,
          EventTypes, EventData, Stamps    \* what an entry may hold

ASSUME SelAssumption == SEL_MAX_ENTRIES \in 1 .. 255    \* the index is a uint8_t

VARIABLES s_sel_log, s_sel_head, s_sel_count

selVars == <<s_sel_log, s_sel_head, s_sel_count>>

Slots   == 0 .. SEL_MAX_ENTRIES - 1
Entries == [event_type : EventTypes, event_data : EventData, timestamp_ms : Stamps]

CONSTANT Blank      \* an entry of zeroes, which no caller ever logs

SelInit ==
    /\ s_sel_log = [k \in Slots |-> Blank]
    /\ s_sel_head = 0 /\ s_sel_count = 0

(* The log is in RAM: a restart of the controller empties it. *)
nic_gen_mgr_init ==
    /\ s_sel_log' = [k \in Slots |-> Blank]
    /\ s_sel_head' = 0 /\ s_sel_count' = 0

(* Mutants: the count has no limit; the index wraps one slot too early. *)
log_sel_event_Unlimited(event_type, event_data, now) ==
    /\ s_sel_log' = [s_sel_log EXCEPT ![s_sel_head] =
                        [event_type   |-> event_type,
                         event_data   |-> event_data,
                         timestamp_ms |-> now]]
    /\ s_sel_head' = (s_sel_head + 1) % SEL_MAX_ENTRIES
    /\ s_sel_count' = s_sel_count + 1

log_sel_event_ShortWrap(event_type, event_data, now) ==
    /\ s_sel_log' = [s_sel_log EXCEPT ![s_sel_head] =
                        [event_type   |-> event_type,
                         event_data   |-> event_data,
                         timestamp_ms |-> now]]
    /\ s_sel_head' = (s_sel_head + 1) % (SEL_MAX_ENTRIES - 1)
    /\ s_sel_count' = IF s_sel_count < SEL_MAX_ENTRIES THEN s_sel_count + 1 ELSE s_sel_count

nic_gen_mgr_log_sel_event(event_type, event_data, now) ==
    /\ s_sel_log' = [s_sel_log EXCEPT ![s_sel_head] =
                        [event_type   |-> event_type,
                         event_data   |-> event_data,
                         timestamp_ms |-> now]]
    /\ s_sel_head' = (s_sel_head + 1) % SEL_MAX_ENTRIES
    /\ s_sel_count' = IF s_sel_count < SEL_MAX_ENTRIES THEN s_sel_count + 1 ELSE s_sel_count

(* NIC events, resets and liveness entries all come through here. *)
SelNext ==
    \/ \E type \in EventTypes, data \in EventData, now \in Stamps :
            nic_gen_mgr_log_sel_event(type, data, now)
    \/ nic_gen_mgr_init

SelSpec == SelInit /\ [][SelNext]_selVars

-----------------------------------------------------------------------------
(* The index is a slot; the slots in use hold entries, the others blanks.  *)
SelTypeOK == /\ s_sel_log \in [Slots -> Entries \cup {Blank}]
             /\ s_sel_head \in Slots
             /\ s_sel_count \in 0 .. SEL_MAX_ENTRIES

(* The slot of the k-th oldest entry of the log. *)
SlotOf(k) ==
    LET n == s_sel_head - s_sel_count + k - 1
    IN  IF n < 0 THEN n + SEL_MAX_ENTRIES ELSE n

Log == INSTANCE EventLog
       WITH Capacity <- SEL_MAX_ENTRIES,
            events <- [k \in 1 .. s_sel_count |-> s_sel_log[SlotOf(k)]]

(* Read from s_sel_count entries behind the write index, the buffer is a   *)
(* log of the latest events: wrapping around loses only the oldest one.    *)
ImplementsLog == Log!Spec
=============================================================================
