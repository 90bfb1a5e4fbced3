------------------------------- MODULE BmcMgr -------------------------------
(***************************************************************************)
(* The BMC manager (components/bmc_mgr): the interrupts that post requests *)
(* and NIC events, the two queues, the task that waits, drains both,       *)
(* dispatches PLDM requests, answers them and watches for a silent BMC,    *)
(* with the system event log of the NIC general manager (SelLog) and the   *)
(* flash manager as FlashTask describes it, which may restart the whole    *)
(* controller in the middle of an update.                                  *)
(* A request is one block here; MctpRx has the reassembly of fragments,    *)
(* SensorMgr what happens inside sensor_mgr_get_cached, FlashMgr what      *)
(* becomes of a flash command.                                             *)
(***************************************************************************)
EXTENDS SelLog, RtosHal, Functions

CONSTANTS
    BmcDepth, NicDepth, FlashDepth,   \* QUEUE_DEPTH_BMC, _NIC_GEN, _FLASH
    LivenessTimeout,                  \* s_liveness_timeout_ms
    TickMod,                          \* modulus of the tick counter
    BMC, Eids,                        \* the BMC's endpoint, the values of a header byte
    RequestKinds,                     \* the kinds of blocks the BMC writes
    MaxBlocks, MaxAlerts,             \* bounds on the interrupts
    MaxRestarts                       \* bound on the restarts

ASSUME DepthAssumption == {BmcDepth, NicDepth, FlashDepth} \subseteq Nat \ {0}
ASSUME TimeAssumption  == LivenessTimeout \in Nat \ {0} /\ TickMod \in Nat /\ TickMod > LivenessTimeout
ASSUME EidAssumption   == BMC \in Eids
ASSUME BoundAssumption == MaxBlocks \in Nat /\ MaxAlerts \in Nat /\ MaxRestarts \in Nat
ASSUME EventAssumption == /\ {"HW_ERROR", "LIVENESS"} \subseteq EventTypes /\ 0 \in EventData
                          /\ 0 .. TickMod - 1 \subseteq Stamps

(* What dispatch_pldm tells apart, and blocks that complete no message. *)
Kinds == {"sensor", "no_sensor", "update", "unknown", "fragment"}

ASSUME KindAssumption == RequestKinds \subseteq Kinds

VARIABLES
    tick,
    bmc_rx_queue,           \* Seq of requests [id, kind]
    nic_event_queue,        \* Seq of event types
    flash_cmd_queue,        \* Seq of the ids of update requests
    flash_working,          \* the flash task carries out a command
    s_events,               \* bits set in the event group
    pc, msg, cc,            \* the task: next statement, request, completion code
    s_last_bmc_seen_ms,
    written,                \* history: blocks written
    alerts, hwLogged,       \* history: NIC events accepted, logged since the start
    silence,                \* history: time since the start or the last block drained
    posted,                 \* history: update requests posted to the flash queue
    begun,                  \* history: those the flash task has begun, in order
    swept,                  \* history: those that a restart swept away
    restarts,
    responses,              \* history: the answers transmitted
    resp_dest               \* the destination in the last answer's header

flash   == <<flash_cmd_queue, flash_working>>
queues  == <<bmc_rx_queue, nic_event_queue, s_events>>
task    == <<pc, msg, cc>>
time    == <<tick, s_last_bmc_seen_ms, silence>>
answers == <<responses, resp_dest>>
updates == <<posted, begun, swept, restarts>>
events  == <<alerts, hwLogged>>
vars == <<queues, flash, task, selVars, time, answers, written, events, updates>>

Flash == INSTANCE FlashTask
         WITH Depth <- FlashDepth, Commands <- 1 .. MaxBlocks,
              queue <- flash_cmd_queue, working <- flash_working

NoMsg == [id |-> 0, kind |-> "fragment"]

Init ==
    /\ bmc_rx_queue = <<>> /\ nic_event_queue = <<>> /\ s_events = {}
    /\ Flash!FlashInit
    /\ pc = "wait" /\ msg = NoMsg /\ cc = "SUCCESS"
    /\ tick = 0 /\ s_last_bmc_seen_ms = 0 /\ silence = 0
    /\ SelInit
    /\ written = 0 /\ alerts = 0 /\ hwLogged = 0
    /\ posted = {} /\ begun = <<>> /\ swept = {} /\ restarts = 0
    /\ responses = <<>> /\ resp_dest = BMC

-----------------------------------------------------------------------------
(* The environment: time, the two interrupts, the flash task.              *)

(* Bounded to less than one wrap of the counter without a request. *)
Tick ==
    /\ silence < TickMod - 1
    /\ tick' = (tick + 1) % TickMod /\ silence' = silence + 1
    /\ UNCHANGED <<queues, flash, task, selVars, s_last_bmc_seen_ms, answers, written, events,
                   updates>>

(* Mutant: urgent blocks are put at the front. *)
bmc_i2c_rx_isr_ToFront ==
    /\ written < MaxBlocks /\ written' = written + 1
    /\ IF HasRoom(bmc_rx_queue, BmcDepth)
       THEN \E kind \in RequestKinds :
                bmc_rx_queue' = <<[id |-> written', kind |-> kind]>> \o bmc_rx_queue
       ELSE UNCHANGED bmc_rx_queue
    /\ UNCHANGED <<nic_event_queue, s_events, flash, task, selVars, time, answers, events, updates>>

(* Neither interrupt sets a bit of the event group, or notices a full queue. *)
bmc_i2c_rx_isr ==
    /\ written < MaxBlocks /\ written' = written + 1
    /\ \E kind \in RequestKinds :
        bmc_rx_queue' = rtos_queue_send_from_isr(bmc_rx_queue, BmcDepth,
                                                 [id |-> written', kind |-> kind])
    /\ UNCHANGED <<nic_event_queue, s_events, flash, task, selVars, time, answers, events, updates>>

(* Alerts beyond a full queue leave nothing behind. *)
nic_alert_isr ==
    /\ alerts < MaxAlerts
    /\ nic_event_queue' = rtos_queue_send_from_isr(nic_event_queue, NicDepth, "HW_ERROR")
    /\ alerts' = IF HasRoom(nic_event_queue, NicDepth) THEN alerts + 1 ELSE alerts
    /\ UNCHANGED <<bmc_rx_queue, s_events, flash, task, selVars, time, answers, written,
                   hwLogged, updates>>

(* Mutant: the command is looked at and taken out when it is done. *)
FlashTaskTakes_Peek ==
    /\ ~flash_working /\ flash_cmd_queue # <<>>
    /\ flash_working' \in BOOLEAN /\ UNCHANGED flash_cmd_queue
    /\ begun' = Append(begun, Head(flash_cmd_queue))
    /\ UNCHANGED <<queues, task, selVars, time, answers, written, events, posted, swept, restarts>>

(* Mutant: the task returns after its first command. *)
FlashTaskTakes_Once ==
    /\ begun = <<>>
    /\ Flash!Take /\ begun' = Append(begun, Head(flash_cmd_queue))
    /\ UNCHANGED <<queues, task, selVars, time, answers, written, events, posted, swept, restarts>>

FlashTaskTakes ==
    /\ Flash!Take /\ begun' = Append(begun, Head(flash_cmd_queue))
    /\ UNCHANGED <<queues, task, selVars, time, answers, written, events, posted, swept, restarts>>

FlashTaskEnds ==
    /\ Flash!End
    /\ UNCHANGED <<queues, task, selVars, time, answers, written, events, updates>>

(* The image is read through a NULL pointer, the trap restarts the         *)
(* controller and app_main brings everything up anew: queues and log are   *)
(* empty, nothing tells the BMC.                                           *)
Restart ==
    /\ restarts < MaxRestarts /\ restarts' = restarts + 1
    /\ Flash!Restart /\ swept' = swept \cup Range(flash_cmd_queue)
    /\ bmc_rx_queue' = <<>> /\ nic_event_queue' = <<>> /\ s_events' = {}
    /\ pc' = "wait" /\ msg' = NoMsg /\ cc' = "SUCCESS"
    /\ tick' = 0 /\ s_last_bmc_seen_ms' = 0 /\ silence' = 0
    /\ nic_gen_mgr_init
    /\ alerts' = 0 /\ hwLogged' = 0
    /\ UNCHANGED <<answers, written, posted, begun>>

-----------------------------------------------------------------------------
(* bmc_mgr_task.                                                           *)

Awaited == {"BIT_BMC_RX", "BIT_NIC_EVENT"}

(* Mutant: the wait has no timeout. *)
EventWait_ForEver ==
    /\ pc = "wait" /\ pc' = "drain_bmc" /\ s_events # {}
    /\ s_events' = {}
    /\ UNCHANGED <<bmc_rx_queue, nic_event_queue, flash, msg, cc, selVars, time, answers,
                   written, events, updates>>

(* Returns when a bit is set or after a second. *)
EventWait ==
    /\ pc = "wait" /\ pc' = "drain_bmc"
    /\ s_events' = rtos_event_group_wait(s_events, Awaited)
    /\ UNCHANGED <<bmc_rx_queue, nic_event_queue, flash, msg, cc, selVars, time, answers,
                   written, events, updates>>

(* A block is drained and liveness noted; a fragment completes nothing. *)
DrainBmc ==
    /\ pc = "drain_bmc" /\ bmc_rx_queue # <<>>
    /\ bmc_rx_queue' = rtos_queue_receive(bmc_rx_queue)
    /\ s_last_bmc_seen_ms' = tick /\ silence' = 0
    /\ IF Head(bmc_rx_queue).kind = "fragment"
       THEN UNCHANGED <<pc, msg>>
       ELSE pc' = "dispatch" /\ msg' = Head(bmc_rx_queue)
    /\ UNCHANGED <<nic_event_queue, s_events, flash, cc, selVars, tick, answers,
                   written, events, updates>>

BmcDrained ==
    /\ pc = "drain_bmc" /\ bmc_rx_queue = <<>> /\ pc' = "drain_nic"
    /\ UNCHANGED <<queues, flash, msg, cc, selVars, time, answers, written, events, updates>>

(* dispatch_pldm of the requests that change nothing. *)
DispatchQuery ==
    /\ pc = "dispatch" /\ pc' = "respond" /\ msg.kind # "update"
    /\ cc' = CASE msg.kind = "sensor"    -> "SUCCESS"
               [] msg.kind = "no_sensor" -> "ERROR"
               [] OTHER                  -> "INVALID_CMD"
    /\ UNCHANGED <<queues, flash, msg, selVars, time, answers, written, events, updates>>

(* Mutant: a full queue is not noticed. *)
DispatchUpdate_AlwaysSuccess ==
    /\ pc = "dispatch" /\ pc' = "respond" /\ msg.kind = "update"
    /\ cc' = "SUCCESS"
    /\ flash_cmd_queue' = rtos_queue_send(flash_cmd_queue, FlashDepth, msg.id)
    /\ posted' = IF HasRoom(flash_cmd_queue, FlashDepth) THEN posted \cup {msg.id} ELSE posted
    /\ UNCHANGED <<queues, flash_working, msg, selVars, time, answers, written, events,
                   begun, swept, restarts>>

(* An update is posted without waiting; a full queue refuses it. *)
DispatchUpdate ==
    /\ pc = "dispatch" /\ pc' = "respond" /\ msg.kind = "update"
    /\ IF HasRoom(flash_cmd_queue, FlashDepth)
       THEN /\ Flash!Send(msg.id)
            /\ posted' = posted \cup {msg.id} /\ cc' = "SUCCESS"
       ELSE /\ UNCHANGED <<flash, posted>> /\ cc' = "ERROR"
    /\ UNCHANGED <<queues, msg, selVars, time, answers, written, events, begun, swept, restarts>>

(* pldm_build_response leaves the header of the packet uninitialized, so   *)
(* its destination is whatever the stack held; a failed transmission is    *)
(* not noticed.  The request and the completion code are locals: gone.     *)
protocol_hdlr_send_response ==
    /\ pc = "respond" /\ pc' = "drain_bmc" /\ msg' = NoMsg /\ cc' = "SUCCESS"
    /\ \/ /\ responses' = Append(responses, [id |-> msg.id, kind |-> msg.kind, cc |-> cc])
          /\ resp_dest' \in Eids
       \/ UNCHANGED answers
    /\ UNCHANGED <<queues, flash, selVars, time, written, events, updates>>

(* Mutant: the event is logged and left in the queue. *)
handle_nic_event_Peek ==
    /\ pc = "drain_nic" /\ nic_event_queue # <<>>
    /\ nic_gen_mgr_log_sel_event(Head(nic_event_queue), 0, tick)
    /\ hwLogged' = hwLogged + 1
    /\ UNCHANGED <<queues, flash, task, time, answers, written, alerts, updates>>

handle_nic_event ==
    /\ pc = "drain_nic" /\ nic_event_queue # <<>>
    /\ nic_event_queue' = rtos_queue_receive(nic_event_queue)
    /\ nic_gen_mgr_log_sel_event(Head(nic_event_queue), 0, tick)
    /\ hwLogged' = hwLogged + 1
    /\ UNCHANGED <<bmc_rx_queue, s_events, flash, task, time, answers, written, alerts, updates>>

NicDrained ==
    /\ pc = "drain_nic" /\ nic_event_queue = <<>> /\ pc' = "check"
    /\ UNCHANGED <<queues, flash, msg, cc, selVars, time, answers, written, events, updates>>

(* Mutant: the deadline is compared instead of the elapsed time. *)
liveness_check_Absolute == tick < s_last_bmc_seen_ms + LivenessTimeout

liveness_check == (tick - s_last_bmc_seen_ms) % TickMod < LivenessTimeout

CheckLiveness ==
    /\ pc = "check" /\ pc' = "wait"
    /\ IF liveness_check THEN UNCHANGED selVars
       ELSE nic_gen_mgr_log_sel_event("LIVENESS", 0, tick)
    /\ UNCHANGED <<queues, flash, msg, cc, time, answers, written, events, updates>>

bmc_mgr_task ==
    \/ EventWait \/ DrainBmc \/ BmcDrained \/ DispatchQuery \/ DispatchUpdate
    \/ protocol_hdlr_send_response \/ handle_nic_event \/ NicDrained \/ CheckLiveness

Next == \/ Tick \/ bmc_i2c_rx_isr \/ nic_alert_isr
        \/ FlashTaskTakes \/ FlashTaskEnds \/ Restart \/ bmc_mgr_task

Spec == Init /\ [][Next]_vars

(* The task has the highest priority and its wait ends after a second; the *)
(* flash task is as FlashTask promises.                                    *)
FairSpec == /\ Spec /\ WF_vars(bmc_mgr_task)
            /\ WF_vars(FlashTaskTakes) /\ WF_vars(FlashTaskEnds \/ Restart)

-----------------------------------------------------------------------------
(* Properties.                                                             *)

Requests == [id : 0 .. MaxBlocks, kind : Kinds]
Codes    == {"SUCCESS", "ERROR", "INVALID_CMD"}
Answers  == [id : 1 .. MaxBlocks, kind : Kinds, cc : Codes]

(* Types; no queue grows past its depth. *)
TypeOK ==
    /\ tick \in 0 .. TickMod - 1 /\ s_last_bmc_seen_ms \in 0 .. TickMod - 1
    /\ silence \in 0 .. TickMod - 1
    /\ bmc_rx_queue \in Seq(Requests) /\ Len(bmc_rx_queue) <= BmcDepth
    /\ nic_event_queue \in Seq({"HW_ERROR"}) /\ Len(nic_event_queue) <= NicDepth
    /\ flash_cmd_queue \in Seq(1 .. MaxBlocks) /\ Len(flash_cmd_queue) <= FlashDepth
    /\ flash_working \in BOOLEAN /\ s_events \subseteq Awaited
    /\ pc \in {"wait", "drain_bmc", "dispatch", "respond", "drain_nic", "check"}
    /\ msg \in Requests /\ cc \in Codes
    /\ SelTypeOK
    /\ written \in 0 .. MaxBlocks /\ alerts \in 0 .. MaxAlerts /\ hwLogged \in Nat
    /\ posted \subseteq 1 .. MaxBlocks /\ swept \subseteq 1 .. MaxBlocks
    /\ begun \in Seq(1 .. MaxBlocks) /\ restarts \in 0 .. MaxRestarts
    /\ responses \in Seq(Answers) /\ resp_dest \in Eids

(* No request is answered twice and answers never overtake one another,    *)
(* through lost blocks, full queues, failed transmissions and restarts; a  *)
(* request still queued has not been answered.                             *)
AnsweredInOrder ==
    /\ \A j, k \in 1 .. Len(responses) : j < k => responses[j].id < responses[k].id
    /\ \A j \in 1 .. Len(responses), k \in 1 .. Len(bmc_rx_queue) :
            responses[j].id < bmc_rx_queue[k].id

(* An update request is answered with success exactly if its command was   *)
(* posted to the flash manager.                                            *)
UpdateAnswerTrue ==
    \A j \in 1 .. Len(responses) :
        responses[j].kind = "update" =>
            (responses[j].cc = "SUCCESS" <=> responses[j].id \in posted)

(* An accepted update is begun once and in the order of acceptance, or it  *)
(* still waits; only a restart of the controller takes any away, and only  *)
(* those that waited.                                                      *)
UpdatesAccounted ==
    /\ posted = Range(begun) \cup Range(flash_cmd_queue) \cup swept
    /\ \A j, k \in 1 .. Len(begun) : j < k => begun[j] < begun[k]
    /\ \A k \in 1 .. Len(flash_cmd_queue) :
            flash_cmd_queue[k] \notin Range(begun) \cup swept
    /\ Range(begun) \cap swept = {}
    /\ swept # {} => restarts > 0

(* Every NIC alert accepted since the start is either still queued or was  *)
(* logged, once.                                                           *)
AlertsAccounted == alerts = Len(nic_event_queue) + hwLogged

(* A check logs a liveness entry exactly if no block has been drained for  *)
(* the timeout, also when the tick counter wraps in between.               *)
LivenessExact ==
    [][CheckLiveness => (s_sel_head' # s_sel_head <=> silence >= LivenessTimeout)]_vars

(* Every accepted update is begun in the end, whatever the BMC does, or    *)
(* swept away by a restart.                                                *)
UpdatesBegun ==
    \A id \in 1 .. MaxBlocks : id \in posted ~> id \in Range(begun) \cup swept

(* Once the interrupts fall silent, every request and every event is       *)
(* drained from its queue.                                                 *)
QueuesDrained ==
    /\ bmc_rx_queue # <<>> ~> bmc_rx_queue = <<>>
    /\ nic_event_queue # <<>> ~> nic_event_queue = <<>>

(* Bytes that have arrived from the BMC set the bit the task waits for. *)
ArrivalSetsBit == pc = "wait" /\ bmc_rx_queue # <<>> => "BIT_BMC_RX" \in s_events

(* Every response goes back to the BMC. *)
ResponseToBmc == resp_dest = BMC
=============================================================================
