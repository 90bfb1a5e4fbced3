---------------------------- MODULE BmcMgrProofs ----------------------------
(***************************************************************************)
(* Proofs about BmcMgr, for every depth of the queues, every timeout and   *)
(* counter width, and any number of blocks, alerts and restarts.           *)
(***************************************************************************)
EXTENDS BmcMgr, SelLogProofs

(* The tuples of unchanged variables stand in every action. *)
USE DEF vars, flash, queues, task, time, answers, updates, events, selVars

-----------------------------------------------------------------------------
(* The queues.                                                             *)

(* A full queue stays as it is, any other gets the item at its end. *)
LEMMA Sent ==
    ASSUME NEW S, NEW q \in Seq(S), NEW item \in S, NEW depth \in Nat, Len(q) <= depth,
           NEW r, r = rtos_queue_send(q, depth, item) \/ r = rtos_queue_send_from_isr(q, depth, item)
    PROVE  /\ r \in Seq(S) /\ Len(r) <= depth
           /\ \/ r = q /\ Len(q) = depth
              \/ /\ r = Append(q, item) /\ Len(r) = Len(q) + 1 /\ Len(q) < depth
                 /\ \A k \in 1 .. Len(r) : \/ k \in 1 .. Len(q) /\ r[k] = q[k]
                                           \/ k = Len(r) /\ r[k] = item
<1>1. CASE HasRoom(q, depth)
  <2>1. r = Append(q, item) /\ Len(q) < depth
    BY <1>1 DEF rtos_queue_send, rtos_queue_send_from_isr, HasRoom
  <2>2. /\ Append(q, item) \in Seq(S) /\ Len(Append(q, item)) = Len(q) + 1 /\ Len(q) \in Nat
        /\ \A k \in 1 .. Len(q) : Append(q, item)[k] = q[k]
        /\ Append(q, item)[Len(q) + 1] = item
    OBVIOUS
  <2>3. \A k \in 1 .. Len(q) + 1 : k \in 1 .. Len(q) \/ k = Len(q) + 1  BY <2>2
  <2> QED  BY <2>1, <2>2, <2>3
<1>2. CASE ~HasRoom(q, depth)
  <2>1. r = q  BY <1>2 DEF rtos_queue_send, rtos_queue_send_from_isr
  <2>2. Len(q) = depth  BY <1>2 DEF HasRoom
  <2> QED  BY <2>1, <2>2
<1> QED  BY <1>1, <1>2

(* The oldest item leaves a queue, the others keep their order. *)
LEMMA Received ==
    ASSUME NEW S, NEW q \in Seq(S), q # <<>>,
           NEW r, r = rtos_queue_receive(q)
    PROVE  /\ r \in Seq(S) /\ Len(r) = Len(q) - 1 /\ Len(q) > 0
           /\ Head(q) = q[1] /\ q[1] \in S
           /\ \A k \in 1 .. Len(r) : k + 1 \in 1 .. Len(q) /\ r[k] = q[k + 1]
BY DEF rtos_queue_receive

LEMMA Empty == ASSUME NEW S PROVE <<>> \in Seq(S) /\ Len(<<>>) = 0 /\ Range(<<>>) = {}
BY DEF Range

LEMMA RangeTyped == ASSUME NEW S, NEW q \in Seq(S) PROVE Range(q) \subseteq S
<1>1. DOMAIN q = 1 .. Len(q) /\ \A k \in 1 .. Len(q) : q[k] \in S  OBVIOUS
<1> QED  BY <1>1 DEF Range

LEMMA RangeAppend ==
    ASSUME NEW S, NEW q \in Seq(S), NEW item \in S
    PROVE  Range(Append(q, item)) = Range(q) \cup {item}
<1> DEFINE r == Append(q, item)
<1>1. /\ DOMAIN q = 1 .. Len(q) /\ DOMAIN r = 1 .. Len(q) + 1
      /\ \A k \in 1 .. Len(q) : r[k] = q[k]
      /\ r[Len(q) + 1] = item /\ Len(q) \in Nat
  OBVIOUS
<1> HIDE DEF r
<1>2. Range(r) \subseteq Range(q) \cup {item}  BY <1>1 DEF Range
<1>3. Range(q) \cup {item} \subseteq Range(r)  BY <1>1 DEF Range
<1> QED  BY <1>2, <1>3 DEF r

LEMMA RangeTail ==
    ASSUME NEW S, NEW q \in Seq(S), q # <<>>
    PROVE  Range(q) = {Head(q)} \cup Range(Tail(q))
<1>1. \A k \in 1 .. Len(q) : q[k] = Head(q) \/ \E j \in 1 .. Len(Tail(q)) : q[k] = Tail(q)[j]
  <2> SUFFICES ASSUME NEW k \in 1 .. Len(q), k # 1
               PROVE  \E j \in 1 .. Len(Tail(q)) : q[k] = Tail(q)[j]
    OBVIOUS
  <2>1. k - 1 \in 1 .. Len(Tail(q)) /\ q[k] = Tail(q)[k - 1]  OBVIOUS
  <2> QED  BY <2>1
<1>2. Head(q) = q[1] /\ 1 \in 1 .. Len(q)  OBVIOUS
<1>3. \A j \in 1 .. Len(Tail(q)) : j + 1 \in 1 .. Len(q) /\ Tail(q)[j] = q[j + 1]  OBVIOUS
<1>4. DOMAIN q = 1 .. Len(q) /\ DOMAIN Tail(q) = 1 .. Len(Tail(q))  OBVIOUS
<1>5. Range(q) \subseteq {Head(q)} \cup Range(Tail(q))  BY <1>1, <1>4 DEF Range
<1>6. {Head(q)} \cup Range(Tail(q)) \subseteq Range(q)  BY <1>2, <1>3, <1>4 DEF Range
<1> QED  BY <1>5, <1>6

-----------------------------------------------------------------------------
(* Types.                                                                  *)

(* What the types rest on: the log is well formed, and the number of a     *)
(* block that has been written is never zero.                              *)
TypeInv ==
    /\ TypeOK /\ SelInv
    /\ \A k \in 1 .. Len(bmc_rx_queue) : bmc_rx_queue[k].id # 0
    /\ pc \in {"dispatch", "respond"} => msg.id # 0

LEMMA Depths ==
    /\ BmcDepth \in Nat /\ NicDepth \in Nat /\ FlashDepth \in Nat
    /\ MaxBlocks \in Nat /\ MaxAlerts \in Nat /\ MaxRestarts \in Nat
    /\ TickMod \in Nat /\ TickMod > 0 /\ LivenessTimeout \in Nat /\ LivenessTimeout < TickMod
BY DepthAssumption, BoundAssumption, TimeAssumption

LEMMA Idle == NoMsg \in Requests /\ "SUCCESS" \in Codes /\ 0 \in 0 .. TickMod - 1
BY Depths DEF NoMsg, Requests, Kinds, Codes

LEMMA TypeStart == Init => TypeInv
<1> SUFFICES ASSUME Init PROVE TypeInv
  OBVIOUS
<1>1. SelInv /\ SelTypeOK  BY SelStart DEF Init, SelInv
<1>2. /\ bmc_rx_queue \in Seq(Requests) /\ Len(bmc_rx_queue) = 0
      /\ nic_event_queue \in Seq({"HW_ERROR"}) /\ Len(nic_event_queue) = 0
      /\ flash_cmd_queue \in Seq(1 .. MaxBlocks) /\ Len(flash_cmd_queue) = 0
      /\ begun \in Seq(1 .. MaxBlocks) /\ responses \in Seq(Answers)
  BY Empty DEF Init, Flash!FlashInit
<1>3. /\ tick \in 0 .. TickMod - 1 /\ s_last_bmc_seen_ms \in 0 .. TickMod - 1
      /\ silence \in 0 .. TickMod - 1
      /\ written \in 0 .. MaxBlocks /\ alerts \in 0 .. MaxAlerts /\ hwLogged \in Nat
      /\ restarts \in 0 .. MaxRestarts /\ posted = {} /\ swept = {}
  BY Depths DEF Init
<1>4. /\ flash_working \in BOOLEAN /\ s_events = {} /\ pc = "wait"
      /\ msg \in Requests /\ cc \in Codes /\ resp_dest \in Eids
  BY Idle, EidAssumption DEF Init, Flash!FlashInit
<1>5. TypeOK  BY <1>1, <1>2, <1>3, <1>4, Depths DEF TypeOK
<1> QED  BY <1>1, <1>2, <1>4, <1>5 DEF TypeInv

(* The entries the task logs are well formed. *)
LEMMA Logged ==
    ASSUME TypeInv, NEW type \in {"HW_ERROR", "LIVENESS"},
           nic_gen_mgr_log_sel_event(type, 0, tick)
    PROVE  SelInv' /\ SelTypeOK' /\ SelNext
<1>1. type \in EventTypes /\ 0 \in EventData /\ tick \in Stamps
  BY EventAssumption DEF TypeInv, TypeOK
<1>2. SelInv'  BY <1>1, SelStep DEF TypeInv
<1> QED  BY <1>1, <1>2 DEF SelNext, SelInv

(* The answer to the request in hand. *)
LEMMA Answering ==
    ASSUME TypeInv, pc = "respond"
    PROVE  [id |-> msg.id, kind |-> msg.kind, cc |-> cc] \in Answers
<1>1. msg \in Requests /\ msg.id # 0 /\ cc \in Codes  BY DEF TypeInv, TypeOK
<1>2. msg.id \in 1 .. MaxBlocks /\ msg.kind \in Kinds  BY <1>1, Depths DEF Requests
<1> QED  BY <1>1, <1>2 DEF Answers

LEMMA TypeStep == TypeInv /\ [Next]_vars => TypeInv'
<1> SUFFICES ASSUME TypeInv, [Next]_vars PROVE TypeInv'
  OBVIOUS
<1> USE Depths
<1>sel. UNCHANGED <<s_sel_log, s_sel_head, s_sel_count>> => SelInv' /\ SelTypeOK'
  BY DEF TypeInv, SelInv, SelTypeOK
<1>1. CASE Tick
  <2>1. tick' \in 0 .. TickMod - 1
    <3>1. tick \in 0 .. TickMod - 1 /\ tick' = (tick + 1) % TickMod
      BY <1>1 DEF Tick, TypeInv, TypeOK
    <3>2. tick' = IF tick + 1 = TickMod THEN 0 ELSE tick + 1  BY <3>1, HeadWraps
    <3> QED  BY <3>1, <3>2
  <2>2. silence' \in 0 .. TickMod - 1  BY <1>1 DEF Tick, TypeInv, TypeOK
  <2>3. UNCHANGED <<queues, flash, task, selVars, s_last_bmc_seen_ms, answers, written, events,
                    updates>>
    BY <1>1 DEF Tick
  <2>4. SelInv' /\ SelTypeOK'  BY <2>3, <1>sel
  <2>5. TypeOK'
    <3>1. TypeOK  BY DEF TypeInv
    <3> QED  BY <2>1, <2>2, <2>3, <2>4, <3>1 DEF TypeOK
  <2> QED  BY <2>3, <2>4, <2>5 DEF TypeInv
<1>2. CASE bmc_i2c_rx_isr
  <2>1. PICK kind \in RequestKinds :
          bmc_rx_queue' = rtos_queue_send_from_isr(bmc_rx_queue, BmcDepth,
                                                   [id |-> written', kind |-> kind])
    BY <1>2 DEF bmc_i2c_rx_isr
  <2>2. [id |-> written', kind |-> kind] \in Requests /\ written' \in 1 .. MaxBlocks
    BY <1>2, KindAssumption DEF bmc_i2c_rx_isr, TypeInv, TypeOK, Requests
  <2>3. /\ bmc_rx_queue' \in Seq(Requests) /\ Len(bmc_rx_queue') <= BmcDepth
        /\ \A k \in 1 .. Len(bmc_rx_queue') : bmc_rx_queue'[k].id # 0
    <3>1. bmc_rx_queue \in Seq(Requests) /\ Len(bmc_rx_queue) <= BmcDepth
      BY DEF TypeInv, TypeOK
    <3>2. /\ bmc_rx_queue' \in Seq(Requests) /\ Len(bmc_rx_queue') <= BmcDepth
          /\ \/ bmc_rx_queue' = bmc_rx_queue
             \/ \A k \in 1 .. Len(bmc_rx_queue') :
                    \/ k \in 1 .. Len(bmc_rx_queue) /\ bmc_rx_queue'[k] = bmc_rx_queue[k]
                    \/ bmc_rx_queue'[k] = [id |-> written', kind |-> kind]
      BY <2>1, <2>2, <3>1, Sent
    <3>3. \A k \in 1 .. Len(bmc_rx_queue) : bmc_rx_queue[k].id # 0  BY DEF TypeInv
    <3>4. [id |-> written', kind |-> kind].id # 0  BY <2>2
    <3>5. \A k \in 1 .. Len(bmc_rx_queue') : bmc_rx_queue'[k].id # 0  BY <3>2, <3>3, <3>4
    <3> QED  BY <3>2, <3>5
  <2>4. UNCHANGED <<nic_event_queue, s_events, flash, task, selVars, time, answers, events, updates>>
    BY <1>2 DEF bmc_i2c_rx_isr
  <2>5. SelInv' /\ SelTypeOK'  BY <2>4, <1>sel
  <2>6. TypeOK'
    <3>1. TypeOK /\ written' \in 0 .. MaxBlocks  BY <2>2 DEF TypeInv
    <3> QED  BY <2>3, <2>4, <2>5, <3>1 DEF TypeOK
  <2> QED  BY <2>3, <2>4, <2>5, <2>6 DEF TypeInv
<1>3. CASE nic_alert_isr
  <2>1. nic_event_queue' \in Seq({"HW_ERROR"}) /\ Len(nic_event_queue') <= NicDepth
    <3>1. /\ nic_event_queue \in Seq({"HW_ERROR"}) /\ Len(nic_event_queue) <= NicDepth
          /\ nic_event_queue' = rtos_queue_send_from_isr(nic_event_queue, NicDepth, "HW_ERROR")
      BY <1>3 DEF nic_alert_isr, TypeInv, TypeOK
    <3>2. "HW_ERROR" \in {"HW_ERROR"}  OBVIOUS
    <3> QED  BY <3>1, <3>2, Sent
  <2>2. UNCHANGED <<bmc_rx_queue, s_events, flash, task, selVars, time, answers, written,
                    hwLogged, updates>>
    BY <1>3 DEF nic_alert_isr
  <2>3. alerts' \in 0 .. MaxAlerts  BY <1>3 DEF nic_alert_isr, TypeInv, TypeOK
  <2>4. SelInv' /\ SelTypeOK'  BY <2>2, <1>sel
  <2>5. TypeOK'
    <3>1. TypeOK  BY DEF TypeInv
    <3> QED  BY <2>1, <2>2, <2>3, <2>4, <3>1 DEF TypeOK
  <2> QED  BY <2>2, <2>4, <2>5 DEF TypeInv
<1>4. CASE FlashTaskTakes
  <2> DEFINE Ids == 1 .. MaxBlocks
  <2>1. /\ flash_cmd_queue \in Seq(Ids) /\ Len(flash_cmd_queue) <= FlashDepth
        /\ begun \in Seq(Ids)
    BY DEF TypeInv, TypeOK
  <2>2. /\ flash_cmd_queue # <<>> /\ flash_cmd_queue' = rtos_queue_receive(flash_cmd_queue)
        /\ begun' = Append(begun, Head(flash_cmd_queue)) /\ flash_working' \in BOOLEAN
    BY <1>4 DEF FlashTaskTakes, Flash!Take, Flash!rtos_queue_receive, rtos_queue_receive
  <2>3. UNCHANGED <<queues, task, selVars, time, answers, written, events, posted, swept, restarts>>
    BY <1>4 DEF FlashTaskTakes
  <2> HIDE DEF Ids
  <2>4. /\ flash_cmd_queue' \in Seq(Ids) /\ Len(flash_cmd_queue') = Len(flash_cmd_queue) - 1
        /\ Head(flash_cmd_queue) \in Ids
    BY <2>1, <2>2, Received
  <2>5. begun' \in Seq(Ids)  BY <2>1, <2>2, <2>4
  <2>6. Len(flash_cmd_queue') <= FlashDepth
    <3>1. Len(flash_cmd_queue) \in Nat  BY <2>1
    <3> QED  BY <2>1, <2>4, <3>1
  <2>7. SelInv' /\ SelTypeOK'  BY <2>3, <1>sel
  <2>8. TypeOK'
    <3>1. TypeOK  BY DEF TypeInv
    <3> QED  BY <2>2, <2>3, <2>4, <2>5, <2>6, <2>7, <3>1 DEF TypeOK, Ids
  <2> QED  BY <2>3, <2>7, <2>8 DEF TypeInv
<1>5. CASE FlashTaskEnds
  BY <1>5, <1>sel DEF FlashTaskEnds, Flash!End, TypeInv, TypeOK
<1>6. CASE Restart
  <2>1. swept' \subseteq 1 .. MaxBlocks  BY <1>6, RangeTyped DEF Restart, TypeInv, TypeOK
  <2>2. SelInv' /\ SelTypeOK'  BY <1>6, SelStart DEF Restart, SelInv
  <2>3. /\ bmc_rx_queue' \in Seq(Requests) /\ Len(bmc_rx_queue') = 0
        /\ nic_event_queue' \in Seq({"HW_ERROR"}) /\ Len(nic_event_queue') = 0
        /\ flash_cmd_queue' \in Seq(1 .. MaxBlocks) /\ Len(flash_cmd_queue') = 0
    BY <1>6, Empty DEF Restart, Flash!Restart
  <2>4. /\ tick' \in 0 .. TickMod - 1 /\ s_last_bmc_seen_ms' \in 0 .. TickMod - 1
        /\ silence' \in 0 .. TickMod - 1
        /\ alerts' \in 0 .. MaxAlerts /\ hwLogged' \in Nat /\ restarts' \in 0 .. MaxRestarts
    BY <1>6 DEF Restart, TypeInv, TypeOK
  <2>5. /\ flash_working' \in BOOLEAN /\ s_events' = {} /\ pc' = "wait"
        /\ msg' \in Requests /\ cc' \in Codes
        /\ UNCHANGED <<responses, resp_dest, written, posted, begun>>
    BY <1>6, Idle DEF Restart, Flash!Restart
  <2>6. /\ responses' \in Seq(Answers) /\ resp_dest' \in Eids /\ written' \in 0 .. MaxBlocks
        /\ posted' \subseteq 1 .. MaxBlocks /\ begun' \in Seq(1 .. MaxBlocks)
    BY <2>5 DEF TypeInv, TypeOK
  <2>7. s_events' \subseteq Awaited  BY <2>5
  <2>8. /\ Len(bmc_rx_queue') <= BmcDepth /\ Len(nic_event_queue') <= NicDepth
        /\ Len(flash_cmd_queue') <= FlashDepth
    BY <2>3
  <2>9. TypeOK'  BY <2>1, <2>2, <2>3, <2>4, <2>5, <2>6, <2>7, <2>8 DEF TypeOK
  <2> QED  BY <2>2, <2>3, <2>5, <2>9 DEF TypeInv
<1>7. CASE EventWait
  BY <1>7, <1>sel DEF EventWait, rtos_event_group_wait, TypeInv, TypeOK
<1>8. CASE DrainBmc
  <2>1. /\ bmc_rx_queue' \in Seq(Requests) /\ Len(bmc_rx_queue') <= BmcDepth
        /\ \A k \in 1 .. Len(bmc_rx_queue') : bmc_rx_queue'[k].id # 0
        /\ Head(bmc_rx_queue) \in Requests /\ Head(bmc_rx_queue).id # 0
    <3>1. /\ bmc_rx_queue \in Seq(Requests) /\ Len(bmc_rx_queue) <= BmcDepth
          /\ bmc_rx_queue # <<>> /\ bmc_rx_queue' = rtos_queue_receive(bmc_rx_queue)
      BY <1>8 DEF DrainBmc, TypeInv, TypeOK
    <3>2. /\ bmc_rx_queue' \in Seq(Requests) /\ Len(bmc_rx_queue') = Len(bmc_rx_queue) - 1
          /\ 1 \in 1 .. Len(bmc_rx_queue) /\ Head(bmc_rx_queue) = bmc_rx_queue[1]
          /\ bmc_rx_queue[1] \in Requests
          /\ \A k \in 1 .. Len(bmc_rx_queue') : /\ k + 1 \in 1 .. Len(bmc_rx_queue)
                                               /\ bmc_rx_queue'[k] = bmc_rx_queue[k + 1]
      BY <3>1, Received
    <3>3. \A k \in 1 .. Len(bmc_rx_queue) : bmc_rx_queue[k].id # 0  BY DEF TypeInv
    <3> QED  BY <3>1, <3>2, <3>3
  <2>2. /\ UNCHANGED <<nic_event_queue, s_events, flash, cc, selVars, tick, answers, written,
                       events, updates>>
        /\ s_last_bmc_seen_ms' = tick /\ silence' = 0
        /\ \/ UNCHANGED <<pc, msg>> /\ pc = "drain_bmc"
           \/ pc' = "dispatch" /\ msg' = Head(bmc_rx_queue)
    BY <1>8 DEF DrainBmc
  <2>3. SelInv' /\ SelTypeOK'  BY <2>2, <1>sel
  <2>4. /\ s_last_bmc_seen_ms' \in 0 .. TickMod - 1 /\ silence' \in 0 .. TickMod - 1
        /\ msg' \in Requests /\ (pc' \in {"dispatch", "respond"} => msg'.id # 0)
        /\ pc' \in {"drain_bmc", "dispatch"}
    BY <2>1, <2>2 DEF TypeInv, TypeOK
  <2>5. TypeOK'
    <3>1. TypeOK  BY DEF TypeInv
    <3> QED  BY <2>1, <2>2, <2>3, <2>4, <3>1 DEF TypeOK
  <2> QED  BY <2>1, <2>3, <2>4, <2>5 DEF TypeInv
<1>9. CASE BmcDrained \/ NicDrained
  BY <1>9, <1>sel DEF BmcDrained, NicDrained, TypeInv, TypeOK
<1>10. CASE DispatchQuery
  BY <1>10, <1>sel DEF DispatchQuery, TypeInv, TypeOK, Codes
<1>11. CASE DispatchUpdate
  <2>1. msg.id \in 1 .. MaxBlocks
    <3>1. msg \in Requests /\ msg.id # 0  BY <1>11 DEF DispatchUpdate, TypeInv, TypeOK
    <3> QED  BY <3>1 DEF Requests
  <2>2. /\ flash_cmd_queue' = rtos_queue_send(flash_cmd_queue, FlashDepth, msg.id)
        /\ UNCHANGED flash_working
    BY <1>11 DEF DispatchUpdate, Flash!Send, Flash!rtos_queue_send, Flash!HasRoom,
                 rtos_queue_send, HasRoom
  <2>3. flash_cmd_queue' \in Seq(1 .. MaxBlocks) /\ Len(flash_cmd_queue') <= FlashDepth
    <3> DEFINE Ids == 1 .. MaxBlocks
    <3>1. /\ flash_cmd_queue \in Seq(Ids) /\ Len(flash_cmd_queue) <= FlashDepth
          /\ msg.id \in Ids
      BY <2>1 DEF TypeInv, TypeOK
    <3> HIDE DEF Ids
    <3>2. flash_cmd_queue' \in Seq(Ids) /\ Len(flash_cmd_queue') <= FlashDepth
      BY <2>2, <3>1, Sent
    <3> QED  BY <3>2 DEF Ids
  <2> QED  BY <1>11, <2>1, <2>2, <2>3, <1>sel DEF DispatchUpdate, TypeInv, TypeOK, Codes
<1>12. CASE protocol_hdlr_send_response
  <2>1. responses' \in Seq(Answers) /\ resp_dest' \in Eids
    <3>1. [id |-> msg.id, kind |-> msg.kind, cc |-> cc] \in Answers
      BY <1>12, Answering DEF protocol_hdlr_send_response
    <3>2. Append(responses, [id |-> msg.id, kind |-> msg.kind, cc |-> cc]) \in Seq(Answers)
      BY <3>1 DEF TypeInv, TypeOK
    <3> QED  BY <1>12, <3>2 DEF protocol_hdlr_send_response, TypeInv, TypeOK
  <2> QED  BY <1>12, <2>1, <1>sel, Idle DEF protocol_hdlr_send_response, TypeInv, TypeOK
<1>13. CASE handle_nic_event
  <2>1. /\ nic_event_queue' \in Seq({"HW_ERROR"}) /\ Len(nic_event_queue') <= NicDepth
        /\ Head(nic_event_queue) = "HW_ERROR"
    BY <1>13, Received DEF handle_nic_event, TypeInv, TypeOK
  <2>2. SelInv' /\ SelTypeOK'  BY <1>13, <2>1, Logged DEF handle_nic_event
  <2> QED  BY <1>13, <2>1, <2>2 DEF handle_nic_event, TypeInv, TypeOK
<1>14. CASE CheckLiveness
  <2>1. SelInv' /\ SelTypeOK'  BY <1>14, <1>sel, Logged DEF CheckLiveness
  <2> QED  BY <1>14, <2>1 DEF CheckLiveness, TypeInv, TypeOK
<1>15. CASE UNCHANGED vars  BY <1>15, <1>sel DEF TypeInv, TypeOK
<1> QED
  BY <1>1, <1>2, <1>3, <1>4, <1>5, <1>6, <1>7, <1>8, <1>9, <1>10, <1>11, <1>12, <1>13, <1>14,
     <1>15 DEF Next, bmc_mgr_task

THEOREM TypeInvariance == Spec => []TypeInv
BY TypeStart, TypeStep, PTL DEF Spec

(* Every variable of the BMC manager keeps its type, and no queue ever     *)
(* holds more than its depth.                                              *)
THEOREM TypeCorrect == Spec => []TypeOK
<1>1. TypeInv => TypeOK  BY DEF TypeInv
<1> QED  BY <1>1, TypeInvariance, PTL

-----------------------------------------------------------------------------
(* The order of requests and answers.                                      *)

(* What has been answered or posted is older than request n. *)
Past(n) == /\ \A j \in 1 .. Len(responses) : responses[j].id < n
           /\ \A id \in posted : id < n

(* Requests pass through the queue and the task in the order in which they *)
(* were written, and leave their traces behind in that order.              *)
OrderInv ==
    /\ \A j, k \in 1 .. Len(responses) : j < k => responses[j].id < responses[k].id
    /\ \A j, k \in 1 .. Len(bmc_rx_queue) : j < k => bmc_rx_queue[j].id < bmc_rx_queue[k].id
    /\ \A k \in 1 .. Len(bmc_rx_queue) :
            bmc_rx_queue[k].id <= written /\ Past(bmc_rx_queue[k].id)
    /\ Past(written + 1)
    /\ pc = "dispatch" => Past(msg.id)
    /\ pc = "respond" => \A j \in 1 .. Len(responses) : responses[j].id < msg.id
    /\ pc \in {"dispatch", "respond"} =>
            /\ msg.id <= written
            /\ \A k \in 1 .. Len(bmc_rx_queue) : msg.id < bmc_rx_queue[k].id

(* The numbers that the order compares. *)
LEMMA Numbers ==
    ASSUME TypeInv
    PROVE  /\ Len(responses) \in Nat /\ Len(bmc_rx_queue) \in Nat
           /\ \A j \in 1 .. Len(responses) : responses[j].id \in Nat
           /\ \A k \in 1 .. Len(bmc_rx_queue) : bmc_rx_queue[k].id \in Nat
           /\ \A id \in posted : id \in Nat
           /\ written \in Nat /\ msg.id \in Nat
<1> USE Depths
<1>1. responses \in Seq(Answers) /\ bmc_rx_queue \in Seq(Requests)  BY DEF TypeInv, TypeOK
<1>2. /\ \A j \in 1 .. Len(responses) : responses[j] \in Answers
      /\ \A k \in 1 .. Len(bmc_rx_queue) : bmc_rx_queue[k] \in Requests
  BY <1>1
<1>3. (\A a \in Answers : a.id \in Nat) /\ (\A r \in Requests : r.id \in Nat)
  BY DEF Answers, Requests
<1>4. written \in Nat /\ msg \in Requests /\ posted \subseteq Nat
  BY DEF TypeInv, TypeOK
<1>5. Len(responses) \in Nat /\ Len(bmc_rx_queue) \in Nat  BY <1>1
<1> QED  BY <1>2, <1>3, <1>4, <1>5

LEMMA OrderStart == Init => OrderInv
BY Empty DEF Init, OrderInv, Past

LEMMA OrderStep == TypeInv /\ OrderInv /\ [Next]_vars => OrderInv'
<1> SUFFICES ASSUME TypeInv, OrderInv, [Next]_vars PROVE OrderInv'
  OBVIOUS
<1> USE Numbers
<1>rest. ASSUME UNCHANGED <<responses, posted, written, bmc_rx_queue, msg>>,
                pc' = pc \/ pc' \notin {"dispatch", "respond"}
         PROVE  OrderInv'
  BY <1>rest DEF OrderInv, Past
<1>1. CASE Tick \/ nic_alert_isr \/ FlashTaskTakes \/ FlashTaskEnds
  BY <1>1, <1>rest DEF Tick, nic_alert_isr, FlashTaskTakes, FlashTaskEnds
<1>2. CASE EventWait \/ BmcDrained \/ handle_nic_event \/ NicDrained \/ CheckLiveness
  BY <1>2, <1>rest DEF EventWait, BmcDrained, handle_nic_event, NicDrained, CheckLiveness
<1>3. CASE UNCHANGED vars  BY <1>3, <1>rest
<1>4. CASE bmc_i2c_rx_isr
  <2>1. /\ written' = written + 1 /\ UNCHANGED <<responses, posted, pc, msg>>
        /\ \/ bmc_rx_queue' = bmc_rx_queue
           \/ /\ Len(bmc_rx_queue') = Len(bmc_rx_queue) + 1
              /\ \A k \in 1 .. Len(bmc_rx_queue') :
                    \/ k \in 1 .. Len(bmc_rx_queue) /\ bmc_rx_queue'[k] = bmc_rx_queue[k]
                    \/ k = Len(bmc_rx_queue') /\ bmc_rx_queue'[k].id = written + 1
    <3>1. PICK kind \in RequestKinds :
              bmc_rx_queue' = rtos_queue_send_from_isr(bmc_rx_queue, BmcDepth,
                                                       [id |-> written', kind |-> kind])
      BY <1>4 DEF bmc_i2c_rx_isr
    <3> DEFINE block == [id |-> written', kind |-> kind]
    <3>2. block \in Requests /\ block.id = written + 1
      BY <1>4, KindAssumption, Depths DEF bmc_i2c_rx_isr, TypeInv, TypeOK, Requests
    <3>3. bmc_rx_queue \in Seq(Requests) /\ Len(bmc_rx_queue) <= BmcDepth /\ BmcDepth \in Nat
      BY Depths DEF TypeInv, TypeOK
    <3>4. bmc_rx_queue' = rtos_queue_send_from_isr(bmc_rx_queue, BmcDepth, block)
      BY <3>1
    <3> HIDE DEF block
    <3>5. \/ bmc_rx_queue' = bmc_rx_queue
          \/ /\ Len(bmc_rx_queue') = Len(bmc_rx_queue) + 1
             /\ \A k \in 1 .. Len(bmc_rx_queue') :
                    \/ k \in 1 .. Len(bmc_rx_queue) /\ bmc_rx_queue'[k] = bmc_rx_queue[k]
                    \/ k = Len(bmc_rx_queue') /\ bmc_rx_queue'[k] = block
      BY <3>2, <3>3, <3>4, Sent
    <3> QED  BY <1>4, <3>2, <3>5 DEF bmc_i2c_rx_isr
  <2>2. /\ \A j \in 1 .. Len(responses') : /\ responses'[j].id < written + 1
                                           /\ responses'[j].id < written' + 1
        /\ \A id \in posted' : id < written + 1 /\ id < written' + 1
    <3>1. /\ \A j \in 1 .. Len(responses) : /\ responses[j].id < written + 1
                                           /\ responses[j].id < written + 1 + 1
          /\ \A id \in posted : id < written + 1 /\ id < written + 1 + 1
      BY DEF OrderInv, Past
    <3> QED  BY <2>1, <3>1
  <2>3. \A k \in 1 .. Len(bmc_rx_queue') :
            /\ bmc_rx_queue'[k].id <= written'
            /\ \A j \in 1 .. Len(responses') : responses'[j].id < bmc_rx_queue'[k].id
            /\ \A id \in posted' : id < bmc_rx_queue'[k].id
    BY <2>1, <2>2 DEF OrderInv, Past
  <2>4. \A j, k \in 1 .. Len(bmc_rx_queue') : j < k => bmc_rx_queue'[j].id < bmc_rx_queue'[k].id
    <3>1. /\ Len(bmc_rx_queue) \in Nat
          /\ \A k \in 1 .. Len(bmc_rx_queue) : bmc_rx_queue[k].id < written + 1
          /\ \A j, k \in 1 .. Len(bmc_rx_queue) :
                 j < k => bmc_rx_queue[j].id < bmc_rx_queue[k].id
      BY DEF OrderInv
    <3> SUFFICES ASSUME NEW j \in 1 .. Len(bmc_rx_queue'), NEW k \in 1 .. Len(bmc_rx_queue'), j < k
                 PROVE  bmc_rx_queue'[j].id < bmc_rx_queue'[k].id
      OBVIOUS
    <3>2. CASE bmc_rx_queue' = bmc_rx_queue  BY <3>1, <3>2
    <3>3. CASE j \in 1 .. Len(bmc_rx_queue) /\ k \in 1 .. Len(bmc_rx_queue)
      BY <2>1, <3>1, <3>3
    <3>4. CASE j \in 1 .. Len(bmc_rx_queue) /\ k = Len(bmc_rx_queue) + 1
      BY <2>1, <3>1, <3>4
    <3> QED  BY <2>1, <3>1, <3>2, <3>3, <3>4
  <2> QED  BY <2>1, <2>2, <2>3, <2>4 DEF OrderInv, Past
<1>5. CASE Restart
  <2>1. /\ bmc_rx_queue' = <<>> /\ Len(bmc_rx_queue') = 0 /\ pc' = "wait"
        /\ UNCHANGED <<responses, posted, written>>
    BY <1>5, Empty DEF Restart
  <2> QED  BY <2>1 DEF OrderInv, Past
<1>6. CASE DrainBmc
  <2>1. /\ UNCHANGED <<responses, posted, written>>
        /\ \/ UNCHANGED <<pc, msg>> /\ pc = "drain_bmc"
           \/ pc' = "dispatch" /\ msg' = bmc_rx_queue[1]
        /\ Len(bmc_rx_queue') = Len(bmc_rx_queue) - 1 /\ 1 \in 1 .. Len(bmc_rx_queue)
        /\ \A k \in 1 .. Len(bmc_rx_queue') : /\ k + 1 \in 1 .. Len(bmc_rx_queue)
                                              /\ bmc_rx_queue'[k] = bmc_rx_queue[k + 1]
    <3>1. /\ bmc_rx_queue \in Seq(Requests) /\ bmc_rx_queue # <<>>
          /\ bmc_rx_queue' = rtos_queue_receive(bmc_rx_queue)
      BY <1>6 DEF DrainBmc, TypeInv, TypeOK
    <3> QED  BY <1>6, <3>1, Received DEF DrainBmc
  <2>2. \A j, k \in 1 .. Len(bmc_rx_queue') : j < k => bmc_rx_queue'[j].id < bmc_rx_queue'[k].id
    <3> SUFFICES ASSUME NEW j \in 1 .. Len(bmc_rx_queue'), NEW k \in 1 .. Len(bmc_rx_queue'), j < k
                 PROVE  bmc_rx_queue'[j].id < bmc_rx_queue'[k].id
      OBVIOUS
    <3>1. /\ j + 1 \in 1 .. Len(bmc_rx_queue) /\ bmc_rx_queue'[j] = bmc_rx_queue[j + 1]
          /\ k + 1 \in 1 .. Len(bmc_rx_queue) /\ bmc_rx_queue'[k] = bmc_rx_queue[k + 1]
          /\ j + 1 < k + 1
      BY <2>1
    <3>2. \A i, l \in 1 .. Len(bmc_rx_queue) : i < l => bmc_rx_queue[i].id < bmc_rx_queue[l].id
      BY DEF OrderInv
    <3> QED  BY <3>1, <3>2
  <2>3. \A k \in 1 .. Len(bmc_rx_queue') :
            bmc_rx_queue'[k].id <= written' /\ bmc_rx_queue[1].id < bmc_rx_queue'[k].id
    <3> SUFFICES ASSUME NEW k \in 1 .. Len(bmc_rx_queue')
                 PROVE  bmc_rx_queue'[k].id <= written' /\ bmc_rx_queue[1].id < bmc_rx_queue'[k].id
      OBVIOUS
    <3>1. /\ k + 1 \in 1 .. Len(bmc_rx_queue) /\ bmc_rx_queue'[k] = bmc_rx_queue[k + 1]
          /\ 1 < k + 1
      BY <2>1
    <3> QED  BY <2>1, <3>1 DEF OrderInv
  <2>4. /\ \A j \in 1 .. Len(responses') : responses'[j].id < bmc_rx_queue[1].id
        /\ \A id \in posted' : id < bmc_rx_queue[1].id
        /\ bmc_rx_queue[1].id <= written'
    BY <2>1 DEF OrderInv, Past
  <2>5. \A k \in 1 .. Len(bmc_rx_queue') :
            /\ \A j \in 1 .. Len(responses') : responses'[j].id < bmc_rx_queue'[k].id
            /\ \A id \in posted' : id < bmc_rx_queue'[k].id
    BY <2>1 DEF OrderInv, Past
  <2>6. /\ \A j, k \in 1 .. Len(responses') : j < k => responses'[j].id < responses'[k].id
        /\ Past(written + 1)'
    BY <2>1 DEF OrderInv, Past
  <2> QED  BY <2>1, <2>2, <2>3, <2>4, <2>5, <2>6 DEF OrderInv, Past
<1>7. CASE DispatchQuery
  BY <1>7 DEF DispatchQuery, OrderInv, Past
<1>8. CASE DispatchUpdate
  <2>1. /\ pc = "dispatch" /\ pc' = "respond" /\ posted' \subseteq posted \cup {msg.id}
        /\ UNCHANGED <<responses, written, bmc_rx_queue, msg>>
    BY <1>8 DEF DispatchUpdate
  <2> QED  BY <2>1 DEF OrderInv, Past
<1>9. CASE protocol_hdlr_send_response
  <2>1. /\ pc = "respond" /\ pc' = "drain_bmc" /\ UNCHANGED <<posted, written, bmc_rx_queue>>
        /\ \/ UNCHANGED responses
           \/ /\ Len(responses') = Len(responses) + 1
              /\ \A j \in 1 .. Len(responses') :
                    \/ j \in 1 .. Len(responses) /\ responses'[j] = responses[j]
                    \/ j = Len(responses') /\ responses'[j].id = msg.id
    <3>1. responses \in Seq(Answers)  BY DEF TypeInv, TypeOK
    <3> DEFINE answer == [id |-> msg.id, kind |-> msg.kind, cc |-> cc]
    <3>2. answer \in Answers /\ answer.id = msg.id
      BY <1>9, Answering DEF protocol_hdlr_send_response
    <3>3. UNCHANGED responses \/ responses' = Append(responses, answer)
      BY <1>9 DEF protocol_hdlr_send_response
    <3> HIDE DEF answer
    <3> QED  BY <1>9, <3>1, <3>2, <3>3 DEF protocol_hdlr_send_response
  <2>2. \A j \in 1 .. Len(responses') :
            /\ responses'[j].id < written + 1
            /\ \A k \in 1 .. Len(bmc_rx_queue) : responses'[j].id < bmc_rx_queue[k].id
    BY <2>1 DEF OrderInv, Past
  <2>3. \A j, k \in 1 .. Len(responses') : j < k => responses'[j].id < responses'[k].id
    BY <2>1 DEF OrderInv
  <2> QED  BY <2>1, <2>2, <2>3 DEF OrderInv, Past
<1> QED
  BY <1>1, <1>2, <1>3, <1>4, <1>5, <1>6, <1>7, <1>8, <1>9 DEF Next, bmc_mgr_task

THEOREM OrderInvariance == Spec => []OrderInv
BY OrderStart, OrderStep, TypeInvariance, PTL DEF Spec

(* No request is answered twice and no answer overtakes an older one,      *)
(* through lost blocks, full queues, failed transmissions and restarts.    *)
THEOREM Ordered == Spec => []AnsweredInOrder
<1>1. OrderInv => AnsweredInOrder  BY DEF OrderInv, AnsweredInOrder, Past
<1> QED  BY <1>1, OrderInvariance, PTL

-----------------------------------------------------------------------------
(* What the answers say.                                                   *)

(* The code about to be sent is as true as those that were. *)
TruthInv ==
    /\ UpdateAnswerTrue
    /\ pc = "respond" /\ msg.kind = "update" => (cc = "SUCCESS" <=> msg.id \in posted)

LEMMA TruthStep == TypeInv /\ OrderInv /\ TruthInv /\ [Next]_vars => TruthInv'
<1> SUFFICES ASSUME TypeInv, OrderInv, TruthInv, [Next]_vars PROVE TruthInv'
  OBVIOUS
<1>rest. ASSUME UNCHANGED <<responses, posted>>,
                UNCHANGED <<pc, msg, cc>> \/ pc' # "respond"
         PROVE  TruthInv'
  BY <1>rest DEF TruthInv, UpdateAnswerTrue
<1>1. CASE Tick \/ bmc_i2c_rx_isr \/ nic_alert_isr \/ FlashTaskTakes \/ FlashTaskEnds \/ Restart
  BY <1>1, <1>rest DEF Tick, bmc_i2c_rx_isr, nic_alert_isr, FlashTaskTakes, FlashTaskEnds, Restart
<1>2. CASE EventWait \/ BmcDrained \/ handle_nic_event \/ NicDrained \/ CheckLiveness
  BY <1>2, <1>rest DEF EventWait, BmcDrained, handle_nic_event, NicDrained, CheckLiveness
<1>3. CASE DrainBmc  BY <1>3, <1>rest DEF DrainBmc
<1>4. CASE UNCHANGED vars  BY <1>4, <1>rest
<1>5. CASE DispatchQuery
  BY <1>5 DEF DispatchQuery, TruthInv, UpdateAnswerTrue
<1>6. CASE DispatchUpdate
  <2>1. /\ \A j \in 1 .. Len(responses) : responses[j].id # msg.id
        /\ msg.id \notin posted
    BY <1>6, Numbers DEF DispatchUpdate, OrderInv, Past
  <2>2. /\ UNCHANGED <<responses, msg>> /\ "ERROR" # "SUCCESS"
        /\ \/ posted' = posted \cup {msg.id} /\ cc' = "SUCCESS"
           \/ posted' = posted /\ cc' = "ERROR"
    BY <1>6 DEF DispatchUpdate
  <2> QED  BY <2>1, <2>2 DEF TruthInv, UpdateAnswerTrue
<1>7. CASE protocol_hdlr_send_response
  <2> DEFINE answer == [id |-> msg.id, kind |-> msg.kind, cc |-> cc]
  <2>1. /\ answer.id = msg.id /\ answer.kind = msg.kind /\ answer.cc = cc
        /\ UNCHANGED responses \/ responses' = Append(responses, answer)
        /\ pc = "respond" /\ pc' = "drain_bmc" /\ UNCHANGED posted
    BY <1>7 DEF protocol_hdlr_send_response
  <2> HIDE DEF answer
  <2>2. responses \in Seq(Answers)  BY DEF TypeInv, TypeOK
  <2>3. \A j \in 1 .. Len(responses') :
            \/ j \in 1 .. Len(responses) /\ responses'[j] = responses[j]
            \/ responses'[j] = answer
    BY <2>1, <2>2
  <2> QED  BY <2>1, <2>3 DEF TruthInv, UpdateAnswerTrue
<1> QED
  BY <1>1, <1>2, <1>3, <1>4, <1>5, <1>6, <1>7 DEF Next, bmc_mgr_task

(* An update request is answered with success exactly if its command went  *)
(* into the flash manager's queue, however full that queue and whatever    *)
(* becomes of the answers.                                                 *)
THEOREM AnswersTrue == Spec => []UpdateAnswerTrue
<1>1. Init => TruthInv  BY Empty DEF Init, TruthInv, UpdateAnswerTrue
<1>2. TruthInv => UpdateAnswerTrue  BY DEF TruthInv
<1> QED  BY <1>1, <1>2, TruthStep, TypeInvariance, OrderInvariance, PTL DEF Spec

-----------------------------------------------------------------------------
(* Updates and alerts.                                                     *)

(* Accepted updates stay in order, from the queue to the flash task. *)
UpdateInv ==
    /\ UpdatesAccounted
    /\ \A j, k \in 1 .. Len(flash_cmd_queue) :
            j < k => flash_cmd_queue[j] < flash_cmd_queue[k]
    /\ \A id \in Range(begun), k \in 1 .. Len(flash_cmd_queue) : id < flash_cmd_queue[k]

LEMMA UpdateStep == TypeInv /\ OrderInv /\ UpdateInv /\ [Next]_vars => UpdateInv'
<1> SUFFICES ASSUME TypeInv, OrderInv, UpdateInv, [Next]_vars PROVE UpdateInv'
  OBVIOUS
<1> DEFINE Ids == 1 .. MaxBlocks
<1>typ. /\ begun \in Seq(Ids) /\ flash_cmd_queue \in Seq(Ids) /\ posted \subseteq Ids
        /\ swept \subseteq Ids /\ Ids \subseteq Nat
        /\ Len(flash_cmd_queue) <= FlashDepth /\ FlashDepth \in Nat
  BY Depths DEF TypeInv, TypeOK
<1>num. restarts \in Nat  BY Depths DEF TypeInv, TypeOK
<1> HIDE DEF Ids
<1>rest. ASSUME UNCHANGED <<flash_cmd_queue, updates>> PROVE UpdateInv'
  BY <1>rest DEF UpdateInv, UpdatesAccounted
<1>1. CASE Tick \/ bmc_i2c_rx_isr \/ nic_alert_isr \/ FlashTaskEnds
  BY <1>1, <1>rest DEF Tick, bmc_i2c_rx_isr, nic_alert_isr, FlashTaskEnds, Flash!End
<1>2. CASE EventWait \/ BmcDrained \/ handle_nic_event \/ NicDrained \/ CheckLiveness
  BY <1>2, <1>rest DEF EventWait, BmcDrained, handle_nic_event, NicDrained, CheckLiveness
<1>3. CASE DrainBmc \/ DispatchQuery \/ protocol_hdlr_send_response
  BY <1>3, <1>rest DEF DrainBmc, DispatchQuery, protocol_hdlr_send_response
<1>4. CASE UNCHANGED vars  BY <1>4, <1>rest
<1>5. CASE Restart
  <2>1. /\ Range(flash_cmd_queue') = {} /\ Len(flash_cmd_queue') = 0
        /\ swept' = swept \cup Range(flash_cmd_queue) /\ restarts' = restarts + 1
        /\ UNCHANGED <<posted, begun>>
    BY <1>5, Empty DEF Restart, Flash!Restart
  <2>2. Range(begun) \cap Range(flash_cmd_queue) = {}
    BY <1>typ DEF UpdateInv, UpdatesAccounted, Range
  <2> QED  BY <1>num, <2>1, <2>2 DEF UpdateInv, UpdatesAccounted
<1>6. CASE FlashTaskTakes
  <2> DEFINE first == Head(flash_cmd_queue)
  <2>1. /\ flash_cmd_queue # <<>> /\ flash_cmd_queue' = Tail(flash_cmd_queue)
        /\ begun' = Append(begun, first) /\ UNCHANGED <<posted, swept, restarts>>
    BY <1>6 DEF FlashTaskTakes, Flash!Take, Flash!rtos_queue_receive
  <2>2. /\ Len(flash_cmd_queue') = Len(flash_cmd_queue) - 1 /\ 1 \in 1 .. Len(flash_cmd_queue)
        /\ first = flash_cmd_queue[1] /\ first \in Ids /\ first = Head(flash_cmd_queue)
        /\ \A k \in 1 .. Len(flash_cmd_queue') :
              k + 1 \in 1 .. Len(flash_cmd_queue) /\ flash_cmd_queue'[k] = flash_cmd_queue[k + 1]
    BY <1>typ, <2>1, Received DEF rtos_queue_receive
  <2> HIDE DEF first
  <2>3. /\ Range(begun') = Range(begun) \cup {first}
        /\ Range(flash_cmd_queue) = {first} \cup Range(flash_cmd_queue')
    <3>1. Range(begun') = Range(begun) \cup {first}
      <4>1. begun \in Seq(Ids) /\ first \in Ids /\ begun' = Append(begun, first)
        BY <1>typ, <2>1, <2>2
      <4> QED  BY <4>1, RangeAppend
    <3>2. Range(flash_cmd_queue) = {first} \cup Range(flash_cmd_queue')
      BY <1>typ, <2>1, <2>2, RangeTail
    <3> QED  BY <3>1, <3>2
  <2>4. \A k \in 1 .. Len(flash_cmd_queue') :
            /\ first < flash_cmd_queue'[k]
            /\ flash_cmd_queue'[k] \notin Range(begun') \cup swept
            /\ \A id \in Range(begun') : id < flash_cmd_queue'[k]
    <3> SUFFICES ASSUME NEW k \in 1 .. Len(flash_cmd_queue')
                 PROVE  /\ first < flash_cmd_queue'[k]
                        /\ flash_cmd_queue'[k] \notin Range(begun') \cup swept
                        /\ \A id \in Range(begun') : id < flash_cmd_queue'[k]
      OBVIOUS
    <3>1. /\ k + 1 \in 1 .. Len(flash_cmd_queue) /\ flash_cmd_queue'[k] = flash_cmd_queue[k + 1]
          /\ 1 < k + 1
      BY <2>2
    <3>2. first < flash_cmd_queue'[k]  BY <2>2, <3>1 DEF UpdateInv
    <3>3. flash_cmd_queue'[k] # first  BY <1>typ, <2>2, <3>2
    <3> QED  BY <2>3, <3>1, <3>2, <3>3 DEF UpdateInv, UpdatesAccounted
  <2>5. \A j, k \in 1 .. Len(flash_cmd_queue') :
            j < k => flash_cmd_queue'[j] < flash_cmd_queue'[k]
    <3> SUFFICES ASSUME NEW j \in 1 .. Len(flash_cmd_queue'), NEW k \in 1 .. Len(flash_cmd_queue'),
                        j < k
                 PROVE  flash_cmd_queue'[j] < flash_cmd_queue'[k]
      OBVIOUS
    <3>1. /\ j + 1 \in 1 .. Len(flash_cmd_queue) /\ flash_cmd_queue'[j] = flash_cmd_queue[j + 1]
          /\ k + 1 \in 1 .. Len(flash_cmd_queue) /\ flash_cmd_queue'[k] = flash_cmd_queue[k + 1]
          /\ j + 1 < k + 1
      BY <2>2
    <3> QED  BY <3>1 DEF UpdateInv
  <2>6. \A j, k \in 1 .. Len(begun') : j < k => begun'[j] < begun'[k]
    <3>1. \A k \in 1 .. Len(begun') : \/ k \in 1 .. Len(begun) /\ begun'[k] = begun[k]
                                      \/ k = Len(begun) + 1 /\ begun'[k] = first
      <4>1. begun \in Seq(Ids) /\ first \in Ids /\ begun' = Append(begun, first)
        BY <1>typ, <2>1, <2>2
      <4> QED  BY <4>1
    <3>2. \A k \in 1 .. Len(begun) : begun[k] \in Range(begun)
      BY <1>typ DEF Range
    <3>3. \A id \in Range(begun) : id < first  BY <2>2 DEF UpdateInv
    <3>4. Len(begun) \in Nat  BY <1>typ
    <3> QED  BY <3>1, <3>2, <3>3, <3>4 DEF UpdateInv, UpdatesAccounted
  <2>7. Range(begun') \cap swept = {}
    BY <2>2, <2>3 DEF UpdateInv, UpdatesAccounted
  <2> QED  BY <2>1, <2>3, <2>4, <2>5, <2>6, <2>7 DEF UpdateInv, UpdatesAccounted
<1>7. CASE DispatchUpdate
  <2>1. msg.id \in Ids /\ \A id \in posted : id < msg.id
    BY <1>7 DEF DispatchUpdate, OrderInv, Past, Ids, TypeInv, TypeOK, Requests
  <2>2. CASE UNCHANGED <<flash, posted>>
    BY <1>7, <1>rest, <2>2 DEF DispatchUpdate
  <2>3. CASE HasRoom(flash_cmd_queue, FlashDepth)
    <3>1. /\ flash_cmd_queue' = Append(flash_cmd_queue, msg.id)
          /\ posted' = posted \cup {msg.id} /\ UNCHANGED <<begun, swept, restarts>>
      BY <1>7, <2>3 DEF DispatchUpdate, Flash!Send, Flash!rtos_queue_send, Flash!HasRoom
    <3>2. Range(flash_cmd_queue') = Range(flash_cmd_queue) \cup {msg.id}
      BY <1>typ, <2>1, <3>1, RangeAppend
    <3>3. \A k \in 1 .. Len(flash_cmd_queue') :
              \/ k \in 1 .. Len(flash_cmd_queue) /\ flash_cmd_queue'[k] = flash_cmd_queue[k]
              \/ k = Len(flash_cmd_queue) + 1 /\ flash_cmd_queue'[k] = msg.id
      BY <1>typ, <2>1, <3>1
    <3>4. /\ \A id \in Range(begun) \cup swept : id < msg.id /\ id # msg.id
          /\ \A k \in 1 .. Len(flash_cmd_queue) : flash_cmd_queue[k] < msg.id
      <4>1. \A k \in 1 .. Len(flash_cmd_queue) : flash_cmd_queue[k] \in Range(flash_cmd_queue)
        BY <1>typ DEF Range
      <4>2. posted = Range(begun) \cup Range(flash_cmd_queue) \cup swept
        BY DEF UpdateInv, UpdatesAccounted
      <4>3. \A id \in posted : id < msg.id /\ id # msg.id
        BY <1>typ, <2>1
      <4> QED  BY <4>1, <4>2, <4>3
    <3>5. Len(flash_cmd_queue) \in Nat  BY <1>typ
    <3>6. \A j, k \in 1 .. Len(flash_cmd_queue') :
              j < k => flash_cmd_queue'[j] < flash_cmd_queue'[k]
      BY <3>3, <3>4, <3>5 DEF UpdateInv
    <3>7. \A k \in 1 .. Len(flash_cmd_queue') :
              /\ flash_cmd_queue'[k] \notin Range(begun) \cup swept
              /\ \A id \in Range(begun) : id < flash_cmd_queue'[k]
      BY <3>3, <3>4 DEF UpdateInv, UpdatesAccounted
    <3> QED  BY <3>1, <3>2, <3>6, <3>7 DEF UpdateInv, UpdatesAccounted
  <2> QED  BY <1>7, <2>2, <2>3 DEF DispatchUpdate
<1> QED
  BY <1>1, <1>2, <1>3, <1>4, <1>5, <1>6, <1>7 DEF Next, bmc_mgr_task

(* An accepted update is begun once and in its turn, still waits, or was   *)
(* swept away by a restart, which takes only those that waited.            *)
THEOREM UpdatesKept == Spec => []UpdatesAccounted
<1>1. Init => UpdateInv
  BY Empty DEF Init, UpdateInv, UpdatesAccounted, Flash!FlashInit
<1>2. UpdateInv => UpdatesAccounted  BY DEF UpdateInv
<1> QED  BY <1>1, <1>2, UpdateStep, TypeInvariance, OrderInvariance, PTL DEF Spec

LEMMA AlertStep == TypeInv /\ AlertsAccounted /\ [Next]_vars => AlertsAccounted'
<1> SUFFICES ASSUME TypeInv, AlertsAccounted, [Next]_vars PROVE AlertsAccounted'
  OBVIOUS
<1> USE DEF AlertsAccounted
<1>typ. /\ nic_event_queue \in Seq({"HW_ERROR"}) /\ Len(nic_event_queue) <= NicDepth
        /\ hwLogged \in Nat /\ NicDepth \in Nat
  BY Depths DEF TypeInv, TypeOK
<1>1. CASE nic_alert_isr
  BY <1>1, <1>typ DEF nic_alert_isr, rtos_queue_send_from_isr, HasRoom
<1>2. CASE handle_nic_event
  <2>1. nic_event_queue # <<>> /\ nic_event_queue' = rtos_queue_receive(nic_event_queue)
    BY <1>2 DEF handle_nic_event
  <2>2. Len(nic_event_queue') = Len(nic_event_queue) - 1 /\ Len(nic_event_queue) \in Nat
    BY <1>typ, <2>1, Received
  <2> QED  BY <1>2, <1>typ, <2>2 DEF handle_nic_event
<1>3. CASE Restart  BY <1>3, Empty DEF Restart
<1>4. CASE Tick \/ bmc_i2c_rx_isr \/ FlashTaskTakes \/ FlashTaskEnds
  BY <1>4 DEF Tick, bmc_i2c_rx_isr, FlashTaskTakes, FlashTaskEnds
<1>5. CASE EventWait \/ DrainBmc \/ BmcDrained \/ DispatchQuery \/ DispatchUpdate
  BY <1>5 DEF EventWait, DrainBmc, BmcDrained, DispatchQuery, DispatchUpdate
<1>6. CASE protocol_hdlr_send_response \/ NicDrained \/ CheckLiveness
  BY <1>6 DEF protocol_hdlr_send_response, NicDrained, CheckLiveness
<1>7. CASE UNCHANGED vars  BY <1>7
<1> QED
  BY <1>1, <1>2, <1>3, <1>4, <1>5, <1>6, <1>7 DEF Next, bmc_mgr_task

(* Every NIC alert that found room is queued or was logged, once. *)
THEOREM AlertsKept == Spec => []AlertsAccounted
<1>1. Init => AlertsAccounted  BY Empty DEF Init, AlertsAccounted
<1> QED  BY <1>1, AlertStep, TypeInvariance, PTL DEF Spec

-----------------------------------------------------------------------------
(* In the BMC manager the circular buffer is the event log: every entry    *)
(* the task writes and every restart is a step of it, and no other step    *)
(* touches it.                                                             *)
THEOREM LogKept == Spec => ImplementsLog
<1>1. Init => SelInit  BY DEF Init
<1>2. TypeInv /\ [Next]_vars => [SelNext]_selVars
  <2> SUFFICES ASSUME TypeInv, [Next]_vars PROVE SelNext \/ UNCHANGED selVars
    OBVIOUS
  <2>1. CASE handle_nic_event
    <3>1. nic_event_queue \in Seq({"HW_ERROR"}) /\ nic_event_queue # <<>>
      BY <2>1 DEF handle_nic_event, TypeInv, TypeOK
    <3>2. Head(nic_event_queue) = "HW_ERROR"  BY <3>1
    <3> QED  BY <2>1, <3>2, Logged DEF handle_nic_event
  <2>2. CASE CheckLiveness  BY <2>2, Logged DEF CheckLiveness
  <2>3. CASE Restart  BY <2>3 DEF Restart, SelNext
  <2>4. CASE Tick \/ bmc_i2c_rx_isr \/ nic_alert_isr \/ FlashTaskTakes \/ FlashTaskEnds
    BY <2>4 DEF Tick, bmc_i2c_rx_isr, nic_alert_isr, FlashTaskTakes, FlashTaskEnds
  <2>5. CASE EventWait \/ DrainBmc \/ BmcDrained \/ DispatchQuery \/ DispatchUpdate
    BY <2>5 DEF EventWait, DrainBmc, BmcDrained, DispatchQuery, DispatchUpdate
  <2>6. CASE protocol_hdlr_send_response \/ NicDrained
    BY <2>6 DEF protocol_hdlr_send_response, NicDrained
  <2>7. CASE UNCHANGED vars  BY <2>7
  <2> QED
    BY <2>1, <2>2, <2>3, <2>4, <2>5, <2>6, <2>7 DEF Next, bmc_mgr_task
<1> QED  BY <1>1, <1>2, TypeInvariance, LogRefinement, PTL DEF Spec, SelSpec

-----------------------------------------------------------------------------
(* The watch over a silent BMC.                                            *)

(* The counter has wrapped at most once since the last block. *)
TimeInv == silence = IF tick >= s_last_bmc_seen_ms
                     THEN tick - s_last_bmc_seen_ms
                     ELSE tick - s_last_bmc_seen_ms + TickMod

(* Subtraction modulo the width of the counter. *)
LEMMA Elapsed ==
    ASSUME NEW n \in Nat, n > 0, NEW a \in 0 .. n - 1, NEW b \in 0 .. n - 1
    PROVE  (a - b) % n = IF a >= b THEN a - b ELSE a - b + n
<1>1. CASE a >= b
  <2>1. \A q \in Int, m \in Int : 0 <= q /\ q < m => q % m = q  OBVIOUS
  <2>2. 0 <= a - b /\ a - b < n  BY <1>1
  <2> QED  BY <1>1, <2>1, <2>2
<1>2. CASE a < b
  <2>1. \A q \in Int, m \in Int : 0 - m <= q /\ q < 0 => q % m = q + m  OBVIOUS
  <2>2. 0 - n <= a - b /\ a - b < 0  BY <1>2
  <2> QED  BY <1>2, <2>1, <2>2
<1> QED  BY <1>1, <1>2

LEMMA TimeStep == TypeInv /\ TimeInv /\ [Next]_vars => TimeInv'
<1> SUFFICES ASSUME TypeInv, TimeInv, [Next]_vars PROVE TimeInv'
  OBVIOUS
<1> USE DEF TimeInv
<1>typ. /\ tick \in 0 .. TickMod - 1 /\ s_last_bmc_seen_ms \in 0 .. TickMod - 1
        /\ silence \in 0 .. TickMod - 1 /\ TickMod \in Nat /\ TickMod > 0
  BY Depths DEF TypeInv, TypeOK
<1>1. CASE Tick
  <2>1. /\ tick' = (tick + 1) % TickMod /\ silence < TickMod - 1 /\ silence' = silence + 1
        /\ UNCHANGED s_last_bmc_seen_ms
    BY <1>1 DEF Tick
  <2>2. tick' = IF tick + 1 = TickMod THEN 0 ELSE tick + 1  BY <1>typ, <2>1, HeadWraps
  <2> QED  BY <1>typ, <2>1, <2>2
<1>2. CASE Restart  BY <1>2 DEF Restart
<1>3. CASE DrainBmc  BY <1>3, <1>typ DEF DrainBmc
<1>4. CASE bmc_i2c_rx_isr \/ nic_alert_isr \/ FlashTaskTakes \/ FlashTaskEnds
  BY <1>4 DEF bmc_i2c_rx_isr, nic_alert_isr, FlashTaskTakes, FlashTaskEnds
<1>5. CASE EventWait \/ BmcDrained \/ DispatchQuery \/ DispatchUpdate
  BY <1>5 DEF EventWait, BmcDrained, DispatchQuery, DispatchUpdate
<1>6. CASE protocol_hdlr_send_response \/ handle_nic_event \/ NicDrained \/ CheckLiveness
  BY <1>6 DEF protocol_hdlr_send_response, handle_nic_event, NicDrained, CheckLiveness
<1>7. CASE UNCHANGED vars  BY <1>7
<1> QED
  BY <1>1, <1>2, <1>3, <1>4, <1>5, <1>6, <1>7 DEF Next, bmc_mgr_task

(* A liveness entry is logged exactly when the BMC has been silent for the *)
(* timeout, for every width of the tick counter that the timeout fits in,  *)
(* across its wrap.  In a log of one slot the write index says nothing.    *)
THEOREM SilenceLogged == ASSUME SEL_MAX_ENTRIES > 1 PROVE Spec => LivenessExact
<1>1. Init => TimeInv  BY DEF Init, TimeInv
<1>2. TypeInv /\ TimeInv =>
        [CheckLiveness => (s_sel_head' # s_sel_head <=> silence >= LivenessTimeout)]_vars
  <2> SUFFICES ASSUME TypeInv, TimeInv, CheckLiveness
               PROVE  s_sel_head' # s_sel_head <=> silence >= LivenessTimeout
    OBVIOUS
  <2>typ. /\ tick \in 0 .. TickMod - 1 /\ s_last_bmc_seen_ms \in 0 .. TickMod - 1
          /\ silence \in 0 .. TickMod - 1 /\ TickMod \in Nat /\ TickMod > 0
          /\ LivenessTimeout \in Nat
    BY Depths DEF TypeInv, TypeOK
  <2>1. (tick - s_last_bmc_seen_ms) % TickMod = silence
    BY <2>typ, Elapsed DEF TimeInv
  <2>2. liveness_check <=> silence < LivenessTimeout  BY <2>1 DEF liveness_check
  <2>3. CASE liveness_check
    BY <2>typ, <2>2, <2>3 DEF CheckLiveness
  <2>4. CASE ~liveness_check
    <3>1. nic_gen_mgr_log_sel_event("LIVENESS", 0, tick)  BY <2>4 DEF CheckLiveness
    <3>2. "LIVENESS" \in EventTypes /\ 0 \in EventData /\ tick \in Stamps /\ SelInv
      BY EventAssumption DEF TypeInv, TypeOK
    <3>3. s_sel_head' = IF s_sel_head + 1 = SEL_MAX_ENTRIES THEN 0 ELSE s_sel_head + 1
      BY <3>1, <3>2, SelStep
    <3>4. s_sel_head \in 0 .. SEL_MAX_ENTRIES - 1 /\ SEL_MAX_ENTRIES \in Nat
      BY <3>2, SelAssumption DEF SelInv, SelTypeOK, Slots
    <3>5. s_sel_head' # s_sel_head  BY <3>3, <3>4
    <3> QED  BY <2>typ, <2>2, <2>4, <3>5
  <2> QED  BY <2>3, <2>4
<1> QED  BY <1>1, <1>2, TimeStep, TypeInvariance, PTL DEF Spec, LivenessExact
=============================================================================
