--------------------------- MODULE FirmwareProofs ---------------------------
(***************************************************************************)
(* Proofs about Firmware: for every sender the ASSUMEs allow, every depth  *)
(* of both queues, any losses and any restarts, what the BMC sees is the   *)
(* server of whole requests of RequestServer.                              *)
(***************************************************************************)
EXTENDS Firmware, MctpRxMessageProofs

USE DEF vars, reassembly, crash, allVars, task, flash

-----------------------------------------------------------------------------
(* Every step of the firmware is one of the receive path, or leaves it     *)
(* alone, so that what MctpRx guarantees holds within the firmware.        *)

LEMMA FirmwareCases ==
    ASSUME [FirmwareNext]_allVars
    PROVE  \/ BmcWrites \/ DrainBlock \/ DispatchQuery \/ DispatchUpdate
           \/ protocol_hdlr_send_response \/ FlashTaskStep \/ FlashRestart
           \/ UNCHANGED allVars
BY DEF FirmwareNext, bmc_mgr_task

LEMMA ReceivePath == [FirmwareNext]_allVars => [Next]_vars
<1> SUFFICES ASSUME [FirmwareNext]_allVars PROVE [Next]_vars
  OBVIOUS
<1>1. CASE BmcWrites  BY <1>1 DEF BmcWrites, Next
<1>2. CASE DrainBlock  BY <1>2 DEF DrainBlock, Next
<1>3. CASE FlashRestart  BY <1>3 DEF FlashRestart, Next
<1>4. CASE DispatchQuery \/ DispatchUpdate \/ protocol_hdlr_send_response \/ FlashTaskStep
  BY <1>4 DEF DispatchQuery, DispatchUpdate, protocol_hdlr_send_response, FlashTaskStep
<1>5. CASE UNCHANGED allVars  BY <1>5
<1> QED  BY <1>1, <1>2, <1>3, <1>4, <1>5, FirmwareCases

-----------------------------------------------------------------------------
(* The inductive invariant.                                                *)

Codes     == {"SUCCESS", "ERROR", "INVALID_CMD"}
Responses == [id : 1 .. MaxPackets, cc : Codes, tx_len : 0 .. BlockSize]

RecordsInv ==
    /\ pc \in {"drain", "dispatch", "respond"} /\ cc \in Codes
    /\ kinds \in Seq(Kinds) /\ Len(kinds) = Len(wire) /\ Len(wire) <= MaxPackets
    /\ responses \in Seq(Responses)

(* What waits in the queue comes after what was served and after what is   *)
(* being served.                                                           *)
OrderInv ==
    /\ served \in 0 .. Len(wire)
    /\ pc # "drain" => final \in Packets
    /\ pc = "dispatch" => served < final
    /\ \A k \in Packets : Queued(k) => k > served /\ (pc = "dispatch" => k > final)

(* What is dispatched is a message of the BMC. *)
WholeInv ==
    pc = "dispatch" =>
        \/ HeavyLoss
        \/ \E first, n \in Packets : IsMessage(first, n) /\ msg = Message(first, n)

FirmwareInv == MessageInv /\ RecordsInv /\ OrderInv /\ WholeInv

LEMMA FrameRoom == BlockSize \in Nat /\ 24 <= BlockSize /\ PacketSize \in Nat
BY Sizes, FrameAssumption DEF RecordSize

(* Steps that leave the receive path alone leave its properties alone. *)
LEMMA PathUntouched ==
    ASSUME UNCHANGED vars
    PROVE  /\ Packets' = Packets /\ (HeavyLoss' <=> HeavyLoss)
           /\ \A k \in Packets : Queued(k)' <=> Queued(k)
           /\ \A first, n \in Packets : IsMessage(first, n)' <=> IsMessage(first, n)
BY DEF Packets, HeavyLoss, Queued, IsMessage

LEMMA RecordsStep == FirmwareInv /\ [FirmwareNext]_allVars => RecordsInv'
<1> SUFFICES ASSUME FirmwareInv, [FirmwareNext]_allVars PROVE RecordsInv'
  OBVIOUS
<1>0. TypeInv /\ RecordsInv /\ OrderInv  BY DEF FirmwareInv, MessageInv
<1>1. CASE BmcWrites
  <2>1. /\ UNCHANGED <<pc, cc, responses>>  BY <1>1 DEF BmcWrites
  <2>2. CASE WriteRunt /\ UNCHANGED kinds
    BY <1>0, <2>1, <2>2 DEF RecordsInv, WriteRunt
  <2>3. CASE ~(WriteRunt /\ UNCHANGED kinds)
    <3>1. PICK som, eom, seq, length : Write(som, eom, seq, length)
      BY <1>1, <2>3 DEF BmcWrites, WriteFirst, WriteNext
    <3>2. Len(wire') = Len(wire) + 1 /\ Len(wire) < MaxPackets /\ Len(wire) \in Nat
      <4>1. wire \in Seq(WirePackets)  BY <1>0 DEF TypeInv, TypeOK
      <4> QED  BY <3>1, <4>1 DEF Write
    <3>3. \E k \in Kinds : kinds' = Append(kinds, k)
      <4>1. CASE WriteFirst /\ \E k \in MessageKinds : kinds' = Append(kinds, k)
        BY <4>1, FirmwareAssumption
      <4>2. CASE WriteNext /\ kinds' = Append(kinds, kinds[Len(kinds)])
        <5>1. wire # <<>>  BY <4>2 DEF WriteNext, Idle, last
        <5>2. Len(wire) # 0  BY <1>0, <5>1, LastPacket
        <5>3. kinds[Len(kinds)] \in Kinds  BY <1>0, <3>2, <5>2 DEF RecordsInv
        <5> QED  BY <4>2, <5>3
      <4> QED  BY <1>1, <2>3, <4>1, <4>2 DEF BmcWrites
    <3>4. kinds' \in Seq(Kinds) /\ Len(kinds') = Len(kinds) + 1  BY <1>0, <3>3 DEF RecordsInv
    <3>5. MaxPackets \in Nat  BY SizesAssumption
    <3> QED  BY <1>0, <2>1, <3>2, <3>4, <3>5 DEF RecordsInv
  <2> QED  BY <2>2, <2>3
<1>2. CASE DrainBlock
  <2>1. UNCHANGED <<wire, kinds, cc, responses>> /\ pc' \in {pc, "dispatch"}
    BY <1>2, StepOfTask DEF DrainBlock
  <2> QED  BY <1>0, <2>1 DEF RecordsInv
<1>3. CASE DispatchQuery \/ DispatchUpdate
  <2>1. UNCHANGED <<wire, kinds, responses>> /\ pc' = "respond" /\ cc' \in Codes
    BY <1>3 DEF DispatchQuery, DispatchUpdate, CodeOf, Codes
  <2> QED  BY <1>0, <2>1 DEF RecordsInv
<1>4. CASE protocol_hdlr_send_response
  <2>1. /\ UNCHANGED <<wire, kinds>> /\ pc = "respond" /\ pc' = "drain" /\ cc' = "SUCCESS"
    BY <1>4 DEF protocol_hdlr_send_response
  <2> DEFINE length == mctp_frame_tx(pldm_build_response(resp_len))
             response == [id |-> final, cc |-> cc, tx_len |-> length]
  <2>2. responses' = responses \/ responses' = Append(responses, response)
    BY <1>4 DEF protocol_hdlr_send_response
  <2>3. length \in 0 .. BlockSize
    <3>1. resp_len \in {0, 16}  BY DEF resp_len, RecordSize
    <3> QED
      BY <3>1, FrameRoom DEF mctp_frame_tx, pldm_build_response, SmallerOf
  <2>4. final \in 1 .. MaxPackets
    <3>1. final \in Packets  BY <1>0, <2>1 DEF OrderInv
    <3> QED  BY <1>0, <3>1, SizesAssumption DEF Packets, RecordsInv, TypeInv, TypeOK
  <2> HIDE DEF length
  <2>5. response \in Responses  BY <1>0, <2>3, <2>4 DEF Responses, RecordsInv
  <2>6. responses' \in Seq(Responses)  BY <1>0, <2>2, <2>5 DEF RecordsInv
  <2> QED  BY <1>0, <2>1, <2>6 DEF RecordsInv, Codes
<1>5. CASE FlashTaskStep \/ UNCHANGED allVars
  BY <1>0, <1>5 DEF FlashTaskStep, RecordsInv
<1>6. CASE FlashRestart
  BY <1>0, <1>6 DEF FlashRestart, Restart, RecordsInv, Codes
<1> QED  BY <1>1, <1>2, <1>3, <1>4, <1>5, <1>6, FirmwareCases

LEMMA OrderStep == FirmwareInv /\ [FirmwareNext]_allVars => OrderInv'
<1> SUFFICES ASSUME FirmwareInv, [FirmwareNext]_allVars PROVE OrderInv'
  OBVIOUS
<1>0. /\ TypeInv /\ QueueInv /\ RecordsInv /\ OrderInv
      /\ Packets = 1 .. Len(wire) /\ Len(wire) \in Nat
  BY DEF FirmwareInv, MessageInv, TypeInv, TypeOK, Packets
<1>1. CASE BmcWrites
  <2>1. Writes \/ WriteRunt
    <3>1. WriteFirst \/ WriteNext \/ WriteRunt  BY <1>1 DEF BmcWrites
    <3>3. CASE WriteFirst
      <4>1. PICK seq \in 0 .. 3, eom \in BOOLEAN, length \in Lengths :
                (ContinuousSeq => seq = (last.seq + 1) % 4) /\ Write(TRUE, eom, seq, length)
        BY <3>3 DEF WriteFirst
      <4>2. Idle \/ MayAbort  BY <3>3 DEF WriteFirst
      <4> QED  BY <4>1, <4>2 DEF Writes
    <3>4. CASE WriteNext
      <4>1. PICK eom \in BOOLEAN, length \in Lengths :
                Write(FALSE, eom, (last.seq + 1) % 4, length)
        BY <3>4 DEF WriteNext
      <4>2. ~Idle  BY <3>4 DEF WriteNext
      <4> QED  BY <1>0, <4>1, <4>2, LastPacket DEF Writes
    <3> QED  BY <3>1, <3>3, <3>4
  <2>2. UNCHANGED <<pc, msg, served>> /\ final' = final  BY <1>1 DEF BmcWrites, final
  <2>3. Packets \subseteq Packets' /\ \A k \in Packets : Queued(k)' <=> Queued(k)
    BY <1>0, <2>1, Arrival
  <2>4. \A k \in Packets' : k \in Packets \/ k > Len(wire)  BY <1>0, <2>1, Arrival
  <2>5. Len(wire') >= Len(wire) /\ Packets' = 1 .. Len(wire') /\ Len(wire') \in Nat
    <3>1. TypeInv'  BY <1>0, TypeStep, ReceivePath
    <3>2. Packets' = 1 .. Len(wire') /\ Len(wire') \in Nat
      BY <3>1 DEF TypeInv, TypeOK, Packets
    <3>3. CASE Len(wire) = 0  BY <3>2, <3>3
    <3>4. CASE Len(wire) # 0
      <4>1. Len(wire) \in Packets  BY <1>0, <3>4
      <4> QED  BY <2>3, <3>2, <4>1
    <3> QED  BY <3>2, <3>3, <3>4
  <2>6. /\ served' \in 0 .. Len(wire') /\ (pc' # "drain" => final' \in Packets')
        /\ (pc' = "dispatch" => served' < final')
    BY <1>0, <2>2, <2>3, <2>5 DEF OrderInv
  <2>7. ASSUME NEW k \in Packets', Queued(k)'
        PROVE  k > served /\ (pc = "dispatch" => k > final)
    <3>1. CASE k \in Packets  BY <1>0, <2>3, <2>7, <3>1 DEF OrderInv
    <3>2. CASE k > Len(wire)  BY <1>0, <2>5, <3>2 DEF OrderInv
    <3> QED  BY <2>4, <3>1, <3>2
  <2> QED  BY <2>2, <2>6, <2>7 DEF OrderInv
<1>2. CASE DrainBlock
  <2>1. /\ pc = "drain" /\ Receive /\ UNCHANGED <<wire, served>> /\ Packets' = Packets
    BY <1>2, StepOfTask DEF DrainBlock
  <2>2. \A k \in Packets : Queued(k)' => Queued(k)  BY <1>0, <2>1, Taken
  <2>3. CASE MessageComplete
    <3>1. HasHeader /\ pc' = "dispatch" /\ msg' = assembled
      BY <1>2, <2>3 DEF DrainBlock, MessageComplete
    <3>2. /\ block.pkt \in Packets /\ Queued(block.pkt)
          /\ \A k \in Packets : Queued(k)' => k > block.pkt
      BY <1>0, <2>1, <3>1, Taken
    <3>3. final' = block.pkt
      <4>1. fragments \in Seq(Packets)
        BY <1>0, Empty DEF fragments, TypeInv, TypeOK
      <4>2. assembled[Len(assembled)] = block.pkt  BY <3>2, <4>1 DEF assembled
      <4> QED  BY <3>1, <4>2 DEF final
    <3>4. served < block.pkt  BY <1>0, <3>2 DEF OrderInv
    <3> QED  BY <1>0, <2>1, <2>2, <3>1, <3>2, <3>3, <3>4 DEF OrderInv
  <2>4. CASE ~MessageComplete
    <3>1. pc' = "drain"  BY <1>2, <2>1, <2>4 DEF DrainBlock
    <3> QED  BY <1>0, <2>1, <2>2, <3>1 DEF OrderInv
  <2> QED  BY <2>3, <2>4
<1>3. CASE DispatchQuery \/ DispatchUpdate
  <2>1. /\ pc = "dispatch" /\ pc' = "respond" /\ served' = final /\ final' = final
        /\ UNCHANGED vars
    BY <1>3 DEF DispatchQuery, DispatchUpdate, final
  <2>2. Packets' = Packets /\ \A k \in Packets : Queued(k)' <=> Queued(k)
    BY <2>1, PathUntouched
  <2> QED  BY <1>0, <2>1, <2>2 DEF OrderInv
<1>4. CASE protocol_hdlr_send_response
  <2>1. pc = "respond" /\ pc' = "drain" /\ served' = served /\ UNCHANGED vars
    BY <1>4 DEF protocol_hdlr_send_response
  <2>2. Packets' = Packets /\ \A k \in Packets : Queued(k)' <=> Queued(k)
    BY <2>1, PathUntouched
  <2> QED  BY <1>0, <2>1, <2>2 DEF OrderInv
<1>5. CASE FlashTaskStep \/ UNCHANGED allVars
  <2>1. UNCHANGED <<pc, msg, served>> /\ UNCHANGED vars /\ final' = final
    BY <1>5 DEF FlashTaskStep, final
  <2>2. Packets' = Packets /\ \A k \in Packets : Queued(k)' <=> Queued(k)
    BY <2>1, PathUntouched
  <2> QED  BY <1>0, <2>1, <2>2 DEF OrderInv
<1>6. CASE FlashRestart
  <2>1. pc' = "drain" /\ UNCHANGED <<wire, served>> /\ bmc_rx_queue' = <<>>
    BY <1>6 DEF FlashRestart, Restart
  <2>2. \A k \in Packets' : ~Queued(k)'  BY <2>1 DEF Queued
  <2> QED  BY <1>0, <2>1, <2>2 DEF OrderInv
<1> QED  BY <1>1, <1>2, <1>3, <1>4, <1>5, <1>6, FirmwareCases

LEMMA WholeStep == FirmwareInv /\ [FirmwareNext]_allVars => WholeInv'
<1> SUFFICES ASSUME FirmwareInv, [FirmwareNext]_allVars, pc' = "dispatch", ~HeavyLoss'
             PROVE  \E first, n \in Packets' : IsMessage(first, n)' /\ msg' = Message(first, n)
  BY DEF WholeInv, Message
<1>0. TypeInv /\ WireInv /\ QueueInv /\ WholeInv  BY DEF FirmwareInv, MessageInv
<1>1. ~HeavyLoss  BY <1>0, LossStays, ReceivePath
<1>2. AssemblyInv  BY <1>1 DEF FirmwareInv, MessageInv
<1>3. CASE DrainBlock
  <2>1. /\ pc = "drain" /\ mctp_process_rx /\ MessageComplete /\ msg' = assembled
    BY <1>3 DEF DrainBlock
  <2>2. Receive /\ UNCHANGED wire /\ Packets' = Packets  BY <2>1, StepOfTask
  <2>3. Accept /\ pkt.eom  BY <2>1, <2>2 DEF MessageComplete, Accept
  <2>4. PICK first \in Packets :
            Partial(first, block.pkt) /\ assembled = Message(first, block.pkt)
    BY <1>0, <1>1, <1>2, <2>3, AcceptedStretch
  <2>5. PICK n \in Packets : n = block.pkt
    BY <1>0, <2>2, <2>3, Taken DEF Accept
  <2>6. IsMessage(first, n)  BY <2>3, <2>4, <2>5 DEF Partial, IsMessage, pkt
  <2>7. IsMessage(first, n)'  BY <2>2, <2>6 DEF IsMessage
  <2> QED  BY <2>1, <2>2, <2>4, <2>5, <2>7
<1>4. CASE BmcWrites
  <2>1. pc' = pc /\ msg' = msg  BY <1>4 DEF BmcWrites
  <2>2. PICK first \in Packets, n \in Packets : IsMessage(first, n) /\ msg = Message(first, n)
    BY <1>0, <1>1, <2>1 DEF WholeInv
  <2>3. Writes \/ WriteRunt \/ mctp_process_rx \/ Restart \/ UNCHANGED vars
    BY <1>0, NextCases, ReceivePath
  <2>4. first \in Packets' /\ n \in Packets' /\ IsMessage(first, n)'
    <3>1. CASE Writes \/ WriteRunt  BY <1>0, <2>2, <3>1, Arrival, ArrivalKeeps
    <3>2. CASE mctp_process_rx \/ Restart \/ UNCHANGED vars
      <4>1. UNCHANGED wire  BY <3>2, StepOfTask DEF Restart
      <4> QED  BY <2>2, <4>1 DEF Packets, IsMessage
    <3> QED  BY <2>3, <3>1, <3>2
  <2> QED  BY <2>1, <2>2, <2>4
<1>5. CASE FlashTaskStep \/ UNCHANGED allVars
  <2>1. UNCHANGED <<pc, msg>> /\ UNCHANGED vars  BY <1>5 DEF FlashTaskStep
  <2>2. PICK first \in Packets, n \in Packets : IsMessage(first, n) /\ msg = Message(first, n)
    BY <1>0, <1>1, <2>1 DEF WholeInv
  <2> QED  BY <2>1, <2>2, PathUntouched
<1>6. ~(DispatchQuery \/ DispatchUpdate \/ protocol_hdlr_send_response \/ FlashRestart)
  BY DEF DispatchQuery, DispatchUpdate, protocol_hdlr_send_response, FlashRestart
<1> QED  BY <1>3, <1>4, <1>5, <1>6, FirmwareCases

THEOREM FirmwareInvariance == FirmwareSpec => []FirmwareInv
<1>1. FirmwareInit => FirmwareInv
  <2> SUFFICES ASSUME FirmwareInit PROVE FirmwareInv
    OBVIOUS
  <2>1. Init /\ MessageInv  BY MessageStart DEF FirmwareInit
  <2>2. wire = <<>> /\ Packets = {}  BY <2>1 DEF Init, Packets
  <2>3. MaxPackets \in Nat  BY SizesAssumption
  <2>4. RecordsInv  BY <2>2, <2>3 DEF FirmwareInit, RecordsInv, Codes
  <2> QED  BY <2>1, <2>2, <2>4 DEF FirmwareInit, FirmwareInv, OrderInv, WholeInv
<1>2. FirmwareInv /\ [FirmwareNext]_allVars => FirmwareInv'
  BY MessageStep, ReceivePath, RecordsStep, OrderStep, WholeStep DEF FirmwareInv
<1> QED  BY <1>1, <1>2, PTL DEF FirmwareSpec

(* The frame of every answer fits the transmit buffer of one SMBus block,  *)
(* whatever was asked.                                                     *)
THEOREM FramesFit == FirmwareSpec => []FrameFits
<1>1. FirmwareInv => FrameFits
  <2> SUFFICES ASSUME FirmwareInv, NEW k \in DOMAIN responses
               PROVE  responses[k].tx_len <= BlockSize
    BY DEF FrameFits
  <2>1. responses[k] \in Responses  BY DEF FirmwareInv, RecordsInv
  <2> QED  BY <2>1, Sizes DEF Responses
<1> QED  BY <1>1, FirmwareInvariance, PTL

-----------------------------------------------------------------------------
(* The refinement: a message whose last packet is on the wire is a request *)
(* that was sent, the task's answer on its way is the server's.            *)

asked == {r \in Requests : /\ r.id \in Packets
                           /\ \E first \in Packets :
                                IsMessage(first, r.id) /\ kinds[first] = r.kind}

outcome == IF pc = "respond" THEN [id |-> final, cc |-> cc] ELSE <<>>

answers == [k \in DOMAIN responses |-> [id |-> responses[k].id, cc |-> responses[k].cc]]

(* What the instance says, in these terms. *)
LEMMA ServerTerms ==
    /\ Server!serverVars = <<asked, served, outcome, answers>>
    /\ Server!Init <=> /\ asked = {} /\ served = 0 /\ outcome = <<>> /\ answers = <<>>
                       /\ flash_cmd_queue = <<>> /\ flash_working = FALSE
BY DEF Server!serverVars, Server!Init, Server!FlashInit, asked, outcome, answers

LEMMA ServerAsk ==
    ASSUME NEW r \in Requests, \A q \in asked : q.id < r.id, asked' = asked \cup {r},
           UNCHANGED <<served, outcome, answers, flash>>
    PROVE  Server!Next
<1>1. Server!Ask(r)  BY DEF Server!Ask, Server!flashVars, asked, outcome, answers
<1> QED  BY <1>1 DEF Server!Next

LEMMA ServerServe ==
    ASSUME NEW r \in asked, served < r.id, outcome = <<>>, served' = r.id,
           outcome' = [id |-> r.id, cc |-> cc'], UNCHANGED <<asked, answers>>,
           \/ r.kind # "update" /\ cc' = CodeOf(r.kind) /\ UNCHANGED flash
           \/ r.kind = "update" /\ cc' = "SUCCESS" /\ Flash!Send(r.id)
           \/ /\ r.kind = "update" /\ cc' = "ERROR" /\ UNCHANGED flash
              /\ ~HasRoom(flash_cmd_queue, FlashDepth)
    PROVE  Server!Next
<1>1. r \in Requests  BY DEF asked
<1>2. Server!Serve(r, cc')  BY DEF Server!Serve, asked, outcome, answers
<1>3. CASE r.kind # "update" /\ cc' = CodeOf(r.kind) /\ UNCHANGED flash
  <2>1. Server!ServeQuery(r)  BY <1>2, <1>3 DEF Server!ServeQuery, Server!flashVars
  <2> QED  BY <1>1, <2>1 DEF Server!Next
<1>4. CASE r.kind = "update" /\ cc' = "SUCCESS" /\ Flash!Send(r.id)
  <2>1. Server!Send(r.id)
    BY <1>4 DEF Flash!Send, Server!Send, Flash!HasRoom, Server!HasRoom, Flash!rtos_queue_send,
                Server!rtos_queue_send
  <2>2. Server!Accept(r)  BY <1>2, <1>4, <2>1 DEF Server!Accept
  <2> QED  BY <1>1, <2>2 DEF Server!Next
<1>5. CASE /\ r.kind = "update" /\ cc' = "ERROR" /\ UNCHANGED flash
           /\ ~HasRoom(flash_cmd_queue, FlashDepth)
  <2>1. Server!Refuse(r)
    BY <1>2, <1>5 DEF Server!Refuse, Server!flashVars, HasRoom, Server!HasRoom
  <2> QED  BY <1>1, <2>1 DEF Server!Next
<1> QED  BY <1>3, <1>4, <1>5

LEMMA ServerAnswer ==
    ASSUME outcome # <<>>, outcome' = <<>>, UNCHANGED <<asked, served, flash>>,
           answers' = answers \/ answers' = Append(answers, outcome)
    PROVE  Server!Next
<1>1. Server!Answer \/ Server!LoseAnswer
  BY DEF Server!Answer, Server!LoseAnswer, Server!flashVars, asked, outcome, answers
<1> QED  BY <1>1 DEF Server!Next

LEMMA ServerFlash ==
    ASSUME Flash!Take \/ Flash!End, UNCHANGED <<asked, served, outcome, answers>>
    PROVE  Server!Next
<1>1. Server!Take \/ Server!End
  BY DEF Flash!Take, Server!Take, Flash!End, Server!End, Flash!rtos_queue_receive,
         Server!rtos_queue_receive
<1>2. Server!FlashSteps  BY <1>1 DEF Server!FlashSteps, Server!serverVars, asked, outcome, answers
<1> QED  BY <1>2 DEF Server!Next

LEMMA ServerCrash ==
    ASSUME Flash!Restart, outcome' = <<>>, UNCHANGED <<asked, served, answers>>
    PROVE  Server!Next
<1>1. Server!Crash
  BY DEF Flash!Restart, Server!Restart, Server!Crash, asked, outcome, answers
<1> QED  BY <1>1 DEF Server!Next

(* As long as nothing is written, nothing is asked. *)
LEMMA AskedUntouched ==
    ASSUME UNCHANGED <<wire, kinds>>
    PROVE  asked' = asked
BY DEF asked, Packets, IsMessage

(* A packet that is written ends at most one message. *)
LEMMA AskedGrows ==
    ASSUME FirmwareInv, BmcWrites
    PROVE  \/ asked' = asked
           \/ \E r \in Requests : asked' = asked \cup {r} /\ \A q \in asked : q.id < r.id
<1>0. /\ TypeInv /\ RecordsInv /\ Packets = 1 .. Len(wire) /\ Len(wire) \in Nat
  BY DEF FirmwareInv, MessageInv, TypeInv, TypeOK, Packets
<1>1. CASE WriteRunt /\ UNCHANGED kinds
  <2>1. UNCHANGED wire  BY <1>1 DEF WriteRunt
  <2> QED  BY <1>1, <2>1, AskedUntouched
<1>2. CASE ~(WriteRunt /\ UNCHANGED kinds)
  <2>1. PICK som, eom, seq, length : Write(som, eom, seq, length)
    BY <1>2 DEF BmcWrites, WriteFirst, WriteNext
  <2>2. PICK n \in Nat : n = Len(wire) + 1  BY <1>0
  <2>3. /\ Packets' = 1 .. n /\ \A k \in Packets : wire'[k] = wire[k]
        /\ Packets' = Packets \cup {n}
    BY <1>0, <2>1, <2>2, WriteGrows
  <2>4. \E k : kinds' = Append(kinds, k)  BY <1>2 DEF BmcWrites
  <2>5. \A k \in Packets : kinds'[k] = kinds[k]
    BY <1>0, <2>4 DEF RecordsInv
  <2>6. \A first, k \in Packets : IsMessage(first, k)' <=> IsMessage(first, k)
    <3> SUFFICES ASSUME NEW first \in Packets, NEW k \in Packets
                 PROVE  IsMessage(first, k)' <=> IsMessage(first, k)
      OBVIOUS
    <3>1. (first + 1 .. k) \subseteq Packets /\ (first .. k - 1) \subseteq Packets  BY <1>0
    <3> QED  BY <2>3, <3>1 DEF IsMessage
  <2> DEFINE Ends(r) == \E first \in 1 .. n : IsMessage(first, n)' /\ kinds'[first] = r.kind
  <2>7. ASSUME NEW r \in Requests
        PROVE  r \in asked' <=> r \in asked \/ (r.id = n /\ Ends(r))
    <3>1. CASE r.id = n
      <4>1. r \notin asked  BY <1>0, <2>2, <3>1 DEF asked
      <4>2. r \in asked' <=> Ends(r)  BY <2>3, <3>1 DEF asked
      <4> QED  BY <3>1, <4>1, <4>2
    <3>2. CASE r.id # n
      <4>1. r.id \in Packets' <=> r.id \in Packets  BY <2>3, <3>2
      <4>2. ASSUME r.id \in Packets, NEW first \in Packets',
                   IsMessage(first, r.id)'
            PROVE  first \in Packets
        BY <1>0, <2>2, <2>3, <4>2 DEF IsMessage
      <4> QED  BY <2>3, <2>5, <2>6, <3>2, <4>1, <4>2 DEF asked
    <3> QED  BY <3>1, <3>2
  <2>8. CASE ~\E first \in 1 .. n : IsMessage(first, n)'
    <3>1. \A r \in Requests : r \in asked' <=> r \in asked  BY <2>7, <2>8
    <3> QED  BY <3>1 DEF asked
  <2>9. ASSUME NEW first \in 1 .. n, IsMessage(first, n)'
        PROVE  \E r \in Requests : asked' = asked \cup {r} /\ \A q \in asked : q.id < r.id
    <3>1. \A other \in 1 .. n : IsMessage(other, n)' => other = first
      <4> SUFFICES ASSUME NEW other \in 1 .. n, IsMessage(other, n)' PROVE other = first
        OBVIOUS
      <4>1. CASE other < first
        <5>1. first \in other + 1 .. n  BY <2>2, <4>1
        <5> QED  BY <2>9, <5>1 DEF IsMessage
      <4>2. CASE first < other
        <5>1. other \in first + 1 .. n  BY <2>2, <4>2
        <5> QED  BY <2>9, <5>1 DEF IsMessage
      <4> QED  BY <2>2, <4>1, <4>2
    <3> DEFINE r == [id |-> n, kind |-> kinds'[first]]
    <3>2. r \in Requests
      <4>1. RecordsInv'  BY RecordsStep DEF FirmwareNext
      <4>2. first \in 1 .. Len(wire') /\ n = Len(wire')
        <5>1. TypeInv'
          BY <1>0, TypeStep, ReceivePath DEF FirmwareNext
        <5> QED  BY <2>2, <2>3, <5>1 DEF TypeInv, TypeOK, Packets
      <4>3. kinds'[first] \in Kinds  BY <4>1, <4>2 DEF RecordsInv
      <4>4. n \in 1 .. MaxPackets  BY <2>2, <4>1, <4>2, SizesAssumption DEF RecordsInv
      <4> QED  BY <4>3, <4>4 DEF Requests
    <3>3. \A q \in Requests : (q.id = n /\ Ends(q)) <=> q = r
      <4> SUFFICES ASSUME NEW q \in Requests
                   PROVE  (q.id = n /\ Ends(q)) <=> q = r
        OBVIOUS
      <4>1. Ends(q) <=> q.kind = kinds'[first]  BY <2>9, <3>1
      <4>2. q = [id |-> q.id, kind |-> q.kind]  BY DEF Requests
      <4> QED  BY <4>1, <4>2
    <3>4. asked' = asked \cup {r}
      <4>1. asked \subseteq Requests /\ asked' \subseteq Requests  BY DEF asked, Requests
      <4> QED  BY <2>7, <3>2, <3>3, <4>1
    <3>5. \A q \in asked : q.id < n  BY <1>0, <2>2 DEF asked
    <3> QED  BY <3>2, <3>4, <3>5
  <2> QED  BY <2>8, <2>9
<1> QED  BY <1>1, <1>2

(* The request that the task dispatches is the one it took for it. *)
LEMMA Dispatched ==
    ASSUME FirmwareInv, pc = "dispatch", ~HeavyLoss
    PROVE  [id |-> final, kind |-> kind] \in asked /\ served < final
<1>1. PICK first \in Packets, n \in Packets : IsMessage(first, n) /\ msg = Message(first, n)
  BY DEF FirmwareInv, WholeInv
<1>2. Packets = 1 .. Len(wire) /\ Len(wire) \in Nat
  BY DEF FirmwareInv, MessageInv, TypeInv, TypeOK, Packets
<1>3. first <= n /\ first \in Nat /\ n \in Nat  BY <1>1, <1>2 DEF IsMessage
<1>4. msg[1] = first /\ msg[Len(msg)] = n
  <2> DEFINE l == n - first + 1
  <2>1. l \in Nat /\ 1 \in 1 .. l /\ l \in 1 .. l /\ first + l - 1 = n /\ first + 1 - 1 = first
    BY <1>3
  <2>2. msg = [k \in 1 .. l |-> first + k - 1]  BY <1>1 DEF Message
  <2> HIDE DEF l
  <2>3. Len(msg) = l  BY <2>1, <2>2
  <2> QED  BY <2>1, <2>2, <2>3
<1>5. final = n /\ kind = kinds[first]  BY <1>4 DEF final, kind
<1>6. kinds[first] \in Kinds /\ n \in 1 .. MaxPackets
  BY <1>1, <1>2, SizesAssumption DEF FirmwareInv, RecordsInv
<1>7. [id |-> n, kind |-> kinds[first]] \in Requests  BY <1>6 DEF Requests
<1>8. [id |-> n, kind |-> kinds[first]] \in asked  BY <1>1, <1>7 DEF asked
<1>9. served < final  BY DEF FirmwareInv, OrderInv
<1> QED  BY <1>5, <1>8, <1>9

LEMMA ServerStep ==
    ASSUME FirmwareInv, [FirmwareNext]_allVars, ~HeavyLoss'
    PROVE  Server!Next \/ UNCHANGED <<asked, served, outcome, answers, flash>>
<1>0. TypeInv /\ RecordsInv /\ ~HeavyLoss
  BY LossStays, ReceivePath DEF FirmwareInv, MessageInv
<1>1. CASE BmcWrites
  <2>1. UNCHANGED <<served, outcome, answers, flash>>
    BY <1>1 DEF BmcWrites, outcome, answers, final
  <2> QED  BY <1>1, <2>1, AskedGrows, ServerAsk
<1>2. CASE DrainBlock
  <2>1. UNCHANGED <<wire, kinds, served, responses, flash>> /\ pc # "respond" /\ pc' # "respond"
    BY <1>2, StepOfTask DEF DrainBlock
  <2>2. UNCHANGED <<asked, outcome, answers>>  BY <2>1, AskedUntouched DEF outcome, answers
  <2> QED  BY <2>1, <2>2
<1>3. CASE DispatchQuery \/ DispatchUpdate
  <2>1. /\ pc = "dispatch" /\ pc' = "respond" /\ served' = final /\ final' = final
        /\ UNCHANGED <<wire, kinds, responses>>
    BY <1>3 DEF DispatchQuery, DispatchUpdate, final
  <2>2. PICK r \in asked : r = [id |-> final, kind |-> kind]  BY <1>0, <2>1, Dispatched
  <2>3. r.id = final /\ r.kind = kind  BY <2>2
  <2>4. served < r.id  BY <1>0, <2>1, <2>3, Dispatched
  <2>5. /\ outcome = <<>> /\ outcome' = [id |-> r.id, cc |-> cc'] /\ answers' = answers
        /\ asked' = asked
    BY <2>1, <2>3, AskedUntouched DEF outcome, answers
  <2>6. \/ r.kind # "update" /\ cc' = CodeOf(r.kind) /\ UNCHANGED flash
        \/ r.kind = "update" /\ cc' = "SUCCESS" /\ Flash!Send(r.id)
        \/ /\ r.kind = "update" /\ cc' = "ERROR" /\ UNCHANGED flash
           /\ ~HasRoom(flash_cmd_queue, FlashDepth)
    BY <1>3, <2>3 DEF DispatchQuery, DispatchUpdate
  <2> QED  BY <2>1, <2>3, <2>4, <2>5, <2>6, ServerServe
<1>4. CASE protocol_hdlr_send_response
  <2>1. /\ pc = "respond" /\ pc' = "drain" /\ UNCHANGED <<wire, kinds, served, flash>>
    BY <1>4 DEF protocol_hdlr_send_response
  <2>2. outcome = [id |-> final, cc |-> cc] /\ outcome' = <<>> /\ asked' = asked
    BY <2>1, AskedUntouched DEF outcome
  <2>3. outcome # <<>>
    <3>1. DOMAIN outcome # {}  BY <2>2
    <3>2. DOMAIN <<>> = {}  OBVIOUS
    <3> QED  BY <3>1, <3>2
  <2>4. answers' = answers \/ answers' = Append(answers, outcome)
    <3> DEFINE length == mctp_frame_tx(pldm_build_response(resp_len))
               response == [id |-> final, cc |-> cc, tx_len |-> length]
    <3>1. CASE responses' = responses  BY <3>1 DEF answers
    <3>2. CASE responses' = Append(responses, response)
      <4> DEFINE n == Len(responses)
      <4>1. response.id = final /\ response.cc = cc  OBVIOUS
      <4> HIDE DEF response, n
      <4>2. /\ responses \in Seq(Responses) /\ n \in Nat /\ DOMAIN responses = 1 .. n
            /\ DOMAIN responses' = 1 .. n + 1 /\ responses'[n + 1] = response
            /\ \A k \in 1 .. n : responses'[k] = responses[k]
        BY <1>0, <3>2 DEF RecordsInv, n
      <4>3. answers = [k \in 1 .. n |-> [id |-> responses[k].id, cc |-> responses[k].cc]]
        BY <4>2 DEF answers
      <4>4. answers' = [k \in 1 .. n + 1 |-> IF k = n + 1 THEN outcome ELSE answers[k]]
        <5>1. \A k \in 1 .. n + 1 : k = n + 1 \/ k \in 1 .. n  BY <4>2
        <5> QED  BY <2>2, <4>1, <4>2, <4>3, <5>1 DEF answers
      <4>5. Append(answers, outcome) = [k \in 1 .. n + 1 |-> IF k = n + 1 THEN outcome ELSE answers[k]]
        BY <4>2, <4>3
      <4> QED  BY <4>4, <4>5
    <3> QED  BY <1>4, <3>1, <3>2 DEF protocol_hdlr_send_response
  <2> QED  BY <2>1, <2>2, <2>3, <2>4, ServerAnswer
<1>5. CASE FlashTaskStep
  <2>1. /\ Flash!Take \/ Flash!End
        /\ UNCHANGED <<wire, kinds, served, pc, msg, cc, responses>>
    BY <1>5 DEF FlashTaskStep
  <2>2. UNCHANGED <<asked, outcome, answers>>
    BY <2>1, AskedUntouched DEF outcome, answers, final
  <2> QED  BY <2>1, <2>2, ServerFlash
<1>6. CASE FlashRestart
  <2>1. Flash!Restart /\ pc' = "drain" /\ UNCHANGED <<wire, kinds, served, responses>>
    BY <1>6 DEF FlashRestart, Restart
  <2>2. outcome' = <<>> /\ asked' = asked /\ answers' = answers
    BY <2>1, AskedUntouched DEF outcome, answers
  <2> QED  BY <2>1, <2>2, ServerCrash
<1>7. CASE UNCHANGED allVars
  <2>1. asked' = asked  BY <1>7, AskedUntouched
  <2> QED  BY <1>7, <2>1 DEF outcome, answers, final
<1> QED  BY <1>1, <1>2, <1>3, <1>4, <1>5, <1>6, <1>7, FirmwareCases

(* To the BMC, the firmware is a server of whole requests: served at most  *)
(* once and in order, answered with what became of them or not at all,     *)
(* with updates accepted exactly if the flash queue takes them; through    *)
(* every interleaving, loss, abort and restart, up to a loss of more       *)
(* packets in a row than the sequence numbers can show.                    *)
THEOREM FirmwareIsServer == FirmwareSpec => ImplementsServer
<1>1. FirmwareInit => Server!Init
  <2> SUFFICES ASSUME FirmwareInit PROVE Server!Init
    OBVIOUS
  <2>1. Packets = {} /\ responses = <<>> /\ pc = "drain" /\ served = 0
    BY DEF FirmwareInit, Init, Packets
  <2>2. asked = {} /\ outcome = <<>>  BY <2>1 DEF asked, outcome
  <2>3. answers = <<>>
    <3>1. DOMAIN responses = {}  BY <2>1
    <3> QED  BY <3>1 DEF answers
  <2>4. flash_cmd_queue = <<>> /\ flash_working = FALSE
    BY DEF FirmwareInit, Flash!FlashInit
  <2> QED  BY <2>1, <2>2, <2>3, <2>4, ServerTerms
<1>2. FirmwareInv /\ [FirmwareNext]_allVars
        => [Server!Next \/ HeavyLoss']_<<Server!serverVars, flash>>
  <2> SUFFICES ASSUME FirmwareInv, [FirmwareNext]_allVars, ~HeavyLoss', ~Server!Next
               PROVE  UNCHANGED <<Server!serverVars, flash>>
    OBVIOUS
  <2>1. UNCHANGED <<asked, served, outcome, answers, flash>>  BY ServerStep
  <2>2. UNCHANGED Server!serverVars  BY <2>1 DEF Server!serverVars, asked, outcome, answers
  <2> QED  BY <2>1, <2>2
<1> QED  BY <1>1, <1>2, FirmwareInvariance, PTL DEF FirmwareSpec, ImplementsServer
=============================================================================
