------------------------------ MODULE Firmware ------------------------------
(***************************************************************************)
(* The way of a request through the whole firmware: the BMC writes packets *)
(* (MctpRx), the BMC manager's task drains, reassembles, dispatches and    *)
(* answers them one after the other, updates go to the flash manager       *)
(* (FlashTask), whose trap may restart the controller at any point.        *)
(***************************************************************************)
EXTENDS MctpRx

CONSTANTS FlashDepth,   \* QUEUE_DEPTH_FLASH
          MessageKinds  \* the kinds of the messages the BMC sends

Kinds == {"sensor", "no_sensor", "update", "unknown"}

(* The BMC's messages fit; MctpRx shows what happens if they do not. *)
ASSUME FirmwareAssumption ==
    /\ FlashDepth \in Nat \ {0} /\ MessageKinds \subseteq Kinds
    /\ MaxMessage <= PacketSize /\ \A n \in Lengths : n <= BlockSize

VARIABLES
    kinds,          \* history: for each packet the kind of its message
    pc, msg, cc,    \* bmc_mgr_task: drain, dispatch or respond; pldm and cc
    flash_cmd_queue, flash_working,
    served,         \* history: the last packet of the last message dispatched
    horizon,        \* history: packets written up to the last restart
    responses       \* history: the answers transmitted

flash == <<flash_cmd_queue, flash_working>>
task  == <<pc, msg, cc>>
allVars == <<vars, kinds, task, flash, served, horizon, responses>>

Flash == INSTANCE FlashTask
         WITH Depth <- FlashDepth, Commands <- 1 .. MaxPackets,
              queue <- flash_cmd_queue, working <- flash_working

FirmwareInit ==
    /\ Init /\ kinds = <<>>
    /\ pc = "drain" /\ msg = <<>> /\ cc = "SUCCESS"
    /\ Flash!FlashInit
    /\ served = 0 /\ horizon = 0 /\ responses = <<>>

-----------------------------------------------------------------------------
(* The BMC puts a message of some kind into packets. *)
BmcWrites ==
    /\ \/ WriteFirst /\ \E kind \in MessageKinds : kinds' = Append(kinds, kind)
       \/ WriteNext /\ kinds' = Append(kinds, kinds[Len(kinds)])
       \/ WriteRunt /\ UNCHANGED kinds
    /\ UNCHANGED <<task, flash, served, horizon, responses>>

(* One round of the drain loop up to protocol_hdlr_process_rx's result. *)
DrainBlock ==
    /\ pc = "drain" /\ mctp_process_rx
    /\ IF MessageComplete THEN pc' = "dispatch" /\ msg' = assembled
                          ELSE UNCHANGED <<pc, msg>>
    /\ UNCHANGED <<kinds, cc, flash, served, horizon, responses>>

(* The PLDM header is in the first packet of a message. *)
kind  == kinds[msg[1]]
final == msg[Len(msg)]

CodeOf(k) == CASE k = "sensor"    -> "SUCCESS"
               [] k = "no_sensor" -> "ERROR"
               [] OTHER           -> "INVALID_CMD"

DispatchQuery ==
    /\ ~overrun /\ pc = "dispatch" /\ kind # "update" /\ pc' = "respond"
    /\ cc' = CodeOf(kind) /\ served' = final
    /\ UNCHANGED <<vars, kinds, msg, flash, horizon, responses>>

(* Mutant: the command is sent with RTOS_WAIT_FOREVER. *)
DispatchUpdate_Waits ==
    /\ ~overrun /\ pc = "dispatch" /\ kind = "update" /\ pc' = "respond"
    /\ Flash!Send(final) /\ cc' = "SUCCESS" /\ served' = final
    /\ UNCHANGED <<vars, kinds, msg, horizon, responses>>

DispatchUpdate ==
    /\ ~overrun /\ pc = "dispatch" /\ kind = "update" /\ pc' = "respond"
    /\ IF HasRoom(flash_cmd_queue, FlashDepth)
       THEN Flash!Send(final) /\ cc' = "SUCCESS"
       ELSE UNCHANGED flash /\ cc' = "ERROR"
    /\ served' = final
    /\ UNCHANGED <<vars, kinds, msg, horizon, responses>>

(* sizeof(sensor_record_t) *)
RecordSize == 16

(* An SMBus block has room for both headers and a record: 4 + 4 + 16 <= 32. *)
ASSUME FrameAssumption == 4 + 4 + RecordSize <= BlockSize

(* Mutant: the whole buffer is sent, however little of it was filled. *)
resp_len_WholeBuffer == IF kind = "sensor" THEN 64 ELSE 0

(* What dispatch_pldm has put into resp_buf. *)
resp_len == IF kind = "sensor" THEN RecordSize ELSE 0

(* Lengths of the packet and of the frame around length bytes of data. *)
pldm_build_response(length) == 4 + SmallerOf(length, PacketSize - 4)
mctp_frame_tx(payload_len)  == 4 + payload_len

protocol_hdlr_send_response ==
    /\ ~overrun /\ pc = "respond" /\ pc' = "drain" /\ msg' = <<>> /\ cc' = "SUCCESS"
    /\ \/ responses' = Append(responses, [id |-> final, cc |-> cc,
                                          tx_len |-> mctp_frame_tx(pldm_build_response(resp_len))])
       \/ UNCHANGED responses       \* bmc_hal_transmit failed
    /\ UNCHANGED <<vars, kinds, flash, served, horizon>>

bmc_mgr_task == DrainBlock \/ DispatchQuery \/ DispatchUpdate \/ protocol_hdlr_send_response

-----------------------------------------------------------------------------
(* Mutant: the commands of before the restart are carried out after it. *)
FlashRestart_KeepsQueue ==
    /\ flash_working /\ Restart
    /\ flash_working' = FALSE /\ UNCHANGED flash_cmd_queue
    /\ pc' = "drain" /\ msg' = <<>> /\ cc' = "SUCCESS" /\ horizon' = Len(wire)
    /\ UNCHANGED <<kinds, served, responses>>

FlashTaskStep == /\ Flash!Take \/ Flash!End
                 /\ UNCHANGED <<vars, kinds, task, served, horizon, responses>>

(* The trap of an update: everything but the outside world starts anew. *)
FlashRestart ==
    /\ Restart /\ Flash!Restart
    /\ pc' = "drain" /\ msg' = <<>> /\ cc' = "SUCCESS" /\ horizon' = Len(wire)
    /\ UNCHANGED <<kinds, served, responses>>

FirmwareNext == BmcWrites \/ bmc_mgr_task \/ FlashTaskStep \/ FlashRestart

FirmwareSpec == FirmwareInit /\ [][FirmwareNext]_allVars

(* The BMC manager's task has the highest priority; nothing is assumed of  *)
(* the BMC or of the flash task.                                           *)
FairFirmware == FirmwareSpec /\ WF_allVars(bmc_mgr_task)

-----------------------------------------------------------------------------
(* Properties.                                                             *)

Requests == [id : 1 .. MaxPackets, kind : Kinds]

Server == INSTANCE RequestServer
          WITH Depth <- FlashDepth, Commands <- 1 .. MaxPackets, NoAnswer <- <<>>,
               queue <- flash_cmd_queue, working <- flash_working,
               asked <- {r \in Requests : /\ r.id \in Packets
                                           /\ \E first \in Packets :
                                                IsMessage(first, r.id) /\ kinds[first] = r.kind},
               outcome <- IF pc = "respond" THEN [id |-> final, cc |-> cc] ELSE <<>>,
               answers <- [k \in DOMAIN responses |-> [id |-> responses[k].id,
                                                       cc |-> responses[k].cc]]

(* To the BMC the firmware is a server of whole requests: each is served   *)
(* at most once and in order, no answer is to a request that was not sent, *)
(* says something else than what became of it, or comes twice; through     *)
(* interleaved packets, full queues, aborted messages, lost answers and    *)
(* restarts.  Only more losses in a row than a sequence number can show    *)
(* may break this.                                                         *)
ImplementsServer == Server!Init /\ [][Server!Next \/ HeavyLoss']_<<Server!serverVars, flash>>

(* The frame of every answer fits the transmit buffer of one SMBus block.  *)
FrameFits == \A k \in DOMAIN responses : responses[k].tx_len <= BlockSize

(* The message that ends with packet n is in the hands of the firmware. *)
Received(n) ==
    /\ n \in Packets /\ wire[n].sent >= PldmHeader
    /\ \E first \in Packets : IsMessage(first, n) /\ first .. n \cap lost = {}

(* ... and the last restart fell into it or came later. *)
Forgotten(n) == n \in Packets /\ \E first \in 1 .. horizon : IsMessage(first, n)

(* A message that got through to the queue as a whole is served, whatever  *)
(* came before and comes after it, unless a restart sweeps it away.        *)
RequestServed ==
    \A n \in 1 .. MaxPackets : Received(n) ~> served >= n \/ Forgotten(n)
=============================================================================
