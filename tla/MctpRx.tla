------------------------------- MODULE MctpRx -------------------------------
(***************************************************************************)
(* The receive path of a BMC request: the BMC writes I2C blocks, the       *)
(* receive interrupt posts them to the BMC queue or drops them when it is  *)
(* full, and the BMC manager feeds them one by one to mctp_process_rx,     *)
(* which reassembles MCTP packets into a message, and to pldm_parse.  The  *)
(* controller may restart in between, and the BMC does not know.           *)
(* A packet is known by its number on the wire, so that a message is the   *)
(* sequence of the numbers of its packets.                                 *)
(***************************************************************************)
EXTENDS Integers, RtosHal, Functions

CONSTANTS
    QueueDepth,     \* QUEUE_DEPTH_BMC
    BlockSize,      \* SMB_MAX_BLOCK_SIZE, what the interrupt keeps of a block
    ReasmSize,      \* PLDM_MAX_PAYLOAD, the size of s_reasm_buf
    PacketSize,     \* MCTP_MAX_PAYLOAD, the size of mctp_packet_t.payload
    Lengths,        \* lengths of the blocks the BMC writes
    MaxMessage,     \* the most payload the BMC puts in one message
    ContinuousSeq,  \* the BMC's sequence numbers run on from message to message
    MayAbort,       \* the BMC may begin a message without ending the last one
    Tolerance,      \* consecutive losses the sequence numbers detect
    MaxPackets,     \* bound on the packets written
    MaxRestarts     \* bound on the restarts

HeaderSize == 4     \* the MCTP header
PldmHeader == 3     \* instance id, type, command

ASSUME SizesAssumption == /\ QueueDepth \in Nat \ {0}
                          /\ BlockSize \in Nat /\ BlockSize >= HeaderSize
                          /\ ReasmSize \in Nat /\ PacketSize \in 0 .. ReasmSize
                          /\ Lengths \subseteq Nat /\ MaxMessage \in Nat
                          /\ MaxPackets \in Nat /\ MaxRestarts \in Nat
ASSUME SenderAssumption ==
    /\ ContinuousSeq \in BOOLEAN /\ MayAbort \in BOOLEAN
    /\ Tolerance \in 0 .. IF ContinuousSeq THEN 3 ELSE IF MayAbort THEN 0 ELSE 1

Runt == 0           \* in the queue: a block shorter than a header

VARIABLES
    wire,           \* history: every packet the BMC has written, in order
    lost,           \* history: the numbers of those the interrupt dropped
    bmc_rx_queue,   \* Seq of [pkt : number or Runt, length : what was kept]
    s_reasm_buf,    \* the packets whose payloads fill 0 .. s_reasm_offset - 1
    s_reasm_offset, s_expected_seq, s_reasm_active,
    delivered,      \* history: the messages handed to dispatch_pldm
    overrun,        \* a message was copied past the end of a packet's payload
    swept,          \* history: packets that were waiting or half used at a restart
    restarts

reassembly == <<s_reasm_buf, s_reasm_offset, s_expected_seq, s_reasm_active>>
crash == <<swept, restarts>>
vars == <<wire, lost, bmc_rx_queue, reassembly, delivered, overrun, crash>>

SmallerOf(a, b) == IF a <= b THEN a ELSE b

Init == /\ wire = <<>> /\ lost = {} /\ bmc_rx_queue = <<>>
        /\ s_reasm_buf = <<>> /\ s_reasm_offset = 0
        /\ s_expected_seq = 0 /\ s_reasm_active = FALSE
        /\ delivered = {} /\ overrun = FALSE /\ swept = {} /\ restarts = 0

-----------------------------------------------------------------------------
(* The BMC and the receive interrupt.                                      *)

(* The last packet written; before the first one, the BMC is as after a message. *)
last == IF wire = <<>>
        THEN [som |-> FALSE, eom |-> TRUE, seq |-> 3, length |-> 0, sent |-> 0]
        ELSE wire[Len(wire)]
Idle == last.eom        \* the BMC is between two messages

Post(number, length) ==
    /\ bmc_rx_queue' = rtos_queue_send_from_isr(bmc_rx_queue, QueueDepth,
                                                [pkt |-> number, length |-> length])
    /\ lost' = IF HasRoom(bmc_rx_queue, QueueDepth) THEN lost ELSE lost \cup ({number} \ {Runt})

(* Mutant: the bytes after the last whole word are not copied. *)
bmc_i2c_rx_isr_WordsOnly(number, length) ==
    Post(number, 4 * (SmallerOf(length, BlockSize) \div 4))

(* bmc_i2c_rx_isr: clamp the block, post it, never look at the result. *)
bmc_i2c_rx_isr(number, length) == Post(number, SmallerOf(length, BlockSize))

Write(som, eom, seq, length) ==
    LET sent == (IF som THEN 0 ELSE last.sent) + length - HeaderSize IN
    /\ Len(wire) < MaxPackets
    /\ length >= HeaderSize /\ sent <= MaxMessage
    /\ wire' = Append(wire, [som |-> som, eom |-> eom, seq |-> seq,
                             length |-> length, sent |-> sent])
    /\ bmc_i2c_rx_isr(Len(wire) + 1, length)
    /\ UNCHANGED <<reassembly, delivered, overrun, crash>>

WriteFirst ==
    /\ ~overrun /\ (Idle \/ MayAbort)
    /\ \E seq \in 0 .. 3, eom \in BOOLEAN, length \in Lengths :
        /\ ContinuousSeq => seq = (last.seq + 1) % 4
        /\ Write(TRUE, eom, seq, length)

WriteNext ==
    /\ ~overrun /\ ~Idle
    /\ \E eom \in BOOLEAN, length \in Lengths : Write(FALSE, eom, (last.seq + 1) % 4, length)

(* A block too short for a header, with nothing the MCTP layer can use. *)
WriteRunt ==
    /\ ~overrun
    /\ \E length \in Lengths : length < HeaderSize /\ bmc_i2c_rx_isr(Runt, length)
    /\ UNCHANGED <<wire, reassembly, delivered, overrun, crash>>

-----------------------------------------------------------------------------
(* mctp_process_rx on the block at the head of the queue, by outcome.      *)

block == Head(bmc_rx_queue)
pkt   == wire[block.pkt]
size  == block.length - HeaderSize

Receive == /\ ~overrun
           /\ bmc_rx_queue # <<>> /\ bmc_rx_queue' = rtos_queue_receive(bmc_rx_queue)
           /\ UNCHANGED <<wire, lost, crash>>

(* Reassembly state once a start-of-message flag has been honoured. *)
fragments   == IF pkt.som THEN <<>> ELSE s_reasm_buf
offset      == IF pkt.som THEN 0 ELSE s_reasm_offset
(* Mutant: a start of message does not set the expected sequence number. *)
expectedSeq_NotStarted == s_expected_seq

expectedSeq == IF pkt.som THEN pkt.seq ELSE s_expected_seq
active      == pkt.som \/ s_reasm_active

HasHeader == block.pkt # Runt
(* Mutants: no sequence check; the room is checked before the packet counts. *)
InOrder_Unchecked == TRUE
Fits_Before == offset <= ReasmSize

InOrder   == pkt.seq = expectedSeq
Fits      == offset + size <= ReasmSize

DropRunt ==
    /\ Receive /\ ~HasHeader
    /\ UNCHANGED <<reassembly, delivered, overrun>>

DropStray ==
    /\ Receive /\ HasHeader /\ ~active
    /\ UNCHANGED <<reassembly, delivered, overrun>>

mctp_reset == /\ s_reasm_buf' = <<>> /\ s_reasm_offset' = 0
              /\ s_expected_seq' = 0 /\ s_reasm_active' = FALSE

Abandon ==
    /\ Receive /\ HasHeader /\ active /\ (~InOrder \/ ~Fits)
    /\ mctp_reset
    /\ UNCHANGED <<delivered, overrun>>

Accept == Receive /\ HasHeader /\ active /\ InOrder /\ Fits

assembled  == Append(fragments, block.pkt)
pldm_parse == offset + size >= PldmHeader

(* What protocol_hdlr_process_rx returns for the block. *)
MessageComplete == HasHeader /\ active /\ InOrder /\ Fits /\ pkt.eom /\ pldm_parse

AppendFragment ==
    /\ Accept /\ ~pkt.eom
    /\ s_reasm_buf' = assembled
    /\ s_reasm_offset' = offset + size
    /\ s_expected_seq' = (expectedSeq + 1) % 4
    /\ s_reasm_active' = TRUE
    /\ UNCHANGED <<delivered, overrun>>

(* Mutant: reassembly stays active after the end of a message. *)
Complete_StaysActive ==
    /\ Accept /\ pkt.eom
    /\ overrun' = (offset + size > PacketSize)
    /\ delivered' = delivered \cup (IF pldm_parse THEN {assembled} ELSE {})
    /\ s_reasm_buf' = <<>> /\ s_reasm_offset' = 0
    /\ s_expected_seq' = (expectedSeq + 1) % 4
    /\ s_reasm_active' = TRUE

(* The message is copied into the packet, whatever its length, and parsed. *)
Complete ==
    /\ Accept /\ pkt.eom
    /\ overrun' = (offset + size > PacketSize)
    /\ delivered' = delivered \cup (IF pldm_parse THEN {assembled} ELSE {})
    /\ s_reasm_buf' = <<>> /\ s_reasm_offset' = 0
    /\ s_expected_seq' = (expectedSeq + 1) % 4
    /\ s_reasm_active' = FALSE

mctp_process_rx == DropRunt \/ DropStray \/ Abandon \/ AppendFragment \/ Complete

-----------------------------------------------------------------------------
(* A trap in the flash task restarts the controller: the queue is new, and *)
(* mctp_init forgets a message half received.  The BMC just writes on.     *)
Restart ==
    /\ ~overrun /\ restarts < MaxRestarts /\ restarts' = restarts + 1
    /\ bmc_rx_queue' = <<>> /\ mctp_reset
    /\ swept' = swept \cup ({b.pkt : b \in Range(bmc_rx_queue)} \ {Runt}) \cup Range(s_reasm_buf)
    /\ UNCHANGED <<wire, lost, delivered, overrun>>

Next == WriteFirst \/ WriteNext \/ WriteRunt \/ mctp_process_rx \/ Restart

Spec == Init /\ [][Next]_vars

-----------------------------------------------------------------------------
(* Properties.                                                             *)

Packets == 1 .. Len(wire)

WirePackets == [som : BOOLEAN, eom : BOOLEAN, seq : 0 .. 3, length : Lengths,
                sent : 0 .. MaxMessage]
Blocks      == [pkt : Packets \cup {Runt}, length : 0 .. BlockSize]

(* Types; in particular the reassembly offset stays inside s_reasm_buf.    *)
TypeOK ==
    /\ wire \in Seq(WirePackets)
    /\ lost \subseteq Packets
    /\ bmc_rx_queue \in Seq(Blocks) /\ Len(bmc_rx_queue) <= QueueDepth
    /\ s_reasm_buf \in Seq(Packets) /\ s_reasm_offset \in 0 .. ReasmSize
    /\ s_expected_seq \in 0 .. 3 /\ s_reasm_active \in BOOLEAN
    /\ delivered \subseteq Seq(Packets) /\ overrun \in BOOLEAN
    /\ swept \subseteq Packets /\ restarts \in 0 .. MaxRestarts

(* Packets first .. final are one message of the BMC, from start to end. *)
IsMessage(first, final) ==
    /\ first <= final
    /\ wire[first].som /\ wire[final].eom
    /\ \A k \in first + 1 .. final : ~wire[k].som
    /\ \A k \in first .. final - 1 : ~wire[k].eom

Message(first, final) == [k \in 1 .. final - first + 1 |-> first + k - 1]

Whole(k) == wire[k].length <= BlockSize

(* More consecutive packets were dropped than sequence numbers can show. *)
HeavyLoss == \E k \in Packets : k + Tolerance \in Packets /\ k .. k + Tolerance \subseteq lost

(* Unless packets were dropped in a long row or a block exceeded the SMBus *)
(* limit, what is dispatched is exactly one message of the BMC: nothing    *)
(* is missing from it, nothing of another message is mixed into it, also   *)
(* when the controller restarts in the middle of a message.                *)
Intact ==
    \/ HeavyLoss
    \/ \E k \in Packets : ~Whole(k)
    \/ \A m \in delivered : \E first, final \in Packets :
            IsMessage(first, final) /\ m = Message(first, final)

Processed(k) == /\ k \notin lost \cup swept
                /\ \A j \in 1 .. Len(bmc_rx_queue) : bmc_rx_queue[j].pkt # k

(* A message whose packets were all received without a restart in between  *)
(* is dispatched, whatever was lost, aborted, malformed or swept away      *)
(* before it.                                                              *)
NothingRefused ==
    \A first, final \in Packets :
        /\ IsMessage(first, final)
        /\ \A k \in first .. final : Processed(k) /\ Whole(k)
        /\ wire[final].sent \in PldmHeader .. PacketSize
        => Message(first, final) \in delivered

(* A reassembled message fits the packet structure it is copied into. *)
AssembledFits == ~overrun
=============================================================================
