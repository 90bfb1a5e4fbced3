---------------------------- MODULE MctpRxProofs ----------------------------
(***************************************************************************)
(* Proofs about MctpRx, for every size of block, buffer, packet and queue, *)
(* whatever the BMC writes and whatever is lost.                           *)
(***************************************************************************)
EXTENDS MctpRx, TLAPS

USE DEF vars, reassembly, crash

(* A block that has a header is at least as long as one, so that no        *)
(* payload has a negative length and the offset never moves backwards.     *)
TypeInv ==
    /\ TypeOK
    /\ \A k \in 1 .. Len(bmc_rx_queue) :
            bmc_rx_queue[k].pkt # Runt => bmc_rx_queue[k].length >= HeaderSize

LEMMA Sizes ==
    /\ QueueDepth \in Nat /\ BlockSize \in Nat /\ BlockSize >= HeaderSize
    /\ ReasmSize \in Nat /\ PacketSize \in Nat /\ PacketSize <= ReasmSize
    /\ Lengths \subseteq Nat /\ MaxMessage \in Nat
    /\ MaxRestarts \in Nat /\ HeaderSize = 4 /\ Runt = 0
BY SizesAssumption DEF HeaderSize, Runt

LEMMA Empty == ASSUME NEW S PROVE <<>> \in Seq(S) /\ Len(<<>>) = 0
OBVIOUS

LEMMA RangeTyped == ASSUME NEW S, NEW q \in Seq(S) PROVE Range(q) \subseteq S
<1>1. DOMAIN q = 1 .. Len(q) /\ \A k \in 1 .. Len(q) : q[k] \in S  OBVIOUS
<1> QED  BY <1>1 DEF Range

LEMMA MoreSeqs == ASSUME NEW S, NEW T, S \subseteq T PROVE Seq(S) \subseteq Seq(T)
OBVIOUS

(* What the interrupt leaves behind, for any set of packet numbers. *)
LEMMA Posted ==
    ASSUME TypeInv, NEW T, Packets \subseteq T, NEW number \in T \cup {Runt}, NEW length \in Nat,
           number # Runt => length >= HeaderSize,
           bmc_i2c_rx_isr(number, length)
    PROVE  /\ bmc_rx_queue' \in Seq([pkt : T \cup {Runt}, length : 0 .. BlockSize])
           /\ Len(bmc_rx_queue') <= QueueDepth
           /\ \A k \in 1 .. Len(bmc_rx_queue') :
                    bmc_rx_queue'[k].pkt # Runt => bmc_rx_queue'[k].length >= HeaderSize
           /\ lost' \subseteq T
<1> USE Sizes
<1> DEFINE kept == SmallerOf(length, BlockSize)
           Wider == [pkt : T \cup {Runt}, length : 0 .. BlockSize]
           new == [pkt |-> number, length |-> kept]
<1>1. kept \in 0 .. BlockSize /\ (number # Runt => kept >= HeaderSize)  BY DEF SmallerOf
<1>2. /\ bmc_rx_queue' = rtos_queue_send_from_isr(bmc_rx_queue, QueueDepth, new)
      /\ lost' \subseteq lost \cup ({number} \ {Runt})
  BY DEF bmc_i2c_rx_isr, Post
<1>3. lost' \subseteq T  BY <1>2 DEF TypeInv, TypeOK
<1>4. /\ new \in Wider /\ new.pkt = number /\ new.length = kept  BY <1>1
<1>5. bmc_rx_queue \in Seq(Blocks) /\ Len(bmc_rx_queue) <= QueueDepth
  BY DEF TypeInv, TypeOK
<1>6. Blocks \subseteq Wider  BY DEF Blocks
<1>7. bmc_rx_queue \in Seq(Wider)  BY <1>5, <1>6, MoreSeqs
<1> HIDE DEF kept, Wider, new
<1>8. CASE HasRoom(bmc_rx_queue, QueueDepth)
  <2>1. bmc_rx_queue' = Append(bmc_rx_queue, new) /\ Len(bmc_rx_queue) < QueueDepth
    BY <1>2, <1>8 DEF rtos_queue_send_from_isr, HasRoom
  <2>2. /\ bmc_rx_queue' \in Seq(Wider) /\ Len(bmc_rx_queue') <= QueueDepth
        /\ \A k \in 1 .. Len(bmc_rx_queue') :
              \/ k \in 1 .. Len(bmc_rx_queue) /\ bmc_rx_queue'[k] = bmc_rx_queue[k]
              \/ bmc_rx_queue'[k] = new
    BY <1>4, <1>7, <2>1
  <2> QED  BY <1>1, <1>3, <1>4, <2>2 DEF Wider, TypeInv
<1>9. CASE ~HasRoom(bmc_rx_queue, QueueDepth)
  <2>1. bmc_rx_queue' = bmc_rx_queue  BY <1>2, <1>9 DEF rtos_queue_send_from_isr
  <2> QED  BY <1>3, <1>5, <1>7, <2>1 DEF Wider, TypeInv
<1> QED  BY <1>8, <1>9

(* The block that mctp_process_rx looks at. *)
LEMMA Drained ==
    ASSUME TypeInv, Receive
    PROVE  /\ bmc_rx_queue' \in Seq(Blocks) /\ Len(bmc_rx_queue') <= QueueDepth
           /\ \A k \in 1 .. Len(bmc_rx_queue') :
                    bmc_rx_queue'[k].pkt # Runt => bmc_rx_queue'[k].length >= HeaderSize
           /\ block \in Blocks
           /\ HasHeader => block.pkt \in Packets /\ size \in Nat /\ pkt \in WirePackets
<1> USE Sizes
<1>1. /\ bmc_rx_queue \in Seq(Blocks) /\ Len(bmc_rx_queue) <= QueueDepth
      /\ bmc_rx_queue # <<>> /\ bmc_rx_queue' = Tail(bmc_rx_queue)
  BY DEF TypeInv, TypeOK, Receive, rtos_queue_receive
<1>2. /\ bmc_rx_queue' \in Seq(Blocks) /\ Len(bmc_rx_queue') = Len(bmc_rx_queue) - 1
      /\ Len(bmc_rx_queue) \in Nat
      /\ block = bmc_rx_queue[1] /\ 1 \in 1 .. Len(bmc_rx_queue) /\ block \in Blocks
      /\ \A k \in 1 .. Len(bmc_rx_queue') :
            k + 1 \in 1 .. Len(bmc_rx_queue) /\ bmc_rx_queue'[k] = bmc_rx_queue[k + 1]
  BY <1>1 DEF block
<1>3. \A k \in 1 .. Len(bmc_rx_queue) :
            bmc_rx_queue[k].pkt # Runt => bmc_rx_queue[k].length >= HeaderSize
  BY DEF TypeInv
<1>4. ASSUME HasHeader PROVE block.pkt \in Packets /\ size \in Nat /\ pkt \in WirePackets
  <2>1. block.pkt \in Packets /\ block.length \in Nat /\ block.length >= HeaderSize
    BY <1>2, <1>3, <1>4 DEF HasHeader, Blocks
  <2>2. wire \in Seq(WirePackets)  BY DEF TypeInv, TypeOK
  <2> QED  BY <2>1, <2>2 DEF size, pkt, Packets
<1> QED  BY <1>1, <1>2, <1>3, <1>4

(* The offset that a fragment leaves behind is inside the buffer. *)
LEMMA Assembling ==
    ASSUME TypeInv, Receive, HasHeader
    PROVE  /\ expectedSeq \in 0 .. 3 /\ (expectedSeq + 1) % 4 \in 0 .. 3
           /\ offset \in 0 .. ReasmSize /\ offset + size \in Nat
           /\ assembled \in Seq(Packets)
<1>1. block.pkt \in Packets /\ size \in Nat /\ pkt \in WirePackets  BY Drained
<1>2. /\ s_expected_seq \in 0 .. 3 /\ s_reasm_offset \in 0 .. ReasmSize
      /\ s_reasm_buf \in Seq(Packets)
  BY DEF TypeInv, TypeOK
<1>3. expectedSeq \in 0 .. 3  BY <1>1, <1>2 DEF expectedSeq, WirePackets
<1>4. (expectedSeq + 1) % 4 \in 0 .. 3  BY <1>3
<1>5. offset \in 0 .. ReasmSize  BY <1>2, Sizes DEF offset
<1>6. offset + size \in Nat  BY <1>1, <1>5, Sizes
<1>7. fragments \in Seq(Packets)  BY <1>2, Empty DEF fragments
<1>8. assembled \in Seq(Packets)  BY <1>1, <1>7 DEF assembled
<1> QED  BY <1>3, <1>4, <1>5, <1>6, <1>8

(* What the BMC puts on the wire. *)
LEMMA Written ==
    ASSUME TypeInv, NEW som \in BOOLEAN, NEW eom \in BOOLEAN, NEW seq \in 0 .. 3,
           NEW length \in Lengths, Write(som, eom, seq, length)
    PROVE  TypeInv'
<1> USE Sizes
<1> DEFINE sent == (IF som THEN 0 ELSE last.sent) + length - HeaderSize
           new == [som |-> som, eom |-> eom, seq |-> seq, length |-> length, sent |-> sent]
           top == Len(wire) + 1
<1>1. wire \in Seq(WirePackets) /\ Len(wire) \in Nat  BY DEF TypeInv, TypeOK
<1>2. last.sent \in 0 .. MaxMessage
  <2>1. CASE wire = <<>>  BY <2>1 DEF last
  <2>2. CASE wire # <<>>
    <3>1. wire[Len(wire)] \in WirePackets  BY <1>1, <2>2
    <3> QED  BY <2>2, <3>1 DEF last, WirePackets
  <2> QED  BY <2>1, <2>2
<1>3. sent \in 0 .. MaxMessage  BY <1>2 DEF Write
<1>4. new \in WirePackets  BY <1>3 DEF WirePackets
<1>5. /\ wire' = Append(wire, new) /\ bmc_i2c_rx_isr(Len(wire) + 1, length)
      /\ length >= HeaderSize /\ length \in Nat
      /\ UNCHANGED <<reassembly, delivered, overrun, crash>>
  BY DEF Write
<1> HIDE DEF sent, new
<1>6. wire' \in Seq(WirePackets) /\ Len(wire') = top  BY <1>1, <1>4, <1>5
<1>7. Packets' = 1 .. top /\ Packets \subseteq 1 .. top /\ top \in Nat
  BY <1>1, <1>6 DEF Packets
<1>blk. Blocks' = [pkt : (1 .. top) \cup {Runt}, length : 0 .. BlockSize]
  BY <1>7 DEF Blocks
<1>8. /\ bmc_rx_queue' \in Seq(Blocks') /\ Len(bmc_rx_queue') <= QueueDepth
      /\ \A k \in 1 .. Len(bmc_rx_queue') :
            bmc_rx_queue'[k].pkt # Runt => bmc_rx_queue'[k].length >= HeaderSize
      /\ lost' \subseteq Packets'
  <2> DEFINE T == 1 .. top
  <2>1. /\ Packets \subseteq T /\ Len(wire) + 1 \in T \cup {Runt}
        /\ Packets' = T /\ Blocks' = [pkt : T \cup {Runt}, length : 0 .. BlockSize]
    BY <1>1, <1>7, <1>blk
  <2> HIDE DEF T
  <2> QED  BY <1>5, <2>1, Posted
<1>9. Seq(Packets) \subseteq Seq(Packets')  BY <1>7, MoreSeqs
<1>10. TypeOK
  BY DEF TypeInv
<1>11. /\ s_reasm_buf' \in Seq(Packets') /\ delivered' \subseteq Seq(Packets')
       /\ swept' \subseteq Packets'
  BY <1>5, <1>7, <1>9, <1>10 DEF TypeOK
<1>12. /\ s_reasm_offset' \in 0 .. ReasmSize /\ s_expected_seq' \in 0 .. 3
       /\ s_reasm_active' \in BOOLEAN /\ overrun' \in BOOLEAN
       /\ restarts' \in 0 .. MaxRestarts
  BY <1>5, <1>10 DEF TypeOK
<1>13. TypeOK'  BY <1>6, <1>8, <1>11, <1>12 DEF TypeOK
<1> QED  BY <1>8, <1>13 DEF TypeInv

LEMMA TypeStep == TypeInv /\ [Next]_vars => TypeInv'
<1> SUFFICES ASSUME TypeInv, [Next]_vars PROVE TypeInv'
  OBVIOUS
<1> USE Sizes
<1>typ. TypeOK  BY DEF TypeInv
<1>1. CASE WriteFirst  BY <1>1, Written DEF WriteFirst
<1>2. CASE WriteNext
  <2>1. PICK eom \in BOOLEAN, length \in Lengths :
            Write(FALSE, eom, (last.seq + 1) % 4, length)
    BY <1>2 DEF WriteNext
  <2>2. last.seq \in 0 .. 3
    <3>1. CASE wire = <<>>  BY <3>1 DEF last
    <3>2. CASE wire # <<>>
      <4>1. wire \in Seq(WirePackets)  BY <1>typ DEF TypeOK
      <4>2. wire[Len(wire)] \in WirePackets  BY <3>2, <4>1
      <4> QED  BY <3>2, <4>2 DEF last, WirePackets
    <3> QED  BY <3>1, <3>2
  <2>3. (last.seq + 1) % 4 \in 0 .. 3  BY <2>2
  <2> QED  BY <2>1, <2>3, Written
<1>3. CASE WriteRunt
  <2>1. PICK length \in Lengths : bmc_i2c_rx_isr(Runt, length)  BY <1>3 DEF WriteRunt
  <2>2. UNCHANGED <<wire, reassembly, delivered, overrun, crash>>  BY <1>3 DEF WriteRunt
  <2>3. Len(wire) \in Nat /\ Packets = 1 .. Len(wire) /\ Packets' = 1 .. Len(wire)
    BY <1>typ, <2>2 DEF TypeOK, Packets
  <2>blk. Blocks' = [pkt : (1 .. Len(wire)) \cup {Runt}, length : 0 .. BlockSize]
    BY <2>3 DEF Blocks
  <2>4. /\ bmc_rx_queue' \in Seq(Blocks') /\ Len(bmc_rx_queue') <= QueueDepth
        /\ \A k \in 1 .. Len(bmc_rx_queue') :
              bmc_rx_queue'[k].pkt # Runt => bmc_rx_queue'[k].length >= HeaderSize
        /\ lost' \subseteq Packets'
    <3> DEFINE T == 1 .. Len(wire)
    <3>1. /\ Packets \subseteq T /\ Runt \in T \cup {Runt} /\ 0 \in Nat
          /\ Packets' = T /\ Blocks' = [pkt : T \cup {Runt}, length : 0 .. BlockSize]
      BY <2>3, <2>blk
    <3>2. length \in Nat  OBVIOUS
    <3> HIDE DEF T
    <3> QED  BY <2>1, <3>1, <3>2, Posted
  <2>5. TypeOK'
    <3>1. Packets' = Packets  BY <2>3
    <3>2. /\ wire' \in Seq(WirePackets) /\ s_reasm_buf' \in Seq(Packets')
          /\ delivered' \subseteq Seq(Packets') /\ swept' \subseteq Packets'
      BY <1>typ, <2>2, <3>1 DEF TypeOK
    <3>3. /\ s_reasm_offset' \in 0 .. ReasmSize /\ s_expected_seq' \in 0 .. 3
          /\ s_reasm_active' \in BOOLEAN /\ overrun' \in BOOLEAN
          /\ restarts' \in 0 .. MaxRestarts
      BY <1>typ, <2>2 DEF TypeOK
    <3> QED  BY <2>4, <3>2, <3>3 DEF TypeOK
  <2> QED  BY <2>4, <2>5 DEF TypeInv
<1>4. CASE mctp_process_rx
  <2>1. Receive /\ UNCHANGED <<wire, lost, crash>> /\ Packets' = Packets
    BY <1>4 DEF mctp_process_rx, DropRunt, DropStray, Abandon, AppendFragment, Complete,
                Accept, Receive, Packets
  <2>2. /\ bmc_rx_queue' \in Seq(Blocks) /\ Len(bmc_rx_queue') <= QueueDepth
        /\ \A k \in 1 .. Len(bmc_rx_queue') :
              bmc_rx_queue'[k].pkt # Runt => bmc_rx_queue'[k].length >= HeaderSize
    BY <2>1, Drained
  <2>3. /\ s_reasm_buf' \in Seq(Packets) /\ s_reasm_offset' \in 0 .. ReasmSize
        /\ s_expected_seq' \in 0 .. 3 /\ s_reasm_active' \in BOOLEAN
        /\ delivered' \subseteq Seq(Packets) /\ overrun' \in BOOLEAN
    <3>1. CASE DropRunt \/ DropStray
      BY <1>typ, <3>1 DEF DropRunt, DropStray, TypeOK
    <3>2. CASE Abandon
      <4>1. s_reasm_buf' \in Seq(Packets) /\ s_reasm_active' \in BOOLEAN
        BY <3>2, Empty DEF Abandon, mctp_reset
      <4>2. s_reasm_offset' \in 0 .. ReasmSize /\ s_expected_seq' \in 0 .. 3
        BY <3>2 DEF Abandon, mctp_reset
      <4>3. delivered' \subseteq Seq(Packets) /\ overrun' \in BOOLEAN
        BY <1>typ, <3>2 DEF Abandon, TypeOK
      <4> QED  BY <4>1, <4>2, <4>3
    <3>3. CASE AppendFragment
      <4>1. HasHeader /\ Fits  BY <3>3 DEF AppendFragment, Accept
      <4>2. /\ assembled \in Seq(Packets) /\ (expectedSeq + 1) % 4 \in 0 .. 3
            /\ offset + size \in 0 .. ReasmSize
        BY <2>1, <4>1, Assembling DEF Fits
      <4> QED  BY <1>typ, <3>3, <4>2 DEF AppendFragment, TypeOK
    <3>4. CASE Complete
      <4>1. HasHeader  BY <3>4 DEF Complete, Accept
      <4>2. assembled \in Seq(Packets) /\ (expectedSeq + 1) % 4 \in 0 .. 3
        BY <2>1, <4>1, Assembling
      <4>3. /\ s_reasm_buf' \in Seq(Packets) /\ s_reasm_offset' \in 0 .. ReasmSize
            /\ s_expected_seq' \in 0 .. 3
        BY <3>4, <4>2, Empty DEF Complete
      <4>4. s_reasm_active' \in BOOLEAN /\ overrun' \in BOOLEAN
        <5>1. (offset + size > PacketSize) \in BOOLEAN  OBVIOUS
        <5>2. overrun' = (offset + size > PacketSize) /\ s_reasm_active' = FALSE
          BY <3>4 DEF Complete
        <5> QED  BY <5>1, <5>2
      <4>5. delivered' \subseteq Seq(Packets)
        BY <1>typ, <3>4, <4>2 DEF Complete, TypeOK
      <4> QED  BY <4>3, <4>4, <4>5
    <3> QED  BY <1>4, <3>1, <3>2, <3>3, <3>4 DEF mctp_process_rx
  <2>4. Blocks' = Blocks  BY <2>1 DEF Blocks
  <2>5. TypeOK'  BY <1>typ, <2>1, <2>2, <2>3, <2>4 DEF TypeOK
  <2> QED  BY <2>2, <2>5 DEF TypeInv
<1>5. CASE Restart
  <2>1. /\ UNCHANGED <<wire, lost, delivered, overrun>> /\ Packets' = Packets
        /\ bmc_rx_queue' = <<>> /\ mctp_reset
        /\ restarts' \in 0 .. MaxRestarts
    BY <1>typ, <1>5 DEF Restart, TypeOK, Packets
  <2>2. swept' \subseteq Packets
    <3>1. bmc_rx_queue \in Seq(Blocks) /\ s_reasm_buf \in Seq(Packets) /\ swept \subseteq Packets
      BY <1>typ DEF TypeOK
    <3>2. Range(bmc_rx_queue) \subseteq Blocks /\ Range(s_reasm_buf) \subseteq Packets
      BY <3>1, RangeTyped
    <3>3. \A b \in Range(bmc_rx_queue) : b.pkt \in Packets \cup {Runt}
      BY <3>2 DEF Blocks
    <3> QED  BY <1>5, <3>1, <3>2, <3>3 DEF Restart
  <2>3. /\ bmc_rx_queue' \in Seq(Blocks)
        /\ Len(bmc_rx_queue') = 0
    BY <2>1, Empty
  <2>4. /\ s_reasm_buf' \in Seq(Packets) /\ s_reasm_offset' \in 0 .. ReasmSize
        /\ s_expected_seq' \in 0 .. 3 /\ s_reasm_active' \in BOOLEAN
    <3>1. s_reasm_buf' \in Seq(Packets) /\ s_reasm_active' \in BOOLEAN
      BY <2>1, Empty DEF mctp_reset
    <3>2. s_reasm_offset' \in 0 .. ReasmSize /\ s_expected_seq' \in 0 .. 3
      BY <2>1 DEF mctp_reset
    <3> QED  BY <3>1, <3>2
  <2>5. Blocks' = Blocks  BY <2>1 DEF Blocks
  <2>6. TypeOK'
    <3>1. /\ wire' \in Seq(WirePackets) /\ lost' \subseteq Packets'
          /\ delivered' \subseteq Seq(Packets') /\ overrun' \in BOOLEAN
      BY <1>typ, <2>1 DEF TypeOK
    <3>2. Len(bmc_rx_queue') <= QueueDepth  BY <2>3
    <3> QED  BY <2>1, <2>2, <2>3, <2>4, <2>5, <3>1, <3>2 DEF TypeOK
  <2> QED  BY <2>3, <2>6 DEF TypeInv
<1>6. CASE UNCHANGED vars
  <2>1. Packets' = Packets /\ Blocks' = Blocks  BY <1>6 DEF Packets, Blocks
  <2> QED  BY <1>typ, <1>6, <2>1 DEF TypeInv, TypeOK
<1> QED  BY <1>1, <1>2, <1>3, <1>4, <1>5, <1>6 DEF Next

LEMMA TypeStart == Init => TypeInv
<1> SUFFICES ASSUME Init PROVE TypeInv
  OBVIOUS
<1> USE Sizes
<1>1. /\ wire \in Seq(WirePackets) /\ Len(bmc_rx_queue) = 0
      /\ bmc_rx_queue \in Seq(Blocks)
      /\ s_reasm_buf \in Seq(Packets)
  BY Empty DEF Init
<1>2. /\ s_reasm_offset \in 0 .. ReasmSize /\ s_expected_seq \in 0 .. 3
      /\ restarts \in 0 .. MaxRestarts
      /\ lost = {} /\ swept = {} /\ delivered = {}
  BY DEF Init
<1>3. s_reasm_active \in BOOLEAN /\ overrun \in BOOLEAN  BY DEF Init
<1>4. Len(bmc_rx_queue) <= QueueDepth  BY <1>1
<1>5. TypeOK  BY <1>1, <1>2, <1>3, <1>4 DEF TypeOK
<1> QED  BY <1>1, <1>5 DEF TypeInv

THEOREM TypeInvariance == Spec => []TypeInv
BY TypeStart, TypeStep, PTL DEF Spec

(* Types; above all, the offset stays inside the reassembly buffer, and    *)
(* the queue keeps its depth, whatever blocks arrive in whatever order.    *)
THEOREM TypeCorrect == Spec => []TypeOK
<1>1. TypeInv => TypeOK  BY DEF TypeInv
<1> QED  BY <1>1, TypeInvariance, PTL
=============================================================================
