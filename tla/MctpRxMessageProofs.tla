------------------------ MODULE MctpRxMessageProofs ------------------------
(***************************************************************************)
(* Proofs about the messages of MctpRx: what is dispatched is a message of *)
(* the BMC, and a message that got through is dispatched; for every sender *)
(* the ASSUMEs allow, every queue, and any number of losses and restarts.  *)
(***************************************************************************)
EXTENDS MctpRxProofs

USE DEF vars, reassembly, crash

-----------------------------------------------------------------------------
(* The inductive invariant.                                                *)

Queued(k) == \E j \in 1 .. Len(bmc_rx_queue) : bmc_rx_queue[j].pkt = k

(* Nothing that follows packet n on the wire has been looked at yet. *)
Frontier(n) == \A k \in Packets : k > n => k \in lost \/ Queued(k)

(* Packets first .. final are the beginning of a message, or all of it. *)
Partial(first, final) ==
    /\ first <= final /\ wire[first].som
    /\ \A k \in first + 1 .. final : ~wire[k].som
    /\ \A k \in first .. final - 1 : ~wire[k].eom

(* What the BMC promises of two packets that follow one another. *)
WireInv ==
    \A k \in Packets :
        /\ wire[k].length >= HeaderSize
        /\ k = 1 => wire[k].som
        /\ wire[k].som => wire[k].sent = wire[k].length - HeaderSize
        /\ k > 1 =>
            /\ ~wire[k].som \/ ContinuousSeq => wire[k].seq = (wire[k - 1].seq + 1) % 4
            /\ ~wire[k].som => /\ ~wire[k - 1].eom
                               /\ wire[k].sent = wire[k - 1].sent + wire[k].length - HeaderSize
            /\ wire[k].som => wire[k - 1].eom \/ MayAbort

(* The queue holds whole packets in their order, and all of them but the   *)
(* lost ones.                                                              *)
QueueInv ==
    \A j \in 1 .. Len(bmc_rx_queue) :
        bmc_rx_queue[j].pkt # Runt =>
            /\ bmc_rx_queue[j].pkt \notin lost \cup swept
            /\ bmc_rx_queue[j].length = SmallerOf(wire[bmc_rx_queue[j].pkt].length, BlockSize)
            /\ \A i \in 1 .. Len(bmc_rx_queue) :
                  i > j /\ bmc_rx_queue[i].pkt # Runt => bmc_rx_queue[j].pkt < bmc_rx_queue[i].pkt
            /\ Frontier(bmc_rx_queue[j].pkt)

Holds(first, final) ==
    /\ s_reasm_buf = Message(first, final)
    /\ s_expected_seq = (wire[final].seq + 1) % 4

(* The buffer is the beginning of a message, and the next packet of that   *)
(* message has not been looked at.                                         *)
AssemblyInv ==
    s_reasm_active =>
        \E first, final \in Packets :
            /\ Partial(first, final) /\ ~wire[final].eom
            /\ Holds(first, final) /\ Frontier(final)
            /\ \A k \in Packets : Queued(k) => k > final

(* The beginning of a message that got through is in the buffer. *)
HeldInv ==
    \A first, final \in Packets :
        /\ Partial(first, final) /\ ~wire[final].eom
        /\ \A k \in first .. final : Processed(k) /\ Whole(k)
        /\ wire[final].sent <= ReasmSize /\ Frontier(final)
        => s_reasm_active /\ Holds(first, final) /\ s_reasm_offset = wire[final].sent

DeliveredInv == \A m \in delivered : \E first, final \in Packets :
                    IsMessage(first, final) /\ m = Message(first, final)

MessageInv ==
    /\ TypeInv /\ WireInv /\ QueueInv
    /\ HeavyLoss \/ (AssemblyInv /\ DeliveredInv)
    /\ HeldInv /\ NothingRefused

-----------------------------------------------------------------------------
(* The steps.                                                              *)

(* What a post leaves behind. *)
LEMMA PostCases ==
    ASSUME TypeInv, NEW number, NEW length, bmc_i2c_rx_isr(number, length)
    PROVE  \/ /\ lost' = lost
              /\ Len(bmc_rx_queue') = Len(bmc_rx_queue) + 1
              /\ bmc_rx_queue'[Len(bmc_rx_queue) + 1].pkt = number
              /\ bmc_rx_queue'[Len(bmc_rx_queue) + 1].length = SmallerOf(length, BlockSize)
              /\ \A j \in 1 .. Len(bmc_rx_queue) : bmc_rx_queue'[j] = bmc_rx_queue[j]
           \/ bmc_rx_queue' = bmc_rx_queue /\ lost' = lost \cup ({number} \ {Runt})
<1> DEFINE new == [pkt |-> number, length |-> SmallerOf(length, BlockSize)]
<1>1. /\ bmc_rx_queue' = rtos_queue_send_from_isr(bmc_rx_queue, QueueDepth, new)
      /\ lost' = IF HasRoom(bmc_rx_queue, QueueDepth) THEN lost ELSE lost \cup ({number} \ {Runt})
  BY DEF bmc_i2c_rx_isr, Post
<1>2. bmc_rx_queue \in Seq(Blocks)  BY DEF TypeInv, TypeOK
<1>rec. new.pkt = number /\ new.length = SmallerOf(length, BlockSize)  OBVIOUS
<1> HIDE DEF new
<1>3. CASE HasRoom(bmc_rx_queue, QueueDepth)
  <2>1. bmc_rx_queue' = Append(bmc_rx_queue, new)  BY <1>1, <1>3 DEF rtos_queue_send_from_isr
  <2>2. /\ Len(Append(bmc_rx_queue, new)) = Len(bmc_rx_queue) + 1
        /\ Append(bmc_rx_queue, new)[Len(bmc_rx_queue) + 1] = new
        /\ \A j \in 1 .. Len(bmc_rx_queue) : Append(bmc_rx_queue, new)[j] = bmc_rx_queue[j]
    BY <1>2
  <2> QED  BY <1>1, <1>3, <1>rec, <2>1, <2>2
<1>4. CASE ~HasRoom(bmc_rx_queue, QueueDepth)
  BY <1>1, <1>4 DEF rtos_queue_send_from_isr
<1> QED  BY <1>3, <1>4

(* A packet is written. *)
LEMMA WriteGrows ==
    ASSUME TypeInv, NEW som, NEW eom, NEW seq, NEW length, Write(som, eom, seq, length)
    PROVE  /\ Len(wire) \in Nat /\ Packets' = 1 .. Len(wire) + 1
           /\ \A k \in Packets : wire'[k] = wire[k]
           /\ wire'[Len(wire) + 1].som = som /\ wire'[Len(wire) + 1].eom = eom
           /\ wire'[Len(wire) + 1].seq = seq /\ wire'[Len(wire) + 1].length = length
           /\ wire'[Len(wire) + 1].sent = (IF som THEN 0 ELSE last.sent) + length - HeaderSize
           /\ length >= HeaderSize
           /\ bmc_i2c_rx_isr(Len(wire) + 1, length)
           /\ UNCHANGED <<reassembly, delivered, overrun, crash>>
<1> DEFINE new == [som |-> som, eom |-> eom, seq |-> seq, length |-> length,
                   sent |-> (IF som THEN 0 ELSE last.sent) + length - HeaderSize]
<1>1. wire' = Append(wire, new) /\ length >= HeaderSize /\ bmc_i2c_rx_isr(Len(wire) + 1, length)
      /\ UNCHANGED <<reassembly, delivered, overrun, crash>>
  BY DEF Write
<1>2. wire \in Seq(WirePackets)  BY DEF TypeInv, TypeOK
<1>rec. /\ new.som = som /\ new.eom = eom /\ new.seq = seq /\ new.length = length
        /\ new.sent = (IF som THEN 0 ELSE last.sent) + length - HeaderSize
  OBVIOUS
<1> HIDE DEF new
<1>3. /\ Len(Append(wire, new)) = Len(wire) + 1 /\ Len(wire) \in Nat
      /\ Append(wire, new)[Len(wire) + 1] = new
      /\ \A k \in 1 .. Len(wire) : Append(wire, new)[k] = wire[k]
  BY <1>2
<1> QED  BY <1>1, <1>rec, <1>3 DEF Packets

(* The BMC writes a packet, a runt, or nothing. *)
Writes == \E som \in BOOLEAN, eom \in BOOLEAN, seq \in 0 .. 3, length \in Lengths :
            /\ Write(som, eom, seq, length)
            /\ ~som => ~Idle /\ seq = (last.seq + 1) % 4
            /\ som => /\ Idle \/ MayAbort
                      /\ ContinuousSeq => seq = (last.seq + 1) % 4

LEMMA LastPacket ==
    ASSUME TypeInv
    PROVE  /\ last.seq \in 0 .. 3 /\ (last.seq + 1) % 4 \in 0 .. 3
           /\ wire # <<>> => Len(wire) \in Packets /\ last = wire[Len(wire)]
           /\ wire = <<>> => Idle /\ last.seq = 3 /\ Packets = {}
           /\ wire = <<>> <=> Len(wire) = 0
<1>1. wire \in Seq(WirePackets) /\ (wire = <<>> <=> Len(wire) = 0) /\ Len(wire) \in Nat
  BY DEF TypeInv, TypeOK
<1>2. CASE wire = <<>>
  <2>1. last.seq = 3 /\ last.eom = TRUE  BY <1>2 DEF last
  <2> QED  BY <1>1, <1>2, <2>1 DEF Idle, Packets
<1>3. CASE wire # <<>>
  <2>1. wire[Len(wire)] \in WirePackets /\ Len(wire) \in Packets  BY <1>1, <1>3 DEF Packets
  <2>2. last = wire[Len(wire)]  BY <1>3 DEF last
  <2>3. last.seq \in 0 .. 3  BY <2>1, <2>2 DEF WirePackets
  <2> QED  BY <1>1, <1>3, <2>1, <2>2, <2>3
<1> QED  BY <1>2, <1>3

LEMMA NextCases ==
    ASSUME TypeInv, [Next]_vars
    PROVE  Writes \/ WriteRunt \/ mctp_process_rx \/ Restart \/ UNCHANGED vars
<1>1. CASE WriteFirst
  <2>1. PICK seq \in 0 .. 3, eom \in BOOLEAN, length \in Lengths :
            (ContinuousSeq => seq = (last.seq + 1) % 4) /\ Write(TRUE, eom, seq, length)
    BY <1>1 DEF WriteFirst
  <2>2. Idle \/ MayAbort  BY <1>1 DEF WriteFirst
  <2> QED  BY <2>1, <2>2 DEF Writes
<1>2. CASE WriteNext
  <2>1. PICK eom \in BOOLEAN, length \in Lengths :
            Write(FALSE, eom, (last.seq + 1) % 4, length)
    BY <1>2 DEF WriteNext
  <2>2. ~Idle  BY <1>2 DEF WriteNext
  <2> QED  BY <2>1, <2>2, LastPacket DEF Writes
<1> QED  BY <1>1, <1>2 DEF Next

-----------------------------------------------------------------------------
(* The wire.                                                               *)

LEMMA WireStep ==
    ASSUME TypeInv, WireInv, [Next]_vars
    PROVE  WireInv'
<1> USE Sizes
<1>1. CASE Writes
  <2>1. PICK som \in BOOLEAN, eom \in BOOLEAN, seq \in 0 .. 3, length \in Lengths :
            /\ Write(som, eom, seq, length)
            /\ ~som => ~Idle /\ seq = (last.seq + 1) % 4
            /\ som => /\ Idle \/ MayAbort
                      /\ ContinuousSeq => seq = (last.seq + 1) % 4
    BY <1>1 DEF Writes
  <2> DEFINE n == Len(wire) + 1
             sent == (IF som THEN 0 ELSE last.sent) + length - HeaderSize
  <2>2. /\ Len(wire) \in Nat /\ Packets' = 1 .. n /\ Packets = 1 .. Len(wire)
        /\ \A k \in Packets : wire'[k] = wire[k]
        /\ wire'[n].som = som /\ wire'[n].eom = eom /\ wire'[n].seq = seq
        /\ wire'[n].length = length /\ wire'[n].sent = sent
        /\ length >= HeaderSize
    <3>1. Write(som, eom, seq, length)  BY <2>1
    <3> QED  BY <3>1, WriteGrows DEF Packets
  <2> HIDE DEF sent
  <2>3. som => sent = length - HeaderSize
    <3>1. length \in Nat  OBVIOUS
    <3> QED  BY <3>1 DEF sent
  <2>4. ~som => sent = last.sent + length - HeaderSize  BY DEF sent
  <2>5. n = 1 => som  BY <2>1, <2>2, LastPacket
  <2>6. n > 1 => n - 1 \in Packets /\ last = wire'[n - 1] /\ Idle = wire'[n - 1].eom
    BY <2>2, LastPacket DEF Idle
  <2>7. ASSUME NEW k \in Packets
        PROVE  /\ wire'[k] = wire[k] /\ k \in Nat
               /\ k > 1 => wire'[k - 1] = wire[k - 1]
    BY <2>2
  <2>8. Packets' = Packets \cup {n}  BY <2>2
  <2> SUFFICES ASSUME NEW k \in Packets'
               PROVE  /\ wire'[k].length >= HeaderSize
                      /\ k = 1 => wire'[k].som
                      /\ wire'[k].som => wire'[k].sent = wire'[k].length - HeaderSize
                      /\ k > 1 =>
                          /\ ~wire'[k].som \/ ContinuousSeq
                                => wire'[k].seq = (wire'[k - 1].seq + 1) % 4
                          /\ ~wire'[k].som =>
                                /\ ~wire'[k - 1].eom
                                /\ wire'[k].sent = wire'[k - 1].sent + wire'[k].length - HeaderSize
                          /\ wire'[k].som => wire'[k - 1].eom \/ MayAbort
    BY DEF WireInv
  <2>9. CASE k \in Packets  BY <2>7, <2>9 DEF WireInv
  <2>10. CASE k = n  BY <2>1, <2>2, <2>3, <2>4, <2>5, <2>6, <2>10
  <2> QED  BY <2>8, <2>9, <2>10
<1>2. CASE UNCHANGED wire
  BY <1>2 DEF WireInv, Packets
<1>3. WriteRunt \/ mctp_process_rx \/ Restart \/ UNCHANGED vars => UNCHANGED wire
  BY DEF WriteRunt, mctp_process_rx, DropRunt, DropStray, Abandon, AppendFragment, Complete,
         Accept, Receive, Restart
<1> QED  BY <1>1, <1>2, <1>3, NextCases

-----------------------------------------------------------------------------
(* The queue.                                                              *)

(* A step of the BMC or of the interrupt, seen from the queue.             *)
LEMMA Arrival ==
    ASSUME TypeInv, Writes \/ WriteRunt
    PROVE  /\ UNCHANGED <<reassembly, delivered, swept>>
           /\ Packets \subseteq Packets' /\ \A k \in Packets : wire'[k] = wire[k]
           /\ \A k \in Packets : (k \in lost') <=> (k \in lost)
           /\ \A k \in Packets : (Queued(k)' <=> Queued(k))
           /\ \A k \in Packets' : k \in Packets \/ (k > Len(wire) /\ (k \in lost' \/ Queued(k)'))
<1> USE Sizes
<1>0. /\ Packets = 1 .. Len(wire) /\ Len(wire) \in Nat /\ Len(bmc_rx_queue) \in Nat
  BY DEF TypeInv, TypeOK, Packets
<1>1. CASE Writes
  <2>1. PICK som \in BOOLEAN, eom \in BOOLEAN, seq \in 0 .. 3, length \in Lengths :
            Write(som, eom, seq, length)
    BY <1>1 DEF Writes
  <2>n. PICK n \in Nat : n = Len(wire) + 1  BY <1>0
  <2>2. /\ Packets' = 1 .. n /\ \A k \in Packets : wire'[k] = wire[k]
        /\ bmc_i2c_rx_isr(n, length)
        /\ UNCHANGED <<reassembly, delivered, crash>>
    BY <2>1, <2>n, WriteGrows
  <2>3. \/ /\ lost' = lost
           /\ Len(bmc_rx_queue') = Len(bmc_rx_queue) + 1
           /\ bmc_rx_queue'[Len(bmc_rx_queue) + 1].pkt = n
           /\ \A j \in 1 .. Len(bmc_rx_queue) : bmc_rx_queue'[j] = bmc_rx_queue[j]
        \/ bmc_rx_queue' = bmc_rx_queue /\ lost' = lost \cup {n}
    <3>1. n # Runt /\ {n} \ {Runt} = {n}  BY <1>0, <2>n
    <3> QED  BY <2>2, <3>1, PostCases
  <2>4. n \notin Packets /\ n \in Nat /\ n > Len(wire) /\ Packets' = Packets \cup {n}
    BY <1>0, <2>n, <2>2
  <2>5. \A k \in Packets : (k \in lost') <=> (k \in lost)  BY <2>3, <2>4
  <2>len. Len(bmc_rx_queue) + 1 \in 1 .. Len(bmc_rx_queue) + 1 /\ 1 .. Len(bmc_rx_queue) + 1 =
            (1 .. Len(bmc_rx_queue)) \cup {Len(bmc_rx_queue) + 1}
    BY <1>0
  <2>6. \A k \in Packets : (Queued(k)' <=> Queued(k))
    BY <2>len, <2>3, <2>4 DEF Queued
  <2>7. n \in lost' \/ Queued(n)'  BY <2>len, <2>3 DEF Queued
  <2> QED  BY <2>2, <2>4, <2>5, <2>6, <2>7
<1>2. CASE WriteRunt
  <2>1. PICK length \in Lengths : bmc_i2c_rx_isr(Runt, length)  BY <1>2 DEF WriteRunt
  <2>2. UNCHANGED <<wire, reassembly, delivered, crash>> /\ Packets' = Packets
    BY <1>2 DEF WriteRunt, Packets
  <2>3. /\ lost' = lost
        /\ \/ /\ Len(bmc_rx_queue') = Len(bmc_rx_queue) + 1
              /\ bmc_rx_queue'[Len(bmc_rx_queue) + 1].pkt = Runt
              /\ \A j \in 1 .. Len(bmc_rx_queue) : bmc_rx_queue'[j] = bmc_rx_queue[j]
           \/ bmc_rx_queue' = bmc_rx_queue
    BY <2>1, PostCases
  <2>4. \A k \in Packets : k # Runt  BY <1>0
  <2>5. \A k \in Packets : (Queued(k)' <=> Queued(k))  BY <1>0, <2>3, <2>4 DEF Queued
  <2> QED  BY <2>2, <2>3, <2>5
<1> QED  BY <1>1, <1>2

(* The head of the queue is taken out; it stands before all the others. *)
LEMMA Taken ==
    ASSUME TypeInv, QueueInv, Receive
    PROVE  /\ UNCHANGED <<wire, lost, swept>> /\ Packets' = Packets
           /\ \A k \in Packets : Queued(k)' <=> (Queued(k) /\ k # block.pkt)
           /\ HasHeader => \A k \in Packets : Queued(k)' => k > block.pkt
           /\ HasHeader => /\ block.pkt \in Packets /\ block.pkt \notin lost \cup swept
                           /\ Queued(block.pkt) /\ Frontier(block.pkt)
                           /\ block.length = SmallerOf(pkt.length, BlockSize)
<1> USE Sizes
<1>1. /\ bmc_rx_queue \in Seq(Blocks) /\ bmc_rx_queue # <<>>
      /\ bmc_rx_queue' = Tail(bmc_rx_queue) /\ UNCHANGED <<wire, lost, swept>>
  BY DEF TypeInv, TypeOK, Receive, rtos_queue_receive
<1>2. /\ Len(bmc_rx_queue') = Len(bmc_rx_queue) - 1 /\ Len(bmc_rx_queue) \in Nat
      /\ 1 \in 1 .. Len(bmc_rx_queue) /\ block = bmc_rx_queue[1]
      /\ \A j \in 1 .. Len(bmc_rx_queue) - 1 : bmc_rx_queue'[j] = bmc_rx_queue[j + 1]
  BY <1>1 DEF block
<1>3. Packets' = Packets /\ \A k \in Packets : k \in Nat /\ k # Runt
  BY <1>1 DEF Packets
<1>4. ASSUME NEW k \in Packets, Queued(k)'
      PROVE  Queued(k) /\ k # block.pkt /\ (HasHeader => k > block.pkt)
  <2>1. PICK j \in 1 .. Len(bmc_rx_queue) - 1 : bmc_rx_queue[j + 1].pkt = k
    BY <1>2, <1>4 DEF Queued
  <2>2. j + 1 \in 1 .. Len(bmc_rx_queue) /\ j + 1 > 1  BY <1>2
  <2>3. Queued(k)  BY <2>1, <2>2 DEF Queued
  <2>4. block.pkt # Runt => block.pkt < k  BY <1>2, <1>3, <2>1, <2>2 DEF QueueInv
  <2> QED  BY <1>2, <1>3, <2>3, <2>4, Drained DEF HasHeader
<1>5. ASSUME NEW k \in Packets, Queued(k), k # block.pkt
      PROVE  Queued(k)'
  <2>1. PICK j \in 1 .. Len(bmc_rx_queue) : bmc_rx_queue[j].pkt = k
    BY <1>5 DEF Queued
  <2>2. j # 1 /\ j - 1 \in 1 .. Len(bmc_rx_queue) - 1 /\ (j - 1) + 1 = j  BY <1>2, <1>5, <2>1
  <2>3. bmc_rx_queue'[j - 1] = bmc_rx_queue[j]  BY <1>2, <2>2
  <2> QED  BY <1>2, <2>1, <2>2, <2>3 DEF Queued
<1>6. HasHeader => /\ block.pkt \in Packets /\ block.pkt \notin lost \cup swept
                   /\ Queued(block.pkt) /\ Frontier(block.pkt)
                   /\ block.length = SmallerOf(pkt.length, BlockSize)
  BY <1>2, Drained DEF HasHeader, QueueInv, Queued, pkt
<1> QED  BY <1>1, <1>3, <1>4, <1>5, <1>6

(* What has not been looked at before an arrival has not been after it.    *)
LEMMA FrontierArrival ==
    ASSUME TypeInv, Writes \/ WriteRunt, NEW n \in Packets
    PROVE  Frontier(n)' <=> Frontier(n)
<1>1. Packets = 1 .. Len(wire) /\ Len(wire) \in Nat  BY DEF TypeInv, TypeOK, Packets
<1>2. \A k \in Packets : (k \in lost' \/ Queued(k)') <=> (k \in lost \/ Queued(k))
  BY Arrival
<1>3. \A k \in Packets' : k \in Packets \/ k \in lost' \/ Queued(k)'  BY Arrival
<1>4. Packets \subseteq Packets'  BY Arrival
<1> QED  BY <1>2, <1>3, <1>4 DEF Frontier

LEMMA QueueStep ==
    ASSUME TypeInv, QueueInv, [Next]_vars
    PROVE  QueueInv'
<1> USE Sizes
<1>0. /\ Packets = 1 .. Len(wire) /\ Len(wire) \in Nat /\ Len(bmc_rx_queue) \in Nat
      /\ \A j \in 1 .. Len(bmc_rx_queue) :
            bmc_rx_queue[j].pkt # Runt => bmc_rx_queue[j].pkt \in Packets
      /\ lost \subseteq Packets /\ swept \subseteq Packets
  <2>1. /\ wire \in Seq(WirePackets) /\ bmc_rx_queue \in Seq(Blocks)
        /\ lost \subseteq Packets /\ swept \subseteq Packets
    BY DEF TypeInv, TypeOK
  <2>2. \A j \in 1 .. Len(bmc_rx_queue) : bmc_rx_queue[j] \in Blocks  BY <2>1
  <2>3. \A b \in Blocks : b.pkt \in Packets \cup {Runt}  BY DEF Blocks
  <2> QED  BY <2>1, <2>2, <2>3 DEF Packets
<1>1. CASE Writes \/ WriteRunt
  <2>1. ASSUME NEW j \in 1 .. Len(bmc_rx_queue), bmc_rx_queue[j].pkt # Runt
        PROVE  /\ bmc_rx_queue[j].pkt \in Packets
               /\ bmc_rx_queue[j].pkt \notin lost' \cup swept'
               /\ bmc_rx_queue[j].length = SmallerOf(wire'[bmc_rx_queue[j].pkt].length, BlockSize)
               /\ \A i \in 1 .. Len(bmc_rx_queue) :
                    i > j /\ bmc_rx_queue[i].pkt # Runt => bmc_rx_queue[j].pkt < bmc_rx_queue[i].pkt
               /\ \A k \in Packets' : k > bmc_rx_queue[j].pkt => k \in lost' \/ Queued(k)'
    <3>1. bmc_rx_queue[j].pkt \in Packets  BY <1>0, <2>1
    <3>2. Frontier(bmc_rx_queue[j].pkt)  BY <2>1 DEF QueueInv
    <3>3. \A k \in Packets' : k > bmc_rx_queue[j].pkt => k \in lost' \/ Queued(k)'
      <4>1. PICK n \in Packets : n = bmc_rx_queue[j].pkt  BY <3>1
      <4>2. Frontier(n)'  BY <1>1, <3>2, <4>1, FrontierArrival
      <4> QED  BY <4>1, <4>2 DEF Frontier
    <3> QED  BY <1>1, <2>1, <3>1, <3>3, Arrival DEF QueueInv, Frontier
  <2>2. CASE bmc_rx_queue' = bmc_rx_queue
    BY <2>1, <2>2 DEF QueueInv, Frontier
  <2>3. CASE \E number, length :
                /\ bmc_i2c_rx_isr(number, length) /\ lost' = lost
                /\ Len(bmc_rx_queue') = Len(bmc_rx_queue) + 1
                /\ bmc_rx_queue'[Len(bmc_rx_queue) + 1].pkt = number
                /\ bmc_rx_queue'[Len(bmc_rx_queue) + 1].length = SmallerOf(length, BlockSize)
                /\ \A j \in 1 .. Len(bmc_rx_queue) : bmc_rx_queue'[j] = bmc_rx_queue[j]
                /\ number # Runt => /\ Packets' = 1 .. number /\ number \notin Packets
                                    /\ wire'[number].length = length /\ number = Len(wire) + 1
    <3>1. PICK number, length :
                /\ Len(bmc_rx_queue') = Len(bmc_rx_queue) + 1 /\ lost' = lost
                /\ bmc_rx_queue'[Len(bmc_rx_queue) + 1].pkt = number
                /\ bmc_rx_queue'[Len(bmc_rx_queue) + 1].length = SmallerOf(length, BlockSize)
                /\ \A j \in 1 .. Len(bmc_rx_queue) : bmc_rx_queue'[j] = bmc_rx_queue[j]
                /\ number # Runt => /\ Packets' = 1 .. number /\ number \notin Packets
                                    /\ wire'[number].length = length /\ number = Len(wire) + 1
      BY <2>3
    <3> DEFINE top == Len(bmc_rx_queue) + 1
    <3>2. 1 .. Len(bmc_rx_queue') = (1 .. Len(bmc_rx_queue)) \cup {top} /\ top \notin 1 .. Len(bmc_rx_queue)
      BY <1>0, <3>1
    <3> SUFFICES ASSUME NEW j \in 1 .. Len(bmc_rx_queue'), bmc_rx_queue'[j].pkt # Runt
                 PROVE  /\ bmc_rx_queue'[j].pkt \notin lost' \cup swept'
                        /\ bmc_rx_queue'[j].length = SmallerOf(wire'[bmc_rx_queue'[j].pkt].length, BlockSize)
                        /\ \A i \in 1 .. Len(bmc_rx_queue') :
                              i > j /\ bmc_rx_queue'[i].pkt # Runt
                              => bmc_rx_queue'[j].pkt < bmc_rx_queue'[i].pkt
                        /\ \A k \in Packets' : k > bmc_rx_queue'[j].pkt => k \in lost' \/ Queued(k)'
      BY DEF QueueInv, Frontier
    <3>3. CASE j = top
      <4>1. /\ Packets' = 1 .. number /\ number \notin Packets
            /\ bmc_rx_queue'[j].pkt = number /\ wire'[number].length = length
            /\ bmc_rx_queue'[j].length = SmallerOf(length, BlockSize)
        BY <3>1, <3>3
      <4>2. number \notin lost' \cup swept'  BY <1>0, <1>1, <3>1, <4>1, Arrival
      <4>3. \A i \in 1 .. Len(bmc_rx_queue') : ~(i > j)  BY <1>0, <3>1, <3>3
      <4>4. \A k \in Packets' : ~(k > number)  BY <1>0, <3>1, <3>3, <4>1
      <4> QED  BY <4>1, <4>2, <4>3, <4>4
    <3>4. CASE j \in 1 .. Len(bmc_rx_queue)
      <4>1. bmc_rx_queue'[j] = bmc_rx_queue[j] /\ bmc_rx_queue[j].pkt # Runt  BY <3>1, <3>4
      <4>2. \A i \in 1 .. Len(bmc_rx_queue') :
                  i > j /\ bmc_rx_queue'[i].pkt # Runt
                  => bmc_rx_queue[j].pkt < bmc_rx_queue'[i].pkt
        BY <1>0, <2>1, <3>1, <3>2, <3>4, <4>1
      <4> QED  BY <2>1, <3>4, <4>1, <4>2
    <3> QED  BY <3>2, <3>3, <3>4
  <2>4. CASE Writes
    <3>1. PICK som \in BOOLEAN, eom \in BOOLEAN, seq \in 0 .. 3, length \in Lengths :
              Write(som, eom, seq, length)
      BY <2>4 DEF Writes
    <3>2. /\ Packets' = 1 .. Len(wire) + 1 /\ Len(wire) + 1 \notin Packets
          /\ wire'[Len(wire) + 1].length = length /\ bmc_i2c_rx_isr(Len(wire) + 1, length)
      BY <1>0, <3>1, WriteGrows
    <3> QED  BY <2>2, <2>3, <3>2, PostCases
  <2>5. CASE WriteRunt
    <3>1. PICK length \in Lengths : bmc_i2c_rx_isr(Runt, length)  BY <2>5 DEF WriteRunt
    <3> QED  BY <2>2, <2>3, <3>1, PostCases
  <2> QED  BY <1>1, <2>4, <2>5
<1>2. CASE mctp_process_rx
  <2>1. Receive
    BY <1>2 DEF mctp_process_rx, DropRunt, DropStray, Abandon, AppendFragment, Complete, Accept
  <2>2. /\ bmc_rx_queue' = Tail(bmc_rx_queue) /\ bmc_rx_queue # <<>>
        /\ bmc_rx_queue \in Seq(Blocks)
    BY <2>1 DEF Receive, rtos_queue_receive, TypeInv, TypeOK
  <2>3. /\ Len(bmc_rx_queue') = Len(bmc_rx_queue) - 1
        /\ \A j \in 1 .. Len(bmc_rx_queue) - 1 : bmc_rx_queue'[j] = bmc_rx_queue[j + 1]
        /\ \A j \in 1 .. Len(bmc_rx_queue) - 1 : j + 1 \in 1 .. Len(bmc_rx_queue)
        /\ block = bmc_rx_queue[1] /\ 1 \in 1 .. Len(bmc_rx_queue)
    BY <2>2 DEF block
  <2> SUFFICES ASSUME NEW j \in 1 .. Len(bmc_rx_queue'), bmc_rx_queue'[j].pkt # Runt
               PROVE  /\ bmc_rx_queue'[j].pkt \notin lost' \cup swept'
                      /\ bmc_rx_queue'[j].length = SmallerOf(wire'[bmc_rx_queue'[j].pkt].length, BlockSize)
                      /\ \A i \in 1 .. Len(bmc_rx_queue') :
                            i > j /\ bmc_rx_queue'[i].pkt # Runt
                            => bmc_rx_queue'[j].pkt < bmc_rx_queue'[i].pkt
                      /\ \A k \in Packets' : k > bmc_rx_queue'[j].pkt => k \in lost' \/ Queued(k)'
    BY DEF QueueInv, Frontier
  <2> DEFINE n == bmc_rx_queue[j + 1].pkt
  <2>4. /\ j + 1 \in 1 .. Len(bmc_rx_queue) /\ bmc_rx_queue'[j] = bmc_rx_queue[j + 1]
        /\ n # Runt /\ j + 1 > 1
    BY <2>3
  <2>5. /\ n \notin lost \cup swept
        /\ bmc_rx_queue[j + 1].length = SmallerOf(wire[n].length, BlockSize)
        /\ Frontier(n) /\ n \in Packets
    BY <1>0, <2>4 DEF QueueInv
  <2>6. ASSUME NEW i \in 1 .. Len(bmc_rx_queue'), i > j, bmc_rx_queue'[i].pkt # Runt
        PROVE  n < bmc_rx_queue'[i].pkt
    <3>1. /\ bmc_rx_queue'[i] = bmc_rx_queue[i + 1] /\ i + 1 \in 1 .. Len(bmc_rx_queue)
          /\ i + 1 > j + 1
      BY <2>3, <2>6
    <3> QED  BY <2>4, <2>6, <3>1 DEF QueueInv
  <2>7. block.pkt # Runt => block.pkt < n  BY <2>3, <2>4 DEF QueueInv
  <2>8. ASSUME NEW k \in Packets, k > n PROVE k \in lost \/ Queued(k)'
    <3>1. k \in lost \/ Queued(k)  BY <2>5, <2>8 DEF Frontier
    <3>2. k # block.pkt
      <4>1. block.pkt \in Packets => block.pkt # Runt  BY <1>0
      <4> QED  BY <1>0, <2>5, <2>7, <2>8, <4>1
    <3> QED  BY <2>1, <3>1, <3>2, Taken
  <2>9. UNCHANGED <<wire, lost, swept>> /\ Packets' = Packets  BY <2>1, Taken
  <2> QED  BY <2>4, <2>5, <2>6, <2>8, <2>9
<1>3. CASE Restart
  <2>1. Len(bmc_rx_queue') = 0  BY <1>3 DEF Restart
  <2> QED  BY <2>1 DEF QueueInv
<1>4. CASE UNCHANGED vars
  <2>1. UNCHANGED <<wire, lost, swept, bmc_rx_queue>>  BY <1>4
  <2> QED  BY <2>1 DEF QueueInv, Frontier, Queued, Packets
<1> QED  BY <1>1, <1>2, <1>3, <1>4, NextCases

-----------------------------------------------------------------------------
(* Reassembly.                                                             *)

LEMMA MessageGrows ==
    ASSUME NEW first \in Nat, NEW final \in Nat, first <= final
    PROVE  Append(Message(first, final), final + 1) = Message(first, final + 1)
<1> DEFINE m == Message(first, final)
<1>1. m \in Seq(Nat) /\ Len(m) = final - first + 1
  <2>1. m \in [1 .. final - first + 1 -> Nat]  BY DEF Message
  <2>2. final - first + 1 \in Nat  OBVIOUS
  <2> QED  BY <2>1, <2>2
<1>2. \A k \in 1 .. final - first + 1 : m[k] = first + k - 1  BY DEF Message
<1> HIDE DEF m
<1>3. /\ Append(m, final + 1) \in Seq(Nat) /\ Len(Append(m, final + 1)) = final - first + 2
      /\ DOMAIN Append(m, final + 1) = 1 .. final - first + 2
      /\ \A k \in 1 .. final - first + 1 : Append(m, final + 1)[k] = first + k - 1
      /\ Append(m, final + 1)[final - first + 2] = final + 1
  BY <1>1, <1>2
<1>4. Append(m, final + 1) = [k \in 1 .. final - first + 2 |-> first + k - 1]
  BY <1>3
<1>5. final + 1 - first + 1 = final - first + 2  OBVIOUS
<1> QED  BY <1>4, <1>5 DEF m, Message

LEMMA MessageStarts ==
    ASSUME NEW first \in Nat
    PROVE  Append(<<>>, first) = Message(first, first)
<1>1. Message(first, first) = [k \in 1 .. 1 |-> first + k - 1]  BY DEF Message
<1>2. Append(<<>>, first) = [k \in 1 .. 1 |-> first + k - 1]  OBVIOUS
<1> QED  BY <1>1, <1>2

(* Losses are never undone. *)
LEMMA LossStays ==
    ASSUME TypeInv, [Next]_vars, HeavyLoss
    PROVE  HeavyLoss'
<1>1. Packets \subseteq Packets' /\ lost \subseteq lost'
  <2>1. CASE Writes \/ WriteRunt  BY <2>1, Arrival DEF TypeInv, TypeOK
  <2>2. CASE mctp_process_rx \/ Restart \/ UNCHANGED vars
    <3>1. UNCHANGED <<wire, lost>>
      BY <2>2 DEF mctp_process_rx, DropRunt, DropStray, Abandon, AppendFragment, Complete,
                  Accept, Receive, Restart
    <3> QED  BY <3>1 DEF Packets
  <2> QED  BY <2>1, <2>2, NextCases
<1> QED  BY <1>1 DEF HeavyLoss

(* The two-bit sequence number of a packet that continues a message tells  *)
(* it from every other packet, unless too many between them were lost.     *)
LEMMA NextInMessage ==
    ASSUME TypeInv, WireInv, QueueInv, ~HeavyLoss, Receive, HasHeader,
           NEW final \in Packets, ~wire[final].eom, Frontier(final),
           \A k \in Packets : Queued(k) => k > final,
           ~pkt.som, pkt.seq = (wire[final].seq + 1) % 4
    PROVE  block.pkt = final + 1
<1> DEFINE h == block.pkt
<1>1. /\ h \in Packets /\ Queued(h) /\ Packets = 1 .. Len(wire) /\ Len(wire) \in Nat
      /\ \A k \in Packets : Queued(k)' => k > h
      /\ \A k \in Packets : Queued(k)' <=> (Queued(k) /\ k # h)
  BY Taken DEF TypeInv, TypeOK, Packets
<1>2. h > final /\ pkt = wire[h]  BY <1>1 DEF pkt
<1> HIDE DEF h
<1>3. final + 1 .. h - 1 \subseteq lost
  <2> SUFFICES ASSUME NEW k \in final + 1 .. h - 1 PROVE k \in lost
    OBVIOUS
  <2>1. k \in Packets /\ k > final /\ k < h /\ k # h /\ ~(k > h)  BY <1>1
  <2> QED  BY <1>1, <2>1 DEF Frontier
<1>4. /\ Tolerance \in 0 .. 3 /\ (~ContinuousSeq => Tolerance <= 1)
      /\ (~ContinuousSeq /\ MayAbort => Tolerance = 0)
  BY SenderAssumption
<1>5. h <= final + 1 + Tolerance
  <2> SUFFICES ASSUME h > final + 1 + Tolerance PROVE FALSE
    BY <1>1, <1>4
  <2>1. final + 1 \in Packets /\ final + 1 + Tolerance \in Packets  BY <1>1, <1>4
  <2>2. final + 1 .. final + 1 + Tolerance \subseteq final + 1 .. h - 1  BY <1>1, <1>4
  <2> QED  BY <1>3, <2>1, <2>2 DEF HeavyLoss
<1>6. \A k \in Packets : wire[k].seq \in 0 .. 3
  <2>1. wire \in Seq(WirePackets)  BY DEF TypeInv, TypeOK
  <2>2. \A k \in Packets : wire[k] \in WirePackets  BY <2>1 DEF Packets
  <2> QED  BY <2>2 DEF WirePackets
<1>7. ASSUME NEW k \in Packets, k > final, k <= h,
             ContinuousSeq \/ ~wire[k].som
      PROVE  k - 1 \in Packets /\ wire[k].seq = (wire[k - 1].seq + 1) % 4
  BY <1>1, <1>7 DEF WireInv
<1>8. CASE ContinuousSeq
  <2>1. CASE h = final + 2
    <3>1. final + 1 \in Packets  BY <1>1, <2>1
    <3>2. /\ wire[h].seq = (wire[final + 1].seq + 1) % 4
          /\ wire[final + 1].seq = (wire[final].seq + 1) % 4
      BY <1>1, <1>7, <1>8, <2>1, <3>1
    <3> QED  BY <1>1, <1>2, <1>6, <3>1, <3>2
  <2>2. CASE h = final + 3
    <3>1. final + 1 \in Packets /\ final + 2 \in Packets  BY <1>1, <2>2
    <3>2. /\ wire[h].seq = (wire[final + 2].seq + 1) % 4
          /\ wire[final + 2].seq = (wire[final + 1].seq + 1) % 4
          /\ wire[final + 1].seq = (wire[final].seq + 1) % 4
      BY <1>1, <1>7, <1>8, <2>2, <3>1
    <3> QED  BY <1>1, <1>2, <1>6, <3>1, <3>2
  <2>3. CASE h = final + 4
    <3>1. final + 1 \in Packets /\ final + 2 \in Packets /\ final + 3 \in Packets  BY <1>1, <2>3
    <3>2. /\ wire[h].seq = (wire[final + 3].seq + 1) % 4
          /\ wire[final + 3].seq = (wire[final + 2].seq + 1) % 4
          /\ wire[final + 2].seq = (wire[final + 1].seq + 1) % 4
          /\ wire[final + 1].seq = (wire[final].seq + 1) % 4
      BY <1>1, <1>7, <1>8, <2>3, <3>1
    <3> QED  BY <1>1, <1>2, <1>6, <3>1, <3>2
  <2> QED  BY <1>1, <1>2, <1>4, <1>5, <2>1, <2>2, <2>3 DEF h
<1>9. CASE ~ContinuousSeq
  <2>1. CASE h = final + 2
    <3>1. final + 1 \in Packets /\ ~MayAbort  BY <1>1, <1>4, <1>5, <1>9, <2>1
    <3>2. ~wire[final + 1].som  BY <1>1, <3>1 DEF WireInv
    <3>3. /\ wire[h].seq = (wire[final + 1].seq + 1) % 4
          /\ wire[final + 1].seq = (wire[final].seq + 1) % 4
      BY <1>1, <1>2, <1>7, <2>1, <3>1, <3>2
    <3> QED  BY <1>1, <1>2, <1>6, <3>1, <3>3
  <2> QED  BY <1>1, <1>2, <1>4, <1>5, <1>9, <2>1 DEF h
<1> QED  BY <1>8, <1>9

(* What stands on the wire stays there. *)
LEMMA ArrivalKeeps ==
    ASSUME TypeInv, Writes \/ WriteRunt, NEW first \in Packets, NEW final \in Packets
    PROVE  /\ Partial(first, final)' <=> Partial(first, final)
           /\ IsMessage(first, final)' <=> IsMessage(first, final)
           /\ Processed(first)' <=> Processed(first)
           /\ Whole(first)' <=> Whole(first)
<1>1. Packets = 1 .. Len(wire) /\ Len(wire) \in Nat  BY DEF TypeInv, TypeOK, Packets
<1>2. \A k \in Packets : wire'[k] = wire[k]  BY Arrival
<1>3. (first + 1 .. final) \subseteq Packets /\ (first .. final - 1) \subseteq Packets  BY <1>1
<1>4. Partial(first, final)' <=> Partial(first, final)  BY <1>2, <1>3 DEF Partial
<1>5. IsMessage(first, final)' <=> IsMessage(first, final)  BY <1>2, <1>3 DEF IsMessage
<1>6. Whole(first)' <=> Whole(first)  BY <1>2 DEF Whole
<1>7. Processed(first)' <=> Processed(first)
  <2>1. UNCHANGED swept /\ (first \in lost' <=> first \in lost) /\ (Queued(first)' <=> Queued(first))
    BY Arrival
  <2> QED  BY <2>1 DEF Processed, Queued
<1> QED  BY <1>4, <1>5, <1>6, <1>7

LEMMA StepOfTask ==
    ASSUME mctp_process_rx
    PROVE  Receive /\ UNCHANGED <<wire, lost, swept>> /\ Packets' = Packets
BY DEF mctp_process_rx, DropRunt, DropStray, Abandon, AppendFragment, Complete, Accept, Receive,
       Packets

(* A message and the beginning of one, when a packet is added. *)
LEMMA Extended ==
    ASSUME TypeInv, Receive, HasHeader, NEW first \in Packets, NEW final \in Packets,
           Partial(first, final), ~wire[final].eom, block.pkt = final + 1, ~pkt.som,
           s_reasm_buf = Message(first, final)
    PROVE  Partial(first, block.pkt) /\ assembled = Message(first, block.pkt)
<1>1. Packets = 1 .. Len(wire) /\ Len(wire) \in Nat  BY DEF TypeInv, TypeOK, Packets
<1>2. first <= final /\ first \in Nat /\ final \in Nat  BY <1>1 DEF Partial
<1>3. PICK h \in Nat : h = final + 1 /\ h - 1 = final  BY <1>2
<1>4. Partial(first, h)
  <2>1. first <= h /\ wire[first].som  BY <1>2, <1>3 DEF Partial
  <2>2. ~wire[h].som  BY <1>3 DEF pkt
  <2>3. \A k \in first + 1 .. h : k \in first + 1 .. final \/ k = h  BY <1>2, <1>3
  <2>4. \A k \in first + 1 .. h : ~wire[k].som  BY <2>2, <2>3 DEF Partial
  <2>5. \A k \in first .. h - 1 : k \in first .. final - 1 \/ k = final  BY <1>2, <1>3
  <2>6. \A k \in first .. h - 1 : ~wire[k].eom  BY <2>5 DEF Partial
  <2> QED  BY <2>1, <2>4, <2>6 DEF Partial
<1>5. assembled = Append(Message(first, final), final + 1)
  <2>1. fragments = s_reasm_buf  BY DEF fragments
  <2> QED  BY <2>1 DEF assembled
<1>6. assembled = Message(first, final + 1)  BY <1>2, <1>5, MessageGrows
<1> QED  BY <1>3, <1>4, <1>6

LEMMA Begun ==
    ASSUME TypeInv, Receive, HasHeader, pkt.som
    PROVE  Partial(block.pkt, block.pkt) /\ assembled = Message(block.pkt, block.pkt)
<1>1. block.pkt \in Packets /\ Packets \subseteq Nat  BY Drained DEF Packets
<1>2. Partial(block.pkt, block.pkt)
  <2>1. PICK h \in Nat : h = block.pkt  BY <1>1
  <2>2. wire[h].som  BY <2>1 DEF pkt
  <2>3. h + 1 .. h = {} /\ h .. h - 1 = {} /\ h <= h  BY <2>1
  <2> QED  BY <2>1, <2>2, <2>3 DEF Partial
<1>3. assembled = Append(<<>>, block.pkt)  BY DEF assembled, fragments
<1> QED  BY <1>1, <1>2, <1>3, MessageStarts

(* The packet that is accepted ends a stretch that is a message, or the    *)
(* beginning of one.                                                       *)
LEMMA AcceptedStretch ==
    ASSUME TypeInv, WireInv, QueueInv, ~HeavyLoss, AssemblyInv, Accept
    PROVE  \E first \in Packets : Partial(first, block.pkt) /\ assembled = Message(first, block.pkt)
<1>1. Receive /\ HasHeader /\ active /\ InOrder  BY DEF Accept
<1>2. block.pkt \in Packets  BY <1>1, Taken
<1>3. CASE pkt.som  BY <1>1, <1>2, <1>3, Begun
<1>4. CASE ~pkt.som
  <2>1. s_reasm_active /\ pkt.seq = s_expected_seq
    BY <1>1, <1>4 DEF active, InOrder, expectedSeq
  <2>2. PICK first \in Packets, final \in Packets :
            /\ Partial(first, final) /\ ~wire[final].eom
            /\ Holds(first, final) /\ Frontier(final)
            /\ \A k \in Packets : Queued(k) => k > final
    BY <2>1 DEF AssemblyInv
  <2>3. pkt.seq = (wire[final].seq + 1) % 4 /\ s_reasm_buf = Message(first, final)
    BY <2>1, <2>2 DEF Holds
  <2>4. block.pkt = final + 1  BY <1>1, <1>4, <2>2, <2>3, NextInMessage
  <2> QED  BY <1>1, <1>4, <2>2, <2>3, <2>4, Extended
<1> QED  BY <1>3, <1>4

LEMMA AssemblyStep ==
    ASSUME TypeInv, WireInv, QueueInv, ~HeavyLoss, AssemblyInv, [Next]_vars
    PROVE  AssemblyInv'
<1>1. CASE Writes \/ WriteRunt
  <2> SUFFICES ASSUME s_reasm_active'
               PROVE  \E first, final \in Packets' :
                        /\ Partial(first, final)' /\ ~wire'[final].eom
                        /\ Holds(first, final)' /\ Frontier(final)'
                        /\ \A k \in Packets' : Queued(k)' => k > final
    BY DEF AssemblyInv
  <2>1. UNCHANGED <<s_reasm_active, s_reasm_buf, s_expected_seq>>  BY <1>1, Arrival
  <2>2. PICK first \in Packets, final \in Packets :
            /\ Partial(first, final) /\ ~wire[final].eom
            /\ Holds(first, final) /\ Frontier(final)
            /\ \A k \in Packets : Queued(k) => k > final
    BY <2>1 DEF AssemblyInv
  <2>3. first \in Packets' /\ final \in Packets' /\ wire'[final] = wire[final]  BY <1>1, Arrival
  <2>4. Partial(first, final)'  BY <1>1, <2>2, ArrivalKeeps
  <2>5. Frontier(final)'  BY <1>1, <2>2, FrontierArrival
  <2>6. Holds(first, final)'  BY <2>1, <2>2, <2>3 DEF Holds, Message
  <2>7. ASSUME NEW k \in Packets', Queued(k)' PROVE k > final
    <3>1. CASE k \in Packets  BY <1>1, <2>2, <2>7, <3>1, Arrival
    <3>2. CASE k \notin Packets
      <4>1. k > Len(wire)  BY <1>1, <3>2, Arrival
      <4>2. Packets = 1 .. Len(wire) /\ Len(wire) \in Nat /\ Packets' \subseteq Nat
        BY DEF TypeInv, TypeOK, Packets
      <4> QED  BY <4>1, <4>2
    <3> QED  BY <3>1, <3>2
  <2> QED  BY <2>2, <2>3, <2>4, <2>5, <2>6, <2>7
<1>2. CASE mctp_process_rx
  <2>1. Receive /\ UNCHANGED <<wire, lost, swept>> /\ Packets' = Packets  BY <1>2, StepOfTask
  <2>2. \A k \in Packets : Queued(k)' => Queued(k)  BY <2>1, Taken
  <2>3. CASE DropRunt
    <3>1. \A k \in Packets : Queued(k)' <=> Queued(k)
      <4>1. block.pkt \notin Packets  BY <2>3 DEF DropRunt, HasHeader, Runt, Packets
      <4> QED  BY <2>1, <4>1, Taken
    <3>2. UNCHANGED <<s_reasm_active, s_reasm_buf, s_expected_seq>>  BY <2>3 DEF DropRunt
    <3> QED  BY <2>1, <3>1, <3>2 DEF AssemblyInv, Partial, Holds, Message, Frontier
  <2>4. CASE DropStray \/ Abandon \/ Complete
    <3>1. ~s_reasm_active'
      BY <2>4 DEF DropStray, Abandon, Complete, mctp_reset, active
    <3> QED  BY <3>1 DEF AssemblyInv
  <2>5. CASE AppendFragment
    <3>1. Accept /\ ~pkt.eom  BY <2>5 DEF AppendFragment
    <3>2. PICK first \in Packets :
              Partial(first, block.pkt) /\ assembled = Message(first, block.pkt)
      BY <3>1, AcceptedStretch
    <3>3. HasHeader /\ InOrder  BY <3>1 DEF Accept
    <3>4. PICK h \in Packets : h = block.pkt  BY <2>1, <3>3, Taken
    <3>5. /\ pkt = wire[h] /\ Partial(first, h) /\ Frontier(h)
          /\ \A k \in Packets : Queued(k)' => k > h
          /\ \A k \in Packets : Queued(k)' <=> (Queued(k) /\ k # h)
      BY <2>1, <3>2, <3>3, <3>4, Taken DEF pkt
    <3>6. s_reasm_buf' = Message(first, h) /\ s_expected_seq' = (wire[h].seq + 1) % 4
      BY <2>5, <3>2, <3>3, <3>4, <3>5 DEF AppendFragment, InOrder
    <3>7. Partial(first, h)' /\ ~wire'[h].eom /\ Holds(first, h)'
      BY <2>1, <3>1, <3>5, <3>6 DEF Partial, Holds, Message
    <3>8. Frontier(h)'
      <4>1. \A k \in Packets : k > h => k # h  BY DEF Packets
      <4> QED  BY <2>1, <3>5, <4>1 DEF Frontier
    <3> QED  BY <2>1, <3>5, <3>7, <3>8 DEF AssemblyInv
  <2> QED  BY <1>2, <2>3, <2>4, <2>5 DEF mctp_process_rx
<1>3. CASE Restart  BY <1>3 DEF Restart, mctp_reset, AssemblyInv
<1>4. CASE UNCHANGED vars
  <2>1. UNCHANGED <<wire, lost, bmc_rx_queue, s_reasm_active, s_reasm_buf, s_expected_seq>>  BY <1>4
  <2>2. Packets' = Packets /\ \A k \in Packets : Queued(k)' <=> Queued(k)
    BY <2>1 DEF Packets, Queued
  <2> QED  BY <2>1, <2>2 DEF AssemblyInv, Partial, Holds, Message, Frontier
<1> QED  BY <1>1, <1>2, <1>3, <1>4, NextCases

LEMMA DeliveredStep ==
    ASSUME TypeInv, WireInv, QueueInv, ~HeavyLoss, AssemblyInv, DeliveredInv, [Next]_vars
    PROVE  DeliveredInv'
<1>1. CASE Writes \/ WriteRunt
  <2> SUFFICES ASSUME NEW m \in delivered'
               PROVE  \E first, final \in Packets' :
                        IsMessage(first, final)' /\ m = Message(first, final)
    BY DEF DeliveredInv, Message
  <2>1. m \in delivered  BY <1>1, Arrival
  <2>2. PICK first \in Packets, final \in Packets :
            IsMessage(first, final) /\ m = Message(first, final)
    BY <2>1 DEF DeliveredInv
  <2>3. IsMessage(first, final)'  BY <1>1, <2>2, ArrivalKeeps
  <2>4. Packets \subseteq Packets'  BY <1>1, Arrival
  <2> QED  BY <2>2, <2>3, <2>4
<1>2. CASE mctp_process_rx
  <2>1. Receive /\ UNCHANGED <<wire, lost, swept>> /\ Packets' = Packets  BY <1>2, StepOfTask
  <2>2. CASE UNCHANGED delivered
    BY <2>1, <2>2 DEF DeliveredInv, IsMessage, Message
  <2>3. CASE Complete
    <3>1. Accept /\ pkt.eom /\ delivered' \subseteq delivered \cup {assembled}
      BY <2>3 DEF Complete
    <3>2. block.pkt \in Packets  BY <2>1, <3>1, Taken DEF Accept
    <3>3. PICK first \in Packets :
              Partial(first, block.pkt) /\ assembled = Message(first, block.pkt)
      BY <3>1, AcceptedStretch
    <3>4. IsMessage(first, block.pkt)  BY <3>1, <3>3 DEF Partial, IsMessage, pkt
    <3> QED  BY <2>1, <3>1, <3>2, <3>3, <3>4 DEF DeliveredInv, IsMessage, Message
  <2> QED
    BY <1>2, <2>2, <2>3 DEF mctp_process_rx, DropRunt, DropStray, Abandon, AppendFragment
<1>3. CASE Restart \/ UNCHANGED vars
  <2>1. UNCHANGED <<wire, delivered>>  BY <1>3 DEF Restart
  <2> QED  BY <2>1 DEF DeliveredInv, IsMessage, Message, Packets
<1> QED  BY <1>1, <1>2, <1>3, NextCases

-----------------------------------------------------------------------------
(* A message that got through is in the buffer.                            *)

LEMMA ProcessedNot ==
    ASSUME NEW k \in Packets
    PROVE  Processed(k) <=> k \notin lost /\ k \notin swept /\ ~Queued(k)
BY DEF Processed, Queued

(* The packet in hand is accepted if those before it in its message were   *)
(* received, and the buffer grows by it.                                   *)
LEMMA NextHeld ==
    ASSUME TypeInv, WireInv, QueueInv, HeldInv, Receive, HasHeader,
           NEW first \in Packets, NEW final \in Packets, final = block.pkt,
           Partial(first, final), \A k \in first .. final : Whole(k),
           \A k \in first .. final - 1 : Processed(k),
           wire[final].sent <= ReasmSize
    PROVE  /\ active /\ InOrder /\ Fits
           /\ assembled = Message(first, final)
           /\ offset + size = wire[final].sent /\ expectedSeq = wire[final].seq
<1> USE Sizes
<1>1. /\ Packets = 1 .. Len(wire) /\ Len(wire) \in Nat
      /\ first <= final /\ first \in Nat /\ final \in Nat
  BY DEF TypeInv, TypeOK, Packets, Partial
<1>2. pkt = wire[final] /\ pkt \in WirePackets  BY Drained DEF pkt
<1>3. size = wire[final].length - HeaderSize /\ wire[final].length \in Nat
  <2>1. Whole(final)  BY <1>1
  <2>2. block.length = SmallerOf(wire[final].length, BlockSize)  BY <1>2, Taken
  <2>3. wire[final].length \in Nat  BY <1>2 DEF WirePackets
  <2> QED  BY <2>1, <2>2, <2>3 DEF Whole, SmallerOf, size
<1>4. Frontier(final) /\ Queued(final)  BY Taken
<1>5. CASE pkt.som
  <2>1. first = final
    <3>1. first < final => final \in first + 1 .. final  BY <1>1
    <3> QED  BY <1>1, <1>2, <1>5, <3>1 DEF Partial
  <2>2. assembled = Message(first, final)  BY <1>5, <2>1, Begun
  <2>3. expectedSeq = wire[final].seq /\ active /\ InOrder
    BY <1>2, <1>5 DEF expectedSeq, active, InOrder
  <2>4. offset + size = wire[final].sent
    <3>1. wire[final].sent = wire[final].length - HeaderSize  BY <1>2, <1>5 DEF WireInv
    <3> QED  BY <1>3, <1>5, <3>1 DEF offset
  <2> QED  BY <2>2, <2>3, <2>4 DEF Fits
<1>6. CASE ~pkt.som
  <2>1. first < final  BY <1>1, <1>2, <1>6 DEF Partial
  <2>2. PICK l \in Packets : l = final - 1 /\ final = l + 1 /\ first <= l  BY <1>1, <2>1
  <2>3. /\ ~wire[l].eom
        /\ wire[final].seq = (wire[l].seq + 1) % 4
        /\ wire[final].sent = wire[l].sent + wire[final].length - HeaderSize
        /\ wire[final].length >= HeaderSize
    BY <1>1, <1>2, <1>6, <2>1, <2>2 DEF WireInv
  <2>4. Partial(first, l)
    <3>1. \A k \in first + 1 .. l : k \in first + 1 .. final  BY <1>1, <2>2
    <3>2. \A k \in first .. l - 1 : k \in first .. final - 1  BY <1>1, <2>2
    <3> QED  BY <2>2, <3>1, <3>2 DEF Partial
  <2>5. \A k \in first .. l : Processed(k) /\ Whole(k)
    <3>1. \A k \in first .. l : k \in first .. final /\ k \in first .. final - 1  BY <1>1, <2>2
    <3> QED  BY <3>1
  <2>6. wire[l].sent \in Nat /\ wire[l].sent <= ReasmSize
    <3>1. wire[l].sent \in Nat /\ wire[final].sent \in Nat
      <4>1. wire \in Seq(WirePackets)  BY DEF TypeInv, TypeOK
      <4>2. wire[l] \in WirePackets /\ wire[final] \in WirePackets  BY <1>1, <4>1
      <4> QED  BY <4>2 DEF WirePackets
    <3> QED  BY <1>3, <2>3, <3>1
  <2>7. Frontier(l)
    <3>1. \A k \in Packets : k > l => k = final \/ k > final  BY <1>1, <2>2
    <3> QED  BY <1>4, <3>1 DEF Frontier
  <2>8. s_reasm_active /\ Holds(first, l) /\ s_reasm_offset = wire[l].sent
    BY <2>3, <2>4, <2>5, <2>6, <2>7 DEF HeldInv
  <2>9. assembled = Message(first, final)
    BY <1>6, <2>2, <2>3, <2>4, <2>8, Extended DEF Holds
  <2>10. expectedSeq = wire[final].seq /\ active /\ InOrder
    BY <1>2, <1>6, <2>3, <2>8 DEF expectedSeq, active, InOrder, Holds
  <2>11. offset + size = wire[final].sent
    <3>1. offset = wire[l].sent  BY <1>6, <2>8 DEF offset
    <3> QED  BY <1>3, <2>3, <2>6, <3>1
  <2> QED  BY <2>9, <2>10, <2>11 DEF Fits
<1> QED  BY <1>5, <1>6

(* A packet that counts as processed only now is the one in hand, and      *)
(* nothing after it has been looked at.                                    *)
LEMMA ProcessedNow ==
    ASSUME TypeInv, QueueInv, Receive, NEW k \in Packets, Processed(k)'
    PROVE  \/ Processed(k) /\ (HasHeader => k # block.pkt /\ k < block.pkt)
           \/ HasHeader /\ k = block.pkt
<1>1. UNCHANGED <<wire, lost, swept>> /\ Packets' = Packets  BY Taken
<1>2. k \notin lost /\ k \notin swept /\ ~Queued(k)'  BY <1>1 DEF Processed, Queued
<1>3. Queued(k)' <=> (Queued(k) /\ k # block.pkt)  BY Taken
<1>4. k # Runt /\ k \in Nat  BY DEF Runt, Packets
<1>5. CASE k = block.pkt  BY <1>4, <1>5 DEF HasHeader
<1>6. CASE k # block.pkt
  <2>1. Processed(k)  BY <1>2, <1>3, <1>6, ProcessedNot
  <2>2. ASSUME HasHeader PROVE k < block.pkt
    <3>1. block.pkt \in Packets /\ Frontier(block.pkt)  BY <2>2, Taken
    <3>2. ~(k > block.pkt)  BY <1>2, <1>3, <1>6, <3>1 DEF Frontier
    <3> QED  BY <1>4, <1>6, <3>1, <3>2 DEF Packets
  <2> QED  BY <1>6, <2>1, <2>2
<1> QED  BY <1>5, <1>6

(* After a restart, what still counts as processed did so before it and    *)
(* was not in the buffer.                                                  *)
LEMMA ProcessedThrough ==
    ASSUME TypeInv, Restart, NEW k \in Packets, Processed(k)'
    PROVE  Processed(k) /\ k \notin Range(s_reasm_buf)
<1>1. k \notin lost /\ k \notin swept'  BY DEF Restart, Processed
<1>2. /\ k \notin swept /\ k \notin Range(s_reasm_buf)
      /\ k \notin {b.pkt : b \in Range(bmc_rx_queue)} \ {Runt}
  BY <1>1 DEF Restart
<1>3. ~Queued(k)
  <2> SUFFICES ASSUME Queued(k) PROVE FALSE
    OBVIOUS
  <2>1. PICK j \in 1 .. Len(bmc_rx_queue) : bmc_rx_queue[j].pkt = k  BY DEF Queued
  <2>2. bmc_rx_queue \in Seq(Blocks)  BY DEF TypeInv, TypeOK
  <2>3. DOMAIN bmc_rx_queue = 1 .. Len(bmc_rx_queue)  BY <2>2
  <2>4. bmc_rx_queue[j] \in Range(bmc_rx_queue)  BY <2>3 DEF Range
  <2>5. k # Runt  BY DEF Runt, Packets
  <2> QED  BY <1>2, <2>1, <2>4, <2>5
<1> QED  BY <1>1, <1>2, <1>3, ProcessedNot

LEMMA HeldStep ==
    ASSUME TypeInv, WireInv, QueueInv, HeldInv, [Next]_vars
    PROVE  HeldInv'
<1>0. Packets = 1 .. Len(wire) /\ Len(wire) \in Nat  BY DEF TypeInv, TypeOK, Packets
<1> SUFFICES ASSUME NEW first \in Packets', NEW final \in Packets',
                    Partial(first, final)', ~wire'[final].eom,
                    \A k \in first .. final : Processed(k)' /\ Whole(k)',
                    wire'[final].sent <= ReasmSize, Frontier(final)'
             PROVE  /\ s_reasm_active' /\ Holds(first, final)'
                    /\ s_reasm_offset' = wire'[final].sent
  BY DEF HeldInv
<1>1. CASE Writes \/ WriteRunt
  <2>1. first <= final /\ first \in Nat /\ final \in Nat /\ first >= 1
    BY DEF Partial, Packets
  <2>2. Processed(final)'  BY <2>1
  <2>3. final \in Packets
    <3>1. ~(final \in lost') /\ ~Queued(final)'  BY <2>2 DEF Processed, Queued
    <3> QED  BY <1>1, <3>1, Arrival
  <2>4. first \in Packets /\ (first .. final) \subseteq Packets  BY <1>0, <2>1, <2>3
  <2>5. wire'[final] = wire[final]  BY <1>1, <2>3, Arrival
  <2>6. \A k \in first .. final : Processed(k) /\ Whole(k)  BY <1>1, <2>4, ArrivalKeeps
  <2>7. Partial(first, final) /\ Frontier(final)
    BY <1>1, <2>3, <2>4, ArrivalKeeps, FrontierArrival
  <2>8. s_reasm_active /\ Holds(first, final) /\ s_reasm_offset = wire[final].sent
    BY <2>3, <2>4, <2>5, <2>6, <2>7 DEF HeldInv
  <2>9. UNCHANGED <<s_reasm_active, s_reasm_buf, s_expected_seq, s_reasm_offset>>
    BY <1>1, Arrival
  <2> QED  BY <2>5, <2>8, <2>9 DEF Holds, Message
<1>2. CASE mctp_process_rx
  <2>1. Receive /\ UNCHANGED <<wire, lost, swept>> /\ Packets' = Packets  BY <1>2, StepOfTask
  <2>2. /\ first \in Packets /\ final \in Packets /\ Partial(first, final) /\ ~wire[final].eom
        /\ wire[final].sent <= ReasmSize /\ \A k \in first .. final : Whole(k)
        /\ first <= final /\ (first .. final) \subseteq Packets
    BY <1>0, <2>1 DEF Partial, Whole
  <2>3. Processed(final)'  BY <2>2, <1>0
  <2>4. CASE HasHeader
    <3>1. block.pkt \in Packets /\ block.pkt \notin lost
      BY <2>1, <2>4, Taken
    <3>2. ~(block.pkt > final)
      <4>1. PICK h \in Packets : h = block.pkt  BY <3>1
      <4>2. ~Queued(h)'  BY <2>1, <4>1, Taken
      <4> QED  BY <2>1, <3>1, <4>1, <4>2 DEF Frontier
    <3>3. final = block.pkt
      BY <1>0, <2>1, <2>2, <2>3, <2>4, <3>1, <3>2, ProcessedNow
    <3>4. \A k \in first .. final - 1 : Processed(k)
      <4> SUFFICES ASSUME NEW k \in first .. final - 1 PROVE Processed(k)
        OBVIOUS
      <4>1. k \in first .. final /\ k \in Packets /\ k # final  BY <1>0, <2>2
      <4> QED  BY <2>1, <3>3, <4>1, ProcessedNow
    <3>5. /\ active /\ InOrder /\ Fits /\ assembled = Message(first, final)
          /\ offset + size = wire[final].sent /\ expectedSeq = wire[final].seq
      BY <2>1, <2>2, <2>4, <3>3, <3>4, NextHeld
    <3>6. ~pkt.eom  BY <2>2, <3>3 DEF pkt
    <3>7. AppendFragment
      BY <1>2, <2>4, <3>5, <3>6 DEF mctp_process_rx, DropRunt, DropStray, Abandon, Complete
    <3> QED  BY <2>1, <3>5, <3>7 DEF AppendFragment, Holds, Message
  <2>5. CASE ~HasHeader
    <3>1. DropRunt
      BY <1>2, <2>5 DEF mctp_process_rx, DropStray, Abandon, AppendFragment, Complete, Accept
    <3>2. block.pkt \notin Packets  BY <1>0, <2>5 DEF HasHeader, Runt
    <3>3. \A k \in Packets : Queued(k)' <=> Queued(k)  BY <2>1, <3>2, Taken
    <3>4. Frontier(final)  BY <2>1, <2>2, <3>3 DEF Frontier
    <3>5. \A k \in first .. final : Processed(k)  BY <2>1, <2>2, <3>2, ProcessedNow
    <3>6. s_reasm_active /\ Holds(first, final) /\ s_reasm_offset = wire[final].sent
      BY <2>2, <3>4, <3>5 DEF HeldInv
    <3> QED  BY <2>1, <3>1, <3>6 DEF DropRunt, Holds, Message
  <2> QED  BY <2>4, <2>5
<1>3. CASE Restart
  <2>1. UNCHANGED <<wire, lost>> /\ Packets' = Packets /\ Len(bmc_rx_queue') = 0
    BY <1>3 DEF Restart, Packets
  <2>2. /\ first \in Packets /\ final \in Packets /\ Partial(first, final) /\ ~wire[final].eom
        /\ wire[final].sent <= ReasmSize /\ \A k \in first .. final : Whole(k)
        /\ first <= final /\ (first .. final) \subseteq Packets /\ final \in first .. final
    BY <1>0, <2>1 DEF Partial, Whole
  <2>3. \A k \in first .. final : Processed(k) /\ k \notin Range(s_reasm_buf)
    BY <1>3, <2>2, ProcessedThrough
  <2>4. Frontier(final)  BY <2>1 DEF Frontier, Queued
  <2>5. s_reasm_buf = Message(first, final)
    BY <2>2, <2>3, <2>4 DEF HeldInv, Holds
  <2>6. final \in Range(s_reasm_buf)
    <3>1. /\ first \in Nat /\ final \in Nat /\ final - first + 1 \in 1 .. final - first + 1
          /\ first + (final - first + 1) - 1 = final
      BY <1>0, <2>2
    <3> QED  BY <2>5, <3>1 DEF Range, Message
  <2> QED  BY <2>2, <2>3, <2>6
<1>4. CASE UNCHANGED vars
  <2>1. UNCHANGED <<wire, lost, swept, bmc_rx_queue, s_reasm_active, s_reasm_buf, s_expected_seq,
                    s_reasm_offset>>
    BY <1>4
  <2>2. Packets' = Packets /\ \A k \in Packets : Queued(k)' <=> Queued(k)
    BY <2>1 DEF Packets, Queued
  <2>3. /\ first \in Packets /\ final \in Packets /\ Partial(first, final) /\ ~wire[final].eom
        /\ wire[final].sent <= ReasmSize /\ \A k \in first .. final : Whole(k) /\ Processed(k)
        /\ Frontier(final)
    BY <2>1, <2>2 DEF Partial, Whole, Processed, Frontier
  <2>4. s_reasm_active /\ Holds(first, final) /\ s_reasm_offset = wire[final].sent
    BY <2>3 DEF HeldInv
  <2> QED  BY <2>1, <2>4 DEF Holds, Message
<1> QED  BY <1>1, <1>2, <1>3, <1>4, NextCases

LEMMA RefusedStep ==
    ASSUME TypeInv, WireInv, QueueInv, HeldInv, NothingRefused, [Next]_vars
    PROVE  NothingRefused'
<1>0. Packets = 1 .. Len(wire) /\ Len(wire) \in Nat  BY DEF TypeInv, TypeOK, Packets
<1> SUFFICES ASSUME NEW first \in Packets', NEW final \in Packets',
                    IsMessage(first, final)',
                    \A k \in first .. final : Processed(k)' /\ Whole(k)',
                    wire'[final].sent \in PldmHeader .. PacketSize
             PROVE  Message(first, final) \in delivered'
  BY DEF NothingRefused, Message
<1>1. CASE Writes \/ WriteRunt
  <2>1. first <= final /\ first \in Nat /\ final \in Nat /\ first >= 1
    BY DEF IsMessage, Packets
  <2>2. Processed(final)'  BY <2>1
  <2>3. final \in Packets
    <3>1. ~(final \in lost') /\ ~Queued(final)'  BY <2>2 DEF Processed, Queued
    <3> QED  BY <1>1, <3>1, Arrival
  <2>4. first \in Packets /\ (first .. final) \subseteq Packets  BY <1>0, <2>1, <2>3
  <2>5. wire'[final] = wire[final]  BY <1>1, <2>3, Arrival
  <2>6. \A k \in first .. final : Processed(k) /\ Whole(k)  BY <1>1, <2>4, ArrivalKeeps
  <2>7. IsMessage(first, final)  BY <1>1, <2>3, <2>4, ArrivalKeeps
  <2>8. Message(first, final) \in delivered  BY <2>3, <2>4, <2>5, <2>6, <2>7 DEF NothingRefused
  <2> QED  BY <1>1, <2>8, Arrival
<1>2. CASE mctp_process_rx
  <2>1. Receive /\ UNCHANGED <<wire, lost, swept>> /\ Packets' = Packets  BY <1>2, StepOfTask
  <2>2. /\ first \in Packets /\ final \in Packets /\ IsMessage(first, final)
        /\ wire[final].sent \in PldmHeader .. PacketSize /\ \A k \in first .. final : Whole(k)
        /\ first <= final /\ (first .. final) \subseteq Packets /\ final \in first .. final
    BY <1>0, <2>1 DEF IsMessage, Whole
  <2>3. delivered \subseteq delivered'
    BY <1>2 DEF mctp_process_rx, DropRunt, DropStray, Abandon, AppendFragment, Complete
  <2>4. CASE \A k \in first .. final : Processed(k)
    <3>1. Message(first, final) \in delivered  BY <2>2, <2>4 DEF NothingRefused
    <3> QED  BY <2>3, <3>1
  <2>5. CASE \E k \in first .. final : ~Processed(k)
    <3>1. HasHeader /\ block.pkt \in first .. final  BY <2>1, <2>2, <2>5, ProcessedNow
    <3>2. block.pkt \in Packets  BY <2>1, <3>1, Taken
    <3>3. final = block.pkt
      <4>1. block.pkt <= final  BY <1>0, <2>2, <3>1, <3>2
      <4>2. ~(final < block.pkt)  BY <1>0, <2>2, <3>2, <4>1
      <4> QED  BY <2>1, <2>2, <3>1, <4>1, <4>2, ProcessedNow, <1>0, <3>2
    <3>4. \A k \in first .. final - 1 : Processed(k)
      <4> SUFFICES ASSUME NEW k \in first .. final - 1 PROVE Processed(k)
        OBVIOUS
      <4>1. k \in first .. final /\ k \in Packets /\ k # final  BY <1>0, <2>2
      <4> QED  BY <2>1, <3>3, <4>1, ProcessedNow
    <3>5. Partial(first, final)  BY <2>2 DEF IsMessage, Partial
    <3>6. wire[final].sent <= ReasmSize /\ wire[final].sent >= PldmHeader
      BY <2>2, Sizes DEF PldmHeader
    <3>7. /\ active /\ InOrder /\ Fits /\ assembled = Message(first, final)
          /\ offset + size = wire[final].sent
      BY <2>1, <2>2, <3>1, <3>3, <3>4, <3>5, <3>6, NextHeld
    <3>8. pkt.eom /\ pldm_parse  BY <2>2, <3>3, <3>6, <3>7 DEF pkt, IsMessage, pldm_parse
    <3>9. Complete
      BY <1>2, <3>1, <3>7, <3>8 DEF mctp_process_rx, DropRunt, DropStray, Abandon, AppendFragment
    <3> QED  BY <3>7, <3>8, <3>9 DEF Complete
  <2> QED  BY <2>4, <2>5
<1>3. CASE Restart
  <2>1. UNCHANGED <<wire, delivered>> /\ Packets' = Packets  BY <1>3 DEF Restart, Packets
  <2>2. /\ first \in Packets /\ final \in Packets /\ IsMessage(first, final)
        /\ wire[final].sent \in PldmHeader .. PacketSize /\ \A k \in first .. final : Whole(k)
        /\ (first .. final) \subseteq Packets
    BY <1>0, <2>1 DEF IsMessage, Whole
  <2>3. \A k \in first .. final : Processed(k)  BY <1>3, <2>2, ProcessedThrough
  <2> QED  BY <2>1, <2>2, <2>3 DEF NothingRefused
<1>4. CASE UNCHANGED vars
  <2>1. UNCHANGED <<wire, lost, swept, bmc_rx_queue, delivered>> /\ Packets' = Packets
    BY <1>4 DEF Packets
  <2>2. /\ first \in Packets /\ final \in Packets /\ IsMessage(first, final)
        /\ wire[final].sent \in PldmHeader .. PacketSize
        /\ \A k \in first .. final : Processed(k) /\ Whole(k)
    BY <2>1 DEF IsMessage, Whole, Processed
  <2> QED  BY <2>1, <2>2 DEF NothingRefused
<1> QED  BY <1>1, <1>2, <1>3, <1>4, NextCases

-----------------------------------------------------------------------------
(* Results.                                                                *)

LEMMA MessageStart == Init => MessageInv
<1> SUFFICES ASSUME Init PROVE MessageInv
  OBVIOUS
<1>1. TypeInv  BY TypeStart
<1>2. Packets = {} /\ Len(bmc_rx_queue) = 0 /\ ~s_reasm_active /\ delivered = {}
  BY DEF Init, Packets
<1> QED
  BY <1>1, <1>2 DEF MessageInv, WireInv, QueueInv, AssemblyInv, DeliveredInv, HeldInv,
                    NothingRefused

LEMMA MessageStep == MessageInv /\ [Next]_vars => MessageInv'
<1> SUFFICES ASSUME MessageInv, [Next]_vars PROVE MessageInv'
  OBVIOUS
<1>1. TypeInv' /\ WireInv' /\ QueueInv'  BY TypeStep, WireStep, QueueStep DEF MessageInv
<1>2. HeavyLoss' \/ (AssemblyInv' /\ DeliveredInv')
  <2>1. CASE HeavyLoss
    <3>1. HeavyLoss'  BY <2>1, LossStays DEF MessageInv
    <3> QED  BY <3>1
  <2>2. CASE ~HeavyLoss
    <3>1. TypeInv /\ WireInv /\ QueueInv /\ AssemblyInv /\ DeliveredInv
      BY <2>2 DEF MessageInv
    <3>2. HeavyLoss' \/ AssemblyInv'  BY <2>2, <3>1, AssemblyStep
    <3>3. HeavyLoss' \/ DeliveredInv'  BY <2>2, <3>1, DeliveredStep
    <3> QED  BY <3>2, <3>3
  <2> QED  BY <2>1, <2>2
<1>3. HeldInv' /\ NothingRefused'  BY HeldStep, RefusedStep DEF MessageInv
<1> QED  BY <1>1, <1>2, <1>3 DEF MessageInv

THEOREM MessageInvariance == Spec => []MessageInv
BY MessageStart, MessageStep, PTL DEF Spec

(* What is dispatched is one message of the BMC from its first to its last *)
(* packet, with nothing missing and nothing mixed in, unless more packets  *)
(* in a row were dropped than the two-bit sequence numbers can tell.       *)
THEOREM MessagesIntact == Spec => []Intact
<1>1. MessageInv => Intact  BY DEF MessageInv, DeliveredInv, Intact
<1> QED  BY <1>1, MessageInvariance, PTL

(* Every message that got through the queue without a restart in between   *)
(* is dispatched, whatever was lost, aborted or malformed before it: the   *)
(* reassembly always finds its way back to the next start of a message.    *)
THEOREM MessagesServed == Spec => []NothingRefused
<1>1. MessageInv => NothingRefused  BY DEF MessageInv
<1> QED  BY <1>1, MessageInvariance, PTL
=============================================================================
