--------------------------- MODULE FlashMgrProofs ---------------------------
(***************************************************************************)
(* Proofs about FlashMgr, for every geometry of the chip, every set of     *)
(* images and every depth of the queue, with failing transfers, timeouts   *)
(* and reboots.                                                            *)
(***************************************************************************)
EXTENDS FlashMgr, TLAPS

(* The tuples of unchanged variables stand in every action. *)
USE DEF vars, manager, chip, history

(* The flag is up as long as the task works on an update, the chip does    *)
(* what the command under way needs it to have done.                       *)
FlashInv ==
    /\ FlagAgrees
    /\ pc # "receive" => s_update_active
    /\ NothingIgnored
    /\ startedIdle /\ pc = "loop" => busy = Ready

(* The chip is left alone unless the task waits for it or rests.           *)
LEMMA FlashStep == FlashInv /\ [Next]_vars => FlashInv'
<1> SUFFICES ASSUME FlashInv, [Next]_vars PROVE FlashInv'
  OBVIOUS
<1> USE DEF FlashInv, FlagAgrees, NothingIgnored
<1>1. CASE Send  BY <1>1 DEF Send
<1>2. CASE ChipFinishes  BY <1>2 DEF ChipFinishes
<1>3. CASE handle_update_start  BY <1>3 DEF handle_update_start, Take
<1>4. CASE handle_update_abort  BY <1>4 DEF handle_update_abort, Take
<1>5. CASE IgnoreCommand  BY <1>5 DEF IgnoreCommand, Take
<1>6. CASE NextPage  BY <1>6 DEF NextPage
<1>7. CASE Finish  BY <1>7 DEF Finish
<1>8. CASE write_enable  BY <1>8 DEF write_enable, ChipWriteEnable
<1>9. CASE sector_erase  BY <1>9 DEF sector_erase, ChipStart
<1>10. CASE page_program  BY <1>10 DEF page_program, ChipStart
<1>11. CASE SourceTraps  BY <1>11 DEF SourceTraps, Boot
<1>12. CASE SpiFails \/ Timeout
  <2>1. pc # "receive" /\ Fail /\ UNCHANGED chip  BY <1>12 DEF SpiFails, Timeout
  <2> QED  BY <2>1 DEF Fail
<1>13. CASE PollReady  BY <1>13 DEF PollReady
<1>14. CASE PollBusy \/ PollAgain  BY <1>14 DEF PollBusy, PollAgain
<1>15. CASE UNCHANGED vars  BY <1>15
<1> QED
  BY <1>1, <1>2, <1>3, <1>4, <1>5, <1>6, <1>7, <1>8, <1>9, <1>10, <1>11, <1>12, <1>13, <1>14,
     <1>15 DEF Next, TaskStep

THEOREM FlashInvariance == Spec => []FlashInv
<1>1. Init => FlashInv  BY DEF Init, FlashInv, FlagAgrees, NothingIgnored
<1> QED  BY <1>1, FlashStep, PTL DEF Spec

(* The update flag is up exactly while the update state is not IDLE: the   *)
(* two are written apart and never disagree, through errors and reboots.   *)
THEOREM FlagCorrect == Spec => []FlagAgrees
<1>1. FlashInv => FlagAgrees  BY DEF FlashInv
<1> QED  BY <1>1, FlashInvariance, PTL

(* An update begun on an idle chip has every one of its erase and program  *)
(* commands executed: write enabled and never sent to a busy chip.         *)
THEOREM ChipObeys == Spec => []NothingIgnored
<1>1. FlashInv => NothingIgnored  BY DEF FlashInv
<1> QED  BY <1>1, FlashInvariance, PTL

-----------------------------------------------------------------------------
(* Division and remainders.                                                *)

LEMMA Division ==
    ASSUME NEW a \in Int, NEW n \in Nat \ {0}
    PROVE  /\ a \div n \in Int /\ a % n \in 0 .. n - 1
           /\ a = n * (a \div n) + (a % n)
OBVIOUS

LEMMA Products ==
    ASSUME NEW n \in Nat, NEW i \in Int, NEW j \in Int, i <= j
    PROVE  n * i <= n * j
OBVIOUS

LEMMA Unique ==
    ASSUME NEW a \in Int, NEW n \in Nat \ {0}, NEW q \in Int, NEW r \in 0 .. n - 1,
           a = n * q + r
    PROVE  a \div n = q /\ a % n = r
<1> DEFINE p == a \div n
           s == a % n
<1>1. /\ p \in Int /\ s \in 0 .. n - 1 /\ a = n * p + s  BY Division
<1> HIDE DEF p, s
<1>2. CASE p < q
  <2>1. n * (p + 1) <= n * q  BY <1>1, <1>2, Products
  <2>2. n * (p + 1) = n * p + n  BY <1>1
  <2> QED  BY <1>1, <2>1, <2>2
<1>3. CASE q < p
  <2>1. n * (q + 1) <= n * p  BY <1>1, <1>3, Products
  <2>2. n * (q + 1) = n * q + n  OBVIOUS
  <2> QED  BY <1>1, <2>1, <2>2
<1>4. CASE p = q  BY <1>1, <1>4 DEF p, s
<1> QED  BY <1>1, <1>2, <1>3, <1>4

LEMMA Multiple ==
    ASSUME NEW a \in Int, NEW n \in Nat \ {0}
    PROVE  a % n = 0 <=> \E q \in Int : a = n * q
<1>1. ASSUME a % n = 0 PROVE \E q \in Int : a = n * q
  <2>1. a \div n \in Int /\ a = n * (a \div n) + 0  BY <1>1, Division
  <2>2. a = n * (a \div n)  BY <2>1
  <2> QED  BY <2>1, <2>2
<1>2. ASSUME NEW q \in Int, a = n * q PROVE a % n = 0
  <2>1. a = n * q + 0 /\ 0 \in 0 .. n - 1  BY <1>2
  <2> QED  BY <2>1, Unique
<1> QED  BY <1>1, <1>2

LEMMA SumOfMultiples ==
    ASSUME NEW a \in Int, NEW b \in Int, NEW n \in Nat \ {0}, a % n = 0, b % n = 0
    PROVE  (a + b) % n = 0
<1>1. PICK p \in Int : a = n * p  BY Multiple
<1>2. PICK q \in Int : b = n * q  BY Multiple
<1>3. a + b = n * (p + q)  BY <1>1, <1>2
<1> QED  BY <1>3, Multiple

LEMMA MultipleOfMultiple ==
    ASSUME NEW a \in Int, NEW m \in Nat \ {0}, NEW n \in Nat \ {0}, a % m = 0, m % n = 0
    PROVE  a % n = 0
<1>1. PICK p \in Int : a = m * p  BY Multiple
<1>2. PICK q \in Int : m = n * q  BY Multiple
<1>3. a = n * (q * p)  BY <1>1, <1>2
<1> QED  BY <1>3, Multiple

(* Counting modulo a multiple of n does not change what remains modulo n. *)
LEMMA Modulo ==
    ASSUME NEW a \in Int, NEW m \in Nat \ {0}, NEW n \in Nat \ {0}, m % n = 0
    PROVE  (a % m) % n = a % n
<1> DEFINE q == a \div m
           r == a % m
           u == r \div n
           v == r % n
<1>1. q \in Int /\ r \in Int /\ a = m * q + r  BY Division
<1>2. u \in Int /\ v \in 0 .. n - 1 /\ r = n * u + v  BY <1>1, Division
<1>3. PICK j \in Int : m = n * j  BY Multiple
<1> HIDE DEF q, u, v, r
<1>4. a = n * (j * q + u) + v /\ j * q + u \in Int
  <2>1. m * q = n * (j * q)  BY <1>1, <1>3
  <2>2. n * (j * q + u) = n * (j * q) + n * u  BY <1>1, <1>2
  <2> QED  BY <1>1, <1>2, <2>1, <2>2
<1>5. a % n = v  BY <1>2, <1>4, Unique
<1> QED  BY <1>5 DEF v, r

LEMMA Small ==
    ASSUME NEW n \in Nat \ {0}, NEW a \in 0 .. n - 1
    PROVE  a % n = a
<1>1. a = n * 0 + a  OBVIOUS
<1> QED  BY <1>1, Unique

LEMMA ModuloSum ==
    ASSUME NEW a \in Int, NEW c \in Int, NEW n \in Nat \ {0}
    PROVE  ((a % n) + c) % n = (a + c) % n
<1> DEFINE q == a \div n
           r == a % n
           u == (r + c) \div n
           v == (r + c) % n
<1>1. q \in Int /\ r \in Int /\ a = n * q + r  BY Division
<1>2. u \in Int /\ v \in 0 .. n - 1 /\ r + c = n * u + v  BY <1>1, Division
<1> HIDE DEF q, u, v, r
<1>3. n * q \in Int /\ n * u \in Int /\ n * (q + u) = n * q + n * u  BY <1>1, <1>2
<1>4. a + c = n * (q + u) + v /\ q + u \in Int  BY <1>1, <1>2, <1>3
<1>5. (a + c) % n = v  BY <1>2, <1>4, Unique
<1> QED  BY <1>5 DEF v, r

-----------------------------------------------------------------------------
(* The geometry of the chip.                                               *)

LEMMA Geometry ==
    /\ PageSize \in Nat \ {0} /\ SectorSize \in Nat \ {0} /\ ChipSize \in Nat \ {0}
    /\ AddrSpace \in Nat \ {0}
    /\ SectorSize % PageSize = 0 /\ ChipSize % SectorSize = 0 /\ AddrSpace % ChipSize = 0
    /\ ChipSize <= AddrSpace
    /\ \A o \in Offsets : o \in 0 .. AddrSpace - 1
    /\ \A o \in Sizes : o \in 0 .. AddrSpace - 1
<1>1. PICK q \in Int : AddrSpace = ChipSize * q  BY Multiple, GeometryAssumption
<1>2. q >= 1
  <2>1. CASE q <= 0
    <3>1. ChipSize * q <= ChipSize * 0  BY <2>1, Products, GeometryAssumption
    <3> QED  BY <1>1, <3>1, GeometryAssumption
  <2> QED  BY <2>1
<1>3. ChipSize * 1 <= ChipSize * q  BY <1>2, Products, GeometryAssumption
<1> QED  BY <1>1, <1>3, GeometryAssumption

(* A page lies within one sector. *)
LEMMA PageInSector ==
    ASSUME NEW a \in Int, NEW b \in Int, PageOf(a) = PageOf(b)
    PROVE  SectorOf(a) = SectorOf(b)
<1>0. /\ PageSize \in Nat \ {0} /\ SectorSize \in Nat \ {0} /\ SectorSize % PageSize = 0
      /\ a \div PageSize = b \div PageSize
  BY Geometry DEF PageOf
<1>1. PICK m \in Int : SectorSize = PageSize * m  BY <1>0, Multiple
<1> DEFINE p == a \div PageSize
           q == a \div SectorSize
           r == a % SectorSize
           s == b % PageSize
           t == a % PageSize
<1>2. /\ p \in Int /\ s \in 0 .. PageSize - 1 /\ b = PageSize * p + s
      /\ t \in 0 .. PageSize - 1 /\ a = PageSize * p + t
  BY <1>0, Division
<1>3. q \in Int /\ r \in 0 .. SectorSize - 1 /\ a = SectorSize * q + r  BY <1>0, Division
<1> HIDE DEF p, q, r, s, t
<1>4. SectorSize * q = PageSize * (m * q)  BY <1>0, <1>1, <1>3
<1> DEFINE d == p - m * q
<1>5. d \in Int /\ PageSize * d = PageSize * p - PageSize * (m * q)  BY <1>0, <1>1, <1>2, <1>3
<1> HIDE DEF d
<1>6. r = PageSize * d + t
  <2>1. PageSize * d \in Int /\ PageSize * p \in Int /\ PageSize * (m * q) \in Int
    BY <1>0, <1>1, <1>2, <1>3, <1>5
  <2> QED  BY <1>2, <1>3, <1>4, <1>5, <2>1
<1>7. d >= 0
  <2>1. CASE d <= -1
    <3>1. PageSize * d <= PageSize * (-1)  BY <1>0, <1>5, <2>1, Products
    <3>2. PageSize * (-1) = -PageSize  BY <1>0
    <3>3. PageSize * d \in Int  BY <1>0, <1>5
    <3> QED  BY <1>0, <1>2, <1>3, <1>6, <3>1, <3>2, <3>3
  <2> QED  BY <1>5, <2>1
<1>8. d <= m - 1
  <2>1. CASE d >= m
    <3>1. PageSize * m <= PageSize * d  BY <1>0, <1>1, <1>5, <2>1, Products
    <3>2. PageSize * d \in Int  BY <1>0, <1>5
    <3>3. r \in Int /\ t \in Int /\ r < PageSize * m /\ t >= 0 /\ PageSize * m \in Int
      BY <1>0, <1>1, <1>2, <1>3
    <3> QED  BY <1>6, <3>1, <3>2, <3>3
  <2> QED  BY <1>5, <2>1
<1>9. PageSize * d + s \in 0 .. SectorSize - 1
  <2>1. PageSize * 0 <= PageSize * d /\ PageSize * d <= PageSize * (m - 1)
    BY <1>0, <1>1, <1>5, <1>7, <1>8, Products
  <2>2. PageSize * (m - 1) = SectorSize - PageSize  BY <1>0, <1>1
  <2>3. PageSize * d \in Int  BY <1>0, <1>5
  <2> QED  BY <1>0, <1>2, <2>1, <2>2, <2>3
<1>10. b = SectorSize * q + (PageSize * d + s)  BY <1>0, <1>2, <1>3, <1>4, <1>5
<1>11. b \div SectorSize = q  BY <1>0, <1>3, <1>9, <1>10, Unique
<1> QED  BY <1>11 DEF q, SectorOf

(* An address of the controller and the byte that the chip sees at it. *)
LEMMA ChipAddress ==
    ASSUME NEW a \in Nat
    PROVE  ChipAddr(a) \in Bytes /\ ChipAddr(a % AddrSpace) = ChipAddr(a)
<1>1. ChipSize \in Nat \ {0} /\ AddrSpace \in Nat \ {0} /\ AddrSpace % ChipSize = 0
  BY Geometry
<1>2. a % ChipSize \in 0 .. ChipSize - 1  BY <1>1, Division
<1>3. (a % AddrSpace) % ChipSize = a % ChipSize
  <2>1. a \in Int  OBVIOUS
  <2> HIDE DEF ChipAddr
  <2> QED  BY <1>1, <2>1, Modulo, Zenon
<1> QED  BY <1>2, <1>3 DEF ChipAddr, Bytes

(* Where a page program of the chip writes. *)
LEMMA Positions ==
    ASSUME NEW a \in Nat, NEW k \in Nat
    PROVE  /\ SectorOf(Position(a, k)) = SectorOf(a)
           /\ a % PageSize = 0 /\ k < PageSize => Position(a, k) = a + k
<1>1. PageSize \in Nat \ {0}  BY Geometry
<1> DEFINE p == a \div PageSize
           s == (a + k) % PageSize
           t == a % PageSize
<1>2. p \in Int /\ s \in 0 .. PageSize - 1 /\ t \in 0 .. PageSize - 1 /\ a = PageSize * p + t
  BY <1>1, Division
<1>3. Position(a, k) = PageSize * p + s  BY <1>1, <1>2 DEF Position, PageOf
<1> HIDE DEF p, s, t
<1>4. PageSize * p \in Int  BY <1>1, <1>2
<1>5. Position(a, k) \div PageSize = p  BY <1>1, <1>2, <1>3, <1>4, Unique
<1>6. SectorOf(Position(a, k)) = SectorOf(a)
  BY <1>2, <1>3, <1>4, <1>5, PageInSector DEF PageOf, p
<1>7. ASSUME t = 0, k < PageSize PROVE s = k
  <2>1. a + k = PageSize * p + k  BY <1>2, <1>4, <1>7
  <2>2. a + k \in Int /\ k \in 0 .. PageSize - 1  BY <1>1, <1>7
  <2> QED  BY <1>1, <1>2, <2>1, <2>2, Unique DEF s
<1> QED  BY <1>2, <1>3, <1>4, <1>6, <1>7 DEF t

(* The end of a page is in its sector or at the start of the next one. *)
LEMMA NextInSector ==
    ASSUME NEW a \in Nat, NEW c \in 1 .. PageSize, a % PageSize = 0,
           (a + c) % SectorSize # 0
    PROVE  SectorOf(a + c) = SectorOf(a)
<1>1. PageSize \in Nat \ {0} /\ SectorSize \in Nat \ {0} /\ SectorSize % PageSize = 0
  BY Geometry
<1>2. a + c - 1 \in Int /\ c - 1 \in 0 .. PageSize - 1  BY <1>1
<1>3. SectorOf(a + c - 1) = SectorOf(a)
  <2> DEFINE p == a \div PageSize
             b == a + c - 1
  <2>1. p \in Int /\ a = PageSize * p + 0  BY <1>1, Division
  <2> HIDE DEF p
  <2>2. b = PageSize * p + (c - 1) /\ b \in Int
    BY <1>1, <1>2, <2>1
  <2> HIDE DEF b
  <2>3. b \div PageSize = p  BY <1>1, <1>2, <2>1, <2>2, Unique
  <2>4. SectorOf(b) = SectorOf(a)  BY <2>2, <2>3, PageInSector DEF PageOf, p
  <2> QED  BY <2>4 DEF b
<1> DEFINE q == (a + c - 1) \div SectorSize
           r == (a + c - 1) % SectorSize
<1>4. q \in Int /\ r \in 0 .. SectorSize - 1 /\ a + c - 1 = SectorSize * q + r
  BY <1>1, <1>2, Division
<1>5. SectorSize * q \in Int  BY <1>1, <1>4
<1> HIDE DEF q, r
<1>6. r # SectorSize - 1
  <2>1. CASE r = SectorSize - 1
    <3>1. a + c = SectorSize * q + SectorSize  BY <1>1, <1>4, <1>5, <2>1
    <3>2. a + c = SectorSize * (q + 1) /\ q + 1 \in Int  BY <1>1, <1>4, <3>1
    <3>3. a + c \in Int  BY <1>1
    <3>4. \E j \in Int : a + c = SectorSize * j  BY <3>2
    <3> QED  BY <1>1, <3>3, <3>4, Multiple
  <2> QED  BY <2>1
<1>7. r + 1 \in 0 .. SectorSize - 1 /\ a + c = SectorSize * q + (r + 1)
  BY <1>1, <1>4, <1>5, <1>6
<1>8. (a + c) \div SectorSize = q  BY <1>1, <1>4, <1>7, Unique
<1> QED  BY <1>3, <1>8 DEF q, SectorOf

(* What comes before the start of a sector is in another sector. *)
LEMMA OtherSector ==
    ASSUME NEW a \in Int, NEW b \in Int, a % SectorSize = 0, b < a
    PROVE  SectorOf(b) # SectorOf(a)
<1>1. SectorSize \in Nat \ {0}  BY Geometry
<1> DEFINE q == a \div SectorSize
           u == b \div SectorSize
           v == b % SectorSize
<1>2. /\ q \in Int /\ a = SectorSize * q + 0
      /\ u \in Int /\ v \in 0 .. SectorSize - 1 /\ b = SectorSize * u + v
  BY <1>1, Division
<1> HIDE DEF q, u, v
<1>3. SectorSize * q \in Int /\ SectorSize * u \in Int  BY <1>1, <1>2
<1>4. u # q
  BY <1>2, <1>3
<1> QED  BY <1>4 DEF q, u, SectorOf

-----------------------------------------------------------------------------
(* The command under way: what is written of it, and where the task is.    *)

StartCommands == [type : {"start"}, offset : Offsets, size : Sizes]

written == cmd.size - remaining
cursor  == cmd.offset + written

CommandInv ==
    /\ s_cmd_queue \in Seq(Commands) /\ issued \subseteq StartCommands
    /\ pc # "receive" => /\ cmd \in issued /\ remaining \in 0 .. cmd.size
                         /\ addr = cursor % AddrSpace
    /\ pc \notin {"receive", "loop"} => remaining > 0

LEMMA Started ==
    ASSUME CommandInv, pc # "receive"
    PROVE  /\ cmd \in issued /\ cmd.offset \in Nat /\ cmd.size \in Nat
           /\ cmd.offset < AddrSpace
           /\ remaining \in 0 .. cmd.size /\ written \in Nat /\ cursor \in Nat
           /\ addr = cursor % AddrSpace
           /\ pc # "loop" =>
                /\ remaining > 0 /\ written < cmd.size
                /\ chunk \in 1 .. PageSize /\ chunk <= remaining
                /\ remaining > chunk => chunk = PageSize
<1>1. /\ cmd \in issued /\ cmd \in StartCommands /\ remaining \in 0 .. cmd.size
      /\ addr = cursor % AddrSpace
      /\ pc # "loop" => remaining > 0
  BY DEF CommandInv
<1>2. cmd.offset \in Nat /\ cmd.size \in Nat /\ cmd.offset < AddrSpace
  BY <1>1, Geometry DEF StartCommands
<1>3. written \in Nat /\ cursor \in Nat  BY <1>1, <1>2 DEF written, cursor
<1>4. PageSize \in Nat \ {0}  BY Geometry
<1> QED  BY <1>1, <1>2, <1>3, <1>4 DEF chunk, written

LEMMA CommandStep == CommandInv /\ [Next]_vars => CommandInv'
<1> SUFFICES ASSUME CommandInv, [Next]_vars PROVE CommandInv'
  OBVIOUS
<1>1. CASE Send
  <2>1. s_cmd_queue' \in Seq(Commands)
    <3>1. PICK c \in Commands : s_cmd_queue' = rtos_queue_send(s_cmd_queue, QueueDepth, c)
      BY <1>1 DEF Send
    <3> QED  BY <3>1 DEF CommandInv, rtos_queue_send
  <2>2. UNCHANGED <<manager, pc, history>>  BY <1>1 DEF Send
  <2> QED  BY <2>1, <2>2 DEF CommandInv, cursor, written
<1>2. CASE handle_update_start \/ handle_update_abort \/ IgnoreCommand
  <2>1. /\ pc = "receive" /\ s_cmd_queue # <<>> /\ cmd' = Head(s_cmd_queue)
        /\ s_cmd_queue' = Tail(s_cmd_queue)
    BY <1>2 DEF handle_update_start, handle_update_abort, IgnoreCommand, Take, rtos_queue_receive
  <2>2. s_cmd_queue' \in Seq(Commands) /\ cmd' \in Commands  BY <2>1 DEF CommandInv
  <2>3. CASE handle_update_start
    <3>1. /\ cmd'.type = "start" /\ issued' = issued \cup {cmd'}
          /\ addr' = cmd'.offset /\ remaining' = cmd'.size /\ pc' = "loop"
      BY <2>3 DEF handle_update_start
    <3>2. cmd' \in StartCommands  BY <2>2, <3>1 DEF Commands, StartCommands
    <3>3. /\ cmd'.offset \in 0 .. AddrSpace - 1 /\ cmd'.size \in Nat
          /\ AddrSpace \in Nat \ {0}
      BY <3>2, Geometry DEF StartCommands
    <3>4. remaining' \in 0 .. cmd'.size /\ cursor' = cmd'.offset
      BY <3>1, <3>3 DEF cursor, written
    <3>5. addr' = cursor' % AddrSpace  BY <3>1, <3>3, <3>4, Small
    <3>6. issued' \subseteq StartCommands /\ cmd' \in issued'
      BY <3>1, <3>2 DEF CommandInv
    <3> QED  BY <2>2, <3>1, <3>4, <3>5, <3>6 DEF CommandInv
  <2>4. CASE handle_update_abort \/ IgnoreCommand
    <3>1. pc' = "receive" /\ issued' = issued
      BY <2>1, <2>4 DEF handle_update_abort, IgnoreCommand
    <3> QED  BY <2>2, <3>1 DEF CommandInv
  <2> QED  BY <1>2, <2>3, <2>4
<1>3. CASE Finish \/ SpiFails \/ Timeout \/ SourceTraps
  <2>1. /\ pc' = "receive" /\ issued' = issued
        /\ (s_cmd_queue' = s_cmd_queue \/ s_cmd_queue' = <<>>)
    BY <1>3 DEF Finish, SpiFails, Timeout, Fail, SourceTraps, Boot
  <2>2. s_cmd_queue' \in Seq(Commands)
    <3>1. s_cmd_queue \in Seq(Commands)  BY DEF CommandInv
    <3>2. CASE s_cmd_queue' = <<>>  BY <3>2
    <3> QED  BY <2>1, <3>1, <3>2
  <2> QED  BY <2>1, <2>2 DEF CommandInv
<1>4. CASE PollReady
  <2>1. /\ UNCHANGED <<s_cmd_queue, cmd, issued>> /\ pc \notin {"receive", "loop"}
        /\ pc' \in {"enable_program", "loop"}
    BY <1>4 DEF PollReady
  <2>2. CASE pc = "wait_erase"
    <3>1. UNCHANGED <<addr, remaining>>  BY <1>4, <2>2 DEF PollReady
    <3> QED  BY <2>1, <3>1 DEF CommandInv, cursor, written
  <2>3. CASE pc # "wait_erase"
    <3>1. /\ addr' = (addr + chunk) % AddrSpace /\ remaining' = remaining - chunk
          /\ pc' = "loop"
      BY <1>4, <2>3 DEF PollReady
    <3>2. /\ cmd \in issued /\ cmd.offset \in Nat /\ cmd.size \in Nat
          /\ remaining \in 0 .. cmd.size /\ addr = cursor % AddrSpace
          /\ chunk \in 1 .. PageSize /\ chunk <= remaining /\ cursor \in Nat
      BY <2>1, Started
    <3>3. AddrSpace \in Nat \ {0} /\ PageSize \in Nat \ {0}  BY Geometry
    <3>4. remaining' \in 0 .. cmd'.size /\ cursor' = cursor + chunk
      <4>1. cmd' = cmd /\ remaining \in Int /\ chunk \in Int /\ chunk >= 1
        BY <2>1, <3>2
      <4> HIDE DEF chunk
      <4> QED  BY <3>1, <3>2, <4>1 DEF cursor, written
    <3>5. addr' = cursor' % AddrSpace
      <4>1. cursor \in Int /\ chunk \in Int  BY <3>2
      <4>2. ((cursor % AddrSpace) + chunk) % AddrSpace = (cursor + chunk) % AddrSpace
        BY <3>3, <4>1, ModuloSum
      <4> QED  BY <3>1, <3>2, <3>4, <4>2
    <3> QED  BY <2>1, <3>1, <3>2, <3>4, <3>5 DEF CommandInv
  <2> QED  BY <2>2, <2>3
<1>5. CASE NextPage
  <2>1. /\ pc = "loop" /\ remaining > 0 /\ UNCHANGED <<s_cmd_queue, manager, issued>>
        /\ pc' \in {"enable_erase", "enable_program"}
    BY <1>5 DEF NextPage
  <2> QED  BY <2>1 DEF CommandInv, cursor, written
<1>6. CASE write_enable \/ sector_erase \/ page_program \/ PollBusy \/ PollAgain
  <2>1. /\ UNCHANGED <<s_cmd_queue, manager, issued>>
        /\ pc \notin {"receive", "loop"}
    BY <1>6 DEF write_enable, sector_erase, page_program, PollBusy, PollAgain
  <2> QED  BY <2>1 DEF CommandInv, cursor, written
<1>7. CASE ChipFinishes \/ UNCHANGED vars
  <2>1. UNCHANGED <<s_cmd_queue, manager, pc, issued>>  BY <1>7 DEF ChipFinishes
  <2> QED  BY <2>1 DEF CommandInv, cursor, written
<1> QED
  BY <1>1, <1>2, <1>3, <1>4, <1>5, <1>6, <1>7 DEF Next, TaskStep

-----------------------------------------------------------------------------
(* What the chip works on belongs to a start command.                      *)

CoverInv ==
    /\ busy # Ready => /\ busy.at \in Bytes
                       /\ \E c \in issued : SectorOf(busy.at) \in Covered(c)
    /\ OnlyCoveredChange

(* The task sends the chip to a sector that its command covers. *)
LEMMA SentToCovered ==
    ASSUME CommandInv, pc \notin {"receive", "loop"}
    PROVE  /\ ChipAddr(addr) \in Bytes
           /\ \E c \in issued : SectorOf(ChipAddr(addr)) \in Covered(c)
<1>1. /\ cmd \in issued /\ cmd.size \in Nat /\ cursor \in Nat /\ addr = cursor % AddrSpace
      /\ written \in Nat /\ written < cmd.size
  BY Started
<1>2. ChipAddr(addr) = ChipAddr(cursor) /\ ChipAddr(addr) \in Bytes
  BY <1>1, ChipAddress
<1>3. written \in 0 .. cmd.size - 1  BY <1>1
<1>4. SectorOf(ChipAddr(addr)) \in Covered(cmd)  BY <1>2, <1>3 DEF Covered, cursor
<1> QED  BY <1>1, <1>2, <1>4

(* What the chip does stays within the sector it was sent to. *)
LEMMA ChangeInSector ==
    ASSUME ChipFinishes, busy.at \in Bytes, NEW b \in Bytes, SectorOf(b) # SectorOf(busy.at)
    PROVE  cells'[b] = cells[b]
<1>1. CASE busy.op = "erase"  BY <1>1 DEF ChipFinishes, ErasedCells
<1>2. CASE busy.op # "erase"
  <2>1. cells'[b] = ProgrammedCells(busy)[b]  BY <1>2 DEF ChipFinishes
  <2>2. \A k \in 0 .. busy.len - 1 : Position(busy.at, k) # b
    <3> SUFFICES ASSUME NEW k \in 0 .. busy.len - 1 PROVE Position(busy.at, k) # b
      OBVIOUS
    <3>1. k \in Nat /\ busy.at \in Nat  BY DEF Bytes
    <3> QED  BY <3>1, Positions
  <2> QED  BY <2>1, <2>2 DEF ProgrammedCells
<1> QED  BY <1>1, <1>2

LEMMA CoverStep == CommandInv /\ CoverInv /\ [Next]_vars => CoverInv'
<1> SUFFICES ASSUME CommandInv, CoverInv, [Next]_vars PROVE CoverInv'
  OBVIOUS
<1>0. issued \subseteq issued'
  BY DEF Next, TaskStep, Send, ChipFinishes, handle_update_start, handle_update_abort,
         IgnoreCommand, NextPage, Finish, write_enable, sector_erase, page_program, SourceTraps,
         SpiFails, PollReady, PollBusy, PollAgain, Timeout, Fail
<1>1. CASE ChipFinishes
  <2>1. busy # Ready /\ busy' = Ready /\ issued' = issued  BY <1>1 DEF ChipFinishes
  <2>2. PICK c \in issued : SectorOf(busy.at) \in Covered(c)  BY <2>1 DEF CoverInv
  <2>3. busy.at \in Bytes  BY <2>1 DEF CoverInv
  <2>4. ASSUME NEW b \in Bytes, cells'[b] # Old
        PROVE  \E d \in issued : SectorOf(b) \in Covered(d)
    <3>1. CASE SectorOf(b) = SectorOf(busy.at)  BY <2>2, <3>1
    <3>2. CASE SectorOf(b) # SectorOf(busy.at)
      <4>1. cells[b] # Old  BY <1>1, <2>3, <2>4, <3>2, ChangeInSector
      <4> QED  BY <4>1 DEF CoverInv, OnlyCoveredChange
    <3> QED  BY <3>1, <3>2
  <2> QED  BY <2>1, <2>4 DEF CoverInv, OnlyCoveredChange
<1>2. CASE sector_erase \/ page_program
  <2>1. /\ pc \notin {"receive", "loop"} /\ UNCHANGED <<cells, issued>>
        /\ busy' = busy \/ busy'.at = ChipAddr(addr)
    BY <1>2 DEF sector_erase, page_program, ChipStart
  <2>2. /\ ChipAddr(addr) \in Bytes
        /\ \E c \in issued : SectorOf(ChipAddr(addr)) \in Covered(c)
    BY <2>1, SentToCovered
  <2>3. busy' # Ready => /\ busy'.at \in Bytes
                         /\ \E c \in issued : SectorOf(busy'.at) \in Covered(c)
    BY <2>1, <2>2 DEF CoverInv
  <2> QED  BY <2>1, <2>3 DEF CoverInv, OnlyCoveredChange
<1>3. CASE ~ChipFinishes /\ ~sector_erase /\ ~page_program
  <2>1. UNCHANGED <<cells, busy>>
    BY <1>3 DEF Next, TaskStep, Send, handle_update_start, handle_update_abort,
         IgnoreCommand, Take, NextPage, Finish, write_enable, ChipWriteEnable, SourceTraps,
         SpiFails, PollReady, PollBusy, PollAgain, Timeout, Fail
  <2>2. busy' # Ready => /\ busy'.at \in Bytes
                         /\ \E c \in issued' : SectorOf(busy'.at) \in Covered(c)
    BY <1>0, <2>1 DEF CoverInv
  <2> QED  BY <1>0, <2>1, <2>2 DEF CoverInv, OnlyCoveredChange
<1> QED  BY <1>1, <1>2, <1>3

THEOREM CoverInvariance == Spec => [](CommandInv /\ CoverInv)
<1>1. Init => CommandInv /\ CoverInv
  BY DEF Init, CommandInv, CoverInv, OnlyCoveredChange
<1> QED  BY <1>1, CommandStep, CoverStep, PTL DEF Spec

(* Nothing outside the sectors of the images is ever erased or programmed, *)
(* whatever offset and size a command has: the wrapped-around addresses of *)
(* the controller and of the chip stay in what its sectors cover, and so   *)
(* does an operation that goes on after a timeout or a reboot.             *)
THEOREM CoveredOnly == Spec => []OnlyCoveredChange
<1>1. CommandInv /\ CoverInv => OnlyCoveredChange  BY DEF CoverInv
<1> QED  BY <1>1, CoverInvariance, PTL

-----------------------------------------------------------------------------
(* The image on the chip.                                                  *)

Places == {"receive", "loop", "enable_erase", "erase", "wait_erase", "delay_erase",
           "enable_program", "program", "wait_program", "delay_program"}

Aligned == cmd.offset % SectorSize = 0 /\ cmd.offset + cmd.size <= ChipSize /\ startedIdle

(* From byte a to the end of its sector everything is erased. *)
Clean(a) == \A b \in Bytes : b >= a /\ SectorOf(b) = SectorOf(a) => cells[b] = Erased

(* The operations of the page under way. *)
Erasure     == [op |-> "erase", at |-> cursor]
Programming == [op |-> "program", at |-> cursor, len |-> chunk, image |-> taken,
                first |-> written]

(* What the task counts as written is written, what it is about to write   *)
(* is erased, and the chip works on exactly what the task waits for.       *)
PageInv ==
    /\ \A k \in 0 .. written - 1 : cells[cmd.offset + k] = Byte(taken, k)
    /\ remaining > 0 => written % PageSize = 0
    /\ pc = "loop" /\ cursor % SectorSize # 0 => Clean(cursor)
    /\ pc \in {"enable_erase", "erase", "wait_erase", "delay_erase"} => cursor % SectorSize = 0
    /\ pc \in {"wait_erase", "delay_erase"} =>
        \/ busy = Erasure
        \/ busy = Ready /\ Clean(cursor)
    /\ pc \in {"enable_program", "program"} => Clean(cursor)
    /\ pc \in {"wait_program", "delay_program"} =>
        \/ busy = Programming /\ Clean(cursor)
        \/ /\ busy = Ready
           /\ \A k \in 0 .. chunk - 1 : cells[cursor + k] = Byte(taken, written + k)
           /\ (cursor + chunk) % SectorSize # 0 => Clean(cursor + chunk)

ImageInv ==
    /\ pc \in Places
    /\ reported => pc = "receive" /\ (startedIdle => busy = Ready)
    /\ AlignedImageWritten
    /\ Aligned /\ pc # "receive" => PageInv

(* Where the page under way lies. *)
LEMMA PageUnderWay ==
    ASSUME CommandInv, Aligned, pc # "receive", remaining > 0, written % PageSize = 0
    PROVE  /\ cursor \in Bytes /\ addr = cursor /\ ChipAddr(addr) = cursor
           /\ cursor % PageSize = 0
           /\ chunk \in 1 .. PageSize /\ chunk <= remaining
           /\ \A k \in 0 .. chunk - 1 : /\ cursor + k \in Bytes
                                        /\ SectorOf(cursor + k) = SectorOf(cursor)
                                        /\ Position(cursor, k) = cursor + k
<1>1. /\ PageSize \in Nat \ {0} /\ SectorSize \in Nat \ {0} /\ ChipSize \in Nat \ {0}
      /\ AddrSpace \in Nat \ {0} /\ SectorSize % PageSize = 0 /\ ChipSize <= AddrSpace
  BY Geometry
<1>2. /\ cmd.offset \in Nat /\ cmd.size \in Nat /\ remaining \in 0 .. cmd.size
      /\ written \in Nat /\ cursor \in Nat /\ addr = cursor % AddrSpace
  BY Started
<1>3. chunk \in 1 .. PageSize /\ chunk <= remaining  BY <1>1, <1>2 DEF chunk
<1>4. cursor + remaining <= ChipSize  BY <1>2 DEF Aligned, cursor, written
<1>5. cursor \in Bytes /\ cursor \in 0 .. AddrSpace - 1
  BY <1>1, <1>2, <1>4 DEF Bytes
<1>6. addr = cursor  BY <1>1, <1>2, <1>5, Small
<1>7. ChipAddr(addr) = cursor  BY <1>1, <1>5, <1>6, Small DEF ChipAddr, Bytes
<1>8. cursor % PageSize = 0
  <2>1. cmd.offset \in Int /\ cmd.offset % SectorSize = 0  BY <1>2 DEF Aligned
  <2>2. cmd.offset % PageSize = 0  BY <1>1, <2>1, MultipleOfMultiple
  <2>3. written \in Int  BY <1>2
  <2> QED  BY <1>1, <2>1, <2>2, <2>3, SumOfMultiples DEF cursor
<1>9. ASSUME NEW k \in 0 .. chunk - 1
      PROVE  /\ cursor + k \in Bytes /\ Position(cursor, k) = cursor + k
             /\ SectorOf(cursor + k) = SectorOf(cursor)
  <2>1. k \in Nat /\ k < PageSize /\ k < remaining  BY <1>1, <1>2, <1>3
  <2>2. cursor + k \in Bytes  BY <1>1, <1>2, <1>4, <2>1 DEF Bytes
  <2>3. Position(cursor, k) = cursor + k /\ SectorOf(Position(cursor, k)) = SectorOf(cursor)
    BY <1>2, <1>8, <2>1, Positions
  <2> QED  BY <2>2, <2>3
<1> QED  BY <1>3, <1>5, <1>6, <1>7, <1>8, <1>9

(* What the end of an erase and of a program leave behind. *)
LEMMA Erases ==
    ASSUME CommandInv, Aligned, pc \notin {"receive", "loop"}, written % PageSize = 0,
           cursor % SectorSize = 0, busy = Erasure, ChipFinishes
    PROVE  /\ \A k \in 0 .. written - 1 : cells'[cmd.offset + k] = cells[cmd.offset + k]
           /\ \A b \in Bytes : SectorOf(b) = SectorOf(cursor) => cells'[b] = Erased
<1>1. cells' = ErasedCells(cursor)  BY DEF ChipFinishes, Erasure
<1>2. \A b \in Bytes : SectorOf(b) = SectorOf(cursor) => cells'[b] = Erased
  BY <1>1 DEF ErasedCells
<1>3. ASSUME NEW k \in 0 .. written - 1
      PROVE  cells'[cmd.offset + k] = cells[cmd.offset + k]
  <2>1. cmd.offset \in Nat /\ written \in Nat /\ cursor \in Bytes
    BY Started, PageUnderWay
  <2>2. cmd.offset + k \in Bytes /\ cmd.offset + k < cursor
    BY <2>1, Geometry DEF cursor, Bytes
  <2>3. SectorOf(cmd.offset + k) # SectorOf(cursor)
    BY <2>1, <2>2, OtherSector DEF Bytes
  <2> QED  BY <1>1, <2>2, <2>3 DEF ErasedCells
<1> QED  BY <1>2, <1>3

LEMMA Programs ==
    ASSUME CommandInv, Aligned, pc \notin {"receive", "loop"}, written % PageSize = 0,
           busy = Programming, Clean(cursor), ChipFinishes
    PROVE  /\ \A k \in 0 .. chunk - 1 : cells'[cursor + k] = Byte(taken, written + k)
           /\ \A b \in Bytes : b < cursor \/ b >= cursor + chunk => cells'[b] = cells[b]
<1>1. /\ cursor \in Nat /\ chunk \in 1 .. PageSize /\ PageSize \in Nat
      /\ \A k \in 0 .. chunk - 1 : /\ cursor + k \in Bytes
                                   /\ SectorOf(cursor + k) = SectorOf(cursor)
                                   /\ Position(cursor, k) = cursor + k
  BY Started, PageUnderWay, Geometry
<1>2. /\ busy.op = "program" /\ busy.at = cursor /\ busy.len = chunk /\ busy.image = taken
      /\ busy.first = written
  BY DEF Programming
<1> HIDE DEF chunk
<1>3. cells' = ProgrammedCells(busy)  BY <1>2 DEF ChipFinishes
<1>4. ASSUME NEW k \in 0 .. chunk - 1
      PROVE  cells'[cursor + k] = Byte(taken, written + k)
  <2>1. /\ cursor + k \in Bytes /\ Position(cursor, k) = cursor + k
        /\ SectorOf(cursor + k) = SectorOf(cursor)
    BY <1>1
  <2>2. cells[cursor + k] = Erased  BY <1>1, <2>1 DEF Clean
  <2>3. \A j \in 0 .. chunk - 1 : Position(cursor, j) = cursor + k => j = k  BY <1>1
  <2> DEFINE choice == CHOOSE j \in 0 .. chunk - 1 : Position(cursor, j) = cursor + k
  <2>4. choice = k  BY <2>1, <2>3
  <2> HIDE DEF choice
  <2>5. cells'[cursor + k] = IF cells[cursor + k] = Erased
                             THEN Byte(taken, written + choice) ELSE Mixed
    BY <1>2, <1>3, <2>1 DEF ProgrammedCells, choice
  <2> QED  BY <2>2, <2>4, <2>5
<1>5. ASSUME NEW b \in Bytes, b < cursor \/ b >= cursor + chunk
      PROVE  cells'[b] = cells[b]
  <2>1. \A k \in 0 .. chunk - 1 : Position(cursor, k) # b  BY <1>1, <1>5 DEF Bytes
  <2> QED  BY <1>2, <1>3, <2>1 DEF ProgrammedCells
<1> QED  BY <1>4, <1>5

(* The chip finishes while the task waits, or asleep between two looks. *)
LEMMA FinishStep ==
    ASSUME FlashInv, CommandInv, ImageInv, ChipFinishes
    PROVE  ImageInv'
<1>1. /\ UNCHANGED <<s_cmd_queue, manager, pc, history>> /\ busy # Ready /\ busy' = Ready
  BY DEF ChipFinishes
<1>2. /\ written' = written /\ cursor' = cursor /\ chunk' = chunk /\ (Aligned' <=> Aligned)
  BY <1>1 DEF written, cursor, chunk, Aligned
<1>3. pc' \in Places /\ (reported' => pc' = "receive" /\ (startedIdle' => busy' = Ready))
  BY <1>1 DEF ImageInv
<1>4. AlignedImageWritten'
  BY <1>1 DEF ImageInv, AlignedImageWritten, ImageWritten
<1>5. ASSUME Aligned, pc # "receive" PROVE PageInv'
  <2>1. PageInv /\ startedIdle  BY <1>5 DEF ImageInv, Aligned
  <2>2. pc \in {"wait_erase", "delay_erase", "wait_program", "delay_program"}
    BY <1>1, <1>5, <2>1 DEF FlashInv, NothingIgnored, ImageInv, Places
  <2>3. remaining > 0 /\ written % PageSize = 0  BY <2>1, <2>2 DEF CommandInv, PageInv
  <2>4. /\ cursor \in Bytes /\ cursor % PageSize = 0 /\ chunk \in 1 .. PageSize
        /\ \A k \in 0 .. chunk - 1 : /\ cursor + k \in Bytes
                                     /\ SectorOf(cursor + k) = SectorOf(cursor)
    BY <1>5, <2>3, PageUnderWay
  <2>5. CASE pc \in {"wait_erase", "delay_erase"}
    <3>1. busy = Erasure /\ cursor % SectorSize = 0  BY <1>1, <2>1, <2>5 DEF PageInv
    <3>2. /\ \A k \in 0 .. written - 1 : cells'[cmd.offset + k] = cells[cmd.offset + k]
          /\ \A b \in Bytes : SectorOf(b) = SectorOf(cursor) => cells'[b] = Erased
      BY <1>5, <2>2, <2>3, <3>1, Erases
    <3>3. \A k \in 0 .. written - 1 : cells'[cmd.offset + k] = Byte(taken, k)
      BY <2>1, <3>2 DEF PageInv
    <3>4. Clean(cursor)'  BY <1>2, <3>2 DEF Clean
    <3> QED  BY <1>1, <1>2, <2>3, <2>5, <3>1, <3>3, <3>4 DEF PageInv
  <2>6. CASE pc \in {"wait_program", "delay_program"}
    <3>1. busy = Programming /\ Clean(cursor)  BY <1>1, <2>1, <2>6 DEF PageInv
    <3>2. /\ \A k \in 0 .. chunk - 1 : cells'[cursor + k] = Byte(taken, written + k)
          /\ \A b \in Bytes : b < cursor \/ b >= cursor + chunk => cells'[b] = cells[b]
      BY <1>5, <2>2, <2>3, <3>1, Programs
    <3>3. ASSUME NEW k \in 0 .. written - 1
          PROVE  cells'[cmd.offset + k] = Byte(taken, k)
      <4>1. cmd.offset \in Nat /\ written \in Nat  BY <1>5, Started
      <4>2. cursor = cmd.offset + written /\ cursor \in 0 .. ChipSize - 1 /\ ChipSize \in Nat
        BY <2>4, Geometry DEF cursor, Bytes
      <4>3. cmd.offset + k \in Bytes /\ cmd.offset + k < cursor
        BY <4>1, <4>2 DEF Bytes
      <4> QED  BY <2>1, <3>2, <4>3 DEF PageInv
    <3>4. ASSUME (cursor + chunk) % SectorSize # 0 PROVE Clean(cursor + chunk)'
      <4>1. cursor \in Nat /\ PageSize \in Nat /\ cursor + chunk \in Nat
        BY <2>4, Geometry DEF Bytes
      <4>2. SectorOf(cursor + chunk) = SectorOf(cursor)
        BY <2>4, <3>4, <4>1, NextInSector
      <4>3. ASSUME NEW b \in Bytes, b >= cursor + chunk, SectorOf(b) = SectorOf(cursor + chunk)
            PROVE  cells'[b] = Erased
        <5>1. cells'[b] = cells[b]  BY <3>2, <4>3
        <5>2. b >= cursor  BY <2>4, <4>1, <4>3 DEF Bytes
        <5> QED  BY <3>1, <4>2, <4>3, <5>1, <5>2 DEF Clean
      <4> QED  BY <1>2, <4>3 DEF Clean
    <3> QED  BY <1>1, <1>2, <2>3, <2>6, <3>2, <3>3, <3>4 DEF PageInv
  <2> QED  BY <2>2, <2>5, <2>6
<1> QED  BY <1>1, <1>2, <1>3, <1>4, <1>5 DEF ImageInv

(* A page is written: what remains of the image starts on the next one. *)
LEMMA NextPageStep ==
    ASSUME FlashInv, CommandInv, ImageInv, PollReady, pc # "wait_erase"
    PROVE  ImageInv'
<1>1. /\ pc = "wait_program" /\ busy = Ready /\ pc' = "loop"
      /\ remaining' = remaining - chunk
      /\ UNCHANGED <<s_cmd_queue, s_update_active, s_fw_state, cmd, chip, history>>
  BY DEF PollReady
<1>2. /\ cmd.offset \in Nat /\ cmd.size \in Nat /\ remaining \in 1 .. cmd.size
      /\ written \in Nat /\ cursor \in Nat /\ chunk \in 1 .. PageSize /\ chunk <= remaining
      /\ remaining > chunk => chunk = PageSize
      /\ PageSize \in Nat \ {0}
  BY <1>1, Started, Geometry
<1> HIDE DEF chunk
<1>3. written' = written + chunk /\ cursor' = cursor + chunk
  BY <1>1, <1>2 DEF written, cursor
<1>4. reported = FALSE /\ (Aligned' <=> Aligned)
  BY <1>1 DEF ImageInv, Aligned
<1>5. ASSUME Aligned PROVE PageInv'
  <2>1. PageInv /\ written % PageSize = 0  BY <1>1, <1>2, <1>5 DEF ImageInv, PageInv
  <2>2. /\ \A k \in 0 .. chunk - 1 : cells[cursor + k] = Byte(taken, written + k)
        /\ (cursor + chunk) % SectorSize # 0 => Clean(cursor + chunk)
    <3>1. busy # Programming  BY <1>1 DEF Ready, Programming
    <3> QED  BY <1>1, <2>1, <3>1 DEF PageInv
  <2>3. ASSUME NEW k \in 0 .. written + chunk - 1
        PROVE  cells[cmd.offset + k] = Byte(taken, k)
    <3>1. CASE k < written
      BY <1>2, <2>1, <3>1 DEF PageInv
    <3>2. CASE k >= written
      <4> DEFINE j == k - written
      <4>1. j \in 0 .. chunk - 1 /\ written + j = k /\ cursor + j = cmd.offset + k
        BY <1>2, <2>3, <3>2 DEF cursor
      <4> HIDE DEF j
      <4> QED  BY <2>2, <4>1
    <3> QED  BY <1>2, <3>1, <3>2
  <2>4. ASSUME remaining' > 0 PROVE (written + chunk) % PageSize = 0
    <3>1. chunk = PageSize  BY <1>1, <1>2, <2>4
    <3>2. PageSize = PageSize * 1 /\ PageSize \in Int /\ written \in Int  BY <1>2
    <3>3. \E q \in Int : PageSize = PageSize * q  BY <3>2
    <3>4. PageSize % PageSize = 0  BY <1>2, <3>2, <3>3, Multiple
    <3>5. (written + PageSize) % PageSize = 0  BY <1>2, <2>1, <3>2, <3>4, SumOfMultiples
    <3> QED  BY <3>1, <3>5
  <2>5. Clean(cursor)' <=> Clean(cursor + chunk)  BY <1>1, <1>3 DEF Clean
  <2>6. \A k \in 0 .. written' - 1 : cells'[cmd'.offset + k] = Byte(taken', k)
    <3>1. cells' = cells /\ cmd' = cmd /\ taken' = taken  BY <1>1
    <3> QED  BY <1>2, <1>3, <2>3, <3>1
  <2>7. remaining' > 0 => written' % PageSize = 0  BY <1>3, <2>4
  <2>8. cursor' % SectorSize # 0 => Clean(cursor)'  BY <1>3, <2>2, <2>5
  <2> QED  BY <1>1, <2>6, <2>7, <2>8 DEF PageInv
<1> QED  BY <1>1, <1>4, <1>5 DEF ImageInv, Places, AlignedImageWritten, ImageWritten

LEMMA ImageStep == FlashInv /\ CommandInv /\ ImageInv /\ [Next]_vars => ImageInv'
<1> SUFFICES ASSUME FlashInv, CommandInv, ImageInv, [Next]_vars PROVE ImageInv'
  OBVIOUS
<1>1. CASE Send \/ UNCHANGED vars
  <2>1. UNCHANGED <<manager, pc, chip, history>>  BY <1>1 DEF Send
  <2> QED
    BY <2>1 DEF ImageInv, AlignedImageWritten, ImageWritten, ImageOnChip, PageInv, Aligned,
                Clean, cursor, written, chunk, Erasure, Programming
<1>2. CASE ChipFinishes  BY <1>2, FinishStep
<1>3. CASE handle_update_start
  <2>1. /\ pc' = "loop" /\ reported' = FALSE /\ remaining' = cmd'.size /\ cmd' \in issued'
    BY <1>3 DEF handle_update_start, Take
  <2>2. cmd' \in StartCommands
    <3>1. CommandInv'  BY CommandStep
    <3> QED  BY <2>1, <3>1 DEF CommandInv
  <2>3. cmd'.offset \in Nat /\ cmd'.size \in Nat  BY <2>2, Geometry DEF StartCommands
  <2>4. written' = 0 /\ cursor' = cmd'.offset  BY <2>1, <2>3 DEF written, cursor
  <2>5. 0 % PageSize = 0
    <3>1. PageSize \in Nat \ {0} /\ 0 \in 0 .. PageSize - 1  BY Geometry
    <3> QED  BY <3>1, Small
  <2>6. Aligned' => PageInv'  BY <2>1, <2>4, <2>5 DEF Aligned, PageInv
  <2> QED  BY <2>1, <2>6 DEF ImageInv, Places, AlignedImageWritten, ImageWritten
<1>4. CASE handle_update_abort \/ IgnoreCommand \/ SourceTraps
  <2>1. pc' = "receive" /\ reported' = FALSE
    BY <1>4 DEF handle_update_abort, IgnoreCommand, Take, SourceTraps, Boot
  <2> QED  BY <2>1 DEF ImageInv, Places, AlignedImageWritten, ImageWritten
<1>5. CASE SpiFails \/ Timeout
  <2>1. pc # "receive" /\ pc' = "receive" /\ reported' = reported
    BY <1>5 DEF SpiFails, Timeout, Fail
  <2> QED  BY <2>1 DEF ImageInv, Places, AlignedImageWritten, ImageWritten
<1>6. CASE Finish
  <2>1. /\ pc = "loop" /\ remaining = 0 /\ pc' = "receive"
        /\ UNCHANGED <<cmd, chip, taken, startedIdle>>
    BY <1>6 DEF Finish
  <2>2. startedIdle => busy = Ready  BY <2>1 DEF FlashInv
  <2>3. cmd.offset \in Nat /\ cmd.size \in Nat /\ written = cmd.size /\ ChipSize \in Nat
    BY <2>1, Started, Geometry DEF written
  <2>4. ASSUME Aligned PROVE ImageOnChip
    <3>1. PageInv  BY <2>1, <2>4 DEF ImageInv
    <3> SUFFICES ASSUME NEW k \in 0 .. cmd.size - 1
                 PROVE  /\ cmd.offset + k \in Bytes
                        /\ cells[cmd.offset + k] = Byte(taken, k)
      BY DEF ImageOnChip
    <3>2. cmd.offset + k \in Bytes  BY <2>3, <2>4 DEF Aligned, Bytes
    <3> QED  BY <2>3, <3>1, <3>2 DEF PageInv
  <2>5. ImageOnChip' <=> ImageOnChip  BY <2>1 DEF ImageOnChip
  <2>6. AlignedImageWritten'
    BY <2>1, <2>4, <2>5 DEF AlignedImageWritten, ImageWritten, Aligned
  <2> QED  BY <2>1, <2>2, <2>6 DEF ImageInv, Places
<1>7. CASE PollReady
  <2>1. CASE pc # "wait_erase"  BY <1>7, <2>1, NextPageStep
  <2>2. CASE pc = "wait_erase"
    <3>1. /\ busy = Ready /\ pc' = "enable_program"
          /\ UNCHANGED <<cmd, addr, remaining, chip, history>>
      BY <1>7, <2>2 DEF PollReady
    <3>2. reported = FALSE /\ (Aligned' <=> Aligned)  BY <2>2, <3>1 DEF ImageInv, Aligned
    <3>3. written' = written /\ cursor' = cursor  BY <3>1 DEF written, cursor
    <3>4. ASSUME Aligned PROVE PageInv'
      <4>1. PageInv  BY <2>2, <3>4 DEF ImageInv
      <4>2. busy # Erasure  BY <3>1 DEF Ready, Erasure
      <4>3. Clean(cursor)'  BY <2>2, <3>1, <3>3, <4>1, <4>2 DEF PageInv, Clean
      <4> QED  BY <3>1, <3>3, <4>1, <4>3 DEF PageInv
    <3> QED  BY <3>1, <3>2, <3>4 DEF ImageInv, Places, AlignedImageWritten, ImageWritten
  <2> QED  BY <2>1, <2>2
<1>8. CASE NextPage \/ write_enable \/ sector_erase \/ page_program \/ PollBusy \/ PollAgain
  <2>1. /\ pc # "receive" /\ pc' # "receive" /\ pc' \in Places
        /\ UNCHANGED <<manager, cells, history>>
    BY <1>8 DEF NextPage, write_enable, ChipWriteEnable, sector_erase, page_program, ChipStart,
                PollBusy, PollAgain, Places
  <2>2. reported = FALSE /\ (Aligned' <=> Aligned)  BY <2>1 DEF ImageInv, Aligned
  <2>3. written' = written /\ cursor' = cursor /\ chunk' = chunk
    BY <2>1 DEF written, cursor, chunk
  <2>4. ASSUME Aligned PROVE PageInv'
    <3>1. PageInv /\ startedIdle  BY <2>1, <2>4 DEF ImageInv, Aligned
    <3>2. remaining > 0
      BY <1>8 DEF CommandInv, NextPage, write_enable, sector_erase, page_program, PollBusy,
                  PollAgain
    <3>3. /\ addr = cursor /\ ChipAddr(addr) = cursor /\ written % PageSize = 0
      BY <2>1, <2>4, <3>1, <3>2, PageUnderWay DEF PageInv
    <3>4. /\ \A k \in 0 .. written' - 1 : cells'[cmd'.offset + k] = Byte(taken', k)
          /\ (Clean(cursor)' <=> Clean(cursor))
      BY <2>1, <2>3, <3>1 DEF PageInv, Clean
    <3>5. CASE NextPage
      <4>1. /\ pc = "loop"
            /\ pc' = IF addr % SectorSize = 0 THEN "enable_erase" ELSE "enable_program"
        BY <3>5 DEF NextPage
      <4> QED  BY <2>1, <2>3, <3>1, <3>3, <3>4, <4>1 DEF PageInv
    <3>6. CASE write_enable
      <4>1. /\ pc \in {"enable_erase", "enable_program"}
            /\ pc' = IF pc = "enable_erase" THEN "erase" ELSE "program"
        BY <3>6 DEF write_enable
      <4> QED  BY <2>1, <2>3, <3>1, <3>3, <3>4, <4>1 DEF PageInv
    <3>7. CASE sector_erase
      <4>1. pc = "erase" /\ pc' = "wait_erase" /\ busy' = Erasure
        BY <3>1, <3>3, <3>7 DEF sector_erase, ChipStart, FlashInv, NothingIgnored, Erasure
      <4>2. Erasure' = Erasure  BY <2>3 DEF Erasure
      <4> QED  BY <2>1, <2>3, <3>1, <3>3, <3>4, <4>1, <4>2 DEF PageInv
    <3>8. CASE page_program
      <4>1. pc = "program" /\ pc' = "wait_program" /\ busy' = Programming
        BY <3>1, <3>3, <3>8
           DEF page_program, ChipStart, FlashInv, NothingIgnored, Programming, written
      <4>2. Programming' = Programming  BY <2>1, <2>3 DEF Programming
      <4> QED  BY <2>1, <2>3, <3>1, <3>3, <3>4, <4>1, <4>2 DEF PageInv
    <3>9. CASE PollBusy \/ PollAgain
      <4>1. \/ /\ pc' \in {"wait_erase", "delay_erase"}
               /\ pc \in {"wait_erase", "delay_erase"}
            \/ /\ pc' \in {"wait_program", "delay_program"}
               /\ pc \in {"wait_program", "delay_program"}
        BY <3>9 DEF PollBusy, PollAgain
      <4>2. busy' = busy  BY <3>9 DEF PollBusy, PollAgain
      <4>3. /\ Erasure' = Erasure /\ Programming' = Programming
            /\ (Clean(cursor + chunk)' <=> Clean(cursor + chunk))
        BY <2>1, <2>3 DEF Erasure, Programming, Clean
      <4> QED  BY <2>1, <2>3, <3>1, <3>3, <3>4, <4>1, <4>2, <4>3 DEF PageInv
    <3> QED  BY <1>8, <3>5, <3>6, <3>7, <3>8, <3>9
  <2> QED  BY <2>1, <2>2, <2>4 DEF ImageInv, AlignedImageWritten, ImageWritten
<1> QED
  BY <1>1, <1>2, <1>3, <1>4, <1>5, <1>6, <1>7, <1>8 DEF Next, TaskStep

THEOREM ImageInvariance == Spec => [](FlashInv /\ CommandInv /\ ImageInv)
<1>1. Init => FlashInv /\ CommandInv /\ ImageInv
  BY DEF Init, FlashInv, FlagAgrees, NothingIgnored, CommandInv, ImageInv, Places,
         AlignedImageWritten, ImageWritten
<1> QED  BY <1>1, FlashStep, CommandStep, ImageStep, PTL DEF Spec

(* An update that starts on an idle chip, at the start of a sector and     *)
(* with an image that ends within the chip, and that returns without an    *)
(* error, has left every byte of its image where it was told to: no page   *)
(* is skipped, programmed twice, programmed before its erase, or erased    *)
(* afterwards.                                                             *)
THEOREM ImageCorrect == Spec => []AlignedImageWritten
<1>1. ImageInv => AlignedImageWritten  BY DEF ImageInv
<1> QED  BY <1>1, ImageInvariance, PTL

-----------------------------------------------------------------------------
(* The safety part of ImplementsFlashTask: whatever the chip and the SPI   *)
(* bus do, the component that sends the commands sees a queue and a task   *)
(* that begins them one at a time and in order.                            *)
THEOREM TaskRefinement == Spec => Task!FlashInit /\ [][Task!FlashNext]_Task!flashVars
<1>1. Init => Task!FlashInit  BY DEF Init, Task!FlashInit
<1>2. [Next]_vars => [Task!FlashNext]_Task!flashVars
  <2> SUFFICES ASSUME [Next]_vars
               PROVE  Task!FlashNext \/ UNCHANGED <<s_cmd_queue, pc # "receive">>
    BY DEF Task!flashVars
  <2>1. CASE Send
    <3>1. PICK c \in Commands : s_cmd_queue' = rtos_queue_send(s_cmd_queue, QueueDepth, c)
      BY <2>1 DEF Send
    <3>2. Task!Send(c)
      BY <2>1, <3>1 DEF Send, Task!Send, HasRoom, Task!HasRoom, rtos_queue_send, Task!rtos_queue_send
    <3> QED  BY <3>2 DEF Task!FlashNext
  <2>2. CASE handle_update_start \/ handle_update_abort \/ IgnoreCommand
    <3>1. /\ pc = "receive" /\ s_cmd_queue # <<>>
          /\ s_cmd_queue' = rtos_queue_receive(s_cmd_queue)
      BY <2>2 DEF handle_update_start, handle_update_abort, IgnoreCommand, Take
    <3>2. Task!Take  BY <3>1 DEF Task!Take, rtos_queue_receive, Task!rtos_queue_receive
    <3> QED  BY <3>2 DEF Task!FlashNext
  <2>3. CASE Finish \/ SpiFails \/ Timeout
    <3>1. pc # "receive" /\ pc' = "receive" /\ UNCHANGED s_cmd_queue
      BY <2>3 DEF Finish, SpiFails, Timeout, Fail
    <3> QED  BY <3>1 DEF Task!FlashNext, Task!End
  <2>4. CASE SourceTraps
    <3>1. pc # "receive" /\ pc' = "receive" /\ s_cmd_queue' = <<>>
      BY <2>4 DEF SourceTraps, Boot
    <3> QED  BY <3>1 DEF Task!FlashNext, Task!Restart
  <2>5. CASE ChipFinishes \/ NextPage \/ write_enable \/ sector_erase \/ page_program
    BY <2>5 DEF ChipFinishes, NextPage, write_enable, sector_erase, page_program
  <2>6. CASE PollReady \/ PollBusy \/ PollAgain
    BY <2>6 DEF PollReady, PollBusy, PollAgain
  <2>7. CASE UNCHANGED vars  BY <2>7
  <2> QED  BY <2>1, <2>2, <2>3, <2>4, <2>5, <2>6, <2>7 DEF Next, TaskStep
<1> QED  BY <1>1, <1>2, PTL DEF Spec
=============================================================================
