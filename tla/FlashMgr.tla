------------------------------ MODULE FlashMgr ------------------------------
(***************************************************************************)
(* The NIC flash manager (components/nic_flash_mgr and spi_flash_cmd): its *)
(* command queue, the task that erases and programs the staging area page  *)
(* by page, the status polling, and the JEDEC flash chip at the other end  *)
(* of the SPI bus.  The chip is not part of the program: it keeps working  *)
(* when the controller gives up waiting or reboots.                        *)
(***************************************************************************)
EXTENDS Integers, RtosHal

CONSTANTS
    QueueDepth,     \* QUEUE_DEPTH_FLASH
    PageSize,       \* FLASH_PAGE_SIZE
    SectorSize,     \* FLASH_SECTOR_SIZE
    ChipSize,       \* bytes a 24-bit address reaches
    AddrSpace,      \* 2^32: image_offset and addr are uint32_t
    Offsets, Sizes, \* image_offset and image_size of the commands sent
    MaxCommands,    \* bound on the commands taken from the queue
    MaySpiFail,     \* an SPI transfer may fail
    MayTimeout      \* wait_ready may run out of time

ASSUME GeometryAssumption ==
    /\ QueueDepth \in Nat \ {0} /\ MaxCommands \in Nat
    /\ PageSize \in Nat \ {0} /\ SectorSize \in Nat \ {0} /\ SectorSize % PageSize = 0
    /\ ChipSize \in Nat \ {0} /\ ChipSize % SectorSize = 0
    /\ AddrSpace \in Nat \ {0} /\ AddrSpace % ChipSize = 0
    /\ Offsets \subseteq 0 .. AddrSpace - 1 /\ Sizes \subseteq 0 .. AddrSpace - 1
ASSUME FaultAssumption == MaySpiFail \in BOOLEAN /\ MayTimeout \in BOOLEAN

VARIABLES
    s_cmd_queue,                    \* Seq of flash_cmd_t
    s_update_active, s_fw_state,
    pc,                             \* where the task is
    cmd, addr, remaining,           \* the command, write_image_to_staging's locals
    cells, wel, busy,               \* the chip: bytes, write enable latch, operation
    taken,                          \* history: commands taken, numbers the images
    issued,                         \* history: the start commands taken
    startedIdle,                    \* history: the chip was idle when cmd was taken
    reported                        \* history: cmd was an update that returned OK

manager == <<s_update_active, s_fw_state, cmd, addr, remaining>>
chip    == <<cells, wel, busy>>
history == <<taken, issued, startedIdle, reported>>
vars == <<s_cmd_queue, manager, pc, chip, history>>

-----------------------------------------------------------------------------
(* The chip.  A byte is old, erased, byte k of image n, or the AND of two  *)
(* programmings, which is neither.                                         *)

Bytes  == 0 .. ChipSize - 1
Old    == <<0, 0>>
Erased == <<0, 1>>
Mixed  == <<0, 2>>
Byte(n, k) == <<n, k + 3>>

Ready == [op |-> "none"]

SectorOf(a) == a \div SectorSize
PageOf(a)   == a \div PageSize

(* The chip sees the low 24 bits of an address. *)
ChipAddr(a) == a % ChipSize

(* A command is executed only by an idle chip, a change only if enabled. *)
ChipWriteEnable == /\ wel' = (wel \/ busy = Ready)
                   /\ UNCHANGED <<cells, busy>>

ChipStart(operation) == /\ busy' = IF busy = Ready /\ wel THEN operation ELSE busy
                        /\ UNCHANGED <<cells, wel>>

(* Within a page the address wraps around to the start of the page. *)
Position(a, k) == PageOf(a) * PageSize + ((a + k) % PageSize)

(* Mutant: the opcode of a larger block erase is sent. *)
ErasedCells_Block(a) ==
    [b \in Bytes |-> IF SectorOf(b) \div 2 = SectorOf(a) \div 2 THEN Erased ELSE cells[b]]

ErasedCells(a) == [b \in Bytes |-> IF SectorOf(b) = SectorOf(a) THEN Erased ELSE cells[b]]

ProgrammedCells(op) ==
    [b \in Bytes |->
        IF \E k \in 0 .. op.len - 1 : Position(op.at, k) = b
        THEN LET k == CHOOSE k \in 0 .. op.len - 1 : Position(op.at, k) = b
             IN  IF cells[b] = Erased THEN Byte(op.image, op.first + k) ELSE Mixed
        ELSE cells[b]]

ChipFinishes ==
    /\ busy # Ready
    /\ cells' = IF busy.op = "erase" THEN ErasedCells(busy.at) ELSE ProgrammedCells(busy)
    /\ busy' = Ready /\ wel' = FALSE
    /\ UNCHANGED <<s_cmd_queue, manager, pc, history>>

-----------------------------------------------------------------------------
NoCommand == [type |-> "none", offset |-> 0, size |-> 0]

Boot == /\ s_cmd_queue' = <<>> /\ s_update_active' = FALSE /\ s_fw_state' = "IDLE"
        /\ pc' = "receive" /\ cmd' = NoCommand /\ addr' = 0 /\ remaining' = 0

Init == /\ s_cmd_queue = <<>> /\ s_update_active = FALSE /\ s_fw_state = "IDLE"
        /\ pc = "receive" /\ cmd = NoCommand /\ addr = 0 /\ remaining = 0
        /\ cells = [b \in Bytes |-> Old] /\ wel = FALSE /\ busy = Ready
        /\ taken = 0 /\ issued = {} /\ startedIdle = TRUE /\ reported = FALSE

(* "verify" stands for VERIFY, ACTIVATE and any type the task ignores. *)
Commands == [type : {"start"}, offset : Offsets, size : Sizes]
            \cup [type : {"abort", "verify"}, offset : {0}, size : {0}]

(* flash_cmd_queue_send without waiting; a full queue refuses. *)
Send ==
    /\ HasRoom(s_cmd_queue, QueueDepth) /\ taken + Len(s_cmd_queue) < MaxCommands
    /\ \E c \in Commands : s_cmd_queue' = rtos_queue_send(s_cmd_queue, QueueDepth, c)
    /\ UNCHANGED <<manager, pc, chip, history>>

Take == /\ pc = "receive" /\ s_cmd_queue # <<>>
        /\ cmd' = Head(s_cmd_queue) /\ s_cmd_queue' = rtos_queue_receive(s_cmd_queue)
        /\ taken' = taken + 1 /\ startedIdle' = (busy = Ready) /\ reported' = FALSE
        /\ UNCHANGED chip

handle_update_start ==
    /\ Take /\ cmd'.type = "start"
    /\ s_fw_state' = "RECEIVING" /\ s_update_active' = TRUE
    /\ addr' = cmd'.offset /\ remaining' = cmd'.size
    /\ issued' = issued \cup {cmd'}
    /\ pc' = "loop"

(* Mutant: the abort resets the state and forgets the flag. *)
handle_update_abort_KeepsFlag ==
    /\ Take /\ cmd'.type = "abort"
    /\ s_fw_state' = "IDLE"
    /\ UNCHANGED <<s_update_active, addr, remaining, issued, pc>>

handle_update_abort ==
    /\ Take /\ cmd'.type = "abort"
    /\ s_fw_state' = "IDLE" /\ s_update_active' = FALSE
    /\ UNCHANGED <<addr, remaining, issued, pc>>

IgnoreCommand ==
    /\ Take /\ cmd'.type = "verify"
    /\ UNCHANGED <<s_fw_state, s_update_active, addr, remaining, issued, pc>>

-----------------------------------------------------------------------------
(* write_image_to_staging.                                                 *)

(* Mutant: the sector is erased at every page. *)
NextPage_ErasesPages ==
    /\ pc = "loop" /\ remaining > 0
    /\ pc' = IF addr % PageSize = 0 THEN "enable_erase" ELSE "enable_program"
    /\ UNCHANGED <<s_cmd_queue, manager, chip, history>>

NextPage ==
    /\ pc = "loop" /\ remaining > 0
    /\ pc' = IF addr % SectorSize = 0 THEN "enable_erase" ELSE "enable_program"
    /\ UNCHANGED <<s_cmd_queue, manager, chip, history>>

(* The image is written: VERIFYING and IDLE, seen by nobody in between. *)
Finish ==
    /\ pc = "loop" /\ remaining = 0 /\ pc' = "receive"
    /\ s_fw_state' = "IDLE" /\ s_update_active' = FALSE /\ reported' = TRUE
    /\ UNCHANGED <<s_cmd_queue, cmd, addr, remaining, chip, taken, issued, startedIdle>>

(* Any error return: the update stays marked active. *)
Fail ==
    /\ s_fw_state' = "ERROR" /\ pc' = "receive"
    /\ UNCHANGED <<s_cmd_queue, s_update_active, cmd, addr, remaining, history>>

write_enable ==
    /\ pc \in {"enable_erase", "enable_program"}
    /\ pc' = IF pc = "enable_erase" THEN "erase" ELSE "program"
    /\ ChipWriteEnable
    /\ UNCHANGED <<s_cmd_queue, manager, history>>

sector_erase ==
    /\ pc = "erase" /\ pc' = "wait_erase"
    /\ ChipStart([op |-> "erase", at |-> ChipAddr(addr)])
    /\ UNCHANGED <<s_cmd_queue, manager, history>>

chunk == IF remaining > PageSize THEN PageSize ELSE remaining

page_program ==
    /\ pc = "program" /\ pc' = "wait_program"
    /\ ChipStart([op |-> "program", at |-> ChipAddr(addr), len |-> chunk,
                  image |-> taken, first |-> cmd.size - remaining])
    /\ UNCHANGED <<s_cmd_queue, manager, history>>

(* The data pointer starts at NULL: the copy out of it, undefined in C,    *)
(* yields some bytes (the image of page_program) or traps and reboots.     *)
SourceTraps ==
    /\ pc = "program"
    /\ Boot /\ reported' = FALSE
    /\ UNCHANGED <<chip, taken, issued, startedIdle>>

SpiFails ==
    /\ MaySpiFail
    /\ pc \in {"enable_erase", "enable_program", "erase", "program", "wait_erase", "wait_program"}
    /\ Fail /\ UNCHANGED chip

(* Mutants: the busy bit is not looked at; the page just written is not    *)
(* taken off what remains.                                                 *)
PollReady_Blind ==
    /\ pc \in {"wait_erase", "wait_program"}
    /\ IF pc = "wait_erase"
       THEN pc' = "enable_program" /\ UNCHANGED <<addr, remaining>>
       ELSE /\ pc' = "loop"
            /\ addr' = (addr + chunk) % AddrSpace
            /\ remaining' = remaining - chunk
    /\ UNCHANGED <<s_cmd_queue, s_update_active, s_fw_state, cmd, chip, history>>

PollReady_SamePage ==
    /\ pc \in {"wait_erase", "wait_program"} /\ busy = Ready
    /\ pc' = IF pc = "wait_erase" THEN "enable_program" ELSE "loop"
    /\ UNCHANGED <<s_cmd_queue, manager, chip, history>>

(* spi_flash_cmd_wait_ready: one status read. *)
PollReady ==
    /\ pc \in {"wait_erase", "wait_program"} /\ busy = Ready
    /\ IF pc = "wait_erase"
       THEN pc' = "enable_program" /\ UNCHANGED <<addr, remaining>>
       ELSE /\ pc' = "loop"
            /\ addr' = (addr + chunk) % AddrSpace
            /\ remaining' = remaining - chunk
    /\ UNCHANGED <<s_cmd_queue, s_update_active, s_fw_state, cmd, chip, history>>

PollBusy ==
    /\ pc \in {"wait_erase", "wait_program"} /\ busy # Ready
    /\ pc' = IF pc = "wait_erase" THEN "delay_erase" ELSE "delay_program"
    /\ UNCHANGED <<s_cmd_queue, manager, chip, history>>

(* After the delay, however long preemption made it. *)
PollAgain ==
    /\ pc \in {"delay_erase", "delay_program"}
    /\ pc' = IF pc = "delay_erase" THEN "wait_erase" ELSE "wait_program"
    /\ UNCHANGED <<s_cmd_queue, manager, chip, history>>

(* The deadline has passed; the status is not read once more. *)
Timeout ==
    /\ MayTimeout /\ pc \in {"delay_erase", "delay_program"}
    /\ Fail /\ UNCHANGED chip

TaskStep == \/ handle_update_start \/ handle_update_abort \/ IgnoreCommand
            \/ NextPage \/ Finish \/ write_enable \/ sector_erase \/ page_program
            \/ SourceTraps \/ SpiFails \/ PollReady \/ PollBusy \/ PollAgain \/ Timeout

Next == Send \/ ChipFinishes \/ TaskStep

Spec == Init /\ [][Next]_vars

(* The chip completes what it began; the task, of the lowest priority, is  *)
(* scheduled since every other task blocks between its bursts of work.     *)
FairSpec == Spec /\ WF_vars(ChipFinishes) /\ WF_vars(TaskStep)

-----------------------------------------------------------------------------
(* Properties.                                                             *)

(* The sectors a start command covers, as the chip sees its addresses. *)
Covered(c) == {SectorOf(ChipAddr(c.offset + k)) : k \in 0 .. c.size - 1}

(* The image of the current command is on the chip, byte by byte. *)
ImageOnChip ==
    \A k \in 0 .. cmd.size - 1 : /\ cmd.offset + k \in Bytes
                                 /\ cells[cmd.offset + k] = Byte(taken, k)

(* An update that ends without error has written the image where it was    *)
(* told to.                                                                *)
ImageWritten == reported => ImageOnChip

(* ... for a sector-aligned offset, an image that ends within the chip,    *)
(* and a chip that was idle when the command was taken.                    *)
AlignedImageWritten ==
    /\ cmd.offset % SectorSize = 0 /\ cmd.offset + cmd.size <= ChipSize /\ startedIdle
    => ImageWritten

(* No byte outside the sectors of the start commands ever changes, through *)
(* address wrap-around, failures, timeouts and reboots.                    *)
OnlyCoveredChange ==
    \A b \in Bytes : cells[b] # Old => \E c \in issued : SectorOf(b) \in Covered(c)

(* A command sent on an idle chip never finds it busy, and erasing and     *)
(* programming never find it write protected: the chip ignores nothing.    *)
NothingIgnored ==
    startedIdle =>
        /\ pc \in {"enable_erase", "enable_program", "erase", "program"} => busy = Ready
        /\ pc \in {"erase", "program"} => wel

(* The update flag is up exactly while the update state is not IDLE. *)
FlagAgrees == s_update_active <=> s_fw_state # "IDLE"

(* For the component that sends the commands, the whole manager with its   *)
(* chip is the queue and the task of module FlashTask: it begins commands  *)
(* one at a time and in order, it comes back from every one of them, with  *)
(* success, with an error or through a reboot, and takes the next.         *)
Task == INSTANCE FlashTask WITH Depth <- QueueDepth, queue <- s_cmd_queue,
                                working <- pc # "receive"

ImplementsFlashTask == Task!Spec
=============================================================================
