# Formal model of the NIC out-of-band firmware

TLA+ modules, model-checking runs and machine-checked proofs for the firmware
in this repository: the controller of a network card that answers PLDM requests
of the host's BMC over MCTP/SMBus, polls temperature sensors, logs events and
writes firmware images to a SPI flash.

Every module is translated from the C code; line numbers of each definition are
in `PROJECT.json` under `map`. Run everything from this directory:

    tlc -config SensorMgr_cache.cfg MCSensorMgr.tla     # any run of PROJECT.json
    tlapm SensorMgrProofs.tla                           # the proofs

## 1. Inventory

| part | state it keeps | operations | module |
|---|---|---|---|
| Periodic sensor manager (`sensor_mgr.c`) | `s_cache`, `s_cache_mutex`, `s_poll_trigger`, `s_poll_timer` | poll loop of the task, timer callback, `get_cached`, `get_cache_snapshot` | `SensorMgr` |
| Sensor driver and protocol (`sensor_hal.c`, `sensor_protocol.c`) | the I2C driver | reading a sample in two bytes; initialization | `SensorMgr`, `Boot` |
| MCTP/PLDM (`mctp.c`, `pldm.c`, `protocol_hdlr.c`) | reassembly buffer, offset, expected number, active flag | `mctp_process_rx`, `mctp_reset`, `pldm_parse`; building, framing and sending a response | `MctpRx`, `Firmware` |
| ISR handlers (`isr_handlers.c`) | copies of the queue handles | `bmc_i2c_rx_isr`, `nic_alert_isr`, their registration | `MctpRx`, `BmcMgr`, `Boot` |
| BMC manager (`bmc_mgr.c`) | event group, `s_last_bmc_seen_ms`, three queue handles | wait, drain requests, dispatch, respond, drain events, liveness check | `BmcMgr`, `Firmware` |
| NIC general manager (`nic_gen_mgr.c`) | `s_sel_log`, `s_sel_head`, `s_sel_count` | `log_sel_event` and its callers, initialization; FRU and version getters, stubs | `SelLog` |
| NIC flash manager (`nic_flash_mgr.c`, `spi_flash_cmd.c`) | command queue, `s_update_active`, `s_fw_state` | update start (page loop), abort, ignored commands | `FlashMgr`, `FlashTask` |
| System start (`main.c` and every `*_init`) | which queues, drivers, services, interrupts and tasks exist | `app_main` and the init functions, call by call | `Boot` |
| RTOS abstraction (`rtos_hal.c`) | FreeRTOS objects | queues, event wait; mutex, timer and ticks inside their user | `RtosHal`, `SensorMgr` |
| BMC and NIC drivers (`bmc_hal.c`, `nic_chip_hal.c`) | driver handles | initialization, transfers that may fail | `Boot`, inside their users |

How they interact. Interrupts post to two queues of the BMC manager and never
wait. The BMC manager's task (highest priority) polls both queues, calls the
protocol code and the NIC general manager as functions, reads the sensor cache
under a mutex, and posts firmware updates to a queue of the flash manager
(lowest priority). The timer daemon talks to the sensor task through one
volatile flag. ESP32 has two cores and the tasks are pinned to neither, so
every two of these run at the same time. An image is read through a pointer that
is NULL: where the read traps, the whole controller starts anew while the chip
and the BMC go on.

What is hard here, and what should be right about it:

- *Sensor manager*: records written field by field and copied word by word on
  two cores; a flag set, tested and cleared by different threads; two bytes put
  together to a signed sample, C division and narrowing in front of an alarm
  decision. Records are never torn, alarms match samples, no trigger is lost,
  everyone who asks is answered.
- *Receive path*: packets lost at a full queue, a two-bit sequence number,
  messages begun without the last one being ended, a restart in the middle of
  one. What is dispatched is exactly one message, and what was received
  completely is dispatched.
- *BMC manager*: full queues, failing transmissions, events during drains, a
  tick counter that wraps, restarts. Answers are in order and truthful, accepted
  alerts are logged once, accepted updates are begun once and in order, the
  silence check is exact, the queues get drained.
- *Event log*: a circular buffer with two counters that must agree.
- *Flash manager*: the chip works on by itself, through timeouts and reboots of
  the controller. An image reported as written is there; nothing else changed.
- *Whole firmware*: a request is a message that exists as a whole or not at
  all, and what the BMC hears of it is what became of it.
- *Start*: interrupts and early tasks overlap with the rest of the start, and
  the results of some calls are ignored. Nothing runs before what it needs,
  nothing queued meanwhile is stranded.

`PROJECT.json` lists the hazards one by one with their lines and the
properties aimed at each.

## 2. Modules

    RtosHal ----+-- FlashTask --+-- RequestServer      (abstract)
                |               |         ^ refined by
                +-- FlashMgr ---^         |
                +-- MctpRx ---------- Firmware
                +-- BmcMgr -- SelLog --> EventLog      SensorMgr --> SensorCache
                                                       Boot

**RtosHal** has the queue operations of `rtos_hal.c` and the event wait, as what
they leave behind; every module with a queue uses them.

**SensorCache** is the promise of the sensor manager: a table whose records
change one whole record at a time and are read at one instant, each record being
the calibrated image of one sample. The calibration is stated by inequalities
and the alarm on the raw sample, so it is independent of the C arithmetic.

**SensorMgr** is `sensor_mgr.c` with one action per access to shared memory:
`TestTrigger` and `ClearTrigger` are lines 169 and 170, `WriteRaw` to
`WriteTimestamp` lines 124 to 127. A reader copies the words of the struct in
any order (`CopyWord`), as the compiler or `memcpy` may. `sensor_protocol_read`
either fails or delivers two bytes, most significant first, out of `Deliveries`;
`Raw` are the samples they make. `rtos_timer_start` may fail, since its result
is ignored. `published` and `owed` are history variables for properties. Records
carry the fields that are ever written, and `sensor_id`, which is not. The
four-way unrolled loop (lines 74-117) does what the remainder loop does and
never runs with `count = 2`; the model has the remainder loop.

**MctpRx** composes the BMC as a sender, the receive interrupt with its queue,
and `mctp_process_rx`, one action per outcome. A packet is its number on the
wire, a message the sequence of the numbers of its packets, so that mixing two
messages is visible. The sender follows the MCTP rules for the flags and the
sequence numbers; whether the numbers run on across messages and whether a
message may be given up are parameters. `Restart` empties the queue and resets
the reassembly while the BMC, which does not know, continues its message. After
an overrun of the packet structure the behaviour of the program is undefined and
the model stops.

**SelLog** is the event log with its loss at a restart, **EventLog** its
promise: the latest events, oldest first, a new one pushing out only the oldest.

**FlashTask** is what a client of the flash manager relies on: a queue that
takes or refuses a command at once, commands begun one at a time and in order,
each of which ends, nothing forgotten unless the controller restarts. It is the
interface between the two halves of the model: **FlashMgr** implements it
(`ImplementsFlashTask`), **BmcMgr** and **Firmware** use it in place of the
flash manager.

**BmcMgr** composes the two interrupts, the three queues, the task of
`bmc_mgr.c`, `SelLog` and `FlashTask`. A request is one block of a `Kind`;
`"fragment"` stands for a block that completes no message. The wait for the
event group can end at any time: its timeout is the only thing that ends it. The
header of a response is uninitialized in the code, and so its destination is any
value here. `Restart` is the trap of an update: queues, log and task start anew,
the answers that went out stay.

**FlashMgr** composes the command queue, the task, `spi_flash_cmd.c` and the
chip. The chip is modelled from the JEDEC commands the code sends: it ignores
commands while busy, needs the write enable latch, clears it after each
operation, erases whole sectors, wraps around inside a page, and programming a
byte that is not erased leaves garbage. The source pointer of the image is NULL
in the code (a placeholder): reading it traps and reboots (`SourceTraps`) or
yields some bytes, which then count as the image. The task knows commands that
nothing sends yet (abort, verify, activate); they are sent here too, because
their handlers are there.

**Firmware** joins `MctpRx` with the task of the BMC manager and `FlashTask`:
each block drained goes through the reassembly, a complete message is
dispatched and answered before the next block, and a restart hits all of them
at once. It also has the lengths of an answer from `dispatch_pldm` through
`pldm_build_response` and `mctp_frame_tx`. **RequestServer** is what the BMC may
expect of it: whole requests, served in order and at most once, and answers that
tell what became of them.

**Boot** is `app_main` and every init function it calls, one step per call into
the RTOS or ESP-IDF (`InitOrder`), with the interrupts and tasks running as soon
as they are registered or created. `Fallible` calls may fail and end the start;
`Ignored` ones may fail unnoticed. `Needs` is what each interrupt and task
relies on.

**MC*** modules give the constants of the runs; ***Proofs** modules hold the
theorems. `MctpRxMessageProofs` extends `MctpRxProofs`, and `FirmwareProofs` it.

The receive callback of `bmc_hal.c` is stored and never called by the code in
this repository. The models follow `bmc_hal.h` ("Register ISR callback") and let
it fire.

## 3. Runs

| run | question | instance |
|---|---|---|
| `SensorMgr_cache` | torn records, lost triggers, refinement of `SensorCache`, polls and answers come | 2 sensors, 1 reader, 2 replies of two bytes, tick modulo 2 |
| `MctpRx_running` | messages intact with numbers that run on, bursts of 3 losses, aborted messages, a restart | 7 packets, queue of 1, real sizes |
| `MctpRx_restart` | messages intact with arbitrary first numbers and single losses, every length class of a block, overflow of the reassembly buffer | 4 packets, queue of 1, sizes to scale |
| `MctpRx_overrun` | does the message fit the packet structure? **no** | 3 full blocks, real sizes |
| `FlashMgr_faults` | what is on the chip after failures, timeouts, reboots; refinement of `FlashTask` with its liveness | 2 commands, chip of 2 sectors of 2 pages of 2 bytes |
| `FlashMgr_retry` | is a retried aligned image written? **no** | 2 commands, timeouts only |
| `BmcMgr_answers` | order and truth of answers, alerts and updates accounted for, silence noticed exactly, queues drained, every accepted update begun, the event log | 3 blocks of 2 kinds, queues of 2, 1, 1, log of 2, 1 restart |
| `BmcMgr_bits` | does a request set its event bit? **no** | 1 block |
| `BmcMgr_address` | does a response go to the BMC? **not necessarily** | 1 block |
| `Boot_order` | nothing runs before what it needs, a successful start serves what came in meanwhile | 2 alerts, 2 requests, queues of 1 |
| `Boot_complete` | does success mean complete? **no** | same |
| `Firmware_answers` | refinement of `RequestServer` from packets to answers, every message that got through is served, answers fit a block | 4 packets, queues of 1, 2 kinds of message, 1 restart |

The five runs with **no** are findings; `PROJECT.json` quotes the line each one
contradicts. Two more defects show in the models without a run of their own:

- An image offset that is not at the start of a sector is programmed into bytes
  that were never erased (`write_image_to_staging` erases at sector multiples
  only): `ImageWritten` fails without any fault. `AlignedImageWritten` therefore
  names the alignment as its premise.
- `sensor_id` of a record is never written; `TypeOK` of `SensorMgr` says so.

Why the bounds are enough.

- *Sensors.* Tearing needs one record, two samples that differ in every field,
  and one reader; the second sensor is there for the snapshot and for the loop,
  the second tick value makes a torn time stamp visible. The two replies are an
  alarm at the upper limit and the last cold sample that is no alarm; taking
  their bytes in the wrong order gives other samples. The proofs remove these bounds.
- *Receive path.* The queue holds one packet, so losses of every pattern are
  easy to reach; a longer queue only delays them. With seven packets two
  messages of several packets, a burst of losses and a restart in between fit.
  `MctpRx_restart` scales the sizes down (blocks of 10 bytes, a buffer of 16),
  so that four packets outgrow the buffer. Raising `Tolerance` by one in either
  run makes `Intact` fail, which shows that the instances reach the limit of the
  two-bit numbers. `Intact` promises nothing beyond it: losing four packets in a
  row (or two, if numbers start anew with each message) may join two messages.
- *Flash.* Pages and sectors keep their ratios (a sector has several pages, a
  page several bytes, the chip several sectors); offsets include sector starts,
  page starts, an odd byte and an address beyond the chip; sizes nothing, part
  of a page, more than a page, more than a sector. Two commands are what it
  takes for one to disturb the other.
- *BMC manager.* Queue depths of 2 and 1 fill up; the kinds are one that gets
  no answer and the one that goes to the flash task, which differ in every
  branch a query could take, and three blocks are one more than the queue
  holds. Ticks are bounded to less than one wrap between two requests, since one
  whole wrap of silence (49 days) is inherently ambiguous in 32 bits. The proofs
  remove all of these bounds for the safety properties.
- *Whole firmware.* Four packets are two messages of two packets, or one cut in
  two by a restart or a loss and whole ones around it; both queues of one fill
  up. `HeavyLoss` cannot come from fewer packets than `Tolerance` allows.
- *Start.* Queues of 1 fill up with 2 events.

`CHECK_DEADLOCK FALSE` is set where the system may really come to rest: the BMC
stops writing (`MctpRx_*`, `Firmware_*`), no command is left (`FlashMgr_*`), or
the start failed (`Boot_*`).

Fairness. Every task blocks (event wait, queue receive, `vTaskDelay`) between
bursts of work and the RTOS schedules the highest runnable one, hence weak
fairness of each task's steps. FreeRTOS hands a given mutex to its
highest-priority waiter and mutexes are given back within a few statements;
strong fairness of `TakeMutex` and of each `ReaderTake` states that a waiter is
not passed over for ever. The chip finishes what it began (`ChipFinishes`).
`BmcMgr` assumes of the flash task what `FlashTask` promises, and
`ImplementsFlashTask` shows that the flash manager keeps that promise, from the
fairness of its task and its chip. `Firmware` needs the BMC manager's task only.
No fairness is assumed of interrupts, of time, of the timer or of the BMC.

What is deliberately not claimed: `QueuesDrained` is about the moment the
interrupts fall silent, because the inner loops of `bmc_mgr_task` have no bound
and a BMC that writes fast enough does starve NIC events. Nothing is claimed of
the age of a sensor record, nor that the event log keeps other events while a
silent BMC adds an entry every second.

## 4. Proofs

Theorems hold for every value of the constants the ASSUMEs allow. The ASSUMEs
are evaluated by TLC on each instance.

**SensorMgrProofs** (every set of readers, every set of two-byte replies, every
tick modulus, and one or two sensors, which is what the calibration table has):

- `Invariance`: `Spec => []IInv`. `IInv` is `TypeOK` and three parts. `MutexInv`:
  whoever is between take and give holds the mutex. `MemoryInv`: while the
  sensor task holds it, the fields of record `i` before the program counter are
  the new sample's, those after it are the published record's, and every other
  record is published and whole. `CopyInv`: the words a reader has copied are
  those of the published table. `ServedCoherent` alone is not inductive: that a
  finished copy is whole follows only from what the copy so far was made of,
  which in turn needs mutual exclusion.
- `TypeCorrect`, `Coherence`: `TypeOK` and `ServedCoherent`.
- `Refinement`: the detailed manager implements `SensorCache` under the mapping
  `cache <- published`, `result <-` the copy of a finished reader: only
  `WriteTimestamp` publishes, only `ReaderGive` reads.
- `TriggerKept`: `NoLostTrigger`.

They rest on `RawFits` (the two bytes make a 16-bit sample), `CDivSixteen`,
`AsInt16Fits`, `CalibrationCorrect` and `WrittenRecordIsWhole`: C's truncating
division by 16 and the narrowing to 16 bits give the rounded temperature, and
the alarm decided on it is the alarm decided on the raw sample.

**SelLogProofs** (every capacity that fits the `uint8_t` index): `SelTypeCorrect`,
and `LogRefinement`, that the circular buffer implements `EventLog`. The
inductive invariant adds to the types that until the buffer is full the index
equals the count.

**MctpRxProofs** (every size of block, buffer, packet and queue, every sender):
`TypeCorrect`, in particular that `s_reasm_offset` never leaves `s_reasm_buf`.
`TypeInv` adds that a queued block with a header is at least as long as one;
without it the payload of a block could be negative. The proof needs a block to
have room for a header (`SizesAssumption`).

**MctpRxMessageProofs** (the same, any number of packets, losses, runts and
restarts): `MessagesIntact` (`Intact`) and `MessagesServed` (`NothingRefused`),
both from `MessageInvariance`. Neither is inductive: what is dispatched next
depends on what the buffer, the queue and the wire hold. `MessageInv` says of

- the wire (`WireInv`) how a packet follows the one before: number, flags and
  length so far;
- the queue (`QueueInv`) that it holds whole packets, in order, and that every
  packet behind one in the queue is in the queue too or lost (`Frontier`);
- the reassembly (`AssemblyInv`) that the buffer is a stretch of the wire that
  begins a message, with the number that follows it, and that the next packet
  has not been looked at;
- and conversely (`HeldInv`) that a message of which every packet so far got
  through is in the buffer, which holds even after the losses that `AssemblyInv`
  excludes.

The step that needs thought is `NextInMessage`: a packet with the expected number
that does not begin a message is the one that follows the buffer. All packets
between the two are lost, hence at most `Tolerance` of them, and so few shift the
two-bit number to a different one (or, where numbers start anew, would have to
include the start of a message that the BMC did not give up). The invariant shows
a little more than `Intact`: blocks longer than SMBus allows do not mix messages
either. `SizesAssumption` asks that
a message which fits the packet structure fits the reassembly buffer (64 and 256
in `common_types.h`); without it a message could be refused for its length.

**FlashMgrProofs** (every geometry, image, queue depth and fault pattern):

- `FlagCorrect`: the flag and the state of an update agree. `FlashInv` adds that
  the flag is up whenever the task is not receiving.
- `ChipObeys`: on a chip that was idle when the update began, no erase or program
  command is ignored. `FlashInv` adds that the chip is idle between two pages.
- `CoveredOnly` (`OnlyCoveredChange`): `CommandInv` ties the loop's `addr` and
  `remaining` to the command (`addr` is the cursor modulo the 24 bits the chip
  sees), `CoverInv` says that whatever the chip works on lies in a sector of some
  command, which outlives the command and the controller.
- `ImageCorrect` (`AlignedImageWritten`): `PageInv` says, place by place in the
  loop, what is on the chip: the part counted as written is the image, from the
  cursor to the end of its sector everything is erased once the erase of that
  sector is over, and the chip works on exactly the operation the task polls
  for. That the property survives until the *next* command, while the chip is
  idle, is the part of `ImageInv` about `reported`.
- `TaskRefinement`: the safety part of `ImplementsFlashTask`.

The geometry lemmas derive from the three divisibility ASSUMEs that a page never
crosses a sector or the end of the chip, that reducing an address to 24 bits and
to the chip's size keeps its place in page and sector, and that consecutive pages
stay in a sector until the next multiple of its size (`PageInSector`,
`ChipAddress`, `NextInSector`, `OtherSector`). They rest on a few facts on `\div`
and `%` that the solver does not know for divisors that are variables
(`Unique`, `ModuloSum`, `MultipleOfMultiple`).

**BmcMgrProofs** (every queue depth, timeout and counter width, any number of
blocks, alerts and restarts):

- `TypeCorrect`: `TypeOK`, with `SelInv` of the log and that block numbers are
  not zero.
- `OrderInvariance`, `Ordered`: `AnsweredInOrder`. It is not inductive: that an
  answer does not overtake another depends on where its request is. `OrderInv`
  follows the numbers from the queue (increasing, not yet past) through the
  request in hand (older than the queue) to what was posted and answered
  (`Past`).
- `AnswersTrue`: `UpdateAnswerTrue`, with the code about to be sent, and from
  `OrderInv` that a request is not posted a second time.
- `UpdatesKept`: `UpdatesAccounted`, with the order of the flash queue and that
  what was begun is older than what waits.
- `AlertsKept`: `AlertsAccounted`, which is inductive given the types.
- `LogKept`: `ImplementsLog`. Each step of the manager is one of `SelLog` or
  leaves it alone, so that `LogRefinement` applies.
- `SilenceLogged`: `LivenessExact`, for logs of more than one slot (in a log of
  one slot the write index, by which the property sees an entry, never moves).
  `TimeInv` relates the unsigned difference to the time that has passed, across
  a wrap.

**BootProofs** (queues of every depth, any number of alerts and requests, every
pattern of failing calls): `TypeCorrect` and `OrderCorrect` (`NothingTooEarly`).
`BootInv` says that everything before the current step is ready except what may
fail unnoticed, and that what is ready has what it needs. `NeedsBefore` is the
fact about the code: in the order of `app_main` each part comes after all the
parts it relies on, and relies on none whose failure is ignored.

**FirmwareProofs** (every sender, both queue depths, any losses and restarts):

- `FirmwareInvariance`: `FirmwareInv` is `MessageInv`, which carries over because
  every step of the firmware is one of `MctpRx` or leaves its variables alone
  (`ReceivePath`), with `OrderInv` (what waits is younger than what was served and
  what is being served) and `WholeInv` (what is being dispatched is a message).
- `FirmwareIsServer`: `ImplementsServer`, that the firmware from the packets to the
  answers takes only steps of `RequestServer`, until losses longer than the
  numbers can show. Requests are sent when their last packet is on the wire
  (`AskedGrows`), served when dispatched (`Dispatched`), and the answer on its
  way is the server's outcome.
- `FramesFit`: `FrameFits`. `FrameAssumption` states what the code relies on and
  never tests, that a block has room for both headers and a record (24 of 32
  bytes); the framing function clips the PLDM part to the packet size only.

Only model-checked:

- Liveness under fairness, which with ENABLED is beyond the prover: `PollFollows`,
  `ReadCompletes`, `QueuesDrained`, `UpdatesBegun`, `BootServes`, `RequestServed`
  and the fairness part of `ImplementsFlashTask`.
- The five runs that find a violation; there is nothing to prove.

Every safety invariant and every safety action property that a run checks is a
theorem.

## 5. Not modelled

- Bytes of requests and responses other than what decides control flow or
  length.
- FRU data, version strings, power control, chip protocol, sensor thresholds,
  CRC: constants, stubs or functions without a caller.
- GPIO functions of the NIC chip, reading data back from the flash, stopping
  the timer, setting event bits, binary semaphores, the critical section: no
  caller in the repository. (The critical section locks a spinlock of its own at
  every call and would exclude nobody on the other core.)
- Stack sizes, priorities as numbers, pins and clock rates.
- Real time. Ticks are a counter; delays and timeouts end whenever they end.
- The I2C peripheral as a slave: blocks arrive through the callback or not at
  all.

## 6. Plan

Done: all modules of section 2 and the proofs of section 4.

Next, the proofs: what the properties leave implicit and the invariants nearly
say, as theorems of their own:

1. `Firmware`: that its flash queue is used as `FlashTask` allows by itself, so
   that `FlashMgr` can take the place of `FlashTask` below `Firmware` too.
2. The variant each liveness property rests on (the distance that a fair step
   shortens), as an action property that TLC checks and the prover can reach.

Next, the model: the sensor cache read inside a dispatch in `Firmware`, to state
that a reading answered is of an instant after its request; the critical
section and the event bits, as soon as something calls them.
