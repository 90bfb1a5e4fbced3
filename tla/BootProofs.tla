----------------------------- MODULE BootProofs -----------------------------
(***************************************************************************)
(* Proofs about Boot, for queues of any depth and any number of alerts and *)
(* requests: whatever fires or fails, nothing runs before what it needs.   *)
(***************************************************************************)
EXTENDS Boot, TLAPS

(* The tuples of unchanged variables stand in every action. *)
USE DEF vars, queues

-----------------------------------------------------------------------------
(* The order of the start.                                                 *)

(* What app_main goes through, call by call. *)
LEMMA Order ==
    /\ Len(InitOrder) = 32 /\ DOMAIN InitOrder = 1 .. 32
    /\ InitOrder[1] = "bmc_rx_queue" /\ InitOrder[2] = "nic_event_queue"
    /\ InitOrder[3] = "sensor_alert_queue" /\ InitOrder[4] = "flash_cmd_queue"
    /\ InitOrder[5] = "bmc_i2c_config" /\ InitOrder[6] = "bmc_i2c_driver"
    /\ InitOrder[7] = "bmc_hal"
    /\ InitOrder[8] = "sensor_i2c_config" /\ InitOrder[9] = "sensor_i2c_driver"
    /\ InitOrder[10] = "sensor_hal"
    /\ InitOrder[11] = "spi_bus" /\ InitOrder[12] = "s_spi_dev"
    /\ InitOrder[13] = "reset_pin" /\ InitOrder[14] = "nic_chip_hal"
    /\ InitOrder[15] = "bmc_mgr_queues" /\ InitOrder[16] = "s_events"
    /\ InitOrder[17] = "reassembly" /\ InitOrder[18] = "sel_log" /\ InitOrder[19] = "liveness"
    /\ InitOrder[20] = "s_cache" /\ InitOrder[21] = "s_cache_mutex"
    /\ InitOrder[22] = "s_poll_timer"
    /\ InitOrder[23] = "s_cmd_queue" /\ InitOrder[24] = "jedec_id"
    /\ InitOrder[25] = "isr_queues" /\ InitOrder[26] = "bmc_i2c_rx_isr"
    /\ InitOrder[27] = "alert_pin" /\ InitOrder[28] = "isr_service"
    /\ InitOrder[29] = "nic_alert_isr"
    /\ InitOrder[30] = "bmc_mgr_task" /\ InitOrder[31] = "sensor_mgr_task"
    /\ InitOrder[32] = "nic_flash_mgr_task"
BY DEF InitOrder, init_queues, init_hal, init_services, bmc_hal_init, sensor_hal_init,
       nic_chip_hal_init, bmc_mgr_init, sensor_mgr_init, nic_flash_mgr_init,
       isr_handlers_init, create_tasks

(* The parts that are certainly ready when app_main reaches step k. *)
Before(k) == {InitOrder[j] : j \in 1 .. k - 1} \ Ignored

(* Every part is made after all the parts that it relies on, and relies on *)
(* none whose failure is ignored.                                          *)
LEMMA NeedsBefore == \A k \in DOMAIN InitOrder : Needs(InitOrder[k]) \subseteq Before(k)
<1> SUFFICES ASSUME NEW k \in 1 .. 32, NEW p \in Needs(InitOrder[k])
             PROVE  /\ p \notin Ignored
                    /\ \E j \in 1 .. k - 1 : InitOrder[j] = p
  BY Order DEF Before
<1>1. CASE k \in {6, 9, 12}  BY <1>1, Order DEF Needs, Ignored
<1>2. CASE k = 15  BY <1>2, Order DEF Needs, Ignored
<1>3. CASE k \in {22, 23, 24}  BY <1>3, Order DEF Needs, Ignored
<1>4. CASE k = 25  BY <1>4, Order DEF Needs, Ignored
<1>5. CASE k \in {26, 29}  BY <1>5, Order DEF Needs, Ignored
<1>6. CASE k = 30  BY <1>6, Order DEF Needs, Ignored
<1>7. CASE k \in {31, 32}  BY <1>7, Order DEF Needs, Ignored
<1>8. CASE k \notin {6, 9, 12, 15, 22, 23, 24, 25, 26, 29, 30, 31, 32}
  BY <1>8, Order DEF Needs
<1> QED  BY <1>1, <1>2, <1>3, <1>4, <1>5, <1>6, <1>7, <1>8

-----------------------------------------------------------------------------
(* The inductive invariant: app_main has made what comes before its step,  *)
(* except where a failure is ignored, and what is ready has what it needs. *)
BootInv ==
    /\ TypeOK /\ NothingTooEarly
    /\ step # 0 => Before(step) \subseteq ready
    /\ \A p \in ready : Needs(p) \subseteq ready

(* Whatever runs by right of a ready part runs in time. *)
LEMMA InTime ==
    ASSUME BootInv, NEW p \in ready, Uses(p)
    PROVE  tooEarly' = FALSE
BY DEF BootInv, NothingTooEarly, Uses

LEMMA StepInTime ==
    ASSUME BootInv, Running, Uses(part)
    PROVE  /\ Needs(part) \subseteq ready /\ tooEarly' = FALSE
           /\ part \in Parts /\ step \in 1 .. 32 /\ Booted = 33
           /\ Before(step + 1) \subseteq ready \cup {part}
           /\ part \in Ignored => Before(step + 1) \subseteq ready
<1>1. step \in 1 .. 32 /\ Booted = 33 /\ part \in Parts
  BY Order DEF Running, Booted, Parts, part
<1>2. Before(step) \subseteq ready  BY <1>1 DEF BootInv
<1>3. Needs(part) \subseteq ready
  BY <1>2, NeedsBefore DEF part, Running
<1>4. tooEarly' = FALSE  BY <1>3 DEF BootInv, NothingTooEarly, Uses
<1>5. Before(step + 1) \subseteq Before(step) \cup {part}
  <2> SUFFICES ASSUME NEW j \in 1 .. step, InitOrder[j] \notin Ignored
               PROVE  InitOrder[j] \in Before(step) \cup {part}
    BY <1>1 DEF Before
  <2> QED  BY <1>1 DEF Before, part
<1>6. part \in Ignored => Before(step + 1) \subseteq Before(step)
  BY <1>5 DEF Before
<1> QED  BY <1>1, <1>2, <1>3, <1>4, <1>5, <1>6

LEMMA PostBounded == ASSUME NEW n \in 0 .. QueueDepth PROVE Post(n) \in 0 .. QueueDepth
BY BootAssumption DEF Post

LEMMA BootStart == Init => BootInv
<1> SUFFICES ASSUME Init PROVE BootInv
  OBVIOUS
<1>1. TypeOK
  <2>1. 0 \in 0 .. QueueDepth /\ 0 \in 0 .. MaxEvents  BY BootAssumption
  <2>2. 1 \in 0 .. Booted  BY Order DEF Booted
  <2> QED  BY <2>1, <2>2 DEF Init, TypeOK
<1>2. Before(1) = {}  BY DEF Before
<1> QED  BY <1>1, <1>2 DEF Init, BootInv, NothingTooEarly

LEMMA BootStep == BootInv /\ [Next]_vars => BootInv'
<1> SUFFICES ASSUME BootInv, [Next]_vars PROVE BootInv'
  OBVIOUS
<1>0. /\ TypeOK /\ step \in 0 .. Booted
      /\ bmc_rx_queue \in 0 .. QueueDepth /\ nic_event_queue \in 0 .. QueueDepth
      /\ flash_cmd_queue \in 0 .. QueueDepth
      /\ alerts \in 0 .. MaxEvents /\ requests \in 0 .. MaxEvents
  BY DEF BootInv, TypeOK
<1>1. CASE app_main
  <2>1. Running /\ Uses(part)
    BY <1>1 DEF app_main, InitSucceeds, InitFails, InitIgnored
  <2>2. /\ Needs(part) \subseteq ready /\ tooEarly' = FALSE
        /\ part \in Parts /\ step \in 1 .. 32 /\ Booted = 33
        /\ Before(step + 1) \subseteq ready \cup {part}
        /\ part \in Ignored => Before(step + 1) \subseteq ready
    BY <2>1, StepInTime
  <2>3. /\ {bmc_rx_queue, nic_event_queue, flash_cmd_queue}' \subseteq 0 .. QueueDepth
        /\ alerts' \in 0 .. MaxEvents /\ requests' \in 0 .. MaxEvents
        /\ tooEarly' \in BOOLEAN /\ ready \subseteq Parts
    BY <1>0, <1>1, <2>2 DEF app_main, InitSucceeds, InitFails, InitIgnored, TypeOK
  <2>4. CASE InitSucceeds
    <3>1. ready' = ready \cup {part} /\ step' = step + 1  BY <2>4 DEF InitSucceeds
    <3>2. TypeOK'
      <4>1. step' \in 0 .. Booted' /\ ready' \subseteq Parts'
        BY <2>2, <2>3, <3>1 DEF Booted, Parts
      <4> QED  BY <2>3, <4>1 DEF TypeOK
    <3>3. Before(step)' = Before(step + 1)  BY <3>1 DEF Before
    <3>4. \A p \in ready' : Needs(p) \subseteq ready'  BY <2>2, <3>1 DEF BootInv
    <3> QED  BY <2>2, <3>1, <3>2, <3>3, <3>4 DEF BootInv, NothingTooEarly
  <2>5. CASE InitFails
    <3>1. step' = 0 /\ ready' = ready  BY <2>5 DEF InitFails
    <3>2. TypeOK'
      <4>1. step' \in 0 .. Booted' /\ ready' \subseteq Parts'
        BY <2>2, <2>3, <3>1 DEF Booted, Parts
      <4> QED  BY <2>3, <4>1 DEF TypeOK
    <3> QED  BY <2>2, <3>1, <3>2 DEF BootInv, NothingTooEarly
  <2>6. CASE InitIgnored
    <3>1. part \in Ignored /\ step' = step + 1 /\ ready' = ready  BY <2>6 DEF InitIgnored
    <3>2. TypeOK'
      <4>1. step' \in 0 .. Booted' /\ ready' \subseteq Parts'
        BY <2>2, <2>3, <3>1 DEF Booted, Parts
      <4> QED  BY <2>3, <4>1 DEF TypeOK
    <3>3. Before(step)' = Before(step + 1)  BY <3>1 DEF Before
    <3> QED  BY <2>2, <3>1, <3>2, <3>3 DEF BootInv, NothingTooEarly
  <2> QED  BY <1>1, <2>4, <2>5, <2>6 DEF app_main
<1>2. CASE bmc_i2c_rx_isr \/ nic_alert_isr \/ Services
  <2>1. tooEarly' = FALSE
    BY <1>2, InTime DEF bmc_i2c_rx_isr, nic_alert_isr, Services, bmc_mgr_request, bmc_mgr_event,
                        sensor_mgr_task, nic_flash_mgr_task
  <2>2. UNCHANGED <<step, ready>>
    BY <1>2 DEF bmc_i2c_rx_isr, nic_alert_isr, Services, bmc_mgr_request, bmc_mgr_event,
                sensor_mgr_task, nic_flash_mgr_task
  <2>3. /\ {bmc_rx_queue, nic_event_queue, flash_cmd_queue}' \subseteq 0 .. QueueDepth
        /\ alerts' \in 0 .. MaxEvents /\ requests' \in 0 .. MaxEvents
    <3>1. CASE bmc_i2c_rx_isr
      BY <1>0, <3>1, PostBounded, BootAssumption DEF bmc_i2c_rx_isr
    <3>2. CASE nic_alert_isr
      BY <1>0, <3>2, PostBounded, BootAssumption DEF nic_alert_isr
    <3>3. CASE bmc_mgr_request
      BY <1>0, <3>3, PostBounded, BootAssumption DEF bmc_mgr_request
    <3>4. CASE bmc_mgr_event \/ sensor_mgr_task \/ nic_flash_mgr_task
      BY <1>0, <3>4, BootAssumption DEF bmc_mgr_event, sensor_mgr_task, nic_flash_mgr_task
    <3> QED  BY <1>2, <3>1, <3>2, <3>3, <3>4 DEF Services
  <2>4. TypeOK'  BY <1>0, <2>1, <2>2, <2>3 DEF TypeOK
  <2> QED  BY <2>1, <2>2, <2>4 DEF BootInv, NothingTooEarly, Before
<1>3. CASE UNCHANGED vars
  BY <1>3 DEF BootInv, TypeOK, NothingTooEarly, Before
<1> QED  BY <1>1, <1>2, <1>3 DEF Next

THEOREM BootInvariance == Spec => []BootInv
BY BootStart, BootStep, PTL DEF Spec

(* The start of the firmware keeps its types, and no queue ever holds more *)
(* than it can, through interrupts before the tasks exist.                 *)
THEOREM TypeCorrect == Spec => []TypeOK
<1>1. BootInv => TypeOK  BY DEF BootInv
<1> QED  BY <1>1, BootInvariance, PTL

(* No init function, interrupt or task ever runs before what it relies on  *)
(* is initialized: the order of the calls in app_main respects every       *)
(* dependency, and none is on a part whose failure app_main ignores.       *)
THEOREM OrderCorrect == Spec => []NothingTooEarly
<1>1. BootInv => NothingTooEarly  BY DEF BootInv
<1> QED  BY <1>1, BootInvariance, PTL
=============================================================================
