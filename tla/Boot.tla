-------------------------------- MODULE Boot --------------------------------
(***************************************************************************)
(* app_main and the init functions it calls: the order in which queues,    *)
(* drivers, services, interrupts and tasks come to life while interrupts   *)
(* and the tasks already created run, with every failure on the way.  A    *)
(* part counts as ready once its init function has returned success.       *)
(***************************************************************************)
EXTENDS Integers, Sequences

CONSTANTS QueueDepth,   \* of each queue
          MaxEvents     \* bound on the alerts, and on the update requests

ASSUME BootAssumption == QueueDepth \in Nat \ {0} /\ MaxEvents \in Nat

(* The init functions, in the order of their calls.  An init function may  *)
(* be interrupted anywhere; a step is one call into the RTOS or ESP-IDF or *)
(* the assignments between two calls, named for what is ready afterwards.  *)
init_queues        == << "bmc_rx_queue", "nic_event_queue", "sensor_alert_queue", "flash_cmd_queue" >>
bmc_hal_init       == << "bmc_i2c_config", "bmc_i2c_driver", "bmc_hal" >>
sensor_hal_init    == << "sensor_i2c_config", "sensor_i2c_driver", "sensor_hal" >>
nic_chip_hal_init  == << "spi_bus", "s_spi_dev", "reset_pin", "nic_chip_hal" >>
bmc_mgr_init       == << "bmc_mgr_queues", "s_events", "reassembly", "sel_log", "liveness" >>
sensor_mgr_init    == << "s_cache", "s_cache_mutex", "s_poll_timer" >>
nic_flash_mgr_init == << "s_cmd_queue", "jedec_id" >>
isr_handlers_init  == << "isr_queues", "bmc_i2c_rx_isr", "alert_pin", "isr_service", "nic_alert_isr" >>
create_tasks       == << "bmc_mgr_task", "sensor_mgr_task", "nic_flash_mgr_task" >>

init_hal      == bmc_hal_init \o sensor_hal_init \o nic_chip_hal_init
init_services == bmc_mgr_init \o sensor_mgr_init \o nic_flash_mgr_init

(* Mutant: the interrupts get their queues before the queues exist. *)
InitOrder_IsrFirst ==
    isr_handlers_init \o init_queues \o init_hal \o init_services \o create_tasks

InitOrder == init_queues \o init_hal \o init_services \o isr_handlers_init \o create_tasks

Parts  == {InitOrder[k] : k \in DOMAIN InitOrder}
Booted == Len(InitOrder) + 1

(* The parts that each of these calls makes, and may fail to make for want *)
(* of memory, and the driver calls that report a failure.                  *)
rtos_queue_create       == {"bmc_rx_queue", "nic_event_queue", "sensor_alert_queue", "flash_cmd_queue"}
rtos_event_group_create == {"s_events"}
rtos_mutex_create       == {"s_cache_mutex"}
rtos_timer_create       == {"s_poll_timer"}
rtos_task_create        == {"bmc_mgr_task", "sensor_mgr_task", "nic_flash_mgr_task"}
spi_flash_cmd_init      == {"jedec_id"}
Drivers == {"bmc_i2c_config", "bmc_i2c_driver", "sensor_i2c_config", "sensor_i2c_driver",
            "spi_bus", "s_spi_dev"}

Fallible == UNION {rtos_queue_create, rtos_event_group_create, rtos_mutex_create,
                   rtos_timer_create, rtos_task_create, spi_flash_cmd_init, Drivers}

(* Mutant: the result of creating a task is ignored as well. *)
Ignored_Tasks == {"reset_pin", "alert_pin", "isr_service", "nic_alert_isr"} \cup rtos_task_create

(* Calls whose result nobody looks at. *)
Ignored == {"reset_pin", "alert_pin", "isr_service", "nic_alert_isr"}

(* The parts that a step of app_main, an interrupt or a task relies on: an *)
(* init function takes handles by value, a driver call fails before the    *)
(* driver is initialized, a task uses what its code and its callees use.   *)
Needs(actor) ==
    CASE actor = "bmc_i2c_driver" -> {"bmc_i2c_config"}
      [] actor = "sensor_i2c_driver" -> {"sensor_i2c_config"}
      [] actor = "s_spi_dev" -> {"spi_bus"}
      [] actor = "bmc_mgr_queues" -> {"bmc_rx_queue", "nic_event_queue", "flash_cmd_queue"}
      [] actor = "s_poll_timer" -> {"sensor_alert_queue"}
      [] actor = "s_cmd_queue" -> {"flash_cmd_queue"}
      [] actor = "jedec_id" -> {"nic_chip_hal"}
      [] actor = "isr_queues" -> {"bmc_rx_queue", "nic_event_queue", "sensor_alert_queue"}
      [] actor = "bmc_i2c_rx_isr" -> {"isr_queues", "bmc_rx_queue"}
      [] actor = "nic_alert_isr" -> {"isr_queues", "nic_event_queue"}
      [] actor = "bmc_mgr_task" -> {"bmc_mgr_queues", "s_events", "reassembly", "sel_log",
                                    "liveness", "bmc_hal", "s_cache", "s_cache_mutex"}
      [] actor = "sensor_mgr_task" -> {"s_cache", "s_cache_mutex", "s_poll_timer", "sensor_hal"}
      [] actor = "nic_flash_mgr_task" -> {"s_cmd_queue", "nic_chip_hal"}
      [] OTHER -> {}

VARIABLES
    step,               \* the next step of app_main, Booted, or 0 once it gave up
    ready,              \* the parts that are initialized, registered or created
    bmc_rx_queue,       \* number of update requests waiting
    nic_event_queue,    \* number of alerts waiting
    flash_cmd_queue,    \* number of flash commands waiting
    alerts, requests,   \* bounds: alerts raised, update requests written
    tooEarly            \* history: something ran before a part it needs

queues == <<bmc_rx_queue, nic_event_queue, flash_cmd_queue>>
vars   == <<step, ready, queues, alerts, requests, tooEarly>>

Init == /\ step = 1 /\ ready = {}
        /\ bmc_rx_queue = 0 /\ nic_event_queue = 0 /\ flash_cmd_queue = 0
        /\ alerts = 0 /\ requests = 0 /\ tooEarly = FALSE

Uses(actor) == tooEarly' = (tooEarly \/ ~(Needs(actor) \subseteq ready))

-----------------------------------------------------------------------------
(* app_main.                                                               *)

part == InitOrder[step]

Running == step \in DOMAIN InitOrder

(* The GPIO driver accepts a handler only once its service is installed. *)
InitSucceeds ==
    /\ Running
    /\ part = "nic_alert_isr" => "isr_service" \in ready
    /\ Uses(part)
    /\ ready' = ready \cup {part} /\ step' = step + 1
    /\ UNCHANGED <<queues, alerts, requests>>

(* No memory, or a driver that fails: app_main returns.  The tasks and the *)
(* interrupts that exist by then go on running.                            *)
InitFails ==
    /\ Running /\ part \in Fallible
    /\ Uses(part)
    /\ step' = 0
    /\ UNCHANGED <<ready, queues, alerts, requests>>

(* A failure that the caller ignores: the start goes on without the part. *)
InitIgnored ==
    /\ Running /\ part \in Ignored
    /\ Uses(part)
    /\ step' = step + 1
    /\ UNCHANGED <<ready, queues, alerts, requests>>

app_main == InitSucceeds \/ InitFails \/ InitIgnored

-----------------------------------------------------------------------------
(* The interrupts, as soon as the peripheral is set up and the handler     *)
(* registered, and the tasks, as soon as they exist.                       *)

(* Mutant: a full queue takes one more. *)
Post_NoLimit(queue) == queue + 1

Post(queue) == IF queue < QueueDepth THEN queue + 1 ELSE queue

bmc_i2c_rx_isr ==
    /\ {"bmc_i2c_rx_isr", "bmc_i2c_driver"} \subseteq ready /\ requests < MaxEvents
    /\ Uses("bmc_i2c_rx_isr")
    /\ requests' = requests + 1 /\ bmc_rx_queue' = Post(bmc_rx_queue)
    /\ UNCHANGED <<step, ready, nic_event_queue, flash_cmd_queue, alerts>>

nic_alert_isr ==
    /\ {"nic_alert_isr", "alert_pin"} \subseteq ready /\ alerts < MaxEvents
    /\ Uses("nic_alert_isr")
    /\ alerts' = alerts + 1 /\ nic_event_queue' = Post(nic_event_queue)
    /\ UNCHANGED <<step, ready, bmc_rx_queue, flash_cmd_queue, requests>>

(* The BMC manager posts an update request to the flash manager ... *)
bmc_mgr_request ==
    /\ "bmc_mgr_task" \in ready /\ bmc_rx_queue > 0
    /\ Uses("bmc_mgr_task")
    /\ bmc_rx_queue' = bmc_rx_queue - 1 /\ flash_cmd_queue' = Post(flash_cmd_queue)
    /\ UNCHANGED <<step, ready, nic_event_queue, alerts, requests>>

(* ... and logs NIC events once there are no requests. *)
bmc_mgr_event ==
    /\ "bmc_mgr_task" \in ready /\ bmc_rx_queue = 0 /\ nic_event_queue > 0
    /\ Uses("bmc_mgr_task")
    /\ nic_event_queue' = nic_event_queue - 1
    /\ UNCHANGED <<step, ready, bmc_rx_queue, flash_cmd_queue, alerts, requests>>

sensor_mgr_task ==
    /\ "sensor_mgr_task" \in ready
    /\ Uses("sensor_mgr_task")
    /\ UNCHANGED <<step, ready, queues, alerts, requests>>

nic_flash_mgr_task ==
    /\ "nic_flash_mgr_task" \in ready /\ flash_cmd_queue > 0
    /\ Uses("nic_flash_mgr_task")
    /\ flash_cmd_queue' = flash_cmd_queue - 1
    /\ UNCHANGED <<step, ready, bmc_rx_queue, nic_event_queue, alerts, requests>>

Services == bmc_mgr_request \/ bmc_mgr_event \/ sensor_mgr_task \/ nic_flash_mgr_task

Next == app_main \/ bmc_i2c_rx_isr \/ nic_alert_isr \/ Services

Spec == Init /\ [][Next]_vars

(* Every task blocks between its bursts of work, so each gets its turns.   *)
FairSpec == /\ Spec /\ WF_vars(app_main)
            /\ WF_vars(bmc_mgr_request) /\ WF_vars(bmc_mgr_event)
            /\ WF_vars(nic_flash_mgr_task)

-----------------------------------------------------------------------------
(* Properties.                                                             *)

TypeOK ==
    /\ step \in 0 .. Booted /\ ready \subseteq Parts
    /\ {bmc_rx_queue, nic_event_queue, flash_cmd_queue} \subseteq 0 .. QueueDepth
    /\ alerts \in 0 .. MaxEvents /\ requests \in 0 .. MaxEvents
    /\ tooEarly \in BOOLEAN

(* "Init order matters": no init function, interrupt or task ever runs     *)
(* before a queue, driver or service it relies on is initialized, whatever *)
(* fires or fails during the start.                                        *)
NothingTooEarly == ~tooEarly

(* If the start succeeds, every request and every alert that arrived on    *)
(* the way or later is served: those that interrupts queued before the     *)
(* tasks existed are not stranded, and every flash command finds its task. *)
BootServes == step = Booted ~> bmc_rx_queue = 0 /\ nic_event_queue = 0 /\ flash_cmd_queue = 0

(* "All systems initialized": the interrupts are registered too. *)
AllInitialized == step = Booted => ready = Parts
=============================================================================
