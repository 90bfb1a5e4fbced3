------------------------------ MODULE RtosHal ------------------------------
(***************************************************************************)
(* The queues and event groups of the RTOS abstraction (rtos_hal.c), as    *)
(* the other components use them: what an operation leaves behind.         *)
(***************************************************************************)
EXTENDS Naturals, Sequences

(* RTOS_OK or RTOS_ERR_FULL, for a sender that does not wait. *)
HasRoom(queue, depth) == Len(queue) < depth

(* Mutant: the depth is counted from zero. *)
rtos_queue_send_from_isr_OneMore(queue, depth, item) ==
    IF Len(queue) <= depth THEN Append(queue, item) ELSE queue

(* Both leave a full queue as it is; the item is lost. *)
rtos_queue_send_from_isr(queue, depth, item) ==
    IF HasRoom(queue, depth) THEN Append(queue, item) ELSE queue

rtos_queue_send(queue, depth, item) ==
    IF HasRoom(queue, depth) THEN Append(queue, item) ELSE queue

(* RTOS_OK: the oldest item is taken out. *)
rtos_queue_receive(queue) == Tail(queue)

(* The wait for any of some bits, cleared on exit: whether a bit or the    *)
(* timeout ended it, none of them is set afterwards.                       *)
rtos_event_group_wait(bits, awaited) == bits \ awaited
=============================================================================
