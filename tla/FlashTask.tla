----------------------------- MODULE FlashTask -----------------------------
(***************************************************************************)
(* What the flash manager promises the component that sends it commands: a *)
(* queue that takes a command or refuses it at once, commands begun one at *)
(* a time and in their order, each of which ends, and nothing forgotten    *)
(* unless the controller restarts in the middle of a command.              *)
(***************************************************************************)
EXTENDS RtosHal

CONSTANTS Depth, Commands

VARIABLES queue,    \* the commands waiting
          working   \* a command is being carried out

flashVars == <<queue, working>>

FlashInit == queue = <<>> /\ working = FALSE

Send(command) == /\ HasRoom(queue, Depth)
                 /\ queue' = rtos_queue_send(queue, Depth, command)
                 /\ UNCHANGED working

(* An abort and the commands without an effect are over at once. *)
Take == /\ ~working /\ queue # <<>>
        /\ queue' = rtos_queue_receive(queue)
        /\ working' \in BOOLEAN

End == working /\ working' = FALSE /\ UNCHANGED queue

Restart == working /\ working' = FALSE /\ queue' = <<>>

FlashNext == (\E command \in Commands : Send(command)) \/ Take \/ End \/ Restart

FlashFairness == WF_flashVars(Take) /\ WF_flashVars(End \/ Restart)

Spec == FlashInit /\ [][FlashNext]_flashVars /\ FlashFairness
=============================================================================
