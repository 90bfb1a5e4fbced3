--------------------------- MODULE RequestServer ---------------------------
(***************************************************************************)
(* What the BMC may expect of the firmware: its requests are messages that *)
(* exist as a whole or not at all.  They are served in the order in which  *)
(* they were sent and at most once, an answer tells what became of its     *)
(* request, and may get lost; an update is accepted exactly if it goes     *)
(* into the queue of the flash manager (FlashTask).                        *)
(***************************************************************************)
EXTENDS FlashTask

CONSTANTS Requests,     \* records [id, kind]; ids are numbers, in order
          CodeOf(_),    \* the completion code of a request that is no update
          NoAnswer

VARIABLES asked,        \* the requests the BMC has sent
          served,       \* the id of the last one served
          outcome,      \* the answer on its way, or NoAnswer
          answers       \* the answers transmitted, in order

serverVars == <<asked, served, outcome, answers>>

Init == /\ asked = {} /\ served = 0 /\ outcome = NoAnswer /\ answers = <<>>
        /\ FlashInit

Ask(request) == /\ \A r \in asked : r.id < request.id
                /\ asked' = asked \cup {request}
                /\ UNCHANGED <<served, outcome, answers, flashVars>>

Serve(request, code) ==
    /\ request \in asked /\ served < request.id /\ outcome = NoAnswer
    /\ served' = request.id
    /\ outcome' = [id |-> request.id, cc |-> code]
    /\ UNCHANGED <<asked, answers>>

ServeQuery(request) == /\ request.kind # "update"
                       /\ Serve(request, CodeOf(request.kind))
                       /\ UNCHANGED flashVars

Accept(request) == /\ request.kind = "update"
                   /\ Serve(request, "SUCCESS") /\ Send(request.id)

Refuse(request) == /\ request.kind = "update" /\ ~HasRoom(queue, Depth)
                   /\ Serve(request, "ERROR") /\ UNCHANGED flashVars

Answer == /\ outcome # NoAnswer /\ outcome' = NoAnswer
          /\ answers' = Append(answers, outcome)
          /\ UNCHANGED <<asked, served, flashVars>>

LoseAnswer == /\ outcome # NoAnswer /\ outcome' = NoAnswer
              /\ UNCHANGED <<asked, served, answers, flashVars>>

FlashSteps == (Take \/ End) /\ UNCHANGED serverVars

(* What was sent and answered before cannot be undone; a request being     *)
(* served loses its answer.                                                *)
Crash == /\ Restart /\ outcome' = NoAnswer
         /\ UNCHANGED <<asked, served, answers>>

Next == \/ \E request \in Requests : \/ Ask(request) \/ ServeQuery(request)
                                     \/ Accept(request) \/ Refuse(request)
        \/ Answer \/ LoseAnswer \/ FlashSteps \/ Crash
=============================================================================
