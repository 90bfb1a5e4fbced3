------------------------------ MODULE EventLog ------------------------------
(***************************************************************************)
(* What the system event log promises: it holds the latest events, oldest  *)
(* first, up to its capacity; a new event pushes out only the oldest one,  *)
(* and only a restart empties it.                                          *)
(***************************************************************************)
EXTENDS Integers, Sequences

CONSTANTS Capacity, Entries

VARIABLE events

Init == events = <<>>

(* k counts from the oldest event; the newest is the last. *)
Log(e) == events' = IF Len(events) < Capacity
                    THEN [k \in 1 .. Len(events) + 1 |->
                             IF k <= Len(events) THEN events[k] ELSE e]
                    ELSE [k \in 1 .. Capacity |->
                             IF k < Capacity THEN events[k + 1] ELSE e]

Clear == events' = <<>>

Next == (\E e \in Entries : Log(e)) \/ Clear

Spec == Init /\ [][Next]_events
=============================================================================
