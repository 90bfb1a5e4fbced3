------------------------------- MODULE MCBoot -------------------------------
(* Instances of Boot for TLC: queues of one, which fill up. *)
EXTENDS Boot
=============================================================================
