------------------------------ MODULE MCBmcMgr ------------------------------
(* Instances of BmcMgr for TLC: short queues, a tick counter that wraps. *)
EXTENDS BmcMgr

(* A request that is only answered, and one that posts a command. *)
TwoKinds == {"sensor", "update"}
=============================================================================
