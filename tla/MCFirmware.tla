----------------------------- MODULE MCFirmware -----------------------------
(* Instances of Firmware for TLC: sizes as in the code, short packets. *)
EXTENDS Firmware

Short == {12}
=============================================================================
