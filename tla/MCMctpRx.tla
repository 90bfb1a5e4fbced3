------------------------------ MODULE MCMctpRx ------------------------------
(* Instances of MctpRx for TLC. *)
EXTENDS MctpRx

(* Block lengths: short packets, so that the messages can have many. *)
Short == {12}

(* On a scale of blocks of 10 and a reassembly buffer of 16 bytes: a runt, *)
(* too little for PLDM, a block that ends inside a word, and an overlong   *)
(* block.                                                                  *)
Mixed == {2, 6, 9, 12}

(* Full blocks of the real size: 28 bytes of payload each. *)
Full == {32}
=============================================================================
