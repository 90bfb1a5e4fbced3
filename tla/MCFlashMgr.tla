----------------------------- MODULE MCFlashMgr -----------------------------
(* Instances of FlashMgr for TLC: pages of 2 bytes, sectors of 4. *)
EXTENDS FlashMgr

(* Sector starts, a page start inside a sector, an odd byte, an address    *)
(* beyond the chip.                                                        *)
AnyOffset  == {0, 2, 3, 4, 12}
TwoSectors == {0, 4}

(* Nothing, less than a page, more than a page, more than a sector. *)
AnySize == {0, 1, 3, 6}
OneSize == {3}
=============================================================================
