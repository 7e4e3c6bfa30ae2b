--------------------------- MODULE MCDecryptDisc ---------------------------
(***************************************************************************)
(* Small instances of DecryptDisc: an unlock table of 3 commands, batches  *)
(* of 2 units, extents of up to 7 units at the start, in the middle and    *)
(* past the end of a medium of 20 sectors, up to two resets.               *)
(***************************************************************************)
EXTENDS DecryptDisc

MCExtents == [start_lba : {0, 4, 30}, num_units : {0, 1, 3, 5, 7}]

(* Numbers that do not fit a u32 of 64 values.                              *)
MCWideStart == [start_lba : {0, 5, 64 + 5}, num_units : 1..3]
MCAnyExtents == MCExtents \cup MCWideStart \cup [start_lba : {0}, num_units : {64}]

MCBoth == {"libre", "plain"}
MCLibre == {"libre"}

(* A drive that transfers in full or fails, and one that may fall short.    *)
MCFull == {{0}}
MCAnyDrive == {{0}, {0, 1, 3}}

MCShared == {TRUE}
MCAnyProgram == BOOLEAN
=============================================================================
