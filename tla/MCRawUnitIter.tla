--------------------------- MODULE MCRawUnitIter ---------------------------
(***************************************************************************)
(* Small instances of RawUnitIter: a u32 of 64 values, batches of 2 units, *)
(* a medium of 20 or 40 sectors.                                           *)
(***************************************************************************)
EXTENDS RawUnitIter

(* Extents that start inside the medium, at both ends of it and past it; a  *)
(* count that is a whole number of batches, one that is not, none at all.   *)
MCInRange ==
  [start_lba : {0, 4, 17, 38, 45}, num_units : 0..9]

(* The same with values a u32 does not hold.                                *)
MCAnyExtents ==
  MCInRange \cup [start_lba : {4, 64 + 4}, num_units : {3, 64 + 3}]

(* A drive that transfers in full or fails, and one that may fall short.    *)
MCShort == {{0, 1, 2, 3, 4, 6}}
MCAnyDrive == {{0}} \cup MCShort
=============================================================================
