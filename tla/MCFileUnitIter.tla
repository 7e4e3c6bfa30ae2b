--------------------------- MODULE MCFileUnitIter ---------------------------
(***************************************************************************)
(* Small instances of FileUnitIter: units of 4 bytes, so that a unit takes *)
(* one to four reads, and files of up to three units with every possible   *)
(* trailing part.                                                          *)
(***************************************************************************)
EXTENDS FileUnitIter

MCSizes == 0..15
=============================================================================
