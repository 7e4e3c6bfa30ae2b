--------------------------- MODULE MCDecryptFile ---------------------------
(***************************************************************************)
(* Small instances of DecryptFile: units of 3 bytes, files of up to three  *)
(* units with every possible trailing part.                                *)
(***************************************************************************)
EXTENDS DecryptFile

MCSizes == 0..11
MCBoth == BOOLEAN
=============================================================================
