--------------------------- MODULE MCDriveSession ---------------------------
(***************************************************************************)
(* Two programs at a time, each of them again and again, on a drive with   *)
(* two AGIDs that is reset at most once; a clip of two units.              *)
(***************************************************************************)
EXTENDS DriveSession, TLC

MCSymmetry == Permutations(Procs)

MCBoth == {"libre", "plain"}
=============================================================================
