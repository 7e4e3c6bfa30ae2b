------------------------------ MODULE WriteClip ------------------------------
(***************************************************************************)
(* write_clip (freeblue-cli, main.rs) with decrypt_clip (freeblue-core):   *)
(* create the output file, ask the reader for its units, then decrypt and  *)
(* write each one, stopping at the first error.                            *)
(*                                                                         *)
(* A component: the actions are conjoined with those of a reader by        *)
(* DecryptDisc and DecryptFile.  Decryption cannot fail here, because a    *)
(* reader's unit has ALIGNED_UNIT_LEN bytes by its type; it is modelled in *)
(* AlignedUnit, and a decrypted unit keeps the name of the unit it is of.  *)
(***************************************************************************)
EXTENDS Integers, Sequences

VARIABLES
  phase,     \* where write_clip is
  file,      \* the whole units in the output file
  torn,      \* the output file ends inside a unit
  pending,   \* the decrypted unit about to be written: <<unit>> or << >>
  n,         \* units counted as written
  exit       \* how the run ended

writeVars == <<phase, file, torn, pending, n, exit>>

Init ==
  /\ phase = "create"
  /\ file = << >>
  /\ torn = FALSE
  /\ pending = << >>
  /\ n = 0
  /\ exit = "running"

Exit(how) ==
  /\ phase' = "exit"
  /\ exit' = how
  /\ UNCHANGED <<file, torn, pending, n>>

(* File::create: the file exists and is empty from here on.                 *)
Create ==
  /\ phase = "create"
  /\ phase' = "read_units"
  /\ UNCHANGED <<file, torn, pending, n, exit>>

CreateFails == phase = "create" /\ Exit("create failed")

(* reader.read_units(clip)?                                                 *)
ReadUnits ==
  /\ phase = "read_units"
  /\ phase' = "pull"
  /\ UNCHANGED <<file, torn, pending, n, exit>>

ReadUnitsFails(why) == phase = "read_units" /\ Exit(why)

(* One turn of `for unit in units`.                                         *)
PullUnit(u) ==
  /\ phase = "pull"
  /\ phase' = "write"
  /\ pending' = <<u>>
  /\ UNCHANGED <<file, torn, n, exit>>

(* Mutated forms of PullError: a failed read is taken for the end; the unit *)
(* that failed is passed over.                                              *)
PullErrorEnds == phase = "pull" /\ Exit("ok")

PullErrorSkipped ==
  /\ phase = "pull"
  /\ UNCHANGED writeVars

PullError == phase = "pull" /\ Exit("read failed")

(* Mutated form of PullEnd: None is taken to mean that no unit is ready.    *)
PullEndPolled ==
  /\ phase = "pull"
  /\ UNCHANGED writeVars

PullEnd == phase = "pull" /\ Exit("ok")

WriteAll ==
  /\ phase = "write"
  /\ file' = file \o pending
  /\ n' = n + 1
  /\ pending' = << >>
  /\ phase' = "pull"
  /\ UNCHANGED <<torn, exit>>

(* Mutated form of WriteFails: the error of write_all is dropped.           *)
WriteFailsIgnored ==
  /\ phase = "write"
  /\ torn' \in BOOLEAN
  /\ phase' = "pull"
  /\ n' = n + 1
  /\ pending' = << >>
  /\ UNCHANGED <<file, exit>>

(* write_all may have written a part of the unit.                           *)
WriteFails ==
  /\ phase = "write"
  /\ torn' \in BOOLEAN
  /\ phase' = "exit"
  /\ exit' = "write failed"
  /\ UNCHANGED <<file, pending, n>>

TypeOK ==
  /\ phase \in {"create", "read_units", "pull", "write", "exit"}
  /\ torn \in BOOLEAN
  /\ n \in Nat
  /\ (phase = "exit") <=> (exit # "running")

(* What ClipOutput sees of a run.                                           *)
Outcome ==
  IF exit = "running" THEN "running" ELSE IF exit = "ok" THEN "ok" ELSE "failed"
=============================================================================
