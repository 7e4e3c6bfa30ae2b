---------------------------- MODULE DecryptFile ----------------------------
(***************************************************************************)
(* `freeblue decrypt`: write_clip over a PlainUdfReader, whose units come  *)
(* from a FileUnitIter over the input m2ts.                                *)
(*                                                                         *)
(* The input and the output may be the same file.                          *)
(***************************************************************************)
EXTENDS Integers, Sequences

CONSTANTS
  ALIGNED_UNIT_LEN, Sizes,   \* see FileUnitIter
  InPlace                    \* values of "the output is the input file"

ASSUME DecryptFileAssumption ==
  /\ ALIGNED_UNIT_LEN \in Nat \ {0}
  /\ Sizes \subseteq Nat
  /\ 0 \in Sizes
  /\ InPlace \subseteq BOOLEAN

VARIABLES
  size, pos, filled, calling, returned, out,    \* reader, and its file
  phase, file, torn, pending, n, exit,          \* write_clip
  given,       \* length of the input when the command was started
  in_place     \* -o names the input file

Reader == INSTANCE FileUnitIter
Writer == INSTANCE WriteClip

readerVars == <<size, pos, filled, calling, returned, out>>
writerVars == <<phase, file, torn, pending, n, exit>>
inputVars == <<given, in_place>>
vars == <<readerVars, writerVars, inputVars>>

Init ==
  /\ Reader!Init
  /\ Writer!Init
  /\ given = size
  /\ in_place \in InPlace

(* File::create truncates the file it is given, whichever that is.          *)
Create ==
  /\ Writer!Create
  /\ size' = IF in_place THEN 0 ELSE size
  /\ UNCHANGED <<pos, filled, calling, returned, out, inputVars>>

CreateFails ==
  /\ Writer!CreateFails
  /\ UNCHANGED <<readerVars, inputVars>>

(* PlainUdfReader::read_units opens the input.                              *)
Open ==
  /\ Writer!ReadUnits \/ Writer!ReadUnitsFails("open failed")
  /\ UNCHANGED <<readerVars, inputVars>>

(* Mutated form of Call: the reader reads ahead while a unit is written.    *)
CallAhead ==
  /\ Reader!CallNext
  /\ UNCHANGED <<writerVars, inputVars>>

(* `for unit in units` calls next() ...                                     *)
Call ==
  /\ phase = "pull"
  /\ Reader!CallNext
  /\ UNCHANGED <<writerVars, inputVars>>

(* ... which reads the file ...                                             *)
Read ==
  /\ Reader!ReadMore \/ Reader!ReadInterrupted
  /\ UNCHANGED <<writerVars, inputVars>>

(* ... until it returns.                                                    *)
PullUnit ==
  /\ Reader!ReadLast
  /\ Writer!PullUnit(pos - filled)
  /\ UNCHANGED inputVars

PullEnd ==
  /\ Reader!ReadEof
  /\ Writer!PullEnd
  /\ UNCHANGED inputVars

PullError ==
  /\ Reader!ReadError
  /\ Writer!PullError
  /\ UNCHANGED inputVars

(* With -o naming the input no unit is ever read, so none is written to it. *)
Write ==
  /\ Writer!WriteAll \/ Writer!WriteFails
  /\ UNCHANGED <<readerVars, inputVars>>

Next ==
  \/ Create
  \/ CreateFails
  \/ Open
  \/ Call
  \/ Read
  \/ PullUnit
  \/ PullEnd
  \/ PullError
  \/ Write

Spec == Init /\ [][Next]_vars

(* The program is one thread and its read() is not interrupted for ever.    *)
FairSpec == Spec /\ WF_vars(Next)

-----------------------------------------------------------------------------
(* Correctness.                                                            *)

(* Type invariant of DecryptFile.  A call of next() is under way only while *)
(* write_clip pulls.                                                        *)
TypeOK ==
  /\ Reader!TypeOK
  /\ Writer!TypeOK
  /\ given \in Sizes
  /\ in_place \in BOOLEAN
  /\ calling => phase = "pull"

(* Every run ends, however read() cuts the units and wherever the file ends.*)
Terminates == <>(phase = "exit")

(* The units there are to read once the output has been created: none if    *)
(* that emptied the input.                                                  *)
Units == IF in_place THEN 0 ELSE given \div ALIGNED_UNIT_LEN

(* The reader's promise to a consumer that stops at the first error, as     *)
(* write_clip does: the whole units of the file, in order, each exactly     *)
(* once; a trailing partial unit is left out, not padded.                   *)
Stream == INSTANCE UnitStream WITH
            Stride <- ALIGNED_UNIT_LEN,
            clip <- [first |-> 0, units |-> Units]
StreamSpec == Stream!Spec

(* The promise of the command (main.rs:9-12): the whole units of the input  *)
(* in order, and success only with the last one.  With -o naming the input  *)
(* it keeps it for the file it has emptied itself, and so reports success   *)
(* with no unit.                                                            *)
Output == INSTANCE ClipOutput WITH
            Stride <- ALIGNED_UNIT_LEN,
            clip <- [first |-> 0, units |-> Units],
            written <- file,
            outcome <- Writer!Outcome
OutputSpec == Output!Spec
=============================================================================
