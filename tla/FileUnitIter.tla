---------------------------- MODULE FileUnitIter ----------------------------
(***************************************************************************)
(* The file-side unit iterator (freeblue-read, PlainUdfReader and          *)
(* FileUnitIter): Aligned Units of an m2ts file, filled by as many read()  *)
(* calls as the system needs.                                              *)
(*                                                                         *)
(* A byte of the file is named by its offset.  read() is sequential, so    *)
(* the bytes gathered in `buf` are always the `filled` ones before `pos`,  *)
(* and a unit is named by the offset of its first byte.                    *)
(*                                                                         *)
(* One action is one read(), or the start of a call of next().             *)
(***************************************************************************)
EXTENDS Integers, Sequences

CONSTANTS
  ALIGNED_UNIT_LEN,  \* bytes of an Aligned Unit
  Sizes              \* lengths an input file may have

ASSUME FileUnitIterAssumption ==
  /\ ALIGNED_UNIT_LEN \in Nat \ {0}
  /\ Sizes \subseteq Nat

VARIABLES
  size,              \* length of the file
  pos,               \* the file's offset
  filled,            \* bytes of the unit gathered by this call of next()
  calling,           \* a call of next() is under way
  returned,          \* what the last finished call returned
  out                \* offsets of the units handed out so far

fileVars == <<size, pos, filled, calling, returned, out>>

Init ==
  /\ size \in Sizes
  /\ pos = 0
  /\ filled = 0
  /\ calling = FALSE
  /\ returned = "nothing"
  /\ out = << >>

Return(what) ==
  /\ calling' = FALSE
  /\ returned' = what

(* The consumer asks for a unit: a fresh buffer, nothing filled.  A Rust    *)
(* iterator may be called again whatever it returned.                       *)
CallNext ==
  /\ ~calling
  /\ calling' = TRUE
  /\ filled' = 0
  /\ UNCHANGED <<size, pos, returned, out>>

(* Mutated form of Readable: every read() is given the whole buffer.        *)
ReadableWhole == {n \in 1..ALIGNED_UNIT_LEN : pos + n <= size}

(* read() may return any part of what was asked for and is there.           *)
Readable == {n \in 1..(ALIGNED_UNIT_LEN - filled) : pos + n <= size}

Advance(n) ==
  /\ pos' = pos + n
  /\ filled' = filled + n

ReadMore ==
  /\ calling
  /\ \E n \in Readable :
       /\ filled + n < ALIGNED_UNIT_LEN
       /\ Advance(n)
  /\ UNCHANGED <<size, calling, returned, out>>

(* The read() that completes the unit: the loop ends, Some(Ok(buf)).        *)
ReadLast ==
  /\ calling
  /\ \E n \in Readable :
       /\ filled + n >= ALIGNED_UNIT_LEN
       /\ Advance(n)
  /\ out' = Append(out, pos - filled)
  /\ Return("unit")
  /\ UNCHANGED size

(* Mutated forms of ReadEof: only a clean end ends the loop; a partial unit *)
(* is handed out.                                                           *)
ReadEofWhenClean ==
  /\ calling
  /\ pos >= size
  /\ filled = 0
  /\ Return("none")
  /\ UNCHANGED <<size, pos, filled, out>>

ReadEofPadded ==
  /\ calling
  /\ pos >= size
  /\ IF filled = 0
       THEN Return("none") /\ UNCHANGED out
       ELSE Return("unit") /\ out' = Append(out, pos - filled)
  /\ UNCHANGED <<size, pos, filled>>

(* read() returns 0: a clean end, or a partial unit that is dropped.        *)
ReadEof ==
  /\ calling
  /\ pos >= size
  /\ Return("none")
  /\ UNCHANGED <<size, pos, filled, out>>

(* ErrorKind::Interrupted: the loop tries again.                            *)
ReadInterrupted ==
  /\ calling
  /\ UNCHANGED fileVars

(* Mutated form of ReadError: the file is opened again, at its start.       *)
ReadErrorReopens ==
  /\ calling
  /\ Return("error")
  /\ pos' = 0
  /\ filled' = 0
  /\ UNCHANGED <<size, out>>

(* Any other error leaves next() at once, with what was filled.             *)
ReadError ==
  /\ calling
  /\ Return("error")
  /\ UNCHANGED <<size, pos, filled, out>>

Next ==
  \/ CallNext
  \/ ReadMore
  \/ ReadLast
  \/ ReadEof
  \/ ReadInterrupted
  \/ ReadError

Spec == Init /\ [][Next]_fileVars

(* A read() is not interrupted for ever.                                    *)
FairSpec == Spec /\ WF_fileVars(ReadMore \/ ReadLast \/ ReadEof)

-----------------------------------------------------------------------------
(* Correctness.                                                            *)

(* Type invariant of FileUnitIter.  A unit never overfills its buffer.      *)
TypeOK ==
  /\ size \in Sizes
  /\ pos \in 0..size
  /\ filled \in 0..ALIGNED_UNIT_LEN
  /\ filled <= pos
  /\ calling \in BOOLEAN
  /\ returned \in {"nothing", "unit", "none", "error"}
  /\ out \in Seq(Nat)

(* No byte of the file is handed out twice or out of order, by any mixture  *)
(* of short reads, interruptions, errors and further calls after an error   *)
(* or an end (FileUnitIter::next, lib.rs:105-121).                          *)
InFileOrder ==
  \A k \in 1..(Len(out) - 1) : out[k] + ALIGNED_UNIT_LEN <= out[k + 1]

(* Every call of next() returns: neither an interrupted read() nor a file   *)
(* that ends inside a unit keeps the loop going (lib.rs:108-115).           *)
EveryCallReturns == calling ~> ~calling
=============================================================================
