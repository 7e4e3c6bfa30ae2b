------------------------- MODULE FileUnitIterProofs -------------------------
(***************************************************************************)
(* Theorems about FileUnitIter, for every length of unit, every file and   *)
(* every way read() may cut, interrupt or fail.                            *)
(***************************************************************************)
EXTENDS FileUnitIter, TLAPS

(* What was handed out lies before the unit that is being gathered, or,     *)
(* between two calls, before the file's offset.                             *)
OutBehind ==
  out # << >> =>
    out[Len(out)] + ALIGNED_UNIT_LEN <= IF calling THEN pos - filled ELSE pos

IInv == TypeOK /\ OutBehind /\ InFileOrder

LEMMA InitIInv == Init => IInv
<1>. SUFFICES ASSUME Init PROVE IInv
  OBVIOUS
<1>1. size \in Nat /\ out \in Seq(Nat) /\ Len(out) = 0
  BY FileUnitIterAssumption DEF Init
<1>2. TypeOK
  <2>1. calling \in BOOLEAN
    BY Zenon DEF Init
  <2>. QED  BY <1>1, <2>1, FileUnitIterAssumption DEF Init, TypeOK
<1>. QED  BY <1>1, <1>2 DEF Init, IInv, OutBehind, InFileOrder

(* A read() that gathers more moves the offset and the count alike.         *)
LEMMA MoreIInv == IInv /\ ReadMore => IInv'
<1>. SUFFICES ASSUME IInv, ReadMore PROVE IInv'
  OBVIOUS
<1>1. PICK n \in Readable : filled + n < ALIGNED_UNIT_LEN /\ Advance(n)
  BY DEF ReadMore
<1>2. TypeOK'
  BY <1>1, FileUnitIterAssumption
  DEF ReadMore, IInv, TypeOK, Readable, Advance
<1>3. OutBehind'
  BY <1>1, FileUnitIterAssumption
  DEF ReadMore, IInv, TypeOK, OutBehind, Readable, Advance
<1>4. InFileOrder'
  BY DEF ReadMore, IInv, InFileOrder
<1>. QED  BY <1>2, <1>3, <1>4 DEF IInv

(* The unit that is completed starts at or after the end of the last one,   *)
(* and ends at the offset.                                                  *)
LEMMA LastIInv == IInv /\ ReadLast => IInv'
<1>. SUFFICES ASSUME IInv, ReadLast PROVE IInv'
  OBVIOUS
<1>1. PICK n \in Readable : filled + n >= ALIGNED_UNIT_LEN /\ Advance(n)
  BY DEF ReadLast
<1>2. n = ALIGNED_UNIT_LEN - filled /\ pos + n <= size
  BY <1>1, FileUnitIterAssumption DEF IInv, TypeOK, Readable
<1>3. /\ pos - filled \in Nat
      /\ pos' = pos - filled + ALIGNED_UNIT_LEN
      /\ filled' = ALIGNED_UNIT_LEN
  BY <1>1, <1>2, FileUnitIterAssumption DEF IInv, TypeOK, Advance
<1>4. out \in Seq(Nat) /\ out' = Append(out, pos - filled)
  BY DEF IInv, TypeOK, ReadLast
<1>5. TypeOK'
  <2>1. size' = size /\ size \in Nat /\ pos \in 0..size /\ filled \in Nat
    BY FileUnitIterAssumption DEF IInv, TypeOK, ReadLast
  <2>2. pos' \in 0..size' /\ filled' <= pos'
    BY <1>2, <1>3, <2>1, FileUnitIterAssumption
  <2>3. out' \in Seq(Nat)
    BY <1>3, <1>4
  <2>4. calling' \in BOOLEAN
    BY Zenon DEF ReadLast, Return
  <2>5. filled' \in 0..ALIGNED_UNIT_LEN
    BY <1>3, FileUnitIterAssumption
  <2>6. size' \in Sizes /\ returned' = "unit"
    BY DEF IInv, TypeOK, ReadLast, Return
  <2>. QED  BY <2>2, <2>3, <2>4, <2>5, <2>6 DEF TypeOK
<1>6. OutBehind'
  BY <1>3, <1>4, FileUnitIterAssumption DEF OutBehind, ReadLast, Return
<1>7. InFileOrder'
  <2>1. SUFFICES ASSUME NEW k \in 1..(Len(out') - 1)
                 PROVE  out'[k] + ALIGNED_UNIT_LEN <= out'[k + 1]
    BY DEF InFileOrder
  <2>2. Len(out') = Len(out) + 1 /\ k \in 1..Len(out)
    BY <1>4
  <2>3. CASE k = Len(out)
    BY <1>4, <2>2, <2>3 DEF IInv, OutBehind, ReadLast
  <2>4. CASE k < Len(out)
    BY <1>4, <2>2, <2>4 DEF IInv, InFileOrder
  <2>. QED  BY <1>4, <2>2, <2>3, <2>4
<1>. QED  BY <1>5, <1>6, <1>7 DEF IInv

(* The steps that hand out nothing and move nothing.                        *)
LEMMA OtherIInv ==
  ASSUME IInv, CallNext \/ ReadEof \/ ReadError \/ UNCHANGED fileVars
  PROVE  IInv'
<1>1. TypeOK'
  <2>1. /\ UNCHANGED <<size, pos, out>>
        /\ filled' \in {0, filled}
        /\ returned' \in {returned, "none", "error"}
    BY DEF CallNext, ReadEof, ReadError, Return, fileVars
  <2>2. calling' \in BOOLEAN
    BY Zenon
    DEF IInv, TypeOK, CallNext, ReadEof, ReadError, Return, fileVars
  <2>3. pos \in Nat
    BY FileUnitIterAssumption DEF IInv, TypeOK
  <2>. QED  BY <2>1, <2>2, <2>3, FileUnitIterAssumption DEF IInv, TypeOK
<1>2. OutBehind'
  BY FileUnitIterAssumption
  DEF IInv, TypeOK, OutBehind, CallNext, ReadEof, ReadError, Return, fileVars
<1>3. InFileOrder'
  BY DEF IInv, InFileOrder, CallNext, ReadEof, ReadError, fileVars
<1>. QED  BY <1>1, <1>2, <1>3 DEF IInv

LEMMA NextIInv == IInv /\ [Next]_fileVars => IInv'
<1>. SUFFICES ASSUME IInv, [Next]_fileVars PROVE IInv'
  OBVIOUS
<1>1. CASE ReadMore  BY <1>1, MoreIInv
<1>2. CASE ReadLast  BY <1>2, LastIInv
<1>3. CASE CallNext \/ ReadEof \/ ReadError \/ UNCHANGED fileVars
  BY <1>3, OtherIInv
<1>4. CASE ReadInterrupted
  BY <1>4, OtherIInv DEF ReadInterrupted
<1>. QED  BY <1>1, <1>2, <1>3, <1>4 DEF Next

THEOREM Inductive == Spec => []IInv
<1>. QED  BY InitIInv, NextIInv, PTL DEF Spec

(* No unit overfills its buffer, and the offset stays in the file, however  *)
(* read() cuts the units (FileUnitIter::next, lib.rs:105-121).              *)
THEOREM TypeCorrect == Spec => []TypeOK
<1>1. IInv => TypeOK
  BY DEF IInv
<1>. QED  BY <1>1, Inductive, PTL

(* No byte is handed out twice or out of order, also to a consumer that     *)
(* goes on after an error inside a unit or after an end (lib.rs:105-121).   *)
THEOREM UnitsInFileOrder == Spec => []InFileOrder
<1>1. IInv => InFileOrder
  BY DEF IInv
<1>. QED  BY <1>1, Inductive, PTL
=============================================================================
