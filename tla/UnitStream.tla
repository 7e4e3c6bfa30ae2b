----------------------------- MODULE UnitStream -----------------------------
(***************************************************************************)
(* What a UnitReader promises its consumer (freeblue-read, trait           *)
(* UnitReader and type UnitIter): the Aligned Units of one clip, in order, *)
(* each exactly once.  A call of next() may surface an error, which loses  *)
(* nothing; the stream reports its end only after the last unit.           *)
(*                                                                         *)
(* A unit is named by the address of its first byte or sector, so the k-th *)
(* unit of a clip is clip.first + Stride * (k - 1).                        *)
(***************************************************************************)
EXTENDS Integers, Sequences

CONSTANT Stride        \* distance between the addresses of adjacent units

VARIABLES
  clip,                \* [first, units]: what read_units was asked for
  out,                 \* addresses of the units handed to the consumer
  returned             \* what the last call of next() returned

vars == <<clip, out, returned>>

UnitAt(c, k) == c.first + Stride * (k - 1)

Init ==
  /\ clip \in [first : Nat, units : Nat]
  /\ out = << >>
  /\ returned = "nothing"

Deliver ==
  /\ Len(out) < clip.units
  /\ out' = Append(out, UnitAt(clip, Len(out) + 1))
  /\ returned' = "unit"
  /\ UNCHANGED clip

Fail ==
  /\ returned' = "error"
  /\ UNCHANGED <<clip, out>>

End ==
  /\ Len(out) = clip.units
  /\ returned' = "none"
  /\ UNCHANGED <<clip, out>>

Next == Deliver \/ Fail \/ End

Spec == Init /\ [][Next]_vars
=============================================================================
