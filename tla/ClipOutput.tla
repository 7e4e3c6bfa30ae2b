----------------------------- MODULE ClipOutput -----------------------------
(***************************************************************************)
(* What a run of `freeblue decrypt` or `freeblue decrypt-disc` promises    *)
(* its user: the output file receives the Aligned Units of the clip, in    *)
(* order, each once; the run ends, and it reports success only when the    *)
(* last unit is in the file.  A run that fails leaves a beginning of the   *)
(* clip behind.                                                            *)
(***************************************************************************)
EXTENDS Integers, Sequences

CONSTANT Stride        \* distance between the addresses of adjacent units

VARIABLES
  clip,                \* [first, units]: the clip to decrypt
  written,             \* addresses of the units in the output file
  outcome              \* "running", "ok" or "failed"

vars == <<clip, written, outcome>>

Init ==
  /\ clip \in [first : Nat, units : Nat]
  /\ written = << >>
  /\ outcome = "running"

WriteUnit ==
  /\ outcome = "running"
  /\ Len(written) < clip.units
  /\ written' = Append(written, clip.first + Stride * Len(written))
  /\ UNCHANGED <<clip, outcome>>

Succeed ==
  /\ outcome = "running"
  /\ Len(written) = clip.units
  /\ outcome' = "ok"
  /\ UNCHANGED <<clip, written>>

Fail ==
  /\ outcome = "running"
  /\ outcome' = "failed"
  /\ UNCHANGED <<clip, written>>

Next == WriteUnit \/ Succeed \/ Fail

Spec == Init /\ [][Next]_vars
=============================================================================
