\* Two programs on one drive.
CONSTANTS
  Procs = {p1, p2}
  Agids = {0, 1}
  None = None
  NumUnits = 2
  UnlockTable = 2
  Kinds <- MCBoth
  MaxResets = 1
  Faults = TRUE
SYMMETRY MCSymmetry
SPECIFICATION Spec
INVARIANTS
  TypeOK
  UnlockedIsRaw
  RawSession
  ProbeVerdict
