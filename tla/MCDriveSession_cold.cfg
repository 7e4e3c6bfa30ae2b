\* One program at a time: a clip of a disc mounted in a drive that is cold.
CONSTANTS
  Procs = {p1}
  Agids = {0, 1}
  None = None
  NumUnits = 1
  UnlockTable = 2
  Kinds <- MCBoth
  MaxResets = 1
  Faults = TRUE
SPECIFICATION Spec
INVARIANTS
  DecryptNeverBus
