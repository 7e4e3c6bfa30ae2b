\* Another program takes the UNIT ATTENTION of a reset.
CONSTANTS
  U32 = 64
  BatchUnits = 2
  MediumEnd = 20
  UnlockTable = 3
  Extents <- MCExtents
  Drives <- MCFull
  Kinds <- MCLibre
  Faults = FALSE
  MaxResets = 1
  Shared <- MCShared
SPECIFICATION Spec
INVARIANTS
  NeverBusEncrypted
\* A run ends.
CHECK_DEADLOCK FALSE
