\* The drive our own or shared, in full or short, reset at any moment; extents
\* that a u32 does not hold.
CONSTANTS
  U32 = 64
  BatchUnits = 2
  MediumEnd = 20
  UnlockTable = 3
  Extents <- MCAnyExtents
  Drives <- MCAnyDrive
  Kinds <- MCBoth
  Faults = TRUE
  MaxResets = 2
  Shared <- MCAnyProgram
SPECIFICATION FairSpec
INVARIANTS
  TypeOK
  FileMatchesReader
  PlainDriveIsNotRead
  AloneNeverBusEncrypted
  SuccessUnlessCutShort
PROPERTIES
  OutputSpec
  Terminates
\* A run ends.
CHECK_DEADLOCK FALSE
