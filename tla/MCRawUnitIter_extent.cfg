\* A short transfer pushes the reader past the end of the extent.
CONSTANTS
  U32 = 64
  BatchUnits = 2
  MediumEnd = 20
  Extents <- MCInRange
  Drives <- MCShort
SPECIFICATION Spec
INVARIANTS
  OnlyUnitsOfExtent
