\* Any drive, any extent: what survives short transfers, and what the reader
\* promises without them.
CONSTANTS
  U32 = 64
  BatchUnits = 2
  MediumEnd = 40
  Extents <- MCAnyExtents
  Drives <- MCAnyDrive
SPECIFICATION Spec
INVARIANTS
  TypeOK
  ClipAligned
  InDiscOrder
  ReadsWithinExtent
PROPERTIES
  StreamSpec
