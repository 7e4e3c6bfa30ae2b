\* Every key database of up to two lines, and of three entries or three global
\* records; then every way to a key of a unit.
CONSTANTS
  id1 = id1
  id2 = id2
  km1 = km1
  km2 = km2
  vid1 = vid1
  vid2 = vid2
  kvu1 = kvu1
  kvu2 = kvu2
  kcu1 = kcu1
  kcu2 = kcu2
  kcu3 = kcu3
  part = part
  bad = bad
  None = None
  Junk = Junk
  Word <- MCWord
  Bytes <- MCBytes
  Block <- MCBlock
  DiscId <- MCDiscId
  Texts <- MCTexts
  Disc <- MCDisc
  MaxIndex = 2
  VidDigits = 4
  TrailerParts = 2
  BlobParts = 4
SPECIFICATION ResolveSpec
INVARIANTS
  TypeOK
  DiscsLoaded
  HostPairIsOneRecords
  ResolveTypeOK
  CachedVidIsWhole
  WrongKeyHasACause
PROPERTIES
  Terminates
\* The load returns, and so does the resolution.
CHECK_DEADLOCK FALSE
