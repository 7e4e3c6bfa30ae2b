\* Any mixture of short reads, interruptions, errors and further calls.
CONSTANTS
  ALIGNED_UNIT_LEN = 4
  Sizes <- MCSizes
SPECIFICATION FairSpec
INVARIANTS
  TypeOK
  InFileOrder
PROPERTIES
  EveryCallReturns
