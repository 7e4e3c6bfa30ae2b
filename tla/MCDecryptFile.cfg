\* Input and output are two files, or one.
CONSTANTS
  ALIGNED_UNIT_LEN = 3
  Sizes <- MCSizes
  InPlace <- MCBoth
SPECIFICATION FairSpec
INVARIANTS
  TypeOK
PROPERTIES
  StreamSpec
  OutputSpec
  Terminates
\* A run ends.
CHECK_DEADLOCK FALSE
