\* Every record the code tells apart, whole, cut short, missing or twice.
CONSTANTS
  Block <- MCBlock
  aes_128d <- MCaes_128d
  Mask <- MCMask
  VerifyBlocks <- MCVerifyBlocks
  Images <- MCImages
  KeyLists <- MCKeyLists
SPECIFICATION FairSpec
INVARIANTS
  TypeOK
  RecordsTile
  DerivesFirst
PROPERTIES
  Terminates
\* The functions return.
CHECK_DEADLOCK FALSE
