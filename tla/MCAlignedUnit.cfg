\* Units of 9 blocks in three sectors, with and without the bus layer.
CONSTANTS
  Block <- MCBlock
  aes_128e <- MCaes_128e
  aes_128d <- MCaes_128d
  Xor <- MCXor
  CONTENT_IV <- MCIV
  SectorBlocks <- MCSectorBlocks
  Cases <- MCCases
SPECIFICATION Spec
INVARIANTS
  TypeOK
  StrippedUpToHere
  Recovered
\* The function returns.
CHECK_DEADLOCK FALSE
