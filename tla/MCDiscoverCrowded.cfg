\* Tables of two blocks, blocks of at most four bytes.
CONSTANTS
  Optab <- m6502_optab
  Base = 0
  BlockCap = 4
  MaxFuncs = 2
  Inputs <- CrowdedInputs
SPECIFICATION FairSpec
CHECK_DEADLOCK FALSE
INVARIANTS
  TableBounds
  OnePlace
  SeenGetsABlock
  ExternalsOutside
PROPERTIES
  FindsLeaders
  Terminates
