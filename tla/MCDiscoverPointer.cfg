\* A jump through a pointer at the end of a page.
CONSTANTS
  Optab <- m6502_optab
  Base = 0
  BlockCap = 4096
  MaxFuncs = 16384
  Inputs <- PointerInputs
SPECIFICATION FairSpec
CHECK_DEADLOCK FALSE
INVARIANTS
  IndirectTargetsFollowed
