\* Every three-instruction program over branches, jumps and calls.
CONSTANTS
  Optab <- m6502_optab
  Base = 0
  BlockCap = 4096
  MaxFuncs = 16384
  Inputs <- ControlInputs
SPECIFICATION Spec
CHECK_DEADLOCK FALSE
INVARIANTS
  NoDuplicateBlock
  SeenGetsABlock
  ExitsHaveBlocks
  SplitComplete
  OutsideTargetsRecorded
PROPERTIES
  SplitKeepsCode
