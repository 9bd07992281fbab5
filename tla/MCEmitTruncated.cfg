\* The comment on blocks that run to the image edge.
CONSTANTS
  Optab <- m6502_optab
  Base = 0
  BlockCap = 4096
  MaxFuncs = 16384
  Inputs <- TruncatedInputs
SPECIFICATION EmitSpec
CHECK_DEADLOCK FALSE
INVARIANTS
  ContinuesElsewhere
