\* Patched operands of the immediate and zero-page modes.
CONSTANTS
  Optab <- m6502_optab
  Base = 0
  BlockCap = 4096
  MaxFuncs = 16384
  Inputs <- OperandInputs
SPECIFICATION EmitSpec
CHECK_DEADLOCK FALSE
INVARIANTS
  PatchedOperandsRead
