\* Three-instruction programs that transfer control and store into themselves.
CONSTANTS
  Optab <- m6502_optab
  Base = 0
  BlockCap = 4096
  MaxFuncs = 16384
  Inputs <- EdgeInputs
SPECIFICATION EmitSpec
CHECK_DEADLOCK FALSE
INVARIANTS
  OneWayOut
  EdgesCompiled
  PatchedOpcodesInterpreted
PROPERTIES
  Emits
