\* An interrupt whose handler is not compiled.
CONSTANTS
  Optab <- m6502_optab
  Base = 0
  BlockCap = 16
  MaxFuncs = 16384
  Inputs <- NoHandlerInputs
  HostMem <- Vector
  MaxTicks = 1
SPECIFICATION RecompSpec
CHECK_DEADLOCK FALSE
PROPERTIES
  IrqRunsHandler
