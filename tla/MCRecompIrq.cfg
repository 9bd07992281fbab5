\* Interrupts at every block boundary of a main loop, with a compiled handler.
CONSTANTS
  Optab <- m6502_optab
  Base = 0
  BlockCap = 16
  MaxFuncs = 16384
  Inputs <- IrqInputs
  HostMem <- Vector
  MaxTicks = 3
SPECIFICATION FairRecompSpec
CHECK_DEADLOCK FALSE
PROPERTIES
  IsThe6502
  ReturnsToDriver
  StaysCompiled
