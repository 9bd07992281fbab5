\* Three-instruction programs that transfer control and patch themselves.
CONSTANTS
  Optab <- m6502_optab
  Base = 0
  BlockCap = 6
  MaxFuncs = 16384
  Inputs <- FlowInputs
  HostMem <- NoHostMem
  MaxTicks = 0
SPECIFICATION RecompSpec
CONSTRAINT ShallowStack
PROPERTIES
  IsThe6502
