\* Command lines and code that ends at the last address.
CONSTANTS
  Optab <- m6502_optab
  Base <- TopBase
  BlockCap = 16
  MaxFuncs = 16384
  Inputs <- NoInputs
  MaxSeeds = 3
  Commands <- TopCommands
SPECIFICATION FairMainSpec
CHECK_DEADLOCK FALSE
INVARIANTS
  TypeOK
  ExitsHaveBlocks
  SeedsFit
  CompilesWhatIsAsked
  EachInstructionEmitted
  SweepShowsTheLine
PROPERTIES
  SplitKeepsCode
  Finishes
