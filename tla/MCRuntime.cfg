\* Every arithmetic helper on all operands in both modes, the stack, the display.
CONSTANTS
  Accumulators <- AllBytes
  Operands <- AllBytes
  Decimal <- BothModes
  Depth = 4
  Pcs <- EdgePcs
  Values <- OneValue
  Machines <- NearTheEnd
  VIC_BORDER = 2
  Font <- FewGlyphs
  Stores <- Screens
  MaxCells = 4
SPECIFICATION RuntimeSpec
CHECK_DEADLOCK FALSE
INVARIANTS
  BinaryAdd
  Subtract
  DecimalArithmetic
  DecimalFlags
  CompareAndRotate
  StackHolds
  InsideBuffer
  DefaultDisplay
  
  LitPixelsAreDrawn
PROPERTIES
  ReturnsRestore
