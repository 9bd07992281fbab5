\* Text in the built-in font, one character of it reversed.
CONSTANTS
  Accumulators <- NoBytes
  Operands <- AllBytes
  Decimal <- BothModes
  Depth = 0
  Pcs <- EdgePcs
  Values <- OneValue
  Machines <- NearTheEnd
  VIC_BORDER = 2
  Font <- FewGlyphs
  Stores <- DrawnScreens
  MaxCells = 4
SPECIFICATION RuntimeSpec
CHECK_DEADLOCK FALSE
INVARIANTS
  ReverseBitHandled
