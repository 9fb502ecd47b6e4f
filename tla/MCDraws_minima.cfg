SPECIFICATION Spec
CONSTANTS
  Base = 4
  Bytes = 2
  FloatMax = 1
  DoubleMax = 2
  DefaultMax = 3
  Unset = Unset
  NaN = NaN
  Refused = Refused
  NoValue = NoValue
  Values = {v1, v2}
  Names <- MCNames
  Requests <- MCRequests
  Char <- MCChar
  NarrowMax = 3
  Printed <- MCPrinted
  PrintedLiterals <- MCLiterals
  MaxSize = 2
  MaxDepth = 2
  MaxDraws = 1
SYMMETRY SameValues
INVARIANTS
  EveryNumberIsExpression
