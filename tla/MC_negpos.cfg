CONSTANTS
  Lines <- MCNegLines
  FirstBodyLine = 3
  MaxLines = 2
SPECIFICATION Spec
INVARIANT PositionNonNegative
