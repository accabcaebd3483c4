\* A structured value left open at the newline, then a line that closes it.
CONSTANTS
  Lines <- MCOpenLines
  MaxLines = 3
SPECIFICATION Spec
INVARIANTS
  MetaLineVerdicts
