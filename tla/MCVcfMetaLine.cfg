\* Three meta lines drawn from eight shapes; end() at any byte.
CONSTANTS
  Lines <- MCLines
  MaxLines = 3
SPECIFICATION Spec
INVARIANTS
  TypeOK
  MetaLineVerdicts
  AltLinesAsSpecified
