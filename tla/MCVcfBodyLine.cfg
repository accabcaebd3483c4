\* Three body lines drawn from six shapes; end() at any byte.
CONSTANTS
  Lines <- MCLines
  FirstBodyLine = 3
  MaxLines = 3
SPECIFICATION FairSpec
INVARIANTS
  TypeOK
  ErrorColumn
  BodyLineVerdicts
PROPERTIES
  LineResumes
