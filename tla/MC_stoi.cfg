\* Spec 7/9: no exception escapes parse().
CONSTANTS
  c1 = c1
  c2 = c2
  Chroms <- MCChroms
  Genotypes <- MCGenotypes
  MaxPos = 2
  IntMax = 1
  MaxLines = 4
  MaxCalls = 1
SYMMETRY MCSymmetry
SPECIFICATION Spec
INVARIANTS NoEscapedException
