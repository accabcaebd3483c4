\* Spec P1: the order check across a parse() boundary.
CONSTANTS
  c1 = c1
  c2 = c2
  Chroms <- MCChroms
  Genotypes <- MCGenotypes
  MaxPos = 2
  IntMax = 2
  MaxLines = 5
  MaxCalls = 2
SYMMETRY MCSymmetry
SPECIFICATION Spec
PROPERTIES UnsortedWarnedAcrossChunks
