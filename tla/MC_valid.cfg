\* Spec 4.1: is_valid() after end() only for input without grammar errors.
CONSTANTS
  c1 = c1
  c2 = c2
  Chroms <- MCChroms
  Genotypes <- MCGenotypes
  MaxPos = 2
  IntMax = 2
  MaxLines = 4
  MaxCalls = 1
SYMMETRY MCSymmetry
SPECIFICATION Spec
INVARIANTS ValidMeansNoErrors
