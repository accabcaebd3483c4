\* Spec S6: the missing-contig warning on the first use of a chromosome.
CONSTANTS
  c1 = c1
  c2 = c2
  Chroms <- MCChroms
  Genotypes <- MCGenotypes
  MaxPos = 2
  IntMax = 2
  MaxLines = 4
  MaxCalls = 1
SYMMETRY MCSymmetry
SPECIFICATION Spec
INVARIANTS ContigWarnedAtFirstUse
