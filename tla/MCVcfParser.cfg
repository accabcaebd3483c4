\* The core run: the scanner, its recovery, the body checks, and the
\* refinement of the line-level specification VcfLines.
CONSTANTS
  c1 = c1
  c2 = c2
  Chroms <- MCChroms
  Genotypes <- MCGenotypes
  MaxPos = 2
  IntMax = 1
  MaxLines = 5
  MaxCalls = 2
SYMMETRY MCSymmetry
SPECIFICATION Spec
INVARIANTS TypeOK LineVerdicts ContigWarnedOnce
PROPERTIES MetaFrozen PloidyWarned SortWarningSound LinesRefined
