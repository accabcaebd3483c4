\* Whole files of up to four lines over eight line shapes.
CONSTANTS
  Lines <- MCLines
  MaxLines = 4
SPECIFICATION FairSpec
INVARIANTS TypeOK OneErrorPerLine AcceptedColumns
PROPERTIES LineResumes LinesRefined
