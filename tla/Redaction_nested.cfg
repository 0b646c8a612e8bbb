\* Two overlapping findings: characters of a found span are left.
SPECIFICATION Spec
CONSTANTS
  Length = 4
  MaxFindings = 3
  Labels <- MCLabels
  Family <- MCFamily
CHECK_DEADLOCK FALSE
INVARIANT SpansGone
