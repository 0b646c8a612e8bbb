\* Every list of at most three findings in a text of four characters.
SPECIFICATION Spec
CONSTANTS
  Length = 4
  MaxFindings = 3
  Labels <- MCLabels
  Family <- MCFamily
CHECK_DEADLOCK FALSE
INVARIANTS
  TypeOK
  NoSpanSurvives
  TextKept
  VaultExplains
