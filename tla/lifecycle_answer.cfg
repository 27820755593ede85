SPECIFICATION Spec
CONSTANTS
  Callers = {c1}
  Vaults = {v1}
  Blank = blank
  None = none
  Files = {f}
  Standing = {}
  MaxCrashes = 1
PROPERTY AnswersOneConflict
