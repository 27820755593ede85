SPECIFICATION Spec
CONSTANTS
  Callers = {c1, c2}
  Vaults = {v1, v2}
  Blank = blank
  None = none
  Files = {}
  Standing = {}
  MaxCrashes = 0
INVARIANT OneRound
