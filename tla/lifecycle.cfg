SPECIFICATION Spec
CONSTANTS
  Callers = {c1}
  Vaults = {v1, v2}
  Blank = blank
  None = none
  Files = {f, g}
  Standing = {g}
  MaxCrashes = 2
INVARIANTS OwnHistory AnswersCount
PROPERTY FlagsReleased
