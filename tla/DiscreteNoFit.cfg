\* The finite-size correction when no point is at or above one.
CONSTANTS
  MaxLen = 2
  MaxValue = 2
  Scores = {1, 2}
  MaxD = 9
  Methods = {"LINEAR_SCAN"}
  Corrections = {TRUE}
  MayFail = {}
SPECIFICATION Spec
INVARIANTS SuccessMeansFitted
