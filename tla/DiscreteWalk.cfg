\* Every sorted data set of up to five points with values 0 (below one) to 4, every
\* estimation method, with and without the correction, and every call that may fail.
CONSTANTS
  MaxLen = 5
  MaxValue = 4
  Scores = {1, 2}
  MaxD = 9
  Methods = {"LBFGS", "LINEAR_SCAN", "PRETEND_CONTINUOUS", "other"}
  Corrections = {TRUE, FALSE}
  MayFail = {"malloc", "lbfgs", "pvalue"}
SPECIFICATION Spec
INVARIANTS PointersInBounds TailIsExact BestIsFirstMinimal NoCandidateSkipped FittableMeansFitted
