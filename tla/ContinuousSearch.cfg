\* Up to eight points and as many distinct values, an array of one slot that grows
\* three times, strata of two, all three search methods, failing calls; with up to
\* five values <= 0 no stratum, or no candidate at all, may be positive.
CONSTANTS
  Values = {0, 1, 2, 3, 4, 5, 6, 7}
  MaxLen = 8
  FirstCapacity = 1
  MayFail = TRUE
  StratifyFrom = 6
  Subdivision = 2
  GssMargin = 2
  Scores = {1, 2}
  MaxD = 9
  Methods = {"GSS_OR_LINEAR", "STRATIFIED_SAMPLING", "LINEAR_ONLY"}
  MaxNonPositive = 5
  FailingCalls = {"copy", "strata", "pvalue"}
SPECIFICATION FitSpec
INVARIANTS HeapClean WindowNotWorse SuccessMeansFitted TailCounted ListsBlocks
