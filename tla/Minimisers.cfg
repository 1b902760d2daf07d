\* gss: a bracket of six probes on a grid so coarse that it can also shrink to a
\* point.  The line search: steps 0 to 8 and at most five evaluations, two after the
\* minimum is bracketed in the middle of the first stage; a first step of 1 is below
\* the least step; ftol is 1/3 and gtol 2/3.  lbfgs: three corrections, two
\* evaluations per line search, limits of 0 and 5 iterations, every allocation
\* failing in turn.
CONSTANTS
  Right = 5
  Scores = {1, 2, 3, 4, 5, 6}
  Unit = 10
  Resphi = 4
  MinStep = 2
  MaxStep = 8
  MaxEvaluations = 5
  FtolInv = 3
  GtolNum = 2
  XtolInv = 8
  StartSlopes <- MCStartSlopes
  FirstSteps = {0, 1, 3, 9}
  Values <- MCValues
  Slopes <- MCSlopes
  M = 3
  MaxLineSearch = 2
  Iterations = {0, 5}
  Pasts = {0, 2, 3}
  Methods = {"MORETHUENTE", "ARMIJO", "WOLFE", "STRONG_WOLFE", "OWLQN"}
  Ranks = {0, 1}
  MaxK = 5
  MaxBad = 2
SPECIFICATION MCSpec
INVARIANTS SuccessIsInterior LastFitIsBest UShapedMinimumNear UpdateNeverRefuses BestStepDecreases WorkspaceReleased CorrectionsInOrder PastIsThatFarBack AnswerNotWorse
PROPERTIES SearchTerminates BracketOnlyShrinks MinimiserTerminates
