\* plfit: two inputs and six tokens, so that a buffer of one number grows twice and
\* a counter of warnings wraps after three bad characters.
\* plgen: three bins, blocks of two samples, every failing allocation; the weights
\* are finite for a kappa of 50.
CONSTANTS
  MaxFiles = 2
  MaxTokens = 6
  FirstAlloc = 1
  WarnedSize = 3
  Integral = {i1, i2}
  Fractional = {x}
  NumBins = 3
  Grains = 7
  Rounding <- MCRounding
  FailingAllocs = {"array", "indexes", "probs", "long_sticks", "short_sticks"}
  BlockSize = 2
  NumSamples = {0, 3}
  Weights = {0, 1, 2, 4}
  Kappas = {0, 10, 50}
  Gammas = {"nonpositive", "flat", "steep"}
  SizeMax = 255
  ExpLimit = 7
SPECIFICATION MCSpec
INVARIANTS FittedIsTheFile ExitZeroMeansFitted MassPreserved SticksFit EndsClean OnlyWeightedDrawn
