\* A cutoff for which exp of the unsigned exponent overflows.
CONSTANTS
  NumBins = 3
  Grains = 7
  Rounding = {0}
  FailingAllocs = {}
  BlockSize = 2
  NumSamples = {1}
  Weights = {0, 1, 2}
  Kappas = {10}
  Gammas = {"steep"}
  SizeMax = 255
  ExpLimit = 7
SPECIFICATION GenSpec
INVARIANTS CutoffSampled
