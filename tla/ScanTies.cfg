\* Two threads, three positive candidates that may share a D-score, one at a time.
CONSTANTS
  Threads = {t1, t2}
  NumProbes = 4
  Chunk = 1
  Scores = {1, 2}
  MaxD = 9
  MaxNonPositive = 0
  NoThread = NoThread
SPECIFICATION Spec
INVARIANTS SameAsSequential
