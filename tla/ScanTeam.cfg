\* Three threads, three candidates of which any number may be <= 0, both error handlers, every pattern of ties.
CONSTANTS
  Threads = {t1, t2, t3}
  NumProbes = 4
  Chunk = 2
  Scores = {1, 2}
  MaxD = 9
  MaxNonPositive = 3
  NoThread = NoThread
SPECIFICATION FairSpec
INVARIANTS BestIsMinimal BestIsOneFit
PROPERTIES ImplementsScanSpec ScanTerminates
