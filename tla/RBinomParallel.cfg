\* Two threads that draw for the same calculation.
CONSTANTS
  Threads = {t1, t2}
  Params = {low, big}
  Trivial = {}
  Small = {low}
  High = {}
  None = None
  MaxRounds = 2
  MaxCalls = 1
SPECIFICATION Spec
INVARIANTS DrawIsOwn
