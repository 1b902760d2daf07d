\* Two threads and three trials of a calculation in which nothing fails and the
\* binomial numbers need no set-up.
CONSTANTS
  NumThreads = 2
  Threads = {0, 1}
  TrialCounts = {3}
  PMethods = {"EXACT"}
  MayFail = {}
  Params = {zero}
  Trivial = {zero}
  Small = {zero}
  High = {}
  None = None
  MaxRounds = 1
  MaxCalls = 2
SPECIFICATION PSpec
INVARIANTS SeededIsDeterministic
