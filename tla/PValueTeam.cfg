\* Two threads, up to four trials, failing calls, every order of the seeding, and
\* binomial numbers of a trivial, a small and two large distributions, one reflected.
CONSTANTS
  NumThreads = 2
  Threads = {0, 1}
  TrialCounts = {0, 1, 3, 4}
  PMethods = {"SKIP", "APPROXIMATE", "EXACT"}
  MayFail = {"head", "sample", "fit"}
  Params = {zero, low, big, bigHigh}
  Trivial = {zero}
  Small = {zero, low}
  High = {bigHigh}
  None = None
  MaxRounds = 1
  MaxCalls = 2
SPECIFICATION PFairSpec
INVARIANTS FractionIsExact FailureReported BalancedIsDeterministic UnracedDrawIsOwn CacheCoherent
PROPERTIES PValueTerminates
