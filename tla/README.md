# TLA+ models of plfit

plfit fits power laws to empirical data: it searches for the lower cutoff
`xmin` whose maximum-likelihood fit has the smallest Kolmogorov-Smirnov score
`D`, and can estimate a p-value by repeating the fit on synthetic data. This
directory holds TLA+ models of the parts of plfit that have control flow worth
arguing about, TLC configurations that check them on small instances, and
TLAPS proofs of the main results for all instances. Paths below are relative to
the repository root; line numbers are in `PROJECT.json` under `map`.

Numbers are abstracted to what the control flow tells apart: a D-score or an
objective value is a rank in a small set, `DBL_MAX` a rank above them, and an
`xmin`, `alpha` or `n` is named by the data point it was computed from, so that
a result assembled from two different evaluations is visible. Indices, counts,
capacities, window arithmetic, array bounds and wrapping counters are integers.

## 1. Inventory

| Component | State | Operations | Correct when | Modelled |
|---|---|---|---|---|
| Linear scan (`src/plfit.c`) | shared best fit and its `n`; per thread: best fit, last evaluation | OpenMP loop with dynamic chunks and `nowait`, critical merge | one evaluation of minimal D is returned, whatever the interleaving | yes |
| Continuous fit (`plfit_continuous`) | sorted copy, unique values, strata, best fit, `best_n` | golden section, stratified or linear search, likelihood, p-value, cleanup | searches stay in bounds, the tail is counted exactly, memory is freed once | yes |
| Unique elements (`unique_element_pointers`) | growing pointer array | allocate, scan, enlarge, add the guard | lists all block starts, never writes outside the array | yes |
| Golden section search (`src/gss.c`) | bracket, inner point, minimum so far | evaluate, narrow, give up | ends, and its last fit is the best one it saw | but for its warnings |
| Discrete fit (`plfit_discrete`) | sorted copy, two pointers, count of skipped points, best fit | skip, retreat twice, try every distinct value, finish | each candidate tried once, tail exact, what can be fitted is | yes |
| p-value (`plfit_i_calculate_p_value_*`) | master and private generators, shared counter and return code, buffers | seed, allocate, trials, reduction, join | fraction exact, failures reported, seeded runs repeatable | but for the contents of the samples |
| Binomial generator (`src/rbinom.c`) | static constants and the parameters they belong to | check, set up, draw | a draw uses the constants of its own parameters | the cache |
| L-BFGS (`src/lbfgs.c`) | workspace, ring of corrections, ring of past values, current and previous point | check, allocate, search, test, store, two loops, free | the answer is no worse than the guess, the rings hold what is read from them | control and memory, not the orthant projections |
| Alias sampler (`src/sampling.c`) | table, two stacks of bins | build, draw, destroy | the table keeps the probabilities | yes |
| `plgen` (`src/plgen.c`) | options, array of weights, sampler, samples left | parse, weigh, sample in blocks | prints the promised number of samples of the promised law | yes |
| `plfit` (`src/main.c`) | options, open input, growing buffer, counter of bad characters | read, grow, fit, next file | fits exactly what the files hold; the exit status tells | but for `getopt` and the output's layout |
| Fixed-cutoff estimators (`plfit_estimate_alpha_*`) | sorted copy | check, fit | refuse what cannot be fitted | as outcomes of the fitter |
| Error handling (`src/error.c`) | current handler | abort, print, ignore | "process ends" or "code is returned" | as behaviours of the fits |
| Mersenne Twister (`src/mt.c`) | buffer and index | seed, next, uniform number | streams of two seeds differ | seeding and range only |
| `src/hzeta.c`, `src/kolmogorov.c`, `src/stats.c`, `src/options.c`, `src/plfit.i` | none | formulas, defaults, bindings | numerical accuracy | no |

How they interact. `plfit` reads numbers and calls `plfit_continuous` or
`plfit_discrete`, or an estimator with a fixed cutoff. `plfit_continuous` calls
`unique_element_pointers`, then `gss` (with two callbacks into `src/plfit.c`)
and/or the linear scan, and finally the p-value function. The p-value function
calls the resampler, which calls `plfit_rbinom`, and the whole fit again for each
synthetic data set, from all threads of its team. `plfit_discrete` estimates an
exponent for each candidate with `lbfgs`, which calls one of three line searches
through a function pointer. `plgen` builds an alias table and draws from it. The
linear scan and the p-value are the two parallel regions.

What is hard to test here: the interleavings of those two regions; error codes
that are dropped, so that the previous evaluation's values are used again;
pointer arithmetic at the first and last block of equal values; rings indexed
modulo their length; early returns between an allocation and its `free`; loops
whose end depends on rounding; and a static cache shared by threads.
`PROJECT.json` lists each at its line under `hazards`.

## 2. Modules

**The scan.** `ScanSpec` says what a scan promises: it returns once, with a fit
of minimal D, or the initial values if no candidate is positive; about a
candidate at or below zero it promises only that its report beats every positive
one.
`LinearScan` is the OpenMP team, one action per step that another thread can
observe: taking a chunk, evaluating a probe, entering the critical section, the
comparison, the two assignments, leaving. `nonPositive` leading probes are
refused by the estimate; with a handler that returns, the stale exponent makes D
arbitrary, infinite included (`pow(0, alpha - 1)` with an `alpha` below 1,
`src/plfit.c`, line 281): a candidate with such a D is not taken, and if all are
like that the initial values come back. With the default handler the process
ends. `MaxD` stands for `DBL_MAX` and infinity. A team of one thread is
the build without OpenMP. `ImplementsScanSpec` is the refinement (`returned` is
`phase = "returned"`). `MCLinearScan` adds the thread symmetry.

**The continuous fit.** `UniquePointers` is `unique_element_pointers`; the array
is a function on the slots that were allocated, so that a write outside them is
visible. Its `Init` covers the direct call; `Called` is the state on entry that a
caller establishes. `ContinuousFit` extends it: `plfit_continuous` runs the steps
of `UniquePointers` on its own sorted data, and searches the unique elements it
gets back. The scans are used through what `ScanSpec` promises and the golden
section search through what `GoldenSection` shows of a success. The initial
values of a scan (`NoFit`) have `xmin = 0`, which a stratum may happen to hold:
then the window is taken around it, otherwise the search falls back to the linear
scan (`StrataHit`, `LocateStratum`). Each allocation
is null, held, dangling or corrupt (freed twice). `GoldenSection` is `gss` with
plfit's callbacks; abscissae are fixed-point numbers, with the section point
rounded towards the inner point, so that termination depends on truncation as
in the code. The section ratio is assumed to be at least a third and below a
half, as `RESPHI` (0.38) is: with a fifth the minimum of a U-shaped function can
be missed by more than one probe.

**The discrete fit.** `DiscreteFit` is `plfit_discrete` loop iteration by loop
iteration: `px`, `endXmin` and `m` are the code's pointers and counter as
integers; a candidate's D is chosen when it is tried. `MayFail` says which calls
may fail.

**The minimiser.** `Lbfgs` is `lbfgs` and the estimator that calls it, whose own
block is written without a test for NULL (state `crashed`). The objective at a
point is a rank; the memory is a map from blocks to null, held,
freed, garbage (never cleared) or corrupt; a slot of the ring of corrections
holds the iteration that wrote it and the one that left its multiplier, a slot of
the ring of past values the iteration it stands for. The backtracking searches
are steps of `Lbfgs`; More and Thuente's is used through its exits and modelled in
`MoreThuente`: steps, values and slopes are integers, the objective along the
direction is chosen where it is evaluated and remembered, the minimisers of the
interpolating polynomials are any point of the side of the trial they belong to.
`MCMinimisers` gives the sets of integers.

**The p-value.** `RBinom` is the static cache of `plfit_rbinom`, used by the
threads of successive calculations. `PValue` extends it: both p-value functions
(which differ only in the fits they call), each of whose trials draws a binomial
number through the steps of `RBinom`. The verdict of a trial is a function of the
seed of the thread's generator and of the trial's position in that stream, which
makes results of different schedules comparable. A draw with the constants
of another set-up leaves the stream, and so does a thread that has retried: each
pass of `src/rbinom.c`, lines 188-200, takes another number from its generator
(`retried` remembers it).

**The generator.** `AliasSampler` builds, uses and destroys Walker's table. A
probability is a number of grains, each product and each pairing may be off by
one; what is left of a long stick is never negative (`Rests`), since a sum that
is rounded from a value of at least one is at least one. `PlGen` extends it with `plgen`: option outcomes, the three kinds of samples
and the array of weights, computed from the value it should have and from the
code's own unsigned exponent. `MCPlGen` gives the rounding errors.

**The fitter.** `Fitter` is `plfit`: its inputs, the reader with its buffer, the
counter of bad characters with its width, the fits with a fixed cutoff, and the
exit status. `ContinuousFit` and `DiscreteFit` model the other fits.

**Shared runs.** The minimisers see nothing of each other's state, nor does a
process of `plfit` of one of `plgen`. `MCMinimisers` and `MCCommandLine` therefore
check several components in one run: a variable says which one is called or
started, it alone takes steps, by the next-state relation of its own module, and
the others rest. The state space is the disjoint union of theirs, so that every
property is checked on all behaviours of its component. (That is also why the
variables of `GoldenSection` and `MoreThuente` carry prefixes: `gssPc` and
`linePc` are their control, `score` the function that `gss` minimises.)

**The proofs** are in modules that extend the model they are about:
`LinearScanProofs`, `DiscreteFitProofs`, `ContinuousFitProofs` (with
`UniquePointers`), `GoldenSectionProofs`, `LbfgsProofs`, `MoreThuenteProofs`,
`PValueProofs` (with `RBinom`) and `CommandLineProofs` (`Fitter`, then `PlGen`
with `AliasSampler`). The inductive invariants are in the models, under the
properties that follow from them.

Operators marked `Mutant` are plausible mistakes in the definition below them;
each property of a passing run is violated when one of them is substituted.

OpenMP itself (dynamic and static schedules, barriers, critical sections),
`calloc` and `free` are external: they are modelled from how the code relies on
them.

## 3. Runs

| Run | Module | Bounds | Shows |
|---|---|---|---|
| `ScanTeam` | `MCLinearScan` | 3 threads, 3 candidates in chunks of 2, 2 scores and infinity, 0 to 3 candidates at or below zero, both handlers | minimality, one evaluation or none that was usable, refinement of `ScanSpec`, termination |
| `DiscreteWalk` | `DiscreteFit` | all sorted data of at most 5 points, values 0 to 4, all methods, correction on and off, failing calls | bounds, exact tail, first minimum, no candidate missed, what can be fitted is fitted |
| `Minimisers` | `MCMinimisers` | `gss`: 6 probes, 6 scores (every order of them), 10 steps per probe. `line_search_morethuente`: steps 2 to 8, 5 evaluations, every objective with five values and five slopes on them, first steps below, inside and above the limits. `lbfgs`: 3 corrections, 2 evaluations per line search, 5 iterations, past values 0, 2 and 3 iterations back, every method, every failing allocation, at most 2 invalid parameters | `gss`: success is interior, the last fit is the best, minimum of a U-shaped function up to one probe, termination. `line_search_morethuente`: the interval update never refuses its arguments, the best step keeps the promise of `ftol`, a bracket only shrinks. `lbfgs`: workspace and variable freed once, right corrections in both loops, right past value, answer no worse than the guess, termination |
| `ContinuousSearch` | `ContinuousFit` | at most 8 points in every pattern of repetition, an array that starts with 1 slot, strata of 2 from 6 values on, margin 2, at most 5 values at or below zero, all methods, failing allocations | memory, the window around the best stratum, the tail, the unique elements, what success means |
| `PValueTeam` | `PValue` | 2 threads, 0, 1, 3 or 4 trials, 4 parameter pairs of which 1 is trivial, 1 is drawn by inversion and 1 reflected, failing allocations and fits | exact fraction, failures reported, determinism for even division without failing fits, retries and foreign constants, draws that meet no set-up under way are their own, the cache is coherent at rest, termination |
| `CommandLine` | `MCCommandLine` | `plfit`: 2 inputs, 6 tokens, a buffer of 1 number, a counter of 3 values. `plgen`: 3 bins of weight 0, 1, 2 or 4, rounding errors of a grain either way, blocks of 2 samples, 0 or 3 samples, failing allocations | `plfit`: what is fitted is what was read, exit status 0 hides no failed input. `plgen`: the table keeps the probabilities, its stacks fit, no bin without a weight is drawn, memory and number of samples |
| `DiscreteNoFit` | `DiscreteFit` | sorted data of at most 2 points | violated: success means fitted |
| `RBinomParallel` | `RBinom` | 2 threads in one calculation | violated: a draw uses its own constants |
| `GeneratorCutoff` | `MCPlGen` | 3 bins, a cutoff | violated: the samples follow the cutoff |
| `ScanTies` | `MCLinearScan` | 2 threads, 3 positive candidates, 2 scores, chunks of 1 | violated: same result as the sequential loop |
| `PValueSeeded` | `PValue` | 2 threads, 3 trials, nothing fails, no set-up needed | violated: a seeded p-value is reproducible |
| `FitterComment` | `Fitter` | 1 input, 2 tokens | violated: the program ends |

Why the bounds suffice. The scan needs two threads to race, a third to make the
winner of a merge neither first nor last, a chunk that is cut off at the end of
the loop, and two scores, so that both ties and a better one occur; all of the
candidates may be at or below zero, and their scores infinite. The discrete walk's pointers compare only neighbouring blocks, so four
distinct values with repetitions, behind skipped values, produce every relative
position. Six scores for six probes give the golden section search every order;
ten steps per probe let the bracket shrink to a point before its ends truncate to
the same probe. Strata of 2 instead of 10 keep the first stratum, an inner one
and a remainder behind the last one apart; a first capacity of 1 instead of 15
makes the array of unique elements grow three times. The trial counts divide
evenly and not, and give a thread two trials in a row, which a stale verdict
needs. Three corrections and five iterations fill the ring and overwrite its
oldest slot, so that both loops run over a part of the ring, over all of it, and
across its end; two past values wrap around twice. Five evaluations of the line
search allow two updates of a bracketed interval in the first stage and a later
change from the modified function to the objective. Three bins are the fewest
where a long stick becomes a short one and is topped up by another. A buffer of
one number grows twice within six tokens, and the small counter wraps.

Six properties are stated by the documentation and not met by the code. Each
has a run that expects the violation and an entry under `findings`:

* `DiscreteNoFit`: data below 1 with the finite-size correction are reported as
  a successful fit with an infinite exponent (`include/plfit.h`, line 57).
* `RBinomParallel`: a thread may draw with constants another thread has not
  computed yet (`src/rbinom.c`, line 84; `include/plfit_sampling.h`, line 36).
* `GeneratorCutoff`: with a cutoff, `plgen -k`, the weights overflow because
  `-i` is unsigned (`src/plgen.c`, line 183), and only the smallest value is ever
  drawn, where the usage message (line 58) promises a power law with an
  exponential cutoff. The compiled program behaves like this.
* `ScanTies`: with equal D-scores the parallel scan may report another candidate
  than the sequential one, since ties are resolved by the order of the merges
  (`src/plfit.c`, line 553), although `README.rst`, line 206, wants the results to
  be exactly the same.
* `PValueSeeded`: a seeded parallel p-value depends on the order in which the
  threads draw their seeds (`src/plfit.c`, line 346) when they do not all run the
  same number of trials; `README.rst`, line 249, promises that `-s` makes the
  procedure fully deterministic. `BalancedIsDeterministic` says where it is.
* `FitterComment`: a comment that ends in the end of the file and not in a newline
  is skipped for ever (`src/main.c`, line 244), although `README.rst`, line 117,
  says that comments are supported. The state `unterminated` is that endless loop:
  the program has not ended there.

Observations made while modelling, visible in the models but without a run:

* a scan in which every candidate is at or below zero may return its initial
  values, `xmin = 0` and `n = 0`, as a success, although it had candidates
  (`src/plfit.c`, lines 281 and 538); `plfit_continuous` then fails in the
  likelihood, and `SuccessMeansFitted` covers it;
* `best_n` is one too large after a golden section search that succeeds
  (`src/plfit.c`, lines 631 and 453): `TailCounted` allows it there and only there;
* the inner loop of `plfit_discrete` may run up to `end_xmin` and try a tail of
  two distinct values although the comment at `src/plfit.c`, line 1216, wants
  three if possible (1, 2, 2, 3, 4 tries 3);
* `plfit_discrete` returns from its loop, or after a failing likelihood or
  p-value, without freeing its copy (`src/plfit.c`, lines 1234-1260), and so do
  the estimators with a fixed cutoff (line 443);
* `gss` also gives up on a U-shaped function whose minimum is close to an end,
  although `src/gss.h`, line 111, ties the failure to functions that are not
  U-shaped; `plfit_continuous` then falls back to the linear scan. A successful
  search may miss the minimum of a U-shaped function by one probe, because
  abscissae are truncated (scores 5, 4, 3, 2, 1, 5 end at 2);
* the last stratum is never tried and the second scan of stratified sampling
  does not reach `strata[i+1]`, although the comment at `src/plfit.c`, line 668,
  says so;
* also with an even division a seeded parallel p-value can change: when a thread
  finds the saved parameters current while `qn` is still zero it takes one more
  uniform number for each retry (`src/rbinom.c`, line 191);
* a synthetic fit that fails is counted with the thread's previous D, or with an
  unset one (`src/plfit.c`, lines 369-371);
* a thread without a sample buffer does not meet the barrier of the trial loop
  (`src/plfit.c`, line 360);
* `plfit_estimate_alpha_discrete` accepts a tail without points and answers 3,
  the initial guess of the minimiser (`src/plfit.c`, line 1157);
* the index of a resampled point is one past its array when the uniform number
  is exactly 1 (`src/plfit.c`, line 1280);
* `plfit_rzeta` with an exponent up to 1 practically never finds a number
  (`src/sampling.c`, line 124);
* after a failed line search `lbfgs` restores the point and not the value it
  reports (`src/lbfgs.c`, line 481); plfit does not ask for the value;
* the block for the variable of the minimiser is used without a test for NULL
  (`src/plfit.c`, line 903);
* 65536 bad characters pass for none (`src/main.c`, line 246), a
  standard input that is named twice is read after it was closed (line 407), the
  option string has a letter `t` that no case handles, and a failing allocation
  of the reader does not change the exit status (line 230).

**Fairness.** The golden section search, the minimiser and the fitter are
sequential and take their next step while they have one: weak fairness of the
next-state relation (of `Run` for the fitter, whose inputs end; `FitterComment`
shows that it need not end all the same). `Lbfgs` has no
limit of its own in plfit (`max_iterations` is 0), so its termination is claimed
for calls with a limit, and for every line search. Threads of a team are each
weakly fair: the operating system schedules them, and since each enters a
critical section once and leaves it after boundedly many steps, nothing stronger
is needed. `PValueTerminates` is claimed where all sample buffers are allocated:
otherwise OpenMP leaves the outcome undefined, and the model allows the others to
wait forever (`WaitForever`). `plfit_rbinom` retries while `qn` is still zero;
weak fairness of the other thread's step ends that.

**Deadlock** is checked in all runs; finished states stutter explicitly, so a
deadlock means that somebody is stuck.

## 4. Proofs

All theorems hold for every value of the constants under the named assumptions
(`ScanAssumption`, `DiscreteAssumption`, `UniqueAssumption`,
`ContinuousAssumption`, `GssAssumption`, `LbfgsAssumption`,
`MoreThuenteAssumption`, `RBinomAssumption`, `PValueAssumption`,
`FitterAssumption`, `AliasAssumption`, `PlGenAssumption`), which TLC evaluates in
the runs. Every safety invariant and every action property of a passing run is
the conclusion of a theorem. Few of them are inductive; what follows says for
each module what had to be added.

* `LinearScanProofs`. `BestIsMinimal` says nothing before the return. `ScanInv`
  adds that every unscored candidate is still to be handed out or in some
  thread's chunk (`NothingSkipped`), that every scored one is matched or beaten
  by some thread's private best (`LocalInv`), that only the lock holder is inside
  the critical section (`LockInv`), and that the shared best is at least as good
  as that of every thread that has merged (`GlobalInv`). At the return all
  threads have merged, so the shared best is minimal (`ScanMinimal`). The same
  invariant gives `ScanOneFit`, `ScanChunksDisjoint`, the action property
  `ScanMonotone`, and the refinement `ScanRefines`; the lemma `NothingMeansNoPositive`
  shows that the initial values come back only without a positive candidate.
  The sequential answer is not among the theorems: it is not true with ties.
* `DiscreteFitProofs`. `DiscreteInv` relates `m`, `px` and the values before and
  after `px`, and says that during the scan `endXmin` either starts a block of
  equal values or lies just behind the only candidate: that is why the fit at
  `*px` after the inner loop ran up to `end_xmin` still reads an element
  (`DiscreteInBounds`), and why `best_n` is exact (`DiscreteTail`). `HistoryInv`
  adds what the walk has done: behind `end_xmin` no value has two larger ones
  (`EndInv`), every block before `px` was tried at its start (`ScannedInv`), the
  best result is the first minimum of the tried ones (`BestInv`), and the
  exponent is the initial one exactly while nothing is chosen (`OutcomeInv`).
  From it follow `DiscreteBest`, `DiscreteComplete` and `DiscreteSuccess`.
* `ContinuousFitProofs`. `UniqueInv` states the result of
  `unique_element_pointers` for the part already scanned together with
  `used <= cap`, which leaves the guard's slot free (`UniqueSlotsSuffice`,
  `UniqueListsBlocks`, for any array). `FitInv` carries it through
  `plfit_continuous` (`FitListsBlocks`) and adds the blocks that are held at each
  place (`HeapInv`, for `FitHeapClean`), what a search may leave in the best
  result (`CandidateInv`, `FoundInv`, for `FitSuccess`), where the second window
  lies with respect to the best stratum (`WindowInv`, for `FitWindow`; after a
  scan without a usable score only that the window fits in the array), and how
  `best_n` counts repeated values (`TailInv`, for `FitTail`).
* `GoldenSectionProofs`. `GssInv`: the inner point lies between the ends, its
  value is below those of both ends, and abscissae, values and the last fit
  belong together; the first two properties follow. `ValleyInv`: the minimum of a
  U-shaped function lies strictly inside the bracket, or the inner point has come
  to stay at it or at its neighbour, because truncation of an abscissa may cut
  the minimum off. A section point can meet the inner point's probe only when the
  end on that side is at most two probes away (`SameProbeNear`), which takes a
  section ratio of at least a third.
* `LbfgsProofs`. `LbfgsInv` is the conjunction of `HeapInv` (which blocks are
  held at which label, the caller's included, for `LbfgsReleases`), `RingInv` (correction `t` is in slot
  `(t - 1) % M`, and which multipliers the loop has already set, for
  `LbfgsCorrections`), `PastInv` (which iteration each slot of the past values
  stands for, for `LbfgsPast`) and `AnswerInv` (for `LbfgsAnswer`).
* `MoreThuenteProofs`. `SearchInv`: the recorded objective and the evaluations
  agree (`RecordInv`); unless the search was rejected because the objective grows
  along its direction (`RejectedInv`), the best step lies below the line of
  `ftol` and the objective descends from it into the interval (`IntervalInv`);
  the next trial lies inside that interval and is not an answer already
  (`StepInv`). It gives `SearchNotRefused` and `SearchDecreases`, and with one
  step `SearchShrinks`. The change of functions in the middle of the search is
  the difficult case: the best step found for the modified function has to
  satisfy what the invariant says of the objective.
* `PValueProofs`. `BinomialInv` says which of the constants are set while a
  thread sets them up (`DrawInv`) and that they are there when nobody does
  (`CacheInv`): `BinomialUnraced` for calculations that follow one another,
  `PValueUnraced` and `PValueCache` for one. `PValueInv` adds that a thread has
  filled its static block up to its next trial (`TrialInv`), that the shared
  count is that of the blocks already added (`TeamInv`) and which code is
  returned (`ReturnInv`): `PValueFraction`, `PValueFailure`. For
  `PValueDeterministic`, seeds are given out in order (`SeedInv`), and a verdict
  is that of its place in a stream (`StreamInv`) as long as no thread has retried
  or drawn with foreign constants; `RetryKeeps` shows what a retry leaves alone.
* `CommandLineProofs`. For `plfit`, `FitterInv`: there is room for the next number
  wherever one is stored (`RoomInv`), the buffer and its flags say what was read
  (`ReadInv`), and while the exit status is 0 every input taken up is fitted or
  given up for want of memory (`TallyInv`): `FitterReadsFile`, `FitterExitZero`.
  The lemma `CounterWraps` makes the warning counter count modulo its size.
  For `plgen`, `GenInv`: the blocks held and the samples left (`HeldInv`,
  `CountInv`: `GenEndsClean`), the two stacks hold different bins and a bin moves
  to the short ones only after one has left them (`StackInv`: `GenSticksFit`), a
  bin without a weight is never long and a settled one has an alias with a weight
  (`TableInv`, `PairInv`, `DrawInv`: `GenOnlyWeighted`), and `BalanceInv` for
  `GenMassPreserved`: what the bins have beyond their due adds up to the excess
  of the bins that are not settled, and the absolute errors to no more than one
  grain for each bin and each settled bin. When one stack is
  empty the bins left over are all on one side, so that setting them to one moves
  none by more than all the errors together; a weightless bin cannot be among
  them because `Grains > 2 * NumBins`, that is, because a double tells many more
  values below 1 apart than there are bins.

The sums over all bins in the last proof would be inductions over a fold, which
the library states with an operator parameter that the installed provers cannot
instantiate. They are proved through a smallest counterexample instead: the set
of the numbers for which the statement fails is defined, and a least member of
it, if there were one, is led to a contradiction. The proofs about the rings and
the counts avoid induction over data altogether.

Proving changed the models where they were wrong or too weak to be reasoned
about: the subscript of `FitSpec` now includes the variables of
`UniquePointers`; the section ratio and the rests of long sticks have the bounds
that the code gives them; `StackInv` covers the sticks while they are counted.

Only model-checked are the liveness properties `ScanTerminates`,
`SearchTerminates`, `PValueTerminates` and `MinimiserTerminates`: fairness and `ENABLED` are out of the prover's reach.

## 5. Not modelled, and the plan

Not modelled, and why:

* floating-point arithmetic: likelihoods, the Hurwitz zeta function, the
  Kolmogorov distribution, moments, and values that are not a number in the
  minimiser and its line searches;
* the distribution of random numbers, the state update of the Mersenne Twister,
  and the contents of a resampled data set;
* the projections of the orthant-wise method, which change a direction, and the
  SSE kernels, which compute what `arithmetic_ansi.h` does;
* the public wrappers of the p-value and the resampling functions, which
  allocate, call once and free; warnings of `gss`; replacing the error handler
  at run time; conversion of a precision to a number of trials when it overflows;
* default options, `getopt`, the layout of the output, and the generated
  bindings.

What is left:

1. Safety counterparts of termination, which can be proved: a variant of the
   golden section search (its bracket), of the backtracking line searches (the
   evaluations left), and of the minimiser with a limit of iterations.
2. That a scan used inside `ContinuousFit` is one that `ScanSpec` allows, and a
   golden section search one that `GoldenSection` allows, as refinements instead
   of by the correspondence described in section 2.
3. The public wrappers of the p-value and the resampling functions, whose early
   returns hold a buffer.
