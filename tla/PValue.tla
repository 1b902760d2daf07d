------------------------------- MODULE PValue -------------------------------
(* plfit_i_calculate_p_value_continuous and plfit_i_calculate_p_value_discrete
   (src/plfit.c), which are the same code up to the fits they call: the p-value
   of a fit by resampling, with an OpenMP team that shares the trials.

   Each trial resamples, which starts with a call of plfit_rbinom whose steps are
   those of RBinom, and fits the sample.  A thread's private generator is the
   number of the seed it drew from the master generator, and what the k-th trial
   on that stream finds (a synthetic D-score above the original one or not) is
   remembered in the function above, so results can be compared between
   schedules.  The loop over the trials has the static
   schedule that libgomp gives a loop without a schedule clause.  The error
   handler in force returns to the caller.                                   *)
EXTENDS RBinom

CONSTANTS
  NumThreads,    \* size of the OpenMP team
  TrialCounts,   \* values of 0.25 / precision^2 tried; 0 is an invalid precision
  PMethods,      \* values of p_value_method tried
  MayFail        \* calls that may fail: "head", "sample", "fit"

ASSUME PValueAssumption ==
  /\ NumThreads \in Nat \ {0} /\ Threads = 0 .. NumThreads - 1
  /\ TrialCounts \subseteq Nat /\ TrialCounts # {}
  /\ PMethods \subseteq {"SKIP", "APPROXIMATE", "EXACT"}
  /\ MayFail \subseteq {"head", "sample", "fit"}

Nobody   == -1
Unset    == -1            \* no seed yet, no p-value yet

VARIABLES
  method, numTrials,
  above,         \* above[s][k]: verdict of trial k of the stream with seed s, if known
  phase,         \* the calling thread: "check", "parallel" or "returned"
  at,            \* where each thread is in the parallel block
  lock,          \* the thread inside the critical section
  master,        \* seeds taken from the master generator so far
  seed,          \* seed[t]: private_rng of thread t
  cur,           \* cur[t]: the next trial of thread t
  synthetic,     \* synthetic[t]: verdict result_synthetic.D gives, or "unset"
  partial,       \* the private successes of the reduction
  successes,     \* the shared one
  head, ys,      \* xs_head and the threads' sample buffers
  retval,        \* the shared retval
  p, ret,        \* result->p and the return code
  verdict,       \* history: the verdict each trial was given
  fitFailed,     \* history: the fit of some synthetic data set has failed
  spoiled        \* history: threads whose stream wrong binomial constants have shifted

input   == <<method, numTrials>>
perThread == <<at, seed, cur, synthetic, partial, ys>>
rbinom  == vars
shared  == <<lock, master, successes, head, retval>>
history == <<above, verdict, fitFailed, spoiled>>
pVars   == <<rbinom, input, phase, perThread, shared, p, ret, history>>

(* plfit_rbinom before this calculation: fresh, or with the constants that an
   earlier calculation left.                                                 *)
InitRBinom ==
  /\ args \in Params
  /\ rounds = 0
  /\ calls = [t \in Threads |-> 0]
  /\ pc = [t \in Threads |-> "idle"]
  /\ saved \in (Params \ Trivial) \cup {None}
  /\ qn = IF saved \in Small THEN saved ELSE None
  /\ btpe = IF saved \in Small THEN None ELSE saved
  /\ drawn = [t \in Threads |-> [consts |-> args, reflect |-> args \in High]]
  /\ raced = [t \in Threads |-> FALSE] /\ retried = [t \in Threads |-> FALSE]

PInit ==
  /\ method \in PMethods
  /\ numTrials \in TrialCounts
  /\ above = [s \in Threads |-> [k \in 0 .. numTrials - 1 |-> "unset"]]
  /\ InitRBinom
  /\ phase = "check"
  /\ at = [t \in Threads |-> "seed"]
  /\ lock = Nobody
  /\ master = 0
  /\ seed = [t \in Threads |-> Unset]
  /\ cur = [t \in Threads |-> 0]
  /\ synthetic = [t \in Threads |-> "unset"]
  /\ partial = [t \in Threads |-> 0]
  /\ successes = 0
  /\ head = "null" /\ ys = [t \in Threads |-> "null"]
  /\ retval = "SUCCESS"
  /\ p = "unset" /\ ret = "none"
  /\ verdict = [i \in 0 .. numTrials - 1 |-> "unset"]
  /\ fitFailed = FALSE
  /\ spoiled = {}

To(t, label) == at' = [at EXCEPT ![t] = label]

Return(code, value) ==
  /\ phase' = "returned"
  /\ ret' = code /\ p' = value

----------------------------------------------------------------------------
(* The methods that need no resampling, and the checks before the team.      *)
SkipPValue ==
  /\ phase = "check" /\ method = "SKIP"
  /\ Return("SUCCESS", "nan")
  /\ UNCHANGED <<rbinom, input, perThread, shared, history>>

Approximate ==
  /\ phase = "check" /\ method = "APPROXIMATE"
  /\ Return("SUCCESS", "approximate")
  /\ UNCHANGED <<rbinom, input, perThread, shared, history>>

RejectPrecision ==
  /\ phase = "check" /\ method = "EXACT" /\ numTrials <= 0
  /\ Return("EINVAL", "unset")
  /\ UNCHANGED <<rbinom, input, perThread, shared, history>>

ExtractSmaller ==
  /\ phase = "check" /\ method = "EXACT" /\ numTrials > 0
  /\ \/ head' = "held" /\ phase' = "parallel" /\ UNCHANGED <<p, ret>>
     \/ "head" \in MayFail /\ Return("ENOMEM", "unset") /\ UNCHANGED head
  /\ UNCHANGED <<rbinom, input, perThread, lock, master, successes, retval, history>>

----------------------------------------------------------------------------
(* Each thread seeds its generator from the master one, which only one of them
   may use at a time.                                                        *)
\* Mutant: the critical pragma around the seeding is missing.
EnterSeedingUnlocked(t) ==
  /\ phase = "parallel" /\ at[t] = "seed"
  /\ lock' = t
  /\ To(t, "draw")
  /\ UNCHANGED <<rbinom, input, phase, seed, cur, synthetic, partial, ys, master, successes, head, retval, p, ret, history>>

EnterSeeding(t) ==
  /\ phase = "parallel" /\ at[t] = "seed"
  /\ lock = Nobody
  /\ lock' = t
  /\ To(t, "draw")
  /\ UNCHANGED <<rbinom, input, phase, seed, cur, synthetic, partial, ys, master, successes, head, retval, p, ret, history>>

DrawSeed(t) ==
  /\ phase = "parallel" /\ at[t] = "draw"
  /\ seed' = [seed EXCEPT ![t] = master]
  /\ To(t, "advance")
  /\ UNCHANGED <<rbinom, input, phase, cur, synthetic, partial, ys, shared, p, ret, history>>

\* Mutant: the critical section is never left.
AdvanceMasterHolding(t) ==
  /\ phase = "parallel" /\ at[t] = "advance"
  /\ master' = seed[t] + 1
  /\ To(t, "alloc")
  /\ UNCHANGED <<rbinom, input, phase, seed, cur, synthetic, partial, ys, lock, successes, head, retval, p, ret, history>>

AdvanceMaster(t) ==
  /\ phase = "parallel" /\ at[t] = "advance"
  /\ master' = seed[t] + 1
  /\ lock' = Nobody
  /\ To(t, "alloc")
  /\ UNCHANGED <<rbinom, input, phase, seed, cur, synthetic, partial, ys, successes, head, retval, p, ret, history>>

(* The static schedule: the first numTrials % NumThreads threads have one trial
   more than the others.                                                     *)
Share(t) == numTrials \div NumThreads + (IF t < numTrials % NumThreads THEN 1 ELSE 0)

FirstTrial(t) ==
  t * (numTrials \div NumThreads) + (IF t < numTrials % NumThreads THEN t ELSE numTrials % NumThreads)

(* The sample buffer; a thread that has none skips the whole loop.           *)
\* Mutant: the failed allocation is not recorded.
AllocateSampleSilently(t) ==
  /\ phase = "parallel" /\ at[t] = "alloc"
  /\ \/ /\ ys' = [ys EXCEPT ![t] = "held"]
        /\ cur' = [cur EXCEPT ![t] = FirstTrial(t)]
        /\ calls' = [calls EXCEPT ![t] = Share(t)]
        /\ To(t, "trials") /\ UNCHANGED retval
     \/ "sample" \in MayFail /\ To(t, "end") /\ UNCHANGED <<ys, cur, calls, retval>>
  /\ UNCHANGED <<args, rounds, pc, statics, drawn, raced, retried, input, phase, seed, synthetic, partial, lock, master, successes, head, p, ret, history>>

AllocateSample(t) ==
  /\ phase = "parallel" /\ at[t] = "alloc"
  /\ \/ /\ ys' = [ys EXCEPT ![t] = "held"]
        /\ cur' = [cur EXCEPT ![t] = FirstTrial(t)]
        /\ calls' = [calls EXCEPT ![t] = Share(t)]
        /\ To(t, "trials") /\ UNCHANGED retval
     \/ /\ "sample" \in MayFail
        /\ retval' = "ENOMEM"
        /\ To(t, "end") /\ UNCHANGED <<ys, cur, calls>>
  /\ UNCHANGED <<args, rounds, pc, statics, drawn, raced, retried, input, phase, seed, synthetic, partial, lock, master, successes, head, p, ret, history>>

(* A trial resamples: plfit_rbinom says how many points are taken from the head.
   A thread whose inversion has no constant yet tries until there is one, and
   draws a uniform number from its stream each time.                         *)
Resample(t) ==
  /\ phase = "parallel" /\ at[t] = "trials"
  /\ Call(t)
  /\ To(t, "resample")
  /\ UNCHANGED <<input, phase, seed, cur, synthetic, partial, ys, shared, p, ret, history>>

DrawBinomial(t) ==
  /\ at[t] = "resample"
  /\ CheckSaved(t) \/ SaveParameters(t) \/ SetUp(t) \/ Generate(t) \/ Retry(t) \/ Finis(t)
  /\ UNCHANGED <<input, phase, perThread, shared, p, ret, history>>

(* Then it fits and compares.  A number drawn with the wrong constants makes
   another sample; that, or a pass with wrong constants before the number was
   found, leaves the stream at another place.  The return code of
   the fit is dropped: a failed fit leaves result_synthetic as it was, unset
   before the first one.                                                     *)
OnStream(t) == t \notin spoiled /\ ~retried[t] /\ drawn[t] = [consts |-> args, reflect |-> args \in High]

StaleVerdicts(t) ==
  IF synthetic[t] = "unset" THEN {"above", "below"} ELSE {synthetic[t]}

FitTrial(t) ==
  /\ at[t] = "resample" /\ pc[t] = "idle"
  /\ LET k == cur[t] - FirstTrial(t)
     IN  \E v \in {"above", "below"} :
           /\ \/ /\ OnStream(t) => above[seed[t]][k] \in {"unset", v}
                 /\ above' = IF OnStream(t) THEN [above EXCEPT ![seed[t]][k] = v] ELSE above
                 /\ UNCHANGED fitFailed
              \/ /\ "fit" \in MayFail /\ v \in StaleVerdicts(t)
                 /\ fitFailed' = TRUE /\ UNCHANGED above
           /\ synthetic' = [synthetic EXCEPT ![t] = v]
           /\ verdict' = [verdict EXCEPT ![cur[t]] = v]
           /\ partial' = [partial EXCEPT ![t] = IF v = "above" THEN @ + 1 ELSE @]
  /\ spoiled' = IF OnStream(t) THEN spoiled ELSE spoiled \cup {t}
  /\ cur' = [cur EXCEPT ![t] = @ + 1]
  /\ To(t, "trials")
  /\ UNCHANGED <<rbinom, input, phase, seed, ys, shared, p, ret>>

\* Mutant: a thread's count replaces the others' instead of being added.
ReduceOverwriting(t) ==
  /\ phase = "parallel" /\ at[t] = "trials"
  /\ cur[t] >= FirstTrial(t) + Share(t)
  /\ successes' = partial[t]
  /\ To(t, "barrier")
  /\ UNCHANGED <<rbinom, input, phase, seed, cur, synthetic, partial, ys, lock, master, head, retval, p, ret, history>>

Reduce(t) ==
  /\ phase = "parallel" /\ at[t] = "trials"
  /\ cur[t] >= FirstTrial(t) + Share(t)
  /\ successes' = successes + partial[t]
  /\ To(t, "barrier")
  /\ UNCHANGED <<rbinom, input, phase, seed, cur, synthetic, partial, ys, lock, master, head, retval, p, ret, history>>

(* The loop ends with a barrier of the whole team.  A thread without a buffer
   never meets it, which OpenMP leaves undefined: either its arrival at the end
   of the block is taken for it, or the others wait forever.                 *)
Skipped == {t \in Threads : at[t] = "end" /\ ys[t] = "null"}
Arrived == \A t \in Threads : at[t] \in {"barrier", "end"}

PassBarrier(t) ==
  /\ phase = "parallel" /\ at[t] = "barrier" /\ Arrived
  /\ ys' = [ys EXCEPT ![t] = "freed"]
  /\ To(t, "end")
  /\ UNCHANGED <<rbinom, input, phase, seed, cur, synthetic, partial, shared, p, ret, history>>

WaitForever ==
  /\ phase = "parallel" /\ Arrived
  /\ Skipped # {} /\ \E t \in Threads : at[t] = "barrier"
  /\ phase' = "stuck"
  /\ UNCHANGED <<rbinom, input, perThread, shared, p, ret, history>>

(* After the team: the fraction, or the error.                               *)
TeamDone == \A t \in Threads : at[t] = "end"

Join ==
  /\ phase = "parallel" /\ TeamDone
  /\ head' = "freed"
  /\ IF retval = "SUCCESS" THEN Return("SUCCESS", "fraction") ELSE Return(retval, "unset")
  /\ UNCHANGED <<rbinom, input, perThread, lock, master, successes, retval, history>>

TeamStep(t) ==
  \/ EnterSeeding(t) \/ DrawSeed(t) \/ AdvanceMaster(t)
  \/ AllocateSample(t) \/ Resample(t) \/ DrawBinomial(t) \/ FitTrial(t) \/ Reduce(t) \/ PassBarrier(t)

PReturned == phase \in {"returned", "stuck"} /\ UNCHANGED pVars

PNext ==
  \/ SkipPValue \/ Approximate \/ RejectPrecision \/ ExtractSmaller
  \/ \E t \in Threads : TeamStep(t)
  \/ WaitForever \/ Join \/ PReturned

PSpec == PInit /\ [][PNext]_pVars

(* The caller and every thread of its team are scheduled.                    *)
PFairSpec ==
  /\ PSpec
  /\ WF_pVars(SkipPValue \/ Approximate \/ RejectPrecision \/ ExtractSmaller \/ Join)
  /\ \A t \in Threads : WF_pVars(TeamStep(t))
----------------------------------------------------------------------------
Trials == 0 .. numTrials - 1

(* A p-value that is reported is the fraction of trials whose synthetic D was
   above the original one: every trial was run, by one thread only, and no
   thread's count was lost in the reduction.                                 *)
FractionIsExact ==
  p = "fraction" =>
    /\ \A i \in Trials : verdict[i] # "unset"
    /\ successes = Cardinality({i \in Trials : verdict[i] = "above"})

(* When some thread could not run its trials, the caller gets an error and no
   p-value, although the code is kept in a variable all threads share.       *)
FailureReported ==
  (phase = "returned" /\ Skipped # {}) => ret = "ENOMEM" /\ p = "unset"

(* The number of successes if the threads draw their seeds in order.         *)
InOrderSuccesses ==
  Cardinality({r \in Threads \X Trials : r[2] < Share(r[1]) /\ above[r[1]][r[2]] = "above"})

(* README.rst, FAQ: "If you want to make the procedure fully deterministic, you
   have to pre-seed the random number generator".  Of the schedules of a team
   whose seeds are the same, the one in which its threads are seeded in order
   must then do as well as any other.  (The verdicts of streams that nobody has
   got to are not known and count as below: some generator gives them.)      *)
SeededIsDeterministic == p = "fraction" => successes = InOrderSuccesses

(* The same where it does hold.  With a number of trials that the team divides
   evenly the order in which the threads are seeded does not matter, as long as
   every synthetic data set can be fitted and no binomial number was drawn, or
   refused, with constants of another set-up.                                *)
BalancedIsDeterministic ==
  (numTrials % NumThreads = 0 /\ ~fitFailed /\ spoiled = {}) => SeededIsDeterministic

(* The function returns, unless a thread without a sample buffer leaves the
   others at a barrier it never meets.                                       *)
PValueTerminates == [](Skipped = {}) => <>(phase = "returned")
----------------------------------------------------------------------------
(* The inductive invariant of FractionIsExact and FailureReported.  Threads own
   consecutive blocks of trials; a thread that is through with its own has added
   its count to the shared one.                                              *)
TrialsOf(t)    == FirstTrial(t) .. FirstTrial(t) + Share(t) - 1
AboveIn(T)     == {i \in T : verdict[i] = "above"}
Counted        == {t \in Threads : at[t] = "barrier" \/ (at[t] = "end" /\ ys[t] # "null")}
CountedTrials  == {i \in Trials : \E t \in Counted : i \in TrialsOf(t)}

TeamTypeOK ==
  /\ numTrials \in Nat
  /\ phase \in {"check", "parallel", "returned", "stuck"}
  /\ at \in [Threads -> {"seed", "draw", "advance", "alloc", "trials", "resample", "barrier", "end"}]
  /\ ys \in [Threads -> {"null", "held", "freed"}]
  /\ cur \in [Threads -> Nat] /\ partial \in [Threads -> Nat]
  /\ verdict \in [Trials -> {"unset", "above", "below"}]
  /\ successes \in Nat
  /\ retval \in {"SUCCESS", "ENOMEM"}

(* What thread t has done, and the calls of plfit_rbinom it has left.        *)
TrialInv(t) ==
  /\ at[t] \in {"seed", "draw", "advance", "alloc"} => ys[t] = "null" /\ partial[t] = 0
  /\ at[t] \in {"trials", "resample"} =>
       /\ ys[t] = "held"
       /\ FirstTrial(t) <= cur[t]
       /\ cur[t] + calls[t] + (IF at[t] = "resample" THEN 1 ELSE 0) = FirstTrial(t) + Share(t)
       /\ \A i \in FirstTrial(t) .. cur[t] - 1 : verdict[i] # "unset"
       /\ partial[t] = Cardinality(AboveIn(FirstTrial(t) .. cur[t] - 1))
  /\ at[t] = "barrier" => ys[t] = "held"
  /\ t \in Counted => \A i \in TrialsOf(t) : verdict[i] # "unset"

ReturnInv ==
  /\ phase = "check" => \A t \in Threads : at[t] = "seed"
  /\ Skipped # {} => retval = "ENOMEM"
  /\ phase # "returned" => p = "unset"
  /\ p = "fraction" => TeamDone /\ retval = "SUCCESS"
  /\ FailureReported

TeamInv ==
  /\ TeamTypeOK /\ (\A t \in Threads : TrialInv(t)) /\ ReturnInv
  /\ successes = Cardinality(AboveIn(CountedTrials))

PValueInv == args \in Params /\ BinomialInv /\ TeamInv
----------------------------------------------------------------------------
(* The inductive invariant of BalancedIsDeterministic.  The critical section
   gives every thread a seed of its own, so that the trials of a thread are the
   first ones of a stream that belongs to it alone, unless a fit has failed or
   a stream was left.                                                        *)
Seeding == {"seed", "draw", "advance"}
Seeded  == {t \in Threads : at[t] \notin Seeding}

SeedInv ==
  /\ master \in Nat /\ lock \in Threads \cup {Nobody} /\ seed \in [Threads -> Int]
  /\ \A t \in Threads :
       /\ lock = t <=> at[t] \in {"draw", "advance"}
       /\ at[t] = "advance" => seed[t] = master
       /\ t \in Seeded => seed[t] \in 0 .. master - 1
  /\ \A t, u \in Seeded : seed[t] = seed[u] => t = u
  /\ master = Cardinality(Seeded)

DoneBy(t) ==
  IF at[t] \in {"trials", "resample"} THEN FirstTrial(t) .. cur[t] - 1
  ELSE IF t \in Counted THEN TrialsOf(t) ELSE {}

StreamInv ==
  /\ above \in [Threads -> [Trials -> {"unset", "above", "below"}]]
  /\ (spoiled = {} /\ ~fitFailed) =>
       \A t \in Threads : \A i \in DoneBy(t) : verdict[i] = above[seed[t]][i - FirstTrial(t)]
=============================================================================
