----------------------------- MODULE LinearScan -----------------------------
(* plfit_i_continuous_xmin_opt_linear_scan (src/plfit.c): the OpenMP team that
   tries every candidate xmin of a continuous data set and keeps the one whose
   fit has the smallest Kolmogorov-Smirnov score D.

   Threads take chunks of the loop from the runtime's dynamic schedule, keep a
   private best fit, leave the loop without a barrier (nowait) and merge their
   best into the shared one inside a critical section.  The build without
   OpenMP is the team of one thread.

   Real numbers appear only as ranks: D-scores below DBL_MAX are elements of
   Scores, and MaxD is DBL_MAX or infinity, which no comparison of the code
   tells apart.  The xmin, alpha and n of a fit are each represented by the
   probe they were computed for, so that a fit whose parts belong to different
   probes can be told from a sound one.                                      *)
EXTENDS Integers

CONSTANTS
  Threads,       \* the OpenMP team
  NumProbes,     \* opt_data->num_probes
  Chunk,         \* iterations handed out at once: schedule(dynamic,10)
  Scores,        \* ranks of the D-scores below DBL_MAX
  MaxD,          \* DBL_MAX, and any D that is not below it
  MaxNonPositive, \* bound: how many of the (sorted) probes may hold a value <= 0
  NoThread       \* the critical section is free

ASSUME ScanAssumption ==
  /\ NumProbes \in Nat \ {0}
  /\ Chunk \in Nat \ {0}
  /\ Scores \subseteq Nat /\ Scores # {}
  /\ MaxD \in Nat /\ \A d \in Scores : d < MaxD
  /\ MaxNonPositive \in 0 .. NumProbes
  /\ Threads # {}
  /\ NoThread \notin Threads

Candidates == 0 .. NumProbes - 2
NoProbe    == -1          \* xmin = 0, alpha = 0, n = 0, or an unset alpha
Unscored   == -1

VARIABLES
  ks,            \* ks[p]: D of the maximum-likelihood fit that starts at probe p
  nonPositive,   \* how many of the (sorted) probes hold a value <= 0
  abortOnError,  \* the error handler in force is plfit_error_handler_abort
  phase,         \* the calling thread: "parallel", "returned" or "aborted"
  nextIter,      \* first loop iteration the runtime has not handed out yet
  pc,            \* where each thread is in the parallel block
  cur, chunkEnd, \* the iterations [cur, chunkEnd) of the thread's chunk
  lastAlpha,     \* local_opt_data.last.alpha, which survives a failed estimate
  localBest,     \* local_best_result and local_best_n
  lock,          \* the thread inside the critical section
  globalBest,    \* global_best_result
  globalN,       \* global_best_n
  best,          \* *best_result and *best_n as the caller sees them
  score          \* history: the D each probe was given by the team

threadVars == <<pc, cur, chunkEnd, lastAlpha, localBest>>
sharedVars == <<nextIter, lock, globalBest, globalN>>
input == <<ks, nonPositive, abortOnError>>
vars == <<input, phase, threadVars, sharedVars, best, score>>

Nothing  == [D |-> MaxD, xmin |-> NoProbe, alpha |-> NoProbe, n |-> NoProbe]
NoResult == [D |-> MaxD, xmin |-> NoProbe, alpha |-> NoProbe]

Init ==
  /\ ks \in [Candidates -> Scores]
  /\ nonPositive \in 0 .. MaxNonPositive
  /\ abortOnError \in BOOLEAN
  /\ phase = "parallel"
  /\ nextIter = 0
  /\ pc = [t \in Threads |-> "dispatch"]
  /\ cur = [t \in Threads |-> 0]
  /\ chunkEnd = [t \in Threads |-> 0]
  /\ lastAlpha = [t \in Threads |-> NoProbe]
  /\ localBest = [t \in Threads |-> Nothing]
  /\ lock = NoThread
  /\ globalBest = NoResult
  /\ globalN = NoProbe
  /\ best = Nothing
  /\ score = [p \in Candidates |-> Unscored]

Goto(t, label) == pc' = [pc EXCEPT ![t] = label]

(* Comparisons of the loop and of the merge: a fit is replaced only by a
   strictly better one.                                                      *)
Better(d, e) == d < e

----------------------------------------------------------------------------
(* The runtime hands the next chunk of iterations to a thread ...            *)
ChunkLimit(first) ==
  IF first + Chunk <= NumProbes - 1 THEN first + Chunk ELSE NumProbes - 1

TakeChunk(t) ==
  /\ phase = "parallel"
  /\ pc[t] = "dispatch"
  /\ nextIter < NumProbes - 1
  /\ cur' = [cur EXCEPT ![t] = nextIter]
  /\ chunkEnd' = [chunkEnd EXCEPT ![t] = ChunkLimit(nextIter)]
  /\ nextIter' = nextIter + Chunk
  /\ Goto(t, "evaluate")
  /\ UNCHANGED <<input, phase, lastAlpha, localBest, lock, globalBest, globalN, best, score>>

(* ... or tells it that the loop is over; nowait: no barrier follows.        *)
LeaveLoop(t) ==
  /\ phase = "parallel"
  /\ pc[t] = "dispatch"
  /\ nextIter >= NumProbes - 1
  /\ Goto(t, "enter")
  /\ UNCHANGED <<input, phase, cur, chunkEnd, lastAlpha, localBest, sharedVars, best, score>>

(* plfit_i_continuous_xmin_opt_evaluate.  The estimate refuses xmin <= 0; its
   return code is dropped, so the alpha of the thread's previous evaluation
   (or an unset one) goes into the KS test, whose outcome is then arbitrary:
   with xmin = 0 and alpha < 1 even infinite, pow(0, alpha - 1), and a fit
   with such a D is never a new best.                                        *)
EstimateRejects(p) == p < nonPositive

\* Mutant: the exponent of the previous candidate is used again.
FittedAlphaReused(t, p) == IF lastAlpha[t] = NoProbe THEN p ELSE lastAlpha[t]

FittedAlpha(t, p) == IF EstimateRejects(p) THEN lastAlpha[t] ELSE p
PossibleScores(p, a) == IF a = p THEN {ks[p]} ELSE Scores \cup {MaxD}

LocalBestAfter(t, p, a, d) ==
  IF Better(d, localBest[t].D)
    THEN [localBest EXCEPT ![t] = [D |-> d, xmin |-> p, alpha |-> a, n |-> p]]
    ELSE localBest

Evaluate(t) ==
  /\ phase = "parallel"
  /\ pc[t] = "evaluate"
  /\ EstimateRejects(cur[t]) => ~abortOnError
  /\ LET p == cur[t]
         a == FittedAlpha(t, p)
     IN  /\ \E d \in PossibleScores(p, a) :
              /\ score' = [score EXCEPT ![p] = d]
              /\ localBest' = LocalBestAfter(t, p, a, d)
         /\ lastAlpha' = [lastAlpha EXCEPT ![t] = a]
         /\ cur' = [cur EXCEPT ![t] = p + 1]
         /\ Goto(t, IF p + 1 < chunkEnd[t] THEN "evaluate" ELSE "dispatch")
  /\ UNCHANGED <<input, phase, chunkEnd, sharedVars, best>>

(* The same evaluation under the default error handler: the process ends.    *)
EvaluateAborts(t) ==
  /\ phase = "parallel"
  /\ pc[t] = "evaluate"
  /\ EstimateRejects(cur[t]) /\ abortOnError
  /\ phase' = "aborted"
  /\ UNCHANGED <<input, threadVars, sharedVars, best, score>>

----------------------------------------------------------------------------
(* The critical section, statement by statement.                             *)
\* Mutant: the critical pragma is missing.
EnterCriticalUnlocked(t) ==
  /\ phase = "parallel"
  /\ pc[t] = "enter"
  /\ lock' = t
  /\ Goto(t, "compare")
  /\ UNCHANGED <<input, phase, cur, chunkEnd, lastAlpha, localBest, nextIter, globalBest, globalN, best, score>>

EnterCritical(t) ==
  /\ phase = "parallel"
  /\ pc[t] = "enter"
  /\ lock = NoThread
  /\ lock' = t
  /\ Goto(t, "compare")
  /\ UNCHANGED <<input, phase, cur, chunkEnd, lastAlpha, localBest, nextIter, globalBest, globalN, best, score>>

CompareBest(t) ==
  /\ phase = "parallel"
  /\ pc[t] = "compare"
  /\ Goto(t, IF Better(localBest[t].D, globalBest.D) THEN "assign" ELSE "leave")
  /\ UNCHANGED <<input, phase, cur, chunkEnd, lastAlpha, localBest, sharedVars, best, score>>

AssignResult(t) ==
  /\ phase = "parallel"
  /\ pc[t] = "assign"
  /\ globalBest' = [D |-> localBest[t].D, xmin |-> localBest[t].xmin, alpha |-> localBest[t].alpha]
  /\ Goto(t, "assignN")
  /\ UNCHANGED <<input, phase, cur, chunkEnd, lastAlpha, localBest, nextIter, lock, globalN, best, score>>

AssignN(t) ==
  /\ phase = "parallel"
  /\ pc[t] = "assignN"
  /\ globalN' = localBest[t].n
  /\ Goto(t, "leave")
  /\ UNCHANGED <<input, phase, cur, chunkEnd, lastAlpha, localBest, nextIter, lock, globalBest, best, score>>

\* Mutant: the critical section is never left.
LeaveCriticalHolding(t) ==
  /\ phase = "parallel"
  /\ pc[t] = "leave"
  /\ Goto(t, "done")
  /\ UNCHANGED <<input, phase, cur, chunkEnd, lastAlpha, localBest, sharedVars, best, score>>

LeaveCritical(t) ==
  /\ phase = "parallel"
  /\ pc[t] = "leave"
  /\ lock' = NoThread
  /\ Goto(t, "done")
  /\ UNCHANGED <<input, phase, cur, chunkEnd, lastAlpha, localBest, nextIter, globalBest, globalN, best, score>>

(* The barrier at the end of the parallel block, then the caller's copy.     *)
\* Mutant: the result is read as soon as one thread has merged.
TeamDoneSome == \E t \in Threads : pc[t] = "done"

TeamDone == \A t \in Threads : pc[t] = "done"

Return ==
  /\ phase = "parallel"
  /\ TeamDone
  /\ phase' = "returned"
  /\ best' = [D |-> globalBest.D, xmin |-> globalBest.xmin, alpha |-> globalBest.alpha, n |-> globalN]
  /\ UNCHANGED <<input, threadVars, sharedVars, score>>

ThreadStep(t) ==
  \/ TakeChunk(t) \/ LeaveLoop(t) \/ Evaluate(t) \/ EvaluateAborts(t)
  \/ EnterCritical(t) \/ CompareBest(t) \/ AssignResult(t) \/ AssignN(t) \/ LeaveCritical(t)

(* The scan is over; anything else that cannot move is a deadlock.          *)
Finished == phase # "parallel" /\ UNCHANGED vars

Next == (\E t \in Threads : ThreadStep(t)) \/ Return \/ Finished

Spec == Init /\ [][Next]_vars

(* Every thread of an OpenMP team is scheduled; the critical section is held
   for a bounded time and each thread enters it once, so weak fairness of each
   thread's next step is all the runtime has to give.                        *)
FairSpec == Spec /\ (\A t \in Threads : WF_vars(ThreadStep(t))) /\ WF_vars(Return)
----------------------------------------------------------------------------
Labels == {"dispatch", "evaluate", "enter", "compare", "assign", "assignN", "leave", "done"}
ProbeOrNone == Candidates \cup {NoProbe}
Results == [D : Scores \cup {MaxD}, xmin : ProbeOrNone, alpha : ProbeOrNone]
Fits == [D : Scores \cup {MaxD}, xmin : ProbeOrNone, alpha : ProbeOrNone, n : ProbeOrNone]

(* Type invariant.  In particular the n kept with a fit always counts from a
   candidate: local_best_n is never taken one past the probed element.       *)
TypeOK ==
  /\ ks \in [Candidates -> Scores]
  /\ nonPositive \in 0 .. MaxNonPositive
  /\ abortOnError \in BOOLEAN
  /\ phase \in {"parallel", "returned", "aborted"}
  /\ nextIter \in Nat
  /\ pc \in [Threads -> Labels]
  /\ cur \in [Threads -> Nat]
  /\ chunkEnd \in [Threads -> 0 .. NumProbes - 1]
  /\ lastAlpha \in [Threads -> ProbeOrNone]
  /\ localBest \in [Threads -> Fits]
  /\ lock \in Threads \cup {NoThread}
  /\ globalBest \in Results
  /\ globalN \in ProbeOrNone
  /\ best \in Fits
  /\ score \in [Candidates -> Scores \cup {MaxD, Unscored}]

(* When the scan returns, every candidate xmin has been evaluated and none has
   a smaller D than the one reported: no thread's find is lost in the merge.  *)
BestIsMinimal ==
  phase = "returned" =>
    \A p \in Candidates : score[p] # Unscored /\ best.D <= score[p]

(* The reported D, xmin, n (and alpha, when the estimate accepted that xmin)
   are those of one and the same evaluation, although the result structure and
   best_n are written by separate statements of several threads.  The initial
   values of the loop come back only if no candidate is positive and none has
   a D below DBL_MAX.                                                        *)
BestIsOneFit ==
  phase = "returned" =>
    IF best = Nothing
    THEN \A p \in Candidates : p < nonPositive /\ score[p] = MaxD
    ELSE /\ best.xmin \in Candidates
         /\ best.n = best.xmin
         /\ best.D = score[best.xmin]
         /\ best.xmin >= nonPositive => best.alpha = best.xmin

(* The chunks of the dynamic schedule divide the loop: a probe that a thread is
   still to evaluate was not evaluated before and belongs to nobody else.    *)
ChunksDisjoint ==
  \A t \in Threads : pc[t] = "evaluate" =>
    \A p \in cur[t] .. chunkEnd[t] - 1 :
      /\ score[p] = Unscored
      /\ \A u \in Threads \ {t} : pc[u] = "evaluate" => p \notin cur[u] .. chunkEnd[u] - 1

(* A step never replaces the shared best by a worse one.                     *)
GlobalBestNeverWorsens == [][globalBest'.D <= globalBest.D]_vars

(* The parallel block ends, whatever the interleaving.                       *)
ScanTerminates == <>(phase # "parallel")

(* The answer of the sequential loop on positive data: the first probe of
   minimal score.                                                            *)
SequentialProbe ==
  CHOOSE p \in Candidates :
    /\ \A q \in Candidates : ks[p] <= ks[q]
    /\ \A q \in Candidates : ks[q] = ks[p] => p <= q

(* README.rst, "Using multiple CPU cores": the results in parallelized mode
   "should be exactly the same as the results provided in sequential mode",
   that is, of the candidates with the smallest D the first one is reported,
   which is what the strict comparison of the loop finds.                    *)
SameAsSequential ==
  (phase = "returned" /\ Candidates # {}) => best.xmin = SequentialProbe

(* The inductive invariant behind BestIsMinimal and BestIsOneFit.            *)
PastLoop == {"enter", "compare", "assign", "assignN", "leave", "done"}
InCritical == {"compare", "assign", "assignN", "leave"}
HasMerged == {"assignN", "leave", "done"}

\* A recorded fit is either the initial one or the fit of one scored candidate.
FitMatches(D, xmin, alpha) ==
  \/ D = MaxD /\ xmin = NoProbe /\ alpha = NoProbe
  \/ /\ xmin \in Candidates
     /\ D = score[xmin] /\ D \in Scores
     /\ xmin >= nonPositive => alpha = xmin

ChunkInv ==
  /\ \A t \in Threads : pc[t] = "evaluate" => cur[t] < chunkEnd[t] /\ chunkEnd[t] <= nextIter
  /\ \A t \in Threads : pc[t] \in PastLoop => nextIter >= NumProbes - 1
  /\ \A p \in Candidates : p >= nextIter => score[p] = Unscored
  /\ ChunksDisjoint

\* What is not evaluated yet is still to be handed out or in somebody's chunk.
NothingSkipped ==
  \A p \in Candidates : score[p] = Unscored =>
    \/ p >= nextIter
    \/ \E t \in Threads : pc[t] = "evaluate" /\ p \in cur[t] .. chunkEnd[t] - 1

LocalInv ==
  /\ \A t \in Threads :
       /\ FitMatches(localBest[t].D, localBest[t].xmin, localBest[t].alpha)
       /\ localBest[t].n = localBest[t].xmin
  /\ \A p \in Candidates : score[p] # Unscored => \E t \in Threads : localBest[t].D <= score[p]

LockInv == \A t \in Threads : pc[t] \in InCritical <=> lock = t

GlobalInv ==
  /\ FitMatches(globalBest.D, globalBest.xmin, globalBest.alpha)
  /\ (\A t \in Threads : pc[t] # "assignN") => globalN = globalBest.xmin
  /\ \A t \in Threads :
       /\ pc[t] \in HasMerged => globalBest.D <= localBest[t].D
       /\ pc[t] = "assign" => localBest[t].D < globalBest.D
       /\ pc[t] = "assignN" => globalBest.xmin = localBest[t].xmin

ReturnInv ==
  phase = "returned" =>
    /\ TeamDone
    /\ best.D = globalBest.D /\ best.xmin = globalBest.xmin /\ best.alpha = globalBest.alpha
    /\ best.n = globalN

\* At a positive probe the team measures the fit of that probe, whoever measures it.
ScoreInv ==
  \A p \in Candidates : p >= nonPositive /\ score[p] # Unscored => score[p] = ks[p]

ScanInv == TypeOK /\ ChunkInv /\ NothingSkipped /\ LocalInv /\ LockInv /\ GlobalInv /\ ReturnInv /\ ScoreInv

(* The scan implements its abstract specification, whatever the interleaving,
   the signs of the data and the error handler.                              *)
ScanResult == INSTANCE ScanSpec WITH returned <- phase = "returned"
ImplementsScanSpec == ScanResult!ASpec
=============================================================================
