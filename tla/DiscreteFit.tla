---------------------------- MODULE DiscreteFit ----------------------------
(* plfit_discrete (src/plfit.c): the search for the best discrete power law,
   one candidate xmin per distinct value of the sorted data.

   The data are the sorted copy the function makes for itself.  A value is its
   integer part: 0 stands for everything below 1, which the fit skips.  Only
   the order of the values, the D-score of each candidate (a rank, chosen when
   the candidate is tried) and whether an exponent is above 1 matter.  The
   error handler in force returns to the caller (plfit_error_handler_ignore or
   _printignore): under the default one the process ends at the first error.  *)
EXTENDS Integers

CONSTANTS
  MaxLen,        \* bound on the number of data points
  MaxValue,      \* bound on the data values
  Scores,        \* ranks of the D-scores
  MaxD,          \* DBL_MAX
  Methods,       \* alpha_method values tried: a subset of KnownMethods and "other"
  Corrections,   \* values of finite_size_correction tried
  MayFail        \* calls that may fail: a subset of {"malloc", "lbfgs", "pvalue"}

KnownMethods == {"LBFGS", "LINEAR_SCAN", "PRETEND_CONTINUOUS"}

ASSUME DiscreteAssumption ==
  /\ MaxLen \in Nat /\ MaxValue \in Nat
  /\ Scores \subseteq Nat /\ MaxD \in Nat /\ \A d \in Scores : d < MaxD
  /\ Methods \subseteq KnownMethods \cup {"other"}
  /\ Corrections \subseteq BOOLEAN
  /\ MayFail \subseteq {"malloc", "lbfgs", "pvalue"}

VARIABLES
  n, xs,         \* the data: xs[0] <= ... <= xs[n-1]
  method,        \* options->alpha_method
  correction,    \* options->finite_size_correction
  gridOK,        \* options->alpha describes a grid the linear scan accepts
  pc,
  px, m,         \* the candidate (as an index) and the points before it
  endXmin,       \* first index that is not a candidate
  prevX,         \* value of the last candidate
  best,          \* best_result, later *result: D, xmin and a class of alpha
  bestN,         \* best_n
  copy,          \* xs_copy: "none", "held" or "freed"
  ret,           \* return code
  tried          \* history: the D of each index that was tried, or Untried

control == <<n, xs, method, correction, gridOK>>
cursor  == <<px, m, endXmin, prevX>>
outcome == <<best, bestN, tried>>
vars    == <<control, cursor, outcome, pc, copy, ret>>

Untried == -1
Index   == 0 .. n - 1
Codes   == {"none", "SUCCESS", "FAILURE", "EINVAL", "ENOMEM"}

Init ==
  /\ n \in 0 .. MaxLen
  /\ xs \in {f \in [0 .. n - 1 -> 0 .. MaxValue] : \A i, j \in 0 .. n - 1 : i <= j => f[i] <= f[j]}
  /\ method \in Methods
  /\ correction \in Corrections
  /\ gridOK \in BOOLEAN
  /\ pc = "check"
  /\ px = 0 /\ m = 0 /\ endXmin = 0 /\ prevX = 0
  /\ best = [D |-> MaxD, xmin |-> 1, alpha |-> "one"]
  /\ bestN = 0
  /\ copy = "none"
  /\ ret = "none"
  /\ tried = [i \in 0 .. n - 1 |-> Untried]

Fail(code) ==
  /\ pc' = "returned"
  /\ ret' = code
  /\ UNCHANGED <<control, cursor, outcome, copy>>

----------------------------------------------------------------------------
(* DATA_POINTS_CHECK and the checks of the linear scan's grid.               *)
OptionsRejected == n = 0 \/ (method = "LINEAR_SCAN" /\ ~gridOK)

RejectOptions == pc = "check" /\ OptionsRejected /\ Fail("EINVAL")

(* plfit_i_copy_and_sort, then the start values of the walk.                 *)
CopyFails == pc = "check" /\ ~OptionsRejected /\ "malloc" \in MayFail /\ Fail("ENOMEM")

CopyAndSort ==
  /\ pc = "check" /\ ~OptionsRejected
  /\ copy' = "held"
  /\ px' = 0 /\ endXmin' = n - 1
  /\ pc' = "skip"
  /\ UNCHANGED <<control, m, prevX, outcome, ret>>

(* Values below 1 are skipped.                                               *)
SkipSmall ==
  /\ pc = "skip" /\ px < n /\ xs[px] < 1
  /\ px' = px + 1
  /\ UNCHANGED <<control, m, endXmin, prevX, outcome, pc, copy, ret>>

StartRetreat ==
  /\ pc = "skip" /\ ~(px < n /\ xs[px] < 1)
  /\ m' = px
  /\ prevX' = xs[endXmin]
  /\ pc' = "retreat1"
  /\ UNCHANGED <<control, px, endXmin, outcome, copy, ret>>

\* Mutant: the retreat stops at the start of the array, not at px.
CanRetreatToStart == endXmin >= 0 /\ xs[endXmin] = prevX

(* end_xmin moves in front of the two largest distinct values, but not below
   px; both loops of the code are this one, run twice.                       *)
CanRetreat == endXmin > px /\ xs[endXmin] = prevX

Retreat ==
  /\ pc \in {"retreat1", "retreat2"} /\ CanRetreat
  /\ endXmin' = endXmin - 1
  /\ UNCHANGED <<control, px, m, prevX, outcome, pc, copy, ret>>

RetreatAgain ==
  /\ pc = "retreat1" /\ ~CanRetreat
  /\ prevX' = xs[endXmin]
  /\ pc' = "retreat2"
  /\ UNCHANGED <<control, px, m, endXmin, outcome, copy, ret>>

\* Mutant: end_xmin still points at the last candidate, which is left out.
StartScanTooShort ==
  /\ pc = "retreat2" /\ ~CanRetreat
  /\ prevX' = 0
  /\ pc' = "outer"
  /\ UNCHANGED <<control, px, m, endXmin, outcome, copy, ret>>

StartScan ==
  /\ pc = "retreat2" /\ ~CanRetreat
  /\ prevX' = 0
  /\ endXmin' = endXmin + 1
  /\ pc' = "outer"
  /\ UNCHANGED <<control, px, m, outcome, copy, ret>>

----------------------------------------------------------------------------
(* The scan over the candidates.                                             *)
NextCandidate ==
  /\ pc = "outer" /\ px < endXmin
  /\ pc' = "inner"
  /\ UNCHANGED <<control, cursor, outcome, copy, ret>>

\* Mutant: the count of skipped points is not kept in step with px.
SkipRepeatedNoCount ==
  /\ pc = "inner" /\ px < endXmin /\ xs[px] = prevX
  /\ px' = px + 1
  /\ UNCHANGED <<control, m, endXmin, prevX, outcome, pc, copy, ret>>

SkipRepeated ==
  /\ pc = "inner" /\ px < endXmin /\ xs[px] = prevX
  /\ px' = px + 1 /\ m' = m + 1
  /\ UNCHANGED <<control, endXmin, prevX, outcome, pc, copy, ret>>

(* plfit_i_estimate_alpha_discrete on the points from px on: only L-BFGS can
   fail, and an unknown method always does.                                  *)
EstimateCanFail == method = "other" \/ (method = "LBFGS" /\ "lbfgs" \in MayFail)
EstimateCanSucceed == method # "other"

CandidateReached == pc = "inner" /\ ~(px < endXmin /\ xs[px] = prevX)

(* A failure returns from the middle of the loop: xs_copy stays allocated.   *)
EstimateFails ==
  /\ CandidateReached
  /\ EstimateCanFail
  /\ Fail(IF method = "other" THEN "EINVAL" ELSE "FAILURE")

\* Mutant: the last of several equally good candidates is kept.
ImprovesWeakly(d) == d <= best.D

Improves(d) == d < best.D

Try ==
  /\ CandidateReached
  /\ EstimateCanSucceed
  /\ \E d \in Scores :
       /\ tried' = [tried EXCEPT ![px] = d]
       /\ best' = IF Improves(d) THEN [D |-> d, xmin |-> xs[px], alpha |-> "aboveOne"] ELSE best
       /\ bestN' = IF Improves(d) THEN n - m ELSE bestN
  /\ prevX' = xs[px]
  /\ px' = px + 1 /\ m' = m + 1
  /\ pc' = "outer"
  /\ UNCHANGED <<control, endXmin, copy, ret>>

----------------------------------------------------------------------------
(* plfit_i_perform_finite_size_correction: alpha * (k-1) / k + 1 / k with an
   unsigned k; k = 1 gives exactly 1, k = 0 divides by zero.                 *)
Corrected(alpha, k) ==
  IF ~correction THEN alpha
  ELSE CASE k = 0 -> "infinite"
         [] k = 1 -> "one"
         [] OTHER -> alpha

Finish ==
  /\ pc = "outer" /\ ~(px < endXmin)
  /\ best' = [best EXCEPT !.alpha = Corrected(best.alpha, bestN)]
  /\ pc' = "likelihood"
  /\ UNCHANGED <<control, cursor, bestN, tried, copy, ret>>

(* plfit_log_likelihood_discrete refuses alpha <= 1 (and xmin < 1, which does
   not happen here).                                                         *)
LikelihoodFails == pc = "likelihood" /\ best.alpha = "one" /\ Fail("EINVAL")

\* Mutant: the exponent is not looked at.
LikelihoodUnchecked ==
  /\ pc = "likelihood"
  /\ pc' = "pvalue"
  /\ UNCHANGED <<control, cursor, outcome, copy, ret>>

Likelihood ==
  /\ pc = "likelihood" /\ best.alpha # "one"
  /\ pc' = "pvalue"
  /\ UNCHANGED <<control, cursor, outcome, copy, ret>>

PValueFails == pc = "pvalue" /\ "pvalue" \in MayFail /\ Fail("ENOMEM")

Succeed ==
  /\ pc = "pvalue"
  /\ copy' = "freed"
  /\ ret' = "SUCCESS"
  /\ pc' = "returned"
  /\ UNCHANGED <<control, cursor, outcome>>

Finished == pc = "returned" /\ UNCHANGED vars

Next ==
  \/ RejectOptions \/ CopyFails \/ CopyAndSort
  \/ SkipSmall \/ StartRetreat \/ Retreat \/ RetreatAgain \/ StartScan
  \/ NextCandidate \/ SkipRepeated \/ EstimateFails \/ Try
  \/ Finish \/ LikelihoodFails \/ Likelihood \/ PValueFails \/ Succeed
  \/ Finished

Spec == Init /\ [][Next]_vars
----------------------------------------------------------------------------
Labels == {"check", "skip", "retreat1", "retreat2", "outer", "inner", "likelihood", "pvalue", "returned"}
AlphaClasses == {"one", "aboveOne", "infinite"}

(* Type invariant: in particular neither pointer ever leaves the array and its
   end, and best_n never exceeds the number of points.                       *)
TypeOK ==
  /\ n \in 0 .. MaxLen
  /\ xs \in [Index -> 0 .. MaxValue]
  /\ method \in KnownMethods \cup {"other"}
  /\ correction \in BOOLEAN /\ gridOK \in BOOLEAN
  /\ pc \in Labels
  /\ px \in 0 .. n /\ m \in 0 .. n /\ endXmin \in 0 .. n
  /\ prevX \in 0 .. MaxValue
  /\ best \in [D : Scores \cup {MaxD}, xmin : 0 .. MaxValue \cup {1}, alpha : AlphaClasses]
  /\ bestN \in 0 .. n
  /\ copy \in {"none", "held", "freed"}
  /\ ret \in Codes
  /\ tried \in [Index -> Scores \cup {Untried}]

(* Every element the walk reads exists: *end_xmin during the two retreats, and
   *px when a candidate is fitted, although px may have run up to end_xmin.   *)
PointersInBounds ==
  /\ pc \in {"skip", "retreat1", "retreat2"} => endXmin \in Index
  /\ CandidateReached => px \in Index

(* best_n counts exactly the points at or above the chosen xmin, so the
   likelihood is taken over the whole tail and nothing else.                 *)
TailIsExact ==
  bestN > 0 =>
    /\ xs[n - bestN] = best.xmin
    /\ \A i \in Index : i < n - bestN => xs[i] < best.xmin

(* The chosen candidate has the smallest D of those tried and, among equals,
   the smallest xmin.                                                        *)
BestIsFirstMinimal ==
  /\ bestN = 0 => \A i \in Index : tried[i] = Untried
  /\ bestN > 0 =>
       /\ best.D = tried[n - bestN]
       /\ \A i \in Index : tried[i] # Untried =>
            best.D < tried[i] \/ (best.D = tried[i] /\ n - bestN <= i)

ThreeDistinctFrom(v) == \E j, k \in Index : v < xs[j] /\ xs[j] < xs[k]

(* Every value with at least two larger ones is tried before the search ends. *)
NoCandidateSkipped ==
  pc \in {"likelihood", "pvalue"} =>
    \A i \in Index :
      (xs[i] >= 1 /\ ThreeDistinctFrom(xs[i]) /\ \A j \in Index : j < i => xs[j] < xs[i])
        => tried[i] # Untried

(* A caller told SUCCESS has a fitted exponent and a cutoff (plfit.h: "fitted
   power-law exponent").                                                     *)
SuccessMeansFitted == ret = "SUCCESS" => bestN > 0 /\ best.alpha = "aboveOne"

(* The same, except for data without a point at or above 1 whose exponent is
   nevertheless corrected for a finite size.                                 *)
FittableMeansFitted == (correction => \E i \in Index : xs[i] >= 1) => SuccessMeansFitted

(* The inductive invariant behind PointersInBounds and TailIsExact.          *)
Sorted == \A i, j \in Index : i <= j => xs[i] <= xs[j]

RetreatInv ==
  /\ pc \in {"skip", "retreat1", "retreat2"} => n > 0 /\ endXmin \in Index
  /\ pc = "skip" => endXmin = n - 1
  /\ pc \in {"retreat1", "retreat2"} =>
       /\ m = px
       /\ \A i \in Index : i < px <=> xs[i] < 1
       /\ endXmin >= px \/ (px = n /\ endXmin = n - 1)
       /\ xs[endXmin] = prevX \/ (endXmin + 1 \in Index /\ xs[endXmin + 1] = prevX)

(* During the scan end_xmin is either the start of a run of equal values, or
   just behind the only candidate there is.                                  *)
LastRun == endXmin \in Index /\ endXmin - 1 \in Index /\ xs[endXmin - 1] < xs[endXmin]

WalkInv ==
  pc \in {"outer", "inner"} =>
    /\ m = px
    /\ \A i \in Index : i < px => xs[i] <= prevX
    /\ \A i \in Index : i >= px => xs[i] >= 1 /\ xs[i] >= prevX
    /\ pc = "outer" => LastRun \/ (px + 1 = endXmin /\ prevX = 0) \/ px >= endXmin
    /\ pc = "inner" => (LastRun /\ px <= endXmin) \/ (px + 1 = endXmin /\ prevX = 0)

SkipInv ==
  /\ pc = "check" => bestN = 0 /\ px = 0 /\ m = 0 /\ prevX = 0
  /\ pc = "skip" => px <= n /\ \A i \in Index : i < px => xs[i] < 1

DiscreteInv == TypeOK /\ Sorted /\ SkipInv /\ RetreatInv /\ WalkInv /\ TailIsExact

(* The inductive invariant behind BestIsFirstMinimal, NoCandidateSkipped and
   FittableMeansFitted.  Behind end_xmin there are at most two distinct values. *)
EndInv ==
  /\ pc = "retreat1" => prevX = xs[n - 1] /\ \A j \in Index : j > endXmin => xs[j] = xs[n - 1]
  /\ pc = "retreat2" => \A j \in Index : j > endXmin => xs[j] \in {prevX, xs[n - 1]}
  /\ pc \in {"outer", "inner"} =>
       /\ \A j \in Index : j >= endXmin => ~ThreeDistinctFrom(xs[j])
       /\ (\E i \in Index : xs[i] >= 1) => \E j \in Index : j < endXmin /\ xs[j] >= 1

(* Nothing is tried before the scan, and until the correction the exponent is
   the initial one exactly when no candidate has been chosen.                *)
BestInv ==
  /\ BestIsFirstMinimal
  /\ bestN = 0 => best.D = MaxD
  /\ pc \in {"check", "skip", "retreat1", "retreat2"} => bestN = 0
  /\ pc \in {"check", "skip", "retreat1", "retreat2", "outer", "inner"} =>
       best.alpha = IF bestN = 0 THEN "one" ELSE "aboveOne"

(* During the scan every block of values from 1 on that starts before px was
   tried at its start, and nowhere else has been tried.                      *)
FirstOfBlock(i) == \A j \in Index : j < i => xs[j] < xs[i]

ScannedInv ==
  pc \in {"outer", "inner"} =>
    /\ \A i \in Index : tried[i] # Untried => i < px
    /\ prevX # 0 => px - 1 \in Index /\ xs[px - 1] = prevX
    /\ \A i \in Index : (i < px /\ xs[i] >= 1) => bestN > 0 /\ (FirstOfBlock(i) => tried[i] # Untried)

(* What is left of that after the scan.                                      *)
OutcomeInv ==
  /\ NoCandidateSkipped
  /\ ret = "SUCCESS" => pc = "returned"
  /\ (pc \in {"likelihood", "pvalue"} \/ ret = "SUCCESS") =>
       /\ (\E i \in Index : xs[i] >= 1) => bestN > 0
       /\ best.alpha \in IF bestN > 0 THEN {"one", "aboveOne"}
                         ELSE {IF correction THEN "infinite" ELSE "one"}
  /\ (pc = "pvalue" \/ ret = "SUCCESS") => best.alpha # "one"

HistoryInv == EndInv /\ BestInv /\ ScannedInv /\ OutcomeInv
=============================================================================
