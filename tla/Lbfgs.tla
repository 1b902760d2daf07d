------------------------------- MODULE Lbfgs -------------------------------
(* lbfgs (src/lbfgs.c) and its caller plfit_i_estimate_alpha_discrete_lbfgs
   (src/plfit.c): parameter checks, workspace, the iteration with its
   backtracking line searches, the ring of corrections and the ring of past
   objective values, and what the caller makes of the return code.

   A point is the rank of its objective value.  A correction, a multiplier and
   a past value are represented by the number of the iteration they were
   computed in.  A step is known by its place relative to min_step and max_step,
   the directional derivative by the comparisons made with it.  The line search
   of More and Thuente is used through what MoreThuente shows of it.  Objective
   values and norms are numbers, not NaN.                                    *)
EXTENDS Integers, FiniteSets, SequencesExt

CONSTANTS
  M,              \* number of corrections
  MaxLineSearch,  \* max_linesearch
  Iterations,     \* values of max_iterations tried; 0 is no limit
  Pasts,          \* values of past tried; 0 is no delta-based test
  Methods,        \* line searches tried
  Ranks,          \* ranks of the objective values
  MaxK,           \* bound on the iterations of a call without a limit
  MaxBad          \* bound on the number of invalid parameters of a call

ASSUME LbfgsAssumption ==
  /\ M \in Nat \ {0} /\ MaxLineSearch \in Nat \ {0}
  /\ Iterations \subseteq Nat /\ Pasts \subseteq Nat /\ Ranks \subseteq Nat
  /\ Methods \subseteq {"MORETHUENTE", "ARMIJO", "WOLFE", "STRONG_WOLFE", "OWLQN"}
  /\ MaxK \in Nat /\ MaxBad \in Nat

(* The checks, in the order in which they are made.                          *)
Checks ==
  <<"N", "EPSILON", "TESTPERIOD", "DELTA", "MINSTEP", "MAXSTEP", "FTOL", "WOLFE", "GTOL", "XTOL",
    "MAXLINESEARCH", "ORTHANTWISE", "ORTHANTWISE_START", "ORTHANTWISE_END", "LINESEARCH">>

(* The blocks of the workspace: a name, and the slot for those of the ring; and
   the caller's block with the single variable.                              *)
Slots   == 0 .. M - 1
Vectors == {"xp", "g", "gp", "d", "w"} \X {0}
OfSlots == {"s", "y"} \X Slots
Workspace == Vectors \cup ({"pg", "lm", "pf"} \X {0}) \cup OfSlots
Variables == <<"variables", 0>>
Blocks    == Workspace \cup {Variables}

VARIABLES
  param,          \* the record of parameters that matter to the control flow
  bad,            \* the parameters that are invalid
  pc,
  heap,           \* "null", "garbage", "held", "freed" or "corrupt"
  x, xp, fx,      \* the current and the previous point, the local variable fx
  k, end,         \* iteration, next slot of the ring of corrections
  i, j, bound,    \* the loops over the corrections
  lm,             \* per slot: iteration of s and y, iteration of alpha
  pf,             \* per slot: iteration of the objective value
  count, step,    \* evaluations of this line search, its step
  ret,            \* return code
  reported,       \* *ptr_fx, or Unset
  alpha,          \* what the caller returns: "none", "failure" or the point
  start           \* history: the first point

rings   == <<k, end, i, j, bound, lm>>
search  == <<count, step>>
vars    == <<param, bad, pc, heap, x, xp, fx, rings, pf, search, ret, reported, alpha, start>>

Unset == -1
NoValue == -2          \* a slot that no iteration has written

Init ==
  /\ bad \in {b \in SUBSET ToSet(Checks) : Cardinality(b) <= MaxBad}
  /\ param \in [method : Methods, past : Pasts, maxIter : Iterations]
  /\ (bad # {}) => param = CHOOSE q \in [method : Methods, past : Pasts, maxIter : Iterations] : TRUE
  /\ pc = "estimate"
  /\ heap = [b \in Blocks |-> "null"]
  /\ x = Unset /\ xp = Unset /\ fx = 0
  /\ k = 1 /\ end = 0 /\ i = 0 /\ j = 0 /\ bound = 0
  /\ lm = [s \in Slots |-> [it |-> Unset, alpha |-> Unset]]
  /\ pf = [s \in 0 .. param.past - 1 |-> NoValue]
  /\ count = 0 /\ step = "within"
  /\ ret = "none" /\ reported = Unset /\ alpha = Unset /\ start = Unset

Goto(label) == pc' = label
Leave(code) == ret' = code /\ Goto("exit")

(* The caller's block is not tested for NULL before the initial guess goes in. *)
EstimateStarts ==
  /\ pc = "estimate"
  /\ \/ heap' = [heap EXCEPT ![Variables] = "held"] /\ Goto("check")
     \/ Goto("crashed") /\ UNCHANGED heap
  /\ UNCHANGED <<param, bad, x, xp, fx, rings, pf, search, ret, reported, alpha, start>>

----------------------------------------------------------------------------
(* Parameter checks: the first that fails is reported, and nothing is touched. *)
Reject ==
  /\ pc = "check" /\ bad # {}
  /\ ret' = SelectSeq(Checks, LAMBDA c : c \in bad)[1]
  /\ Goto("caller")
  /\ UNCHANGED <<param, bad, heap, x, xp, fx, rings, pf, search, reported, alpha, start>>

(* The five vectors are all requested before any of them is looked at.       *)
AllocateVectors ==
  /\ pc = "check" /\ bad = {}
  /\ \E missing \in SUBSET Vectors :
       /\ heap' = [b \in Blocks |-> IF b \in Vectors \ missing THEN "held" ELSE heap[b]]
       /\ IF missing # {} THEN Leave("OUTOFMEMORY") ELSE Goto("allocPg") /\ UNCHANGED ret
  /\ UNCHANGED <<param, bad, x, xp, fx, rings, pf, search, reported, alpha, start>>

Orthantwise == param.method = "OWLQN"

AllocatePseudoGradient ==
  /\ pc = "allocPg"
  /\ \/ /\ heap' = IF Orthantwise THEN [heap EXCEPT ![<<"pg", 0>>] = "held"] ELSE heap
        /\ Goto("allocLm") /\ UNCHANGED ret
     \/ Orthantwise /\ Leave("OUTOFMEMORY") /\ UNCHANGED heap
  /\ UNCHANGED <<param, bad, x, xp, fx, rings, pf, search, reported, alpha, start>>

\* Mutant: the ring is allocated without being cleared.
AllocateRingUncleared ==
  /\ pc = "allocLm"
  /\ \/ /\ heap' = [b \in Blocks |-> IF b = <<"lm", 0>> THEN "held" ELSE
                                     IF b \in OfSlots THEN "garbage" ELSE heap[b]]
        /\ Goto("allocSlots") /\ UNCHANGED ret
     \/ Leave("OUTOFMEMORY") /\ UNCHANGED heap
  /\ UNCHANGED <<param, bad, x, xp, fx, rings, pf, search, reported, alpha, start>>

(* vecalloc clears the ring, so that the vectors of its slots are null.      *)
AllocateRing ==
  /\ pc = "allocLm"
  /\ \/ heap' = [heap EXCEPT ![<<"lm", 0>>] = "held"] /\ Goto("allocSlots") /\ UNCHANGED ret
     \/ Leave("OUTOFMEMORY") /\ UNCHANGED heap
  /\ UNCHANGED <<param, bad, x, xp, fx, rings, pf, search, reported, alpha, start>>

AllocateSlot ==
  /\ pc = "allocSlots" /\ i < M
  /\ \E missing \in SUBSET {"s", "y"} :
       /\ heap' = [heap EXCEPT ![<<"s", i>>] = IF "s" \in missing THEN "null" ELSE "held",
                               ![<<"y", i>>] = IF "y" \in missing THEN "null" ELSE "held"]
       /\ IF missing # {} THEN Leave("OUTOFMEMORY") ELSE UNCHANGED <<pc, ret>>
  /\ i' = i + 1
  /\ UNCHANGED <<param, bad, x, xp, fx, k, end, j, bound, lm, pf, search, reported, alpha, start>>

(* A missing array of past values only switches the delta-based test off.    *)
AllocatePast ==
  /\ pc = "allocSlots" /\ i = M
  /\ heap' \in {heap} \cup (IF param.past > 0 THEN {[heap EXCEPT ![<<"pf", 0>>] = "held"]} ELSE {})
  /\ Goto("start")
  /\ UNCHANGED <<param, bad, x, xp, fx, rings, pf, search, ret, reported, alpha, start>>

----------------------------------------------------------------------------
(* The first evaluation and the test for a start that is already a minimum.  *)
TestsPast == heap[<<"pf", 0>>] = "held"

FirstEvaluation ==
  /\ pc = "start"
  /\ x' \in Ranks /\ fx' = x' /\ start' = x'
  /\ pf' = IF TestsPast THEN [pf EXCEPT ![0] = 0] ELSE pf
  /\ \/ Leave("ALREADY_MINIMIZED") /\ UNCHANGED step
     \/ Goto("iterate") /\ step' \in {"zero", "below", "within", "above"} /\ UNCHANGED ret
  /\ UNCHANGED <<param, bad, heap, xp, rings, count, reported, alpha>>

(* One iteration: store the point, then the entry checks of the line search. *)
StartSearch ==
  /\ pc = "iterate"
  /\ k <= MaxK
  /\ xp' = x
  /\ count' = 0
  /\ \/ step = "zero" /\ ret' = "INVALIDPARAMETERS" /\ Goto("revert")
     \/ step # "zero" /\ ~Orthantwise /\ ret' = "INCREASEGRADIENT" /\ Goto("revert")
     \/ step # "zero" /\ Goto("search") /\ UNCHANGED ret
  /\ UNCHANGED <<param, bad, heap, x, fx, rings, pf, step, reported, alpha, start>>

(* line_search_backtracking and line_search_backtracking_owlqn: what an
   evaluation leads to.  Without orthants the direction descends, so a
   sufficient decrease does not raise the objective.                         *)
Verdicts(f) ==
  (IF Orthantwise \/ f <= xp
   THEN {"accept"} \cup (IF param.method \in {"WOLFE", "STRONG_WOLFE"} THEN {"increase"} ELSE {})
                   \cup (IF param.method = "STRONG_WOLFE" THEN {"decrease"} ELSE {})
   ELSE {}) \cup {"decrease"}

\* Mutant: the evaluation is not counted.
CountedNot == count

Counted == count + 1

SearchOutcome(v) ==
  CASE v = "accept"    -> "SUCCESS"
    [] step = "below" /\ v # "accept" -> "MINIMUMSTEP"
    [] step = "above" /\ v # "accept" -> "MAXIMUMSTEP"
    [] OTHER -> IF MaxLineSearch <= Counted THEN "MAXIMUMLINESEARCH" ELSE "continue"

EndSearch(code) ==
  IF code = "SUCCESS" THEN Goto("progress") /\ UNCHANGED ret ELSE Goto("revert") /\ ret' = code

Backtrack ==
  /\ pc = "search" /\ param.method # "MORETHUENTE"
  /\ \E f \in Ranks, v \in {"accept", "increase", "decrease"} :
       /\ v \in Verdicts(f)
       /\ x' = f /\ fx' = f
       /\ IF SearchOutcome(v) = "continue"
          THEN step' \in {"within", IF v = "decrease" THEN "below" ELSE "above"} /\ UNCHANGED <<pc, ret>>
          ELSE EndSearch(SearchOutcome(v)) /\ UNCHANGED step
  /\ count' = Counted
  /\ UNCHANGED <<param, bad, heap, xp, rings, pf, reported, alpha, start>>

(* line_search_morethuente, which MoreThuente models: its successful exit requires
   the decrease that ftol asks for, every other exit is an error.             *)
SearchMoreThuente ==
  /\ pc = "search" /\ param.method = "MORETHUENTE"
  /\ \E f \in Ranks :
       /\ x' = f /\ fx' = f
       /\ \/ f <= xp /\ EndSearch("SUCCESS")
          \/ \E code \in {"ROUNDING_ERROR", "MAXIMUMSTEP", "MINIMUMSTEP", "WIDTHTOOSMALL", "MAXIMUMLINESEARCH"} :
               EndSearch(code)
  /\ UNCHANGED <<param, bad, heap, xp, rings, pf, search, reported, alpha, start>>

\* Mutant: the point of the failed search is kept.
RevertNothing ==
  /\ pc = "revert"
  /\ Goto("exit")
  /\ UNCHANGED <<param, bad, heap, x, xp, fx, rings, pf, search, ret, reported, alpha, start>>

(* After a failed search the previous point is restored, but not fx.         *)
Revert ==
  /\ pc = "revert"
  /\ x' = xp
  /\ Goto("exit")
  /\ UNCHANGED <<param, bad, heap, xp, fx, rings, pf, search, ret, reported, alpha, start>>

(* After a successful one: the progress callback may cancel, the gradient may
   be small enough.                                                          *)
Progress ==
  /\ pc = "progress"
  /\ \/ Leave("CANCELED") \/ Leave("SUCCESS")
     \/ Goto("delta") /\ UNCHANGED ret
  /\ UNCHANGED <<param, bad, heap, x, xp, fx, rings, pf, search, reported, alpha, start>>

\* Mutant: the test starts one iteration too early.
PastReachedEarly == TestsPast /\ param.past <= k + 1

PastReached == TestsPast /\ param.past <= k

(* The delta-based test against the value in the slot that is then replaced. *)
TestDelta ==
  /\ pc = "delta"
  /\ \/ PastReached /\ Leave("STOP") /\ UNCHANGED pf
     \/ /\ pf' = IF TestsPast THEN [pf EXCEPT ![k % param.past] = k] ELSE pf
        /\ Goto("limit") /\ UNCHANGED ret
  /\ UNCHANGED <<param, bad, heap, x, xp, fx, rings, search, reported, alpha, start>>

LimitReached == param.maxIter # 0 /\ param.maxIter < k + 1

StopAtLimit ==
  /\ pc = "limit" /\ LimitReached
  /\ Leave("MAXIMUMITERATION")
  /\ UNCHANGED <<param, bad, heap, x, xp, fx, rings, pf, search, reported, alpha, start>>

----------------------------------------------------------------------------
(* The new correction goes to the next slot of the ring, and the two loops go
   over the last corrections: back to the oldest one, then forward again.    *)
StoreCorrection ==
  /\ pc = "limit" /\ ~LimitReached
  /\ lm' = [lm EXCEPT ![end].it = k]
  /\ bound' = IF M <= k THEN M ELSE k
  /\ k' = k + 1
  /\ end' = (end + 1) % M
  /\ j' = end' /\ i' = 0
  /\ Goto("backward")
  /\ UNCHANGED <<param, bad, heap, x, xp, fx, pf, search, ret, reported, alpha, start>>

Before(slot) == (slot + M - 1) % M

LoopBackward ==
  /\ pc = "backward"
  /\ IF i < bound
     THEN /\ j' = Before(j)
          /\ lm' = [lm EXCEPT ![j'].alpha = k]
          /\ i' = i + 1 /\ UNCHANGED pc
     ELSE Goto("forward") /\ i' = 0 /\ UNCHANGED <<j, lm>>
  /\ UNCHANGED <<param, bad, heap, x, xp, fx, k, end, bound, pf, search, ret, reported, alpha, start>>

(* The direction is then constrained to the orthant, which only changes d, and
   the next search starts with a step of 1.                                  *)
\* Mutant: the second loop moves on before it uses its first correction.
LoopForwardSkewed ==
  /\ pc = "forward"
  /\ IF i < bound
     THEN j' = (j + 2) % M /\ i' = i + 1 /\ UNCHANGED <<pc, step>>
     ELSE Goto("iterate") /\ step' \in {"below", "within", "above"} /\ UNCHANGED <<j, i>>
  /\ UNCHANGED <<param, bad, heap, x, xp, fx, k, end, bound, lm, pf, count, ret, reported, alpha, start>>

LoopForward ==
  /\ pc = "forward"
  /\ IF i < bound
     THEN j' = (j + 1) % M /\ i' = i + 1 /\ UNCHANGED <<pc, step>>
     ELSE Goto("iterate") /\ step' \in {"below", "within", "above"} /\ UNCHANGED <<j, i>>
  /\ UNCHANGED <<param, bad, heap, x, xp, fx, k, end, bound, lm, pf, count, ret, reported, alpha, start>>

----------------------------------------------------------------------------
(* The common exit: the value is reported and the workspace is freed.        *)
Freed(b) ==
  CASE b = "held" -> "freed"
    [] b \in {"freed", "garbage", "corrupt"} -> "corrupt"
    [] OTHER -> b

Exit ==
  /\ pc = "exit"
  /\ reported' = fx
  /\ heap' = [b \in Blocks |-> IF b \in Workspace THEN Freed(heap[b]) ELSE heap[b]]
  /\ Goto("caller")
  /\ UNCHANGED <<param, bad, x, xp, fx, rings, pf, search, ret, alpha, start>>

(* plfit takes the point as the exponent after a minimum and after four of the
   errors; any other error becomes PLFIT_FAILURE.  Both free the variable.     *)
Tolerated == {"SUCCESS", "STOP", "ALREADY_MINIMIZED", "ROUNDING_ERROR", "MAXIMUMLINESEARCH", "MINIMUMSTEP", "CANCELED"}

EstimateReturns ==
  /\ pc = "caller"
  /\ alpha' = IF ret \in Tolerated THEN x ELSE Unset
  /\ heap' = [heap EXCEPT ![Variables] = Freed(@)]
  /\ Goto("returned")
  /\ UNCHANGED <<param, bad, x, xp, fx, rings, pf, search, ret, reported, start>>

Finished == (pc \in {"returned", "crashed"} \/ (pc = "iterate" /\ k > MaxK)) /\ UNCHANGED vars

Next ==
  \/ EstimateStarts
  \/ Reject \/ AllocateVectors \/ AllocatePseudoGradient \/ AllocateRing \/ AllocateSlot \/ AllocatePast
  \/ FirstEvaluation \/ StartSearch \/ Backtrack \/ SearchMoreThuente \/ Revert
  \/ Progress \/ TestDelta \/ StopAtLimit
  \/ StoreCorrection \/ LoopBackward \/ LoopForward
  \/ Exit \/ EstimateReturns \/ Finished

Spec == Init /\ [][Next]_vars

(* One thread, which always takes its next step.                             *)
FairSpec == Spec /\ WF_vars(Next)
----------------------------------------------------------------------------
(* However the call ends, and whichever allocation failed, every block of the
   workspace and the caller's variable were freed exactly once; a call refused for its parameters has not
   evaluated or reported anything.                                           *)
WorkspaceReleased ==
  /\ \A b \in Blocks : heap[b] # "corrupt"
  /\ pc = "returned" => \A b \in Blocks : heap[b] # "held"
  /\ (pc = "returned" /\ bad # {}) => reported = Unset /\ start = Unset

(* The two loops use exactly the last bound corrections, from the newest to the
   oldest and back, and the second one finds in each slot the multiplier that
   the first one of the same iteration has left there.                       *)
CorrectionsInOrder ==
  /\ (pc = "backward" /\ i < bound) => lm[Before(j)].it = k - 1 - i
  /\ (pc = "forward" /\ i < bound) => lm[j] = [it |-> k - bound + i, alpha |-> k]

(* src/lbfgs.h: "f' is the objective value of past iterations ago": the ring of
   past values is never compared before it is full nor with another value.   *)
PastIsThatFarBack == 
  (pc = "delta" /\ PastReached) => pf[k % param.past] = k - param.past

(* The exponent that plfit uses is a point that is no worse than the initial
   guess, also after the errors it tolerates, and a value that is reported for
   a search that did not fail is the value of the returned point.            *)
AnswerNotWorse ==
  pc = "returned" =>
    /\ (alpha # Unset /\ ~Orthantwise) => alpha <= start
    /\ ret \in {"SUCCESS", "STOP", "ALREADY_MINIMIZED", "CANCELED", "MAXIMUMITERATION"} => reported = x

(* A call with a limit on its iterations returns, and every line search ends
   within its limit of evaluations.                                          *)
MinimiserTerminates ==
  /\ (pc = "check" /\ param.maxIter # 0) ~> (pc = "returned")
  /\ (pc = "search") ~> (pc \in {"progress", "revert"})
----------------------------------------------------------------------------
(* The inductive invariant of the four invariants above.                     *)
Iterating == {"iterate", "search", "progress", "delta", "limit", "backward", "forward"}
Allocating == {"allocPg", "allocLm", "allocSlots"}
Points == Ranks \cup {Unset}

TypeOK ==
  /\ param \in [method : Methods, past : Pasts, maxIter : Iterations]
  /\ pc \in Iterating \cup Allocating \cup {"estimate", "crashed", "check", "start", "revert", "exit", "caller", "returned"}
  /\ heap \in [Blocks -> {"null", "held", "freed"}]
  /\ x \in Points /\ xp \in Points /\ fx \in Nat
  /\ k \in Nat \ {0} /\ i \in Nat /\ bound \in Nat
  /\ end \in Slots /\ j \in Slots
  /\ lm \in [Slots -> [it : Int, alpha : Int]]
  /\ pf \in [0 .. param.past - 1 -> Int]

(* Nothing is freed before the common exit, which frees the whole workspace, and
   the caller holds its variable during the call; a call with invalid parameters
   never gets past the checks.                                               *)
Uncalled == {"estimate", "crashed"}

HeapInv ==
  /\ pc \in Uncalled \cup {"check"} => \A b \in Workspace : heap[b] = "null"
  /\ pc \notin {"caller", "returned"} => \A b \in Workspace : heap[b] # "freed"
  /\ pc \in {"caller", "returned"} => \A b \in Workspace : heap[b] # "held"
  /\ heap[Variables] = IF pc \in Uncalled THEN "null" ELSE IF pc = "returned" THEN "freed" ELSE "held"
  /\ bad # {} => /\ pc \in Uncalled \cup {"check", "caller", "returned"}
                 /\ x = Unset /\ reported = Unset /\ start = Unset
  /\ pc \in Uncalled \cup {"check", "start"} \cup Allocating => k = 1
  /\ TestsPast => param.past > 0

(* Slot (t - 1) % M holds the correction of iteration t, for the last M of them;
   the first loop has left the multipliers of this iteration in the last i
   slots, and both loops keep j in step with i.                              *)
RingInv ==
  /\ end = (k - 1) % M
  /\ \A t \in 1 .. k - 1 : t >= k - M => lm[(t - 1) % M].it = t
  /\ pc \in {"backward", "forward"} =>
       /\ bound <= M /\ bound <= k - 1 /\ i <= bound
       /\ j = IF pc = "backward" THEN (k - 1 - i) % M ELSE (k - 1 - bound + i) % M
       /\ \A t \in 1 .. k - 1 :
            t >= k - (IF pc = "backward" THEN i ELSE bound) => lm[(t - 1) % M].alpha = k

(* The iterations whose objective value has been stored.                     *)
PastUpTo == IF pc = "limit" THEN k ELSE k - 1

PastInv ==
  (pc \in Iterating /\ TestsPast) =>
    \A t \in 0 .. PastUpTo : t > PastUpTo - param.past => pf[t % param.past] = t

(* The objective value is that of the point except after a failed search, and
   without orthants no accepted point is worse than the one before.          *)
Valued == {"SUCCESS", "STOP", "ALREADY_MINIMIZED", "CANCELED", "MAXIMUMITERATION"}

NotWorse(p) == p \in Ranks /\ (~Orthantwise => p <= start)

AnswerInv ==
  /\ pc \in Iterating \cup {"revert"} => start \in Ranks
  /\ pc \in Iterating => x \in Ranks /\ fx = x
  /\ pc \in Iterating \ {"search"} => NotWorse(x)
  /\ pc \in {"search", "revert"} => NotWorse(xp)
  /\ pc = "revert" => ret \notin Valued
  /\ pc = "exit" => (ret \in Valued => fx = x) /\ (ret \in Tolerated => NotWorse(x))
  /\ (pc = "caller" /\ bad = {}) => (ret \in Valued => reported = x) /\ (ret \in Tolerated => NotWorse(x))

LbfgsInv ==
  /\ TypeOK /\ HeapInv /\ RingInv /\ PastInv /\ AnswerInv
  /\ AnswerNotWorse
=============================================================================
