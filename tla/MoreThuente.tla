---------------------------- MODULE MoreThuente ----------------------------
(* line_search_morethuente and update_trial_interval (src/lbfgs.c): the line
   search that lbfgs uses by default.

   Steps are integers (the numbers of a coarse floating-point format), function
   values and slopes too; the objective along the direction is chosen when a
   step is evaluated for the first time and remembered.  The minimisers of the
   interpolating polynomials are arbitrary, since rounding may put them anywhere;
   clipping and safeguards are kept.  The value at the start is 0.           *)
EXTENDS Integers

CONSTANTS
  MinStep, MaxStep,  \* min_step and max_step
  MaxEvaluations,    \* max_linesearch
  FtolInv,           \* 1 / ftol
  GtolNum,           \* gtol * FtolInv
  XtolInv,           \* 1 / xtol
  StartSlopes,       \* directional derivatives at the start
  FirstSteps,        \* values of *stp on entry
  Values, Slopes     \* function values and slopes of the objective

ASSUME MoreThuenteAssumption ==
  /\ MinStep \in Nat /\ MaxStep \in Nat /\ MinStep <= MaxStep
  /\ MaxEvaluations \in Nat \ {0}
  /\ FtolInv \in Nat \ {0} /\ GtolNum \in 2 .. FtolInv - 1 /\ XtolInv \in Nat \ {0}
  /\ StartSlopes \subseteq Int \ {0} /\ \A s \in StartSlopes : s % FtolInv = 0
  /\ FirstSteps \subseteq Int /\ Values \subseteq Int /\ Slopes \subseteq Int

VARIABLES
  dginit,            \* slope at the start
  linePc,
  stp, f, dg,        \* the current step, the value and the slope there
  X, Y,              \* stx, fx, dgx and sty, fy, dgy as records
  brackt, stage1, uinfo,
  stmin, stmax,
  width, prevWidth,
  lineCount,
  seen,              \* the objective where it was evaluated
  lineRet

lineVars ==
  <<dginit, linePc, stp, f, dg, X, Y, brackt, stage1, uinfo, stmin, stmax, width, prevWidth, lineCount, seen, lineRet>>

dgtest == dginit \div FtolInv
Abs(n) == IF n < 0 THEN -n ELSE n
Lesser(a, b)  == IF a <= b THEN a ELSE b
Greater(a, b) == IF a >= b THEN a ELSE b

LineInit ==
  /\ dginit \in StartSlopes
  /\ stp \in FirstSteps
  /\ linePc = "enter"
  /\ f = 0 /\ dg = dginit
  /\ X = [st |-> 0, f |-> 0, d |-> dginit] /\ Y = X
  /\ brackt = FALSE /\ stage1 = TRUE /\ uinfo = "0"
  /\ stmin = 0 /\ stmax = 0
  /\ width = MaxStep - MinStep /\ prevWidth = 2 * (MaxStep - MinStep)
  /\ lineCount = 0
  /\ seen = [s \in {0} |-> [f |-> 0, d |-> dginit]]
  /\ lineRet = "none"

LineReturn(code) == lineRet' = code /\ linePc' = "returned"

Enter ==
  /\ linePc = "enter"
  /\ CASE stp <= 0 -> LineReturn("INVALIDPARAMETERS")
       [] stp > 0 /\ dginit > 0 -> LineReturn("INCREASEGRADIENT")
       [] OTHER -> linePc' = "clip" /\ UNCHANGED lineRet
  /\ UNCHANGED <<dginit, stp, f, dg, X, Y, brackt, stage1, uinfo, stmin, stmax, width, prevWidth, lineCount, seen>>

----------------------------------------------------------------------------
(* The interval of the step; a search that is about to end badly takes the best
   step instead.                                                             *)
Clipped == IF stp < MinStep THEN MinStep ELSE IF MaxStep < stp THEN MaxStep ELSE stp

Outside(s, lo, hi) == s <= lo \/ hi <= s
TooNarrow(lo, hi)  == (hi - lo) * XtolInv <= hi

Clip ==
  /\ linePc = "clip"
  /\ stmin' = IF brackt THEN Lesser(X.st, Y.st) ELSE X.st
  /\ stmax' = IF brackt THEN Greater(X.st, Y.st) ELSE stp + 4 * (stp - X.st)
  /\ LET ends == \/ Outside(Clipped, stmin', stmax')
                 \/ MaxEvaluations <= lineCount + 1
                 \/ uinfo # "0"
                 \/ TooNarrow(stmin', stmax')
     IN  stp' = IF brackt /\ ends THEN X.st ELSE Clipped
  /\ linePc' = "evaluate"
  /\ UNCHANGED <<dginit, f, dg, X, Y, brackt, stage1, uinfo, width, prevWidth, lineCount, seen, lineRet>>

Objective(s) == IF s \in DOMAIN seen THEN {seen[s]} ELSE [f : Values, d : Slopes]

(* The tests for errors and convergence, in their order.                     *)
Verdict(v) ==
  LET ftest1 == stp * dgtest
  IN  IF brackt /\ (Outside(stp, stmin, stmax) \/ uinfo # "0") THEN "ROUNDING_ERROR"
      ELSE IF stp = MaxStep /\ v.f <= ftest1 /\ v.d <= dgtest THEN "MAXIMUMSTEP"
      ELSE IF stp = MinStep /\ (ftest1 < v.f \/ dgtest <= v.d) THEN "MINIMUMSTEP"
      ELSE IF brackt /\ TooNarrow(stmin, stmax) THEN "WIDTHTOOSMALL"
      ELSE IF MaxEvaluations <= lineCount + 1 THEN "MAXIMUMLINESEARCH"
      ELSE IF v.f <= ftest1 /\ FtolInv * Abs(v.d) <= GtolNum * (-dginit) THEN "SUCCESS"
      ELSE "continue"

Evaluate ==
  /\ linePc = "evaluate"
  /\ \E v \in Objective(stp) :
       /\ f' = v.f /\ dg' = v.d
       /\ seen' = [s \in DOMAIN seen \cup {stp} |-> IF s = stp THEN v ELSE seen[s]]
       /\ IF Verdict(v) = "continue" THEN linePc' = "update" /\ UNCHANGED lineRet ELSE LineReturn(Verdict(v))
  /\ lineCount' = lineCount + 1
  /\ UNCHANGED <<dginit, stp, X, Y, brackt, stage1, uinfo, stmin, stmax, width, prevWidth>>

----------------------------------------------------------------------------
(* update_trial_interval: x is the endpoint with the least value, y the other
   one, t the trial.  What it refuses, and the four cases of the new trial.   *)
OppositeSlopes(t, x) == t.d * x.d < 0

Refusal(x, y, t) ==
  IF brackt /\ Outside(t.st, Lesser(x.st, y.st), Greater(x.st, y.st)) THEN "OUTOFINTERVAL"
  ELSE IF brackt /\ 0 <= x.d * (t.st - x.st) THEN "INCREASEGRADIENT"
  ELSE IF brackt /\ stmax < stmin THEN "INCORRECT_TMINMAX"
  ELSE "0"

\* Mutant: case c forgets to move y to the old best step.
NewIntervalKeepsY(x, y, t) ==
  IF x.f < t.f THEN [x |-> x, y |-> t] ELSE [x |-> t, y |-> y]

\* Mutant: a trial with a higher value replaces the best step.
NewIntervalSwapped(x, y, t) ==
  IF x.f < t.f THEN [x |-> t, y |-> x]
  ELSE [x |-> t, y |-> IF OppositeSlopes(t, x) THEN x ELSE y]

NewInterval(x, y, t) ==
  IF x.f < t.f THEN [x |-> x, y |-> t]
  ELSE [x |-> t, y |-> IF OppositeSlopes(t, x) THEN x ELSE y]

Brackets(x, t) == brackt \/ x.f < t.f \/ OppositeSlopes(t, x)

(* Where the minimiser may lie.  A higher value or slopes of opposite sign
   (cases 1 and 2) put it between x and the trial, a flatter slope (case 3)
   beyond the trial, and a steeper one (case 4) anywhere in the interval, or at
   its far end while there is no bracket.  Then it is clipped, at stmin last.  *)
Minimisers(x, t) ==
  CASE x.f < t.f \/ OppositeSlopes(t, x) -> Lesser(x.st, t.st) .. Greater(x.st, t.st)
    [] ~(x.f < t.f \/ OppositeSlopes(t, x)) /\ Abs(t.d) < Abs(x.d) ->
         IF x.st < t.st THEN t.st .. Greater(t.st, stmax) ELSE Lesser(t.st, stmin) .. t.st
    [] OTHER -> IF brackt THEN stmin .. stmax ELSE {IF x.st < t.st THEN stmax ELSE stmin}

InRange(s) == Greater(Lesser(s, stmax), stmin)

Trials(x, t) == {InRange(s) : s \in Minimisers(x, t)}

(* 0.66 of the way from the best endpoint to the other one: the first and
   the third case go no further.                                             *)
Share(n) == IF n >= 0 THEN (33 * n) \div 50 ELSE -((33 * (-n)) \div 50)

Safeguarded(trial, x, y) ==
  LET limit == x.st + Share(y.st - x.st)
  IN  IF x.st < y.st THEN Lesser(trial, limit) ELSE Greater(trial, limit)

Bounded(x, t) == x.f < t.f \/ (~OppositeSlopes(t, x) /\ Abs(t.d) < Abs(x.d))

update_trial_interval(x, y, t) ==
  LET code == Refusal(x, y, t)
      new  == NewInterval(x, y, t)
      b    == Brackets(x, t)
  IN  IF code # "0" THEN {[x |-> x, y |-> y, st |-> t.st, brackt |-> brackt, uinfo |-> code]}
      ELSE {[x |-> new.x, y |-> new.y, brackt |-> b, uinfo |-> "0",
             st |-> IF b /\ Bounded(x, t) THEN Safeguarded(trial, new.x, new.y) ELSE trial] :
            trial \in Trials(x, t)}

----------------------------------------------------------------------------
(* The modified function of the first stage, and back.                       *)
Modified(r) == [st |-> r.st, f |-> r.f - r.st * dgtest, d |-> r.d - dgtest]

Restored(r) == [st |-> r.st, f |-> r.f + r.st * dgtest, d |-> r.d + dgtest]

(* min(ftol, gtol) * dginit <= dg ends the first stage.                      *)
LeavesStage1 == f <= stp * dgtest /\ Lesser(1, GtolNum) * dginit <= FtolInv * dg

Half(n) == IF n >= 0 THEN n \div 2 ELSE -((-n) \div 2)

Update ==
  /\ linePc = "update"
  /\ stage1' = (stage1 /\ ~LeavesStage1)
  /\ LET t == [st |-> stp, f |-> f, d |-> dg]
         modify == stage1' /\ stp * dgtest < f /\ f <= X.f
     IN  \E r \in IF modify THEN update_trial_interval(Modified(X), Modified(Y), Modified(t))
                  ELSE update_trial_interval(X, Y, t) :
           /\ X' = IF modify THEN Restored(r.x) ELSE r.x
           /\ Y' = IF modify THEN Restored(r.y) ELSE r.y
           /\ brackt' = r.brackt /\ uinfo' = r.uinfo
           /\ LET d == r.y.st - r.x.st
              IN  IF r.brackt
                  THEN /\ stp' = IF 33 * prevWidth <= 50 * Abs(d) THEN r.x.st + Half(d) ELSE r.st
                       /\ prevWidth' = width /\ width' = Abs(d)
                  ELSE stp' = r.st /\ UNCHANGED <<width, prevWidth>>
  /\ linePc' = "clip"
  /\ UNCHANGED <<dginit, f, dg, stmin, stmax, lineCount, seen, lineRet>>

LineFinished == linePc = "returned" /\ UNCHANGED lineVars

LineNext == Enter \/ Clip \/ Evaluate \/ Update \/ LineFinished

LineSpec == LineInit /\ [][LineNext]_lineVars
----------------------------------------------------------------------------
Interval(x, y) == Lesser(x.st, y.st) .. Greater(x.st, y.st)

(* update_trial_interval never refuses its arguments: OUTOFINTERVAL,
   INCREASEGRADIENT and INCORRECT_TMINMAX are logic errors the caller rules out,
   also when it changes from the modified function to the objective.         *)
UpdateNeverRefuses == uinfo = "0"

(* The best step decreases the objective sufficiently: a search that ends badly
   falls back on a step that keeps the promise of ftol.                      *)
BestStepDecreases == X.f <= X.st * dgtest

(* Once the minimum is bracketed, the interval only shrinks, around a best step
   from which the objective descends into it.                                *)
BracketOnlyShrinks ==
  [][brackt => brackt' /\ Interval(X', Y') \subseteq Interval(X, Y)
                       /\ X'.d * (Y'.st - X'.st) < 0]_lineVars
----------------------------------------------------------------------------
(* What every reachable state satisfies, and why the search never refuses its
   own arguments.                                                            *)
PointsOnLine  == [st : Int, f : Int, d : Int]
Samples == [f : Int, d : Int]

SearchTypeOK ==
  /\ dginit \in StartSlopes
  /\ linePc \in {"enter", "clip", "evaluate", "update", "returned"}
  /\ stp \in Int /\ f \in Int /\ dg \in Int
  /\ X \in PointsOnLine /\ Y \in PointsOnLine
  /\ brackt \in BOOLEAN /\ stage1 \in BOOLEAN
  /\ stmin \in Int /\ stmax \in Int
  /\ width \in Int /\ prevWidth \in Int
  /\ lineCount \in Nat

(* The best endpoint is a step that was evaluated, and so is the current one:
   where the objective has one value, a step taken twice is no new point.    *)
RecordInv ==
  /\ seen \in [DOMAIN seen -> Samples]
  /\ X.st \in DOMAIN seen /\ seen[X.st] = [f |-> X.f, d |-> X.d]
  /\ linePc = "update" => stp \in DOMAIN seen /\ seen[stp] = [f |-> f, d |-> dg]

(* A direction in which the objective grows is rejected at once.             *)
RejectedInv ==
  linePc \in {"enter", "returned"} /\ ~brackt /\ stage1 /\ X = [st |-> 0, f |-> 0, d |-> dginit]

Descends(x, y) == (x.d < 0 /\ x.st < y.st) \/ (0 < x.d /\ y.st < x.st)

(* In the first stage the best step lies below the line of ftol, where the
   objective falls faster than the line does.  The stage ends with a bracket, and
   then even the farther end of the interval is above the best value on the line.*)
IntervalInv ==
  /\ X.st <= MaxStep
  /\ stage1 => X.f <= X.st * dgtest /\ X.d < dgtest /\ (brackt => X.st < Y.st)
  /\ ~stage1 => brackt /\ X.f <= Greater(X.st, Y.st) * dgtest
  /\ brackt => Descends(X, Y)

(* Without a bracket the search only goes forward; with one, a trial that is
   used is inside the interval, and is not an answer already.                *)
Sufficient == f <= stp * dgtest /\ FtolInv * Abs(dg) <= GtolNum * (-dginit)

StepInv ==
  /\ linePc = "enter" => X.st = 0
  /\ linePc = "clip" /\ ~brackt => X.st <= Clipped
  /\ linePc \in {"evaluate", "update"} =>
       /\ stp <= MaxStep
       /\ brackt => stmin = Lesser(X.st, Y.st) /\ stmax = Greater(X.st, Y.st)
       /\ ~brackt => stmin = X.st /\ X.st <= stp /\ (stp <= stmax \/ stp <= MinStep)
  /\ linePc = "update" => (brackt => stmin < stp /\ stp < stmax) /\ ~Sufficient

SearchInv ==
  /\ SearchTypeOK /\ RecordInv
  /\ UpdateNeverRefuses
  /\ 0 < dginit => RejectedInv
  /\ dginit < 0 => IntervalInv /\ StepInv
=============================================================================
