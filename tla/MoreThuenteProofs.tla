------------------------- MODULE MoreThuenteProofs -------------------------
(* Proofs about the line search, for every objective, all limits of the step
   and any place where rounding puts the minimisers of the polynomials.      *)
EXTENDS MoreThuente, TLAPS

(* Signs and order of products.                                              *)
LEMMA ExactDivision ==
  ASSUME NEW n \in Int, NEW u \in Nat \ {0}, n % u = 0
  PROVE  n \div u \in Int /\ u * (n \div u) = n
OBVIOUS

LEMMA ProductFalls ==
  ASSUME NEW a \in Int, NEW b \in Int, NEW c \in Int, c < 0, a <= b
  PROVE  b * c \in Int /\ a * c \in Int /\ b * c <= a * c
OBVIOUS

LEMMA ProductRises ==
  ASSUME NEW a \in Int, NEW b \in Int, NEW c \in Int, 0 <= c, a <= b
  PROVE  a * c \in Int /\ b * c \in Int /\ a * c <= b * c
OBVIOUS

LEMMA NegativeProduct ==
  ASSUME NEW a \in Int, NEW b \in Int
  PROVE  a * b \in Int /\ (a * b < 0 <=> (a < 0 /\ 0 < b) \/ (0 < a /\ b < 0))
<1>1. CASE a < 0 /\ b < 0
  <2>1. b * a >= 0 * a
    BY <1>1, ProductFalls
  <2> QED
    BY <2>1, <1>1
<1>2. CASE a < 0 /\ 0 < b
  BY <1>2
<1>3. CASE 0 < a /\ b < 0
  BY <1>3
<1>4. CASE 0 < a /\ 0 < b
  BY <1>4
<1>5. CASE a = 0 \/ b = 0
  BY <1>5
<1> QED
  BY <1>1, <1>2, <1>3, <1>4, <1>5

LEMMA SmallShare ==
  ASSUME NEW n \in Int, NEW u \in Int, NEW m \in Int, 3 <= u, u * m = n, n < 0
  PROVE  m < 0 /\ n < m
<1>1. ASSUME 0 <= m PROVE FALSE
  <2>1. 3 * m <= u * m
    BY <1>1, ProductRises
  <2> QED
    BY <2>1, <1>1
<1>2. u * m <= 3 * m
  BY <1>1, ProductFalls
<1> QED
  BY <1>1, <1>2

(* The line of ftol falls, less steeply than the objective at the start.     *)
LEMMA LineFalls ==
  ASSUME dginit \in StartSlopes
  PROVE  /\ dginit \in Int \ {0} /\ dgtest \in Int /\ FtolInv * dgtest = dginit
         /\ dginit < 0 => dgtest < 0 /\ dginit < dgtest
<1>1. dginit \in Int \ {0} /\ FtolInv \in Nat \ {0} /\ FtolInv >= 3 /\ dginit % FtolInv = 0
  BY MoreThuenteAssumption
<1>2. dgtest \in Int /\ FtolInv * dgtest = dginit
  BY <1>1, ExactDivision DEF dgtest
<1>3. FtolInv \in Int /\ 3 <= FtolInv
  BY <1>1
<1>4. ASSUME dginit < 0 PROVE dgtest < 0 /\ dginit < dgtest
  BY <1>1, <1>2, <1>3, <1>4, SmallShare
<1> QED
  BY <1>1, <1>2, <1>4

LEMMA ShareIsInteger ==
  ASSUME NEW n \in Int
  PROVE  Share(n) \in Int /\ Half(n) \in Int
BY DEF Share, Half

----------------------------------------------------------------------------
(* What the trial function does, for arguments that it does not refuse.      *)
LEMMA NotRefused ==
  ASSUME NEW x \in PointsOnLine, NEW y \in PointsOnLine, NEW t \in PointsOnLine,
         stmin \in Int, stmax \in Int, brackt \in BOOLEAN,
         brackt => /\ stmin = Lesser(x.st, y.st) /\ stmax = Greater(x.st, y.st)
                   /\ stmin < t.st /\ t.st < stmax /\ Descends(x, y)
  PROVE  Refusal(x, y, t) = "0"
<1>1. CASE ~brackt
  BY <1>1 DEF Refusal
<1>2. CASE brackt
  <2>1. ~Outside(t.st, Lesser(x.st, y.st), Greater(x.st, y.st)) /\ stmin <= stmax
    BY <1>2 DEF Outside, PointsOnLine
  <2>2. x.d \in Int /\ t.st - x.st \in Int
    BY DEF PointsOnLine
  <2>3. (x.d < 0 /\ 0 < t.st - x.st) \/ (0 < x.d /\ t.st - x.st < 0)
    BY <1>2 DEF Descends, Lesser, Greater, PointsOnLine
  <2>4. x.d * (t.st - x.st) \in Int /\ x.d * (t.st - x.st) < 0
    BY <2>2, <2>3, NegativeProduct
  <2> QED
    BY <2>1, <2>4 DEF Refusal
<1> QED
  BY <1>1, <1>2

LEMMA TrialEffect ==
  ASSUME NEW x \in PointsOnLine, NEW y \in PointsOnLine, NEW t \in PointsOnLine,
         stmin \in Int, stmax \in Int, brackt \in BOOLEAN,
         brackt => /\ stmin = Lesser(x.st, y.st) /\ stmax = Greater(x.st, y.st)
                   /\ stmin < t.st /\ t.st < stmax /\ Descends(x, y),
         NEW r \in update_trial_interval(x, y, t)
  PROVE  /\ r.uinfo = "0" /\ r.st \in Int
         /\ r.x = NewInterval(x, y, t).x /\ r.y = NewInterval(x, y, t).y
         /\ r.brackt = Brackets(x, t)
         /\ ~r.brackt => \E s \in Minimisers(x, t) : r.st = InRange(s)
<1> DEFINE new == NewInterval(x, y, t)
           b == Brackets(x, t)
<1>1. Refusal(x, y, t) = "0"
  BY NotRefused
<1>2. PICK trial \in Trials(x, t) :
        r = [x |-> new.x, y |-> new.y, brackt |-> b, uinfo |-> "0",
             st |-> IF b /\ Bounded(x, t) THEN Safeguarded(trial, new.x, new.y) ELSE trial]
  BY <1>1, Zenon DEF update_trial_interval
<1>3. PICK s \in Minimisers(x, t) : trial = InRange(s)
  BY <1>2, Zenon DEF Trials
<1>4. x.st \in Int /\ t.st \in Int
  BY DEF PointsOnLine
<1>5. s \in Int
  <2>1. \A p, q \in Int : Lesser(p, q) \in Int /\ Greater(p, q) \in Int
    BY DEF Lesser, Greater
  <2> QED
    BY <1>3, <1>4, <2>1 DEF Minimisers
<1>6. trial \in Int
  BY <1>3, <1>5 DEF InRange, Lesser, Greater
<1>7. new.x \in PointsOnLine /\ new.y \in PointsOnLine
  BY DEF NewInterval
<1>8. Safeguarded(trial, new.x, new.y) \in Int
  <2>1. new.x.st \in Int /\ new.y.st \in Int
    BY <1>7 DEF PointsOnLine
  <2> HIDE DEF new
  <2>2. new.x.st + Share(new.y.st - new.x.st) \in Int
    BY <2>1, ShareIsInteger
  <2> QED
    BY <1>6, <2>2 DEF Safeguarded, Lesser, Greater
<1> HIDE DEF new, b
<1>9. r.uinfo = "0" /\ r.x = new.x /\ r.y = new.y /\ r.brackt = b
      /\ r.st = IF b /\ Bounded(x, t) THEN Safeguarded(trial, new.x, new.y) ELSE trial
  BY <1>2
<1> QED
  BY <1>3, <1>6, <1>8, <1>9 DEF new, b
----------------------------------------------------------------------------
(* The initial state and the steps that leave the interval alone.            *)
LEMMA InitEstablishes ==
  ASSUME LineInit
  PROVE  SearchInv
<1>1. dginit \in Int \ {0} /\ dgtest \in Int /\ (dginit < 0 => dginit < dgtest)
  BY LineFalls DEF LineInit
<1>2. SearchTypeOK
  <2>1. stp \in Int /\ MaxStep - MinStep \in Int /\ 2 * (MaxStep - MinStep) \in Int
    BY MoreThuenteAssumption DEF LineInit
  <2>2. X \in PointsOnLine /\ Y \in PointsOnLine
    BY <1>1 DEF LineInit, PointsOnLine
  <2>3. dginit \in StartSlopes /\ linePc = "enter" /\ brackt \in BOOLEAN /\ stage1 \in BOOLEAN
    BY DEF LineInit
  <2>4. f \in Int /\ dg \in Int /\ stmin \in Int /\ stmax \in Int /\ lineCount \in Nat
    BY <1>1 DEF LineInit
  <2>5. width \in Int /\ prevWidth \in Int
    BY <2>1 DEF LineInit
  <2> QED
    BY <2>1, <2>2, <2>3, <2>4, <2>5 DEF SearchTypeOK
<1>3. RecordInv
  BY <1>1 DEF LineInit, RecordInv, Samples
<1>4. UpdateNeverRefuses /\ RejectedInv
  BY DEF LineInit, UpdateNeverRefuses, RejectedInv
<1>5. ASSUME dginit < 0 PROVE IntervalInv
  <2>1. X.st = 0 /\ X.f = 0 /\ X.d = dginit /\ 0 <= MaxStep /\ stage1 /\ ~brackt
    BY MoreThuenteAssumption DEF LineInit
  <2> QED
    BY <2>1, <1>1, <1>5 DEF IntervalInv
<1>6. StepInv
  BY DEF LineInit, StepInv
<1> QED
  BY <1>2, <1>3, <1>4, <1>5, <1>6 DEF SearchInv

LEMMA EnterKeeps ==
  ASSUME SearchInv, Enter
  PROVE  SearchInv'
<1>1. dginit \in Int \ {0}
  BY LineFalls DEF SearchInv, SearchTypeOK
<1>2. SearchTypeOK'
  BY DEF SearchInv, SearchTypeOK, Enter, LineReturn
<1>3. linePc' \in {"clip", "returned"} /\ (linePc' = "clip" => 0 < stp /\ ~(dginit > 0))
  BY <1>1 DEF Enter, LineReturn, SearchInv, SearchTypeOK
<1>4. RecordInv'
  BY <1>3 DEF SearchInv, RecordInv, Enter
<1>5. UpdateNeverRefuses'
  BY DEF SearchInv, UpdateNeverRefuses, Enter
<1>6. ASSUME 0 < dginit' PROVE RejectedInv'
  BY <1>3, <1>6 DEF SearchInv, RejectedInv, Enter
<1>7. ASSUME dginit' < 0 PROVE IntervalInv'
  BY <1>7 DEF SearchInv, IntervalInv, Enter, dgtest
<1>8. ASSUME dginit' < 0 PROVE StepInv'
  <2>1. stp \in Int /\ X.st = 0 /\ UNCHANGED <<stp, X, brackt>>
    BY <1>8 DEF SearchInv, SearchTypeOK, StepInv, Enter
  <2>2. linePc' = "clip" => X'.st <= Clipped'
    BY <1>3, <2>1, MoreThuenteAssumption DEF Clipped
  <2> QED
    BY <1>3, <2>2 DEF StepInv
<1> QED
  BY <1>2, <1>4, <1>5, <1>6, <1>7, <1>8 DEF SearchInv

LEMMA ClipKeeps ==
  ASSUME SearchInv, Clip
  PROVE  SearchInv'
<1> USE DEF SearchInv
<1>1. /\ linePc = "clip" /\ linePc' = "evaluate"
      /\ UNCHANGED <<dginit, f, dg, X, Y, brackt, stage1, uinfo, width, prevWidth, lineCount, seen, lineRet>>
  BY DEF Clip
<1>2. dginit \in Int \ {0} /\ dginit < 0
  BY <1>1, LineFalls DEF SearchTypeOK, RejectedInv
<1>3. stp \in Int /\ X.st \in Int /\ Y.st \in Int /\ brackt \in BOOLEAN /\ Clipped \in Int
  BY MoreThuenteAssumption DEF SearchTypeOK, PointsOnLine, Clipped
<1>4. /\ stmin' = IF brackt THEN Lesser(X.st, Y.st) ELSE X.st
      /\ stmax' = IF brackt THEN Greater(X.st, Y.st) ELSE stp + 4 * (stp - X.st)
      /\ stp' = Clipped \/ (brackt /\ stp' = X.st)
  BY DEF Clip
<1>5. stmin' \in Int /\ stmax' \in Int /\ stp' \in Int
  BY <1>3, <1>4 DEF Lesser, Greater
<1>6. SearchTypeOK'
  BY <1>1, <1>5 DEF SearchTypeOK
<1>7. RecordInv' /\ UpdateNeverRefuses' /\ IntervalInv'
  BY <1>1, <1>2 DEF RecordInv, UpdateNeverRefuses, IntervalInv, dgtest
<1>8. stp' <= MaxStep
  BY <1>2, <1>3, <1>4, MoreThuenteAssumption DEF IntervalInv, Clipped
<1>9. ASSUME ~brackt
      PROVE  stmin' = X.st /\ X.st <= stp' /\ (stp' <= stmax' \/ stp' <= MinStep)
  <2>1. X.st <= Clipped /\ X.st <= MaxStep
    BY <1>1, <1>2, <1>9 DEF StepInv, IntervalInv
  <2>2. stp' = Clipped /\ stmin' = X.st /\ stmax' = stp + 4 * (stp - X.st)
    BY <1>4, <1>9
  <2> QED
    BY <2>1, <2>2, <1>3, MoreThuenteAssumption DEF Clipped
<1>10. StepInv'
  BY <1>1, <1>4, <1>8, <1>9 DEF StepInv
<1> QED
  BY <1>1, <1>2, <1>6, <1>7, <1>10

LEMMA EvaluateKeeps ==
  ASSUME SearchInv, Evaluate
  PROVE  SearchInv'
<1> USE DEF SearchInv
<1>1. /\ linePc = "evaluate" /\ lineCount' = lineCount + 1
      /\ UNCHANGED <<dginit, stp, X, Y, brackt, stage1, uinfo, stmin, stmax, width, prevWidth>>
  BY DEF Evaluate
<1>2. dginit \in Int \ {0} /\ dginit < 0
  BY <1>1, LineFalls DEF SearchTypeOK, RejectedInv
<1>3. PICK v \in Objective(stp) :
        /\ f' = v.f /\ dg' = v.d
        /\ seen' = [s \in DOMAIN seen \cup {stp} |-> IF s = stp THEN v ELSE seen[s]]
        /\ IF Verdict(v) = "continue" THEN linePc' = "update" /\ UNCHANGED lineRet ELSE LineReturn(Verdict(v))
  BY DEF Evaluate
<1>4. v \in Samples /\ (stp \in DOMAIN seen => v = seen[stp])
  BY <1>3, MoreThuenteAssumption DEF Objective, Samples, RecordInv
<1>5. linePc' \in {"update", "returned"} /\ (linePc' = "update" => Verdict(v) = "continue")
  BY <1>3 DEF LineReturn
<1>6. SearchTypeOK'
  BY <1>1, <1>3, <1>4, <1>5 DEF SearchTypeOK, Samples
<1>7. RecordInv'
  <2>1. seen' \in [DOMAIN seen' -> Samples]
    BY <1>3, <1>4 DEF RecordInv
  <2>2. X.st \in DOMAIN seen' /\ seen'[X.st] = [f |-> X.f, d |-> X.d]
    BY <1>3, <1>4 DEF RecordInv
  <2>3. stp \in DOMAIN seen' /\ seen'[stp] = [f |-> f', d |-> dg']
    BY <1>3, <1>4 DEF Samples
  <2> QED
    BY <1>1, <2>1, <2>2, <2>3 DEF RecordInv
<1>8. UpdateNeverRefuses' /\ IntervalInv'
  BY <1>1, <1>2 DEF UpdateNeverRefuses, IntervalInv, dgtest
<1>9. ASSUME linePc' = "update"
      PROVE  (brackt => stmin < stp /\ stp < stmax) /\ ~Sufficient'
  <2>1. Verdict(v) = "continue"
    BY <1>5, <1>9
  <2>2. ~(brackt /\ Outside(stp, stmin, stmax))
    BY <2>1 DEF Verdict
  <2>3. ~(v.f <= stp * dgtest /\ FtolInv * Abs(v.d) <= GtolNum * (-dginit))
    BY <2>1, Zenon DEF Verdict
  <2>4. ~Sufficient'
    BY <2>3, <1>1, <1>3 DEF Sufficient, dgtest
  <2>5. stmin \in Int /\ stmax \in Int /\ stp \in Int
    BY DEF SearchTypeOK
  <2> QED
    BY <2>2, <2>4, <2>5 DEF Outside
<1>10. StepInv'
  BY <1>1, <1>2, <1>5, <1>9 DEF StepInv
<1> QED
  BY <1>1, <1>2, <1>6, <1>7, <1>8, <1>10
----------------------------------------------------------------------------
(* The update of the interval has three outcomes, named for where the trial
   goes: to the other endpoint, to the best one across a minimum, or to the best
   one on the same slope.  The modified function only ever leads to the first. *)
Here == [st |-> stp, f |-> f, d |-> dg]

Overshot ==
  /\ X' = X /\ Y' = Here /\ brackt' = TRUE
  /\ X.f < f \/ (stage1' /\ X.st < stp)

Crossed ==
  /\ X' = Here /\ Y' = X /\ brackt' = TRUE
  /\ f <= X.f /\ dg * X.d < 0 /\ (stage1' => f <= stp * dgtest)

Descended ==
  /\ X' = Here /\ Y' = Y /\ brackt' = brackt
  /\ f <= X.f /\ ~(dg * X.d < 0) /\ (stage1' => f <= stp * dgtest)
  /\ ~brackt => stp <= stp' \/ stp <= MinStep

(* What Update finds, spelled out.                                           *)
LEMMA UpdateStart ==
  ASSUME SearchInv, linePc = "update"
  PROVE  /\ dginit < 0 /\ dgtest \in Int /\ dgtest < 0
         /\ SearchTypeOK /\ RecordInv /\ IntervalInv /\ ~Sufficient
         /\ X \in PointsOnLine /\ Y \in PointsOnLine /\ Here \in PointsOnLine
         /\ X.st \in Int /\ X.f \in Int /\ X.d \in Int /\ Y.st \in Int /\ stp \in Int /\ f \in Int /\ dg \in Int
         /\ stmin \in Int /\ stmax \in Int /\ brackt \in BOOLEAN /\ stage1 \in BOOLEAN
         /\ stp <= MaxStep
         /\ brackt => /\ stmin = Lesser(X.st, Y.st) /\ stmax = Greater(X.st, Y.st)
                      /\ stmin < stp /\ stp < stmax
         /\ ~brackt => stmin = X.st /\ X.st <= stp /\ (stp <= stmax \/ stp <= MinStep)
         /\ stp = X.st => f = X.f /\ dg = X.d
<1>1. dginit \in StartSlopes /\ SearchTypeOK /\ RecordInv
  BY DEF SearchInv, SearchTypeOK
<1>2. dginit \in Int \ {0} /\ ~RejectedInv /\ (dginit < 0 => dgtest < 0) /\ dgtest \in Int
  BY <1>1, LineFalls DEF RejectedInv
<1>3. dginit < 0 /\ IntervalInv /\ StepInv
  BY <1>2 DEF SearchInv
<1>4. X \in PointsOnLine /\ Y \in PointsOnLine /\ Here \in PointsOnLine
  BY <1>1 DEF SearchTypeOK, Here, PointsOnLine
<1>5. /\ X.st \in Int /\ X.f \in Int /\ X.d \in Int /\ Y.st \in Int
      /\ stp \in Int /\ f \in Int /\ dg \in Int /\ stmin \in Int /\ stmax \in Int
      /\ brackt \in BOOLEAN /\ stage1 \in BOOLEAN
  BY <1>1, <1>4 DEF SearchTypeOK, PointsOnLine
<1>6. ASSUME stp = X.st PROVE f = X.f /\ dg = X.d
  <2>1. [f |-> X.f, d |-> X.d] = [f |-> f, d |-> dg]
    BY <1>6 DEF SearchInv, RecordInv
  <2> QED
    BY <2>1
<1> QED
  BY <1>1, <1>2, <1>3, <1>4, <1>5, <1>6 DEF StepInv

(* A trial on the modified function lies beyond the best step, and above it on
   that function.                                                            *)
LEMMA ModifiedTrial ==
  ASSUME SearchInv, linePc = "update", stage1, stp * dgtest < f, f <= X.f
  PROVE  /\ X.st < stp
         /\ Modified(X) \in PointsOnLine /\ Modified(Y) \in PointsOnLine /\ Modified(Here) \in PointsOnLine
         /\ Modified(X).st = X.st /\ Modified(Y).st = Y.st /\ Modified(Here).st = stp
         /\ Modified(X).f < Modified(Here).f
         /\ Restored(Modified(X)) = X /\ Restored(Modified(Here)) = Here
         /\ brackt => Descends(Modified(X), Modified(Y))
<1>1. /\ dgtest \in Int /\ dgtest < 0 /\ X \in PointsOnLine /\ Y \in PointsOnLine /\ Here \in PointsOnLine
      /\ X.st \in Int /\ X.f \in Int /\ X.d \in Int /\ stp \in Int /\ f \in Int /\ dg \in Int /\ Y.st \in Int
  BY UpdateStart
<1>2. X.f <= X.st * dgtest /\ X.d < dgtest /\ (brackt => X.st < Y.st)
  BY UpdateStart DEF IntervalInv
<1>3. X.st * dgtest \in Int /\ stp * dgtest \in Int
  BY <1>1
<1>4. X.st < stp
  <2>1. SUFFICES ASSUME stp <= X.st PROVE FALSE
    BY <1>1
  <2>2. X.st * dgtest <= stp * dgtest
    BY <1>1, <2>1, ProductFalls
  <2> QED
    BY <1>1, <1>2, <1>3, <2>2
<1>5. ASSUME NEW r \in PointsOnLine
      PROVE  /\ Modified(r) = [st |-> r.st, f |-> r.f - r.st * dgtest, d |-> r.d - dgtest]
             /\ Modified(r) \in PointsOnLine /\ Restored(Modified(r)) = r
  <2>1. r.st \in Int /\ r.f \in Int /\ r.d \in Int /\ r = [st |-> r.st, f |-> r.f, d |-> r.d]
    BY DEF PointsOnLine
  <2>2. r.st * dgtest \in Int
    BY <2>1, <1>1
  <2>3. Modified(r) = [st |-> r.st, f |-> r.f - r.st * dgtest, d |-> r.d - dgtest]
    BY DEF Modified, PointsOnLine
  <2>4. Modified(r) \in PointsOnLine
    BY <2>1, <2>2, <2>3, <1>1 DEF PointsOnLine
  <2>5. Restored(Modified(r)) = [st |-> r.st, f |-> r.f - r.st * dgtest + r.st * dgtest, d |-> r.d - dgtest + dgtest]
    BY <2>3 DEF Restored
  <2>6. r.f - r.st * dgtest + r.st * dgtest = r.f /\ r.d - dgtest + dgtest = r.d
    BY <2>1, <2>2, <1>1
  <2> QED
    BY <2>1, <2>3, <2>4, <2>5, <2>6
<1>6. Here.st = stp /\ Here.f = f
  BY DEF Here
<1>7. Modified(X).f < Modified(Here).f
  <2>1. Modified(X).f = X.f - X.st * dgtest /\ Modified(Here).f = f - stp * dgtest
    BY <1>1, <1>5, <1>6
  <2> QED
    BY <2>1, <1>1, <1>2, <1>3
<1>8. brackt => Descends(Modified(X), Modified(Y))
  <2>1. Modified(X).d = X.d - dgtest /\ Modified(X).st = X.st /\ Modified(Y).st = Y.st
    BY <1>1, <1>5
  <2> QED
    BY <2>1, <1>1, <1>2 DEF Descends
<1> QED
  BY <1>1, <1>4, <1>5, <1>6, <1>7, <1>8
LEMMA PlainOutcome ==
  ASSUME SearchInv, linePc = "update", NEW r \in update_trial_interval(X, Y, Here),
         X' = r.x, Y' = r.y, brackt' = r.brackt, ~brackt' => stp' = r.st,
         stage1' => f <= stp * dgtest \/ X.f < f
  PROVE  Overshot \/ Crossed \/ Descended
<1>1. /\ X \in PointsOnLine /\ Y \in PointsOnLine /\ Here \in PointsOnLine
      /\ X.st \in Int /\ X.f \in Int /\ X.d \in Int /\ Y.st \in Int /\ stp \in Int /\ f \in Int /\ dg \in Int
      /\ stmin \in Int /\ stmax \in Int /\ brackt \in BOOLEAN
      /\ brackt => /\ stmin = Lesser(X.st, Y.st) /\ stmax = Greater(X.st, Y.st)
                   /\ stmin < stp /\ stp < stmax
      /\ ~brackt => stmin = X.st /\ X.st <= stp /\ (stp <= stmax \/ stp <= MinStep)
  BY UpdateStart
<1>2. Here.st = stp /\ Here.f = f /\ Here.d = dg
  BY DEF Here
<1>3. brackt => Descends(X, Y)
  BY UpdateStart DEF IntervalInv
<1>4. /\ r.x = NewInterval(X, Y, Here).x /\ r.y = NewInterval(X, Y, Here).y
      /\ r.brackt = Brackets(X, Here)
      /\ ~r.brackt => \E s \in Minimisers(X, Here) : r.st = InRange(s)
  BY <1>1, <1>2, <1>3, TrialEffect
<1>5. CASE X.f < f
  <2>1. X' = X /\ Y' = Here /\ brackt' = TRUE
    BY <1>2, <1>4, <1>5 DEF NewInterval, Brackets
  <2> QED
    BY <2>1, <1>5 DEF Overshot
<1>6. CASE ~(X.f < f) /\ dg * X.d < 0
  <2>1. X' = Here /\ Y' = X /\ brackt' = TRUE
    BY <1>2, <1>4, <1>6 DEF NewInterval, Brackets, OppositeSlopes
  <2> QED
    BY <2>1, <1>1, <1>6 DEF Crossed
<1>7. CASE ~(X.f < f) /\ ~(dg * X.d < 0)
  <2>1. X' = Here /\ Y' = Y /\ brackt' = brackt
    BY <1>1, <1>2, <1>4, <1>7 DEF NewInterval, Brackets, OppositeSlopes
  <2>2. ASSUME ~brackt PROVE stp <= stp' \/ stp <= MinStep
    <3>1. PICK s \in Minimisers(X, Here) : stp' = InRange(s)
      BY <1>4, <2>1, <2>2
    <3>2. \/ s \in IF X.st < stp THEN stp .. Greater(stp, stmax) ELSE Lesser(stp, stmin) .. stp
          \/ s = IF X.st < stp THEN stmax ELSE stmin
      <4>1. ~(X.f < Here.f \/ OppositeSlopes(Here, X))
        BY <1>2, <1>7 DEF OppositeSlopes
      <4> QED
        BY <3>1, <4>1, <1>2, <2>2 DEF Minimisers
    <3>3. s \in Int /\ (X.st < stp => stp <= s \/ s = stmax)
      BY <3>2, <1>1 DEF Greater, Lesser
    <3>4. stp' \in Int /\ stmin <= stp' /\ (X.st < stp => stp <= stp' \/ stmax <= stp')
      BY <3>1, <3>3, <1>1 DEF InRange, Lesser, Greater
    <3>5. CASE X.st < stp
      BY <3>4, <3>5, <1>1, <2>2, MoreThuenteAssumption
    <3>6. CASE X.st = stp
      BY <3>4, <3>6, <1>1, <2>2
    <3> QED
      BY <3>5, <3>6, <1>1, <2>2
  <2> QED
    BY <2>1, <2>2, <1>1, <1>7 DEF Descended
<1> QED
  BY <1>5, <1>6, <1>7

LEMMA UpdateEffect ==
  ASSUME SearchInv, Update
  PROVE  /\ Overshot \/ Crossed \/ Descended
         /\ uinfo' = "0" /\ stp' \in Int /\ width' \in Int /\ prevWidth' \in Int
<1> DEFINE modify == stage1' /\ stp * dgtest < f /\ f <= X.f
<1>1. linePc = "update" /\ stage1' = (stage1 /\ ~LeavesStage1)
  BY DEF Update
<1>2. PICK r \in IF modify THEN update_trial_interval(Modified(X), Modified(Y), Modified(Here))
                 ELSE update_trial_interval(X, Y, Here) :
        /\ X' = IF modify THEN Restored(r.x) ELSE r.x
        /\ Y' = IF modify THEN Restored(r.y) ELSE r.y
        /\ brackt' = r.brackt /\ uinfo' = r.uinfo
        /\ LET d == r.y.st - r.x.st
           IN  IF r.brackt
               THEN /\ stp' = IF 33 * prevWidth <= 50 * Abs(d) THEN r.x.st + Half(d) ELSE r.st
                    /\ prevWidth' = width /\ width' = Abs(d)
               ELSE stp' = r.st /\ UNCHANGED <<width, prevWidth>>
  BY Zenon DEF Update, Here
<1>3. /\ X \in PointsOnLine /\ Y \in PointsOnLine /\ Here \in PointsOnLine
      /\ stp \in Int /\ f \in Int /\ X.f \in Int /\ dgtest \in Int
      /\ stmin \in Int /\ stmax \in Int /\ brackt \in BOOLEAN /\ stage1 \in BOOLEAN
      /\ brackt => /\ stmin = Lesser(X.st, Y.st) /\ stmax = Greater(X.st, Y.st)
                   /\ stmin < stp /\ stp < stmax
  BY <1>1, UpdateStart
<1>4. width \in Int /\ prevWidth \in Int
  BY DEF SearchInv, SearchTypeOK
<1>5. Here.st = stp
  BY DEF Here
<1>6. ASSUME NEW x \in PointsOnLine, NEW y \in PointsOnLine, NEW t \in PointsOnLine,
             r \in update_trial_interval(x, y, t),
             x.st = X.st, y.st = Y.st, t.st = stp, brackt => Descends(x, y)
      PROVE  /\ r.uinfo = "0" /\ stp' \in Int /\ width' \in Int /\ prevWidth' \in Int
             /\ r.x = NewInterval(x, y, t).x /\ r.y = NewInterval(x, y, t).y /\ r.brackt = Brackets(x, t)
  <2>1. /\ r.uinfo = "0" /\ r.st \in Int /\ r.brackt = Brackets(x, t)
        /\ r.x = NewInterval(x, y, t).x /\ r.y = NewInterval(x, y, t).y
    BY <1>3, <1>6, TrialEffect
  <2>2. r.x.st \in Int /\ r.y.st \in Int
    BY <2>1 DEF NewInterval, PointsOnLine
  <2>3. r.y.st - r.x.st \in Int /\ Abs(r.y.st - r.x.st) \in Int /\ Half(r.y.st - r.x.st) \in Int
    BY <2>2, ShareIsInteger DEF Abs
  <2>4. stp' \in {r.x.st + Half(r.y.st - r.x.st), r.st}
    BY <1>2
  <2>5. width' \in {Abs(r.y.st - r.x.st), width} /\ prevWidth' \in {width, prevWidth}
    BY <1>2
  <2> QED
    BY <2>1, <2>2, <2>3, <2>4, <2>5, <1>4
<1>7. CASE modify
  <2>1. stage1 /\ stage1' /\ stp * dgtest < f /\ f <= X.f
    BY <1>1, <1>7
  <2>2. /\ X.st < stp
        /\ Modified(X) \in PointsOnLine /\ Modified(Y) \in PointsOnLine /\ Modified(Here) \in PointsOnLine
        /\ Modified(X).st = X.st /\ Modified(Y).st = Y.st /\ Modified(Here).st = stp
        /\ Modified(X).f < Modified(Here).f
        /\ Restored(Modified(X)) = X /\ Restored(Modified(Here)) = Here
        /\ brackt => Descends(Modified(X), Modified(Y))
    BY <1>1, <2>1, ModifiedTrial
  <2>3. r \in update_trial_interval(Modified(X), Modified(Y), Modified(Here))
    BY <1>2, <1>7
  <2>4. /\ r.uinfo = "0" /\ stp' \in Int /\ width' \in Int /\ prevWidth' \in Int
        /\ r.x = Modified(X) /\ r.y = Modified(Here) /\ r.brackt = TRUE
    BY <1>6, <2>2, <2>3 DEF NewInterval, Brackets
  <2>5. X' = X /\ Y' = Here /\ brackt' = TRUE
    BY <1>2, <1>7, <2>2, <2>4
  <2> QED
    BY <1>2, <2>1, <2>2, <2>4, <2>5 DEF Overshot
<1>8. CASE ~modify
  <2>1. r \in update_trial_interval(X, Y, Here) /\ X' = r.x /\ Y' = r.y
    BY <1>2, <1>8
  <2>2. brackt => Descends(X, Y)
    BY <1>1, UpdateStart DEF IntervalInv
  <2>3. r.uinfo = "0" /\ stp' \in Int /\ width' \in Int /\ prevWidth' \in Int
    BY <1>3, <1>5, <1>6, <2>1, <2>2
  <2>4. ~brackt' => stp' = r.st
    BY <1>2
  <2>5. stage1' => f <= stp * dgtest \/ X.f < f
    <3>1. stp * dgtest \in Int
      BY <1>3
    <3> QED
      BY <3>1, <1>3, <1>8
  <2>6. Overshot \/ Crossed \/ Descended
    BY <1>1, <1>2, <2>1, <2>4, <2>5, PlainOutcome
  <2> QED
    BY <1>2, <2>3, <2>6
<1> QED
  BY <1>7, <1>8
----------------------------------------------------------------------------
(* The first stage goes on while the slope at the trials is steeper than the
   line of ftol; it ends where the objective rises, since a flatter slope that
   still falls would be an answer.                                           *)
LEMMA SlopeAtTrial ==
  ASSUME SearchInv, Update, stage1, f <= stp * dgtest
  PROVE  IF stage1' THEN dg < dgtest ELSE 0 < dg
<1>1. /\ linePc = "update" /\ (stage1' <=> ~LeavesStage1) /\ dginit \in StartSlopes
  BY DEF Update, SearchInv, SearchTypeOK
<1>2. dg \in Int /\ dgtest \in Int /\ ~Sufficient /\ dginit < 0
  BY <1>1, UpdateStart
<1>3. dginit \in Int /\ FtolInv * dgtest = dginit
  BY <1>1, LineFalls
<1>4. FtolInv \in Int /\ 0 <= FtolInv /\ GtolNum \in Int /\ 2 <= GtolNum
  BY MoreThuenteAssumption
<1>5. LeavesStage1 <=> dginit <= FtolInv * dg
  <2>1. Lesser(1, GtolNum) = 1
    BY <1>4 DEF Lesser
  <2> QED
    BY <2>1, <1>3 DEF LeavesStage1
<1>6. FtolInv * dg \in Int
  BY <1>2, <1>4
<1>7. CASE ~LeavesStage1
  <2>1. SUFFICES ASSUME dgtest <= dg PROVE FALSE
    BY <1>1, <1>2, <1>7
  <2>2. dgtest * FtolInv <= dg * FtolInv
    BY <2>1, <1>2, <1>4, ProductRises
  <2>3. dgtest * FtolInv = FtolInv * dgtest /\ dg * FtolInv = FtolInv * dg
    BY <1>2, <1>4
  <2> QED
    BY <2>2, <2>3, <1>3, <1>5, <1>6, <1>7
<1>8. CASE LeavesStage1
  <2>1. SUFFICES ASSUME dg <= 0 PROVE FALSE
    BY <1>1, <1>2, <1>8
  <2>2. FtolInv * Abs(dg) = -(FtolInv * dg)
    BY <2>1, <1>2, <1>4 DEF Abs
  <2>3. -dginit \in Int /\ 0 <= -dginit
    BY <1>2, <1>3
  <2>4. 2 * (-dginit) <= GtolNum * (-dginit) /\ GtolNum * (-dginit) \in Int
    BY <2>3, <1>4, ProductRises
  <2>5. FtolInv * Abs(dg) <= GtolNum * (-dginit)
    BY <2>2, <2>3, <2>4, <1>2, <1>3, <1>5, <1>6, <1>8
  <2> QED
    BY <2>5, <1>2 DEF Sufficient
<1> QED
  BY <1>7, <1>8

LEMMA OvershotKeeps ==
  ASSUME SearchInv, Update, Overshot
  PROVE  IntervalInv' /\ (brackt => Interval(X', Y') \subseteq Interval(X, Y))
<1>1. linePc = "update" /\ stage1' = (stage1 /\ ~LeavesStage1) /\ dginit' = dginit
  BY DEF Update
<1>2. /\ IntervalInv /\ dgtest \in Int /\ dgtest < 0 /\ stage1 \in BOOLEAN /\ brackt \in BOOLEAN
      /\ X.st \in Int /\ X.f \in Int /\ X.d \in Int /\ Y.st \in Int /\ stp \in Int /\ f \in Int /\ dg \in Int
      /\ stp <= MaxStep
      /\ brackt => /\ stmin = Lesser(X.st, Y.st) /\ stmax = Greater(X.st, Y.st)
                   /\ stmin < stp /\ stp < stmax
      /\ ~brackt => X.st <= stp
      /\ stp = X.st => f = X.f /\ dg = X.d
  BY <1>1, UpdateStart
<1>3. X' = X /\ Y'.st = stp /\ brackt' = TRUE /\ dgtest' = dgtest
  BY <1>1 DEF Overshot, Here, dgtest
<1>4. stp # X.st
  BY <1>2 DEF Overshot
<1>5. Descends(X, Y')
  <2>1. CASE brackt
    BY <2>1, <1>2, <1>3 DEF IntervalInv, Descends, Lesser, Greater
  <2>2. CASE ~brackt
    BY <2>2, <1>2, <1>3, <1>4 DEF IntervalInv, Descends
  <2> QED
    BY <2>1, <2>2, <1>2
<1>6. ASSUME stage1'
      PROVE  X.f <= X.st * dgtest /\ X.d < dgtest /\ X.st < Y'.st
  <2>1. X.f <= X.st * dgtest /\ X.d < dgtest
    BY <1>1, <1>2, <1>6 DEF IntervalInv
  <2> QED
    BY <2>1, <1>2, <1>5 DEF Descends
<1>7. ASSUME ~stage1'
      PROVE  X.f <= Greater(X.st, Y'.st) * dgtest
  <2>1. X.f < f
    BY <1>7 DEF Overshot
  <2>2. CASE stage1
    <3>1. LeavesStage1
      BY <1>1, <1>7, <2>2
    <3>2. f <= stp * dgtest
      BY <3>1 DEF LeavesStage1
    <3>3. X.d < dgtest /\ X.d < 0
      BY <1>2, <2>2 DEF IntervalInv
    <3>4. Greater(X.st, Y'.st) = stp
      BY <3>3, <1>2, <1>3, <1>5 DEF Descends, Greater
    <3>5. stp * dgtest \in Int
      BY <1>2
    <3> QED
      BY <2>1, <3>2, <3>4, <3>5, <1>2
  <2>3. CASE ~stage1
    <3>1. brackt /\ X.f <= Greater(X.st, Y.st) * dgtest
      BY <1>2, <2>3 DEF IntervalInv
    <3>2. /\ Greater(X.st, Y.st) \in Int /\ Greater(X.st, Y'.st) \in Int
          /\ Greater(X.st, Y'.st) <= Greater(X.st, Y.st)
      BY <1>2, <1>3, <3>1 DEF Greater, Lesser
    <3>3. /\ Greater(X.st, Y.st) * dgtest <= Greater(X.st, Y'.st) * dgtest
          /\ Greater(X.st, Y.st) * dgtest \in Int /\ Greater(X.st, Y'.st) * dgtest \in Int
      BY <3>2, <1>2, ProductFalls
    <3> QED
      BY <3>1, <3>3, <1>2
  <2> QED
    BY <2>2, <2>3
<1>8. IntervalInv'
  BY <1>2, <1>3, <1>5, <1>6, <1>7 DEF IntervalInv, Descends
<1>9. ASSUME brackt PROVE Interval(X', Y') \subseteq Interval(X, Y)
  <2>1. /\ Lesser(X.st, Y.st) \in Int /\ Greater(X.st, Y.st) \in Int
        /\ Lesser(X.st, Y'.st) \in Int /\ Greater(X.st, Y'.st) \in Int
        /\ Lesser(X.st, Y.st) <= Lesser(X.st, Y'.st) /\ Greater(X.st, Y'.st) <= Greater(X.st, Y.st)
    BY <1>2, <1>3, <1>9 DEF Lesser, Greater
  <2> QED
    BY <2>1, <1>3 DEF Interval
<1> QED
  BY <1>8, <1>9
LEMMA CrossedKeeps ==
  ASSUME SearchInv, Update, Crossed
  PROVE  IntervalInv' /\ (brackt => Interval(X', Y') \subseteq Interval(X, Y))
<1>1. linePc = "update" /\ stage1' = (stage1 /\ ~LeavesStage1) /\ dginit' = dginit
  BY DEF Update
<1>2. /\ IntervalInv /\ dgtest \in Int /\ dgtest < 0 /\ stage1 \in BOOLEAN /\ brackt \in BOOLEAN
      /\ X.st \in Int /\ X.f \in Int /\ X.d \in Int /\ Y.st \in Int /\ stp \in Int /\ f \in Int /\ dg \in Int
      /\ stp <= MaxStep
      /\ brackt => /\ stmin = Lesser(X.st, Y.st) /\ stmax = Greater(X.st, Y.st)
                   /\ stmin < stp /\ stp < stmax
      /\ ~brackt => X.st <= stp
      /\ stp = X.st => f = X.f /\ dg = X.d
  BY <1>1, UpdateStart
<1>3. /\ X'.st = stp /\ X'.f = f /\ X'.d = dg /\ Y' = X /\ brackt' = TRUE /\ dgtest' = dgtest
      /\ f <= X.f
  BY <1>1 DEF Crossed, Here, dgtest
<1>4. (dg < 0 /\ 0 < X.d) \/ (0 < dg /\ X.d < 0)
  BY <1>2, NegativeProduct DEF Crossed
<1>5. stp # X.st
  BY <1>2, <1>4
<1>6. Descends(X', Y')
  <2>1. CASE brackt
    BY <2>1, <1>2, <1>3, <1>4 DEF IntervalInv, Descends, Lesser, Greater
  <2>2. CASE ~brackt
    BY <2>2, <1>2, <1>3, <1>4, <1>5 DEF IntervalInv, Descends
  <2> QED
    BY <2>1, <2>2, <1>2
<1>7. ~stage1'
  <2>1. SUFFICES ASSUME stage1' PROVE FALSE
    OBVIOUS
  <2>2. stage1 /\ f <= stp * dgtest
    BY <1>1, <2>1 DEF Crossed
  <2>3. dg < dgtest
    BY <2>1, <2>2, SlopeAtTrial
  <2>4. X.d < dgtest
    BY <1>2, <2>2 DEF IntervalInv
  <2> QED
    BY <2>3, <2>4, <1>2, <1>4
<1>8. f <= Greater(X'.st, Y'.st) * dgtest
  <2>1. CASE stage1
    <3>1. f <= stp * dgtest
      BY <1>1, <1>7, <2>1 DEF LeavesStage1
    <3>2. X.d < 0
      BY <1>2, <2>1 DEF IntervalInv
    <3>3. Greater(X'.st, Y'.st) = stp
      BY <3>2, <1>2, <1>3, <1>4, <1>6 DEF Descends, Greater
    <3> QED
      BY <3>1, <3>3
  <2>2. CASE ~stage1
    <3>1. brackt /\ X.f <= Greater(X.st, Y.st) * dgtest
      BY <1>2, <2>2 DEF IntervalInv
    <3>2. /\ Greater(X.st, Y.st) \in Int /\ Greater(X'.st, Y'.st) \in Int
          /\ Greater(X'.st, Y'.st) <= Greater(X.st, Y.st)
      BY <1>2, <1>3, <3>1 DEF Greater, Lesser
    <3>3. /\ Greater(X.st, Y.st) * dgtest <= Greater(X'.st, Y'.st) * dgtest
          /\ Greater(X.st, Y.st) * dgtest \in Int /\ Greater(X'.st, Y'.st) * dgtest \in Int
      BY <3>2, <1>2, ProductFalls
    <3> QED
      BY <3>1, <3>3, <1>2, <1>3
  <2> QED
    BY <2>1, <2>2
<1>9. IntervalInv'
  BY <1>2, <1>3, <1>6, <1>7, <1>8 DEF IntervalInv
<1>10. ASSUME brackt PROVE Interval(X', Y') \subseteq Interval(X, Y)
  <2>1. /\ Lesser(X.st, Y.st) \in Int /\ Greater(X.st, Y.st) \in Int
        /\ Lesser(X'.st, Y'.st) \in Int /\ Greater(X'.st, Y'.st) \in Int
        /\ Lesser(X.st, Y.st) <= Lesser(X'.st, Y'.st) /\ Greater(X'.st, Y'.st) <= Greater(X.st, Y.st)
    BY <1>2, <1>3, <1>10 DEF Lesser, Greater
  <2> QED
    BY <2>1 DEF Interval
<1> QED
  BY <1>9, <1>10

LEMMA DescendedKeeps ==
  ASSUME SearchInv, Update, Descended
  PROVE  IntervalInv' /\ (brackt => Interval(X', Y') \subseteq Interval(X, Y))
<1>1. linePc = "update" /\ stage1' = (stage1 /\ ~LeavesStage1) /\ dginit' = dginit
  BY DEF Update
<1>2. /\ IntervalInv /\ ~Sufficient /\ dginit < 0 /\ dgtest \in Int /\ dgtest < 0
      /\ stage1 \in BOOLEAN /\ brackt \in BOOLEAN
      /\ X.st \in Int /\ X.f \in Int /\ X.d \in Int /\ Y.st \in Int /\ stp \in Int /\ f \in Int /\ dg \in Int
      /\ stp <= MaxStep
      /\ brackt => /\ stmin = Lesser(X.st, Y.st) /\ stmax = Greater(X.st, Y.st)
                   /\ stmin < stp /\ stp < stmax
      /\ ~brackt => X.st <= stp
  BY <1>1, UpdateStart
<1>3. /\ X'.st = stp /\ X'.f = f /\ X'.d = dg /\ Y' = Y /\ brackt' = brackt /\ dgtest' = dgtest
      /\ f <= X.f
  BY <1>1 DEF Descended, Here, dgtest
<1>4. ~(dg < 0 /\ 0 < X.d) /\ ~(0 < dg /\ X.d < 0)
  BY <1>2, NegativeProduct DEF Descended
<1>5. ASSUME brackt PROVE Interval(X', Y') \subseteq Interval(X, Y)
  <2>1. /\ Lesser(X.st, Y.st) \in Int /\ Greater(X.st, Y.st) \in Int
        /\ Lesser(X'.st, Y'.st) \in Int /\ Greater(X'.st, Y'.st) \in Int
        /\ Lesser(X.st, Y.st) <= Lesser(X'.st, Y'.st) /\ Greater(X'.st, Y'.st) <= Greater(X.st, Y.st)
    BY <1>2, <1>3, <1>5 DEF Lesser, Greater
  <2> QED
    BY <2>1 DEF Interval
<1>6. CASE stage1
  <2>1. X.d < dgtest /\ (brackt => X.st < Y.st)
    BY <1>2, <1>6 DEF IntervalInv
  <2>2. stage1'
    <3>1. SUFFICES ASSUME ~stage1' PROVE FALSE
      OBVIOUS
    <3>2. f <= stp * dgtest
      BY <1>1, <1>6, <3>1 DEF LeavesStage1
    <3>3. 0 < dg
      BY <1>6, <3>1, <3>2, SlopeAtTrial
    <3> QED
      BY <3>3, <2>1, <1>2, <1>4
  <2>3. f <= stp * dgtest
    BY <2>2 DEF Descended
  <2>4. dg < dgtest
    BY <1>6, <2>2, <2>3, SlopeAtTrial
  <2>5. brackt => stp < Y.st
    BY <2>1, <1>2 DEF Greater, Lesser
  <2>6. brackt' => Descends(X', Y')
    BY <2>4, <2>5, <1>2, <1>3 DEF Descends
  <2>7. X'.st <= MaxStep /\ X'.f <= X'.st * dgtest' /\ X'.d < dgtest' /\ (brackt' => X'.st < Y'.st)
    BY <2>3, <2>4, <2>5, <1>2, <1>3
  <2>8. IntervalInv'
    BY <2>2, <2>6, <2>7 DEF IntervalInv
  <2> QED
    BY <2>8, <1>5
<1>7. CASE ~stage1
  <2>1. brackt /\ Descends(X, Y) /\ X.f <= Greater(X.st, Y.st) * dgtest
    BY <1>2, <1>7 DEF IntervalInv
  <2>2. ~stage1'
    BY <1>1, <1>7
  <2>3. /\ Greater(X.st, Y.st) \in Int /\ Greater(stp, Y.st) \in Int
        /\ Greater(stp, Y.st) <= Greater(X.st, Y.st) /\ stp <= Greater(X.st, Y.st)
    BY <1>2, <2>1 DEF Greater, Lesser
  <2>4. /\ Greater(X.st, Y.st) * dgtest \in Int
        /\ Greater(stp, Y.st) * dgtest \in Int /\ Greater(X.st, Y.st) * dgtest <= Greater(stp, Y.st) * dgtest
    BY <2>3, <1>2, ProductFalls
  <2>5. stp * dgtest \in Int /\ Greater(X.st, Y.st) * dgtest <= stp * dgtest
    BY <2>3, <1>2, ProductFalls
  <2>6. f <= Greater(stp, Y.st) * dgtest /\ f <= stp * dgtest
    BY <2>1, <2>4, <2>5, <1>2, <1>3
  <2>7. dg # 0
    <3>1. SUFFICES ASSUME dg = 0 PROVE FALSE
      OBVIOUS
    <3>2. 0 * (-dginit) <= GtolNum * (-dginit) /\ FtolInv * Abs(dg) = 0
      <4>1. dginit \in Int /\ GtolNum \in Int /\ 0 <= GtolNum /\ FtolInv \in Int
        BY MoreThuenteAssumption, LineFalls DEF SearchInv, SearchTypeOK
      <4>2. -dginit \in Int /\ 0 <= -dginit
        BY <4>1, <1>2
      <4>3. Abs(dg) = 0
        BY <3>1 DEF Abs
      <4> QED
        BY <4>1, <4>2, <4>3, ProductRises
    <3>3. dginit \in Int
      BY LineFalls DEF SearchInv, SearchTypeOK
    <3> QED
      BY <3>2, <3>3, <2>6, <1>2 DEF Sufficient
  <2>8. Descends(X', Y')
    BY <2>1, <2>7, <1>2, <1>3, <1>4 DEF Descends, Lesser, Greater
  <2>9. X'.st <= MaxStep /\ X'.f <= Greater(X'.st, Y'.st) * dgtest' /\ brackt'
    BY <2>1, <2>6, <1>2, <1>3
  <2>10. IntervalInv'
    BY <2>2, <2>8, <2>9 DEF IntervalInv
  <2> QED
    BY <2>10, <1>5
<1> QED
  BY <1>2, <1>6, <1>7

LEMMA UpdateShrinks ==
  ASSUME SearchInv, Update
  PROVE  IntervalInv' /\ (brackt => Interval(X', Y') \subseteq Interval(X, Y))
BY UpdateEffect, OvershotKeeps, CrossedKeeps, DescendedKeeps

LEMMA UpdateKeeps ==
  ASSUME SearchInv, Update
  PROVE  SearchInv'
<1>1. /\ linePc = "update" /\ linePc' = "clip" /\ stage1' = (stage1 /\ ~LeavesStage1)
      /\ UNCHANGED <<dginit, f, dg, stmin, stmax, lineCount, seen, lineRet>>
  BY DEF Update
<1>2. /\ dginit < 0 /\ SearchTypeOK /\ RecordInv /\ IntervalInv
      /\ X \in PointsOnLine /\ Y \in PointsOnLine /\ Here \in PointsOnLine /\ brackt \in BOOLEAN /\ stage1 \in BOOLEAN
      /\ X.st \in Int /\ stp \in Int /\ stp <= MaxStep /\ dginit \in Int
      /\ ~brackt => X.st <= stp
  BY <1>1, UpdateStart, LineFalls DEF SearchInv, SearchTypeOK
<1>3. /\ Overshot \/ Crossed \/ Descended
      /\ uinfo' = "0" /\ stp' \in Int /\ width' \in Int /\ prevWidth' \in Int
  BY UpdateEffect
<1>4. X' \in PointsOnLine /\ Y' \in PointsOnLine /\ brackt' \in BOOLEAN
  BY <1>2, <1>3 DEF Overshot, Crossed, Descended
<1>5. SearchTypeOK'
  BY <1>1, <1>2, <1>3, <1>4 DEF SearchTypeOK
<1>6. RecordInv'
  <2>1. X' = X \/ X' = Here
    BY <1>3 DEF Overshot, Crossed, Descended
  <2>2. Here.st = stp /\ [f |-> Here.f, d |-> Here.d] = [f |-> f, d |-> dg]
    BY DEF Here
  <2> QED
    BY <1>1, <1>2, <2>1, <2>2 DEF RecordInv
<1>7. IntervalInv'
  BY UpdateShrinks
<1>8. ASSUME ~brackt' PROVE X'.st <= Clipped'
  <2>1. X' = Here /\ (stp <= stp' \/ stp <= MinStep)
    BY <1>3, <1>2, <1>8 DEF Overshot, Crossed, Descended
  <2>2. X'.st = stp
    BY <2>1 DEF Here
  <2> QED
    BY <2>1, <2>2, <1>2, <1>3, MoreThuenteAssumption DEF Clipped
<1>9. StepInv'
  BY <1>1, <1>8 DEF StepInv
<1> QED
  BY <1>1, <1>2, <1>3, <1>5, <1>6, <1>7, <1>9 DEF SearchInv, UpdateNeverRefuses

LEMMA SearchStutters ==
  ASSUME SearchInv, UNCHANGED lineVars
  PROVE  SearchInv'
BY DEF SearchInv, lineVars, SearchTypeOK, RecordInv, UpdateNeverRefuses, RejectedInv, IntervalInv, StepInv,
       Sufficient, Clipped, Descends, dgtest

LEMMA SearchStep ==
  ASSUME SearchInv, [LineNext]_lineVars
  PROVE  SearchInv'
BY EnterKeeps, ClipKeeps, EvaluateKeeps, UpdateKeeps, SearchStutters DEF LineNext, LineFinished

----------------------------------------------------------------------------
(* Type correctness, the record of the objective, and where the best step, the
   other endpoint and the trial lie (line_search_morethuente).               *)
THEOREM SearchInvariance == LineSpec => []SearchInv
<1>1. LineInit => SearchInv
  BY InitEstablishes
<1>2. SearchInv /\ [LineNext]_lineVars => SearchInv'
  BY SearchStep
<1> QED
  BY <1>1, <1>2, PTL DEF LineSpec

(* The search never hands update_trial_interval a trial outside the interval, a
   best endpoint from which the objective rises, or limits in the wrong order. *)
THEOREM SearchNotRefused == LineSpec => []UpdateNeverRefuses
<1>1. SearchInv => UpdateNeverRefuses
  BY DEF SearchInv
<1> QED
  BY <1>1, SearchInvariance, PTL

(* The best step, which a search that ends badly falls back on, keeps the
   promise of ftol.                                                          *)
THEOREM SearchDecreases == LineSpec => []BestStepDecreases
<1>1. ASSUME SearchInv PROVE BestStepDecreases
  <2>1. dginit \in Int \ {0} /\ dgtest \in Int /\ (dginit < 0 => dgtest < 0) /\ X.st \in Int /\ Y.st \in Int /\ X.f \in Int
    BY <1>1, LineFalls DEF SearchInv, SearchTypeOK, PointsOnLine
  <2>2. CASE 0 < dginit
    <3>1. X.st = 0 /\ X.f = 0
      BY <1>1, <2>2 DEF SearchInv, RejectedInv
    <3> QED
      BY <3>1, <2>1 DEF BestStepDecreases
  <2>3. CASE dginit < 0 /\ stage1
    BY <1>1, <2>3 DEF SearchInv, IntervalInv, BestStepDecreases
  <2>4. CASE dginit < 0 /\ ~stage1
    <3>1. X.f <= Greater(X.st, Y.st) * dgtest
      BY <1>1, <2>4 DEF SearchInv, IntervalInv
    <3>2. Greater(X.st, Y.st) \in Int /\ X.st <= Greater(X.st, Y.st)
      BY <2>1 DEF Greater
    <3>3. /\ Greater(X.st, Y.st) * dgtest <= X.st * dgtest
          /\ Greater(X.st, Y.st) * dgtest \in Int /\ X.st * dgtest \in Int
      BY <3>2, <2>1, <2>4, ProductFalls
    <3> QED
      BY <3>1, <3>3, <2>1 DEF BestStepDecreases
  <2> QED
    BY <2>1, <2>2, <2>3, <2>4
<1> QED
  BY <1>1, SearchInvariance, PTL

(* Once there is a bracket it stays, and every step keeps the new interval inside
   the old one, with the objective descending into it from the best step.    *)
THEOREM SearchShrinks == LineSpec => BracketOnlyShrinks
<1> DEFINE Shrinks == brackt => /\ brackt' /\ Interval(X', Y') \subseteq Interval(X, Y)
                                /\ X'.d * (Y'.st - X'.st) < 0
<1>1. ASSUME SearchInv, SearchInv', [LineNext]_lineVars PROVE [Shrinks]_lineVars
  <2>1. SUFFICES ASSUME brackt
                 PROVE  brackt' /\ Interval(X', Y') \subseteq Interval(X, Y) /\ X'.d * (Y'.st - X'.st) < 0
    OBVIOUS
  <2>2. brackt' /\ Interval(X', Y') \subseteq Interval(X, Y)
    <3>1. CASE Update
      BY <1>1, <2>1, <3>1, UpdateEffect, UpdateShrinks DEF Overshot, Crossed, Descended
    <3>2. CASE UNCHANGED <<X, Y, brackt>>
      BY <2>1, <3>2
    <3> QED
      BY <1>1, <3>1, <3>2 DEF LineNext, Enter, Clip, Evaluate, LineFinished, lineVars
  <2>3. dginit' \in Int \ {0} /\ X'.d \in Int /\ X'.st \in Int /\ Y'.st \in Int
    <3>1. dginit \in Int \ {0}
      BY <1>1, LineFalls DEF SearchInv, SearchTypeOK
    <3>2. dginit' = dginit
      BY <1>1 DEF LineNext, Enter, Clip, Evaluate, Update, LineFinished, lineVars
    <3> QED
      BY <1>1, <3>1, <3>2 DEF SearchInv, SearchTypeOK, PointsOnLine
  <2>4. Descends(X', Y')
    BY <1>1, <2>2, <2>3 DEF SearchInv, RejectedInv, IntervalInv, Descends
  <2>5. Y'.st - X'.st \in Int /\ ((X'.d < 0 /\ 0 < Y'.st - X'.st) \/ (0 < X'.d /\ Y'.st - X'.st < 0))
    BY <2>3, <2>4 DEF Descends
  <2>6. X'.d * (Y'.st - X'.st) < 0
    BY <2>3, <2>5, NegativeProduct
  <2> QED
    BY <2>2, <2>6
<1> QED
  BY <1>1, SearchInvariance, PTL DEF LineSpec, BracketOnlyShrinks
=============================================================================
