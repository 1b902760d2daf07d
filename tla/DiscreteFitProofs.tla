-------------------------- MODULE DiscreteFitProofs --------------------------
(* Proofs about the walk of plfit_discrete over the sorted data, for data sets
   of every length and every range of values.                                *)
EXTENDS DiscreteFit, TLAPS

LEMMA DiscreteInit == Init => DiscreteInv
<1> SUFFICES ASSUME Init PROVE DiscreteInv
  OBVIOUS
<1>1. TypeOK
  BY DiscreteAssumption DEF Init, TypeOK, Index, Labels, AlphaClasses, Codes, Untried
<1>2. Sorted /\ SkipInv /\ RetreatInv /\ WalkInv /\ TailIsExact
  BY DEF Init, Sorted, SkipInv, RetreatInv, WalkInv, TailIsExact, Index
<1> QED
  BY <1>1, <1>2 DEF DiscreteInv

(* An error return changes nothing but the return code.                      *)
LEMMA FailKeeps == ASSUME DiscreteInv, NEW code \in Codes, Fail(code) PROVE DiscreteInv'
<1> USE DEF DiscreteInv, Fail, control, cursor, outcome
<1>1. TypeOK'
  BY DEF TypeOK, Index, Labels
<1>2. Sorted' /\ SkipInv' /\ RetreatInv' /\ WalkInv' /\ TailIsExact'
  BY DEF Sorted, SkipInv, RetreatInv, WalkInv, TailIsExact, Index
<1> QED
  BY <1>1, <1>2

LEMMA CopyAndSortKeeps == ASSUME DiscreteInv, CopyAndSort PROVE DiscreteInv'
<1> USE DiscreteAssumption DEF DiscreteInv, CopyAndSort, control, cursor, outcome
<1>1. TypeOK'
  BY DEF TypeOK, Index, Labels, OptionsRejected, SkipInv
<1>2. Sorted'
  BY DEF Sorted, Index
<1>3. SkipInv' /\ RetreatInv'
  BY DEF TypeOK, SkipInv, RetreatInv, Index, OptionsRejected
<1>4. WalkInv'
  BY DEF TypeOK, WalkInv, LastRun, Index
<1>5. TailIsExact'
  BY DEF TypeOK, TailIsExact, Index
<1> QED
  BY <1>1, <1>2, <1>3, <1>4, <1>5

LEMMA SkipSmallKeeps == ASSUME DiscreteInv, SkipSmall PROVE DiscreteInv'
<1> USE DiscreteAssumption DEF DiscreteInv, SkipSmall, control, cursor, outcome
<1>1. TypeOK'
  BY DEF TypeOK, Index, Labels, Codes
<1>2. Sorted'
  BY DEF Sorted, Index
<1>3. SkipInv' /\ RetreatInv'
  BY DEF TypeOK, Sorted, SkipInv, RetreatInv, Index
<1>4. WalkInv'
  BY DEF TypeOK, WalkInv, LastRun, Index
<1>5. TailIsExact'
  BY DEF TypeOK, TailIsExact, Index
<1> QED
  BY <1>1, <1>2, <1>3, <1>4, <1>5

LEMMA StartRetreatKeeps == ASSUME DiscreteInv, StartRetreat PROVE DiscreteInv'
<1> USE DiscreteAssumption DEF DiscreteInv, StartRetreat, control, cursor, outcome
<1>1. TypeOK'
  BY DEF TypeOK, Index, Labels, RetreatInv
<1>2. Sorted'
  BY DEF Sorted, Index
<1>3. SkipInv' /\ RetreatInv'
  <2>1. \A i \in Index : i < px <=> xs[i] < 1
    BY DEF TypeOK, Sorted, SkipInv, Index
  <2>2. endXmin = n - 1 /\ endXmin \in Index
    BY DEF RetreatInv
  <2> QED
    BY <2>1, <2>2 DEF TypeOK, SkipInv, RetreatInv, Index
<1>4. WalkInv'
  BY DEF TypeOK, WalkInv, LastRun, Index
<1>5. TailIsExact'
  BY DEF TypeOK, TailIsExact, Index
<1> QED
  BY <1>1, <1>2, <1>3, <1>4, <1>5

LEMMA RetreatKeeps == ASSUME DiscreteInv, Retreat PROVE DiscreteInv'
<1> USE DiscreteAssumption DEF DiscreteInv, Retreat, control, cursor, outcome
<1>1. TypeOK'
  BY DEF TypeOK, Index, Labels, CanRetreat, RetreatInv
<1>2. Sorted'
  BY DEF Sorted, Index
<1>3. SkipInv' /\ RetreatInv'
  BY DEF TypeOK, SkipInv, RetreatInv, Index, CanRetreat
<1>4. WalkInv'
  BY DEF TypeOK, WalkInv, LastRun, Index
<1>5. TailIsExact'
  BY DEF TypeOK, TailIsExact, Index
<1> QED
  BY <1>1, <1>2, <1>3, <1>4, <1>5

LEMMA RetreatAgainKeeps == ASSUME DiscreteInv, RetreatAgain PROVE DiscreteInv'
<1> USE DiscreteAssumption DEF DiscreteInv, RetreatAgain, control, cursor, outcome
<1>1. TypeOK'
  BY DEF TypeOK, Index, Labels, RetreatInv
<1>2. Sorted'
  BY DEF Sorted, Index
<1>3. SkipInv' /\ RetreatInv'
  BY DEF TypeOK, SkipInv, RetreatInv, Index
<1>4. WalkInv'
  BY DEF TypeOK, WalkInv, LastRun, Index
<1>5. TailIsExact'
  BY DEF TypeOK, TailIsExact, Index
<1> QED
  BY <1>1, <1>2, <1>3, <1>4, <1>5

LEMMA StartScanKeeps == ASSUME DiscreteInv, StartScan PROVE DiscreteInv'
<1> USE DiscreteAssumption DEF DiscreteInv, StartScan, control, cursor, outcome
<1>1. TypeOK'
  BY DEF TypeOK, Index, Labels, RetreatInv
<1>2. Sorted'
  BY DEF Sorted, Index
<1>3. SkipInv' /\ RetreatInv'
  BY DEF TypeOK, SkipInv, RetreatInv, Index
<1>4. WalkInv'
  <2>1. endXmin \in Index /\ m = px /\ px \in 0 .. n /\ n \in Nat
    BY DEF TypeOK, RetreatInv
  <2>2. \A i \in Index : xs[i] \in Nat /\ (i < px => xs[i] <= 0) /\ (i >= px => xs[i] >= 1)
    BY DEF TypeOK, RetreatInv, Index
  <2>3. CASE endXmin <= px
    BY <2>1, <2>2, <2>3 DEF WalkInv, RetreatInv, TypeOK, Index
  <2>4. CASE endXmin > px
    <3>1. xs[endXmin] # prevX /\ endXmin + 1 \in Index /\ xs[endXmin + 1] = prevX
      BY <2>4 DEF CanRetreat, RetreatInv
    <3>2. xs[endXmin] < xs[endXmin + 1]
      BY <2>1, <2>2, <3>1 DEF Sorted, Index
    <3>3. LastRun'
      BY <2>1, <3>1, <3>2 DEF LastRun, Index
    <3> QED
      BY <2>1, <2>2, <3>3 DEF WalkInv, Index
  <2> QED
    BY <2>1, <2>3, <2>4 DEF Index
<1>5. TailIsExact'
  BY DEF TypeOK, TailIsExact, Index
<1> QED
  BY <1>1, <1>2, <1>3, <1>4, <1>5

LEMMA NextCandidateKeeps == ASSUME DiscreteInv, NextCandidate PROVE DiscreteInv'
<1> USE DiscreteAssumption DEF DiscreteInv, NextCandidate, control, cursor, outcome
<1>1. TypeOK'
  BY DEF TypeOK, Index, Labels, Codes
<1>2. Sorted'
  BY DEF Sorted, Index
<1>3. SkipInv' /\ RetreatInv'
  BY DEF TypeOK, SkipInv, RetreatInv, Index
<1>4. WalkInv'
  BY DEF TypeOK, WalkInv, LastRun, Index
<1>5. TailIsExact'
  BY DEF TypeOK, TailIsExact, Index
<1> QED
  BY <1>1, <1>2, <1>3, <1>4, <1>5

LEMMA SkipRepeatedKeeps == ASSUME DiscreteInv, SkipRepeated PROVE DiscreteInv'
<1> USE DiscreteAssumption DEF DiscreteInv, SkipRepeated, control, cursor, outcome
<1>1. TypeOK'
  BY DEF TypeOK, Index, Labels, WalkInv
<1>2. Sorted'
  BY DEF Sorted, Index
<1>3. SkipInv' /\ RetreatInv'
  BY DEF TypeOK, SkipInv, RetreatInv, Index
<1>4. WalkInv'
  <2>1. m = px /\ px \in Nat /\ n \in Nat /\ endXmin \in 0 .. n
    BY DEF TypeOK, WalkInv
  <2>2. px \in Index /\ xs[px] >= 1
    BY <2>1 DEF Index, WalkInv
  <2>3. LastRun /\ px <= endXmin
    BY <2>2 DEF WalkInv
  <2> QED
    BY <2>1, <2>2, <2>3 DEF TypeOK, WalkInv, LastRun, Index
<1>5. TailIsExact'
  BY DEF TypeOK, TailIsExact, Index
<1> QED
  BY <1>1, <1>2, <1>3, <1>4, <1>5

(* When a candidate is reached, px is inside the array and everything before
   it is smaller.                                                            *)
LEMMA CandidateInside ==
  ASSUME DiscreteInv, CandidateReached
  PROVE  /\ px \in Index /\ m = px
         /\ \A i \in Index : i < px => xs[i] < xs[px]
<1> USE DEF DiscreteInv, CandidateReached
<1>1. m = px /\ px \in Nat /\ n \in Nat /\ endXmin \in 0 .. n
  BY DEF TypeOK, WalkInv
<1>2. \A i \in Index : xs[i] \in Nat
  BY DEF TypeOK
<1>3. \A i \in Index : (i < px => xs[i] <= prevX) /\ (i >= px => xs[i] >= 1 /\ xs[i] >= prevX)
  BY DEF WalkInv
<1>4. CASE LastRun /\ px <= endXmin
  <2>1. px \in Index
    BY <1>1, <1>4 DEF LastRun, Index
  <2>2. CASE px < endXmin
    <3>1. xs[px] # prevX
      BY <2>2
    <3>2. prevX <= xs[px] /\ prevX \in Nat
      BY <1>1, <1>3, <2>1 DEF TypeOK
    <3> QED
      BY <1>1, <1>2, <1>3, <2>1, <3>1, <3>2
  <2>3. CASE px = endXmin
    <3>1. xs[px - 1] < xs[px] /\ px - 1 \in Index
      BY <1>4, <2>3 DEF LastRun
    <3>2. \A i \in Index : i < px => xs[i] <= xs[px - 1]
      BY <1>1, <3>1 DEF Sorted, Index
    <3> QED
      BY <1>1, <1>2, <2>1, <3>1, <3>2
  <2> QED
    BY <1>1, <1>4, <2>2, <2>3
<1>5. CASE px + 1 = endXmin /\ prevX = 0
  <2>1. px \in Index
    BY <1>1, <1>5 DEF Index
  <2> QED
    BY <1>1, <1>2, <1>3, <1>5, <2>1
<1> QED
  BY <1>4, <1>5 DEF WalkInv

LEMMA TryKeeps == ASSUME DiscreteInv, Try PROVE DiscreteInv'
<1> USE DiscreteAssumption DEF DiscreteInv
<1>1. px \in Index /\ m = px /\ \A i \in Index : i < px => xs[i] < xs[px]
  BY CandidateInside DEF Try
<1>2. /\ pc = "inner" /\ pc' = "outer" /\ prevX' = xs[px] /\ px' = px + 1 /\ m' = m + 1
      /\ UNCHANGED <<n, xs, method, correction, gridOK, endXmin, copy, ret>>
  BY DEF Try, CandidateReached, control
<1>3. PICK d \in Scores :
        /\ tried' = [tried EXCEPT ![px] = d]
        /\ best' = IF Improves(d) THEN [D |-> d, xmin |-> xs[px], alpha |-> "aboveOne"] ELSE best
        /\ bestN' = IF Improves(d) THEN n - m ELSE bestN
  BY DEF Try
<1>4. n \in Nat /\ \A i \in Index : xs[i] \in 0 .. MaxValue
  BY DEF TypeOK
<1>5. TypeOK'
  <2>1. [D |-> d, xmin |-> xs[px], alpha |-> "aboveOne"]
          \in [D : Scores \cup {MaxD}, xmin : 0 .. MaxValue \cup {1}, alpha : AlphaClasses]
    BY <1>1, <1>4 DEF AlphaClasses
  <2>2. best' \in [D : Scores \cup {MaxD}, xmin : 0 .. MaxValue \cup {1}, alpha : AlphaClasses]
    BY <1>3, <2>1 DEF TypeOK
  <2>3. bestN' \in 0 .. n
    BY <1>1, <1>3, <1>4 DEF TypeOK, Index
  <2>4. tried' \in [Index -> Scores \cup {Untried}]
    BY <1>1, <1>3 DEF TypeOK
  <2>5. px' \in 0 .. n /\ m' \in 0 .. n /\ prevX' \in 0 .. MaxValue
    BY <1>1, <1>2, <1>4 DEF Index
  <2> QED
    BY <1>2, <2>2, <2>3, <2>4, <2>5 DEF TypeOK, Labels, Index
<1>6. Sorted' /\ SkipInv' /\ RetreatInv'
  BY <1>2 DEF Sorted, SkipInv, RetreatInv, Index
<1>7. WalkInv'
  <2>1. \A i \in Index : i < px + 1 => xs[i] <= xs[px]
    BY <1>1, <1>4 DEF Sorted, Index
  <2>2. \A i \in Index : i >= px + 1 => xs[i] >= 1 /\ xs[i] >= xs[px]
    BY <1>1, <1>2, <1>4 DEF WalkInv, Sorted, Index
  <2>3. LastRun \/ px + 1 >= endXmin
    BY <1>1, <1>2, <1>4 DEF WalkInv, Index, TypeOK
  <2> QED
    BY <1>1, <1>2, <1>4, <2>1, <2>2, <2>3 DEF WalkInv, LastRun, Index
<1>8. TailIsExact'
  <2>1. CASE Improves(d)
    <3>1. bestN' = n - px /\ best'.xmin = xs[px]
      BY <1>1, <1>3, <2>1
    <3>2. n - bestN' = px
      BY <1>1, <1>4, <3>1 DEF Index
    <3> QED
      BY <1>1, <1>2, <3>1, <3>2 DEF TailIsExact, Index
  <2>2. CASE ~Improves(d)
    BY <1>2, <1>3, <2>2 DEF TailIsExact, Index
  <2> QED
    BY <2>1, <2>2
<1> QED
  BY <1>5, <1>6, <1>7, <1>8

LEMMA FinishKeeps == ASSUME DiscreteInv, Finish PROVE DiscreteInv'
<1> USE DiscreteAssumption DEF DiscreteInv, Finish, control, cursor, outcome
<1>1. TypeOK'
  <2>1. Corrected(best.alpha, bestN) \in AlphaClasses
    BY DEF Corrected, TypeOK, AlphaClasses
  <2>2. best' \in [D : Scores \cup {MaxD}, xmin : 0 .. MaxValue \cup {1}, alpha : AlphaClasses]
    BY <2>1 DEF TypeOK
  <2> QED
    BY <2>2 DEF TypeOK, Index, Labels
<1>2. Sorted'
  BY DEF Sorted, Index
<1>3. SkipInv' /\ RetreatInv'
  BY DEF TypeOK, SkipInv, RetreatInv, Index
<1>4. WalkInv'
  BY DEF TypeOK, WalkInv, LastRun, Index
<1>5. TailIsExact'
  BY DEF TypeOK, TailIsExact, Index
<1> QED
  BY <1>1, <1>2, <1>3, <1>4, <1>5

LEMMA LikelihoodKeeps == ASSUME DiscreteInv, Likelihood PROVE DiscreteInv'
<1> USE DiscreteAssumption DEF DiscreteInv, Likelihood, control, cursor, outcome
<1>1. TypeOK'
  BY DEF TypeOK, Index, Labels, Codes
<1>2. Sorted'
  BY DEF Sorted, Index
<1>3. SkipInv' /\ RetreatInv'
  BY DEF TypeOK, SkipInv, RetreatInv, Index
<1>4. WalkInv'
  BY DEF TypeOK, WalkInv, LastRun, Index
<1>5. TailIsExact'
  BY DEF TypeOK, TailIsExact, Index
<1> QED
  BY <1>1, <1>2, <1>3, <1>4, <1>5

LEMMA SucceedKeeps == ASSUME DiscreteInv, Succeed PROVE DiscreteInv'
<1> USE DiscreteAssumption DEF DiscreteInv, Succeed, control, cursor, outcome
<1>1. TypeOK'
  BY DEF TypeOK, Index, Labels, Codes
<1>2. Sorted'
  BY DEF Sorted, Index
<1>3. SkipInv' /\ RetreatInv'
  BY DEF TypeOK, SkipInv, RetreatInv, Index
<1>4. WalkInv'
  BY DEF TypeOK, WalkInv, LastRun, Index
<1>5. TailIsExact'
  BY DEF TypeOK, TailIsExact, Index
<1> QED
  BY <1>1, <1>2, <1>3, <1>4, <1>5

LEMMA StutterKeeps == ASSUME DiscreteInv, UNCHANGED vars PROVE DiscreteInv'
<1> USE DEF DiscreteInv, vars, control, cursor, outcome
<1>1. TypeOK' /\ Sorted' /\ TailIsExact'
  BY DEF TypeOK, Sorted, TailIsExact, Index
<1>2. SkipInv' /\ RetreatInv' /\ WalkInv'
  BY DEF SkipInv, RetreatInv, WalkInv, LastRun, Index
<1> QED
  BY <1>1, <1>2

LEMMA DiscreteStep == DiscreteInv /\ [Next]_vars => DiscreteInv'
<1> SUFFICES ASSUME DiscreteInv, [Next]_vars PROVE DiscreteInv'
  OBVIOUS
<1>1. CASE RejectOptions \/ CopyFails \/ EstimateFails \/ LikelihoodFails \/ PValueFails
  <2>1. \E code \in Codes : Fail(code)
    BY <1>1 DEF RejectOptions, CopyFails, EstimateFails, LikelihoodFails, PValueFails, Codes
  <2> QED
    BY <2>1, FailKeeps
<1>2. CASE CopyAndSort \/ SkipSmall \/ StartRetreat \/ Retreat \/ RetreatAgain \/ StartScan
  BY <1>2, CopyAndSortKeeps, SkipSmallKeeps, StartRetreatKeeps, RetreatKeeps, RetreatAgainKeeps, StartScanKeeps
<1>3. CASE NextCandidate \/ SkipRepeated \/ Try
  BY <1>3, NextCandidateKeeps, SkipRepeatedKeeps, TryKeeps
<1>4. CASE Finish \/ Likelihood \/ Succeed
  BY <1>4, FinishKeeps, LikelihoodKeeps, SucceedKeeps
<1>5. CASE Finished \/ UNCHANGED vars
  BY <1>5, StutterKeeps DEF Finished
<1> QED
  BY <1>1, <1>2, <1>3, <1>4, <1>5 DEF Next

(* The inductive invariant holds throughout the walk.                        *)
THEOREM DiscreteInvariance == Spec => []DiscreteInv
BY DiscreteInit, DiscreteStep, PTL DEF Spec

(* No element outside the data is ever read, for any data set.               *)
THEOREM DiscreteInBounds == Spec => []PointersInBounds
<1>1. DiscreteInv => PointersInBounds
  BY CandidateInside DEF DiscreteInv, PointersInBounds, RetreatInv
<1> QED
  BY <1>1, DiscreteInvariance, PTL

(* The tail whose likelihood is reported is exactly the data from xmin on.   *)
THEOREM DiscreteTail == Spec => []TailIsExact
<1>1. DiscreteInv => TailIsExact
  BY DEF DiscreteInv
<1> QED
  BY <1>1, DiscreteInvariance, PTL
----------------------------------------------------------------------------
(* What the scan has done: the invariant behind the choice of the best
   candidate and behind the candidates it must not miss.                     *)
LEMMA HistoryInit == Init => HistoryInv
<1> SUFFICES ASSUME Init PROVE HistoryInv
  OBVIOUS
<1>1. EndInv /\ ScannedInv
  BY DEF Init, EndInv, ScannedInv
<1>2. BestInv
  BY DEF Init, BestInv, BestIsFirstMinimal, Index
<1>3. OutcomeInv
  BY DEF Init, OutcomeInv, NoCandidateSkipped
<1> QED
  BY <1>1, <1>2, <1>3 DEF HistoryInv

(* An error return: the chosen candidate is left as it is.                   *)
LEMMA FailKeepsHistory ==
  ASSUME HistoryInv, NEW code \in Codes \ {"SUCCESS"}, Fail(code)
  PROVE  HistoryInv'
<1> USE DEF HistoryInv, Fail, control, cursor, outcome
<1>1. EndInv' /\ ScannedInv'
  BY DEF EndInv, ScannedInv
<1>2. BestInv'
  BY DEF BestInv, BestIsFirstMinimal, Index
<1>3. OutcomeInv'
  BY DEF OutcomeInv, NoCandidateSkipped
<1> QED
  BY <1>1, <1>2, <1>3

(* Until the scan starts nothing is chosen and nothing tried.                *)
LEMMA BeforeScan ==
  ASSUME HistoryInv, UNCHANGED <<control, outcome, ret>>,
         pc \in {"check", "skip", "retreat1", "retreat2"},
         pc' \in {"skip", "retreat1", "retreat2", "outer"}
  PROVE  BestInv' /\ OutcomeInv' /\ \A i \in Index : tried'[i] = Untried
<1> USE DEF HistoryInv, control, outcome
<1>1. bestN = 0 /\ ret # "SUCCESS"
  BY DEF BestInv, OutcomeInv
<1>2. BestIsFirstMinimal'
  BY DEF BestInv, BestIsFirstMinimal, Index
<1>3. BestInv'
  BY <1>1, <1>2 DEF BestInv
<1>4. OutcomeInv'
  BY <1>1 DEF OutcomeInv, NoCandidateSkipped
<1>5. \A i \in Index : tried'[i] = Untried
  BY <1>1 DEF BestInv, BestIsFirstMinimal
<1> QED
  BY <1>3, <1>4, <1>5

LEMMA PreparationKeepsHistory ==
  ASSUME DiscreteInv, HistoryInv, CopyAndSort \/ SkipSmall \/ StartRetreat \/ Retreat \/ RetreatAgain
  PROVE  HistoryInv'
<1> USE DEF DiscreteInv, HistoryInv
<1>1. /\ UNCHANGED <<control, outcome, ret>>
      /\ pc \in {"check", "skip", "retreat1", "retreat2"}
      /\ pc' \in {"skip", "retreat1", "retreat2"}
  BY DEF CopyAndSort, SkipSmall, StartRetreat, Retreat, RetreatAgain
<1>2. BestInv' /\ OutcomeInv' /\ ScannedInv'
  BY <1>1, BeforeScan DEF ScannedInv
<1>3. n \in Nat /\ endXmin \in 0 .. n /\ Index' = Index /\ xs' = xs /\ n' = n
  BY <1>1 DEF TypeOK, control, Index
<1> SUFFICES EndInv'
  BY <1>2
<1>4. CASE CopyAndSort \/ SkipSmall
  BY <1>4 DEF EndInv, CopyAndSort, SkipSmall
<1>5. CASE StartRetreat
  <2>1. endXmin = n - 1 /\ endXmin' = n - 1 /\ prevX' = xs[n - 1] /\ pc' = "retreat1"
    BY <1>5 DEF StartRetreat, RetreatInv
  <2> QED
    BY <1>3, <2>1 DEF EndInv, Index
<1>6. CASE Retreat
  <2>1. /\ pc \in {"retreat1", "retreat2"} /\ pc' = pc /\ prevX' = prevX
        /\ endXmin' = endXmin - 1 /\ xs[endXmin] = prevX
    BY <1>6 DEF Retreat, CanRetreat
  <2> QED
    BY <1>3, <2>1 DEF EndInv, Index
<1>7. CASE RetreatAgain
  <2>1. pc = "retreat1" /\ pc' = "retreat2" /\ endXmin' = endXmin /\ prevX' = xs[endXmin]
    BY <1>7 DEF RetreatAgain
  <2> QED
    BY <1>3, <2>1 DEF EndInv
<1> QED
  BY <1>4, <1>5, <1>6, <1>7

(* When the scan starts, no value behind end_xmin has two larger ones, and a
   value of 1 or more is in front of it if there is any.                     *)
LEMMA StartScanKeepsHistory == ASSUME DiscreteInv, HistoryInv, StartScan PROVE HistoryInv'
<1> USE DEF DiscreteInv, HistoryInv
<1>1. /\ UNCHANGED <<control, outcome, ret>>
      /\ pc = "retreat2" /\ pc' = "outer" /\ prevX' = 0 /\ endXmin' = endXmin + 1 /\ px' = px
  BY DEF StartScan
<1>2. BestInv' /\ OutcomeInv' /\ \A i \in Index : tried'[i] = Untried
  BY <1>1, BeforeScan
<1>3. n \in Nat /\ px \in 0 .. n /\ endXmin \in Index /\ Index' = Index /\ xs' = xs /\ n' = n
  BY <1>1 DEF TypeOK, RetreatInv, control, Index
<1>4. \A i \in Index : xs[i] \in Nat /\ (i < px <=> xs[i] < 1)
  BY <1>1, <1>3 DEF TypeOK, RetreatInv
<1>5. ScannedInv'
  BY <1>1, <1>2, <1>3, <1>4 DEF ScannedInv
<1>6. ASSUME NEW j \in Index, j >= endXmin + 1
      PROVE  ~ThreeDistinctFrom(xs[j])
  <2>1. \A k \in Index : k > endXmin => xs[k] \in {prevX, xs[n - 1]}
    BY <1>1 DEF EndInv
  <2>2. \A k \in Index : xs[j] < xs[k] => k > endXmin
    BY <1>3, <1>4, <1>6 DEF Sorted, Index
  <2>3. xs[j] \in {prevX, xs[n - 1]}
    BY <1>3, <1>6, <2>1 DEF Index
  <2>4. prevX \in Nat /\ n - 1 \in Index /\ xs[n - 1] \in Nat /\ prevX <= xs[n - 1]
    <3>1. n - 1 \in Index
      BY <1>3 DEF Index
    <3>2. PICK k \in Index : xs[k] = prevX
      BY <1>1, <1>3 DEF RetreatInv
    <3> QED
      BY <1>4, <3>1, <3>2 DEF Sorted, Index
  <2> SUFFICES ASSUME NEW a \in Index, NEW b \in Index, xs[j] < xs[a], xs[a] < xs[b]
               PROVE  FALSE
    BY DEF ThreeDistinctFrom
  <2>5. xs[a] \in {prevX, xs[n - 1]} /\ xs[b] \in {prevX, xs[n - 1]}
    <3>1. xs[j] < xs[b]
      BY <1>4
    <3> QED
      BY <2>1, <2>2, <3>1
  <2> QED
    BY <1>4, <2>3, <2>4, <2>5
<1>7. ASSUME NEW i \in Index, xs[i] >= 1
      PROVE  \E j \in Index : j < endXmin + 1 /\ xs[j] >= 1
  <2>1. i >= px /\ px \in Index
    BY <1>3, <1>4, <1>7 DEF Index
  <2>2. endXmin >= px
    BY <1>1, <1>3, <2>1 DEF RetreatInv, Index
  <2>3. xs[px] >= 1
    BY <1>3, <1>4, <2>1 DEF Index
  <2> QED
    BY <1>3, <2>1, <2>2, <2>3 DEF Index
<1>8. EndInv'
  BY <1>1, <1>3, <1>6, <1>7 DEF EndInv, ThreeDistinctFrom
<1> QED
  BY <1>2, <1>5, <1>8

LEMMA NextCandidateKeepsHistory == ASSUME HistoryInv, NextCandidate PROVE HistoryInv'
<1> USE DEF HistoryInv, NextCandidate, control, cursor, outcome
<1>1. EndInv'
  BY DEF EndInv, ThreeDistinctFrom, Index
<1>2. ScannedInv'
  BY DEF ScannedInv, FirstOfBlock, Index
<1>3. BestInv' /\ OutcomeInv'
  BY DEF BestInv, BestIsFirstMinimal, OutcomeInv, NoCandidateSkipped, Index
<1> QED
  BY <1>1, <1>2, <1>3

(* A repeated value is not the start of a block.                             *)
LEMMA SkipRepeatedKeepsHistory == ASSUME DiscreteInv, HistoryInv, SkipRepeated PROVE HistoryInv'
<1> USE DEF DiscreteInv, HistoryInv, control, outcome
<1>1. /\ pc = "inner" /\ pc' = pc /\ px < endXmin /\ xs[px] = prevX /\ px' = px + 1
      /\ UNCHANGED <<control, endXmin, prevX, outcome, ret>>
  BY DEF SkipRepeated
<1>2. n \in Nat /\ px \in Index /\ Index' = Index
  BY <1>1 DEF TypeOK, Index
<1>3. xs[px] >= 1 /\ prevX # 0
  BY <1>1, <1>2 DEF WalkInv, TypeOK, Index
<1>4. px - 1 \in Index /\ xs[px - 1] = prevX
  BY <1>1, <1>3 DEF ScannedInv
<1>5. bestN > 0
  BY <1>1, <1>2, <1>3, <1>4 DEF ScannedInv, Index
<1>6. ~FirstOfBlock(px)
  BY <1>1, <1>2, <1>3, <1>4 DEF FirstOfBlock, Index, TypeOK
<1>7. ScannedInv'
  <2>1. \A i \in Index : tried[i] # Untried => i < px + 1
    BY <1>1, <1>2 DEF ScannedInv, Index
  <2>2. \A i \in Index : (i < px + 1 /\ xs[i] >= 1) => bestN > 0 /\ (FirstOfBlock(i) => tried[i] # Untried)
    <3> SUFFICES ASSUME NEW i \in Index, i < px + 1, xs[i] >= 1
                 PROVE  bestN > 0 /\ (FirstOfBlock(i) => tried[i] # Untried)
      OBVIOUS
    <3>1. CASE i < px
      BY <1>1, <3>1 DEF ScannedInv
    <3>2. CASE i = px
      BY <1>5, <1>6, <3>2
    <3> QED
      BY <1>2, <3>1, <3>2 DEF Index
  <2>3. px' - 1 = px
    BY <1>1, <1>2 DEF Index
  <2> QED
    BY <1>1, <1>2, <2>1, <2>2, <2>3 DEF ScannedInv, FirstOfBlock
<1>8. EndInv'
  BY <1>1, <1>2 DEF EndInv, ThreeDistinctFrom
<1>9. BestInv' /\ OutcomeInv'
  BY <1>1, <1>2 DEF BestInv, BestIsFirstMinimal, OutcomeInv, NoCandidateSkipped
<1> QED
  BY <1>7, <1>8, <1>9

(* A candidate that is tried replaces the best one exactly when its D is
   smaller; all earlier candidates are in front of it.                       *)
LEMMA TryKeepsHistory == ASSUME DiscreteInv, HistoryInv, Try PROVE HistoryInv'
<1> USE DEF DiscreteInv, HistoryInv
<1>1. px \in Index /\ m = px /\ \A i \in Index : i < px => xs[i] < xs[px]
  BY CandidateInside DEF Try
<1>2. /\ pc = "inner" /\ pc' = "outer" /\ prevX' = xs[px] /\ px' = px + 1
      /\ UNCHANGED <<control, endXmin, ret>>
  BY DEF Try, CandidateReached
<1>3. PICK d \in Scores :
        /\ tried' = [tried EXCEPT ![px] = d]
        /\ best' = IF Improves(d) THEN [D |-> d, xmin |-> xs[px], alpha |-> "aboveOne"] ELSE best
        /\ bestN' = IF Improves(d) THEN n - m ELSE bestN
  BY DEF Try
<1>4. n \in Nat /\ Index' = Index /\ xs' = xs /\ n' = n /\ correction' = correction
  BY <1>2 DEF TypeOK, Index, control
<1>5. d \in Nat /\ d < MaxD /\ d # Untried /\ best.D \in Nat /\ bestN \in 0 .. n
  <2>1. Scores \subseteq Nat /\ MaxD \in Nat /\ d < MaxD
    BY DiscreteAssumption
  <2>2. best.D \in Scores \cup {MaxD} /\ bestN \in 0 .. n
    BY DEF TypeOK
  <2>3. d \in Nat /\ best.D \in Nat
    BY <2>1, <2>2
  <2>4. d # Untried
    BY <2>3 DEF Untried
  <2> QED
    BY <2>1, <2>2, <2>3, <2>4
<1>6. tried \in [Index -> Scores \cup {Untried}] /\ \A i \in Index : tried[i] # Untried => tried[i] \in Nat
  BY DiscreteAssumption DEF TypeOK
<1>7. /\ tried'[px] = d
      /\ \A i \in Index : i # px => tried'[i] = tried[i]
      /\ \A i \in Index : tried[i] # Untried => i < px
  BY <1>1, <1>2, <1>3, <1>6 DEF ScannedInv
<1>8. bestN' > 0 /\ best'.alpha = "aboveOne" /\ BestIsFirstMinimal'
  <2>1. CASE Improves(d)
    <3>1. best'.D = d /\ best'.alpha = "aboveOne" /\ bestN' = n - px
      BY <1>1, <1>3, <2>1
    <3>2. bestN' > 0 /\ n - bestN' = px
      BY <1>1, <1>4, <3>1 DEF Index
    <3>3. \A i \in Index : tried[i] # Untried => d < tried[i]
      BY <1>5, <1>6, <2>1 DEF Improves, BestInv, BestIsFirstMinimal
    <3>4. ASSUME NEW i \in Index, tried'[i] # Untried
          PROVE  d < tried'[i] \/ (d = tried'[i] /\ px <= i)
      BY <1>1, <1>7, <3>3, <3>4 DEF Index
    <3> QED
      BY <1>4, <1>7, <3>1, <3>2, <3>4 DEF BestIsFirstMinimal
  <2>2. CASE ~Improves(d)
    <3>1. best' = best /\ bestN' = bestN /\ best.D <= d
      BY <1>3, <1>5, <2>2 DEF Improves
    <3>2. bestN > 0 /\ best.alpha = "aboveOne"
      BY <1>2, <1>5, <3>1 DEF BestInv
    <3>3. n - bestN \in Index /\ best.D = tried[n - bestN] /\ best.D # Untried
      BY <1>4, <1>5, <3>2 DEF BestInv, BestIsFirstMinimal, Index, Untried
    <3>4. n - bestN < px
      BY <1>7, <3>3
    <3>5. ASSUME NEW i \in Index, tried'[i] # Untried
          PROVE  best.D < tried'[i] \/ (best.D = tried'[i] /\ n - bestN <= i)
      <4>1. CASE i = px
        BY <1>1, <1>5, <1>7, <3>1, <3>3, <3>4, <4>1 DEF Index
      <4>2. CASE i # px
        BY <1>7, <3>2, <3>5, <4>2 DEF BestInv, BestIsFirstMinimal
      <4> QED
        BY <4>1, <4>2
    <3>6. best.D = tried'[n - bestN]
      BY <1>1, <1>7, <3>3, <3>4 DEF Index
    <3> QED
      BY <1>4, <3>1, <3>2, <3>5, <3>6 DEF BestIsFirstMinimal
  <2> QED
    BY <2>1, <2>2
<1>9. BestInv'
  BY <1>2, <1>8 DEF BestInv
<1>10. ScannedInv'
  <2>1. \A i \in Index : tried'[i] # Untried => i < px + 1
    BY <1>1, <1>7 DEF Index
  <2>2. px' - 1 = px
    BY <1>1, <1>2 DEF Index
  <2>3. ASSUME NEW i \in Index, i < px + 1, xs[i] >= 1, FirstOfBlock(i)
        PROVE  tried'[i] # Untried
    <3>1. CASE i < px
      BY <1>2, <1>7, <2>3, <3>1 DEF ScannedInv, Index
    <3>2. CASE i = px
      BY <1>5, <1>7, <3>2
    <3> QED
      BY <1>1, <2>3, <3>1, <3>2 DEF Index
  <2> QED
    BY <1>1, <1>2, <1>4, <1>8, <2>1, <2>2, <2>3 DEF ScannedInv, FirstOfBlock
<1>11. EndInv'
  BY <1>2, <1>4 DEF EndInv, ThreeDistinctFrom
<1>12. OutcomeInv'
  BY <1>2 DEF OutcomeInv, NoCandidateSkipped
<1> QED
  BY <1>9, <1>10, <1>11, <1>12

(* At the end of the scan px has passed every value that has two larger ones,
   and the correction leaves 1 behind only where one point is left, or none
   and no correction.                                                        *)
LEMMA FinishKeepsHistory == ASSUME DiscreteInv, HistoryInv, Finish PROVE HistoryInv'
<1> USE DEF DiscreteInv, HistoryInv
<1>1. /\ pc = "outer" /\ pc' = "likelihood" /\ px >= endXmin
      /\ best' = [best EXCEPT !.alpha = Corrected(best.alpha, bestN)]
      /\ UNCHANGED <<n, xs, correction, bestN, tried, ret>>
  BY DEF Finish, control, TypeOK
<1>2. Index' = Index /\ px \in Nat /\ endXmin \in Nat /\ n \in Nat /\ bestN \in Nat
  BY <1>1 DEF Index, TypeOK
<1>3. best'.D = best.D /\ best'.alpha = Corrected(best.alpha, bestN)
  BY <1>1 DEF TypeOK
<1>4. BestInv'
  <2>1. BestIsFirstMinimal'
    BY <1>1, <1>2, <1>3 DEF BestInv, BestIsFirstMinimal
  <2> QED
    BY <1>1, <1>3, <2>1 DEF BestInv
<1>5. NoCandidateSkipped'
  <2> SUFFICES ASSUME NEW i \in Index, xs[i] >= 1, ThreeDistinctFrom(xs[i]), FirstOfBlock(i)
               PROVE  tried[i] # Untried
    BY <1>1, <1>2 DEF NoCandidateSkipped, ThreeDistinctFrom, FirstOfBlock
  <2>1. i < endXmin
    BY <1>1, <1>2 DEF EndInv, Index
  <2>2. i < px
    BY <1>1, <1>2, <2>1 DEF Index
  <2> QED
    BY <1>1, <2>2 DEF ScannedInv
<1>6. ret # "SUCCESS"
  BY <1>1 DEF OutcomeInv
<1>7. ASSUME NEW i \in Index, xs[i] >= 1
      PROVE  bestN > 0
  <2>1. PICK j \in Index : j < endXmin /\ xs[j] >= 1
    BY <1>1, <1>7 DEF EndInv
  <2>2. j < px
    BY <1>1, <1>2, <2>1 DEF Index
  <2> QED
    BY <1>1, <2>1, <2>2 DEF ScannedInv
<1>8. best'.alpha \in IF bestN > 0 THEN {"one", "aboveOne"}
                      ELSE {IF correction THEN "infinite" ELSE "one"}
  <2>1. best.alpha = IF bestN = 0 THEN "one" ELSE "aboveOne"
    BY <1>1 DEF BestInv
  <2> QED
    BY <1>2, <1>3, <2>1 DEF Corrected
<1>9. OutcomeInv'
  BY <1>1, <1>2, <1>5, <1>6, <1>7, <1>8 DEF OutcomeInv
<1>10. EndInv' /\ ScannedInv'
  BY <1>1 DEF EndInv, ScannedInv
<1> QED
  BY <1>4, <1>9, <1>10

LEMMA EndKeepsHistory == ASSUME HistoryInv, Likelihood \/ Succeed PROVE HistoryInv'
<1> USE DEF HistoryInv
<1>1. /\ pc \in {"likelihood", "pvalue"} /\ pc' \in {"pvalue", "returned"}
      /\ best.alpha # "one"
      /\ UNCHANGED <<n, xs, correction, best, bestN, tried>>
  BY DEF Likelihood, Succeed, control, outcome, OutcomeInv
<1>2. EndInv' /\ ScannedInv'
  BY <1>1 DEF EndInv, ScannedInv
<1>3. BestInv'
  BY <1>1 DEF BestInv, BestIsFirstMinimal, Index
<1>4. NoCandidateSkipped'
  BY <1>1 DEF OutcomeInv, NoCandidateSkipped, ThreeDistinctFrom, Index
<1>5. ret' = "SUCCESS" => pc' = "returned"
  BY DEF Likelihood, Succeed, OutcomeInv
<1>6. OutcomeInv'
  BY <1>1, <1>4, <1>5 DEF OutcomeInv, Index
<1> QED
  BY <1>2, <1>3, <1>6

LEMMA StutterKeepsHistory == ASSUME HistoryInv, UNCHANGED vars PROVE HistoryInv'
<1> USE DEF HistoryInv, vars, control, cursor, outcome
<1>1. EndInv'
  BY DEF EndInv, ThreeDistinctFrom, Index
<1>2. ScannedInv'
  BY DEF ScannedInv, FirstOfBlock, Index
<1>3. BestInv'
  BY DEF BestInv, BestIsFirstMinimal, Index
<1>4. OutcomeInv'
  BY DEF OutcomeInv, NoCandidateSkipped, ThreeDistinctFrom, Index
<1> QED
  BY <1>1, <1>2, <1>3, <1>4

LEMMA HistoryStep == DiscreteInv /\ HistoryInv /\ [Next]_vars => HistoryInv'
<1> SUFFICES ASSUME DiscreteInv, HistoryInv, [Next]_vars PROVE HistoryInv'
  OBVIOUS
<1>1. CASE RejectOptions \/ CopyFails \/ EstimateFails \/ LikelihoodFails \/ PValueFails
  <2>1. \E code \in Codes \ {"SUCCESS"} : Fail(code)
    BY <1>1 DEF RejectOptions, CopyFails, EstimateFails, LikelihoodFails, PValueFails, Codes
  <2> QED
    BY <2>1, FailKeepsHistory
<1>2. CASE CopyAndSort \/ SkipSmall \/ StartRetreat \/ Retreat \/ RetreatAgain \/ StartScan
  BY <1>2, PreparationKeepsHistory, StartScanKeepsHistory
<1>3. CASE NextCandidate \/ SkipRepeated \/ Try
  BY <1>3, NextCandidateKeepsHistory, SkipRepeatedKeepsHistory, TryKeepsHistory
<1>4. CASE Finish \/ Likelihood \/ Succeed
  BY <1>4, FinishKeepsHistory, EndKeepsHistory
<1>5. CASE Finished \/ UNCHANGED vars
  BY <1>5, StutterKeepsHistory DEF Finished
<1> QED
  BY <1>1, <1>2, <1>3, <1>4, <1>5 DEF Next

(* The inductive invariant about what the scan has tried and chosen.         *)
THEOREM DiscreteHistory == Spec => []HistoryInv
BY HistoryInit, HistoryStep, DiscreteInvariance, PTL DEF Spec

(* The candidate chosen has the smallest D of all that were tried, and the
   smallest xmin among equals.                                               *)
THEOREM DiscreteBest == Spec => []BestIsFirstMinimal
<1>1. HistoryInv => BestIsFirstMinimal
  BY DEF HistoryInv, BestInv
<1> QED
  BY <1>1, DiscreteHistory, PTL

(* No value of 1 or more with two larger distinct values is passed over.     *)
THEOREM DiscreteComplete == Spec => []NoCandidateSkipped
<1>1. HistoryInv => NoCandidateSkipped
  BY DEF HistoryInv, OutcomeInv
<1> QED
  BY <1>1, DiscreteHistory, PTL

(* Data with a point to fit, or without the correction, never end in SUCCESS
   without a fitted exponent.                                                *)
THEOREM DiscreteSuccess == Spec => []FittableMeansFitted
<1>1. HistoryInv => FittableMeansFitted
  BY DEF HistoryInv, OutcomeInv, FittableMeansFitted, SuccessMeansFitted
<1> QED
  BY <1>1, DiscreteHistory, PTL
=============================================================================
