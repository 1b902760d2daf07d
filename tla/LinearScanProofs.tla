-------------------------- MODULE LinearScanProofs --------------------------
(* Proofs about the parallel scan, for every team, every number of probes,
   every chunk size and every assignment of D-scores.                        *)
EXTENDS LinearScan, TLAPS

(* Each disjunct of Next that is not a stutter changes at most the part of the
   state its guard speaks of; the proofs below use one case for each.        *)

LEMMA ScanInit == Init => ScanInv
<1> SUFFICES ASSUME Init PROVE ScanInv
  OBVIOUS
<1>1. TypeOK
  BY ScanAssumption DEF Init, TypeOK, Labels, ProbeOrNone, Results, Fits, Nothing, NoResult, NoProbe, Unscored
<1>2. ChunkInv /\ NothingSkipped /\ LockInv /\ ReturnInv
  BY ScanAssumption DEF Init, ChunkInv, ChunksDisjoint, NothingSkipped, LockInv, ReturnInv,
     PastLoop, InCritical, Candidates
<1>3. LocalInv /\ GlobalInv
  BY ScanAssumption DEF Init, LocalInv, GlobalInv, FitMatches, HasMerged, Nothing, NoResult
<1>4. ScoreInv
  BY DEF Init, ScoreInv
<1> QED
  BY <1>1, <1>2, <1>3, <1>4 DEF ScanInv

LEMMA ScoresUpToMax == \A d \in Scores \cup {MaxD} : d \in Nat /\ d <= MaxD
<1>1. MaxD \in Nat /\ Scores \subseteq Nat /\ \A d \in Scores : d < MaxD
  BY ScanAssumption
<1>2. ASSUME NEW d \in Scores PROVE d \in Nat /\ d <= MaxD
  <2>1. d \in Nat /\ d < MaxD
    BY <1>1
  <2> QED
    BY <1>1, <2>1
<1> QED
  BY <1>1, <1>2

(* Scores and DBL_MAX are numbers, so every recorded D can be compared.      *)
LEMMA ScoresAreNumbers ==
  ASSUME TypeOK
  PROVE  /\ \A t \in Threads : localBest[t].D \in Nat
         /\ globalBest.D \in Nat
         /\ best.D \in Nat
         /\ \A p \in Candidates : score[p] \in Int
<1>1. Scores \cup {MaxD} \subseteq Nat
  BY ScanAssumption
<1>2. \A t \in Threads : localBest[t].D \in Scores \cup {MaxD}
  BY DEF TypeOK, Fits
<1>3. globalBest.D \in Scores \cup {MaxD} /\ best.D \in Scores \cup {MaxD}
  BY DEF TypeOK, Fits, Results
<1>4. \A p \in Candidates : score[p] \in Scores \cup {MaxD, Unscored}
  BY DEF TypeOK
<1> QED
  BY <1>1, <1>2, <1>3, <1>4 DEF Unscored

LEMMA TakeChunkKeeps == ASSUME ScanInv, NEW t \in Threads, TakeChunk(t) PROVE ScanInv'
<1> USE ScanAssumption DEF ScanInv, input, TakeChunk, Goto
<1>1. TypeOK'
  BY DEF TypeOK, Labels, ChunkLimit
<1>2. ChunkInv'
  <2>1. \A u \in Threads : pc'[u] = "evaluate" => cur'[u] < chunkEnd'[u] /\ chunkEnd'[u] <= nextIter'
    BY DEF TypeOK, Labels, ChunkLimit, ChunkInv
  <2>2. \A u \in Threads : pc'[u] \in PastLoop => nextIter' >= NumProbes - 1
    BY DEF TypeOK, Labels, ChunkLimit, ChunkInv, PastLoop
  <2>3. \A p \in Candidates : p >= nextIter' => score'[p] = Unscored
    BY DEF TypeOK, Labels, ChunkLimit, ChunkInv, Candidates
  <2>4. ChunksDisjoint'
    BY DEF TypeOK, Labels, ChunkLimit, ChunkInv, ChunksDisjoint, Candidates
  <2> QED
    BY <2>1, <2>2, <2>3, <2>4 DEF ChunkInv
<1>3. NothingSkipped'
  BY DEF TypeOK, Labels, ChunkLimit, NothingSkipped, Candidates
<1>4. LocalInv'
  BY DEF LocalInv, FitMatches
<1>5. LockInv'
  BY DEF TypeOK, LockInv, InCritical
<1>6. GlobalInv'
  BY DEF TypeOK, GlobalInv, FitMatches, HasMerged
<1>7. ReturnInv'
  BY DEF ReturnInv
<1>8. ScoreInv'
  BY DEF ScoreInv
<1> QED
  BY <1>1, <1>2, <1>3, <1>4, <1>5, <1>6, <1>7, <1>8

LEMMA LeaveLoopKeeps == ASSUME ScanInv, NEW t \in Threads, LeaveLoop(t) PROVE ScanInv'
<1> USE ScanAssumption DEF ScanInv, input, LeaveLoop, Goto, sharedVars
<1>1. TypeOK'
  BY DEF TypeOK, Labels
<1>2. ChunkInv'
  BY DEF TypeOK, ChunkInv, ChunksDisjoint, PastLoop
<1>3. NothingSkipped'
  BY DEF TypeOK, NothingSkipped
<1>4. LocalInv'
  BY DEF LocalInv, FitMatches
<1>5. LockInv'
  BY DEF TypeOK, LockInv, InCritical
<1>6. GlobalInv'
  BY DEF TypeOK, GlobalInv, FitMatches, HasMerged
<1>7. ReturnInv'
  BY DEF ReturnInv
<1>8. ScoreInv'
  BY DEF ScoreInv
<1> QED
  BY <1>1, <1>2, <1>3, <1>4, <1>5, <1>6, <1>7, <1>8

LEMMA EvaluateKeeps == ASSUME ScanInv, NEW t \in Threads, Evaluate(t) PROVE ScanInv'
<1> USE ScanAssumption DEF ScanInv
<1> DEFINE p == cur[t]
           a == FittedAlpha(t, p)
<1>1. p \in Candidates /\ score[p] = Unscored /\ p < chunkEnd[t] /\ p < nextIter
  <2>1. pc[t] = "evaluate" /\ p \in Nat /\ chunkEnd[t] \in 0 .. NumProbes - 1 /\ nextIter \in Nat
    BY DEF Evaluate, TypeOK
  <2>2. p < chunkEnd[t] /\ chunkEnd[t] <= nextIter
    BY <2>1 DEF ChunkInv
  <2>3. p \in cur[t] .. chunkEnd[t] - 1
    BY <2>1, <2>2
  <2>4. score[p] = Unscored
    BY <2>1, <2>3 DEF ChunkInv, ChunksDisjoint
  <2> QED
    BY <2>1, <2>2, <2>4 DEF Candidates
<1>2. a \in ProbeOrNone /\ (p >= nonPositive => a = p)
  BY <1>1 DEF FittedAlpha, EstimateRejects, TypeOK, ProbeOrNone, Candidates
<1>3. PICK d \in Scores \cup {MaxD} :
         /\ d \in PossibleScores(p, a)
         /\ score' = [score EXCEPT ![p] = d]
         /\ localBest' = LocalBestAfter(t, p, a, d)
  BY <1>1 DEF Evaluate, PossibleScores, TypeOK
<1>4. /\ pc[t] = "evaluate" /\ phase = "parallel"
      /\ lastAlpha' = [lastAlpha EXCEPT ![t] = a]
      /\ cur' = [cur EXCEPT ![t] = p + 1]
      /\ pc' = [pc EXCEPT ![t] = IF p + 1 < chunkEnd[t] THEN "evaluate" ELSE "dispatch"]
      /\ UNCHANGED <<ks, nonPositive, abortOnError, phase, chunkEnd, nextIter, lock, globalBest, globalN, best>>
  BY DEF Evaluate, Goto, sharedVars, input
<1>5. d \in Nat /\ d <= MaxD /\ d # Unscored
  BY DEF Unscored
<1>6. \/ d < localBest[t].D /\ localBest' = [localBest EXCEPT ![t] = [D |-> d, xmin |-> p, alpha |-> a, n |-> p]]
      \/ ~(d < localBest[t].D) /\ localBest' = localBest
  BY <1>3 DEF LocalBestAfter, Better
<1> HIDE DEF p, a
<1>7. TypeOK'
  <2>1. [D |-> d, xmin |-> p, alpha |-> a, n |-> p] \in Fits
    BY <1>1, <1>2 DEF Fits, ProbeOrNone
  <2>2. localBest' \in [Threads -> Fits]
    BY <1>6, <2>1 DEF TypeOK
  <2>3. cur' \in [Threads -> Nat] /\ score' \in [Candidates -> Scores \cup {MaxD, Unscored}]
    BY <1>1, <1>3, <1>4 DEF TypeOK, Candidates
  <2> QED
    BY <1>2, <1>4, <2>2, <2>3 DEF TypeOK, Labels
<1>8. ChunkInv'
  <2>1. \A u \in Threads \ {t} : pc'[u] = pc[u] /\ cur'[u] = cur[u] /\ chunkEnd'[u] = chunkEnd[u]
    BY <1>4 DEF TypeOK
  <2>2. \A q \in Candidates \ {p} : score'[q] = score[q]
    BY <1>3 DEF TypeOK
  <2>3. pc'[t] = "evaluate" => cur'[t] = p + 1 /\ p + 1 < chunkEnd[t]
    BY <1>4 DEF TypeOK
  <2>4. pc'[t] \notin PastLoop
    BY <1>4 DEF TypeOK, PastLoop
  <2>5. \A q \in Candidates : q >= nextIter => q # p
    BY <1>1 DEF Candidates, TypeOK
  <2>6. ASSUME NEW u \in Threads, pc'[u] = "evaluate", NEW q \in cur'[u] .. chunkEnd'[u] - 1
        PROVE  /\ score'[q] = Unscored
               /\ \A v \in Threads \ {u} : pc'[v] = "evaluate" => q \notin cur'[v] .. chunkEnd'[v] - 1
    <3>1. pc[u] = "evaluate" /\ q \in cur[u] .. chunkEnd[u] - 1
      BY <1>4, <2>1, <2>3, <2>6 DEF p, TypeOK
    <3>2. q \in Candidates
      BY <3>1 DEF TypeOK, Candidates
    <3>3. q # p
      <4>1. CASE u = t
        BY <1>4, <2>3, <2>6, <4>1 DEF p, TypeOK
      <4>2. CASE u # t
        BY <1>1, <1>4, <3>1, <4>2 DEF p, ChunkInv, ChunksDisjoint, TypeOK
      <4> QED
        BY <4>1, <4>2
    <3>4. score[q] = Unscored
      BY <3>1 DEF ChunkInv, ChunksDisjoint
    <3>5. \A v \in Threads \ {u} : pc[v] = "evaluate" => q \notin cur[v] .. chunkEnd[v] - 1
      BY <3>1 DEF ChunkInv, ChunksDisjoint
    <3> QED
      BY <1>4, <2>1, <2>2, <2>3, <3>2, <3>3, <3>4, <3>5 DEF p, TypeOK
  <2>7. \A q \in Candidates : q >= nextIter' => score'[q] = Unscored
    BY <1>4, <2>2, <2>5 DEF ChunkInv
  <2>8. \A u \in Threads : pc'[u] = "evaluate" => cur'[u] < chunkEnd'[u] /\ chunkEnd'[u] <= nextIter'
    BY <1>4, <2>1, <2>3 DEF ChunkInv
  <2>9. \A u \in Threads : pc'[u] \in PastLoop => nextIter' >= NumProbes - 1
    BY <1>4, <2>1, <2>4 DEF ChunkInv
  <2>10. ChunksDisjoint'
    BY <2>6 DEF ChunksDisjoint
  <2> QED
    BY <2>7, <2>8, <2>9, <2>10 DEF ChunkInv
<1>9. NothingSkipped'
  <2>1. SUFFICES ASSUME NEW q \in Candidates, score'[q] = Unscored
                 PROVE  \/ q >= nextIter'
                        \/ \E u \in Threads : pc'[u] = "evaluate" /\ q \in cur'[u] .. chunkEnd'[u] - 1
    BY DEF NothingSkipped
  <2>2. q # p /\ score[q] = Unscored
    BY <1>1, <1>3, <1>5, <2>1 DEF TypeOK
  <2>3. CASE q >= nextIter
    BY <1>4, <2>3
  <2>4. CASE \E u \in Threads : pc[u] = "evaluate" /\ q \in cur[u] .. chunkEnd[u] - 1
    <3>1. PICK u \in Threads : pc[u] = "evaluate" /\ q \in cur[u] .. chunkEnd[u] - 1
      BY <2>4
    <3>2. CASE u # t
      <4>1. pc'[u] = "evaluate" /\ cur'[u] = cur[u] /\ chunkEnd' = chunkEnd
        BY <1>4, <3>1, <3>2 DEF TypeOK
      <4> QED
        BY <3>1, <4>1
    <3>3. CASE u = t
      BY <1>4, <2>2, <3>1, <3>3 DEF p, TypeOK, Candidates
    <3> QED
      BY <3>2, <3>3
  <2> QED
    BY <2>2, <2>3, <2>4 DEF NothingSkipped
<1>10. \A q \in Candidates : score[q] # Unscored => score'[q] = score[q]
  BY <1>1, <1>3 DEF TypeOK
<1>11. \A u \in Threads : localBest'[u].D <= localBest[u].D
  BY <1>5, <1>6, ScoresAreNumbers DEF TypeOK
<1>12. LocalInv'
  <2>1. ASSUME NEW u \in Threads
        PROVE  /\ FitMatches(localBest[u].D, localBest[u].xmin, localBest[u].alpha)'
               /\ localBest'[u].n = localBest'[u].xmin
    <3>1. CASE localBest'[u] = localBest[u]
      BY <1>4, <1>10, <3>1 DEF LocalInv, FitMatches, Unscored
    <3>2. CASE u = t /\ d < localBest[t].D /\ localBest'[u] = [D |-> d, xmin |-> p, alpha |-> a, n |-> p]
      <4>1. d \in Scores
        <5>1. localBest[t].D \in Scores \cup {MaxD}
          BY DEF TypeOK, Fits
        <5>2. localBest[t].D <= MaxD /\ localBest[t].D \in Nat /\ MaxD \in Nat
          BY <5>1, ScoresUpToMax
        <5>3. d # MaxD
          <6>1. d < localBest[t].D
            BY <3>2
          <6> QED
            BY <1>5, <5>2, <6>1
        <5> QED
          BY <5>3
      <4> QED
        BY <1>1, <1>2, <1>3, <1>4, <3>2, <4>1 DEF FitMatches, TypeOK
    <3> QED
      BY <1>6, <3>1, <3>2 DEF TypeOK
  <2>2. ASSUME NEW q \in Candidates, score'[q] # Unscored
        PROVE  \E u \in Threads : localBest'[u].D <= score'[q]
    <3>1. CASE q = p
      BY <1>1, <1>3, <1>5, <1>6, <3>1, ScoresAreNumbers DEF TypeOK
    <3>2. CASE q # p
      <4>1. PICK u \in Threads : localBest[u].D <= score[q]
        BY <1>3, <2>2, <3>2 DEF LocalInv, TypeOK
      <4>2. QED
        <5>1. localBest[u].D \in Nat /\ score[q] \in Int /\ localBest'[u].D \in Nat /\ score'[q] = score[q]
          BY <1>3, <1>6, <1>5, <3>2, ScoresAreNumbers DEF TypeOK
        <5> QED
          BY <1>11, <4>1, <5>1
    <3> QED
      BY <3>1, <3>2
  <2> QED
    BY <2>1, <2>2 DEF LocalInv
<1>13. LockInv'
  BY <1>4 DEF TypeOK, LockInv, InCritical
<1>14. GlobalInv'
  <2>1. FitMatches(globalBest.D, globalBest.xmin, globalBest.alpha)'
    BY <1>4, <1>10 DEF GlobalInv, FitMatches, Unscored
  <2>2. \A u \in Threads \ {t} : pc'[u] = pc[u] /\ localBest'[u] = localBest[u]
    BY <1>4, <1>6 DEF TypeOK
  <2>3. pc'[t] \in {"evaluate", "dispatch"}
    BY <1>4 DEF TypeOK
  <2> QED
    BY <1>4, <2>1, <2>2, <2>3 DEF GlobalInv, HasMerged
<1>15. ReturnInv'
  BY <1>4 DEF ReturnInv
<1>16. ScoreInv'
  <2>1. p >= nonPositive => d = ks[p]
    BY <1>1, <1>3 DEF PossibleScores, FittedAlpha, EstimateRejects, p, a, TypeOK, Candidates
  <2> QED
    BY <1>1, <1>3, <1>4, <2>1 DEF ScoreInv, TypeOK
<1> QED
  BY <1>7, <1>8, <1>9, <1>12, <1>13, <1>14, <1>15, <1>16

LEMMA EvaluateAbortsKeeps == ASSUME ScanInv, NEW t \in Threads, EvaluateAborts(t) PROVE ScanInv'
<1> USE ScanAssumption DEF ScanInv, input, EvaluateAborts, sharedVars, threadVars
<1>1. TypeOK'
  BY DEF TypeOK, Labels
<1>2. ChunkInv'
  BY DEF TypeOK, ChunkInv, ChunksDisjoint, PastLoop
<1>3. NothingSkipped'
  BY DEF TypeOK, NothingSkipped
<1>4. LocalInv'
  BY DEF LocalInv, FitMatches
<1>5. LockInv'
  BY DEF TypeOK, LockInv, InCritical
<1>6. GlobalInv'
  BY DEF TypeOK, GlobalInv, FitMatches, HasMerged
<1>7. ReturnInv'
  BY DEF ReturnInv
<1>8. ScoreInv'
  BY DEF ScoreInv
<1> QED
  BY <1>1, <1>2, <1>3, <1>4, <1>5, <1>6, <1>7, <1>8

LEMMA EnterCriticalKeeps == ASSUME ScanInv, NEW t \in Threads, EnterCritical(t) PROVE ScanInv'
<1> USE ScanAssumption DEF ScanInv, input, EnterCritical, Goto
<1>1. TypeOK'
  BY DEF TypeOK, Labels
<1>2. ChunkInv'
  BY DEF TypeOK, ChunkInv, ChunksDisjoint, PastLoop
<1>3. NothingSkipped'
  BY DEF TypeOK, NothingSkipped
<1>4. LocalInv'
  BY DEF LocalInv, FitMatches
<1>5. LockInv'
  BY DEF TypeOK, LockInv, InCritical
<1>6. GlobalInv'
  BY DEF TypeOK, GlobalInv, FitMatches, HasMerged
<1>7. ReturnInv'
  BY DEF ReturnInv
<1>8. ScoreInv'
  BY DEF ScoreInv
<1> QED
  BY <1>1, <1>2, <1>3, <1>4, <1>5, <1>6, <1>7, <1>8

LEMMA CompareBestKeeps == ASSUME ScanInv, NEW t \in Threads, CompareBest(t) PROVE ScanInv'
<1> USE ScanAssumption DEF ScanInv, input, CompareBest, Goto, sharedVars
<1>1. TypeOK'
  BY DEF TypeOK, Labels
<1>2. ChunkInv'
  BY DEF TypeOK, ChunkInv, ChunksDisjoint, PastLoop
<1>3. NothingSkipped'
  BY DEF TypeOK, NothingSkipped
<1>4. LocalInv'
  BY DEF LocalInv, FitMatches
<1>5. LockInv'
  BY DEF TypeOK, LockInv, InCritical
<1>6. GlobalInv'
  BY ScoresAreNumbers DEF TypeOK, GlobalInv, FitMatches, HasMerged, Better
<1>7. ReturnInv'
  BY DEF ReturnInv
<1>8. ScoreInv'
  BY DEF ScoreInv
<1> QED
  BY <1>1, <1>2, <1>3, <1>4, <1>5, <1>6, <1>7, <1>8

LEMMA AssignResultKeeps == ASSUME ScanInv, NEW t \in Threads, AssignResult(t) PROVE ScanInv'
<1> USE ScanAssumption DEF ScanInv, input, AssignResult, Goto
<1>1. TypeOK'
  BY DEF TypeOK, Labels, Fits, Results
<1>2. ChunkInv'
  BY DEF TypeOK, ChunkInv, ChunksDisjoint, PastLoop
<1>3. NothingSkipped'
  BY DEF TypeOK, NothingSkipped
<1>4. LocalInv'
  BY DEF LocalInv, FitMatches
<1>5. LockInv'
  BY DEF TypeOK, LockInv, InCritical
<1>6. GlobalInv'
  <2>1. \A u \in Threads \ {t} : pc'[u] = pc[u] /\ pc[u] \notin InCritical
    BY DEF TypeOK, LockInv, InCritical
  <2>2. /\ globalBest'.D = localBest[t].D /\ globalBest'.xmin = localBest[t].xmin
        /\ globalBest'.alpha = localBest[t].alpha /\ localBest' = localBest /\ score' = score
        /\ pc'[t] = "assignN" /\ localBest[t].D < globalBest.D
    BY DEF TypeOK, GlobalInv
  <2>3. FitMatches(globalBest.D, globalBest.xmin, globalBest.alpha)'
    BY <2>2 DEF LocalInv, FitMatches
  <2>4. \A u \in Threads : pc'[u] \in HasMerged => globalBest'.D <= localBest'[u].D
    BY <2>1, <2>2, ScoresAreNumbers DEF GlobalInv, HasMerged
  <2> QED
    BY <2>1, <2>2, <2>3, <2>4 DEF GlobalInv, InCritical
<1>7. ReturnInv'
  BY DEF ReturnInv
<1>8. ScoreInv'
  BY DEF ScoreInv
<1> QED
  BY <1>1, <1>2, <1>3, <1>4, <1>5, <1>6, <1>7, <1>8

LEMMA AssignNKeeps == ASSUME ScanInv, NEW t \in Threads, AssignN(t) PROVE ScanInv'
<1> USE ScanAssumption DEF ScanInv, input, AssignN, Goto
<1>1. TypeOK'
  BY DEF TypeOK, Labels, Fits
<1>2. ChunkInv'
  BY DEF TypeOK, ChunkInv, ChunksDisjoint, PastLoop
<1>3. NothingSkipped'
  BY DEF TypeOK, NothingSkipped
<1>4. LocalInv'
  BY DEF LocalInv, FitMatches
<1>5. LockInv'
  BY DEF TypeOK, LockInv, InCritical
<1>6. GlobalInv'
  BY DEF TypeOK, GlobalInv, FitMatches, HasMerged, LocalInv, LockInv, InCritical
<1>7. ReturnInv'
  BY DEF ReturnInv
<1>8. ScoreInv'
  BY DEF ScoreInv
<1> QED
  BY <1>1, <1>2, <1>3, <1>4, <1>5, <1>6, <1>7, <1>8

LEMMA LeaveCriticalKeeps == ASSUME ScanInv, NEW t \in Threads, LeaveCritical(t) PROVE ScanInv'
<1> USE ScanAssumption DEF ScanInv, input, LeaveCritical, Goto
<1>1. TypeOK'
  BY DEF TypeOK, Labels
<1>2. ChunkInv'
  BY DEF TypeOK, ChunkInv, ChunksDisjoint, PastLoop
<1>3. NothingSkipped'
  BY DEF TypeOK, NothingSkipped
<1>4. LocalInv'
  BY DEF LocalInv, FitMatches
<1>5. LockInv'
  BY DEF TypeOK, LockInv, InCritical
<1>6. GlobalInv'
  BY DEF TypeOK, GlobalInv, FitMatches, HasMerged
<1>7. ReturnInv'
  BY DEF ReturnInv
<1>8. ScoreInv'
  BY DEF ScoreInv
<1> QED
  BY <1>1, <1>2, <1>3, <1>4, <1>5, <1>6, <1>7, <1>8

LEMMA ReturnKeeps == ASSUME ScanInv, Return PROVE ScanInv'
<1> USE ScanAssumption DEF ScanInv, input, Return, threadVars, sharedVars
<1>1. TypeOK'
  BY DEF TypeOK, Fits, Results
<1>2. ChunkInv'
  BY DEF TypeOK, ChunkInv, ChunksDisjoint, PastLoop
<1>3. NothingSkipped'
  BY DEF TypeOK, NothingSkipped
<1>4. LocalInv'
  BY DEF LocalInv, FitMatches
<1>5. LockInv'
  BY DEF TypeOK, LockInv, InCritical
<1>6. GlobalInv'
  BY DEF TypeOK, GlobalInv, FitMatches, HasMerged
<1>7. ReturnInv'
  BY DEF ReturnInv, TeamDone
<1>8. ScoreInv'
  BY DEF ScoreInv
<1> QED
  BY <1>1, <1>2, <1>3, <1>4, <1>5, <1>6, <1>7, <1>8

LEMMA StutterKeeps == ASSUME ScanInv, UNCHANGED vars PROVE ScanInv'
<1> USE ScanAssumption DEF ScanInv, input, vars, threadVars, sharedVars
<1>1. TypeOK'
  BY DEF TypeOK
<1>2. ChunkInv'
  BY DEF ChunkInv, ChunksDisjoint
<1>3. NothingSkipped'
  BY DEF NothingSkipped
<1>4. LocalInv'
  BY DEF LocalInv, FitMatches
<1>5. LockInv'
  BY DEF LockInv
<1>6. GlobalInv'
  BY DEF GlobalInv, FitMatches
<1>7. ReturnInv'
  BY DEF ReturnInv, TeamDone
<1>8. ScoreInv'
  BY DEF ScoreInv
<1> QED
  BY <1>1, <1>2, <1>3, <1>4, <1>5, <1>6, <1>7, <1>8

LEMMA ScanStep == ScanInv /\ [Next]_vars => ScanInv'
<1> SUFFICES ASSUME ScanInv, [Next]_vars PROVE ScanInv'
  OBVIOUS
<1>1. ASSUME NEW t \in Threads, ThreadStep(t) PROVE ScanInv'
  BY <1>1, TakeChunkKeeps, LeaveLoopKeeps, EvaluateKeeps, EvaluateAbortsKeeps, EnterCriticalKeeps,
     CompareBestKeeps, AssignResultKeeps, AssignNKeeps, LeaveCriticalKeeps DEF ThreadStep
<1>2. CASE Return
  BY <1>2, ReturnKeeps
<1>3. CASE Finished \/ UNCHANGED vars
  BY <1>3, StutterKeeps DEF Finished
<1> QED
  BY <1>1, <1>2, <1>3 DEF Next

(* The inductive invariant holds in every reachable state of the scan.       *)
THEOREM ScanInvariance == Spec => []ScanInv
BY ScanInit, ScanStep, PTL DEF Spec

LEMMA ScanInvGivesMinimal == ScanInv => BestIsMinimal
<1> SUFFICES ASSUME ScanInv, phase = "returned", NEW p \in Candidates
             PROVE  score[p] # Unscored /\ best.D <= score[p]
  BY DEF BestIsMinimal
<1> USE ScanAssumption DEF ScanInv
<1>1. \A t \in Threads : pc[t] = "done"
  BY DEF ReturnInv, TeamDone
<1>2. nextIter >= NumProbes - 1
  BY <1>1 DEF ChunkInv, PastLoop
<1>3. score[p] # Unscored
  BY <1>1, <1>2 DEF NothingSkipped, Candidates, TypeOK
<1>4. PICK t \in Threads : localBest[t].D <= score[p]
  BY <1>3 DEF LocalInv
<1>5. best.D <= localBest[t].D
  BY <1>1 DEF GlobalInv, HasMerged, ReturnInv
<1> QED
  BY <1>3, <1>4, <1>5, ScoresAreNumbers

(* The initial values are left over only if every D is as bad as DBL_MAX, which
   that of a positive candidate never is.                                    *)
LEMMA NothingMeansNoPositive ==
  ASSUME ScanInv, phase = "returned", best.D = MaxD
  PROVE  \A p \in Candidates : p < nonPositive /\ score[p] = MaxD
<1> SUFFICES ASSUME NEW p \in Candidates
             PROVE  p < nonPositive /\ score[p] = MaxD
  OBVIOUS
<1> USE ScanAssumption DEF ScanInv
<1>1. score[p] \in Scores \cup {MaxD} /\ MaxD <= score[p]
  BY ScanInvGivesMinimal DEF BestIsMinimal, TypeOK
<1>2. score[p] = MaxD
  <2>1. score[p] \in Nat /\ score[p] <= MaxD /\ MaxD \in Nat
    BY <1>1, ScoresUpToMax
  <2> QED
    BY <1>1, <2>1
<1>3. p >= nonPositive => score[p] \in Scores
  BY <1>1 DEF ScoreInv, TypeOK, BestIsMinimal, Unscored
<1>4. p < nonPositive
  BY <1>2, <1>3 DEF TypeOK, Candidates
<1> QED
  BY <1>2, <1>4

LEMMA ScanInvGivesOneFit == ScanInv => BestIsOneFit
<1> SUFFICES ASSUME ScanInv, phase = "returned" PROVE BestIsOneFit
  BY DEF BestIsOneFit
<1> USE ScanAssumption DEF ScanInv
<1>1. FitMatches(best.D, best.xmin, best.alpha)
  BY DEF GlobalInv, ReturnInv, FitMatches
<1>2. best.n = best.xmin
  BY DEF GlobalInv, ReturnInv, TeamDone
<1>3. CASE best.D = MaxD
  <2>1. best.xmin = NoProbe /\ best.alpha = NoProbe
    BY <1>1, <1>3 DEF FitMatches
  <2>2. best = Nothing
    BY <1>2, <1>3, <2>1 DEF TypeOK, Fits, Nothing
  <2> QED
    BY <1>3, <2>2, NothingMeansNoPositive DEF BestIsOneFit
<1>4. CASE best.D # MaxD
  <2>1. best # Nothing
    BY <1>4 DEF Nothing
  <2> QED
    BY <1>1, <1>2, <1>4, <2>1 DEF BestIsOneFit, FitMatches
<1> QED
  BY <1>3, <1>4

(* No candidate is skipped and no thread's find is lost: the D that the scan
   reports is the smallest D any candidate was given.                        *)
THEOREM ScanMinimal == Spec => []BestIsMinimal
BY ScanInvariance, ScanInvGivesMinimal, PTL

(* The reported xmin, alpha, n and D always belong to one evaluation, or are the
   initial values of the loop, and then no candidate is positive.            *)
THEOREM ScanOneFit == Spec => []BestIsOneFit
BY ScanInvariance, ScanInvGivesOneFit, PTL

(* The dynamic schedule hands every iteration to one thread only.            *)
THEOREM ScanChunksDisjoint == Spec => []ChunksDisjoint
<1>1. ScanInv => ChunksDisjoint
  BY DEF ScanInv, ChunkInv
<1> QED
  BY <1>1, ScanInvariance, PTL

(* The state stays within its types.                                         *)
THEOREM ScanTypeOK == Spec => []TypeOK
<1>1. ScanInv => TypeOK
  BY DEF ScanInv
<1> QED
  BY <1>1, ScanInvariance, PTL

LEMMA MergeStep ==
  ASSUME ScanInv, [Next]_vars
  PROVE  globalBest'.D <= globalBest.D
<1> USE DEF ScanInv
<1>1. globalBest.D \in Nat
  BY ScoresAreNumbers
<1>2. CASE \E t \in Threads : AssignResult(t)
  <2>1. PICK t \in Threads : AssignResult(t)
    BY <1>2
  <2>2. globalBest'.D = localBest[t].D /\ localBest[t].D < globalBest.D
    BY <2>1 DEF AssignResult, GlobalInv
  <2> QED
    BY <1>1, <2>2, ScoresAreNumbers
<1>3. CASE globalBest' = globalBest
  BY <1>1, <1>3
<1>4. (\E t \in Threads : AssignResult(t)) \/ globalBest' = globalBest
  BY DEF Next, ThreadStep, TakeChunk, LeaveLoop, Evaluate, EvaluateAborts, EnterCritical, CompareBest,
     AssignN, LeaveCritical, Return, Finished, vars, sharedVars
<1> QED
  BY <1>2, <1>3, <1>4

(* No step of any thread replaces the shared best fit by a worse one.        *)
THEOREM ScanMonotone == Spec => GlobalBestNeverWorsens
<1>1. ScanInv /\ [Next]_vars => [globalBest'.D <= globalBest.D]_vars
  BY MergeStep
<1> QED
  BY <1>1, ScanInvariance, PTL DEF Spec, GlobalBestNeverWorsens

LEMMA InitRefines == Init => ScanResult!AInit
BY DEF Init, ScanResult!AInit, ScanResult!Candidates, Candidates, ScanResult!Nothing, Nothing,
   ScanResult!NoProbe, NoProbe

LEMMA ReturnRefines == ASSUME ScanInv, Return PROVE ScanResult!AReturn
<1> USE ScanAssumption DEF ScanInv
<1>1. ScanInv'
  BY ReturnKeeps
<1>2. /\ phase = "parallel" /\ phase' = "returned" /\ score' = score
      /\ ks' = ks /\ nonPositive' = nonPositive
  BY DEF Return, input
<1>3. best' = [D |-> globalBest.D, xmin |-> globalBest.xmin, alpha |-> globalBest.alpha, n |-> globalN]
  BY DEF Return
<1>4. globalN = globalBest.xmin
  BY DEF Return, TeamDone, GlobalInv
<1>5. best' \in ScanResult!Acceptable
  <2>1. BestIsOneFit' /\ BestIsMinimal'
    <3>1. ScanInv' => BestIsOneFit' /\ BestIsMinimal'
      BY ScanInvGivesOneFit, ScanInvGivesMinimal, PTL
    <3> QED
      BY <1>1, <3>1
  <2>2. CASE best' = Nothing
    <3>1. \A p \in Candidates : p < nonPositive
      BY <1>2, <2>1, <2>2 DEF BestIsOneFit
    <3> QED
      BY <2>2, <3>1 DEF ScanResult!Acceptable, ScanResult!Candidates, Candidates,
         ScanResult!Nothing, Nothing, ScanResult!NoProbe, NoProbe
  <2>3. CASE best' # Nothing
    <3> DEFINE q == globalBest.xmin
    <3>1. q \in Candidates /\ globalBest.D = score[q] /\ (q >= nonPositive => globalBest.alpha = q)
      BY <1>2, <1>3, <2>1, <2>3 DEF BestIsOneFit
    <3>2. \A r \in Candidates : score[r] # Unscored /\ globalBest.D <= score[r]
      BY <1>2, <1>3, <2>1 DEF BestIsMinimal
    <3>3. \A r \in Candidates : r >= nonPositive => score[r] = ks[r]
      BY <3>2 DEF ScoreInv
    <3>4. globalBest.D \in Scores
      BY <3>1 DEF GlobalInv, FitMatches, NoProbe, Candidates
    <3>5. globalBest.alpha \in Candidates \cup {NoProbe}
      BY DEF TypeOK, Results, ProbeOrNone
    <3>6. best' \in ScanResult!Reports
      BY <1>3, <1>4, <3>1, <3>4, <3>5 DEF ScanResult!Reports, ScanResult!Candidates, Candidates,
         ScanResult!NoProbe, NoProbe
    <3>7. /\ best'.n = best'.xmin
          /\ best'.xmin >= nonPositive => best'.alpha = best'.xmin /\ best'.D = ks[best'.xmin]
          /\ \A r \in Candidates : r >= nonPositive => best'.D <= ks[r]
      BY <1>3, <1>4, <3>1, <3>2, <3>3
    <3> QED
      BY <3>6, <3>7 DEF ScanResult!Acceptable, ScanResult!Candidates, Candidates
  <2> QED
    BY <2>2, <2>3
<1> QED
  BY <1>2, <1>5 DEF ScanResult!AReturn

LEMMA StepRefines ==
  ASSUME ScanInv, [Next]_vars
  PROVE  [ScanResult!AReturn]_(ScanResult!avars)
<1>1. CASE Return
  BY <1>1, ReturnRefines
<1>2. \/ Return
      \/ /\ ks' = ks /\ nonPositive' = nonPositive /\ best' = best
         /\ phase' = "returned" <=> phase = "returned"
  BY DEF Next, ThreadStep, TakeChunk, LeaveLoop, Evaluate, EvaluateAborts, EnterCritical, CompareBest,
     AssignResult, AssignN, LeaveCritical, Finished, vars, sharedVars, input
<1> QED
  BY <1>1, <1>2 DEF ScanResult!avars

(* The team of threads implements the abstract scan: the caller sees one fit
   of minimal D, or the initial values when no candidate is positive, stored
   once, whatever the schedule, the signs of the data and the error handler. *)
THEOREM ScanRefines == Spec => ImplementsScanSpec
BY InitRefines, StepRefines, ScanInvariance, PTL DEF Spec, ImplementsScanSpec, ScanResult!ASpec
=============================================================================
