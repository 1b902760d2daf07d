---------------------------- MODULE PValueProofs ----------------------------
(* Proofs about plfit_rbinom under concurrent callers and about the team that
   calculates a p-value, for every number of threads, trials and parameters.  *)
EXTENDS PValue, FiniteSetTheorems, TLAPS

----------------------------------------------------------------------------
(* plfit_rbinom: what each of its steps does to its callers' numbers.        *)
LEMMA BinomialInit == Init => BinomialInv
<1> SUFFICES ASSUME Init PROVE BinomialInv
  OBVIOUS
<1>1. BinomialTypeOK
  BY DEF Init, BinomialTypeOK
<1>2. None \notin High /\ None \notin Trivial
  BY RBinomAssumption
<1>3. ASSUME NEW t \in Threads PROVE DrawInv(t)
  <2>1. calls[t] = 0 /\ pc[t] = "idle" /\ drawn[t] = [consts |-> None, reflect |-> FALSE] /\ retried[t] = FALSE
    BY DEF Init
  <2>2. args = None /\ (args \in High) = FALSE
    BY <1>2 DEF Init
  <2>3. drawn[t] = Own
    BY <2>1, <2>2 DEF Own
  <2> QED
    BY <1>2, <2>1, <2>2, <2>3 DEF DrawInv
<1>4. CacheInv
  BY DEF Init, CacheInv
<1> QED
  BY <1>1, <1>3, <1>4 DEF BinomialInv

LEMMA NewCalculationKeeps == ASSUME BinomialInv, NewCalculation PROVE BinomialInv'
<1> USE DEF BinomialInv, NewCalculation, statics
<1>1. BinomialTypeOK'
  BY RBinomAssumption DEF BinomialTypeOK
<1>2. ASSUME NEW t \in Threads PROVE DrawInv(t)'
  BY DEF DrawInv, Own, BinomialTypeOK
<1>3. CacheInv'
  BY DEF CacheInv, HasConstants
<1> QED
  BY <1>1, <1>2, <1>3

LEMMA CallKeeps == ASSUME BinomialInv, NEW t \in Threads, Call(t) PROVE BinomialInv'
<1> USE DEF BinomialInv, Call, Goto, statics
<1>1. BinomialTypeOK'
  BY DEF BinomialTypeOK
<1>2. ASSUME NEW u \in Threads PROVE DrawInv(u)'
  <2>1. calls[t] > 0 /\ args \in Params /\ pc[t] = "idle"
    BY DEF DrawInv
  <2>2. CASE u = t
    <3>1. pc'[t] = IF args \in Trivial THEN "idle" ELSE "check"
      BY DEF BinomialTypeOK
    <3>2. args \in Trivial => drawn[t] = Own
      BY DEF DrawInv
    <3>3. retried'[t] = FALSE
      BY DEF BinomialTypeOK
    <3> QED
      BY <2>1, <2>2, <3>1, <3>2, <3>3 DEF DrawInv, Own
  <2>3. CASE u # t
    <3>1. pc'[u] = pc[u] /\ calls'[u] = calls[u] /\ raced'[u] = raced[u] /\ retried'[u] = retried[u]
      BY <2>3 DEF BinomialTypeOK
    <3> QED
      BY <3>1 DEF DrawInv, Own, HasConstants
  <2> QED
    BY <2>2, <2>3
<1>3. CacheInv'
  BY DEF CacheInv, HasConstants, BinomialTypeOK
<1> QED
  BY <1>1, <1>2, <1>3

(* A thread that finds the set-up current while nobody is in it finds the
   constants, too.                                                           *)
LEMMA CheckSavedKeeps == ASSUME BinomialInv, NEW t \in Threads, CheckSaved(t) PROVE BinomialInv'
<1> USE DEF BinomialInv, CheckSaved, Goto, statics, SetUpIsCurrent
<1>1. BinomialTypeOK'
  BY DEF BinomialTypeOK
<1>2. ASSUME NEW u \in Threads PROVE DrawInv(u)'
  <2>1. CASE u = t
    <3>1. args \in Params \ Trivial /\ args # None
      BY RBinomAssumption DEF DrawInv
    <3>2. /\ pc'[t] = IF saved = args THEN "generate" ELSE "save"
          /\ raced'[t] = (saved = args /\ \E w \in Threads : pc[w] = "setup")
      BY DEF BinomialTypeOK
    <3>3. (saved = args /\ ~\E w \in Threads : pc[w] = "setup") => HasConstants(args)
      BY <3>1 DEF CacheInv
    <3>4. ~raced'[t] => ~(saved = args /\ \E w \in Threads : pc[w] = "setup")
      BY <3>2
    <3>5. (pc'[t] = "generate" /\ ~raced'[t]) => saved' = args' /\ HasConstants(args)'
      BY <3>2, <3>3, <3>4 DEF HasConstants
    <3>6. calls'[t] > 0 => args' \in Params
      BY <3>1
    <3>7. pc'[t] \in {"generate", "save"} /\ ~retried'[t]
      BY <3>2 DEF DrawInv
    <3> QED
      BY <2>1, <3>1, <3>5, <3>6, <3>7 DEF DrawInv, Own
  <2>2. CASE u # t
    <3>1. pc'[u] = pc[u] /\ raced'[u] = raced[u]
      BY <2>2 DEF BinomialTypeOK
    <3> QED
      BY <3>1 DEF DrawInv, Own, HasConstants
  <2> QED
    BY <2>1, <2>2
<1>3. CacheInv'
  <2>1. \A u \in Threads : pc[u] = "setup" => pc'[u] = "setup"
    BY DEF BinomialTypeOK
  <2> QED
    BY <2>1 DEF CacheInv, HasConstants
<1> QED
  BY <1>1, <1>2, <1>3

(* All threads ask for the same parameters: saving them disturbs nobody.     *)
LEMMA SaveParametersKeeps == ASSUME BinomialInv, NEW t \in Threads, SaveParameters(t) PROVE BinomialInv'
<1> USE DEF BinomialInv, SaveParameters, Goto
<1>1. BinomialTypeOK'
  BY DEF BinomialTypeOK
<1>2. ASSUME NEW u \in Threads PROVE DrawInv(u)'
  <2>1. CASE u = t
    <3>1. pc'[t] = "setup" /\ args \in Params \ Trivial
      BY DEF BinomialTypeOK, DrawInv
    <3> QED
      BY <2>1, <3>1 DEF DrawInv, Own
  <2>2. CASE u # t
    <3>1. pc'[u] = pc[u]
      BY <2>2 DEF BinomialTypeOK
    <3> QED
      BY <3>1 DEF DrawInv, Own, HasConstants
  <2> QED
    BY <2>1, <2>2
<1>3. CacheInv'
  <2>1. pc'[t] = "setup"
    BY DEF BinomialTypeOK
  <2> QED
    BY <2>1 DEF CacheInv
<1> QED
  BY <1>1, <1>2, <1>3

LEMMA SetUpKeeps == ASSUME BinomialInv, NEW t \in Threads, SetUp(t) PROVE BinomialInv'
<1> USE DEF BinomialInv, SetUp, Goto
<1>1. BinomialTypeOK'
  BY DEF BinomialTypeOK
<1>2. saved = args /\ HasConstants(args)'
  BY DEF DrawInv, HasConstants
<1>3. ASSUME NEW u \in Threads PROVE DrawInv(u)'
  <2>1. CASE u = t
    <3>1. pc'[t] = "generate" /\ args \in Params \ Trivial
      BY DEF BinomialTypeOK, DrawInv
    <3> QED
      BY <1>2, <2>1, <3>1 DEF DrawInv, Own
  <2>2. CASE u # t
    <3>1. pc'[u] = pc[u]
      BY <2>2 DEF BinomialTypeOK
    <3> QED
      BY <1>2, <3>1 DEF DrawInv, Own
  <2> QED
    BY <2>1, <2>2
<1>4. CacheInv'
  BY <1>2 DEF CacheInv, HasConstants
<1> QED
  BY <1>1, <1>3, <1>4

LEMMA GenerateKeeps == ASSUME BinomialInv, NEW t \in Threads, Generate(t) PROVE BinomialInv'
<1> USE DEF BinomialInv, Generate, Goto, statics
<1>1. BinomialTypeOK'
  BY DEF BinomialTypeOK, ConstantsRead
<1>2. ASSUME NEW u \in Threads PROVE DrawInv(u)'
  <2>1. CASE u = t
    <3>1. pc[t] = "generate" /\ pc'[t] = "finis" /\ args \in Params \ Trivial
      BY DEF BinomialTypeOK, DrawInv
    <3>2. drawn'[t].consts = IF args \in Small THEN qn ELSE btpe
      BY DEF BinomialTypeOK, ConstantsRead
    <3>3. ~raced[t] => saved = args /\ HasConstants(args)
      BY <3>1 DEF DrawInv
    <3>4. ~raced'[t] => saved' = args' /\ drawn'[t].consts = args'
      BY <3>2, <3>3 DEF HasConstants
    <3> QED
      BY <2>1, <3>1, <3>4 DEF DrawInv
  <2>2. CASE u # t
    <3>1. pc'[u] = pc[u] /\ drawn'[u] = drawn[u]
      BY <2>2 DEF BinomialTypeOK
    <3> QED
      BY <3>1 DEF DrawInv, Own, HasConstants
  <2> QED
    BY <2>1, <2>2
<1>3. CacheInv'
  <2>1. \A u \in Threads : pc[u] = "setup" => pc'[u] = "setup"
    BY DEF BinomialTypeOK
  <2> QED
    BY <2>1 DEF CacheInv, HasConstants
<1> QED
  BY <1>1, <1>2, <1>3

(* Only a thread that has raced is still without the constants it reads.     *)
LEMMA RetryKeeps == ASSUME BinomialInv, NEW t \in Threads, Retry(t) PROVE BinomialInv'
<1> USE DEF BinomialInv, Retry, statics
<1>1. BinomialTypeOK'
  BY DEF BinomialTypeOK
<1>2. raced[t] /\ pc[t] = "generate"
  <2>1. ~raced[t] => HasConstants(args)
    BY DEF DrawInv
  <2> QED
    BY <2>1 DEF HasConstants, ConstantsRead
<1>3. \A u \in Threads : u # t => retried'[u] = retried[u]
  BY DEF BinomialTypeOK
<1>4. ASSUME NEW u \in Threads PROVE DrawInv(u)'
  BY <1>2, <1>3 DEF DrawInv, Own, HasConstants
<1>5. CacheInv'
  BY DEF CacheInv, HasConstants
<1> QED
  BY <1>1, <1>4, <1>5

LEMMA FinisKeeps == ASSUME BinomialInv, NEW t \in Threads, Finis(t) PROVE BinomialInv'
<1> USE DEF BinomialInv, Finis, Goto, statics
<1>1. BinomialTypeOK'
  <2>1. (saved \in High) \in BOOLEAN
    OBVIOUS
  <2>2. [drawn[t] EXCEPT !.reflect = saved \in High] \in [consts : Params \cup {None}, reflect : BOOLEAN]
    <3>1. drawn[t] \in [consts : Params \cup {None}, reflect : BOOLEAN]
      BY DEF BinomialTypeOK
    <3> HIDE DEF BinomialInv, Finis, Goto, statics
    <3> QED
      BY <2>1, <3>1
  <2>3. drawn' = [drawn EXCEPT ![t] = [drawn[t] EXCEPT !.reflect = saved \in High]]
    OBVIOUS
  <2>4. drawn' \in [Threads -> [consts : Params \cup {None}, reflect : BOOLEAN]]
    BY <2>2, <2>3 DEF BinomialTypeOK
  <2> QED
    BY <2>4 DEF BinomialTypeOK
<1>2. ASSUME NEW u \in Threads PROVE DrawInv(u)'
  <2>1. CASE u = t
    <3>1. pc'[t] = "idle" /\ args \in Params \ Trivial
      BY DEF BinomialTypeOK, DrawInv
    <3>2. drawn'[t] = [consts |-> drawn[t].consts, reflect |-> saved \in High]
      BY DEF BinomialTypeOK
    <3>3. ~raced[t] => saved = args /\ drawn[t].consts = args
      BY DEF DrawInv
    <3>4. ~raced'[t] => drawn'[t] = Own'
      BY <3>2, <3>3 DEF Own
    <3>5. calls'[t] > 0 => args' \in Params
      BY DEF DrawInv
    <3> QED
      BY <2>1, <3>1, <3>4, <3>5 DEF DrawInv
  <2>2. CASE u # t
    <3>1. pc'[u] = pc[u] /\ drawn'[u] = drawn[u]
      BY <2>2 DEF BinomialTypeOK
    <3> QED
      BY <3>1 DEF DrawInv, Own, HasConstants
  <2> QED
    BY <2>1, <2>2
<1>3. CacheInv'
  <2>1. \A u \in Threads : pc[u] = "setup" => pc'[u] = "setup"
    BY DEF BinomialTypeOK
  <2> QED
    BY <2>1 DEF CacheInv, HasConstants
<1> QED
  BY <1>1, <1>2, <1>3

LEMMA BinomialStutters == ASSUME BinomialInv, UNCHANGED vars PROVE BinomialInv'
<1> USE DEF BinomialInv, vars, statics
<1>1. BinomialTypeOK'
  BY DEF BinomialTypeOK
<1>2. ASSUME NEW u \in Threads PROVE DrawInv(u)'
  BY DEF DrawInv, Own, HasConstants
<1>3. CacheInv'
  BY DEF CacheInv, HasConstants
<1> QED
  BY <1>1, <1>2, <1>3

LEMMA BinomialStep == BinomialInv /\ [Next]_vars => BinomialInv'
<1> SUFFICES ASSUME BinomialInv, [Next]_vars PROVE BinomialInv'
  OBVIOUS
<1>1. CASE NewCalculation
  BY <1>1, NewCalculationKeeps
<1>2. ASSUME NEW t \in Threads, ThreadStep(t) PROVE BinomialInv'
  BY <1>2, CallKeeps, CheckSavedKeeps, SaveParametersKeeps, SetUpKeeps, GenerateKeeps, FinisKeeps DEF ThreadStep
<1>3. CASE \E t \in Threads : Retry(t)
  BY <1>3, RetryKeeps
<1>4. CASE Done \/ UNCHANGED vars
  BY <1>4, BinomialStutters DEF Done
<1> QED
  BY <1>1, <1>2, <1>3, <1>4 DEF Next

(* The inductive invariant of plfit_rbinom under calculations that follow one
   another, each with a team of threads.                                     *)
THEOREM BinomialInvariance == Spec => []BinomialInv
BY BinomialInit, BinomialStep, PTL DEF Spec

(* The set-up that a calculation leaves behind belongs to the saved parameters. *)
THEOREM BinomialCache == Spec => []CacheCoherent
<1>1. BinomialInv => CacheCoherent
  BY DEF BinomialInv, CacheInv, HasConstants, CacheCoherent
<1> QED
  BY <1>1, BinomialInvariance, PTL

(* Only a thread that found the parameters of an unfinished set-up can draw a
   number that is not its own, or lose uniform numbers to a pass with constants
   that are not.                                                             *)
THEOREM BinomialUnraced == Spec => []UnracedDrawIsOwn
<1>1. BinomialInv => UnracedDrawIsOwn
  BY DEF BinomialInv, DrawInv, Own, UnracedDrawIsOwn
<1> QED
  BY <1>1, BinomialInvariance, PTL
----------------------------------------------------------------------------
(* The static schedule of the trials: consecutive blocks, one for each thread. *)
LEMMA ScheduleTypes ==
  ASSUME numTrials \in Nat
  PROVE  /\ numTrials \div NumThreads \in Nat
         /\ numTrials % NumThreads \in 0 .. NumThreads - 1
         /\ numTrials = NumThreads * (numTrials \div NumThreads) + (numTrials % NumThreads)
<1>1. NumThreads \in Nat \ {0} /\ numTrials \in Int
  BY PValueAssumption
<1>2. numTrials % NumThreads \in 0 .. NumThreads - 1
  BY <1>1
<1>3. numTrials \div NumThreads \in Int
  BY <1>1
<1>4. numTrials = NumThreads * (numTrials \div NumThreads) + (numTrials % NumThreads)
  BY <1>1
<1>5. numTrials \div NumThreads >= 0
  <2> DEFINE q == numTrials \div NumThreads
             r == numTrials % NumThreads
  <2>1. q \in Int /\ r \in 0 .. NumThreads - 1 /\ numTrials = NumThreads * q + r
    BY <1>2, <1>3, <1>4
  <2> HIDE DEF q, r
  <2>2. q < 0 => NumThreads * q <= -NumThreads
    BY <1>1, <2>1
  <2>3. NumThreads * q \in Int
    BY <1>1, <2>1
  <2>4. q >= 0
    BY <1>1, <2>1, <2>2, <2>3
  <2> QED
    BY <2>4 DEF q
<1> QED
  BY <1>2, <1>3, <1>4, <1>5

LEMMA BlockTypes ==
  ASSUME numTrials \in Nat, NEW t \in Nat
  PROVE  FirstTrial(t) \in Nat /\ Share(t) \in Nat
<1> DEFINE q == numTrials \div NumThreads
           r == numTrials % NumThreads
<1>1. q \in Nat /\ r \in Nat
  BY ScheduleTypes, PValueAssumption
<1>2. /\ FirstTrial(t) = t * q + (IF t < r THEN t ELSE r)
      /\ Share(t) = q + (IF t < r THEN 1 ELSE 0)
  BY DEF FirstTrial, Share
<1> HIDE DEF q, r
<1>3. t * q \in Nat
  BY <1>1
<1> QED
  BY <1>1, <1>2, <1>3

(* Each block starts where the one before it ends.                           *)
LEMMA BlocksJoin ==
  ASSUME numTrials \in Nat, NEW t \in Nat
  PROVE  FirstTrial(t) + Share(t) = FirstTrial(t + 1)
<1> DEFINE q == numTrials \div NumThreads
           r == numTrials % NumThreads
<1>1. q \in Nat /\ r \in Nat
  BY ScheduleTypes, PValueAssumption
<1>2. /\ FirstTrial(t) = t * q + (IF t < r THEN t ELSE r)
      /\ FirstTrial(t + 1) = (t + 1) * q + (IF t + 1 < r THEN t + 1 ELSE r)
      /\ Share(t) = q + (IF t < r THEN 1 ELSE 0)
  BY DEF FirstTrial, Share
<1> HIDE DEF q, r
<1>3. (t + 1) * q = t * q + q /\ t * q \in Nat
  BY <1>1
<1> DEFINE tq == t * q
<1> HIDE DEF tq
<1>4. CASE t + 1 < r
  BY <1>1, <1>2, <1>3, <1>4
<1>5. CASE t + 1 = r
  BY <1>1, <1>2, <1>3, <1>5
<1>6. CASE t + 1 > r
  BY <1>1, <1>2, <1>3, <1>6
<1> QED
  BY <1>1, <1>4, <1>5, <1>6

LEMMA BlocksOrdered ==
  ASSUME numTrials \in Nat, NEW t \in Nat, NEW u \in Nat, t <= u
  PROVE  FirstTrial(t) <= FirstTrial(u)
<1> DEFINE q == numTrials \div NumThreads
           r == numTrials % NumThreads
<1>1. q \in Nat /\ r \in Nat
  BY ScheduleTypes, PValueAssumption
<1>2. /\ FirstTrial(t) = t * q + (IF t < r THEN t ELSE r)
      /\ FirstTrial(u) = u * q + (IF u < r THEN u ELSE r)
  BY DEF FirstTrial
<1> HIDE DEF q, r
<1>3. (u - t) * q >= 0 /\ u * q = t * q + (u - t) * q
  BY <1>1
<1>4. t * q \in Nat /\ u * q \in Nat /\ t * q <= u * q
  BY <1>1, <1>3
<1> QED
  BY <1>1, <1>2, <1>4

LEMMA BlocksFill ==
  ASSUME numTrials \in Nat
  PROVE  FirstTrial(0) = 0 /\ FirstTrial(NumThreads) = numTrials
<1> DEFINE q == numTrials \div NumThreads
           r == numTrials % NumThreads
<1>1. q \in Nat /\ r \in 0 .. NumThreads - 1 /\ numTrials = NumThreads * q + r
  BY ScheduleTypes
<1>2. /\ FirstTrial(0) = 0 * q + (IF 0 < r THEN 0 ELSE r)
      /\ FirstTrial(NumThreads) = NumThreads * q + (IF NumThreads < r THEN NumThreads ELSE r)
  BY DEF FirstTrial
<1> HIDE DEF q, r
<1>3. 0 * q = 0 /\ NumThreads * q \in Int
  BY <1>1, PValueAssumption
<1> QED
  BY <1>1, <1>2, <1>3, PValueAssumption

(* Blocks are within the trials and no trial is in two of them ...           *)
LEMMA BlocksInside ==
  ASSUME numTrials \in Nat, NEW t \in Threads
  PROVE  /\ t \in Nat /\ FirstTrial(t) \in Nat /\ Share(t) \in Nat
         /\ FirstTrial(t) + Share(t) <= numTrials
         /\ TrialsOf(t) \subseteq Trials
<1>1. t \in Nat /\ NumThreads \in Nat /\ t + 1 \in Nat /\ t + 1 <= NumThreads
  BY PValueAssumption
<1>2. FirstTrial(t) \in Nat /\ Share(t) \in Nat
  BY <1>1, BlockTypes
<1>3. FirstTrial(t) + Share(t) <= numTrials
  BY <1>1, BlocksJoin, BlocksOrdered, BlocksFill
<1> QED
  BY <1>1, <1>2, <1>3 DEF TrialsOf, Trials

LEMMA BlocksApart ==
  ASSUME numTrials \in Nat, NEW t \in Threads, NEW u \in Threads, t # u
  PROVE  TrialsOf(t) \cap TrialsOf(u) = {}
<1>1. ASSUME NEW v \in Threads, NEW w \in Threads, v < w
      PROVE  TrialsOf(v) \cap TrialsOf(w) = {}
  <2>1. v \in Nat /\ w \in Nat /\ v + 1 \in Nat /\ v + 1 <= w
    BY <1>1, PValueAssumption
  <2>2. FirstTrial(v) + Share(v) <= FirstTrial(w)
    BY <2>1, BlocksJoin, BlocksOrdered
  <2>3. FirstTrial(v) \in Nat /\ Share(v) \in Nat /\ FirstTrial(w) \in Nat /\ Share(w) \in Nat
    BY <2>1, BlockTypes
  <2> QED
    BY <2>2, <2>3 DEF TrialsOf
<1>2. t < u \/ u < t
  BY PValueAssumption
<1> QED
  BY <1>1, <1>2

(* ... and every trial is in one.                                            *)
LEMMA Quotient ==
  ASSUME NEW a \in Nat, NEW n \in Nat \ {0}
  PROVE  a \div n \in Nat /\ n * (a \div n) <= a /\ a < n * (a \div n) + n
<1>1. a \in Int
  OBVIOUS
<1>2. a \div n \in Int
  BY <1>1
<1>3. a % n \in 0 .. n - 1
  BY <1>1
<1>4. a = n * (a \div n) + (a % n)
  BY <1>1
<1> DEFINE q == a \div n
           r == a % n
<1>5. q \in Int /\ r \in 0 .. n - 1 /\ a = n * q + r
  BY <1>2, <1>3, <1>4
<1> HIDE DEF q, r
<1>6. n * q \in Int
  BY <1>5
<1>7. q < 0 => n * q <= -n
  BY <1>5
<1>8. q \in Nat /\ n * q <= a /\ a < n * q + n
  BY <1>5, <1>6, <1>7
<1> QED
  BY <1>8 DEF q

LEMMA BlocksCover ==
  ASSUME numTrials \in Nat, NEW i \in Trials
  PROVE  \E t \in Threads : i \in TrialsOf(t)
<1> DEFINE q == numTrials \div NumThreads
           r == numTrials % NumThreads
<1>1. q \in Nat /\ r \in 0 .. NumThreads - 1 /\ r \in Nat /\ numTrials = NumThreads * q + r
  BY ScheduleTypes, PValueAssumption
<1>2. i \in Nat /\ i < numTrials /\ NumThreads \in Nat
  BY PValueAssumption DEF Trials
<1>3. ASSUME NEW t \in Nat
      PROVE  /\ FirstTrial(t) = t * q + (IF t < r THEN t ELSE r)
             /\ Share(t) = q + (IF t < r THEN 1 ELSE 0)
  BY DEF FirstTrial, Share
<1> HIDE DEF q, r
<1>4. CASE i < r * (q + 1)
  <2> DEFINE t == i \div (q + 1)
  <2>0. i \in Nat /\ q + 1 \in Nat \ {0}
    BY <1>1, <1>2
  <2>1. t \in Nat /\ (q + 1) * t <= i /\ i < (q + 1) * t + (q + 1)
    BY <2>0, Quotient
  <2> HIDE DEF t
  <2>2. t < r
    <3>1. t >= r => (q + 1) * t >= (q + 1) * r
      BY <1>1, <2>1
    <3>2. (q + 1) * t \in Nat /\ (q + 1) * r \in Nat /\ (q + 1) * r = r * (q + 1)
      BY <1>1, <2>1
    <3> QED
      BY <1>1, <1>2, <1>4, <2>1, <3>1, <3>2
  <2>3. t \in Threads
    BY <1>1, <2>1, <2>2, PValueAssumption
  <2>4. (q + 1) * t = t * q + t /\ t * q \in Nat
    BY <1>1, <2>1
  <2>5. FirstTrial(t) = t * q + t /\ Share(t) = q + 1
    BY <1>3, <2>1, <2>2
  <2>6. i \in TrialsOf(t)
    BY <1>1, <1>2, <2>1, <2>4, <2>5 DEF TrialsOf
  <2> QED
    BY <2>3, <2>6
<1>5. CASE i >= r * (q + 1)
  <2>1. r * (q + 1) = r * q + r /\ r * q \in Nat /\ NumThreads * q \in Nat
    BY <1>1, <1>2
  <2>2. i - (r * q + r) \in Nat /\ i - r < NumThreads * q
    BY <1>1, <1>2, <1>5, <2>1
  <2>3. q # 0
    <3>1. q = 0 => NumThreads * q = 0 /\ r * q = 0
      BY <1>1, <1>2
    <3> QED
      BY <1>1, <1>2, <2>1, <2>2, <3>1
  <2> DEFINE d == (i - (r * q + r)) \div q
  <2>4. d \in Nat /\ q * d <= i - (r * q + r) /\ i - (r * q + r) < q * d + q
    BY <1>1, <2>2, <2>3, Quotient
  <2> HIDE DEF d
  <2>5. (r + d) * q = r * q + q * d /\ q * d \in Nat
    BY <1>1, <2>4
  <2>6. r + d < NumThreads
    <3>1. r + d >= NumThreads => (r + d) * q >= NumThreads * q
      BY <1>1, <1>2, <2>4
    <3> QED
      BY <1>1, <1>2, <2>1, <2>2, <2>4, <2>5, <3>1
  <2>7. r + d \in Threads /\ r + d \in Nat /\ ~(r + d < r)
    BY <1>1, <2>4, <2>6, PValueAssumption
  <2>8. FirstTrial(r + d) = (r + d) * q + r /\ Share(r + d) = q
    BY <1>3, <1>1, <2>7
  <2>9. i \in TrialsOf(r + d)
    BY <1>1, <1>2, <2>1, <2>4, <2>5, <2>8 DEF TrialsOf
  <2> QED
    BY <2>7, <2>9
<1>6. r * (q + 1) \in Nat
  BY <1>1
<1> QED
  BY <1>2, <1>4, <1>5, <1>6
----------------------------------------------------------------------------
(* The team.  What a step leaves alone: the trials of a thread, and the count. *)
LEMMA TrialFrame ==
  ASSUME NEW u \in Threads, BinomialTypeOK, TeamTypeOK, TrialInv(u),
         numTrials' = numTrials,
         at'[u] = at[u], ys'[u] = ys[u], cur'[u] = cur[u],
         partial'[u] = partial[u], calls'[u] = calls[u],
         \A i \in TrialsOf(u) : verdict'[i] = verdict[i]
  PROVE  TrialInv(u)'
<1>1. FirstTrial(u)' = FirstTrial(u) /\ Share(u)' = Share(u) /\ TrialsOf(u)' = TrialsOf(u)
  BY DEF FirstTrial, Share, TrialsOf
<1>2. FirstTrial(u) \in Nat /\ Share(u) \in Nat /\ cur[u] \in Nat /\ calls[u] \in Nat
  BY BlocksInside DEF TeamTypeOK, BinomialTypeOK
<1>3. (u \in Counted)' <=> u \in Counted
  BY DEF Counted
<1> DEFINE Run == FirstTrial(u) .. cur[u] - 1
<1>4. Run' = Run
  BY <1>1
<1>5. CASE at[u] \in {"trials", "resample"}
  <2>1. Run \subseteq TrialsOf(u)
    <3>1. cur[u] <= FirstTrial(u) + Share(u)
      BY <1>2, <1>5 DEF TrialInv
    <3> QED
      BY <1>2, <3>1 DEF TrialsOf
  <2>2. AboveIn(Run)' = AboveIn(Run)
    BY <1>4, <2>1 DEF AboveIn
  <2>3. partial'[u] = Cardinality(AboveIn(Run))' /\ \A i \in Run' : verdict'[i] # "unset"
    BY <1>4, <1>5, <2>1, <2>2 DEF TrialInv
  <2>4. /\ (ys[u] = "held")' /\ (FirstTrial(u) <= cur[u])'
        /\ (cur[u] + calls[u] + (IF at[u] = "resample" THEN 1 ELSE 0) = FirstTrial(u) + Share(u))'
    BY <1>1, <1>5 DEF TrialInv
  <2>5. ~(u \in Counted)'
    BY <1>3, <1>5 DEF Counted
  <2> QED
    BY <1>5, <2>3, <2>4, <2>5 DEF TrialInv
<1>6. CASE at[u] \notin {"trials", "resample"}
  BY <1>1, <1>3, <1>6 DEF TrialInv
<1> QED
  BY <1>5, <1>6

LEMMA CountFrame ==
  ASSUME numTrials' = numTrials, successes' = successes, Counted' = Counted,
         \A i \in CountedTrials : verdict'[i] = verdict[i],
         successes = Cardinality(AboveIn(CountedTrials))
  PROVE  (successes = Cardinality(AboveIn(CountedTrials)))'
<1>1. Trials' = Trials /\ \A t \in Threads : TrialsOf(t)' = TrialsOf(t)
  BY DEF Trials, TrialsOf, FirstTrial, Share
<1>2. CountedTrials' = CountedTrials
  BY <1>1 DEF CountedTrials, Counted
<1>3. AboveIn(CountedTrials)' = AboveIn(CountedTrials)
  BY <1>2 DEF AboveIn
<1> QED
  BY <1>3

LEMMA TeamInit == PInit => PValueInv
<1> SUFFICES ASSUME PInit PROVE PValueInv
  OBVIOUS
<1>1. args \in Params /\ numTrials \in Nat
  BY PValueAssumption DEF PInit, InitRBinom
<1>2. BinomialInv
  <2> USE DEF PInit, InitRBinom
  <2>1. BinomialTypeOK
    <3>1. saved \in Params \cup {None}
      OBVIOUS
    <3>2. drawn \in [Threads -> [consts : Params \cup {None}, reflect : BOOLEAN]]
      BY <1>1
    <3> QED
      BY <1>1, <3>1, <3>2 DEF BinomialTypeOK
  <2>2. ASSUME NEW t \in Threads PROVE DrawInv(t)
    BY DEF DrawInv, Own
  <2>3. CacheInv
    BY DEF CacheInv, HasConstants
  <2> QED
    BY <2>1, <2>2, <2>3 DEF BinomialInv
<1>3. TeamTypeOK
  BY <1>1 DEF PInit, TeamTypeOK, Trials
<1>4. ASSUME NEW t \in Threads PROVE TrialInv(t)
  BY DEF PInit, TrialInv, Counted
<1>5. ReturnInv
  BY DEF PInit, ReturnInv, Skipped, FailureReported
<1>6. successes = Cardinality(AboveIn(CountedTrials))
  <2>1. Counted = {}
    BY DEF PInit, Counted
  <2>2. AboveIn(CountedTrials) = {}
    BY <2>1 DEF CountedTrials, AboveIn
  <2> QED
    BY <2>2, FS_EmptySet DEF PInit
<1> QED
  BY <1>1, <1>2, <1>3, <1>4, <1>5, <1>6 DEF PValueInv, TeamInv

(* The steps of the calling thread, which touch no trial.                    *)
LEMMA CallerKeeps ==
  ASSUME PValueInv, SkipPValue \/ Approximate \/ RejectPrecision \/ ExtractSmaller \/ WaitForever \/ Join
  PROVE  PValueInv'
<1>1. UNCHANGED <<rbinom, numTrials, at, ys, cur, partial, verdict, successes, retval>>
  BY DEF SkipPValue, Approximate, RejectPrecision, ExtractSmaller, WaitForever, Join, input, perThread, shared, history
<1>2. args' \in Params /\ BinomialInv'
  BY <1>1, BinomialStutters DEF PValueInv, rbinom, vars
<1>3. /\ BinomialTypeOK /\ TeamTypeOK /\ ReturnInv /\ (\A t \in Threads : TrialInv(t))
      /\ successes = Cardinality(AboveIn(CountedTrials))
  BY DEF PValueInv, TeamInv, BinomialInv
<1>4. TeamTypeOK'
  <2>1. phase' \in {"check", "parallel", "returned", "stuck"}
    BY DEF SkipPValue, Approximate, RejectPrecision, ExtractSmaller, WaitForever, Join, Return
  <2> QED
    BY <1>1, <1>3, <2>1 DEF TeamTypeOK, Trials
<1>5. ASSUME NEW u \in Threads PROVE TrialInv(u)'
  BY <1>1, <1>3, TrialFrame DEF rbinom, vars
<1>6. ReturnInv'
  <2>1. Skipped' = Skipped /\ TeamDone' = TeamDone
    BY <1>1 DEF Skipped, TeamDone
  <2>2. CASE SkipPValue \/ Approximate \/ RejectPrecision
    <3>1. phase' = "returned" /\ p' \in {"nan", "approximate", "unset"} /\ Skipped = {}
      BY <1>3, <2>2 DEF SkipPValue, Approximate, RejectPrecision, Return, ReturnInv, Skipped
    <3> QED
      BY <1>1, <1>3, <2>1, <3>1 DEF ReturnInv, FailureReported
  <2>3. CASE ExtractSmaller
    <3>1. /\ Skipped = {}
          /\ p' = "unset" /\ phase' \in {"parallel", "returned"}
      BY <1>3, <2>3 DEF ExtractSmaller, Return, ReturnInv, Skipped
    <3> QED
      BY <1>1, <1>3, <2>1, <3>1 DEF ReturnInv, FailureReported
  <2>4. CASE WaitForever
    <3>1. phase = "parallel" /\ phase' = "stuck" /\ p' = "unset"
      BY <1>3, <2>4 DEF WaitForever, ReturnInv
    <3> QED
      BY <1>1, <1>3, <2>1, <3>1 DEF ReturnInv, FailureReported
  <2>5. CASE Join
    <3>1. /\ phase' = "returned" /\ TeamDone
          /\ IF retval = "SUCCESS" THEN p' = "fraction" ELSE ret' = retval /\ p' = "unset"
      BY <2>5 DEF Join, Return
    <3>2. Skipped # {} => retval = "ENOMEM"
      BY <1>3 DEF ReturnInv
    <3> QED
      BY <1>1, <2>1, <3>1, <3>2 DEF ReturnInv, FailureReported
  <2> QED
    BY <2>2, <2>3, <2>4, <2>5
<1>7. (successes = Cardinality(AboveIn(CountedTrials)))'
  <2>1. Counted' = Counted
    BY <1>1 DEF Counted
  <2> QED
    BY <1>1, <1>3, <2>1, CountFrame
<1> QED
  BY <1>2, <1>4, <1>5, <1>6, <1>7 DEF PValueInv, TeamInv

(* What the invariant says of a thread's step to start from.                 *)
LEMMA TeamParts ==
  ASSUME PValueInv
  PROVE  /\ args \in Params /\ BinomialInv /\ BinomialTypeOK /\ TeamTypeOK /\ ReturnInv
         /\ \A t \in Threads : TrialInv(t)
         /\ successes = Cardinality(AboveIn(CountedTrials))
BY DEF PValueInv, TeamInv, BinomialInv

(* Seeding, and leaving the block, move a thread and count nothing.          *)
LEMMA SeedingKeeps ==
  ASSUME PValueInv, NEW t \in Threads, EnterSeeding(t) \/ DrawSeed(t) \/ AdvanceMaster(t)
  PROVE  PValueInv'
<1>1. /\ UNCHANGED <<rbinom, numTrials, phase, ys, cur, partial, verdict, successes, retval, p, ret>>
      /\ at[t] \in {"seed", "draw", "advance"} /\ phase = "parallel"
      /\ \E l \in {"draw", "advance", "alloc"} : at' = [at EXCEPT ![t] = l]
  BY DEF EnterSeeding, DrawSeed, AdvanceMaster, To, input, perThread, shared, history
<1>2. args' \in Params /\ BinomialInv'
  BY <1>1, BinomialStutters DEF PValueInv, rbinom, vars
<1>3. PICK l \in {"draw", "advance", "alloc"} : at' = [at EXCEPT ![t] = l]
  BY <1>1
<1>4. at'[t] = l /\ \A u \in Threads : u # t => at'[u] = at[u]
  BY <1>3, TeamParts DEF TeamTypeOK
<1>5. TeamTypeOK'
  BY <1>1, <1>3, TeamParts DEF TeamTypeOK, Trials
<1>6. ASSUME NEW u \in Threads PROVE TrialInv(u)'
  <2>1. CASE u # t
    BY <1>1, <1>4, <2>1, TeamParts, TrialFrame DEF rbinom, vars
  <2>2. CASE u = t
    <3>1. ys'[t] = "null" /\ partial'[t] = 0
      BY <1>1, TeamParts DEF TrialInv
    <3>2. ~(t \in Counted)'
      BY <1>4 DEF Counted
    <3> QED
      BY <1>4, <2>2, <3>1, <3>2 DEF TrialInv
  <2> QED
    BY <2>1, <2>2
<1>7. ReturnInv'
  <2>1. Skipped' = Skipped
    BY <1>1, <1>4 DEF Skipped
  <2>2. p = "unset"
    BY <1>1, TeamParts DEF ReturnInv
  <2> QED
    BY <1>1, <2>1, <2>2, TeamParts DEF ReturnInv, FailureReported
<1>8. (successes = Cardinality(AboveIn(CountedTrials)))'
  <2>1. Counted' = Counted
    BY <1>1, <1>4 DEF Counted
  <2> QED
    BY <1>1, <2>1, TeamParts, CountFrame
<1> QED
  BY <1>2, <1>5, <1>6, <1>7, <1>8 DEF PValueInv, TeamInv

LEMMA PassBarrierKeeps == ASSUME PValueInv, NEW t \in Threads, PassBarrier(t) PROVE PValueInv'
<1>1. /\ UNCHANGED <<rbinom, numTrials, phase, cur, partial, verdict, successes, retval, p, ret>>
      /\ at[t] = "barrier" /\ phase = "parallel"
      /\ at' = [at EXCEPT ![t] = "end"] /\ ys' = [ys EXCEPT ![t] = "freed"]
  BY DEF PassBarrier, To, input, perThread, shared, history
<1>2. args' \in Params /\ BinomialInv'
  BY <1>1, BinomialStutters DEF PValueInv, rbinom, vars
<1>3. /\ at'[t] = "end" /\ ys'[t] = "freed"
      /\ \A u \in Threads : u # t => at'[u] = at[u] /\ ys'[u] = ys[u]
  BY <1>1, TeamParts DEF TeamTypeOK
<1>4. TeamTypeOK'
  BY <1>1, TeamParts DEF TeamTypeOK, Trials
<1>5. Counted' = Counted /\ Skipped' = Skipped
  BY <1>1, <1>3 DEF Counted, Skipped
<1>6. ASSUME NEW u \in Threads PROVE TrialInv(u)'
  <2>1. CASE u # t
    BY <1>1, <1>3, <2>1, TeamParts, TrialFrame DEF rbinom, vars
  <2>2. CASE u = t
    <3>1. TrialsOf(t)' = TrialsOf(t) /\ t \in Counted
      BY <1>1 DEF TrialsOf, FirstTrial, Share, Counted
    <3>2. \A i \in TrialsOf(t)' : verdict'[i] # "unset"
      BY <1>1, <3>1, TeamParts DEF TrialInv
    <3> QED
      BY <1>3, <2>2, <3>2 DEF TrialInv
  <2> QED
    BY <2>1, <2>2
<1>7. ReturnInv'
  <2>1. p = "unset"
    BY <1>1, TeamParts DEF ReturnInv
  <2> QED
    BY <1>1, <1>5, <2>1, TeamParts DEF ReturnInv, FailureReported
<1>8. (successes = Cardinality(AboveIn(CountedTrials)))'
  BY <1>1, <1>5, TeamParts, CountFrame
<1> QED
  BY <1>2, <1>4, <1>6, <1>7, <1>8 DEF PValueInv, TeamInv

(* A thread with a buffer starts at its first trial; one without is skipped,
   and the shared return code says so.                                       *)
LEMMA AllocateSampleKeeps == ASSUME PValueInv, NEW t \in Threads, AllocateSample(t) PROVE PValueInv'
<1>1. /\ UNCHANGED <<args, rounds, pc, statics, drawn, raced, retried, numTrials, phase, partial, verdict, successes, p, ret>>
      /\ at[t] = "alloc" /\ phase = "parallel"
  BY DEF AllocateSample, input, history
<1>2. \/ /\ at' = [at EXCEPT ![t] = "trials"] /\ ys' = [ys EXCEPT ![t] = "held"]
         /\ cur' = [cur EXCEPT ![t] = FirstTrial(t)] /\ calls' = [calls EXCEPT ![t] = Share(t)]
         /\ retval' = retval
      \/ /\ at' = [at EXCEPT ![t] = "end"] /\ retval' = "ENOMEM" /\ UNCHANGED <<ys, cur, calls>>
  BY DEF AllocateSample, To
<1>3. FirstTrial(t) \in Nat /\ Share(t) \in Nat
  BY TeamParts, BlocksInside DEF TeamTypeOK
<1>4. calls' \in [Threads -> Nat] /\ \A u \in Threads : u # t => calls'[u] = calls[u]
  BY <1>2, <1>3, TeamParts DEF BinomialTypeOK
<1>5. BinomialInv' /\ args' \in Params
  <2>1. BinomialTypeOK'
    BY <1>1, <1>4, TeamParts DEF BinomialTypeOK, statics
  <2>2. ASSUME NEW u \in Threads PROVE DrawInv(u)'
    BY <1>1, TeamParts DEF BinomialInv, DrawInv, HasConstants, Own, statics
  <2>3. CacheInv'
    BY <1>1, TeamParts DEF BinomialInv, CacheInv, HasConstants, statics
  <2> QED
    BY <1>1, <2>1, <2>2, <2>3, TeamParts DEF BinomialInv
<1>6. TeamTypeOK'
  <2>1. /\ at' \in [Threads -> {"seed", "draw", "advance", "alloc", "trials", "resample", "barrier", "end"}]
        /\ ys' \in [Threads -> {"null", "held", "freed"}]
    BY <1>2, TeamParts DEF TeamTypeOK
  <2>2. cur' \in [Threads -> Nat]
    BY <1>2, <1>3, TeamParts DEF TeamTypeOK
  <2>3. retval' \in {"SUCCESS", "ENOMEM"}
    BY <1>2, TeamParts DEF TeamTypeOK
  <2> QED
    BY <1>1, <2>1, <2>2, <2>3, TeamParts DEF TeamTypeOK, Trials
<1>7. \A u \in Threads : u # t => at'[u] = at[u] /\ ys'[u] = ys[u] /\ cur'[u] = cur[u]
  BY <1>2, TeamParts DEF TeamTypeOK
<1>8. ys[t] = "null" /\ partial[t] = 0 /\ p = "unset"
  BY <1>1, TeamParts DEF TrialInv, ReturnInv
<1>9. CASE retval' = retval /\ at' = [at EXCEPT ![t] = "trials"] /\ ys' = [ys EXCEPT ![t] = "held"]
           /\ cur' = [cur EXCEPT ![t] = FirstTrial(t)] /\ calls' = [calls EXCEPT ![t] = Share(t)]
  <2>1. /\ at'[t] = "trials" /\ ys'[t] = "held" /\ cur'[t] = FirstTrial(t) /\ calls'[t] = Share(t)
        /\ FirstTrial(t)' = FirstTrial(t) /\ Share(t)' = Share(t)
    BY <1>1, <1>9, TeamParts DEF TeamTypeOK, BinomialTypeOK, FirstTrial, Share
  <2>2. Counted' = Counted /\ Skipped' = Skipped
    BY <1>1, <1>7, <2>1 DEF Counted, Skipped
  <2>3. TrialInv(t)'
    <3>1. (FirstTrial(t) .. cur[t] - 1)' = {}
      BY <1>3, <2>1
    <3>2. Cardinality(AboveIn(FirstTrial(t) .. cur[t] - 1))' = 0
      BY <3>1, FS_EmptySet DEF AboveIn
    <3>3. ~(t \in Counted)'
      BY <2>1 DEF Counted
    <3>4. partial'[t] = 0
      BY <1>1, <1>8
    <3>5. (FirstTrial(t) <= cur[t] /\ cur[t] + calls[t] + 0 = FirstTrial(t) + Share(t))'
      BY <1>3, <2>1
    <3> QED
      BY <2>1, <3>1, <3>2, <3>3, <3>4, <3>5 DEF TrialInv
  <2>4. \A u \in Threads : TrialInv(u)'
    BY <1>1, <1>4, <1>7, <2>3, TeamParts, TrialFrame
  <2>5. ReturnInv'
    BY <1>1, <1>8, <1>9, <2>2, TeamParts DEF ReturnInv, FailureReported
  <2>6. (successes = Cardinality(AboveIn(CountedTrials)))'
    BY <1>1, <2>2, TeamParts, CountFrame
  <2> QED
    BY <1>5, <1>6, <2>4, <2>5, <2>6 DEF PValueInv, TeamInv
<1>10. CASE at' = [at EXCEPT ![t] = "end"] /\ retval' = "ENOMEM" /\ UNCHANGED <<ys, cur, calls>>
  <2>1. at'[t] = "end" /\ ys'[t] = "null"
    BY <1>8, <1>10, TeamParts DEF TeamTypeOK
  <2>2. Counted' = Counted
    BY <1>1, <1>7, <1>8, <2>1 DEF Counted
  <2>3. TrialInv(t)'
    BY <2>1 DEF TrialInv, Counted
  <2>4. \A u \in Threads : TrialInv(u)'
    BY <1>1, <1>4, <1>7, <2>3, TeamParts, TrialFrame
  <2>5. ReturnInv'
    BY <1>1, <1>8, <1>10 DEF ReturnInv, FailureReported
  <2>6. (successes = Cardinality(AboveIn(CountedTrials)))'
    BY <1>1, <2>2, TeamParts, CountFrame
  <2> QED
    BY <1>5, <1>6, <2>4, <2>5, <2>6 DEF PValueInv, TeamInv
<1> QED
  BY <1>2, <1>9, <1>10

(* A trial begins by calling plfit_rbinom, whose steps are the lemmas above.  *)
LEMMA ResampleKeeps == ASSUME PValueInv, NEW t \in Threads, Resample(t) PROVE PValueInv'
<1>1. /\ UNCHANGED <<args, numTrials, phase, ys, cur, partial, verdict, successes, retval, p, ret>>
      /\ at[t] = "trials" /\ phase = "parallel"
      /\ at' = [at EXCEPT ![t] = "resample"] /\ Call(t)
  BY DEF Resample, Call, To, input, shared, history
<1>2. args' \in Params /\ BinomialInv'
  BY <1>1, TeamParts, CallKeeps
<1>3. calls[t] > 0 /\ calls' = [calls EXCEPT ![t] = calls[t] - 1]
  BY <1>1 DEF Call
<1>4. /\ at'[t] = "resample" /\ \A u \in Threads : u # t => at'[u] = at[u]
      /\ calls'[t] = calls[t] - 1 /\ \A u \in Threads : u # t => calls'[u] = calls[u]
  BY <1>1, <1>3, TeamParts DEF TeamTypeOK, BinomialTypeOK
<1>5. TeamTypeOK'
  BY <1>1, TeamParts DEF TeamTypeOK, Trials
<1>6. Counted' = Counted /\ Skipped' = Skipped
  BY <1>1, <1>4 DEF Counted, Skipped
<1>7. TrialInv(t)'
  <2>1. /\ ys[t] = "held" /\ FirstTrial(t) <= cur[t]
        /\ cur[t] + calls[t] + 0 = FirstTrial(t) + Share(t)
        /\ \A i \in FirstTrial(t) .. cur[t] - 1 : verdict[i] # "unset"
        /\ partial[t] = Cardinality(AboveIn(FirstTrial(t) .. cur[t] - 1))
    BY <1>1, TeamParts DEF TrialInv
  <2>2. FirstTrial(t)' = FirstTrial(t) /\ Share(t)' = Share(t)
    BY <1>1 DEF FirstTrial, Share
  <2>3. (cur[t] + calls[t] + 1 = FirstTrial(t) + Share(t))'
    <3>1. cur[t] \in Nat /\ calls[t] \in Nat /\ FirstTrial(t) \in Nat /\ Share(t) \in Nat
      BY TeamParts, BlocksInside DEF TeamTypeOK, BinomialTypeOK
    <3>2. cur[t] + calls[t] + 0 = FirstTrial(t) + Share(t)
      BY <2>1
    <3>3. cur'[t] = cur[t] /\ calls'[t] = calls[t] - 1
      BY <1>1, <1>4
    <3> QED
      BY <2>2, <3>1, <3>2, <3>3
  <2>4. AboveIn(FirstTrial(t) .. cur[t] - 1)' = AboveIn(FirstTrial(t) .. cur[t] - 1)
    BY <1>1, <2>2 DEF AboveIn
  <2>5. ~(t \in Counted)'
    BY <1>4 DEF Counted
  <2>6. (/\ ys[t] = "held" /\ FirstTrial(t) <= cur[t]
         /\ \A i \in FirstTrial(t) .. cur[t] - 1 : verdict[i] # "unset"
         /\ partial[t] = Cardinality(AboveIn(FirstTrial(t) .. cur[t] - 1)))'
    BY <1>1, <2>1, <2>2, <2>4
  <2> QED
    BY <1>4, <2>3, <2>5, <2>6 DEF TrialInv
<1>8. \A u \in Threads : TrialInv(u)'
  BY <1>1, <1>4, <1>7, TeamParts, TrialFrame
<1>9. ReturnInv'
  <2>1. p = "unset"
    BY <1>1, TeamParts DEF ReturnInv
  <2> QED
    BY <1>1, <1>6, <2>1, TeamParts DEF ReturnInv, FailureReported
<1>10. (successes = Cardinality(AboveIn(CountedTrials)))'
  BY <1>1, <1>6, TeamParts, CountFrame
<1> QED
  BY <1>2, <1>5, <1>8, <1>9, <1>10 DEF PValueInv, TeamInv

LEMMA DrawBinomialKeeps == ASSUME PValueInv, NEW t \in Threads, DrawBinomial(t) PROVE PValueInv'
<1>1. /\ UNCHANGED <<args, calls, numTrials, phase, at, ys, cur, partial, verdict, successes, retval, p, ret>>
      /\ CheckSaved(t) \/ SaveParameters(t) \/ SetUp(t) \/ Generate(t) \/ Retry(t) \/ Finis(t)
  BY DEF DrawBinomial, CheckSaved, SaveParameters, SetUp, Generate, Retry, Finis, input, perThread, shared, history
<1>2. args' \in Params /\ BinomialInv'
  BY <1>1, TeamParts, CheckSavedKeeps, SaveParametersKeeps, SetUpKeeps, GenerateKeeps, RetryKeeps, FinisKeeps
<1>3. TeamTypeOK'
  BY <1>1, TeamParts DEF TeamTypeOK, Trials
<1>4. Counted' = Counted /\ Skipped' = Skipped /\ TeamDone' = TeamDone
  BY <1>1 DEF Counted, Skipped, TeamDone
<1>5. \A u \in Threads : TrialInv(u)'
  BY <1>1, TeamParts, TrialFrame
<1>6. ReturnInv'
  BY <1>1, <1>4, TeamParts DEF ReturnInv, FailureReported
<1>7. (successes = Cardinality(AboveIn(CountedTrials)))'
  BY <1>1, <1>4, TeamParts, CountFrame
<1> QED
  BY <1>2, <1>3, <1>5, <1>6, <1>7 DEF PValueInv, TeamInv

(* The verdict of a trial goes to a place of the thread's own block, and to its
   own count.                                                                *)
LEMMA FitTrialKeeps == ASSUME PValueInv, NEW t \in Threads, FitTrial(t) PROVE PValueInv'
<1>1. /\ UNCHANGED <<rbinom, numTrials, phase, ys, successes, retval, p, ret>>
      /\ at[t] = "resample" /\ at' = [at EXCEPT ![t] = "trials"]
      /\ cur' = [cur EXCEPT ![t] = cur[t] + 1]
  BY DEF FitTrial, To, input, shared
<1>2. PICK v \in {"above", "below"} :
        /\ verdict' = [verdict EXCEPT ![cur[t]] = v]
        /\ partial' = [partial EXCEPT ![t] = IF v = "above" THEN partial[t] + 1 ELSE partial[t]]
  BY DEF FitTrial
<1>3. args' \in Params /\ BinomialInv'
  BY <1>1, BinomialStutters DEF PValueInv, rbinom, vars
<1>4. UNCHANGED calls
  BY <1>1 DEF rbinom, vars
<1>5. /\ ys[t] = "held" /\ FirstTrial(t) <= cur[t]
      /\ cur[t] + calls[t] + 1 = FirstTrial(t) + Share(t)
      /\ \A i \in FirstTrial(t) .. cur[t] - 1 : verdict[i] # "unset"
      /\ partial[t] = Cardinality(AboveIn(FirstTrial(t) .. cur[t] - 1))
  BY <1>1, TeamParts DEF TrialInv
<1>6. /\ cur[t] \in Nat /\ calls[t] \in Nat /\ partial[t] \in Nat
      /\ FirstTrial(t) \in Nat /\ Share(t) \in Nat /\ TrialsOf(t) \subseteq Trials
  BY TeamParts, BlocksInside DEF TeamTypeOK, BinomialTypeOK
<1>7. cur[t] \in TrialsOf(t) /\ cur[t] \in Trials
  BY <1>5, <1>6 DEF TrialsOf
<1>8. /\ at'[t] = "trials" /\ cur'[t] = cur[t] + 1
      /\ partial'[t] = IF v = "above" THEN partial[t] + 1 ELSE partial[t]
      /\ \A u \in Threads : u # t => at'[u] = at[u] /\ cur'[u] = cur[u] /\ partial'[u] = partial[u]
  BY <1>1, <1>2, TeamParts DEF TeamTypeOK
<1>9. verdict'[cur[t]] = v /\ \A i \in Trials : i # cur[t] => verdict'[i] = verdict[i]
  BY <1>2, <1>7, TeamParts DEF TeamTypeOK
<1>10. TeamTypeOK'
  <2>1. verdict' \in [Trials -> {"unset", "above", "below"}]
    BY <1>2, TeamParts DEF TeamTypeOK
  <2>2. at' \in [Threads -> {"seed", "draw", "advance", "alloc", "trials", "resample", "barrier", "end"}]
    BY <1>1, TeamParts DEF TeamTypeOK
  <2>3. cur' \in [Threads -> Nat]
    BY <1>1, <1>6, TeamParts DEF TeamTypeOK
  <2>4. partial' \in [Threads -> Nat]
    BY <1>2, <1>6, TeamParts DEF TeamTypeOK
  <2> QED
    BY <1>1, <2>1, <2>2, <2>3, <2>4, TeamParts DEF TeamTypeOK, Trials
<1>11. Counted' = Counted /\ Skipped' = Skipped /\ t \notin Counted
  BY <1>1, <1>8 DEF Counted, Skipped
<1>12. ASSUME NEW u \in Threads, u # t PROVE TrialInv(u)'
  <2>1. \A i \in TrialsOf(u) : i \in Trials /\ i # cur[t]
    BY <1>7, <1>12, TeamParts, BlocksApart, BlocksInside DEF TeamTypeOK
  <2> QED
    BY <1>1, <1>4, <1>8, <1>9, <1>12, <2>1, TeamParts, TrialFrame
<1>13. TrialInv(t)'
  <2> DEFINE Run == FirstTrial(t) .. cur[t] - 1
  <2>1. FirstTrial(t)' = FirstTrial(t) /\ Share(t)' = Share(t)
    BY <1>1 DEF FirstTrial, Share
  <2>2. Run' = Run \cup {cur[t]} /\ cur[t] \notin Run /\ Run \subseteq Trials
    <3>1. (FirstTrial(t) .. cur[t] - 1)' = FirstTrial(t) .. cur[t]
      BY <1>6, <1>8, <2>1
    <3>2. Run \subseteq TrialsOf(t)
      BY <1>5, <1>6 DEF TrialsOf
    <3>3. Run \subseteq Trials
      BY <1>6, <3>2
    <3>4. FirstTrial(t) .. cur[t] = Run \cup {cur[t]} /\ cur[t] \notin Run
      BY <1>5, <1>6
    <3> QED
      BY <3>1, <3>3, <3>4
  <2>3. IsFiniteSet(AboveIn(Run)) /\ cur[t] \notin AboveIn(Run)
    <3>1. IsFiniteSet(Run)
      BY <1>6, FS_Interval
    <3>2. AboveIn(Run) \in SUBSET Run
      BY DEF AboveIn
    <3> QED
      BY <2>2, <3>1, <3>2, FS_Subset
  <2>4. AboveIn(Run)' = IF v = "above" THEN AboveIn(Run) \cup {cur[t]} ELSE AboveIn(Run)
    <3>1. \A i \in Run : verdict'[i] = verdict[i]
      BY <1>9, <2>2
    <3>2. AboveIn(Run)' = {i \in Run \cup {cur[t]} : verdict'[i] = "above"}
      BY <2>2 DEF AboveIn
    <3>3. AboveIn(Run) = {i \in Run : verdict[i] = "above"}
      BY DEF AboveIn
    <3> HIDE DEF Run
    <3> QED
      BY <1>9, <3>1, <3>2, <3>3
  <2>5. partial'[t] = Cardinality(AboveIn(Run))'
    <3>1. Cardinality(AboveIn(Run) \cup {cur[t]}) = Cardinality(AboveIn(Run)) + 1
      BY <2>3, FS_AddElement
    <3> QED
      BY <1>5, <1>8, <2>4, <3>1
  <2>6. \A i \in Run' : verdict'[i] # "unset"
    BY <1>5, <1>9, <2>2
  <2>7. (ys[t] = "held" /\ FirstTrial(t) <= cur[t] /\ cur[t] + calls[t] + 0 = FirstTrial(t) + Share(t))'
    BY <1>1, <1>4, <1>5, <1>6, <1>8, <2>1
  <2>8. ~(t \in Counted)'
    BY <1>8 DEF Counted
  <2> QED
    BY <1>8, <2>5, <2>6, <2>7, <2>8 DEF TrialInv
<1>14. ReturnInv'
  <2>1. p # "fraction" /\ phase # "check"
    BY <1>1, TeamParts DEF ReturnInv, TeamDone
  <2> QED
    BY <1>1, <1>11, <2>1, TeamParts DEF ReturnInv, FailureReported
<1>15. (successes = Cardinality(AboveIn(CountedTrials)))'
  <2>1. \A i \in CountedTrials : i \in Trials /\ i # cur[t]
    BY <1>7, <1>11, TeamParts, BlocksApart DEF CountedTrials, TeamTypeOK, Counted
  <2> QED
    BY <1>1, <1>9, <1>11, <2>1, TeamParts, CountFrame
<1> QED
  BY <1>3, <1>10, <1>12, <1>13, <1>14, <1>15 DEF PValueInv, TeamInv

(* A thread that is through adds the count of its whole block, which no other
   thread has added.                                                         *)
LEMMA ReduceKeeps == ASSUME PValueInv, NEW t \in Threads, Reduce(t) PROVE PValueInv'
<1>1. /\ UNCHANGED <<rbinom, numTrials, phase, ys, cur, partial, verdict, retval, p, ret>>
      /\ at[t] = "trials" /\ phase = "parallel" /\ at' = [at EXCEPT ![t] = "barrier"]
      /\ cur[t] >= FirstTrial(t) + Share(t) /\ successes' = successes + partial[t]
  BY DEF Reduce, To, input, history
<1>2. args' \in Params /\ BinomialInv'
  BY <1>1, BinomialStutters DEF PValueInv, rbinom, vars
<1>3. at'[t] = "barrier" /\ \A u \in Threads : u # t => at'[u] = at[u]
  BY <1>1, TeamParts DEF TeamTypeOK
<1>4. /\ ys[t] = "held"
      /\ cur[t] + calls[t] + 0 = FirstTrial(t) + Share(t)
      /\ \A i \in FirstTrial(t) .. cur[t] - 1 : verdict[i] # "unset"
      /\ partial[t] = Cardinality(AboveIn(FirstTrial(t) .. cur[t] - 1))
  BY <1>1, TeamParts DEF TrialInv
<1>5. /\ cur[t] \in Nat /\ calls[t] \in Nat /\ partial[t] \in Nat /\ successes \in Nat
      /\ FirstTrial(t) \in Nat /\ Share(t) \in Nat /\ TrialsOf(t) \subseteq Trials
  <2>1. TeamTypeOK /\ BinomialTypeOK
    BY TeamParts
  <2>2. /\ cur[t] \in Nat /\ calls[t] \in Nat /\ partial[t] \in Nat
        /\ successes \in Nat /\ numTrials \in Nat
    BY <2>1 DEF TeamTypeOK, BinomialTypeOK
  <2> QED
    BY <2>2, BlocksInside
<1>6. FirstTrial(t) .. cur[t] - 1 = TrialsOf(t)
  <2>1. cur[t] >= FirstTrial(t) + Share(t)
    BY <1>1
  <2>2. cur[t] + calls[t] + 0 = FirstTrial(t) + Share(t)
    BY <1>4
  <2>3. cur[t] \in Nat /\ calls[t] \in Nat /\ FirstTrial(t) \in Nat /\ Share(t) \in Nat
    BY <1>5
  <2>4. cur[t] - 1 = FirstTrial(t) + Share(t) - 1
    BY <2>1, <2>2, <2>3
  <2> QED
    BY <2>4 DEF TrialsOf
<1>7. Trials' = Trials /\ \A u \in Threads : TrialsOf(u)' = TrialsOf(u)
  BY <1>1 DEF Trials, TrialsOf, FirstTrial, Share
<1>8. Counted' = Counted \cup {t} /\ t \notin Counted /\ Counted \subseteq Threads /\ Skipped' = Skipped
  BY <1>1, <1>3 DEF Counted, Skipped
<1>9. TeamTypeOK'
  <2>1. at' \in [Threads -> {"seed", "draw", "advance", "alloc", "trials", "resample", "barrier", "end"}]
    BY <1>1, TeamParts DEF TeamTypeOK
  <2>2. successes' \in Nat
    BY <1>1, <1>5
  <2> QED
    BY <1>1, <1>7, <2>1, <2>2, TeamParts DEF TeamTypeOK
<1>10. ASSUME NEW u \in Threads PROVE TrialInv(u)'
  <2>1. CASE u # t
    BY <1>1, <1>3, <2>1, TeamParts, TrialFrame DEF rbinom, vars
  <2>2. CASE u = t
    <3>1. \A i \in TrialsOf(t)' : verdict'[i] # "unset"
      BY <1>1, <1>4, <1>6, <1>7
    <3> QED
      BY <1>1, <1>3, <1>4, <2>2, <3>1 DEF TrialInv
  <2> QED
    BY <2>1, <2>2
<1>11. ReturnInv'
  <2>1. p = "unset"
    BY <1>1, TeamParts DEF ReturnInv
  <2> QED
    BY <1>1, <1>8, <2>1, TeamParts DEF ReturnInv, FailureReported
<1>12. (successes = Cardinality(AboveIn(CountedTrials)))'
  <2> DEFINE Old == AboveIn(CountedTrials)
             Own_t == AboveIn(TrialsOf(t))
  <2>1. CountedTrials' = CountedTrials \cup TrialsOf(t)
    <3>1. CountedTrials' = {i \in Trials : \E u \in Counted \cup {t} : i \in TrialsOf(u)}
      BY <1>7, <1>8 DEF CountedTrials
    <3> QED
      BY <1>5, <3>1 DEF CountedTrials
  <2>2. AboveIn(CountedTrials)' = Old \cup Own_t
    BY <1>1, <2>1 DEF AboveIn
  <2>3. Old \cap Own_t = {}
    <3>1. \A u \in Counted : TrialsOf(u) \cap TrialsOf(t) = {}
      BY <1>8, TeamParts, BlocksApart DEF TeamTypeOK
    <3> QED
      BY <3>1 DEF CountedTrials, AboveIn
  <2>4. IsFiniteSet(Trials) /\ Old \in SUBSET Trials /\ Own_t \in SUBSET Trials
    <3>1. numTrials - 1 \in Int
      BY TeamParts DEF TeamTypeOK
    <3>2. IsFiniteSet(Trials)
      BY <3>1, FS_Interval DEF Trials
    <3>3. Old \subseteq Trials
      BY DEF CountedTrials, AboveIn
    <3>4. Own_t \subseteq Trials
      BY <1>5 DEF AboveIn
    <3> QED
      BY <3>2, <3>3, <3>4
  <2>5. IsFiniteSet(Old) /\ IsFiniteSet(Own_t)
    BY <2>4, FS_Subset
  <2>6. Cardinality(Old \cup Own_t) = Cardinality(Old) + Cardinality(Own_t)
    <3>1. Cardinality(Old \cup Own_t) = Cardinality(Old) + Cardinality(Own_t) - Cardinality(Old \cap Own_t)
      BY <2>5, FS_Union
    <3>2. Cardinality(Old) \in Nat /\ Cardinality(Own_t) \in Nat /\ Cardinality(Old \cap Own_t) = 0
      BY <2>3, <2>5, FS_CardinalityType, FS_EmptySet
    <3> QED
      BY <3>1, <3>2
  <2>7. successes = Cardinality(Old) /\ partial[t] = Cardinality(Own_t)
    BY <1>4, <1>6, TeamParts
  <2> QED
    BY <1>1, <2>2, <2>6, <2>7
<1> QED
  BY <1>2, <1>9, <1>10, <1>11, <1>12 DEF PValueInv, TeamInv

LEMMA TeamStutters == ASSUME PValueInv, UNCHANGED pVars PROVE PValueInv'
<1>1. UNCHANGED <<rbinom, numTrials, phase, at, ys, cur, partial, verdict, successes, retval, p, ret>>
  BY DEF pVars, input, perThread, shared, history
<1>2. args' \in Params /\ BinomialInv'
  BY <1>1, BinomialStutters DEF PValueInv, rbinom, vars
<1>3. TeamTypeOK'
  BY <1>1, TeamParts DEF TeamTypeOK, Trials
<1>4. Counted' = Counted /\ Skipped' = Skipped /\ TeamDone' = TeamDone
  BY <1>1 DEF Counted, Skipped, TeamDone
<1>5. \A u \in Threads : TrialInv(u)'
  BY <1>1, TeamParts, TrialFrame DEF rbinom, vars
<1>6. ReturnInv'
  BY <1>1, <1>4, TeamParts DEF ReturnInv, FailureReported
<1>7. (successes = Cardinality(AboveIn(CountedTrials)))'
  BY <1>1, <1>4, TeamParts, CountFrame
<1> QED
  BY <1>2, <1>3, <1>5, <1>6, <1>7 DEF PValueInv, TeamInv

LEMMA TeamStepKeeps == ASSUME PValueInv, NEW t \in Threads, TeamStep(t) PROVE PValueInv'
BY SeedingKeeps, AllocateSampleKeeps, ResampleKeeps, DrawBinomialKeeps, FitTrialKeeps, ReduceKeeps, PassBarrierKeeps
   DEF TeamStep

LEMMA PStep == PValueInv /\ [PNext]_pVars => PValueInv'
<1> SUFFICES ASSUME PValueInv, [PNext]_pVars PROVE PValueInv'
  OBVIOUS
<1>1. CASE SkipPValue \/ Approximate \/ RejectPrecision \/ ExtractSmaller \/ WaitForever \/ Join
  BY <1>1, CallerKeeps
<1>2. ASSUME NEW t \in Threads, TeamStep(t) PROVE PValueInv'
  BY <1>2, TeamStepKeeps
<1>3. CASE PReturned \/ UNCHANGED pVars
  BY <1>3, TeamStutters DEF PReturned
<1> QED
  BY <1>1, <1>2, <1>3 DEF PNext

(* The inductive invariant of a p-value calculation.                         *)
THEOREM PValueInvariance == PSpec => []PValueInv
BY TeamInit, PStep, PTL DEF PSpec

(* The set-up that a p-value calculation leaves to the next one.             *)
THEOREM PValueCache == PSpec => []CacheCoherent
<1>1. PValueInv => CacheCoherent
  BY DEF PValueInv, BinomialInv, CacheInv, HasConstants, CacheCoherent
<1> QED
  BY <1>1, PValueInvariance, PTL

(* The binomial numbers of the trials, whatever the threads' interleaving.   *)
THEOREM PValueUnraced == PSpec => []UnracedDrawIsOwn
<1>1. PValueInv => UnracedDrawIsOwn
  BY DEF PValueInv, BinomialInv, DrawInv, Own, UnracedDrawIsOwn
<1> QED
  BY <1>1, PValueInvariance, PTL

(* With a p-value every trial has been counted once.                         *)
THEOREM PValueFraction == PSpec => []FractionIsExact
<1>1. ASSUME PValueInv PROVE FractionIsExact
  <2> SUFFICES ASSUME p = "fraction" PROVE FractionIsExact
    BY DEF FractionIsExact
  <2>1. /\ numTrials \in Nat /\ (\A t \in Threads : TrialInv(t))
        /\ successes = Cardinality(AboveIn(CountedTrials))
    BY <1>1, TeamParts DEF TeamTypeOK
  <2>2. Counted = Threads
    <3>1. TeamDone /\ Skipped = {}
      BY <1>1, TeamParts DEF ReturnInv
    <3> QED
      BY <3>1 DEF TeamDone, Skipped, Counted
  <2>3. CountedTrials = Trials
    BY <2>1, <2>2, BlocksCover DEF CountedTrials
  <2>4. \A i \in Trials : verdict[i] # "unset"
    BY <2>1, <2>2, BlocksCover DEF TrialInv
  <2> QED
    BY <2>1, <2>3, <2>4 DEF FractionIsExact, AboveIn
<1> QED
  BY <1>1, PValueInvariance, PTL

(* A thread that could not run its trials makes the caller see an error.     *)
THEOREM PValueFailure == PSpec => []FailureReported
<1>1. PValueInv => FailureReported
  BY DEF PValueInv, TeamInv, ReturnInv
<1> QED
  BY <1>1, PValueInvariance, PTL

----------------------------------------------------------------------------
(* The order in which the threads are seeded.  Seeds are counted: a thread that
   is about to draw one finds the number of the threads that have theirs.    *)
LEMMA SeedFrame ==
  ASSUME TeamTypeOK, SeedInv, UNCHANGED <<lock, master, seed>>,
         \A t \in Threads : at'[t] = at[t] \/ (at[t] \notin Seeding /\ at'[t] \notin Seeding)
  PROVE  SeedInv'
<1>1. Seeded' = Seeded
  BY DEF Seeded
<1>2. ASSUME NEW t \in Threads
      PROVE  /\ at'[t] \in {"draw", "advance"} <=> at[t] \in {"draw", "advance"}
             /\ at'[t] = "advance" => at[t] = "advance"
  BY DEF Seeding
<1> QED
  BY <1>1, <1>2 DEF SeedInv

LEMMA ThreadsAreFinite == IsFiniteSet(Threads) /\ Cardinality(Threads) = NumThreads
<1>1. NumThreads \in Nat /\ 0 \in Int /\ NumThreads - 1 \in Int /\ Threads = 0 .. NumThreads - 1
  BY PValueAssumption
<1>2. IsFiniteSet(Threads)
  BY <1>1, FS_Interval
<1>3. Cardinality(Threads) = IF 0 > NumThreads - 1 THEN 0 ELSE (NumThreads - 1) - 0 + 1
  BY <1>1, FS_Interval
<1> QED
  BY <1>1, <1>2, <1>3

LEMMA SeedInit == PInit => SeedInv
<1> SUFFICES ASSUME PInit PROVE SeedInv
  OBVIOUS
<1>1. Seeded = {}
  BY DEF PInit, Seeded, Seeding
<1>2. \A t \in Threads : lock # t
  BY PValueAssumption DEF PInit, Nobody
<1> QED
  BY <1>1, <1>2, FS_EmptySet DEF PInit, SeedInv, Unset

LEMMA EnterSeedingSeeds == ASSUME TeamTypeOK, SeedInv, NEW t \in Threads, EnterSeeding(t) PROVE SeedInv'
<1>1. /\ at[t] = "seed" /\ at' = [at EXCEPT ![t] = "draw"] /\ lock = Nobody /\ lock' = t
      /\ UNCHANGED <<master, seed>>
  BY DEF EnterSeeding, To
<1>2. at'[t] = "draw" /\ \A u \in Threads : u # t => at'[u] = at[u]
  BY <1>1 DEF TeamTypeOK
<1>3. Seeded' = Seeded
  BY <1>1, <1>2 DEF Seeded, Seeding
<1>4. \A u \in Threads : at[u] \notin {"draw", "advance"}
  BY <1>1, PValueAssumption DEF SeedInv, Nobody
<1>5. ASSUME NEW u \in Threads
      PROVE  (lock' = u <=> at'[u] \in {"draw", "advance"}) /\ at'[u] # "advance"
  BY <1>1, <1>2, <1>4
<1> QED
  BY <1>1, <1>3, <1>5 DEF SeedInv

LEMMA DrawSeedSeeds == ASSUME TeamTypeOK, SeedInv, NEW t \in Threads, DrawSeed(t) PROVE SeedInv'
<1>1. /\ at[t] = "draw" /\ at' = [at EXCEPT ![t] = "advance"] /\ seed' = [seed EXCEPT ![t] = master]
      /\ UNCHANGED <<master, lock>>
  BY DEF DrawSeed, To, shared
<1>2. at'[t] = "advance" /\ \A u \in Threads : u # t => at'[u] = at[u]
  BY <1>1 DEF TeamTypeOK
<1>3. seed' \in [Threads -> Int] /\ seed'[t] = master /\ \A u \in Threads : u # t => seed'[u] = seed[u]
  BY <1>1 DEF SeedInv
<1>4. Seeded' = Seeded /\ t \notin Seeded /\ Seeded \subseteq Threads
  BY <1>1, <1>2 DEF Seeded, Seeding
<1>5. ASSUME NEW u \in Threads
      PROVE  /\ lock' = u <=> at'[u] \in {"draw", "advance"}
             /\ at'[u] = "advance" => seed'[u] = master'
             /\ u \in Seeded' => seed'[u] \in 0 .. master' - 1
  BY <1>1, <1>2, <1>3, <1>4 DEF SeedInv
<1>6. ASSUME NEW u \in Seeded', NEW w \in Seeded', seed'[u] = seed'[w] PROVE u = w
  BY <1>3, <1>4, <1>6 DEF SeedInv
<1> QED
  BY <1>1, <1>3, <1>4, <1>5, <1>6 DEF SeedInv

LEMMA AdvanceMasterSeeds == ASSUME TeamTypeOK, SeedInv, NEW t \in Threads, AdvanceMaster(t) PROVE SeedInv'
<1>1. /\ at[t] = "advance" /\ at' = [at EXCEPT ![t] = "alloc"] /\ master' = seed[t] + 1
      /\ lock' = Nobody /\ UNCHANGED seed
  BY DEF AdvanceMaster, To
<1>2. at'[t] = "alloc" /\ \A u \in Threads : u # t => at'[u] = at[u]
  BY <1>1 DEF TeamTypeOK
<1>3. seed[t] = master /\ master \in Nat /\ master' = master + 1
  BY <1>1 DEF SeedInv
<1>4. Seeded' = Seeded \cup {t} /\ t \notin Seeded /\ Seeded \subseteq Threads
  BY <1>1, <1>2 DEF Seeded, Seeding
<1>5. \A u \in Threads : u # t => at[u] \notin {"draw", "advance"}
  BY <1>1 DEF SeedInv
<1>6. \A u \in Seeded : seed[u] \in Int /\ 0 <= seed[u] /\ seed[u] < master
  BY <1>3, <1>4 DEF SeedInv
<1>7. ASSUME NEW u \in Threads
      PROVE  /\ lock' = u <=> at'[u] \in {"draw", "advance"}
             /\ at'[u] = "advance" => seed'[u] = master'
             /\ u \in Seeded' => seed'[u] \in 0 .. master' - 1
  <2>1. lock' # u
    BY <1>1, PValueAssumption DEF Nobody
  <2>2. at'[u] \notin {"draw", "advance"}
    BY <1>2, <1>5
  <2>3. u \in Seeded' => seed'[u] \in 0 .. master' - 1
    BY <1>1, <1>3, <1>4, <1>6
  <2> QED
    BY <2>1, <2>2, <2>3
<1>8. ASSUME NEW u \in Seeded', NEW w \in Seeded', seed'[u] = seed'[w] PROVE u = w
  <2>1. CASE u \in Seeded /\ w \in Seeded
    BY <2>1, <1>1, <1>8 DEF SeedInv
  <2>2. CASE u = t \/ w = t
    BY <2>2, <1>1, <1>3, <1>4, <1>6, <1>8
  <2> QED
    BY <2>1, <2>2, <1>4
<1>9. master' = Cardinality(Seeded')
  <2>1. IsFiniteSet(Seeded)
    <3>1. Seeded \in SUBSET Threads
      BY <1>4
    <3> QED
      BY <3>1, ThreadsAreFinite, FS_Subset
  <2>2. Cardinality(Seeded \cup {t}) = Cardinality(Seeded) + 1
    BY <2>1, <1>4, FS_AddElement
  <2> QED
    BY <2>2, <1>3, <1>4 DEF SeedInv
<1>10. master' \in Nat /\ lock' \in Threads \cup {Nobody} /\ seed' \in [Threads -> Int]
  BY <1>1, <1>3 DEF SeedInv
<1> QED
  BY <1>7, <1>8, <1>9, <1>10 DEF SeedInv

LEMMA SeedStep == ASSUME PValueInv, SeedInv, [PNext]_pVars PROVE SeedInv'
<1>1. TeamTypeOK
  BY TeamParts
<1>2. CASE \E t \in Threads : EnterSeeding(t) \/ DrawSeed(t) \/ AdvanceMaster(t)
  BY <1>1, <1>2, EnterSeedingSeeds, DrawSeedSeeds, AdvanceMasterSeeds
<1>3. ASSUME NEW t \in Threads,
             AllocateSample(t) \/ Resample(t) \/ DrawBinomial(t) \/ FitTrial(t) \/ Reduce(t) \/ PassBarrier(t)
      PROVE  SeedInv'
  <2>1. UNCHANGED <<lock, master, seed>>
    BY <1>3 DEF AllocateSample, Resample, DrawBinomial, FitTrial, Reduce, PassBarrier, perThread, shared
  <2>2. \/ at' = at
        \/ at[t] \notin Seeding /\ \E l \in {"trials", "end", "resample", "barrier"} : at' = [at EXCEPT ![t] = l]
    BY <1>3 DEF AllocateSample, Resample, DrawBinomial, FitTrial, Reduce, PassBarrier, perThread, To, Seeding
  <2>3. \A u \in Threads : at'[u] = at[u] \/ (at[u] \notin Seeding /\ at'[u] \notin Seeding)
    <3>1. CASE at' = at
      BY <3>1
    <3>2. CASE at' # at
      <4>1. PICK l \in {"trials", "end", "resample", "barrier"} : at' = [at EXCEPT ![t] = l]
        BY <2>2, <3>2
      <4>2. at'[t] = l /\ \A u \in Threads : u # t => at'[u] = at[u]
        BY <4>1, <1>1 DEF TeamTypeOK
      <4> QED
        BY <2>2, <3>2, <4>2 DEF Seeding
    <3> QED
      BY <3>1, <3>2
  <2> QED
    BY <1>1, <2>1, <2>3, SeedFrame
<1>4. CASE UNCHANGED <<lock, master, seed, at>>
  BY <1>1, <1>4, SeedFrame
<1> QED
  BY <1>2, <1>3, <1>4 DEF PNext, TeamStep, SkipPValue, Approximate, RejectPrecision, ExtractSmaller, WaitForever,
     Join, PReturned, pVars, perThread, shared

----------------------------------------------------------------------------
(* The streams.  A step that gives no verdict keeps what the trials of a thread
   have found, and a seeded thread keeps its seed.                           *)
LEMMA StreamFrame ==
  ASSUME StreamInv, UNCHANGED <<numTrials, above, verdict, fitFailed, spoiled>>,
         \A t \in Threads : DoneBy(t)' = {} \/ (DoneBy(t)' = DoneBy(t) /\ seed'[t] = seed[t])
  PROVE  StreamInv'
<1>1. Trials' = Trials /\ \A t \in Threads : FirstTrial(t)' = FirstTrial(t)
  BY DEF Trials, FirstTrial
<1>2. above' \in [Threads -> [Trials' -> {"unset", "above", "below"}]]
  BY <1>1 DEF StreamInv
<1>3. ASSUME spoiled' = {}, ~fitFailed', NEW t \in Threads, NEW i \in DoneBy(t)'
      PROVE  verdict'[i] = above'[seed'[t]][i - FirstTrial(t)']
  <2>1. i \in DoneBy(t) /\ seed'[t] = seed[t]
    BY <1>3
  <2>2. verdict[i] = above[seed[t]][i - FirstTrial(t)]
    BY <1>3, <2>1 DEF StreamInv
  <2> QED
    BY <1>1, <2>1, <2>2
<1> QED
  BY <1>2, <1>3 DEF StreamInv

LEMMA StreamInit == PInit => StreamInv
<1> SUFFICES ASSUME PInit PROVE StreamInv
  OBVIOUS
<1>1. above \in [Threads -> [Trials -> {"unset", "above", "below"}]]
  BY DEF PInit, Trials
<1>2. \A t \in Threads : DoneBy(t) = {}
  BY DEF PInit, DoneBy, Counted
<1> QED
  BY <1>1, <1>2 DEF StreamInv

(* The trial that was fitted is the next one of the thread's own stream.     *)
LEMMA FitTrialStreams ==
  ASSUME PValueInv, SeedInv, StreamInv, NEW t \in Threads, FitTrial(t)
  PROVE  StreamInv'
<1> DEFINE k == cur[t] - FirstTrial(t)
<1>1. /\ UNCHANGED <<numTrials, ys, seed>>
      /\ at[t] = "resample" /\ at' = [at EXCEPT ![t] = "trials"]
      /\ cur' = [cur EXCEPT ![t] = cur[t] + 1]
      /\ spoiled' = IF OnStream(t) THEN spoiled ELSE spoiled \cup {t}
  BY DEF FitTrial, To, input
<1>2. PICK v \in {"above", "below"} :
        /\ \/ /\ OnStream(t) => above[seed[t]][k] \in {"unset", v}
              /\ above' = IF OnStream(t) THEN [above EXCEPT ![seed[t]][k] = v] ELSE above
              /\ UNCHANGED fitFailed
           \/ fitFailed' = TRUE /\ UNCHANGED above
        /\ verdict' = [verdict EXCEPT ![cur[t]] = v]
  BY DEF FitTrial
<1>3. /\ FirstTrial(t) <= cur[t]
      /\ cur[t] + calls[t] + 1 = FirstTrial(t) + Share(t)
      /\ TeamTypeOK
  BY <1>1, TeamParts DEF TrialInv
<1>4. /\ cur[t] \in Nat /\ calls[t] \in Nat /\ numTrials \in Nat
      /\ FirstTrial(t) \in Nat /\ Share(t) \in Nat /\ FirstTrial(t) + Share(t) <= numTrials
      /\ TrialsOf(t) \subseteq Trials
  BY TeamParts, BlocksInside DEF TeamTypeOK, BinomialTypeOK
<1>5. cur[t] \in TrialsOf(t) /\ cur[t] \in Trials /\ k \in Trials
  BY <1>3, <1>4 DEF TrialsOf, Trials
<1>6. Trials' = Trials /\ \A u \in Threads : FirstTrial(u)' = FirstTrial(u) /\ TrialsOf(u)' = TrialsOf(u)
  BY <1>1 DEF Trials, FirstTrial, Share, TrialsOf
<1>7. above \in [Threads -> [Trials -> {"unset", "above", "below"}]]
  BY DEF StreamInv
<1>8. above' \in [Threads -> [Trials' -> {"unset", "above", "below"}]]
  BY <1>2, <1>6, <1>7
<1>9. verdict'[cur[t]] = v /\ \A i \in Trials : i # cur[t] => verdict'[i] = verdict[i]
  BY <1>2, <1>5, <1>3 DEF TeamTypeOK
<1>10. /\ at'[t] = "trials" /\ cur'[t] = cur[t] + 1
       /\ \A u \in Threads : u # t => at'[u] = at[u] /\ cur'[u] = cur[u]
  BY <1>1, <1>3 DEF TeamTypeOK
<1>11. DoneBy(t)' = DoneBy(t) \cup {cur[t]} /\ DoneBy(t) = FirstTrial(t) .. cur[t] - 1
  <2>1. DoneBy(t)' = FirstTrial(t)' .. cur'[t] - 1
    BY <1>10 DEF DoneBy
  <2>2. DoneBy(t) = FirstTrial(t) .. cur[t] - 1
    BY <1>1 DEF DoneBy
  <2>3. cur'[t] - 1 = cur[t] /\ FirstTrial(t)' = FirstTrial(t)
    BY <1>4, <1>6, <1>10
  <2>4. FirstTrial(t) .. cur[t] = (FirstTrial(t) .. cur[t] - 1) \cup {cur[t]}
    BY <1>3, <1>4
  <2> QED
    BY <2>1, <2>2, <2>3, <2>4
<1>12. ASSUME NEW u \in Threads, u # t
       PROVE  /\ DoneBy(u)' = DoneBy(u)
              /\ \A i \in DoneBy(u) : i \in Trials /\ i # cur[t]
              /\ DoneBy(u) # {} => u \in Seeded
  <2>1. (u \in Counted)' <=> u \in Counted
    BY <1>1, <1>10, <1>12 DEF Counted
  <2>2. DoneBy(u)' = DoneBy(u)
    BY <1>6, <1>10, <1>12, <2>1 DEF DoneBy
  <2>3. DoneBy(u) \subseteq TrialsOf(u)
    <3>1. CASE at[u] \in {"trials", "resample"}
      <4>1. cur[u] \in Nat /\ calls[u] \in Nat /\ FirstTrial(u) \in Nat /\ Share(u) \in Nat
        BY TeamParts, BlocksInside DEF TeamTypeOK, BinomialTypeOK
      <4>2. cur[u] + calls[u] + (IF at[u] = "resample" THEN 1 ELSE 0) = FirstTrial(u) + Share(u)
        BY <3>1, TeamParts DEF TrialInv
      <4>3. cur[u] <= FirstTrial(u) + Share(u)
        BY <4>1, <4>2
      <4> QED
        BY <3>1, <4>1, <4>3 DEF DoneBy, TrialsOf
    <3>2. CASE at[u] \notin {"trials", "resample"}
      BY <3>2 DEF DoneBy
    <3> QED
      BY <3>1, <3>2
  <2>4. TrialsOf(u) \subseteq Trials /\ cur[t] \notin TrialsOf(u)
    BY <1>3, <1>5, <1>12, BlocksApart, BlocksInside DEF TeamTypeOK
  <2>5. DoneBy(u) # {} => u \in Seeded
    BY DEF DoneBy, Counted, Seeded, Seeding
  <2> QED
    BY <2>2, <2>3, <2>4, <2>5
<1>13. t \in Seeded
  BY <1>1 DEF Seeded, Seeding
<1>14. ASSUME spoiled' = {}, ~fitFailed', NEW u \in Threads, NEW i \in DoneBy(u)'
       PROVE  verdict'[i] = above'[seed'[u]][i - FirstTrial(u)']
  <2>1. OnStream(t) /\ spoiled = {} /\ ~fitFailed
    BY <1>1, <1>2, <1>14
  <2>2. above' = [above EXCEPT ![seed[t]][k] = v]
    BY <1>2, <1>14, <2>1
  <2>3. seed[t] \in Threads
    <3>1. master <= NumThreads
      <4>1. Seeded \in SUBSET Threads
        BY DEF Seeded
      <4>2. Cardinality(Seeded) <= Cardinality(Threads)
        BY <4>1, ThreadsAreFinite, FS_Subset
      <4> QED
        BY <4>2, ThreadsAreFinite DEF SeedInv
    <3>2. seed[t] \in 0 .. master - 1 /\ master \in Nat
      BY <1>13 DEF SeedInv
    <3> QED
      BY <3>1, <3>2, PValueAssumption
  <2>4. CASE u = t
    <3>1. CASE i = cur[t]
      <4>1. above'[seed[t]][k] = v
        BY <2>2, <2>3, <1>5, <1>7
      <4> QED
        BY <4>1, <3>1, <2>4, <1>1, <1>6, <1>9
    <3>2. CASE i # cur[t]
      <4>1. i \in DoneBy(t) /\ i \in FirstTrial(t) .. cur[t] - 1
        BY <1>11, <1>14, <2>4, <3>2
      <4>2. i - FirstTrial(t) # k /\ i \in Trials
        BY <4>1, <1>3, <1>4 DEF Trials
      <4>3. above'[seed[t]][i - FirstTrial(t)] = above[seed[t]][i - FirstTrial(t)]
        <5>1. above'[seed[t]] = [above[seed[t]] EXCEPT ![k] = v]
          BY <2>2, <2>3, <1>7
        <5>2. i - FirstTrial(t) \in Trials
          BY <4>1, <1>3, <1>4 DEF Trials
        <5>3. above[seed[t]] \in [Trials -> {"unset", "above", "below"}]
          BY <2>3, <1>7
        <5> QED
          BY <5>1, <5>2, <5>3, <4>2
      <4>4. verdict[i] = above[seed[t]][i - FirstTrial(t)]
        BY <2>1, <4>1 DEF StreamInv
      <4> QED
        BY <4>2, <4>3, <4>4, <3>2, <2>4, <1>1, <1>6, <1>9
    <3> QED
      BY <3>1, <3>2
  <2>5. CASE u # t
    <3>1. i \in DoneBy(u) /\ i \in Trials /\ i # cur[t] /\ u \in Seeded
      BY <1>12, <1>14, <2>5
    <3>2. seed[u] # seed[t]
      BY <3>1, <1>13, <2>5 DEF SeedInv
    <3>3. above'[seed[u]] = above[seed[u]]
      BY <2>2, <3>2, <1>7
    <3>4. verdict[i] = above[seed[u]][i - FirstTrial(u)]
      BY <2>1, <3>1 DEF StreamInv
    <3> QED
      BY <3>1, <3>3, <3>4, <1>1, <1>6, <1>9
  <2> QED
    BY <2>4, <2>5
<1> QED
  BY <1>8, <1>14 DEF StreamInv

LEMMA StreamStep == ASSUME PValueInv, SeedInv, StreamInv, [PNext]_pVars PROVE StreamInv'
<1>1. TeamTypeOK
  BY TeamParts
<1>2. ASSUME NEW t \in Threads, TeamStep(t), ~FitTrial(t) PROVE StreamInv'
  <2>1. UNCHANGED <<numTrials, above, verdict, fitFailed, spoiled>>
    BY <1>2 DEF TeamStep, EnterSeeding, DrawSeed, AdvanceMaster, AllocateSample, Resample, DrawBinomial, Reduce,
                PassBarrier, input, history
  <2>2. /\ \A u \in Threads : FirstTrial(u)' = FirstTrial(u) /\ Share(u)' = Share(u) /\ TrialsOf(u)' = TrialsOf(u)
    BY <2>1 DEF FirstTrial, Share, TrialsOf
  <2>3. ASSUME NEW u \in Threads, at'[u] = at[u], ys'[u] = ys[u], cur'[u] = cur[u]
        PROVE  DoneBy(u)' = DoneBy(u)
    BY <2>2, <2>3 DEF DoneBy, Counted
  <2>4. CASE EnterSeeding(t) \/ DrawSeed(t) \/ AdvanceMaster(t)
    <3>1. /\ UNCHANGED <<ys, cur>>
          /\ at[t] \in Seeding
          /\ \E l \in {"draw", "advance", "alloc"} : at' = [at EXCEPT ![t] = l]
          /\ seed' = seed \/ seed' = [seed EXCEPT ![t] = master]
      BY <2>4 DEF EnterSeeding, DrawSeed, AdvanceMaster, To, Seeding
    <3>2. /\ at'[t] \in {"draw", "advance", "alloc"}
          /\ \A u \in Threads : u # t => at'[u] = at[u] /\ seed'[u] = seed[u]
      BY <3>1, <1>1 DEF TeamTypeOK, SeedInv
    <3>3. DoneBy(t)' = {}
      BY <3>2 DEF DoneBy, Counted
    <3> QED
      BY <2>1, <2>3, <3>1, <3>2, <3>3, StreamFrame
  <2>5. CASE AllocateSample(t)
    <3>1. /\ seed' = seed /\ at[t] = "alloc"
          /\ \/ /\ at' = [at EXCEPT ![t] = "trials"] /\ ys' = [ys EXCEPT ![t] = "held"]
                /\ cur' = [cur EXCEPT ![t] = FirstTrial(t)]
             \/ at' = [at EXCEPT ![t] = "end"] /\ UNCHANGED <<ys, cur>>
      BY <2>5 DEF AllocateSample, To
    <3>2. ASSUME NEW u \in Threads, u # t PROVE at'[u] = at[u] /\ ys'[u] = ys[u] /\ cur'[u] = cur[u]
      <4>1. at'[u] = at[u]
        BY <3>1, <3>2, <1>1 DEF TeamTypeOK
      <4>2. ys'[u] = ys[u] /\ cur'[u] = cur[u]
        BY <3>1, <3>2, <1>1 DEF TeamTypeOK
      <4> QED
        BY <4>1, <4>2
    <3>3. DoneBy(t)' = {}
      <4>1. FirstTrial(t) \in Nat
        BY <1>1, BlocksInside DEF TeamTypeOK
      <4>2. CASE at' = [at EXCEPT ![t] = "end"] /\ UNCHANGED <<ys, cur>>
        <5>1. at'[t] = "end" /\ ys'[t] = "null"
          BY <3>1, <4>2, <1>1, TeamParts DEF TeamTypeOK, TrialInv
        <5> QED
          BY <5>1 DEF DoneBy, Counted
      <4>3. CASE at' = [at EXCEPT ![t] = "trials"] /\ cur' = [cur EXCEPT ![t] = FirstTrial(t)]
        <5>1. at'[t] = "trials" /\ cur'[t] = FirstTrial(t)
          BY <4>3, <1>1 DEF TeamTypeOK
        <5>2. DoneBy(t)' = FirstTrial(t) .. FirstTrial(t) - 1
          BY <5>1, <2>2 DEF DoneBy
        <5> QED
          BY <5>2, <4>1
      <4> QED
        BY <3>1, <4>2, <4>3
    <3> QED
      BY <2>1, <2>3, <3>1, <3>2, <3>3, StreamFrame
  <2>6. CASE Resample(t) \/ DrawBinomial(t)
    <3>1. /\ UNCHANGED <<seed, cur, ys>>
          /\ at[t] \in {"trials", "resample"} /\ (at' = at \/ at' = [at EXCEPT ![t] = "resample"])
      BY <2>6 DEF Resample, DrawBinomial, To, perThread
    <3>2. at'[t] \in {"trials", "resample"} /\ \A u \in Threads : u # t => at'[u] = at[u]
      BY <3>1, <1>1 DEF TeamTypeOK
    <3>3. DoneBy(t)' = DoneBy(t)
      BY <2>2, <3>1, <3>2 DEF DoneBy
    <3> QED
      BY <2>1, <2>3, <3>1, <3>2, <3>3, StreamFrame
  <2>7. CASE Reduce(t)
    <3>1. /\ UNCHANGED <<seed, cur, ys>> /\ at[t] = "trials" /\ at' = [at EXCEPT ![t] = "barrier"]
          /\ cur[t] >= FirstTrial(t) + Share(t)
      BY <2>7 DEF Reduce, To
    <3>2. at'[t] = "barrier" /\ \A u \in Threads : u # t => at'[u] = at[u]
      BY <3>1, <1>1 DEF TeamTypeOK
    <3>3. DoneBy(t)' = TrialsOf(t)
      BY <2>2, <3>2 DEF DoneBy, Counted
    <3>4. DoneBy(t) = FirstTrial(t) .. cur[t] - 1
      BY <3>1 DEF DoneBy
    <3>5. cur[t] - 1 = FirstTrial(t) + Share(t) - 1
      <4>1. cur[t] \in Nat /\ calls[t] \in Nat /\ FirstTrial(t) \in Nat /\ Share(t) \in Nat
        BY TeamParts, BlocksInside DEF TeamTypeOK, BinomialTypeOK
      <4>2. cur[t] + calls[t] + 0 = FirstTrial(t) + Share(t)
        BY <3>1, TeamParts DEF TrialInv
      <4> QED
        BY <3>1, <4>1, <4>2
    <3>6. DoneBy(t)' = DoneBy(t)
      BY <3>3, <3>4, <3>5 DEF TrialsOf
    <3> QED
      BY <2>1, <2>3, <3>1, <3>2, <3>6, StreamFrame
  <2>8. CASE PassBarrier(t)
    <3>1. /\ UNCHANGED <<seed, cur>> /\ at[t] = "barrier"
          /\ at' = [at EXCEPT ![t] = "end"] /\ ys' = [ys EXCEPT ![t] = "freed"]
      BY <2>8 DEF PassBarrier, To
    <3>2. at'[t] = "end" /\ ys'[t] = "freed" /\ \A u \in Threads : u # t => at'[u] = at[u] /\ ys'[u] = ys[u]
      BY <3>1, <1>1 DEF TeamTypeOK
    <3>3. DoneBy(t)' = DoneBy(t)
      BY <2>2, <3>1, <3>2 DEF DoneBy, Counted
    <3> QED
      BY <2>1, <2>3, <3>1, <3>2, <3>3, StreamFrame
  <2> QED
    BY <1>2, <2>4, <2>5, <2>6, <2>7, <2>8 DEF TeamStep
<1>3. CASE UNCHANGED <<numTrials, above, verdict, fitFailed, spoiled, seed, at, ys, cur>>
  <2>1. \A u \in Threads : DoneBy(u)' = DoneBy(u)
    BY <1>3 DEF DoneBy, Counted, TrialsOf, FirstTrial, Share
  <2> QED
    BY <1>3, <2>1, StreamFrame
<1> QED
  BY <1>2, <1>3, FitTrialStreams DEF PNext, SkipPValue, Approximate, RejectPrecision, ExtractSmaller, WaitForever,
     Join, PReturned, pVars, perThread, input, history

(* Every stream is somebody's, and every thread has one.                     *)
LEMMA SeedsArePermuted ==
  ASSUME SeedInv, Seeded = Threads
  PROVE  /\ seed \in [Threads -> Threads]
         /\ \A t, u \in Threads : seed[t] = seed[u] => t = u
         /\ \A s \in Threads : \E t \in Threads : seed[t] = s
<1>1. master = NumThreads
  BY ThreadsAreFinite DEF SeedInv
<1>2. \A t \in Threads : seed[t] \in Threads
  BY <1>1, PValueAssumption DEF SeedInv
<1>3. seed \in [Threads -> Threads] /\ \A t, u \in Threads : seed[t] = seed[u] => t = u
  BY <1>2 DEF SeedInv
<1>4. seed \in Injection(Threads, Threads)
  BY <1>3 DEF Injection, IsInjective
<1>5. seed \in Surjection(Threads, Threads)
  BY <1>4, ThreadsAreFinite, FS_Injection
<1> QED
  BY <1>3, <1>5 DEF Surjection

(* For an even division, no failing fit and no shared constants the p-value does
   not depend on the order in which the threads were seeded.                 *)
LEMMA SameSuccesses ==
  ASSUME PValueInv, SeedInv, StreamInv
  PROVE  BalancedIsDeterministic
<1> SUFFICES ASSUME p = "fraction", numTrials % NumThreads = 0, ~fitFailed, spoiled = {}
             PROVE  successes = InOrderSuccesses
  BY DEF BalancedIsDeterministic, SeededIsDeterministic
<1> DEFINE A == {i \in Trials : verdict[i] = "above"}
           R == {r \in Threads \X Trials : r[2] < Share(r[1]) /\ above[r[1]][r[2]] = "above"}
           q == numTrials \div NumThreads
<1>1. numTrials \in Nat /\ TeamDone /\ Skipped = {}
  BY TeamParts DEF ReturnInv, TeamTypeOK
<1>2. Counted = Threads /\ Seeded = Threads
  BY <1>1 DEF TeamDone, Skipped, Counted, Seeded, Seeding
<1>3. successes = Cardinality(A)
  <2>1. CountedTrials = Trials
    BY <1>1, <1>2, BlocksCover DEF CountedTrials
  <2> QED
    BY <2>1, TeamParts DEF AboveIn
<1>4. /\ seed \in [Threads -> Threads]
      /\ \A t, u \in Threads : seed[t] = seed[u] => t = u
      /\ \A s \in Threads : \E t \in Threads : seed[t] = s
  BY <1>2, SeedsArePermuted
<1>5. q \in Nat /\ \A t \in Threads : Share(t) = q
  <2>1. q \in Nat
    BY <1>1, ScheduleTypes, PValueAssumption
  <2>2. ASSUME NEW t \in Threads PROVE Share(t) = q
    <3>1. t \in Nat /\ ~(t < 0)
      BY PValueAssumption
    <3> QED
      BY <2>1, <3>1 DEF Share
  <2> QED
    BY <2>1, <2>2
<1>6. \A t \in Threads : \A i \in TrialsOf(t) : verdict[i] = above[seed[t]][i - FirstTrial(t)]
  BY <1>1, <1>2 DEF StreamInv, DoneBy, TeamDone
<1>7. ASSUME NEW t \in Threads
      PROVE  /\ FirstTrial(t) \in Nat /\ FirstTrial(t) + q <= numTrials
             /\ TrialsOf(t) = FirstTrial(t) .. FirstTrial(t) + q - 1 /\ TrialsOf(t) \subseteq Trials
  <2>1. Share(t) = q
    BY <1>5
  <2>2. FirstTrial(t) \in Nat /\ FirstTrial(t) + Share(t) <= numTrials /\ TrialsOf(t) \subseteq Trials
    BY <1>1, BlocksInside
  <2> QED
    BY <2>1, <2>2 DEF TrialsOf
<1> DEFINE owner(i) == CHOOSE t \in Threads : i \in TrialsOf(t)
           f == [i \in A |-> <<seed[owner(i)], i - FirstTrial(owner(i))>>]
<1>8. ASSUME NEW i \in Trials PROVE owner(i) \in Threads /\ i \in TrialsOf(owner(i))
  BY <1>1, BlocksCover
<1>9. ASSUME NEW t \in Threads, NEW i \in TrialsOf(t) PROVE owner(i) = t
  <2>1. i \in Trials
    BY <1>7
  <2>2. owner(i) \in Threads /\ i \in TrialsOf(owner(i))
    BY <1>8, <2>1
  <2> HIDE DEF owner
  <2> QED
    BY <2>2, <1>1, BlocksApart
<1> HIDE DEF owner, q
<1>10. ASSUME NEW i \in A PROVE f[i] \in R
  <2>1. i \in Trials /\ owner(i) \in Threads /\ i \in TrialsOf(owner(i)) /\ verdict[i] = "above"
    BY <1>8
  <2>2. i - FirstTrial(owner(i)) \in 0 .. q - 1 /\ q <= numTrials
    BY <2>1, <1>1, <1>5, <1>7
  <2>3. i - FirstTrial(owner(i)) \in Trials /\ i - FirstTrial(owner(i)) < q
    BY <2>2, <1>1, <1>5 DEF Trials
  <2>4. seed[owner(i)] \in Threads /\ Share(seed[owner(i)]) = q
    BY <2>1, <1>4, <1>5
  <2>5. above[seed[owner(i)]][i - FirstTrial(owner(i))] = "above"
    BY <2>1, <1>6
  <2> QED
    BY <2>3, <2>4, <2>5
<1>11. ASSUME NEW i \in A, NEW j \in A, f[i] = f[j] PROVE i = j
  <2>1. /\ owner(i) \in Threads /\ i \in TrialsOf(owner(i))
        /\ owner(j) \in Threads /\ j \in TrialsOf(owner(j))
    BY <1>8
  <2>2. seed[owner(i)] = seed[owner(j)] /\ i - FirstTrial(owner(i)) = j - FirstTrial(owner(j))
    BY <1>11
  <2>3. owner(i) = owner(j)
    BY <2>1, <2>2, <1>4
  <2>4. i \in Trials /\ j \in Trials /\ FirstTrial(owner(i)) \in Nat
    BY <2>1, <1>7
  <2>5. i \in Int /\ j \in Int
    BY <2>4 DEF Trials
  <2> QED
    BY <2>2, <2>3, <2>4, <2>5
<1>12. ASSUME NEW r \in R PROVE \E i \in A : f[i] = r
  <2>1. /\ r[1] \in Threads /\ r[2] \in Trials /\ r = <<r[1], r[2]>>
        /\ r[2] < q /\ above[r[1]][r[2]] = "above"
    BY <1>5
  <2>2. PICK t \in Threads : seed[t] = r[1]
    BY <2>1, <1>4
  <2>3. r[2] \in Nat
    BY <2>1 DEF Trials
  <2> DEFINE i == FirstTrial(t) + r[2]
  <2>4. i \in TrialsOf(t) /\ i - FirstTrial(t) = r[2]
    BY <2>1, <2>3, <1>5, <1>7
  <2>5. i \in Trials /\ owner(i) = t /\ verdict[i] = "above"
    BY <2>1, <2>2, <2>4, <1>6, <1>7, <1>9
  <2> HIDE DEF i
  <2>6. i \in A /\ f[i] = r
    BY <2>1, <2>2, <2>4, <2>5
  <2> QED
    BY <2>6
<1>13. Cardinality(R) = Cardinality(A)
  <2>1. IsFiniteSet(A)
    <3>1. IsFiniteSet(Trials)
      <4>1. 0 \in Int /\ numTrials - 1 \in Int
        BY <1>1
      <4> QED
        BY <4>1, FS_Interval DEF Trials
    <3>2. A \in SUBSET Trials
      OBVIOUS
    <3> QED
      BY <3>1, <3>2, FS_Subset
  <2>2. f \in [A -> R]
    BY <1>10
  <2> HIDE DEF f, A, R
  <2>3. f \in Injection(A, R) /\ f \in Surjection(A, R)
    BY <2>2, <1>11, <1>12 DEF Injection, Surjection, IsInjective
  <2>4. ExistsBijection(A, R)
    BY <2>3 DEF ExistsBijection, Bijection
  <2> QED
    BY <2>1, <2>4, FS_Bijection
<1> QED
  BY <1>3, <1>13 DEF InOrderSuccesses

(* README.rst wants a seeded run to be repeatable; for an even division of the
   trials the order in which the critical section seeds the threads is no
   obstacle to that.                                                         *)
THEOREM PValueDeterministic == PSpec => []BalancedIsDeterministic
<1> DEFINE Inv == PValueInv /\ SeedInv /\ StreamInv
<1>1. PInit => Inv
  BY TeamInit, SeedInit, StreamInit
<1>2. Inv /\ [PNext]_pVars => Inv'
  BY PStep, SeedStep, StreamStep
<1>3. Inv => BalancedIsDeterministic
  BY SameSuccesses
<1> HIDE DEF Inv
<1> QED
  BY <1>1, <1>2, <1>3, PTL DEF PSpec
=============================================================================
