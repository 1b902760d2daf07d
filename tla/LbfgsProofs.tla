----------------------------- MODULE LbfgsProofs -----------------------------
(* Proofs about the minimiser behind the discrete fit, for every number of
   corrections, every length of the ring of past values and every limit.     *)
EXTENDS Lbfgs, TLAPS

(* Places in a ring of n slots.                                              *)
LEMMA RingPlace ==
  ASSUME NEW a \in Int, NEW n \in Nat \ {0}
  PROVE  /\ a % n \in 0 .. n - 1
         /\ a \div n \in Int
         /\ a = n * (a \div n) + (a % n)
<1>1. a % n \in 0 .. n - 1
  OBVIOUS
<1>2. a \div n \in Int
  OBVIOUS
<1>3. a = n * (a \div n) + (a % n)
  OBVIOUS
<1> QED
  BY <1>1, <1>2, <1>3

LEMMA RingUnique ==
  ASSUME NEW n \in Nat \ {0}, NEW q \in Int, NEW r \in 0 .. n - 1
  PROVE  (n * q + r) % n = r
<1> DEFINE a == n * q + r
           p == a \div n
           s == a % n
<1>1. a \in Int /\ s \in 0 .. n - 1 /\ p \in Int /\ a = n * p + s
  BY RingPlace
<1>2. n * q + r = n * p + s
  BY <1>1
<1> HIDE DEF p, s
<1>3. n * p \in Int /\ n * q \in Int
  BY <1>1
<1>4. ASSUME p + 1 <= q PROVE FALSE
  <2>1. n * (p + 1) <= n * q
    BY <1>1, <1>4
  <2>2. n * (p + 1) = n * p + n
    BY <1>1
  <2> QED
    BY <2>1, <2>2, <1>1, <1>2, <1>3
<1>5. ASSUME q + 1 <= p PROVE FALSE
  <2>1. n * (q + 1) <= n * p
    BY <1>1, <1>5
  <2>2. n * (q + 1) = n * q + n
    OBVIOUS
  <2> QED
    BY <2>1, <2>2, <1>1, <1>2, <1>3
<1>6. p = q
  BY <1>1, <1>4, <1>5
<1>7. s = r
  BY <1>1, <1>2, <1>3, <1>6
<1> QED
  BY <1>7 DEF s

(* Moving on by n or less from a slot is moving on in the whole numbers.     *)
LEMMA RingMove ==
  ASSUME NEW a \in Int, NEW d \in Int, NEW n \in Nat \ {0}
  PROVE  ((a % n) + d) % n = (a + d) % n
<1> DEFINE s == a % n
           p == a \div n
           q == (s + d) \div n
           r == (s + d) % n
<1>1. s \in 0 .. n - 1 /\ p \in Int /\ a = n * p + s
  BY RingPlace
<1>2. r \in 0 .. n - 1 /\ q \in Int /\ s + d = n * q + r
  BY <1>1, RingPlace
<1> HIDE DEF p, q, r, s
<1>3. a + d = n * p + (n * q + r)
  BY <1>1, <1>2
<1>4. n * p + (n * q + r) = n * (p + q) + r
  BY <1>1, <1>2
<1>5. (n * (p + q) + r) % n = r
  BY <1>1, <1>2, RingUnique
<1>6. (a + d) % n = r
  BY <1>3, <1>4, <1>5
<1> QED
  BY <1>6 DEF r, s

LEMMA RingRound ==
  ASSUME NEW a \in Int, NEW n \in Nat \ {0}
  PROVE  (a - n) % n = a % n /\ (a + n) % n = a % n
<1> DEFINE p == a \div n
           r == a % n
<1>1. r \in 0 .. n - 1 /\ p \in Int /\ a = n * p + r
  BY RingPlace
<1> HIDE DEF p, r
<1>2. a - n = n * (p - 1) + r /\ a + n = n * (p + 1) + r
  BY <1>1
<1>3. (n * (p - 1) + r) % n = r /\ (n * (p + 1) + r) % n = r
  BY <1>1, RingUnique
<1> QED
  BY <1>2, <1>3 DEF r

(* Two places less than n apart are different slots.                         *)
LEMMA RingApart ==
  ASSUME NEW n \in Nat \ {0}, NEW a \in Int, NEW b \in Int, a < b, b - a < n
  PROVE  a % n # b % n
<1> DEFINE p == a \div n
           q == b \div n
           r == a % n
           s == b % n
<1>1. r \in 0 .. n - 1 /\ p \in Int /\ a = n * p + r
  BY RingPlace
<1>2. s \in 0 .. n - 1 /\ q \in Int /\ b = n * q + s
  BY RingPlace
<1> HIDE DEF p, q, r, s
<1> SUFFICES ASSUME r = s PROVE FALSE
  BY DEF r, s
<1>3. n * p \in Int /\ n * q \in Int /\ n * p < n * q /\ n * q - n * p < n
  BY <1>1, <1>2
<1>4. ASSUME q <= p PROVE FALSE
  <2>1. n * q <= n * p
    BY <1>1, <1>2, <1>4
  <2> QED
    BY <2>1, <1>3
<1>5. ASSUME p + 1 <= q PROVE FALSE
  <2>1. n * (p + 1) <= n * q
    BY <1>1, <1>2, <1>5
  <2>2. n * (p + 1) = n * p + n
    BY <1>1
  <2> QED
    BY <2>1, <2>2, <1>3
<1> QED
  BY <1>1, <1>2, <1>4, <1>5
----------------------------------------------------------------------------
LEMMA NamedBlocks ==
  /\ <<"pg", 0>> \in Workspace /\ <<"lm", 0>> \in Workspace /\ <<"pf", 0>> \in Workspace
  /\ \A t \in Slots : <<"s", t>> \in Workspace /\ <<"y", t>> \in Workspace
  /\ Vectors \subseteq Workspace /\ <<"pf", 0>> \notin Vectors
  /\ Workspace \subseteq Blocks /\ Variables \in Blocks /\ Variables \notin Workspace
BY DEF Blocks, Workspace, Variables, Vectors, OfSlots

LEMMA Constants ==
  /\ M \in Nat \ {0} /\ Iterations \subseteq Nat /\ Pasts \subseteq Nat /\ Ranks \subseteq Nat
  /\ 0 \in Slots /\ Slots = 0 .. M - 1
BY LbfgsAssumption DEF Slots

LEMMA LbfgsInit == Init => LbfgsInv
<1> SUFFICES ASSUME Init PROVE LbfgsInv
  OBVIOUS
<1> USE Constants
<1>1. param \in [method : Methods, past : Pasts, maxIter : Iterations] /\ param.past \in Nat
  BY DEF Init
<1>2. TypeOK
  <2>1. pf \in [0 .. param.past - 1 -> Int]
    BY DEF Init, NoValue
  <2>2. lm \in [Slots -> [it : Int, alpha : Int]]
    BY DEF Init, Unset
  <2>3. heap \in [Blocks -> {"null", "held", "freed"}]
    BY DEF Init
  <2>4. x \in Points /\ xp \in Points
    BY DEF Init, Points
  <2>5. k \in Nat \ {0} /\ fx \in Nat /\ i \in Nat /\ bound \in Nat /\ end \in Slots /\ j \in Slots
    BY DEF Init
  <2>6. pc = "estimate"
    BY DEF Init
  <2> QED
    BY <1>1, <2>1, <2>2, <2>3, <2>4, <2>5, <2>6 DEF TypeOK
<1>3. HeapInv
  <2>1. \A b \in Workspace : heap[b] = "null"
    BY NamedBlocks DEF Init
  <2>2. ~TestsPast
    BY <2>1, NamedBlocks DEF TestsPast
  <2>3. heap[Variables] = "null"
    BY NamedBlocks DEF Init
  <2> QED
    BY <2>1, <2>2, <2>3 DEF Init, HeapInv, Uncalled
<1>4. RingInv
  <2>1. 0 % M = 0
    BY RingUnique, M * 0 + 0 = 0
  <2> QED
    BY <2>1 DEF Init, RingInv
<1>5. PastInv /\ AnswerInv /\ AnswerNotWorse
  BY DEF Init, PastInv, AnswerInv, AnswerNotWorse, Iterating
<1> QED
  BY <1>2, <1>3, <1>4, <1>5 DEF LbfgsInv

(* Steps that leave the rings alone.                                         *)
LEMMA RingFrame ==
  ASSUME RingInv, UNCHANGED <<k, end, lm>>, pc' \notin {"backward", "forward"}
  PROVE  RingInv'
BY DEF RingInv

LEMMA PastFrame ==
  ASSUME PastInv, UNCHANGED <<param, heap, k, pf>>,
         pc' \in Iterating => pc \in Iterating /\ (pc = "limit" <=> pc' = "limit")
  PROVE  PastInv'
BY DEF PastInv, PastUpTo, TestsPast

(* Steps that leave the workspace alone.                                     *)
LEMMA HeapFrame ==
  ASSUME HeapInv, UNCHANGED <<heap, bad, param, k>>, bad = {},
         pc' \in Iterating \cup {"revert", "exit"},
         pc \in Iterating \cup {"start", "revert"}
  PROVE  HeapInv'
BY DEF HeapInv, TestsPast, Iterating, Allocating, Uncalled

(* Past the checks all parameters are valid.                                 *)
LEMMA Valid ==
  ASSUME HeapInv, pc \notin {"estimate", "crashed", "check", "caller", "returned"}
  PROVE  bad = {}
BY DEF HeapInv, Uncalled

(* The caller's block is held from here on, or the program crashes.          *)
LEMMA EstimateStartsKeeps == ASSUME LbfgsInv, EstimateStarts PROVE LbfgsInv'
<1> USE DEF LbfgsInv
<1>1. /\ pc = "estimate"
      /\ \/ pc' = "check" /\ heap' = [heap EXCEPT ![Variables] = "held"]
         \/ pc' = "crashed" /\ heap' = heap
      /\ UNCHANGED <<param, bad, x, xp, fx, k, end, i, j, bound, lm, pf, ret, reported, alpha, start>>
  BY DEF EstimateStarts, Goto, rings
<1>2. /\ heap' \in [Blocks -> {"null", "held", "freed"}]
      /\ \A b \in Workspace : heap'[b] = heap[b]
      /\ heap'[Variables] = IF pc' = "check" THEN "held" ELSE heap[Variables]
  BY <1>1, NamedBlocks DEF TypeOK
<1>3. TypeOK'
  BY <1>1, <1>2 DEF TypeOK
<1>4. HeapInv'
  BY <1>1, <1>2, NamedBlocks DEF HeapInv, TestsPast, Allocating, Uncalled
<1>5. RingInv' /\ PastInv'
  BY <1>1, RingFrame DEF PastInv, Iterating
<1>6. AnswerInv' /\ AnswerNotWorse'
  BY <1>1 DEF AnswerInv, AnswerNotWorse, Iterating
<1> QED
  BY <1>3, <1>4, <1>5, <1>6

LEMMA RejectKeeps == ASSUME LbfgsInv, Reject PROVE LbfgsInv'
<1> USE DEF LbfgsInv, Reject, Goto, rings, search
<1>1. TypeOK'
  BY DEF TypeOK
<1>2. HeapInv'
  BY DEF HeapInv, TestsPast, Allocating, Uncalled
<1>3. RingInv' /\ PastInv'
  BY RingFrame, PastFrame DEF Iterating
<1>4. AnswerInv' /\ AnswerNotWorse'
  BY DEF AnswerInv, AnswerNotWorse, Iterating
<1> QED
  BY <1>1, <1>2, <1>3, <1>4

(* The allocations.  One that fails leads to the common exit, where neither a
   value nor a point is claimed.                                             *)
LEMMA AllocationKeeps ==
  ASSUME LbfgsInv, TypeOK', bad = {},
         pc \in {"check"} \cup Allocating,
         pc' \in Allocating \cup {"start"} \/ (pc' = "exit" /\ ret' = "OUTOFMEMORY"),
         \A b \in Workspace : heap'[b] # "freed",
         heap'[Variables] = heap[Variables],
         TestsPast' => param.past > 0,
         UNCHANGED <<param, bad, x, xp, fx, k, end, j, bound, lm, pf, reported, alpha, start>>
  PROVE  LbfgsInv'
<1> USE DEF LbfgsInv
<1>1. HeapInv'
  BY DEF HeapInv, Allocating, Uncalled
<1>2. RingInv' /\ PastInv'
  <2>1. pc' \notin Iterating /\ pc' \notin {"backward", "forward"}
    BY DEF Iterating, Allocating
  <2> QED
    BY <2>1, RingFrame DEF PastInv
<1>3. AnswerInv' /\ AnswerNotWorse'
  BY DEF AnswerInv, AnswerNotWorse, Iterating, Allocating, Valued, Tolerated
<1> QED
  BY <1>1, <1>2, <1>3

LEMMA AllocateVectorsKeeps == ASSUME LbfgsInv, AllocateVectors PROVE LbfgsInv'
<1> USE DEF AllocateVectors, Goto, Leave, rings, search
<1>1. PICK missing \in SUBSET Vectors :
        heap' = [b \in Blocks |-> IF b \in Vectors \ missing THEN "held" ELSE heap[b]]
  OBVIOUS
<1>2. \A b \in Workspace : heap[b] = "null"
  BY DEF LbfgsInv, HeapInv
<1>3. /\ heap' \in [Blocks -> {"null", "held", "freed"}]
      /\ \A b \in Workspace : heap'[b] # "freed"
      /\ heap'[Variables] = heap[Variables]
  BY <1>1, <1>2, NamedBlocks DEF LbfgsInv, TypeOK
<1>4. TypeOK'
  BY <1>3 DEF LbfgsInv, TypeOK, Allocating
<1>5. ~TestsPast'
  BY <1>1, <1>2, NamedBlocks DEF TestsPast
<1> QED
  BY <1>3, <1>4, <1>5, AllocationKeeps DEF Allocating

LEMMA AllocatePseudoGradientKeeps == ASSUME LbfgsInv, AllocatePseudoGradient PROVE LbfgsInv'
<1> USE DEF AllocatePseudoGradient, Goto, Leave, rings, search
<1>1. heap \in [Blocks -> {"null", "held", "freed"}] /\ \A b \in Workspace : heap[b] # "freed"
  BY DEF LbfgsInv, TypeOK, HeapInv
<1>2. heap' \in {heap, [heap EXCEPT ![<<"pg", 0>>] = "held"]}
  OBVIOUS
<1>3. /\ heap' \in [Blocks -> {"null", "held", "freed"}]
      /\ \A b \in Workspace : heap'[b] # "freed"
      /\ heap'[<<"pf", 0>>] = heap[<<"pf", 0>>] /\ heap'[Variables] = heap[Variables]
  BY <1>1, <1>2, NamedBlocks
<1>4. TypeOK'
  BY <1>3 DEF LbfgsInv, TypeOK, Allocating
<1>5. bad = {} /\ (TestsPast' => param.past > 0)
  BY <1>3, Valid DEF LbfgsInv, HeapInv, TestsPast
<1> QED
  BY <1>3, <1>4, <1>5, AllocationKeeps DEF Allocating

LEMMA AllocateRingKeeps == ASSUME LbfgsInv, AllocateRing PROVE LbfgsInv'
<1> USE DEF AllocateRing, Goto, Leave, rings, search
<1>1. heap \in [Blocks -> {"null", "held", "freed"}] /\ \A b \in Workspace : heap[b] # "freed"
  BY DEF LbfgsInv, TypeOK, HeapInv
<1>2. heap' \in {heap, [heap EXCEPT ![<<"lm", 0>>] = "held"]}
  OBVIOUS
<1>3. /\ heap' \in [Blocks -> {"null", "held", "freed"}]
      /\ \A b \in Workspace : heap'[b] # "freed"
      /\ heap'[<<"pf", 0>>] = heap[<<"pf", 0>>] /\ heap'[Variables] = heap[Variables]
  BY <1>1, <1>2, NamedBlocks
<1>4. TypeOK'
  BY <1>3 DEF LbfgsInv, TypeOK, Allocating
<1>5. bad = {} /\ (TestsPast' => param.past > 0)
  BY <1>3, Valid DEF LbfgsInv, HeapInv, TestsPast
<1> QED
  BY <1>3, <1>4, <1>5, AllocationKeeps DEF Allocating

LEMMA AllocateSlotKeeps == ASSUME LbfgsInv, AllocateSlot PROVE LbfgsInv'
<1> USE DEF AllocateSlot, Goto, Leave, rings, search
<1>1. heap \in [Blocks -> {"null", "held", "freed"}] /\ \A b \in Workspace : heap[b] # "freed"
  BY DEF LbfgsInv, TypeOK, HeapInv
<1>2. i \in Slots /\ i \in Nat
  BY Constants DEF LbfgsInv, TypeOK
<1>3. PICK missing \in SUBSET {"s", "y"} :
        heap' = [heap EXCEPT ![<<"s", i>>] = IF "s" \in missing THEN "null" ELSE "held",
                             ![<<"y", i>>] = IF "y" \in missing THEN "null" ELSE "held"]
  OBVIOUS
<1>4. /\ heap' \in [Blocks -> {"null", "held", "freed"}]
      /\ \A b \in Workspace : heap'[b] # "freed"
      /\ heap'[<<"pf", 0>>] = heap[<<"pf", 0>>] /\ heap'[Variables] = heap[Variables]
  <2>1. <<"s", i>> # <<"pf", 0>> /\ <<"y", i>> # <<"pf", 0>>
    OBVIOUS
  <2> QED
    BY <1>1, <1>2, <1>3, <2>1, NamedBlocks
<1>5. TypeOK'
  <2>1. /\ UNCHANGED <<param, x, xp, fx, k, bound, end, j, lm, pf>>
        /\ pc' \in Allocating \cup {"exit"} /\ i' \in Nat
    BY <1>2 DEF LbfgsInv, TypeOK, Allocating
  <2>2. TypeOK
    BY DEF LbfgsInv
  <2> HIDE DEF AllocateSlot, Goto, Leave, rings, search
  <2> QED
    BY <1>4, <2>1, <2>2 DEF TypeOK
<1>6. bad = {} /\ (TestsPast' => param.past > 0)
  BY <1>4, Valid DEF LbfgsInv, HeapInv, TestsPast
<1> QED
  BY <1>4, <1>5, <1>6, AllocationKeeps DEF Allocating

LEMMA AllocatePastKeeps == ASSUME LbfgsInv, AllocatePast PROVE LbfgsInv'
<1> USE DEF AllocatePast, Goto, Leave, rings, search
<1>1. heap \in [Blocks -> {"null", "held", "freed"}] /\ \A b \in Workspace : heap[b] # "freed"
  BY DEF LbfgsInv, TypeOK, HeapInv
<1>2. heap' = heap \/ (param.past > 0 /\ heap' = [heap EXCEPT ![<<"pf", 0>>] = "held"])
  OBVIOUS
<1>3. /\ heap' \in [Blocks -> {"null", "held", "freed"}]
      /\ \A b \in Workspace : heap'[b] # "freed"
      /\ heap'[Variables] = heap[Variables]
  BY <1>1, <1>2, NamedBlocks
<1>4. TypeOK'
  BY <1>3 DEF LbfgsInv, TypeOK
<1>5. bad = {} /\ (TestsPast' => param.past > 0)
  BY <1>2, Valid DEF LbfgsInv, HeapInv, TestsPast
<1> QED
  BY <1>3, <1>4, <1>5, AllocationKeeps DEF Allocating
----------------------------------------------------------------------------
(* The first evaluation fills slot 0 of the ring of past values.             *)
LEMMA FirstEvaluationKeeps == ASSUME LbfgsInv, FirstEvaluation PROVE LbfgsInv'
<1> USE DEF LbfgsInv
<1>1. /\ pc = "start" /\ x' \in Ranks /\ fx' = x' /\ start' = x'
      /\ pf' = IF TestsPast THEN [pf EXCEPT ![0] = 0] ELSE pf
      /\ pc' = "iterate" \/ (pc' = "exit" /\ ret' = "ALREADY_MINIMIZED")
      /\ UNCHANGED <<param, bad, heap, xp, k, end, i, j, bound, lm, reported, alpha>>
  BY DEF FirstEvaluation, Goto, Leave, rings
<1>2. bad = {} /\ k = 1
  BY <1>1, Valid DEF HeapInv
<1>3. param.past \in Nat /\ pf \in [0 .. param.past - 1 -> Int]
  BY Constants DEF TypeOK
<1>4. TypeOK'
  <2>1. pf' \in [0 .. param.past - 1 -> Int]
    BY <1>1, <1>3 DEF HeapInv
  <2>2. x' \in Points /\ fx' \in Nat
    BY <1>1, Constants DEF Points
  <2> QED
    BY <1>1, <2>1, <2>2 DEF TypeOK, Iterating
<1>5. HeapInv'
  BY <1>1, <1>2, HeapFrame DEF Iterating
<1>6. RingInv'
  BY <1>1, RingFrame
<1>7. PastInv'
  <2> SUFFICES ASSUME pc' = "iterate", TestsPast, NEW t \in 0 .. 0
               PROVE  pf'[t % param.past] = t
    BY <1>1, <1>2 DEF PastInv, PastUpTo, TestsPast, Iterating
  <2>1. param.past > 0
    BY DEF HeapInv
  <2>2. 0 % param.past = 0
    BY <1>3, <2>1, RingUnique, param.past * 0 + 0 = 0
  <2> QED
    BY <1>1, <1>3, <2>1, <2>2
<1>8. AnswerInv'
  <2>1. NotWorse(x)'
    BY <1>1, Constants DEF NotWorse, Orthantwise
  <2> QED
    BY <1>1, <2>1 DEF AnswerInv, Iterating
<1>9. AnswerNotWorse'
  BY <1>1 DEF AnswerNotWorse
<1> QED
  BY <1>4, <1>5, <1>6, <1>7, <1>8, <1>9

LEMMA StartSearchKeeps == ASSUME LbfgsInv, StartSearch PROVE LbfgsInv'
<1> USE DEF LbfgsInv
<1>1. /\ pc = "iterate" /\ xp' = x
      /\ pc' = "search" \/ (pc' = "revert" /\ ret' \in {"INVALIDPARAMETERS", "INCREASEGRADIENT"})
      /\ UNCHANGED <<param, bad, heap, x, fx, k, end, i, j, bound, lm, pf, reported, alpha, start>>
  BY DEF StartSearch, Goto, rings
<1>2. TypeOK'
  BY <1>1 DEF TypeOK, Iterating
<1>3. HeapInv'
  BY <1>1, HeapFrame, Valid DEF Iterating
<1>4. RingInv' /\ PastInv'
  BY <1>1, RingFrame, PastFrame DEF Iterating
<1>5. AnswerInv'
  <2>1. NotWorse(xp)' /\ x \in Ranks /\ fx = x /\ start \in Ranks
    BY <1>1 DEF AnswerInv, NotWorse, Orthantwise, Iterating
  <2> QED
    BY <1>1, <2>1 DEF AnswerInv, Iterating, Valued
<1>6. AnswerNotWorse'
  BY <1>1 DEF AnswerNotWorse
<1> QED
  BY <1>2, <1>3, <1>4, <1>5, <1>6

(* What either line search does to the point: it goes on, it accepts a point
   that does not raise the objective, or it fails with an error.             *)
LEMMA SearchKeeps ==
  ASSUME LbfgsInv, pc = "search", x' \in Ranks, fx' = x',
         \/ pc' = "search"
         \/ pc' = "progress" /\ (Orthantwise \/ x' <= xp)
         \/ pc' = "revert" /\ ret' \notin Valued,
         UNCHANGED <<param, bad, heap, xp, k, end, i, j, bound, lm, pf, reported, alpha, start>>
  PROVE  LbfgsInv'
<1> USE DEF LbfgsInv
<1>1. TypeOK'
  <2>1. x' \in Points /\ fx' \in Nat
    BY Constants DEF Points
  <2> QED
    BY <2>1 DEF TypeOK, Iterating
<1>2. HeapInv'
  BY HeapFrame, Valid DEF Iterating
<1>3. RingInv' /\ PastInv'
  BY RingFrame, PastFrame DEF Iterating
<1>4. AnswerInv'
  <2>1. NotWorse(xp) /\ start \in Ranks
    BY DEF AnswerInv, Iterating
  <2>2. NotWorse(xp)'
    BY <2>1 DEF NotWorse, Orthantwise
  <2>3. pc' = "progress" => NotWorse(x)'
    BY <2>1, Constants DEF NotWorse, Orthantwise
  <2> QED
    BY <2>1, <2>2, <2>3 DEF AnswerInv, Iterating
<1>5. AnswerNotWorse'
  BY DEF AnswerNotWorse
<1> QED
  BY <1>1, <1>2, <1>3, <1>4, <1>5

LEMMA BacktrackKeeps == ASSUME LbfgsInv, Backtrack PROVE LbfgsInv'
<1>1. PICK f \in Ranks, v \in {"accept", "increase", "decrease"} :
        /\ v \in Verdicts(f)
        /\ x' = f /\ fx' = f
        /\ IF SearchOutcome(v) = "continue"
           THEN UNCHANGED <<pc, ret>>
           ELSE EndSearch(SearchOutcome(v))
  BY DEF Backtrack
<1>2. v = "accept" => Orthantwise \/ f <= xp
  BY <1>1 DEF Verdicts
<1>3. SearchOutcome(v) \in {"SUCCESS", "MINIMUMSTEP", "MAXIMUMSTEP", "MAXIMUMLINESEARCH", "continue"}
  BY DEF SearchOutcome
<1>4. SearchOutcome(v) = "SUCCESS" => v = "accept"
  BY DEF SearchOutcome
<1>5. /\ pc = "search"
      /\ UNCHANGED <<param, bad, heap, xp, k, end, i, j, bound, lm, pf, reported, alpha, start>>
  BY DEF Backtrack, rings
<1>6. \/ pc' = "search"
      \/ pc' = "progress" /\ (Orthantwise \/ x' <= xp)
      \/ pc' = "revert" /\ ret' \notin Valued
  BY <1>1, <1>2, <1>3, <1>4, <1>5 DEF EndSearch, Goto, Valued
<1> QED
  BY <1>1, <1>5, <1>6, SearchKeeps

LEMMA SearchMoreThuenteKeeps == ASSUME LbfgsInv, SearchMoreThuente PROVE LbfgsInv'
<1>1. /\ pc = "search" /\ x' \in Ranks /\ fx' = x'
      /\ \/ pc' = "progress" /\ x' <= xp
         \/ pc' = "revert" /\ ret' \notin Valued
      /\ UNCHANGED <<param, bad, heap, xp, k, end, i, j, bound, lm, pf, reported, alpha, start>>
  BY DEF SearchMoreThuente, EndSearch, Goto, rings, Valued
<1> QED
  BY <1>1, SearchKeeps

(* A failed search gives the previous point back; the value that fx keeps is
   reported with an error only.                                              *)
LEMMA RevertKeeps == ASSUME LbfgsInv, Revert PROVE LbfgsInv'
<1> USE DEF LbfgsInv
<1>1. /\ pc = "revert" /\ pc' = "exit" /\ x' = xp
      /\ UNCHANGED <<param, bad, heap, xp, fx, k, end, i, j, bound, lm, pf, ret, reported, alpha, start>>
  BY DEF Revert, Goto, rings
<1>2. TypeOK'
  BY <1>1 DEF TypeOK
<1>3. HeapInv'
  BY <1>1, HeapFrame, Valid
<1>4. RingInv' /\ PastInv'
  BY <1>1, RingFrame, PastFrame DEF Iterating
<1>5. AnswerInv'
  <2>1. NotWorse(x)' /\ ret' \notin Valued
    BY <1>1 DEF AnswerInv, NotWorse, Orthantwise
  <2> QED
    BY <1>1, <2>1 DEF AnswerInv, Iterating
<1>6. AnswerNotWorse'
  BY <1>1 DEF AnswerNotWorse
<1> QED
  BY <1>2, <1>3, <1>4, <1>5, <1>6

(* Steps of the iteration that leave the point alone, or end it with a value
   that belongs to the point.                                                *)
LEMMA IterationKeeps ==
  ASSUME LbfgsInv, TypeOK', RingInv', PastInv',
         pc \in Iterating \ {"search"}, pc' \in (Iterating \ {"search"}) \cup {"exit"},
         UNCHANGED <<param, bad, heap, x, xp, fx, reported, alpha, start>>
  PROVE  HeapInv' => LbfgsInv'
<1> USE DEF LbfgsInv
<1>1. x \in Ranks /\ fx = x /\ start \in Ranks /\ NotWorse(x)'
  BY DEF AnswerInv, NotWorse, Orthantwise
<1>2. AnswerInv'
  BY <1>1 DEF AnswerInv, Iterating
<1>3. AnswerNotWorse'
  BY DEF AnswerNotWorse, Iterating
<1> QED
  BY <1>2, <1>3

LEMMA ProgressKeeps == ASSUME LbfgsInv, Progress PROVE LbfgsInv'
<1>1. /\ pc = "progress" /\ pc' \in {"delta", "exit"}
      /\ UNCHANGED <<param, bad, heap, x, xp, fx, k, end, i, j, bound, lm, pf, reported, alpha, start>>
  BY DEF Progress, Goto, Leave, rings
<1>2. TypeOK'
  BY <1>1 DEF LbfgsInv, TypeOK, Iterating
<1>3. HeapInv'
  BY <1>1, HeapFrame, Valid DEF LbfgsInv, Iterating
<1>4. RingInv' /\ PastInv'
  BY <1>1, RingFrame, PastFrame DEF LbfgsInv, Iterating
<1> QED
  BY <1>1, <1>2, <1>3, <1>4, IterationKeeps DEF Iterating

(* The value of iteration k takes the slot of the one from past iterations ago;
   the younger ones are in other slots.                                      *)
LEMMA TestDeltaKeeps == ASSUME LbfgsInv, TestDelta PROVE LbfgsInv'
<1> USE DEF LbfgsInv
<1>1. /\ pc = "delta"
      /\ \/ pc' = "exit" /\ pf' = pf
         \/ pc' = "limit" /\ pf' = IF TestsPast THEN [pf EXCEPT ![k % param.past] = k] ELSE pf
      /\ UNCHANGED <<param, bad, heap, x, xp, fx, k, end, i, j, bound, lm, reported, alpha, start>>
  BY DEF TestDelta, Goto, Leave, rings
<1>2. param.past \in Nat /\ pf \in [0 .. param.past - 1 -> Int] /\ k \in Nat \ {0}
  BY Constants DEF TypeOK
<1>3. TestsPast => param.past \in Nat \ {0} /\ k % param.past \in 0 .. param.past - 1
  <2> SUFFICES ASSUME TestsPast
               PROVE  param.past \in Nat \ {0} /\ k % param.past \in 0 .. param.past - 1
    OBVIOUS
  <2>1. param.past \in Nat \ {0} /\ k \in Int
    BY <1>2 DEF HeapInv
  <2> QED
    BY <2>1, RingPlace
<1>4. TypeOK'
  <2>1. pf' \in [0 .. param.past - 1 -> Int]
    BY <1>1, <1>2, <1>3
  <2> QED
    BY <1>1, <2>1 DEF TypeOK, Iterating
<1>5. HeapInv'
  BY <1>1, HeapFrame, Valid DEF Iterating
<1>6. RingInv'
  BY <1>1, RingFrame
<1>7. PastInv'
  <2> SUFFICES ASSUME pc' = "limit", TestsPast, NEW t \in 0 .. k, t > k - param.past
               PROVE  pf'[t % param.past] = t
    BY <1>1 DEF PastInv, PastUpTo, TestsPast, Iterating
  <2>1. pf' = [pf EXCEPT ![k % param.past] = k]
    BY <1>1
  <2>2. CASE t = k
    BY <1>2, <1>3, <2>1, <2>2
  <2>3. CASE t < k
    <3>1. t \in 0 .. k - 1 /\ t > k - 1 - param.past
      BY <1>2, <2>3
    <3>2. pf[t % param.past] = t
      BY <1>1, <3>1 DEF PastInv, PastUpTo, Iterating
    <3>3. t \in Int /\ k \in Int /\ k - t < param.past /\ param.past \in Nat \ {0}
      BY <1>2, <1>3
    <3>4. t % param.past # k % param.past
      BY <2>3, <3>3, RingApart
    <3>5. t % param.past \in 0 .. param.past - 1
      BY <3>3, RingPlace
    <3> QED
      BY <1>2, <2>1, <3>2, <3>4, <3>5
  <2> QED
    BY <1>2, <2>2, <2>3
<1> QED
  BY <1>1, <1>4, <1>5, <1>6, <1>7, IterationKeeps DEF Iterating

LEMMA StopAtLimitKeeps == ASSUME LbfgsInv, StopAtLimit PROVE LbfgsInv'
<1>1. /\ pc = "limit" /\ pc' = "exit"
      /\ UNCHANGED <<param, bad, heap, x, xp, fx, k, end, i, j, bound, lm, pf, reported, alpha, start>>
  BY DEF StopAtLimit, Goto, Leave, rings
<1>2. TypeOK'
  BY <1>1 DEF LbfgsInv, TypeOK
<1>3. HeapInv'
  BY <1>1, HeapFrame, Valid DEF LbfgsInv, Iterating
<1>4. RingInv' /\ PastInv'
  BY <1>1, RingFrame, PastFrame DEF LbfgsInv, Iterating
<1> QED
  BY <1>1, <1>2, <1>3, <1>4, IterationKeeps DEF Iterating
----------------------------------------------------------------------------
(* The two loops over the ring.                                              *)
LEMMA StoreCorrectionKeeps == ASSUME LbfgsInv, StoreCorrection PROVE LbfgsInv'
<1> USE DEF LbfgsInv
<1>1. /\ pc = "limit" /\ pc' = "backward"
      /\ lm' = [lm EXCEPT ![end].it = k]
      /\ bound' = IF M <= k THEN M ELSE k
      /\ k' = k + 1 /\ end' = (end + 1) % M /\ j' = end' /\ i' = 0
      /\ UNCHANGED <<param, bad, heap, x, xp, fx, pf, reported, alpha, start>>
  BY DEF StoreCorrection, Goto
<1>2. k \in Nat \ {0} /\ end \in Slots /\ lm \in [Slots -> [it : Int, alpha : Int]] /\ M \in Nat \ {0}
  BY Constants DEF TypeOK
<1>3. end = (k - 1) % M
  BY DEF RingInv
<1>4. end' = (k' - 1) % M /\ end' \in Slots
  <2> k - 1 \in Int /\ 1 \in Int
    BY <1>2
  <2>1. (((k - 1) % M) + 1) % M = (k - 1 + 1) % M
    BY RingMove, Constants
  <2>2. k - 1 + 1 = k /\ k' - 1 = k
    BY <1>1, <1>2
  <2> QED
    BY <1>1, <1>2, <1>3, <2>1, <2>2, RingPlace, Constants
<1>5. TypeOK'
  <2>1. lm' \in [Slots -> [it : Int, alpha : Int]]
    BY <1>1, <1>2
  <2>2. bound' \in Nat /\ k' \in Nat \ {0} /\ i' \in Nat /\ j' \in Slots
    BY <1>1, <1>2, <1>4
  <2> QED
    BY <1>1, <1>4, <2>1, <2>2 DEF TypeOK, Iterating
<1>6. HeapInv'
  BY <1>1, Valid DEF HeapInv, TestsPast, Iterating, Allocating, Uncalled
<1>7. RingInv'
  <2>1. ASSUME NEW t \in 1 .. k, t >= k + 1 - M
        PROVE  lm'[(t - 1) % M].it = t
    <3>1. t \in Int /\ t - 1 \in Int /\ k - 1 \in Int
      BY <1>2
    <3>2. (t - 1) % M \in Slots
      BY <1>2, <3>1, RingPlace, Constants
    <3>3. CASE t = k
      BY <1>1, <1>2, <1>3, <3>3
    <3>4. CASE t < k
      <4>1. lm[(t - 1) % M].it = t
        BY <1>2, <2>1, <3>4 DEF RingInv
      <4>2. t - 1 < k - 1 /\ (k - 1) - (t - 1) < M
        BY <1>2, <2>1, <3>4
      <4>3. (t - 1) % M # (k - 1) % M
        BY <3>1, <4>2, RingApart, Constants
      <4> QED
        BY <1>1, <1>2, <1>3, <3>2, <4>1, <4>3
    <3> QED
      BY <1>2, <3>3, <3>4
  <2>2. bound' <= M /\ bound' <= k' - 1 /\ i' <= bound'
    BY <1>1, <1>2
  <2>3. j' = (k' - 1 - i') % M
    <3>1. k' - 1 - i' = k' - 1
      BY <1>1, <1>2
    <3> QED
      BY <1>1, <1>4, <3>1
  <2>4. \A t \in 1 .. k' - 1 : t >= k' - i' => FALSE
    BY <1>1, <1>2
  <2>5. \A t \in 1 .. k' - 1 : t >= k' - M => lm'[(t - 1) % M].it = t
    <3>1. k' - 1 = k /\ k' - M = k + 1 - M
      BY <1>1, <1>2
    <3> QED
      BY <2>1, <3>1
  <2> QED
    BY <1>1, <1>4, <2>2, <2>3, <2>4, <2>5 DEF RingInv
<1>8. PastInv'
  <2>1. PastUpTo = k /\ PastUpTo' = k
    BY <1>1, <1>2 DEF PastUpTo
  <2> QED
    BY <1>1, <2>1 DEF PastInv, TestsPast, Iterating
<1> QED
  BY <1>1, <1>5, <1>6, <1>7, <1>8, IterationKeeps DEF Iterating

(* The slot that the first loop looks at is the one of the i-th newest
   correction.                                                               *)
LEMMA BackwardSlot ==
  ASSUME TypeOK, RingInv, pc = "backward", i < bound
  PROVE  /\ Before(j) = (k - 2 - i) % M /\ Before(j) \in Slots
         /\ lm[Before(j)].it = k - 1 - i
<1>1. k \in Nat \ {0} /\ i \in Nat /\ bound \in Nat /\ M \in Nat \ {0}
  BY Constants DEF TypeOK
<1>2. bound <= M /\ bound <= k - 1 /\ j = (k - 1 - i) % M
  BY DEF RingInv
<1>3. Before(j) = (j + (M - 1)) % M
  <2>1. j + M - 1 = j + (M - 1)
    BY <1>1, Constants DEF TypeOK
  <2> QED
    BY <2>1 DEF Before
<1>4. (j + (M - 1)) % M = ((k - 1 - i) + (M - 1)) % M
  <2>1. k - 1 - i \in Int /\ M - 1 \in Int
    BY <1>1
  <2>2. (((k - 1 - i) % M) + (M - 1)) % M = ((k - 1 - i) + (M - 1)) % M
    BY <2>1, RingMove, Constants
  <2> QED
    BY <1>2, <2>2
<1>5. (k - 1 - i) + (M - 1) = (k - 2 - i) + M
  BY <1>1
<1>6. k - 2 - i \in Int
  BY <1>1
<1>7. ((k - 2 - i) + M) % M = (k - 2 - i) % M
  BY <1>6, RingRound, Constants
<1>8. (k - 2 - i) % M \in Slots
  BY <1>6, RingPlace, Constants
<1>9. Before(j) = (k - 2 - i) % M /\ Before(j) \in Slots
  BY <1>3, <1>4, <1>5, <1>7, <1>8
<1>10. lm[(k - 2 - i) % M].it = k - 1 - i
  <2>1. k - 1 - i \in 1 .. k - 1 /\ k - 1 - i >= k - M /\ k - 2 - i = k - 1 - i - 1
    BY <1>1, <1>2
  <2> QED
    BY <2>1 DEF RingInv
<1> QED
  BY <1>9, <1>10

LEMMA LoopBackwardKeeps == ASSUME LbfgsInv, LoopBackward PROVE LbfgsInv'
<1> USE DEF LbfgsInv
<1>1. /\ pc = "backward"
      /\ UNCHANGED <<param, bad, heap, x, xp, fx, k, end, bound, pf, ret, reported, alpha, start>>
  BY DEF LoopBackward
<1>2. /\ k \in Nat \ {0} /\ i \in Nat /\ bound \in Nat /\ M \in Nat \ {0}
      /\ lm \in [Slots -> [it : Int, alpha : Int]]
  BY Constants DEF TypeOK
<1>3. bound <= M /\ bound <= k - 1 /\ i <= bound /\ j = (k - 1 - i) % M
  BY <1>1 DEF RingInv
<1>4. \A t \in 1 .. k - 1 : /\ t >= k - M => lm[(t - 1) % M].it = t
                            /\ t >= k - i => lm[(t - 1) % M].alpha = k
  BY <1>1 DEF RingInv
<1>5. CASE i < bound
  <2>1. j' = Before(j) /\ lm' = [lm EXCEPT ![j'].alpha = k] /\ i' = i + 1 /\ pc' = pc
    BY <1>5 DEF LoopBackward
  <2>2. j' = (k - 2 - i) % M /\ j' \in Slots
    BY <1>1, <1>5, <2>1, BackwardSlot
  <2>3. TypeOK'
    <3>1. lm' \in [Slots -> [it : Int, alpha : Int]]
      BY <1>2, <2>1, <2>2
    <3>2. i' \in Nat /\ j' \in Slots
      BY <1>2, <2>1, <2>2
    <3> QED
      BY <1>1, <2>1, <3>1, <3>2 DEF TypeOK
  <2>4. ASSUME NEW t \in 1 .. k - 1
        PROVE  /\ t >= k - M => lm'[(t - 1) % M].it = t
               /\ t >= k - (i + 1) => lm'[(t - 1) % M].alpha = k
    <3>1. t \in Int /\ t - 1 \in Int
      BY <1>2
    <3>2. (t - 1) % M \in Slots
      BY <1>2, <3>1, RingPlace, Constants
    <3>3. /\ lm'[(t - 1) % M].it = lm[(t - 1) % M].it
          /\ (t - 1) % M # j' => lm'[(t - 1) % M].alpha = lm[(t - 1) % M].alpha
          /\ lm'[j'].alpha = k
      BY <1>2, <2>1, <2>2, <3>2
    <3>4. CASE t = k - (i + 1)
      <4>1. t - 1 = k - 2 - i
        BY <1>2, <3>4
      <4> QED
        BY <1>4, <2>2, <3>3, <4>1
    <3>5. CASE t # k - (i + 1)
      BY <1>2, <1>4, <3>1, <3>3, <3>5
    <3> QED
      BY <3>4, <3>5
  <2>5. RingInv'
    <3>1. j' = (k - 1 - (i + 1)) % M
      <4>1. k - 1 - (i + 1) = k - 2 - i
        BY <1>2
      <4> QED
        BY <2>2, <4>1
    <3>2. i + 1 <= bound
      BY <1>2, <1>5
    <3> QED
      BY <1>1, <1>3, <2>1, <2>4, <3>1, <3>2 DEF RingInv
  <2>6. HeapInv'
    BY <1>1, <2>1, HeapFrame, Valid DEF Iterating
  <2>7. PastInv'
    BY <1>1, <2>1, PastFrame DEF Iterating
  <2> QED
    BY <1>1, <2>1, <2>3, <2>5, <2>6, <2>7, IterationKeeps DEF Iterating
<1>6. CASE i >= bound
  <2>1. i = bound /\ pc' = "forward" /\ i' = 0 /\ j' = j /\ lm' = lm
    BY <1>2, <1>3, <1>6 DEF LoopBackward, Goto
  <2>2. TypeOK'
    BY <1>1, <2>1 DEF TypeOK, Iterating
  <2>3. RingInv'
    <3>1. k - 1 - bound + 0 = k - 1 - i
      BY <1>2, <2>1
    <3> QED
      BY <1>1, <1>2, <1>3, <1>4, <2>1, <3>1 DEF RingInv
  <2>4. HeapInv'
    BY <1>1, <2>1, HeapFrame, Valid DEF Iterating
  <2>5. PastInv'
    BY <1>1, <2>1, PastFrame DEF Iterating
  <2> QED
    BY <1>1, <2>1, <2>2, <2>3, <2>4, <2>5, IterationKeeps DEF Iterating
<1> QED
  BY <1>2, <1>5, <1>6

(* The second loop finds the corrections and the multipliers in the same slots. *)
LEMMA ForwardSlot ==
  ASSUME TypeOK, RingInv, pc = "forward", i < bound
  PROVE  lm[j] = [it |-> k - bound + i, alpha |-> k]
<1>1. k \in Nat \ {0} /\ i \in Nat /\ bound \in Nat /\ M \in Nat \ {0}
  BY Constants DEF TypeOK
<1>2. bound <= M /\ bound <= k - 1 /\ j = (k - 1 - bound + i) % M
  BY DEF RingInv
<1> DEFINE t == k - bound + i
<1>3. t \in 1 .. k - 1 /\ t >= k - M /\ t >= k - bound /\ t - 1 = k - 1 - bound + i
  BY <1>1, <1>2
<1>4. lm[j].it = t /\ lm[j].alpha = k
  BY <1>2, <1>3 DEF RingInv
<1>5. lm[j] \in [it : Int, alpha : Int]
  BY DEF TypeOK
<1> QED
  BY <1>4, <1>5

LEMMA LoopForwardKeeps == ASSUME LbfgsInv, LoopForward PROVE LbfgsInv'
<1> USE DEF LbfgsInv
<1>1. /\ pc = "forward"
      /\ UNCHANGED <<param, bad, heap, x, xp, fx, k, end, bound, lm, pf, reported, alpha, start>>
  BY DEF LoopForward
<1>2. k \in Nat \ {0} /\ i \in Nat /\ bound \in Nat /\ M \in Nat \ {0}
  BY Constants DEF TypeOK
<1>3. bound <= M /\ bound <= k - 1 /\ i <= bound /\ j = (k - 1 - bound + i) % M
  BY <1>1 DEF RingInv
<1>4. CASE i < bound
  <2>1. j' = (j + 1) % M /\ i' = i + 1 /\ pc' = pc
    BY <1>4 DEF LoopForward
  <2>2. j' = (k - 1 - bound + (i + 1)) % M /\ j' \in Slots
    <3>1. k - 1 - bound + i \in Int /\ k - 1 - bound + (i + 1) \in Int /\ 1 \in Int
      BY <1>2
    <3>2. (((k - 1 - bound + i) % M) + 1) % M = (k - 1 - bound + i + 1) % M
      BY <3>1, RingMove, Constants
    <3>3. k - 1 - bound + i + 1 = k - 1 - bound + (i + 1)
      BY <1>2
    <3>4. (k - 1 - bound + (i + 1)) % M \in Slots
      BY <3>1, RingPlace, Constants
    <3> QED
      BY <1>3, <2>1, <3>2, <3>3, <3>4
  <2>3. TypeOK'
    BY <1>1, <1>2, <2>1, <2>2 DEF TypeOK
  <2>4. RingInv'
    <3>1. i + 1 <= bound
      BY <1>2, <1>4
    <3> QED
      BY <1>1, <2>1, <2>2, <3>1 DEF RingInv
  <2>5. HeapInv'
    BY <1>1, <2>1, HeapFrame, Valid DEF Iterating
  <2>6. PastInv'
    BY <1>1, <2>1, PastFrame DEF Iterating
  <2> QED
    BY <1>1, <2>1, <2>3, <2>4, <2>5, <2>6, IterationKeeps DEF Iterating
<1>5. CASE i >= bound
  <2>1. pc' = "iterate" /\ i' = i /\ j' = j
    BY <1>2, <1>5 DEF LoopForward, Goto
  <2>2. TypeOK'
    BY <1>1, <2>1 DEF TypeOK, Iterating
  <2>3. RingInv'
    BY <1>1, <2>1, RingFrame
  <2>4. HeapInv'
    BY <1>1, <2>1, HeapFrame, Valid DEF Iterating
  <2>5. PastInv'
    BY <1>1, <2>1, PastFrame DEF Iterating
  <2> QED
    BY <1>1, <2>1, <2>2, <2>3, <2>4, <2>5, IterationKeeps DEF Iterating
<1> QED
  BY <1>2, <1>4, <1>5

----------------------------------------------------------------------------
(* The common exit and the caller.                                           *)
LEMMA ExitKeeps == ASSUME LbfgsInv, Exit PROVE LbfgsInv'
<1> USE DEF LbfgsInv
<1>1. /\ pc = "exit" /\ pc' = "caller" /\ reported' = fx
      /\ heap' = [b \in Blocks |-> IF b \in Workspace THEN Freed(heap[b]) ELSE heap[b]]
      /\ UNCHANGED <<param, bad, x, xp, fx, k, end, i, j, bound, lm, pf, ret, alpha, start>>
  BY DEF Exit, Goto, rings
<1>2. bad = {}
  BY <1>1, Valid
<1>3. \A b \in Workspace : heap[b] \in {"null", "held"}
  BY <1>1, NamedBlocks DEF TypeOK, HeapInv
<1>4. /\ \A b \in Workspace : heap'[b] \in {"null", "freed"}
      /\ heap'[Variables] = "held" /\ heap[Variables] = "held"
  BY <1>1, <1>3, NamedBlocks DEF Freed, HeapInv, Uncalled
<1>5. TypeOK'
  <2>1. heap' \in [Blocks -> {"null", "held", "freed"}]
    BY <1>1, <1>4, NamedBlocks DEF Blocks
  <2> QED
    BY <1>1, <2>1 DEF TypeOK
<1>6. HeapInv'
  BY <1>1, <1>2, <1>4, NamedBlocks DEF HeapInv, TestsPast, Allocating, Uncalled
<1>7. RingInv' /\ PastInv'
  BY <1>1, RingFrame DEF PastInv, Iterating
<1>8. AnswerInv'
  BY <1>1 DEF AnswerInv, Iterating, NotWorse, Orthantwise
<1>9. AnswerNotWorse'
  BY <1>1 DEF AnswerNotWorse
<1> QED
  BY <1>5, <1>6, <1>7, <1>8, <1>9

LEMMA EstimateReturnsKeeps == ASSUME LbfgsInv, EstimateReturns PROVE LbfgsInv'
<1> USE DEF LbfgsInv
<1>1. /\ pc = "caller" /\ pc' = "returned"
      /\ alpha' = IF ret \in Tolerated THEN x ELSE Unset
      /\ heap' = [heap EXCEPT ![Variables] = Freed(@)]
      /\ UNCHANGED <<param, bad, x, xp, fx, k, end, i, j, bound, lm, pf, ret, reported, start>>
  BY DEF EstimateReturns, Goto, rings
<1>2. /\ heap' \in [Blocks -> {"null", "held", "freed"}]
      /\ \A b \in Workspace : heap'[b] = heap[b]
      /\ heap'[Variables] = "freed"
  <2>1. Freed(heap[Variables]) = "freed"
    BY <1>1 DEF HeapInv, Uncalled, Freed
  <2> QED
    BY <1>1, <2>1, NamedBlocks DEF TypeOK
<1>3. TypeOK'
  BY <1>1, <1>2 DEF TypeOK
<1>4. HeapInv'
  BY <1>1, <1>2, NamedBlocks DEF HeapInv, TestsPast, Allocating, Uncalled
<1>5. RingInv' /\ PastInv' /\ AnswerInv'
  BY <1>1, RingFrame DEF PastInv, AnswerInv, Iterating
<1>6. AnswerNotWorse'
  <2>1. CASE bad = {}
    BY <1>1, <2>1 DEF AnswerInv, AnswerNotWorse, NotWorse, Valued, Orthantwise
  <2>2. CASE bad # {}
    BY <1>1, <2>2 DEF HeapInv, AnswerNotWorse
  <2> QED
    BY <2>1, <2>2
<1> QED
  BY <1>3, <1>4, <1>5, <1>6

LEMMA LbfgsStutters == ASSUME LbfgsInv, UNCHANGED vars PROVE LbfgsInv'
<1> USE DEF LbfgsInv, vars, rings, search
<1>1. TypeOK'
  BY DEF TypeOK
<1>2. HeapInv'
  BY DEF HeapInv, TestsPast
<1>3. RingInv' /\ PastInv'
  BY DEF RingInv, PastInv, PastUpTo, TestsPast
<1>4. AnswerInv' /\ AnswerNotWorse'
  BY DEF AnswerInv, AnswerNotWorse, NotWorse, Orthantwise
<1> QED
  BY <1>1, <1>2, <1>3, <1>4

LEMMA LbfgsStep == LbfgsInv /\ [Next]_vars => LbfgsInv'
<1> SUFFICES ASSUME LbfgsInv, [Next]_vars PROVE LbfgsInv'
  OBVIOUS
<1>1. CASE Reject \/ AllocateVectors \/ AllocatePseudoGradient \/ AllocateRing \/ AllocateSlot \/ AllocatePast
  BY <1>1, RejectKeeps, AllocateVectorsKeeps, AllocatePseudoGradientKeeps, AllocateRingKeeps,
     AllocateSlotKeeps, AllocatePastKeeps
<1>2. CASE FirstEvaluation \/ StartSearch \/ Backtrack \/ SearchMoreThuente \/ Revert
  BY <1>2, FirstEvaluationKeeps, StartSearchKeeps, BacktrackKeeps, SearchMoreThuenteKeeps, RevertKeeps
<1>3. CASE Progress \/ TestDelta \/ StopAtLimit
  BY <1>3, ProgressKeeps, TestDeltaKeeps, StopAtLimitKeeps
<1>4. CASE StoreCorrection \/ LoopBackward \/ LoopForward
  BY <1>4, StoreCorrectionKeeps, LoopBackwardKeeps, LoopForwardKeeps
<1>5. CASE EstimateStarts \/ Exit \/ EstimateReturns
  BY <1>5, EstimateStartsKeeps, ExitKeeps, EstimateReturnsKeeps
<1>6. CASE Finished \/ UNCHANGED vars
  BY <1>6, LbfgsStutters DEF Finished
<1> QED
  BY <1>1, <1>2, <1>3, <1>4, <1>5, <1>6 DEF Next

(* The inductive invariant holds throughout a call of lbfgs.                 *)
THEOREM LbfgsInvariance == Spec => []LbfgsInv
BY LbfgsInit, LbfgsStep, PTL DEF Spec

(* Whatever fails, the common exit of lbfgs frees every block of the
   workspace once and plfit its own variable; a call with invalid parameters
   does nothing.                                                             *)
THEOREM LbfgsReleases == Spec => []WorkspaceReleased
<1>1. LbfgsInv => WorkspaceReleased
  BY DEF LbfgsInv, TypeOK, HeapInv, WorkspaceReleased, Blocks, Uncalled
<1> QED
  BY <1>1, LbfgsInvariance, PTL

(* The loops over the ring of corrections meet the last bound of them, newest
   first and back again, for every size of the ring.                         *)
THEOREM LbfgsCorrections == Spec => []CorrectionsInOrder
<1>1. LbfgsInv => CorrectionsInOrder
  BY BackwardSlot, ForwardSlot DEF LbfgsInv, CorrectionsInOrder
<1> QED
  BY <1>1, LbfgsInvariance, PTL

(* The delta-based test compares with the value of exactly past iterations ago. *)
THEOREM LbfgsPast == Spec => []PastIsThatFarBack
<1>1. LbfgsInv => PastIsThatFarBack
  <2> SUFFICES ASSUME LbfgsInv, pc = "delta", PastReached
               PROVE  pf[k % param.past] = k - param.past
    BY DEF PastIsThatFarBack
  <2>1. TestsPast /\ param.past <= k /\ param.past > 0
    BY DEF LbfgsInv, HeapInv, PastReached
  <2>2. k \in Int /\ k \in Nat \ {0} /\ param.past \in Nat \ {0}
    <3>1. k \in Nat \ {0}
      BY DEF LbfgsInv, TypeOK
    <3>2. param.past \in Nat
      BY Constants DEF LbfgsInv, TypeOK
    <3> QED
      BY <2>1, <3>1, <3>2
  <2>3. k - param.past \in 0 .. k - 1 /\ k - param.past > k - 1 - param.past
    BY <2>1, <2>2
  <2>4. pf[(k - param.past) % param.past] = k - param.past
    BY <2>1, <2>3 DEF LbfgsInv, PastInv, PastUpTo, Iterating
  <2>5. (k - param.past) % param.past = k % param.past
    BY <2>2, RingRound
  <2> QED
    BY <2>4, <2>5
<1> QED
  BY <1>1, LbfgsInvariance, PTL

(* plfit never takes an exponent worse than its initial guess from a search
   without orthants, and a value reported without an error is that of the point. *)
THEOREM LbfgsAnswer == Spec => []AnswerNotWorse
<1>1. LbfgsInv => AnswerNotWorse
  BY DEF LbfgsInv
<1> QED
  BY <1>1, LbfgsInvariance, PTL
=============================================================================
