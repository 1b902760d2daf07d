------------------------ MODULE ContinuousFitProofs ------------------------
(* Proofs about plfit_continuous and the unique_element_pointers it calls, for
   every sorted array, all lengths and parameters of the searches, and whichever
   calls fail.                                                               *)
EXTENDS ContinuousFit, FiniteSetTheorems, TLAPS

----------------------------------------------------------------------------
(* unique_element_pointers lists the block starts of every sorted array, and
   never writes past what it allocated.  The initial state:                  *)
LEMMA UniqueInit == Init => UniqueInv
<1> SUFFICES ASSUME Init PROVE UniqueInv
  OBVIOUS
<1> USE UniqueAssumption DEF Init, Called
<1>1. TypeOK
  BY DEF TypeOK, Index, Garbage, Unset
<1>2. Sorted
  BY DEF Sorted, Index
<1>3. StartInv /\ ScanInv
  BY DEF StartInv, ScanInv
<1>4. ListsBlocks /\ ErrorLeavesNothing
  BY DEF ListsBlocks, ErrorLeavesNothing
<1> QED
  BY <1>1, <1>2, <1>3, <1>4 DEF UniqueInv

(* Storing a new block: the enlargement keeps what was stored, and leaves room
   for the block and for the guard.                                          *)
LEMMA NewBlockStores ==
  ASSUME UniqueInv, NewBlock
  PROVE  /\ cap' \in Nat /\ used' <= cap'
         /\ result' \in [0 .. cap' -> Int]
         /\ \A k \in 0 .. used - 1 : result'[k] = result[k]
         /\ result'[used] = ptr
<1> DEFINE old == IF Full THEN Enlarged ELSE result
<1>0. /\ cap \in Nat /\ used \in Nat /\ ptr \in Nat /\ used <= cap
      /\ result \in [0 .. cap -> Int]
  BY DEF UniqueInv, TypeOK, ScanInv, NewBlock
<1>1. cap' = (IF Full THEN 2 * cap + 1 ELSE cap) /\ result' = [old EXCEPT ![used] = ptr] /\ used' = used + 1
  BY DEF NewBlock
<1>2. cap' \in Nat /\ cap <= cap' /\ used' <= cap'
  BY <1>0, <1>1 DEF Full
<1>3. old \in [0 .. cap' -> Int]
  BY <1>0, <1>1 DEF Full, Enlarged, Garbage
<1>4. \A k \in 0 .. cap : old[k] = result[k]
  BY <1>0 DEF Enlarged
<1> HIDE DEF old
<1> QED
  BY <1>0, <1>1, <1>2, <1>3, <1>4

(* Every step preserves the invariant.                                       *)
LEMMA UniqueStep == UniqueInv /\ [Next]_vars => UniqueInv'
<1> SUFFICES ASSUME UniqueInv, [Next]_vars PROVE UniqueInv'
  OBVIOUS
<1> USE UniqueAssumption
<1>1. CASE AllocateEmpty
  <2> USE <1>1 DEF AllocateEmpty
  <2>1. TypeOK' /\ Sorted'
    BY DEF UniqueInv, TypeOK, Sorted, Index, Guard
  <2>2. ListsBlocks' /\ ErrorLeavesNothing'
    BY DEF UniqueInv, TypeOK, ListsBlocks, ErrorLeavesNothing, StartsBlock, Index, Guard, Unset
  <2> QED
    BY <2>1, <2>2 DEF UniqueInv, StartInv, ScanInv
<1>2. CASE AllocateFirst
  <2> USE <1>2 DEF AllocateFirst
  <2>1. /\ n \in Nat /\ n > 0 /\ xs \in [Index -> Values] /\ cap \in Nat \ {0}
        /\ result \in [0 .. cap -> Int] /\ length = Unset
    BY DEF UniqueInv, TypeOK, StartInv
  <2>2. result' \in [0 .. cap' -> Int] /\ result'[0] = 0
    BY <2>1
  <2>3. TypeOK'
    BY <2>1, <2>2 DEF TypeOK, Index, UniqueInv
  <2>4. Sorted'
    BY DEF UniqueInv, Sorted, Index
  <2>5. ScanInv'
    BY <2>1, <2>2 DEF ScanInv, StartsBlock, Index
  <2>6. StartInv' /\ ListsBlocks' /\ ErrorLeavesNothing'
    BY <2>1 DEF StartInv, ListsBlocks, ErrorLeavesNothing
  <2> QED
    BY <2>3, <2>4, <2>5, <2>6 DEF UniqueInv
<1>3. CASE AllocationFails
  <2> USE <1>3 DEF AllocationFails
  <2>1. TypeOK' /\ Sorted'
    BY DEF UniqueInv, TypeOK, Sorted, Index
  <2>2. ListsBlocks' /\ ErrorLeavesNothing'
    BY DEF UniqueInv, StartInv, ListsBlocks, ErrorLeavesNothing
  <2> QED
    BY <2>1, <2>2 DEF UniqueInv, StartInv, ScanInv
<1>4. CASE SameBlock
  <2> USE <1>4 DEF SameBlock
  <2>1. TypeOK' /\ Sorted' /\ StartInv' /\ ListsBlocks' /\ ErrorLeavesNothing'
    BY DEF UniqueInv, TypeOK, Sorted, StartInv, ScanInv, ListsBlocks, ErrorLeavesNothing, Index
  <2>2. /\ n \in Nat /\ ptr \in Nat /\ 1 <= ptr /\ ptr < n /\ used \in Nat /\ cap \in Nat
        /\ result \in [0 .. cap -> Int] /\ used <= cap /\ xs[ptr] = xs[ptr - 1]
        /\ block = "held" /\ length = Unset /\ 1 <= used
    BY DEF UniqueInv, TypeOK, ScanInv
  <2>3. ~StartsBlock(ptr)
    BY <2>2 DEF StartsBlock
  <2>4. \A k \in 0 .. used - 1 : StartsBlock(result[k])' /\ result'[k] < ptr'
    BY <2>2 DEF UniqueInv, ScanInv, StartsBlock, Index
  <2>5. \A j, k \in 0 .. used - 1 : j < k => result[j] < result[k]
    BY DEF UniqueInv, ScanInv
  <2>6. \A i \in Index : (StartsBlock(i) /\ i < ptr + 1) => \E k \in 0 .. used - 1 : result[k] = i
    <3> SUFFICES ASSUME NEW i \in Index, StartsBlock(i), i < ptr + 1
                 PROVE  \E k \in 0 .. used - 1 : result[k] = i
      OBVIOUS
    <3>1. i < ptr
      BY <2>2, <2>3 DEF Index
    <3> QED
      BY <3>1 DEF UniqueInv, ScanInv
  <2>7. ScanInv'
    <3>1. \A i \in Index' : (StartsBlock(i)' /\ i < ptr') => \E k \in 0 .. used' - 1 : result'[k] = i
      BY <2>6 DEF StartsBlock, Index
    <3> QED
      BY <2>2, <2>4, <2>5, <3>1 DEF ScanInv
  <2> QED
    BY <2>1, <2>7 DEF UniqueInv
<1>5. CASE NewBlock
  <2>1. /\ cap' \in Nat /\ used' <= cap'
        /\ result' \in [0 .. cap' -> Int]
        /\ \A k \in 0 .. used - 1 : result'[k] = result[k]
        /\ result'[used] = ptr
    BY <1>5, NewBlockStores
  <2>2. /\ n \in Nat /\ ptr \in Nat /\ 1 <= ptr /\ ptr < n /\ used \in Nat /\ 1 <= used
        /\ xs \in [Index -> Values] /\ xs[ptr] # xs[ptr - 1]
        /\ used' = used + 1 /\ ptr' = ptr + 1 /\ prevX' = xs[ptr]
        /\ UNCHANGED <<n, xs, pc, block, length>> /\ pc = "scan" /\ block = "held" /\ length = Unset
    BY <1>5 DEF NewBlock, UniqueInv, TypeOK, ScanInv
  <2>3. StartsBlock(ptr) /\ ptr \in Index
    BY <2>2 DEF StartsBlock, Index
  <2>4. TypeOK'
    BY <2>1, <2>2, <2>3 DEF UniqueInv, TypeOK, Index
  <2>5. Sorted' /\ StartInv' /\ ListsBlocks' /\ ErrorLeavesNothing'
    BY <2>2 DEF UniqueInv, Sorted, StartInv, ListsBlocks, ErrorLeavesNothing, Index
  <2>6. \A i : StartsBlock(i)' <=> StartsBlock(i)
    BY <2>2 DEF StartsBlock, Index
  <2>7. \A k \in 0 .. used - 1 : StartsBlock(result[k]) /\ result[k] < ptr /\ result[k] \in Int
    BY <2>2 DEF UniqueInv, ScanInv, StartsBlock, Index
  <2>8. \A k \in 0 .. used : StartsBlock(result'[k]) /\ result'[k] < ptr + 1
    <3> SUFFICES ASSUME NEW k \in 0 .. used
                 PROVE  StartsBlock(result'[k]) /\ result'[k] < ptr + 1
      OBVIOUS
    <3>1. CASE k = used
      <4>1. result'[k] = ptr
        BY <3>1, <2>1
      <4> QED
        BY <4>1, <2>2, <2>3
    <3>2. CASE k \in 0 .. used - 1
      <4>1. result'[k] = result[k]
        BY <3>2, <2>1
      <4>2. StartsBlock(result[k]) /\ result[k] < ptr /\ result[k] \in Int
        BY <3>2, <2>7
      <4>3. result[k] < ptr + 1
        BY <4>2, <2>2
      <4> QED
        BY <4>1, <4>2, <4>3
    <3> QED
      BY <3>1, <3>2, <2>2
  <2>9. \A j, k \in 0 .. used : j < k => result'[j] < result'[k]
    <3> SUFFICES ASSUME NEW j \in 0 .. used, NEW k \in 0 .. used, j < k PROVE result'[j] < result'[k]
      OBVIOUS
    <3>1. j \in 0 .. used - 1 /\ result'[j] = result[j]
      BY <2>1, <2>2
    <3>2. CASE k = used
      BY <3>1, <3>2, <2>1, <2>7
    <3>3. CASE k \in 0 .. used - 1
      BY <3>1, <3>3, <2>1, <2>2 DEF UniqueInv, ScanInv
    <3> QED
      BY <3>2, <3>3, <2>2
  <2>10. \A i \in Index : (StartsBlock(i) /\ i < ptr + 1) => \E k \in 0 .. used : result'[k] = i
    <3> SUFFICES ASSUME NEW i \in Index, StartsBlock(i), i < ptr + 1
                 PROVE  \E k \in 0 .. used : result'[k] = i
      OBVIOUS
    <3>1. CASE i = ptr
      <4>1. used \in 0 .. used /\ result'[used] = i
        BY <3>1, <2>1, <2>2
      <4> QED
        BY <4>1
    <3>2. CASE i < ptr
      <4>1. PICK k \in 0 .. used - 1 : result[k] = i
        BY <3>2, <2>2 DEF UniqueInv, ScanInv
      <4>2. k \in 0 .. used /\ result'[k] = i
        BY <4>1, <2>1, <2>2
      <4> QED
        BY <4>2
    <3> QED
      BY <3>1, <3>2, <2>2 DEF Index
  <2>11. ScanInv'
    <3>1. 0 .. used' - 1 = 0 .. used /\ Index' = Index
      BY <2>2 DEF Index
    <3>2. 1 <= used' /\ 1 <= ptr' /\ ptr' <= n' /\ prevX' = xs'[ptr' - 1]
      BY <2>2
    <3> QED
      BY <2>1, <2>2, <2>6, <2>8, <2>9, <2>10, <3>1, <3>2 DEF ScanInv
  <2> QED
    BY <2>4, <2>5, <2>11 DEF UniqueInv
<1>6. CASE EnlargingFails
  <2> USE <1>6 DEF EnlargingFails
  <2>1. TypeOK' /\ Sorted'
    BY DEF UniqueInv, TypeOK, Sorted, Index
  <2>2. ListsBlocks' /\ ErrorLeavesNothing'
    BY DEF UniqueInv, ScanInv, ListsBlocks, ErrorLeavesNothing
  <2> QED
    BY <2>1, <2>2 DEF UniqueInv, StartInv, ScanInv
<1>7. CASE AddGuard
  <2> USE <1>7 DEF AddGuard
  <2>1. /\ n \in Nat /\ ptr = n /\ used \in Nat /\ 1 <= used /\ used <= cap /\ cap \in Nat
        /\ result \in [0 .. cap -> Int] /\ block = "held"
    BY DEF UniqueInv, TypeOK, ScanInv
  <2>2. /\ result' \in [0 .. cap' -> Int] /\ result'[used] = Guard
        /\ \A k \in 0 .. used - 1 : result'[k] = result[k]
    BY <2>1 DEF Guard
  <2>3. TypeOK' /\ Sorted'
    BY <2>1, <2>2 DEF UniqueInv, TypeOK, Sorted, Index
  <2>4. \A i : StartsBlock(i)' <=> StartsBlock(i)
    BY DEF StartsBlock, Index
  <2>5. \A i \in Index : StartsBlock(i) => \E k \in 0 .. used - 1 : result[k] = i
    <3>1. \A i \in Index : i < ptr
      BY <2>1 DEF Index
    <3>2. pc = "scan" /\ ScanInv
      BY DEF UniqueInv
    <3> QED
      BY <3>1, <3>2 DEF ScanInv
  <2>6. \A k \in 0 .. used - 1 : StartsBlock(result[k])
    BY DEF UniqueInv, ScanInv
  <2>7. \A j, k \in 0 .. used - 1 : j < k => result[j] < result[k]
    BY DEF UniqueInv, ScanInv
  <2>8. ListsBlocks'
    <3>1. length' = used /\ block' = "held" /\ Index' = Index
      BY <2>1 DEF Index
    <3> QED
      BY <2>2, <2>4, <2>5, <2>6, <2>7, <3>1 DEF ListsBlocks
  <2>9. ErrorLeavesNothing'
    BY <2>1 DEF ErrorLeavesNothing, Unset
  <2> QED
    BY <2>3, <2>8, <2>9 DEF UniqueInv, StartInv, ScanInv
<1>8. CASE Finished \/ UNCHANGED vars
  <2> USE <1>8 DEF Finished, vars
  <2>1. TypeOK' /\ Sorted' /\ StartInv' /\ ErrorLeavesNothing'
    BY DEF UniqueInv, TypeOK, Sorted, StartInv, ErrorLeavesNothing, Index
  <2>2. ScanInv' /\ ListsBlocks'
    BY DEF UniqueInv, ScanInv, ListsBlocks, StartsBlock, Index
  <2> QED
    BY <2>1, <2>2 DEF UniqueInv
<1> QED
  BY <1>1, <1>2, <1>3, <1>4, <1>5, <1>6, <1>7, <1>8 DEF Next

(* The invariant holds in every reachable state, for all sorted data, all first
   capacities and whichever allocations fail.                                *)
THEOREM UniqueInvariance == Spec => []UniqueInv
  BY UniqueInit, UniqueStep, PTL DEF Spec

(* unique_element_pointers writes only to slots it has allocated: the doubling
   leaves room for the block that triggered it and for the guard.            *)
THEOREM UniqueSlotsSuffice == Spec => []SlotsSuffice
<1>1. UniqueInv => SlotsSuffice
  BY DEF UniqueInv, ScanInv, SlotsSuffice
<1> QED
  BY <1>1, UniqueInvariance, PTL

(* What it returns lists the starts of all blocks of equal values, in order,
   before the guard.                                                         *)
THEOREM UniqueListsBlocks == Spec => []ListsBlocks
<1>1. UniqueInv => ListsBlocks
  BY DEF UniqueInv
<1> QED
  BY <1>1, UniqueInvariance, PTL
----------------------------------------------------------------------------
(* What the list of the unique elements says to plfit_continuous.            *)
LEMMA ListFacts ==
  ASSUME UniqueInv, length # Unset, n > 0
  PROVE  /\ length \in Nat \ {0} /\ n \in Nat /\ result[0] = 0
         /\ \A u \in 0 .. length - 1 : result[u] \in 0 .. n - 1 /\ StartsBlock(result[u])
         /\ \A u \in 1 .. length - 1 : result[u] > 0
<1>1. length \in Nat /\ n \in Nat /\ 0 \in Index
  BY DEF UniqueInv, TypeOK, Index
<1>2. \A u \in 0 .. length - 1 : StartsBlock(result[u]) /\ result[u] \in 0 .. n - 1
  BY DEF UniqueInv, ListsBlocks, StartsBlock, Index
<1>3. PICK k \in 0 .. length - 1 : result[k] = 0
  BY <1>1 DEF UniqueInv, ListsBlocks, StartsBlock
<1>4. \A j, u \in 0 .. length - 1 : j < u => result[j] < result[u]
  BY DEF UniqueInv, ListsBlocks
<1>5. length \in Nat \ {0} /\ 0 \in 0 .. length - 1
  BY <1>1, <1>3
<1>6. result[0] = 0
  <2>1. CASE k = 0
    BY <1>3, <2>1
  <2>2. CASE k > 0
    BY <1>2, <1>3, <1>4, <1>5, <2>2
  <2> QED
    BY <2>1, <2>2
<1>7. \A u \in 1 .. length - 1 : result[u] > 0
  BY <1>2, <1>4, <1>5, <1>6
<1> QED
  BY <1>1, <1>2, <1>5, <1>6, <1>7

(* The points at or above a distinct value are those from its block on.      *)
LEMMA TailFacts ==
  ASSUME UniqueInv, length # Unset, n > 0, NEW u \in 0 .. length - 1
  PROVE  Cardinality({i \in Index : xs[i] >= xs[result[u]]}) = n - result[u]
<1> DEFINE r == result[u]
<1>1. n \in Nat /\ r \in 0 .. n - 1 /\ StartsBlock(r)
  BY ListFacts
<1>2. \A i \in 0 .. n - 1 : xs[i] \in Int
  BY UniqueAssumption DEF UniqueInv, TypeOK, Index
<1>3. \A i, j \in 0 .. n - 1 : i <= j => xs[i] <= xs[j]
  BY DEF UniqueInv, Sorted, Index
<1> HIDE DEF r
<1>4. r = 0 \/ xs[r - 1] # xs[r]
  BY <1>1 DEF StartsBlock
<1>5. \A i \in 0 .. n - 1 : i < r => xs[i] < xs[r]
  <2> SUFFICES ASSUME NEW i \in 0 .. n - 1, i < r PROVE xs[i] < xs[r]
    OBVIOUS
  <2>1. r - 1 \in 0 .. n - 1 /\ i <= r - 1 /\ r - 1 <= r /\ r # 0
    BY <1>1
  <2>2. xs[i] <= xs[r - 1] /\ xs[r - 1] <= xs[r] /\ xs[r - 1] # xs[r]
    BY <1>1, <1>3, <1>4, <2>1
  <2>3. xs[i] \in Int /\ xs[r - 1] \in Int /\ xs[r] \in Int
    BY <1>1, <1>2, <2>1
  <2> QED
    BY <2>2, <2>3
<1>6. {i \in 0 .. n - 1 : xs[i] >= xs[r]} = r .. n - 1
  <2>1. \A i \in r .. n - 1 : i \in 0 .. n - 1 /\ xs[i] >= xs[r]
    BY <1>1, <1>2, <1>3
  <2>2. \A i \in 0 .. n - 1 : xs[i] >= xs[r] => i \in r .. n - 1
    BY <1>1, <1>2, <1>5
  <2> QED
    BY <2>1, <2>2
<1>7. r \in Int /\ n - 1 \in Int /\ ~(r > n - 1) /\ (n - 1) - r + 1 = n - r
  BY <1>1
<1>8. Cardinality(r .. n - 1) = n - r
  BY <1>7, FS_Interval
<1> QED
  BY <1>6, <1>8 DEF r, Index

(* A scan whose probes are candidates stores one of them with its own fit and
   the number of points from it on; on positive data it is the best of them.
   It stores none only if none of them is positive.                          *)
LEMMA ScanFacts ==
  ASSUME UniqueInv, CandidateInv, at \in Searching, nonPos \in Nat,
         NEW first, NEW step, NEW count, Tried(first, step, count) \subseteq 0 .. length - 2,
         ScanStores(first, step, count)
  PROVE  /\ best' \in [D : Nat, xmin : Int, alpha : Int] /\ bestN' \in Int
         /\ best'.xmin # NoProbe =>
              /\ best'.xmin \in Tried(first, step, count)
              /\ best'.xmin >= nonPos => best'.alpha = best'.xmin
              /\ bestN' = n - result[best'.xmin]
         /\ best'.xmin = NoProbe => \A v \in Tried(first, step, count) : v < nonPos
         /\ (Tried(first, step, count) # {} /\ nonPos = 0) =>
              /\ best'.xmin \in Tried(first, step, count)
              /\ best'.D = ks[best'.xmin]
              /\ \A v \in Tried(first, step, count) : best'.D <= ks[v]
<1> DEFINE tried == Tried(first, step, count)
<1>1. length \in Nat \ {0} /\ n \in Nat /\ \A u \in 0 .. length - 1 : result[u] \in 0 .. n - 1
  BY ListFacts DEF CandidateInv
<1>2. ks \in [0 .. length - 1 -> Scores] /\ Scores \subseteq Nat /\ MaxD \in Nat
  BY ContinuousAssumption DEF CandidateInv
<1>3. CASE (\A v \in tried : v < nonPos) /\ best' = NoFit /\ bestN' = 0
  <2>1. nonPos = 0 => tried = {}
    <3>1. \A v \in tried : v \in Nat /\ v < nonPos
      BY <1>1, <1>3
    <3> QED
      BY <3>1
  <2>2. best' = [D |-> MaxD, xmin |-> -1, alpha |-> -1]
    BY <1>3 DEF NoFit, NoProbe
  <2> QED
    BY <1>2, <1>3, <2>1, <2>2 DEF NoProbe
<1>4. CASE \E u \in tried : \E fit \in FitsAt(u) :
             /\ fit.D < MaxD
             /\ \A v \in tried : v >= nonPos => fit.D <= ks[v]
             /\ best' = fit /\ bestN' = n - result[u]
  <2>1. PICK u \in tried : \E fit \in FitsAt(u) :
          /\ \A v \in tried : v >= nonPos => fit.D <= ks[v]
          /\ best' = fit /\ bestN' = n - result[u]
    BY <1>4
  <2>2. /\ best' \in FitsAt(u) /\ bestN' = n - result[u]
        /\ \A v \in tried : v >= nonPos => best'.D <= ks[v]
    BY <2>1
  <2>3. u \in 0 .. length - 1 /\ u \in Nat /\ ks[u] \in Scores /\ ks[u] \in Nat /\ result[u] \in Int
    <3>1. u \in 0 .. length - 2
      BY <2>1
    <3>2. u \in 0 .. length - 1 /\ u \in Nat
      BY <1>1, <3>1
    <3>3. ks[u] \in Scores
      BY <1>2, <3>2
    <3>4. ks[u] \in Nat
      BY <1>2, <3>3
    <3>5. result[u] \in Int
      BY <1>1, <3>2
    <3> QED
      BY <3>2, <3>3, <3>4, <3>5
  <2>4. /\ best'.xmin = u /\ best'.D \in Nat /\ best'.alpha \in Int
        /\ best' \in [D : Nat, xmin : Int, alpha : Int]
        /\ ~(u < nonPos) => best'.D = ks[u] /\ best'.alpha = u
    <3>1. CASE u < nonPos
      <4>1. best' \in [D : Scores \cup {MaxD}, xmin : {u}, alpha : {-1}]
        BY <2>2, <3>1 DEF FitsAt, NoProbe
      <4>2. best'.D \in Scores \cup {MaxD} /\ best'.xmin = u /\ best'.alpha = -1
        BY <4>1
      <4>3. {u} \subseteq Int /\ {-1} \subseteq Int
        BY <2>3
      <4>4. best' \in [D : Nat, xmin : Int, alpha : Int]
        BY <1>2, <4>1, <4>3
      <4> QED
        BY <1>2, <3>1, <4>2, <4>4
    <3>2. CASE ~(u < nonPos)
      BY <1>2, <2>2, <2>3, <3>2 DEF FitsAt
    <3> QED
      BY <3>1, <3>2
  <2>5. bestN' \in Int
    BY <1>1, <2>2, <2>3
  <2>6. nonPos = 0 => best'.D = ks[u] /\ \A v \in tried : best'.D <= ks[v]
    <3>1. \A v \in tried : v >= 0
      OBVIOUS
    <3> QED
      BY <2>2, <2>3, <2>4, <3>1
  <2>7. u >= nonPos => best'.alpha = u
    BY <2>3, <2>4
  <2>8. best'.xmin # NoProbe
    BY <2>3, <2>4 DEF NoProbe
  <2> QED
    BY <2>2, <2>4, <2>5, <2>6, <2>7, <2>8
<1> QED
  BY <1>3, <1>4 DEF ScanStores

(* The strata: at least two, within the distinct values; every one that is tried
   has a window that holds it.                                               *)
LEMMA StrataFacts ==
  ASSUME length \in Nat, UsesStrata
  PROVE  NumStrata \in Nat /\ NumStrata >= 2 /\ NumStrata * Subdivision <= length
<1>1. length >= 2 * Subdivision /\ Subdivision \in Nat \ {0} /\ length \in Int
  BY ContinuousAssumption DEF UsesStrata
<1> DEFINE q == length \div Subdivision
           r == length % Subdivision
<1>2. q \in Int
  BY <1>1
<1>3. r \in 0 .. Subdivision - 1
  BY <1>1
<1>4. length = Subdivision * q + r
  BY <1>1
<1> HIDE DEF q, r
<1>5. Subdivision * q \in Int /\ Subdivision * q = q * Subdivision
  BY <1>1, <1>2
<1>6. q < 2 => q * Subdivision <= Subdivision
  BY <1>1, <1>2
<1>7. q >= 2 /\ q * Subdivision <= length
  BY <1>1, <1>2, <1>3, <1>4, <1>5, <1>6
<1> QED
  BY <1>2, <1>7 DEF q, NumStrata

LEMMA StrataTried ==
  ASSUME length \in Nat, UsesStrata
  PROVE  /\ Tried(0, Subdivision, NumStrata) \subseteq 0 .. length - 2
         /\ \A c \in Tried(0, Subdivision, NumStrata) : \E i \in 0 .. NumStrata - 2 : c = i * Subdivision
         /\ Tried(0, Subdivision, NumStrata) # {}
<1>1. NumStrata \in Nat /\ NumStrata >= 2 /\ NumStrata * Subdivision <= length /\ Subdivision \in Nat /\ Subdivision >= 2
  BY StrataFacts, ContinuousAssumption
<1> DEFINE m == NumStrata
<1> HIDE DEF m
<1>2. m \in Nat /\ m >= 2 /\ m * Subdivision <= length /\ m * Subdivision \in Nat
  BY <1>1 DEF m
<1>3. ASSUME NEW k \in 0 .. m - 2
      PROVE  k * Subdivision \in 0 .. length - 2 /\ 0 + Subdivision * k = k * Subdivision
  <2>1. k * Subdivision \in Nat /\ Subdivision * k = k * Subdivision /\ (k + 1) * Subdivision = k * Subdivision + Subdivision
    BY <1>1
  <2>2. (k + 1) * Subdivision <= m * Subdivision /\ (k + 1) * Subdivision \in Nat
    BY <1>1, <1>2
  <2> QED
    BY <1>1, <1>2, <2>1, <2>2
<1>4. Tried(0, Subdivision, m) = {0 + Subdivision * k : k \in 0 .. m - 2}
  BY DEF Tried
<1>5. 0 \in 0 .. m - 2
  BY <1>2
<1> QED
  BY <1>3, <1>4, <1>5 DEF m

LEMMA WindowTried ==
  ASSUME length \in Nat, UsesStrata, NEW i \in 0 .. NumStrata - 1
  PROVE  /\ Tried(Window(i).first, 1, Window(i).count) \subseteq 0 .. length - 2
         /\ Window(i).count > 0
         /\ i # NumStrata - 1 => i * Subdivision \in Tried(Window(i).first, 1, Window(i).count)
<1>1. NumStrata \in Nat /\ NumStrata >= 2 /\ NumStrata * Subdivision <= length /\ Subdivision \in Nat /\ Subdivision >= 2
  BY StrataFacts, ContinuousAssumption
<1> DEFINE is == i * Subdivision
           w == Window(i)
           after == IF i = NumStrata - 1 THEN 0 ELSE Subdivision
<1>2. is \in Nat /\ (i + 1) * Subdivision = is + Subdivision /\ (i - 1) * Subdivision = is - Subdivision
      /\ (i + 2) * Subdivision = is + 2 * Subdivision
  BY <1>1
<1>3. NumStrata * Subdivision \in Nat /\ is + Subdivision <= NumStrata * Subdivision
  <2>1. (i + 1) * Subdivision <= NumStrata * Subdivision /\ NumStrata * Subdivision \in Nat
    BY <1>1
  <2> QED
    BY <1>2, <2>1
<1>4. i # NumStrata - 1 => is + 2 * Subdivision <= NumStrata * Subdivision
  <2>1. i # NumStrata - 1 => (i + 2) * Subdivision <= NumStrata * Subdivision
    BY <1>1
  <2> QED
    BY <1>2, <2>1
<1>5. is + Subdivision + after <= length
  BY <1>1, <1>2, <1>3, <1>4
<1>6. i = 0 => is = 0 /\ after = Subdivision
  BY <1>1
<1>7. i > 0 => is >= Subdivision
  BY <1>1
<1>8. /\ w.first = IF i = 0 THEN 0 ELSE is - Subdivision
      /\ w.count = (IF i = 0 THEN 0 ELSE Subdivision) + after
  BY <1>1, <1>2 DEF Window
<1>9. after \in {0, Subdivision} /\ (i # NumStrata - 1 => after = Subdivision)
  OBVIOUS
<1> HIDE DEF is, w, after
<1>10. w.first \in Nat /\ w.count \in Nat /\ w.count > 0 /\ w.first + w.count <= is + after
       /\ (after = Subdivision => w.first <= is /\ is - w.first <= w.count - 2)
  BY <1>1, <1>2, <1>6, <1>7, <1>8, <1>9
<1>11. Tried(w.first, 1, w.count) = {w.first + 1 * k : k \in 0 .. w.count - 2}
  BY DEF Tried
<1>12. \A k \in 0 .. w.count - 2 : w.first + 1 * k \in 0 .. length - 2
  BY <1>1, <1>2, <1>5, <1>9, <1>10
<1>13. after = Subdivision => is - w.first \in 0 .. w.count - 2 /\ is = w.first + 1 * (is - w.first)
  BY <1>2, <1>10
<1> QED
  BY <1>9, <1>10, <1>11, <1>12, <1>13 DEF is, w
----------------------------------------------------------------------------
(* plfit_continuous.  The initial state: the numbers of the blocks are sorted. *)
LEMMA FitStarts == FitInit => FitInv
<1> SUFFICES ASSUME FitInit PROVE FitInv
  OBVIOUS
<1>1. n \in 0 .. MaxLen /\ n \in Nat /\ MaxLen \in Nat
  BY UniqueAssumption DEF FitInit
<1>2. PICK rises \in SUBSET (1 .. n - 1) : xs = [i \in 0 .. n - 1 |-> Cardinality({j \in rises : j <= i})]
  BY DEF FitInit
<1>3. ASSUME NEW i \in 0 .. n - 1
      PROVE  /\ IsFiniteSet({j \in rises : j <= i})
             /\ Cardinality({j \in rises : j <= i}) \in 0 .. MaxLen - 1
  <2>1. n - 1 \in Int /\ (~(1 > n - 1) \/ n - 1 = 0)
    BY <1>1, <1>3
  <2>2. IsFiniteSet(1 .. n - 1) /\ Cardinality(1 .. n - 1) = n - 1
    <3>1. 1 \in Int /\ n - 1 \in Int
      BY <1>1
    <3>2. IsFiniteSet(1 .. n - 1) /\ Cardinality(1 .. n - 1) = IF 1 > n - 1 THEN 0 ELSE (n - 1) - 1 + 1
      BY <3>1, FS_Interval
    <3>3. (IF 1 > n - 1 THEN 0 ELSE (n - 1) - 1 + 1) = n - 1
      BY <1>1, <1>3
    <3> QED
      BY <3>2, <3>3
  <2> DEFINE T == {j \in rises : j <= i}
  <2>3. T \in SUBSET (1 .. n - 1)
    BY <1>2
  <2> HIDE DEF T
  <2>4. IsFiniteSet(T) /\ Cardinality(T) <= n - 1
    <3>1. IsFiniteSet(T) /\ Cardinality(T) <= Cardinality(1 .. n - 1)
      BY <2>2, <2>3, FS_Subset
    <3> QED
      BY <2>2, <3>1
  <2>5. Cardinality(T) \in Nat
    BY <2>4, FS_CardinalityType
  <2> QED
    BY <1>1, <2>4, <2>5 DEF T
<1>4. xs \in [0 .. n - 1 -> Values]
  BY <1>2, <1>3, ContinuousAssumption
<1>5. Sorted
  <2> SUFFICES ASSUME NEW i \in 0 .. n - 1, NEW j \in 0 .. n - 1, i <= j PROVE xs[i] <= xs[j]
    BY DEF Sorted, Index
  <2>1. {k \in rises : k <= i} \in SUBSET {k \in rises : k <= j}
    <3>1. i \in Int /\ j \in Int /\ \A k \in rises : k \in Int
      BY <1>1
    <3>2. \A k \in rises : k <= i => k <= j
      BY <3>1
    <3> QED
      BY <3>2
  <2>2. Cardinality({k \in rises : k <= i}) <= Cardinality({k \in rises : k <= j})
    BY <1>3, <2>1, FS_Subset
  <2> QED
    BY <1>2, <2>2
<1>6. UniqueInv
  <2> USE UniqueAssumption DEF FitInit, Called
  <2>1. TypeOK
    BY <1>1, <1>4 DEF TypeOK, Index, Garbage, Unset
  <2> QED
    BY <1>5, <2>1 DEF UniqueInv, StartInv, ScanInv, ListsBlocks, ErrorLeavesNothing
<1>7. FitTypeOK
  BY ContinuousAssumption DEF FitInit, FitTypeOK, NoFit, NoProbe, Searching
<1>8. HeapInv /\ CandidateInv /\ FoundInv /\ WindowInv /\ TailInv
  BY DEF FitInit, Called, HeapInv, CandidateInv, Searching, FoundInv, SuccessMeansFitted, WindowInv, WindowNotWorse, TailInv
<1> QED
  BY <1>6, <1>7, <1>8 DEF FitInv

LEMMA UniqueKept == ASSUME UniqueInv, UNCHANGED vars PROVE UniqueInv'
BY UniqueStep

(* Until the search begins there is nothing but memory to keep track of.     *)
LEMMA BeforeSearch ==
  ASSUME FitInv, RejectEmpty \/ CopyAndSort \/ UniqueElementPointers \/ FindUniques
  PROVE  FitInv'
<1> USE DEF FitInv
<1>1. UniqueInv'
  <2>1. [Next]_vars
    BY DEF RejectEmpty, CopyAndSort, UniqueElementPointers, FindUniques, Next
  <2> QED
    BY <2>1, UniqueStep
<1>2. /\ UNCHANGED <<nonPos, best, bestN, stratumBest, method>> /\ ret # "SUCCESS" /\ ret' # "SUCCESS"
      /\ at' \in {"returned", "uniques", "search"}
  BY DEF RejectEmpty, CopyAndSort, UniqueElementPointers, FindUniques, Goto, input, FoundInv
<1>3. FitTypeOK'
  BY <1>2 DEF FitTypeOK, Searching
<1>4. FoundInv' /\ WindowInv' /\ TailInv'
  BY <1>2 DEF FoundInv, SuccessMeansFitted, WindowInv, WindowNotWorse, TailInv
<1>5. HeapInv' /\ CandidateInv'
  <2>1. CASE RejectEmpty
    <3>1. block = "null"
      BY <2>1 DEF RejectEmpty, CandidateInv, UniqueInv, StartInv
    <3> QED
      BY <2>1, <3>1 DEF RejectEmpty, Goto, heap, vars, HeapInv, CandidateInv, Searching
  <2>2. CASE CopyAndSort
    <3>1. block = "null" /\ n > 0
      BY <2>2 DEF CopyAndSort, CandidateInv, UniqueInv, StartInv
    <3> QED
      BY <2>2, <3>1 DEF CopyAndSort, Goto, vars, HeapInv, CandidateInv, Searching
  <2>3. CASE UniqueElementPointers
    <3>1. UNCHANGED <<at, copy, uniques, strata, n>>
      BY <2>3 DEF UniqueElementPointers, heap, AllocateFirst, AllocationFails, SameBlock, NewBlock, EnlargingFails, AddGuard
    <3> QED
      BY <2>3, <3>1 DEF UniqueElementPointers, HeapInv, CandidateInv, Searching
  <2>4. CASE FindUniques
    <3>1. block = "held" <=> length # Unset
      BY <2>4 DEF FindUniques, UniqueInv, ErrorLeavesNothing
    <3> QED
      BY <2>4, <3>1 DEF FindUniques, Goto, vars, Freed, HeapInv, CandidateInv, Searching
  <2> QED
    BY <2>1, <2>2, <2>3, <2>4
<1> QED
  BY <1>1, <1>3, <1>4, <1>5

(* From the search on the list of candidates does not change.                *)
LEMMA SearchParts ==
  ASSUME FitInv, at \in Searching
  PROVE  /\ UniqueInv /\ FitTypeOK /\ HeapInv /\ CandidateInv /\ FoundInv /\ WindowInv /\ TailInv
         /\ pc = "returned" /\ length # Unset /\ n > 0 /\ length \in Nat \ {0} /\ n \in Nat
         /\ ks \in [0 .. length - 1 -> Scores]
<1>1. UniqueInv /\ pc = "returned" /\ length # Unset /\ n > 0 /\ ks \in [0 .. length - 1 -> Scores]
  BY DEF FitInv, CandidateInv
<1> QED
  BY <1>1, ListFacts DEF FitInv

LEMMA SearchFrame ==
  ASSUME FitInv, at \in Searching, UNCHANGED <<vars, input>>,
         at' \in Searching
  PROVE  /\ UniqueInv' /\ CandidateInv' /\ UsesStrata' = UsesStrata /\ UsesGss' = UsesGss
         /\ NumStrata' = NumStrata /\ \A i : Window(i)' = Window(i)
<1>1. UniqueInv'
  BY UniqueKept DEF FitInv
<1>2. CandidateInv'
  BY DEF FitInv, CandidateInv, vars, input, Searching
<1> QED
  BY <1>1, <1>2 DEF vars, input, UsesStrata, UsesGss, NumStrata, Window

LEMMA SearchGssKeeps == ASSUME FitInv, SearchGss PROVE FitInv'
<1>1. at = "search" /\ UsesGss /\ at' \in {"finish", "linear"} /\ at \in Searching /\ at' \in Searching /\ ret # "SUCCESS"
      /\ UNCHANGED <<vars, input, window, heap, ret, stratumBest>> /\ ~UsesStrata
  BY DEF SearchGss, Goto, Searching, FitInv, FoundInv, UsesGss, UsesStrata
<1>2. UniqueInv' /\ CandidateInv' /\ UsesStrata' = UsesStrata /\ UsesGss' = UsesGss
  BY <1>1, SearchFrame
<1>3. HeapInv'
  BY <1>1 DEF FitInv, HeapInv, heap
<1>4. WindowInv'
  BY <1>1, <1>2 DEF WindowInv, WindowNotWorse
<1>5. CASE at' = "linear"
  <2>1. best' = best /\ bestN' = bestN
    BY <1>5 DEF SearchGss, Goto
  <2>2. FitTypeOK'
    BY <1>1, <1>5, <2>1 DEF FitInv, FitTypeOK, input
  <2> QED
    BY <1>1, <1>2, <1>3, <1>4, <1>5, <2>2 DEF FitInv, FoundInv, SuccessMeansFitted, TailInv
<1>6. CASE at' = "finish"
  <2>1. PICK x \in 0 .. GssEnd, last \in 0 .. GssEnd : GssFinds(x, last) /\ best' \in FitsAt(last) /\ bestN' = GssTail(x)
    BY <1>6 DEF SearchGss, Goto
  <2>2. length \in Nat /\ n \in Nat /\ nonPos \in Nat /\ ks \in [0 .. length - 1 -> Scores]
        /\ \A u \in 0 .. length - 1 : result[u] \in 0 .. n - 1
    BY <1>1, SearchParts, ListFacts DEF FitTypeOK
  <2>3. x \in 0 .. length - 2 /\ last \in 0 .. length - 2
    BY <1>1, <2>1, <2>2, ContinuousAssumption DEF GssEnd
  <2>4. x \in 0 .. length - 1 /\ last \in 0 .. length - 1
    BY <2>2, <2>3
  <2>5. result[x] \in Int /\ result[x] \in 0 .. n - 1
    BY <2>2, <2>4
  <2>6. /\ best' \in [D : Nat, xmin : Int, alpha : Int]
        /\ best'.xmin = last /\ (last >= nonPos => best'.alpha = last)
    <3>1. ks[last] \in Scores /\ Scores \subseteq Nat
      BY <2>2, <2>4, ContinuousAssumption
    <3>2. CASE last < nonPos
      <4>1. best' \in [D : Scores \cup {MaxD}, xmin : {last}, alpha : {-1}]
        BY <2>1, <3>2 DEF FitsAt, NoProbe
      <4>2. {last} \subseteq Int /\ {-1} \subseteq Int /\ Scores \cup {MaxD} \subseteq Nat
        BY ContinuousAssumption
      <4>3. best' \in [D : Nat, xmin : Int, alpha : Int] /\ best'.xmin = last
        BY <3>1, <4>1, <4>2
      <4> QED
        BY <2>2, <2>4, <3>2, <4>3
    <3>3. CASE ~(last < nonPos)
      <4>1. best' \in [D : {ks[last]}, xmin : {last}, alpha : {last}]
        BY <2>1, <3>3 DEF FitsAt
      <4>2. ks[last] \in Nat
        BY <3>1
      <4>3. last \in Int
        BY <2>4
      <4> QED
        BY <4>1, <4>2, <4>3
    <3> QED
      BY <3>2, <3>3
  <2>7. FitTypeOK'
    BY <1>1, <1>6, <2>2, <2>1, <2>5, <2>6 DEF FitTypeOK, GssTail, input
  <2>8. FoundInv'
    <3>1. Found'
      BY <1>1, <2>3, <2>6 DEF Found, vars, input
    <3> QED
      BY <1>1, <1>6, <3>1 DEF FoundInv, SuccessMeansFitted
  <2>9. TailInv'
    <3>1. nonPos = 0 => last = x /\ 0 < x
      BY <2>1 DEF GssFinds
    <3>2. bestN' = n - result[x] + 1
      BY <2>1 DEF GssTail
    <3>3. nonPos = 0 => bestN' - (n - result[last]) = 1 /\ bestN' <= n
      <4>1. x > 0 => result[x] > 0
        BY <1>1, <2>4, SearchParts, ListFacts
      <4> DEFINE r == result[x]
      <4>2. nonPos = 0 => result[last] = r /\ r > 0
        BY <3>1, <4>1
      <4>3. n \in Int /\ r \in Int /\ bestN' = n - r + 1
        BY <2>2, <2>5, <3>2
      <4> HIDE DEF r
      <4>4. bestN' - (n - r) = 1 /\ (r > 0 => bestN' <= n)
        BY <4>3
      <4> QED
        BY <4>2, <4>4
    <3> QED
      BY <1>1, <1>2, <2>6, <3>3 DEF TailInv, vars, input
  <2> QED
    BY <1>2, <1>3, <1>4, <2>7, <2>8, <2>9 DEF FitInv
<1> QED
  BY <1>1, <1>5, <1>6
LEMMA SkipToLinearKeeps == ASSUME FitInv, SkipToLinear PROVE FitInv'
<1>1. at = "search" /\ at' = "linear" /\ at \in Searching /\ at' \in Searching /\ ret # "SUCCESS" /\ ~UsesStrata
      /\ UNCHANGED <<vars, input, best, bestN, window, heap, ret, stratumBest>>
  BY DEF SkipToLinear, Goto, Searching, FitInv, FoundInv
<1>2. UniqueInv' /\ CandidateInv' /\ UsesStrata' = UsesStrata
  BY <1>1, SearchFrame
<1>3. FitTypeOK' /\ HeapInv'
  BY <1>1 DEF FitInv, FitTypeOK, HeapInv, heap, input
<1>4. FoundInv' /\ WindowInv' /\ TailInv'
  BY <1>1, <1>2 DEF FoundInv, SuccessMeansFitted, WindowInv, WindowNotWorse, TailInv
<1> QED
  BY <1>2, <1>3, <1>4 DEF FitInv

LEMMA AllocateStrataKeeps == ASSUME FitInv, AllocateStrata PROVE FitInv'
<1>1. at = "search" /\ at \in Searching /\ ret # "SUCCESS" /\ ret' # "SUCCESS" /\ UsesStrata /\ at' \in {"strata", "returned"}
      /\ UNCHANGED <<vars, input, best, bestN, window, stratumBest>>
  BY DEF AllocateStrata, Goto, Searching, FitInv, FoundInv
<1>2. copy = "held" /\ uniques = "held" /\ strata = "null" /\ length # Unset
  BY <1>1 DEF FitInv, HeapInv, CandidateInv
<1>3. UniqueInv'
  BY <1>1, UniqueKept DEF FitInv
<1>4. FitTypeOK'
  BY <1>1 DEF FitInv, FitTypeOK, input, Searching
<1>5. HeapInv'
  BY <1>1, <1>2 DEF AllocateStrata, Goto, HeapInv, Freed, vars
<1>6. CandidateInv'
  BY <1>1 DEF FitInv, CandidateInv, Searching, vars, input
<1>7. FoundInv' /\ WindowInv' /\ TailInv'
  BY <1>1 DEF FoundInv, SuccessMeansFitted, WindowInv, WindowNotWorse, TailInv, UsesStrata, vars, input
<1> QED
  BY <1>3, <1>4, <1>5, <1>6, <1>7 DEF FitInv

LEMMA ScanStrataKeeps == ASSUME FitInv, ScanStrata PROVE FitInv'
<1>1. at = "strata" /\ at' = "locate" /\ at \in Searching /\ at' \in Searching /\ ret # "SUCCESS" /\ UsesStrata
      /\ UNCHANGED <<vars, input, window, heap, ret>> /\ stratumBest' = best'.D
  BY DEF ScanStrata, Goto, Searching, FitInv, FoundInv, WindowInv
<1>2. UniqueInv' /\ CandidateInv' /\ UsesStrata' = UsesStrata /\ NumStrata' = NumStrata
  BY <1>1, SearchFrame
<1>3. HeapInv'
  BY <1>1 DEF FitInv, HeapInv, heap
<1>4. /\ Tried(0, Subdivision, NumStrata) \subseteq 0 .. length - 2
      /\ \A c \in Tried(0, Subdivision, NumStrata) : \E i \in 0 .. NumStrata - 2 : c = i * Subdivision
      /\ Tried(0, Subdivision, NumStrata) # {}
  BY <1>1, SearchParts, StrataTried
<1>5. nonPos \in Nat /\ ScanStores(0, Subdivision, NumStrata)
  BY <1>1, SearchParts DEF ScanStrata, FitTypeOK
<1>6. /\ best' \in [D : Nat, xmin : Int, alpha : Int] /\ bestN' \in Int
      /\ best'.xmin # NoProbe => /\ best'.xmin \in Tried(0, Subdivision, NumStrata)
                                 /\ best'.xmin >= nonPos => best'.alpha = best'.xmin
      /\ best'.xmin = NoProbe => \A v \in Tried(0, Subdivision, NumStrata) : v < nonPos
      /\ nonPos = 0 => best'.D = ks[best'.xmin]
  BY <1>1, <1>4, <1>5, SearchParts, ScanFacts
<1>7. FitTypeOK'
  BY <1>1, <1>5, <1>6 DEF FitTypeOK, input
<1>8. FoundInv'
  <2>1. Found'
    BY <1>1, <1>4, <1>6 DEF Found, vars, input
  <2> QED
    BY <1>1, <2>1 DEF FoundInv, SuccessMeansFitted
<1>9. WindowInv'
  <2>1. CASE best'.xmin # NoProbe
    <3>1. PICK i \in 0 .. NumStrata - 2 : best'.xmin = i * Subdivision
      BY <1>4, <1>6, <2>1
    <3>2. nonPos = 0 => best'.D = ks[i * Subdivision] /\ stratumBest' = best'.D
      BY <1>1, <1>6, <3>1
    <3>3. i \in 0 .. NumStrata' - 2 /\ best'.xmin = i * Subdivision /\ at' # "window"
          /\ (nonPos' = 0 => best'.D = ks'[i * Subdivision] /\ stratumBest' = best'.D)
      BY <1>1, <1>2, <3>1, <3>2 DEF input
    <3> QED
      BY <1>1, <1>2, <3>3 DEF WindowInv, WindowNotWorse
  <2>2. CASE best'.xmin = NoProbe
    <3>1. PICK v \in Tried(0, Subdivision, NumStrata) : v < nonPos
      BY <1>4, <1>6, <2>2
    <3>2. v \in 0 .. length - 2 /\ v \in Nat
      BY <1>4
    <3>3. nonPos > 0
      BY <1>5, <3>1, <3>2
    <3> QED
      BY <1>1, <1>2, <2>2, <3>3 DEF WindowInv, WindowNotWorse, input, NoProbe
  <2> QED
    BY <2>1, <2>2
<1>10. TailInv'
  BY <1>1 DEF TailInv
<1> QED
  BY <1>2, <1>3, <1>7, <1>8, <1>9, <1>10 DEF FitInv

(* The best stratum is found again among the strata, so that a stratified search
   falls back to the linear one only if no stratum has been chosen.          *)
LEMMA ChosenStratumHit ==
  ASSUME NumStrata \in Nat, Subdivision \in Nat \ {0}, NEW i \in 0 .. NumStrata - 2, best.xmin = i * Subdivision
  PROVE  StrataHit = {i}
<1>1. best.xmin # NoProbe /\ i \in 0 .. NumStrata - 1
  <2>1. i * Subdivision \in Nat
    OBVIOUS
  <2> QED
    BY <2>1 DEF NoProbe
<1>2. i \in StrataHit
  BY <1>1 DEF StrataHit
<1>3. ASSUME NEW j \in StrataHit PROVE j = i
  <2>1. j * Subdivision = i * Subdivision /\ j \in Nat /\ i \in Nat
    BY <1>1 DEF StrataHit
  <2>2. (j < i => (i - j) * Subdivision > 0) /\ (i < j => (j - i) * Subdivision > 0)
    BY <2>1
  <2>3. (i - j) * Subdivision = i * Subdivision - j * Subdivision /\ (j - i) * Subdivision = j * Subdivision - i * Subdivision
        /\ i * Subdivision \in Int
    BY <2>1
  <2> QED
    BY <2>1, <2>2, <2>3
<1> QED
  BY <1>2, <1>3

LEMMA LocateStratumKeeps == ASSUME FitInv, LocateStratum PROVE FitInv'
<1>1. at = "locate" /\ at \in Searching /\ at' \in {"window", "linear"} /\ at' \in Searching
      /\ ret # "SUCCESS" /\ UsesStrata /\ UNCHANGED <<vars, input, best, bestN, copy, uniques, ret, stratumBest>>
      /\ strata' = FreedAndCleared(strata) /\ at' = (IF window'.count > 0 THEN "window" ELSE "linear")
  BY DEF LocateStratum, Goto, Searching, FitInv, FoundInv, WindowInv
<1>2. UniqueInv' /\ CandidateInv' /\ UsesStrata' = UsesStrata /\ NumStrata' = NumStrata /\ \A i : Window(i)' = Window(i)
  BY <1>1, SearchFrame
<1>3. NumStrata \in Nat /\ Subdivision \in Nat \ {0}
  BY <1>1, SearchParts, StrataFacts, ContinuousAssumption
<1>4. FitTypeOK' /\ HeapInv'
  BY <1>1 DEF FitInv, FitTypeOK, HeapInv, FreedAndCleared, vars, input
<1>5. FoundInv' /\ TailInv'
  BY <1>1 DEF FoundInv, SuccessMeansFitted, TailInv
<1>6. WindowInv'
  <2>1. CASE best.xmin # NoProbe
    <3>1. PICK i \in 0 .. NumStrata - 2 :
            best.xmin = i * Subdivision /\ (nonPos = 0 => best.D = ks[i * Subdivision] /\ stratumBest = best.D)
      BY <1>1, <2>1 DEF FitInv, WindowInv
    <3>2. StrataHit = {i}
      BY <1>3, <3>1, ChosenStratumHit
    <3>3. window' = Window(i)
      BY <2>1, <3>2 DEF LocateStratum
    <3>4. i \in 0 .. NumStrata - 1
      BY <1>3
    <3>5. at' = "window"
      BY <1>1, <3>3, <3>4, SearchParts, WindowTried
    <3>6. i \in 0 .. NumStrata' - 2 /\ best'.xmin = i * Subdivision /\ window' = Window(i)'
          /\ (nonPos' = 0 => best'.D = ks'[i * Subdivision] /\ stratumBest' = best'.D)
      BY <1>1, <1>2, <3>1, <3>3 DEF input
    <3> QED
      BY <1>1, <1>2, <3>5, <3>6 DEF WindowInv, WindowNotWorse
  <2>2. CASE best.xmin = NoProbe
    <3>1. nonPos > 0
      <4>1. ASSUME NEW i \in 0 .. NumStrata - 2 PROVE i * Subdivision # NoProbe
        <5>1. i * Subdivision \in Nat
          BY <1>3
        <5> QED
          BY <5>1 DEF NoProbe
      <4> QED
        BY <1>1, <2>2, <4>1 DEF FitInv, WindowInv
    <3>2. at' = "window" => \E i \in 0 .. NumStrata - 1 : window' = Window(i)
      BY <1>1 DEF LocateStratum, StrataHit
    <3> QED
      BY <1>1, <1>2, <2>2, <3>1, <3>2 DEF WindowInv, WindowNotWorse, input, NoProbe
  <2> QED
    BY <2>1, <2>2
<1> QED
  BY <1>2, <1>4, <1>5, <1>6 DEF FitInv

(* Both final scans leave a fit of their own and the points from it on.      *)
LEMMA FinalScan ==
  ASSUME FitInv, at \in Searching, at' = "finish", ret # "SUCCESS",
         UNCHANGED <<vars, input, window, heap, ret, stratumBest>>,
         copy = "held", uniques = "held", strata = "null",
         NEW first, NEW step, NEW count, Tried(first, step, count) \subseteq 0 .. length - 2,
         ScanStores(first, step, count),
         (UsesStrata /\ nonPos = 0) => best'.D <= stratumBest
  PROVE  FitInv'
<1>1. UniqueInv' /\ CandidateInv' /\ UsesStrata' = UsesStrata /\ UsesGss' = UsesGss
  BY SearchFrame DEF Searching
<1>2. nonPos \in Nat /\ length \in Nat /\ n \in Nat
      /\ \A u \in 0 .. length - 1 : result[u] \in 0 .. n - 1
  BY SearchParts, ListFacts DEF FitTypeOK
<1>3. /\ best' \in [D : Nat, xmin : Int, alpha : Int] /\ bestN' \in Int
      /\ best'.xmin # NoProbe => /\ best'.xmin \in Tried(first, step, count)
                                 /\ best'.xmin >= nonPos => best'.alpha = best'.xmin
                                 /\ bestN' = n - result[best'.xmin]
  BY <1>2, SearchParts, ScanFacts
<1>4. FitTypeOK' /\ HeapInv'
  BY <1>2, <1>3 DEF FitTypeOK, HeapInv, Searching, heap, input
<1>5. FoundInv'
  <2>1. Found'
    BY <1>3 DEF Found, vars, input
  <2> QED
    BY <2>1 DEF FoundInv, SuccessMeansFitted
<1>6. WindowInv'
  BY <1>1 DEF WindowInv, WindowNotWorse, input
<1>7. TailInv'
  <2> SUFFICES ASSUME best'.xmin # NoProbe
               PROVE  bestN' = n - result[best'.xmin] /\ bestN' - (n - result[best'.xmin]) = 0 /\ bestN' <= n
    BY DEF TailInv, vars, input
  <2> DEFINE r == result[best'.xmin]
  <2>1. best'.xmin \in 0 .. length - 1
    BY <1>2, <1>3
  <2>2. r \in 0 .. n - 1 /\ bestN' = n - r
    BY <1>2, <1>3, <2>1
  <2> HIDE DEF r
  <2>3. bestN' = n - r /\ bestN' - (n - r) = 0 /\ bestN' <= n
    BY <1>2, <2>2
  <2> QED
    BY <2>3 DEF r
<1> QED
  BY <1>1, <1>4, <1>5, <1>6, <1>7 DEF FitInv

LEMMA ScanWindowKeeps == ASSUME FitInv, ScanWindow PROVE FitInv'
<1>1. at = "window" /\ at \in Searching /\ at' = "finish" /\ ret # "SUCCESS" /\ UsesStrata
      /\ UNCHANGED <<vars, input, window, heap, ret, stratumBest>>
      /\ copy = "held" /\ uniques = "held" /\ strata = "null"
  BY DEF ScanWindow, Goto, Searching, FitInv, FoundInv, WindowInv, HeapInv
<1>2. PICK i \in 0 .. NumStrata - 1 :
        /\ window = Window(i)
        /\ nonPos = 0 => i # NumStrata - 1 /\ best.D = ks[i * Subdivision] /\ stratumBest = best.D
  <2>1. NumStrata \in Nat
    BY <1>1, SearchParts, StrataFacts
  <2>2. CASE \E i \in 0 .. NumStrata - 2 :
               window = Window(i) /\ (nonPos = 0 => best.D = ks[i * Subdivision] /\ stratumBest = best.D)
    <3>1. \A i \in 0 .. NumStrata - 2 : i \in 0 .. NumStrata - 1 /\ i # NumStrata - 1
      BY <2>1
    <3> QED
      BY <2>2, <3>1
  <2>3. CASE nonPos > 0 /\ \E i \in 0 .. NumStrata - 1 : window = Window(i)
    <3>1. nonPos # 0
      BY <2>3
    <3> QED
      BY <2>3, <3>1
  <2> QED
    BY <1>1, <2>2, <2>3 DEF FitInv, WindowInv
<1>3. /\ Tried(window.first, 1, window.count) \subseteq 0 .. length - 2
      /\ nonPos = 0 => i * Subdivision \in Tried(window.first, 1, window.count)
  BY <1>1, <1>2, SearchParts, WindowTried
<1>4. ScanStores(window.first, 1, window.count) /\ nonPos \in Nat
  BY <1>1, SearchParts DEF ScanWindow, FitTypeOK
<1>5. nonPos = 0 => best'.D <= stratumBest
  <2>1. nonPos = 0 => \A v \in Tried(window.first, 1, window.count) : best'.D <= ks[v]
    BY <1>1, <1>3, <1>4, SearchParts, ScanFacts
  <2> QED
    BY <1>2, <1>3, <2>1
<1> QED
  BY <1>1, <1>3, <1>4, <1>5, FinalScan

LEMMA ScanLinearKeeps == ASSUME FitInv, ScanLinear PROVE FitInv'
<1>1. at = "linear" /\ at \in Searching /\ at' = "finish" /\ ret # "SUCCESS" /\ ~(UsesStrata /\ nonPos = 0)
      /\ UNCHANGED <<vars, input, window, heap, ret, stratumBest>>
      /\ copy = "held" /\ uniques = "held" /\ strata = "null" /\ ScanStores(0, 1, length)
  BY DEF ScanLinear, Goto, Searching, FitInv, FoundInv, WindowInv, HeapInv
<1>2. Tried(0, 1, length) \subseteq 0 .. length - 2
  <2>1. length \in Nat
    BY <1>1, SearchParts
  <2>2. \A k \in 0 .. length - 2 : 0 + 1 * k = k
    BY <2>1
  <2> QED
    BY <2>2 DEF Tried
<1> QED
  BY <1>1, <1>2, FinalScan

(* The end: the cutoff is accepted or refused, and everything is given back.  *)
LEMMA FinishKeeps == ASSUME FitInv, Finish PROVE FitInv'
<1>1. at = "finish" /\ at \in Searching /\ at' \in {"pvalue", "cleanup"} /\ at' \in Searching
      /\ ret # "SUCCESS" /\ ret' # "SUCCESS" /\ (at' = "pvalue" => LikelihoodAccepts)
      /\ UNCHANGED <<vars, input, best, bestN, window, copy, strata, stratumBest>>
      /\ uniques' = FreedAndCleared(uniques)
  BY DEF Finish, Goto, Searching, FitInv, FoundInv
<1>2. UniqueInv' /\ CandidateInv' /\ UsesStrata' = UsesStrata
  BY <1>1, SearchFrame
<1>3. FitTypeOK' /\ HeapInv'
  BY <1>1 DEF FitInv, FitTypeOK, HeapInv, FreedAndCleared, input
<1>4. FoundInv'
  <2>1. Found' /\ (at' = "pvalue" => LikelihoodAccepts')
    BY <1>1 DEF FitInv, FoundInv, Found, LikelihoodAccepts, vars, input
  <2> QED
    BY <1>1, <2>1 DEF FoundInv, SuccessMeansFitted
<1>5. WindowInv' /\ TailInv'
  BY <1>1, <1>2 DEF FitInv, WindowInv, WindowNotWorse, TailInv, input
<1> QED
  BY <1>2, <1>3, <1>4, <1>5 DEF FitInv

LEMMA PValueKeeps == ASSUME FitInv, PValue PROVE FitInv'
<1>1. at = "pvalue" /\ at \in Searching /\ at' = "cleanup" /\ at' \in Searching
      /\ UNCHANGED <<vars, input, best, bestN, window, heap, stratumBest>>
  BY DEF PValue, Goto, Searching
<1>2. UniqueInv' /\ CandidateInv' /\ UsesStrata' = UsesStrata
  BY <1>1, SearchFrame
<1>3. FitTypeOK' /\ HeapInv'
  BY <1>1 DEF FitInv, FitTypeOK, HeapInv, heap, input
<1>4. best.xmin >= nonPos /\ best.alpha = best.xmin /\ best.xmin < length - 1
  <2>1. Found /\ best.xmin # NoProbe /\ best.xmin >= nonPos
    BY <1>1 DEF FitInv, FoundInv, LikelihoodAccepts
  <2>2. best.xmin \in 0 .. length - 2 /\ length \in Nat
    BY <1>1, <2>1, SearchParts DEF Found
  <2> QED
    BY <2>1, <2>2 DEF Found
<1>5. FoundInv'
  BY <1>1, <1>4 DEF FoundInv, SuccessMeansFitted, vars, input
<1>6. WindowInv' /\ TailInv'
  BY <1>1, <1>2 DEF FitInv, WindowInv, WindowNotWorse, TailInv, input
<1> QED
  BY <1>2, <1>3, <1>5, <1>6 DEF FitInv

LEMMA CleanupKeeps == ASSUME FitInv, Cleanup PROVE FitInv'
<1>1. at = "cleanup" /\ at' = "returned" /\ UNCHANGED <<vars, input, best, bestN, window, ret, stratumBest>>
      /\ strata' = Freed(strata) /\ uniques' = Freed(uniques) /\ copy' = Freed(copy)
  BY DEF Cleanup, Goto
<1>2. copy = "held" /\ uniques = "null" /\ strata = "null" /\ length # Unset
  BY <1>1 DEF FitInv, HeapInv, CandidateInv, Searching
<1>3. UniqueInv'
  BY <1>1, UniqueKept DEF FitInv
<1>4. FitTypeOK' /\ HeapInv' /\ CandidateInv' /\ TailInv'
  BY <1>1, <1>2 DEF FitInv, FitTypeOK, HeapInv, Freed, CandidateInv, TailInv, Searching, vars, input
<1>5. FoundInv' /\ WindowInv'
  BY <1>1 DEF FitInv, FoundInv, SuccessMeansFitted, WindowInv, WindowNotWorse, UsesStrata, vars, input
<1> QED
  BY <1>3, <1>4, <1>5 DEF FitInv

LEMMA FitStutters == ASSUME FitInv, UNCHANGED fitVars PROVE FitInv'
<1> USE DEF FitInv, fitVars, vars, input, heap
<1>1. UniqueInv'
  BY UniqueKept
<1>2. FitTypeOK' /\ HeapInv' /\ CandidateInv'
  BY DEF FitTypeOK, HeapInv, CandidateInv
<1>3. FoundInv' /\ TailInv'
  BY DEF FoundInv, Found, LikelihoodAccepts, SuccessMeansFitted, TailInv, UsesGss
<1>4. WindowInv'
  BY DEF WindowInv, WindowNotWorse, UsesStrata, NumStrata, Window
<1> QED
  BY <1>1, <1>2, <1>3, <1>4

LEMMA FitStep == FitInv /\ [FitNext]_fitVars => FitInv'
<1> SUFFICES ASSUME FitInv, [FitNext]_fitVars PROVE FitInv'
  OBVIOUS
<1>1. CASE RejectEmpty \/ CopyAndSort \/ UniqueElementPointers \/ FindUniques
  BY <1>1, BeforeSearch
<1>2. CASE SearchGss \/ SkipToLinear \/ AllocateStrata \/ ScanStrata \/ LocateStratum \/ ScanWindow \/ ScanLinear
  BY <1>2, SearchGssKeeps, SkipToLinearKeeps, AllocateStrataKeeps, ScanStrataKeeps, LocateStratumKeeps,
     ScanWindowKeeps, ScanLinearKeeps
<1>3. CASE Finish \/ PValue \/ Cleanup
  BY <1>3, FinishKeeps, PValueKeeps, CleanupKeeps
<1>4. CASE FitReturned \/ UNCHANGED fitVars
  BY <1>4, FitStutters DEF FitReturned
<1> QED
  BY <1>1, <1>2, <1>3, <1>4 DEF FitNext

(* The inductive invariant of plfit_continuous.                              *)
THEOREM FitInvariance == FitSpec => []FitInv
BY FitStarts, FitStep, PTL DEF FitSpec

(* What plfit_continuous builds its candidates on is the list of the blocks.  *)
THEOREM FitListsBlocks == FitSpec => []ListsBlocks
<1>1. FitInv => ListsBlocks
  BY DEF FitInv, UniqueInv
<1> QED
  BY <1>1, FitInvariance, PTL

(* Every way out frees what was allocated, once.                             *)
THEOREM FitHeapClean == FitSpec => []HeapClean
<1>1. FitInv => HeapClean
  BY DEF FitInv, HeapInv, HeapClean
<1> QED
  BY <1>1, FitInvariance, PTL

(* The second scan of the stratified search never loses the best stratum.    *)
THEOREM FitWindow == FitSpec => []WindowNotWorse
<1>1. FitInv => WindowNotWorse
  BY DEF FitInv, WindowInv
<1> QED
  BY <1>1, FitInvariance, PTL

(* A success has a cutoff with an exponent of its own.                       *)
THEOREM FitSuccess == FitSpec => []SuccessMeansFitted
<1>1. FitInv => SuccessMeansFitted
  BY DEF FitInv, FoundInv
<1> QED
  BY <1>1, FitInvariance, PTL

(* The tail of the likelihood is that of the cutoff.                         *)
THEOREM FitTail == FitSpec => []TailCounted
<1>1. ASSUME FitInv PROVE TailCounted
  <2> SUFFICES ASSUME at = "finish", best.xmin # NoProbe
               PROVE  /\ ~UsesGss => bestN = TailLength
                      /\ nonPos = 0 => bestN - TailLength \in {0, 1} /\ bestN <= n
    BY DEF TailCounted
  <2>1. at \in Searching /\ Found
    BY <1>1 DEF Searching, FitInv, FoundInv
  <2>2. best.xmin \in 0 .. length - 1
    BY <1>1, <2>1, SearchParts DEF Found
  <2>3. TailLength = n - result[best.xmin]
    BY <1>1, <2>1, <2>2, SearchParts, TailFacts DEF TailLength
  <2> QED
    BY <1>1, <2>3 DEF FitInv, TailInv
<1> QED
  BY <1>1, FitInvariance, PTL
=============================================================================
