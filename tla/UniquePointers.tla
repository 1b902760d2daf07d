--------------------------- MODULE UniquePointers ---------------------------
(* unique_element_pointers (src/plfit.c): the candidate cutoffs of
   plfit_continuous, one pointer to the start of each block of equal values of
   the sorted data, in an array that grows as blocks are found and ends with a
   null guard.  A pointer is an index of the data.                           *)
EXTENDS Integers, FiniteSets

CONSTANTS
  Values,        \* data values
  MaxLen,        \* bound on the number of data points
  FirstCapacity, \* num_elts before the first enlargement: 15
  MayFail        \* whether calloc and realloc may fail

ASSUME UniqueAssumption ==
  /\ Values \subseteq Int
  /\ MaxLen \in Nat /\ FirstCapacity \in Nat \ {0}
  /\ MayFail \in BOOLEAN

VARIABLES
  n, xs,         \* the sorted data: begin .. end
  pc,
  ptr, prevX,    \* the scan, and the value of the current block
  cap,           \* num_elts
  used,          \* used_elts
  result,        \* the slots 0 .. cap of the array: an index, Guard or Garbage
  block,         \* "null", "held" or "freed"
  length         \* *result_length as the caller sees it, or Unset

vars == <<n, xs, pc, ptr, prevX, cap, used, result, block, length>>

Guard   == -1
Garbage == -2
Unset   == -1
Index   == 0 .. n - 1

Called ==
  /\ pc = "alloc"
  /\ ptr = 0 /\ prevX = 0
  /\ cap = FirstCapacity /\ used = 0
  /\ result = [k \in 0 .. FirstCapacity |-> Garbage]
  /\ block = "null"
  /\ length = Unset

Init ==
  /\ n \in 0 .. MaxLen
  /\ xs \in {f \in [0 .. n - 1 -> Values] : \A i, j \in 0 .. n - 1 : i <= j => f[i] <= f[j]}
  /\ Called

(* The allocation of an empty result or of the first chunk; in the second case
   the first element starts the first block.                                 *)
AllocateEmpty ==
  /\ pc = "alloc" /\ n = 0
  /\ cap' = 0
  /\ result' = [k \in 0 .. 0 |-> Guard]
  /\ block' = "held" /\ length' = 0
  /\ pc' = "returned"
  /\ UNCHANGED <<n, xs, ptr, prevX, used>>

AllocateFirst ==
  /\ pc = "alloc" /\ n > 0
  /\ block' = "held"
  /\ prevX' = xs[0]
  /\ result' = [result EXCEPT ![0] = 0]
  /\ used' = 1 /\ ptr' = 1
  /\ pc' = "scan"
  /\ UNCHANGED <<n, xs, cap, length>>

AllocationFails ==
  /\ pc = "alloc" /\ MayFail
  /\ pc' = "returned"
  /\ UNCHANGED <<n, xs, ptr, prevX, cap, used, result, block, length>>

SameBlock ==
  /\ pc = "scan" /\ ptr < n /\ xs[ptr] = prevX
  /\ ptr' = ptr + 1
  /\ UNCHANGED <<n, xs, pc, prevX, cap, used, result, block, length>>

(* A new block is stored, after the array was enlarged if it is full.        *)
Full == used >= cap

Enlarged ==
  [k \in 0 .. 2 * cap + 1 |-> IF k <= cap THEN result[k] ELSE Garbage]

\* Mutant: the value of the block is not remembered.
NewBlockForgotten ==
  /\ pc = "scan" /\ ptr < n /\ xs[ptr] # prevX
  /\ LET old == IF Full THEN Enlarged ELSE result
     IN  result' = [old EXCEPT ![used] = ptr]
  /\ cap' = IF Full THEN 2 * cap + 1 ELSE cap
  /\ used' = used + 1
  /\ ptr' = ptr + 1
  /\ UNCHANGED <<n, xs, pc, prevX, block, length>>

NewBlock ==
  /\ pc = "scan" /\ ptr < n /\ xs[ptr] # prevX
  /\ LET old == IF Full THEN Enlarged ELSE result
     IN  result' = [old EXCEPT ![used] = ptr]
  /\ cap' = IF Full THEN 2 * cap + 1 ELSE cap
  /\ used' = used + 1
  /\ prevX' = xs[ptr]
  /\ ptr' = ptr + 1
  /\ UNCHANGED <<n, xs, pc, block, length>>

(* realloc fails: the old array is given back and the caller is told nothing
   of the length.                                                            *)
EnlargingFails ==
  /\ pc = "scan" /\ ptr < n /\ xs[ptr] # prevX /\ Full
  /\ MayFail
  /\ block' = "freed"
  /\ pc' = "returned"
  /\ UNCHANGED <<n, xs, ptr, prevX, cap, used, result, length>>

AddGuard ==
  /\ pc = "scan" /\ ptr >= n
  /\ length' = used
  /\ result' = [result EXCEPT ![used] = Guard]
  /\ used' = used + 1
  /\ pc' = "returned"
  /\ UNCHANGED <<n, xs, ptr, prevX, cap, block>>

Finished == pc = "returned" /\ UNCHANGED vars

Next ==
  \/ AllocateEmpty \/ AllocateFirst \/ AllocationFails
  \/ SameBlock \/ NewBlock \/ EnlargingFails \/ AddGuard \/ Finished

Spec == Init /\ [][Next]_vars

----------------------------------------------------------------------------
(* Type invariant.                                                           *)
TypeOK ==
  /\ n \in Nat
  /\ xs \in [Index -> Values]
  /\ pc \in {"alloc", "scan", "returned"}
  /\ ptr \in Nat /\ prevX \in Int
  /\ cap \in Nat /\ used \in Nat
  /\ result \in [0 .. cap -> Int]
  /\ block \in {"null", "held", "freed"}
  /\ length \in Nat \cup {Unset}

(* Every write goes to a slot that was allocated, the one of the guard
   included: the array is never longer than what calloc or realloc gave.     *)
SlotsSuffice == pc = "scan" => used <= cap

StartsBlock(i) == i \in Index /\ (i = 0 \/ xs[i - 1] # xs[i])

(* What plfit_continuous builds its candidates on: the array lists, in order,
   the starts of all the blocks of equal values and nothing else, then the
   guard; and the length that was reported counts them.                      *)
ListsBlocks ==
  length # Unset =>
    /\ block = "held"
    /\ result[length] = Guard
    /\ \A k \in 0 .. length - 1 : StartsBlock(result[k])
    /\ \A j, k \in 0 .. length - 1 : j < k => result[j] < result[k]
    /\ \A i \in Index : StartsBlock(i) => \E k \in 0 .. length - 1 : result[k] = i

(* "It is left unchanged if the function returns with an error": the caller
   either gets an array and its length, or neither and no memory is lost.    *)
ErrorLeavesNothing == pc = "returned" => (block = "held" <=> length # Unset)

(* The inductive invariant: the same for the part of the data scanned so far. *)
Sorted == \A i, j \in Index : i <= j => xs[i] <= xs[j]

ScanInv ==
  pc = "scan" =>
    /\ block = "held" /\ length = Unset
    /\ 1 <= used /\ used <= cap
    /\ 1 <= ptr /\ ptr <= n
    /\ prevX = xs[ptr - 1]
    /\ \A k \in 0 .. used - 1 : StartsBlock(result[k]) /\ result[k] < ptr
    /\ \A j, k \in 0 .. used - 1 : j < k => result[j] < result[k]
    /\ \A i \in Index : (StartsBlock(i) /\ i < ptr) => \E k \in 0 .. used - 1 : result[k] = i

StartInv == pc = "alloc" => cap = FirstCapacity /\ used = 0 /\ block = "null" /\ length = Unset

UniqueInv == TypeOK /\ Sorted /\ StartInv /\ ScanInv /\ ListsBlocks /\ ErrorLeavesNothing
=============================================================================
