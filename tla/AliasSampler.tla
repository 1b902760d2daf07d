---------------------------- MODULE AliasSampler ----------------------------
(* The Walker alias sampler (src/sampling.c): plfit_walker_alias_sampler_init
   builds the table, _sample draws from it and _destroy frees it.

   A probability is an integer number of grains, One of them making up 1, or NaN.
   A multiplication, and the addition and subtraction of a pairing, may be off by
   a grain in either direction, as rounding may; multiples of 0 are exact.     *)
EXTENDS Integers, Sequences, FiniteSetsExt

CONSTANTS
  NumBins,       \* n
  Grains,        \* grains per unit of weight: how fine the rounding is
  Rounding,      \* rounding errors, in grains: a subset of {-1, 0, 1}
  FailingAllocs  \* allocations that may fail

ASSUME AliasAssumption ==
  /\ NumBins \in Nat \ {0}
  /\ Rounding \subseteq {-1, 0, 1} /\ 0 \in Rounding
  /\ Grains \in Nat /\ Grains > 2 * NumBins

Bins == 0 .. NumBins - 1
Inf  == -2
NaN  == -1

VARIABLES
  ps,            \* the weights given: natural numbers, Inf or NaN
  step,          \* control
  probs, indexes,             \* the table
  shorts, longs,              \* the stacks of bins below and above 1
  shortRoom, longRoom,        \* their allocated lengths
  blocks         \* state of the allocations

table   == <<probs, indexes>>
sticks  == <<shorts, longs, shortRoom, longRoom>>
sampler == <<ps, step, table, sticks, blocks>>

SamplerBlocks == {"indexes", "probs", "long_sticks", "short_sticks"}

InitSampler(names) ==
  /\ ps = [b \in Bins |-> 0]
  /\ step = "idle"
  /\ probs = [b \in Bins |-> 0] /\ indexes = [b \in Bins |-> 0]
  /\ shorts = <<>> /\ longs = <<>> /\ shortRoom = 0 /\ longRoom = 0
  /\ blocks = [b \in names |-> "null"]

(* free(p): a block that is not held is corrupted by another free.           *)
Freed(heap, names) ==
  [b \in DOMAIN heap |-> IF b \notin names \/ heap[b] = "null" THEN heap[b]
                         ELSE IF heap[b] = "held" THEN "dangling" ELSE "corrupt"]

Total == SumFunctionOnSet(ps, Bins)
Finite == \A b \in Bins : ps[b] \notin {Inf, NaN}
One   == IF Finite THEN Grains * Total ELSE Grains

IsShort(p) == p # NaN /\ p < One
IsLong(p)  == p # NaN /\ p > One

(* Calls of calloc: each failure frees what was allocated before it.          *)
AllocateBlock(name, next, undo) ==
  \/ blocks' = [blocks EXCEPT ![name] = "held"] /\ step' = next
  \/ name \in FailingAllocs /\ blocks' = Freed(blocks, undo) /\ step' = "ENOMEM"

AllocateIndexes ==
  /\ step = "indexes"
  /\ AllocateBlock("indexes", "probs", {})
  /\ indexes' = [b \in Bins |-> 0]
  /\ UNCHANGED <<ps, probs, sticks>>

AllocateProbs ==
  /\ step = "probs"
  /\ AllocateBlock("probs", "normalize", {"indexes"})
  /\ UNCHANGED <<ps, table, sticks>>

(* *p * (n / sum): with an infinite sum the factor is 0, and 0 times an infinite
   weight is not a number.                                                   *)
Scaled(w) ==
  IF ~Finite THEN {IF w = Inf \/ NaN \in Range(ps) THEN NaN ELSE 0}
  ELSE IF w = 0 THEN {0} ELSE {Grains * NumBins * w + e : e \in Rounding}

Normalize ==
  /\ step = "normalize"
  /\ \E q \in [Bins -> UNION {Scaled(ps[b]) : b \in Bins}] :
       /\ \A b \in Bins : q[b] \in Scaled(ps[b])
       /\ probs' = q
       /\ shortRoom' = Cardinality({b \in Bins : IsShort(q[b])})
       /\ longRoom'  = Cardinality({b \in Bins : IsLong(q[b])})
  /\ step' = "longs"
  /\ UNCHANGED <<ps, indexes, shorts, longs, blocks>>

AllocateLongs ==
  /\ step = "longs"
  /\ AllocateBlock("long_sticks", "shorts", {"probs", "indexes"})
  /\ UNCHANGED <<ps, table, sticks>>

AllocateShorts ==
  /\ step = "shorts"
  /\ AllocateBlock("short_sticks", "fill", {"probs", "indexes", "long_sticks"})
  /\ UNCHANGED <<ps, table, sticks>>

(* The bins of S in their order: the k-th has k - 1 others before it.         *)
Ascending(S) == [k \in 1 .. Cardinality(S) |-> CHOOSE b \in S : Cardinality({c \in S : c < b}) = k - 1]

Fill ==
  /\ step = "fill"
  /\ shorts' = Ascending({b \in Bins : IsShort(probs[b])})
  /\ longs'  = Ascending({b \in Bins : IsLong(probs[b])})
  /\ step' = "pair"
  /\ UNCHANGED <<ps, table, shortRoom, longRoom, blocks>>

----------------------------------------------------------------------------
(* The last short stick is topped up by the last long one, which moves to the
   short sticks when what is left of it is below 1.                          *)
Top(s) == s[Len(s)]
Pop(s) == SubSeq(s, 1, Len(s) - 1)

\* Mutant: the short stick stays on its stack while the rest of the long one is pushed.
ShortsAfterUnpopped(rest) == IF rest < One THEN Append(shorts, Top(longs)) ELSE Pop(shorts)

ShortsAfter(rest) == IF rest < One THEN Append(Pop(shorts), Top(longs)) ELSE Pop(shorts)

\* Mutant: the long stick gives the short one's share instead of what it lacks.
RestsShared(short, long) == {probs[long] - probs[short] + e : e \in Rounding}

(* Rounding is monotonic: the sum, 1 or more, is not rounded to less than 1.  *)
Rests(short, long) == {r \in {probs[long] + probs[short] - One + e : e \in Rounding} : r >= 0}

Pair ==
  /\ step = "pair" /\ shorts # <<>> /\ longs # <<>>
  /\ LET short == Top(shorts)
         long  == Top(longs)
     IN  /\ indexes' = [indexes EXCEPT ![short] = long]
         /\ \E rest \in Rests(short, long) :
              /\ probs' = [probs EXCEPT ![long] = rest]
              /\ shorts' = ShortsAfter(rest)
              /\ longs' = IF rest < One THEN Pop(longs) ELSE longs
  /\ UNCHANGED <<ps, step, shortRoom, longRoom, blocks>>

(* "Fix numerical stability issues": the sticks left over are 1.              *)
FixLeftovers ==
  /\ step = "pair" /\ (shorts = <<>> \/ longs = <<>>)
  /\ probs' = [b \in Bins |-> IF b \in Range(shorts) \cup Range(longs) THEN One ELSE probs[b]]
  /\ shorts' = <<>> /\ longs' = <<>>
  /\ blocks' = Freed(blocks, {"short_sticks", "long_sticks"})
  /\ step' = "SUCCESS"
  /\ UNCHANGED <<ps, indexes, shortRoom, longRoom>>

InitSteps ==
  \/ AllocateIndexes \/ AllocateProbs \/ Normalize \/ AllocateLongs \/ AllocateShorts
  \/ Fill \/ Pair \/ FixLeftovers

(* The bin drawn for the column j and the number u in 0 .. 1.                 *)
\* Mutant: the comparison includes equality.
DrawnInclusive(j, u) == IF probs[j] # NaN /\ u <= probs[j] THEN j ELSE indexes[j]

Drawn(j, u) == IF probs[j] # NaN /\ u < probs[j] THEN j ELSE indexes[j]

plfit_walker_alias_sampler_destroy == blocks' = Freed(blocks, {"indexes", "probs"})

----------------------------------------------------------------------------
(* The number of grains below 1, over all columns, that make bin b the result. *)
Mass(b) ==
  SumFunctionOnSet([j \in Bins |-> Cardinality({u \in 0 .. One - 1 : Drawn(j, u) = b})], Bins)

Distance(a, b) == IF a < b THEN b - a ELSE a - b

(* The table gives every bin its share of the draws, up to the rounding errors
   of the n products and n - 1 pairings: also when sticks are left over, whose
   probability is then overwritten; a bin of weight 0 gets no share at all.   *)
MassPreserved ==
  (step = "SUCCESS" /\ Finite) =>
    \A b \in Bins : /\ Distance(Mass(b), Grains * NumBins * ps[b]) <= 2 * NumBins
                    /\ ps[b] = 0 => Mass(b) = 0

(* Neither stack outgrows the array that was allocated for the bins counted in
   the first pass, although long sticks turn into short ones.                *)
SticksFit == Len(shorts) <= shortRoom /\ Len(longs) <= longRoom

----------------------------------------------------------------------------
(* The inductive invariants.  First the allocations: what is held at each step,
   which is what the failing ones free.                                      *)
SamplerHeld ==
  CASE step \in {"idle", "indexes", "ENOMEM"} -> {}
    [] step = "probs"                         -> {"indexes"}
    [] step \in {"normalize", "longs", "SUCCESS"} -> {"indexes", "probs"}
    [] step = "shorts"                        -> {"indexes", "probs", "long_sticks"}
    [] step \in {"fill", "pair"}              -> SamplerBlocks

(* The stacks hold different bins, the first those below 1 and the second those
   that are not; before the stacks are filled, their lengths were counted.   *)
Distinct(s) == \A i, j \in 1 .. Len(s) : i # j => s[i] # s[j]

StackInv ==
  /\ shorts \in Seq(Bins) /\ longs \in Seq(Bins)
  /\ step # "pair" => shorts = <<>> /\ longs = <<>>
  /\ step \in {"longs", "shorts", "fill"} =>
       /\ probs \in [Bins -> Nat \cup {NaN}]
       /\ shortRoom = Cardinality({b \in Bins : IsShort(probs[b])})
       /\ longRoom  = Cardinality({b \in Bins : IsLong(probs[b])})
  /\ shortRoom \in Nat /\ longRoom \in Nat
  /\ Distinct(shorts) /\ Distinct(longs) /\ Range(shorts) \cap Range(longs) = {}
  /\ step \in {"probs", "normalize", "longs", "shorts", "fill"} => indexes = [j \in Bins |-> 0]

(* The table while sticks are paired: a bin that has left the stacks below 1 is
   settled, and its alias is a bin with a weight; the others have no alias yet,
   and without a weight they are short.                                      *)
OnStack == Range(shorts) \cup Range(longs)
Settled == {j \in Bins : j \notin OnStack /\ probs[j] < One}

TableInv ==
  (step \in {"longs", "shorts", "fill", "pair"} /\ Finite) =>
    /\ probs \in [Bins -> Nat] /\ indexes \in [Bins -> Bins]
    /\ \A j \in Bins : ps[j] = 0 => probs[j] = 0

PairInv ==
  (step = "pair" /\ Finite) =>
    /\ \A j \in Range(shorts) : probs[j] < One
    /\ \A j \in Range(longs) : probs[j] >= One /\ ps[j] > 0
    /\ \A j \in Bins \ OnStack : probs[j] <= One
    /\ \A j \in Bins \ Settled : indexes[j] = 0
    /\ \A j \in Settled : indexes[j] # j /\ ps[indexes[j]] > 0

(* What bin b has of column j so far, how far all it has is from its due, and by
   how much what is not settled exceeds 1.                                   *)
Given(j, b) ==
  IF j = b THEN probs[j] ELSE IF j \in Settled /\ indexes[j] = b THEN One - probs[j] ELSE 0

Due(b)   == Grains * NumBins * ps[b]
Has(b)   == SumFunctionOnSet([j \in Bins |-> Given(j, b)], Bins)
Error    == [b \in Bins |-> Has(b) - Due(b)]
Excess   == [j \in Bins |-> IF j \in Settled THEN 0 ELSE probs[j] - One]
Absolute == [b \in Bins |-> IF Error[b] < 0 THEN -Error[b] ELSE Error[b]]

(* The errors are those of the products and of the pairings, and they add up to
   what the bins that are left have too much of.                             *)
BalanceInv ==
  (step = "pair" /\ Finite) =>
    /\ SumFunctionOnSet(Error, Bins) = SumFunctionOnSet(Excess, Bins)
    /\ SumFunctionOnSet(Absolute, Bins) <= NumBins + Cardinality(Settled)

(* Between the products and the pairing only the products are off.           *)
ProductInv ==
  (step \in {"longs", "shorts", "fill"} /\ Finite) =>
    \A b \in Bins : Distance(probs[b], Due(b)) <= 1

(* Every draw from the finished table is a bin with a weight.                *)
DrawInv ==
  (step = "SUCCESS" /\ Finite) =>
    \A j \in Bins, u \in 0 .. One : Drawn(j, u) \in Bins /\ ps[Drawn(j, u)] > 0
=============================================================================
