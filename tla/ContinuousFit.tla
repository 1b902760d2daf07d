--------------------------- MODULE ContinuousFit ---------------------------
(* plfit_continuous (src/plfit.c): the candidates its search methods look at,
   how many points they attribute to the chosen tail, and who frees the sorted
   copy, the array of unique elements and the array of strata on every way out.

   It calls unique_element_pointers, whose steps are those of UniquePointers; a
   candidate is a number u of a distinct value, found at result[u] in the data.
   The scans are used through what ScanSpec promises (some candidate of minimal
   D, or none if no candidate is positive) and the golden section search through what GoldenSection shows of a
   successful search.  The error handler in force returns to the caller.      *)
EXTENDS UniquePointers

CONSTANTS
  StratifyFrom,  \* fewest distinct values for stratified sampling: 50
  Subdivision,   \* subdivision_length: 10
  GssMargin,     \* the 5 largest distinct values are out of the search's bracket
  Scores, MaxD,  \* ranks of the D-scores below DBL_MAX; DBL_MAX or infinity
  Methods,       \* the xmin_method values tried
  MaxNonPositive,\* bound on the number of distinct values <= 0
  FailingCalls   \* calls that may fail: "copy", "strata", "pvalue"

ASSUME ContinuousAssumption ==
  /\ 0 .. MaxLen - 1 \subseteq Values
  /\ MaxNonPositive \in Nat
  /\ Subdivision \in Nat \ {0, 1}
  /\ StratifyFrom \in Nat /\ StratifyFrom >= 2 * Subdivision
  /\ GssMargin \in Nat \ {0, 1}
  /\ Scores \subseteq Nat /\ MaxD \in Nat /\ \A d \in Scores : d < MaxD
  /\ Methods \subseteq {"GSS_OR_LINEAR", "STRATIFIED_SAMPLING", "LINEAR_ONLY"}

VARIABLES
  ks,            \* ks[u]: D of the fit that starts at the u-th distinct value
  nonPos,        \* the distinct values 0 .. nonPos - 1 are <= 0
  method,        \* options->xmin_method
  at,            \* control
  best,          \* best_result, later *result: D and the candidates of xmin and alpha
  bestN,         \* best_n
  window,        \* opt_data.probes (as an offset) and num_probes of the second scan
  copy, uniques, strata,  \* the three allocations
  ret,           \* return code
  stratumBest    \* history: the D of the best stratum, or MaxD

input   == <<ks, nonPos, method>>
heap    == <<copy, uniques, strata>>
fitVars == <<vars, input, at, best, bestN, window, heap, ret, stratumBest>>

NoProbe == -1
NoFit   == [D |-> MaxD, xmin |-> NoProbe, alpha |-> NoProbe]

(* Only the order of the data matters: each value is the one before it or the
   next integer.  The scores are chosen when the candidates are known.        *)
FitInit ==
  /\ n \in 0 .. MaxLen
  /\ \E rises \in SUBSET (1 .. n - 1) : xs = [i \in 0 .. n - 1 |-> Cardinality({j \in rises : j <= i})]
  /\ Called
  /\ ks = [u \in {} |-> MaxD]
  /\ nonPos \in {k \in 0 .. MaxNonPositive : n > 0 => k <= xs[n - 1] + 1}
  /\ method \in Methods
  /\ at = "copy"
  /\ best = NoFit
  /\ bestN = n
  /\ window = [first |-> 0, count |-> 0]
  /\ copy = "null" /\ uniques = "null" /\ strata = "null"
  /\ ret = "none"
  /\ stratumBest = MaxD

(* free(p), which leaves p dangling, and free(p); p = NULL.                  *)
Freed(p) ==
  CASE p = "held" -> "dangling"
    [] p = "dangling" -> "corrupt"
    [] OTHER -> p

FreedAndCleared(p) == IF p = "held" THEN "null" ELSE Freed(p)

Goto(label) == at' = label

----------------------------------------------------------------------------
(* DATA_POINTS_CHECK and the two allocations, with their own error exits.    *)
RejectEmpty ==
  /\ at = "copy" /\ n = 0
  /\ ret' = "EINVAL" /\ Goto("returned")
  /\ UNCHANGED <<vars, input, best, bestN, window, heap, stratumBest>>

CopyAndSort ==
  /\ at = "copy" /\ n > 0
  /\ \/ copy' = "held" /\ Goto("uniques") /\ UNCHANGED ret
     \/ "copy" \in FailingCalls /\ ret' = "ENOMEM" /\ Goto("returned") /\ UNCHANGED copy
  /\ UNCHANGED <<vars, input, best, bestN, window, uniques, strata, stratumBest>>

(* The steps of unique_element_pointers; an empty array is never asked for.    *)
UniqueElementPointers ==
  /\ at = "uniques"
  /\ AllocateFirst \/ AllocationFails \/ SameBlock \/ NewBlock \/ EnlargingFails \/ AddGuard
  /\ UNCHANGED <<input, at, best, bestN, window, heap, ret, stratumBest>>

\* Mutant: the copy is not given back when the pointer array cannot be made.
FindUniquesLeaking ==
  /\ at = "uniques" /\ pc = "returned"
  /\ IF length # Unset
     THEN /\ uniques' = "held" /\ Goto("search")
          /\ ks' \in [0 .. length - 1 -> Scores]
          /\ UNCHANGED <<copy, ret>>
     ELSE ret' = "ENOMEM" /\ Goto("returned") /\ UNCHANGED <<uniques, ks, copy>>
  /\ UNCHANGED <<vars, nonPos, method, best, bestN, window, strata, stratumBest>>

FindUniques ==
  /\ at = "uniques" /\ pc = "returned"
  /\ IF length # Unset
     THEN /\ uniques' = "held" /\ Goto("search")
          /\ ks' \in [0 .. length - 1 -> Scores]
          /\ UNCHANGED <<copy, ret>>
     ELSE /\ copy' = Freed(copy)
          /\ ret' = "ENOMEM" /\ Goto("returned") /\ UNCHANGED <<uniques, ks>>
  /\ UNCHANGED <<vars, nonPos, method, best, bestN, window, strata, stratumBest>>

----------------------------------------------------------------------------
(* plfit_i_continuous_xmin_opt_linear_scan over count probes that start at the
   distinct value first and are step values apart: what ScanSpec!Acceptable
   allows.  The score of a value <= 0 depends on an exponent left over from an
   earlier evaluation, may differ from one scan to the next and may be infinite;
   a scan that finds no score below DBL_MAX stores its initial values.       *)
FitsAt(u) ==
  [D : IF u < nonPos THEN Scores \cup {MaxD} ELSE {ks[u]},
   xmin : {u},
   alpha : {IF u < nonPos THEN NoProbe ELSE u}]

Tried(first, step, count) == {first + step * k : k \in 0 .. count - 2}

ScanStores(first, step, count) ==
  LET tried == Tried(first, step, count)
  IN  \/ /\ \A v \in tried : v < nonPos
         /\ best' = NoFit /\ bestN' = 0
      \/ \E u \in tried : \E fit \in FitsAt(u) :
           /\ fit.D < MaxD
           /\ \A v \in tried : v >= nonPos => fit.D <= ks[v]
           /\ best' = fit /\ bestN' = n - result[u]

(* Golden section search between the smallest value and the one GssMargin from
   the end.  On positive data GoldenSection!SuccessIsInterior and LastFitIsBest
   say what success means; otherwise the scores it sees may be inconsistent.  *)
GssEnd == length - GssMargin

\* Mutant: a search that ends at the left end of its bracket succeeds.
GssFindsEnd(x, last) == last = x

GssFinds(x, last) ==
  IF nonPos = 0 THEN last = x /\ 0 < x /\ x < GssEnd /\ ks[x] < ks[0] /\ ks[x] < ks[GssEnd] ELSE TRUE

UsesGss    == method = "GSS_OR_LINEAR" /\ length > GssMargin
UsesStrata == method = "STRATIFIED_SAMPLING" /\ length >= StratifyFrom

(* px is taken from the minimum x, the fit from the last evaluation, and best_n
   is end - px + 1: one more than the points from px on.                     *)
GssTail(x) == n - result[x] + 1

SearchGss ==
  /\ at = "search" /\ UsesGss
  /\ \/ \E x, last \in 0 .. GssEnd :
          /\ GssFinds(x, last)
          /\ best' \in FitsAt(last)
          /\ bestN' = GssTail(x)
          /\ Goto("finish")
     \/ Goto("linear") /\ UNCHANGED <<best, bestN>>
  /\ UNCHANGED <<vars, input, window, heap, ret, stratumBest>>

SkipToLinear ==
  /\ at = "search" /\ ~UsesGss /\ ~UsesStrata
  /\ Goto("linear")
  /\ UNCHANGED <<vars, input, best, bestN, window, heap, ret, stratumBest>>

(* Stratified sampling: every Subdivision-th distinct value is tried first.  *)
NumStrata == length \div Subdivision

AllocateStrata ==
  /\ at = "search" /\ UsesStrata
  /\ \/ strata' = "held" /\ Goto("strata") /\ UNCHANGED <<uniques, copy, ret>>
     \/ /\ "strata" \in FailingCalls
        /\ uniques' = Freed(uniques) /\ copy' = Freed(copy)
        /\ ret' = "ENOMEM" /\ Goto("returned") /\ UNCHANGED strata
  /\ UNCHANGED <<vars, input, best, bestN, window, stratumBest>>

ScanStrata ==
  /\ at = "strata"
  /\ ScanStores(0, Subdivision, NumStrata)
  /\ stratumBest' = best'.D
  /\ Goto("locate")
  /\ UNCHANGED <<vars, input, window, heap, ret>>

\* Mutant: the window starts at the stratum itself and is as long as before.
WindowFromStratum(i) ==
  [first |-> i * Subdivision + 1,
   count |-> (IF i = 0 THEN 0 ELSE Subdivision) + (IF i = NumStrata - 1 THEN 0 ELSE Subdivision)]

(* The distinct values around stratum i, and how many of them are scanned.   *)
Window(i) ==
  [first |-> IF i = 0 THEN 0 ELSE (i - 1) * Subdivision,
   count |-> (IF i = 0 THEN 0 ELSE Subdivision) + (IF i = NumStrata - 1 THEN 0 ELSE Subdivision)]

(* The strata whose value is that of best_result.xmin, which is 0 if no stratum
   has been chosen: then the last value that is not positive may be the one.  *)
StrataHit == {i \in 0 .. NumStrata - 1 : i * Subdivision = IF best.xmin = NoProbe THEN nonPos - 1 ELSE best.xmin}

LocateStratum ==
  /\ at = "locate"
  /\ \/ \E i \in StrataHit : window' = Window(i)
     \/ /\ StrataHit = {} \/ best.xmin = NoProbe
        /\ window' = [first |-> 0, count |-> 0]
  /\ strata' = FreedAndCleared(strata)
  /\ Goto(IF window'.count > 0 THEN "window" ELSE "linear")
  /\ UNCHANGED <<vars, input, best, bestN, copy, uniques, ret, stratumBest>>

ScanWindow ==
  /\ at = "window"
  /\ ScanStores(window.first, 1, window.count)
  /\ Goto("finish")
  /\ UNCHANGED <<vars, input, window, heap, ret, stratumBest>>

ScanLinear ==
  /\ at = "linear"
  /\ ScanStores(0, 1, length)
  /\ Goto("finish")
  /\ UNCHANGED <<vars, input, window, heap, ret, stratumBest>>

----------------------------------------------------------------------------
(* The finite-size correction divides by best_n and cannot take a tail of two
   points or more down to 1; plfit_log_likelihood_continuous then refuses an
   exponent that is not above 1 (here: no fit at all) and xmin <= 0.         *)
\* Mutant: a cutoff of zero or below is let through.
LikelihoodAcceptsAll == best.xmin # NoProbe

LikelihoodAccepts == best.xmin # NoProbe /\ best.xmin >= nonPos

Finish ==
  /\ at = "finish"
  /\ uniques' = FreedAndCleared(uniques)
  /\ IF LikelihoodAccepts THEN Goto("pvalue") /\ UNCHANGED ret ELSE Goto("cleanup") /\ ret' = "EINVAL"
  /\ UNCHANGED <<vars, input, best, bestN, window, copy, strata, stratumBest>>

PValue ==
  /\ at = "pvalue"
  /\ \/ ret' = "SUCCESS"
     \/ "pvalue" \in FailingCalls /\ ret' = "ENOMEM"
  /\ Goto("cleanup")
  /\ UNCHANGED <<vars, input, best, bestN, window, heap, stratumBest>>

Cleanup ==
  /\ at = "cleanup"
  /\ strata' = Freed(strata)
  /\ uniques' = Freed(uniques)
  /\ copy' = Freed(copy)
  /\ Goto("returned")
  /\ UNCHANGED <<vars, input, best, bestN, window, ret, stratumBest>>

FitReturned == at = "returned" /\ UNCHANGED fitVars

FitNext ==
  \/ RejectEmpty \/ CopyAndSort \/ UniqueElementPointers \/ FindUniques
  \/ SearchGss \/ SkipToLinear
  \/ AllocateStrata \/ ScanStrata \/ LocateStratum \/ ScanWindow
  \/ ScanLinear \/ Finish \/ PValue \/ Cleanup \/ FitReturned

FitSpec == FitInit /\ [][FitNext]_fitVars

----------------------------------------------------------------------------
(* Whichever way the function returns, each block it allocated has been freed
   once and none of them twice, and unique_element_pointers keeps none that it
   does not hand over, although two of the error exits free by hand
   and the others pass through cleanup (CHANGELOG: "More rigorous memory
   cleanup in plfit_continuous() and plfit_discrete() in case of errors").   *)
HeapClean ==
  /\ "corrupt" \notin {copy, uniques, strata}
  /\ at = "returned" => "held" \notin {copy, uniques, strata} /\ (block = "held" => length # Unset)

(* Scanning the window never makes the fit worse than the best stratum, whose
   fit the second scan overwrites, when the data are positive.               *)
WindowNotWorse == (ret = "SUCCESS" /\ UsesStrata /\ nonPos = 0) => best.D <= stratumBest

(* A caller told SUCCESS has a positive cutoff and the exponent estimated for
   that very cutoff, although the searches drop the error of the estimate; the
   largest value is never the cutoff.                                        *)
SuccessMeansFitted ==
  ret = "SUCCESS" => best.xmin >= nonPos /\ best.alpha = best.xmin /\ best.xmin < length - 1

TailLength == Cardinality({i \in Index : xs[i] >= xs[result[best.xmin]]})

(* The tail handed to the likelihood has one entry for each data point at or
   above the cutoff, repeated values included, and at most one more, after a
   golden section search of positive data, that never lies before the copy.   *)
TailCounted ==
  (at = "finish" /\ best.xmin # NoProbe) =>
    /\ ~UsesGss => bestN = TailLength
    /\ nonPos = 0 => bestN - TailLength \in {0, 1} /\ bestN <= n
----------------------------------------------------------------------------
(* The inductive invariant of the properties above: which blocks are held at
   each place, that the candidates are there while they are searched, what the
   scans may leave in best, and where the window lies.                       *)
Searching == {"search", "strata", "locate", "window", "linear", "finish", "pvalue", "cleanup"}

FitTypeOK ==
  /\ at \in {"copy", "uniques", "returned"} \cup Searching
  /\ nonPos \in Nat /\ bestN \in Int
  /\ best \in [D : Nat, xmin : Int, alpha : Int]

HeapInv ==
  /\ at # "returned" =>
       /\ copy = IF at = "copy" THEN "null" ELSE "held"
       /\ uniques = IF at \in {"copy", "uniques", "pvalue", "cleanup"} THEN "null" ELSE "held"
       /\ strata = IF at \in {"strata", "locate"} THEN "held" ELSE "null"
  /\ at = "returned" => {copy, uniques, strata} \subseteq {"null", "dangling"} /\ (block = "held" => length # Unset)

CandidateInv ==
  /\ at = "copy" => pc = "alloc"
  /\ at \in {"uniques"} \cup Searching => n > 0
  /\ at \in Searching => pc = "returned" /\ length # Unset /\ ks \in [0 .. length - 1 -> Scores]

Found == best.xmin # NoProbe => best.xmin \in 0 .. length - 2 /\ (best.xmin >= nonPos => best.alpha = best.xmin)

FoundInv ==
  /\ at \in {"locate", "finish", "pvalue"} => Found
  /\ at = "pvalue" => LikelihoodAccepts
  /\ ret = "SUCCESS" => at \in {"cleanup", "returned"}
  /\ SuccessMeansFitted

WindowInv ==
  /\ at \in {"strata", "locate", "window"} => UsesStrata
  /\ at = "linear" => ~UsesStrata \/ nonPos > 0
  /\ at \in {"locate", "window"} =>
       \/ \E i \in 0 .. NumStrata - 2 :
            /\ best.xmin = i * Subdivision
            /\ nonPos = 0 => best.D = ks[i * Subdivision] /\ stratumBest = best.D
            /\ at = "window" => window = Window(i)
       \/ /\ best.xmin = NoProbe /\ nonPos > 0
          /\ at = "window" => \E i \in 0 .. NumStrata - 1 : window = Window(i)
  /\ (at \in {"finish", "pvalue"} /\ UsesStrata /\ nonPos = 0) => best.D <= stratumBest
  /\ WindowNotWorse

TailInv ==
  (at = "finish" /\ best.xmin # NoProbe) =>
    /\ ~UsesGss => bestN = n - result[best.xmin]
    /\ nonPos = 0 => bestN - (n - result[best.xmin]) \in {0, 1} /\ bestN <= n

FitInv == UniqueInv /\ FitTypeOK /\ HeapInv /\ CandidateInv /\ FoundInv /\ WindowInv /\ TailInv
=============================================================================
