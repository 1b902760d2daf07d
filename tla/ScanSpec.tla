------------------------------ MODULE ScanSpec ------------------------------
(* What a scan over the candidate values of xmin promises its caller
   (plfit_i_continuous_xmin_opt_linear_scan in src/plfit.c), with nothing said
   about threads: it returns once, and what it returns is one candidate whose
   Kolmogorov-Smirnov score no other candidate beats.  Candidates are the
   probes 0 .. NumProbes - 2: the largest distinct value is never tried.

   A candidate that is not positive has no maximum-likelihood exponent.  The
   scan promises nothing about the score and the exponent it may be reported
   with, only that such a report still beats every positive candidate.  Its
   score may also be no better than DBL_MAX, and then it is not reported: if
   no candidate is positive, the caller may get the initial values back.     *)
EXTENDS Integers

CONSTANTS
  NumProbes,      \* num_probes of the optimisation data
  Scores,         \* the values below DBL_MAX a D-score may take, as ranks
  MaxD,           \* DBL_MAX, and any D that is not below it
  MaxNonPositive  \* bound on nonPositive

VARIABLES
  ks,            \* ks[p]: the D-score of the fit that starts at probe p
  nonPositive,   \* how many of the (sorted) probes are <= 0
  returned,      \* the scan has stored its result
  best           \* *best_result and *best_n: xmin, alpha and n name their probe

avars == <<ks, nonPositive, returned, best>>

Candidates == 0 .. NumProbes - 2
NoProbe    == -1
Nothing    == [D |-> MaxD, xmin |-> NoProbe, alpha |-> NoProbe, n |-> NoProbe]
Reports    == [D : Scores, xmin : Candidates, alpha : Candidates \cup {NoProbe}, n : Candidates]

(* The results a caller may see: one fit of minimal D, or the initial values
   of the loop when there is no positive candidate.                          *)
Acceptable ==
  {f \in Reports :
     /\ f.n = f.xmin
     /\ f.xmin >= nonPositive => f.alpha = f.xmin /\ f.D = ks[f.xmin]
     /\ \A r \in Candidates : r >= nonPositive => f.D <= ks[r]}
  \cup {f \in {Nothing} : \A p \in Candidates : p < nonPositive}

AInit ==
  /\ ks \in [Candidates -> Scores]
  /\ nonPositive \in 0 .. MaxNonPositive
  /\ returned = FALSE
  /\ best = Nothing

AReturn ==
  /\ ~returned
  /\ returned' = TRUE
  /\ best' \in Acceptable
  /\ UNCHANGED <<ks, nonPositive>>

ASpec == AInit /\ [][AReturn]_avars
=============================================================================
