--------------------------- MODULE GoldenSection ---------------------------
(* gss (src/gss.c) as plfit_continuous uses it: a golden section search over
   the candidate probes 0 .. Right, with the callbacks
   plfit_i_continuous_xmin_opt_evaluate, which truncates the abscissa to a probe
   and remembers the fit it made, and plfit_i_continuous_xmin_opt_progress,
   which stops the search once both ends of the bracket truncate to the same
   probe.  The parameters are the defaults: on_error is GSS_ERROR_STOP and
   epsilon is the smallest positive number.

   Abscissae are fixed-point numbers with Unit steps between two probes, so the
   rounding of the section point towards the middle of the bracket, on which
   the end of the search depends, is part of the model.                      *)
EXTENDS Integers

CONSTANTS
  Right,         \* the right end of the bracket, num_probes - 5
  Scores,        \* ranks of the D-scores
  Unit,          \* fixed-point steps between two probes
  Resphi         \* RESPHI = 0.3819660... in the same fixed point

ASSUME GssAssumption ==
  /\ Right \in Nat \ {0}
  /\ Scores \subseteq Nat /\ Scores # {}
  /\ Unit \in Nat \ {0}
  /\ Resphi \in 1 .. Unit - 1 /\ 2 * Resphi < Unit /\ Unit <= 3 * Resphi

Probes == 0 .. Right
Probe(x) == x \div Unit                  \* (long int)x

VARIABLES
  score,         \* score[p]: the D-score of probe p
  gssPc,
  a, b, c,       \* the bracket and its inner point
  min,           \* abscissa of the best evaluation so far
  last,          \* opt_data.last: the probe evaluated last
  status         \* "none", "SUCCESS" or "FAILURE"

gssVars == <<score, gssPc, a, b, c, min, last, status>>

F(x)      == score[Probe(x)]
fa        == score[0]       \* fa and fb are those of the first bracket
fb        == score[Right]   \* and are never updated
fmin      == F(min)

AbsOf(x) == IF x < 0 THEN -x ELSE x
Sign(x)  == IF x < 0 THEN -1 ELSE 1

(* p + RESPHI * (q - p), rounded towards p.                                  *)
Section(p, q) == p + Sign(q - p) * ((Resphi * AbsOf(q - p)) \div Unit)

(* The progress callback: both ends of the bracket are at the same probe.    *)
BracketClosed == Probe(a) = Probe(b)

\* Mutant: the abscissa of the worst value is kept.
EvaluatedBackwards(x) ==
  /\ min' = IF fmin < F(x) THEN x ELSE min
  /\ last' = Probe(x)

(* What EVALUATE(x, fx) does to the search: min and fmin follow a strictly
   better value, and the callback keeps the fit as data->last.               *)
Evaluated(x) ==
  /\ min' = IF fmin > F(x) THEN x ELSE min
  /\ last' = Probe(x)

GssInit ==
  /\ score \in [Probes -> Scores]
  /\ gssPc = "ends"
  /\ a = 0 /\ b = Right * Unit
  /\ c = Section(0, Right * Unit)
  /\ min = 0
  /\ last = 0
  /\ status = "none"

GssReturn(code) == gssPc' = "returned" /\ status' = code

(* The evaluations of a (twice) and b; neither ends the search because the
   first bracket spans several probes.                                       *)
EvaluateEnds ==
  /\ gssPc = "ends"
  /\ min' = IF score[0] > score[Right] THEN b ELSE a
  /\ last' = Right
  /\ gssPc' = "middle"
  /\ UNCHANGED <<score, a, b, c, status>>

\* Mutant: only the left end is looked at.
NotBelowLeft(v) == v >= fa

(* The evaluation of c, and the test that the function is U-shaped.          *)
NotBelowEnds(v) == v >= fa \/ v >= fb

EvaluateMiddle ==
  /\ gssPc = "middle"
  /\ Evaluated(c)
  /\ IF NotBelowEnds(F(c)) THEN GssReturn("FAILURE") ELSE gssPc' = "loop" /\ UNCHANGED status
  /\ UNCHANGED <<score, a, b, c>>

\* Mutant: the better half of the bracket is dropped.
NarrowWrong(d) ==
  IF F(c) <= F(d)
    THEN a' = c /\ c' = d /\ b' = b
    ELSE b' = a /\ a' = d /\ c' = c

\* Mutant: the bracket is not narrowed when both points score the same.
NarrowStuck(d) ==
  IF F(c) < F(d)
    THEN b' = a /\ a' = d /\ c' = c
    ELSE IF F(c) = F(d) THEN UNCHANGED <<a, b, c>> ELSE a' = c /\ c' = d /\ b' = b

Narrow(d) ==
  IF F(c) <= F(d)
    THEN b' = a /\ a' = d /\ c' = c
    ELSE a' = c /\ c' = d /\ b' = b

(* One turn of the loop: the section point d is evaluated; the callback may
   end the search there, d may show that the function is not U-shaped, or the
   bracket is narrowed.                                                      *)
Iterate ==
  /\ gssPc = "loop" /\ a # b
  /\ LET d == Section(c, b)
     IN  /\ Evaluated(d)
         /\ \/ BracketClosed /\ GssReturn("SUCCESS") /\ UNCHANGED <<a, b, c>>
            \/ ~BracketClosed /\ NotBelowEnds(F(d)) /\ GssReturn("FAILURE") /\ UNCHANGED <<a, b, c>>
            \/ ~BracketClosed /\ ~NotBelowEnds(F(d)) /\ Narrow(d) /\ UNCHANGED <<gssPc, status>>
  /\ UNCHANGED score

(* The bracket has shrunk to nothing: its middle is evaluated once more.     *)
Conclude ==
  /\ gssPc = "loop" /\ a = b
  /\ c' = (a + b) \div 2
  /\ Evaluated(c')
  /\ GssReturn("SUCCESS")
  /\ UNCHANGED <<score, a, b>>

GssFinished == gssPc = "returned" /\ UNCHANGED gssVars

GssNext == EvaluateEnds \/ EvaluateMiddle \/ Iterate \/ Conclude \/ GssFinished

GssSpec == GssInit /\ [][GssNext]_gssVars

(* The search runs in one thread, which is scheduled.                        *)
GssFairSpec == GssSpec /\ WF_gssVars(GssNext)

----------------------------------------------------------------------------
(* A successful search has found a probe strictly inside the bracket that beats
   both ends: in particular never probe 0, in front of which plfit_continuous
   would start the tail (best_n = end - px + 1).                             *)
SuccessIsInterior ==
  status = "SUCCESS" => 0 < Probe(min) /\ Probe(min) < Right /\ fmin < fa /\ fmin < fb

(* The search ends.                                                          *)
SearchTerminates == <>(gssPc = "returned")

(* What plfit_continuous relies on when it takes opt_data.last as the best fit
   ("the best xmin that yields the lowest D-score", src/plfit.c).            *)
LastFitIsBest == status = "SUCCESS" => last = Probe(min)

(* Strictly falling up to the probe p and strictly rising from it on.        *)
Valley(p) ==
  \A i, j \in Probes : i < j => /\ j <= p => score[i] > score[j]
                                /\ p <= i => score[i] < score[j]

UShaped == \E p \in Probes : Valley(p)

(* A successful search on a U-shaped function ends at the lowest score or at a
   neighbour of it: the callback truncates abscissae, so two points of one probe
   score the same and the half that holds the minimum may be dropped.         *)
UShapedMinimumNear ==
  (status = "SUCCESS" /\ UShaped) =>
    \E q \in Probe(min) - 1 .. Probe(min) + 1 :
      q \in Probes /\ \A p \in Probes : score[q] <= score[p]

(* The inductive invariant of SuccessIsInterior and LastFitIsBest:
   in the loop the inner point is the best one seen, it lies between the ends of
   the bracket, whichever of them is the larger, and it beats both probes at
   the ends of the first bracket.                                            *)
Abscissae == 0 .. Right * Unit

GssTypeOK ==
  /\ score \in [Probes -> Scores]
  /\ gssPc \in {"ends", "middle", "loop", "returned"}
  /\ a \in Abscissae /\ b \in Abscissae /\ c \in Abscissae
  /\ min \in Abscissae /\ last \in Probes
  /\ status \in {"none", "SUCCESS", "FAILURE"}

InnerBetween == (a <= c /\ c <= b) \/ (b <= c /\ c <= a)

BeatsEnds == fmin < fa /\ fmin < fb

EndsInv   == gssPc \in {"ends", "middle"} => a = 0 /\ b = Right * Unit /\ status = "none"
MiddleInv == gssPc = "middle" => fmin \in {fa, fb}
LoopInv   == gssPc = "loop" => min = c /\ BeatsEnds /\ status = "none"

GssInv ==
  /\ GssTypeOK /\ InnerBetween /\ EndsInv /\ MiddleInv /\ LoopInv
  /\ status = "SUCCESS" => BeatsEnds /\ last = Probe(min)

(* The inductive invariant of UShapedMinimumNear, for the minimum p of a U-shaped
   function: in the loop, p lies strictly between the probes at the ends of the
   bracket, or the inner point has come to stay at p or at the neighbour of p
   that is the end of the bracket on its side.                               *)
Low  == IF a <= b THEN a ELSE b
High == IF a <= b THEN b ELSE a

Holds(p, low, inner, high) ==
  \/ low < p /\ p < high
  \/ inner = p
  \/ inner = p - 1 /\ high = p - 1
  \/ inner = p + 1 /\ low = p + 1

ValleyInv ==
  \A p \in Probes : Valley(p) =>
    /\ gssPc = "loop" => Holds(p, Probe(Low), Probe(c), Probe(High))
    /\ status = "SUCCESS" => p - 1 <= Probe(min) /\ Probe(min) <= p + 1
=============================================================================
