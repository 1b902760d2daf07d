------------------------ MODULE GoldenSectionProofs ------------------------
(* Proofs about the golden section search, for every number of probes, every
   grid of abscissae and every function on the probes.                       *)
EXTENDS GoldenSection, TLAPS

(* Facts about the division that stands for the truncation of an abscissa.   *)
LEMMA DivisionBounds ==
  ASSUME NEW n \in Int, NEW u \in Nat \ {0}
  PROVE  n \div u \in Int /\ u * (n \div u) <= n /\ n < u * (n \div u) + u
OBVIOUS

LEMMA DivisionMonotone ==
  ASSUME NEW m \in Int, NEW n \in Int, NEW u \in Nat \ {0}, m <= n
  PROVE  m \div u <= n \div u
BY DivisionBounds

(* The section takes a share of the distance that is not more than all of it. *)
LEMMA ShareBounds ==
  ASSUME NEW n \in Nat
  PROVE  (Resphi * n) \div Unit \in 0 .. n
<1> DEFINE m == (Resphi * n) \div Unit
<1>1. Resphi \in Nat /\ Unit \in Nat \ {0} /\ Resphi <= Unit
  BY GssAssumption
<1>2. Resphi * n \in Nat /\ Resphi * n <= Unit * n
  BY <1>1
<1>3. m \in Int /\ Unit * m <= Resphi * n /\ Resphi * n < Unit * m + Unit
  BY <1>1, <1>2, DivisionBounds
<1> HIDE DEF m
<1>4. ASSUME n + 1 <= m PROVE FALSE
  <2>1. Unit * (n + 1) <= Unit * m
    BY <1>1, <1>3, <1>4
  <2> QED
    BY <2>1, <1>1, <1>2, <1>3
<1>5. ASSUME m + 1 <= 0 PROVE FALSE
  <2>1. Unit * (m + 1) <= 0
    BY <1>1, <1>3, <1>5
  <2> QED
    BY <2>1, <1>1, <1>2, <1>3
<1> QED
  BY <1>3, <1>4, <1>5 DEF m

LEMMA SectionBetween ==
  ASSUME NEW p \in Int, NEW q \in Int
  PROVE  /\ Section(p, q) \in Int
         /\ (p <= Section(p, q) /\ Section(p, q) <= q) \/ (q <= Section(p, q) /\ Section(p, q) <= p)
<1> DEFINE share == (Resphi * AbsOf(q - p)) \div Unit
<1>1. AbsOf(q - p) \in Nat
  BY DEF AbsOf
<1>2. share \in 0 .. AbsOf(q - p)
  BY <1>1, ShareBounds
<1>3. Section(p, q) = p + Sign(q - p) * share
  BY DEF Section
<1> HIDE DEF share
<1>4. CASE p <= q
  BY <1>2, <1>3, <1>4 DEF AbsOf, Sign
<1>5. CASE q < p
  BY <1>2, <1>3, <1>5 DEF AbsOf, Sign
<1> QED
  BY <1>4, <1>5

(* An abscissa of the first bracket is at a probe, its ends are at the first
   and the last one, and truncation keeps the order.                         *)
LEMMA ProbeInside ==
  ASSUME NEW n \in Abscissae
  PROVE  Probe(n) \in Probes
<1>1. Unit \in Nat \ {0} /\ Right \in Nat \ {0} /\ n \in Int /\ 0 <= n /\ n <= Right * Unit
  BY GssAssumption DEF Abscissae
<1>2. Probe(n) \in Int /\ Unit * Probe(n) <= n /\ n < Unit * Probe(n) + Unit
  BY <1>1, DivisionBounds DEF Probe
<1>3. ASSUME Right + 1 <= Probe(n) PROVE FALSE
  <2>1. Unit * (Right + 1) <= Unit * Probe(n)
    BY <1>1, <1>2, <1>3
  <2> QED
    BY <2>1, <1>1, <1>2
<1>4. ASSUME Probe(n) + 1 <= 0 PROVE FALSE
  <2>1. Unit * (Probe(n) + 1) <= 0
    BY <1>1, <1>2, <1>4
  <2> QED
    BY <2>1, <1>1, <1>2
<1> QED
  BY <1>1, <1>2, <1>3, <1>4 DEF Probes

LEMMA ProbeOfEnds == Probe(0) = 0 /\ Probe(Right * Unit) = Right
<1>1. Unit \in Nat \ {0} /\ Right \in Nat \ {0} /\ Right * Unit \in Nat
  BY GssAssumption
<1>2. Probe(0) = 0
  BY <1>1 DEF Probe
<1>3. Probe(Right * Unit) \in Int /\ Unit * Probe(Right * Unit) <= Right * Unit
      /\ Right * Unit < Unit * Probe(Right * Unit) + Unit
  BY <1>1, DivisionBounds DEF Probe
<1>4. ASSUME Probe(Right * Unit) + 1 <= Right PROVE FALSE
  <2>1. Unit * (Probe(Right * Unit) + 1) <= Unit * Right
    BY <1>1, <1>3, <1>4
  <2> QED
    BY <2>1, <1>1, <1>3
<1>5. Probe(Right * Unit) <= Right
  BY <1>1, ProbeInside DEF Abscissae, Probes
<1> QED
  BY <1>1, <1>2, <1>3, <1>4, <1>5

LEMMA ProbeMonotone ==
  ASSUME NEW m \in Abscissae, NEW n \in Abscissae, m <= n
  PROVE  Probe(m) <= Probe(n)
BY GssAssumption, DivisionMonotone DEF Probe, Abscissae

LEMMA ScoresAreNumbers ==
  ASSUME GssTypeOK, NEW n \in Abscissae
  PROVE  F(n) \in Nat /\ fa \in Nat /\ fb \in Nat
<1>1. Probe(n) \in Probes /\ 0 \in Probes /\ Right \in Probes
  BY ProbeInside, GssAssumption DEF Probes
<1> QED
  BY <1>1, GssAssumption DEF GssTypeOK, F, fa, fb

(* The section point of an inner point and an end is an abscissa of the first
   bracket.                                                                  *)
LEMMA SectionInside ==
  ASSUME NEW p \in Abscissae, NEW q \in Abscissae
  PROVE  Section(p, q) \in Abscissae
<1>1. Right * Unit \in Nat
  BY GssAssumption
<1>2. /\ Section(p, q) \in Int
      /\ (p <= Section(p, q) /\ Section(p, q) <= q) \/ (q <= Section(p, q) /\ Section(p, q) <= p)
  BY <1>1, SectionBetween DEF Abscissae
<1> HIDE DEF Section
<1> QED
  BY <1>1, <1>2 DEF Abscissae

----------------------------------------------------------------------------
LEMMA GssStarts == GssInit => GssInv
<1> SUFFICES ASSUME GssInit PROVE GssInv
  OBVIOUS
<1>1. Right \in Nat \ {0} /\ Right * Unit \in Nat
  BY GssAssumption
<1>2. 0 \in Abscissae /\ Right * Unit \in Abscissae
  BY <1>1 DEF Abscissae
<1>3. GssTypeOK
  BY <1>1, <1>2, SectionInside DEF GssInit, GssTypeOK, Probes
<1>4. InnerBetween
  <2> DEFINE far == Right * Unit
  <2>1. far \in Int
    BY <1>1
  <2>2. a = 0 /\ b = far /\ c = Section(0, far)
    BY DEF GssInit
  <2> HIDE DEF far
  <2>3. (0 <= Section(0, far) /\ Section(0, far) <= far) \/ (far <= Section(0, far) /\ Section(0, far) <= 0)
    BY <2>1, SectionBetween
  <2> QED
    BY <2>2, <2>3 DEF InnerBetween
<1> QED
  BY <1>3, <1>4 DEF GssInit, GssInv, EndsInv, MiddleInv, LoopInv

LEMMA EvaluateEndsKeeps == ASSUME GssInv, EvaluateEnds PROVE GssInv'
<1>1. a = 0 /\ b = Right * Unit /\ status = "none"
  BY DEF GssInv, EndsInv, EvaluateEnds
<1>2. F(a) = fa /\ F(b) = fb
  BY <1>1, ProbeOfEnds DEF F, fa, fb
<1>3. GssTypeOK'
  BY GssAssumption DEF GssInv, GssTypeOK, EvaluateEnds, Probes, Abscissae
<1>4. InnerBetween' /\ EndsInv' /\ LoopInv'
  BY <1>1 DEF GssInv, EvaluateEnds, InnerBetween, EndsInv, LoopInv
<1>5. fmin' \in {fa', fb'}
  BY <1>2 DEF EvaluateEnds, fmin, F, fa, fb
<1> QED
  BY <1>1, <1>3, <1>4, <1>5 DEF GssInv, EvaluateEnds, MiddleInv

(* The first inner point: unless it refutes the U shape, it is the best so far. *)
LEMMA EvaluateMiddleKeeps == ASSUME GssInv, EvaluateMiddle PROVE GssInv'
<1>1. /\ F(c) \in Nat /\ fa \in Nat /\ fb \in Nat
      /\ fmin \in {fa, fb} /\ status = "none"
  BY ScoresAreNumbers DEF GssInv, GssTypeOK, MiddleInv, EndsInv, EvaluateMiddle
<1>2. GssTypeOK'
  BY ProbeInside DEF GssInv, GssTypeOK, EvaluateMiddle, Evaluated, GssReturn
<1>3. InnerBetween' /\ EndsInv' /\ MiddleInv'
  BY <1>1 DEF GssInv, EvaluateMiddle, GssReturn, InnerBetween, EndsInv, MiddleInv
<1>4. CASE NotBelowEnds(F(c))
  BY <1>2, <1>3, <1>4 DEF GssInv, EvaluateMiddle, GssReturn, LoopInv
<1>5. CASE ~NotBelowEnds(F(c))
  <2>1. F(c) < fa /\ F(c) < fb
    BY <1>1, <1>5 DEF NotBelowEnds
  <2>2. min' = c
    BY <2>1, <1>1 DEF EvaluateMiddle, Evaluated
  <2>3. LoopInv' /\ status' = "none"
    BY <2>1, <2>2, <1>1, <1>5 DEF EvaluateMiddle, LoopInv, BeatsEnds, fmin, F, fa, fb
  <2> QED
    BY <1>2, <1>3, <2>3 DEF GssInv
<1> QED
  BY <1>4, <1>5

(* When the search is about to stop, the bracket is at one probe, and so are the
   inner point and the point that is evaluated last.                         *)
LEMMA ClosedBracket ==
  ASSUME GssInv, BracketClosed, NEW d \in Abscissae,
         (c <= d /\ d <= b) \/ (b <= d /\ d <= c)
  PROVE  Probe(d) = Probe(c)
<1>1. a \in Abscissae /\ b \in Abscissae /\ c \in Abscissae
  BY DEF GssInv, GssTypeOK
<1>2. \A x \in Abscissae : Probe(x) \in Int
  BY ProbeInside DEF Probes
<1>3. Probe(c) = Probe(b)
  BY <1>1, <1>2, ProbeMonotone DEF GssInv, InnerBetween, BracketClosed
<1>4. Probe(d) = Probe(b)
  BY <1>1, <1>2, <1>3, ProbeMonotone
<1> QED
  BY <1>3, <1>4

LEMMA IterateKeeps == ASSUME GssInv, Iterate PROVE GssInv'
<1> DEFINE d == Section(c, b)
<1>1. /\ a \in Abscissae /\ b \in Abscissae /\ c \in Abscissae
      /\ min = c /\ BeatsEnds /\ status = "none" /\ gssPc = "loop"
  BY DEF GssInv, GssTypeOK, LoopInv, Iterate
<1>2. d \in Abscissae /\ ((c <= d /\ d <= b) \/ (b <= d /\ d <= c))
  BY <1>1, SectionInside, SectionBetween DEF Abscissae
<1>3. F(c) \in Nat /\ F(d) \in Nat /\ fa \in Nat /\ fb \in Nat
  BY <1>1, <1>2, ScoresAreNumbers DEF GssInv
<1>4. F(c) < fa /\ F(c) < fb /\ fmin = F(c)
  BY <1>1 DEF BeatsEnds, fmin
<1>5. /\ min' = IF F(c) > F(d) THEN d ELSE c
      /\ last' = Probe(d) /\ score' = score
  BY <1>1 DEF Iterate, Evaluated, fmin
<1> HIDE DEF d
<1>6. BeatsEnds'
  BY <1>3, <1>4, <1>5 DEF BeatsEnds, fmin, F, fa, fb
<1>7. /\ min' \in Abscissae /\ last' \in Probes
      /\ score' \in [Probes -> Scores]
  BY <1>1, <1>2, <1>5, ProbeInside DEF GssInv, GssTypeOK
<1>8. CASE BracketClosed /\ GssReturn("SUCCESS") /\ UNCHANGED <<a, b, c>>
  <2>1. Probe(d) = Probe(c)
    BY <1>2, <1>8, ClosedBracket
  <2>2. min' = c
    BY <2>1, <1>3, <1>5 DEF F
  <2>3. last' = Probe(min')
    BY <2>1, <2>2, <1>5
  <2> QED
    BY <1>1, <1>6, <1>7, <1>8, <2>3
    DEF GssInv, GssTypeOK, InnerBetween, EndsInv, MiddleInv, LoopInv, GssReturn, Probe
<1>9. CASE NotBelowEnds(F(d)) /\ GssReturn("FAILURE") /\ UNCHANGED <<a, b, c>>
  BY <1>1, <1>7, <1>9 DEF GssInv, GssTypeOK, InnerBetween, EndsInv, MiddleInv, LoopInv, GssReturn
<1>10. CASE Narrow(d) /\ UNCHANGED <<gssPc, status>>
  <2>1. CASE F(c) <= F(d)
    <3>1. b' = a /\ a' = d /\ c' = c /\ min' = c
      BY <2>1, <1>3, <1>5, <1>10 DEF Narrow
    <3>2. InnerBetween'
      BY <3>1, <1>1, <1>2 DEF GssInv, InnerBetween, Abscissae
    <3> QED
      BY <3>1, <3>2, <1>1, <1>2, <1>6, <1>7, <1>10 DEF GssInv, GssTypeOK, EndsInv, MiddleInv, LoopInv
  <2>2. CASE F(d) < F(c)
    <3>1. a' = c /\ c' = d /\ b' = b /\ min' = d
      BY <2>2, <1>3, <1>5, <1>10 DEF Narrow
    <3>2. InnerBetween'
      BY <3>1, <1>1, <1>2 DEF InnerBetween, Abscissae
    <3> QED
      BY <3>1, <3>2, <1>1, <1>2, <1>6, <1>7, <1>10 DEF GssInv, GssTypeOK, EndsInv, MiddleInv, LoopInv
  <2> QED
    BY <1>3, <2>1, <2>2
<1> QED
  BY <1>8, <1>9, <1>10 DEF Iterate, d

LEMMA ConcludeKeeps == ASSUME GssInv, Conclude PROVE GssInv'
<1>1. /\ a \in Abscissae /\ b \in Abscissae /\ c \in Abscissae /\ a = b
      /\ min = c /\ BeatsEnds /\ status = "none"
  BY DEF GssInv, GssTypeOK, LoopInv, Conclude
<1>2. Abscissae \subseteq Int
  BY DEF Abscissae
<1>3. c' = a /\ c = a
  BY <1>1, <1>2 DEF Conclude, GssInv, InnerBetween
<1>4. min' = c /\ last' = Probe(c) /\ score' = score
  BY <1>1, <1>3 DEF Conclude, Evaluated
<1>5. BeatsEnds' /\ last' = Probe(min')
  BY <1>1, <1>4 DEF BeatsEnds, fmin, F, fa, fb
<1>6. GssTypeOK' /\ InnerBetween'
  BY <1>1, <1>2, <1>3, <1>4, ProbeInside DEF GssInv, GssTypeOK, InnerBetween, Conclude, GssReturn
<1> QED
  BY <1>5, <1>6 DEF GssInv, EndsInv, MiddleInv, LoopInv, Conclude, GssReturn, Probe

LEMMA GssStutters == ASSUME GssInv, UNCHANGED gssVars PROVE GssInv'
BY DEF GssInv, gssVars, GssTypeOK, InnerBetween, EndsInv, MiddleInv, LoopInv, BeatsEnds, fmin, F, fa, fb, Probe

LEMMA GssStep == GssInv /\ [GssNext]_gssVars => GssInv'
<1> SUFFICES ASSUME GssInv, [GssNext]_gssVars PROVE GssInv'
  OBVIOUS
<1>1. CASE EvaluateEnds
  BY <1>1, EvaluateEndsKeeps
<1>2. CASE EvaluateMiddle
  BY <1>2, EvaluateMiddleKeeps
<1>3. CASE Iterate
  BY <1>3, IterateKeeps
<1>4. CASE Conclude
  BY <1>4, ConcludeKeeps
<1>5. CASE GssFinished \/ UNCHANGED gssVars
  BY <1>5, GssStutters DEF GssFinished
<1> QED
  BY <1>1, <1>2, <1>3, <1>4, <1>5 DEF GssNext

(* The inductive invariant holds throughout the search.                      *)
THEOREM GssInvariance == GssSpec => []GssInv
BY GssStarts, GssStep, PTL DEF GssSpec

(* gss never succeeds at an end of its first bracket: plfit_continuous never
   starts a tail in front of its data, whatever the scores are.              *)
THEOREM GssSuccessInterior == GssSpec => []SuccessIsInterior
<1>1. GssInv => SuccessIsInterior
  <2> SUFFICES ASSUME GssInv, status = "SUCCESS"
               PROVE  0 < Probe(min) /\ Probe(min) < Right /\ fmin < fa /\ fmin < fb
    BY DEF SuccessIsInterior
  <2>1. BeatsEnds /\ min \in Abscissae
    BY DEF GssInv, GssTypeOK
  <2>2. fmin \in Nat /\ fmin < fa /\ fmin < fb
    BY <2>1, ScoresAreNumbers DEF BeatsEnds, GssInv, fmin
  <2>3. Probe(min) # 0 /\ Probe(min) # Right
    BY <2>2 DEF fmin, F, fa, fb
  <2>4. Probe(min) \in 0 .. Right
    BY <2>1, ProbeInside DEF Probes
  <2> QED
    BY <2>2, <2>3, <2>4, GssAssumption
<1> QED
  BY <1>1, GssInvariance, PTL

(* The fit that is left from the last evaluation of a successful search is the
   one of the probe with the lowest score it has seen.                       *)
THEOREM GssLastFitIsBest == GssSpec => []LastFitIsBest
<1>1. GssInv => LastFitIsBest
  BY DEF GssInv, LastFitIsBest
<1> QED
  BY <1>1, GssInvariance, PTL
----------------------------------------------------------------------------
(* U-shaped functions.  A section point at the probe of the inner point means
   that the end it lies towards is at most two probes away: this is where it
   counts that RESPHI is not below a third.                                  *)
LEMMA ShareWide ==
  ASSUME NEW n \in Nat
  PROVE  n < 3 * ((Resphi * n) \div Unit) + 3
<1> DEFINE m == (Resphi * n) \div Unit
           product == Resphi * n
<1>1. Resphi \in Nat /\ Unit \in Nat \ {0} /\ Unit <= 3 * Resphi
  BY GssAssumption
<1>2. product \in Nat
  BY <1>1
<1>3. m \in Int /\ product < Unit * m + Unit
  BY <1>1, <1>2, DivisionBounds
<1>4. Unit * n <= 3 * product
  BY <1>1
<1> HIDE DEF m, product
<1>5. ASSUME 3 * m + 3 <= n PROVE FALSE
  <2>1. Unit * (3 * m + 3) <= Unit * n
    BY <1>1, <1>3, <1>5
  <2>2. Unit * (3 * m + 3) = 3 * (Unit * m + Unit)
    BY <1>1, <1>3
  <2>3. Unit * m + Unit \in Int /\ Unit * n \in Int
    BY <1>1, <1>3
  <2> QED
    BY <1>2, <1>3, <1>4, <2>1, <2>2, <2>3
<1> QED
  BY <1>3, <1>5 DEF m

LEMMA ProbeBounds ==
  ASSUME NEW n \in Abscissae
  PROVE  /\ n \in Int /\ Probe(n) \in Int
         /\ Unit * Probe(n) <= n /\ n < Unit * Probe(n) + Unit
BY GssAssumption, DivisionBounds DEF Probe, Abscissae

LEMMA SameProbeNear ==
  ASSUME NEW p \in Abscissae, NEW q \in Abscissae, Probe(Section(p, q)) = Probe(p)
  PROVE  Probe(p) - 2 <= Probe(q) /\ Probe(q) <= Probe(p) + 2
<1> DEFINE share == (Resphi * AbsOf(q - p)) \div Unit
           k == Probe(p)
           base == Unit * Probe(p)
           s == Section(p, q)
<1>1. Unit \in Nat \ {0}
  BY GssAssumption
<1>2. /\ p \in Int /\ k \in Int /\ base \in Int /\ base <= p /\ p < base + Unit
      /\ q \in Int /\ Probe(q) \in Int
      /\ Unit * Probe(q) <= q /\ q < Unit * Probe(q) + Unit
  BY <1>1, ProbeBounds
<1>3. s \in Abscissae /\ s \in Int /\ base <= s /\ s < base + Unit
  <2>1. s \in Abscissae
    BY SectionInside
  <2> QED
    BY <2>1, ProbeBounds
<1>4. AbsOf(q - p) \in Nat
  BY <1>2 DEF AbsOf
<1>5. share \in Nat /\ AbsOf(q - p) < 3 * share + 3
  BY <1>4, ShareBounds, ShareWide
<1>6. s = p + Sign(q - p) * share
  BY DEF Section
<1> HIDE DEF share, s
<1>7. q < base + 3 * Unit /\ base - 2 * Unit <= q
  <2>1. CASE p <= q
    <3>1. AbsOf(q - p) = q - p /\ s = p + share
      BY <1>2, <1>5, <1>6, <2>1 DEF AbsOf, Sign
    <3> HIDE DEF base
    <3> QED
      BY <1>1, <1>2, <1>3, <1>5, <2>1, <3>1
  <2>2. CASE q < p
    <3>1. AbsOf(q - p) = p - q /\ s = p - share
      BY <1>2, <1>5, <1>6, <2>2 DEF AbsOf, Sign
    <3> HIDE DEF base
    <3> QED
      BY <1>1, <1>2, <1>3, <1>5, <2>2, <3>1
  <2> QED
    BY <1>2, <2>1, <2>2
<1>8. ASSUME k + 3 <= Probe(q) PROVE FALSE
  <2>1. Unit * (k + 3) <= Unit * Probe(q)
    BY <1>1, <1>2, <1>8
  <2>2. Unit * (k + 3) = base + 3 * Unit
    BY <1>1, <1>2
  <2>3. Unit * Probe(q) \in Int
    BY <1>1, <1>2
  <2> HIDE DEF base
  <2> QED
    BY <1>1, <1>2, <1>7, <2>1, <2>2, <2>3
<1>9. ASSUME Probe(q) + 3 <= k PROVE FALSE
  <2>1. Unit * (Probe(q) + 3) <= base
    BY <1>1, <1>2, <1>9
  <2>2. Unit * (Probe(q) + 3) = Unit * Probe(q) + 3 * Unit
    BY <1>1, <1>2
  <2>3. Unit * Probe(q) \in Int
    BY <1>1, <1>2
  <2> HIDE DEF base
  <2> QED
    BY <1>1, <1>2, <1>7, <2>1, <2>2, <2>3
<1> QED
  BY <1>2, <1>8, <1>9
LEMMA ScoresOfProbes ==
  ASSUME GssTypeOK
  PROVE  Probes \subseteq Int /\ \A i \in Probes : score[i] \in Int
<1>1. Probes \subseteq Int
  BY DEF Probes
<1>2. \A i \in Probes : score[i] \in Scores
  BY DEF GssTypeOK
<1>3. Scores \subseteq Int
  BY GssAssumption
<1> QED
  BY <1>1, <1>2, <1>3, Zenon

(* What the two ways of narrowing the bracket do to the minimum p, when the
   section point is to the right of the inner point, and to the left of it.  *)
LEMMA NarrowRight ==
  ASSUME GssTypeOK, NEW p \in Probes, NEW low \in Probes, NEW inner \in Probes,
         NEW point \in Probes, NEW high \in Probes,
         Valley(p), low <= inner, inner <= point, point <= high,
         point = inner => high <= inner + 2, Holds(p, low, inner, high)
  PROVE  /\ score[inner] <= score[point] => Holds(p, low, inner, point)
         /\ score[point] < score[inner] => Holds(p, inner, point, high)
<1>1. Probes \subseteq Int /\ score[inner] \in Int /\ score[point] \in Int
  BY ScoresOfProbes, Zenon
<1>2. /\ inner < point /\ point <= p => score[inner] > score[point]
      /\ inner < point /\ p <= inner => score[inner] < score[point]
  BY DEF Valley
<1> QED
  BY <1>1, <1>2 DEF Holds

LEMMA NarrowLeft ==
  ASSUME GssTypeOK, NEW p \in Probes, NEW low \in Probes, NEW inner \in Probes,
         NEW point \in Probes, NEW high \in Probes,
         Valley(p), low <= point, point <= inner, inner <= high,
         point = inner => inner - 2 <= low, Holds(p, low, inner, high)
  PROVE  /\ score[inner] <= score[point] => Holds(p, point, inner, high)
         /\ score[point] < score[inner] => Holds(p, low, point, inner)
<1>1. Probes \subseteq Int /\ score[inner] \in Int /\ score[point] \in Int
  BY ScoresOfProbes, Zenon
<1>2. /\ point < inner /\ inner <= p => score[point] > score[inner]
      /\ point < inner /\ p <= point => score[point] < score[inner]
  BY DEF Valley
<1> QED
  BY <1>1, <1>2 DEF Holds

LEMMA IterateKeepsValley == ASSUME GssInv, ValleyInv, Iterate PROVE ValleyInv'
<1> DEFINE d == Section(c, b)
<1>1. /\ a \in Abscissae /\ b \in Abscissae /\ c \in Abscissae /\ Abscissae \subseteq Int
      /\ min = c /\ status = "none" /\ gssPc = "loop" /\ GssTypeOK
  BY DEF GssInv, GssTypeOK, LoopInv, Iterate, Abscissae
<1>2. d \in Abscissae /\ ((c <= d /\ d <= b) \/ (b <= d /\ d <= c))
  BY <1>1, SectionInside, SectionBetween DEF Abscissae
<1>3. Probe(d) = Probe(c) => Probe(c) - 2 <= Probe(b) /\ Probe(b) <= Probe(c) + 2
  BY <1>1, SameProbeNear
<1>4. score' = score /\ min' \in {c, d}
  BY <1>1 DEF Iterate, Evaluated
<1>5. \/ BracketClosed /\ status' = "SUCCESS" /\ gssPc' = "returned"
      \/ status' = "FAILURE" /\ gssPc' = "returned"
      \/ Narrow(d) /\ status' = "none" /\ gssPc' = "loop"
  BY <1>1 DEF Iterate, GssReturn
<1> HIDE DEF d
<1> SUFFICES ASSUME NEW p \in Probes, Valley(p)
             PROVE  /\ gssPc' = "loop" => Holds(p, Probe(Low), Probe(c), Probe(High))'
                    /\ status' = "SUCCESS" => p - 1 <= Probe(min') /\ Probe(min') <= p + 1
  BY <1>4 DEF ValleyInv, Valley, Probe
<1>6. Holds(p, Probe(Low), Probe(c), Probe(High))
  BY <1>1 DEF ValleyInv
<1>7. \A x \in Abscissae : Probe(x) \in Probes /\ Probe(x) \in Int
  BY ProbeInside, GssAssumption DEF Probes
<1>8. p \in Int
  BY DEF Probes
<1>9. CASE BracketClosed /\ status' = "SUCCESS" /\ gssPc' = "returned"
  <2>1. Probe(a) = Probe(c) /\ Probe(b) = Probe(c)
    BY <1>1, <1>7, <1>9, ProbeMonotone DEF GssInv, InnerBetween, BracketClosed
  <2>2. Probe(min') = Probe(c)
    BY <1>2, <1>4, <1>9, ClosedBracket
  <2>3. Probe(Low) = Probe(c) /\ Probe(High) = Probe(c)
    BY <2>1 DEF Low, High
  <2> QED
    BY <1>1, <1>6, <1>7, <1>8, <1>9, <2>2, <2>3 DEF Holds
<1>10. CASE Narrow(d) /\ status' = "none" /\ gssPc' = "loop"
  <2>1. F(c) \in Int /\ F(d) \in Int
    BY <1>1, <1>2, ScoresAreNumbers DEF GssInv
  <2>2. CASE a <= b
    <3>1. a <= c /\ c <= d /\ d <= b /\ Low = a /\ High = b
      BY <1>1, <1>2, <2>2 DEF GssInv, InnerBetween, Low, High
    <3>2. Probe(a) <= Probe(c) /\ Probe(c) <= Probe(d) /\ Probe(d) <= Probe(b)
      BY <1>1, <1>2, <3>1, ProbeMonotone
    <3>3. /\ F(c) <= F(d) => Holds(p, Probe(a), Probe(c), Probe(d))
          /\ F(d) < F(c) => Holds(p, Probe(c), Probe(d), Probe(b))
      BY <1>1, <1>2, <1>3, <1>6, <1>7, <3>1, <3>2, NarrowRight DEF F
    <3>4. /\ F(c) <= F(d) => Low' = a /\ c' = c /\ High' = d
          /\ F(d) < F(c) => Low' = c /\ c' = d /\ High' = b
      BY <1>1, <1>2, <1>10, <2>1, <3>1 DEF Narrow, Low, High
    <3> QED
      BY <1>10, <2>1, <3>3, <3>4 DEF Probe
  <2>3. CASE b < a
    <3>1. b <= d /\ d <= c /\ c <= a /\ Low = b /\ High = a
      BY <1>1, <1>2, <2>3 DEF GssInv, InnerBetween, Low, High
    <3>2. Probe(b) <= Probe(d) /\ Probe(d) <= Probe(c) /\ Probe(c) <= Probe(a)
      BY <1>1, <1>2, <3>1, ProbeMonotone
    <3>3. /\ F(c) <= F(d) => Holds(p, Probe(d), Probe(c), Probe(a))
          /\ F(d) < F(c) => Holds(p, Probe(b), Probe(d), Probe(c))
      BY <1>1, <1>2, <1>3, <1>6, <1>7, <3>1, <3>2, NarrowLeft DEF F
    <3>4. /\ F(c) <= F(d) => Low' = d /\ c' = c /\ High' = a
          /\ F(d) < F(c) => Low' = b /\ c' = d /\ High' = c
      BY <1>1, <1>2, <1>10, <2>1, <3>1 DEF Narrow, Low, High
    <3> QED
      BY <1>10, <2>1, <3>3, <3>4 DEF Probe
  <2> QED
    BY <1>1, <2>2, <2>3
<1> QED
  BY <1>5, <1>9, <1>10
LEMMA EvaluateMiddleKeepsValley == ASSUME GssInv, ValleyInv, EvaluateMiddle PROVE ValleyInv'
<1>1. /\ a = 0 /\ b = Right * Unit /\ c \in Abscissae /\ GssTypeOK
      /\ status = "none" /\ score' = score /\ a' = a /\ b' = b /\ c' = c
  BY DEF GssInv, GssTypeOK, EndsInv, EvaluateMiddle
<1>2. \/ status' = "FAILURE" /\ gssPc' = "returned"
      \/ ~NotBelowEnds(F(c)) /\ status' = "none" /\ gssPc' = "loop"
  BY <1>1 DEF EvaluateMiddle, GssReturn
<1> SUFFICES ASSUME NEW p \in Probes, Valley(p), ~NotBelowEnds(F(c)), status' = "none"
             PROVE  Holds(p, Probe(Low), Probe(c), Probe(High))'
  BY <1>1, <1>2 DEF ValleyInv, Valley
<1>3. Right \in Nat \ {0} /\ 0 \in Probes /\ Right \in Probes /\ Probe(c) \in Probes /\ Probes = 0 .. Right
  BY <1>1, GssAssumption, ProbeInside DEF Probes
<1>4. F(c) \in Nat /\ score[0] \in Nat /\ score[Right] \in Nat /\ F(c) < score[0] /\ F(c) < score[Right]
  BY <1>1, ScoresAreNumbers DEF NotBelowEnds, fa, fb
<1>5. 0 < p /\ p < Right
  <2>1. Probe(c) # 0 /\ Probe(c) # Right
    BY <1>4 DEF F
  <2>2. 0 < Probe(c) /\ Probe(c) < Right
    BY <1>3, <2>1
  <2>3. p <= 0 => score[0] < F(c)
    BY <1>3, <2>2 DEF Valley, F
  <2>4. Right <= p => F(c) > score[Right]
    BY <1>3, <2>2 DEF Valley, F
  <2> QED
    BY <1>3, <1>4, <2>3, <2>4
<1>6. Low = 0 /\ High = Right * Unit
  <2>1. Right * Unit \in Nat
    BY GssAssumption
  <2> QED
    BY <1>1, <2>1 DEF Low, High
<1>7. Probe(Low) < p /\ p < Probe(High)
  BY <1>5, <1>6, ProbeOfEnds
<1> QED
  BY <1>1, <1>7 DEF Holds, Low, High, Probe

LEMMA ConcludeKeepsValley == ASSUME GssInv, ValleyInv, Conclude PROVE ValleyInv'
<1>1. /\ a \in Abscissae /\ b \in Abscissae /\ c \in Abscissae /\ Abscissae \subseteq Int
      /\ a = b /\ min = c /\ gssPc = "loop" /\ score' = score /\ gssPc' = "returned"
  BY DEF GssInv, GssTypeOK, LoopInv, Conclude, Abscissae, GssReturn
<1>2. c' = a /\ c = a
  BY <1>1 DEF Conclude, GssInv, InnerBetween
<1>3. min' = c
  BY <1>1, <1>2 DEF Conclude, Evaluated
<1>4. Low = c /\ High = c
  BY <1>1, <1>2 DEF Low, High
<1>5. Probe(c) \in Int /\ \A p \in Probes : p \in Int
  BY <1>1, ProbeInside DEF Probes
<1>6. ASSUME NEW p \in Probes, Valley(p)
      PROVE  p - 1 <= Probe(c) /\ Probe(c) <= p + 1
  <2>1. Holds(p, Probe(c), Probe(c), Probe(c))
    BY <1>1, <1>4, <1>6 DEF ValleyInv
  <2> QED
    BY <1>5, <2>1 DEF Holds
<1> QED
  BY <1>1, <1>3, <1>6 DEF ValleyInv, Valley, Probe

LEMMA ValleyStep == GssInv /\ ValleyInv /\ [GssNext]_gssVars => ValleyInv'
<1> SUFFICES ASSUME GssInv, ValleyInv, [GssNext]_gssVars PROVE ValleyInv'
  OBVIOUS
<1>1. CASE EvaluateEnds
  BY <1>1 DEF GssInv, EndsInv, EvaluateEnds, ValleyInv
<1>2. CASE EvaluateMiddle
  BY <1>2, EvaluateMiddleKeepsValley
<1>3. CASE Iterate
  BY <1>3, IterateKeepsValley
<1>4. CASE Conclude
  BY <1>4, ConcludeKeepsValley
<1>5. CASE GssFinished \/ UNCHANGED gssVars
  BY <1>5 DEF GssFinished, gssVars, ValleyInv, Valley, Holds, Low, High, Probe
<1> QED
  BY <1>1, <1>2, <1>3, <1>4, <1>5 DEF GssNext

(* On a U-shaped function a successful search ends at the probe of the lowest
   score or next to it, on every grid whose section constant is a third or more,
   as RESPHI is: the truncation of abscissae in plfit's callback costs at most
   one candidate.                                                            *)
THEOREM GssMinimumNear == GssSpec => []UShapedMinimumNear
<1>1. GssInit => ValleyInv
  BY DEF GssInit, ValleyInv
<1>2. GssInv /\ ValleyInv => UShapedMinimumNear
  <2> SUFFICES ASSUME GssInv, ValleyInv, status = "SUCCESS", NEW p \in Probes, Valley(p)
               PROVE  \E q \in Probe(min) - 1 .. Probe(min) + 1 :
                        q \in Probes /\ \A r \in Probes : score[q] <= score[r]
    BY DEF UShapedMinimumNear, UShaped
  <2>1. p - 1 <= Probe(min) /\ Probe(min) <= p + 1
    BY DEF ValleyInv
  <2>2. Probe(min) \in Int /\ p \in Int
    BY ProbeInside DEF GssInv, GssTypeOK, Probes
  <2>3. p \in Probe(min) - 1 .. Probe(min) + 1
    BY <2>1, <2>2
  <2>4. ASSUME NEW r \in Probes PROVE score[p] <= score[r]
    <3>1. score[p] \in Nat /\ score[r] \in Nat
      <4>1. score[p] \in Scores /\ score[r] \in Scores
        BY DEF GssInv, GssTypeOK
      <4> QED
        BY <4>1, GssAssumption
    <3>2. r \in Int
      BY DEF Probes
    <3>3. (r < p => score[r] > score[p]) /\ (p < r => score[p] < score[r])
      BY <2>2, <3>2 DEF Valley
    <3> QED
      BY <2>2, <3>1, <3>2, <3>3
  <2> QED
    BY <2>3, <2>4
<1> QED
  BY <1>1, <1>2, GssInvariance, ValleyStep, PTL DEF GssSpec
=============================================================================
