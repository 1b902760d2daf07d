---------------------------- MODULE MCMinimisers ----------------------------
(* The three minimisers of plfit for TLC: gss of the continuous fit, lbfgs of the
   discrete one, and line_search_morethuente, which Lbfgs uses as one step.
   None of them sees the state of another, so they share a run: one is called,
   and the others rest, gss as one that has returned, the rest before their start.
   Values and slopes are here because a configuration file cannot hold a
   negative number.                                                          *)
EXTENDS GoldenSection, MoreThuente, Lbfgs

VARIABLE called

minimisers == <<called, gssVars, lineVars, vars>>

MCStartSlopes == {-3, 3}
MCValues == {-5, -3, -1, 0, 2}
MCSlopes == {-4, -2, -1, 0, 3}

Resting == bad = {} /\ param = CHOOSE q \in [method : Methods, past : Pasts, maxIter : Iterations] : TRUE

LineResting == dginit = -3 /\ stp = 0

GssResting ==
  /\ score = [p \in Probes |-> 0] /\ gssPc = "returned"
  /\ a = 0 /\ b = 0 /\ c = 0 /\ min = 0 /\ last = 0 /\ status = "none"

MCInit ==
  /\ called \in {"lbfgs", "line_search_morethuente", "gss"}
  /\ Init /\ (called # "lbfgs" => Resting)
  /\ LineInit /\ (called # "line_search_morethuente" => LineResting)
  /\ IF called = "gss" THEN GssInit ELSE GssResting

MCLbfgs == called = "lbfgs" /\ Next /\ UNCHANGED <<called, gssVars, lineVars>>
MCLine  == called = "line_search_morethuente" /\ LineNext /\ UNCHANGED <<called, gssVars, vars>>
MCGss   == called = "gss" /\ GssNext /\ UNCHANGED <<called, lineVars, vars>>

MCNext == MCLbfgs \/ MCLine \/ MCGss

(* The fairness of FairSpec and GssFairSpec; the line search needs none.      *)
MCSpec == MCInit /\ [][MCNext]_minimisers /\ WF_minimisers(MCLbfgs) /\ WF_minimisers(MCGss)
=============================================================================
