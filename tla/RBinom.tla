------------------------------- MODULE RBinom -------------------------------
(* plfit_rbinom (src/rbinom.c) as plfit_i_resample_continuous and _discrete use
   it: the threads of a p-value calculation all draw from the binomial
   distribution of that calculation, and calculations follow one another.  The
   function keeps the constants of its set-up in static variables together with
   the parameters they were computed for.

   A parameter pair (n, pp) is a model value; the static constants are
   represented by the pair they were computed for, and a drawn number by the
   pairs its constants and its final reflection came from.  Passes of the
   rejection loops with the right constants belong to the drawing of a number;
   those with others are a step of their own.                                *)
EXTENDS Integers, FiniteSets

CONSTANTS
  Threads,
  Params,        \* the pairs (n, pp)
  Trivial,       \* those answered before any set-up: n = 0, pp = 0 or pp = 1
  Small,         \* those with n * min(pp, 1 - pp) < 30: inversion, others BTPE
  High,          \* those with pp > 0.5: the drawn number is reflected
  None,          \* the static variables before the first set-up
  MaxRounds,     \* bound on the number of calculations
  MaxCalls       \* bound on the calls of a thread in one calculation

ASSUME RBinomAssumption ==
  /\ Threads # {} /\ None \notin Params
  /\ Trivial \subseteq Params /\ Small \subseteq Params /\ High \subseteq Params
  /\ MaxRounds \in Nat /\ MaxCalls \in Nat

VARIABLES
  args,          \* parameters of the current calculation
  rounds, calls, \* calculations started, calls each thread has left
  pc,
  saved,         \* psave and nsave
  qn,            \* the constant of the inversion
  btpe,          \* m, fm, npq, p1 .. p4, xl, xm, xr, xll, xlr, c
  drawn,         \* drawn[t]: what the last number of thread t was made from
  raced,         \* history: t found parameters whose set-up was not finished
  retried        \* history: passes with other constants used up uniform numbers of t

statics == <<saved, qn, btpe>>
vars == <<args, rounds, calls, pc, statics, drawn, raced, retried>>

Init ==
  /\ args = None
  /\ rounds = 0
  /\ calls = [t \in Threads |-> 0]
  /\ pc = [t \in Threads |-> "idle"]
  /\ saved = None /\ qn = None /\ btpe = None
  /\ drawn = [t \in Threads |-> [consts |-> None, reflect |-> FALSE]]
  /\ raced = [t \in Threads |-> FALSE]
  /\ retried = [t \in Threads |-> FALSE]

Goto(t, label) == pc' = [pc EXCEPT ![t] = label]

(* The resampling calls: every trial of one calculation passes the number of
   points and the share of points below xmin, which do not change.           *)
NewCalculation ==
  /\ rounds < MaxRounds
  /\ \A t \in Threads : pc[t] = "idle" /\ calls[t] = 0
  /\ args' \in Params
  /\ rounds' = rounds + 1
  /\ calls' = [t \in Threads |-> MaxCalls]
  /\ drawn' = [t \in Threads |-> [consts |-> args', reflect |-> args' \in High]]
  /\ UNCHANGED <<pc, statics, raced, retried>>

Call(t) ==
  /\ pc[t] = "idle" /\ calls[t] > 0
  /\ calls' = [calls EXCEPT ![t] = @ - 1]
  /\ Goto(t, IF args \in Trivial THEN "idle" ELSE "check")
  /\ raced' = [raced EXCEPT ![t] = FALSE]
  /\ retried' = [retried EXCEPT ![t] = FALSE]
  /\ UNCHANGED <<args, rounds, statics, drawn>>

\* Mutant: only the probability is compared with the saved one.
SetUpIsCurrentLoosely == saved # None /\ (saved \in High <=> args \in High)

SetUpIsCurrent == saved = args

CheckSaved(t) ==
  /\ pc[t] = "check"
  /\ Goto(t, IF SetUpIsCurrent THEN "generate" ELSE "save")
  /\ raced' = [raced EXCEPT ![t] = SetUpIsCurrent /\ \E u \in Threads : pc[u] = "setup"]
  /\ UNCHANGED <<args, rounds, calls, statics, drawn, retried>>

SaveParameters(t) ==
  /\ pc[t] = "save"
  /\ saved' = args
  /\ Goto(t, "setup")
  /\ UNCHANGED <<args, rounds, calls, qn, btpe, drawn, raced, retried>>

\* Mutant: the two branches of the set-up are swapped.
SetUpSwapped(t) ==
  /\ pc[t] = "setup"
  /\ IF args \in Small THEN btpe' = args /\ UNCHANGED qn ELSE qn' = args /\ UNCHANGED btpe
  /\ Goto(t, "generate")
  /\ UNCHANGED <<args, rounds, calls, saved, drawn, raced, retried>>

SetUp(t) ==
  /\ pc[t] = "setup"
  /\ IF args \in Small THEN qn' = args /\ UNCHANGED btpe ELSE btpe' = args /\ UNCHANGED qn
  /\ Goto(t, "generate")
  /\ UNCHANGED <<args, rounds, calls, saved, drawn, raced, retried>>

(* The rejection loops read the constants; the number is reflected by psave.
   Every pass uses up one or two uniform numbers, and one with the constants of
   another set-up may find no number where the right one would; with the initial
   qn = 0 the inversion never finds any.                                     *)
ConstantsRead == IF args \in Small THEN qn ELSE btpe

Generate(t) ==
  /\ pc[t] = "generate"
  /\ args \in Small => qn # None
  /\ drawn' = [drawn EXCEPT ![t].consts = ConstantsRead]
  /\ Goto(t, "finis")
  /\ UNCHANGED <<args, rounds, calls, statics, raced, retried>>

Retry(t) ==
  /\ pc[t] = "generate" /\ ConstantsRead # args
  /\ retried' = [retried EXCEPT ![t] = TRUE]
  /\ UNCHANGED <<args, rounds, calls, pc, statics, drawn, raced>>

Finis(t) ==
  /\ pc[t] = "finis"
  /\ drawn' = [drawn EXCEPT ![t].reflect = saved \in High]
  /\ Goto(t, "idle")
  /\ UNCHANGED <<args, rounds, calls, statics, raced, retried>>

ThreadStep(t) ==
  Call(t) \/ CheckSaved(t) \/ SaveParameters(t) \/ SetUp(t) \/ Generate(t) \/ Finis(t)

Done == rounds = MaxRounds /\ (\A t \in Threads : pc[t] = "idle" /\ calls[t] = 0) /\ UNCHANGED vars

Next == NewCalculation \/ (\E t \in Threads : ThreadStep(t) \/ Retry(t)) \/ Done

Spec == Init /\ [][Next]_vars

----------------------------------------------------------------------------
(* Every number is made with the constants and the reflection of the parameters
   it was asked for: "Setup, perform only when parameters change" leaves the
   constants of the saved parameters behind.                                 *)
DrawIsOwn ==
  \A t \in Threads : pc[t] = "idle" =>
    drawn[t] = [consts |-> args, reflect |-> args \in High]

(* The same for every call that does not find the parameters of a set-up still
   under way in another thread: no other interleaving spoils a number, or uses
   up uniform numbers that the right constants would not have asked for.     *)
UnracedDrawIsOwn ==
  \A t \in Threads : (pc[t] = "idle" /\ ~raced[t]) =>
    drawn[t] = [consts |-> args, reflect |-> args \in High] /\ ~retried[t]

(* The saved parameters describe the constants whenever nobody is in the
   function: what a later calculation finds cached is usable.                *)
CacheCoherent ==
  ((\A t \in Threads : pc[t] = "idle") /\ saved # None) =>
    IF saved \in Small THEN qn = saved ELSE btpe = saved
----------------------------------------------------------------------------
(* The inductive invariant of UnracedDrawIsOwn and CacheCoherent.  The constants
   of the saved parameters are there unless somebody is just setting them up,
   and whoever found them so, or set them up, finds them until the number is
   drawn.                                                                    *)
HasConstants(q) == IF q \in Small THEN qn = q ELSE btpe = q

Own == [consts |-> args, reflect |-> args \in High]

BinomialTypeOK ==
  /\ args \in Params \cup {None} /\ qn \in Params \cup {None} /\ btpe \in Params \cup {None}
  /\ calls \in [Threads -> Nat]
  /\ pc \in [Threads -> {"idle", "check", "save", "setup", "generate", "finis"}]
  /\ drawn \in [Threads -> [consts : Params \cup {None}, reflect : BOOLEAN]]
  /\ raced \in [Threads -> BOOLEAN] /\ retried \in [Threads -> BOOLEAN]

DrawInv(t) ==
  /\ calls[t] > 0 => args \in Params
  /\ pc[t] # "idle" => args \in Params \ Trivial
  /\ pc[t] = "setup" => saved = args
  /\ (pc[t] = "generate" /\ ~raced[t]) => saved = args /\ HasConstants(args)
  /\ (pc[t] = "finis" /\ ~raced[t]) => saved = args /\ drawn[t].consts = args
  /\ (pc[t] = "idle" /\ ~raced[t]) => drawn[t] = Own
  /\ args \in Trivial => drawn[t] = Own
  /\ (pc[t] \in {"check", "save", "setup"} \/ ~raced[t]) => ~retried[t]

CacheInv == (saved # None /\ \A t \in Threads : pc[t] # "setup") => HasConstants(saved)

BinomialInv == BinomialTypeOK /\ (\A t \in Threads : DrawInv(t)) /\ CacheInv
=============================================================================
