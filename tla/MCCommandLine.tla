---------------------------- MODULE MCCommandLine ----------------------------
(* The two command line programs for TLC.  No state is shared between a process
   of plfit and one of plgen, so they share a run: one is started, and the other
   rests before its first step.                                              *)
EXTENDS Fitter, MCPlGen

VARIABLE program

programs == <<program, vars, genVars>>

FitterResting == line = "help" /\ numFiles = 0 /\ opts = [force_continuous |-> FALSE, xmin |-> "search"]

GenResting ==
  genLine = "help" /\ genOpts = [num_samples |-> 0, kappa |-> 0, gamma |-> "flat", continuous |-> FALSE]

MCInit ==
  /\ program \in {"plfit", "plgen"}
  /\ Init /\ (program = "plgen" => FitterResting)
  /\ GenInit /\ (program = "plfit" => GenResting)

MCPlfit == program = "plfit" /\ Next /\ UNCHANGED <<program, genVars>>
MCPlgen == program = "plgen" /\ GenNext /\ UNCHANGED <<program, vars>>

MCNext == MCPlfit \/ MCPlgen

MCSpec == MCInit /\ [][MCNext]_programs
=============================================================================
