---------------------------- MODULE MCLinearScan ----------------------------
(* Instances of LinearScan.  Threads are interchangeable: no property and no
   action tells them apart, so they are declared symmetric for the runs that
   check safety only.                                                        *)
EXTENDS LinearScan, TLC

ThreadSymmetry == Permutations(Threads)
=============================================================================
