------------------------------- MODULE PlGen -------------------------------
(* plgen (src/plgen.c), the command line generator: its options, the three kinds
   of samples it draws, and the alias sampler it uses for a power law with an
   exponential cutoff, whose steps are those of AliasSampler.

   The command line is its outcome in parse_cmd_options and main.  The array of
   exp(-i / kappa) * pow(...) is computed from the value the product should have
   and the code's own exponent, a difference of unsigned numbers.            *)
EXTENDS AliasSampler

CONSTANTS
  BlockSize,     \* BLOCK_SIZE: 16384
  NumSamples,    \* values of num_samples
  Weights,       \* values exp(-i / kappa) * pow(...) should have
  Kappas,        \* values of kappa; 0 stands for no cutoff
  Gammas,        \* exponents: "nonpositive", "flat" (up to 1) or "steep"
  SizeMax,       \* largest size_t
  ExpLimit       \* largest argument of exp whose result is finite

ASSUME PlGenAssumption ==
  /\ BlockSize \in Nat \ {0} /\ NumSamples \subseteq Nat
  /\ Weights \subseteq Nat /\ Weights # {0}
  /\ Kappas \subseteq Nat /\ SizeMax \in Nat /\ SizeMax >= NumBins /\ ExpLimit \in Nat
  /\ Gammas \subseteq {"nonpositive", "flat", "steep"}

VARIABLES
  genLine,       \* what the command line is: see GenLines
  genOpts,       \* num_samples left, kappa, gamma and continuous
  shape,         \* shape[i]: the value probs[i] should have
  run,           \* control
  printed,       \* history: numbers printed
  bin,           \* the last bin drawn from the table, or NoBin
  ret,           \* exit status
  requested      \* history: num_samples as given

given   == <<genLine, requested>>
genVars == <<sampler, given, genOpts, shape, run, printed, bin, ret>>

NoBin == -1

GenLines == {"help", "invalid option", "too few", "bad num_samples", "bad gamma", "complete"}

GenInit ==
  /\ InitSampler(SamplerBlocks \cup {"array"})
  /\ genLine \in GenLines
  /\ genOpts \in [num_samples : NumSamples, kappa : Kappas, gamma : Gammas, continuous : BOOLEAN]
  /\ shape = [b \in Bins |-> 0]
  /\ run = "parse"
  /\ printed = 0 /\ bin = NoBin
  /\ ret = "none"
  /\ requested = genOpts.num_samples

GenExit(status) == ret' = status /\ run' = "exited"

(* parse_cmd_options and main.                                               *)
Status ==
  [l \in GenLines \ {"complete"} |->
     CASE l = "help" -> 0 [] l = "invalid option" -> 1 [] l = "too few" -> 2
       [] l = "bad num_samples" -> 3 [] l = "bad gamma" -> 4]

Refuse ==
  /\ run = "parse" /\ genLine # "complete"
  /\ GenExit(Status[genLine])
  /\ UNCHANGED <<bin, sampler, given, genOpts, shape, printed>>

Parsed ==
  /\ run = "parse" /\ genLine = "complete"
  /\ run' = IF genOpts.continuous THEN "pareto" ELSE IF genOpts.num_samples <= 0 THEN "done"
            ELSE IF genOpts.kappa > 0 THEN "array" ELSE "zeta"
  /\ UNCHANGED <<bin, sampler, given, genOpts, shape, printed, ret>>

Done ==
  /\ run = "done"
  /\ GenExit(0)
  /\ UNCHANGED <<bin, sampler, given, genOpts, shape, printed>>

----------------------------------------------------------------------------
(* sample_continuous: plfit_rpareto answers at once, with NaN for an exponent
   that is not above 1.                                                      *)
PrintOne ==
  /\ printed' = printed + 1
  /\ UNCHANGED <<bin, sampler, given, genOpts, shape, ret>>

RejectCutoff ==
  /\ run = "pareto" /\ genOpts.kappa > 0
  /\ GenExit(5)
  /\ UNCHANGED <<bin, sampler, given, genOpts, shape, printed>>

SamplePareto ==
  /\ run = "pareto" /\ genOpts.kappa <= 0
  /\ IF printed < genOpts.num_samples THEN PrintOne /\ UNCHANGED run
     ELSE run' = "done" /\ UNCHANGED <<bin, sampler, given, genOpts, shape, printed, ret>>

(* sample_discrete without a cutoff.  plfit_rzeta gives up on a non-positive
   exponent; otherwise it repeats until a candidate is accepted.  Up to an
   exponent of 1 the only candidate that is not below xmin comes from u = 0.  *)
Accepts(u) == genOpts.gamma = "nonpositive" \/ u = "zero" \/ (genOpts.gamma = "steep" /\ u = "inner")

SampleZeta ==
  /\ run = "zeta"
  /\ IF printed < genOpts.num_samples
     THEN \E u \in {"zero", "inner", "one"} : Accepts(u) /\ PrintOne /\ UNCHANGED run
     ELSE run' = "done" /\ UNCHANGED <<bin, sampler, given, genOpts, shape, printed, ret>>

----------------------------------------------------------------------------
(* sample_discrete with a cutoff: the array of weights.  i is a size_t.       *)
Negated(i) == (SizeMax + 1 - i) % (SizeMax + 1)
Overflows(i) == Negated(i) > ExpLimit * genOpts.kappa

(* What takes the place of a value w: exp of an overflowing argument is infinite,
   and not a number once multiplied by a power that has become 0; exp of any
   other unsigned argument is at least 1.                                    *)
Computed(i, w) ==
  IF i = 0 THEN {w}
  ELSE IF Overflows(i) THEN IF w = 0 THEN {Inf, NaN} ELSE {Inf}
  ELSE {v \in Weights : v >= w}

AllocateArray ==
  /\ run = "array"
  /\ \/ /\ blocks' = [blocks EXCEPT !["array"] = "held"]
        /\ run' = "weights" /\ UNCHANGED ret
     \/ "array" \in FailingAllocs /\ GenExit(7) /\ UNCHANGED blocks
  /\ UNCHANGED <<bin, ps, step, table, sticks, given, genOpts, shape, printed>>

ComputeWeights ==
  /\ run = "weights"
  /\ \E s \in [Bins -> Weights] : s[0] > 0 /\ shape' = s
  /\ \E q \in [Bins -> Weights \cup {Inf, NaN}] : (\A i \in Bins : q[i] \in Computed(i, shape'[i])) /\ ps' = q
  /\ step' = "indexes"
  /\ run' = "sampler"
  /\ UNCHANGED <<bin, table, sticks, blocks, given, genOpts, printed, ret>>

InitializeSampler ==
  /\ run = "sampler"
  /\ InitSteps
  /\ UNCHANGED <<bin, given, genOpts, shape, run, printed, ret>>

SamplerFails ==
  /\ run = "sampler" /\ step = "ENOMEM"
  /\ blocks' = Freed(blocks, {"array"})
  /\ GenExit(9)
  /\ UNCHANGED <<bin, ps, step, table, sticks, given, genOpts, shape, printed>>

SamplerReady ==
  /\ run = "sampler" /\ step = "SUCCESS"
  /\ blocks' = Freed(blocks, {"array"})
  /\ run' = "blocks"
  /\ UNCHANGED <<bin, ps, step, table, sticks, given, genOpts, shape, printed, ret>>

(* Blocks of samples until none is left, then the sampler is destroyed.  A draw
   takes any column and any u, 1.0 included, which plfit_mt_uniform_01 yields for
   the largest 32-bit number.                                                *)
\* Mutant: the last block is as long as the others.
BlockLengthFull == BlockSize

BlockLength == IF genOpts.num_samples > BlockSize THEN BlockSize ELSE genOpts.num_samples

SampleBlock ==
  /\ run = "blocks" /\ genOpts.num_samples > 0
  /\ printed' = printed + BlockLength
  /\ bin' \in {Drawn(j, u) : j \in Bins, u \in 0 .. One}
  /\ genOpts' = [genOpts EXCEPT !.num_samples = @ - BlockLength]
  /\ UNCHANGED <<sampler, given, shape, run, ret>>

DestroySampler ==
  /\ run = "blocks" /\ genOpts.num_samples <= 0
  /\ plfit_walker_alias_sampler_destroy
  /\ run' = "done"
  /\ UNCHANGED <<bin, ps, step, table, sticks, given, genOpts, shape, printed, ret>>

GenExited == run = "exited" /\ UNCHANGED genVars

GenNext ==
  \/ Refuse \/ Parsed \/ RejectCutoff \/ SamplePareto \/ SampleZeta
  \/ AllocateArray \/ ComputeWeights \/ InitializeSampler \/ SamplerFails \/ SamplerReady
  \/ SampleBlock \/ DestroySampler \/ Done \/ GenExited

GenSpec == GenInit /\ [][GenNext]_genVars

----------------------------------------------------------------------------
(* However plgen ends, every block has been freed exactly once, and it reports
   success after a complete command line only when it printed as many numbers as
   it was asked for, the last, shorter block included.                       *)
EndsClean ==
  /\ "corrupt" \notin Range(blocks)
  /\ run = "exited" =>
       /\ "held" \notin Range(blocks)
       /\ (ret = 0 /\ genLine = "complete") => printed = requested

(* A number is printed only for a bin with a positive weight, even when u is 1.0
   and every column answers with its alias, 0 where it has none.             *)
OnlyWeightedDrawn == (bin # NoBin /\ Finite) => ps[bin] > 0

(* "P(k) = C * k^(-gamma) * exp(-k/kappa)": every k to which this gives a positive
   probability can be drawn.                                                 *)
CutoffSampled ==
  step = "SUCCESS" => \A b \in Bins : shape[b] > 0 => Mass(b) > 0

----------------------------------------------------------------------------
(* The inductive invariants: the blocks that are held, the numbers that are
   still to be printed, and the weights once they are computed.              *)
GenTypeOK ==
  /\ run \in {"parse", "pareto", "zeta", "array", "weights", "sampler", "blocks", "done", "exited"}
  /\ step \in {"idle", "indexes", "probs", "normalize", "longs", "shorts", "fill", "pair",
               "SUCCESS", "ENOMEM"}
  /\ genLine \in GenLines
  /\ genOpts \in [num_samples : Nat, kappa : Nat, gamma : Gammas, continuous : BOOLEAN]
  /\ requested \in Nat /\ printed \in Nat
  /\ blocks \in [SamplerBlocks \cup {"array"} -> {"null", "held", "dangling"}]

Early == {"parse", "pareto", "zeta", "array", "weights"}

StageInv ==
  /\ run \in Early => step = "idle"
  /\ run = "sampler" => step # "idle"
  /\ run = "blocks" => step = "SUCCESS"

HeldInv ==
  {b \in SamplerBlocks \cup {"array"} : blocks[b] = "held"} =
    CASE run = "weights" -> {"array"}
      [] run = "sampler" -> {"array"} \cup SamplerHeld
      [] run = "blocks"  -> {"indexes", "probs"}
      [] OTHER           -> {}

CountInv ==
  /\ run \notin {"blocks", "done", "exited"} => genOpts.num_samples = requested
  /\ run \in {"parse", "array", "weights", "sampler"} => printed = 0
  /\ run \in {"pareto", "zeta"} => printed <= requested
  /\ run = "blocks" => printed + genOpts.num_samples = requested
  /\ run = "done" => printed = requested
  /\ (run = "exited" /\ ret = 0 /\ genLine = "complete") => printed = requested

WeightInv ==
  step # "idle" => ps \in [Bins -> Nat \cup {Inf, NaN}] /\ ps[0] \in Nat \ {0}

BinInv ==
  /\ run \notin {"blocks", "done", "exited"} => bin = NoBin
  /\ OnlyWeightedDrawn

GenInv ==
  /\ GenTypeOK /\ StageInv /\ HeldInv /\ CountInv /\ WeightInv /\ BinInv
  /\ StackInv /\ SticksFit /\ TableInv /\ PairInv /\ ProductInv /\ BalanceInv /\ MassPreserved /\ DrawInv
=============================================================================
