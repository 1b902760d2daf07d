------------------------------- MODULE Fitter -------------------------------
(* plfit (src/main.c), the command line fitter: its options, the loop over the
   input files, the reader with its growing buffer, the choice of the fit, and
   the fits with a fixed cutoff (src/plfit.c) that only it and the p-value need.

   The divisor and the options of the fit change values, not the flow, and are
   left out.  Input is what fscanf and fgetc make of it: a number, a comment, a character
   that is neither, the start of a number followed by a comment, or a comment
   that the file ends in.  The library's error handler is the default one, which
   aborts.                                                                   *)
EXTENDS Integers, Sequences

CONSTANTS
  MaxFiles,      \* bound on the number of file arguments
  MaxTokens,     \* bound on what is read from all files together
  FirstAlloc,    \* nalloc at first: 100
  WarnedSize,    \* number of values of warned: 2^16
  Integral, Fractional  \* numbers in the files

ASSUME FitterAssumption ==
  /\ MaxFiles \in Nat /\ MaxTokens \in Nat
  /\ FirstAlloc \in Nat \ {0} /\ WarnedSize \in Nat \ {0}
  /\ Integral \cap Fractional = {}

Numbers == Integral \cup Fractional

VARIABLES
  line,          \* outcome of parse_cmd_options
  opts,          \* options that matter to the flow
  numFiles, file,\* argc - optind, and the number of the argument in hand
  stdinOpen,
  at, status,    \* control, exit status
  retval,
  data, n, nalloc,    \* the buffer, its used and its allocated length
  warned, discrete,
  read,          \* history: tokens read from all files
  numbers, bad,  \* history: the numbers and the bad characters of this file
  overrun,       \* history: a number was stored behind the buffer
  fitted, starved  \* history: inputs fitted, inputs given up for want of memory

command == <<line, opts, numFiles>>
buffer  == <<data, n, nalloc, warned, discrete, numbers, bad, overrun>>
tally   == <<fitted, starved>>
vars    == <<command, file, stdinOpen, at, status, retval, buffer, read, tally>>

Lines == {"complete", "help", "invalid", "unhandled"}

Init ==
  /\ line \in Lines
  /\ opts \in [force_continuous : BOOLEAN, xmin : {"search", "zero", "below1", "from1"}]
  /\ numFiles \in 0 .. MaxFiles /\ file = 0
  /\ stdinOpen = TRUE
  /\ at = "parse" /\ status = "none" /\ retval = "0"
  /\ data = <<>> /\ n = 0 /\ nalloc = 0
  /\ warned = 0 /\ discrete = FALSE
  /\ read = 0 /\ numbers = <<>> /\ bad = 0 /\ overrun = FALSE
  /\ fitted = 0 /\ starved = 0

Goto(label) == at' = label
Exit(code)  == status' = code /\ at' = "exited"

(* Help and version end with 0, invalid options with 1; the letter t is in the
   option string but has no case, and the default case aborts.               *)
ParseOptions ==
  /\ at = "parse"
  /\ CASE line = "complete"  -> Goto(IF numFiles = 0 THEN "alloc" ELSE "next") /\ UNCHANGED status
       [] line = "help"      -> Exit("0")
       [] line = "invalid"   -> Exit("1")
       [] line = "unhandled" -> Exit("aborted")
  /\ UNCHANGED <<command, file, stdinOpen, retval, buffer, read, tally>>

----------------------------------------------------------------------------
(* main: the files in their order, the standard input for any argument that
   starts with a dash, or without arguments.                                 *)
OpenNext ==
  /\ at = "next" /\ file < numFiles
  /\ file' = file + 1
  /\ Goto("alloc")
  /\ UNCHANGED <<command, stdinOpen, status, retval, buffer, read, tally>>

\* Mutant: a file that cannot be opened does not change the exit status.
OpenFailsSilently ==
  /\ at = "next" /\ file < numFiles
  /\ file' = file + 1
  /\ UNCHANGED <<command, stdinOpen, at, status, retval, buffer, read, tally>>

OpenFails ==
  /\ at = "next" /\ file < numFiles
  /\ file' = file + 1
  /\ retval' = "2"
  /\ UNCHANGED <<command, stdinOpen, at, status, buffer, read, tally>>

(* The standard input is closed after its first use: a second use finds nothing
   to read, or anything may happen.                                          *)
TakeStdin ==
  /\ at = "next" /\ file < numFiles
  /\ file' = file + 1
  /\ IF stdinOpen THEN Goto("alloc") /\ stdinOpen' = FALSE /\ UNCHANGED status
     ELSE (Exit("65") \/ Exit("crashed")) /\ UNCHANGED stdinOpen
  /\ UNCHANGED <<command, retval, buffer, read, tally>>

AllFilesDone ==
  /\ at = "next" /\ file = numFiles
  /\ Exit(retval)
  /\ UNCHANGED <<command, file, stdinOpen, retval, buffer, read, tally>>

(* process_file returns: only file arguments are a loop.                     *)
ReturnFromFile ==
  IF numFiles = 0 THEN Exit(retval) ELSE Goto("next") /\ UNCHANGED status

----------------------------------------------------------------------------
Allocate ==
  /\ at = "alloc"
  /\ data' = [k \in 1 .. FirstAlloc |-> "zero"] /\ n' = 0 /\ nalloc' = FirstAlloc
  /\ warned' = 0 /\ discrete' = ~opts.force_continuous
  /\ numbers' = <<>> /\ bad' = 0
  /\ Goto("read")
  /\ UNCHANGED <<command, file, stdinOpen, status, retval, overrun, read, tally>>

(* calloc or realloc fails: the file is given up, the exit status is not changed. *)
OutOfMemory ==
  /\ at \in {"alloc", "grow"}
  /\ starved' = starved + 1
  /\ ReturnFromFile
  /\ UNCHANGED <<command, file, stdinOpen, retval, buffer, read, fitted>>

ReadNumber ==
  /\ at = "read" /\ read < MaxTokens
  /\ \E x \in Numbers :
       /\ numbers' = Append(numbers, x)
       /\ IF n < nalloc THEN data' = [data EXCEPT ![n + 1] = x] /\ UNCHANGED overrun
          ELSE overrun' = TRUE /\ UNCHANGED data
       /\ discrete' = (discrete /\ x \in Integral)
  /\ n' = n + 1
  /\ read' = read + 1
  /\ Goto("stored")
  /\ UNCHANGED <<command, file, stdinOpen, status, retval, nalloc, warned, bad, tally>>

\* Mutant: the buffer is enlarged one number too late.
IsFullLate == n > nalloc

IsFull == n = nalloc

AfterNumber ==
  /\ at = "stored"
  /\ Goto(IF IsFull THEN "grow" ELSE "read")
  /\ UNCHANGED <<command, file, stdinOpen, status, retval, buffer, read, tally>>

Grow ==
  /\ at = "grow"
  /\ nalloc' = 2 * nalloc
  /\ data' = [k \in 1 .. 2 * nalloc |-> IF k <= nalloc THEN data[k] ELSE "garbage"]
  /\ Goto("read")
  /\ UNCHANGED <<command, file, stdinOpen, status, retval, n, warned, discrete, numbers, bad, overrun, read, tally>>

(* fscanf finds no number and fgetc takes the next character: a comment is
   skipped up to its newline, also when fscanf has swallowed the sign or prefix
   of a number in front of it.                                               *)
SkipComment ==
  /\ at = "read" /\ read < MaxTokens
  /\ read' = read + 1
  /\ UNCHANGED <<command, file, stdinOpen, at, status, retval, buffer, tally>>

(* A comment that ends with the file, not with a newline.                     *)
SkipCommentAtEnd ==
  /\ at = "read" /\ read < MaxTokens
  /\ Goto("unterminated")
  /\ UNCHANGED <<command, file, stdinOpen, status, retval, buffer, read, tally>>

(* Any other character is counted in an unsigned short.                      *)
BadCharacter ==
  /\ at = "read" /\ read < MaxTokens
  /\ warned' = (warned + 1) % WarnedSize
  /\ bad' = bad + 1
  /\ read' = read + 1
  /\ UNCHANGED <<command, file, stdinOpen, at, status, retval, data, n, nalloc, discrete, numbers, overrun, tally>>

(* The file has ended: a corrupt or an empty one ends the program.            *)
RefusesFile == warned # 0 \/ n = 0

EndOfFile ==
  /\ at = "read"
  /\ IF RefusesFile THEN Exit("65") ELSE Goto("fit") /\ UNCHANGED status
  /\ UNCHANGED <<command, file, stdinOpen, retval, buffer, read, tally>>

----------------------------------------------------------------------------
(* Whether plfit_estimate_alpha_continuous accepts a cutoff with tail points at
   or above it, and plfit_estimate_alpha_discrete, to which an empty tail is no
   error: its minimiser returns the initial guess of 3.                      *)
plfit_estimate_alpha_continuous(tail) == opts.xmin # "zero" /\ tail > 0
plfit_estimate_alpha_discrete(tail)   == opts.xmin = "from1"

(* Without a cutoff, plfit_continuous or plfit_discrete: see ContinuousFit and
   DiscreteFit.                                                              *)
MayFit(tail) ==
  CASE opts.xmin = "search" -> TRUE
    [] opts.xmin # "search" /\ discrete  -> plfit_estimate_alpha_discrete(tail)
    [] opts.xmin # "search" /\ ~discrete -> plfit_estimate_alpha_continuous(tail)

(* The results are printed, the data freed and the file closed.  An error, from
   the range of exponents, the data, or the want of memory, reaches the handler
   in force, plfit_error_handler_abort.                                      *)
Fit ==
  /\ at = "fit"
  /\ \/ Exit("aborted") /\ UNCHANGED fitted
     \/ /\ \E tail \in 0 .. n : MayFit(tail)
        /\ fitted' = fitted + 1
        /\ ReturnFromFile
  /\ UNCHANGED <<command, file, stdinOpen, retval, buffer, read, starved>>

(* fgetc returns EOF, which is not a newline, and is called again, for ever.  *)
ReadEndForEver == at = "unterminated" /\ UNCHANGED vars

Exited == at = "exited" /\ UNCHANGED vars

Run ==
  \/ ParseOptions \/ OpenNext \/ OpenFails \/ TakeStdin \/ AllFilesDone
  \/ Allocate \/ OutOfMemory \/ ReadNumber \/ AfterNumber \/ Grow
  \/ SkipComment \/ SkipCommentAtEnd \/ BadCharacter \/ EndOfFile \/ Fit

Next == Run \/ ReadEndForEver \/ Exited

Spec == Init /\ [][Next]_vars

(* One process that is never suspended for ever, and files that end.          *)
FairSpec == Spec /\ WF_vars(Run)
----------------------------------------------------------------------------
(* What is fitted is the file: every number was stored in the buffer, in order
   and unchanged by its enlargements, no other character was in the file, except
   a number of them that the counter of warnings cannot tell from none, and the
   discrete fit is chosen exactly when all numbers are integers and -c is absent. *)
FittedIsTheFile ==
  at = "fit" =>
    /\ ~overrun
    /\ n = Len(numbers) /\ SubSeq(data, 1, n) = numbers
    /\ bad % WarnedSize = 0
    /\ discrete <=> (~opts.force_continuous /\ \A k \in 1 .. n : numbers[k] \in Integral)

(* An exit status of 0 says that every input was fitted, or read until the memory
   ran out: no missing, empty or corrupt file hides behind a later good one.   *)
ExitZeroMeansFitted ==
  (at = "exited" /\ status = "0" /\ line = "complete") =>
    fitted + starved = IF numFiles = 0 THEN 1 ELSE numFiles

(* README.rst: "inline comments using # (hash) are supported": whatever numbers,
   comments and other characters the files hold, the program ends.            *)
FitterEnds == <>(at = "exited")
----------------------------------------------------------------------------
(* The inductive invariant of FittedIsTheFile and ExitZeroMeansFitted.       *)
Reading == {"read", "stored", "grow", "fit"}

TypeOK ==
  /\ line \in Lines
  /\ opts \in [force_continuous : BOOLEAN, xmin : {"search", "zero", "below1", "from1"}]
  /\ numFiles \in 0 .. MaxFiles /\ file \in 0 .. numFiles
  /\ at \in Reading \cup {"parse", "alloc", "next", "unterminated", "exited"}
  /\ retval \in {"0", "2"}
  /\ nalloc \in Nat /\ n \in Nat
  /\ data \in [1 .. nalloc -> Numbers \cup {"zero", "garbage"}]
  /\ numbers \in Seq(Numbers)
  /\ warned \in 0 .. WarnedSize - 1 /\ bad \in Nat
  /\ discrete \in BOOLEAN /\ overrun \in BOOLEAN
  /\ fitted \in Nat /\ starved \in Nat

(* Between the numbers there is room for one more.                           *)
RoomInv ==
  /\ ~overrun
  /\ at \in {"read", "fit"} => n < nalloc
  /\ at = "stored" => n <= nalloc
  /\ at = "grow"   => n = nalloc

(* The buffer holds what was read, and the flags say what it was.            *)
ReadInv ==
  at \in Reading =>
    /\ n = Len(numbers) /\ nalloc > 0
    /\ \A k \in 1 .. n : data[k] = numbers[k]
    /\ warned = bad % WarnedSize
    /\ discrete <=> (~opts.force_continuous /\ \A k \in 1 .. n : numbers[k] \in Integral)
    /\ at = "fit" => warned = 0

(* While the exit status is still 0, every argument that was taken up and is not
   in hand was fitted, or given up for want of memory.                       *)
TallyInv ==
  /\ at = "parse" => file = 0 /\ fitted + starved = 0
  /\ at = "next" => numFiles > 0 /\ (retval = "0" => fitted + starved = file)
  /\ at \in Reading \cup {"alloc"} =>
       /\ numFiles > 0 => file > 0
       /\ retval = "0" => fitted + starved = IF numFiles = 0 THEN 0 ELSE file - 1
  /\ ExitZeroMeansFitted

FitterInv == TypeOK /\ RoomInv /\ ReadInv /\ TallyInv
=============================================================================
