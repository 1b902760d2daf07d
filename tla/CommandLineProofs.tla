------------------------- MODULE CommandLineProofs -------------------------
(* Proofs about the two command line programs.  First plfit: for every number of
   files, every input, every first length of the buffer and every width of the
   warning counter.  Then plgen and its alias sampler: for every number of bins,
   every weight, every fineness of the rounding, every length of the blocks of
   samples and every failing allocation.                                     *)
EXTENDS Fitter, PlGen, FiniteSetTheorems, SequenceTheorems, TLAPS

(* The counter that wraps around counts the warnings modulo its size.        *)
LEMMA Remainder ==
  ASSUME NEW w \in Nat \ {0}, NEW q \in Int, NEW r \in 0 .. w - 1
  PROVE  (w * q + r) % w = r
<1> DEFINE a == w * q + r
           p == a \div w
           s == a % w
<1>1. a \in Int
  OBVIOUS
<1>2. s \in 0 .. w - 1 /\ p \in Int
  BY <1>1
<1>3. a = w * p + s
  BY <1>1
<1> HIDE DEF p, s
<1>4. w * p \in Int /\ w * q \in Int /\ w * q + r = w * p + s
  BY <1>2, <1>3
<1>5. ASSUME p + 1 <= q PROVE FALSE
  <2>1. w * (p + 1) <= w * q /\ w * (p + 1) = w * p + w
    BY <1>2, <1>5
  <2> QED
    BY <2>1, <1>2, <1>4
<1>6. ASSUME q + 1 <= p PROVE FALSE
  <2>1. w * (q + 1) <= w * p /\ w * (q + 1) = w * q + w
    BY <1>2, <1>6
  <2> QED
    BY <2>1, <1>2, <1>4
<1>7. p = q
  BY <1>2, <1>5, <1>6
<1>8. s = r
  BY <1>2, <1>4, <1>7
<1> QED
  BY <1>8 DEF s

LEMMA CounterWraps ==
  ASSUME NEW b \in Nat, NEW w \in Nat \ {0}
  PROVE  ((b % w) + 1) % w = (b + 1) % w
<1> DEFINE q == b \div w
           r == b % w
<1>1. r \in 0 .. w - 1 /\ q \in Int
  OBVIOUS
<1>2. b = w * q + r
  OBVIOUS
<1> HIDE DEF q, r
<1>3. CASE r + 1 < w
  <2>1. b + 1 = w * q + (r + 1) /\ r + 1 \in 0 .. w - 1
    BY <1>1, <1>2, <1>3
  <2>2. (b + 1) % w = r + 1
    BY <1>1, <2>1, Remainder
  <2>3. (r + 1) % w = r + 1
    <3>1. w * 0 + (r + 1) = r + 1
      BY <1>1
    <3> QED
      BY <2>1, <3>1, Remainder
  <2> QED
    BY <2>2, <2>3 DEF r
<1>4. CASE r + 1 = w
  <2>1. b + 1 = w * (q + 1) + 0 /\ 0 \in 0 .. w - 1 /\ q + 1 \in Int
    BY <1>1, <1>2, <1>4
  <2>2. (b + 1) % w = 0
    BY <2>1, Remainder
  <2>3. (r + 1) % w = 0
    <3>1. w * 1 + 0 = r + 1
      BY <1>1, <1>4
    <3> QED
      BY <2>1, <3>1, Remainder
  <2> QED
    BY <2>2, <2>3 DEF r
<1> QED
  BY <1>1, <1>3, <1>4

----------------------------------------------------------------------------
LEMMA FitterInit == Init => FitterInv
<1> SUFFICES ASSUME Init PROVE FitterInv
  OBVIOUS
<1>1. TypeOK
  <2>1. data \in [1 .. nalloc -> Numbers \cup {"zero", "garbage"}]
    BY DEF Init
  <2>2. warned \in 0 .. WarnedSize - 1 /\ numFiles \in 0 .. MaxFiles /\ file \in 0 .. numFiles
    BY FitterAssumption DEF Init
  <2>3. numbers \in Seq(Numbers) /\ nalloc \in Nat /\ n \in Nat /\ bad \in Nat
    BY DEF Init
  <2>4. /\ line \in Lines /\ at = "parse" /\ retval = "0" /\ discrete \in BOOLEAN /\ overrun \in BOOLEAN
        /\ opts \in [force_continuous : BOOLEAN, xmin : {"search", "zero", "below1", "from1"}]
        /\ fitted \in Nat /\ starved \in Nat
    BY DEF Init
  <2> QED
    BY <2>1, <2>2, <2>3, <2>4 DEF TypeOK
<1>2. RoomInv /\ ReadInv
  BY DEF Init, RoomInv, ReadInv, Reading
<1>3. TallyInv
  BY DEF Init, TallyInv, ExitZeroMeansFitted, Reading
<1> QED
  BY <1>1, <1>2, <1>3 DEF FitterInv

(* Steps that touch neither the buffer nor its flags and end where none is in
   use.                                                                      *)
LEMMA BufferFrame ==
  ASSUME RoomInv, UNCHANGED buffer, at' \in {"next", "alloc", "exited", "unterminated"}
  PROVE  RoomInv' /\ ReadInv'
BY DEF RoomInv, ReadInv, Reading, buffer

LEMMA ParseOptionsKeeps == ASSUME FitterInv, ParseOptions PROVE FitterInv'
<1> USE DEF FitterInv
<1>1. /\ at = "parse"
      /\ UNCHANGED <<line, opts, numFiles, file, retval, buffer, fitted, starved>>
      /\ \/ line = "complete" /\ at' = IF numFiles = 0 THEN "alloc" ELSE "next"
         \/ line # "complete" /\ at' = "exited"
  BY DEF ParseOptions, Goto, Exit, command, tally, TypeOK, Lines
<1>2. TypeOK'
  BY <1>1 DEF TypeOK, buffer
<1>3. RoomInv' /\ ReadInv'
  BY <1>1, BufferFrame
<1>4. TallyInv'
  BY <1>1 DEF TypeOK, TallyInv, ExitZeroMeansFitted, Reading
<1> QED
  BY <1>2, <1>3, <1>4

LEMMA OpenNextKeeps == ASSUME FitterInv, OpenNext PROVE FitterInv'
<1> USE DEF FitterInv
<1>1. /\ at = "next" /\ at' = "alloc" /\ file < numFiles /\ file' = file + 1
      /\ UNCHANGED <<line, opts, numFiles, retval, buffer, fitted, starved>>
  BY DEF OpenNext, Goto, command, tally
<1>2. TypeOK'
  BY <1>1 DEF TypeOK, buffer
<1>3. RoomInv' /\ ReadInv'
  BY <1>1, BufferFrame
<1>4. TallyInv'
  BY <1>1 DEF TypeOK, TallyInv, ExitZeroMeansFitted, Reading
<1> QED
  BY <1>2, <1>3, <1>4

LEMMA OpenFailsKeeps == ASSUME FitterInv, OpenFails PROVE FitterInv'
<1> USE DEF FitterInv
<1>1. /\ at = "next" /\ at' = "next" /\ file < numFiles /\ file' = file + 1 /\ retval' = "2"
      /\ UNCHANGED <<line, opts, numFiles, buffer, fitted, starved>>
  BY DEF OpenFails, Goto, command, tally
<1>2. TypeOK'
  BY <1>1 DEF TypeOK, buffer
<1>3. RoomInv' /\ ReadInv'
  BY <1>1, BufferFrame
<1>4. TallyInv'
  BY <1>1 DEF TypeOK, TallyInv, ExitZeroMeansFitted, Reading
<1> QED
  BY <1>2, <1>3, <1>4

LEMMA TakeStdinKeeps == ASSUME FitterInv, TakeStdin PROVE FitterInv'
<1> USE DEF FitterInv
<1>1. /\ at = "next" /\ file < numFiles /\ file' = file + 1
      /\ at' = "alloc" \/ (at' = "exited" /\ status' \in {"65", "crashed"})
      /\ UNCHANGED <<line, opts, numFiles, retval, buffer, fitted, starved>>
  BY DEF TakeStdin, Goto, Exit, command, tally
<1>2. TypeOK'
  BY <1>1 DEF TypeOK, buffer
<1>3. RoomInv' /\ ReadInv'
  BY <1>1, BufferFrame
<1>4. TallyInv'
  BY <1>1 DEF TypeOK, TallyInv, ExitZeroMeansFitted, Reading
<1> QED
  BY <1>2, <1>3, <1>4

LEMMA AllFilesDoneKeeps == ASSUME FitterInv, AllFilesDone PROVE FitterInv'
<1> USE DEF FitterInv
<1>1. /\ at = "next" /\ file = numFiles /\ at' = "exited" /\ status' = retval
      /\ UNCHANGED <<line, opts, numFiles, file, retval, buffer, fitted, starved>>
  BY DEF AllFilesDone, Exit, command, tally
<1>2. TypeOK'
  BY <1>1 DEF TypeOK, buffer
<1>3. RoomInv' /\ ReadInv'
  BY <1>1, BufferFrame
<1>4. TallyInv'
  BY <1>1 DEF TypeOK, TallyInv, ExitZeroMeansFitted, Reading
<1> QED
  BY <1>2, <1>3, <1>4

LEMMA AllocateKeeps == ASSUME FitterInv, Allocate PROVE FitterInv'
<1> USE DEF FitterInv
<1>1. /\ at = "alloc" /\ at' = "read"
      /\ data' = [k \in 1 .. FirstAlloc |-> "zero"] /\ n' = 0 /\ nalloc' = FirstAlloc
      /\ warned' = 0 /\ discrete' = ~opts.force_continuous /\ numbers' = <<>> /\ bad' = 0
      /\ UNCHANGED <<line, opts, numFiles, file, retval, overrun, fitted, starved>>
  BY DEF Allocate, Goto, command, tally
<1>2. FirstAlloc \in Nat \ {0} /\ WarnedSize \in Nat \ {0}
  BY FitterAssumption
<1>3. TypeOK'
  <2>1. data' \in [1 .. nalloc' -> Numbers \cup {"zero", "garbage"}]
    BY <1>1
  <2>2. numbers' \in Seq(Numbers) /\ warned' \in 0 .. WarnedSize - 1 /\ nalloc' \in Nat
    BY <1>1, <1>2
  <2> QED
    BY <1>1, <2>1, <2>2 DEF TypeOK, Reading
<1>4. RoomInv'
  BY <1>1, <1>2 DEF RoomInv
<1>5. ReadInv'
  <2>1. 0 % WarnedSize = 0
    BY <1>2, Remainder, WarnedSize * 0 + 0 = 0
  <2>2. n' = 0 /\ Len(numbers') = 0 /\ nalloc' > 0
    BY <1>1, <1>2
  <2>3. discrete' <=> (~opts.force_continuous /\ \A k \in 1 .. 0 : numbers'[k] \in Integral)
    <3>1. opts.force_continuous \in BOOLEAN
      BY DEF TypeOK
    <3>2. 1 .. 0 = {}
      OBVIOUS
    <3> QED
      BY <1>1, <3>1, <3>2
  <2> QED
    BY <1>1, <2>1, <2>2, <2>3 DEF ReadInv
<1>6. TallyInv'
  BY <1>1 DEF TallyInv, ExitZeroMeansFitted, Reading
<1> QED
  BY <1>3, <1>4, <1>5, <1>6

(* An input is finished: it counts as fitted or as starved.                  *)
LEMMA InputDone ==
  ASSUME FitterInv, at \in Reading \cup {"alloc"}, ReturnFromFile,
         fitted' + starved' = fitted + starved + 1, fitted' \in Nat, starved' \in Nat,
         UNCHANGED <<line, opts, numFiles, file, retval, buffer>>
  PROVE  FitterInv'
<1> USE DEF FitterInv
<1>1. /\ numFiles = 0 => at' = "exited" /\ status' = retval
      /\ numFiles # 0 => at' = "next"
  BY DEF ReturnFromFile, Exit, Goto
<1>2. TypeOK'
  BY <1>1 DEF TypeOK, buffer
<1>3. RoomInv' /\ ReadInv'
  BY <1>1, BufferFrame
<1>4. numFiles \in Nat /\ file \in 0 .. numFiles /\ fitted \in Nat /\ starved \in Nat
  BY DEF TypeOK
<1>5. TallyInv'
  <2>1. /\ (retval = "0" /\ numFiles = 0) => fitted + starved = 0
        /\ (retval = "0" /\ numFiles # 0) => fitted + starved = file - 1
    BY DEF TallyInv
  <2>2. CASE numFiles = 0
    <3>1. at' = "exited" /\ status' = retval
      BY <1>1, <2>2
    <3>2. retval = "0" => fitted' + starved' = 1
      <4>1. retval = "0" => fitted + starved + 1 = 1
        BY <1>4, <2>1, <2>2
      <4> QED
        BY <4>1
    <3> QED
      BY <2>2, <3>1, <3>2 DEF TallyInv, ExitZeroMeansFitted, Reading
  <2>3. CASE numFiles # 0
    <3>1. at' = "next" /\ numFiles > 0
      BY <1>1, <1>4, <2>3
    <3>2. retval = "0" => fitted' + starved' = file
      <4>1. retval = "0" => fitted + starved + 1 = file
        BY <1>4, <2>1, <2>3
      <4> QED
        BY <4>1
    <3> QED
      BY <3>1, <3>2 DEF TallyInv, ExitZeroMeansFitted, Reading
  <2> QED
    BY <2>2, <2>3
<1> QED
  BY <1>2, <1>3, <1>5

LEMMA OutOfMemoryKeeps == ASSUME FitterInv, OutOfMemory PROVE FitterInv'
<1>1. /\ at \in Reading \cup {"alloc"} /\ ReturnFromFile
      /\ starved' = starved + 1 /\ fitted' = fitted
      /\ UNCHANGED <<line, opts, numFiles, file, retval, buffer>>
  BY DEF OutOfMemory, Reading, command
<1>2. fitted \in Nat /\ starved \in Nat
  BY DEF FitterInv, TypeOK
<1> QED
  BY <1>1, <1>2, InputDone

(* A fit that fails ends the program.                                        *)
LEMMA FitKeeps == ASSUME FitterInv, Fit PROVE FitterInv'
<1>1. at = "fit" /\ UNCHANGED <<line, opts, numFiles, file, retval, buffer, starved>>
  BY DEF Fit, command
<1>2. CASE Exit("aborted") /\ UNCHANGED fitted
  <2> USE DEF FitterInv
  <2>1. at' = "exited" /\ status' = "aborted" /\ fitted' = fitted
    BY <1>2 DEF Exit
  <2>2. TypeOK'
    BY <1>1, <2>1 DEF TypeOK, buffer
  <2>3. RoomInv' /\ ReadInv'
    BY <1>1, <2>1, BufferFrame
  <2>4. TallyInv'
    BY <2>1 DEF TallyInv, ExitZeroMeansFitted, Reading
  <2> QED
    BY <2>2, <2>3, <2>4
<1>3. CASE fitted' = fitted + 1 /\ ReturnFromFile
  <2>1. fitted \in Nat /\ starved \in Nat
    BY DEF FitterInv, TypeOK
  <2> QED
    BY <1>1, <1>3, <2>1, InputDone DEF Reading
<1> QED
  BY <1>2, <1>3 DEF Fit

----------------------------------------------------------------------------
(* The reader.                                                               *)
LEMMA TallyFrame ==
  ASSUME TallyInv, at \in Reading, at' \in Reading \cup {"unterminated"},
         UNCHANGED <<numFiles, file, retval, fitted, starved>>
  PROVE  TallyInv'
BY DEF TallyInv, ExitZeroMeansFitted, Reading

LEMMA ReadNumberKeeps == ASSUME FitterInv, ReadNumber PROVE FitterInv'
<1> USE DEF FitterInv
<1>1. /\ at = "read" /\ at' = "stored" /\ n' = n + 1
      /\ UNCHANGED <<line, opts, numFiles, file, retval, nalloc, warned, bad, fitted, starved>>
  BY DEF ReadNumber, Goto, command, tally
<1>2. n < nalloc /\ n \in Nat /\ nalloc \in Nat
  BY <1>1 DEF RoomInv, TypeOK
<1>3. PICK x \in Numbers :
        /\ numbers' = Append(numbers, x)
        /\ data' = [data EXCEPT ![n + 1] = x] /\ overrun' = overrun
        /\ discrete' = (discrete /\ x \in Integral)
  BY <1>2 DEF ReadNumber
<1>4. numbers \in Seq(Numbers) /\ data \in [1 .. nalloc -> Numbers \cup {"zero", "garbage"}]
  BY DEF TypeOK
<1>5. /\ n = Len(numbers) /\ \A k \in 1 .. n : data[k] = numbers[k]
      /\ warned = bad % WarnedSize
      /\ discrete <=> (~opts.force_continuous /\ \A k \in 1 .. n : numbers[k] \in Integral)
  BY <1>1 DEF ReadInv, Reading
<1>6. /\ numbers' \in Seq(Numbers) /\ Len(numbers') = n + 1
      /\ \A k \in 1 .. n : numbers'[k] = numbers[k]
      /\ numbers'[n + 1] = x
  BY <1>3, <1>4, <1>5, AppendProperties
<1>7. TypeOK'
  <2>1. data' \in [1 .. nalloc' -> Numbers \cup {"zero", "garbage"}]
    BY <1>1, <1>3, <1>4
  <2> QED
    BY <1>1, <1>2, <1>3, <1>6, <2>1 DEF TypeOK, Reading
<1>8. RoomInv'
  BY <1>1, <1>2, <1>3 DEF RoomInv
<1>9. ReadInv'
  <2>1. \A k \in 1 .. n + 1 : data'[k] = numbers'[k]
    <3> SUFFICES ASSUME NEW k \in 1 .. n + 1 PROVE data'[k] = numbers'[k]
      OBVIOUS
    <3>1. CASE k = n + 1
      BY <1>2, <1>3, <1>4, <1>6, <3>1
    <3>2. CASE k \in 1 .. n
      BY <1>2, <1>3, <1>4, <1>5, <1>6, <3>2
    <3> QED
      BY <1>2, <3>1, <3>2
  <2>2. (\A k \in 1 .. n + 1 : numbers'[k] \in Integral) <=> (x \in Integral /\ \A k \in 1 .. n : numbers[k] \in Integral)
    BY <1>2, <1>6
  <2>3. discrete' <=> (~opts.force_continuous /\ \A k \in 1 .. n + 1 : numbers'[k] \in Integral)
    BY <1>3, <1>5, <2>2
  <2> QED
    BY <1>1, <1>2, <1>5, <1>6, <2>1, <2>3 DEF ReadInv
<1>10. TallyInv'
  BY <1>1, TallyFrame DEF Reading
<1> QED
  BY <1>7, <1>8, <1>9, <1>10

LEMMA AfterNumberKeeps == ASSUME FitterInv, AfterNumber PROVE FitterInv'
<1> USE DEF FitterInv
<1>1. /\ at = "stored" /\ at' = IF n = nalloc THEN "grow" ELSE "read"
      /\ UNCHANGED <<line, opts, numFiles, file, retval, buffer, fitted, starved>>
  BY DEF AfterNumber, Goto, IsFull, command, tally
<1>2. TypeOK'
  BY <1>1 DEF TypeOK, buffer, Reading
<1>3. RoomInv'
  BY <1>1 DEF RoomInv, TypeOK, buffer
<1>4. ReadInv'
  BY <1>1 DEF ReadInv, Reading, buffer
<1>5. TallyInv'
  BY <1>1, TallyFrame DEF Reading
<1> QED
  BY <1>2, <1>3, <1>4, <1>5

(* The numbers survive the enlargement of the buffer.                        *)
LEMMA GrowKeeps == ASSUME FitterInv, Grow PROVE FitterInv'
<1> USE DEF FitterInv
<1>1. /\ at = "grow" /\ at' = "read" /\ nalloc' = 2 * nalloc
      /\ data' = [k \in 1 .. 2 * nalloc |-> IF k <= nalloc THEN data[k] ELSE "garbage"]
      /\ UNCHANGED <<line, opts, numFiles, file, retval, n, warned, discrete, numbers, bad, overrun, fitted, starved>>
  BY DEF Grow, Goto, command, tally
<1>2. n = nalloc /\ nalloc > 0 /\ nalloc \in Nat /\ data \in [1 .. nalloc -> Numbers \cup {"zero", "garbage"}]
  BY <1>1 DEF RoomInv, ReadInv, Reading, TypeOK
<1>3. TypeOK'
  <2>1. data' \in [1 .. nalloc' -> Numbers \cup {"zero", "garbage"}]
    BY <1>1, <1>2
  <2> QED
    BY <1>1, <1>2, <2>1 DEF TypeOK, Reading
<1>4. RoomInv'
  BY <1>1, <1>2 DEF RoomInv
<1>5. ReadInv'
  <2>1. \A k \in 1 .. n : data'[k] = data[k]
    BY <1>1, <1>2
  <2> QED
    BY <1>1, <1>2, <2>1 DEF ReadInv, Reading
<1>6. TallyInv'
  BY <1>1, TallyFrame DEF Reading
<1> QED
  BY <1>3, <1>4, <1>5, <1>6

LEMMA SkipCommentKeeps == ASSUME FitterInv, SkipComment \/ SkipCommentAtEnd PROVE FitterInv'
<1> USE DEF FitterInv
<1>1. /\ at = "read" /\ at' \in {"read", "unterminated"}
      /\ UNCHANGED <<line, opts, numFiles, file, retval, buffer, fitted, starved>>
  BY DEF SkipComment, SkipCommentAtEnd, Goto, command, tally
<1>2. TypeOK'
  BY <1>1 DEF TypeOK, buffer, Reading
<1>3. RoomInv'
  BY <1>1 DEF RoomInv, buffer
<1>4. ReadInv'
  BY <1>1 DEF ReadInv, Reading, buffer
<1>5. TallyInv'
  BY <1>1, TallyFrame DEF Reading
<1> QED
  BY <1>2, <1>3, <1>4, <1>5

LEMMA BadCharacterKeeps == ASSUME FitterInv, BadCharacter PROVE FitterInv'
<1> USE DEF FitterInv
<1>1. /\ at = "read" /\ at' = "read" /\ warned' = (warned + 1) % WarnedSize /\ bad' = bad + 1
      /\ UNCHANGED <<line, opts, numFiles, file, retval, data, n, nalloc, discrete, numbers, overrun, fitted, starved>>
  BY DEF BadCharacter, command, tally
<1>2. WarnedSize \in Nat \ {0} /\ bad \in Nat /\ warned \in 0 .. WarnedSize - 1
  BY FitterAssumption DEF TypeOK
<1>3. warned' = bad' % WarnedSize
  BY <1>1, <1>2, CounterWraps DEF ReadInv, Reading
<1>4. TypeOK'
  <2>1. warned + 1 \in Int
    BY <1>2
  <2>2. warned' \in 0 .. WarnedSize - 1
    BY <1>1, <1>2, <2>1
  <2> QED
    BY <1>1, <1>2, <2>2 DEF TypeOK
<1>5. RoomInv'
  BY <1>1 DEF RoomInv
<1>6. ReadInv'
  BY <1>1, <1>3 DEF ReadInv, Reading
<1>7. TallyInv'
  BY <1>1, TallyFrame DEF Reading
<1> QED
  BY <1>4, <1>5, <1>6, <1>7

LEMMA EndOfFileKeeps == ASSUME FitterInv, EndOfFile PROVE FitterInv'
<1> USE DEF FitterInv
<1>1. /\ at = "read"
      /\ UNCHANGED <<line, opts, numFiles, file, retval, buffer, fitted, starved>>
      /\ \/ at' = "exited" /\ status' = "65"
         \/ at' = "fit" /\ warned = 0
  BY DEF EndOfFile, RefusesFile, Goto, Exit, command, tally
<1>2. TypeOK'
  BY <1>1 DEF TypeOK, buffer, Reading
<1>3. RoomInv'
  BY <1>1 DEF RoomInv, buffer
<1>4. ReadInv'
  BY <1>1 DEF ReadInv, Reading, buffer
<1>5. TallyInv'
  BY <1>1 DEF TallyInv, ExitZeroMeansFitted, Reading
<1> QED
  BY <1>2, <1>3, <1>4, <1>5

LEMMA FitterStutters == ASSUME FitterInv, UNCHANGED vars PROVE FitterInv'
<1> USE DEF FitterInv, vars, command, buffer, tally
<1>1. TypeOK'
  BY DEF TypeOK
<1>2. RoomInv' /\ ReadInv'
  BY DEF RoomInv, ReadInv
<1>3. TallyInv'
  BY DEF TallyInv, ExitZeroMeansFitted
<1> QED
  BY <1>1, <1>2, <1>3

LEMMA FitterStep == FitterInv /\ [Next]_vars => FitterInv'
<1> SUFFICES ASSUME FitterInv, [Next]_vars PROVE FitterInv'
  OBVIOUS
<1>1. CASE ParseOptions \/ OpenNext \/ OpenFails \/ TakeStdin \/ AllFilesDone
  BY <1>1, ParseOptionsKeeps, OpenNextKeeps, OpenFailsKeeps, TakeStdinKeeps, AllFilesDoneKeeps
<1>2. CASE Allocate \/ OutOfMemory \/ ReadNumber \/ AfterNumber \/ Grow
  BY <1>2, AllocateKeeps, OutOfMemoryKeeps, ReadNumberKeeps, AfterNumberKeeps, GrowKeeps
<1>3. CASE SkipComment \/ SkipCommentAtEnd \/ BadCharacter \/ EndOfFile \/ Fit
  BY <1>3, SkipCommentKeeps, BadCharacterKeeps, EndOfFileKeeps, FitKeeps
<1>4. CASE ReadEndForEver \/ Exited \/ UNCHANGED vars
  BY <1>4, FitterStutters DEF ReadEndForEver, Exited
<1> QED
  BY <1>1, <1>2, <1>3, <1>4 DEF Next, Run

(* The inductive invariant holds for the whole command line.                 *)
THEOREM FitterInvariance == Spec => []FitterInv
BY FitterInit, FitterStep, PTL DEF Spec

(* No number is lost, moved or written behind the buffer, however often it is
   enlarged, and the kind of the fit follows from the numbers.               *)
THEOREM FitterReadsFile == Spec => []FittedIsTheFile
<1>1. FitterInv => FittedIsTheFile
  <2> SUFFICES ASSUME FitterInv, at = "fit"
               PROVE  /\ ~overrun
                      /\ n = Len(numbers) /\ SubSeq(data, 1, n) = numbers
                      /\ bad % WarnedSize = 0
                      /\ discrete <=> (~opts.force_continuous /\ \A k \in 1 .. n : numbers[k] \in Integral)
    BY DEF FittedIsTheFile
  <2>1. /\ ~overrun /\ n = Len(numbers) /\ bad % WarnedSize = 0
        /\ \A k \in 1 .. n : data[k] = numbers[k]
        /\ discrete <=> (~opts.force_continuous /\ \A k \in 1 .. n : numbers[k] \in Integral)
    BY DEF FitterInv, RoomInv, ReadInv, Reading
  <2>2. numbers \in Seq(Numbers) /\ n \in Nat
    BY DEF FitterInv, TypeOK
  <2>3. \A k \in 1 .. n : data[k] \in Numbers
    BY <2>1, <2>2, ElementOfSeq
  <2>4. /\ SubSeq(data, 1, n) \in Seq(Numbers)
        /\ Len(SubSeq(data, 1, n)) = n
        /\ \A k \in 1 .. n : SubSeq(data, 1, n)[k] = data[k]
    <3>1. /\ SubSeq(data, 1, n) \in Seq(Numbers)
          /\ Len(SubSeq(data, 1, n)) = IF 1 <= n THEN n - 1 + 1 ELSE 0
          /\ \A k \in 1 .. n - 1 + 1 : SubSeq(data, 1, n)[k] = data[1 + k - 1]
      BY <2>2, <2>3, SubSeqProperties
    <3> QED
      BY <2>2, <3>1
  <2>5. SubSeq(data, 1, n) = numbers
    BY <2>1, <2>2, <2>4, SeqEqual
  <2> QED
    BY <2>1, <2>5
<1> QED
  BY <1>1, FitterInvariance, PTL

(* The program ends with 0 only after every input was fitted, or given up for
   want of memory.                                                           *)
THEOREM FitterExitZero == Spec => []ExitZeroMeansFitted
<1>1. FitterInv => ExitZeroMeansFitted
  BY DEF FitterInv, TallyInv
<1> QED
  BY <1>1, FitterInvariance, PTL

----------------------------------------------------------------------------
(* Induction, as the existence of a smallest counterexample: a set of numbers
   that is not empty has a smallest member.                                  *)
LEMMA Smallest ==
  ASSUME NEW T, T \subseteq Nat, T # {}
  PROVE  \E x \in T : \A y \in T : x <= y
<1> DEFINE R == {p \in Nat \X Nat : p[1] < p[2]}
<1>1. IsWellFoundedOn(R, Nat)
  BY NatLessThanWellFounded, Zenon DEF OpToRel
<1>2. \A x, y \in Nat : x < y => <<x, y>> \in R
  OBVIOUS
<1> HIDE DEF R
<1>3. PICK x \in T : \A y \in T : ~(<<y, x>> \in R)
  BY <1>1, WFMin
<1>4. ASSUME NEW y \in T PROVE x <= y
  <2>1. x \in Nat /\ y \in Nat
    OBVIOUS
  <2>2. ~(y < x)
    BY <1>2, <1>3, <2>1, Zenon
  <2> QED
    BY <2>1, <2>2
<1> QED
  BY <1>4

(* Induction over the subsets of a finite set, for a set of good ones.       *)
LEMMA SubsetInduction ==
  ASSUME NEW S, IsFiniteSet(S), NEW Good,
         \A T \in SUBSET S : (\A x \in T : T \ {x} \in Good) => T \in Good
  PROVE  S \in Good
<1> DEFINE Bad == {i \in Nat : \E T \in SUBSET S : Cardinality(T) = i /\ T \notin Good}
<1>1. \A T \in SUBSET S : IsFiniteSet(T) /\ Cardinality(T) \in Nat
  BY FS_Subset, FS_CardinalityType
<1>2. SUFFICES ASSUME S \notin Good PROVE FALSE
  OBVIOUS
<1>3. Bad # {} /\ Bad \subseteq Nat
  BY <1>1, <1>2
<1>4. PICK m \in Bad : \A i \in Bad : m <= i
  <2> HIDE DEF Bad
  <2> QED
    BY <1>3, Smallest
<1>5. PICK T \in SUBSET S : Cardinality(T) = m /\ T \notin Good
  BY <1>4
<1>6. ASSUME NEW x \in T PROVE T \ {x} \in Good
  <2>1. Cardinality(T \ {x}) = Cardinality(T) - 1
    BY <1>1, FS_RemoveElement
  <2>2. T \ {x} \in SUBSET S
    OBVIOUS
  <2>3. m - 1 \in Nat /\ ~(m - 1 \in Bad)
    BY <1>1, <1>4, <1>5, <2>1, <2>2
  <2> QED
    BY <1>5, <2>1, <2>2, <2>3
<1> QED
  BY <1>5, <1>6

(* SumFunctionOnSet(g, S) is the value at S of a recursive function on the
   subsets of S.                                                             *)
Summing(g, S, h) ==
  h = [s \in SUBSET S |->
         IF s = {} THEN 0 ELSE g[CHOOSE x \in s : TRUE] + h[s \ {CHOOSE x \in s : TRUE}]]

(* It is what the fold of the community module computes.                     *)
LEMMA SumIsSumming ==
  ASSUME NEW g, NEW S
  PROVE  SumFunctionOnSet(g, S) = (CHOOSE h : Summing(g, S, h))[S]
BY DEF SumFunctionOnSet, FoldFunctionOnSet, MapThenFoldSet, Summing

(* That function exists: it is extended by the subsets with one more element. *)
LEMMA SummingExists ==
  ASSUME NEW S, IsFiniteSet(S), NEW g
  PROVE  \E h : Summing(g, S, h)
<1> DEFINE Small(i) == {s \in SUBSET S : Cardinality(s) <= i}
           Rec(h, s) == IF s = {} THEN 0 ELSE g[CHOOSE x \in s : TRUE] + h[s \ {CHOOSE x \in s : TRUE}]
           Works(i) == \E h : h = [s \in Small(i) |-> Rec(h, s)]
           Bad == {i \in Nat : ~Works(i)}
<1>1. \A s \in SUBSET S : IsFiniteSet(s) /\ Cardinality(s) \in Nat
  BY FS_Subset, FS_CardinalityType
<1>2. Works(0)
  <2>1. \A s \in Small(0) : s = {}
    BY <1>1, FS_EmptySet
  <2> DEFINE h == [s \in Small(0) |-> 0]
  <2>2. h = [s \in Small(0) |-> Rec(h, s)]
    BY <2>1
  <2> QED
    BY <2>2
<1>3. ASSUME NEW i \in Nat, Works(i) PROVE Works(i + 1)
  <2>1. PICK h : h = [s \in Small(i) |-> Rec(h, s)]
    BY <1>3
  <2> DEFINE k == [s \in Small(i + 1) |-> IF s \in Small(i) THEN h[s] ELSE Rec(h, s)]
  <2>2. ASSUME NEW s \in Small(i + 1), s # {}
        PROVE  s \ {CHOOSE x \in s : TRUE} \in Small(i)
    <3> DEFINE e == CHOOSE x \in s : TRUE
    <3>1. e \in s
      BY <2>2
    <3>2. IsFiniteSet(s) /\ Cardinality(s) \in Nat /\ Cardinality(s) <= i + 1
      BY <1>1
    <3> HIDE DEF e
    <3>3. s \ {e} \in SUBSET S /\ Cardinality(s \ {e}) = Cardinality(s) - 1
      BY <3>1, <3>2, FS_RemoveElement
    <3> QED
      BY <3>2, <3>3 DEF e
  <2>3. Small(i) \subseteq Small(i + 1)
    BY <1>1
  <2>4. ASSUME NEW s \in Small(i + 1) PROVE k[s] = Rec(k, s)
    <3>1. CASE s = {}
      <4>1. s \in Small(i) => h[s] = 0
        BY <2>1, <3>1
      <4> QED
        BY <3>1, <4>1
    <3>2. CASE s # {}
      <4> DEFINE rest == s \ {CHOOSE x \in s : TRUE}
      <4>1. rest \in Small(i)
        BY <2>2, <3>2
      <4>2. k[rest] = h[rest]
        BY <2>3, <4>1
      <4>3. k[s] = Rec(h, s)
        BY <2>1
      <4> QED
        BY <3>2, <4>2, <4>3
    <3> QED
      BY <3>1, <3>2
  <2>5. k = [s \in Small(i + 1) |-> Rec(k, s)]
    <3> HIDE DEF Small, Rec
    <3>1. k = [s \in Small(i + 1) |-> k[s]]
      OBVIOUS
    <3> QED
      BY <3>1, <2>4
  <2> QED
    BY <2>5
<1> HIDE DEF Works
<1>4. Bad = {}
  <2>1. SUFFICES ASSUME Bad # {} PROVE FALSE
    OBVIOUS
  <2>2. PICK m \in Bad : \A y \in Bad : m <= y
    BY <2>1, Smallest
  <2>3. m # 0 /\ m - 1 \in Nat /\ ~(m - 1 \in Bad)
    BY <1>2, <2>2
  <2>4. Works(m)
    BY <1>3, <2>3
  <2> QED
    BY <2>2, <2>4
<1>5. Cardinality(S) \in Nat /\ Small(Cardinality(S)) = SUBSET S
  BY <1>1, FS_Subset, FS_CardinalityType
<1>6. Works(Cardinality(S))
  BY <1>4, <1>5
<1>7. \E h : h = [s \in Small(Cardinality(S)) |-> Rec(h, s)]
  BY <1>6 DEF Works
<1>8. \E h : h = [s \in SUBSET S |-> Rec(h, s)]
  <2> HIDE DEF Small, Rec
  <2> QED
    BY <1>5, <1>7
<1> QED
  BY <1>8 DEF Summing

(* Its value at T does not depend on the set it is built for.                *)
LEMMA SummingUnique ==
  ASSUME NEW S, IsFiniteSet(S), NEW T \in SUBSET S, NEW g, NEW h, NEW k,
         Summing(g, S, h), Summing(g, T, k)
  PROVE  k[T] = h[T]
<1> DEFINE Good == {s \in SUBSET T : k[s] = h[s]}
<1>1. ASSUME NEW s \in SUBSET T, \A x \in s : s \ {x} \in Good
      PROVE  s \in Good
  <2> DEFINE e == CHOOSE x \in s : TRUE
  <2>1. s # {} => k[s] = g[e] + k[s \ {e}] /\ h[s] = g[e] + h[s \ {e}]
    BY DEF Summing
  <2>2. s = {} => k[s] = 0 /\ h[s] = 0
    BY DEF Summing
  <2>3. s # {} => e \in s
    OBVIOUS
  <2> HIDE DEF e
  <2>4. s # {} => k[s \ {e}] = h[s \ {e}]
    BY <1>1, <2>3
  <2> QED
    BY <2>1, <2>2, <2>4
<1>2. IsFiniteSet(T)
  BY FS_Subset
<1> HIDE DEF Good
<1>3. T \in Good
  BY <1>1, <1>2, SubsetInduction
<1> QED
  BY <1>3 DEF Good

(* The sum over no element, and the recursion in terms of the sum itself.    *)
LEMMA SumRecursion ==
  ASSUME NEW S, IsFiniteSet(S), NEW g
  PROVE  /\ S = {} => SumFunctionOnSet(g, S) = 0
         /\ S # {} => LET x == CHOOSE x \in S : TRUE
                      IN  SumFunctionOnSet(g, S) = g[x] + SumFunctionOnSet(g, S \ {x})
<1> DEFINE h == CHOOSE h : Summing(g, S, h)
           x == CHOOSE x \in S : TRUE
           k == CHOOSE k : Summing(g, S \ {x}, k)
<1>1. Summing(g, S, h)
  BY SummingExists
<1>2. SumFunctionOnSet(g, S) = h[S]
  BY SumIsSumming
<1>3. Summing(g, S \ {x}, k) /\ SumFunctionOnSet(g, S \ {x}) = k[S \ {x}]
  <2>1. IsFiniteSet(S \ {x})
    BY FS_RemoveElement
  <2> QED
    BY <2>1, SummingExists, SumIsSumming
<1> HIDE DEF h, k
<1>4. k[S \ {x}] = h[S \ {x}]
  <2>1. S \ {x} \in SUBSET S
    OBVIOUS
  <2> HIDE DEF x
  <2> QED
    BY <1>1, <1>3, <2>1, SummingUnique
<1>5. S = {} => h[S] = 0
  BY <1>1 DEF Summing
<1>6. S # {} => h[S] = g[x] + h[S \ {x}]
  BY <1>1 DEF Summing
<1> HIDE DEF x
<1>7. S # {} => SumFunctionOnSet(g, S) = g[x] + SumFunctionOnSet(g, S \ {x})
  BY <1>2, <1>3, <1>4, <1>6
<1> QED
  BY <1>2, <1>5, <1>7 DEF x
(* Any element may be taken out of a sum.                                    *)
LEMMA SumRemove ==
  ASSUME NEW S, IsFiniteSet(S), NEW g, \A x \in S : g[x] \in Int
  PROVE  /\ SumFunctionOnSet(g, S) \in Int
         /\ \A y \in S : SumFunctionOnSet(g, S) = g[y] + SumFunctionOnSet(g, S \ {y})
<1> DEFINE Fine(T) == /\ SumFunctionOnSet(g, T) \in Int
                      /\ \A y \in T : SumFunctionOnSet(g, T) = g[y] + SumFunctionOnSet(g, T \ {y})
           Good == {T \in SUBSET S : \A U \in SUBSET T : Fine(U)}
<1>1. \A T \in SUBSET S : IsFiniteSet(T)
  BY FS_Subset
<1> HIDE DEF Fine
<1>2. ASSUME NEW T \in SUBSET S, \A x \in T : T \ {x} \in Good
      PROVE  T \in Good
  <2>1. \A U \in SUBSET T : U # T => Fine(U)
    <3> SUFFICES ASSUME NEW U \in SUBSET T, U # T PROVE Fine(U)
      OBVIOUS
    <3>1. PICK x \in T : x \notin U
      OBVIOUS
    <3>2. U \in SUBSET (T \ {x}) /\ T \ {x} \in Good
      BY <1>2, <3>1
    <3> QED
      BY <3>2
  <2> DEFINE x == CHOOSE x \in T : TRUE
  <2>2. CASE T = {}
    <3>1. SumFunctionOnSet(g, T) = 0
      BY <1>1, <2>2, SumRecursion
    <3>2. Fine(T)
      BY <2>2, <3>1 DEF Fine
    <3>3. \A U \in SUBSET T : U = T
      BY <2>2
    <3> QED
      BY <3>2, <3>3
  <2>3. CASE T # {}
    <3>1. x \in T
      BY <2>3
    <3>2. SumFunctionOnSet(g, T) = g[x] + SumFunctionOnSet(g, T \ {x})
      BY <1>1, <2>3, SumRecursion
    <3> HIDE DEF x
    <3>3. Fine(T \ {x})
      <4>1. T \ {x} # T /\ T \ {x} \in SUBSET T
        BY <3>1
      <4> QED
        BY <2>1, <4>1, Zenon
    <3>4. g[x] \in Int /\ SumFunctionOnSet(g, T \ {x}) \in Int
      BY <3>1, <3>3 DEF Fine
    <3>5. ASSUME NEW y \in T, y # x
          PROVE  SumFunctionOnSet(g, T) = g[y] + SumFunctionOnSet(g, T \ {y})
      <4>1. (T \ {x}) \ {y} = (T \ {y}) \ {x} /\ y \in T \ {x} /\ x \in T \ {y}
        BY <3>1, <3>5
      <4>2. SumFunctionOnSet(g, T \ {x}) = g[y] + SumFunctionOnSet(g, (T \ {y}) \ {x})
        BY <3>3, <4>1 DEF Fine
      <4>3. Fine(T \ {y}) /\ Fine((T \ {y}) \ {x})
        <5>1. T \ {y} # T /\ (T \ {y}) \ {x} # T
          BY <3>5
        <5>2. T \ {y} \in SUBSET T /\ (T \ {y}) \ {x} \in SUBSET T
          OBVIOUS
        <5> QED
          BY <2>1, <5>1, <5>2, Zenon
      <4>4. SumFunctionOnSet(g, T \ {y}) = g[x] + SumFunctionOnSet(g, (T \ {y}) \ {x})
        BY <4>1, <4>3 DEF Fine
      <4>5. g[y] \in Int /\ SumFunctionOnSet(g, (T \ {y}) \ {x}) \in Int
        BY <4>3 DEF Fine
      <4>6. g[y] + (g[x] + SumFunctionOnSet(g, (T \ {y}) \ {x}))
            = g[x] + (g[y] + SumFunctionOnSet(g, (T \ {y}) \ {x}))
        BY <3>4, <4>5
      <4> QED
        BY <3>2, <4>2, <4>4, <4>6, Zenon
    <3>6. SumFunctionOnSet(g, T) \in Int
      BY <3>2, <3>4
    <3>7. \A y \in T : SumFunctionOnSet(g, T) = g[y] + SumFunctionOnSet(g, T \ {y})
      BY <3>2, <3>5, Zenon
    <3>8. Fine(T)
      BY <3>6, <3>7 DEF Fine
    <3>9. ASSUME NEW U \in SUBSET T PROVE Fine(U)
      BY <2>1, <3>8, Zenon
    <3> QED
      BY <3>9
  <2> QED
    BY <2>2, <2>3
<1> HIDE DEF Good
<1>3. S \in Good
  BY <1>2, SubsetInduction
<1> QED
  BY <1>3 DEF Good, Fine

(* Sums compared term by term, equal, added and multiplied.                  *)
LEMMA SumCompare ==
  ASSUME NEW S, IsFiniteSet(S), NEW g, NEW h, \A x \in S : g[x] \in Int /\ h[x] \in Int /\ g[x] <= h[x]
  PROVE  SumFunctionOnSet(g, S) <= SumFunctionOnSet(h, S)
<1> DEFINE Good == {T \in SUBSET S : SumFunctionOnSet(g, T) <= SumFunctionOnSet(h, T)}
<1>1. \A T \in SUBSET S : IsFiniteSet(T)
  BY FS_Subset
<1>2. ASSUME NEW T \in SUBSET S, \A x \in T : T \ {x} \in Good
      PROVE  T \in Good
  <2>1. CASE T = {}
    <3>1. SumFunctionOnSet(g, T) = 0 /\ SumFunctionOnSet(h, T) = 0
      BY <1>1, <2>1, SumRecursion
    <3> QED
      BY <3>1
  <2>2. CASE T # {}
    <3>1. PICK x \in T : TRUE
      BY <2>2
    <3>2. /\ SumFunctionOnSet(g, T) = g[x] + SumFunctionOnSet(g, T \ {x})
          /\ SumFunctionOnSet(h, T) = h[x] + SumFunctionOnSet(h, T \ {x})
      BY <1>1, SumRemove
    <3>3. SumFunctionOnSet(g, T \ {x}) \in Int /\ SumFunctionOnSet(h, T \ {x}) \in Int
      <4>1. T \ {x} \in SUBSET S
        OBVIOUS
      <4> QED
        BY <1>1, <4>1, SumRemove
    <3>4. SumFunctionOnSet(g, T \ {x}) <= SumFunctionOnSet(h, T \ {x})
      BY <1>2
    <3>5. g[x] \in Int /\ h[x] \in Int /\ g[x] <= h[x]
      OBVIOUS
    <3>6. SumFunctionOnSet(g, T) <= SumFunctionOnSet(h, T)
      BY <3>2, <3>3, <3>4, <3>5
    <3> QED
      BY <3>6
  <2> QED
    BY <2>1, <2>2
<1> HIDE DEF Good
<1>3. S \in Good
  BY <1>2, SubsetInduction
<1> QED
  BY <1>3 DEF Good

LEMMA SumSame ==
  ASSUME NEW S, IsFiniteSet(S), NEW g, NEW h, \A x \in S : g[x] \in Int /\ g[x] = h[x]
  PROVE  SumFunctionOnSet(g, S) = SumFunctionOnSet(h, S)
<1>1. SumFunctionOnSet(g, S) <= SumFunctionOnSet(h, S) /\ SumFunctionOnSet(h, S) <= SumFunctionOnSet(g, S)
  BY SumCompare
<1>2. SumFunctionOnSet(g, S) \in Int /\ SumFunctionOnSet(h, S) \in Int
  BY SumRemove
<1> QED
  BY <1>1, <1>2

LEMMA SumAdd ==
  ASSUME NEW S, IsFiniteSet(S), NEW f, NEW g, NEW h,
         \A x \in S : f[x] \in Int /\ g[x] \in Int /\ h[x] = f[x] + g[x]
  PROVE  SumFunctionOnSet(h, S) = SumFunctionOnSet(f, S) + SumFunctionOnSet(g, S)
<1> DEFINE Good == {T \in SUBSET S : SumFunctionOnSet(h, T) = SumFunctionOnSet(f, T) + SumFunctionOnSet(g, T)}
<1>1. \A T \in SUBSET S : IsFiniteSet(T)
  BY FS_Subset
<1>2. ASSUME NEW T \in SUBSET S, \A x \in T : T \ {x} \in Good
      PROVE  T \in Good
  <2>1. CASE T = {}
    <3>1. SumFunctionOnSet(h, T) = 0 /\ SumFunctionOnSet(f, T) = 0 /\ SumFunctionOnSet(g, T) = 0
      BY <1>1, <2>1, SumRecursion
    <3> QED
      BY <3>1
  <2>2. CASE T # {}
    <3>1. PICK x \in T : TRUE
      BY <2>2
    <3>2. \A y \in S : h[y] \in Int
      OBVIOUS
    <3>3. /\ SumFunctionOnSet(g, T) = g[x] + SumFunctionOnSet(g, T \ {x})
          /\ SumFunctionOnSet(f, T) = f[x] + SumFunctionOnSet(f, T \ {x})
          /\ SumFunctionOnSet(h, T) = h[x] + SumFunctionOnSet(h, T \ {x})
      BY <1>1, <3>2, SumRemove
    <3>4. T \ {x} \in SUBSET S
      OBVIOUS
    <3>5. SumFunctionOnSet(g, T \ {x}) \in Int /\ SumFunctionOnSet(f, T \ {x}) \in Int
      BY <1>1, <3>4, SumRemove
    <3>6. SumFunctionOnSet(h, T \ {x}) = SumFunctionOnSet(f, T \ {x}) + SumFunctionOnSet(g, T \ {x})
      BY <1>2
    <3>7. f[x] \in Int /\ g[x] \in Int /\ h[x] = f[x] + g[x]
      OBVIOUS
    <3>8. SumFunctionOnSet(h, T) = SumFunctionOnSet(f, T) + SumFunctionOnSet(g, T)
      BY <3>3, <3>5, <3>6, <3>7
    <3> QED
      BY <3>8
  <2> QED
    BY <2>1, <2>2
<1> HIDE DEF Good
<1>3. S \in Good
  BY <1>2, SubsetInduction
<1> QED
  BY <1>3 DEF Good

LEMMA SumScale ==
  ASSUME NEW S, IsFiniteSet(S), NEW g, NEW h, NEW k \in Int,
         \A x \in S : g[x] \in Int /\ h[x] = k * g[x]
  PROVE  SumFunctionOnSet(h, S) = k * SumFunctionOnSet(g, S)
<1> DEFINE Good == {T \in SUBSET S : SumFunctionOnSet(h, T) = k * SumFunctionOnSet(g, T)}
<1>1. \A T \in SUBSET S : IsFiniteSet(T)
  BY FS_Subset
<1>2. ASSUME NEW T \in SUBSET S, \A x \in T : T \ {x} \in Good
      PROVE  T \in Good
  <2>1. CASE T = {}
    <3>1. SumFunctionOnSet(h, T) = 0 /\ SumFunctionOnSet(g, T) = 0
      BY <1>1, <2>1, SumRecursion
    <3> QED
      BY <3>1
  <2>2. CASE T # {}
    <3>1. PICK x \in T : TRUE
      BY <2>2
    <3>2. \A y \in S : h[y] \in Int
      OBVIOUS
    <3>3. /\ SumFunctionOnSet(g, T) = g[x] + SumFunctionOnSet(g, T \ {x})
          /\ SumFunctionOnSet(h, T) = h[x] + SumFunctionOnSet(h, T \ {x})
      BY <1>1, <3>2, SumRemove
    <3>4. T \ {x} \in SUBSET S
      OBVIOUS
    <3>5. SumFunctionOnSet(g, T \ {x}) \in Int
      BY <1>1, <3>4, SumRemove
    <3>6. SumFunctionOnSet(h, T \ {x}) = k * SumFunctionOnSet(g, T \ {x})
      BY <1>2
    <3>7. g[x] \in Int /\ h[x] = k * g[x]
      OBVIOUS
    <3>8. k * (g[x] + SumFunctionOnSet(g, T \ {x})) = k * g[x] + k * SumFunctionOnSet(g, T \ {x})
      BY <3>5, <3>7
    <3>9. SumFunctionOnSet(h, T) = k * SumFunctionOnSet(g, T)
      BY <3>3, <3>6, <3>7, <3>8
    <3> QED
      BY <3>9
  <2> QED
    BY <2>1, <2>2
<1> HIDE DEF Good
<1>3. S \in Good
  BY <1>2, SubsetInduction
<1> QED
  BY <1>3 DEF Good

(* Sums of zeros, of naturals, of a constant, of one term; a sum with one or
   two terms changed.                                                        *)
LEMMA SumConstant ==
  ASSUME NEW S, IsFiniteSet(S), NEW g, NEW c \in Int, \A x \in S : g[x] = c
  PROVE  SumFunctionOnSet(g, S) = c * Cardinality(S)
<1> DEFINE Good == {T \in SUBSET S : SumFunctionOnSet(g, T) = c * Cardinality(T)}
<1>1. \A T \in SUBSET S : IsFiniteSet(T) /\ Cardinality(T) \in Nat
  BY FS_Subset, FS_CardinalityType
<1>2. ASSUME NEW T \in SUBSET S, \A x \in T : T \ {x} \in Good
      PROVE  T \in Good
  <2>1. CASE T = {}
    <3>1. SumFunctionOnSet(g, T) = 0 /\ Cardinality(T) = 0
      BY <1>1, <2>1, SumRecursion, FS_EmptySet
    <3> QED
      BY <3>1
  <2>2. CASE T # {}
    <3>1. PICK x \in T : TRUE
      BY <2>2
    <3>2. SumFunctionOnSet(g, T) = c + SumFunctionOnSet(g, T \ {x})
      BY <1>1, SumRemove
    <3>3. SumFunctionOnSet(g, T \ {x}) = c * Cardinality(T \ {x})
      BY <1>2
    <3>4. Cardinality(T \ {x}) = Cardinality(T) - 1
      BY <1>1, FS_RemoveElement
    <3>5. Cardinality(T) \in Nat
      BY <1>1
    <3>6. c + c * (Cardinality(T) - 1) = c * Cardinality(T)
      BY <3>5
    <3> QED
      BY <3>2, <3>3, <3>4, <3>6
  <2> QED
    BY <2>1, <2>2
<1> HIDE DEF Good
<1>3. S \in Good
  BY <1>2, SubsetInduction
<1> QED
  BY <1>3 DEF Good

LEMMA SumZero ==
  ASSUME NEW S, IsFiniteSet(S), NEW g, \A x \in S : g[x] = 0
  PROVE  SumFunctionOnSet(g, S) = 0
<1>1. SumFunctionOnSet(g, S) = 0 * Cardinality(S) /\ Cardinality(S) \in Int
  BY SumConstant, FS_CardinalityType
<1> QED
  BY <1>1

LEMMA SumNonNegative ==
  ASSUME NEW S, IsFiniteSet(S), NEW g, \A x \in S : g[x] \in Nat
  PROVE  /\ SumFunctionOnSet(g, S) \in Nat
         /\ \A x \in S : g[x] <= SumFunctionOnSet(g, S)
<1>1. ASSUME NEW T \in SUBSET S PROVE SumFunctionOnSet(g, T) \in Nat
  <2> DEFINE z == [x \in T |-> 0]
  <2>1. IsFiniteSet(T)
    BY FS_Subset
  <2>2. \A x \in T : z[x] = 0
    OBVIOUS
  <2> HIDE DEF z
  <2>3. SumFunctionOnSet(z, T) <= SumFunctionOnSet(g, T)
    BY <2>1, <2>2, SumCompare
  <2>4. SumFunctionOnSet(z, T) = 0
    BY <2>1, <2>2, SumZero
  <2>5. SumFunctionOnSet(g, T) \in Int
    BY <2>1, SumRemove
  <2> QED
    BY <2>3, <2>4, <2>5
<1>2. ASSUME NEW x \in S PROVE g[x] <= SumFunctionOnSet(g, S)
  <2>1. SumFunctionOnSet(g, S) = g[x] + SumFunctionOnSet(g, S \ {x})
    BY SumRemove
  <2>2. SumFunctionOnSet(g, S \ {x}) \in Nat
    BY <1>1
  <2> QED
    BY <2>1, <2>2
<1> QED
  BY <1>1, <1>2

LEMMA SumUpdate ==
  ASSUME NEW S, IsFiniteSet(S), NEW g, NEW h, NEW y \in S,
         \A x \in S : g[x] \in Int /\ h[x] \in Int, \A x \in S : x # y => h[x] = g[x]
  PROVE  SumFunctionOnSet(h, S) = SumFunctionOnSet(g, S) + (h[y] - g[y])
<1>1. /\ SumFunctionOnSet(g, S) = g[y] + SumFunctionOnSet(g, S \ {y})
      /\ SumFunctionOnSet(h, S) = h[y] + SumFunctionOnSet(h, S \ {y})
  BY SumRemove
<1>2. IsFiniteSet(S \ {y})
  BY FS_RemoveElement
<1>3. \A x \in S \ {y} : g[x] \in Int /\ h[x] = g[x]
  OBVIOUS
<1>4. SumFunctionOnSet(h, S \ {y}) = SumFunctionOnSet(g, S \ {y})
  BY <1>2, <1>3, SumSame
<1>5. SumFunctionOnSet(g, S \ {y}) \in Int
  BY <1>2, <1>3, SumRemove
<1> QED
  BY <1>1, <1>4, <1>5

LEMMA SumSingle ==
  ASSUME NEW S, IsFiniteSet(S), NEW g, NEW y \in S, g[y] \in Int, \A x \in S : x # y => g[x] = 0
  PROVE  SumFunctionOnSet(g, S) = g[y]
<1>1. \A x \in S : g[x] \in Int
  OBVIOUS
<1>2. SumFunctionOnSet(g, S) = g[y] + SumFunctionOnSet(g, S \ {y})
  BY <1>1, SumRemove
<1>3. SumFunctionOnSet(g, S \ {y}) = 0
  BY SumZero, FS_RemoveElement
<1> QED
  BY <1>2, <1>3

LEMMA SumUpdateTwo ==
  ASSUME NEW S, IsFiniteSet(S), NEW g \in [S -> Int], NEW h \in [S -> Int],
         NEW y \in S, NEW z \in S \ {y}, \A x \in S \ {y, z} : h[x] = g[x]
  PROVE  SumFunctionOnSet(h, S) = SumFunctionOnSet(g, S) + (h[y] - g[y]) + (h[z] - g[z])
<1> DEFINE k == [x \in S |-> IF x = y THEN h[y] ELSE g[x]]
<1>1. /\ \A x \in S : k[x] \in Int /\ g[x] \in Int /\ h[x] \in Int
      /\ k[y] = h[y] /\ k[z] = g[z]
      /\ \A x \in S : x # y => k[x] = g[x]
      /\ \A x \in S : x # z => h[x] = k[x]
  OBVIOUS
<1> HIDE DEF k
<1>2. SumFunctionOnSet(k, S) = SumFunctionOnSet(g, S) + (h[y] - g[y])
  BY <1>1, SumUpdate
<1>3. SumFunctionOnSet(h, S) = SumFunctionOnSet(k, S) + (h[z] - g[z])
  BY <1>1, SumUpdate
<1> QED
  BY <1>2, <1>3

(* The bins are finitely many, and so are the members of any set of them.    *)
LEMMA BinsFinite ==
  /\ IsFiniteSet(Bins) /\ Cardinality(Bins) = NumBins /\ NumBins \in Nat \ {0}
  /\ \A S \in SUBSET Bins : IsFiniteSet(S) /\ Cardinality(S) \in Nat /\ Cardinality(S) <= NumBins
<1>1. NumBins \in Nat \ {0}
  BY AliasAssumption
<1>2. IsFiniteSet(Bins) /\ Cardinality(Bins) = NumBins
  BY <1>1, FS_Interval DEF Bins
<1> QED
  BY <1>1, <1>2, FS_Subset, FS_CardinalityType

(* What the stack operations do: pop the last bin, push another one.         *)
LEMMA StackPop ==
  ASSUME NEW s \in Seq(Bins), s # <<>>, Distinct(s)
  PROVE  /\ Pop(s) \in Seq(Bins) /\ Len(Pop(s)) = Len(s) - 1 /\ Len(s) \in Nat \ {0}
         /\ Top(s) \in Bins /\ Top(s) \in Range(s)
         /\ Distinct(Pop(s)) /\ Range(Pop(s)) = Range(s) \ {Top(s)}
<1>1. Len(s) \in Nat \ {0} /\ DOMAIN s = 1 .. Len(s) /\ \A i \in 1 .. Len(s) : s[i] \in Bins
  BY EmptySeq, LenProperties, ElementOfSeq
<1>2. /\ Pop(s) \in Seq(Bins) /\ Len(Pop(s)) = Len(s) - 1
      /\ \A i \in 1 .. Len(s) - 1 : Pop(s)[i] = s[i]
  <2>1. \A i \in 1 .. Len(s) - 1 : s[i] \in Bins
    BY <1>1
  <2> QED
    BY <1>1, <2>1, SubSeqProperties DEF Pop
<1>3. DOMAIN Pop(s) = 1 .. Len(s) - 1
  BY <1>2, LenProperties
<1>4. Top(s) \in Bins /\ Top(s) \in Range(s)
  BY <1>1 DEF Top, Range
<1>5. Distinct(Pop(s))
  BY <1>1, <1>2 DEF Distinct
<1>6. Range(Pop(s)) = Range(s) \ {Top(s)}
  <2>1. ASSUME NEW i \in 1 .. Len(s) - 1 PROVE s[i] # s[Len(s)] /\ s[i] \in Range(s)
    BY <1>1 DEF Distinct, Range
  <2>2. \A x \in Range(s) : x = Top(s) \/ \E i \in 1 .. Len(s) - 1 : x = s[i]
    BY <1>1 DEF Top, Range
  <2>3. Range(Pop(s)) = {Pop(s)[i] : i \in 1 .. Len(s) - 1}
    BY <1>3 DEF Range
  <2>4. \A i \in 1 .. Len(s) - 1 : s[i] \in Range(s) \ {Top(s)}
    BY <2>1 DEF Top
  <2>5. Range(Pop(s)) = {s[i] : i \in 1 .. Len(s) - 1}
    BY <1>2, <2>3
  <2> QED
    BY <2>2, <2>4, <2>5
<1> QED
  BY <1>1, <1>2, <1>4, <1>5, <1>6

(* A bin that is on neither stack may be pushed on one.                      *)
LEMMA StackPush ==
  ASSUME NEW s \in Seq(Bins), NEW x \in Bins, Distinct(s), x \notin Range(s)
  PROVE  /\ Append(s, x) \in Seq(Bins) /\ Len(Append(s, x)) = Len(s) + 1 /\ Len(s) \in Nat
         /\ Distinct(Append(s, x)) /\ Range(Append(s, x)) = Range(s) \cup {x}
<1> DEFINE t == Append(s, x)
<1>1. /\ t \in Seq(Bins) /\ Len(t) = Len(s) + 1 /\ Len(s) \in Nat
      /\ \A i \in 1 .. Len(s) : t[i] = s[i] /\ t[Len(s) + 1] = x
      /\ t[Len(s) + 1] = x
  BY AppendProperties, LenProperties
<1>2. DOMAIN s = 1 .. Len(s) /\ DOMAIN t = 1 .. Len(s) + 1
  BY <1>1, LenProperties
<1> HIDE DEF t
<1>3. \A i \in 1 .. Len(s) : s[i] # x
  BY <1>2 DEF Range
<1>4. Distinct(t)
  BY <1>1, <1>3 DEF Distinct
<1>5. Range(t) = Range(s) \cup {x}
  <2>1. Range(t) = {t[i] : i \in 1 .. Len(s) + 1} /\ Range(s) = {s[i] : i \in 1 .. Len(s)}
    BY <1>2 DEF Range
  <2>2. \A i \in 1 .. Len(s) + 1 : t[i] \in Range(s) \cup {x}
    BY <1>1, <2>1
  <2>3. \A i \in 1 .. Len(s) : s[i] \in Range(t)
    BY <1>1, <2>1
  <2>4. x \in Range(t)
    BY <1>1, <2>1
  <2> QED
    BY <2>1, <2>2, <2>3, <2>4
<1> QED
  BY <1>1, <1>4, <1>5 DEF t

(* Every bin of S has its own number of others before it: these are all the
   numbers from 0 on, and Ascending(S) lists S.                              *)
LEMMA AscendingStack ==
  ASSUME NEW S \in SUBSET Bins
  PROVE  /\ Ascending(S) \in Seq(Bins) /\ Len(Ascending(S)) = Cardinality(S)
         /\ Range(Ascending(S)) = S /\ Distinct(Ascending(S))
<1> DEFINE Before(b) == {c \in S : c < b}
           rank == [b \in S |-> Cardinality(Before(b))]
           size == Cardinality(S)
<1>1. IsFiniteSet(S) /\ size \in Nat /\ \A b \in S : b \in Int
  BY BinsFinite DEF Bins
<1>2. \A b \in Int : IsFiniteSet(Before(b)) /\ Cardinality(Before(b)) \in Nat
  BY <1>1, FS_Subset, FS_CardinalityType
<1>3. ASSUME NEW b \in S, NEW c \in Int, b < c
      PROVE  Cardinality(Before(b)) < Cardinality(Before(c))
  <2>1. Before(b) \in SUBSET Before(c) /\ Before(b) # Before(c)
    BY <1>1, <1>3
  <2>2. b \in Int
    BY <1>1
  <2> HIDE DEF Before
  <2>3. IsFiniteSet(Before(c)) /\ Cardinality(Before(b)) \in Nat /\ Cardinality(Before(c)) \in Nat
    BY <1>2, <2>2
  <2>4. Cardinality(Before(b)) <= Cardinality(Before(c)) /\ Cardinality(Before(b)) # Cardinality(Before(c))
    BY <2>1, <2>3, FS_Subset
  <2> QED
    BY <2>3, <2>4
<1>4. \A b \in S : rank[b] \in 0 .. size - 1
  <2> SUFFICES ASSUME NEW b \in S PROVE Cardinality(Before(b)) \in 0 .. size - 1
    OBVIOUS
  <2>1. Before(b) \in SUBSET S /\ Before(b) # S
    BY <1>1
  <2> HIDE DEF Before
  <2>2. Cardinality(Before(b)) <= size /\ Cardinality(Before(b)) # size
    BY <1>1, <2>1, FS_Subset
  <2>3. Cardinality(Before(b)) \in Nat
    BY <1>1, <1>2
  <2> QED
    BY <1>1, <2>2, <2>3
<1>5. \A b, c \in S : rank[b] = rank[c] => b = c
  <2> SUFFICES ASSUME NEW b \in S, NEW c \in S, b # c PROVE rank[b] # rank[c]
    OBVIOUS
  <2>1. b < c \/ c < b
    BY <1>1
  <2>2. rank[b] = Cardinality(Before(b)) /\ rank[c] = Cardinality(Before(c))
    OBVIOUS
  <2> HIDE DEF rank, Before
  <2>3. /\ b < c => Cardinality(Before(b)) < Cardinality(Before(c))
        /\ c < b => Cardinality(Before(c)) < Cardinality(Before(b))
    BY <1>1, <1>3
  <2>4. Cardinality(Before(b)) \in Nat /\ Cardinality(Before(c)) \in Nat
    BY <1>1, <1>2
  <2> QED
    BY <2>1, <2>2, <2>3, <2>4
<1>6. \A k \in 0 .. size - 1 : \E b \in S : rank[b] = k
  <2>1. IsFiniteSet(0 .. size - 1) /\ Cardinality(0 .. size - 1) = size
    <3> HIDE DEF size
    <3>1. size \in Nat /\ size - 1 \in Int
      BY <1>1
    <3>2. /\ IsFiniteSet(0 .. size - 1)
          /\ Cardinality(0 .. size - 1) = IF 0 > size - 1 THEN 0 ELSE (size - 1) - 0 + 1
      BY <3>1, FS_Interval
    <3> QED
      BY <3>1, <3>2
  <2>2. rank \in Injection(S, 0 .. size - 1)
    BY <1>4, <1>5 DEF Injection, IsInjective
  <2> HIDE DEF rank, size
  <2>3. rank \in Surjection(S, 0 .. size - 1)
    <3>1. Cardinality(S) = Cardinality(0 .. size - 1)
      BY <2>1 DEF size
    <3>2. IsFiniteSet(0 .. size - 1)
      BY <2>1
    <3> QED
      BY <2>2, <3>1, <3>2, FS_Injection, Zenon
  <2> QED
    BY <2>3 DEF Surjection
<1> DEFINE s == Ascending(S)
<1>7. ASSUME NEW k \in 1 .. size PROVE s[k] \in S /\ rank[s[k]] = k - 1
  <2>1. k - 1 \in 0 .. size - 1
    BY <1>1
  <2>2. PICK b \in S : rank[b] = k - 1
    BY <1>6, <2>1
  <2>3. s[k] = CHOOSE c \in S : Cardinality(Before(c)) = k - 1
    BY DEF Ascending
  <2>4. \E c \in S : Cardinality(Before(c)) = k - 1
    BY <2>2
  <2>5. s[k] \in S /\ Cardinality(Before(s[k])) = k - 1
    <3> HIDE DEF s, Before
    <3> QED
      BY <2>3, <2>4
  <2>6. rank[s[k]] = Cardinality(Before(s[k]))
    BY <2>5
  <2> QED
    BY <2>5, <2>6
<1>8. s = [k \in 1 .. size |-> s[k]]
  <2> DEFINE f(k) == CHOOSE b \in S : Cardinality({c \in S : c < b}) = k - 1
  <2>1. s = [k \in 1 .. size |-> f(k)]
    BY DEF Ascending
  <2> HIDE DEF f, s
  <2> QED
    BY <2>1
<1> HIDE DEF s, rank
<1>9. s \in Seq(Bins) /\ Len(s) = size /\ DOMAIN s = 1 .. size
  <2>1. s \in [1 .. size -> Bins]
    BY <1>7, <1>8
  <2>2. DOMAIN s = 1 .. size
    BY <2>1
  <2> HIDE DEF size
  <2> QED
    BY <1>1, <2>1, <2>2, SeqDef
<1>10. Distinct(s)
  <2>1. ASSUME NEW i \in 1 .. size, NEW j \in 1 .. size, s[i] = s[j] PROVE i = j
    <3>1. i - 1 = j - 1
      BY <1>7, <2>1
    <3> QED
      BY <1>1, <3>1
  <2> QED
    BY <1>9, <2>1, Zenon DEF Distinct
<1>11. \A b \in S : \E k \in 1 .. size : s[k] = b
  <2> SUFFICES ASSUME NEW b \in S PROVE \E k \in 1 .. size : s[k] = b
    OBVIOUS
  <2>1. rank[b] + 1 \in 1 .. size /\ (rank[b] + 1) - 1 = rank[b]
    BY <1>1, <1>4
  <2>2. s[rank[b] + 1] \in S /\ rank[s[rank[b] + 1]] = rank[b]
    BY <1>7, <2>1
  <2> QED
    BY <1>5, <2>1, <2>2
<1>12. Range(s) = S
  BY <1>7, <1>9, <1>11 DEF Range
<1> QED
  BY <1>9, <1>10, <1>12 DEF s

(* The heap: taking a block and freeing blocks that are held.                *)
Names == SamplerBlocks \cup {"array"}
Heaps == [Names -> {"null", "held", "dangling"}]
HeldIn(heap) == {b \in Names : heap[b] = "held"}

LEMMA HeapTake ==
  ASSUME NEW heap \in Heaps, NEW name \in Names
  PROVE  /\ [heap EXCEPT ![name] = "held"] \in Heaps
         /\ HeldIn([heap EXCEPT ![name] = "held"]) = HeldIn(heap) \cup {name}
BY DEF Heaps, HeldIn

LEMMA HeapFree ==
  ASSUME NEW heap \in Heaps, NEW names \in SUBSET HeldIn(heap)
  PROVE  Freed(heap, names) \in Heaps /\ HeldIn(Freed(heap, names)) = HeldIn(heap) \ names
<1>1. DOMAIN heap = Names /\ \A b \in Names : heap[b] \in {"null", "held", "dangling"}
  BY DEF Heaps
<1> DEFINE f == Freed(heap, names)
<1>2. f = [b \in Names |-> IF b \notin names \/ heap[b] = "null" THEN heap[b]
                             ELSE IF heap[b] = "held" THEN "dangling" ELSE "corrupt"]
  BY <1>1, Zenon DEF Freed
<1> HIDE DEF f
<1>3. \A b \in Names : f[b] = IF b \in names THEN "dangling" ELSE heap[b]
  BY <1>2 DEF HeldIn
<1>4. f \in Heaps
  <2>1. \A b \in Names : f[b] \in {"null", "held", "dangling"}
    BY <1>1, <1>3
  <2> QED
    BY <1>2, <2>1 DEF Heaps
<1>5. HeldIn(f) = HeldIn(heap) \ names
  BY <1>3 DEF HeldIn
<1> QED
  BY <1>4, <1>5 DEF f

(* HeldInv in terms of the heap.                                             *)
LEMMA HeldInvIs ==
  HeldInv <=> HeldIn(blocks) = CASE run = "weights" -> {"array"}
                                 [] run = "sampler" -> {"array"} \cup SamplerHeld
                                 [] run = "blocks"  -> {"indexes", "probs"}
                                 [] OTHER           -> {}
BY DEF HeldInv, HeldIn, Names

----------------------------------------------------------------------------
ControlInv == GenTypeOK /\ StageInv /\ HeldInv /\ CountInv

(* At first nothing is held and nothing printed.                             *)
LEMMA ControlInit == GenInit => ControlInv
<1> SUFFICES ASSUME GenInit PROVE ControlInv
  OBVIOUS
<1> USE DEF GenInit, InitSampler
<1>1. GenTypeOK
  <2>1. genOpts \in [num_samples : Nat, kappa : Nat, gamma : Gammas, continuous : BOOLEAN]
    BY PlGenAssumption
  <2>2. requested \in Nat
    BY <2>1
  <2> QED
    BY <2>1, <2>2 DEF GenTypeOK
<1>2. StageInv
  BY DEF StageInv, Early
<1>3. HeldInv
  BY DEF HeldInv
<1>4. CountInv
  BY DEF CountInv
<1> QED
  BY <1>1, <1>2, <1>3, <1>4 DEF ControlInv

(* A step of the sampler's initialisation.                                   *)
LEMMA ControlSampler ==
  ASSUME ControlInv, InitializeSampler
  PROVE  ControlInv'
<1> USE DEF ControlInv
<1>1. /\ run = "sampler" /\ run' = "sampler" /\ InitSteps
      /\ UNCHANGED <<bin, genLine, requested, genOpts, shape, printed, ret>>
  BY DEF InitializeSampler, given
<1>2. blocks \in Heaps /\ HeldIn(blocks) = {"array"} \cup SamplerHeld
  BY <1>1, HeldInvIs DEF GenTypeOK, Heaps, Names
<1>3. /\ step' \in {"probs", "normalize", "longs", "shorts", "fill", "pair", "SUCCESS", "ENOMEM"}
      /\ blocks' \in Heaps /\ HeldIn(blocks') = {"array"} \cup SamplerHeld'
  <2> DEFINE Goal == /\ step' \in {"probs", "normalize", "longs", "shorts", "fill", "pair", "SUCCESS", "ENOMEM"}
                     /\ blocks' \in Heaps /\ HeldIn(blocks') = {"array"} \cup SamplerHeld'
  <2>1. ASSUME NEW name \in SamplerBlocks, NEW next \in {"probs", "normalize", "shorts", "fill"},
               NEW undo \in SUBSET SamplerHeld, AllocateBlock(name, next, undo),
               next = "probs"     => SamplerHeld \cup {name} = {"indexes"},
               next = "normalize" => SamplerHeld \cup {name} = {"indexes", "probs"},
               next = "shorts"    => SamplerHeld \cup {name} = {"indexes", "probs", "long_sticks"},
               next = "fill"      => SamplerHeld \cup {name} = SamplerBlocks,
               SamplerHeld \ undo = {}, undo \subseteq SamplerBlocks
        PROVE  Goal
    <3>1. CASE blocks' = [blocks EXCEPT ![name] = "held"] /\ step' = next
      <4>1. blocks' \in Heaps /\ HeldIn(blocks') = HeldIn(blocks) \cup {name}
        BY <1>2, <3>1, HeapTake DEF Names
      <4>2. SamplerHeld' = SamplerHeld \cup {name}
        BY <2>1, <3>1 DEF SamplerHeld
      <4> QED
        BY <1>2, <3>1, <4>1, <4>2
    <3>2. CASE blocks' = Freed(blocks, undo) /\ step' = "ENOMEM"
      <4>1. undo \in SUBSET HeldIn(blocks)
        BY <1>2
      <4>2. blocks' \in Heaps /\ HeldIn(blocks') = HeldIn(blocks) \ undo
        BY <1>2, <3>2, <4>1, HeapFree
      <4>3. SamplerHeld' = {}
        BY <3>2 DEF SamplerHeld
      <4>4. "array" \notin undo
        BY <2>1 DEF SamplerBlocks
      <4>5. HeldIn(blocks') = {"array"}
        BY <1>2, <2>1, <4>2, <4>4
      <4> QED
        BY <3>2, <4>2, <4>3, <4>5
    <3> QED
      BY <2>1, <3>1, <3>2 DEF AllocateBlock
  <2>2. CASE AllocateIndexes
    <3>1. AllocateBlock("indexes", "probs", {}) /\ SamplerHeld = {} /\ "indexes" \in SamplerBlocks
      BY <2>2 DEF AllocateIndexes, SamplerHeld, SamplerBlocks
    <3> QED
      BY <2>1, <3>1
  <2>3. CASE AllocateProbs
    <3>1. AllocateBlock("probs", "normalize", {"indexes"}) /\ SamplerHeld = {"indexes"}
      BY <2>3 DEF AllocateProbs, SamplerHeld
    <3>2. {"indexes", "probs"} \subseteq SamplerBlocks
      BY DEF SamplerBlocks
    <3> QED
      BY <2>1, <3>1, <3>2
  <2>4. CASE AllocateLongs
    <3>1. AllocateBlock("long_sticks", "shorts", {"probs", "indexes"}) /\ SamplerHeld = {"indexes", "probs"}
      BY <2>4 DEF AllocateLongs, SamplerHeld
    <3>2. {"indexes", "probs", "long_sticks"} \subseteq SamplerBlocks
      BY DEF SamplerBlocks
    <3> QED
      BY <2>1, <3>1, <3>2
  <2>5. CASE AllocateShorts
    <3>1. /\ AllocateBlock("short_sticks", "fill", {"probs", "indexes", "long_sticks"})
          /\ SamplerHeld = {"indexes", "probs", "long_sticks"}
      BY <2>5 DEF AllocateShorts, SamplerHeld
    <3>2. SamplerBlocks = {"indexes", "probs", "long_sticks"} \cup {"short_sticks"}
      BY DEF SamplerBlocks
    <3> QED
      BY <2>1, <3>1, <3>2
  <2>6. CASE Normalize
    <3>1. step = "normalize" /\ step' = "longs" /\ blocks' = blocks
      BY <2>6 DEF Normalize
    <3> QED
      BY <1>2, <3>1 DEF SamplerHeld
  <2>7. CASE Fill
    <3>1. step = "fill" /\ step' = "pair" /\ blocks' = blocks
      BY <2>7 DEF Fill
    <3> QED
      BY <1>2, <3>1 DEF SamplerHeld
  <2>8. CASE Pair
    <3>1. step = "pair" /\ step' = "pair" /\ blocks' = blocks
      BY <2>8 DEF Pair
    <3> QED
      BY <1>2, <3>1 DEF SamplerHeld
  <2>9. CASE FixLeftovers
    <3>1. step = "pair" /\ step' = "SUCCESS" /\ blocks' = Freed(blocks, {"short_sticks", "long_sticks"})
      BY <2>9 DEF FixLeftovers
    <3>2. HeldIn(blocks) = {"array"} \cup SamplerBlocks
      BY <1>2, <3>1 DEF SamplerHeld
    <3>3. blocks' \in Heaps /\ HeldIn(blocks') = HeldIn(blocks) \ {"short_sticks", "long_sticks"}
      <4>1. {"short_sticks", "long_sticks"} \in SUBSET HeldIn(blocks)
        BY <3>2 DEF SamplerBlocks
      <4> QED
        BY <1>2, <3>1, <4>1, HeapFree
    <3>4. SamplerHeld' = {"indexes", "probs"}
      BY <3>1 DEF SamplerHeld
    <3> QED
      BY <3>1, <3>2, <3>3, <3>4 DEF SamplerBlocks
  <2> QED
    BY <1>1, <2>2, <2>3, <2>4, <2>5, <2>6, <2>7, <2>8, <2>9 DEF InitSteps
<1>4. HeldInv'
  <2>1. HeldIn(blocks)' = {"array"} \cup SamplerHeld'
    BY <1>3 DEF HeldIn
  <2> QED
    BY <1>1, <2>1 DEF HeldInv, HeldIn, Names
<1>5. GenTypeOK'
  BY <1>1, <1>3 DEF GenTypeOK, Heaps, Names
<1>6. StageInv'
  BY <1>1, <1>3 DEF StageInv, Early
<1>7. CountInv'
  BY <1>1 DEF CountInv
<1> QED
  BY <1>4, <1>5, <1>6, <1>7

(* Every step of plgen keeps the control, the heap and the counts in order.  *)
LEMMA ControlStep ==
  ASSUME ControlInv, [GenNext]_genVars
  PROVE  ControlInv'
<1> USE DEF ControlInv
<1>0. blocks \in Heaps
  BY DEF GenTypeOK, Heaps, Names
<1>1. CASE UNCHANGED genVars
  BY <1>1 DEF genVars, sampler, table, sticks, given, GenTypeOK, StageInv, HeldInv, CountInv, SamplerHeld
<1>2. ASSUME Refuse PROVE ControlInv'
  <2>1. /\ run = "parse" /\ run' = "exited" /\ genLine # "complete"
        /\ UNCHANGED <<ps, step, blocks, genLine, requested, genOpts, printed>>
    BY <1>2 DEF Refuse, GenExit, sampler, given
  <2>2. GenTypeOK' /\ StageInv' /\ CountInv'
    BY <2>1 DEF GenTypeOK, StageInv, CountInv, Early
  <2>3. HeldInv'
    BY <2>1 DEF HeldInv
  <2> QED
    BY <2>2, <2>3
<1>3. ASSUME Parsed PROVE ControlInv'
  <2>1. /\ run = "parse" /\ run' \in {"pareto", "done", "array", "zeta"}
        /\ run' \in {"pareto", "zeta", "array"} \/ genOpts.num_samples <= 0
        /\ UNCHANGED <<ps, step, blocks, genLine, requested, genOpts, printed, ret>>
    BY <1>3 DEF Parsed, sampler, given
  <2>2. GenTypeOK' /\ StageInv'
    BY <2>1 DEF GenTypeOK, StageInv, Early
  <2>3. genOpts.num_samples \in Nat /\ requested \in Nat /\ genOpts.num_samples = requested /\ printed = 0
    BY <2>1 DEF CountInv, GenTypeOK
  <2>4. CountInv'
    BY <2>1, <2>3 DEF CountInv
  <2>5. HeldInv'
    BY <2>1 DEF HeldInv
  <2> QED
    BY <2>2, <2>4, <2>5
<1>4. ASSUME RejectCutoff PROVE ControlInv'
  <2>1. /\ run = "pareto" /\ run' = "exited" /\ ret' = 5
        /\ UNCHANGED <<ps, step, blocks, genLine, requested, genOpts, printed>>
    BY <1>4 DEF RejectCutoff, GenExit, sampler, given
  <2>2. GenTypeOK' /\ StageInv' /\ CountInv'
    BY <2>1 DEF GenTypeOK, StageInv, CountInv, Early
  <2>3. HeldInv'
    BY <2>1 DEF HeldInv
  <2> QED
    BY <2>2, <2>3
<1>5. ASSUME SamplePareto \/ SampleZeta PROVE ControlInv'
  <2>1. /\ run \in {"pareto", "zeta"}
        /\ UNCHANGED <<ps, step, blocks, genLine, requested, genOpts, ret>>
        /\ \/ printed < genOpts.num_samples /\ printed' = printed + 1 /\ run' = run
           \/ ~(printed < genOpts.num_samples) /\ run' = "done" /\ printed' = printed
    <3>1. CASE SamplePareto
      BY <3>1 DEF SamplePareto, PrintOne, sampler, given
    <3>2. CASE SampleZeta
      BY <3>2 DEF SampleZeta, PrintOne, sampler, given
    <3> QED
      BY <1>5, <3>1, <3>2
  <2>2. genOpts.num_samples = requested /\ printed \in Nat /\ requested \in Nat /\ printed <= requested
    BY <2>1 DEF CountInv, GenTypeOK
  <2>3. GenTypeOK' /\ StageInv'
    BY <2>1, <2>2 DEF GenTypeOK, StageInv, Early
  <2>4. CountInv'
    BY <2>1, <2>2 DEF CountInv
  <2>5. HeldInv'
    BY <2>1 DEF HeldInv
  <2> QED
    BY <2>3, <2>4, <2>5
<1>6. ASSUME AllocateArray PROVE ControlInv'
  <2>1. /\ run = "array" /\ UNCHANGED <<ps, step, genLine, requested, genOpts, printed>>
        /\ \/ blocks' = [blocks EXCEPT !["array"] = "held"] /\ run' = "weights"
           \/ blocks' = blocks /\ run' = "exited" /\ ret' = 7
    BY <1>6 DEF AllocateArray, GenExit, given
  <2>2. HeldIn(blocks) = {}
    BY <2>1, HeldInvIs
  <2>3. blocks' \in Heaps /\ HeldIn(blocks') = IF run' = "weights" THEN {"array"} ELSE {}
    BY <1>0, <2>1, <2>2, HeapTake DEF Names
  <2>4. GenTypeOK' /\ StageInv' /\ CountInv'
    BY <2>1, <2>3 DEF GenTypeOK, StageInv, CountInv, Early, Heaps, Names
  <2>5. HeldInv'
    BY <2>1, <2>3 DEF HeldInv, HeldIn, Names
  <2> QED
    BY <2>4, <2>5
<1>7. ASSUME ComputeWeights PROVE ControlInv'
  <2>1. /\ run = "weights" /\ run' = "sampler" /\ step' = "indexes"
        /\ UNCHANGED <<blocks, genLine, requested, genOpts, printed, ret>>
    BY <1>7 DEF ComputeWeights, given
  <2>2. GenTypeOK' /\ StageInv' /\ CountInv'
    BY <2>1 DEF GenTypeOK, StageInv, CountInv, Early
  <2>3. HeldInv'
    BY <2>1 DEF HeldInv, SamplerHeld
  <2> QED
    BY <2>2, <2>3
<1>8. ASSUME InitializeSampler PROVE ControlInv'
  BY <1>8, ControlSampler
<1>9. ASSUME SamplerFails \/ SamplerReady PROVE ControlInv'
  <2>1. /\ run = "sampler" /\ step \in {"ENOMEM", "SUCCESS"} /\ step' = step
        /\ blocks' = Freed(blocks, {"array"})
        /\ UNCHANGED <<ps, genLine, requested, genOpts, printed>>
        /\ \/ step = "ENOMEM" /\ run' = "exited" /\ ret' = 9
           \/ step = "SUCCESS" /\ run' = "blocks"
    BY <1>9 DEF SamplerFails, SamplerReady, GenExit, given
  <2>2. HeldIn(blocks) = {"array"} \cup (IF step = "SUCCESS" THEN {"indexes", "probs"} ELSE {})
    BY <2>1, HeldInvIs DEF SamplerHeld
  <2>3. blocks' \in Heaps /\ HeldIn(blocks') = IF step = "SUCCESS" THEN {"indexes", "probs"} ELSE {}
    <3>1. {"array"} \in SUBSET HeldIn(blocks)
      BY <2>2
    <3>2. blocks' \in Heaps /\ HeldIn(blocks') = HeldIn(blocks) \ {"array"}
      BY <1>0, <2>1, <3>1, HeapFree
    <3> QED
      BY <2>2, <3>2
  <2>4. GenTypeOK' /\ StageInv' /\ CountInv'
    BY <2>1, <2>3 DEF GenTypeOK, StageInv, CountInv, Early, Heaps, Names
  <2>5. HeldInv'
    BY <2>1, <2>3 DEF HeldInv, HeldIn, Names
  <2> QED
    BY <2>4, <2>5
<1>10. ASSUME SampleBlock PROVE ControlInv'
  <2>1. /\ run = "blocks" /\ genOpts.num_samples > 0 /\ printed' = printed + BlockLength
        /\ genOpts' = [genOpts EXCEPT !.num_samples = @ - BlockLength]
        /\ UNCHANGED <<step, blocks, genLine, requested, run, ret>>
    BY <1>10 DEF SampleBlock, sampler, given
  <2>2. genOpts.num_samples \in Nat /\ printed \in Nat /\ requested \in Nat
    BY DEF GenTypeOK
  <2>3. BlockLength \in Nat /\ BlockLength <= genOpts.num_samples
    BY <2>2, PlGenAssumption DEF BlockLength
  <2>4. genOpts'.num_samples = genOpts.num_samples - BlockLength
    BY <2>1 DEF GenTypeOK
  <2>5. genOpts' \in [num_samples : Nat, kappa : Nat, gamma : Gammas, continuous : BOOLEAN]
    <3>1. genOpts.num_samples - BlockLength \in Nat
      BY <2>2, <2>3
    <3> HIDE DEF BlockLength
    <3> QED
      BY <2>1, <3>1 DEF GenTypeOK
  <2> HIDE DEF BlockLength
  <2>6. GenTypeOK' /\ StageInv'
    BY <2>1, <2>2, <2>3, <2>5 DEF GenTypeOK, StageInv, Early
  <2>7. CountInv'
    BY <2>1, <2>2, <2>3, <2>4 DEF CountInv
  <2>8. HeldInv'
    BY <2>1 DEF HeldInv
  <2> QED
    BY <2>6, <2>7, <2>8
<1>11. ASSUME DestroySampler PROVE ControlInv'
  <2>1. /\ run = "blocks" /\ run' = "done" /\ genOpts.num_samples <= 0
        /\ blocks' = Freed(blocks, {"indexes", "probs"})
        /\ UNCHANGED <<step, genLine, requested, genOpts, printed, ret>>
    BY <1>11 DEF DestroySampler, plfit_walker_alias_sampler_destroy, given
  <2>2. HeldIn(blocks) = {"indexes", "probs"}
    BY <2>1, HeldInvIs
  <2>3. blocks' \in Heaps /\ HeldIn(blocks') = {}
    <3>1. {"indexes", "probs"} \in SUBSET HeldIn(blocks)
      BY <2>2
    <3> QED
      BY <1>0, <2>1, <2>2, <3>1, HeapFree
  <2>4. GenTypeOK' /\ StageInv'
    BY <2>1, <2>3 DEF GenTypeOK, StageInv, Early, Heaps, Names
  <2>5. CountInv'
    <3>1. genOpts.num_samples \in Nat /\ printed \in Nat /\ requested \in Nat
      BY DEF GenTypeOK
    <3> QED
      BY <2>1, <3>1 DEF CountInv
  <2>6. HeldInv'
    BY <2>1, <2>3 DEF HeldInv, HeldIn, Names
  <2> QED
    BY <2>4, <2>5, <2>6
<1>12. ASSUME Done PROVE ControlInv'
  <2>1. /\ run = "done" /\ run' = "exited"
        /\ UNCHANGED <<step, blocks, genLine, requested, genOpts, printed>>
    BY <1>12 DEF Done, GenExit, sampler, given
  <2>2. GenTypeOK' /\ StageInv' /\ CountInv'
    BY <2>1 DEF GenTypeOK, StageInv, CountInv, Early
  <2>3. HeldInv'
    BY <2>1 DEF HeldInv
  <2> QED
    BY <2>2, <2>3
<1>13. CASE GenExited
  BY <1>1, <1>13 DEF GenExited
<1> QED
  BY <1>1, <1>2, <1>3, <1>4, <1>5, <1>6, <1>7, <1>8, <1>9, <1>10, <1>11, <1>12, <1>13 DEF GenNext

(* Every weight is computed once, the first is positive.                     *)
LEMMA WeightStep ==
  ASSUME ControlInv, WeightInv, [GenNext]_genVars
  PROVE  WeightInv'
<1>1. CASE ComputeWeights
  <2>1. PICK s \in [Bins -> Weights] : s[0] > 0 /\ shape' = s
    BY <1>1 DEF ComputeWeights
  <2>2. PICK q \in [Bins -> Weights \cup {Inf, NaN}] :
          (\A i \in Bins : q[i] \in Computed(i, shape'[i])) /\ ps' = q
    BY <1>1 DEF ComputeWeights
  <2>3. Weights \subseteq Nat
    BY PlGenAssumption
  <2>4. 0 \in Bins
    BY BinsFinite DEF Bins
  <2>5. q[0] = s[0] /\ s[0] \in Nat \ {0}
    <3>1. q[0] \in Computed(0, s[0])
      BY <2>1, <2>2, <2>4
    <3>2. Computed(0, s[0]) = {s[0]}
      BY DEF Computed
    <3>3. s[0] \in Weights
      BY <2>4
    <3>4. q[0] = s[0]
      BY <3>1, <3>2
    <3>5. s[0] \in Nat /\ s[0] > 0
      BY <2>1, <2>3, <3>3
    <3> QED
      BY <3>4, <3>5
  <2> QED
    BY <2>2, <2>3, <2>5 DEF WeightInv
<1>2. CASE UNCHANGED ps /\ (step' # "idle" => step # "idle")
  BY <1>2 DEF WeightInv
<1>3. CASE InitializeSampler
  <2>1. step # "idle"
    BY <1>3 DEF ControlInv, StageInv, InitializeSampler
  <2>2. UNCHANGED ps
    BY <1>3 DEF InitializeSampler, InitSteps, AllocateIndexes, AllocateProbs, Normalize,
                AllocateLongs, AllocateShorts, Fill, Pair, FixLeftovers
  <2> QED
    BY <2>1, <2>2, <1>2
<1> USE DEF sampler
<1>4. CASE UNCHANGED genVars
  BY <1>2, <1>4 DEF genVars
<1>5. CASE Refuse \/ Parsed \/ RejectCutoff \/ Done
  BY <1>2, <1>5 DEF Refuse, Parsed, RejectCutoff, Done
<1>6. CASE SamplePareto \/ SampleZeta
  BY <1>2, <1>6 DEF SamplePareto, SampleZeta, PrintOne
<1>7. CASE AllocateArray \/ SamplerFails \/ SamplerReady \/ SampleBlock \/ DestroySampler
  BY <1>2, <1>7 DEF AllocateArray, SamplerFails, SamplerReady, SampleBlock, DestroySampler
<1> QED
  BY <1>1, <1>3, <1>4, <1>5, <1>6, <1>7 DEF GenNext, GenExited

(* What makes up 1 depends on the weights alone.                             *)
LEMMA SameWeights ==
  ASSUME ps' = ps
  PROVE  One' = One /\ (Finite' <=> Finite) /\ Total' = Total
BY DEF One, Finite, Total

(* The sum of the weights is positive, and so is what makes up 1.            *)
LEMMA WeightFacts ==
  ASSUME WeightInv, step # "idle"
  PROVE  /\ One \in Nat /\ One >= Grains /\ Grains \in Nat /\ Grains > 2 * NumBins
         /\ Finite => ps \in [Bins -> Nat] /\ Total \in Nat \ {0} /\ One = Grains * Total
<1>1. Grains \in Nat /\ Grains > 2 * NumBins
  BY AliasAssumption
<1>2. ASSUME Finite PROVE ps \in [Bins -> Nat] /\ Total \in Nat \ {0}
  <2>1. ps \in [Bins -> Nat]
    BY <1>2 DEF Finite, WeightInv
  <2>2. 0 \in Bins /\ ps[0] \in Nat \ {0}
    BY BinsFinite DEF Bins, WeightInv
  <2>3. Total \in Nat /\ ps[0] <= Total
    BY <2>1, <2>2, BinsFinite, SumNonNegative DEF Total
  <2> QED
    BY <2>1, <2>2, <2>3
<1>3. CASE Finite
  <2>1. One = Grains * Total
    BY <1>3 DEF One
  <2>2. Grains * Total \in Nat /\ Grains * Total >= Grains
    BY <1>1, <1>2, <1>3
  <2> QED
    BY <1>1, <1>2, <1>3, <2>1, <2>2
<1>4. CASE ~Finite
  BY <1>1, <1>4 DEF One
<1> QED
  BY <1>3, <1>4

(* At first the stacks are empty.                                            *)
LEMMA StackInit == GenInit => StackInv /\ SticksFit
<1> SUFFICES ASSUME GenInit PROVE StackInv /\ SticksFit
  OBVIOUS
<1>1. shorts = <<>> /\ longs = <<>> /\ shortRoom = 0 /\ longRoom = 0 /\ step = "idle"
  BY DEF GenInit, InitSampler
<1>2. <<>> \in Seq(Bins) /\ Len(<<>>) = 0 /\ Range(<<>>) = {}
  BY EmptySeq DEF Range
<1> QED
  BY <1>1, <1>2 DEF StackInv, SticksFit, Distinct

(* The stacks while the bins are paired: a bin pushed on one was taken off the
   other.                                                                    *)
LEMMA PairStacks ==
  ASSUME StackInv, SticksFit, Pair
  PROVE  /\ \E rest \in Rests(Top(shorts), Top(longs)) :
              /\ probs' = [probs EXCEPT ![Top(longs)] = rest]
              /\ Range(shorts') = (Range(shorts) \ {Top(shorts)}) \cup (IF rest < One THEN {Top(longs)} ELSE {})
              /\ Range(longs') = IF rest < One THEN Range(longs) \ {Top(longs)} ELSE Range(longs)
         /\ indexes' = [indexes EXCEPT ![Top(shorts)] = Top(longs)]
         /\ Top(shorts) \in Bins /\ Top(longs) \in Bins
         /\ Top(shorts) \in Range(shorts) /\ Top(longs) \in Range(longs)
         /\ StackInv' /\ SticksFit'
<1>1. /\ shorts \in Seq(Bins) /\ longs \in Seq(Bins) /\ shorts # <<>> /\ longs # <<>>
      /\ step = "pair" /\ UNCHANGED <<ps, step, shortRoom, longRoom>>
      /\ shortRoom \in Nat /\ longRoom \in Nat /\ Len(shorts) <= shortRoom /\ Len(longs) <= longRoom
      /\ Distinct(shorts) /\ Distinct(longs) /\ Range(shorts) \cap Range(longs) = {}
      /\ indexes' = [indexes EXCEPT ![Top(shorts)] = Top(longs)]
  BY DEF Pair, StackInv, SticksFit
<1>2. PICK rest \in Rests(Top(shorts), Top(longs)) :
        /\ probs' = [probs EXCEPT ![Top(longs)] = rest]
        /\ shorts' = ShortsAfter(rest)
        /\ longs' = IF rest < One THEN Pop(longs) ELSE longs
  BY DEF Pair
<1>3. /\ Pop(shorts) \in Seq(Bins) /\ Len(Pop(shorts)) = Len(shorts) - 1 /\ Len(shorts) \in Nat \ {0}
      /\ Top(shorts) \in Bins /\ Top(shorts) \in Range(shorts)
      /\ Distinct(Pop(shorts)) /\ Range(Pop(shorts)) = Range(shorts) \ {Top(shorts)}
  BY <1>1, StackPop
<1>4. /\ Pop(longs) \in Seq(Bins) /\ Len(Pop(longs)) = Len(longs) - 1 /\ Len(longs) \in Nat \ {0}
      /\ Top(longs) \in Bins /\ Top(longs) \in Range(longs)
      /\ Distinct(Pop(longs)) /\ Range(Pop(longs)) = Range(longs) \ {Top(longs)}
  BY <1>1, StackPop
<1>5. CASE rest < One
  <2>1. shorts' = Append(Pop(shorts), Top(longs)) /\ longs' = Pop(longs)
    BY <1>2, <1>5 DEF ShortsAfter
  <2>2. Top(longs) \notin Range(Pop(shorts))
    BY <1>1, <1>3, <1>4
  <2>3. /\ shorts' \in Seq(Bins) /\ Len(shorts') = Len(shorts)
        /\ Distinct(shorts') /\ Range(shorts') = (Range(shorts) \ {Top(shorts)}) \cup {Top(longs)}
    BY <1>3, <1>4, <2>1, <2>2, StackPush
  <2>4. Distinct(longs)' /\ Distinct(shorts)'
    BY <1>4, <2>1, <2>3 DEF Distinct
  <2>5. (Range(shorts) \cap Range(longs) = {})'
    <3>1. Range(shorts') \cap Range(longs') = {}
      BY <1>1, <1>4, <2>1, <2>3
    <3> QED
      BY <3>1 DEF Range
  <2>6. StackInv'
    BY <1>1, <1>3, <1>4, <2>1, <2>3, <2>4, <2>5 DEF StackInv
  <2>7. SticksFit'
    BY <1>1, <1>3, <1>4, <2>1, <2>3 DEF SticksFit
  <2> QED
    BY <1>1, <1>2, <1>3, <1>4, <1>5, <2>1, <2>3, <2>6, <2>7
<1>6. CASE ~(rest < One)
  <2>1. shorts' = Pop(shorts) /\ longs' = longs
    BY <1>2, <1>6 DEF ShortsAfter
  <2>2. Distinct(longs)' /\ Distinct(shorts)'
    BY <1>1, <1>3, <2>1 DEF Distinct
  <2>3. (Range(shorts) \cap Range(longs) = {})'
    <3>1. Range(shorts') \cap Range(longs') = {}
      BY <1>1, <1>3, <2>1
    <3> QED
      BY <3>1 DEF Range
  <2>4. StackInv'
    BY <1>1, <1>3, <2>1, <2>2, <2>3 DEF StackInv
  <2>5. SticksFit'
    BY <1>1, <1>3, <2>1 DEF SticksFit
  <2>6. Range(shorts') = Range(shorts) \ {Top(shorts)} /\ Range(longs') = Range(longs)
    BY <1>3, <2>1
  <2> QED
    BY <1>1, <1>2, <1>3, <1>4, <1>6, <2>4, <2>5, <2>6
<1> QED
  BY <1>5, <1>6

(* The products: a natural number, not a number, or exactly 0.               *)
LEMMA NormalizeValues ==
  ASSUME WeightInv, step = "normalize", Normalize
  PROVE  /\ probs' \in [Bins -> Nat \cup {NaN}]
         /\ Finite => /\ probs' \in [Bins -> Nat]
                      /\ \A b \in Bins : /\ ps[b] = 0 => probs'[b] = 0
                                         /\ Distance(probs'[b], Due(b)) <= 1
<1>1. PICK q \in [Bins -> UNION {Scaled(ps[b]) : b \in Bins}] :
        (\A b \in Bins : q[b] \in Scaled(ps[b])) /\ probs' = q
  BY DEF Normalize
<1>2. Grains \in Nat /\ NumBins \in Nat \ {0} /\ Grains > 2 * NumBins /\ Rounding \subseteq {-1, 0, 1}
  BY AliasAssumption
<1>3. ASSUME Finite, NEW b \in Bins
      PROVE  /\ q[b] \in Nat /\ (ps[b] = 0 => q[b] = 0) /\ Distance(q[b], Due(b)) <= 1
  <2>1. ps[b] \in Nat
    BY <1>3, WeightFacts
  <2>2. CASE ps[b] = 0
    <3>1. q[b] = 0
      BY <1>1, <1>3, <2>2 DEF Scaled
    <3>2. Due(b) = 0
      BY <1>2, <2>2 DEF Due
    <3> QED
      BY <3>1, <3>2 DEF Distance
  <2>3. CASE ps[b] # 0
    <3>1. Grains * NumBins \in Nat /\ Grains * NumBins >= 1
      BY <1>2
    <3> DEFINE m == Grains * NumBins * ps[b]
    <3>2. m \in Nat /\ m >= 1
      BY <2>1, <2>3, <3>1
    <3>3. Scaled(ps[b]) = {m + e : e \in Rounding}
      BY <1>3, <2>3 DEF Scaled
    <3> HIDE DEF m
    <3>4. PICK e \in Rounding : q[b] = m + e
      BY <1>1, <3>3
    <3>5. e \in {-1, 0, 1}
      BY <1>2
    <3>6. q[b] \in Nat /\ Distance(q[b], m) <= 1
      BY <3>2, <3>4, <3>5 DEF Distance
    <3> QED
      BY <2>3, <3>6 DEF Due, m
  <2> QED
    BY <2>2, <2>3
<1>4. ASSUME ~Finite, NEW b \in Bins PROVE q[b] \in Nat \cup {NaN}
  BY <1>1, <1>4 DEF Scaled
<1> QED
  <2>1. \A b \in Bins : q[b] \in Nat \cup {NaN}
    BY <1>3, <1>4
  <2>2. probs' \in [Bins -> Nat \cup {NaN}]
    BY <1>1, <2>1
  <2>3. Finite => probs' \in [Bins -> Nat]
    BY <1>1, <1>3
  <2> QED
    BY <1>1, <1>3, <2>2, <2>3

(* The room for the stacks is that of the bins counted.                      *)
LEMMA StackSampler ==
  ASSUME WeightInv, StackInv, SticksFit, InitSteps
  PROVE  StackInv' /\ SticksFit'
<1>1. /\ shorts \in Seq(Bins) /\ longs \in Seq(Bins)
      /\ shortRoom \in Nat /\ longRoom \in Nat /\ Len(shorts) <= shortRoom /\ Len(longs) <= longRoom
      /\ Distinct(shorts) /\ Distinct(longs) /\ Range(shorts) \cap Range(longs) = {}
  BY DEF StackInv, SticksFit
<1>2. UNCHANGED ps
  BY DEF InitSteps, AllocateIndexes, AllocateProbs, Normalize, AllocateLongs, AllocateShorts, Fill, Pair, FixLeftovers
<1>3. One' = One
  BY <1>2, SameWeights
<1>4. CASE AllocateIndexes
  <2>1. /\ step = "indexes" /\ step' \in {"probs", "ENOMEM"} /\ indexes' = [b \in Bins |-> 0]
        /\ UNCHANGED <<shorts, longs, shortRoom, longRoom>>
    BY <1>4 DEF AllocateIndexes, AllocateBlock, sticks
  <2> QED
    BY <1>1, <2>1 DEF StackInv, SticksFit, Distinct, Range
<1>5. CASE AllocateProbs
  <2>1. /\ step = "probs" /\ step' \in {"normalize", "ENOMEM"}
        /\ UNCHANGED <<indexes, shorts, longs, shortRoom, longRoom>>
    BY <1>5 DEF AllocateProbs, AllocateBlock, sticks, table
  <2> QED
    BY <1>1, <2>1 DEF StackInv, SticksFit, Distinct, Range
<1>6. CASE AllocateLongs \/ AllocateShorts
  <2>1. /\ step \in {"longs", "shorts"} /\ step' \in {"shorts", "fill", "ENOMEM"}
        /\ UNCHANGED <<indexes, probs, shorts, longs, shortRoom, longRoom>>
    BY <1>6 DEF AllocateLongs, AllocateShorts, AllocateBlock, sticks, table
  <2>2. SticksFit'
    BY <1>1, <2>1 DEF SticksFit
  <2>3. /\ probs \in [Bins -> Nat \cup {NaN}]
        /\ shortRoom = Cardinality({b \in Bins : IsShort(probs[b])})
        /\ longRoom  = Cardinality({b \in Bins : IsLong(probs[b])})
    BY <2>1 DEF StackInv
  <2>4. /\ (shortRoom = Cardinality({b \in Bins : IsShort(probs[b])}))'
        /\ (longRoom  = Cardinality({b \in Bins : IsLong(probs[b])}))'
    BY <1>3, <2>1, <2>3 DEF IsShort, IsLong
  <2>5. StackInv'
    BY <1>1, <2>1, <2>3, <2>4 DEF StackInv, Distinct, Range
  <2> QED
    BY <2>2, <2>5
<1>7. CASE Normalize
  <2>1. /\ step = "normalize" /\ step' = "longs" /\ UNCHANGED <<indexes, shorts, longs>>
        /\ shortRoom' = Cardinality({b \in Bins : IsShort(probs'[b])})
        /\ longRoom' = Cardinality({b \in Bins : IsLong(probs'[b])})
    BY <1>7 DEF Normalize
  <2>2. /\ (shortRoom = Cardinality({b \in Bins : IsShort(probs[b])}))'
        /\ (longRoom  = Cardinality({b \in Bins : IsLong(probs[b])}))'
    BY <1>3, <2>1 DEF IsShort, IsLong
  <2>3. shortRoom' \in Nat /\ longRoom' \in Nat
    BY <2>1, BinsFinite
  <2>4. shorts = <<>> /\ longs = <<>> /\ indexes = [j \in Bins |-> 0]
    BY <2>1 DEF StackInv
  <2>5. SticksFit'
    BY <2>1, <2>3, <2>4 DEF SticksFit
  <2>6. probs' \in [Bins -> Nat \cup {NaN}]
    BY <1>7, <2>1, NormalizeValues
  <2>7. StackInv'
    BY <1>1, <2>1, <2>2, <2>3, <2>4, <2>6 DEF StackInv, Distinct, Range
  <2> QED
    BY <2>5, <2>7
<1>8. CASE Fill
  <2> DEFINE S == {b \in Bins : IsShort(probs[b])}
             L == {b \in Bins : IsLong(probs[b])}
  <2>1. /\ step = "fill" /\ step' = "pair" /\ shorts' = Ascending(S) /\ longs' = Ascending(L)
        /\ UNCHANGED <<indexes, shortRoom, longRoom>>
        /\ shortRoom = Cardinality(S) /\ longRoom = Cardinality(L)
    BY <1>8 DEF Fill, StackInv, table
  <2>2. S \in SUBSET Bins /\ L \in SUBSET Bins
    OBVIOUS
  <2>3. S \cap L = {}
    <3>1. One \in Nat /\ \A b \in Bins : probs[b] \in Nat \cup {NaN}
      BY <2>1, WeightFacts DEF StackInv
    <3>2. \A b \in Bins : ~(IsShort(probs[b]) /\ IsLong(probs[b]))
      BY <3>1 DEF IsShort, IsLong
    <3> QED
      BY <3>2
  <2> HIDE DEF S, L
  <2>4. /\ shorts' \in Seq(Bins) /\ Len(shorts') = shortRoom /\ Range(shorts') = S /\ Distinct(shorts')
        /\ longs' \in Seq(Bins) /\ Len(longs') = longRoom /\ Range(longs') = L /\ Distinct(longs')
    BY <2>1, <2>2, AscendingStack
  <2>5. Distinct(longs)' /\ Distinct(shorts)' /\ Range(shorts)' \cap Range(longs)' = {}
    BY <2>3, <2>4 DEF Distinct, Range
  <2>6. StackInv'
    BY <1>1, <2>1, <2>4, <2>5 DEF StackInv
  <2> QED
    BY <1>1, <2>1, <2>4, <2>6 DEF SticksFit
<1>9. CASE Pair
  BY <1>9, PairStacks
<1>10. CASE FixLeftovers
  <2>1. /\ step' = "SUCCESS" /\ shorts' = <<>> /\ longs' = <<>> /\ UNCHANGED <<shortRoom, longRoom>>
    BY <1>10 DEF FixLeftovers
  <2>2. <<>> \in Seq(Bins) /\ Len(<<>>) = 0 /\ Range(<<>>) = {}
    BY EmptySeq DEF Range
  <2>3. StackInv'
    BY <1>1, <2>1, <2>2 DEF StackInv, Distinct, Range
  <2> QED
    BY <1>1, <2>1, <2>2, <2>3 DEF SticksFit
<1> QED
  BY <1>4, <1>5, <1>6, <1>7, <1>8, <1>9, <1>10 DEF InitSteps

(* Filling the stacks: the bins that are not exactly 1 are on one of them, and
   all the errors are those of the products.                                 *)
LEMMA FillStep ==
  ASSUME WeightInv, StackInv, TableInv, ProductInv, Fill
  PROVE  TableInv' /\ PairInv' /\ BalanceInv'
<1>1. step = "fill" /\ step' = "pair" /\ UNCHANGED <<ps, probs, indexes>>
  BY DEF Fill, table
<1>2. One' = One /\ (Finite' <=> Finite) /\ Total' = Total
  BY <1>1, SameWeights
<1> SUFFICES ASSUME Finite PROVE TableInv' /\ PairInv' /\ BalanceInv'
  BY <1>1, <1>2 DEF TableInv, PairInv, BalanceInv
<1>3. /\ One \in Nat /\ One > 0 /\ One = Grains * Total /\ Grains \in Nat /\ NumBins \in Nat
      /\ ps \in [Bins -> Nat] /\ Total \in Nat
  BY <1>1, WeightFacts, BinsFinite
<1>4. /\ probs \in [Bins -> Nat] /\ indexes = [j \in Bins |-> 0]
      /\ \A j \in Bins : ps[j] = 0 => probs[j] = 0
      /\ \A b \in Bins : Distance(probs[b], Due(b)) <= 1
  BY <1>1 DEF TableInv, StackInv, ProductInv
<1>5. /\ Range(shorts') = {b \in Bins : probs[b] < One}
      /\ Range(longs') = {b \in Bins : probs[b] > One}
  <2>1. /\ {b \in Bins : IsShort(probs[b])} = {b \in Bins : probs[b] < One}
        /\ {b \in Bins : IsLong(probs[b])} = {b \in Bins : probs[b] > One}
    BY <1>4 DEF IsShort, IsLong, NaN
  <2>2. /\ shorts' = Ascending({b \in Bins : probs[b] < One})
        /\ longs' = Ascending({b \in Bins : probs[b] > One})
    BY <2>1 DEF Fill
  <2>3. /\ {b \in Bins : probs[b] < One} \in SUBSET Bins
        /\ {b \in Bins : probs[b] > One} \in SUBSET Bins
    OBVIOUS
  <2> QED
    BY <2>2, <2>3, AscendingStack
<1>6. OnStack' = {b \in Bins : probs[b] < One} \cup {b \in Bins : probs[b] > One}
  <2>1. OnStack' = Range(shorts') \cup Range(longs')
    BY DEF OnStack, Range
  <2> QED
    BY <1>5, <2>1
<1>7. Settled' = {}
  BY <1>1, <1>2, <1>6 DEF Settled
<1>8. TableInv'
  BY <1>1, <1>4 DEF TableInv
<1>9. PairInv'
  <2>1. \A j \in Range(shorts') : j \in Bins /\ probs[j] < One
    BY <1>5
  <2>2. \A j \in Range(longs') : j \in Bins /\ probs[j] >= One /\ ps[j] > 0
    BY <1>3, <1>4, <1>5
  <2>3. \A j \in Bins \ OnStack' : probs[j] <= One
    BY <1>3, <1>4, <1>6
  <2>4. \A j \in Bins \ Settled' : indexes[j] = 0
    BY <1>4
  <2> QED
    BY <1>1, <1>2, <1>7, <2>1, <2>2, <2>3, <2>4 DEF PairInv, Range
<1>10. BalanceInv'
  <2>1. \A b \in Bins : Has(b)' = probs[b]
    <3> SUFFICES ASSUME NEW b \in Bins PROVE Has(b)' = probs[b]
      OBVIOUS
    <3> DEFINE g == [j \in Bins |-> Given(j, b)']
    <3>1. \A j \in Bins : g[j] = IF j = b THEN probs[j] ELSE 0
      BY <1>1, <1>7 DEF Given
    <3>2. Has(b)' = SumFunctionOnSet(g, Bins)
      BY DEF Has
    <3> HIDE DEF g
    <3>3. SumFunctionOnSet(g, Bins) = g[b]
      BY <1>4, <3>1, BinsFinite, SumSingle
    <3> QED
      BY <3>1, <3>2, <3>3
  <2> DEFINE E == Error'
             X == Excess'
             A == Absolute'
  <2>2. \A b \in Bins : Due(b)' = Due(b) /\ Due(b) = Grains * NumBins * ps[b] /\ Due(b) \in Int
    BY <1>1, <1>3 DEF Due
  <2>3. \A b \in Bins : E[b] = probs[b] - Due(b) /\ E[b] \in Int
    BY <1>4, <2>1, <2>2 DEF Error
  <2>4. \A b \in Bins : X[b] = probs[b] - One /\ X[b] \in Int
    BY <1>1, <1>2, <1>3, <1>4, <1>7 DEF Excess
  <2>5. \A b \in Bins : A[b] \in Int /\ A[b] <= 1
    <3> SUFFICES ASSUME NEW b \in Bins PROVE A[b] \in Int /\ A[b] <= 1
      OBVIOUS
    <3>1. Due(b) \in Int /\ probs[b] \in Nat /\ Distance(probs[b], Due(b)) <= 1
      BY <1>4, <2>2
    <3>2. A[b] = IF E[b] < 0 THEN -E[b] ELSE E[b]
      BY DEF Absolute
    <3> HIDE DEF A, E
    <3> QED
      BY <2>3, <3>1, <3>2 DEF Distance
  <2>6. (SumFunctionOnSet(Error, Bins) = SumFunctionOnSet(Excess, Bins))'
        <=> SumFunctionOnSet(E, Bins) = SumFunctionOnSet(X, Bins)
    OBVIOUS
  <2>7. (SumFunctionOnSet(Absolute, Bins) <= NumBins + Cardinality(Settled))'
        <=> SumFunctionOnSet(A, Bins) <= NumBins + Cardinality(Settled')
    OBVIOUS
  <2> HIDE DEF E, X, A
  <2>8. SumFunctionOnSet(E, Bins) = SumFunctionOnSet(X, Bins)
    <3> DEFINE k == -(Grains * NumBins)
               d == [b \in Bins |-> k * ps[b]]
               o == [b \in Bins |-> -One]
               P == SumFunctionOnSet(probs, Bins)
    <3>1. k \in Int /\ -One \in Int /\ P \in Int
      BY <1>3, <1>4, BinsFinite, SumRemove
    <3>2. \A b \in Bins : d[b] = -Due(b)
      BY <1>3, <2>2
    <3>3. \A b \in Bins : ps[b] \in Int /\ d[b] = k * ps[b]
      BY <1>3
    <3>4. \A b \in Bins : o[b] = -One
      OBVIOUS
    <3>5. k * Total = (-One) * NumBins
      BY <1>3
    <3> HIDE DEF k, d, o, P
    <3>6. SumFunctionOnSet(E, Bins) = P + SumFunctionOnSet(d, Bins)
      <4>1. \A b \in Bins : probs[b] \in Int /\ d[b] \in Int /\ E[b] = probs[b] + d[b]
        BY <1>4, <2>2, <2>3, <3>2
      <4> QED
        BY <4>1, BinsFinite, SumAdd DEF P
    <3>7. SumFunctionOnSet(X, Bins) = P + SumFunctionOnSet(o, Bins)
      <4>1. \A b \in Bins : probs[b] \in Int /\ o[b] \in Int /\ X[b] = probs[b] + o[b]
        BY <1>3, <1>4, <2>4, <3>4
      <4> QED
        BY <4>1, BinsFinite, SumAdd DEF P
    <3>8. SumFunctionOnSet(d, Bins) = k * Total
      BY <3>1, <3>3, BinsFinite, SumScale DEF Total
    <3>9. SumFunctionOnSet(o, Bins) = (-One) * NumBins
      BY <3>1, <3>4, BinsFinite, SumConstant
    <3> QED
      BY <3>5, <3>6, <3>7, <3>8, <3>9
  <2>9. SumFunctionOnSet(A, Bins) <= NumBins
    <3> DEFINE o == [b \in Bins |-> 1]
    <3>1. \A b \in Bins : o[b] = 1
      OBVIOUS
    <3> HIDE DEF o
    <3>2. SumFunctionOnSet(A, Bins) <= SumFunctionOnSet(o, Bins)
      BY <2>5, <3>1, BinsFinite, SumCompare
    <3>3. SumFunctionOnSet(o, Bins) = 1 * NumBins
      BY <3>1, BinsFinite, SumConstant
    <3> QED
      BY <1>3, <3>2, <3>3
  <2>10. Cardinality(Settled') = 0
    BY <1>7, FS_EmptySet
  <2> QED
    BY <1>3, <2>6, <2>7, <2>8, <2>9, <2>10 DEF BalanceInv
<1> QED
  BY <1>8, <1>9, <1>10

(* A pairing settles the short bin: the long one gets what the short one lacks,
   and only the rounding error of the rest is not accounted for.             *)
LEMMA PairStep ==
  ASSUME WeightInv, StackInv, SticksFit, TableInv, PairInv, BalanceInv, Pair
  PROVE  TableInv' /\ PairInv' /\ BalanceInv'
<1>1. PICK s \in Bins, l \in Bins : s = Top(shorts) /\ l = Top(longs)
  BY PairStacks
<1>2. IsFiniteSet(Bins)
  BY BinsFinite
<1>3. step = "pair" /\ step' = "pair" /\ UNCHANGED ps
  BY DEF Pair
<1>4. One' = One /\ (Finite' <=> Finite)
  BY <1>3, SameWeights
<1> SUFFICES ASSUME Finite PROVE TableInv' /\ PairInv' /\ BalanceInv'
  BY <1>3, <1>4 DEF TableInv, PairInv, BalanceInv
<1>5. One \in Nat /\ One > 0 /\ Grains \in Nat /\ NumBins \in Nat /\ ps \in [Bins -> Nat]
  BY <1>3, WeightFacts, BinsFinite
<1>6. /\ probs \in [Bins -> Nat] /\ indexes \in [Bins -> Bins]
      /\ \A j \in Bins : ps[j] = 0 => probs[j] = 0
  BY <1>3 DEF TableInv
<1>7. /\ \A j \in Range(shorts) : probs[j] < One
      /\ \A j \in Range(longs) : probs[j] >= One /\ ps[j] > 0
      /\ \A j \in Bins \ OnStack : probs[j] <= One
      /\ \A j \in Bins \ Settled : indexes[j] = 0
      /\ \A j \in Settled : indexes[j] # j /\ ps[indexes[j]] > 0
  BY <1>3 DEF PairInv
<1>8. /\ s \in Bins /\ l \in Bins /\ s \in Range(shorts) /\ l \in Range(longs)
      /\ indexes' = [indexes EXCEPT ![s] = l]
  BY <1>1, PairStacks
<1>9. PICK rest \in Rests(s, l) :
        /\ probs' = [probs EXCEPT ![l] = rest]
        /\ Range(shorts') = (Range(shorts) \ {s}) \cup (IF rest < One THEN {l} ELSE {})
        /\ Range(longs') = IF rest < One THEN Range(longs) \ {l} ELSE Range(longs)
  BY <1>1, PairStacks
<1>10. Range(shorts) \cap Range(longs) = {} /\ OnStack = Range(shorts) \cup Range(longs) /\ s # l
  BY <1>8 DEF StackInv, OnStack
<1>11. PICK e \in {-1, 0, 1} : rest = probs[l] + probs[s] - One + e
  BY AliasAssumption DEF Rests
<1>12. rest \in Nat
  BY <1>5, <1>6, <1>8, <1>11 DEF Rests
<1>13. OnStack' = OnStack \ {s}
  <2>1. OnStack' = Range(shorts') \cup Range(longs')
    BY DEF OnStack, Range
  <2> QED
    BY <1>8, <1>9, <1>10, <2>1
<1>14. /\ \A j \in Bins : j # l => probs'[j] = probs[j]
       /\ probs'[l] = rest /\ l \in OnStack /\ l \in OnStack' /\ s \in OnStack
  BY <1>6, <1>8, <1>9, <1>10, <1>13
<1>15. s \notin Settled /\ l \notin Settled /\ l \notin Settled' /\ Settled' = Settled \cup {s}
  <2>1. Settled' = {j \in Bins : j \notin OnStack' /\ probs'[j] < One}
    BY <1>4 DEF Settled
  <2>2. s \notin OnStack' /\ probs'[s] < One
    BY <1>7, <1>8, <1>10, <1>13, <1>14
  <2> QED
    BY <1>8, <1>13, <1>14, <2>1, <2>2 DEF Settled
<1>16. TableInv'
  <2>1. probs' \in [Bins -> Nat] /\ indexes' \in [Bins -> Bins]
    BY <1>6, <1>8, <1>9, <1>12
  <2>2. ps[l] > 0
    BY <1>7, <1>8
  <2>3. \A j \in Bins : ps[j] = 0 => probs'[j] = 0
    BY <1>6, <1>14, <2>2
  <2> QED
    BY <1>3, <2>1, <2>3 DEF TableInv
<1>17. PairInv'
  <2>1. \A j \in Range(shorts') : probs'[j] < One
    <3>1. Range(shorts) \subseteq Bins
      BY LenProperties DEF StackInv, Range
    <3> QED
      BY <1>7, <1>8, <1>9, <1>10, <1>14, <3>1
  <2>2. \A j \in Range(longs') : probs'[j] >= One /\ ps[j] > 0
    <3>1. Range(longs) \subseteq Bins
      BY LenProperties DEF StackInv, Range
    <3> QED
      BY <1>5, <1>7, <1>8, <1>9, <1>12, <1>14, <3>1
  <2>3. \A j \in Bins \ OnStack' : probs'[j] <= One
    BY <1>5, <1>6, <1>7, <1>8, <1>13, <1>14
  <2>4. \A j \in Bins \ Settled' : indexes'[j] = 0
    BY <1>6, <1>7, <1>8, <1>15
  <2>5. \A j \in Settled' : indexes'[j] # j /\ ps[indexes'[j]] > 0
    <3>1. \A j \in Settled : j \in Bins
      BY DEF Settled
    <3> QED
      BY <1>6, <1>7, <1>8, <1>10, <1>15, <3>1
  <2> QED
    BY <1>3, <1>4, <2>1, <2>2, <2>3, <2>4, <2>5 DEF PairInv, Range
<1>18. ASSUME NEW j \in Bins, NEW b \in Bins
       PROVE  /\ Given(j, b) \in Int /\ Given(j, b)' \in Int
              /\ b # l => Given(j, b)' = Given(j, b)
              /\ j # s /\ j # l => Given(j, b)' = Given(j, b)
  <2>1. Given(j, b) = IF j = b THEN probs[j] ELSE IF j \in Settled /\ indexes[j] = b THEN One - probs[j] ELSE 0
    BY DEF Given
  <2>2. Given(j, b)' = IF j = b THEN probs'[j]
                       ELSE IF j \in Settled' /\ indexes'[j] = b THEN One - probs'[j] ELSE 0
    BY <1>4 DEF Given
  <2>3. probs[j] \in Nat /\ probs'[j] \in Nat
    BY <1>6, <1>12, <1>14
  <2>4. indexes'[j] = IF j = s THEN l ELSE indexes[j]
    BY <1>6, <1>8
  <2> QED
    BY <1>5, <1>10, <1>14, <1>15, <2>1, <2>2, <2>3, <2>4
<1>19. /\ Given(l, l)' - Given(l, l) = rest - probs[l]
       /\ Given(s, l)' - Given(s, l) = One - probs[s]
  <2>1. Given(l, l)' = rest /\ Given(l, l) = probs[l]
    BY <1>14 DEF Given
  <2>2. Given(s, l) = 0
    BY <1>10, <1>15 DEF Given
  <2>3. Given(s, l)' = One - probs[s]
    <3>1. s \in Settled' /\ indexes'[s] = l /\ probs'[s] = probs[s]
      BY <1>6, <1>8, <1>10, <1>14, <1>15
    <3> QED
      BY <1>4, <1>10, <3>1 DEF Given
  <2>4. probs[s] \in Nat
    BY <1>6, <1>8
  <2> QED
    BY <1>5, <2>1, <2>2, <2>3, <2>4
<1>20. ASSUME NEW b \in Bins
       PROVE  Has(b)' = Has(b) + (IF b = l THEN e ELSE 0) /\ Has(b) \in Int
  <2> DEFINE g == [j \in Bins |-> Given(j, b)]
             h == [j \in Bins |-> Given(j, b)']
  <2>1. Has(b) = SumFunctionOnSet(g, Bins) /\ Has(b)' = SumFunctionOnSet(h, Bins)
    BY DEF Has
  <2>2. \A j \in Bins : g[j] \in Int /\ h[j] \in Int /\ g[j] = Given(j, b) /\ h[j] = Given(j, b)'
    BY <1>18
  <2> HIDE DEF g, h
  <2>3. SumFunctionOnSet(g, Bins) \in Int
    BY <2>2, BinsFinite, SumRemove
  <2>4. CASE b # l
    <3>1. SumFunctionOnSet(h, Bins) = SumFunctionOnSet(g, Bins)
      <4>1. \A j \in Bins : h[j] \in Int /\ h[j] = g[j]
        BY <1>18, <2>2, <2>4
      <4> QED
        BY <4>1, BinsFinite, SumSame
    <3> QED
      BY <2>1, <2>3, <2>4, <3>1
  <2>5. CASE b = l
    <3>1. \A j \in Bins \ {s, l} : h[j] = g[j]
      BY <1>18, <2>2
    <3>2. SumFunctionOnSet(h, Bins) = SumFunctionOnSet(g, Bins) + (h[s] - g[s]) + (h[l] - g[l])
      <4>1. g \in [Bins -> Int] /\ h \in [Bins -> Int]
        BY <2>2 DEF g, h
      <4>2. l \in Bins \ {s}
        BY <1>10
      <4> QED
        BY <1>2, <3>1, <4>1, <4>2, SumUpdateTwo
    <3>3. h[s] - g[s] = One - probs[s] /\ h[l] - g[l] = rest - probs[l]
      BY <1>8, <1>19, <2>2, <2>5
    <3>4. probs[s] \in Nat /\ probs[l] \in Nat
      BY <1>6, <1>8
    <3>5. (One - probs[s]) + (rest - probs[l]) = e
      BY <1>5, <1>11, <3>4
    <3> QED
      BY <1>5, <1>12, <2>1, <2>3, <2>5, <3>2, <3>3, <3>4, <3>5
  <2> QED
    BY <2>1, <2>3, <2>4, <2>5
<1> DEFINE E == Error'
           X == Excess'
           A == Absolute'
<1>21. \A b \in Bins : E[b] = Error[b] + (IF b = l THEN e ELSE 0) /\ Error[b] \in Int /\ E[b] \in Int
  <2> SUFFICES ASSUME NEW b \in Bins
               PROVE  E[b] = Error[b] + (IF b = l THEN e ELSE 0) /\ Error[b] \in Int /\ E[b] \in Int
    OBVIOUS
  <2>1. Due(b)' = Due(b) /\ Due(b) \in Int
    BY <1>3, <1>5 DEF Due
  <2>2. E[b] = Has(b)' - Due(b)' /\ Error[b] = Has(b) - Due(b)
    BY DEF Error
  <2>3. Has(b)' = Has(b) + (IF b = l THEN e ELSE 0) /\ Has(b) \in Int
    BY <1>20
  <2> HIDE DEF E
  <2> QED
    BY <2>1, <2>2, <2>3
<1>22. /\ \A j \in Bins : Excess[j] \in Int /\ X[j] \in Int
       /\ \A j \in Bins : j # s /\ j # l => X[j] = Excess[j]
       /\ X[s] - Excess[s] = One - probs[s] /\ X[l] - Excess[l] = rest - probs[l]
  <2>1. /\ \A j \in Bins : X[j] = IF j \in Settled' THEN 0 ELSE probs'[j] - One
        /\ \A j \in Bins : Excess[j] = IF j \in Settled THEN 0 ELSE probs[j] - One
    BY <1>4 DEF Excess
  <2> HIDE DEF X
  <2>2. \A j \in Bins : probs[j] \in Nat /\ probs'[j] \in Nat
    BY <1>6, <1>12, <1>14
  <2>3. X[s] = 0 /\ Excess[s] = probs[s] - One
    BY <1>8, <1>15, <2>1
  <2>4. X[l] = rest - One /\ Excess[l] = probs[l] - One
    BY <1>8, <1>14, <1>15, <2>1
  <2> QED
    BY <1>5, <1>8, <1>12, <1>14, <1>15, <2>1, <2>2, <2>3, <2>4
<1>23. \A b \in Bins : /\ A[b] = (IF E[b] < 0 THEN -E[b] ELSE E[b])
                       /\ Absolute[b] = IF Error[b] < 0 THEN -Error[b] ELSE Error[b]
  BY DEF Absolute
<1>24. (SumFunctionOnSet(Error, Bins) = SumFunctionOnSet(Excess, Bins))'
        <=> SumFunctionOnSet(E, Bins) = SumFunctionOnSet(X, Bins)
  OBVIOUS
<1>25. (SumFunctionOnSet(Absolute, Bins) <= NumBins + Cardinality(Settled))'
        <=> SumFunctionOnSet(A, Bins) <= NumBins + Cardinality(Settled')
  OBVIOUS
<1> HIDE DEF E, X, A
<1>26. SumFunctionOnSet(E, Bins) = SumFunctionOnSet(X, Bins)
  <2>1. SumFunctionOnSet(Error, Bins) = SumFunctionOnSet(Excess, Bins)
    BY <1>3 DEF BalanceInv
  <2>2. SumFunctionOnSet(E, Bins) = SumFunctionOnSet(Error, Bins) + (E[l] - Error[l])
    <3>1. \A b \in Bins : b # l => E[b] = Error[b]
      BY <1>21
    <3> QED
      BY <1>8, <1>21, <3>1, BinsFinite, SumUpdate
  <2>3. SumFunctionOnSet(X, Bins) = SumFunctionOnSet(Excess, Bins) + (X[s] - Excess[s]) + (X[l] - Excess[l])
    <3>1. Excess \in [Bins -> Int] /\ X \in [Bins -> Int]
      BY <1>22 DEF Excess, X
    <3>2. \A j \in Bins \ {s, l} : X[j] = Excess[j]
      BY <1>22
    <3>3. l \in Bins \ {s}
      BY <1>10
    <3> QED
      BY <1>2, <3>1, <3>2, <3>3, SumUpdateTwo
  <2>4. SumFunctionOnSet(Error, Bins) \in Int /\ SumFunctionOnSet(Excess, Bins) \in Int
    BY <1>21, <1>22, BinsFinite, SumRemove
  <2>5. E[l] - Error[l] = e
    BY <1>8, <1>21
  <2>6. probs[s] \in Nat /\ probs[l] \in Nat
    BY <1>6, <1>8
  <2>7. (One - probs[s]) + (rest - probs[l]) = e
    BY <1>5, <1>11, <2>6
  <2> QED
    BY <1>5, <1>12, <1>22, <2>1, <2>2, <2>3, <2>4, <2>5, <2>6, <2>7
<1>27. SumFunctionOnSet(A, Bins) <= NumBins + Cardinality(Settled')
  <2>1. \A b \in Bins : Absolute[b] \in Int /\ A[b] \in Int
    BY <1>21, <1>23
  <2>2. \A b \in Bins : b # l => A[b] = Absolute[b]
    BY <1>21, <1>23
  <2>3. A[l] - Absolute[l] <= 1
    BY <1>8, <1>21, <1>23
  <2>4. SumFunctionOnSet(A, Bins) = SumFunctionOnSet(Absolute, Bins) + (A[l] - Absolute[l])
    BY <1>8, <2>1, <2>2, <1>2, SumUpdate
  <2>5. SumFunctionOnSet(Absolute, Bins) <= NumBins + Cardinality(Settled)
    BY <1>3 DEF BalanceInv
  <2>6. Cardinality(Settled') = Cardinality(Settled) + 1 /\ Cardinality(Settled) \in Nat
    <3>1. Settled \in SUBSET Bins
      BY DEF Settled
    <3>2. IsFiniteSet(Settled) /\ Cardinality(Settled) \in Nat
      BY <3>1, BinsFinite
    <3> QED
      BY <1>15, <3>2, FS_AddElement
  <2>7. SumFunctionOnSet(Absolute, Bins) \in Int
    BY <2>1, BinsFinite, SumRemove
  <2>8. A[l] \in Int /\ Absolute[l] \in Int
    BY <1>8, <2>1
  <2> QED
    BY <1>5, <2>3, <2>4, <2>5, <2>6, <2>7, <2>8
<1>28. BalanceInv'
  BY <1>24, <1>25, <1>26, <1>27 DEF BalanceInv
<1> QED
  BY <1>16, <1>17, <1>28

(* The numbers of an interval below a bound, and the others.                 *)
LEMMA CountBelow ==
  ASSUME NEW m \in Nat, NEW p \in Nat, p <= m
  PROVE  /\ Cardinality({u \in 0 .. m - 1 : u < p}) = p
         /\ Cardinality({u \in 0 .. m - 1 : ~(u < p)}) = m - p
<1>1. {u \in 0 .. m - 1 : u < p} = 0 .. p - 1 /\ {u \in 0 .. m - 1 : ~(u < p)} = p .. m - 1
  OBVIOUS
<1>2. Cardinality(0 .. p - 1) = p
  BY FS_Interval
<1>3. Cardinality(p .. m - 1) = m - p
  <2>1. m - 1 \in Int /\ p \in Int
    OBVIOUS
  <2>2. Cardinality(p .. m - 1) = IF p > m - 1 THEN 0 ELSE (m - 1) - p + 1
    BY <2>1, FS_Interval
  <2> QED
    BY <2>2
<1> QED
  BY <1>1, <1>2, <1>3

(* One error, and all of them added up with or without it.                   *)
LEMMA SumAbsolute ==
  ASSUME NEW S, IsFiniteSet(S), NEW g \in [S -> Int], NEW a \in [S -> Int],
         \A x \in S : a[x] = IF g[x] < 0 THEN -g[x] ELSE g[x],
         NEW y \in S
  PROVE  /\ SumFunctionOnSet(g, S) \in Int /\ SumFunctionOnSet(a, S) \in Int
         /\ g[y] <= SumFunctionOnSet(a, S) /\ -g[y] <= SumFunctionOnSet(a, S)
         /\ g[y] - SumFunctionOnSet(g, S) <= SumFunctionOnSet(a, S)
         /\ SumFunctionOnSet(g, S) - g[y] <= SumFunctionOnSet(a, S)
<1> DEFINE R == S \ {y}
           m == [x \in S |-> -g[x]]
<1>1. IsFiniteSet(R) /\ R \subseteq S
  BY FS_RemoveElement
<1>2. \A x \in S : m[x] = -g[x] /\ m[x] = (-1) * g[x]
  OBVIOUS
<1>3. /\ SumFunctionOnSet(g, S) = g[y] + SumFunctionOnSet(g, R)
      /\ SumFunctionOnSet(a, S) = a[y] + SumFunctionOnSet(a, R)
      /\ SumFunctionOnSet(g, S) \in Int /\ SumFunctionOnSet(a, S) \in Int
  BY SumRemove
<1> HIDE DEF R, m
<1>4. SumFunctionOnSet(g, R) \in Int /\ SumFunctionOnSet(a, R) \in Int
  BY <1>1, SumRemove
<1>5. SumFunctionOnSet(a, R) >= 0
  <2>1. \A x \in R : a[x] \in Nat
    BY <1>1
  <2> QED
    BY <1>1, <2>1, SumNonNegative
<1>6. SumFunctionOnSet(g, R) <= SumFunctionOnSet(a, R)
  <2>1. \A x \in R : g[x] \in Int /\ a[x] \in Int /\ g[x] <= a[x]
    BY <1>1
  <2> QED
    BY <1>1, <2>1, SumCompare
<1>7. -SumFunctionOnSet(g, R) <= SumFunctionOnSet(a, R)
  <2>1. \A x \in R : m[x] \in Int /\ a[x] \in Int /\ m[x] <= a[x]
    BY <1>1, <1>2
  <2>2. SumFunctionOnSet(m, R) <= SumFunctionOnSet(a, R)
    BY <1>1, <2>1, SumCompare
  <2>3. \A x \in R : g[x] \in Int /\ m[x] = (-1) * g[x]
    BY <1>1, <1>2
  <2>4. SumFunctionOnSet(m, R) = (-1) * SumFunctionOnSet(g, R)
    BY <1>1, <2>3, SumScale
  <2> QED
    BY <1>4, <2>2, <2>4
<1>8. a[y] \in Nat /\ g[y] \in Int /\ g[y] <= a[y] /\ -g[y] <= a[y]
  OBVIOUS
<1> QED
  BY <1>3, <1>4, <1>5, <1>6, <1>7, <1>8

(* What the columns of the finished table give bin b: all that bin b has of the
   settled columns, and 1 of its own where it was left over.                 *)
LEMMA FixedMass ==
  ASSUME WeightInv, StackInv, TableInv, PairInv, FixLeftovers, Finite, NEW b \in Bins
  PROVE  /\ Mass(b)' = Has(b) - Excess[b] /\ Has(b) \in Int
         /\ \A j \in Bins : /\ j \in Settled => probs'[j] = probs[j] /\ probs[j] < One
                            /\ j \notin Settled => probs'[j] = One
<1>1. step = "pair" /\ step' = "SUCCESS" /\ UNCHANGED <<ps, indexes>>
  BY DEF FixLeftovers
<1>2. One' = One
  BY <1>1, SameWeights
<1>3. One \in Nat
  BY <1>1, WeightFacts
<1>4. probs \in [Bins -> Nat] /\ indexes \in [Bins -> Bins]
  BY <1>1 DEF TableInv
<1>5. /\ \A j \in Bins \ OnStack : probs[j] <= One
      /\ \A j \in Settled : indexes[j] # j
  BY <1>1 DEF PairInv
<1>6. probs' = [j \in Bins |-> IF j \in OnStack THEN One ELSE probs[j]]
  BY DEF FixLeftovers, OnStack
<1>7. \A j \in Bins : /\ j \in Settled => probs'[j] = probs[j] /\ probs[j] < One
                      /\ j \notin Settled => probs'[j] = One
                      /\ j \notin Settled /\ j \notin OnStack => probs[j] = One
  BY <1>3, <1>4, <1>5, <1>6 DEF Settled
<1>8. \A j \in Bins : Excess[j] = (IF j \in Settled THEN 0 ELSE probs[j] - One) /\ Excess[j] \in Int
  BY <1>3, <1>4 DEF Excess
<1> DEFINE g == [j \in Bins |-> Given(j, b)]
           C(j) == {u \in 0 .. One - 1 : Drawn(j, u)' = b}
           h == [j \in Bins |-> Cardinality(C(j))]
<1>9. ASSUME NEW j \in Bins
      PROVE  Given(j, b) \in Int /\ Cardinality(C(j)) = IF j = b THEN Given(j, b) - Excess[b] ELSE Given(j, b)
  <2>1. probs[j] \in Nat /\ probs'[j] \in Nat /\ probs'[j] # NaN
    BY <1>3, <1>4, <1>7 DEF NaN
  <2>2. C(j) = {u \in 0 .. One - 1 : (IF u < probs'[j] THEN j ELSE indexes[j]) = b}
    BY <1>1, <2>1 DEF Drawn
  <2>3. Given(j, b) = IF j = b THEN probs[j] ELSE IF j \in Settled /\ indexes[j] = b THEN One - probs[j] ELSE 0
    BY DEF Given
  <2> HIDE DEF C
  <2>4. CASE j \in Settled
    <3>1. probs'[j] = probs[j] /\ probs[j] <= One /\ indexes[j] # j
      BY <1>3, <1>5, <1>7, <2>1, <2>4
    <3>2. C(j) = IF j = b THEN {u \in 0 .. One - 1 : u < probs[j]}
                 ELSE IF indexes[j] = b THEN {u \in 0 .. One - 1 : ~(u < probs[j])} ELSE {}
      BY <2>2, <3>1
    <3>3. Cardinality(C(j)) = IF j = b THEN probs[j] ELSE IF indexes[j] = b THEN One - probs[j] ELSE 0
      <4>1. /\ Cardinality({u \in 0 .. One - 1 : u < probs[j]}) = probs[j]
            /\ Cardinality({u \in 0 .. One - 1 : ~(u < probs[j])}) = One - probs[j]
        BY <1>3, <2>1, <3>1, CountBelow
      <4> QED
        BY <3>2, <4>1, FS_EmptySet
    <3>4. j = b => Excess[b] = 0
      BY <1>8, <2>4
    <3> QED
      BY <1>3, <2>1, <2>3, <2>4, <3>3, <3>4
  <2>5. CASE j \notin Settled
    <3>1. probs'[j] = One
      BY <1>7, <2>5
    <3>2. C(j) = IF j = b THEN {u \in 0 .. One - 1 : u < One} ELSE {}
      BY <1>3, <2>2, <3>1
    <3>3. Cardinality(C(j)) = IF j = b THEN One ELSE 0
      BY <1>3, <3>2, CountBelow, FS_EmptySet
    <3>4. j = b => Excess[b] = probs[j] - One
      BY <1>8, <2>5
    <3> QED
      BY <1>3, <2>1, <2>3, <2>5, <3>3, <3>4
  <2> QED
    BY <2>4, <2>5
<1>10. Has(b) = SumFunctionOnSet(g, Bins)
  BY DEF Has
<1>11. Mass(b)' = SumFunctionOnSet(h, Bins)
  BY <1>2 DEF Mass
<1>12. \A j \in Bins : g[j] = Given(j, b) /\ h[j] = Cardinality(C(j))
  OBVIOUS
<1> HIDE DEF g, h, C
<1>13. \A j \in Bins : g[j] \in Int /\ h[j] \in Int
  BY <1>8, <1>9, <1>12
<1>14. h[b] - g[b] = -Excess[b] /\ Excess[b] \in Int
  BY <1>8, <1>9, <1>12, <1>13
<1>15. SumFunctionOnSet(h, Bins) = SumFunctionOnSet(g, Bins) + (h[b] - g[b])
  <2>1. IsFiniteSet(Bins)
    BY BinsFinite
  <2>2. \A j \in Bins : j # b => h[j] = g[j]
    BY <1>9, <1>12
  <2> QED
    BY <1>13, <2>1, <2>2, SumUpdate
<1>16. SumFunctionOnSet(g, Bins) \in Int
  BY <1>13, BinsFinite, SumRemove
<1> QED
  BY <1>7, <1>10, <1>11, <1>14, <1>15, <1>16

(* Overwriting the sticks left over moves no bin further from its due than all
   the errors together: the bins left over are all below 1, or all above.    *)
LEMMA FixStep ==
  ASSUME WeightInv, StackInv, TableInv, PairInv, BalanceInv, FixLeftovers
  PROVE  MassPreserved' /\ DrawInv'
<1>1. step = "pair" /\ step' = "SUCCESS" /\ UNCHANGED <<ps, indexes>> /\ (shorts = <<>> \/ longs = <<>>)
  BY DEF FixLeftovers
<1>2. One' = One /\ (Finite' <=> Finite)
  BY <1>1, SameWeights
<1> SUFFICES ASSUME Finite PROVE MassPreserved' /\ DrawInv'
  BY <1>1, <1>2 DEF MassPreserved, DrawInv
<1>3. /\ One \in Nat /\ One > 2 * NumBins /\ Grains \in Nat /\ NumBins \in Nat /\ ps \in [Bins -> Nat]
      /\ 0 \in Bins /\ ps[0] > 0
  BY <1>1, WeightFacts, BinsFinite DEF WeightInv, Bins
<1>4. /\ probs \in [Bins -> Nat] /\ indexes \in [Bins -> Bins]
      /\ \A j \in Bins : ps[j] = 0 => probs[j] = 0
  BY <1>1 DEF TableInv
<1>5. /\ \A j \in Range(shorts) : probs[j] < One
      /\ \A j \in Range(longs) : probs[j] >= One /\ ps[j] > 0
      /\ \A j \in Bins \ OnStack : probs[j] <= One
      /\ \A j \in Bins \ Settled : indexes[j] = 0
      /\ \A j \in Settled : indexes[j] # j /\ ps[indexes[j]] > 0
  BY <1>1 DEF PairInv
<1>6. \A b \in Bins : Mass(b)' = Has(b) - Excess[b] /\ Has(b) \in Int
  BY FixedMass
<1>7. \A j \in Bins : /\ j \in Settled => probs'[j] = probs[j] /\ probs[j] < One
                      /\ j \notin Settled => probs'[j] = One
  BY <1>3, FixedMass
<1>8. \A j \in Bins : Excess[j] = (IF j \in Settled THEN 0 ELSE probs[j] - One) /\ Excess[j] \in Int
  BY <1>3, <1>4 DEF Excess
<1>9. \A b \in Bins : Error[b] = Has(b) - Due(b) /\ Due(b) \in Int /\ Error[b] \in Int
  BY <1>3, <1>6 DEF Error, Due
<1>10. \A b \in Bins : Absolute[b] = (IF Error[b] < 0 THEN -Error[b] ELSE Error[b]) /\ Absolute[b] \in Int
  BY <1>9 DEF Absolute
<1> DEFINE A == SumFunctionOnSet(Absolute, Bins)
           Z == SumFunctionOnSet(Error, Bins)
<1>11. A <= 2 * NumBins /\ Z = SumFunctionOnSet(Excess, Bins)
  <2>1. A <= NumBins + Cardinality(Settled) /\ Z = SumFunctionOnSet(Excess, Bins)
    BY <1>1 DEF BalanceInv
  <2>2. Cardinality(Settled) \in Nat /\ Cardinality(Settled) <= NumBins
    <3>1. Settled \in SUBSET Bins
      BY DEF Settled
    <3> QED
      BY <3>1, BinsFinite
  <2>3. A \in Int
    BY <1>10, BinsFinite, SumRemove
  <2> QED
    BY <1>3, <2>1, <2>2, <2>3
<1>12. ASSUME NEW b \in Bins
       PROVE  /\ A \in Int /\ Z \in Int
              /\ Error[b] <= A /\ -Error[b] <= A /\ Error[b] - Z <= A /\ Z - Error[b] <= A
  <2>1. Error \in [Bins -> Int] /\ Absolute \in [Bins -> Int]
    BY <1>9, <1>10 DEF Error, Absolute
  <2>2. \A x \in Bins : Absolute[x] = IF Error[x] < 0 THEN -Error[x] ELSE Error[x]
    BY <1>10
  <2>3. IsFiniteSet(Bins)
    BY BinsFinite
  <2> QED
    BY <2>1, <2>2, <2>3, SumAbsolute
<1> HIDE DEF A, Z
<1>13. \/ \A j \in Bins : Excess[j] <= 0
       \/ \A j \in Bins : Excess[j] >= 0
  <2>1. \A j \in Bins : j \notin OnStack /\ j \notin Settled => Excess[j] = 0
    BY <1>3, <1>4, <1>5, <1>8 DEF Settled
  <2>2. Range(<<>>) = {}
    BY DEF Range
  <2>3. CASE longs = <<>>
    <3>1. \A j \in OnStack : probs[j] < One
      BY <1>5, <2>2, <2>3 DEF OnStack
    <3> QED
      BY <1>3, <1>4, <1>8, <2>1, <3>1
  <2>4. CASE shorts = <<>>
    <3>1. \A j \in OnStack : probs[j] >= One
      BY <1>5, <2>2, <2>4 DEF OnStack
    <3> QED
      BY <1>3, <1>4, <1>8, <2>1, <3>1
  <2> QED
    BY <1>1, <2>3, <2>4
<1>14. ASSUME NEW b \in Bins
       PROVE  \/ Excess[b] <= 0 /\ Z <= Excess[b]
              \/ Excess[b] >= 0 /\ Z >= Excess[b]
  <2>1. CASE \A j \in Bins : Excess[j] <= 0
    <3> DEFINE m == [j \in Bins |-> -Excess[j]]
    <3>1. \A j \in Bins : m[j] \in Nat /\ m[j] = (-1) * Excess[j] /\ m[j] = -Excess[j]
      BY <1>8, <2>1
    <3> HIDE DEF m
    <3>2. m[b] <= SumFunctionOnSet(m, Bins)
      BY <3>1, BinsFinite, SumNonNegative
    <3>3. SumFunctionOnSet(m, Bins) = (-1) * Z
      <4>1. \A j \in Bins : Excess[j] \in Int /\ m[j] = (-1) * Excess[j]
        BY <1>8, <3>1
      <4> QED
        BY <1>11, <4>1, BinsFinite, SumScale
    <3> QED
      BY <1>8, <1>12, <2>1, <3>1, <3>2, <3>3
  <2>2. CASE \A j \in Bins : Excess[j] >= 0
    <3>1. \A j \in Bins : Excess[j] \in Nat
      BY <1>8, <2>2
    <3>2. Excess[b] <= Z
      BY <1>11, <3>1, BinsFinite, SumNonNegative
    <3> QED
      BY <2>2, <3>2
  <2> QED
    BY <1>13, <2>1, <2>2
<1>15. ASSUME NEW b \in Bins
       PROVE  Distance(Mass(b)', Grains * NumBins * ps[b]) <= 2 * NumBins
  <2>1. Mass(b)' - Due(b) = Error[b] - Excess[b] /\ Mass(b)' \in Int
    BY <1>6, <1>8, <1>9
  <2>2. Error[b] - Excess[b] <= A /\ Excess[b] - Error[b] <= A
    BY <1>8, <1>9, <1>12, <1>14
  <2>3. Due(b) = Grains * NumBins * ps[b] /\ Due(b) \in Int
    BY <1>9 DEF Due
  <2> QED
    BY <1>3, <1>8, <1>9, <1>11, <1>12, <2>1, <2>2, <2>3 DEF Distance
<1>16. ASSUME NEW b \in Bins, ps[b] = 0
       PROVE  b \in Settled /\ probs'[b] = 0 /\ Mass(b)' = 0
  <2>1. probs[b] = 0 /\ Due(b) = 0
    BY <1>3, <1>4, <1>16 DEF Due
  <2>2. Has(b) = 0
    <3> DEFINE g == [j \in Bins |-> Given(j, b)]
    <3>1. \A j \in Bins : g[j] = 0
      BY <1>5, <1>16, <2>1 DEF Given
    <3>2. Has(b) = SumFunctionOnSet(g, Bins)
      BY DEF Has
    <3> HIDE DEF g
    <3> QED
      BY <3>1, <3>2, BinsFinite, SumZero
  <2>3. Error[b] = 0
    BY <1>9, <2>1, <2>2
  <2>4. b \in Settled
    <3>1. SUFFICES ASSUME b \notin Settled PROVE FALSE
      OBVIOUS
    <3>2. Excess[b] = -One
      BY <1>3, <1>8, <2>1, <3>1
    <3>3. Z <= -One
      BY <1>3, <1>12, <1>14, <3>2
    <3> QED
      BY <1>3, <1>11, <1>12, <2>3, <3>3
  <2>5. Excess[b] = 0
    BY <1>8, <2>4
  <2> QED
    BY <1>6, <1>7, <2>1, <2>2, <2>4, <2>5
<1>17. MassPreserved'
  BY <1>1, <1>15, <1>16 DEF MassPreserved
<1>18. DrawInv'
  <2>1. ASSUME NEW j \in Bins, NEW u \in 0 .. One
        PROVE  Drawn(j, u)' \in Bins /\ ps[Drawn(j, u)'] > 0
    <3>1. probs'[j] \in Nat /\ probs'[j] # NaN
      BY <1>3, <1>4, <1>7 DEF NaN
    <3>2. Drawn(j, u)' = IF u < probs'[j] THEN j ELSE indexes[j]
      BY <1>1, <3>1 DEF Drawn
    <3>3. u < probs'[j] => ps[j] > 0
      BY <1>3, <1>16
    <3>4. indexes[j] \in Bins /\ ps[indexes[j]] > 0
      BY <1>3, <1>4, <1>5
    <3> QED
      BY <3>2, <3>3, <3>4
  <2> QED
    BY <1>1, <1>2, <2>1 DEF DrawInv
<1> QED
  BY <1>17, <1>18

DataInv == TableInv /\ PairInv /\ ProductInv /\ BalanceInv /\ MassPreserved /\ DrawInv

(* Elsewhere than in the sampler's initialisation the table does not change.  *)
LEMMA DataSame ==
  ASSUME DataInv, UNCHANGED <<ps, step, table, sticks>>
  PROVE  DataInv'
<1>1. UNCHANGED <<ps, step, probs, indexes, shorts, longs>>
  BY DEF table, sticks
<1>2. One' = One /\ (Finite' <=> Finite)
  BY <1>1, SameWeights
<1>3. OnStack' = OnStack /\ Settled' = Settled
  BY <1>1, <1>2 DEF OnStack, Settled, Range
<1>4. TableInv'
  BY <1>1, <1>2 DEF DataInv, TableInv
<1>5. PairInv'
  BY <1>1, <1>2, <1>3 DEF DataInv, PairInv, Range
<1>6. ProductInv'
  BY <1>1, <1>2 DEF DataInv, ProductInv, Due
<1>7. Error' = Error /\ Excess' = Excess
  BY <1>1, <1>2, <1>3 DEF Error, Excess, Has, Given, Due
<1>8. Absolute' = Absolute
  BY <1>7 DEF Absolute
<1>9. BalanceInv'
  BY <1>1, <1>2, <1>3, <1>7, <1>8 DEF DataInv, BalanceInv
<1>10. MassPreserved'
  BY <1>1, <1>2 DEF DataInv, MassPreserved, Mass, Drawn
<1>11. DrawInv'
  BY <1>1, <1>2 DEF DataInv, DrawInv, Drawn
<1> QED
  BY <1>4, <1>5, <1>6, <1>9, <1>10, <1>11 DEF DataInv

(* Before there is a table nothing is said of it.                            *)
LEMMA DataEarly ==
  ASSUME step' \notin {"longs", "shorts", "fill", "pair", "SUCCESS"}
  PROVE  DataInv'
BY DEF DataInv, TableInv, PairInv, ProductInv, BalanceInv, MassPreserved, DrawInv

(* Every step of the initialisation of the sampler keeps the table in order. *)
LEMMA DataSampler ==
  ASSUME WeightInv, StackInv, SticksFit, DataInv, InitSteps
  PROVE  DataInv'
<1>1. CASE AllocateIndexes \/ AllocateProbs
  <2>1. step' \in {"probs", "normalize", "ENOMEM"}
    BY <1>1 DEF AllocateIndexes, AllocateProbs, AllocateBlock
  <2> QED
    BY <2>1, DataEarly
<1>2. CASE Normalize
  <2>1. step = "normalize" /\ step' = "longs" /\ UNCHANGED <<ps, indexes>>
    BY <1>2 DEF Normalize
  <2>2. indexes \in [Bins -> Bins]
    BY <2>1, BinsFinite DEF StackInv, Bins
  <2>3. Finite' <=> Finite
    BY <2>1, SameWeights
  <2>4. Finite => /\ probs' \in [Bins -> Nat]
                  /\ \A b \in Bins : (ps[b] = 0 => probs'[b] = 0) /\ Distance(probs'[b], Due(b)) <= 1
    BY <1>2, <2>1, NormalizeValues
  <2>5. TableInv'
    BY <2>1, <2>2, <2>3, <2>4 DEF TableInv
  <2>6. ProductInv'
    BY <2>1, <2>3, <2>4 DEF ProductInv, Due
  <2> QED
    BY <2>1, <2>5, <2>6 DEF DataInv, PairInv, BalanceInv, MassPreserved, DrawInv
<1>3. CASE AllocateLongs \/ AllocateShorts
  <2>1. /\ step \in {"longs", "shorts"} /\ step' \in {"shorts", "fill", "ENOMEM"}
        /\ UNCHANGED <<ps, probs, indexes>>
    BY <1>3 DEF AllocateLongs, AllocateShorts, AllocateBlock, table
  <2>2. Finite' <=> Finite
    BY <2>1, SameWeights
  <2>3. TableInv'
    BY <2>1, <2>2 DEF DataInv, TableInv
  <2>4. ProductInv'
    BY <2>1, <2>2 DEF DataInv, ProductInv, Due
  <2> QED
    BY <2>1, <2>3, <2>4 DEF DataInv, PairInv, BalanceInv, MassPreserved, DrawInv
<1>4. CASE Fill
  <2>1. step' = "pair"
    BY <1>4 DEF Fill
  <2>2. TableInv' /\ PairInv' /\ BalanceInv'
    BY <1>4, FillStep DEF DataInv
  <2> QED
    BY <2>1, <2>2 DEF DataInv, ProductInv, MassPreserved, DrawInv
<1>5. CASE Pair
  <2>1. step' = "pair"
    BY <1>5 DEF Pair
  <2>2. TableInv' /\ PairInv' /\ BalanceInv'
    BY <1>5, PairStep DEF DataInv
  <2> QED
    BY <2>1, <2>2 DEF DataInv, ProductInv, MassPreserved, DrawInv
<1>6. CASE FixLeftovers
  <2>1. step' = "SUCCESS"
    BY <1>6 DEF FixLeftovers
  <2>2. MassPreserved' /\ DrawInv'
    BY <1>6, FixStep DEF DataInv
  <2> QED
    BY <2>1, <2>2 DEF DataInv, ProductInv, TableInv, PairInv, BalanceInv
<1> QED
  BY <1>1, <1>2, <1>3, <1>4, <1>5, <1>6 DEF InitSteps

(* What a step of plgen does to the sampler.                                 *)
LEMMA SamplerSteps ==
  ASSUME [GenNext]_genVars
  PROVE  \/ UNCHANGED <<ps, step, table, sticks>>
         \/ ComputeWeights
         \/ InitializeSampler /\ InitSteps
<1> USE DEF sampler
<1>1. CASE UNCHANGED genVars
  BY <1>1 DEF genVars
<1>2. CASE Refuse \/ Parsed \/ RejectCutoff \/ Done
  BY <1>2 DEF Refuse, Parsed, RejectCutoff, Done
<1>3. CASE SamplePareto \/ SampleZeta
  BY <1>3 DEF SamplePareto, SampleZeta, PrintOne
<1>4. CASE AllocateArray \/ SamplerFails \/ SamplerReady \/ SampleBlock \/ DestroySampler
  BY <1>4 DEF AllocateArray, SamplerFails, SamplerReady, SampleBlock, DestroySampler
<1>5. CASE InitializeSampler
  BY <1>5 DEF InitializeSampler
<1> QED
  BY <1>1, <1>2, <1>3, <1>4, <1>5 DEF GenNext, GenExited

(* The stacks and the table through every step of plgen.                     *)
LEMMA SamplerStep ==
  ASSUME ControlInv, WeightInv, StackInv, SticksFit, DataInv, [GenNext]_genVars
  PROVE  StackInv' /\ SticksFit' /\ DataInv'
<1>1. CASE UNCHANGED <<ps, step, table, sticks>>
  <2>1. UNCHANGED <<ps, step, probs, indexes, shorts, longs, shortRoom, longRoom>>
    BY <1>1 DEF table, sticks
  <2>2. One' = One
    BY <2>1, SameWeights
  <2>3. /\ {b \in Bins : IsShort(probs[b])}' = {b \in Bins : IsShort(probs[b])}
        /\ {b \in Bins : IsLong(probs[b])}' = {b \in Bins : IsLong(probs[b])}
    BY <2>1, <2>2 DEF IsShort, IsLong
  <2>4. /\ (Distinct(shorts) <=> Distinct(shorts)') /\ (Distinct(longs) <=> Distinct(longs)')
        /\ Range(shorts)' = Range(shorts) /\ Range(longs)' = Range(longs)
    BY <2>1 DEF Distinct, Range
  <2>5. StackInv'
    BY <2>1, <2>3, <2>4 DEF StackInv
  <2>6. SticksFit'
    BY <2>1 DEF SticksFit
  <2> QED
    BY <1>1, <2>5, <2>6, DataSame
<1>2. CASE ComputeWeights
  <2>1. step' = "indexes" /\ UNCHANGED <<indexes, probs, shorts, longs, shortRoom, longRoom>>
    BY <1>2 DEF ComputeWeights, table, sticks
  <2>2. step = "idle"
    BY <1>2 DEF ComputeWeights, ControlInv, StageInv, Early
  <2>3. StackInv' /\ SticksFit'
    BY <2>1, <2>2 DEF StackInv, SticksFit, Distinct, Range
  <2> QED
    BY <2>1, <2>3, DataEarly
<1>3. CASE InitSteps
  BY <1>3, StackSampler, DataSampler
<1> QED
  BY <1>1, <1>2, <1>3, SamplerSteps

(* The bin printed last was drawn from the finished table.                   *)
LEMMA BinStep ==
  ASSUME ControlInv, DrawInv, BinInv, [GenNext]_genVars
  PROVE  BinInv'
<1> DEFINE Late == {"blocks", "done", "exited"}
<1>1. CASE UNCHANGED <<bin, ps>> /\ (run \in Late => run' \in Late)
  <2>1. Finite' <=> Finite
    BY <1>1, SameWeights
  <2> QED
    BY <1>1, <2>1 DEF BinInv, OnlyWeightedDrawn
<1>2. CASE SampleBlock
  <2>1. /\ run = "blocks" /\ run' = run /\ UNCHANGED ps
        /\ bin' \in {Drawn(j, u) : j \in Bins, u \in 0 .. One}
    BY <1>2 DEF SampleBlock, sampler
  <2>2. step = "SUCCESS"
    BY <2>1 DEF ControlInv, StageInv
  <2>3. Finite => ps[bin'] > 0
    BY <2>1, <2>2 DEF DrawInv
  <2>4. Finite' <=> Finite
    BY <2>1, SameWeights
  <2> QED
    BY <2>1, <2>3, <2>4 DEF BinInv, OnlyWeightedDrawn
<1>3. CASE ComputeWeights
  <2>1. run = "weights" /\ run' = "sampler" /\ bin' = bin
    BY <1>3 DEF ComputeWeights
  <2>2. bin = NoBin
    BY <2>1 DEF BinInv
  <2> QED
    BY <2>1, <2>2 DEF BinInv, OnlyWeightedDrawn
<1>4. CASE InitializeSampler
  <2>1. UNCHANGED ps
    BY <1>4 DEF InitializeSampler, InitSteps, AllocateIndexes, AllocateProbs, Normalize,
                AllocateLongs, AllocateShorts, Fill, Pair, FixLeftovers
  <2> QED
    BY <1>1, <1>4, <2>1 DEF InitializeSampler
<1> USE DEF sampler, GenExit
<1>5. CASE UNCHANGED genVars
  BY <1>1, <1>5 DEF genVars
<1>6. CASE Refuse \/ Parsed \/ RejectCutoff \/ Done
  BY <1>1, <1>6 DEF Refuse, Parsed, RejectCutoff, Done
<1>7. CASE SamplePareto \/ SampleZeta
  BY <1>1, <1>7 DEF SamplePareto, SampleZeta, PrintOne
<1>8. CASE AllocateArray \/ SamplerFails \/ SamplerReady \/ DestroySampler
  BY <1>1, <1>8 DEF AllocateArray, SamplerFails, SamplerReady, DestroySampler
<1> QED
  BY <1>2, <1>3, <1>4, <1>5, <1>6, <1>7, <1>8 DEF GenNext, GenExited

----------------------------------------------------------------------------
(* The invariant of plgen and of the alias sampler it uses holds throughout. *)
THEOREM GenInvariance == GenSpec => []GenInv
<1>1. GenInit => GenInv
  <2> SUFFICES ASSUME GenInit PROVE GenInv
    OBVIOUS
  <2>1. step = "idle" /\ bin = NoBin
    BY DEF GenInit, InitSampler
  <2>2. WeightInv /\ BinInv
    BY <2>1 DEF WeightInv, BinInv, OnlyWeightedDrawn
  <2>3. TableInv /\ PairInv /\ ProductInv /\ BalanceInv /\ MassPreserved /\ DrawInv
    BY <2>1 DEF TableInv, PairInv, ProductInv, BalanceInv, MassPreserved, DrawInv
  <2> QED
    BY <2>2, <2>3, ControlInit, StackInit DEF GenInv, ControlInv
<1>2. GenInv /\ [GenNext]_genVars => GenInv'
  <2> SUFFICES ASSUME GenInv, [GenNext]_genVars PROVE GenInv'
    OBVIOUS
  <2>1. ControlInv /\ DataInv /\ WeightInv /\ StackInv /\ SticksFit /\ BinInv /\ DrawInv
    BY DEF GenInv, ControlInv, DataInv
  <2>2. ControlInv'
    BY <2>1, ControlStep
  <2>3. WeightInv'
    BY <2>1, WeightStep
  <2>4. StackInv' /\ SticksFit' /\ DataInv'
    BY <2>1, SamplerStep
  <2>5. BinInv'
    BY <2>1, BinStep
  <2> QED
    BY <2>2, <2>3, <2>4, <2>5 DEF GenInv, ControlInv, DataInv
<1> QED
  BY <1>1, <1>2, PTL DEF GenSpec

(* plfit_walker_alias_sampler_init never writes behind short_sticks or
   long_sticks, which it allocates for the bins counted in the first pass.   *)
THEOREM GenSticksFit == GenSpec => []SticksFit
<1>1. GenInv => SticksFit
  BY DEF GenInv
<1> QED
  BY <1>1, GenInvariance, PTL

(* The table of plfit_walker_alias_sampler_init gives every bin its share of the
   draws, up to 2n rounding errors, and none to a bin of weight 0: also where
   sticks are left over and their probability is overwritten.                *)
THEOREM GenMassPreserved == GenSpec => []MassPreserved
<1>1. GenInv => MassPreserved
  BY DEF GenInv
<1> QED
  BY <1>1, GenInvariance, PTL

(* sample_discrete prints a number only for a bin with a positive weight, even
   for u = 1.0 and a column whose alias was never assigned.                  *)
THEOREM GenOnlyWeighted == GenSpec => []OnlyWeightedDrawn
<1>1. GenInv => OnlyWeightedDrawn
  BY DEF GenInv, BinInv
<1> QED
  BY <1>1, GenInvariance, PTL

(* plgen frees every block exactly once however it ends, and reports success
   only when it has printed as many numbers as it was asked for.             *)
THEOREM GenEndsClean == GenSpec => []EndsClean
<1>1. GenInv => EndsClean
  <2> SUFFICES ASSUME GenInv PROVE EndsClean
    OBVIOUS
  <2>1. "corrupt" \notin Range(blocks)
    BY DEF GenInv, GenTypeOK, Range
  <2>2. run = "exited" => "held" \notin Range(blocks)
    BY DEF GenInv, GenTypeOK, HeldInv, Range
  <2>3. (run = "exited" /\ ret = 0 /\ genLine = "complete") => printed = requested
    BY DEF GenInv, CountInv
  <2> QED
    BY <2>1, <2>2, <2>3 DEF EndsClean
<1> QED
  BY <1>1, GenInvariance, PTL
=============================================================================
