---------------------------- MODULE WitnessFile -----------------------------
(***************************************************************************)
(* The binary witness file: what logWitnessPrefix appends for every race,  *)
(* and what readBinaryWitness makes of it.  The file is a sequence of      *)
(* 32-bit words.  The writer puts the length in a size_t, two words on the *)
(* 64-bit little-endian machines of the build, the upper one 0 for every   *)
(* witness that fits in memory; the reader takes it from one word.         *)
(***************************************************************************)
EXTENDS Naturals, Sequences

VARIABLES
    binary_log_file,   \* the words of the file
    pos,               \* how many of them the reader has consumed
    witnesses          \* what the reader has returned so far

readVars == <<pos, witnesses>>

-----------------------------------------------------------------------------
LowWord(n) == n
HighWord(n) == 0

\* The end of logWitnessPrefix: write of a size_t, then of the elements.
WriteWitness(w) ==
    binary_log_file' = binary_log_file \o <<LowWord(Len(w)), HighWord(Len(w))>> \o w

AtEOF == pos = Len(binary_log_file)

\* The words of the file from the n-th, as many as there are up to size;
\* a vector starts filled with zeros.
Words(n, size) ==
    [m \in 1 .. size |-> IF n + m <= Len(binary_log_file) THEN binary_log_file[n + m] ELSE 0]

\* Mutant: the word of the length is counted as one of the elements.
AfterReadInclusive(size) ==
    IF pos + size < Len(binary_log_file) THEN pos + size ELSE Len(binary_log_file)
AfterRead(size) ==
    IF pos + 1 + size < Len(binary_log_file) THEN pos + 1 + size ELSE Len(binary_log_file)

OpenFile == pos' = 0 /\ witnesses' = <<>>

\* One iteration: uint32_t size, then size elements; a short read sets the
\* end of the file.
ReadWitness ==
    /\ ~AtEOF
    /\ LET size == binary_log_file[pos + 1]
       IN /\ witnesses' = Append(witnesses, Words(pos + 1, size))
          /\ pos' = AfterRead(size)

-----------------------------------------------------------------------------
WithLength(w) == <<Len(w)>> \o w
flat[n \in 0 .. Len(witnesses)] ==
    IF n = 0 THEN <<>> ELSE flat[n - 1] \o WithLength(witnesses[n])
Flat == flat[Len(witnesses)]

LastTwo(w) == IF Len(w) < 2 THEN <<>> ELSE SubSeq(w, Len(w) - 1, Len(w))
=============================================================================
