--------------------------- MODULE PredictionProofs -------------------------
(***************************************************************************)
(* What holds of the two programs for every command line, every text file  *)
(* and every log, and of the fields of an event for all widths: they come  *)
(* out as they went in when they fit, and one that does not fit changes    *)
(* only fields above it.                                                   *)
(***************************************************************************)
EXTENDS Prediction, FiniteSetTheorems, SequenceTheorems, TLAPS

-----------------------------------------------------------------------------
(* The layout of an event.                                                 *)

LEMMA Positions ==
    /\ TargetAt \in Nat /\ ThreadAt \in Nat /\ TypeAt \in Nat /\ WordBits \in Nat
    /\ TargetAt = ValueBits /\ ThreadAt = TargetAt + TargetBits
    /\ TypeAt = ThreadAt + ThreadBits /\ WordBits = TypeAt + TypeBits
    BY WidthsAssumption DEF TargetAt, ThreadAt, TypeAt, WordBits

\* The bits of a word, by the field they come from.
LEMMA BitOfWord ==
    ASSUME NEW type \in SUBSET Nat, NEW tid \in SUBSET Nat,
           NEW target \in SUBSET Nat, NEW val \in SUBSET Nat,
           NEW b \in Nat, b < WordBits
    PROVE  b \in createRawEvent(type, tid, target, val) <=>
               \/ b >= TypeAt /\ b - TypeAt \in type
               \/ b >= ThreadAt /\ b - ThreadAt \in tid
               \/ b >= TargetAt /\ b - TargetAt \in target
               \/ b \in val
<1>1. ASSUME NEW n \in SUBSET Nat, NEW k \in Nat
      PROVE  b \in ShiftLeft(n, k) <=> b >= k /\ b - k \in n
    <2>1. b \in Below(WordBits)
        BY Positions DEF Below
    <2>2. b \in ShiftLeft(n, k) <=> \E c \in n : b = c + k
        BY <2>1 DEF ShiftLeft, Mask
    <2>3. ASSUME b >= k, b - k \in n PROVE \E c \in n : b = c + k
        BY <2>3
    <2>4. ASSUME NEW c \in n, b = c + k PROVE b >= k /\ b - k \in n
        <3>1. c \in Nat /\ b - k = c
            BY <2>4
        <3> QED
            BY <2>4, <3>1
    <2> QED
        BY <2>2, <2>3, <2>4
<1>2. b >= 0 /\ b - 0 = b
    OBVIOUS
<1> QED
    BY <1>1, <1>2, Positions DEF createRawEvent

\* A field of a word, bit by bit.
LEMMA BitOfField ==
    ASSUME NEW w \in SUBSET Nat, NEW at \in Nat, NEW k \in Nat, NEW b
    PROVE  b \in Mask(ShiftRight(w, at), k) <=> b \in Nat /\ b < k /\ b + at \in w
<1>1. ASSUME b \in Mask(ShiftRight(w, at), k)
      PROVE  b \in Nat /\ b < k /\ b + at \in w
    <2>1. b \in Nat /\ b < k
        BY <1>1 DEF Mask, Below
    <2>2. PICK c \in w : c >= at /\ b = c - at
        BY <1>1 DEF Mask, ShiftRight
    <2>3. c \in Nat /\ b + at = c
        BY <2>2
    <2> QED
        BY <2>1, <2>2, <2>3
<1>2. ASSUME b \in Nat, b < k, b + at \in w
      PROVE  b \in Mask(ShiftRight(w, at), k)
    <2>1. b + at >= at /\ b = (b + at) - at
        BY <1>2
    <2>2. b \in ShiftRight(w, at)
        BY <1>2, <2>1 DEF ShiftRight
    <2> QED
        BY <1>2, <2>2 DEF Mask, Below
<1> QED
    BY <1>1, <1>2

LEMMA WordIsBits ==
    ASSUME NEW type \in SUBSET Nat, NEW tid \in SUBSET Nat,
           NEW target \in SUBSET Nat, NEW val \in SUBSET Nat
    PROVE  createRawEvent(type, tid, target, val) \in SUBSET Nat
    BY Positions DEF createRawEvent, ShiftLeft, Mask, Below

LEMMA FitsMeans ==
    ASSUME NEW n, NEW k \in Nat, Fits(n, k)
    PROVE  n \in SUBSET Nat /\ \A b \in n : b < k
    BY DEF Fits, Below

-----------------------------------------------------------------------------
(***************************************************************************)
(* Fields that fit come out as they went in, whatever the widths           *)
(* (event.hpp:43-51, 107-113).                                             *)
(***************************************************************************)
THEOREM FieldsRoundTrip ==
    ASSUME NEW type, NEW tid, NEW target, NEW val,
           Fits(type, TypeBits), Fits(tid, ThreadBits),
           Fits(target, TargetBits), Fits(val, ValueBits)
    PROVE  LET w == createRawEvent(type, tid, target, val)
           IN /\ getEventType(w) = type
              /\ getThreadId(w) = tid
              /\ getTargetId(w) = target
              /\ getTargetValue(w) = val
<1> DEFINE w == createRawEvent(type, tid, target, val)
<1>1. /\ type \in SUBSET Nat /\ \A b \in type : b < TypeBits
      /\ tid \in SUBSET Nat /\ \A b \in tid : b < ThreadBits
      /\ target \in SUBSET Nat /\ \A b \in target : b < TargetBits
      /\ val \in SUBSET Nat /\ \A b \in val : b < ValueBits
    BY FitsMeans, WidthsAssumption
<1>2. w \in SUBSET Nat
    BY <1>1, WordIsBits
<1>3. ASSUME NEW b \in Nat, b < WordBits
      PROVE  b \in w <=> \/ b >= TypeAt /\ b - TypeAt \in type
                         \/ b >= ThreadAt /\ b - ThreadAt \in tid
                         \/ b >= TargetAt /\ b - TargetAt \in target
                         \/ b \in val
    BY <1>1, <1>3, BitOfWord
<1> HIDE DEF w
<1>4. getEventType(w) = type
    <2>1. ASSUME NEW b PROVE b \in getEventType(w) <=> b \in Nat /\ b < TypeBits /\ b + TypeAt \in w
        BY <1>2, BitOfField, Positions, WidthsAssumption DEF getEventType
    <2>2. ASSUME NEW b \in Nat, b < TypeBits PROVE b + TypeAt \in w <=> b \in type
        <3>1. /\ b + TypeAt \in Nat /\ b + TypeAt < WordBits
              /\ b + TypeAt >= TypeAt /\ b + TypeAt - TypeAt = b
              /\ b + TypeAt - ThreadAt >= ThreadBits
              /\ b + TypeAt - TargetAt >= TargetBits
              /\ b + TypeAt >= ValueBits
            BY <2>2, Positions, WidthsAssumption
        <3> QED
            BY <1>1, <1>3, <3>1, Positions, WidthsAssumption
    <2> QED
        BY <1>1, <2>1, <2>2
<1>5. getThreadId(w) = tid
    <2>1. ASSUME NEW b PROVE b \in getThreadId(w) <=> b \in Nat /\ b < ThreadBits /\ b + ThreadAt \in w
        BY <1>2, BitOfField, Positions, WidthsAssumption DEF getThreadId
    <2>2. ASSUME NEW b \in Nat, b < ThreadBits PROVE b + ThreadAt \in w <=> b \in tid
        <3>1. /\ b + ThreadAt \in Nat /\ b + ThreadAt < WordBits /\ b + ThreadAt < TypeAt
              /\ b + ThreadAt >= ThreadAt /\ b + ThreadAt - ThreadAt = b
              /\ b + ThreadAt - TargetAt >= TargetBits
              /\ b + ThreadAt >= ValueBits
            BY <2>2, Positions, WidthsAssumption
        <3> QED
            BY <1>1, <1>3, <3>1, Positions, WidthsAssumption
    <2> QED
        BY <1>1, <2>1, <2>2
<1>6. getTargetId(w) = target
    <2>1. ASSUME NEW b PROVE b \in getTargetId(w) <=> b \in Nat /\ b < TargetBits /\ b + TargetAt \in w
        BY <1>2, BitOfField, Positions, WidthsAssumption DEF getTargetId
    <2>2. ASSUME NEW b \in Nat, b < TargetBits PROVE b + TargetAt \in w <=> b \in target
        <3>1. /\ b + TargetAt \in Nat /\ b + TargetAt < WordBits /\ b + TargetAt < ThreadAt
              /\ b + TargetAt < TypeAt
              /\ b + TargetAt >= TargetAt /\ b + TargetAt - TargetAt = b
              /\ b + TargetAt >= ValueBits
            BY <2>2, Positions, WidthsAssumption
        <3> QED
            BY <1>1, <1>3, <3>1, Positions, WidthsAssumption
    <2> QED
        BY <1>1, <2>1, <2>2
<1>7. getTargetValue(w) = val
    <2>1. ASSUME NEW b \in Nat, b < ValueBits PROVE b \in w <=> b \in val
        <3>1. b < WordBits /\ b < TargetAt /\ b < ThreadAt /\ b < TypeAt
            BY <2>1, Positions, WidthsAssumption
        <3> QED
            BY <1>3, <3>1, Positions
    <2>2. \A b : b \in Below(ValueBits) <=> b \in Nat /\ b < ValueBits
        BY WidthsAssumption DEF Below
    <2> QED
        BY <1>1, <2>1, <2>2 DEF getTargetValue, Mask
<1> QED
    BY <1>4, <1>5, <1>6, <1>7 DEF w

(***************************************************************************)
(* A field that does not fit never reaches a field below it: with a thread *)
(* that is too wide, target and value are right, with a target that is too *)
(* wide, the value is (event.hpp:107-113).                                 *)
(***************************************************************************)
THEOREM OverflowGoesUp ==
    ASSUME NEW type \in SUBSET Nat, NEW tid \in SUBSET Nat,
           NEW target \in SUBSET Nat, NEW val, Fits(val, ValueBits)
    PROVE  LET w == createRawEvent(type, tid, target, val)
           IN /\ getTargetValue(w) = val
              /\ Fits(target, TargetBits) => getTargetId(w) = target
<1> DEFINE w == createRawEvent(type, tid, target, val)
<1>1. val \in SUBSET Nat /\ \A b \in val : b < ValueBits
    BY FitsMeans, WidthsAssumption
<1>2. w \in SUBSET Nat
    BY <1>1, WordIsBits
<1>3. ASSUME NEW b \in Nat, b < WordBits
      PROVE  b \in w <=> \/ b >= TypeAt /\ b - TypeAt \in type
                         \/ b >= ThreadAt /\ b - ThreadAt \in tid
                         \/ b >= TargetAt /\ b - TargetAt \in target
                         \/ b \in val
    BY <1>1, <1>3, BitOfWord
<1> HIDE DEF w
<1>4. getTargetValue(w) = val
    <2>1. ASSUME NEW b \in Nat, b < ValueBits PROVE b \in w <=> b \in val
        <3>1. b < WordBits /\ b < TargetAt /\ b < ThreadAt /\ b < TypeAt
            BY <2>1, Positions, WidthsAssumption
        <3> QED
            BY <1>3, <3>1, Positions
    <2>2. \A b : b \in Below(ValueBits) <=> b \in Nat /\ b < ValueBits
        BY WidthsAssumption DEF Below
    <2> QED
        BY <1>1, <2>1, <2>2 DEF getTargetValue, Mask
<1>5. ASSUME Fits(target, TargetBits) PROVE getTargetId(w) = target
    <2>1. ASSUME NEW b PROVE b \in getTargetId(w) <=> b \in Nat /\ b < TargetBits /\ b + TargetAt \in w
        BY <1>2, BitOfField, Positions, WidthsAssumption DEF getTargetId
    <2>2. ASSUME NEW b \in Nat, b < TargetBits PROVE b + TargetAt \in w <=> b \in target
        <3>1. /\ b + TargetAt \in Nat /\ b + TargetAt < WordBits /\ b + TargetAt < ThreadAt
              /\ b + TargetAt < TypeAt
              /\ b + TargetAt >= TargetAt /\ b + TargetAt - TargetAt = b
              /\ b + TargetAt >= ValueBits
            BY <2>2, Positions, WidthsAssumption
        <3> QED
            BY <1>1, <1>3, <3>1, Positions, WidthsAssumption
    <2>3. \A b \in target : b \in Nat /\ b < TargetBits
        BY <1>5, FitsMeans, WidthsAssumption
    <2> QED
        BY <2>1, <2>2, <2>3
<1> QED
    BY <1>4, <1>5 DEF w

-----------------------------------------------------------------------------
(* The two programs: what options, loop and logs have to do with each      *)
(* other.                                                                  *)

Answers == {"sat", "unsat", "unknown"}
LogEntries == [cop : Nat, witness : Seq(Nat)]

LoopTyped ==
    /\ options.maxNoOfCOP \in Nat /\ options.maxNoOfRace \in Nat
    /\ cops \in 0 .. MaxCOPs
    /\ answers \in Seq(Answers)
    /\ log_file \in Seq(LogEntries)
    /\ binary_log_file \in Seq(Nat)

\* From the trace on, the command line was accepted, and what solve runs with
\* is what it says.
ArgsKnown ==
    /\ pc \notin {"idle", "main"} => Valid(args)
    /\ pc \in {"solve", "solved"} => options = Arguments(args)

\* The index, the iterator and the answers never part.
InStep ==
    pc = "solve" =>
        /\ itr = Len(answers) /\ i = Len(answers) /\ itr <= cops
        /\ options.maxNoOfCOP # 0 => i <= options.maxNoOfCOP
        /\ options.maxNoOfRace # 0 => race_count < options.maxNoOfRace

AtLimit ==
    pc = "solved" =>
        /\ options.maxNoOfCOP # 0 => Len(answers) <= options.maxNoOfCOP
        /\ options.maxNoOfRace # 0 => race_count <= options.maxNoOfRace
        /\ \/ Len(answers) = cops
           \/ options.maxNoOfCOP # 0 /\ Len(answers) = options.maxNoOfCOP
           \/ /\ options.maxNoOfRace # 0 /\ race_count = options.maxNoOfRace
              /\ answers[Len(answers)] = "sat"

RacesCounted == race_count = Cardinality(Races)

\* A race that is to be logged is in the binary log, whatever fails later.
RacesLogged ==
    options.logWitness /\ options.logBinaryWitness /\ race_count > 0 =>
        binary_log_file # <<>>

LoopsInv == LoopTyped /\ ArgsKnown /\ InStep /\ AtLimit /\ RacesCounted /\ LogsAreRaces /\ RacesLogged

LEMMA LimitIsNat ==
    ASSUME NEW a, Valid(a)
    PROVE  Limit(a, "-c") \in Nat /\ Limit(a, "-r") \in Nat
<1>1. ASSUME NEW tok \in DOMAIN Number PROVE Number[tok] % Word \in Nat
    BY PredictionAssumption
<1> QED
    BY <1>1 DEF Valid, IsNumber, Limit

LEMMA NoRacesYet ==
    ASSUME answers = <<>>
    PROVE  Races = {} /\ Cardinality(Races) = 0
<1>1. Races = {}
    BY DEF Races
<1> QED
    BY <1>1, FS_EmptySet

LEMMA RacesFinite ==
    ASSUME answers \in Seq(Answers)
    PROVE  /\ Races \subseteq 1 .. Len(answers)
           /\ IsFiniteSet(Races) /\ Cardinality(Races) \in Nat
<1>1. Len(answers) \in Nat /\ Races \subseteq 1 .. Len(answers)
    BY DEF Races
<1>2. IsFiniteSet(1 .. Len(answers))
    BY <1>1, FS_Interval
<1>3. IsFiniteSet(Races)
    BY <1>1, <1>2, FS_Subset
<1> QED
    BY <1>1, <1>3, FS_CardinalityType

\* One more answer makes at most one more race, the greatest one.
LEMMA OneMoreAnswer ==
    ASSUME NEW a \in Answers, answers \in Seq(Answers), answers' = Append(answers, a)
    PROVE  /\ answers' \in Seq(Answers) /\ Len(answers') = Len(answers) + 1
           /\ answers'[Len(answers')] = a
           /\ a = "sat" => Races' = Races \cup {Len(answers)+1}
           /\ a # "sat" => Races' = Races
           /\ Races \subseteq 1 .. Len(answers)
           /\ Cardinality(Races)' = IF a = "sat" THEN Cardinality(Races) + 1 ELSE Cardinality(Races)
           /\ Cardinality(Races) \in Nat
<1>1. /\ Len(answers) \in Nat /\ answers' \in Seq(Answers) /\ Len(answers') = Len(answers) + 1
      /\ answers'[Len(answers) + 1] = a
      /\ \A n \in 1 .. Len(answers) : answers'[n] = answers[n]
      /\ DOMAIN answers = 1 .. Len(answers) /\ DOMAIN answers' = 1 .. Len(answers) + 1
    OBVIOUS
<1>2. Races \subseteq 1 .. Len(answers)
    BY <1>1 DEF Races
<1>3. a = "sat" => Races' = Races \cup {Len(answers) + 1}
    BY <1>1 DEF Races
<1>4. a # "sat" => Races' = Races
    BY <1>1 DEF Races
<1>5. IsFiniteSet(Races) /\ Len(answers) + 1 \notin Races
    BY <1>1, <1>2, RacesFinite
<1>6. Cardinality(Races) \in Nat
    BY RacesFinite
<1>7. Cardinality(Races \cup {Len(answers) + 1}) = Cardinality(Races) + 1
    BY <1>5, FS_AddElement
<1>8. Cardinality(Races)' = Cardinality(Races')
    OBVIOUS
<1> QED
    BY <1>1, <1>2, <1>3, <1>4, <1>6, <1>7, <1>8

LEMMA InitLoops == PredictionInit => LoopsInv
<1> SUFFICES ASSUME PredictionInit PROVE LoopsInv
    OBVIOUS
<1>1. Find(<<>>, "-c") = 1 /\ Find(<<>>, "-r") = 1
    BY DEF Find
<1>2. options.maxNoOfCOP = 0 /\ options.maxNoOfRace = 0
    BY <1>1 DEF PredictionInit, NoOptions, Arguments, Limit, HasValue
<1>3. LoopTyped
    BY <1>2, PredictionAssumption DEF PredictionInit, LoopTyped
<1>4. RacesCounted /\ RacesLogged
    BY NoRacesYet DEF PredictionInit, RacesCounted, RacesLogged
<1> QED
    BY <1>3, <1>4 DEF PredictionInit, LoopsInv, ArgsKnown, InStep, AtLimit, LogsAreRaces

\* Outside the loop only the command line matters.
LEMMA QuietLoops ==
    ASSUME LoopsInv, UNCHANGED <<options, loopVars, logVars>>,
           pc' \notin {"solve", "solved"},
           pc' \notin {"idle", "main"} => Valid(args')
    PROVE  LoopsInv'
<1> USE DEF LoopsInv, loopVars, logVars
<1>1. LoopTyped'
    BY DEF LoopTyped
<1>2. ArgsKnown' /\ InStep' /\ AtLimit' /\ LogsAreRaces'
    BY DEF ArgsKnown, InStep, AtLimit, LogsAreRaces
<1>3. Races' = Races
    BY DEF Races
<1>4. RacesCounted' /\ RacesLogged'
    BY <1>3 DEF RacesCounted, RacesLogged
<1> QED
    BY <1>1, <1>2, <1>4

LEMMA OpenBinaryLogFailsLoops ==
    ASSUME LoopsInv, OpenBinaryLogFails
    PROVE  LoopsInv'
<1> USE DEF LoopsInv, OpenBinaryLogFails, Throw, loopVars
<1>1. LoopTyped'
    BY DEF LoopTyped
<1>2. ArgsKnown' /\ InStep' /\ AtLimit' /\ LogsAreRaces'
    BY DEF ArgsKnown, InStep, AtLimit, LogsAreRaces
<1>3. Races' = Races
    BY DEF Races
<1>4. RacesCounted' /\ RacesLogged'
    BY <1>3 DEF RacesCounted, RacesLogged
<1> QED
    BY <1>1, <1>2, <1>4

LEMMA OpenLogsLoops ==
    ASSUME LoopsInv, OpenLogs
    PROVE  LoopsInv'
<1> USE DEF LoopsInv, OpenLogs, TracedBy, runVars
<1>1. Valid(args) /\ args' = args /\ pc' = "solve" /\ options' = Arguments(args)
    BY DEF ArgsKnown
<1>2. options'.maxNoOfCOP \in Nat /\ options'.maxNoOfRace \in Nat
    BY <1>1, LimitIsNat DEF Arguments
<1>3. LoopTyped'
    BY <1>2 DEF LoopTyped
<1>4. ArgsKnown' /\ AtLimit'
    BY <1>1 DEF ArgsKnown, AtLimit
<1>5. answers' = <<>> /\ Len(answers') = 0
    OBVIOUS
<1>6. InStep'
    BY <1>2, <1>3, <1>5 DEF InStep, LoopTyped
<1>7. Races' = {} /\ Cardinality(Races') = 0
    BY <1>5, FS_EmptySet DEF Races
<1>8. RacesCounted' /\ RacesLogged'
    BY <1>7 DEF RacesCounted, RacesLogged
<1>9. LogsAreRaces'
    BY <1>7 DEF LogsAreRaces, InOrder
<1> QED
    BY <1>3, <1>4, <1>6, <1>8, <1>9

LEMMA NoRaceLoops ==
    ASSUME LoopsInv, NoRace
    PROVE  LoopsInv'
<1> USE DEF LoopsInv, NoRace, MoreCOPs, runVars, logVars
<1>1. PICK a \in {"unsat", "unknown"} : answers' = Append(answers, a)
    OBVIOUS
<1>2. a \in Answers /\ a # "sat" /\ answers \in Seq(Answers)
    BY DEF Answers, LoopTyped
<1>3. /\ answers' \in Seq(Answers) /\ Len(answers') = Len(answers) + 1
      /\ Races' = Races /\ Cardinality(Races)' = Cardinality(Races)
    BY <1>1, <1>2, OneMoreAnswer
<1>4. LoopTyped'
    BY <1>3 DEF LoopTyped
<1>5. ArgsKnown' /\ AtLimit'
    BY DEF ArgsKnown, AtLimit
<1>6. InStep'
    BY <1>2, <1>3, <1>4 DEF InStep, LoopTyped
<1>7. RacesCounted' /\ RacesLogged'
    BY <1>3 DEF RacesCounted, RacesLogged
<1>8. LogsAreRaces'
    BY <1>3 DEF LogsAreRaces
<1> QED
    BY <1>4, <1>5, <1>6, <1>7, <1>8

LEMMA EndOfLoopLoops ==
    ASSUME LoopsInv, EndOfLoop
    PROVE  LoopsInv'
<1> USE DEF LoopsInv, EndOfLoop, runVars, loopVars, logVars
<1>1. LoopTyped'
    BY DEF LoopTyped
<1>2. ArgsKnown' /\ InStep' /\ LogsAreRaces'
    BY DEF ArgsKnown, InStep, LogsAreRaces, Races
<1>3. Races' = Races
    BY DEF Races
<1>4. RacesCounted' /\ RacesLogged'
    BY <1>3 DEF RacesCounted, RacesLogged
<1>5. AtLimit'
    <2>1. Cardinality(Races) \in Nat
        BY RacesFinite DEF LoopTyped
    <2> QED
        BY <2>1 DEF AtLimit, InStep, MoreCOPs, LoopTyped, RacesCounted
<1> QED
    BY <1>1, <1>2, <1>4, <1>5

\* What logWitnessPrefix appends is the witness of the candidate, and never
\* nothing.
LEMMA LogWitnessAppends ==
    ASSUME LoopTyped, NEW c \in 1 .. MaxCOPs, LogWitness(c)
    PROVE  /\ log_file' \in Seq(LogEntries) /\ binary_log_file' \in Seq(Nat)
           /\ Len(log_file') = Len(log_file) + 1
           /\ \A n \in 1 .. Len(log_file) : log_file'[n] = log_file[n]
           /\ log_file'[Len(log_file')].cop = c
           /\ options.logBinaryWitness => binary_log_file' # <<>>
           /\ ~options.logBinaryWitness => binary_log_file' = binary_log_file
<1>1. PICK w \in WitnessesOf[c] :
          /\ log_file' = Append(log_file, [cop |-> c, witness |-> w])
          /\ IF options.logBinaryWitness THEN WriteWitness(w) ELSE UNCHANGED binary_log_file
    BY DEF LogWitness
<1>2. w \in Seq(Nat) /\ Len(w) \in Nat /\ Len(w) >= 2
    BY PredictionAssumption
<1>3. c \in Nat /\ [cop |-> c, witness |-> w] \in LogEntries
    BY <1>2, PredictionAssumption DEF LogEntries
<1>4. log_file \in Seq(LogEntries) /\ binary_log_file \in Seq(Nat)
    BY DEF LoopTyped
<1>5. /\ log_file' \in Seq(LogEntries) /\ Len(log_file') = Len(log_file) + 1
      /\ \A n \in 1 .. Len(log_file) : log_file'[n] = log_file[n]
      /\ log_file'[Len(log_file')] = [cop |-> c, witness |-> w]
    BY <1>1, <1>3, <1>4
<1>6. CASE options.logBinaryWitness
    <2> DEFINE head == <<LowWord(Len(w)), HighWord(Len(w))>>
    <2>1. head \in Seq(Nat) /\ Len(head) = 2
        BY <1>2 DEF LowWord, HighWord
    <2>2. binary_log_file' = (binary_log_file \o head) \o w
        BY <1>1, <1>6 DEF WriteWitness
    <2> HIDE DEF head
    <2>3. binary_log_file \o head \in Seq(Nat)
        BY <1>4, <2>1
    <2>4. binary_log_file' \in Seq(Nat)
        BY <1>2, <2>2, <2>3
    <2>5. Len(binary_log_file') = Len(binary_log_file \o head) + Len(w)
        BY <1>2, <2>2, <2>3
    <2>6. binary_log_file' # <<>>
        BY <1>2, <2>3, <2>4, <2>5
    <2> QED
        BY <1>5, <1>6, <2>4, <2>6
<1>7. CASE ~options.logBinaryWitness
    BY <1>1, <1>4, <1>5, <1>7
<1> QED
    BY <1>6, <1>7

LEMMA RaceLoops ==
    ASSUME LoopsInv, Race
    PROVE  LoopsInv'
<1> USE DEF LoopsInv, runVars
<1>1. /\ pc = "solve" /\ itr < cops /\ answers' = Append(answers, "sat")
      /\ ~(options.maxNoOfCOP # 0 /\ i >= options.maxNoOfCOP)
      /\ race_count' = race_count + 1
      /\ options' = options /\ cops' = cops /\ args' = args
      /\ pc' \in {"solve", "solved"}
    BY DEF Race, MoreCOPs
<1>2. /\ answers \in Seq(Answers) /\ Len(answers) \in Nat /\ cops \in Nat
      /\ cops <= MaxCOPs /\ MaxCOPs \in Nat
      /\ options.maxNoOfCOP \in Nat /\ options.maxNoOfRace \in Nat
      /\ log_file \in Seq(LogEntries) /\ binary_log_file \in Seq(Nat)
    BY PredictionAssumption DEF LoopTyped
<1>3. itr = Len(answers) /\ i = Len(answers)
    BY <1>1 DEF InStep
<1>4. /\ answers' \in Seq(Answers) /\ Len(answers') = Len(answers) + 1
      /\ answers'[Len(answers')] = "sat"
      /\ Races' = Races \cup {Len(answers) + 1} /\ Races \subseteq 1 .. Len(answers)
      /\ Cardinality(Races)' = Cardinality(Races) + 1 /\ Cardinality(Races) \in Nat
    BY <1>1, <1>2, OneMoreAnswer, "sat" \in Answers DEF Answers
<1>5. RacesCounted' /\ race_count \in Nat
    BY <1>1, <1>4 DEF RacesCounted
<1>6. /\ options.maxNoOfRace # 0 => race_count < options.maxNoOfRace
      /\ options.maxNoOfCOP # 0 => i < options.maxNoOfCOP
    BY <1>1, <1>2, <1>3 DEF InStep
<1>7. i + 1 \in 1 .. MaxCOPs
    BY <1>1, <1>2, <1>3
<1>8. ASSUME ~options.logWitness
      PROVE  LoopTyped' /\ RacesLogged' /\ LogsAreRaces'
    <2>1. UNCHANGED logVars
        BY <1>8 DEF Race
    <2>2. LoopTyped'
        BY <1>1, <1>4, <2>1 DEF LoopTyped, logVars
    <2>3. RacesLogged'
        BY <1>1, <1>8 DEF RacesLogged
    <2>4. LogsAreRaces'
        <3>1. /\ log_file' = <<>>
              /\ (binary_log_file' = <<>>) <=> (log_file' = <<>> \/ ~options.logBinaryWitness)
            BY <1>1, <1>8, <2>1 DEF LogsAreRaces, logVars
        <3> QED
            BY <1>1, <1>8, <3>1, Zenon DEF LogsAreRaces
    <2> QED
        BY <2>2, <2>3, <2>4
<1>9. ASSUME options.logWitness
      PROVE  LoopTyped' /\ RacesLogged' /\ LogsAreRaces'
    <2>1. LogWitness(i + 1)
        BY <1>9 DEF Race
    <2>2. /\ log_file' \in Seq(LogEntries) /\ binary_log_file' \in Seq(Nat)
          /\ Len(log_file') = Len(log_file) + 1
          /\ \A n \in 1 .. Len(log_file) : log_file'[n] = log_file[n]
          /\ log_file'[Len(log_file')].cop = i + 1
          /\ options.logBinaryWitness => binary_log_file' # <<>>
          /\ ~options.logBinaryWitness => binary_log_file' = binary_log_file
        BY <1>7, <2>1, LogWitnessAppends
    <2>3. LoopTyped'
        BY <1>1, <1>4, <2>2 DEF LoopTyped
    <2>4. RacesLogged'
        BY <1>1, <2>2 DEF RacesLogged
    <2>5. InOrder([n \in DOMAIN log_file |-> log_file[n].cop], Races)
        BY <1>1, <1>9 DEF LogsAreRaces
    <2>6. InOrder([n \in DOMAIN log_file |-> log_file[n].cop], Races)'
        <3>1. DOMAIN log_file = 1 .. Len(log_file) /\ DOMAIN log_file' = 1 .. Len(log_file) + 1
              /\ Len(log_file) \in Nat
            BY <1>2, <2>2
        <3>2. \A n \in 1 .. Len(log_file) : log_file[n].cop \in Races
            BY <2>5, <3>1 DEF InOrder
        <3>3. \A x \in Races : \E n \in 1 .. Len(log_file) : log_file[n].cop = x
            BY <2>5, <3>1 DEF InOrder
        <3>4. \A m, n \in 1 .. Len(log_file) : m < n => log_file[m].cop < log_file[n].cop
            BY <2>5, <3>1 DEF InOrder
        <3>5. log_file'[Len(log_file) + 1].cop = Len(answers) + 1
            BY <1>3, <2>2
        <3>6. {log_file'[n].cop : n \in 1 .. Len(log_file) + 1} = Races'
            <4>1. ASSUME NEW n \in 1 .. Len(log_file) + 1 PROVE log_file'[n].cop \in Races'
                <5>1. n \in 1 .. Len(log_file) \/ n = Len(log_file) + 1
                    BY <3>1
                <5> QED
                    BY <1>4, <2>2, <3>2, <3>5, <5>1
            <4>2. ASSUME NEW x \in Races'
                  PROVE  \E n \in 1 .. Len(log_file) + 1 : log_file'[n].cop = x
                <5>1. CASE x \in Races
                    <6>1. PICK n \in 1 .. Len(log_file) : log_file[n].cop = x
                        BY <3>3, <5>1
                    <6>2. n \in 1 .. Len(log_file) + 1 /\ log_file'[n].cop = x
                        BY <2>2, <3>1, <6>1
                    <6> QED
                        BY <6>2
                <5>2. CASE x = Len(answers) + 1
                    BY <3>1, <3>5, <5>2
                <5> QED
                    BY <1>4, <5>1, <5>2
            <4> QED
                BY <4>1, <4>2
        <3>7. ASSUME NEW m \in 1 .. Len(log_file) + 1, NEW n \in 1 .. Len(log_file) + 1, m < n
              PROVE  log_file'[m].cop < log_file'[n].cop
            <4>1. m \in 1 .. Len(log_file) /\ log_file'[m] = log_file[m]
                BY <2>2, <3>1, <3>7
            <4>2. CASE n = Len(log_file) + 1
                <5>1. log_file[m].cop \in 1 .. Len(answers)
                    BY <1>4, <3>2, <4>1
                <5> QED
                    BY <1>2, <3>5, <4>1, <4>2, <5>1
            <4>3. CASE n # Len(log_file) + 1
                <5>1. n \in 1 .. Len(log_file) /\ log_file'[n] = log_file[n]
                    BY <2>2, <3>1, <4>3
                <5> QED
                    BY <3>4, <3>7, <4>1, <5>1
            <4> QED
                BY <4>2, <4>3
        <3> QED
            BY <3>1, <3>6, <3>7 DEF InOrder
    <2>7. (binary_log_file = <<>>) <=> (log_file = <<>> \/ ~options.logBinaryWitness)
        BY <1>1 DEF LogsAreRaces
    <2>8. log_file' # <<>>
        BY <1>2, <2>2
    <2>9. (binary_log_file' = <<>>) <=> (log_file' = <<>> \/ ~options.logBinaryWitness)
        <3>1. CASE options.logBinaryWitness
            BY <2>2, <2>8, <3>1
        <3>2. CASE ~options.logBinaryWitness
            BY <2>2, <2>7, <3>2
        <3> QED
            BY <3>1, <3>2
    <2>10. LogsAreRaces'
        BY <1>1, <1>9, <2>6, <2>9, Zenon DEF LogsAreRaces
    <2> QED
        BY <2>3, <2>4, <2>10
<1>10. ArgsKnown'
    BY <1>1 DEF ArgsKnown
<1>11. CASE EnoughRaces
    <2>1. pc' = "solved" /\ itr' = itr /\ i' = i
        BY <1>11 DEF Race
    <2>2. options.maxNoOfRace # 0 /\ race_count' = options.maxNoOfRace
        BY <1>1, <1>2, <1>5, <1>6, <1>11 DEF EnoughRaces
    <2>3. AtLimit'
        BY <1>1, <1>2, <1>3, <1>4, <1>6, <2>1, <2>2 DEF AtLimit
    <2> QED
        BY <1>5, <1>8, <1>9, <1>10, <2>1, <2>3 DEF InStep
<1>12. CASE ~EnoughRaces
    <2>1. pc' = "solve" /\ itr' = itr + 1 /\ i' = i + 1
        BY <1>1, <1>12 DEF Race
    <2>2. options.maxNoOfRace # 0 => race_count' < options.maxNoOfRace
        BY <1>1, <1>2, <1>5, <1>12 DEF EnoughRaces
    <2>3. InStep'
        BY <1>1, <1>2, <1>3, <1>4, <1>6, <2>1, <2>2 DEF InStep
    <2> QED
        BY <1>5, <1>8, <1>9, <1>10, <2>1, <2>3 DEF AtLimit
<1> QED
    BY <1>11, <1>12

\* The actions before the loop, after it, and of the verifier.
QuietActions ==
    \/ Start("predictor") \/ Start("verifier")
    \/ RejectArguments \/ OpenTraceFails \/ OpenTrace
    \/ ReadText \/ InvalidEvent \/ CreateTrace
    \/ OpenTextLogFails \/ SolveFails \/ Return
    \/ OpenWitnessesFails \/ OpenWitnesses \/ ReadNextWitness \/ WitnessesRead
    \/ Judge(TRUE) \/ Judge(FALSE) \/ Report \/ TimeOut \/ Leave

LEMMA QuietFacts ==
    ASSUME LoopsInv, QuietActions
    PROVE  /\ UNCHANGED <<options, loopVars, logVars>>
           /\ pc' \notin {"solve", "solved"}
           /\ pc' \notin {"idle", "main"} => Valid(args')
<1>1. pc \notin {"idle", "main"} => Valid(args)
    BY DEF LoopsInv, ArgsKnown
<1>2. CASE Start("predictor") \/ Start("verifier")
    BY <1>2 DEF Start
<1>3. CASE RejectArguments \/ OpenTraceFails \/ InvalidEvent \/ OpenTextLogFails \/ SolveFails
           \/ OpenWitnessesFails
    BY <1>3 DEF RejectArguments, OpenTraceFails, InvalidEvent, OpenTextLogFails, SolveFails,
               OpenWitnessesFails, Throw
<1>4. CASE OpenTrace
    BY <1>4 DEF OpenTrace, runVars
<1>5. CASE ReadText
    <2>1. pc = "read" /\ pc' \in {"read", "error", "createTrace"}
        BY <1>5 DEF ReadText, ReaderNext, ReadAccess, ReadLock, ReadForkOrJoin, ReadBeginOrEnd,
                    BadLine, EndOfFile, NextLine, Push
    <2> QED
        BY <1>1, <1>5, <2>1 DEF ReadText, runVars
<1>6. CASE CreateTrace \/ Return \/ WitnessesRead \/ Report \/ TimeOut \/ Leave
    BY <1>1, <1>6 DEF CreateTrace, Return, WitnessesRead, Report, TimeOut, Leave, runVars
<1>7. CASE OpenWitnesses
    BY <1>1, <1>7 DEF OpenWitnesses, TracedBy, runVars
<1>8. CASE ReadNextWitness
    BY <1>1, <1>8 DEF ReadNextWitness, runVars
<1>9. CASE Judge(TRUE) \/ Judge(FALSE)
    BY <1>1, <1>9 DEF Judge, runVars
<1> QED
    BY <1>2, <1>3, <1>4, <1>5, <1>6, <1>7, <1>8, <1>9 DEF QuietActions

LEMMA StutterLoops ==
    ASSUME LoopsInv, UNCHANGED allVars
    PROVE  LoopsInv'
    BY DEF LoopsInv, allVars, runVars, loopVars, logVars, LoopTyped, ArgsKnown, InStep, AtLimit,
           RacesCounted, LogsAreRaces, RacesLogged, Races

LEMMA NextLoops == LoopsInv /\ [PredictionNext]_allVars => LoopsInv'
<1> SUFFICES ASSUME LoopsInv, [PredictionNext]_allVars PROVE LoopsInv'
    OBVIOUS
<1>1. CASE QuietActions
    BY <1>1, QuietFacts, QuietLoops
<1>2. CASE UNCHANGED allVars
    BY <1>2, StutterLoops
<1>3. CASE OpenBinaryLogFails \/ OpenLogs
    BY <1>3, OpenBinaryLogFailsLoops, OpenLogsLoops
<1>4. CASE SolveLoop
    BY <1>4, NoRaceLoops, RaceLoops, EndOfLoopLoops DEF SolveLoop
<1> QED
    BY <1>1, <1>2, <1>3, <1>4 DEF PredictionNext, QuietActions

LEMMA LoopsAlways == PredictionSpec => []LoopsInv
    BY InitLoops, NextLoops, PTL DEF PredictionSpec

(***************************************************************************)
(* The witnesses in a log are those of the candidates that were answered   *)
(* sat, in their order, for every command line, every number of candidates *)
(* and whatever was run before or failed (casual_model.cpp:255-275).       *)
(***************************************************************************)
THEOREM LogsTheorem == PredictionSpec => []LogsAreRaces
<1>1. LoopsInv => LogsAreRaces
    BY DEF LoopsInv
<1> QED
    BY <1>1, LoopsAlways, PTL

\* The quotient of naturals is no negative number.
LEMMA RemainderIsLess ==
    ASSUME NEW n \in Nat, NEW k \in Nat \ {0}
    PROVE  n % k \in Nat /\ n % k <= n
    OBVIOUS

\* A number of any size gives a limit that is no greater.
LEMMA LimitInEffect ==
    ASSUME NEW a, Valid(a), NEW flag \in {"-c", "-r"}, HasValue(a, flag)
    PROVE  /\ Limit(a, flag) = Number[ValueOf(a, flag)] % Word
           /\ Limit(a, flag) <= Number[ValueOf(a, flag)]
           /\ Limit(a, flag) \in Nat /\ Number[ValueOf(a, flag)] \in Nat
<1>1. Number[ValueOf(a, flag)] \in Nat /\ Word \in Nat \ {0}
    BY PredictionAssumption DEF Valid, IsNumber
<1>2. Limit(a, flag) = Number[ValueOf(a, flag)] % Word
    BY DEF Limit
<1> QED
    BY <1>1, <1>2, RemainderIsLess

(***************************************************************************)
(* The races reported are counted right, and the loop stops at the limits  *)
(* that are in effect or at the end and nowhere else, for every pair of    *)
(* limits, widths of their words and answers of the solver                 *)
(* (casual_model.cpp:257-274, cmd_argument_parser.cpp:42).                 *)
(***************************************************************************)
THEOREM LimitsTheorem == PredictionSpec => []LimitsAreExact
<1>1. LoopsInv => LimitsAreExact
    <2> SUFFICES ASSUME LoopsInv, pc = "solved" PROVE LimitsAreExact
        BY DEF LimitsAreExact
    <2>1. race_count = Cardinality(Races)
        BY DEF LoopsInv, RacesCounted
    <2>2. Valid(args) /\ options = Arguments(args)
        BY DEF LoopsInv, ArgsKnown
    <2>3. ASSUME HasValue(args, "-c"), Number[ValueOf(args, "-c")] % Word # 0
          PROVE  Len(answers) <= Number[ValueOf(args, "-c")]
        <3>1. /\ options.maxNoOfCOP # 0 /\ options.maxNoOfCOP \in Nat
              /\ options.maxNoOfCOP <= Number[ValueOf(args, "-c")]
              /\ Number[ValueOf(args, "-c")] \in Nat
            BY <2>2, <2>3, LimitInEffect DEF Arguments
        <3>2. Len(answers) <= options.maxNoOfCOP /\ Len(answers) \in Nat
            BY <3>1 DEF LoopsInv, AtLimit, LoopTyped
        <3> QED
            BY <3>1, <3>2
    <2>4. ASSUME HasValue(args, "-r"), Number[ValueOf(args, "-r")] % Word # 0
          PROVE  race_count <= Number[ValueOf(args, "-r")]
        <3>1. /\ options.maxNoOfRace # 0 /\ options.maxNoOfRace \in Nat
              /\ options.maxNoOfRace <= Number[ValueOf(args, "-r")]
              /\ Number[ValueOf(args, "-r")] \in Nat
            BY <2>2, <2>4, LimitInEffect DEF Arguments
        <3>2. race_count <= options.maxNoOfRace /\ race_count \in Nat
            BY <2>1, <3>1, RacesFinite DEF LoopsInv, AtLimit, LoopTyped
        <3> QED
            BY <3>1, <3>2
    <2> QED
        BY <2>1, <2>3, <2>4 DEF LimitsAreExact, LoopsInv, AtLimit
<1> QED
    BY <1>1, LoopsAlways, PTL

-----------------------------------------------------------------------------
(* Reading the witnesses back.                                             *)

IsFlat(f, ws) ==
    f = [n \in 0 .. Len(ws) |-> IF n = 0 THEN <<>> ELSE f[n - 1] \o WithLength(ws[n])]

LEMMA FlatIsFlat ==
    ASSUME \E f : IsFlat(f, witnesses)
    PROVE  IsFlat(flat, witnesses)
    BY Zenon DEF flat, IsFlat

\* The words that were consumed, and zeros past the end.
ReadSoFar(F, p, file) ==
    /\ F \in Seq(Nat) /\ p <= Len(F)
    /\ \A n \in 1 .. p : F[n] = file[n]
    /\ \A n \in p + 1 .. Len(F) : F[n] = 0
    /\ p < Len(file) => Len(F) = p

\* There is one way to put the lengths back, and it gives the file so far.
FlatInv ==
    /\ \E f : IsFlat(f, witnesses)
    /\ \A f : IsFlat(f, witnesses) => ReadSoFar(f[Len(witnesses)], pos, binary_log_file)

ReadInv ==
    /\ pc \in {"witnesses", "verify", "reported"} =>
           /\ pos \in 0 .. Len(binary_log_file)
           /\ witnesses \in Seq(Seq(Nat))
           /\ pos > 0 => witnesses # <<>>
           /\ FlatInv
    /\ pc = "witnesses" => judged = 0
    /\ pc \in {"verify", "reported"} => AtEOF /\ judged \in 0 .. Len(witnesses)
    /\ pc = "reported" => judged = Len(witnesses)

\* An empty file gives nothing.
LEMMA OpenWitnessesReads ==
    ASSUME LoopTyped, OpenWitnesses
    PROVE  ReadInv'
<1>1. /\ pos' = 0 /\ witnesses' = <<>> /\ judged' = 0 /\ pc' = "witnesses"
      /\ binary_log_file' = binary_log_file /\ binary_log_file \in Seq(Nat)
    BY DEF OpenWitnesses, OpenFile, logVars, LoopTyped
<1>2. Len(witnesses') = 0 /\ Len(binary_log_file) \in Nat /\ 0 .. 0 = {0}
    BY <1>1
<1>3. \E f : IsFlat(f, witnesses')
    <2>1. IsFlat([n \in {0} |-> <<>>], witnesses')
        BY <1>1, <1>2 DEF IsFlat
    <2> QED
        BY <2>1
<1>4. ASSUME NEW f, IsFlat(f, witnesses')
      PROVE  f[Len(witnesses')] = <<>>
    BY <1>2, <1>4 DEF IsFlat
<1>5. ASSUME NEW F, F = <<>> PROVE ReadSoFar(F, pos', binary_log_file')
    BY <1>1, <1>2, <1>5 DEF ReadSoFar
<1>6. FlatInv'
    BY <1>3, <1>4, <1>5 DEF FlatInv
<1> QED
    BY <1>1, <1>2, <1>6 DEF ReadInv

\* One more witness: its length and its elements go to the end.
LEMMA FlatShorter ==
    ASSUME NEW ws \in Seq(Seq(Nat)), NEW w \in Seq(Nat), NEW f, IsFlat(f, Append(ws, w)),
           NEW g, g = [n \in 0 .. Len(ws) |-> f[n]]
    PROVE  IsFlat(g, ws) /\ f[Len(ws) + 1] = g[Len(ws)] \o WithLength(w)
<1> DEFINE vs == Append(ws, w)
<1>1. /\ Len(ws) \in Nat /\ Len(vs) = Len(ws) + 1 /\ vs[Len(ws) + 1] = w
      /\ \A n \in 1 .. Len(ws) : vs[n] = ws[n]
    OBVIOUS
<1>2. IsFlat(f, vs)
    OBVIOUS
<1> HIDE DEF vs
<1>3. \A n \in 0 .. Len(ws) + 1 : f[n] = IF n = 0 THEN <<>> ELSE f[n - 1] \o WithLength(vs[n])
    BY <1>1, <1>2 DEF IsFlat
<1>4. ASSUME NEW n \in 0 .. Len(ws)
      PROVE  g[n] = IF n = 0 THEN <<>> ELSE g[n - 1] \o WithLength(ws[n])
    <2>1. n \in 0 .. Len(ws) + 1 /\ g[n] = f[n]
        BY <1>1
    <2>2. CASE n = 0
        BY <1>3, <2>1, <2>2
    <2>3. CASE n # 0
        <3>1. n \in 1 .. Len(ws) /\ n - 1 \in 0 .. Len(ws)
            BY <1>1, <2>3
        <3>2. g[n - 1] = f[n - 1] /\ vs[n] = ws[n]
            BY <1>1, <3>1
        <3> QED
            BY <1>3, <2>1, <2>3, <3>2
    <2> QED
        BY <2>2, <2>3
<1>5. IsFlat(g, ws)
    BY <1>4, Zenon DEF IsFlat
<1>6. Len(ws) + 1 \in 0 .. Len(ws) + 1 /\ (Len(ws) + 1) - 1 = Len(ws) /\ Len(ws) + 1 # 0
      /\ g[Len(ws)] = f[Len(ws)]
    BY <1>1
<1> QED
    BY <1>1, <1>3, <1>5, <1>6

LEMMA FlatLonger ==
    ASSUME NEW ws \in Seq(Seq(Nat)), NEW w \in Seq(Nat), NEW g, IsFlat(g, ws)
    PROVE  \E f : IsFlat(f, Append(ws, w))
<1> DEFINE vs == Append(ws, w)
           f == [n \in 0 .. Len(ws) + 1 |->
                    IF n <= Len(ws) THEN g[n] ELSE g[Len(ws)] \o WithLength(w)]
<1>1. /\ Len(ws) \in Nat /\ Len(vs) = Len(ws) + 1 /\ vs[Len(ws) + 1] = w
      /\ \A n \in 1 .. Len(ws) : vs[n] = ws[n]
    OBVIOUS
<1>2. \A n \in 0 .. Len(ws) : g[n] = IF n = 0 THEN <<>> ELSE g[n - 1] \o WithLength(ws[n])
    BY DEF IsFlat
<1> HIDE DEF vs
<1>3. ASSUME NEW n \in 0 .. Len(ws) + 1
      PROVE  f[n] = IF n = 0 THEN <<>> ELSE f[n - 1] \o WithLength(vs[n])
    <2>1. CASE n = 0
        BY <1>1, <1>2, <2>1
    <2>2. CASE n \in 1 .. Len(ws)
        <3>1. /\ n \in 0 .. Len(ws) /\ n - 1 \in 0 .. Len(ws) /\ n # 0 /\ n <= Len(ws)
              /\ n - 1 <= Len(ws) /\ n - 1 \in 0 .. Len(ws) + 1
            BY <1>1, <2>2
        <3>2. f[n] = g[n] /\ f[n - 1] = g[n - 1] /\ vs[n] = ws[n]
            BY <1>1, <2>2, <3>1
        <3> QED
            BY <1>2, <3>1, <3>2
    <2>3. CASE n = Len(ws) + 1
        <3>1. /\ n # 0 /\ ~(n <= Len(ws)) /\ n - 1 = Len(ws)
              /\ n - 1 \in 0 .. Len(ws) + 1 /\ n - 1 <= Len(ws)
            BY <1>1, <2>3
        <3>2. f[n] = g[Len(ws)] \o WithLength(w) /\ f[n - 1] = g[Len(ws)] /\ vs[n] = w
            BY <1>1, <2>3, <3>1
        <3> QED
            BY <3>1, <3>2
    <2> QED
        BY <1>1, <2>1, <2>2, <2>3
<1>4. IsFlat(f, vs)
    <2>1. f = [n \in 0 .. Len(vs) |-> f[n]]
        BY <1>1
    <2> HIDE DEF f
    <2>2. \A n \in 0 .. Len(vs) : f[n] = IF n = 0 THEN <<>> ELSE f[n - 1] \o WithLength(vs[n])
        BY <1>1, <1>3
    <2> QED
        BY <2>1, <2>2, Zenon DEF IsFlat
<1> QED
    BY <1>4 DEF vs

LEMMA ReadsOn ==
    ASSUME NEW b \in Seq(Nat), NEW p \in Nat, p < Len(b), NEW F, ReadSoFar(F, p, b),
           NEW w \in Seq(Nat), b[p + 1] = Len(w),
           \A m \in 1 .. Len(w) : w[m] = IF p + 1 + m <= Len(b) THEN b[p + 1 + m] ELSE 0,
           NEW q \in Nat,
           p + 1 + Len(w) < Len(b) => q = p + 1 + Len(w),
           ~(p + 1 + Len(w) < Len(b)) => q = Len(b)
    PROVE  ReadSoFar(F \o WithLength(w), q, b)
<1> DEFINE v == WithLength(w)
           G == F \o v
           size == Len(w)
<1>1. /\ F \in Seq(Nat) /\ Len(F) = p /\ Len(b) \in Nat /\ size \in Nat
      /\ \A n \in 1 .. p : F[n] = b[n]
    BY DEF ReadSoFar
<1>2. /\ v \in Seq(Nat) /\ Len(v) = size + 1 /\ v[1] = size
      /\ \A m \in 1 .. size : v[m + 1] = w[m]
    <2>1. <<Len(w)>> \in Seq(Nat) /\ Len(<<Len(w)>>) = 1 /\ <<Len(w)>>[1] = size
        OBVIOUS
    <2>2. /\ v \in Seq(Nat) /\ Len(v) = 1 + Len(w)
          /\ \A n \in 1 .. 1 + Len(w) : v[n] = IF n <= 1 THEN <<Len(w)>>[n] ELSE w[n - 1]
        BY <2>1, ConcatProperties DEF WithLength
    <2>3. ASSUME NEW m \in 1 .. size PROVE m + 1 \in 1 .. 1 + size /\ ~(m + 1 <= 1) /\ (m + 1) - 1 = m
        OBVIOUS
    <2>4. 1 \in 1 .. 1 + size /\ 1 + size = size + 1
        OBVIOUS
    <2> HIDE DEF v
    <2>5. Len(v) = size + 1 /\ v[1] = size
        BY <2>1, <2>2, <2>4
    <2>6. ASSUME NEW m \in 1 .. size PROVE v[m + 1] = w[m]
        BY <2>2, <2>3
    <2> QED
        BY <2>2, <2>5, <2>6
<1> HIDE DEF v
<1>3. /\ G \in Seq(Nat) /\ Len(G) = p + 1 + size
      /\ \A n \in 1 .. p : G[n] = F[n]
      /\ \A n \in p + 1 .. p + 1 + size : G[n] = v[n - p]
    <2>1. /\ G \in Seq(Nat) /\ Len(G) = p + (size + 1)
          /\ \A n \in 1 .. p + (size + 1) : G[n] = IF n <= p THEN F[n] ELSE v[n - p]
        <3>1. /\ G \in Seq(Nat) /\ Len(G) = Len(F) + Len(v)
              /\ \A n \in 1 .. Len(F) + Len(v) : G[n] = IF n <= Len(F) THEN F[n] ELSE v[n - Len(F)]
            <4>1. F \in Seq(Nat) /\ v \in Seq(Nat)
                BY <1>1, <1>2
            <4> HIDE DEF size, v
            <4>2. G \in Seq(Nat)
                BY <4>1, ConcatProperties
            <4>3. Len(G) = Len(F) + Len(v)
                BY <4>1, ConcatProperties
            <4>4. ASSUME NEW n \in 1 .. Len(F) + Len(v)
                  PROVE  G[n] = IF n <= Len(F) THEN F[n] ELSE v[n - Len(F)]
                BY <4>1, ConcatProperties
            <4> QED
                BY <4>2, <4>3, <4>4
        <3> HIDE DEF G
        <3>2. Len(F) = p /\ Len(v) = size + 1
            BY <1>1, <1>2
        <3> HIDE DEF size
        <3> QED
            BY <3>1, <3>2
    <2> HIDE DEF G, size
    <2>2. /\ p + (size + 1) = p + 1 + size
          /\ \A n \in 1 .. p : n \in 1 .. p + (size + 1) /\ n <= p
          /\ \A n \in p + 1 .. p + 1 + size : n \in 1 .. p + (size + 1) /\ ~(n <= p)
        BY <1>1
    <2> QED
        BY <2>1, <2>2
<1> HIDE DEF G
<1>4. ASSUME NEW n \in 1 .. Len(G)
      PROVE  G[n] = IF n <= Len(b) THEN b[n] ELSE 0
    <2>1. n \in Nat /\ n <= p + 1 + size /\ n >= 1
        BY <1>3
    <2>2. CASE n <= p
        BY <1>1, <1>3, <2>1, <2>2
    <2>3. CASE n = p + 1
        <3>1. G[n] = v[n - p] /\ n - p = 1 /\ n <= Len(b)
            BY <1>1, <1>3, <2>1, <2>3
        <3> QED
            BY <1>2, <2>3, <3>1
    <2>4. CASE n > p + 1
        <3>1. PICK m \in 1 .. size : n = p + 1 + m
            <4>1. n - p - 1 \in 1 .. size /\ n = p + 1 + (n - p - 1)
                BY <2>1, <2>4
            <4> QED
                BY <4>1
        <3>2. n \in p + 1 .. p + 1 + size /\ n - p = m + 1
            BY <1>1, <2>1, <2>4, <3>1
        <3>4. G[n] = v[n - p]
            BY <1>3, <3>2
        <3>3. G[n] = w[m]
            BY <1>2, <3>2, <3>4
        <3> QED
            BY <3>1, <3>3
    <2> QED
        BY <2>1, <2>2, <2>3, <2>4
<1>5. q <= Len(G) /\ q <= Len(b) /\ (q < Len(b) => Len(G) = q) /\ (q # Len(b) => Len(G) = q)
    BY <1>1, <1>3
<1>6. \A n \in 1 .. q : G[n] = b[n]
    BY <1>1, <1>3, <1>4, <1>5
<1>7. \A n \in q + 1 .. Len(G) : G[n] = 0
    BY <1>1, <1>3, <1>4, <1>5
<1>8. ReadSoFar(G, q, b)
    BY <1>3, <1>5, <1>6, <1>7 DEF ReadSoFar
<1> QED
    BY <1>8 DEF G, v

LEMMA ReadNextWitnessReads ==
    ASSUME LoopTyped, ReadInv, ReadNextWitness
    PROVE  ReadInv'
<1> DEFINE size == binary_log_file[pos + 1]
           w == Words(pos + 1, size)
           N == Len(binary_log_file)
           L == Len(witnesses)
<1>1. /\ pc = "witnesses" /\ pc' = "witnesses" /\ pos # N /\ judged' = judged
      /\ witnesses' = Append(witnesses, w) /\ pos' = AfterRead(size)
      /\ binary_log_file' = binary_log_file
    BY DEF ReadNextWitness, ReadWitness, AtEOF, logVars
<1>2. /\ binary_log_file \in Seq(Nat) /\ N \in Nat /\ pos \in Nat /\ pos < N
      /\ witnesses \in Seq(Seq(Nat)) /\ L \in Nat /\ FlatInv /\ judged = 0
    BY <1>1 DEF LoopTyped, ReadInv
<1>3. size \in Nat
    BY <1>2
<1>4. w \in Seq(Nat) /\ Len(w) = size
      /\ \A m \in 1 .. size : w[m] = IF pos + 1 + m <= N THEN binary_log_file[pos + 1 + m] ELSE 0
    <2>1. ASSUME NEW m \in 1 .. size
          PROVE  (IF pos + 1 + m <= N THEN binary_log_file[pos + 1 + m] ELSE 0) \in Nat
        <3>1. m \in Nat /\ pos + 1 + m \in Nat /\ pos + 1 + m >= 1
            BY <1>2, <1>3
        <3> QED
            BY <1>2, <3>1
    <2>2. w = [m \in 1 .. size |-> IF pos + 1 + m <= N THEN binary_log_file[pos + 1 + m] ELSE 0]
        BY DEF Words
    <2> HIDE DEF w, size
    <2>3. w \in [1 .. size -> Nat]
        BY <2>1, <2>2
    <2> QED
        BY <1>3, <2>2, <2>3
<1>5. /\ pos' = IF pos + 1 + size < N THEN pos + 1 + size ELSE N
      /\ pos' \in 1 .. N
    <2> HIDE DEF w
    <2>1. pos' = IF pos + 1 + size < N THEN pos + 1 + size ELSE N
        BY <1>1 DEF AfterRead
    <2> HIDE DEF size
    <2> QED
        BY <1>2, <1>3, <2>1
<1>10. size = binary_log_file[pos + 1]
    OBVIOUS
<1> HIDE DEF size, w
<1>6. /\ witnesses' \in Seq(Seq(Nat)) /\ Len(witnesses') = L + 1 /\ witnesses' # <<>>
    BY <1>1, <1>2, <1>4, AppendProperties
<1>7. \E f : IsFlat(f, witnesses')
    BY <1>1, <1>2, <1>4, FlatLonger DEF FlatInv
<1>8. ASSUME NEW f, IsFlat(f, witnesses')
      PROVE  ReadSoFar(f[Len(witnesses')], pos', binary_log_file')
    <2>1. PICK g : g = [n \in 0 .. L |-> f[n]]
        OBVIOUS
    <2>2. IsFlat(g, witnesses) /\ f[L + 1] = g[L] \o WithLength(w)
        BY <1>1, <1>2, <1>4, <1>8, <2>1, FlatShorter
    <2>3. ReadSoFar(g[L], pos, binary_log_file)
        BY <1>2, <2>2 DEF FlatInv
    <2>4. PICK q : q = pos'
        OBVIOUS
    <2>5. /\ q \in Nat
          /\ pos + 1 + Len(w) < N => q = pos + 1 + Len(w)
          /\ ~(pos + 1 + Len(w) < N) => q = N
        BY <1>2, <1>4, <1>5, <2>4
    <2>6. ReadSoFar(g[L] \o WithLength(w), q, binary_log_file)
        BY <1>2, <1>3, <1>4, <1>10, <2>3, <2>5, ReadsOn
    <2> QED
        BY <1>1, <1>6, <2>2, <2>4, <2>6
<1>9. FlatInv'
    BY <1>7, <1>8 DEF FlatInv
<1> QED
    BY <1>1, <1>2, <1>5, <1>6, <1>9 DEF ReadInv

\* Nothing else touches the file while it is read, or what was read of it.
LEMMA InitReads == PredictionInit => ReadInv
    BY DEF PredictionInit, ReadInv

LEMMA AwayFromVerifier ==
    ASSUME pc' \notin {"witnesses", "verify", "reported"}
    PROVE  ReadInv'
    BY DEF ReadInv

LEMMA SameFile ==
    ASSUME ReadInv, UNCHANGED <<binary_log_file, pos, witnesses>>,
           pc \in {"witnesses", "verify", "reported"}
    PROVE  /\ pos' \in 0 .. Len(binary_log_file')
           /\ witnesses' \in Seq(Seq(Nat))
           /\ pos' > 0 => witnesses' # <<>>
           /\ FlatInv'
           /\ AtEOF' <=> AtEOF
<1>1. FlatInv
    BY DEF ReadInv
<1>2. FlatInv'
    BY <1>1 DEF FlatInv
<1> QED
    BY <1>2 DEF ReadInv, AtEOF

LEMMA VerifierReads ==
    ASSUME ReadInv, WitnessesRead \/ Judge(TRUE) \/ Judge(FALSE) \/ Report
    PROVE  ReadInv'
<1>1. /\ UNCHANGED <<binary_log_file, pos, witnesses>>
      /\ pc \in {"witnesses", "verify", "reported"}
    BY DEF WitnessesRead, Judge, Report, logVars, verifierVars, readVars
<1>2. /\ pos' \in 0 .. Len(binary_log_file')
      /\ witnesses' \in Seq(Seq(Nat))
      /\ pos' > 0 => witnesses' # <<>>
      /\ FlatInv'
      /\ AtEOF' <=> AtEOF
    BY <1>1, SameFile
<1>3. Len(witnesses) \in Nat
    BY <1>1 DEF ReadInv
<1>4. CASE WitnessesRead
    BY <1>1, <1>2, <1>3, <1>4 DEF ReadInv, WitnessesRead, verifierVars
<1>5. CASE Judge(TRUE) \/ Judge(FALSE)
    BY <1>1, <1>2, <1>3, <1>5 DEF ReadInv, Judge
<1>6. CASE Report
    BY <1>1, <1>2, <1>3, <1>6 DEF ReadInv, Report, verifierVars
<1> QED
    BY <1>4, <1>5, <1>6

LEMMA StutterReads ==
    ASSUME ReadInv, UNCHANGED allVars
    PROVE  ReadInv'
<1>1. /\ UNCHANGED <<binary_log_file, pos, witnesses, judged, pc>>
    BY DEF allVars, logVars, verifierVars, readVars
<1>2. CASE pc \in {"witnesses", "verify", "reported"}
    <2>1. /\ pos' \in 0 .. Len(binary_log_file')
          /\ witnesses' \in Seq(Seq(Nat))
          /\ pos' > 0 => witnesses' # <<>>
          /\ FlatInv'
          /\ AtEOF' <=> AtEOF
        BY <1>1, <1>2, SameFile
    <2> QED
        BY <1>1, <2>1 DEF ReadInv
<1>3. CASE pc \notin {"witnesses", "verify", "reported"}
    BY <1>1, <1>3, AwayFromVerifier
<1> QED
    BY <1>2, <1>3

LEMMA NextReads == LoopsInv /\ ReadInv /\ [PredictionNext]_allVars => ReadInv'
<1> SUFFICES ASSUME LoopsInv, ReadInv, [PredictionNext]_allVars PROVE ReadInv'
    OBVIOUS
<1>1. CASE \/ Start("predictor") \/ Start("verifier")
           \/ RejectArguments \/ OpenTraceFails \/ OpenTrace
           \/ ReadText \/ InvalidEvent \/ CreateTrace
           \/ OpenTextLogFails \/ OpenBinaryLogFails \/ OpenLogs
           \/ SolveLoop \/ SolveFails \/ Return
           \/ OpenWitnessesFails \/ TimeOut \/ Leave
    <2>1. pc' \notin {"witnesses", "verify", "reported"}
        BY <1>1 DEF Start, RejectArguments, OpenTraceFails, OpenTrace, ReadText, InvalidEvent,
                    CreateTrace, OpenTextLogFails, OpenBinaryLogFails, OpenLogs, SolveLoop, NoRace,
                    Race, EndOfLoop, SolveFails, Return, OpenWitnessesFails, TimeOut, Leave, Throw,
                    ReaderNext, ReadAccess, ReadLock, ReadForkOrJoin, ReadBeginOrEnd, BadLine,
                    EndOfFile, NextLine, Push
    <2> QED
        BY <2>1, AwayFromVerifier
<1>2. CASE OpenWitnesses
    BY <1>2, OpenWitnessesReads DEF LoopsInv
<1>3. CASE ReadNextWitness
    BY <1>3, ReadNextWitnessReads DEF LoopsInv
<1>4. CASE WitnessesRead \/ Judge(TRUE) \/ Judge(FALSE) \/ Report
    BY <1>4, VerifierReads
<1>5. CASE UNCHANGED allVars
    BY <1>5, StutterReads
<1> QED
    BY <1>1, <1>2, <1>3, <1>4, <1>5 DEF PredictionNext

LEMMA ReadsAlways == PredictionSpec => []ReadInv
    BY InitLoops, NextLoops, InitReads, NextReads, PTL DEF PredictionSpec

(***************************************************************************)
(* The verifier judges something after a prediction that was to log binary *)
(* witnesses and found a race, whatever programs ran, and failed, in       *)
(* between: an opening that fails leaves the binary log as it was          *)
(* (predictor.cpp:32-45, verifier.cpp:116-141).                            *)
(***************************************************************************)
THEOREM JudgedTheorem == PredictionSpec => []RacesAreJudged
<1>1. LoopsInv /\ ReadInv => RacesAreJudged
    <2> SUFFICES ASSUME LoopsInv, ReadInv, pc = "reported", options.logWitness,
                        options.logBinaryWitness, race_count > 0
                 PROVE  judged > 0
        BY DEF RacesAreJudged, AllConsistent
    <2>1. binary_log_file # <<>> /\ binary_log_file \in Seq(Nat)
        BY DEF LoopsInv, RacesLogged, LoopTyped
    <2>2. /\ pos = Len(binary_log_file) /\ judged = Len(witnesses)
          /\ witnesses \in Seq(Seq(Nat))
          /\ pos > 0 => witnesses # <<>>
        BY DEF ReadInv, AtEOF
    <2>3. pos > 0
        BY <2>1, <2>2
    <2> QED
        BY <2>2, <2>3
<1> QED
    BY <1>1, LoopsAlways, ReadsAlways, PTL

(***************************************************************************)
(* Whatever words are in the file, the reader passes over none of them:    *)
(* its witnesses with the lengths put back are the file, and zeros where a *)
(* length reached beyond the end (model_logger.cpp:131-137).               *)
(***************************************************************************)
THEOREM NoWordTheorem == PredictionSpec => []NoWordLost
<1>1. LoopsInv /\ ReadInv => NoWordLost
    <2> SUFFICES ASSUME LoopsInv, ReadInv, pc = "verify" PROVE NoWordLost
        BY DEF NoWordLost
    <2>1. FlatInv /\ pos = Len(binary_log_file)
        BY DEF ReadInv, AtEOF
    <2>2. ReadSoFar(Flat, pos, binary_log_file)
        BY <2>1, FlatIsFlat DEF FlatInv, Flat
    <2>3. binary_log_file \in Seq(Nat)
        BY DEF LoopsInv, LoopTyped
    <2> DEFINE b == binary_log_file
               F == Flat
    <2>4. /\ F \in Seq(Nat) /\ b \in Seq(Nat) /\ Len(b) \in Nat /\ Len(b) <= Len(F)
          /\ \A n \in 1 .. Len(b) : F[n] = b[n]
          /\ \A n \in Len(b) + 1 .. Len(F) : F[n] = 0
        BY <2>1, <2>2, <2>3 DEF ReadSoFar
    <2>5. SubSeq(F, 1, Len(b)) = b
        <3> HIDE DEF F, b
        <3>1. /\ SubSeq(F, 1, Len(b)) \in Seq(Nat) /\ Len(SubSeq(F, 1, Len(b))) = Len(b)
              /\ \A n \in 1 .. Len(b) : SubSeq(F, 1, Len(b))[n] = F[n]
            BY <2>4
        <3> QED
            BY <2>4, <3>1
    <2> QED
        BY <2>4, <2>5 DEF NoWordLost
<1> QED
    BY <1>1, LoopsAlways, ReadsAlways, PTL

-----------------------------------------------------------------------------
(* The text reader: names are numbered as they come, without gaps.         *)

Reading == {"read", "error", "createTrace"}

\* The names in S have different numbers, the first ones there are.
Numbered(m, avail, S) ==
    /\ DOMAIN m = S /\ IsFiniteSet(S) /\ avail = Cardinality(S) /\ avail \in Nat
    /\ \A n \in S : m[n] \in Nat /\ m[n] < avail
    /\ \A k, n \in S : m[k] = m[n] => k = n

NumberIn(line, variables, locks) ==
    CASE TypeOf(line) \in Access -> variables[line.name]
      [] TypeOf(line) \in Locking -> locks[line.name]
      [] TypeOf(line) \in Children -> Numeral[line.name]
      [] OTHER -> 0

Packed(line, number) ==
    createRawEvent(BitsOf(Code[TypeOf(line)]), BitsOf(line.thread), BitsOf(number),
                   BitsOf(line.value))

\* An event is its line, with the number of its name.
EventsOK ==
    \A n \in DOMAIN raw_events :
        /\ Known(lines[n])
        /\ raw_events[n] = Packed(lines[n], NumberIn(lines[n], varNameMapping, lockNameMapping))

TextInv ==
    /\ pc \notin Reading => ReaderInit
    /\ lines \in Seq(Lines) /\ raw_events \in Seq(SUBSET Nat)
    /\ Len(raw_events) <= Len(lines) /\ (pc = "read" => Len(raw_events) = Len(lines))
    /\ Numbered(varNameMapping, availVarId, Names(Access))
    /\ Numbered(lockNameMapping, availLockId, Names(Locking))
    /\ EventsOK

LEMMA BitsAreNat == \A n : BitsOf(n) \in SUBSET Nat
    BY ReaderAssumption DEF BitsOf

LEMMA EmptyText == ReaderInit => TextInv
<1> SUFFICES ASSUME ReaderInit PROVE TextInv
    OBVIOUS
<1>1. lines = <<>> /\ raw_events = <<>> /\ DOMAIN raw_events = {}
    BY DEF ReaderInit
<1>2. \A T : Names(T) = {}
    BY <1>1 DEF Names, LinesOf
<1>3. \A m : DOMAIN m = {} => Numbered(m, 0, {})
    BY FS_EmptySet DEF Numbered
<1>4. /\ DOMAIN varNameMapping = {} /\ availVarId = 0
      /\ DOMAIN lockNameMapping = {} /\ availLockId = 0
    BY DEF ReaderInit
<1>5. Numbered(varNameMapping, 0, {}) /\ Numbered(lockNameMapping, 0, {})
    BY <1>3, <1>4
<1>6. /\ Numbered(varNameMapping, availVarId, Names(Access))
      /\ Numbered(lockNameMapping, availLockId, Names(Locking))
    BY <1>2, <1>4, <1>5
<1>7. lines \in Seq(Lines) /\ raw_events \in Seq(SUBSET Nat) /\ Len(lines) = Len(raw_events)
      /\ Len(lines) \in Nat
    BY <1>1
<1>8. EventsOK
    BY <1>1 DEF EventsOK
<1> QED
    BY <1>6, <1>7, <1>8 DEF TextInv

\* A new name takes the next number.
LEMMA NewName ==
    ASSUME NEW m, NEW avail, NEW S, Numbered(m, avail, S), NEW name, name \notin S
    PROVE  /\ Numbered(With(m, name, avail), avail + 1, S \cup {name})
           /\ \A n \in S : With(m, name, avail)[n] = m[n]
<1> DEFINE f == With(m, name, avail)
<1>1. DOMAIN f = S \cup {name} /\ f[name] = avail /\ \A n \in S : f[n] = m[n]
    BY DEF With, Numbered
<1>2. /\ IsFiniteSet(S \cup {name}) /\ Cardinality(S \cup {name}) = avail + 1
      /\ avail \in Nat
    BY FS_AddElement DEF Numbered
<1> HIDE DEF f
<1>3. \A n \in S : f[n] \in Nat /\ f[n] < avail
    BY <1>1 DEF Numbered
<1>4. \A n \in S \cup {name} : f[n] \in Nat /\ f[n] < avail + 1
    BY <1>1, <1>2, <1>3
<1>5. \A k, n \in S \cup {name} : f[k] = f[n] => k = n
    <2> SUFFICES ASSUME NEW k \in S \cup {name}, NEW n \in S \cup {name}, f[k] = f[n]
                 PROVE  k = n
        OBVIOUS
    <2>1. CASE k \in S /\ n \in S
        BY <1>1, <2>1 DEF Numbered
    <2>2. CASE k = name \/ n = name
        BY <1>1, <1>2, <1>3, <2>2
    <2> QED
        BY <2>1, <2>2
<1>6. Numbered(f, avail + 1, S \cup {name})
    BY <1>1, <1>2, <1>4, <1>5 DEF Numbered
<1> QED
    BY <1>1, <1>6 DEF f

\* One more line.
LEMMA LineAdded ==
    ASSUME TextInv, pc = "read", NEW line \in Lines, NEW w \in SUBSET Nat,
           lines' = Append(lines, line), raw_events' = Append(raw_events, w)
    PROVE  /\ lines' \in Seq(Lines) /\ raw_events' \in Seq(SUBSET Nat)
           /\ Len(raw_events') = Len(lines')
           /\ \A n \in DOMAIN raw_events' :
                  \/ n \in DOMAIN raw_events /\ lines'[n] = lines[n]
                         /\ raw_events'[n] = raw_events[n]
                  \/ lines'[n] = line /\ raw_events'[n] = w
           /\ \A T : TypeOf(line) \in T => Names(T)' = Names(T) \cup {line.name}
           /\ \A T : TypeOf(line) \notin T => Names(T)' = Names(T)
<1> DEFINE k == Len(raw_events) + 1
<1>1. /\ lines \in Seq(Lines) /\ raw_events \in Seq(SUBSET Nat)
      /\ Len(raw_events) = Len(lines)
    BY DEF TextInv
<1>2. /\ lines' \in Seq(Lines) /\ raw_events' \in Seq(SUBSET Nat)
      /\ Len(raw_events') = k /\ Len(lines') = k
      /\ DOMAIN raw_events = 1 .. Len(raw_events) /\ DOMAIN raw_events' = 1 .. k
      /\ Len(raw_events) \in Nat /\ k \in Nat
      /\ lines'[k] = line /\ raw_events'[k] = w
      /\ \A n \in 1 .. Len(raw_events) :
             lines'[n] = lines[n] /\ raw_events'[n] = raw_events[n]
    BY <1>1
<1>3. DOMAIN raw_events' = DOMAIN raw_events \cup {k}
    BY <1>2
<1> HIDE DEF k
<1>4. ASSUME NEW T, TypeOf(line) \in T PROVE Names(T)' = Names(T) \cup {line.name}
    <2>1. LinesOf(T)' = LinesOf(T) \cup {k}
        BY <1>2, <1>3, <1>4 DEF LinesOf, TypeOf
    <2>2. \A n \in LinesOf(T) : lines'[n] = lines[n]
        BY <1>2 DEF LinesOf
    <2> QED
        BY <1>2, <2>1, <2>2 DEF Names
<1>5. ASSUME NEW T, TypeOf(line) \notin T PROVE Names(T)' = Names(T)
    <2>1. LinesOf(T)' = LinesOf(T)
        BY <1>2, <1>3, <1>5 DEF LinesOf, TypeOf
    <2>2. \A n \in LinesOf(T) : lines'[n] = lines[n]
        BY <1>2 DEF LinesOf
    <2> QED
        BY <2>1, <2>2 DEF Names
<1> QED
    BY <1>2, <1>3, <1>4, <1>5

LEMMA PackedIsBits == \A line, number : Packed(line, number) \in SUBSET Nat
    BY BitsAreNat, WordIsBits DEF Packed

\* A line that is packed, where the numbers given before stay.
LEMMA TextPushed ==
    ASSUME TextInv, NEW line, NextLine(line), Known(line), NEW number, Push(line, number),
           number = NumberIn(line, varNameMapping', lockNameMapping'),
           \A n \in DOMAIN raw_events :
               NumberIn(lines[n], varNameMapping', lockNameMapping') =
                   NumberIn(lines[n], varNameMapping, lockNameMapping),
           Numbered(varNameMapping', availVarId', Names(Access)'),
           Numbered(lockNameMapping', availLockId', Names(Locking)')
    PROVE  TextInv'
<1>1. /\ pc = "read" /\ pc' = "read" /\ line \in Lines /\ lines' = Append(lines, line)
      /\ raw_events' = Append(raw_events, Packed(line, number))
    BY DEF NextLine, Push, Packed
<1>2. /\ lines' \in Seq(Lines) /\ raw_events' \in Seq(SUBSET Nat)
      /\ Len(raw_events') = Len(lines')
      /\ \A n \in DOMAIN raw_events' :
             \/ n \in DOMAIN raw_events /\ lines'[n] = lines[n]
                    /\ raw_events'[n] = raw_events[n]
             \/ lines'[n] = line /\ raw_events'[n] = Packed(line, number)
    BY <1>1, PackedIsBits, LineAdded
<1>3. \A n \in DOMAIN raw_events' :
          /\ Known(lines'[n])
          /\ raw_events'[n] =
                 Packed(lines'[n], NumberIn(lines'[n], varNameMapping', lockNameMapping'))
    BY <1>2 DEF TextInv, EventsOK
<1>4. EventsOK'
    BY <1>3 DEF EventsOK, Known, Packed, NumberIn, TypeOf, createRawEvent
<1>5. Len(raw_events') <= Len(lines')
    BY <1>2
<1> QED
    BY <1>1, <1>2, <1>4, <1>5 DEF TextInv, Numbered, Reading

\* The numbers of a mapping are those of its names.
LEMMA NumbersStay ==
    ASSUME TextInv,
           \A n \in Names(Access) : varNameMapping'[n] = varNameMapping[n],
           \A n \in Names(Locking) : lockNameMapping'[n] = lockNameMapping[n]
    PROVE  \A n \in DOMAIN raw_events :
               NumberIn(lines[n], varNameMapping', lockNameMapping') =
                   NumberIn(lines[n], varNameMapping, lockNameMapping)
<1> SUFFICES ASSUME NEW n \in DOMAIN raw_events
             PROVE  NumberIn(lines[n], varNameMapping', lockNameMapping') =
                        NumberIn(lines[n], varNameMapping, lockNameMapping)
    OBVIOUS
<1>1. CASE TypeOf(lines[n]) \in Access
    <2>1. lines[n].name \in Names(Access)
        BY <1>1 DEF Names, LinesOf
    <2> QED
        BY <1>1, <2>1 DEF NumberIn, Access, Locking, Children
<1>2. CASE TypeOf(lines[n]) \in Locking
    <2>1. lines[n].name \in Names(Locking)
        BY <1>2 DEF Names, LinesOf
    <2> QED
        BY <1>2, <2>1 DEF NumberIn, Access, Locking, Children
<1>3. CASE TypeOf(lines[n]) \notin Access /\ TypeOf(lines[n]) \notin Locking
    BY <1>3 DEF NumberIn
<1> QED
    BY <1>1, <1>2, <1>3

LEMMA AccessRead ==
    ASSUME TextInv, NEW line, ReadAccess(line)
    PROVE  TextInv'
<1>1. /\ NextLine(line) /\ Known(line) /\ TypeOf(line) \in Access
      /\ Push(line, varNameMapping'[line.name]) /\ UNCHANGED lockNames
      /\ TypeOf(line) \notin Locking
    BY DEF ReadAccess, Access, Locking
<1>2. /\ pc = "read" /\ line \in Lines /\ lines' = Append(lines, line)
      /\ raw_events' = Append(raw_events, Packed(line, varNameMapping'[line.name]))
    BY <1>1 DEF NextLine, Push, Packed
<1>3. /\ Names(Access)' = Names(Access) \cup {line.name}
      /\ Names(Locking)' = Names(Locking)
    BY <1>1, <1>2, PackedIsBits, LineAdded
<1>4. /\ Numbered(varNameMapping, availVarId, Names(Access))
      /\ Numbered(lockNameMapping, availLockId, Names(Locking))
      /\ DOMAIN varNameMapping = Names(Access)
    BY DEF TextInv, Numbered
<1>5. /\ Numbered(varNameMapping', availVarId', Names(Access)')
      /\ \A n \in Names(Access) : varNameMapping'[n] = varNameMapping[n]
    <2>1. CASE line.name \in DOMAIN varNameMapping
        BY <1>3, <1>4, <2>1 DEF ReadAccess, varNames
    <2>2. CASE line.name \notin DOMAIN varNameMapping
        <3>1. /\ varNameMapping' = With(varNameMapping, line.name, availVarId)
              /\ availVarId' = availVarId + 1
            BY <2>2 DEF ReadAccess
        <3> QED
            BY <1>3, <1>4, <2>2, <3>1, NewName
    <2> QED
        BY <2>1, <2>2
<1>6. Numbered(lockNameMapping', availLockId', Names(Locking)') /\ lockNameMapping' = lockNameMapping
    BY <1>1, <1>3, <1>4 DEF lockNames
<1>7. varNameMapping'[line.name] = NumberIn(line, varNameMapping', lockNameMapping')
    BY <1>1 DEF NumberIn, Access, Locking, Children
<1> QED
    BY <1>1, <1>5, <1>6, <1>7, NumbersStay, TextPushed

LEMMA LockRead ==
    ASSUME TextInv, NEW line, ReadLock(line)
    PROVE  TextInv'
<1>1. /\ NextLine(line) /\ Known(line) /\ TypeOf(line) \in Locking
      /\ Push(line, lockNameMapping'[line.name]) /\ UNCHANGED varNames
      /\ TypeOf(line) \notin Access
    BY DEF ReadLock, Access, Locking
<1>2. /\ pc = "read" /\ line \in Lines /\ lines' = Append(lines, line)
      /\ raw_events' = Append(raw_events, Packed(line, lockNameMapping'[line.name]))
    BY <1>1 DEF NextLine, Push, Packed
<1>3. /\ Names(Locking)' = Names(Locking) \cup {line.name}
      /\ Names(Access)' = Names(Access)
    BY <1>1, <1>2, PackedIsBits, LineAdded
<1>4. /\ Numbered(varNameMapping, availVarId, Names(Access))
      /\ Numbered(lockNameMapping, availLockId, Names(Locking))
      /\ DOMAIN lockNameMapping = Names(Locking)
    BY DEF TextInv, Numbered
<1>5. /\ Numbered(lockNameMapping', availLockId', Names(Locking)')
      /\ \A n \in Names(Locking) : lockNameMapping'[n] = lockNameMapping[n]
    <2>1. CASE line.name \in DOMAIN lockNameMapping
        BY <1>3, <1>4, <2>1 DEF ReadLock, lockNames
    <2>2. CASE line.name \notin DOMAIN lockNameMapping
        <3>1. /\ lockNameMapping' = With(lockNameMapping, line.name, availLockId)
              /\ availLockId' = availLockId + 1
            BY <2>2 DEF ReadLock
        <3> QED
            BY <1>3, <1>4, <2>2, <3>1, NewName
    <2> QED
        BY <2>1, <2>2
<1>6. Numbered(varNameMapping', availVarId', Names(Access)') /\ varNameMapping' = varNameMapping
    BY <1>1, <1>3, <1>4 DEF varNames
<1>7. lockNameMapping'[line.name] = NumberIn(line, varNameMapping', lockNameMapping')
    BY <1>1 DEF NumberIn, Access, Locking, Children
<1> QED
    BY <1>1, <1>5, <1>6, <1>7, NumbersStay, TextPushed

LEMMA OtherRead ==
    ASSUME TextInv, NEW line, ReadForkOrJoin(line) \/ ReadBeginOrEnd(line)
    PROVE  TextInv'
<1>1. /\ NextLine(line) /\ Known(line) /\ UNCHANGED <<varNames, lockNames>>
      /\ TypeOf(line) \notin Access /\ TypeOf(line) \notin Locking
    BY DEF ReadForkOrJoin, ReadBeginOrEnd, Access, Locking
<1>2. /\ varNameMapping' = varNameMapping /\ availVarId' = availVarId
      /\ lockNameMapping' = lockNameMapping /\ availLockId' = availLockId
    BY <1>1 DEF varNames, lockNames
<1>3. PICK number : Push(line, number) /\ number = NumberIn(line, varNameMapping', lockNameMapping')
    BY DEF ReadForkOrJoin, ReadBeginOrEnd, NumberIn, Access, Locking, Children
<1>4. /\ pc = "read" /\ line \in Lines /\ lines' = Append(lines, line)
      /\ raw_events' = Append(raw_events, Packed(line, number))
    BY <1>1, <1>3 DEF NextLine, Push, Packed
<1>5. Names(Access)' = Names(Access) /\ Names(Locking)' = Names(Locking)
    BY <1>1, <1>4, PackedIsBits, LineAdded
<1>6. /\ Numbered(varNameMapping', availVarId', Names(Access)')
      /\ Numbered(lockNameMapping', availLockId', Names(Locking)')
    BY <1>2, <1>5 DEF TextInv
<1> QED
    BY <1>1, <1>2, <1>3, <1>6, TextPushed

LEMMA LineRefused ==
    ASSUME TextInv, NEW line, BadLine(line)
    PROVE  TextInv'
<1>1. /\ pc = "read" /\ pc' = "error" /\ line \in Lines /\ lines' = Append(lines, line)
      /\ varNameMapping' = varNameMapping /\ availVarId' = availVarId
      /\ lockNameMapping' = lockNameMapping /\ availLockId' = availLockId
      /\ raw_events' = raw_events
    BY DEF BadLine, NextLine, varNames, lockNames
<1>2. /\ lines \in Seq(Lines) /\ raw_events \in Seq(SUBSET Nat) /\ Len(raw_events) = Len(lines)
    BY <1>1 DEF TextInv
<1>3. /\ lines' \in Seq(Lines) /\ Len(raw_events) <= Len(lines')
      /\ \A n \in DOMAIN raw_events : lines'[n] = lines[n]
    BY <1>1, <1>2
<1>4. \A T : LinesOf(T)' = LinesOf(T)
    BY <1>1, <1>3 DEF LinesOf, TypeOf
<1>5. \A T : \A n \in LinesOf(T) : lines'[n] = lines[n]
    BY <1>3 DEF LinesOf
<1>6. \A T : Names(T)' = Names(T)
    BY <1>4, <1>5 DEF Names
<1>7. /\ Numbered(varNameMapping', availVarId', Names(Access)')
      /\ Numbered(lockNameMapping', availLockId', Names(Locking)')
    BY <1>1, <1>6 DEF TextInv
<1>8. \A n \in DOMAIN raw_events' :
          /\ Known(lines'[n])
          /\ raw_events'[n] =
                 Packed(lines'[n], NumberIn(lines'[n], varNameMapping', lockNameMapping'))
    BY <1>1, <1>3 DEF TextInv, EventsOK
<1>9. EventsOK'
    BY <1>8 DEF EventsOK, Known, Packed, NumberIn, TypeOf, createRawEvent
<1> QED
    BY <1>1, <1>2, <1>3, <1>7, <1>9 DEF TextInv, Numbered, Reading

\* Outside the reader nothing is read, whether the text was forgotten or
\* there never was any.
LEMMA StaysEmpty ==
    ASSUME TextInv, pc \notin Reading, UNCHANGED textVars
    PROVE  TextInv'
<1>1. ReaderInit'
    BY DEF TextInv, ReaderInit, textVars, varNames, lockNames
<1>2. ReaderInit' => TextInv'
    BY EmptyText, PTL
<1> QED
    BY <1>1, <1>2

LEMMA TextForgotten ==
    ASSUME ForgetText
    PROVE  TextInv'
<1>1. ReaderInit'
    BY DEF ForgetText, ReaderInit
<1>2. ReaderInit' => TextInv'
    BY EmptyText, PTL
<1> QED
    BY <1>1, <1>2

LEMMA SameText ==
    ASSUME TextInv, UNCHANGED textVars, pc' = pc \/ pc' = "createTrace"
    PROVE  TextInv'
<1>1. /\ lines' = lines /\ raw_events' = raw_events
      /\ varNameMapping' = varNameMapping /\ availVarId' = availVarId
      /\ lockNameMapping' = lockNameMapping /\ availLockId' = availLockId
    BY DEF textVars, varNames, lockNames
<1>2. \A T : Names(T)' = Names(T)
    BY <1>1 DEF Names, LinesOf, TypeOf
<1>3. EventsOK'
    BY <1>1 DEF TextInv, EventsOK, Known, Packed, NumberIn, TypeOf, createRawEvent
<1>4. pc' \notin Reading => ReaderInit'
    BY <1>1 DEF TextInv, Reading, ReaderInit
<1> QED
    BY <1>1, <1>2, <1>3, <1>4 DEF TextInv, Numbered

LEMMA NextText ==
    ASSUME TextInv, [PredictionNext]_allVars
    PROVE  TextInv'
<1>1. CASE UNCHANGED allVars
    BY <1>1, SameText DEF allVars
<1>2. CASE ReadText
    <2>1. CASE EndOfFile
        BY <2>1, SameText DEF EndOfFile, textVars
    <2>2. CASE \E line \in Lines : \/ ReadAccess(line) \/ ReadLock(line)
                                   \/ ReadForkOrJoin(line) \/ ReadBeginOrEnd(line)
                                   \/ BadLine(line)
        BY <2>2, AccessRead, LockRead, OtherRead, LineRefused
    <2> QED
        BY <1>2, <2>1, <2>2 DEF ReadText, ReaderNext
<1>3. CASE InvalidEvent \/ CreateTrace
    BY <1>3, TextForgotten DEF InvalidEvent, CreateTrace
<1>4. CASE Start("predictor") \/ Start("verifier") \/ RejectArguments \/ OpenTraceFails \/ OpenTrace
    <2>1. pc \notin Reading /\ UNCHANGED textVars
        BY <1>4 DEF Start, RejectArguments, OpenTraceFails, OpenTrace, Throw, Reading
    <2> QED
        BY <2>1, StaysEmpty
<1>5. CASE OpenTextLogFails \/ OpenBinaryLogFails \/ OpenLogs \/ SolveLoop \/ SolveFails \/ Return
    <2>1. pc \notin Reading /\ UNCHANGED textVars
        BY <1>5 DEF OpenTextLogFails, OpenBinaryLogFails, OpenLogs, SolveLoop, NoRace, Race,
                    EndOfLoop, SolveFails, Return, TracedBy, Throw, Reading
    <2> QED
        BY <2>1, StaysEmpty
<1>6. CASE \/ OpenWitnessesFails \/ OpenWitnesses \/ ReadNextWitness \/ WitnessesRead
           \/ Judge(TRUE) \/ Judge(FALSE) \/ Report \/ TimeOut \/ Leave
    <2>1. pc \notin Reading /\ UNCHANGED textVars
        BY <1>6 DEF OpenWitnessesFails, OpenWitnesses, ReadNextWitness, WitnessesRead, Judge,
                    Report, TimeOut, Leave, TracedBy, Throw, Reading
    <2> QED
        BY <2>1, StaysEmpty
<1> QED
    BY <1>1, <1>2, <1>3, <1>4, <1>5, <1>6 DEF PredictionNext

LEMMA TextHolds == PredictionSpec => []TextInv
<1>1. PredictionInit => TextInv
    BY EmptyText DEF PredictionInit
<1>2. TextInv /\ [PredictionNext]_allVars => TextInv'
    BY NextText
<1> QED
    BY <1>1, <1>2, PTL DEF PredictionSpec

\* The types of the code.
LEMMA TypesHaveCodes ==
    \A line : Known(line) =>
        /\ TypeOf(line) \in DOMAIN Code
        /\ TypeOf(line) \in Access \cup Locking \cup Children \cup {"Begin", "End"}
<1>1. /\ DOMAIN eventTypeMapping = {"read", "write", "acq", "rel", "begin", "end", "fork", "join"}
      /\ DOMAIN Code = {"Read", "Write", "Acquire", "Release", "Begin", "End", "Fork", "Join"}
    BY DEF eventTypeMapping, Code
<1>2. \A k \in DOMAIN eventTypeMapping :
          eventTypeMapping[k] \in {"Read", "Write", "Acquire", "Release", "Begin", "End",
                                   "Fork", "Join"}
    BY <1>1 DEF eventTypeMapping
<1> QED
    BY <1>1, <1>2 DEF Known, TypeOf, Access, Locking, Children

\* Numbers of few enough names fit, and stand for one name each.
LEMMA FewNames ==
    ASSUME NEW m, NEW avail, NEW S, Numbered(m, avail, S), Cardinality(S) <= 2^TargetBits
    PROVE  /\ \A k \in S : Fits(BitsOf(m[k]), TargetBits)
           /\ \A k, n \in S : BitsOf(m[k]) = BitsOf(m[n]) => k = n
<1>1. avail \in Nat /\ avail <= 2^TargetBits /\ 2^TargetBits \in Nat
    BY ReaderAssumption DEF Numbered
<1>2. \A k \in S : m[k] \in 0 .. 2^TargetBits - 1
    <2> SUFFICES ASSUME NEW k \in S PROVE m[k] \in 0 .. 2^TargetBits - 1
        OBVIOUS
    <2>1. m[k] \in Nat /\ m[k] < avail
        BY DEF Numbered
    <2> QED
        BY <1>1, <2>1
<1>3. \A k, n \in S : m[k] = m[n] => k = n
    BY DEF Numbered
<1> QED
    BY <1>2, <1>3, ReaderAssumption

\* The fields of the events read.
LEMMA FieldsOfText ==
    ASSUME TextInv, WithinLimits, NEW n \in DOMAIN raw_events
    PROVE  /\ getEventType(raw_events[n]) = BitsOf(Code[TypeOf(lines[n])])
           /\ getThreadId(raw_events[n]) = BitsOf(lines[n].thread)
           /\ getTargetId(raw_events[n]) =
                  BitsOf(NumberIn(lines[n], varNameMapping, lockNameMapping))
           /\ getTargetValue(raw_events[n]) = BitsOf(lines[n].value)
<1> DEFINE number == NumberIn(lines[n], varNameMapping, lockNameMapping)
<1>1. /\ Known(lines[n])
      /\ raw_events[n] = createRawEvent(BitsOf(Code[TypeOf(lines[n])]), BitsOf(lines[n].thread),
                                        BitsOf(number), BitsOf(lines[n].value))
    BY DEF TextInv, EventsOK, Packed
<1>2. lines[n] \in Lines
    BY DEF TextInv
<1>3. Fits(BitsOf(lines[n].value), ValueBits)
    BY <1>1, <1>2, ReaderAssumption DEF Known
<1>4. Fits(BitsOf(Code[TypeOf(lines[n])]), TypeBits)
    BY <1>1, TypesHaveCodes, ReaderAssumption
<1>5. Fits(BitsOf(lines[n].thread), ThreadBits)
    BY DEF WithinLimits
<1>6. Fits(BitsOf(number), TargetBits)
    <2>1. CASE TypeOf(lines[n]) \in Access
        <3>1. lines[n].name \in Names(Access) /\ number = varNameMapping[lines[n].name]
            BY <2>1 DEF Names, LinesOf, NumberIn, Access, Locking, Children
        <3>2. Cardinality(Names(Access)) <= 2^TargetBits
            BY DEF WithinLimits
        <3> HIDE DEF number
        <3> QED
            BY <3>1, <3>2, FewNames DEF TextInv
    <2>2. CASE TypeOf(lines[n]) \in Locking
        <3>1. lines[n].name \in Names(Locking) /\ number = lockNameMapping[lines[n].name]
            BY <2>2 DEF Names, LinesOf, NumberIn, Access, Locking, Children
        <3>2. Cardinality(Names(Locking)) <= 2^TargetBits
            BY DEF WithinLimits
        <3> HIDE DEF number
        <3> QED
            BY <3>1, <3>2, FewNames DEF TextInv
    <2>3. CASE TypeOf(lines[n]) \in Children
        <3>1. n \in LinesOf(Children) /\ number = Numeral[lines[n].name]
            BY <2>3 DEF LinesOf, NumberIn, Access, Locking, Children
        <3> HIDE DEF number
        <3> QED
            BY <3>1 DEF WithinLimits
    <2>4. CASE TypeOf(lines[n]) \in {"Begin", "End"}
        <3>1. number = 0
            BY <2>4 DEF NumberIn, Access, Locking, Children
        <3>2. 2^TargetBits \in Nat \ {0}
            BY ReaderAssumption
        <3>3. 0 \in 0 .. 2^TargetBits - 1
            BY <3>2
        <3>4. Fits(BitsOf(0), TargetBits)
            BY <3>3, ReaderAssumption
        <3> QED
            BY <3>1, <3>4
    <2> QED
        BY <1>1, <2>1, <2>2, <2>3, <2>4, TypesHaveCodes
<1> HIDE DEF number
<1>7. LET w == createRawEvent(BitsOf(Code[TypeOf(lines[n])]), BitsOf(lines[n].thread),
                              BitsOf(number), BitsOf(lines[n].value))
      IN /\ getEventType(w) = BitsOf(Code[TypeOf(lines[n])])
         /\ getThreadId(w) = BitsOf(lines[n].thread)
         /\ getTargetId(w) = BitsOf(number)
         /\ getTargetValue(w) = BitsOf(lines[n].value)
    BY <1>3, <1>4, <1>5, <1>6, FieldsRoundTrip
<1> QED
    BY <1>1, <1>7 DEF number

LEMMA TextIsKept == TextInv => LinesKept
<1> SUFFICES ASSUME TextInv, WithinLimits
             PROVE  /\ TypesKept
                    /\ \A n \in DOMAIN raw_events :
                           /\ getThreadId(raw_events[n]) = BitsOf(lines[n].thread)
                           /\ getTargetValue(raw_events[n]) = BitsOf(lines[n].value)
                    /\ \A n \in LinesOf(Children) :
                           getTargetId(raw_events[n]) = BitsOf(Numeral[lines[n].name])
                    /\ SameTargets(Access) /\ SameTargets(Locking)
    BY DEF LinesKept
<1>1. TypesKept
    BY FieldsOfText DEF TypesKept
<1>2. \A n \in LinesOf(Children) : getTargetId(raw_events[n]) = BitsOf(Numeral[lines[n].name])
    <2> SUFFICES ASSUME NEW n \in LinesOf(Children)
                 PROVE  getTargetId(raw_events[n]) = BitsOf(Numeral[lines[n].name])
        OBVIOUS
    <2>1. n \in DOMAIN raw_events /\ TypeOf(lines[n]) \in Children
        BY DEF LinesOf
    <2>2. NumberIn(lines[n], varNameMapping, lockNameMapping) = Numeral[lines[n].name]
        BY <2>1 DEF NumberIn, Access, Locking, Children
    <2> QED
        BY <2>1, <2>2, FieldsOfText
<1>3. SameTargets(Access)
    <2>1. \A n \in LinesOf(Access) :
              /\ n \in DOMAIN raw_events /\ lines[n].name \in Names(Access)
              /\ NumberIn(lines[n], varNameMapping, lockNameMapping) =
                     varNameMapping[lines[n].name]
        BY DEF LinesOf, Names, NumberIn, Access, Locking, Children
    <2>2. \A n \in LinesOf(Access) :
              getTargetId(raw_events[n]) = BitsOf(varNameMapping[lines[n].name])
        BY <2>1, FieldsOfText
    <2>3. \A k, n \in Names(Access) :
              BitsOf(varNameMapping[k]) = BitsOf(varNameMapping[n]) => k = n
        BY FewNames DEF TextInv, WithinLimits
    <2> QED
        BY <2>1, <2>2, <2>3 DEF SameTargets
<1>4. SameTargets(Locking)
    <2>1. \A n \in LinesOf(Locking) :
              /\ n \in DOMAIN raw_events /\ lines[n].name \in Names(Locking)
              /\ NumberIn(lines[n], varNameMapping, lockNameMapping) =
                     lockNameMapping[lines[n].name]
        BY DEF LinesOf, Names, NumberIn, Access, Locking, Children
    <2>2. \A n \in LinesOf(Locking) :
              getTargetId(raw_events[n]) = BitsOf(lockNameMapping[lines[n].name])
        BY <2>1, FieldsOfText
    <2>3. \A k, n \in Names(Locking) :
              BitsOf(lockNameMapping[k]) = BitsOf(lockNameMapping[n]) => k = n
        BY FewNames DEF TextInv, WithinLimits
    <2> QED
        BY <2>1, <2>2, <2>3 DEF SameTargets
<1> QED
    BY <1>1, <1>2, <1>3, <1>4, FieldsOfText

(***************************************************************************)
(* For widths of every size and every text file: as long as threads,       *)
(* children and the number of names fit, the events fromTextFile returns   *)
(* are its lines, and names that differ never share a target               *)
(* (trace.cpp:123-172).                                                    *)
(***************************************************************************)
THEOREM LinesTheorem == PredictionSpec => []LinesKept
    BY TextHolds, TextIsKept, PTL
=============================================================================
