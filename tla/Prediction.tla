------------------------------ MODULE Prediction ----------------------------
(***************************************************************************)
(* The two programs around the model.  Both parse the same options and     *)
(* read the trace, as text or as words.  predictor then opens the logs and *)
(* runs solve's loop over the candidates; verifier reads the binary log    *)
(* and judges the witnesses in it.  They are started in any order and      *)
(* share the files of one trace.  What a token means as a number, and the  *)
(* witnesses of a candidate, are given; Z3 answers as it likes.            *)
(***************************************************************************)
EXTENDS TextReader, WitnessFile

CONSTANTS
    Commands,           \* the command lines, sequences of tokens
    Number,             \* the tokens std::stoul accepts, and their values
    Word,               \* the number of values of uint32_t
    MaxCOPs,            \* bound on the number of candidates
    WitnessesOf,        \* of each candidate: what logWitnessPrefix may make of it
    MaxRuns             \* bound on the number of programs that are run

ASSUME PredictionAssumption ==
    /\ Word \in Nat \ {0} /\ MaxCOPs \in Nat /\ MaxRuns \in Nat
    /\ \A tok \in DOMAIN Number : Number[tok] \in Nat
    /\ \A c \in 1 .. MaxCOPs : \A w \in WitnessesOf[c] : w \in Seq(Nat) /\ Len(w) >= 2

VARIABLES
    runs, program,
    args,              \* the command line
    options,           \* the Arguments of the last prediction
    cops,              \* the number of filtered candidates
    itr,               \* solve: how many race constraints the iterator has passed
    i,                 \* solve: the index beside it
    race_count,
    answers,           \* what Z3 answered so far
    log_file,          \* the text log: candidates and their witnesses
    judged,            \* verifier: how many witnesses it has judged
    failed_witness     \* verifier: the indices of those that failed

runVars == <<runs, program, args>>
textVars == <<lines, varNames, lockNames, raw_events>>
loopVars == <<cops, itr, i, race_count, answers>>
logVars == <<log_file, binary_log_file>>
verifierVars == <<readVars, judged, failed_witness>>
allVars == <<runVars, pc, textVars, options, loopVars, logVars, verifierVars>>

-----------------------------------------------------------------------------
(* Arguments::fromArgs                                                     *)

\* Where std::find finds a flag, one past the end if nowhere.
Find(a, flag) ==
    IF \E n \in DOMAIN a : a[n] = flag
    THEN CHOOSE n \in DOMAIN a : a[n] = flag /\ \A m \in 1 .. n - 1 : a[m] # flag
    ELSE Len(a) + 1

Given(a, flag) == Find(a, flag) <= Len(a)
HasValue(a, flag) == Find(a, flag) < Len(a)
ValueOf(a, flag) == a[Find(a, flag) + 1]

IsNumber(a, flag) == HasValue(a, flag) => ValueOf(a, flag) \in DOMAIN Number
Limit(a, flag) == IF HasValue(a, flag) THEN Number[ValueOf(a, flag)] % Word ELSE 0

\* No exception is thrown.
Valid(a) == HasValue(a, "-f") /\ IsNumber(a, "-c") /\ IsNumber(a, "-r")

Arguments(a) ==
    [logWitness |-> Given(a, "--log-witness"),
     logBinaryWitness |-> Given(a, "--log-binary-witness"),
     binaryFormat |-> ~Given(a, "--human"),
     maxNoOfCOP |-> Limit(a, "-c"),
     maxNoOfRace |-> Limit(a, "-r")]

NoOptions == Arguments(<<>>)

-----------------------------------------------------------------------------
(* Both programs, up to the trace.                                         *)

Start(p) ==
    /\ pc = "idle" /\ runs < MaxRuns
    /\ runs' = runs + 1
    /\ program' = p /\ args' \in Commands
    /\ pc' = "main"
    /\ UNCHANGED <<textVars, options, loopVars, logVars, verifierVars>>

\* An exception: main says what it is and returns 1.
Throw ==
    /\ pc' = "idle"
    /\ UNCHANGED <<runVars, options, loopVars, verifierVars>>

RejectArguments ==
    /\ pc = "main" /\ ~Valid(args)
    /\ Throw /\ UNCHANGED <<textVars, logVars>>

\* The file is not there, or its size is no multiple of a word's.
OpenTraceFails ==
    /\ pc = "main" /\ Valid(args)
    /\ Throw /\ UNCHANGED <<textVars, logVars>>

OpenTrace ==
    /\ pc = "main" /\ Valid(args)
    /\ pc' = IF Arguments(args).binaryFormat THEN "createTrace" ELSE "read"
    /\ UNCHANGED <<runVars, textVars, options, loopVars, logVars, verifierVars>>

ReadText == ReaderNext /\ UNCHANGED <<runVars, options, loopVars, logVars, verifierVars>>

\* fromTextFile returns, or is left: its local variables are gone.
ForgetText ==
    /\ lines' = <<>> /\ raw_events' = <<>>
    /\ varNameMapping' = [n \in {} |-> 0] /\ availVarId' = 0
    /\ lockNameMapping' = [n \in {} |-> 0] /\ availLockId' = 0

InvalidEvent == pc = "error" /\ Throw /\ ForgetText /\ UNCHANGED logVars

CreateTrace ==
    /\ pc = "createTrace"
    /\ pc' = "traced"
    /\ ForgetText
    /\ UNCHANGED <<runVars, options, loopVars, logVars, verifierVars>>

-----------------------------------------------------------------------------
(* predictor.  ModelLogger's constructor truncates first one log, then the *)
(* other, and may fail at either.                                          *)

TracedBy(p) == pc = "traced" /\ program = p

OpenTextLogFails ==
    /\ TracedBy("predictor")
    /\ Throw /\ UNCHANGED <<textVars, logVars>>

\* Mutant: the binary log is opened first, and the other one fails.
OpenBinaryLogFirst ==
    /\ TracedBy("predictor")
    /\ binary_log_file' = <<>> /\ UNCHANGED log_file
    /\ Throw /\ UNCHANGED textVars

OpenBinaryLogFails ==
    /\ TracedBy("predictor")
    /\ log_file' = <<>> /\ UNCHANGED binary_log_file
    /\ Throw /\ UNCHANGED textVars

OpenLogs ==
    /\ TracedBy("predictor")
    /\ options' = Arguments(args)
    /\ log_file' = <<>> /\ binary_log_file' = <<>>
    /\ cops' \in 0 .. MaxCOPs
    /\ itr' = 0 /\ i' = 0 /\ race_count' = 0 /\ answers' = <<>>
    /\ pc' = "solve"
    /\ UNCHANGED <<runVars, textVars, verifierVars>>

\* Mutant: the limit is tested after the check.
MoreCOPsInclusive ==
    itr < cops /\ ~(options.maxNoOfCOP # 0 /\ i > options.maxNoOfCOP)

MoreCOPs == itr < cops /\ ~(options.maxNoOfCOP # 0 /\ i >= options.maxNoOfCOP)

\* Mutant: only a race counts.
NoRaceKeepsIndex ==
    /\ pc = "solve" /\ MoreCOPs
    /\ \E a \in {"unsat", "unknown"} : answers' = Append(answers, a)
    /\ itr' = itr + 1
    /\ UNCHANGED <<runVars, pc, textVars, options, i, cops, race_count, logVars, verifierVars>>

\* The answer is not sat.
NoRace ==
    /\ pc = "solve" /\ MoreCOPs
    /\ \E a \in {"unsat", "unknown"} : answers' = Append(answers, a)
    /\ itr' = itr + 1 /\ i' = i + 1
    /\ UNCHANGED <<runVars, pc, textVars, options, cops, race_count, logVars, verifierVars>>

\* logWitnessPrefix for a candidate.
LogWitness(c) == \E w \in WitnessesOf[c] :
    /\ log_file' = Append(log_file, [cop |-> c, witness |-> w])
    /\ IF options.logBinaryWitness THEN WriteWitness(w) ELSE UNCHANGED binary_log_file

EnoughRaces == options.maxNoOfRace # 0 /\ race_count' >= options.maxNoOfRace

Race ==
    /\ pc = "solve" /\ MoreCOPs
    /\ answers' = Append(answers, "sat")
    /\ race_count' = race_count + 1
    /\ IF options.logWitness THEN LogWitness(i + 1) ELSE UNCHANGED logVars
    /\ IF EnoughRaces
       THEN pc' = "solved" /\ UNCHANGED <<itr, i>>
       ELSE itr' = itr + 1 /\ i' = i + 1 /\ UNCHANGED pc
    /\ UNCHANGED <<runVars, textVars, options, cops, verifierVars>>

\* Mutant: the loop always asks once more.
EndOfLoopLate ==
    /\ pc = "solve" /\ itr > cops
    /\ pc' = "solved"
    /\ UNCHANGED <<runVars, textVars, options, loopVars, logVars, verifierVars>>

EndOfLoop ==
    /\ pc = "solve" /\ ~MoreCOPs
    /\ pc' = "solved"
    /\ UNCHANGED <<runVars, textVars, options, loopVars, logVars, verifierVars>>

\* Z3 throws, or a position does not fit an int: what is logged stays.
SolveFails == pc = "solve" /\ Throw /\ UNCHANGED <<textVars, logVars>>

Return ==
    /\ pc = "solved" /\ pc' = "idle"
    /\ UNCHANGED <<runVars, textVars, options, loopVars, logVars, verifierVars>>

-----------------------------------------------------------------------------
(* verifier                                                                *)

\* "Failed to open binary witness file"
OpenWitnessesFails ==
    /\ TracedBy("verifier")
    /\ Throw /\ UNCHANGED <<textVars, logVars>>

OpenWitnesses ==
    /\ TracedBy("verifier")
    /\ OpenFile /\ judged' = 0 /\ failed_witness' = <<>>
    /\ pc' = "witnesses"
    /\ UNCHANGED <<runVars, textVars, options, loopVars, logVars>>

ReadNextWitness ==
    /\ pc = "witnesses" /\ ReadWitness
    /\ UNCHANGED <<runVars, pc, textVars, options, loopVars, logVars, judged, failed_witness>>

WitnessesRead ==
    /\ pc = "witnesses" /\ AtEOF /\ pc' = "verify"
    /\ UNCHANGED <<runVars, textVars, options, loopVars, logVars, verifierVars>>

\* isWitnessConsistent, of the next one.
Judge(res) ==
    /\ pc = "verify" /\ judged < Len(witnesses)
    /\ judged' = judged + 1
    /\ failed_witness' = IF res THEN failed_witness ELSE Append(failed_witness, judged)
    /\ UNCHANGED <<runVars, pc, textVars, options, loopVars, logVars, readVars>>

\* main prints its verdict, and returns 0 whatever it is.
Report ==
    /\ pc = "verify" /\ judged = Len(witnesses)
    /\ pc' = "reported"
    /\ UNCHANGED <<runVars, textVars, options, loopVars, logVars, verifierVars>>

\* gtimeout ends the verifier, or an index out of range does; the runner
\* goes on.
TimeOut ==
    /\ pc = "verify" /\ pc' = "idle"
    /\ UNCHANGED <<runVars, textVars, options, loopVars, logVars, verifierVars>>

Leave ==
    /\ pc = "reported" /\ pc' = "idle"
    /\ UNCHANGED <<runVars, textVars, options, loopVars, logVars, verifierVars>>

\* The files may be left from an earlier prediction that found no race.
PredictionInit ==
    /\ runs = 0 /\ program = "predictor" /\ pc = "idle"
    /\ ReaderInit
    /\ args = <<>> /\ options = NoOptions
    /\ cops = 0 /\ itr = 0 /\ i = 0 /\ race_count = 0 /\ answers = <<>>
    /\ log_file = <<>> /\ binary_log_file = <<>>
    /\ pos = 0 /\ witnesses = <<>> /\ judged = 0 /\ failed_witness = <<>>

SolveLoop == NoRace \/ Race \/ EndOfLoop

PredictionNext ==
    \/ Start("predictor") \/ Start("verifier")
    \/ RejectArguments \/ OpenTraceFails \/ OpenTrace
    \/ ReadText \/ InvalidEvent \/ CreateTrace
    \/ OpenTextLogFails \/ OpenBinaryLogFails \/ OpenLogs
    \/ SolveLoop \/ SolveFails \/ Return
    \/ OpenWitnessesFails \/ OpenWitnesses \/ ReadNextWitness \/ WitnessesRead
    \/ Judge(TRUE) \/ Judge(FALSE) \/ Report \/ TimeOut \/ Leave

\* Z3 answers every check, and the loop goes on.
PredictionSpec == PredictionInit /\ [][PredictionNext]_allVars /\ WF_allVars(SolveLoop)

-----------------------------------------------------------------------------
\* The candidates that were answered sat, in order.
Races == {n \in DOMAIN answers : answers[n] = "sat"}
InOrder(s, S) ==
    /\ {s[n] : n \in DOMAIN s} = S
    /\ \A m, n \in DOMAIN s : m < n => s[m] < s[n]

(***************************************************************************)
(* The witnesses in a log of a prediction are those of the candidates that *)
(* were answered sat, in their order, at every point of the loop, whether  *)
(* it stopped at a limit, at the end or by an exception: the index and the *)
(* iterator never part (casual_model.cpp:255-275).  A log that is not      *)
(* asked for is empty.                                                     *)
(***************************************************************************)
LogsAreRaces ==
    pc \in {"solve", "solved"} =>
        /\ options.logWitness => InOrder([n \in DOMAIN log_file |-> log_file[n].cop], Races)
        /\ ~options.logWitness => log_file = <<>>
        /\ (binary_log_file = <<>>) <=> (log_file = <<>> \/ ~options.logBinaryWitness)

(***************************************************************************)
(* The number of races that is reported is that of the candidates answered *)
(* sat, and a prediction asks of all candidates, or as many as the limits  *)
(* in effect let it, no fewer and no more (casual_model.cpp:257-274).  A   *)
(* number that was given is never exceeded, though it may not fit 32 bits  *)
(* (cmd_argument_parser.cpp:42, 51), unless it is a multiple of 2^32: that *)
(* limits nothing.                                                         *)
(***************************************************************************)
LimitsAreExact ==
    pc = "solved" =>
        LET c == options.maxNoOfCOP
            n == options.maxNoOfRace
        IN /\ race_count = Cardinality(Races)
           /\ c # 0 => Len(answers) <= c
           /\ n # 0 => race_count <= n
           /\ HasValue(args, "-c") /\ Number[ValueOf(args, "-c")] % Word # 0 =>
                  Len(answers) <= Number[ValueOf(args, "-c")]
           /\ HasValue(args, "-r") /\ Number[ValueOf(args, "-r")] % Word # 0 =>
                  race_count <= Number[ValueOf(args, "-r")]
           /\ \/ Len(answers) = cops
              \/ c # 0 /\ Len(answers) = c
              \/ n # 0 /\ race_count = n /\ answers[Len(answers)] = "sat"

(***************************************************************************)
(* solve's loop ends, unless an exception ends it.                         *)
(***************************************************************************)
SolveReturns == pc = "solve" ~> pc # "solve"

AllConsistent == pc = "reported" /\ failed_witness = <<>>

(***************************************************************************)
(* The verifier does not call nothing consistent after a prediction that   *)
(* was asked for witnesses and for binary ones and found a race, whatever  *)
(* ran or failed in between (predictor.cpp:32-45, verifier.cpp:116-141).   *)
(***************************************************************************)
RacesAreJudged ==
    AllConsistent /\ options.logWitness /\ options.logBinaryWitness /\ race_count > 0 =>
        judged > 0

(***************************************************************************)
(* The same of a prediction with --log-binary-witness only: an option of   *)
(* its own (cmd_argument_parser.cpp:11), enough to get binary witnesses,   *)
(* as in the command line runner.sh:43 has ready.  Without --log-witness   *)
(* nothing is logged (casual_model.cpp:267).                               *)
(***************************************************************************)
BinaryWitnessesAreJudged ==
    AllConsistent /\ options.logBinaryWitness /\ race_count > 0 => judged > 0

(***************************************************************************)
(* The reader passes over no word: what it returns, with the lengths put   *)
(* back, is the file, and zeros where the last length was too long         *)
(* (model_logger.cpp:131-137).                                             *)
(***************************************************************************)
NoWordLost ==
    pc = "verify" =>
        /\ SubSeq(Flat, 1, Len(binary_log_file)) = binary_log_file
        /\ \A n \in Len(binary_log_file) + 1 .. Len(Flat) : Flat[n] = 0

(***************************************************************************)
(* "the last two events are the COP" (verifier.cpp:32): of the witnesses   *)
(* that are read back, each ends with the pair that was logged with it.    *)
(* The upper half of the length shifts them by one element.                *)
(***************************************************************************)
LastTwoAreTheCOP ==
    pc = "verify" /\ binary_log_file # <<>> => \A n \in DOMAIN witnesses :
        n \in DOMAIN log_file /\ LastTwo(witnesses[n]) = LastTwo(log_file[n].witness)
=============================================================================
