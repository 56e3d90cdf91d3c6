------------------------------ MODULE TextReader ----------------------------
(***************************************************************************)
(* fromTextFile: each line of a trace becomes one packed event.  Names of  *)
(* variables and of locks are numbered as they come, each in a numbering   *)
(* of its own; threads, children and values are numbers in the line.  A    *)
(* line is given by what operator>> makes of it.  The first bad line ends  *)
(* the program.  Prediction runs these actions while pc is "read".         *)
(***************************************************************************)
EXTENDS EventLayout, Sequences, FiniteSets

CONSTANTS
    Lines,      \* records of type, thread, name and value
    Malformed,  \* the value of a line whose fields cannot be read
    Numeral,    \* the names std::stoul accepts, and their values
    NumberBits, \* bound on the width of the numbers
    MaxLines    \* bound on the length of the file

VARIABLES
    lines,      \* the lines read
    varNameMapping, availVarId,
    lockNameMapping, availLockId,
    raw_events,
    pc

varNames == <<varNameMapping, availVarId>>
lockNames == <<lockNameMapping, availLockId>>

-----------------------------------------------------------------------------
\* Event::EventType
Code == [Read |-> 0, Write |-> 1, Acquire |-> 2, Release |-> 3,
         Begin |-> 4, End |-> 5, Fork |-> 6, Join |-> 7]

eventTypeMapping == [read |-> "Read", write |-> "Write", acq |-> "Acquire", rel |-> "Release",
                     begin |-> "Begin", end |-> "End", fork |-> "Fork", join |-> "Join"]

BitsOf(n) == {b \in 0 .. NumberBits - 1 : (n \div 2^b) % 2 = 1}

\* A value is a uint32_t, a type has a field wide enough for its codes, and
\* numbers are as wide as the field of a target at least.
ASSUME ReaderAssumption ==
    /\ NumberBits \in Nat /\ 2^TargetBits \in Nat \ {0}
    /\ \A line \in Lines : line.value # Malformed => Fits(BitsOf(line.value), ValueBits)
    /\ \A type \in DOMAIN Code : Fits(BitsOf(Code[type]), TypeBits)
    /\ \A m, n \in 0 .. 2^TargetBits - 1 :
           Fits(BitsOf(n), TargetBits) /\ (BitsOf(m) = BitsOf(n) => m = n)

Known(line) == line.value # Malformed /\ line.type \in DOMAIN eventTypeMapping
TypeOf(line) == eventTypeMapping[line.type]

NextLine(line) ==
    /\ pc = "read" /\ Len(lines) < MaxLines
    /\ line \in Lines
    /\ lines' = Append(lines, line)

Push(line, varId) ==
    /\ raw_events' = Append(raw_events,
           createRawEvent(BitsOf(Code[TypeOf(line)]), BitsOf(line.thread),
                          BitsOf(varId), BitsOf(line.value)))
    /\ UNCHANGED pc

With(f, k, v) == [n \in DOMAIN f \cup {k} |-> IF n = k THEN v ELSE f[n]]

ReadAccess(line) ==
    /\ NextLine(line) /\ Known(line) /\ TypeOf(line) \in {"Read", "Write"}
    /\ IF line.name \in DOMAIN varNameMapping
       THEN UNCHANGED varNames
       ELSE /\ varNameMapping' = With(varNameMapping, line.name, availVarId)
            /\ availVarId' = availVarId + 1
    /\ Push(line, varNameMapping'[line.name])
    /\ UNCHANGED lockNames

ReadLock(line) ==
    /\ NextLine(line) /\ Known(line) /\ TypeOf(line) \in {"Acquire", "Release"}
    /\ IF line.name \in DOMAIN lockNameMapping
       THEN UNCHANGED lockNames
       ELSE /\ lockNameMapping' = With(lockNameMapping, line.name, availLockId)
            /\ availLockId' = availLockId + 1
    /\ Push(line, lockNameMapping'[line.name])
    /\ UNCHANGED varNames

ReadForkOrJoin(line) ==
    /\ NextLine(line) /\ Known(line) /\ TypeOf(line) \in {"Fork", "Join"}
    /\ line.name \in DOMAIN Numeral
    /\ Push(line, Numeral[line.name])
    /\ UNCHANGED <<varNames, lockNames>>

ReadBeginOrEnd(line) ==
    /\ NextLine(line) /\ Known(line) /\ TypeOf(line) \in {"Begin", "End"}
    /\ Push(line, 0)
    /\ UNCHANGED <<varNames, lockNames>>

\* "Invalid event", "Invalid event type", or std::stoul throws.
BadLine(line) ==
    /\ NextLine(line)
    /\ Known(line) => TypeOf(line) \in {"Fork", "Join"} /\ line.name \notin DOMAIN Numeral
    /\ pc' = "error"
    /\ UNCHANGED <<varNames, lockNames, raw_events>>

EndOfFile ==
    /\ pc = "read" /\ pc' = "createTrace"
    /\ UNCHANGED <<lines, varNames, lockNames, raw_events>>

\* Mutant: the numbers start from 1, as those of events do.
ReaderInitFromOne ==
    /\ lines = <<>> /\ raw_events = <<>>
    /\ varNameMapping = [n \in {} |-> 0] /\ availVarId = 1
    /\ lockNameMapping = [n \in {} |-> 0] /\ availLockId = 1

ReaderInit ==
    /\ lines = <<>> /\ raw_events = <<>>
    /\ varNameMapping = [n \in {} |-> 0] /\ availVarId = 0
    /\ lockNameMapping = [n \in {} |-> 0] /\ availLockId = 0

ReaderNext ==
    \/ \E line \in Lines : \/ ReadAccess(line) \/ ReadLock(line)
                           \/ ReadForkOrJoin(line) \/ ReadBeginOrEnd(line)
                           \/ BadLine(line)
    \/ EndOfFile

-----------------------------------------------------------------------------
\* The lines with one of these types, and the names in them.
LinesOf(types) == {n \in DOMAIN raw_events : TypeOf(lines[n]) \in types}
Names(types) == {lines[n].name : n \in LinesOf(types)}

Access == {"Read", "Write"}
Locking == {"Acquire", "Release"}
Children == {"Fork", "Join"}

\* What is read is within the widths, and there are not too many names.
WithinLimits ==
    /\ \A n \in DOMAIN raw_events : Fits(BitsOf(lines[n].thread), ThreadBits)
    /\ \A n \in LinesOf(Children) : Fits(BitsOf(Numeral[lines[n].name]), TargetBits)
    /\ \A types \in {Access, Locking} : Cardinality(Names(types)) <= 2^TargetBits

SameTargets(types) ==
    \A m, n \in LinesOf(types) :
        getTargetId(raw_events[m]) = getTargetId(raw_events[n]) <=> lines[m].name = lines[n].name

TypesKept ==
    \A n \in DOMAIN raw_events : getEventType(raw_events[n]) = BitsOf(Code[TypeOf(lines[n])])

(***************************************************************************)
(* As long as threads, children and the number of names are within the     *)
(* widths of the fields, events are the lines: types, threads, children    *)
(* and values come out as they went in, and two accesses, or two lock      *)
(* operations, have one target exactly when they have one name, up to the  *)
(* last name that fits (trace.cpp:123-172, event.hpp:43-51, 107-113).      *)
(***************************************************************************)
LinesKept ==
    WithinLimits =>
        /\ TypesKept
        /\ \A n \in DOMAIN raw_events :
               /\ getThreadId(raw_events[n]) = BitsOf(lines[n].thread)
               /\ getTargetValue(raw_events[n]) = BitsOf(lines[n].value)
        /\ \A n \in LinesOf(Children) :
               getTargetId(raw_events[n]) = BitsOf(Numeral[lines[n].name])
        /\ SameTargets(Access) /\ SameTargets(Locking)
=============================================================================
