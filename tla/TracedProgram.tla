--------------------------- MODULE TracedProgram ----------------------------
(***************************************************************************)
(* The program whose execution is traced.  It is not part of the           *)
(* repository: this is what the input format of the README and the replay  *)
(* of verifier.cpp take for granted of an input trace.  Threads run under  *)
(* sequential consistency, a thread other than a root is forked and begins *)
(* before it runs and is joined after it ended, a lock has one holder at a *)
(* time and is not re-entrant, a read returns the value last written.      *)
(***************************************************************************)
EXTENDS Integers

CONSTANTS
    Threads,    \* thread identifiers
    Roots,      \* the threads that run from the start, with no Begin event
    Vars,       \* shared variables
    Locks,      \* lock identifiers
    Values,     \* values of the shared variables
    NoValue     \* the value of a variable no event has shown yet

ASSUME ProgramAssumption ==
    /\ Threads \subseteq Nat \ {0}
    /\ Locks \subseteq Nat
    /\ Roots \subseteq Threads
    /\ NoValue \notin Values

VARIABLES
    status,     \* of each thread: unborn, forked, running, ended or joined
    holder,     \* the thread that holds each lock, or NoThread
    mem         \* the value of each variable, or NoValue

programVars == <<status, holder, mem>>

NoThread == 0
Statuses == {"unborn", "forked", "running", "ended", "joined"}

ProgramTypeOK ==
    /\ status \in [Threads -> Statuses]
    /\ holder \in [Locks -> Threads \cup {NoThread}]
    /\ mem \in [Vars -> Values \cup {NoValue}]

ProgramInit ==
    /\ status = [t \in Threads |-> IF t \in Roots THEN "running" ELSE "unborn"]
    /\ holder = [l \in Locks |-> NoThread]
    /\ mem = [x \in Vars |-> NoValue]

Moves(t, from, to) ==
    /\ status[t] = from
    /\ status' = [status EXCEPT ![t] = to]
    /\ UNCHANGED <<holder, mem>>

DoFork(t, u) == status[t] = "running" /\ Moves(u, "unborn", "forked")
DoBegin(t) == Moves(t, "forked", "running")
DoEnd(t) == Moves(t, "running", "ended")
DoJoin(t, u) == status[t] = "running" /\ Moves(u, "ended", "joined")

DoAcquire(t, l) ==
    /\ status[t] = "running"
    /\ holder[l] = NoThread
    /\ holder' = [holder EXCEPT ![l] = t]
    /\ UNCHANGED <<status, mem>>

DoRelease(t, l) ==
    /\ status[t] = "running"
    /\ holder[l] = t
    /\ holder' = [holder EXCEPT ![l] = NoThread]
    /\ UNCHANGED <<status, mem>>

\* The first read of an unwritten variable shows its initial value.
DoRead(t, x, v) ==
    /\ status[t] = "running"
    /\ mem[x] \in {v, NoValue}
    /\ mem' = [mem EXCEPT ![x] = v]
    /\ UNCHANGED <<status, holder>>

DoWrite(t, x, v) ==
    /\ status[t] = "running"
    /\ mem' = [mem EXCEPT ![x] = v]
    /\ UNCHANGED <<status, holder>>
=============================================================================
