------------------------------ MODULE Verifier ------------------------------
(***************************************************************************)
(* isWitnessConsistent: a witness is replayed against the trace it was     *)
(* predicted from.  The last two elements, the racing pair, are not        *)
(* replayed; a witness of fewer than two is replayed whole, because        *)
(* size - 2 wraps around.  So the loop takes any number of elements and    *)
(* returns.  The elements are distinct events of the trace, as             *)
(* logWitnessPrefix writes them; on others the code indexes its vectors    *)
(* out of range.                                                           *)
(***************************************************************************)
EXTENDS LegalOrder

VARIABLES
    witness,              \* the elements the loop has taken
    threadEventTracker,   \* how many events of each thread have run
    variableIdToVal,      \* the value of each variable, NoValue if absent
    lockIdToLockStatus,   \* "absent", "available" or "taken"
    lockIdToThread        \* the thread that took the lock last, or NoThread

replayMaps == <<threadEventTracker, variableIdToVal, lockIdToLockStatus, lockIdToThread>>
traceObject == <<programVars, all_events, thread_id_to_thread, mapVars>>
verifierVars == <<traceVars, witness, replayMaps>>

LockStatuses == {"absent", "available", "taken"}

-----------------------------------------------------------------------------
(* The three checks.                                                       *)

\* Mutant: an event may run before those that precede it in its thread.
ThreadCheckAnyLater(e) == threadEventTracker[Tid(e)] < Len(EventsOf(Tid(e)))

ThreadCheck(e) ==
    LET events == EventsOf(Tid(e))
        next == threadEventTracker[Tid(e)] + 1
    IN next \in DOMAIN events /\ events[next] = e

\* Mutant: an acquire is not checked.
LockCheckReleaseOnly(e) ==
    Type(e) = "Release" =>
        lockIdToLockStatus[Target(e)] = "taken" /\ lockIdToThread[Target(e)] = Tid(e)

LockCheck(e) ==
    /\ Type(e) = "Acquire" => lockIdToLockStatus[Target(e)] # "taken"
    /\ Type(e) = "Release" =>
           lockIdToLockStatus[Target(e)] = "taken" /\ lockIdToThread[Target(e)] = Tid(e)

\* A read of a variable that has no value yet gives it one.
ReadCheck(e) == Type(e) = "Read" => variableIdToVal[Target(e)] \in {NoValue, Value(e)}

Consistent(e) == ThreadCheck(e) /\ LockCheck(e) /\ ReadCheck(e)

-----------------------------------------------------------------------------
VerifierInit ==
    /\ TraceInit
    /\ witness = <<>>
    /\ threadEventTracker = [t \in Threads |-> 0]
    /\ variableIdToVal = [x \in Vars |-> NoValue]
    /\ lockIdToLockStatus = [l \in Locks |-> "absent"]
    /\ lockIdToThread = [l \in Locks |-> NoThread]

\* main: the trace has been read, the witness is passed with it.
CallVerifier ==
    /\ pc = "group"
    /\ pc' = "replay"
    /\ UNCHANGED <<traceObject, witness, replayMaps>>

NextElement(e) ==
    /\ pc = "replay" /\ e \notin RangeOf(witness)
    /\ witness' = Append(witness, e)
    /\ UNCHANGED traceObject

\* One iteration of the loop that passes its checks.
Replay(e) ==
    /\ NextElement(e) /\ Consistent(e)
    /\ threadEventTracker' = [threadEventTracker EXCEPT ![Tid(e)] = @ + 1]
    /\ lockIdToLockStatus' = [l \in Locks |->
           CASE On("Acquire", e, l) -> "taken"
             [] On("Release", e, l) -> "available"
             [] OTHER -> lockIdToLockStatus[l]]
    /\ lockIdToThread' = [l \in Locks |->
           IF On("Acquire", e, l) THEN Tid(e) ELSE lockIdToThread[l]]
    /\ variableIdToVal' = [x \in Vars |->
           IF On("Read", e, x) \/ On("Write", e, x) THEN Value(e) ELSE variableIdToVal[x]]
    /\ UNCHANGED pc

\* An iteration that returns false; the maps are local and lost.
Reject(e) ==
    /\ NextElement(e) /\ ~Consistent(e)
    /\ pc' = "failed"
    /\ UNCHANGED replayMaps

Accept ==
    /\ pc = "replay"
    /\ pc' = "consistent"
    /\ UNCHANGED <<traceObject, witness, replayMaps>>

VerifierNext ==
    \/ TraceNext /\ UNCHANGED <<witness, replayMaps>>
    \/ CallVerifier
    \/ \E e \in EID : Replay(e) \/ Reject(e)
    \/ Accept

VerifierSpec == VerifierInit /\ [][VerifierNext]_verifierVars

-----------------------------------------------------------------------------
(***************************************************************************)
(* The verifier passes exactly the witnesses that are legal in the order   *)
(* of each thread, in locks and in reads: its counters and maps neither    *)
(* let an illegal one through nor reject a legal one (verifier.cpp:30-102).*)
(* It does not look at where a thread is forked or joined.                 *)
(***************************************************************************)
VerifierExact ==
    /\ pc \in {"replay", "consistent"} => Legal(witness)
    /\ pc = "failed" => ~Legal(witness)

\* The lock holders and the memory as the replay has them, as a program state.
Replayed == INSTANCE TracedProgram WITH
    status <- [t \in Threads |-> "running"],
    Roots <- Threads,
    holder <- [l \in Locks |->
                  IF lockIdToLockStatus[l] = "taken" THEN lockIdToThread[l] ELSE NoThread],
    mem <- variableIdToVal

ProgramStep ==
    \E t \in Threads :
        \/ \E l \in Locks : Replayed!DoAcquire(t, l) \/ Replayed!DoRelease(t, l)
        \/ \E x \in Vars, v \in Values : Replayed!DoRead(t, x, v) \/ Replayed!DoWrite(t, x, v)

(***************************************************************************)
(* The replay is an execution: every element that passes the checks is a   *)
(* step the traced program could take with these locks and this memory     *)
(* (verifier.cpp:56-97).                                                   *)
(***************************************************************************)
ReplayIsExecution == Replayed!ProgramInit /\ [][ProgramStep]_(Replayed!programVars)
=============================================================================
