--------------------------- MODULE VerifierProofs ---------------------------
(***************************************************************************)
(* For every trace and every witness, of any length: what the verifier     *)
(* replays is an execution of a program with locks and shared variables,   *)
(* and its verdict is true of exactly the legal orders.                    *)
(***************************************************************************)
EXTENDS Verifier, AccessProofs

ReplayTypeOK ==
    /\ threadEventTracker \in [Threads -> Nat]
    /\ variableIdToVal \in [Vars -> Values \cup {NoValue}]
    /\ lockIdToLockStatus \in [Locks -> LockStatuses]
    /\ lockIdToThread \in [Locks -> Threads \cup {NoThread}]

ReplayInv == IInv /\ EventsWellFormed /\ ReplayTypeOK

LEMMA InitReplayInv == VerifierInit => ReplayInv
<1> SUFFICES ASSUME VerifierInit PROVE ReplayInv
    OBVIOUS
<1>1. IInv
    BY InitIInv DEF VerifierInit
<1>2. EventsWellFormed
    BY InitWellFormed DEF VerifierInit
<1>3. ReplayTypeOK
    BY DEF VerifierInit, ReplayTypeOK, LockStatuses
<1> QED
    BY <1>1, <1>2, <1>3 DEF ReplayInv

-----------------------------------------------------------------------------
(* The replay.                                                             *)

\* A step that leaves the trace alone leaves its invariants alone.
LEMMA TraceObjectKept ==
    ASSUME IInv, EventsWellFormed, UNCHANGED traceObject
    PROVE  IInv' /\ EventsWellFormed'
<1>1. IInv'
    BY KeptIInv DEF traceObject
<1>2. EventsWellFormed'
    BY DEF traceObject, EventsWellFormed, WellFormed, EID, Type, Target, Tid, Value
<1> QED
    BY <1>1, <1>2

LEMMA NextReplayInv == ReplayInv /\ [VerifierNext]_verifierVars => ReplayInv'
<1> SUFFICES ASSUME ReplayInv, [VerifierNext]_verifierVars PROVE ReplayInv'
    OBVIOUS
<1>1. IInv /\ EventsWellFormed /\ ReplayTypeOK
    BY DEF ReplayInv
<1>2. CASE TraceNext /\ UNCHANGED <<witness, replayMaps>>
    BY <1>1, <1>2, NextIInv, TraceWellFormed DEF ReplayInv, ReplayTypeOK, replayMaps
<1>3. CASE CallVerifier \/ Accept \/ UNCHANGED verifierVars
    <2>1. UNCHANGED traceObject /\ UNCHANGED replayMaps
        BY <1>3 DEF CallVerifier, Accept, verifierVars, traceVars, traceObject
    <2> QED
        BY <1>1, <2>1, TraceObjectKept DEF ReplayInv, ReplayTypeOK, replayMaps
<1>4. ASSUME NEW e \in EID, Reject(e) PROVE ReplayInv'
    <2>1. UNCHANGED traceObject /\ UNCHANGED replayMaps
        BY <1>4 DEF Reject, NextElement
    <2> QED
        BY <1>1, <2>1, TraceObjectKept DEF ReplayInv, ReplayTypeOK, replayMaps
<1>5. ASSUME NEW e \in EID, Replay(e) PROVE ReplayInv'
    <2>1. UNCHANGED traceObject
        BY <1>5 DEF Replay, NextElement
    <2>2. WellFormed(e)
        BY <1>1 DEF EventsWellFormed
    <2>3. threadEventTracker' \in [Threads -> Nat]
        BY <1>1, <1>5, <2>2 DEF Replay, ReplayTypeOK, WellFormed
    <2>4. variableIdToVal' \in [Vars -> Values \cup {NoValue}]
        BY <1>1, <1>5, <2>2 DEF Replay, ReplayTypeOK, WellFormed, On
    <2>5. lockIdToLockStatus' \in [Locks -> LockStatuses]
        BY <1>1, <1>5 DEF Replay, ReplayTypeOK, LockStatuses
    <2>6. lockIdToThread' \in [Locks -> Threads \cup {NoThread}]
        BY <1>1, <1>5, <2>2 DEF Replay, ReplayTypeOK, WellFormed
    <2> QED
        BY <1>1, <2>1, <2>3, <2>4, <2>5, <2>6, TraceObjectKept DEF ReplayInv, ReplayTypeOK
<1> QED
    BY <1>2, <1>3, <1>4, <1>5 DEF VerifierNext

-----------------------------------------------------------------------------
(* The replay as an execution.                                             *)

\* The holder of each lock, as the refinement reads it off the two maps.
Holder == [l \in Locks |->
              IF lockIdToLockStatus[l] = "taken" THEN lockIdToThread[l] ELSE NoThread]

LEMMA ReplayAcquire ==
    ASSUME ReplayInv, NEW e \in EID, Replay(e), Type(e) = "Acquire"
    PROVE  Replayed!DoAcquire(Tid(e), Target(e))
<1>1. WellFormed(e) /\ ReplayTypeOK
    BY DEF ReplayInv, EventsWellFormed
<1>2. Tid(e) \in Threads /\ Target(e) \in Locks
    BY <1>1 DEF WellFormed
<1>3. Holder[Target(e)] = NoThread
    BY <1>2 DEF Replay, Consistent, LockCheck, Holder
<1>4. Holder' = [Holder EXCEPT ![Target(e)] = Tid(e)]
    BY <1>2 DEF Replay, On, Holder
<1>5. variableIdToVal' = variableIdToVal
    BY <1>1 DEF Replay, On, ReplayTypeOK
<1> QED
    BY <1>2, <1>3, <1>4, <1>5 DEF Replayed!DoAcquire, Replayed!NoThread, NoThread, Holder

LEMMA ReplayRelease ==
    ASSUME ReplayInv, NEW e \in EID, Replay(e), Type(e) = "Release"
    PROVE  Replayed!DoRelease(Tid(e), Target(e))
<1>1. WellFormed(e) /\ ReplayTypeOK
    BY DEF ReplayInv, EventsWellFormed
<1>2. Tid(e) \in Threads /\ Target(e) \in Locks
    BY <1>1 DEF WellFormed
<1>3. Holder[Target(e)] = Tid(e)
    BY <1>2 DEF Replay, Consistent, LockCheck, Holder
<1>4. Holder' = [Holder EXCEPT ![Target(e)] = NoThread]
    BY <1>2 DEF Replay, On, Holder
<1>5. variableIdToVal' = variableIdToVal
    BY <1>1 DEF Replay, On, ReplayTypeOK
<1> QED
    BY <1>2, <1>3, <1>4, <1>5 DEF Replayed!DoRelease, Replayed!NoThread, NoThread, Holder

LEMMA ReplayAccess ==
    ASSUME ReplayInv, NEW e \in EID, Replay(e), Type(e) \in {"Read", "Write"}
    PROVE  \/ Replayed!DoRead(Tid(e), Target(e), Value(e))
           \/ Replayed!DoWrite(Tid(e), Target(e), Value(e))
<1>1. WellFormed(e) /\ ReplayTypeOK
    BY DEF ReplayInv, EventsWellFormed
<1>2. Tid(e) \in Threads /\ Target(e) \in Vars
    BY <1>1 DEF WellFormed
<1>3. Holder' = Holder
    BY <1>1 DEF Replay, On, Holder, ReplayTypeOK
<1>4. variableIdToVal' = [variableIdToVal EXCEPT ![Target(e)] = Value(e)]
    BY <1>1, <1>2 DEF Replay, On, ReplayTypeOK
<1>5. Type(e) = "Read" => variableIdToVal[Target(e)] \in {Value(e), NoValue}
    BY DEF Replay, Consistent, ReadCheck
<1> QED
    BY <1>2, <1>3, <1>4, <1>5 DEF Replayed!DoRead, Replayed!DoWrite, Holder

\* An event of a thread's life changes neither locks nor memory.
LEMMA ReplayOther ==
    ASSUME ReplayInv, NEW e \in EID, Replay(e),
           Type(e) \notin {"Acquire", "Release", "Read", "Write"}
    PROVE  UNCHANGED Replayed!programVars
<1>1. ReplayTypeOK
    BY DEF ReplayInv
<1>2. lockIdToLockStatus' = lockIdToLockStatus /\ lockIdToThread' = lockIdToThread
    BY <1>1 DEF Replay, On, ReplayTypeOK
<1>3. variableIdToVal' = variableIdToVal
    BY <1>1 DEF Replay, On, ReplayTypeOK
<1> QED
    BY <1>2, <1>3 DEF Replayed!programVars

LEMMA ReplayStep ==
    ReplayInv /\ [VerifierNext]_verifierVars => [ProgramStep]_(Replayed!programVars)
<1> SUFFICES ASSUME ReplayInv, [VerifierNext]_verifierVars
             PROVE  [ProgramStep]_(Replayed!programVars)
    OBVIOUS
<1>1. ASSUME UNCHANGED replayMaps PROVE UNCHANGED Replayed!programVars
    BY <1>1 DEF replayMaps, Replayed!programVars
<1>2. ASSUME NEW e \in EID, Replay(e) PROVE [ProgramStep]_(Replayed!programVars)
    <2>1. WellFormed(e)
        BY DEF ReplayInv, EventsWellFormed
    <2>2. \A t \in Threads, l \in Locks :
              Replayed!DoAcquire(t, l) \/ Replayed!DoRelease(t, l) => ProgramStep
        BY Zenon DEF ProgramStep
    <2>3. ASSUME NEW t \in Threads, NEW x \in Vars, NEW v \in Values,
                 Replayed!DoRead(t, x, v) \/ Replayed!DoWrite(t, x, v)
          PROVE  ProgramStep
        BY <2>3, Zenon DEF ProgramStep
    <2>4. CASE Type(e) \in {"Acquire", "Release"}
        <3>1. Tid(e) \in Threads /\ Target(e) \in Locks
            BY <2>1, <2>4 DEF WellFormed
        <3>2. CASE Type(e) = "Acquire"
            <4>1. Replayed!DoAcquire(Tid(e), Target(e))
                BY <1>2, <3>2, ReplayAcquire
            <4>2. ProgramStep
                BY <2>2, <3>1, <4>1 DEF Replayed!DoAcquire
            <4> QED
                BY <4>2
        <3>3. CASE Type(e) = "Release"
            <4>1. Replayed!DoRelease(Tid(e), Target(e))
                BY <1>2, <3>3, ReplayRelease
            <4>2. ProgramStep
                BY <2>2, <3>1, <4>1 DEF Replayed!DoRelease
            <4> QED
                BY <4>2
        <3> QED
            BY <2>4, <3>2, <3>3
    <2>5. CASE Type(e) \in {"Read", "Write"}
        <3>1. Tid(e) \in Threads /\ Target(e) \in Vars /\ Value(e) \in Values
            BY <2>1, <2>5 DEF WellFormed
        <3>2. \/ Replayed!DoRead(Tid(e), Target(e), Value(e))
              \/ Replayed!DoWrite(Tid(e), Target(e), Value(e))
            BY <1>2, <2>5, ReplayAccess, Zenon
        <3>3. ProgramStep
            BY <2>3, <3>1, <3>2, Zenon
        <3> QED
            BY <3>3
    <2>6. CASE Type(e) \notin {"Acquire", "Release", "Read", "Write"}
        BY <1>2, <2>6, ReplayOther, Zenon
    <2> QED
        BY <2>4, <2>5, <2>6
<1> QED
    BY <1>1, <1>2 DEF VerifierNext, CallVerifier, Reject, Accept, verifierVars

LEMMA ReplayStart == VerifierInit => Replayed!ProgramInit
BY DEF VerifierInit, Replayed!ProgramInit, Replayed!NoThread, NoThread

\* Every replay is an execution: an element passes the checks only if the
\* program could take that step with the locks and memory the replay has.
THEOREM ReplayIsExecutionTheorem == VerifierSpec => ReplayIsExecution
BY InitReplayInv, NextReplayInv, ReplayStart, ReplayStep, PTL
   DEF VerifierSpec, ReplayIsExecution
-----------------------------------------------------------------------------
(* The verdict.                                                            *)

\* No element is taken twice.
Distinct(w) == \A m, n \in DOMAIN w : w[m] = w[n] => m = n

\* The first k events of thread t are the ones among w.
TrackerOK(w, t, k) ==
    /\ k \in 0 .. Len(EventsOf(t))
    /\ \A j \in DOMAIN EventsOf(t) : EventsOf(t)[j] \in RangeOf(w) <=> j <= k

\* Event w[m] took lock l, and nobody touched the lock since.
HeldSince(w, l, m) ==
    On("Acquire", w[m], l) /\ \A p \in DOMAIN w : m < p => ~OnLock(w[p], l)

\* The thread of w[m] released lock l after w[m].
ReleasedAfter(w, l, m) ==
    \E p \in DOMAIN w : m < p /\ On("Release", w[p], l) /\ Tid(w[p]) = Tid(w[m])

AllReleased(w, l) == \A m \in DOMAIN w : On("Acquire", w[m], l) => ReleasedAfter(w, l, m)

\* What the status and the thread of lock l say of w.
LockSeen(w, l, lockStatus, thread) ==
    IF lockStatus = "taken"
    THEN \E m \in DOMAIN w : HeldSince(w, l, m) /\ Tid(w[m]) = thread
    ELSE AllReleased(w, l)

\* Event w[m] is the last access of x.
LastAccess(w, x, m) ==
    IsAccess(w[m], x) /\ \A p \in DOMAIN w : m < p => ~IsAccess(w[p], x)

\* What the value of variable x says of w.
ValueSeen(w, x, v) ==
    IF v = NoValue
    THEN \A m \in DOMAIN w : ~IsAccess(w[m], x)
    ELSE \E m \in DOMAIN w : LastAccess(w, x, m) /\ Value(w[m]) = v

\* The maps are what the elements taken so far, a legal order, leave behind.
MapsExact ==
    /\ Legal(witness)
    /\ \A t \in Threads : TrackerOK(witness, t, threadEventTracker[t])
    /\ \A l \in Locks : LockSeen(witness, l, lockIdToLockStatus[l], lockIdToThread[l])
    /\ \A x \in Vars : ValueSeen(witness, x, variableIdToVal[x])

\* Before the call nothing is replayed.
NotCalled ==
    /\ witness = <<>> /\ threadEventTracker = [t \in Threads |-> 0]
    /\ variableIdToVal = [x \in Vars |-> NoValue]
    /\ lockIdToLockStatus = [l \in Locks |-> "absent"]

\* The inductive invariant of the verdict.
VerdictInv ==
    /\ TraceInv /\ ThreadsOrdered /\ ReleasesRecorded /\ ReplayTypeOK
    /\ witness \in Seq(EID) /\ Distinct(witness)
    /\ pc \in {"trace", "group", "replay", "consistent", "failed"}
    /\ pc \in {"trace", "group"} => NotCalled
    /\ pc \in {"replay", "consistent"} => MapsExact
    /\ pc = "failed" => ~Legal(witness)

\* The rules for a position see the elements up to it only; for the last one
\* they read as follows.
LEMMA LastPosition ==
    ASSUME NEW w \in Seq(EID), NEW e \in EID
    PROVE  /\ Append(w, e) \in Seq(EID) /\ Len(Append(w, e)) = Len(w) + 1
           /\ DOMAIN w = 1 .. Len(w) /\ Len(w) \in Nat
           /\ DOMAIN Append(w, e) = DOMAIN w \cup {Len(w) + 1}
           /\ \A n \in DOMAIN w : Append(w, e)[n] = w[n] /\ w[n] \in EID
           /\ Append(w, e)[Len(w) + 1] = e
           /\ RangeOf(Append(w, e)) = RangeOf(w) \cup {e}
<1>1. /\ Append(w, e) \in Seq(EID) /\ Len(Append(w, e)) = Len(w) + 1
      /\ DOMAIN w = 1 .. Len(w) /\ Len(w) \in Nat
      /\ DOMAIN Append(w, e) = DOMAIN w \cup {Len(w) + 1}
      /\ \A n \in DOMAIN w : Append(w, e)[n] = w[n] /\ w[n] \in EID
      /\ Append(w, e)[Len(w) + 1] = e
    OBVIOUS
<1> QED
    BY <1>1 DEF RangeOf

LEMMA ThreadRule ==
    ASSUME NEW w \in Seq(EID), NEW e \in EID
    PROVE  /\ \A n \in DOMAIN w : InThreadOrder(Append(w, e), n) <=> InThreadOrder(w, n)
           /\ InThreadOrder(Append(w, e), Len(w) + 1) <=>
                  \A d \in 1 .. e - 1 : Tid(d) = Tid(e) => d \in RangeOf(w)
<1> DEFINE a == Append(w, e)
<1>1. /\ DOMAIN w = 1 .. Len(w) /\ Len(w) \in Nat
      /\ \A n \in DOMAIN w : a[n] = w[n]
      /\ a[Len(w) + 1] = e
    BY LastPosition
<1> HIDE DEF a
<1>2. \A n \in DOMAIN w : InThreadOrder(a, n) <=> InThreadOrder(w, n)
    BY <1>1 DEF InThreadOrder
<1>3. InThreadOrder(a, Len(w) + 1) <=>
          \A d \in 1 .. e - 1 : Tid(d) = Tid(e) => d \in RangeOf(w)
    BY <1>1 DEF InThreadOrder, RangeOf
<1> QED
    BY <1>2, <1>3 DEF a

LEMMA LockRule ==
    ASSUME NEW w \in Seq(EID), NEW e \in EID
    PROVE  /\ \A n \in DOMAIN w : LockFree(Append(w, e), n) <=> LockFree(w, n)
           /\ LockFree(Append(w, e), Len(w) + 1) <=> AllReleased(w, Target(e))
<1> DEFINE a == Append(w, e)
<1>1. /\ DOMAIN w = 1 .. Len(w) /\ Len(w) \in Nat
      /\ \A n \in DOMAIN w : a[n] = w[n]
      /\ a[Len(w) + 1] = e
    BY LastPosition
<1> HIDE DEF a
<1>2. ASSUME NEW n \in DOMAIN w PROVE LockFree(a, n) <=> LockFree(w, n)
    BY <1>1 DEF LockFree, Between, On
<1>3. LockFree(a, Len(w) + 1) <=> AllReleased(w, Target(e))
    BY <1>1 DEF LockFree, Between, AllReleased, ReleasedAfter, On
<1> QED
    BY <1>2, <1>3 DEF a

LEMMA ReadRule ==
    ASSUME NEW w \in Seq(EID), NEW e \in EID
    PROVE  /\ \A n \in DOMAIN w : ReadsLast(Append(w, e), n) <=> ReadsLast(w, n)
           /\ ReadsLast(Append(w, e), Len(w) + 1) <=>
                  \A m \in DOMAIN w : LastAccess(w, Target(e), m) => Value(w[m]) = Value(e)
<1> DEFINE a == Append(w, e)
<1>1. /\ DOMAIN w = 1 .. Len(w) /\ Len(w) \in Nat
      /\ \A n \in DOMAIN w : a[n] = w[n]
      /\ a[Len(w) + 1] = e
    BY LastPosition
<1> HIDE DEF a
<1>2. ASSUME NEW n \in DOMAIN w PROVE ReadsLast(a, n) <=> ReadsLast(w, n)
    <2>1. \A x : \A m \in 0 .. n : Between(a, m, n, {"Read", "Write"}, x) =
                                   Between(w, m, n, {"Read", "Write"}, x)
        BY <1>1 DEF Between
    <2> DEFINE types == {"Read", "Write"}
               x == Target(w[n])
    <2>2. a[n] = w[n] /\ n \in Nat /\ n > 0 /\ 0 \in 0 .. n
        BY <1>1
    <2>3. Between(a, 0, n, types, x) = Between(w, 0, n, types, x)
        BY <2>1, <2>2
    <2>4. ASSUME NEW m \in Between(w, 0, n, types, x)
          PROVE  m \in 0 .. n /\ a[m] = w[m]
        BY <1>1, <2>2 DEF Between
    <2>5. \A m \in Between(w, 0, n, types, x) :
              Between(a, m, n, types, x) = Between(w, m, n, types, x)
        BY <2>1, <2>4
    <2> HIDE DEF x, types
    <2>6. \A m \in Between(w, 0, n, types, x) : Value(a[m]) = Value(w[m])
        BY <2>4
    <2>7. ReadsLast(a, n) <=> \A m \in Between(a, 0, n, types, x) :
              Between(a, m, n, types, x) = {} => Value(a[m]) = Value(w[n])
        BY <2>2, Zenon DEF ReadsLast, x, types
    <2>8. ReadsLast(w, n) <=> \A m \in Between(w, 0, n, types, x) :
              Between(w, m, n, types, x) = {} => Value(w[m]) = Value(w[n])
        BY Zenon DEF ReadsLast, x, types
    <2> QED
        BY <2>3, <2>5, <2>6, <2>7, <2>8
<1>3. ReadsLast(a, Len(w) + 1) <=>
          \A m \in DOMAIN w : LastAccess(w, Target(e), m) => Value(w[m]) = Value(e)
    <2> DEFINE n == Len(w) + 1
               x == Target(e)
    <2>1. \A m \in Between(a, 0, n, {"Read", "Write"}, x) : m \in DOMAIN w /\ IsAccess(w[m], x)
        BY <1>1 DEF Between, IsAccess
    <2>2. \A m \in DOMAIN w : IsAccess(w[m], x) => m \in Between(a, 0, n, {"Read", "Write"}, x)
        BY <1>1 DEF Between, IsAccess
    <2>3. \A m \in DOMAIN w : IsAccess(w[m], x) =>
              (Between(a, m, n, {"Read", "Write"}, x) = {} <=> LastAccess(w, x, m))
        BY <1>1 DEF Between, IsAccess, LastAccess
    <2> QED
        BY <1>1, <2>1, <2>2, <2>3 DEF ReadsLast, LastAccess
<1> QED
    BY <1>2, <1>3 DEF a

\* An element appended to a legal order keeps it legal exactly when the rules
\* hold of it.
LEMMA LegalAppend ==
    ASSUME NEW w \in Seq(EID), NEW e \in EID, Legal(w)
    PROVE  Legal(Append(w, e)) <=>
               /\ \A d \in 1 .. e - 1 : Tid(d) = Tid(e) => d \in RangeOf(w)
               /\ Type(e) = "Acquire" => AllReleased(w, Target(e))
               /\ Type(e) = "Read" =>
                      \A m \in DOMAIN w : LastAccess(w, Target(e), m) => Value(w[m]) = Value(e)
<1> DEFINE a == Append(w, e)
<1>1. /\ DOMAIN a = DOMAIN w \cup {Len(w) + 1}
      /\ \A n \in DOMAIN w : a[n] = w[n]
      /\ a[Len(w) + 1] = e
    BY LastPosition
<1>2. /\ \A n \in DOMAIN w : InThreadOrder(a, n) <=> InThreadOrder(w, n)
      /\ InThreadOrder(a, Len(w) + 1) <=>
             \A d \in 1 .. e - 1 : Tid(d) = Tid(e) => d \in RangeOf(w)
    BY ThreadRule
<1>3. /\ \A n \in DOMAIN w : LockFree(a, n) <=> LockFree(w, n)
      /\ LockFree(a, Len(w) + 1) <=> AllReleased(w, Target(e))
    BY LockRule
<1>4. /\ \A n \in DOMAIN w : ReadsLast(a, n) <=> ReadsLast(w, n)
      /\ ReadsLast(a, Len(w) + 1) <=>
             \A m \in DOMAIN w : LastAccess(w, Target(e), m) => Value(w[m]) = Value(e)
    BY ReadRule
<1> HIDE DEF a
<1>5. ThreadsLegal(a) <=> \A d \in 1 .. e - 1 : Tid(d) = Tid(e) => d \in RangeOf(w)
    BY <1>1, <1>2 DEF ThreadsLegal, Legal
<1>6. LocksLegal(a) <=> (Type(e) = "Acquire" => AllReleased(w, Target(e)))
    BY <1>1, <1>3 DEF LocksLegal, Legal
<1>7. ReadsLegal(a) <=>
          (Type(e) = "Read" =>
              \A m \in DOMAIN w : LastAccess(w, Target(e), m) => Value(w[m]) = Value(e))
    BY <1>1, <1>4 DEF ReadsLegal, Legal
<1> QED
    BY <1>5, <1>6, <1>7 DEF Legal, a
-----------------------------------------------------------------------------
(* One element: each check decides its rule, and the maps stay exact.      *)

LEMMA EIDNat == EID \in SUBSET Nat
BY DEF EID

LEMMA IncreasingInjective ==
    ASSUME NEW S \in SUBSET Nat, NEW s \in Seq(S), Increasing(s)
    PROVE  \A m, n \in DOMAIN s : s[m] = s[n] => m = n
<1>1. ASSUME NEW m \in DOMAIN s, NEW n \in DOMAIN s, m < n PROVE s[m] # s[n]
    <2>1. s[m] < s[n]
        BY <1>1 DEF Increasing
    <2>2. s[m] \in S /\ s[n] \in S
        OBVIOUS
    <2>3. s[m] \in Nat /\ s[n] \in Nat
        BY <2>2
    <2> QED
        BY <2>1, <2>3
<1>2. DOMAIN s \subseteq Nat
    OBVIOUS
<1> QED
    BY <1>1, <1>2

\* The thread check passes exactly the next event of its thread.
LEMMA ThreadVerdict ==
    ASSUME IInv, ThreadsOrdered, EventsWellFormed,
           NEW w \in Seq(EID), NEW e \in EID, e \notin RangeOf(w),
           NEW k, TrackerOK(w, Tid(e), k)
    PROVE  k + 1 \in DOMAIN EventsOf(Tid(e)) /\ EventsOf(Tid(e))[k + 1] = e <=>
               \A d \in 1 .. e - 1 : Tid(d) = Tid(e) => d \in RangeOf(w)
<1> DEFINE t == Tid(e)
           s == EventsOf(t)
<1>1. t \in Threads
    BY DEF EventsWellFormed, WellFormed
<1>2. s \in Seq(EID) /\ Increasing(s) /\ RangeOf(s) = ThreadEvents(t)
    BY <1>1 DEF IInv, TypeOK, EventsOf, ThreadsOrdered
<1>3. EID = 1 .. Len(all_events) /\ Len(all_events) \in Nat
    BY DEF EID, IInv, TypeOK
<1>4. /\ DOMAIN s = 1 .. Len(s) /\ Len(s) \in Nat
      /\ \A j \in DOMAIN s : s[j] \in EID /\ s[j] \in Nat
    BY <1>2, <1>3
<1>5. /\ k \in 0 .. Len(s)
      /\ \A j \in DOMAIN s : s[j] \in RangeOf(w) <=> j <= k
    BY DEF TrackerOK
<1>6. PICK i \in DOMAIN s : s[i] = e
    BY <1>2 DEF RangeOf, ThreadEvents
<1>7. i > k /\ i \in Nat /\ k \in Nat
    BY <1>4, <1>5, <1>6
<1>8. ASSUME NEW d \in 1 .. e - 1, Tid(d) = t
      PROVE  \E j \in DOMAIN s : s[j] = d /\ j < i
    <2>1. d \in EID /\ d < e
        BY <1>3
    <2>2. PICK j \in DOMAIN s : s[j] = d
        BY <1>2, <1>8, <2>1 DEF RangeOf, ThreadEvents
    <2>3. j < i
        BY <1>2, <1>4, <1>6, <2>1, <2>2 DEF Increasing
    <2> QED
        BY <2>2, <2>3
<1>9. ASSUME k + 1 \in DOMAIN s, s[k + 1] = e, NEW d \in 1 .. e - 1, Tid(d) = t
      PROVE  d \in RangeOf(w)
    <2>1. PICK j \in DOMAIN s : s[j] = d /\ j < i
        BY <1>8, <1>9
    <2>2. i = k + 1
        BY <1>2, <1>3, <1>4, <1>6, <1>9, EIDNat, IncreasingInjective
    <2>3. j <= k
        BY <1>4, <1>7, <2>1, <2>2
    <2> QED
        BY <1>5, <2>1, <2>3
<1>10. ASSUME \A d \in 1 .. e - 1 : Tid(d) = t => d \in RangeOf(w), k + 1 # i
       PROVE  FALSE
    <2>1. k + 1 \in DOMAIN s /\ k + 1 < i
        BY <1>4, <1>7, <1>10
    <2>2. s[k + 1] < e /\ s[k + 1] \in EID
        BY <1>2, <1>4, <1>6, <2>1 DEF Increasing
    <2>3. Tid(s[k + 1]) = t
        BY <1>2, <2>1 DEF RangeOf, ThreadEvents
    <2>4. s[k + 1] \in RangeOf(w)
        BY <1>3, <1>10, <2>2, <2>3
    <2> QED
        BY <1>5, <1>7, <2>1, <2>4
<1> QED
    BY <1>6, <1>9, <1>10

LEMMA TrackerNext ==
    ASSUME IInv, ThreadsOrdered,
           NEW w \in Seq(EID), NEW e \in EID,
           NEW t \in Threads, NEW k, TrackerOK(w, t, k),
           t = Tid(e) => k + 1 \in DOMAIN EventsOf(t) /\ EventsOf(t)[k + 1] = e
    PROVE  TrackerOK(Append(w, e), t, IF t = Tid(e) THEN k + 1 ELSE k)
<1> DEFINE s == EventsOf(t)
           R == RangeOf(Append(w, e))
<1>1. s \in Seq(EID) /\ Increasing(s) /\ RangeOf(s) = ThreadEvents(t)
    BY DEF IInv, TypeOK, EventsOf, ThreadsOrdered
<1>2. EID = 1 .. Len(all_events) /\ Len(all_events) \in Nat
    BY DEF EID, IInv, TypeOK
<1>3. /\ DOMAIN s = 1 .. Len(s) /\ Len(s) \in Nat
      /\ \A j \in DOMAIN s : s[j] \in EID /\ s[j] \in Nat /\ Tid(s[j]) = t
    BY <1>1, <1>2 DEF RangeOf, ThreadEvents
<1>4. /\ k \in 0 .. Len(s)
      /\ \A j \in DOMAIN s : s[j] \in RangeOf(w) <=> j <= k
    BY DEF TrackerOK
<1>5. R = RangeOf(w) \cup {e}
    BY LastPosition
<1> HIDE DEF R
<1>6. CASE t = Tid(e)
    <2>1. k + 1 \in DOMAIN s /\ s[k + 1] = e
        BY <1>6
    <2>2. \A j \in DOMAIN s : s[j] = e <=> j = k + 1
        BY <1>1, <1>2, <1>3, <2>1, EIDNat, IncreasingInjective
    <2>3. \A j \in DOMAIN s : s[j] \in R <=> j <= k + 1
        BY <1>3, <1>4, <1>5, <2>2
    <2> QED
        BY <1>3, <1>4, <1>6, <2>1, <2>3 DEF TrackerOK, R
<1>7. CASE t # Tid(e)
    <2>1. \A j \in DOMAIN s : s[j] # e
        BY <1>3, <1>7
    <2> QED
        BY <1>4, <1>5, <1>7, <2>1 DEF TrackerOK, R
<1> QED
    BY <1>6, <1>7

\* The region a release closes: its acquire, and no event of the lock between.
LEMMA RegionOf ==
    ASSUME IInv, ReleasesRecorded, NEW e \in EID, Type(e) = "Release"
    PROVE  \E a \in EID : /\ a < e /\ Tid(a) = Tid(e) /\ On("Acquire", a, Target(e))
                          /\ \A d \in EID : OnLock(d, Target(e)) /\ a < d => e <= d
<1> DEFINE l == Target(e)
           R == lock_id_to_lock_region[l]
<1>1. l \in Locks /\ \E n \in DOMAIN R : R[n].rel = e
    BY DEF ReleasesRecorded
<1>2. PICK n \in DOMAIN R : R[n].rel = e
    BY <1>1
<1>3. /\ \A k \in DOMAIN R : RegionOK(R[k], l)
      /\ \A j, k \in DOMAIN R : j < k => R[j].rel < R[k].acq
      /\ R \in Seq([acq : EID, rel : EID])
    BY <1>1 DEF IInv, LocksInv, LockOK, TypeOK
<1>4. DOMAIN R \subseteq Nat /\ EID \subseteq Nat
    BY <1>3, EIDNat
<1> HIDE DEF R
<1>5. /\ R[n].acq \in EID /\ R[n].acq < e /\ Tid(R[n].acq) = Tid(e) /\ OnLock(R[n].acq, l)
      /\ \A d \in EID : OnLock(d, l) /\ R[n].acq < d => e <= d
    BY <1>2, <1>3 DEF RegionOK
<1>6. ASSUME Type(R[n].acq) = "Release" PROVE FALSE
    <2>1. PICK k \in DOMAIN R : R[k].rel = R[n].acq
        BY <1>5, <1>6 DEF ReleasesRecorded, OnLock, R
    <2>2. /\ R[k].acq \in Nat /\ R[k].rel \in Nat /\ R[k].acq < R[k].rel
          /\ R[n].acq \in Nat /\ R[n].rel \in Nat /\ R[n].acq < R[n].rel
        BY <1>3, <1>4 DEF RegionOK
    <2>3. k # n
        BY <2>1, <2>2
    <2>4. ~(k < n)
        BY <1>3, <2>1, <2>2
    <2>5. ~(n < k)
        <3>1. n < k => R[n].rel < R[k].acq
            BY <1>3
        <3> QED
            BY <2>1, <2>2, <3>1
    <2> QED
        BY <1>4, <2>3, <2>4, <2>5
<1> QED
    BY <1>5, <1>6 DEF OnLock, On

\* In a legal order the events of a thread keep their order.
LEMMA ThreadPositions ==
    ASSUME NEW w \in Seq(EID), Legal(w), Distinct(w),
           NEW p \in DOMAIN w, NEW q \in DOMAIN w, Tid(w[p]) = Tid(w[q])
    PROVE  p < q <=> w[p] < w[q]
<1>1. /\ DOMAIN w = 1 .. Len(w) /\ Len(w) \in Nat
      /\ w[p] \in Nat /\ w[q] \in Nat /\ w[p] \in EID /\ w[q] \in EID
      /\ 1 <= w[p] /\ 1 <= w[q]
    BY DEF EID
<1>2. ASSUME NEW i \in DOMAIN w, NEW j \in DOMAIN w, Tid(w[i]) = Tid(w[j]), w[i] < w[j]
      PROVE  i < j
    <2>1. w[i] \in 1 .. w[j] - 1 /\ InThreadOrder(w, j)
        BY <1>1, <1>2 DEF EID, Legal, ThreadsLegal
    <2>2. PICK k \in 1 .. j - 1 : w[k] = w[i]
        BY <1>2, <2>1 DEF InThreadOrder
    <2>3. k \in DOMAIN w
        BY <1>1
    <2>4. k = i
        BY <2>2, <2>3 DEF Distinct
    <2> QED
        BY <1>1, <2>4
<1>3. w[p] < w[q] => p < q
    BY <1>2
<1>4. w[q] < w[p] => q < p
    BY <1>2
<1>5. w[p] = w[q] => p = q
    BY DEF Distinct
<1> QED
    BY <1>1, <1>3, <1>4, <1>5

\* No release of the thread comes inside its region.
LEMMA RegionClosed ==
    ASSUME IInv, NEW w \in Seq(EID), Legal(w), Distinct(w),
           NEW e \in EID, NEW a \in EID, Tid(a) = Tid(e), On("Acquire", a, Target(e)),
           \A d \in EID : OnLock(d, Target(e)) /\ a < d => e <= d,
           NEW m \in DOMAIN w, w[m] = a,
           NEW p \in DOMAIN w, m < p, On("Release", w[p], Target(e)), Tid(w[p]) = Tid(e)
    PROVE  e <= w[p]
<1>1. w[m] < w[p]
    BY ThreadPositions
<1>2. w[p] \in EID /\ OnLock(w[p], Target(e))
    BY DEF On, OnLock
<1> QED
    BY <1>1, <1>2

\* A release whose thread has run its events finds the lock taken by itself:
\* the region it closes is open in every legal order that ends before it.
LEMMA ReleaseVerdict ==
    ASSUME IInv, ReleasesRecorded, NEW w \in Seq(EID), Legal(w), Distinct(w),
           NEW e \in EID, e \notin RangeOf(w), Type(e) = "Release",
           \A d \in 1 .. e - 1 : Tid(d) = Tid(e) => d \in RangeOf(w)
    PROVE  \E m \in DOMAIN w : HeldSince(w, Target(e), m) /\ Tid(w[m]) = Tid(e)
<1> DEFINE l == Target(e)
           t == Tid(e)
<1>1. /\ EID = 1 .. Len(all_events) /\ Len(all_events) \in Nat
      /\ DOMAIN w = 1 .. Len(w) /\ Len(w) \in Nat
      /\ \A k \in DOMAIN w : w[k] \in EID /\ w[k] \in Nat
    BY DEF EID, IInv, TypeOK
<1>2. PICK a \in EID : /\ a < e /\ Tid(a) = t /\ On("Acquire", a, l)
                       /\ \A d \in EID : OnLock(d, l) /\ a < d => e <= d
    BY RegionOf
<1>3. PICK m \in DOMAIN w : w[m] = a
    BY <1>1, <1>2 DEF RangeOf
<1>4. ASSUME NEW p \in DOMAIN w, m < p, On("Release", w[p], l), Tid(w[p]) = t
      PROVE  FALSE
    <2>1. e <= w[p] /\ w[p] # e
        BY <1>2, <1>3, <1>4, RegionClosed DEF RangeOf
    <2>2. e \in 1 .. w[p] - 1 /\ InThreadOrder(w, p)
        BY <1>1, <2>1 DEF Legal, ThreadsLegal
    <2>3. PICK k \in 1 .. p - 1 : w[k] = e
        BY <1>4, <2>2 DEF InThreadOrder
    <2>4. k \in DOMAIN w
        BY <1>1
    <2> QED
        BY <2>3, <2>4 DEF RangeOf
<1>5. ASSUME NEW p \in DOMAIN w, m < p PROVE ~On("Acquire", w[p], l)
    <2> SUFFICES ASSUME On("Acquire", w[p], l) PROVE FALSE
        OBVIOUS
    <2>1. LockFree(w, p) /\ Target(w[p]) = l
        BY DEF Legal, LocksLegal, On
    <2>2. PICK q \in Between(w, m, p, {"Release"}, l) : Tid(w[q]) = t
        <3>1. m \in 1 .. p - 1 /\ On("Acquire", w[m], Target(w[p]))
            BY <1>1, <1>2, <1>3, <1>5, <2>1
        <3> QED
            BY <1>2, <1>3, <2>1, <3>1 DEF LockFree
    <2>3. q \in DOMAIN w /\ m < q /\ On("Release", w[q], l)
        BY <1>1, <2>2 DEF Between, On
    <2> QED
        BY <1>4, <2>2, <2>3
<1>6. ASSUME NEW p \in DOMAIN w, m < p, On("Release", w[p], l) PROVE FALSE
    <2> DEFINE d == w[p]
    <2>1. d \in EID /\ Type(d) = "Release" /\ Target(d) = l
        BY <1>1, <1>6 DEF On
    <2>2. PICK b \in EID : /\ b < d /\ Tid(b) = Tid(d) /\ On("Acquire", b, l)
                           /\ \A c \in EID : OnLock(c, l) /\ b < c => d <= c
        BY <2>1, RegionOf
    <2>3. b \in 1 .. d - 1 /\ InThreadOrder(w, p)
        BY <1>1, <2>2 DEF Legal, ThreadsLegal
    <2>4. PICK q \in 1 .. p - 1 : w[q] = b
        BY <2>2, <2>3 DEF InThreadOrder
    <2>5. q \in DOMAIN w
        BY <1>1
    <2>6. q # m
        BY <1>2, <1>3, <1>4, <1>6, <2>2, <2>4
    <2>7. ~(m < q)
        BY <1>5, <2>2, <2>4, <2>5
    <2>8. q < m
        BY <1>1, <2>5, <2>6, <2>7
    <2>9. LockFree(w, m) /\ Target(w[m]) = l
        BY <1>2, <1>3 DEF Legal, LocksLegal, On
    <2>10. PICK r \in Between(w, q, m, {"Release"}, l) : Tid(w[r]) = Tid(b)
        <3>1. q \in 1 .. m - 1 /\ On("Acquire", w[q], Target(w[m]))
            BY <1>1, <2>2, <2>4, <2>5, <2>8, <2>9
        <3> QED
            BY <2>4, <2>9, <3>1 DEF LockFree
    <2>11. r \in DOMAIN w /\ q < r /\ r < p /\ On("Release", w[r], l)
        <3>1. r \in q + 1 .. m - 1 /\ Type(w[r]) = "Release" /\ Target(w[r]) = l
            BY <2>10 DEF Between
        <3>2. q \in Nat /\ m \in Nat /\ p \in Nat /\ 1 <= q /\ m <= Len(w)
            BY <1>1
        <3>3. r \in DOMAIN w /\ q < r /\ r < p
            BY <1>1, <1>6, <3>1, <3>2
        <3> QED
            BY <3>1, <3>3 DEF On
    <2>12. d <= w[r]
        BY <2>1, <2>2, <2>4, <2>5, <2>10, <2>11, RegionClosed
    <2>13. w[r] < d
        BY <2>2, <2>10, <2>11, ThreadPositions
    <2> QED
        BY <1>1, <2>1, <2>11, <2>12, <2>13
<1> QED
    BY <1>2, <1>3, <1>5, <1>6 DEF HeldSince, OnLock, On

LEMMA LockKept ==
    ASSUME NEW w \in Seq(EID), NEW e \in EID, NEW l, NEW s, NEW t, LockSeen(w, l, s, t), ~OnLock(e, l)
    PROVE  LockSeen(Append(w, e), l, s, t)
<1> DEFINE a == Append(w, e)
<1>1. /\ DOMAIN w = 1 .. Len(w) /\ Len(w) \in Nat
      /\ DOMAIN a = DOMAIN w \cup {Len(w) + 1}
      /\ \A n \in DOMAIN w : a[n] = w[n]
      /\ a[Len(w) + 1] = e
    BY LastPosition
<1> HIDE DEF a
<1>2. CASE s = "taken"
    <2>1. PICK m \in DOMAIN w : HeldSince(w, l, m) /\ Tid(w[m]) = t
        BY <1>2 DEF LockSeen
    <2>2. HeldSince(a, l, m) /\ Tid(a[m]) = t
        BY <1>1, <2>1 DEF HeldSince
    <2> QED
        BY <1>1, <1>2, <2>2 DEF LockSeen, a
<1>3. CASE s # "taken"
    <2>1. AllReleased(w, l)
        BY <1>3 DEF LockSeen
    <2>2. AllReleased(a, l)
        BY <1>1, <2>1 DEF AllReleased, ReleasedAfter, On, OnLock
    <2> QED
        BY <1>3, <2>2 DEF LockSeen, a
<1> QED
    BY <1>2, <1>3

LEMMA LockTaken ==
    ASSUME NEW w \in Seq(EID), NEW e \in EID, NEW l, On("Acquire", e, l)
    PROVE  LockSeen(Append(w, e), l, "taken", Tid(e))
<1> DEFINE a == Append(w, e)
<1>1. /\ DOMAIN w = 1 .. Len(w) /\ Len(w) \in Nat
      /\ DOMAIN a = DOMAIN w \cup {Len(w) + 1}
      /\ a[Len(w) + 1] = e
    BY LastPosition
<1> HIDE DEF a
<1>2. HeldSince(a, l, Len(w) + 1)
    BY <1>1 DEF HeldSince
<1> QED
    BY <1>1, <1>2 DEF LockSeen, a

LEMMA LockReleased ==
    ASSUME NEW w \in Seq(EID), LocksLegal(w), NEW e \in EID, NEW l, On("Release", e, l),
           NEW m \in DOMAIN w, HeldSince(w, l, m), Tid(w[m]) = Tid(e), NEW t
    PROVE  LockSeen(Append(w, e), l, "available", t)
<1> DEFINE a == Append(w, e)
<1>1. /\ DOMAIN w = 1 .. Len(w) /\ Len(w) \in Nat
      /\ DOMAIN a = DOMAIN w \cup {Len(w) + 1}
      /\ \A n \in DOMAIN w : a[n] = w[n]
      /\ a[Len(w) + 1] = e
    BY LastPosition
<1> HIDE DEF a
<1>2. ASSUME NEW k \in DOMAIN a, On("Acquire", a[k], l)
      PROVE  ReleasedAfter(a, l, k)
    <2>1. k \in DOMAIN w
        BY <1>1, <1>2 DEF On
    <2>2. k <= m
        BY <1>1, <1>2, <2>1 DEF On, OnLock, HeldSince
    <2>3. CASE k = m
        BY <1>1, <2>3 DEF ReleasedAfter
    <2>4. CASE k < m
        <3>1. LockFree(w, m) /\ Target(w[m]) = l
            BY DEF LocksLegal, HeldSince, On
        <3>2. PICK p \in Between(w, k, m, {"Release"}, l) : Tid(w[p]) = Tid(w[k])
            BY <1>1, <1>2, <2>1, <2>4, <3>1 DEF LockFree
        <3>3. p \in DOMAIN w /\ k < p /\ On("Release", w[p], l)
            BY <1>1, <2>1, <3>2 DEF Between, On
        <3> QED
            BY <1>1, <2>1, <3>2, <3>3 DEF ReleasedAfter
    <2> QED
        BY <1>1, <2>1, <2>2, <2>3, <2>4
<1> QED
    BY <1>2 DEF LockSeen, AllReleased, a

\* The read check passes exactly the reads of the last value.
LEMMA ReadVerdict ==
    ASSUME NEW w \in Seq(EID), NEW x, NEW v, NEW u, ValueSeen(w, x, v)
    PROVE  v \in {NoValue, u} <=> \A m \in DOMAIN w : LastAccess(w, x, m) => Value(w[m]) = u
<1>1. DOMAIN w \subseteq Nat
    OBVIOUS
<1>2. \A m, n \in DOMAIN w : LastAccess(w, x, m) /\ LastAccess(w, x, n) => m = n
    BY <1>1 DEF LastAccess
<1>3. CASE v = NoValue
    BY <1>3 DEF ValueSeen, LastAccess
<1>4. CASE v # NoValue
    BY <1>2, <1>4 DEF ValueSeen
<1> QED
    BY <1>3, <1>4

LEMMA ValueKept ==
    ASSUME NEW w \in Seq(EID), NEW e \in EID, NEW x, NEW v, ValueSeen(w, x, v), ~IsAccess(e, x)
    PROVE  ValueSeen(Append(w, e), x, v)
<1> DEFINE a == Append(w, e)
<1>1. /\ DOMAIN a = DOMAIN w \cup {Len(w) + 1}
      /\ \A n \in DOMAIN w : a[n] = w[n]
      /\ a[Len(w) + 1] = e
    BY LastPosition
<1> HIDE DEF a
<1>2. CASE v = NoValue
    BY <1>1, <1>2 DEF ValueSeen, a
<1>3. CASE v # NoValue
    <2>1. PICK m \in DOMAIN w : LastAccess(w, x, m) /\ Value(w[m]) = v
        BY <1>3 DEF ValueSeen
    <2>2. LastAccess(a, x, m) /\ Value(a[m]) = v /\ m \in DOMAIN a
        BY <1>1, <2>1 DEF LastAccess
    <2> QED
        BY <1>3, <2>2 DEF ValueSeen, a
<1> QED
    BY <1>2, <1>3

LEMMA ValueSet ==
    ASSUME NEW w \in Seq(EID), NEW e \in EID, NEW x, IsAccess(e, x), Value(e) # NoValue
    PROVE  ValueSeen(Append(w, e), x, Value(e))
<1> DEFINE a == Append(w, e)
<1>1. /\ DOMAIN w = 1 .. Len(w) /\ Len(w) \in Nat
      /\ DOMAIN a = DOMAIN w \cup {Len(w) + 1}
      /\ a[Len(w) + 1] = e
    BY LastPosition
<1> HIDE DEF a
<1>2. LastAccess(a, x, Len(w) + 1) /\ Value(a[Len(w) + 1]) = Value(e)
    BY <1>1 DEF LastAccess
<1> QED
    BY <1>1, <1>2 DEF ValueSeen, a
-----------------------------------------------------------------------------
(* The iterations.                                                         *)

\* An element passes the checks exactly when it keeps the order legal.
LEMMA ElementVerdict ==
    ASSUME VerdictInv, MapsExact, NEW e \in EID, e \notin RangeOf(witness)
    PROVE  Consistent(e) <=> Legal(Append(witness, e))
<1> DEFINE l == Target(e)
           Before_e == \A d \in 1 .. e - 1 : Tid(d) = Tid(e) => d \in RangeOf(witness)
<1>1. /\ IInv /\ EventsWellFormed /\ ThreadsOrdered /\ ReleasesRecorded
      /\ witness \in Seq(EID) /\ Distinct(witness) /\ Legal(witness)
    BY DEF VerdictInv, TraceInv, MapsExact
<1>2. WellFormed(e)
    BY <1>1 DEF EventsWellFormed
<1>3. TrackerOK(witness, Tid(e), threadEventTracker[Tid(e)])
    BY <1>2 DEF MapsExact, WellFormed
<1>4. ThreadCheck(e) <=> Before_e
    BY <1>1, <1>3, ThreadVerdict DEF ThreadCheck
<1>5. Legal(Append(witness, e)) <=>
          /\ Before_e
          /\ Type(e) = "Acquire" => AllReleased(witness, l)
          /\ Type(e) = "Read" =>
                 \A m \in DOMAIN witness : LastAccess(witness, l, m) => Value(witness[m]) = Value(e)
    BY <1>1, LegalAppend
<1> HIDE DEF Before_e
<1>6. Type(e) = "Acquire" => (lockIdToLockStatus[l] # "taken" <=> AllReleased(witness, l))
    <2> SUFFICES ASSUME Type(e) = "Acquire"
                 PROVE  lockIdToLockStatus[l] # "taken" <=> AllReleased(witness, l)
        OBVIOUS
    <2>1. LockSeen(witness, l, lockIdToLockStatus[l], lockIdToThread[l])
        BY <1>2 DEF MapsExact, WellFormed
    <2>2. ASSUME NEW m \in DOMAIN witness, HeldSince(witness, l, m), AllReleased(witness, l)
          PROVE  FALSE
        BY <2>2 DEF HeldSince, AllReleased, ReleasedAfter, On, OnLock
    <2> QED
        BY <2>1, <2>2 DEF LockSeen
<1>7. ASSUME Type(e) = "Release", Before_e
      PROVE  lockIdToLockStatus[l] = "taken" /\ lockIdToThread[l] = Tid(e)
    <2>1. LockSeen(witness, l, lockIdToLockStatus[l], lockIdToThread[l])
        BY <1>2, <1>7 DEF MapsExact, WellFormed
    <2>2. PICK m \in DOMAIN witness : HeldSince(witness, l, m) /\ Tid(witness[m]) = Tid(e)
        BY <1>1, <1>7, ReleaseVerdict DEF Before_e
    <2>3. DOMAIN witness \subseteq Nat
        BY <1>1
    <2>4. ~AllReleased(witness, l)
        BY <2>2 DEF HeldSince, AllReleased, ReleasedAfter, On, OnLock
    <2>5. PICK n \in DOMAIN witness : HeldSince(witness, l, n) /\ Tid(witness[n]) = lockIdToThread[l]
        BY <2>1, <2>4 DEF LockSeen
    <2>6. m = n
        BY <2>2, <2>3, <2>5 DEF HeldSince, On, OnLock
    <2> QED
        BY <2>1, <2>2, <2>4, <2>5, <2>6 DEF LockSeen
<1>8. Type(e) = "Read" =>
          (variableIdToVal[l] \in {NoValue, Value(e)} <=>
              \A m \in DOMAIN witness : LastAccess(witness, l, m) => Value(witness[m]) = Value(e))
    <2> SUFFICES ASSUME Type(e) = "Read"
                 PROVE  variableIdToVal[l] \in {NoValue, Value(e)} <=>
                            \A m \in DOMAIN witness :
                                LastAccess(witness, l, m) => Value(witness[m]) = Value(e)
        OBVIOUS
    <2>1. ValueSeen(witness, l, variableIdToVal[l])
        BY <1>2 DEF MapsExact, WellFormed
    <2> QED
        BY <1>1, <2>1, ReadVerdict
<1> QED
    BY <1>4, <1>5, <1>6, <1>7, <1>8 DEF Consistent, LockCheck, ReadCheck

\* What is said of a sequence does not change while the trace does not.
LEMMA SameTrace ==
    ASSUME UNCHANGED traceObject, NEW w, witness' = w
    PROVE  /\ Legal(witness)' <=> Legal(w)
           /\ \A t \in Threads : TrackerOK(witness, t, threadEventTracker[t])' <=>
                  TrackerOK(w, t, threadEventTracker'[t])
           /\ \A l \in Locks : LockSeen(witness, l, lockIdToLockStatus[l], lockIdToThread[l])' <=>
                  LockSeen(w, l, lockIdToLockStatus'[l], lockIdToThread'[l])
           /\ \A x \in Vars : ValueSeen(witness, x, variableIdToVal[x])' <=>
                  ValueSeen(w, x, variableIdToVal'[x])
<1>1. all_events' = all_events /\ thread_id_to_thread' = thread_id_to_thread
    BY DEF traceObject
<1>2. Legal(witness)' <=> Legal(w)
    BY <1>1 DEF Legal, ThreadsLegal, LocksLegal, ReadsLegal, InThreadOrder, LockFree, ReadsLast,
        Between, On, Tid, Type, Target, Value
<1>3. \A t \in Threads : TrackerOK(witness, t, threadEventTracker[t])' <=>
          TrackerOK(w, t, threadEventTracker'[t])
    BY <1>1 DEF TrackerOK, EventsOf, RangeOf
<1>4. \A l \in Locks : LockSeen(witness, l, lockIdToLockStatus[l], lockIdToThread[l])' <=>
          LockSeen(w, l, lockIdToLockStatus'[l], lockIdToThread'[l])
    BY <1>1 DEF LockSeen, HeldSince, AllReleased, ReleasedAfter, On, OnLock, Tid, Type, Target
<1>5. \A x \in Vars : ValueSeen(witness, x, variableIdToVal[x])' <=>
          ValueSeen(w, x, variableIdToVal'[x])
    BY <1>1 DEF ValueSeen, LastAccess, IsAccess, Type, Target, Value
<1> QED
    BY <1>2, <1>3, <1>4, <1>5

LEMMA ReplayMaps ==
    ASSUME VerdictInv, MapsExact, NEW e \in EID, Replay(e)
    PROVE  MapsExact'
<1> DEFINE a == Append(witness, e)
<1>1. /\ IInv /\ EventsWellFormed /\ ThreadsOrdered /\ ReplayTypeOK
      /\ witness \in Seq(EID) /\ Legal(witness)
    BY DEF VerdictInv, TraceInv, MapsExact
<1>2. e \notin RangeOf(witness) /\ Consistent(e) /\ UNCHANGED traceObject /\ witness' = a
    BY DEF Replay, NextElement
<1>3. WellFormed(e)
    BY <1>1 DEF EventsWellFormed
<1>4. Legal(a)
    BY <1>2, ElementVerdict
<1>5. ASSUME NEW t \in Threads PROVE TrackerOK(a, t, threadEventTracker'[t])
    <2>1. threadEventTracker'[t] =
              IF t = Tid(e) THEN threadEventTracker[t] + 1 ELSE threadEventTracker[t]
        BY <1>1 DEF Replay, ReplayTypeOK
    <2>2. TrackerOK(witness, t, threadEventTracker[t])
        BY DEF MapsExact
    <2>3. t = Tid(e) => /\ threadEventTracker[t] + 1 \in DOMAIN EventsOf(t)
                        /\ EventsOf(t)[threadEventTracker[t] + 1] = e
        BY <1>2 DEF Consistent, ThreadCheck
    <2> QED
        BY <1>1, <2>1, <2>2, <2>3, TrackerNext
<1>6. ASSUME NEW l \in Locks PROVE LockSeen(a, l, lockIdToLockStatus'[l], lockIdToThread'[l])
    <2>1. LockSeen(witness, l, lockIdToLockStatus[l], lockIdToThread[l])
        BY DEF MapsExact
    <2>2. CASE On("Acquire", e, l)
        <3>1. lockIdToLockStatus'[l] = "taken" /\ ~On("Release", e, l)
            BY <2>2 DEF Replay, On
        <3>2. lockIdToThread'[l] = Tid(e)
            BY <2>2 DEF Replay
        <3> QED
            BY <1>1, <2>2, <3>1, <3>2, LockTaken
    <2>3. CASE On("Release", e, l)
        <3>1. lockIdToLockStatus'[l] = "available" /\ ~On("Acquire", e, l)
            BY <2>3 DEF Replay, On
        <3>2. lockIdToLockStatus[l] = "taken" /\ lockIdToThread[l] = Tid(e)
            BY <1>2, <2>3 DEF Consistent, LockCheck, On
        <3>3. PICK m \in DOMAIN witness : HeldSince(witness, l, m) /\ Tid(witness[m]) = Tid(e)
            BY <2>1, <3>2 DEF LockSeen
        <3>4. LocksLegal(witness)
            BY <1>1 DEF Legal
        <3> QED
            BY <1>1, <2>3, <3>1, <3>3, <3>4, LockReleased
    <2>4. CASE ~On("Acquire", e, l) /\ ~On("Release", e, l)
        <3>1. /\ lockIdToLockStatus'[l] = lockIdToLockStatus[l]
              /\ lockIdToThread'[l] = lockIdToThread[l]
            BY <2>4 DEF Replay
        <3>2. ~OnLock(e, l)
            BY <2>4 DEF On, OnLock
        <3> QED
            BY <1>1, <2>1, <3>1, <3>2, LockKept
    <2> QED
        BY <2>2, <2>3, <2>4
<1>7. ASSUME NEW x \in Vars PROVE ValueSeen(a, x, variableIdToVal'[x])
    <2>1. ValueSeen(witness, x, variableIdToVal[x])
        BY DEF MapsExact
    <2>2. CASE IsAccess(e, x)
        <3>1. variableIdToVal'[x] = Value(e)
            BY <2>2 DEF Replay, On, IsAccess
        <3>2. Value(e) # NoValue
            BY <1>3, <2>2, ProgramAssumption DEF WellFormed, IsAccess
        <3> QED
            BY <1>1, <2>2, <3>1, <3>2, ValueSet
    <2>3. CASE ~IsAccess(e, x)
        <3>1. variableIdToVal'[x] = variableIdToVal[x]
            BY <2>3 DEF Replay, On, IsAccess
        <3> QED
            BY <1>1, <2>1, <2>3, <3>1, ValueKept
    <2> QED
        BY <2>2, <2>3
<1> HIDE DEF a
<1>8. /\ Legal(witness)' <=> Legal(a)
      /\ \A t \in Threads : TrackerOK(witness, t, threadEventTracker[t])' <=>
             TrackerOK(a, t, threadEventTracker'[t])
      /\ \A l \in Locks : LockSeen(witness, l, lockIdToLockStatus[l], lockIdToThread[l])' <=>
             LockSeen(a, l, lockIdToLockStatus'[l], lockIdToThread'[l])
      /\ \A x \in Vars : ValueSeen(witness, x, variableIdToVal[x])' <=>
             ValueSeen(a, x, variableIdToVal'[x])
    BY <1>2, SameTrace
<1> QED
    BY <1>4, <1>5, <1>6, <1>7, <1>8 DEF MapsExact

\* Nothing replayed: the maps of the call are exact.
LEMMA CallMaps ==
    ASSUME VerdictInv, NotCalled
    PROVE  MapsExact
<1>1. Legal(<<>>) /\ RangeOf(<<>>) = {} /\ DOMAIN <<>> = {}
    BY DEF Legal, ThreadsLegal, LocksLegal, ReadsLegal, RangeOf
<1>2. ASSUME NEW t \in Threads PROVE TrackerOK(<<>>, t, 0)
    <2>1. EventsOf(t) \in Seq(EID)
        BY DEF VerdictInv, TraceInv, IInv, TypeOK, EventsOf
    <2> QED
        BY <1>1, <2>1 DEF TrackerOK
<1>3. ASSUME NEW l \in Locks, NEW h PROVE LockSeen(<<>>, l, "absent", h)
    BY <1>1 DEF LockSeen, AllReleased
<1>4. \A x \in Vars : ValueSeen(<<>>, x, NoValue)
    BY <1>1 DEF ValueSeen
<1> QED
    BY <1>1, <1>2, <1>3, <1>4 DEF NotCalled, MapsExact

LEMMA TracePc == TraceNext => pc = "trace" /\ pc' \in {"trace", "group"}
BY DEF TraceNext, Fork, Begin, End, Join, Acquire, Release, Read, Write, AddEvent, Finish

LEMMA InitVerdict == VerifierInit => VerdictInv
<1> SUFFICES ASSUME VerifierInit PROVE VerdictInv
    OBVIOUS
<1>1. TraceInv /\ ThreadsOrdered
    BY InitTraceInv, InitThreads DEF VerifierInit
<1>2. ReleasesRecorded
    BY DEF VerifierInit, TraceInit, ReleasesRecorded, EID
<1>3. ReplayTypeOK
    BY DEF VerifierInit, ReplayTypeOK, LockStatuses
<1>4. witness \in Seq(EID) /\ Distinct(witness) /\ NotCalled /\ pc = "trace"
    BY DEF VerifierInit, TraceInit, Distinct, NotCalled
<1> QED
    BY <1>1, <1>2, <1>3, <1>4 DEF VerdictInv

\* A step that leaves the trace alone leaves what is known of it alone.
LEMMA KnownKept ==
    ASSUME TraceInv, ThreadsOrdered, ReleasesRecorded, UNCHANGED traceObject
    PROVE  /\ TraceInv' /\ ThreadsOrdered' /\ ReleasesRecorded'
           /\ EID' = EID
<1>1. UNCHANGED traceMaps
    BY DEF traceObject, traceMaps
<1>2. TraceInv'
    BY <1>1, KeptTraceInv
<1>3. ThreadsOrdered' /\ EID' = EID
    BY <1>1 DEF traceMaps, ThreadsOrdered, ThreadEvents, EventsOf, RangeOf, Increasing, EID, Tid
<1>4. ReleasesRecorded'
    BY <1>1 DEF traceMaps, mapVars, ReleasesRecorded, EID, Type, Target
<1> QED
    BY <1>2, <1>3, <1>4

LEMMA NextVerdict == VerdictInv /\ [VerifierNext]_verifierVars => VerdictInv'
<1> SUFFICES ASSUME VerdictInv, [VerifierNext]_verifierVars PROVE VerdictInv'
    OBVIOUS
<1>1. /\ TraceInv /\ ThreadsOrdered /\ ReleasesRecorded /\ ReplayTypeOK /\ IInv /\ EventsWellFormed
      /\ witness \in Seq(EID) /\ Distinct(witness)
    BY DEF VerdictInv, TraceInv
<1>2. ReplayTypeOK'
    BY <1>1, NextReplayInv DEF ReplayInv
<1>3. CASE TraceNext /\ UNCHANGED <<witness, replayMaps>>
    <2>1. pc = "trace" /\ pc' \in {"trace", "group"}
        BY <1>3, TracePc
    <2>2. TraceInv' /\ ThreadsOrdered' /\ ReleasesRecorded'
        BY <1>1, <1>3, NextTraceInv, NextThreads, NextRecorded
    <2>3. NotCalled /\ NotCalled'
        BY <1>3, <2>1 DEF VerdictInv, NotCalled, replayMaps
    <2>4. (witness \in Seq(EID))' /\ Distinct(witness)'
        BY <2>3 DEF NotCalled, Distinct
    <2> QED
        BY <1>2, <2>1, <2>2, <2>3, <2>4 DEF VerdictInv
<1>4. ASSUME UNCHANGED traceObject
      PROVE  TraceInv' /\ ThreadsOrdered' /\ ReleasesRecorded' /\ EID' = EID
    BY <1>1, <1>4, KnownKept
<1>5. CASE CallVerifier \/ Accept \/ UNCHANGED verifierVars
    <2>1. UNCHANGED traceObject /\ UNCHANGED witness /\ UNCHANGED replayMaps
        BY <1>5 DEF CallVerifier, Accept, verifierVars, traceVars, traceObject
    <2>2. TraceInv' /\ ThreadsOrdered' /\ ReleasesRecorded' /\ EID' = EID
        BY <1>4, <2>1
    <2>3. (witness \in Seq(EID))' /\ Distinct(witness)'
        BY <1>1, <2>1, <2>2 DEF Distinct
    <2>4. (Legal(witness)' <=> Legal(witness)) /\ (MapsExact => MapsExact')
        BY <2>1, SameTrace DEF MapsExact, replayMaps
    <2>5. NotCalled => MapsExact /\ NotCalled'
        BY <2>1, CallMaps DEF NotCalled, replayMaps
    <2>6. CASE CallVerifier
        <3>1. pc = "group" /\ pc' = "replay"
            BY <2>6 DEF CallVerifier
        <3>2. MapsExact'
            BY <2>4, <2>5, <3>1 DEF VerdictInv
        <3> QED
            BY <1>2, <2>2, <2>3, <3>1, <3>2 DEF VerdictInv
    <2>7. CASE Accept
        <3>1. pc = "replay" /\ pc' = "consistent"
            BY <2>7 DEF Accept
        <3>2. MapsExact'
            BY <2>4, <3>1 DEF VerdictInv
        <3> QED
            BY <1>2, <2>2, <2>3, <3>1, <3>2 DEF VerdictInv
    <2>8. CASE UNCHANGED verifierVars
        <3>1. pc' = pc
            BY <2>8 DEF verifierVars, traceVars
        <3> QED
            BY <1>2, <2>2, <2>3, <2>4, <2>5, <3>1 DEF VerdictInv
    <2> QED
        BY <1>5, <2>6, <2>7, <2>8
<1>6. ASSUME NEW e \in EID, NextElement(e)
      PROVE  /\ TraceInv' /\ ThreadsOrdered' /\ ReleasesRecorded'
             /\ (witness \in Seq(EID))' /\ Distinct(witness)'
             /\ pc = "replay" /\ e \notin RangeOf(witness) /\ MapsExact
             /\ witness' = Append(witness, e) /\ UNCHANGED traceObject
    <2>1. /\ pc = "replay" /\ e \notin RangeOf(witness) /\ UNCHANGED traceObject
          /\ witness' = Append(witness, e)
        BY <1>6 DEF NextElement
    <2>2. MapsExact
        BY <2>1 DEF VerdictInv
    <2>3. TraceInv' /\ ThreadsOrdered' /\ ReleasesRecorded' /\ EID' = EID
        BY <1>4, <2>1
    <2>4. /\ DOMAIN witness' = DOMAIN witness \cup {Len(witness) + 1}
          /\ \A n \in DOMAIN witness : witness'[n] = witness[n]
          /\ witness'[Len(witness) + 1] = e
          /\ witness' \in Seq(EID)
        BY <1>1, <2>1, LastPosition
    <2>5. Distinct(witness)'
        BY <1>1, <2>1, <2>4 DEF Distinct, RangeOf
    <2> QED
        BY <2>1, <2>2, <2>3, <2>4, <2>5
<1>7. ASSUME NEW e \in EID, Replay(e) PROVE VerdictInv'
    <2>1. NextElement(e) /\ pc' = pc
        BY <1>7 DEF Replay
    <2>2. MapsExact'
        BY <1>6, <1>7, <2>1, ReplayMaps
    <2>3. /\ TraceInv' /\ ThreadsOrdered' /\ ReleasesRecorded'
          /\ (witness \in Seq(EID))' /\ Distinct(witness)'
          /\ pc = "replay"
        BY <1>6, <2>1
    <2> QED
        BY <1>2, <2>1, <2>2, <2>3 DEF VerdictInv
<1>8. ASSUME NEW e \in EID, Reject(e) PROVE VerdictInv'
    <2>1. NextElement(e) /\ pc' = "failed" /\ ~Consistent(e)
        BY <1>8 DEF Reject
    <2>2. /\ TraceInv' /\ ThreadsOrdered' /\ ReleasesRecorded'
          /\ (witness \in Seq(EID))' /\ Distinct(witness)'
          /\ e \notin RangeOf(witness) /\ MapsExact
          /\ witness' = Append(witness, e) /\ UNCHANGED traceObject
        BY <1>6, <2>1
    <2>3. ~Legal(Append(witness, e))
        BY <2>1, <2>2, ElementVerdict
    <2>4. ~Legal(witness)'
        BY <2>2, <2>3, SameTrace
    <2> QED
        BY <1>2, <2>1, <2>2, <2>4 DEF VerdictInv
<1> QED
    BY <1>3, <1>5, <1>7, <1>8 DEF VerifierNext

\* For every trace and every sequence of distinct events: the verifier passes
\* exactly the legal ones, whatever their order and their length
\* (verifier.cpp:30-102).
THEOREM VerdictTheorem == VerifierSpec => []VerifierExact
<1>1. VerdictInv => VerifierExact
    BY DEF VerdictInv, VerifierExact, MapsExact
<1> QED
    BY InitVerdict, NextVerdict, <1>1, PTL DEF VerifierSpec
=============================================================================
