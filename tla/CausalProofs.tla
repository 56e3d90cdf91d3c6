---------------------------- MODULE CausalProofs ----------------------------
(***************************************************************************)
(* What holds of the predictor's constraints for every trace.              *)
(***************************************************************************)
EXTENDS CausalModel, AccessProofs, WellFoundedInduction

\* A candidate's events are of two threads: getCOP asks for it.
LEMMA CandidateThreads ==
    ASSUME NEW c \in getCOPs
    PROVE  Tid(c[1]) # Tid(c[2])
BY DEF getCOPs, VariableCOPs

\* hasCommonLock looks for two regions of one entry of its outer map, and the
\* outer keys are threads: it can only be true of two events of one thread.
LEMMA CommonLockOneThread ==
    ASSUME NEW e1, NEW e2, hasCommonLock(e1, e2)
    PROVE  Tid(e1) = Tid(e2)
<1>1. PICK outer \in Threads :
          /\ \E r \in RegionsOf(outer, Tid(e1)) : containsEvent(r, e1)
          /\ \E r \in RegionsOf(outer, Tid(e2)) : containsEvent(r, e2)
    BY DEF hasCommonLock
<1>2. Tid(e1) = outer
    BY <1>1 DEF RegionsOf, containsEvent
<1>3. Tid(e2) = outer
    BY <1>1 DEF RegionsOf, containsEvent
<1> QED
    BY <1>2, <1>3

\* The lock filter of filterCOPs never removes a candidate, whatever the trace
\* and its locks: it is dead code, and the lock constraints do all its work
\* (casual_model.cpp:8, lockset_engine.hpp:21-52).
THEOREM LocksetFilterIsDead ==
    Spec => [](\A c \in getCOPs : ~hasCommonLock(c[1], c[2]))
<1>1. \A c \in getCOPs : ~hasCommonLock(c[1], c[2])
    BY CandidateThreads, CommonLockOneThread
<1> QED
    BY <1>1, PTL

-----------------------------------------------------------------------------
(* The observed trace satisfies the order constraints.                     *)

\* A partner precedes its partner, and so do the events of every constraint and
\* the regions of every lock constraint.
PairsOrdered == \A c \in fork_begin_pairs \cup end_join_pairs : c[1] < c[2]
GroupedSoFar == \A t \in Threads : mhb_pos[t] \in 0 .. Len(EventsOf(t))
ConstraintsOrdered == \A c \in mhb_constraints : c[1] < c[2]
RegionsOrdered == \A c \in lock_constraints : (c[1].rel < c[2].acq) # (c[2].rel < c[1].acq)

OrderInv ==
    /\ ThreadsOrdered /\ PairsOrdered
    /\ mhb_pos = [t \in Threads |-> mhb_pos[t]] /\ GroupedSoFar
    /\ ConstraintsOrdered /\ RegionsOrdered

LEMMA InitOrder == Init => IInv /\ OrderInv
<1> SUFFICES ASSUME Init PROVE IInv /\ OrderInv
    OBVIOUS
<1>1. IInv
    BY InitIInv DEF Init
<1>2. ASSUME NEW t \in Threads PROVE EventsOf(t) = <<>>
    BY DEF Init, TraceInit, NewThread, EventsOf
<1>3. Increasing(<<>>) /\ RangeOf(<<>>) = {} /\ Len(<<>>) = 0
    BY DEF Increasing, RangeOf
<1>4. ThreadsOrdered
    <2>1. EID = {}
        BY DEF Init, TraceInit, EID
    <2> QED
        BY <1>2, <1>3, <2>1 DEF ThreadsOrdered, ThreadEvents
<1>5. /\ mhb_pos = [t \in Threads |-> mhb_pos[t]] /\ GroupedSoFar
    BY <1>2, <1>3 DEF Init, GroupedSoFar
<1>6. PairsOrdered /\ ConstraintsOrdered /\ RegionsOrdered
    BY DEF Init, TraceInit, PairsOrdered, ConstraintsOrdered, RegionsOrdered
<1> QED
    BY <1>1, <1>4, <1>5, <1>6 DEF OrderInv

\* What is left to show when only the trace changes.
LEMMA TraceStepOrder ==
    ASSUME IInv, OrderInv, UNCHANGED constraintVars,
           ThreadsOrdered', PairsOrdered',
           \A u \in Threads : Len(EventsOf(u)) <= Len(EventsOf(u)')
    PROVE  OrderInv'
<1>1. ASSUME NEW u \in Threads PROVE mhb_pos[u] \in 0 .. Len(EventsOf(u)')
    <2>1. mhb_pos[u] \in 0 .. Len(EventsOf(u))
        BY DEF OrderInv, GroupedSoFar
    <2>2. Len(EventsOf(u)) \in Nat
        BY DEF IInv, TypeOK, EventsOf
    <2> QED
        BY <2>1, <2>2
<1>2. GroupedSoFar'
    BY <1>1 DEF GroupedSoFar, constraintVars, EventsOf
<1> QED
    BY <1>2 DEF OrderInv, ConstraintsOrdered, RegionsOrdered, constraintVars

\* createTrace: a fork precedes its begin, an end its join, since each partner
\* is on record when the other is read.
LEMMA TraceKeepsOrder ==
    ASSUME IInv, OrderInv, TraceNext, UNCHANGED constraintVars
    PROVE  OrderInv'
<1> USE DEF OrderInv
<1>1. NoValue \in Values \cup {NoValue}
    OBVIOUS
<1>2. ASSUME NEW t \in Threads, NEW u \in Threads,
             Fork(t, u) \/ Begin(t) \/ End(t) \/ Join(t, u)
      PROVE  OrderInv'
    <2>1. PICK type \in {"Fork", "Begin", "End", "Join"}, target \in {0, u} :
              AddEvent(type, t, target, NoValue)
        BY <1>2 DEF Fork, Begin, End, Join
    <2>2. /\ type \in EventTypes
          /\ target \in Threads \cup Vars \cup Locks \cup {0}
        BY DEF EventTypes
    <2>3. \A e \in EID : e < NextId
        BY <1>1, <2>1, <2>2, EventsKept
    <2>4. /\ status[t] = "forked" => forks[t] \in EID
          /\ status[u] = "ended" => ends[u] \in EID
        BY DEF IInv, PartnersKnown
    <2>5. PairsOrdered'
        <3>1. CASE Fork(t, u) \/ End(t)
            BY <3>1 DEF Fork, End, PairsOrdered
        <3>2. CASE Begin(t)
            <4>1. /\ fork_begin_pairs' = fork_begin_pairs \cup {<<forks[t], NextId>>}
                  /\ end_join_pairs' = end_join_pairs /\ forks[t] < NextId
                BY <2>3, <2>4, <3>2 DEF Begin, DoBegin, Moves
            <4> QED
                BY <4>1 DEF PairsOrdered
        <3>3. CASE Join(t, u)
            <4>1. /\ end_join_pairs' = end_join_pairs \cup {<<ends[u], NextId>>}
                  /\ fork_begin_pairs' = fork_begin_pairs /\ ends[u] < NextId
                BY <2>3, <2>4, <3>3 DEF Join, DoJoin, Moves
            <4> QED
                BY <4>1 DEF PairsOrdered
        <3> QED
            BY <1>2, <3>1, <3>2, <3>3
    <2> QED
        BY <1>1, <2>1, <2>2, <2>5, ThreadsStayOrdered, TraceStepOrder
<1>3. ASSUME NEW t \in Threads, NEW type \in EventTypes,
             NEW target \in Threads \cup Vars \cup Locks \cup {0},
             NEW value \in Values \cup {NoValue},
             AddEvent(type, t, target, value), UNCHANGED <<fork_begin_pairs, end_join_pairs>>
      PROVE  OrderInv'
    <2>1. PairsOrdered'
        BY <1>3 DEF PairsOrdered
    <2> QED
        BY <1>3, <2>1, ThreadsStayOrdered, TraceStepOrder
<1>4. ASSUME NEW t \in Threads, NEW l \in Locks, Acquire(t, l) \/ Release(t, l)
      PROVE  OrderInv'
    <2>1. PICK type \in {"Acquire", "Release"} : AddEvent(type, t, l, NoValue)
        BY <1>4 DEF Acquire, Release
    <2>2. type \in EventTypes /\ l \in Threads \cup Vars \cup Locks \cup {0}
        BY DEF EventTypes
    <2>3. UNCHANGED <<fork_begin_pairs, end_join_pairs>>
        BY <1>4 DEF Acquire, Release
    <2> QED
        BY <1>1, <1>3, <2>1, <2>2, <2>3
<1>5. ASSUME NEW t \in Threads, NEW x \in Vars, NEW v \in Values, Read(t, x, v) \/ Write(t, x, v)
      PROVE  OrderInv'
    <2>1. PICK type \in {"Read", "Write"} : AddEvent(type, t, x, v)
        BY <1>5 DEF Read, Write
    <2>2. /\ type \in EventTypes /\ x \in Threads \cup Vars \cup Locks \cup {0}
          /\ v \in Values \cup {NoValue}
        BY DEF EventTypes
    <2>3. UNCHANGED <<fork_begin_pairs, end_join_pairs>>
        BY <1>5 DEF Read, Write
    <2> QED
        BY <1>3, <2>1, <2>2, <2>3
<1>6. CASE Finish
    BY <1>6 DEF Finish, mapVars, ThreadsOrdered, PairsOrdered, GroupedSoFar, ConstraintsOrdered,
        RegionsOrdered, constraintVars, EventsOf, EID, Tid, ThreadEvents
<1> QED
    BY <1>2, <1>4, <1>5, <1>6 DEF TraceNext

\* The next event of a thread is the successor of one with a smaller identifier.
LEMMA GroupingKeepsOrder ==
    ASSUME IInv, OrderInv, NEW t \in Threads, Step(t), UNCHANGED mhb_constraints \/ NextInThread(t)
    PROVE  OrderInv'
<1> DEFINE s == EventsOf(t)
           p == mhb_pos[t]
<1>1. /\ s \in Seq(EID) /\ Len(s) \in Nat /\ p \in 0 .. Len(s) /\ Increasing(s)
      /\ mhb_pos = [u \in Threads |-> mhb_pos[u]]
    BY DEF IInv, TypeOK, EventsOf, OrderInv, GroupedSoFar, ThreadsOrdered
<1>2. /\ p # Len(s) /\ mhb_pos' = [mhb_pos EXCEPT ![t] = p + 1]
      /\ UNCHANGED traceMaps /\ UNCHANGED lock_constraints
    BY DEF Step, Current, ThreadDone, traceMaps, traceVars
<1>3. ThreadsOrdered' /\ PairsOrdered' /\ RegionsOrdered'
    BY <1>2 DEF OrderInv, ThreadsOrdered, PairsOrdered, RegionsOrdered, traceMaps, mapVars,
        EventsOf, EID, Tid, ThreadEvents
<1>4. GroupedSoFar' /\ mhb_pos' = [u \in Threads |-> mhb_pos'[u]]
    <2>1. p + 1 \in 0 .. Len(s)
        BY <1>1, <1>2
    <2>2. \A u \in Threads : mhb_pos'[u] \in 0 .. Len(EventsOf(u))
        BY <1>1, <1>2, <2>1 DEF OrderInv, GroupedSoFar
    <2>3. mhb_pos' = [u \in Threads |-> mhb_pos'[u]]
        BY <1>1, <1>2
    <2> QED
        BY <1>2, <2>2, <2>3 DEF GroupedSoFar, traceMaps, EventsOf
<1>5. ConstraintsOrdered'
    <2>1. CASE UNCHANGED mhb_constraints
        BY <2>1 DEF OrderInv, ConstraintsOrdered
    <2>2. CASE NextInThread(t)
        <3>1. mhb_constraints' = mhb_constraints \cup {<<s[p], s[p + 1]>>} /\ p > 0
            BY <2>2 DEF NextInThread
        <3>2. p \in DOMAIN s /\ p + 1 \in DOMAIN s /\ p < p + 1
            BY <1>1, <1>2, <3>1
        <3>3. s[p] < s[p + 1]
            BY <1>1, <3>2 DEF Increasing
        <3> HIDE DEF s, p
        <3> QED
            BY <3>1, <3>3 DEF OrderInv, ConstraintsOrdered
    <2> QED
        BY <2>1, <2>2
<1> QED
    BY <1>3, <1>4, <1>5 DEF OrderInv

\* Two regions of one lock that the filter lists are disjoint, so one of the two
\* orders holds of the trace.
LEMMA LockConstraintsOrdered ==
    ASSUME IInv
    PROVE  \A c \in LockConstraints : (c[1].rel < c[2].acq) # (c[2].rel < c[1].acq)
<1> SUFFICES ASSUME NEW l \in Locks, NEW c \in RegionPairs(lock_id_to_lock_region[l])
             PROVE  (c[1].rel < c[2].acq) # (c[2].rel < c[1].acq)
    BY DEF LockConstraints
<1> DEFINE R == lock_id_to_lock_region[l]
<1>1. PICK m \in DOMAIN R, n \in DOMAIN R : m < n /\ c = <<R[m], R[n]>>
    BY DEF RegionPairs
<1>2. /\ EID \subseteq Nat
      /\ \A k \in DOMAIN R : R[k].acq \in EID /\ R[k].rel \in EID /\ R[k].acq < R[k].rel
      /\ \A i, j \in DOMAIN R : i < j => R[i].rel < R[j].acq
    BY DEF IInv, LocksInv, LockOK, RegionOK, EID
<1>3. /\ R[m].rel < R[n].acq /\ R[n].acq < R[n].rel /\ R[m].acq < R[m].rel
      /\ {R[m].acq, R[m].rel, R[n].acq, R[n].rel} \subseteq Nat
    BY <1>1, <1>2
<1>4. ~(R[n].rel < R[m].acq)
    BY <1>3
<1> HIDE DEF R
<1> QED
    BY <1>1, <1>3, <1>4

LEMMA NextOrder == IInv /\ OrderInv /\ [Next]_vars => IInv' /\ OrderInv'
<1> SUFFICES ASSUME IInv, OrderInv, [Next]_vars PROVE IInv' /\ OrderInv'
    OBVIOUS
<1>1. CASE TraceNext /\ UNCHANGED <<builderVars, constraintVars, solverVars>>
    BY <1>1, NextIInv, TraceKeepsOrder
<1>2. ASSUME NEW t \in Threads, StartThread(t) \/ NextInThread(t) PROVE IInv' /\ OrderInv'
    <2>1. Step(t) /\ (UNCHANGED mhb_constraints \/ NextInThread(t))
        BY <1>2 DEF StartThread, NextInThread
    <2>2. UNCHANGED traceMaps
        BY <2>1 DEF Step, traceMaps, traceVars
    <2> QED
        BY <2>1, <2>2, KeptIInv, GroupingKeepsOrder DEF traceMaps
<1>3. CASE RelateThreads
    <2>1. /\ UNCHANGED traceMaps /\ UNCHANGED <<mhb_pos, lock_constraints>>
          /\ mhb_constraints' = mhb_constraints \cup fork_begin_pairs \cup end_join_pairs
        BY <1>3 DEF RelateThreads, traceMaps
    <2> QED
        BY <2>1, KeptIInv DEF OrderInv, ThreadsOrdered, PairsOrdered, GroupedSoFar,
            ConstraintsOrdered, RegionsOrdered, traceMaps, mapVars, EventsOf, EID, Tid,
            ThreadEvents
<1>4. CASE GenerateConstraints
    <2>1. /\ UNCHANGED traceMaps /\ UNCHANGED <<mhb_pos, mhb_constraints>>
          /\ lock_constraints' = LockConstraints
        BY <1>4 DEF GenerateConstraints, traceMaps
    <2>2. RegionsOrdered'
        BY <2>1, LockConstraintsOrdered DEF RegionsOrdered
    <2> QED
        BY <2>1, <2>2, KeptIInv DEF OrderInv, ThreadsOrdered, PairsOrdered, GroupedSoFar,
            ConstraintsOrdered, traceMaps, mapVars, EventsOf, EID, Tid,
            ThreadEvents
<1>5. CASE BuildClosure \/ (\E S \in SUBSET EID : Z3Place(S)) \/ Z3Assign \/ UNCHANGED vars
    <2>1. UNCHANGED traceMaps /\ UNCHANGED constraintVars
        BY <1>5 DEF BuildClosure, Z3Place, Z3Assign, traceMaps, traceVars, vars
    <2> QED
        BY <2>1, KeptIInv DEF OrderInv, ThreadsOrdered, PairsOrdered, GroupedSoFar,
            ConstraintsOrdered, RegionsOrdered, constraintVars, traceMaps, mapVars, EventsOf, EID, Tid,
            ThreadEvents
<1> QED
    BY <1>1, <1>2, <1>3, <1>4, <1>5 DEF Next

\* The observed trace satisfies every order constraint and every lock
\* constraint that is generated from it: the constraints never rule out the
\* execution they were made from.
THEOREM ObservedTraceAllowed == Spec => []ObservedOrderAllowed
<1>1. OrderInv => ObservedOrderAllowed
    BY DEF OrderInv, ConstraintsOrdered, RegionsOrdered, ObservedOrderAllowed
<1> QED
    BY InitOrder, NextOrder, <1>1, PTL DEF Spec

\* No later phase of the predictor disturbs the trace: its types and the
\* disjointness of its lock regions hold throughout.
THEOREM RegionsInPredictor == Spec => [](TypeOK /\ LockRegionsDisjoint)
<1>1. IInv => TypeOK /\ LockRegionsDisjoint
    BY RegionsDisjoint DEF IInv
<1> QED
    BY InitOrder, NextOrder, <1>1, PTL DEF Spec

-----------------------------------------------------------------------------
(* Grouping: what the builder knows while the threads are passed through.  *)

\* Positions i and i + 1 of thread t, both grouped.
GroupedStep(t, i) == i \in 1 .. mhb_pos[t] /\ i + 1 \in 1 .. mhb_pos[t]
SplitsAfter(t, i) == Splits(EventsOf(t)[i], EventsOf(t)[i + 1])
StepPair(t, i) == <<EventsOf(t)[i], EventsOf(t)[i + 1]>>
GroupOf(t, i) == eventToGroup[EventsOf(t)[i]]

\* Grouped events have a group; the events of one group follow each other in
\* one thread, without a split, and a step without a split stays in its group.
GroupsOK ==
    /\ groupCount \in Nat /\ eventToGroup = [e \in EIDs |-> eventToGroup[e]]
    /\ \A t \in Threads : \A i \in 1 .. mhb_pos[t] : GroupOf(t, i) \in Groups
    /\ \A t, u \in Threads : \A i \in 1 .. mhb_pos[t], j \in 1 .. mhb_pos[u] :
           GroupOf(t, i) = GroupOf(u, j) =>
               t = u /\ \A k \in i .. j - 1 : ~SplitsAfter(t, k)
    /\ \A t \in Threads : \A i \in 1 .. mhb_pos[t] :
           GroupedStep(t, i) /\ ~SplitsAfter(t, i) => GroupOf(t, i) = GroupOf(t, i + 1)

SplitPairs ==
    {p \in EID \X EID : \E t \in Threads : \E i \in 1 .. mhb_pos[t] :
         GroupedStep(t, i) /\ SplitsAfter(t, i) /\ p = StepPair(t, i)}
StepPairs ==
    {p \in EID \X EID : \E t \in Threads : \E i \in 1 .. mhb_pos[t] :
         GroupedStep(t, i) /\ p = StepPair(t, i)}
Partners == fork_begin_pairs \cup end_join_pairs

\* What is recorded in each phase.
RecordedOK ==
    /\ pc = "trace" => \A t \in Threads : mhb_pos[t] = 0
    /\ pc \in {"trace", "group"} => relations = SplitPairs /\ mhb_constraints = StepPairs
    /\ pc \notin {"trace", "group"} =>
           /\ \A t \in Threads : ThreadDone(t)
           /\ relations = SplitPairs \cup Partners
           /\ mhb_constraints = StepPairs \cup Partners
    /\ pc \notin {"trace", "group", "build"} => happens_before = Closure

GroupInv == GroupsOK /\ RecordedOK

\* The events of the threads, by their positions.
LEMMA Positions ==
    ASSUME IInv, EventsWellFormed, LengthOK, OrderInv
    PROVE  /\ \A t \in Threads :
                  /\ Len(EventsOf(t)) \in Nat /\ DOMAIN EventsOf(t) = 1 .. Len(EventsOf(t))
                  /\ mhb_pos[t] \in 0 .. Len(EventsOf(t))
                  /\ \A i \in 1 .. Len(EventsOf(t)) :
                         /\ EventsOf(t)[i] \in EID /\ Tid(EventsOf(t)[i]) = t
                         /\ EventsOf(t)[i] \in EIDs /\ EventsOf(t)[i] \in Nat
                  /\ \A i, j \in 1 .. Len(EventsOf(t)) :
                         i < j <=> EventsOf(t)[i] < EventsOf(t)[j]
           /\ \A t, u \in Threads :
                  \A i \in 1 .. Len(EventsOf(t)), j \in 1 .. Len(EventsOf(u)) :
                      EventsOf(t)[i] = EventsOf(u)[j] => t = u /\ i = j
           /\ \A e \in EID : /\ Tid(e) \in Threads
                             /\ \E i \in 1 .. Len(EventsOf(Tid(e))) : e = EventsOf(Tid(e))[i]
           /\ EID \subseteq EIDs /\ EID \subseteq Nat
<1>1. EID \subseteq EIDs /\ EID \subseteq Nat
    BY EIDsAreTheTraces, MaxEventsAssumption DEF LengthOK, EID
<1>2. \A t \in Threads : EventsOf(t) \in Seq(EID) /\ mhb_pos[t] \in 0 .. Len(EventsOf(t))
    BY DEF IInv, TypeOK, EventsOf, OrderInv, GroupedSoFar
<1>3. ASSUME NEW t \in Threads
      PROVE  /\ Len(EventsOf(t)) \in Nat /\ DOMAIN EventsOf(t) = 1 .. Len(EventsOf(t))
             /\ \A i \in 1 .. Len(EventsOf(t)) : EventsOf(t)[i] \in EID
    BY <1>2
<1>4. ASSUME NEW t \in Threads, NEW i \in 1 .. Len(EventsOf(t)) PROVE Tid(EventsOf(t)[i]) = t
    <2>1. EventsOf(t)[i] \in RangeOf(EventsOf(t))
        BY <1>3 DEF RangeOf
    <2> QED
        BY <2>1 DEF OrderInv, ThreadsOrdered, ThreadEvents
<1>5. ASSUME NEW t \in Threads, NEW i \in 1 .. Len(EventsOf(t)), NEW j \in 1 .. Len(EventsOf(t))
      PROVE  i < j <=> EventsOf(t)[i] < EventsOf(t)[j]
    <2>1. Increasing(EventsOf(t))
        BY DEF OrderInv, ThreadsOrdered
    <2>2. /\ i < j => EventsOf(t)[i] < EventsOf(t)[j]
          /\ j < i => EventsOf(t)[j] < EventsOf(t)[i]
        BY <1>3, <2>1 DEF Increasing
    <2>3. EventsOf(t)[i] \in EID /\ EventsOf(t)[j] \in EID /\ i \in Nat /\ j \in Nat
        BY <1>3
    <2>4. EventsOf(t)[i] \in Nat /\ EventsOf(t)[j] \in Nat
        BY <1>1, <2>3
    <2> QED
        BY <2>2, <2>3, <2>4
<1>6. ASSUME NEW t \in Threads, NEW u \in Threads, NEW i \in 1 .. Len(EventsOf(t)),
             NEW j \in 1 .. Len(EventsOf(u)), EventsOf(t)[i] = EventsOf(u)[j]
      PROVE  t = u /\ i = j
    <2>1. t = u
        BY <1>4, <1>6
    <2>2. i \in Nat /\ j \in Nat /\ EventsOf(t)[i] \in Nat
        <3>1. i \in Nat /\ j \in Nat /\ EventsOf(t)[i] \in EID
            BY <1>3
        <3> QED
            BY <1>1, <3>1
    <2>3. ~(i < j) /\ ~(j < i)
        BY <1>5, <1>6, <2>1, <2>2
    <2> QED
        BY <2>1, <2>2, <2>3
<1>7. ASSUME NEW e \in EID
      PROVE  /\ Tid(e) \in Threads
             /\ \E i \in 1 .. Len(EventsOf(Tid(e))) : e = EventsOf(Tid(e))[i]
    <2>1. Tid(e) \in Threads
        BY DEF EventsWellFormed, WellFormed
    <2>2. e \in RangeOf(EventsOf(Tid(e)))
        BY <2>1 DEF OrderInv, ThreadsOrdered, ThreadEvents
    <2> QED
        BY <1>3, <2>1, <2>2 DEF RangeOf
<1> QED
    BY <1>1, <1>2, <1>3, <1>4, <1>5, <1>6, <1>7

LEMMA InitGroups == Init => GroupInv
<1> SUFFICES ASSUME Init PROVE GroupInv
    OBVIOUS
<1>1. /\ \A t \in Threads : mhb_pos[t] = 0
      /\ groupCount = 0 /\ eventToGroup = [e \in EIDs |-> NoGroup]
      /\ relations = {} /\ mhb_constraints = {} /\ pc = "trace"
    BY DEF Init, TraceInit, BuilderInit
<1>2. eventToGroup = [e \in EIDs |-> eventToGroup[e]]
    BY <1>1
<1>3. GroupsOK
    BY <1>1, <1>2 DEF GroupsOK
<1>4. SplitPairs = {} /\ StepPairs = {}
    BY <1>1 DEF SplitPairs, StepPairs
<1> QED
    BY <1>1, <1>3, <1>4 DEF GroupInv, RecordedOK

\* Reading the trace leaves the builder alone.
LEMMA TraceGroups ==
    ASSUME GroupInv, TraceNext, UNCHANGED <<builderVars, constraintVars, solverVars>>
    PROVE  GroupInv'
<1>1. pc = "trace" /\ pc' \in {"trace", "group"}
    BY DEF TraceNext, Fork, Join, Begin, End, Acquire, Release, Read, Write, Finish, AddEvent
<1>2. UNCHANGED <<eventToGroup, groupCount, relations, mhb_pos, mhb_constraints>>
    BY DEF builderVars, constraintVars
<1>3. \A t \in Threads : mhb_pos[t] = 0 /\ mhb_pos'[t] = 0
    BY <1>1, <1>2 DEF GroupInv, RecordedOK
<1>4. GroupsOK'
    BY <1>2, <1>3 DEF GroupInv, GroupsOK
<1>5. SplitPairs = {} /\ StepPairs = {} /\ SplitPairs' = {} /\ StepPairs' = {}
    BY <1>3 DEF SplitPairs, StepPairs
<1> QED
    BY <1>1, <1>2, <1>3, <1>4, <1>5 DEF GroupInv, RecordedOK

\* What a step through thread t leaves.
LEMMA StepKeeps ==
    ASSUME IInv, EventsWellFormed, LengthOK, OrderInv, NEW t \in Threads, Step(t)
    PROVE  /\ mhb_pos[t] \in Nat /\ mhb_pos[t] + 1 \in 1 .. Len(EventsOf(t))
           /\ mhb_pos'[t] = mhb_pos[t] + 1
           /\ \A u \in Threads : u # t => mhb_pos'[u] = mhb_pos[u]
           /\ \A u \in Threads : EventsOf(u)' = EventsOf(u)
           /\ EID' = EID /\ pc = "group" /\ pc' = "group"
           /\ \A u \in Threads : \A i : SplitsAfter(u, i)' <=> SplitsAfter(u, i)
<1>1. /\ mhb_pos = [u \in Threads |-> mhb_pos[u]] /\ mhb_pos[t] \in 0 .. Len(EventsOf(t))
      /\ Len(EventsOf(t)) \in Nat
    BY Positions DEF OrderInv
<1>2. mhb_pos' = [mhb_pos EXCEPT ![t] = mhb_pos[t] + 1] /\ mhb_pos[t] # Len(EventsOf(t))
    BY DEF Step, Current, ThreadDone
<1>3. UNCHANGED <<all_events, thread_id_to_thread, pc>> /\ pc = "group"
    BY DEF Step, Current, traceVars
<1>4. mhb_pos'[t] = mhb_pos[t] + 1 /\ \A u \in Threads : u # t => mhb_pos'[u] = mhb_pos[u]
    BY <1>1, <1>2
<1> QED
    BY <1>1, <1>2, <1>3, <1>4 DEF EventsOf, EID, SplitsAfter, Splits, Type

\* The next event starts a group of its own, or continues the last one.
LEMMA StepGroups ==
    ASSUME IInv, EventsWellFormed, LengthOK, OrderInv, GroupsOK, NEW t \in Threads, Step(t),
           NEW p, p = mhb_pos[t], NEW n, n = EventsOf(t)[p + 1],
           \/ /\ p # 0 => SplitsAfter(t, p)
              /\ eventToGroup' = [eventToGroup EXCEPT ![n] = groupCount]
              /\ groupCount' = groupCount + 1
           \/ /\ p # 0 /\ ~SplitsAfter(t, p)
              /\ eventToGroup' = [eventToGroup EXCEPT ![n] = GroupOf(t, p)]
              /\ groupCount' = groupCount
    PROVE  GroupsOK'
<1> DEFINE g == IF groupCount' = groupCount THEN GroupOf(t, p) ELSE groupCount
<1>1. /\ p \in Nat /\ p + 1 \in 1 .. Len(EventsOf(t)) /\ mhb_pos'[t] = p + 1
      /\ \A u \in Threads : u # t => mhb_pos'[u] = mhb_pos[u]
      /\ \A u \in Threads : EventsOf(u)' = EventsOf(u)
      /\ \A u \in Threads : \A i : SplitsAfter(u, i)' <=> SplitsAfter(u, i)
      /\ \A u \in Threads : mhb_pos[u] \in 0 .. Len(EventsOf(u)) /\ Len(EventsOf(u)) \in Nat
    BY StepKeeps, Positions
<1>2. groupCount \in Nat /\ eventToGroup = [e \in EIDs |-> eventToGroup[e]] /\ n \in EIDs
    BY <1>1, Positions DEF GroupsOK
<1>3. \/ (p # 0 => SplitsAfter(t, p)) /\ groupCount' = groupCount + 1
      \/ p # 0 /\ ~SplitsAfter(t, p) /\ groupCount' = groupCount
    BY DEF SplitsAfter
<1>4. /\ eventToGroup' = [e \in EIDs |-> eventToGroup'[e]]
      /\ eventToGroup'[n] = g
      /\ \A e \in EIDs : e # n => eventToGroup'[e] = eventToGroup[e]
    BY <1>2
<1>5. ASSUME NEW u \in Threads, NEW i \in 1 .. mhb_pos[u] PROVE GroupOf(u, i)' = GroupOf(u, i)
    <2>1. EventsOf(u)[i] # n /\ EventsOf(u)[i] \in EIDs
        BY <1>1, Positions
    <2> QED
        BY <1>1, <1>4, <2>1 DEF GroupOf
<1>6. GroupOf(t, p + 1)' = g
    BY <1>1, <1>4 DEF GroupOf
<1>7. /\ \A u \in Threads : \A i \in 1 .. mhb_pos'[u] : i \in 1 .. mhb_pos[u] \/ (u = t /\ i = p + 1)
      /\ \A i \in 1 .. mhb_pos[t] : i < p + 1 /\ i \in Nat
    BY <1>1
<1>8. /\ \A u \in Threads : \A i \in 1 .. mhb_pos[u] :
             GroupOf(u, i) \in Groups /\ GroupOf(u, i) # groupCount
      /\ g \in Groups' /\ Groups \subseteq Groups'
    <2>1. \A u \in Threads : \A i \in 1 .. mhb_pos[u] : GroupOf(u, i) \in Groups
        BY DEF GroupsOK
    <2>2. p # 0 => GroupOf(t, p) \in Groups
        BY <1>1, <2>1
    <2> QED
        BY <1>2, <1>3, <2>1, <2>2 DEF Groups
<1> HIDE DEF g
<1>9. ASSUME NEW u \in Threads, NEW i \in 1 .. mhb_pos'[u] PROVE GroupOf(u, i)' \in Groups'
    BY <1>5, <1>6, <1>7, <1>8
<1>10. ASSUME NEW u \in Threads, NEW v \in Threads, NEW i \in 1 .. mhb_pos'[u],
              NEW j \in 1 .. mhb_pos'[v], GroupOf(u, i)' = GroupOf(v, j)'
       PROVE  u = v /\ \A k \in i .. j - 1 : ~SplitsAfter(u, k)
    <2>1. CASE i \in 1 .. mhb_pos[u] /\ j \in 1 .. mhb_pos[v]
        BY <1>5, <1>10, <2>1 DEF GroupsOK
    <2>2. CASE i \in 1 .. mhb_pos[u] /\ v = t /\ j = p + 1
        <3>1. GroupOf(u, i) = g
            BY <1>5, <1>6, <1>10, <2>2
        <3>2. p # 0 /\ ~SplitsAfter(t, p) /\ g = GroupOf(t, p)
            BY <1>2, <1>3, <1>8, <2>2, <3>1 DEF g
        <3>3. u = t /\ \A k \in i .. p - 1 : ~SplitsAfter(u, k)
            BY <1>1, <2>2, <3>1, <3>2 DEF GroupsOK
        <3>4. \A k \in i .. j - 1 : k \in i .. p - 1 \/ k = p
            BY <1>1, <2>2
        <3> QED
            BY <2>2, <3>2, <3>3, <3>4
    <2>3. CASE u = t /\ i = p + 1 /\ j \in 1 .. mhb_pos[v]
        <3>1. GroupOf(v, j) = g
            BY <1>5, <1>6, <1>10, <2>3
        <3>2. p # 0 /\ g = GroupOf(t, p)
            BY <1>2, <1>3, <1>8, <2>3, <3>1 DEF g
        <3>3. v = t
            BY <1>1, <2>3, <3>1, <3>2 DEF GroupsOK
        <3>4. i .. j - 1 = {}
            BY <1>1, <1>7, <2>3, <3>3
        <3> QED
            BY <2>3, <3>3, <3>4
    <2>4. CASE u = t /\ i = p + 1 /\ v = t /\ j = p + 1
        <3>1. i .. j - 1 = {}
            BY <1>1, <2>4
        <3> QED
            BY <2>4, <3>1
    <2> QED
        BY <1>7, <2>1, <2>2, <2>3, <2>4
<1>11. ASSUME NEW u \in Threads, NEW i \in 1 .. mhb_pos'[u], i + 1 \in 1 .. mhb_pos'[u],
              ~SplitsAfter(u, i)
       PROVE  GroupOf(u, i)' = GroupOf(u, i + 1)'
    <2>1. CASE i + 1 \in 1 .. mhb_pos[u]
        <3>1. i \in 1 .. mhb_pos[u]
            BY <1>1, <2>1
        <3>2. GroupOf(u, i) = GroupOf(u, i + 1)
            BY <1>11, <2>1, <3>1 DEF GroupsOK, GroupedStep
        <3> QED
            BY <1>5, <2>1, <3>1, <3>2
    <2>2. CASE u = t /\ i = p
        <3>1. g = GroupOf(t, p) /\ p \in 1 .. mhb_pos[t]
            BY <1>1, <1>2, <1>3, <1>11, <2>2 DEF g
        <3> QED
            BY <1>5, <1>6, <2>2, <3>1
    <2>3. i + 1 \in 1 .. mhb_pos[u] \/ (u = t /\ i = p)
        BY <1>1, <1>7, <1>11
    <2> QED
        BY <2>1, <2>2, <2>3
<1>12. groupCount' \in Nat
    BY <1>2, <1>3
<1> QED
    BY <1>1, <1>4, <1>9, <1>10, <1>11, <1>12 DEF GroupsOK, GroupedStep

\* The pairs a step through thread t adds.
LEMMA StepAddsPairs ==
    ASSUME IInv, EventsWellFormed, LengthOK, OrderInv, NEW t \in Threads, Step(t),
           NEW p, p = mhb_pos[t], NEW new, new = StepPair(t, p)
    PROVE  /\ StepPairs' = IF p # 0 THEN StepPairs \cup {new} ELSE StepPairs
           /\ SplitPairs' = IF p # 0 /\ SplitsAfter(t, p) THEN SplitPairs \cup {new} ELSE SplitPairs
<1>1. /\ p \in Nat /\ p + 1 \in 1 .. Len(EventsOf(t)) /\ mhb_pos'[t] = p + 1 /\ EID' = EID
      /\ \A u \in Threads : u # t => mhb_pos'[u] = mhb_pos[u]
      /\ \A u \in Threads : EventsOf(u)' = EventsOf(u)
      /\ \A u \in Threads : \A i : SplitsAfter(u, i)' <=> SplitsAfter(u, i)
      /\ \A u \in Threads : mhb_pos[u] \in 0 .. Len(EventsOf(u)) /\ Len(EventsOf(u)) \in Nat
      /\ \A u \in Threads : \A i \in 1 .. Len(EventsOf(u)) : EventsOf(u)[i] \in EID
    BY StepKeeps, Positions
<1>2. \A u \in Threads : \A i : StepPair(u, i)' = StepPair(u, i)
    BY <1>1 DEF StepPair
<1>3. ASSUME NEW u \in Threads, NEW i
      PROVE  i \in 1 .. mhb_pos'[u] /\ GroupedStep(u, i)' <=>
                 \/ i \in 1 .. mhb_pos[u] /\ GroupedStep(u, i)
                 \/ u = t /\ i = p /\ p # 0
    BY <1>1 DEF GroupedStep
<1>4. p # 0 => new \in EID \X EID
    <2>1. p # 0 => p \in 1 .. Len(EventsOf(t))
        BY <1>1
    <2> QED
        BY <1>1, <2>1 DEF StepPair
<1>5. \A q : q \in StepPairs' <=> q \in StepPairs \/ (p # 0 /\ q = new)
    <2>1. \A q : q \in StepPairs' <=>
              q \in EID \X EID /\ \E u \in Threads : \E i :
                  i \in 1 .. mhb_pos'[u] /\ GroupedStep(u, i)' /\ q = StepPair(u, i)
        BY <1>1, <1>2 DEF StepPairs
    <2>2. \A q : q \in StepPairs <=>
              q \in EID \X EID /\ \E u \in Threads : \E i :
                  i \in 1 .. mhb_pos[u] /\ GroupedStep(u, i) /\ q = StepPair(u, i)
        BY DEF StepPairs
    <2> QED
        BY <1>3, <1>4, <2>1, <2>2
<1>6. \A q : q \in SplitPairs' <=> q \in SplitPairs \/ (p # 0 /\ SplitsAfter(t, p) /\ q = new)
    <2>1. \A q : q \in SplitPairs' <=>
              q \in EID \X EID /\ \E u \in Threads : \E i :
                  /\ i \in 1 .. mhb_pos'[u] /\ GroupedStep(u, i)' /\ SplitsAfter(u, i)
                  /\ q = StepPair(u, i)
        BY <1>1, <1>2 DEF SplitPairs
    <2>2. \A q : q \in SplitPairs <=>
              q \in EID \X EID /\ \E u \in Threads : \E i :
                  /\ i \in 1 .. mhb_pos[u] /\ GroupedStep(u, i) /\ SplitsAfter(u, i)
                  /\ q = StepPair(u, i)
        BY DEF SplitPairs
    <2> QED
        BY <1>3, <1>4, <2>1, <2>2
<1> QED
    BY <1>5, <1>6

LEMMA GroupingGroups ==
    ASSUME IInv, EventsWellFormed, LengthOK, OrderInv, GroupInv, NEW t \in Threads,
           StartThread(t) \/ NextInThread(t)
    PROVE  GroupInv'
<1>1. Step(t) /\ pc = "group" /\ pc' = "group"
    BY StepKeeps DEF StartThread, NextInThread
<1>2. relations = SplitPairs /\ mhb_constraints = StepPairs
    BY <1>1 DEF GroupInv, RecordedOK
<1>3. PICK p, n, new : p = mhb_pos[t] /\ n = EventsOf(t)[p + 1] /\ new = StepPair(t, p)
    OBVIOUS
<1>4. p \in Nat
    BY <1>1, <1>3, StepKeeps
<1>5. /\ StepPairs' = IF p # 0 THEN StepPairs \cup {new} ELSE StepPairs
      /\ SplitPairs' = IF p # 0 /\ SplitsAfter(t, p) THEN SplitPairs \cup {new} ELSE SplitPairs
    BY <1>1, <1>3, StepAddsPairs
<1>6. CASE StartThread(t)
    <2>1. /\ p = 0 /\ eventToGroup' = [eventToGroup EXCEPT ![n] = groupCount]
          /\ groupCount' = groupCount + 1 /\ UNCHANGED <<relations, mhb_constraints>>
        BY <1>3, <1>6 DEF StartThread, CreateNewGroup
    <2>2. GroupsOK'
        BY <1>1, <1>3, <2>1, StepGroups DEF GroupInv
    <2> QED
        BY <1>1, <1>2, <1>5, <2>1, <2>2 DEF GroupInv, RecordedOK
<1>7. CASE NextInThread(t)
    <2>1. /\ p # 0 /\ mhb_constraints' = mhb_constraints \cup {new}
          /\ \/ /\ SplitsAfter(t, p)
                /\ eventToGroup' = [eventToGroup EXCEPT ![n] = groupCount]
                /\ groupCount' = groupCount + 1
                /\ relations' = relations \cup {new}
             \/ /\ ~SplitsAfter(t, p)
                /\ eventToGroup' = [eventToGroup EXCEPT ![n] = GroupOf(t, p)]
                /\ groupCount' = groupCount
                /\ relations' = relations
        BY <1>3, <1>4, <1>7 DEF NextInThread, CreateNewGroup, AddToGroup, AddRelation,
            SplitsAfter, StepPair, GroupOf
    <2>2. GroupsOK'
        BY <1>1, <1>3, <2>1, StepGroups DEF GroupInv
    <2>3. relations' = SplitPairs' /\ mhb_constraints' = StepPairs'
        BY <1>2, <1>5, <2>1
    <2> QED
        BY <1>1, <2>2, <2>3 DEF GroupInv, RecordedOK
<1> QED
    BY <1>6, <1>7

\* Steps that leave the trace and the groups as they are.
LEMMA GroupsStay ==
    ASSUME GroupsOK, UNCHANGED traceMaps, UNCHANGED <<eventToGroup, groupCount, mhb_pos>>
    PROVE  /\ GroupsOK' /\ SplitPairs' = SplitPairs /\ StepPairs' = StepPairs
           /\ Partners' = Partners /\ \A t \in Threads : ThreadDone(t)' <=> ThreadDone(t)
<1>1. UNCHANGED <<all_events, thread_id_to_thread, fork_begin_pairs, end_join_pairs>>
    BY DEF traceMaps, mapVars
<1>2. /\ \A t : EventsOf(t)' = EventsOf(t)
      /\ EID' = EID /\ Groups' = Groups /\ Partners' = Partners
      /\ \A t, i : SplitsAfter(t, i)' <=> SplitsAfter(t, i)
      /\ \A t, i : GroupedStep(t, i)' <=> GroupedStep(t, i)
      /\ \A t, i : StepPair(t, i)' = StepPair(t, i)
      /\ \A t, i : GroupOf(t, i)' = GroupOf(t, i)
    BY <1>1 DEF EventsOf, EID, Groups, Partners, SplitsAfter, Splits, Type, GroupedStep, StepPair,
        GroupOf
<1>3. \A t \in Threads : ThreadDone(t)' <=> ThreadDone(t)
    BY <1>1 DEF ThreadDone, EventsOf
<1>4. SplitPairs' = SplitPairs /\ StepPairs' = StepPairs
    BY <1>2 DEF SplitPairs, StepPairs
<1>5. GroupsOK'
    BY <1>2 DEF GroupsOK
<1> QED
    BY <1>2, <1>3, <1>4, <1>5

LEMMA LaterGroups ==
    ASSUME GroupInv,
           \/ RelateThreads \/ BuildClosure \/ GenerateConstraints
           \/ (\E S \in SUBSET EID : Z3Place(S)) \/ Z3Assign \/ UNCHANGED vars
    PROVE  GroupInv'
<1>1. UNCHANGED traceMaps /\ UNCHANGED <<eventToGroup, groupCount, mhb_pos>>
    BY DEF RelateThreads, BuildClosure, GenerateConstraints, Z3Place, Z3Assign, Build, vars,
        traceMaps, traceVars, builderVars, constraintVars
<1>2. /\ GroupsOK' /\ SplitPairs' = SplitPairs /\ StepPairs' = StepPairs
      /\ Partners' = Partners /\ \A t \in Threads : ThreadDone(t)' <=> ThreadDone(t)
    BY <1>1, GroupsStay DEF GroupInv
<1>3. RecordedOK
    BY DEF GroupInv
<1>4. CASE RelateThreads
    <2>1. /\ pc = "group" /\ pc' = "build" /\ \A t \in Threads : ThreadDone(t)
          /\ relations' = relations \cup Partners
          /\ mhb_constraints' = mhb_constraints \cup Partners
        BY <1>4 DEF RelateThreads, Partners
    <2> QED
        BY <1>2, <1>3, <2>1 DEF GroupInv, RecordedOK
<1>5. CASE BuildClosure
    <2>1. /\ pc = "build" /\ pc' = "constrain" /\ happens_before' = Closure
          /\ UNCHANGED <<relations, mhb_constraints, eventToGroup, groupCount>>
        BY <1>5 DEF BuildClosure, Build, constraintVars
    <2>2. Closure' = Closure
        BY <2>1 DEF Closure, Groups, GroupRelations, Reaches, ClosedFrom
    <2> QED
        BY <1>2, <1>3, <2>1, <2>2 DEF GroupInv, RecordedOK
<1>6. CASE GenerateConstraints \/ (\E S \in SUBSET EID : Z3Place(S)) \/ Z3Assign \/ UNCHANGED vars
    <2>1. /\ UNCHANGED builderVars /\ mhb_constraints' = mhb_constraints
          /\ \/ pc' = pc
             \/ pc \notin {"trace", "group", "build"} /\ pc' \notin {"trace", "group", "build"}
        BY <1>6 DEF GenerateConstraints, Z3Place, Z3Assign, vars, traceVars, constraintVars
    <2>2. UNCHANGED <<relations, happens_before>> /\ Closure' = Closure
        BY <2>1 DEF builderVars, Closure, Groups, GroupRelations, Reaches, ClosedFrom
    <2>3. CASE pc' = pc
        BY <1>1, <1>2, <1>3, <2>1, <2>2, <2>3 DEF GroupInv, RecordedOK
    <2>4. CASE pc \notin {"trace", "group", "build"} /\ pc' \notin {"trace", "group", "build"}
        BY <1>2, <1>3, <2>1, <2>2, <2>4 DEF GroupInv, RecordedOK
    <2> QED
        BY <2>1, <2>3, <2>4
<1> QED
    BY <1>4, <1>5, <1>6

CausalInv == TraceInv /\ OrderInv /\ GroupInv

LEMMA InitCausal == Init => CausalInv
BY InitTraceInv, InitOrder, InitGroups DEF Init, CausalInv

LEMMA NextCausal == CausalInv /\ [Next]_vars => CausalInv'
<1> SUFFICES ASSUME CausalInv, [Next]_vars PROVE CausalInv'
    OBVIOUS
<1>1. IInv /\ EventsWellFormed /\ LengthOK /\ OrderInv /\ GroupInv /\ TraceInv
    BY DEF CausalInv, TraceInv, LifeInv
<1>2. OrderInv'
    BY <1>1, NextOrder
<1>3. CASE TraceNext /\ UNCHANGED <<builderVars, constraintVars, solverVars>>
    BY <1>1, <1>2, <1>3, NextTraceInv, TraceGroups DEF CausalInv
<1>4. ASSUME NEW t \in Threads, StartThread(t) \/ NextInThread(t) PROVE CausalInv'
    <2>1. UNCHANGED traceMaps
        BY <1>4 DEF StartThread, NextInThread, Step, traceMaps, traceVars
    <2>2. GroupInv'
        BY <1>1, <1>4, GroupingGroups
    <2> QED
        BY <1>1, <1>2, <2>1, <2>2, KeptTraceInv DEF CausalInv
<1>5. CASE \/ RelateThreads \/ BuildClosure \/ GenerateConstraints
           \/ (\E S \in SUBSET EID : Z3Place(S)) \/ Z3Assign \/ UNCHANGED vars
    <2>1. UNCHANGED traceMaps
        BY <1>5 DEF RelateThreads, BuildClosure, GenerateConstraints, Z3Place, Z3Assign, vars,
            traceMaps, traceVars
    <2>2. GroupInv'
        BY <1>1, <1>5, LaterGroups
    <2> QED
        BY <1>1, <1>2, <2>1, <2>2, KeptTraceInv DEF CausalInv
<1> QED
    BY <1>3, <1>4, <1>5 DEF Next

-----------------------------------------------------------------------------
(* What the groups say of the order of the events.                         *)

\* A set of naturals has a least element.
LEMMA LeastElement ==
    ASSUME NEW S \in SUBSET Nat, S # {}
    PROVE  \E m \in S : \A n \in S : m <= n
<1>1. PICK m \in S : \A n \in S : <<n, m>> \notin OpToRel(<, Nat)
    BY NatLessThanWellFounded, WFMin, Zenon
<1>2. \A n \in S : n \in Nat /\ m \in Nat /\ ~(n < m)
    BY <1>1, Zenon DEF OpToRel
<1> QED
    BY <1>2

\* An edge is a path, and a path goes on.
LEMMA ReachesEdge ==
    ASSUME NEW G, NEW R, NEW a \in G, NEW b \in G, <<a, b>> \in R
    PROVE  Reaches(G, R, a, b)
BY DEF Reaches, ClosedFrom

LEMMA ReachesOn ==
    ASSUME NEW G, NEW R, NEW a \in G, NEW b \in G, NEW c \in G,
           Reaches(G, R, a, b), <<b, c>> \in R
    PROVE  Reaches(G, R, a, c)
BY DEF Reaches, ClosedFrom

\* Every relation leads from the last event of a group to the first of another,
\* and both follow from the trace.
Grouped == pc \notin {"trace", "group"}

LEMMA GroupedFacts ==
    ASSUME CausalInv, Grouped
    PROVE  /\ \A t \in Threads : mhb_pos[t] = Len(EventsOf(t))
           /\ relations = SplitPairs \cup ForkBegins \cup EndJoins
           /\ mhb_constraints = StepPairs \cup ForkBegins \cup EndJoins
BY DEF CausalInv, TraceInv, PartnersInv, GroupInv, RecordedOK, Grouped, ThreadDone, Partners

LEMMA RelationsExact ==
    ASSUME CausalInv, Grouped, NEW r \in relations
    PROVE  /\ r \in EID \X EID /\ MustPrecede(r[1], r[2])
           /\ \A e \in EID : eventToGroup[e] = eventToGroup[r[1]] =>
                  e = r[1] \/ (Tid(e) = Tid(r[1]) /\ e < r[1])
           /\ \A e \in EID : eventToGroup[e] = eventToGroup[r[2]] =>
                  e = r[2] \/ (Tid(e) = Tid(r[2]) /\ r[2] < e)
<1> USE DEF CausalInv, TraceInv
<1>1. /\ IInv /\ EventsWellFormed /\ LengthOK /\ OrderInv /\ GroupsOK
      /\ \A t \in Threads : mhb_pos[t] = Len(EventsOf(t))
    BY GroupedFacts DEF LifeInv, GroupInv
<1> DEFINE a == r[1]
           b == r[2]
<1>2. /\ r \in EID \X EID /\ a \in EID /\ b \in EID
    BY GroupedFacts DEF SplitPairs, ForkBegins, EndJoins
<1>31. PICK t \in Threads : t = Tid(a)
    BY <1>1, <1>2, Positions
<1>3. PICK i \in 1 .. Len(EventsOf(t)) : a = EventsOf(t)[i] /\ Tid(a) = t
    BY <1>1, <1>2, <1>31, Positions
<1>41. PICK u \in Threads : u = Tid(b)
    BY <1>1, <1>2, Positions
<1>4. PICK j \in 1 .. Len(EventsOf(u)) : b = EventsOf(u)[j] /\ Tid(b) = u
    BY <1>1, <1>2, <1>41, Positions
<1>5. i \in Nat /\ j \in Nat /\ Len(EventsOf(t)) \in Nat /\ Len(EventsOf(u)) \in Nat
    BY <1>1, Positions
<1>6. /\ MustPrecede(a, b)
      /\ i + 1 \in 1 .. Len(EventsOf(t)) => SplitsAfter(t, i)
      /\ j # 1 => SplitsAfter(u, j - 1)
    <2>1. CASE r \in SplitPairs
        <3>0. PICK v \in Threads : \E k \in 1 .. mhb_pos[v] :
                  GroupedStep(v, k) /\ SplitsAfter(v, k) /\ r = StepPair(v, k)
            BY <2>1 DEF SplitPairs
        <3>1. PICK k \in 1 .. mhb_pos[v] :
                  GroupedStep(v, k) /\ SplitsAfter(v, k) /\ r = StepPair(v, k)
            BY <3>0
        <3>2. /\ k \in 1 .. Len(EventsOf(v)) /\ k + 1 \in 1 .. Len(EventsOf(v))
              /\ a = EventsOf(v)[k] /\ b = EventsOf(v)[k + 1] /\ k \in Nat
            BY <1>1, <3>1 DEF GroupedStep, StepPair
        <3>3. v = t /\ k = i /\ v = u /\ j = k + 1
            <4>1. k + 1 \in 1 .. Len(EventsOf(v)) /\ EventsOf(v)[k + 1] = EventsOf(u)[j]
                BY <1>4, <3>2
            <4>2. EventsOf(v)[k] = EventsOf(t)[i]
                BY <1>3, <3>2
            <4>3. v = t /\ k = i
                BY <1>1, <3>2, <4>2, Positions
            <4>4. v = u /\ k + 1 = j
                BY <1>1, <4>1, Positions
            <4> QED
                BY <4>3, <4>4
        <3>4. a < b
            BY <1>1, <3>2, Positions
        <3>5. j - 1 = i
            BY <1>5, <3>3
        <3> QED
            BY <1>3, <1>4, <3>1, <3>3, <3>4, <3>5 DEF MustPrecede
    <2>2. CASE r \in ForkBegins
        <3>1. Type(a) = "Fork" /\ Type(b) = "Begin" /\ Target(a) = Tid(b) /\ IsBegin(b, u)
            BY <1>4, <2>2 DEF ForkBegins, IsFork, IsBegin
        <3>2. MustPrecede(a, b) /\ SplitsAfter(t, i)
            BY <1>3, <3>1 DEF MustPrecede, SplitsAfter, Splits
        <3>3. j = 1
            <4>1. BoundsOK(u)
                BY DEF LifeInv
            <4>2. 1 \in 1 .. Len(EventsOf(u))
                BY <1>4, <1>5
            <4>3. EventsOf(u)[1] \in EID /\ Tid(EventsOf(u)[1]) = u
                BY <1>1, <4>2, Positions
            <4>4. b <= EventsOf(u)[1] /\ b \in Nat /\ EventsOf(u)[1] \in Nat
                BY <1>1, <1>2, <3>1, <4>1, <4>3, Positions DEF BoundsOK
            <4>5. ~(1 < j)
                BY <1>1, <1>4, <4>2, <4>4, Positions
            <4> QED
                BY <1>4, <1>5, <4>5
        <3> QED
            BY <3>2, <3>3
    <2>3. CASE r \in EndJoins
        <3>1. /\ Type(a) = "End" /\ Type(b) = "Join" /\ Tid(a) = Target(b) /\ IsEnd(a, t)
            BY <1>3, <2>3 DEF EndJoins, IsEnd, IsJoin
        <3>2. MustPrecede(a, b)
            BY <3>1 DEF MustPrecede
        <3>3. j # 1 => SplitsAfter(u, j - 1)
            <4>1. (j - 1) + 1 = j
                BY <1>5
            <4> QED
                BY <1>4, <3>1, <4>1 DEF SplitsAfter, Splits
        <3>4. ASSUME i + 1 \in 1 .. Len(EventsOf(t)) PROVE FALSE
            <4>1. EventsOf(t)[i + 1] \in EID /\ Tid(EventsOf(t)[i + 1]) = t
                BY <1>1, <3>4, Positions
            <4>2. BoundsOK(t)
                BY DEF LifeInv
            <4>3. EventsOf(t)[i + 1] <= a
                BY <1>2, <3>1, <4>1, <4>2 DEF BoundsOK
            <4>4. a < EventsOf(t)[i + 1] /\ a \in Nat /\ EventsOf(t)[i + 1] \in Nat
                <5>1. i < i + 1
                    BY <1>5
                <5> QED
                    BY <1>1, <1>3, <3>4, <5>1, Positions
            <4> QED
                BY <4>3, <4>4
        <3> QED
            BY <3>2, <3>3, <3>4
    <2> QED
        BY <2>1, <2>2, <2>3, GroupedFacts
<1>7. ASSUME NEW e \in EID, eventToGroup[e] = eventToGroup[a]
      PROVE  e = a \/ (Tid(e) = Tid(a) /\ e < a)
    <2>0. PICK v \in Threads : v = Tid(e)
        BY <1>1, Positions
    <2>1. PICK k \in 1 .. Len(EventsOf(v)) : e = EventsOf(v)[k] /\ Tid(e) = v
        BY <1>1, <2>0, Positions
    <2>2. /\ v = t
          /\ \A m \in i .. k - 1 : ~SplitsAfter(t, m)
        BY <1>1, <1>3, <1>7, <2>1 DEF GroupsOK, GroupOf
    <2>3. ~(i < k)
        <3> SUFFICES ASSUME i < k PROVE FALSE
            OBVIOUS
        <3>1. k \in Nat /\ i \in i .. k - 1 /\ i + 1 \in 1 .. Len(EventsOf(t))
            BY <1>5, <2>1, <2>2
        <3> QED
            BY <1>6, <2>2, <3>1
    <2>4. k = i \/ k < i
        BY <1>5, <2>1, <2>3
    <2> QED
        BY <1>1, <1>3, <2>1, <2>2, <2>4, Positions
<1>8. ASSUME NEW e \in EID, eventToGroup[e] = eventToGroup[b]
      PROVE  e = b \/ (Tid(e) = Tid(b) /\ b < e)
    <2>0. PICK v \in Threads : v = Tid(e)
        BY <1>1, Positions
    <2>1. PICK k \in 1 .. Len(EventsOf(v)) : e = EventsOf(v)[k] /\ Tid(e) = v
        BY <1>1, <2>0, Positions
    <2>2. /\ v = u
          /\ \A m \in k .. j - 1 : ~SplitsAfter(v, m)
        BY <1>1, <1>4, <1>8, <2>1 DEF GroupsOK, GroupOf
    <2>3. ~(k < j)
        <3> SUFFICES ASSUME k < j PROVE FALSE
            OBVIOUS
        <3>1. k \in Nat /\ j - 1 \in k .. j - 1 /\ j # 1
            BY <1>5, <2>1, <2>2
        <3> QED
            BY <1>6, <2>2, <3>1
    <2>4. k = j \/ j < k
        BY <1>5, <2>1, <2>2, <2>3
    <2> QED
        BY <1>1, <1>4, <2>1, <2>2, <2>4, Positions
<1> QED
    BY <1>2, <1>6, <1>7, <1>8

\* Along a thread, the groups stay inside a set that the relations do not leave.
LEMMA Climb ==
    ASSUME CausalInv, Grouped, NEW X,
           \A x \in X, y \in Groups : <<x, y>> \in GroupRelations => y \in X,
           NEW t \in Threads, NEW i \in 1 .. Len(EventsOf(t)), NEW j \in 1 .. Len(EventsOf(t)),
           i <= j, GroupOf(t, i) \in X
    PROVE  GroupOf(t, j) \in X
<1> SUFFICES ASSUME GroupOf(t, j) \notin X PROVE FALSE
    OBVIOUS
<1>1. /\ IInv /\ EventsWellFormed /\ LengthOK /\ OrderInv /\ GroupsOK
      /\ mhb_pos[t] = Len(EventsOf(t)) /\ Len(EventsOf(t)) \in Nat
    <2>1. IInv /\ EventsWellFormed /\ LengthOK /\ OrderInv /\ GroupsOK
        BY DEF CausalInv, TraceInv, LifeInv, GroupInv
    <2> QED
        BY <2>1, GroupedFacts, Positions
<1> DEFINE S == {k \in i .. j : GroupOf(t, k) \notin X}
<1>2. S \in SUBSET Nat /\ j \in S
    BY <1>1
<1>3. PICK m \in S : \A k \in S : m <= k
    BY <1>2, LeastElement
<1>4. /\ m \in i .. j /\ m # i /\ GroupOf(t, m) \notin X
    BY <1>3
<1>5. m - 1 \in i .. j /\ m - 1 \in 1 .. mhb_pos[t] /\ (m - 1) + 1 = m /\ m \in 1 .. mhb_pos[t]
    BY <1>1, <1>4
<1>6. GroupOf(t, m - 1) \in X
    <2>1. m - 1 \notin S
        BY <1>1, <1>3, <1>5
    <2> QED
        BY <1>5, <2>1
<1> HIDE DEF S
<1>7. GroupedStep(t, m - 1)
    BY <1>5 DEF GroupedStep
<1>8. CASE SplitsAfter(t, m - 1)
    <2>1. EventsOf(t)[m - 1] \in EID /\ EventsOf(t)[m] \in EID
        BY <1>1, <1>5, Positions
    <2>2. StepPair(t, m - 1) = <<EventsOf(t)[m - 1], EventsOf(t)[m]>>
        BY <1>5 DEF StepPair
    <2>3. StepPair(t, m - 1) \in relations
        BY <1>5, <1>7, <1>8, <2>1, <2>2, GroupedFacts DEF SplitPairs
    <2>4. <<GroupOf(t, m - 1), GroupOf(t, m)>> \in GroupRelations
        BY <2>2, <2>3 DEF GroupRelations, GroupOf
    <2>5. GroupOf(t, m) \in Groups
        BY <1>1, <1>5 DEF GroupsOK
    <2> QED
        BY <1>4, <1>6, <2>4, <2>5
<1>9. CASE ~SplitsAfter(t, m - 1)
    BY <1>1, <1>4, <1>5, <1>6, <1>7, <1>9 DEF GroupsOK
<1> QED
    BY <1>8, <1>9

\* The same, said of events.
LEMMA ClimbEvents ==
    ASSUME CausalInv, Grouped, NEW X,
           \A x \in X, y \in Groups : <<x, y>> \in GroupRelations => y \in X,
           NEW a \in EID, NEW b \in EID, Tid(a) = Tid(b), a < b, eventToGroup[a] \in X
    PROVE  eventToGroup[b] \in X
<1>1. IInv /\ EventsWellFormed /\ LengthOK /\ OrderInv
    BY DEF CausalInv, TraceInv, LifeInv
<1>2. PICK t \in Threads : t = Tid(a)
    BY <1>1, Positions
<1>3. PICK i \in 1 .. Len(EventsOf(t)) : a = EventsOf(t)[i]
    BY <1>1, <1>2, Positions
<1>4. PICK j \in 1 .. Len(EventsOf(t)) : b = EventsOf(t)[j]
    BY <1>1, <1>2, Positions
<1>5. i <= j
    <2>1. i < j
        BY <1>1, <1>3, <1>4, Positions
    <2> QED
        BY <2>1
<1> QED
    BY <1>3, <1>4, <1>5, Climb DEF GroupOf

LEMMA GroupsOfEvents ==
    ASSUME CausalInv, Grouped
    PROVE  \A e \in EID : eventToGroup[e] \in Groups
<1>1. /\ IInv /\ EventsWellFormed /\ LengthOK /\ OrderInv /\ GroupsOK
    BY DEF CausalInv, TraceInv, LifeInv, GroupInv
<1>2. ASSUME NEW e \in EID PROVE eventToGroup[e] \in Groups
    <2>1. PICK t \in Threads : t = Tid(e)
        BY <1>1, Positions
    <2>2. PICK i \in 1 .. Len(EventsOf(t)) : e = EventsOf(t)[i]
        BY <1>1, <2>1, Positions
    <2> QED
        BY <1>1, <2>2, GroupedFacts DEF GroupsOK, GroupOf
<1> QED
    BY <1>2

\* A path between groups is a path between events.
LEMMA HbSound ==
    ASSUME CausalInv, Grouped, happens_before = Closure,
           NEW a \in EID, NEW b \in EID, hb(a, b)
    PROVE  Reaches(EID, MustPrecedeEdges, a, b)
<1> SUFFICES ASSUME NEW U \in SUBSET EID, ClosedFrom(EID, MustPrecedeEdges, a, U)
             PROVE  b \in U
    BY DEF Reaches
<1>1. \A x \in EID : MustPrecede(a, x) => x \in U
    BY DEF ClosedFrom, MustPrecedeEdges
<1>2. \A x \in U, y \in EID : MustPrecede(x, y) => y \in U
    BY DEF ClosedFrom, MustPrecedeEdges
<1>3. CASE Tid(a) = Tid(b) /\ a < b
    BY <1>1, <1>3 DEF MustPrecede
<1>4. CASE happensBefore(a, b)
    <2> DEFINE V == {G \in Groups : \A e \in EID : eventToGroup[e] = G => e \in U}
    <2>1. ASSUME NEW r \in relations, r[1] = a \/ MustPrecede(a, r[1]) \/ r[1] \in U,
                 NEW e \in EID, eventToGroup[e] = eventToGroup[r[2]]
          PROVE  e \in U
        <3>1. r[1] \in EID /\ r[2] \in EID /\ MustPrecede(r[1], r[2])
            BY RelationsExact
        <3>2. r[2] \in U
            BY <1>1, <1>2, <2>1, <3>1
        <3>3. e = r[2] \/ (Tid(e) = Tid(r[2]) /\ r[2] < e)
            BY <2>1, RelationsExact
        <3>4. e = r[2] \/ MustPrecede(r[2], e)
            BY <3>3 DEF MustPrecede
        <3> QED
            BY <1>2, <3>2, <3>4
    <2>2. ASSUME NEW G \in Groups, <<eventToGroup[a], G>> \in GroupRelations PROVE G \in V
        <3>1. PICK r \in relations : eventToGroup[r[1]] = eventToGroup[a] /\ eventToGroup[r[2]] = G
            BY <2>2 DEF GroupRelations
        <3>2. a = r[1] \/ (Tid(a) = Tid(r[1]) /\ a < r[1])
            BY <3>1, RelationsExact
        <3>3. r[1] = a \/ MustPrecede(a, r[1])
            BY <3>2 DEF MustPrecede
        <3> QED
            BY <2>1, <3>1, <3>3
    <2>3. ASSUME NEW F \in V, NEW G \in Groups, <<F, G>> \in GroupRelations PROVE G \in V
        <3>1. PICK r \in relations : eventToGroup[r[1]] = F /\ eventToGroup[r[2]] = G
            BY <2>3 DEF GroupRelations
        <3>2. r[1] \in U
            BY <2>3, <3>1, RelationsExact
        <3> QED
            BY <2>1, <3>1, <3>2
    <2>4. V \in SUBSET Groups
        OBVIOUS
    <2> HIDE DEF V
    <2>5. ClosedFrom(Groups, GroupRelations, eventToGroup[a], V)
        BY <2>2, <2>3 DEF ClosedFrom
    <2>6. Reaches(Groups, GroupRelations, eventToGroup[a], eventToGroup[b])
        BY <1>4 DEF happensBefore, Closure
    <2>7. eventToGroup[b] \in V
        BY <2>4, <2>5, <2>6 DEF Reaches
    <2> QED
        BY <2>7 DEF V
<1> QED
    BY <1>3, <1>4 DEF hb

\* A path between events is a path between their groups, or inside a thread.
LEMMA HbComplete ==
    ASSUME CausalInv, Grouped, happens_before = Closure,
           NEW a \in EID, NEW b \in EID, Reaches(EID, MustPrecedeEdges, a, b)
    PROVE  hb(a, b)
<1> DEFINE U == {e \in EID : hb(a, e)}
           g == eventToGroup[a]
<1>1. \A e \in EID : eventToGroup[e] \in Groups
    BY GroupsOfEvents
<1>2. \A e \in EID : happensBefore(a, e) <=> Reaches(Groups, GroupRelations, g, eventToGroup[e])
    BY <1>1 DEF happensBefore, Closure
<1>3. ASSUME NEW e \in EID, e = a \/ hb(a, e), NEW y \in EID, MustPrecede(e, y)
      PROVE  hb(a, y)
    <2>1. CASE Tid(e) = Tid(y) /\ e < y
        <3>1. CASE e = a \/ (Tid(a) = Tid(e) /\ a < e)
            <4>1. a \in Nat /\ e \in Nat /\ y \in Nat
                BY Positions DEF CausalInv, TraceInv, LifeInv
            <4>2. Tid(a) = Tid(y) /\ a < y
                BY <2>1, <3>1, <4>1
            <4> QED
                BY <4>2 DEF hb
        <3>2. CASE happensBefore(a, e)
            <4> SUFFICES ASSUME NEW V \in SUBSET Groups,
                                ClosedFrom(Groups, GroupRelations, g, V)
                         PROVE  eventToGroup[y] \in V
                BY <1>2 DEF Reaches, hb
            <4>1. eventToGroup[e] \in V
                BY <1>2, <3>2 DEF Reaches
            <4>2. \A x \in V, z \in Groups : <<x, z>> \in GroupRelations => z \in V
                BY DEF ClosedFrom
            <4> QED
                BY <2>1, <4>1, <4>2, ClimbEvents
        <3> QED
            BY <1>3, <3>1, <3>2 DEF hb
    <2>2. CASE ~(Tid(e) = Tid(y) /\ e < y)
        <3>1. <<e, y>> \in relations
            <4>1. Tid(e) \in Threads /\ Tid(y) \in Threads
                BY Positions DEF CausalInv, TraceInv, LifeInv
            <4>2. <<e, y>> \in ForkBegins \cup EndJoins
                BY <1>3, <2>2, <4>1 DEF MustPrecede, ForkBegins, EndJoins, IsFork, IsBegin, IsEnd,
                    IsJoin
            <4> QED
                BY <4>2, GroupedFacts
        <3>2. <<eventToGroup[e], eventToGroup[y]>> \in GroupRelations
            BY <3>1 DEF GroupRelations
        <3> SUFFICES ASSUME NEW V \in SUBSET Groups,
                            ClosedFrom(Groups, GroupRelations, g, V)
                     PROVE  eventToGroup[y] \in V
            BY <1>2 DEF Reaches, hb
        <3>3. \A x \in V \cup {g}, z \in Groups : <<x, z>> \in GroupRelations => z \in V
            BY DEF ClosedFrom
        <3>4. eventToGroup[e] \in V \cup {g}
            <4>1. CASE e = a
                BY <4>1
            <4>2. CASE happensBefore(a, e)
                BY <1>2, <4>2 DEF Reaches
            <4>3. CASE Tid(a) = Tid(e) /\ a < e
                <5>1. \A x \in V \cup {g}, z \in Groups :
                          <<x, z>> \in GroupRelations => z \in V \cup {g}
                    BY <3>3
                <5> QED
                    BY <4>3, <5>1, ClimbEvents
            <4> QED
                BY <1>3, <4>1, <4>2, <4>3 DEF hb
        <3> QED
            BY <1>1, <3>2, <3>3, <3>4
    <2> QED
        BY <2>1, <2>2
<1>4. ClosedFrom(EID, MustPrecedeEdges, a, U)
    <2>1. \A x \in EID : <<a, x>> \in MustPrecedeEdges => x \in U
        BY <1>3 DEF MustPrecedeEdges
    <2>2. \A x \in U, y \in EID : <<x, y>> \in MustPrecedeEdges => y \in U
        BY <1>3 DEF MustPrecedeEdges
    <2> QED
        BY <2>1, <2>2 DEF ClosedFrom
<1>5. U \in SUBSET EID
    OBVIOUS
<1> HIDE DEF U
<1>6. b \in U
    BY <1>4, <1>5 DEF Reaches
<1> QED
    BY <1>6 DEF U

\* Grouping loses nothing and adds nothing: whatever the trace and the order in
\* which its threads are visited, two events are ordered by their groups or by
\* their thread exactly when a path of program order, fork and join edges leads
\* from one to the other.
THEOREM HbTheorem == Spec => []HbExact
<1>1. CausalInv => HbExact
    <2> SUFFICES ASSUME CausalInv, pc = "constrain", NEW a \in EID, NEW b \in EID
                 PROVE  hb(a, b) <=> Reaches(EID, MustPrecedeEdges, a, b)
        BY DEF HbExact
    <2>1. Grouped /\ happens_before = Closure
        BY DEF Grouped, CausalInv, GroupInv, RecordedOK
    <2> QED
        BY <2>1, HbSound, HbComplete
<1> QED
    BY InitCausal, NextCausal, <1>1, PTL DEF Spec
=============================================================================
