--------------------------- MODULE SolutionProofs ---------------------------
(***************************************************************************)
(* What a solution of the constraints means, for every trace: the phis     *)
(* vouch for their reads, and for no other, a race that is found is one,   *)
(* and the witness written for it is a legal prefix that leads to it.      *)
(***************************************************************************)
EXTENDS ModelLogger, CausalProofs, FiniteSetTheorems

-----------------------------------------------------------------------------
(* The greatest element of a set of events, or of positions.               *)

LEMMA GreatestElement ==
    ASSUME NEW S \in SUBSET Nat, S # {}, NEW n \in Nat, \A d \in S : d <= n
    PROVE  \E m \in S : \A d \in S : d <= m
<1> DEFINE U == {k \in Nat : \A d \in S : d <= k}
<1>1. U \in SUBSET Nat /\ U # {}
    OBVIOUS
<1>2. PICK m \in U : \A k \in U : m <= k
    BY <1>1, LeastElement
<1>3. CASE m \in S
    BY <1>2, <1>3
<1>4. CASE m \notin S
    <2>1. \A d \in S : d < m
        BY <1>2, <1>4
    <2>2. PICK d \in S : TRUE
        OBVIOUS
    <2>3. m - 1 \in Nat /\ \A e \in S : e <= m - 1
        BY <1>2, <2>1, <2>2
    <2> QED
        BY <1>2, <2>3
<1> QED
    BY <1>3, <1>4

\* LastOf finds it.
LEMMA LastOfBounded ==
    ASSUME NEW S \in SUBSET Nat, NEW n \in Nat, \A d \in S : d <= n
    PROVE  /\ LastOf(S) \in Nat /\ LastOf(S) <= n
           /\ \A d \in S : d <= LastOf(S)
           /\ LastOf(S) # NullEvent => LastOf(S) \in S
           /\ LastOf(S) = NullEvent => \A d \in S : d = NullEvent
<1>1. CASE S = {}
    BY <1>1, LastOfNone DEF NullEvent
<1>2. CASE S # {}
    <2>1. PICK m \in S : \A d \in S : d <= m
        BY <1>2, GreatestElement
    <2>2. LastOf(S) = m
        BY <2>1, LastOfGreatest
    <2> QED
        BY <2>1, <2>2 DEF NullEvent
<1> QED
    BY <1>1, <1>2

-----------------------------------------------------------------------------
(* What the queries return, said of events.                                *)

\* What every state knows of the trace, as the proofs below need it.
LEMMA EventFacts ==
    ASSUME CausalInv
    PROVE  /\ IInv /\ EventsWellFormed /\ LengthOK /\ OrderInv /\ AccessInv /\ HistoryInv
           /\ PartnersInv /\ LifeInv /\ AcquiresRecorded /\ GroupInv
           /\ EID \subseteq EIDs /\ EID \subseteq Nat \ {NullEvent}
           /\ EID = 1 .. Len(all_events) /\ Len(all_events) \in Nat
           /\ mhb_constraints \subseteq EID \X EID
<1>1. /\ IInv /\ EventsWellFormed /\ LengthOK /\ OrderInv /\ AccessInv /\ HistoryInv
      /\ PartnersInv /\ LifeInv /\ AcquiresRecorded /\ GroupInv
    BY DEF CausalInv, TraceInv, LifeInv
<1>2. EID \subseteq EIDs /\ EID \subseteq Nat
    BY <1>1, Positions
<1>3. EID = 1 .. Len(all_events) /\ Len(all_events) \in Nat
    BY <1>1 DEF EID, IInv, TypeOK
<1>4. mhb_constraints \subseteq EID \X EID
    <2>1. StepPairs \subseteq EID \X EID
        BY DEF StepPairs
    <2>2. Partners \subseteq EID \X EID
        BY <1>1 DEF PartnersInv, Partners, ForkBegins, EndJoins
    <2> QED
        BY <1>1, <2>1, <2>2 DEF GroupInv, RecordedOK
<1> QED
    BY <1>1, <1>2, <1>3, <1>4 DEF NullEvent

\* getPrevReadInThread.
LEMMA PrevRead ==
    ASSUME CausalInv, NEW e \in EID
    PROVE  /\ getPrevReadInThread(e) # NullEvent =>
                  /\ getPrevReadInThread(e) \in Reads
                  /\ Tid(getPrevReadInThread(e)) = Tid(e) /\ getPrevReadInThread(e) < e
           /\ \A p \in Reads : Tid(p) = Tid(e) /\ p < e =>
                  getPrevReadInThread(e) # NullEvent /\ p <= getPrevReadInThread(e)
<1> DEFINE S == ReadsBefore(Tid(e), e)
           prev == getPrevReadInThread(e)
<1>1. /\ EID = 1 .. Len(all_events) /\ Len(all_events) \in Nat /\ HistoryInv
      /\ Tid(e) \in Threads
    BY EventFacts DEF EventsWellFormed, WellFormed
<1>2. prev = LastOf(S)
    BY <1>1 DEF HistoryInv, ThreadMapsOK, getPrevReadInThread
<1>3. S \in SUBSET Nat /\ e \in Nat /\ \A d \in S : d <= e
    BY <1>1 DEF ReadsBefore
<1>4. /\ LastOf(S) # NullEvent => LastOf(S) \in S
      /\ \A d \in S : d <= LastOf(S)
    <2> HIDE DEF S
    <2> QED
        BY <1>3, LastOfBounded
<1>5. \A d \in S : d \in Reads /\ Tid(d) = Tid(e) /\ d < e /\ d # NullEvent
    BY <1>1 DEF ReadsBefore, Reads, NullEvent
<1>6. \A p \in Reads : Tid(p) = Tid(e) /\ p < e => p \in S
    BY <1>1 DEF ReadsBefore, Reads
<1>7. ASSUME NEW p \in S PROVE LastOf(S) # NullEvent
    BY <1>1, <1>3, <1>4, <1>5, <1>7 DEF NullEvent, ReadsBefore
<1> HIDE DEF S, prev
<1> QED
    BY <1>2, <1>4, <1>5, <1>6, <1>7 DEF prev

\* The writes of a variable.
LEMMA WritesAre ==
    ASSUME CausalInv, NEW r \in Reads
    PROVE  /\ Target(r) \in Vars /\ Tid(r) \in Threads
           /\ RangeOf(VariableOf(r).writes) = WritesTo(Target(r))
           /\ getGoodWritesForRead(r) = SameValueWrites(r)
           /\ getBadWritesForRead(r) = WritesTo(Target(r)) \ SameValueWrites(r)
<1>1. r \in EID /\ Target(r) \in Vars /\ Tid(r) \in Threads
    BY EventFacts DEF Reads, EventsWellFormed, WellFormed
<1>2. RangeOf(VariableOf(r).writes) = WritesTo(Target(r))
    BY <1>1, EventFacts DEF AccessInv, AccessesOK, VariableOf, WritesOf, WritesTo
<1> QED
    BY <1>1, <1>2 DEF getGoodWritesForRead, getBadWritesForRead, SameValueWrites

\* getSameThreadSameVarPrevWrite.
LEMMA PrevWrite ==
    ASSUME CausalInv, NEW r \in Reads,
           NEW pw, pw = getSameThreadSameVarPrevWrite(r)
    PROVE  /\ pw # NullEvent => pw \in WritesTo(Target(r)) /\ Tid(pw) = Tid(r) /\ pw < r
           /\ \A w \in WritesTo(Target(r)) : Tid(w) = Tid(r) /\ w < r =>
                  pw # NullEvent /\ w <= pw
<1> DEFINE S == OwnWritesBefore(Target(r), Tid(r), r)
<1>1. /\ EID = 1 .. Len(all_events) /\ Len(all_events) \in Nat /\ HistoryInv
      /\ Tid(r) \in Threads /\ Target(r) \in Vars /\ r \in EID /\ Type(r) = "Read"
    BY EventFacts, WritesAre DEF Reads
<1>2. pw = LastOf(S)
    BY <1>1 DEF HistoryInv, VariableOK, VariableMapsOK, getSameThreadSameVarPrevWrite, VariableOf
<1>3. S \in SUBSET Nat /\ r \in Nat /\ \A d \in S : d <= r
    BY <1>1 DEF OwnWritesBefore
<1>4. /\ LastOf(S) # NullEvent => LastOf(S) \in S
      /\ \A d \in S : d <= LastOf(S)
    <2> HIDE DEF S
    <2> QED
        BY <1>3, LastOfBounded
<1>5. \A d \in S : d \in WritesTo(Target(r)) /\ Tid(d) = Tid(r) /\ d < r /\ d # NullEvent
    BY <1>1 DEF OwnWritesBefore, WritesTo, NullEvent
<1>6. \A w \in WritesTo(Target(r)) : Tid(w) = Tid(r) /\ w < r => w \in S
    BY <1>1 DEF OwnWritesBefore, WritesTo
<1>7. ASSUME NEW p \in S PROVE LastOf(S) # NullEvent
    BY <1>1, <1>3, <1>4, <1>5, <1>7 DEF NullEvent, OwnWritesBefore
<1> HIDE DEF S
<1> QED
    BY <1>2, <1>4, <1>5, <1>6, <1>7

\* getPrevDiffReadInThread.
LEMMA PrevDiffRead ==
    ASSUME CausalInv, NEW r \in Reads,
           NEW pd, pd = getPrevDiffReadInThread(r), pd # NullEvent
    PROVE  /\ pd \in Reads /\ Tid(pd) = Tid(r) /\ Target(pd) = Target(r) /\ pd < r
           /\ Value(pd) # Value(r)
<1> DEFINE S == OtherReadsBefore(Target(r), Tid(r), r, Value(r))
<1>1. /\ EID = 1 .. Len(all_events) /\ Len(all_events) \in Nat /\ HistoryInv
      /\ Tid(r) \in Threads /\ Target(r) \in Vars /\ r \in EID /\ Type(r) = "Read"
    BY EventFacts, WritesAre DEF Reads
<1>2. pd = LastOf(S)
    BY <1>1 DEF HistoryInv, VariableOK, VariableMapsOK, getPrevDiffReadInThread, VariableOf
<1>3. S \in SUBSET Nat /\ r \in Nat /\ \A d \in S : d <= r
    BY <1>1 DEF OtherReadsBefore
<1>4. LastOf(S) # NullEvent => LastOf(S) \in S
    <2> HIDE DEF S
    <2> QED
        BY <1>3, LastOfBounded
<1>5. pd \in S
    <2> HIDE DEF S
    <2> QED
        BY <1>2, <1>4
<1> QED
    BY <1>1, <1>5 DEF OtherReadsBefore, Reads

\* The accesses of a variable in the trace: its first one is on record, and a
\* read returns what the last access before it left.
LEMMA MemoryFacts ==
    ASSUME CausalInv, NEW r \in Reads
    PROVE  /\ r \in Accesses(Target(r))
           /\ hasSameInitialValue(r) => InitialValue(Target(r), Value(r))
           /\ InitialValue(Target(r), Value(r)) => hasSameInitialValue(r)
           /\ (\A w \in WritesTo(Target(r)) : r < w) => hasSameInitialValue(r)
           /\ \A d \in Accesses(Target(r)) :
                  d < r /\ (\A w \in WritesTo(Target(r)) : w <= d \/ r < w)
                      => Value(d) = Value(r)
<1> DEFINE x == Target(r)
           v == var_id_to_variable[x]
<1>1. /\ EID = 1 .. Len(all_events) /\ Len(all_events) \in Nat
      /\ x \in Vars /\ r \in EID /\ Type(r) = "Read" /\ FirstOK(x) /\ MemoryOK(x)
    BY EventFacts, WritesAre DEF Reads, HistoryInv, VariableOK
<1>2. r \in Accesses(x)
    BY <1>1 DEF Accesses
<1>3. WritesOf(x) = WritesTo(x)
    BY DEF WritesOf, WritesTo
<1>4. \A d \in Accesses(x) :
          d < r /\ (\A w \in WritesTo(x) : w <= d \/ r < w) => Value(d) = Value(r)
    BY <1>1, <1>3 DEF MemoryOK, Accesses
<1>5. v.first_read # NullEvent =>
          /\ v.first_read \in Accesses(x) /\ Type(v.first_read) = "Read"
          /\ \A d \in Accesses(x) : v.first_read <= d
    BY <1>1 DEF FirstOK, Accesses
<1>6. v.first_write # NullEvent =>
          /\ v.first_write \in WritesTo(x)
          /\ \A d \in Accesses(x) : v.first_write <= d
    BY <1>1, <1>3 DEF FirstOK, Accesses
<1>7. v.first_write = NullEvent => v.first_read # NullEvent
    BY <1>1 DEF FirstOK, Untouched
<1>8. hasSameInitialValue(r) <=>
          v.first_write = NullEvent /\ Value(r) = Value(v.first_read)
    BY DEF hasSameInitialValue, VariableOf
<1>9. hasSameInitialValue(r) => InitialValue(x, Value(r))
    BY <1>5, <1>7, <1>8 DEF InitialValue
<1>10. Accesses(x) \subseteq Nat /\ \A w \in WritesTo(x) : w \in Accesses(x) /\ Type(w) = "Write"
    BY <1>1 DEF Accesses, WritesTo
<1>11. ASSUME InitialValue(x, Value(r)) PROVE hasSameInitialValue(r)
    <2> HIDE DEF v
    <2>1. PICK e \in Accesses(x) : /\ Type(e) = "Read" /\ Value(e) = Value(r)
                                   /\ \A d \in Accesses(x) : e <= d
        BY <1>11 DEF InitialValue
    <2>2. v.first_write = NullEvent
        <3> SUFFICES ASSUME v.first_write # NullEvent PROVE FALSE
            OBVIOUS
        <3>1. v.first_write = e
            BY <1>6, <1>10, <2>1
        <3> QED
            BY <1>6, <1>10, <2>1, <3>1
    <2>3. v.first_read = e
        BY <1>5, <1>7, <1>10, <2>1, <2>2
    <2> QED
        BY <1>8, <2>1, <2>2, <2>3
<1>12. ASSUME \A w \in WritesTo(x) : r < w PROVE hasSameInitialValue(r)
    <2> HIDE DEF v
    <2>1. v.first_write = NullEvent
        <3> SUFFICES ASSUME v.first_write # NullEvent PROVE FALSE
            OBVIOUS
        <3>1. v.first_write <= r /\ r < v.first_write /\ v.first_write \in Nat /\ r \in Nat
            BY <1>2, <1>6, <1>10, <1>12
        <3> QED
            BY <3>1
    <2>2. /\ v.first_read \in Accesses(x) /\ v.first_read <= r /\ v.first_read \in Nat /\ r \in Nat
        BY <1>2, <1>5, <1>7, <1>10, <2>1
    <2>3. Value(v.first_read) = Value(r)
        <3>1. CASE v.first_read = r
            BY <3>1
        <3>2. CASE v.first_read < r
            BY <1>4, <1>12, <2>2, <3>2
        <3> QED
            BY <2>2, <3>1, <3>2
    <2> QED
        BY <1>8, <2>1, <2>3
<1> QED
    BY <1>2, <1>4, <1>9, <1>11, <1>12

-----------------------------------------------------------------------------
(* The solution while it is built.                                         *)

\* Positions are numbers up to a bound, and there are none before there is a
\* query.
OrderTyped ==
    /\ order = [e \in EIDs |-> order[e]]
    /\ \A e \in EIDs : order[e] \in Nat
    /\ \E n \in Nat : \A e \in EIDs : order[e] <= n
    /\ pc \notin {"solve", "sat"} => \A e \in EIDs : order[e] = 0

\* The later event of a constraint gets its position after the earlier one.
PlacedInOrder ==
    \A c \in mhb_constraints :
        Placed(c[2]) => Placed(c[1]) /\ order[c[1]] < order[c[2]]

\* What Z3 is asked, and what it answers.
QueryOK ==
    pc \in {"solve", "sat"} =>
        /\ lock_constraints = LockConstraints /\ filtered_cops = FilteredCOPs
        /\ phi_reads = PhiReads(FilteredCOPs)
        /\ LocksExclude
AnswerOK ==
    pc = "sat" =>
        /\ \A e \in EID : Placed(e)
        /\ \E f \in [phi_reads -> BOOLEAN] : PhiEquations(f) /\ phi = f

SolveInv == OrderTyped /\ PlacedInOrder /\ QueryOK /\ AnswerOK

LEMMA InitSolve == Init => SolveInv
<1> SUFFICES ASSUME Init PROVE SolveInv
    OBVIOUS
<1>1. /\ pc = "trace" /\ mhb_constraints = {} /\ order = [e \in EIDs |-> 0]
    BY DEF Init, TraceInit
<1> QED
    BY <1>1 DEF SolveInv, OrderTyped, PlacedInOrder, QueryOK, AnswerOK

\* What the constraints are made of stays while Z3 works.
LEMMA QueryStays ==
    ASSUME UNCHANGED traceMaps, UNCHANGED builderVars
    PROVE  /\ LockConstraints' = LockConstraints /\ FilteredCOPs' = FilteredCOPs
           /\ PhiReads(FilteredCOPs)' = PhiReads(FilteredCOPs)
           /\ EID' = EID
<1>1. UNCHANGED <<all_events, thread_id_to_thread, var_id_to_variable,
                  lock_id_to_lock_region, eventToGroup, happens_before>>
    BY DEF traceMaps, mapVars, builderVars
<1>2. /\ \A e : Tid(e)' = Tid(e) /\ Type(e)' = Type(e) /\ Target(e)' = Target(e)
      /\ \A e : Value(e)' = Value(e) /\ VariableOf(e)' = VariableOf(e)
      /\ \A e : getPrevReadInThread(e)' = getPrevReadInThread(e)
      /\ \A a, b : happensBefore(a, b)' <=> happensBefore(a, b)
      /\ EID' = EID
    BY <1>1 DEF Tid, Type, Target, Value, VariableOf, getPrevReadInThread, happensBefore, EID
<1>3. LockConstraints' = LockConstraints
    BY <1>1, <1>2 DEF LockConstraints, Unordered
<1>4. FilteredCOPs' = FilteredCOPs
    <2>1. getCOPs' = getCOPs
        BY <1>1, <1>2 DEF getCOPs, VariableCOPs
    <2>2. \A a, b : hasCommonLock(a, b)' <=> hasCommonLock(a, b)
        BY <1>1, <1>2 DEF hasCommonLock, RegionsOf, containsEvent
    <2> QED
        BY <1>2, <2>1, <2>2 DEF FilteredCOPs
<1>5. \A r : GoodWrites(r)' = GoodWrites(r)
    <2>1. \A a, b : hb(a, b)' <=> hb(a, b)
        BY <1>2 DEF hb
    <2>2. \A r : getGoodWritesForRead(r)' = getGoodWritesForRead(r)
        BY <1>2 DEF getGoodWritesForRead
    <2>3. \A r : generalGoodWritesFilter(r)' = generalGoodWritesFilter(r)
        BY <2>1, <2>2 DEF generalGoodWritesFilter
    <2>4. \A r : /\ getSameThreadSameVarPrevWrite(r)' = getSameThreadSameVarPrevWrite(r)
                 /\ getPrevDiffReadInThread(r)' = getPrevDiffReadInThread(r)
        BY <1>2 DEF getSameThreadSameVarPrevWrite, getPrevDiffReadInThread
    <2>5. \A W, prev : prevWriteExistFilter(W, prev)' = prevWriteExistFilter(W, prev)
        BY <2>1 DEF prevWriteExistFilter
    <2> QED
        BY <2>3, <2>4, <2>5 DEF GoodWrites
<1>6. Reads' = Reads /\ \A r : CalledFrom(r)' = CalledFrom(r)
    BY <1>2, <1>5 DEF Reads, CalledFrom, PhiAbsOf
<1>7. Calls' = Calls /\ \A C : FirstCalls(C)' = FirstCalls(C)
    BY <1>2, <1>6 DEF Calls, FirstCalls, PhiAbsOf
<1>8. PhiReads(FilteredCOPs)' = PhiReads(FilteredCOPs)
    BY <1>4, <1>6, <1>7 DEF PhiReads, Reaches, ClosedFrom
<1> QED
    BY <1>2, <1>3, <1>4, <1>8

LEMMA EquationsStay ==
    ASSUME UNCHANGED traceMaps, UNCHANGED builderVars, UNCHANGED <<order, phi_reads>>, NEW f
    PROVE  PhiEquations(f)' <=> PhiEquations(f)
<1>1. UNCHANGED <<all_events, thread_id_to_thread, var_id_to_variable, eventToGroup,
                  happens_before>>
    BY DEF traceMaps, mapVars, builderVars
<1>2. /\ \A e : Tid(e)' = Tid(e) /\ Value(e)' = Value(e) /\ VariableOf(e)' = VariableOf(e)
      /\ \A e : getPrevReadInThread(e)' = getPrevReadInThread(e)
      /\ \A a, b : happensBefore(a, b)' <=> happensBefore(a, b)
    BY <1>1 DEF Tid, Target, Value, VariableOf, getPrevReadInThread, happensBefore
<1>3. \A a, b : hb(a, b)' <=> hb(a, b)
    BY <1>2 DEF hb
<1>4. \A a, b : Lt(a, b)' <=> Lt(a, b)
    BY DEF Lt, Placed
<1>5. \A r : /\ getGoodWritesForRead(r)' = getGoodWritesForRead(r)
             /\ getBadWritesForRead(r)' = getBadWritesForRead(r)
             /\ getSameThreadSameVarPrevWrite(r)' = getSameThreadSameVarPrevWrite(r)
             /\ getPrevDiffReadInThread(r)' = getPrevDiffReadInThread(r)
             /\ hasSameInitialValue(r)' <=> hasSameInitialValue(r)
    BY <1>2 DEF getGoodWritesForRead, getBadWritesForRead, getSameThreadSameVarPrevWrite,
        getPrevDiffReadInThread, hasSameInitialValue
<1>6. \A r : /\ generalGoodWritesFilter(r)' = generalGoodWritesFilter(r)
             /\ generalBadWritesFilter(r)' = generalBadWritesFilter(r)
    BY <1>3, <1>5 DEF generalGoodWritesFilter, generalBadWritesFilter
<1>7. \A W, prev : prevWriteExistFilter(W, prev)' = prevWriteExistFilter(W, prev)
    BY <1>3 DEF prevWriteExistFilter
<1>8. \A r : /\ GoodWrites(r)' = GoodWrites(r) /\ BadWrites(r)' = BadWrites(r)
             /\ Anchor(r)' = Anchor(r)
    BY <1>2, <1>5, <1>6, <1>7 DEF GoodWrites, BadWrites, Anchor
<1>9. \A r : Sources(r)' = Sources(r)
    BY <1>2, <1>5, <1>6, <1>8 DEF Sources
<1>10. \A r, good, bad : RFConstraint(r, good, bad)' <=> RFConstraint(r, good, bad)
    BY <1>3, <1>4 DEF RFConstraint
<1>11. \A e : PhiAbs(f, e)' <=> PhiAbs(f, e)
    BY <1>2 DEF PhiAbs
<1>12. \A r, s : ReadsFrom(f, r, s)' <=> ReadsFrom(f, r, s)
    BY <1>3, <1>4, <1>6, <1>8, <1>10, <1>11 DEF ReadsFrom
<1>13. \A r : PhiSC(f, r)' <=> PhiSC(f, r)
    BY <1>9, <1>12 DEF PhiSC
<1>14. \A r : PhiConc(f, r)' = PhiConc(f, r)
    BY <1>11, <1>13, Zenon DEF PhiConc
<1> QED
    BY <1>14 DEF PhiEquations

\* Z3 places more events.
LEMMA PlaceSolve ==
    ASSUME CausalInv, SolveInv, NEW S \in SUBSET EID, Z3Place(S)
    PROVE  SolveInv'
<1> DEFINE P == {order[e] : e \in EID}
           next == 1 + LastOf(P)
<1>1. /\ pc = "solve" /\ S \subseteq Ready
      /\ order' = [e \in EIDs |-> IF e \in S THEN next ELSE order[e]]
      /\ UNCHANGED <<traceVars, builderVars, constraintVars>> /\ LocksExclude'
    BY DEF Z3Place
<1>2. EID \subseteq EIDs /\ mhb_constraints \subseteq EID \X EID
    BY EventFacts
<1>3. PICK n \in Nat : \A e \in EIDs : order[e] <= n
    BY DEF SolveInv, OrderTyped
<1>4. P \in SUBSET Nat /\ \A d \in P : d <= n
    BY <1>2, <1>3 DEF SolveInv, OrderTyped
<1>5. next \in Nat /\ next <= n + 1 /\ next # 0 /\ \A e \in EID : order[e] < next
    <2>1. LastOf(P) \in Nat /\ LastOf(P) <= n /\ \A d \in P : d <= LastOf(P)
        <3> HIDE DEF P
        <3> QED
            BY <1>4, LastOfBounded
    <2>2. \A e \in EID : order[e] \in P /\ order[e] \in Nat
        BY <1>4
    <2> HIDE DEF P
    <2> QED
        BY <2>1, <2>2
<1> HIDE DEF P, next
<1>6. UNCHANGED <<pc, mhb_constraints, lock_constraints, filtered_cops, phi_reads>>
      /\ UNCHANGED traceMaps /\ UNCHANGED builderVars
    BY <1>1 DEF traceVars, constraintVars, traceMaps
<1>7. OrderTyped'
    <2>1. \A e \in EIDs : order'[e] \in Nat /\ order'[e] <= n + 1
        BY <1>1, <1>3, <1>5 DEF SolveInv, OrderTyped
    <2>2. order' = [e \in EIDs |-> order'[e]]
        BY <1>1
    <2>3. n + 1 \in Nat /\ pc' = "solve"
        BY <1>1, <1>6
    <2> QED
        BY <2>1, <2>2, <2>3 DEF OrderTyped
<1>8. PlacedInOrder'
    <2> SUFFICES ASSUME NEW c \in mhb_constraints, order'[c[2]] # 0
                 PROVE  order'[c[1]] # 0 /\ order'[c[1]] < order'[c[2]]
        BY <1>6 DEF PlacedInOrder, Placed
    <2>1. c[1] \in EID /\ c[2] \in EID /\ c[1] \in EIDs /\ c[2] \in EIDs
        BY <1>2
    <2>2. order[c[1]] # 0
        <3>1. CASE c[2] \in S
            BY <1>1, <2>1, <3>1 DEF Ready, Placed
        <3>2. CASE c[2] \notin S
            BY <1>1, <2>1, <3>2 DEF SolveInv, PlacedInOrder, Placed
        <3> QED
            BY <3>1, <3>2
    <2>3. c[1] \notin S
        BY <1>1, <2>2 DEF Ready, Placed
    <2>4. order'[c[1]] = order[c[1]]
        BY <1>1, <2>1, <2>3
    <2>5. CASE c[2] \in S
        BY <1>1, <1>5, <2>1, <2>2, <2>4, <2>5
    <2>6. CASE c[2] \notin S
        <3>1. order'[c[2]] = order[c[2]]
            BY <1>1, <2>1, <2>6
        <3> QED
            BY <2>2, <2>4, <3>1 DEF SolveInv, PlacedInOrder, Placed
    <2> QED
        BY <2>5, <2>6
<1>9. QueryOK'
    BY <1>1, <1>6, QueryStays DEF SolveInv, QueryOK
<1>10. AnswerOK'
    BY <1>1, <1>6 DEF AnswerOK
<1> QED
    BY <1>7, <1>8, <1>9, <1>10 DEF SolveInv

LEMMA AssignSolve ==
    ASSUME SolveInv, Z3Assign
    PROVE  SolveInv'
<1>1. PICK f \in [phi_reads -> BOOLEAN] : PhiEquations(f) /\ phi' = f
    BY DEF Z3Assign
<1>2. /\ pc = "solve" /\ pc' = "sat" /\ \A e \in EID : Placed(e)
      /\ UNCHANGED traceMaps /\ UNCHANGED builderVars /\ UNCHANGED constraintVars
      /\ UNCHANGED order
    BY DEF Z3Assign, traceMaps
<1>3. UNCHANGED <<mhb_constraints, lock_constraints, filtered_cops, phi_reads>>
    BY <1>2 DEF constraintVars
<1>4. OrderTyped' /\ PlacedInOrder'
    BY <1>2, <1>3 DEF SolveInv, OrderTyped, PlacedInOrder, Placed
<1>5. QueryOK'
    <2>1. LocksExclude'
        BY <1>2, <1>3 DEF SolveInv, QueryOK, LocksExclude, Lt, Placed
    <2> QED
        BY <1>2, <1>3, <2>1, QueryStays DEF SolveInv, QueryOK
<1>6. AnswerOK'
    <2>1. PhiEquations(f)'
        BY <1>1, <1>2, <1>3, EquationsStay
    <2>2. \A e \in EID' : Placed(e)'
        BY <1>2, QueryStays DEF Placed
    <2> QED
        BY <1>1, <1>3, <2>1, <2>2 DEF AnswerOK
<1> QED
    BY <1>4, <1>5, <1>6 DEF SolveInv

\* Up to the query nothing has a position; the query is asked as it is made.
LEMMA AskSolve ==
    ASSUME CausalInv', SolveInv, UNCHANGED order, pc \notin {"solve", "sat"},
           \/ pc' \notin {"solve", "sat"}
           \/ CausalInv /\ GenerateConstraints
    PROVE  SolveInv'
<1>1. \A e \in EIDs : order'[e] = 0
    BY DEF SolveInv, OrderTyped
<1>2. EID' \subseteq EIDs /\ mhb_constraints' \subseteq EID' \X EID'
    <2>1. EID' \subseteq EIDs
        BY EIDsAreTheTraces, MaxEventsAssumption
           DEF CausalInv, TraceInv, LifeInv, LengthOK, IInv, TypeOK, EID
    <2>2. StepPairs' \subseteq EID' \X EID' /\ Partners' \subseteq EID' \X EID'
        BY DEF StepPairs, CausalInv, TraceInv, PartnersInv, Partners, ForkBegins, EndJoins
    <2> QED
        BY <2>1, <2>2 DEF CausalInv, GroupInv, RecordedOK
<1>3. PlacedInOrder'
    BY <1>1, <1>2 DEF PlacedInOrder, Placed
<1>4. OrderTyped'
    BY <1>1 DEF SolveInv, OrderTyped
<1>5. CASE pc' \notin {"solve", "sat"}
    BY <1>3, <1>4, <1>5 DEF SolveInv, QueryOK, AnswerOK
<1>6. CASE CausalInv /\ GenerateConstraints
    <2>1. /\ pc' = "solve" /\ UNCHANGED traceMaps /\ UNCHANGED builderVars
          /\ lock_constraints' = LockConstraints /\ filtered_cops' = FilteredCOPs
          /\ phi_reads' = PhiReads(FilteredCOPs)
        BY <1>6 DEF GenerateConstraints, traceMaps
    <2>2. LocksExclude'
        <3> SUFFICES ASSUME NEW c \in LockConstraints, order'[c[1].acq] # 0 PROVE FALSE
            BY <2>1 DEF LocksExclude, Placed
        <3>1. PICK l \in Locks : c \in RegionPairs(lock_id_to_lock_region[l])
            BY DEF LockConstraints
        <3>2. \A n \in DOMAIN lock_id_to_lock_region[l] : lock_id_to_lock_region[l][n].acq \in EID
            BY <1>6, EventFacts DEF IInv, LocksInv, LockOK, RegionOK
        <3>3. c[1].acq \in EIDs
            BY <1>6, <3>1, <3>2, EventFacts DEF RegionPairs
        <3> QED
            BY <1>1, <3>3
    <2>3. QueryOK'
        BY <2>1, <2>2, QueryStays DEF QueryOK
    <2> QED
        BY <1>3, <1>4, <2>1, <2>3 DEF SolveInv, AnswerOK
<1> QED
    BY <1>5, <1>6

LEMMA NextSolve == CausalInv /\ SolveInv /\ [Next]_vars => SolveInv'
<1> SUFFICES ASSUME CausalInv, SolveInv, [Next]_vars PROVE SolveInv'
    OBVIOUS
<1>1. CausalInv'
    BY NextCausal
<1>2. CASE TraceNext /\ UNCHANGED <<builderVars, constraintVars, solverVars>>
    <2>1. pc = "trace" /\ pc' \in {"trace", "group"}
        BY <1>2 DEF TraceNext, Fork, Join, Begin, End, Acquire, Release, Read, Write, AddEvent,
            Finish
    <2> QED
        BY <1>1, <1>2, <2>1, AskSolve DEF solverVars
<1>3. CASE (\E t \in Threads : StartThread(t) \/ NextInThread(t)) \/ RelateThreads \/ BuildClosure
    <2>1. pc \in {"group", "build"} /\ pc' \in {"group", "build", "constrain"} /\ UNCHANGED order
        BY <1>3 DEF StartThread, NextInThread, Step, Current, RelateThreads, BuildClosure,
            traceVars, solverVars
    <2> QED
        BY <1>1, <2>1, AskSolve
<1>4. CASE GenerateConstraints
    BY <1>1, <1>4, AskSolve DEF GenerateConstraints, solverVars
<1>5. CASE \E S \in SUBSET EID : Z3Place(S)
    BY <1>5, PlaceSolve
<1>6. CASE Z3Assign
    BY <1>6, AssignSolve
<1>7. CASE UNCHANGED vars
    <2>1. /\ UNCHANGED traceMaps /\ UNCHANGED builderVars
          /\ UNCHANGED <<pc, order, phi, mhb_constraints, lock_constraints, filtered_cops, phi_reads>>
        BY <1>7 DEF vars, traceVars, constraintVars, solverVars, traceMaps
    <2>2. OrderTyped' /\ PlacedInOrder'
        BY <2>1 DEF SolveInv, OrderTyped, PlacedInOrder, Placed
    <2>3. QueryOK'
        BY <2>1, QueryStays DEF SolveInv, QueryOK, LocksExclude, Lt, Placed
    <2>4. AnswerOK'
        <3>1. CASE pc = "sat"
            <4>1. PICK f \in [phi_reads -> BOOLEAN] : PhiEquations(f) /\ phi = f
                BY <3>1 DEF SolveInv, AnswerOK
            <4>2. PhiEquations(f)'
                BY <2>1, <4>1, EquationsStay
            <4> QED
                BY <2>1, <3>1, <4>1, <4>2, QueryStays DEF SolveInv, AnswerOK, Placed
        <3> QED
            BY <2>1, <3>1 DEF AnswerOK
    <2> QED
        BY <2>2, <2>3, <2>4 DEF SolveInv
<1> QED
    BY <1>2, <1>3, <1>4, <1>5, <1>6, <1>7 DEF Next

-----------------------------------------------------------------------------
(* The positions of a solution.                                            *)

LEMMA SolvedFacts ==
    ASSUME CausalInv, SolveInv, Solved
    PROVE  /\ \A e \in EID : order[e] \in Nat /\ Placed(e)
           /\ \A a, b \in EID : Lt(a, b) <=> order[a] < order[b]
           /\ \A c \in mhb_constraints : order[c[1]] < order[c[2]]
           /\ Grouped /\ happens_before = Closure
           /\ lock_constraints = LockConstraints /\ filtered_cops = FilteredCOPs
           /\ phi_reads = PhiReads(FilteredCOPs) /\ LocksExclude
           /\ phi \in [phi_reads -> BOOLEAN] /\ PhiEquations(phi)
<1>1. /\ \A e \in EID : order[e] \in Nat /\ Placed(e)
      /\ mhb_constraints \subseteq EID \X EID /\ GroupInv
    BY EventFacts DEF Solved, SolveInv, OrderTyped, AnswerOK
<1>2. Grouped /\ happens_before = Closure
    BY <1>1 DEF Solved, Grouped, GroupInv, RecordedOK
<1>3. \A c \in mhb_constraints : order[c[1]] < order[c[2]]
    BY <1>1 DEF SolveInv, PlacedInOrder
<1>4. PICK f \in [phi_reads -> BOOLEAN] : PhiEquations(f) /\ phi = f
    BY DEF Solved, SolveInv, AnswerOK
<1> QED
    BY <1>1, <1>2, <1>3, <1>4 DEF Solved, SolveInv, QueryOK, Lt

\* A solution runs the events of a thread in order.
LEMMA ThreadOrder ==
    ASSUME CausalInv, SolveInv, Solved,
           NEW a \in EID, NEW b \in EID, Tid(a) = Tid(b), a < b
    PROVE  order[a] < order[b]
<1>1. /\ IInv /\ EventsWellFormed /\ LengthOK /\ OrderInv
      /\ \A e \in EID : order[e] \in Nat
    BY EventFacts, SolvedFacts
<1>2. PICK t \in Threads : t = Tid(a)
    BY <1>1, Positions
<1> DEFINE E == EventsOf(t)
<1>3. PICK i \in 1 .. Len(E) : a = E[i]
    BY <1>1, <1>2, Positions
<1>4. PICK j \in 1 .. Len(E) : b = E[j]
    BY <1>1, <1>2, Positions
<1>5. i < j /\ Len(E) \in Nat /\ \A k \in 1 .. Len(E) : E[k] \in EID
    BY <1>1, <1>3, <1>4, Positions
<1> DEFINE S == {k \in i + 1 .. j : ~(order[a] < order[E[k]])}
<1> SUFFICES ASSUME ~(order[a] < order[b]) PROVE FALSE
    OBVIOUS
<1>6. S \in SUBSET Nat /\ j \in S
    BY <1>4, <1>5
<1>7. PICK m \in S : \A k \in S : m <= k
    <2> HIDE DEF S
    <2> QED
        BY <1>6, LeastElement
<1>8. m - 1 \in 1 .. Len(E) /\ m \in 1 .. Len(E) /\ (m - 1) + 1 = m /\ m - 1 \notin S
    BY <1>5, <1>7
<1>9. m - 1 = i \/ order[a] < order[E[m - 1]]
    BY <1>5, <1>7, <1>8
<1>10. order[E[m - 1]] < order[E[m]]
    <2>1. GroupedStep(t, m - 1) /\ mhb_pos[t] = Len(E)
        BY <1>8, SolvedFacts, GroupedFacts DEF GroupedStep
    <2>2. StepPair(t, m - 1) = <<E[m - 1], E[m]>>
        BY <1>8 DEF StepPair
    <2>3. StepPair(t, m - 1) \in StepPairs
        BY <1>5, <1>8, <2>1, <2>2 DEF StepPairs
    <2> HIDE DEF E, S
    <2> QED
        BY <2>2, <2>3, SolvedFacts, GroupedFacts
<1>11. order[a] < order[E[m]]
    <2>1. order[a] \in Nat /\ order[E[m]] \in Nat /\ order[E[m - 1]] \in Nat
        BY <1>1, <1>5, <1>8
    <2> HIDE DEF E, S
    <2> QED
        BY <1>3, <1>9, <1>10, <2>1
<1> QED
    BY <1>7, <1>11

\* A solution keeps to the trace in what happens before what.
LEMMA HbOrder ==
    ASSUME CausalInv, SolveInv, Solved, NEW a \in EID, NEW b \in EID, hb(a, b)
    PROVE  a < b /\ order[a] < order[b]
<1>1. /\ EID \subseteq Nat /\ OrderInv /\ EventsWellFormed
      /\ \A e \in EID : order[e] \in Nat
    BY EventFacts, SolvedFacts
<1>2. ASSUME NEW x \in EID, NEW y \in EID, MustPrecede(x, y)
      PROVE  x < y /\ order[x] < order[y]
    <2>1. CASE Tid(x) = Tid(y) /\ x < y
        BY <2>1, ThreadOrder
    <2>2. CASE ~(Tid(x) = Tid(y) /\ x < y)
        <3>1. Tid(x) \in Threads /\ Tid(y) \in Threads
            BY <1>1 DEF EventsWellFormed, WellFormed
        <3>2. <<x, y>> \in ForkBegins \cup EndJoins
            BY <1>2, <2>2, <3>1 DEF MustPrecede, ForkBegins, EndJoins, IsFork, IsBegin, IsEnd,
                IsJoin
        <3>3. <<x, y>> \in mhb_constraints
            BY <3>2, SolvedFacts, GroupedFacts
        <3>4. order[x] < order[y]
            BY <3>3, SolvedFacts
        <3>5. x < y
            <4>1. \A c \in mhb_constraints : c[1] < c[2]
                BY <1>1 DEF OrderInv, ConstraintsOrdered
            <4> QED
                BY <3>3, <4>1
        <3> QED
            BY <3>4, <3>5
    <2> QED
        BY <2>1, <2>2
<1> DEFINE U == {e \in EID : a < e /\ order[a] < order[e]}
<1>3. ClosedFrom(EID, MustPrecedeEdges, a, U)
    <2>1. \A x \in EID : <<a, x>> \in MustPrecedeEdges => x \in U
        BY <1>2 DEF MustPrecedeEdges
    <2>2. ASSUME NEW x \in U, NEW y \in EID, <<x, y>> \in MustPrecedeEdges PROVE y \in U
        <3>1. x < y /\ order[x] < order[y]
            BY <1>2, <2>2 DEF MustPrecedeEdges
        <3> QED
            BY <1>1, <3>1
    <2> QED
        BY <2>1, <2>2 DEF ClosedFrom
<1>4. U \in SUBSET EID
    OBVIOUS
<1> HIDE DEF U
<1>5. Reaches(EID, MustPrecedeEdges, a, b)
    BY HbSound, SolvedFacts
<1>6. b \in U
    BY <1>3, <1>4, <1>5 DEF Reaches
<1> QED
    BY <1>6 DEF U

\* Two regions of one lock follow each other in a solution.
LEMMA RegionsFollow ==
    ASSUME CausalInv, SolveInv, Solved, NEW l \in Locks,
           NEW R, R = lock_id_to_lock_region[l],
           NEW m \in DOMAIN R, NEW n \in DOMAIN R, m < n
    PROVE  order[R[m].rel] < order[R[n].acq] \/ order[R[n].rel] < order[R[m].acq]
<1>1. \A k \in DOMAIN R : R[k].acq \in EID /\ R[k].rel \in EID /\ Tid(R[k].acq) = Tid(R[k].rel)
    BY EventFacts DEF IInv, LocksInv, LockOK, RegionOK
<1>2. CASE Unordered(R[m], R[n])
    <2>0. <<m, n>> \in {q \in (DOMAIN R) \X (DOMAIN R) : q[1] < q[2]}
        OBVIOUS
    <2>1. <<R[m], R[n]>> \in {p \in RegionPairs(R) : Unordered(p[1], p[2])}
        BY <1>2, <2>0 DEF RegionPairs
    <2>2. <<R[m], R[n]>> \in lock_constraints
        BY <2>1, SolvedFacts DEF LockConstraints
    <2>3. Lt(R[m].rel, R[n].acq) \/ Lt(R[n].rel, R[m].acq)
        <3>1. Lt(R[m].rel, R[n].acq) # Lt(R[n].rel, R[m].acq)
            BY <1>1, <2>2, SolvedFacts DEF LocksExclude
        <3> QED
            BY <3>1 DEF Lt
    <2>4. /\ Lt(R[m].rel, R[n].acq) <=> order[R[m].rel] < order[R[n].acq]
          /\ Lt(R[n].rel, R[m].acq) <=> order[R[n].rel] < order[R[m].acq]
        BY <1>1, SolvedFacts
    <2> QED
        BY <2>3, <2>4
<1>3. CASE ~Unordered(R[m], R[n])
    <2>1. CASE Tid(R[m].acq) = Tid(R[n].acq)
        <3>1. R[m].rel < R[n].acq
            BY EventFacts DEF IInv, LocksInv, LockOK
        <3> QED
            BY <1>1, <2>1, <3>1, ThreadOrder
    <2>2. CASE happensBefore(R[m].rel, R[n].acq) \/ happensBefore(R[n].rel, R[m].acq)
        BY <1>1, <2>2, HbOrder DEF hb
    <2> QED
        BY <1>3, <2>1, <2>2 DEF Unordered
<1> QED
    BY <1>2, <1>3

\* The events of a region lie between its ends.
LEMMA InsideRegion ==
    ASSUME CausalInv, SolveInv, Solved, NEW l \in Locks,
           NEW r \in RangeOf(lock_id_to_lock_region[l]), NEW e \in EID, containsEvent(r, e)
    PROVE  order[r.acq] <= order[e] /\ order[e] <= order[r.rel]
<1>1. PICK a \in EID : a = r.acq
    BY EventFacts DEF IInv, LocksInv, LockOK, RegionOK, RangeOf
<1>2. PICK d \in EID : d = r.rel /\ Tid(a) = Tid(d)
    BY <1>1, EventFacts DEF IInv, LocksInv, LockOK, RegionOK, RangeOf
<1>3. Tid(e) = Tid(a) /\ a <= e /\ e <= d
    BY <1>1, <1>2 DEF containsEvent
<1>4. /\ a \in Nat /\ d \in Nat /\ e \in Nat
      /\ order[a] \in Nat /\ order[d] \in Nat /\ order[e] \in Nat
    BY EventFacts, SolvedFacts
<1>5. a = e \/ order[a] < order[e]
    <2>1. a = e \/ a < e
        BY <1>3, <1>4
    <2> QED
        BY <1>3, <2>1, ThreadOrder
<1>6. d = e \/ order[e] < order[d]
    <2>1. d = e \/ e < d
        BY <1>3, <1>4
    <2> QED
        BY <1>2, <1>3, <2>1, ThreadOrder
<1> QED
    BY <1>1, <1>2, <1>4, <1>5, <1>6

LEMMA COPEvents ==
    ASSUME CausalInv, NEW c \in getCOPs
    PROVE  c = <<c[1], c[2]>> /\ c[1] \in EID /\ c[2] \in EID /\ Tid(c[1]) # Tid(c[2])
<1>1. PICK x \in Vars : c \in VariableCOPs(var_id_to_variable[x])
    BY DEF getCOPs
<1>2. c = <<c[1], c[2]>> /\ Tid(c[1]) # Tid(c[2])
    BY <1>1 DEF VariableCOPs
<1>3. <<c[1], c[2]>> \in VariableCOPs(var_id_to_variable[x])
    BY <1>1, <1>2
<1>4. c[1] \in WritesOf(x) /\ (c[2] \in WritesOf(x) \/ \E t \in Threads : c[2] \in ReadsOf(x, t))
    BY <1>3, VariablePairs, EventFacts
<1> QED
    BY <1>2, <1>4 DEF WritesOf, ReadsOf

\* The filters of filterCOPs only save work, whatever the trace and the
\* solution: no solution puts two conflicting events at one position that are
\* ordered, or that are both inside a region of one lock.
LEMMA FiltersSave == CausalInv /\ SolveInv => FiltersOnlySaveWork
<1> SUFFICES ASSUME CausalInv, SolveInv, Solved, NEW c \in getCOPs,
                    hb(c[1], c[2]) \/ hb(c[2], c[1]) \/ InCommonRegion(c)
             PROVE  order[c[1]] # order[c[2]]
    BY DEF FiltersOnlySaveWork
<1>1. /\ c[1] \in EID /\ c[2] \in EID /\ Tid(c[1]) # Tid(c[2])
      /\ order[c[1]] \in Nat /\ order[c[2]] \in Nat
    BY COPEvents, SolvedFacts
<1>2. CASE hb(c[1], c[2]) \/ hb(c[2], c[1])
    <2>1. order[c[1]] < order[c[2]] \/ order[c[2]] < order[c[1]]
        BY <1>1, <1>2, HbOrder
    <2> QED
        BY <1>1, <2>1
<1>3. CASE InCommonRegion(c)
    <2>1. PICK l \in Locks : \A n \in {1, 2} :
              \E r \in RangeOf(lock_id_to_lock_region[l]) : containsEvent(r, c[n])
        BY <1>3 DEF InCommonRegion
    <2> DEFINE R == lock_id_to_lock_region[l]
    <2>2. PICK m \in DOMAIN R : containsEvent(R[m], c[1])
        BY <2>1 DEF RangeOf
    <2>3. PICK n \in DOMAIN R : containsEvent(R[n], c[2])
        BY <2>1 DEF RangeOf
    <2>4. m # n
        BY <1>1, <2>2, <2>3 DEF containsEvent
    <2>5. m < n \/ n < m
        <3>1. m \in Nat /\ n \in Nat
            BY EventFacts DEF IInv, TypeOK
        <3> QED
            BY <2>4, <3>1
    <2>6. order[R[m].rel] < order[R[n].acq] \/ order[R[n].rel] < order[R[m].acq]
        BY <2>5, RegionsFollow
    <2>7. R[m] \in RangeOf(R) /\ R[n] \in RangeOf(R)
        BY DEF RangeOf
    <2>8. /\ order[R[m].acq] <= order[c[1]] /\ order[c[1]] <= order[R[m].rel]
          /\ order[R[n].acq] <= order[c[2]] /\ order[c[2]] <= order[R[n].rel]
        BY <1>1, <2>2, <2>3, <2>7, InsideRegion
    <2>9. /\ order[R[m].acq] \in Nat /\ order[R[m].rel] \in Nat
          /\ order[R[n].acq] \in Nat /\ order[R[n].rel] \in Nat
        BY EventFacts, SolvedFacts DEF IInv, LocksInv, LockOK, RegionOK
    <2> HIDE DEF R
    <2> QED
        BY <1>1, <2>6, <2>8, <2>9
<1> QED
    BY <1>2, <1>3

\* Whatever the trace, and whatever positions and phis the solver answers with,
\* the filters of filterCOPs (casual_model.cpp:3-11) remove no candidate that
\* this solution puts at one position.
THEOREM FiltersTheorem == Spec => []FiltersOnlySaveWork
BY InitCausal, NextCausal, InitSolve, NextSolve, FiltersSave, PTL DEF Spec

-----------------------------------------------------------------------------
(* The reads with a phi, and what their phis depend on.                    *)

LEMMA FilteredWrites ==
    ASSUME CausalInv, NEW r \in Reads
    PROVE  /\ GoodWrites(r) \subseteq generalGoodWritesFilter(r)
           /\ BadWrites(r) \subseteq generalBadWritesFilter(r)
           /\ generalGoodWritesFilter(r) \subseteq SameValueWrites(r)
           /\ generalBadWritesFilter(r) \subseteq WritesTo(Target(r)) \ SameValueWrites(r)
           /\ WritesTo(Target(r)) \subseteq EID
<1>1. /\ generalGoodWritesFilter(r) \subseteq SameValueWrites(r)
      /\ generalBadWritesFilter(r) \subseteq WritesTo(Target(r)) \ SameValueWrites(r)
    BY WritesAre DEF generalGoodWritesFilter, generalBadWritesFilter
<1>2. \A W, prev : prevWriteExistFilter(W, prev) \subseteq W
    BY DEF prevWriteExistFilter
<1>3. GoodWrites(r) \subseteq generalGoodWritesFilter(r)
    BY <1>2 DEF GoodWrites
<1>4. BadWrites(r) \subseteq generalBadWritesFilter(r)
    BY <1>2 DEF BadWrites
<1> QED
    BY <1>1, <1>3, <1>4 DEF WritesTo

\* The recursion defines the phis it refers to.
LEMMA PhiReadsClosed ==
    ASSUME CausalInv, SolveInv, Solved
    PROVE  /\ phi_reads \subseteq Reads
           /\ \A c \in filtered_cops : \A n \in {1, 2} :
                  c[n] \in EID /\ (getPrevReadInThread(c[n]) # NullEvent =>
                                       getPrevReadInThread(c[n]) \in phi_reads)
           /\ \A r \in phi_reads : \A e \in {r} \cup GoodWrites(r) :
                  e \in EID /\ (getPrevReadInThread(e) # NullEvent =>
                                    getPrevReadInThread(e) \in phi_reads)
<1>1. phi_reads = PhiReads(FilteredCOPs) /\ filtered_cops = FilteredCOPs
    BY SolvedFacts
<1>2. \A c \in FilteredCOPs : \A n \in {1, 2} : c[n] \in EID
    BY COPEvents DEF FilteredCOPs
<1>3. FirstCalls(FilteredCOPs) \subseteq Reads
    <2> SUFFICES ASSUME NEW c \in FilteredCOPs, NEW e \in {c[1], c[2]},
                        getPrevReadInThread(e) # NullEvent
                 PROVE  getPrevReadInThread(e) \in Reads
        BY DEF FirstCalls, PhiAbsOf
    <2> QED
        BY <1>2, PrevRead
<1>4. phi_reads \subseteq Reads
    BY <1>1, <1>3 DEF PhiReads
<1>5. \A c \in filtered_cops : \A n \in {1, 2} :
          getPrevReadInThread(c[n]) # NullEvent => getPrevReadInThread(c[n]) \in phi_reads
    BY <1>1 DEF PhiReads, FirstCalls, PhiAbsOf
<1>6. ASSUME NEW r \in phi_reads, NEW e \in {r} \cup GoodWrites(r)
      PROVE  e \in EID /\ (getPrevReadInThread(e) # NullEvent =>
                               getPrevReadInThread(e) \in phi_reads)
    <2>1. r \in Reads
        BY <1>4
    <2>2. e \in EID
        BY <2>1, FilteredWrites DEF Reads, SameValueWrites
    <2> SUFFICES ASSUME NEW q, q = getPrevReadInThread(e), q # NullEvent PROVE q \in phi_reads
        BY <2>2
    <2>3. q \in Reads
        BY <2>2, PrevRead
    <2>4. <<r, q>> \in Calls
        BY <2>1 DEF Calls, CalledFrom, PhiAbsOf
    <2>5. CASE r \in FirstCalls(FilteredCOPs)
        <3>1. Reaches(Reads, Calls, r, q)
            BY <2>1, <2>3, <2>4, ReachesEdge
        <3> QED
            BY <1>1, <2>3, <2>5, <3>1 DEF PhiReads
    <2>6. CASE r \notin FirstCalls(FilteredCOPs)
        <3>1. PICK p \in FirstCalls(FilteredCOPs) : Reaches(Reads, Calls, p, r)
            BY <1>1, <2>6 DEF PhiReads
        <3>2. Reaches(Reads, Calls, p, q)
            BY <1>3, <2>1, <2>3, <2>4, <3>1, ReachesOn
        <3> QED
            BY <1>1, <2>3, <3>2 DEF PhiReads
    <2> QED
        BY <2>5, <2>6
<1> QED
    BY <1>1, <1>2, <1>4, <1>5, <1>6

\* Two ways to satisfy the definitions that agree before a read agree on the
\* past of what the read takes its value from.
LEMMA PhiAbsAgree ==
    ASSUME CausalInv, SolveInv, Solved, NEW f, NEW g, NEW r \in phi_reads,
           \A q \in phi_reads : order[q] < order[r] => f[q] = g[q],
           NEW e \in {r} \cup GoodWrites(r), e = r \/ order[e] < order[r]
    PROVE  PhiAbs(f, e) <=> PhiAbs(g, e)
<1> DEFINE q == getPrevReadInThread(e)
<1>1. e \in EID /\ r \in EID /\ (q # NullEvent => q \in phi_reads /\ q \in EID)
    BY PhiReadsClosed DEF Reads
<1>2. ASSUME q # NullEvent PROVE f[q] = g[q]
    <2>1. Tid(q) = Tid(e) /\ q < e
        BY <1>1, <1>2, PrevRead
    <2>2. order[q] < order[e]
        BY <1>1, <1>2, <2>1, ThreadOrder
    <2>3. order[q] \in Nat /\ order[e] \in Nat /\ order[r] \in Nat
        BY <1>1, <1>2, SolvedFacts
    <2>4. order[q] < order[r]
        BY <2>2, <2>3
    <2> QED
        BY <1>1, <1>2, <2>4
<1> QED
    BY <1>2 DEF PhiAbs

LEMMA ReadsFromAgree ==
    ASSUME CausalInv, SolveInv, Solved, NEW f, NEW g, NEW r \in phi_reads,
           \A q \in phi_reads : order[q] < order[r] => f[q] = g[q],
           NEW s \in Sources(r), ReadsFrom(f, r, s)
    PROVE  ReadsFrom(g, r, s)
<1>1. CASE s[1] # "write"
    <2>1. s[1] = "initial" \/ s[1] = "own"
        BY <1>1 DEF Sources
    <2>2. CASE s[1] = "initial"
        BY <2>2 DEF ReadsFrom
    <2>3. CASE s[1] = "own"
        BY <2>3 DEF ReadsFrom
    <2> QED
        BY <2>1, <2>2, <2>3
<1>2. CASE s[1] = "write"
    <2>1. s[2] \in GoodWrites(r)
        BY <1>2 DEF Sources
    <2>2. s[2] \in EID /\ r \in EID
        BY <2>1, PhiReadsClosed DEF Reads
    <2>3. /\ PhiAbs(f, s[2]) /\ Lt(s[2], r)
          /\ Anchor(r) # NullEvent => Lt(Anchor(r), s[2])
          /\ \A b \in BadWrites(r) : hb(b, s[2]) \/ RFConstraint(r, s[2], b)
        BY <1>2 DEF ReadsFrom
    <2>4. order[s[2]] < order[r]
        BY <2>2, <2>3, SolvedFacts
    <2>5. PhiAbs(g, s[2])
        BY <2>1, <2>3, <2>4, PhiAbsAgree
    <2> QED
        BY <1>2, <2>3, <2>5 DEF ReadsFrom
<1> QED
    BY <1>1, <1>2

\* The definitions of the phis have one solution: reads cannot justify each
\* other, for the past of a read has earlier positions.
LEMMA PhisDetermined == CausalInv /\ SolveInv => PhiDetermined
<1> SUFFICES ASSUME CausalInv, SolveInv, Solved,
                    NEW f \in [phi_reads -> BOOLEAN], PhiEquations(f)
             PROVE  f = phi
    BY DEF PhiDetermined
<1>1. /\ phi \in [phi_reads -> BOOLEAN] /\ PhiEquations(phi) /\ phi_reads \subseteq EID
      /\ \A r \in phi_reads : order[r] \in Nat
    BY SolvedFacts, PhiReadsClosed DEF Reads
<1> DEFINE S == {order[r] : r \in {q \in phi_reads : f[q] # phi[q]}}
<1>2. S \in SUBSET Nat
    BY <1>1
<1>3. CASE S = {}
    <2>1. \A r \in phi_reads : f[r] = phi[r]
        BY <1>3
    <2> QED
        BY <1>1, <2>1
<1>4. CASE S # {}
    <2>1. PICK m \in S : \A n \in S : m <= n
        <3> HIDE DEF S
        <3> QED
            BY <1>2, <1>4, LeastElement
    <2>2. PICK r \in phi_reads : f[r] # phi[r] /\ order[r] = m
        BY <2>1
    <2>3. ASSUME NEW q \in phi_reads, order[q] < order[r] PROVE f[q] = phi[q]
        <3> SUFFICES ASSUME f[q] # phi[q] PROVE FALSE
            OBVIOUS
        <3>1. order[q] \in S
            OBVIOUS
        <3>2. m <= order[q] /\ order[q] < m /\ m \in Nat /\ order[q] \in Nat
            BY <1>1, <2>1, <2>2, <2>3, <3>1
        <3> QED
            BY <3>2
    <2> HIDE DEF S
    <2>4. PhiAbs(f, r) <=> PhiAbs(phi, r)
        BY <2>3, PhiAbsAgree
    <2>5. PhiSC(f, r) <=> PhiSC(phi, r)
        <3>1. ASSUME NEW s \in Sources(r), ReadsFrom(f, r, s) PROVE ReadsFrom(phi, r, s)
            BY <2>3, <3>1, ReadsFromAgree
        <3>2. ASSUME NEW s \in Sources(r), ReadsFrom(phi, r, s) PROVE ReadsFrom(f, r, s)
            <4>1. \A q \in phi_reads : order[q] < order[r] => phi[q] = f[q]
                BY <2>3
            <4> QED
                BY <3>2, <4>1, ReadsFromAgree
        <3> QED
            BY <3>1, <3>2 DEF PhiSC
    <2>6. f[r] = PhiConc(f, r) /\ phi[r] = PhiConc(phi, r)
        BY <1>1, <2>2 DEF PhiEquations
    <2>7. PhiConc(f, r) = PhiConc(phi, r)
        BY <2>4, <2>5, Zenon DEF PhiConc
    <2> QED
        BY <2>2, <2>6, <2>7
<1> QED
    BY <1>3, <1>4

\* For every trace and every solution, the phis are the only ones that satisfy
\* their definitions at these positions, although the definitions may refer to
\* each other in a cycle (casual_model.cpp:94-111, 251-253).
THEOREM DeterminedTheorem == Spec => []PhiDetermined
BY InitCausal, NextCausal, InitSolve, NextSolve, PhisDetermined, PTL DEF Spec

-----------------------------------------------------------------------------
(* A true phi vouches for its read.                                        *)

\* A read that a true phi covers has a true phi of its own.
LEMMA CoveredPhi ==
    ASSUME CausalInv, SolveInv, Solved, NEW r \in Reads, Covered(r)
    PROVE  r \in phi_reads /\ phi[r]
<1>1. /\ phi_reads \subseteq Reads /\ Reads \subseteq EID /\ EID \subseteq Nat
      /\ PhiEquations(phi)
    BY EventFacts, SolvedFacts, PhiReadsClosed DEF Reads
<1> DEFINE S == {q \in phi_reads : phi[q] /\ Tid(q) = Tid(r) /\ r <= q}
<1>2. S \in SUBSET Nat /\ S # {}
    BY <1>1 DEF Covered
<1>3. PICK q \in S : \A p \in S : q <= p
    <2> HIDE DEF S
    <2> QED
        BY <1>2, LeastElement
<1>4. q \in phi_reads /\ phi[q] /\ Tid(q) = Tid(r) /\ r <= q /\ q \in EID /\ r \in EID
    BY <1>1, <1>3
<1>5. ASSUME r < q PROVE FALSE
    <2> DEFINE p == getPrevReadInThread(q)
    <2>1. p # NullEvent /\ r <= p /\ p \in Reads /\ Tid(p) = Tid(q) /\ p < q
        BY <1>4, <1>5, PrevRead
    <2>2. p \in phi_reads
        BY <1>4, <2>1, PhiReadsClosed
    <2>3. PhiAbs(phi, q)
        BY <1>1, <1>4 DEF PhiEquations, PhiConc
    <2>4. phi[p]
        BY <2>1, <2>3 DEF PhiAbs
    <2>5. p \in S
        BY <1>4, <2>1, <2>2, <2>4
    <2>6. q <= p /\ p \in Nat /\ q \in Nat
        BY <1>1, <1>3, <1>4, <2>1, <2>5
    <2> HIDE DEF p
    <2> QED
        BY <2>1, <2>6
<1>6. r = q
    BY <1>1, <1>4, <1>5
<1> QED
    BY <1>4, <1>6

\* A true phi on the past of an event covers the reads of that past.
LEMMA PastFromPhi ==
    ASSUME CausalInv, NEW e \in EID, PhiAbs(phi, e),
           getPrevReadInThread(e) # NullEvent => getPrevReadInThread(e) \in phi_reads
    PROVE  PastCovered(e)
<1> SUFFICES ASSUME NEW p \in Reads, Tid(p) = Tid(e), p < e PROVE Covered(p)
    BY DEF PastCovered
<1>1. /\ getPrevReadInThread(e) # NullEvent /\ p <= getPrevReadInThread(e)
      /\ Tid(getPrevReadInThread(e)) = Tid(e)
    BY PrevRead
<1> QED
    BY <1>1 DEF PhiAbs, Covered

\* A write of another value is after the read, or hidden by the thread's own
\* previous write, or a bad write.
LEMMA OtherWrites ==
    ASSUME CausalInv, SolveInv, Solved, NEW r \in Reads,
           NEW pw, pw = getSameThreadSameVarPrevWrite(r),
           NEW b \in WritesTo(Target(r)), Value(b) # Value(r)
    PROVE  \/ Lt(r, b) \/ b \in BadWrites(r)
           \/ pw # NullEvent /\ Lt(b, pw) /\ b \in generalBadWritesFilter(r)
<1>1. r \in EID /\ b \in EID /\ (pw # NullEvent => pw \in EID)
    BY PrevWrite DEF Reads, WritesTo
<1>2. CASE hb(r, b)
    BY <1>1, <1>2, HbOrder, SolvedFacts
<1>3. CASE ~hb(r, b)
    <2>1. b \in generalBadWritesFilter(r)
        BY <1>3, WritesAre DEF generalBadWritesFilter, SameValueWrites
    <2>2. b \in BadWrites(r) \/ (pw # NullEvent /\ hb(b, pw))
        BY <2>1 DEF BadWrites, prevWriteExistFilter
    <2> QED
        BY <1>1, <2>1, <2>2, HbOrder, SolvedFacts
<1> QED
    BY <1>2, <1>3

\* The last write before a read in the trace survives the filters.
LEMMA LastWriteIsGood ==
    ASSUME CausalInv, SolveInv, Solved, NEW r \in Reads,
           NEW pw, pw = getSameThreadSameVarPrevWrite(r), pw # NullEvent => Value(pw) # Value(r),
           NEW w \in WritesTo(Target(r)), w < r
    PROVE  GoodWrites(r) # {}
<1> DEFINE x == Target(r)
           S == {d \in WritesTo(x) : d < r}
<1>1. /\ EID \subseteq Nat /\ r \in EID /\ WritesTo(x) \subseteq EID
      /\ \A d \in WritesTo(x) : d # r /\ d \in Accesses(x)
      /\ x = Target(r)
    BY EventFacts DEF WritesTo, Reads, Accesses
<1>2. S \in SUBSET Nat /\ S # {} /\ r \in Nat /\ \A d \in S : d <= r
    <2>1. WritesTo(x) \subseteq Nat /\ r \in Nat
        BY <1>1
    <2>2. S \subseteq WritesTo(x) /\ w \in S /\ \A d \in S : d < r
        OBVIOUS
    <2> HIDE DEF S, x
    <2> QED
        BY <2>1, <2>2
<1>3. PICK d \in S : \A e \in S : e <= d
    <2> HIDE DEF S
    <2> QED
        BY <1>2, GreatestElement
<1>4. /\ d \in WritesTo(x) /\ d < r /\ d \in EID
      /\ \A e \in WritesTo(x) : e < r => e <= d
    BY <1>1, <1>3
<1> HIDE DEF S, x
<1>5. \A e \in WritesTo(x) : e <= d \/ r < e
    BY <1>1, <1>4
<1>6. Value(d) = Value(r)
    BY <1>1, <1>4, <1>5, MemoryFacts
<1>7. d \in getGoodWritesForRead(r)
    BY <1>1, <1>4, <1>6, WritesAre DEF SameValueWrites
<1>8. ~hb(r, d)
    <2>1. ~(r < d)
        BY <1>1, <1>4
    <2> QED
        BY <1>1, <1>4, <2>1, HbOrder
<1>9. ASSUME NEW e \in getGoodWritesForRead(r), hb(d, e), hb(e, r) PROVE FALSE
    <2>1. e \in WritesTo(x) /\ e \in EID
        BY <1>1, WritesAre DEF SameValueWrites
    <2>2. d < e /\ e < r
        BY <1>1, <1>4, <1>9, <2>1, HbOrder
    <2> QED
        BY <1>1, <1>4, <2>1, <2>2
<1>10. d \in generalGoodWritesFilter(r)
    BY <1>7, <1>8, <1>9 DEF generalGoodWritesFilter
<1>11. ASSUME pw # NullEvent PROVE ~hb(d, pw)
    <2>1. pw \in WritesTo(x) /\ pw < r /\ pw \in EID
        BY <1>1, <1>11, PrevWrite
    <2>2. ~(d < pw)
        BY <1>1, <1>4, <2>1
    <2> QED
        BY <1>1, <1>4, <2>1, <2>2, HbOrder
<1>12. ASSUME NEW pd, pd = getPrevDiffReadInThread(r), pd # NullEvent PROVE ~hb(d, pd)
    <2>1. /\ pd \in Reads /\ Target(pd) = x /\ pd < r /\ Value(pd) # Value(r)
          /\ pd \in EID /\ pd \in Accesses(x)
        BY <1>1, <1>12, PrevDiffRead DEF Reads, Accesses
    <2>2. ~(d < pd)
        <3> SUFFICES ASSUME d < pd PROVE FALSE
            OBVIOUS
        <3>1. \A e \in WritesTo(x) : e <= pd \/ r < e
            BY <1>1, <1>4, <1>5, <2>1
        <3> QED
            BY <1>1, <2>1, <3>1, MemoryFacts
    <2> QED
        BY <1>1, <1>4, <2>1, <2>2, HbOrder
<1>13. d \in GoodWrites(r)
    BY <1>10, <1>11, <1>12 DEF GoodWrites, prevWriteExistFilter
<1> QED
    BY <1>13

\* The three kinds of sources: the initial value, ...
LEMMA InitialSeen ==
    ASSUME CausalInv, SolveInv, Solved, NEW r \in Reads, hasSameInitialValue(r),
           \A b \in generalBadWritesFilter(r) : Lt(r, b)
    PROVE  SeesFrom(r, NullEvent)
<1>1. PICK pw : pw = getSameThreadSameVarPrevWrite(r)
    OBVIOUS
<1>2. InitialValue(Target(r), Value(r))
    BY MemoryFacts
<1>3. ASSUME NEW b \in WritesTo(Target(r)), Value(b) # Value(r) PROVE Lt(r, b)
    BY <1>1, <1>3, OtherWrites, FilteredWrites
<1> QED
    BY <1>2, <1>3 DEF SeesFrom

\* ... the thread's own previous write, ...
LEMMA OwnWriteSeen ==
    ASSUME CausalInv, SolveInv, Solved, NEW r \in phi_reads, phi[r],
           NEW pw, pw = getSameThreadSameVarPrevWrite(r), pw # NullEvent, Value(pw) = Value(r),
           \A b \in BadWrites(r) : Lt(b, pw) \/ Lt(r, b)
    PROVE  pw \in SameValueWrites(r) /\ SeesFrom(r, pw) /\ PastCovered(pw)
<1>1. r \in Reads /\ r \in EID /\ EID \subseteq Nat
    BY EventFacts, PhiReadsClosed DEF Reads
<1>2. pw \in WritesTo(Target(r)) /\ Tid(pw) = Tid(r) /\ pw < r /\ pw \in EID
    BY <1>1, PrevWrite DEF WritesTo
<1>3. Lt(pw, r)
    BY <1>1, <1>2, ThreadOrder, SolvedFacts
<1>4. ASSUME NEW b \in WritesTo(Target(r)), Value(b) # Value(r) PROVE Lt(b, pw) \/ Lt(r, b)
    BY <1>1, <1>4, OtherWrites
<1>5. SeesFrom(r, pw)
    BY <1>3, <1>4 DEF SeesFrom
<1>6. ASSUME NEW p \in Reads, Tid(p) = Tid(pw), p < pw PROVE Covered(p)
    <2>1. p <= r /\ Tid(r) = Tid(p)
        BY <1>1, <1>2, <1>6 DEF Reads
    <2> QED
        BY <2>1 DEF Covered
<1> QED
    BY <1>2, <1>5, <1>6 DEF SameValueWrites, PastCovered

\* ... and another good write, or the own one when that comes after it.
LEMMA GoodWriteSeen ==
    ASSUME CausalInv, SolveInv, Solved, NEW r \in phi_reads, phi[r],
           NEW w \in GoodWrites(r), ReadsFrom(phi, r, <<"write", w>>)
    PROVE  \E g \in SameValueWrites(r) : SeesFrom(r, g) /\ PastCovered(g)
<1>1. PICK pw : pw = getSameThreadSameVarPrevWrite(r)
    OBVIOUS
<1>2. r \in Reads /\ r \in EID
    BY PhiReadsClosed DEF Reads
<1>3. w \in SameValueWrites(r) /\ w \in EID
    BY <1>2, FilteredWrites DEF SameValueWrites
<1>4. /\ PhiAbs(phi, w) /\ Lt(w, r)
      /\ Anchor(r) # NullEvent => Lt(Anchor(r), w)
      /\ \A b \in BadWrites(r) : hb(b, w) \/ RFConstraint(r, w, b)
    BY DEF ReadsFrom
<1>5. \A b \in BadWrites(r) : Lt(b, w) \/ Lt(r, b)
    <2> SUFFICES ASSUME NEW b \in BadWrites(r) PROVE Lt(b, w) \/ Lt(r, b)
        OBVIOUS
    <2>1. b \in EID
        BY <1>2, FilteredWrites
    <2>2. CASE hb(b, w)
        BY <1>3, <2>1, <2>2, HbOrder, SolvedFacts
    <2>3. CASE RFConstraint(r, w, b)
        BY <2>3 DEF RFConstraint
    <2> QED
        BY <1>4, <2>2, <2>3
<1>6. CASE pw = NullEvent \/ Lt(pw, w)
    <2>1. ASSUME NEW b \in WritesTo(Target(r)), Value(b) # Value(r) PROVE Lt(b, w) \/ Lt(r, b)
        <3>1. CASE Lt(r, b) \/ b \in BadWrites(r)
            BY <1>5, <3>1
        <3>2. CASE pw # NullEvent /\ Lt(b, pw)
            <4>1. pw \in EID /\ b \in EID
                BY <1>1, <1>2, <3>2, PrevWrite DEF WritesTo
            <4>2. /\ order[b] < order[pw] /\ order[pw] < order[w]
                  /\ order[b] \in Nat /\ order[pw] \in Nat /\ order[w] \in Nat
                BY <1>3, <1>6, <3>2, <4>1, SolvedFacts
            <4>3. order[b] < order[w]
                BY <4>2
            <4> QED
                BY <1>3, <4>1, <4>3, SolvedFacts
        <3> QED
            BY <1>1, <1>2, <2>1, <3>1, <3>2, OtherWrites
    <2>2. SeesFrom(r, w)
        <3>1. w # NullEvent
            BY <1>3, EventFacts
        <3> QED
            BY <1>4, <2>1, <3>1 DEF SeesFrom
    <2>3. PastCovered(w)
        BY <1>3, <1>4, PhiReadsClosed, PastFromPhi
    <2> QED
        BY <1>3, <2>2, <2>3
<1>7. CASE pw # NullEvent /\ ~Lt(pw, w)
    <2>1. pw \in EID
        BY <1>1, <1>2, <1>7, PrevWrite DEF WritesTo
    <2>2. Value(pw) = Value(r)
        BY <1>1, <1>4, <1>7 DEF Anchor
    <2>3. order[w] <= order[pw] /\ order[w] \in Nat /\ order[pw] \in Nat
        BY <1>3, <1>7, <2>1, SolvedFacts
    <2>4. ASSUME NEW b \in BadWrites(r) PROVE Lt(b, pw) \/ Lt(r, b)
        <3>1. b \in EID
            BY <1>2, FilteredWrites
        <3>2. CASE Lt(b, w)
            <4>1. order[b] < order[w] /\ order[b] \in Nat
                BY <1>3, <3>1, <3>2, SolvedFacts
            <4>2. order[b] < order[pw]
                BY <2>3, <4>1
            <4> QED
                BY <2>1, <3>1, <4>2, SolvedFacts
        <3> QED
            BY <1>5, <3>2
    <2> QED
        BY <1>1, <1>7, <2>2, <2>4, OwnWriteSeen
<1> QED
    BY <1>6, <1>7

\* A phi that is true means what it stands for.
LEMMA PhisSound == CausalInv /\ SolveInv => PhiSound
<1> SUFFICES ASSUME CausalInv, SolveInv, Solved, NEW r \in Reads, Covered(r)
             PROVE  \E g \in SameValueWrites(r) \cup {NullEvent} :
                        SeesFrom(r, g) /\ (g # NullEvent => PastCovered(g))
    BY DEF PhiSound
<1>1. r \in phi_reads /\ phi[r]
    BY CoveredPhi
<1>2. PhiSC(phi, r)
    BY <1>1, SolvedFacts DEF PhiEquations, PhiConc
<1>3. PICK pw : pw = getSameThreadSameVarPrevWrite(r)
    OBVIOUS
<1>4. CASE Sources(r) = {}
    <2>1. GoodWrites(r) = {}
        <3>1. ASSUME NEW w \in GoodWrites(r) PROVE FALSE
            <4>1. <<"write", w>> \in Sources(r)
                BY DEF Sources
            <4> QED
                BY <1>4, <4>1
        <3> QED
            BY <3>1
    <2>2. CASE pw # NullEvent /\ Value(pw) = Value(r)
        <3>1. BadWrites(r) = {}
            BY <1>3, <1>4, <2>2 DEF Sources
        <3>2. pw \in SameValueWrites(r) /\ SeesFrom(r, pw) /\ PastCovered(pw)
            BY <1>1, <1>3, <2>2, <3>1, OwnWriteSeen
        <3> QED
            BY <3>2
    <2>3. CASE ~(pw # NullEvent /\ Value(pw) = Value(r))
        <3>1. ASSUME NEW w \in WritesTo(Target(r)) PROVE r < w
            <4>1. ~(w < r)
                BY <1>3, <2>1, <2>3, LastWriteIsGood
            <4>2. w # r /\ w \in Nat /\ r \in Nat
                BY EventFacts DEF WritesTo, Reads
            <4> QED
                BY <4>1, <4>2
        <3>2. hasSameInitialValue(r)
            BY <3>1, MemoryFacts
        <3>3. generalBadWritesFilter(r) = {}
            BY <1>4, <3>2 DEF Sources
        <3>4. SeesFrom(r, NullEvent)
            BY <3>2, <3>3, InitialSeen
        <3> QED
            BY <3>4
    <2> QED
        BY <2>2, <2>3
<1>5. CASE Sources(r) # {}
    <2>1. PICK s \in Sources(r) : ReadsFrom(phi, r, s)
        BY <1>2, <1>5 DEF PhiSC
    <2>2. \/ s = <<"initial", NullEvent>> /\ hasSameInitialValue(r)
          \/ s = <<"own", pw>> /\ pw # NullEvent /\ Value(pw) = Value(r)
          \/ \E w \in GoodWrites(r) : s = <<"write", w>>
        BY <1>3, <2>1 DEF Sources
    <2>3. CASE s = <<"initial", NullEvent>> /\ hasSameInitialValue(r)
        <3>1. \A b \in generalBadWritesFilter(r) : Lt(r, b)
            BY <2>1, <2>3 DEF ReadsFrom
        <3>2. SeesFrom(r, NullEvent)
            BY <2>3, <3>1, InitialSeen
        <3> QED
            BY <3>2
    <2>4. CASE s = <<"own", pw>> /\ pw # NullEvent /\ Value(pw) = Value(r)
        <3>1. \A b \in BadWrites(r) : RFConstraint(r, pw, b)
            BY <2>1, <2>4 DEF ReadsFrom
        <3>2. \A b \in BadWrites(r) : Lt(b, pw) \/ Lt(r, b)
            BY <3>1 DEF RFConstraint
        <3>3. pw \in SameValueWrites(r) /\ SeesFrom(r, pw) /\ PastCovered(pw)
            BY <1>1, <1>3, <2>4, <3>2, OwnWriteSeen
        <3> QED
            BY <3>3
    <2>5. CASE \E w \in GoodWrites(r) : s = <<"write", w>>
        BY <1>1, <2>1, <2>5, GoodWriteSeen
    <2> QED
        BY <2>2, <2>3, <2>4, <2>5
<1> QED
    BY <1>4, <1>5

\* For every trace and every solution, a true phi vouches for the read and for
\* the reads of its thread before it: each returns its own value, from a write
\* whose own past is vouched for (casual_model.cpp:122-235).
THEOREM SoundTheorem == Spec => []PhiSound
BY InitCausal, NextCausal, InitSolve, NextSolve, PhisSound, PTL DEF Spec

-----------------------------------------------------------------------------
(* No phi is false without a reason.                                       *)

\* Two events of a reordering without ties, one no earlier than the other.
LEMMA NoTie ==
    ASSUME CausalInv, SolveInv, Solved, NoTies,
           NEW a \in EID, NEW b \in EID, a # b, ~Lt(b, a)
    PROVE  Lt(a, b) /\ order[a] < order[b]
<1>1. order[a] \in Nat /\ order[b] \in Nat /\ order[a] # order[b] /\ ~(order[b] < order[a])
    BY SolvedFacts DEF NoTies
<1> QED
    BY <1>1, SolvedFacts

\* The last write before a read in such a reordering satisfies the constraints
\* of a good write, when reads return their own values.
LEMMA LastWriteServes ==
    ASSUME CausalInv, SolveInv, Solved, NoTies, \A q \in Reads : SeesOwnValue(q),
           NEW r \in phi_reads, \A q \in phi_reads : order[q] < order[r] => phi[q],
           NEW w \in WritesTo(Target(r)), Lt(w, r),
           \A d \in WritesTo(Target(r)) : Lt(d, r) => ~Lt(w, d)
    PROVE  w \in GoodWrites(r) /\ ReadsFrom(phi, r, <<"write", w>>)
<1> DEFINE x == Target(r)
<1>1. PICK pw : pw = getSameThreadSameVarPrevWrite(r)
    OBVIOUS
<1>2. PICK pd : pd = getPrevDiffReadInThread(r)
    OBVIOUS
<1>3. /\ r \in Reads /\ r \in EID /\ WritesTo(x) \subseteq EID /\ x = Target(r)
      /\ \A d \in WritesTo(x) : Type(d) = "Write" /\ Target(d) = x
      /\ Type(r) = "Read" /\ w \in EID
    BY PhiReadsClosed DEF Reads, WritesTo
<1>4. \A d \in WritesTo(x) : d # w /\ Lt(d, r) => Lt(d, w)
    BY <1>3, NoTie
<1>5. \A d \in WritesTo(x) : Lt(w, d) => Lt(r, d)
    <2> SUFFICES ASSUME NEW d \in WritesTo(x), Lt(w, d) PROVE Lt(r, d)
        OBVIOUS
    <2>1. ~Lt(d, r) /\ d # r
        BY <1>3
    <2> QED
        BY <1>3, <2>1, NoTie
<1> HIDE DEF x
<1>6. Value(w) = Value(r)
    <2> SUFFICES ASSUME Value(w) # Value(r) PROVE FALSE
        OBVIOUS
    <2>1. PICK g \in SameValueWrites(r) \cup {NullEvent} : SeesFrom(r, g)
        BY <1>3 DEF SeesOwnValue
    <2>2. ~Lt(r, w)
        BY <1>3, SolvedFacts
    <2>3. g # NullEvent /\ Lt(g, r) /\ Lt(w, g)
        BY <1>3, <2>1, <2>2 DEF SeesFrom
    <2>4. g \in WritesTo(x)
        BY <1>3, <2>1, <2>3 DEF SameValueWrites
    <2> QED
        BY <1>3, <2>3, <2>4
<1>7. w \in getGoodWritesForRead(r)
    BY <1>3, <1>6, WritesAre DEF SameValueWrites
<1>8. \A a, b \in EID : hb(a, b) => Lt(a, b) /\ ~Lt(b, a)
    <2> SUFFICES ASSUME NEW a \in EID, NEW b \in EID, hb(a, b) PROVE Lt(a, b) /\ ~Lt(b, a)
        OBVIOUS
    <2>1. order[a] < order[b] /\ order[a] \in Nat /\ order[b] \in Nat
        BY HbOrder, SolvedFacts
    <2>2. ~(order[b] < order[a])
        BY <2>1
    <2> QED
        BY <2>1, <2>2, SolvedFacts
<1>9. w \in generalGoodWritesFilter(r)
    <2>1. ~hb(r, w)
        BY <1>3, <1>8
    <2>2. ASSUME NEW e \in getGoodWritesForRead(r), hb(w, e), hb(e, r) PROVE FALSE
        <3>1. e \in WritesTo(x)
            BY <1>3, WritesAre DEF SameValueWrites
        <3>2. Lt(w, e) /\ Lt(e, r)
            BY <1>3, <1>8, <2>2, <3>1
        <3> QED
            BY <1>3, <3>1, <3>2
    <2> QED
        BY <1>7, <2>1, <2>2 DEF generalGoodWritesFilter
<1>10. ASSUME pw # NullEvent
       PROVE  pw \in WritesTo(x) /\ Lt(pw, r) /\ ~Lt(w, pw)
    <2>1. pw \in WritesTo(x) /\ Tid(pw) = Tid(r) /\ pw < r
        BY <1>1, <1>3, <1>10, PrevWrite
    <2>2. Lt(pw, r)
        BY <1>3, <2>1, ThreadOrder, SolvedFacts
    <2> QED
        BY <1>3, <2>1, <2>2
<1>11. ASSUME pd # NullEvent PROVE pd \in EID /\ Lt(pd, w)
    <2>1. /\ pd \in Reads /\ Tid(pd) = Tid(r) /\ Target(pd) = x /\ pd < r
          /\ Value(pd) # Value(w) /\ pd \in EID /\ Type(pd) = "Read"
        BY <1>2, <1>3, <1>6, <1>11, PrevDiffRead DEF Reads
    <2>2. order[pd] < order[r] /\ order[pd] \in Nat /\ order[r] \in Nat
        BY <1>3, <2>1, ThreadOrder, SolvedFacts
    <2>3. ~Lt(w, pd)
        <3> SUFFICES ASSUME Lt(w, pd) PROVE FALSE
            OBVIOUS
        <3>1. PICK g \in SameValueWrites(pd) \cup {NullEvent} : SeesFrom(pd, g)
            BY <2>1 DEF SeesOwnValue
        <3>2. ~Lt(pd, w)
            <4>1. order[w] < order[pd] /\ order[w] \in Nat
                BY <1>3, <2>1, SolvedFacts
            <4>2. ~(order[pd] < order[w])
                BY <2>2, <4>1
            <4> QED
                BY <1>3, <2>1, <4>2, SolvedFacts
        <3>3. g # NullEvent /\ Lt(g, pd) /\ Lt(w, g)
            BY <1>3, <2>1, <3>1, <3>2 DEF SeesFrom
        <3>4. g \in WritesTo(x) /\ g \in EID
            BY <1>3, <2>1, <3>1, <3>3 DEF SameValueWrites
        <3>5. order[g] < order[r]
            <4>1. order[g] < order[pd] /\ order[g] \in Nat
                BY <2>1, <3>3, <3>4, SolvedFacts
            <4> QED
                BY <2>2, <4>1
        <3>6. Lt(g, r)
            BY <1>3, <3>4, <3>5, SolvedFacts
        <3> QED
            BY <1>3, <3>3, <3>4, <3>6
    <2>4. pd # w
        BY <1>3, <2>1
    <2> QED
        BY <1>3, <2>1, <2>3, <2>4, NoTie
<1>12. w \in GoodWrites(r)
    <2>1. ASSUME pw # NullEvent PROVE ~hb(w, pw)
        BY <1>3, <1>8, <1>10, <2>1
    <2>2. ASSUME pd # NullEvent PROVE ~hb(w, pd)
        BY <1>3, <1>8, <1>11, <2>2
    <2> QED
        BY <1>1, <1>2, <1>9, <2>1, <2>2 DEF GoodWrites, prevWriteExistFilter
<1>13. PhiAbs(phi, w)
    <2> SUFFICES ASSUME NEW q, q = getPrevReadInThread(w), q # NullEvent PROVE phi[q]
        BY DEF PhiAbs
    <2>1. q \in phi_reads /\ q \in EID /\ Tid(q) = Tid(w) /\ q < w
        BY <1>3, <1>12, PhiReadsClosed, PrevRead DEF Reads
    <2>2. /\ order[q] < order[w] /\ order[w] < order[r]
          /\ order[q] \in Nat /\ order[w] \in Nat /\ order[r] \in Nat
        BY <1>3, <2>1, ThreadOrder, SolvedFacts
    <2>3. order[q] < order[r]
        BY <2>2
    <2> QED
        BY <2>1, <2>3
<1>14. Anchor(r) # NullEvent => Lt(Anchor(r), w)
    <2>1. ASSUME pw # NullEvent, Value(pw) # Value(r) PROVE Lt(pw, w)
        BY <1>4, <1>3, <1>6, <1>10, <2>1
    <2> QED
        BY <1>1, <1>2, <1>11, <2>1 DEF Anchor
<1>15. ASSUME NEW b \in BadWrites(r) PROVE hb(b, w) \/ RFConstraint(r, w, b)
    <2>1. b \in WritesTo(x) /\ Value(b) # Value(r) /\ b # w /\ b # r /\ b \in EID
        BY <1>3, <1>6, FilteredWrites DEF SameValueWrites
    <2>2. hb(w, b) => Lt(r, b)
        BY <1>3, <1>5, <1>8, <2>1
    <2>3. hb(b, r) => Lt(b, w)
        BY <1>3, <1>4, <1>8, <2>1
    <2>4. Lt(b, w) \/ Lt(r, b)
        BY <1>3, <1>4, <2>1, NoTie
    <2> QED
        BY <2>2, <2>3, <2>4 DEF RFConstraint
<1> QED
    BY <1>12, <1>13, <1>14, <1>15 DEF ReadsFrom

\* With no write before it in the reordering, a read returns the initial value.
LEMMA InitialServes ==
    ASSUME CausalInv, SolveInv, Solved, NoTies, NEW r \in phi_reads, SeesOwnValue(r),
           \A d \in WritesTo(Target(r)) : ~Lt(d, r), Sources(r) # {}
    PROVE  \E s \in Sources(r) : ReadsFrom(phi, r, s)
<1>1. /\ r \in Reads /\ r \in EID /\ Type(r) = "Read"
      /\ \A d \in WritesTo(Target(r)) : Type(d) = "Write" /\ d \in EID
    BY PhiReadsClosed DEF Reads, WritesTo
<1>2. PICK g \in SameValueWrites(r) \cup {NullEvent} : SeesFrom(r, g)
    BY DEF SeesOwnValue
<1>3. g = NullEvent
    BY <1>2 DEF SeesFrom, SameValueWrites
<1>4. hasSameInitialValue(r)
    BY <1>1, <1>2, <1>3, MemoryFacts DEF SeesFrom
<1>5. \A d \in WritesTo(Target(r)) : Lt(r, d)
    BY <1>1, NoTie
<1> DEFINE Ruled == generalGoodWritesFilter(r) \cup generalBadWritesFilter(r)
<1>6. Ruled \subseteq WritesTo(Target(r))
    BY <1>1, FilteredWrites DEF SameValueWrites
<1>7. Ruled # {}
    <2> SUFFICES ASSUME Ruled = {} PROVE FALSE
        OBVIOUS
    <2>1. GoodWrites(r) = {} /\ BadWrites(r) = {}
        BY <1>1, FilteredWrites
    <2>2. Sources(r) = {}
        BY <2>1 DEF Sources
    <2> QED
        BY <2>2
<1>8. <<"initial", NullEvent>> \in Sources(r)
    BY <1>4, <1>7 DEF Sources
<1>9. ReadsFrom(phi, r, <<"initial", NullEvent>>)
    BY <1>5, <1>6 DEF ReadsFrom
<1> QED
    BY <1>8, <1>9

\* Nothing is filtered too much.
LEMMA PhisComplete == CausalInv /\ SolveInv => PhiComplete
<1> SUFFICES ASSUME CausalInv, SolveInv, Solved, NoTies, \A q \in Reads : SeesOwnValue(q),
                    NEW z \in phi_reads, ~phi[z]
             PROVE  FALSE
    BY DEF PhiComplete
<1>1. /\ phi \in [phi_reads -> BOOLEAN] /\ PhiEquations(phi)
      /\ phi_reads \subseteq Reads /\ Reads \subseteq EID
      /\ \A e \in EID : order[e] \in Nat
    BY SolvedFacts, PhiReadsClosed DEF Reads
<1> DEFINE S == {order[r] : r \in {q \in phi_reads : ~phi[q]}}
<1>2. S \in SUBSET Nat /\ order[z] \in S
    BY <1>1
<1>3. PICK m \in S : \A n \in S : m <= n
    <2> HIDE DEF S
    <2> QED
        BY <1>2, LeastElement
<1>4. PICK r \in phi_reads : ~phi[r] /\ order[r] = m
    BY <1>3
<1>5. ASSUME NEW q \in phi_reads, order[q] < order[r] PROVE phi[q]
    <2> SUFFICES ASSUME ~phi[q] PROVE FALSE
        OBVIOUS
    <2>1. order[q] \in S
        OBVIOUS
    <2>2. m <= order[q] /\ order[q] < m /\ m \in Nat /\ order[q] \in Nat
        BY <1>1, <1>3, <1>4, <1>5, <2>1
    <2> QED
        BY <2>2
<1> HIDE DEF S
<1>6. r \in Reads /\ r \in EID
    BY <1>1
<1>7. PhiAbs(phi, r)
    <2> SUFFICES ASSUME NEW q, q = getPrevReadInThread(r), q # NullEvent PROVE phi[q]
        BY DEF PhiAbs
    <2>1. q \in phi_reads /\ q \in EID /\ Tid(q) = Tid(r) /\ q < r
        BY <1>1, <1>6, PhiReadsClosed, PrevRead
    <2>2. order[q] < order[r]
        BY <1>6, <2>1, ThreadOrder
    <2> QED
        BY <1>5, <2>1, <2>2
<1>8. ~PhiSC(phi, r)
    BY <1>1, <1>4, <1>7 DEF PhiEquations, PhiConc
<1>9. Sources(r) # {} /\ \A s \in Sources(r) : ~ReadsFrom(phi, r, s)
    BY <1>8 DEF PhiSC
<1> DEFINE L == {d \in WritesTo(Target(r)) : Lt(d, r)}
<1>10. CASE L = {}
    BY <1>6, <1>9, <1>10, InitialServes
<1>11. CASE L # {}
    <2>1. L \subseteq EID
        BY DEF WritesTo
    <2> DEFINE T == {order[d] : d \in L}
    <2>2. T \in SUBSET Nat /\ T # {} /\ order[r] \in Nat /\ \A n \in T : n <= order[r]
        <3>1. \A d \in L : order[d] \in Nat /\ order[r] \in Nat /\ order[d] < order[r]
            BY <1>1, <1>6, <2>1, SolvedFacts
        <3> QED
            BY <1>1, <1>6, <1>11, <3>1
    <2>3. PICK n \in T : \A k \in T : k <= n
        <3> HIDE DEF T
        <3> QED
            BY <2>2, GreatestElement
    <2>4. PICK w \in L : order[w] = n
        BY <2>3
    <2>5. \A d \in L : ~Lt(w, d)
        <3> SUFFICES ASSUME NEW d \in L PROVE ~(order[w] < order[d])
            BY <2>1, SolvedFacts
        <3>1. order[d] <= order[w] /\ order[d] \in Nat /\ order[w] \in Nat
            BY <1>1, <2>1, <2>3, <2>4
        <3> QED
            BY <3>1
    <2>6. w \in GoodWrites(r) /\ ReadsFrom(phi, r, <<"write", w>>)
        BY <1>5, <2>5, LastWriteServes
    <2>7. <<"write", w>> \in Sources(r)
        BY <2>6 DEF Sources
    <2> QED
        BY <1>9, <2>6, <2>7
<1> QED
    BY <1>10, <1>11

\* For every trace, a reordering without ties in which every read returns its
\* own value makes every phi true: the filters of the good and of the bad
\* writes take away nothing it needs (casual_model.cpp:122-235).
THEOREM CompleteTheorem == Spec => []PhiComplete
BY InitCausal, NextCausal, InitSolve, NextSolve, PhisComplete, PTL DEF Spec

-----------------------------------------------------------------------------
(* A predicted race is real.                                               *)

\* In a solution a thread has run, before one of its events, the events that
\* come before it in the trace.
LEMMA ThreadPrefix ==
    ASSUME CausalInv, SolveInv, Solved, NEW a \in EID, NEW b \in EID, Tid(a) = Tid(b)
    PROVE  a < b <=> order[a] < order[b]
<1>1. /\ a \in Nat /\ b \in Nat /\ order[a] \in Nat /\ order[b] \in Nat
    BY EventFacts, SolvedFacts
<1>2. a < b => order[a] < order[b]
    BY ThreadOrder
<1>3. b < a => order[b] < order[a]
    BY ThreadOrder
<1> QED
    BY <1>1, <1>2, <1>3

\* The reads before the race are covered, those of the racing threads by the
\* race constraint itself.
LEMMA RaceReads ==
    ASSUME CausalInv, SolveInv, Solved, NEW c \in filtered_cops, RaceConstraint(c),
           \A r \in Reads : /\ order[r] < order[c[1]]
                            /\ Tid(r) \notin {Tid(c[1]), Tid(c[2])}
                            => Covered(r),
           NEW r \in Reads, order[r] < order[c[1]]
    PROVE  SeesOwnValue(r)
<1>1. Covered(r)
    <2>1. ASSUME NEW n \in {1, 2}, Tid(r) = Tid(c[n]) PROVE Covered(r)
        <3>1. /\ c[n] \in EID /\ r \in EID
              /\ getPrevReadInThread(c[n]) # NullEvent =>
                     getPrevReadInThread(c[n]) \in phi_reads
            BY PhiReadsClosed DEF Reads
        <3>2. order[r] < order[c[n]] /\ PhiAbs(phi, c[n])
            BY DEF RaceConstraint
        <3>3. r < c[n]
            BY <2>1, <3>1, <3>2, ThreadPrefix
        <3>4. PastCovered(c[n])
            BY <3>1, <3>2, PastFromPhi
        <3> QED
            BY <2>1, <3>3, <3>4 DEF PastCovered
    <2> QED
        BY <2>1
<1>2. \E g \in SameValueWrites(r) \cup {NullEvent} : SeesFrom(r, g)
    BY <1>1, PhisSound DEF PhiSound
<1> QED
    BY <1>2 DEF SeesOwnValue

\* A lock is acquired after its last holder released it.
LEMMA RaceLocks ==
    ASSUME CausalInv, SolveInv, Solved, NEW l \in Locks, holder[l] = NoThread,
           NEW a \in EID, NEW b \in EID, a # b, ~Lt(b, a),
           Type(a) = "Acquire", Target(a) = l, Type(b) = "Acquire", Target(b) = l
    PROVE  \E d \in EID : /\ Type(d) = "Release" /\ Target(d) = l
                          /\ Tid(d) = Tid(a) /\ Lt(a, d) /\ Lt(d, b)
<1> DEFINE R == lock_id_to_lock_region[l]
<1>1. PICK m \in DOMAIN R : R[m].acq = a
    BY EventFacts DEF AcquiresRecorded, AcquireOK
<1>2. PICK n \in DOMAIN R : R[n].acq = b
    BY EventFacts DEF AcquiresRecorded, AcquireOK
<1>3. m \in Nat /\ n \in Nat /\ m # n
    BY <1>1, <1>2, EventFacts DEF IInv, TypeOK
<1>4. order[R[m].rel] < order[R[n].acq] \/ order[R[n].rel] < order[R[m].acq]
    <2>1. m < n \/ n < m
        BY <1>3
    <2> QED
        BY <2>1, RegionsFollow
<1>5. PICK d \in EID : /\ d = R[m].rel /\ a < d /\ Tid(a) = Tid(d)
                       /\ Type(d) = "Release" /\ Target(d) = l
    BY <1>1, EventFacts DEF IInv, LocksInv, LockOK, RegionOK, LifeInv, RegionTypes
<1>6. PICK e \in EID : e = R[n].rel /\ b < e /\ Tid(b) = Tid(e)
    BY <1>2, EventFacts DEF IInv, LocksInv, LockOK, RegionOK
<1> HIDE DEF R
<1>7. order[d] < order[b] \/ order[e] < order[a]
    BY <1>1, <1>2, <1>4, <1>5, <1>6
<1>8. order[a] < order[d] /\ order[b] < order[e]
    BY <1>5, <1>6, ThreadOrder
<1>9. /\ order[a] \in Nat /\ order[b] \in Nat /\ order[d] \in Nat /\ order[e] \in Nat
      /\ ~(order[b] < order[a])
    BY SolvedFacts
<1>10. order[d] < order[b]
    BY <1>7, <1>8, <1>9
<1> QED
    BY <1>5, <1>8, <1>10, SolvedFacts

\* A thread begins after its fork and is joined after its end.
LEMMA RaceThreads ==
    ASSUME CausalInv, SolveInv, Solved, NEW e \in EID
    PROVE  /\ Type(e) = "Begin" => \E f \in EID :
                  Type(f) = "Fork" /\ Target(f) = Tid(e) /\ order[f] < order[e] /\ Lt(f, e)
           /\ Type(e) = "Join" => \E n \in EID :
                  Type(n) = "End" /\ Tid(n) = Target(e) /\ order[n] < order[e] /\ Lt(n, e)
<1>1. /\ ForkBegins \cup EndJoins \subseteq mhb_constraints
      /\ fork_begin_pairs = ForkBegins /\ end_join_pairs = EndJoins
    BY SolvedFacts, GroupedFacts, EventFacts DEF PartnersInv
<1>2. ASSUME Type(e) = "Begin"
      PROVE  \E f \in EID :
                 Type(f) = "Fork" /\ Target(f) = Tid(e) /\ order[f] < order[e] /\ Lt(f, e)
    <2>1. PICK p \in ForkBegins : p[2] = e
        BY <1>1, <1>2, EventFacts DEF LifeInv, Paired
    <2>2. p[1] \in EID /\ Type(p[1]) = "Fork" /\ Target(p[1]) = Tid(e)
        BY <2>1 DEF ForkBegins, IsFork, IsBegin
    <2>3. order[p[1]] < order[e]
        BY <1>1, <2>1, SolvedFacts
    <2> QED
        BY <2>2, <2>3, SolvedFacts
<1>3. ASSUME Type(e) = "Join"
      PROVE  \E n \in EID :
                 Type(n) = "End" /\ Tid(n) = Target(e) /\ order[n] < order[e] /\ Lt(n, e)
    <2>1. PICK p \in EndJoins : p[2] = e
        BY <1>1, <1>3, EventFacts DEF LifeInv, Paired
    <2>2. p[1] \in EID /\ Type(p[1]) = "End" /\ Tid(p[1]) = Target(e)
        BY <2>1 DEF EndJoins, IsEnd, IsJoin
    <2>3. order[p[1]] < order[e]
        BY <1>1, <2>1, SolvedFacts
    <2> QED
        BY <2>2, <2>3, SolvedFacts
<1> QED
    BY <1>2, <1>3

LEMMA RacesReal == CausalInv /\ SolveInv => RacesAreReal
<1> SUFFICES ASSUME CausalInv, SolveInv, Solved, \A l \in Locks : holder[l] = NoThread,
                    NEW c \in filtered_cops, RaceConstraint(c),
                    \A r \in Reads : /\ order[r] < order[c[1]]
                                     /\ Tid(r) \notin {Tid(c[1]), Tid(c[2])}
                                     => Covered(r)
             PROVE  /\ LegalUpTo(order[c[1]])
                    /\ \A n \in {1, 2} : \A e \in EID :
                           Tid(e) = Tid(c[n]) => (e < c[n] <=> order[e] < order[c[n]])
    BY DEF RacesAreReal
<1>1. c[1] \in EID /\ c[2] \in EID
    BY PhiReadsClosed
<1>2. \A n \in {1, 2} : \A e \in EID :
          Tid(e) = Tid(c[n]) => (e < c[n] <=> order[e] < order[c[n]])
    BY <1>1, ThreadPrefix
<1> DEFINE top == order[c[1]]
           P == {e \in EID : order[e] < top}
<1>3. top \in Nat /\ \A e \in EID : order[e] \in Nat
    BY <1>1, SolvedFacts
<1>4. \A r \in P : Type(r) = "Read" => SeesOwnValue(r)
    BY RaceReads DEF Reads
<1> HIDE DEF top
<1>5. \A a, b \in EID : order[b] < top /\ Lt(a, b) => order[a] < top
    <2> SUFFICES ASSUME NEW a \in EID, NEW b \in EID, order[b] < top, Lt(a, b)
                 PROVE  order[a] < top
        OBVIOUS
    <2>1. order[a] < order[b]
        BY SolvedFacts
    <2> QED
        BY <1>3, <2>1
<1>6. \A l \in Locks : \A a, b \in {e \in P : Type(e) = "Acquire" /\ Target(e) = l} :
          a # b /\ ~Lt(b, a) => \E d \in {e \in P : Type(e) = "Release" /\ Target(e) = l} :
              Tid(d) = Tid(a) /\ Lt(a, d) /\ Lt(d, b)
    <2> SUFFICES ASSUME NEW l \in Locks, NEW a \in P, NEW b \in P, a # b, ~Lt(b, a),
                        Type(a) = "Acquire", Target(a) = l, Type(b) = "Acquire", Target(b) = l
                 PROVE  \E d \in P : /\ Type(d) = "Release" /\ Target(d) = l
                                     /\ Tid(d) = Tid(a) /\ Lt(a, d) /\ Lt(d, b)
        OBVIOUS
    <2>1. PICK d \in EID : /\ Type(d) = "Release" /\ Target(d) = l
                           /\ Tid(d) = Tid(a) /\ Lt(a, d) /\ Lt(d, b)
        BY RaceLocks
    <2> QED
        BY <1>5, <2>1
<1>7. \A b \in P : Type(b) = "Begin" =>
          \E f \in {e \in P : Type(e) = "Fork" /\ Target(e) = Tid(b)} : Lt(f, b)
    <2> SUFFICES ASSUME NEW b \in P, Type(b) = "Begin"
                 PROVE  \E f \in P : Type(f) = "Fork" /\ Target(f) = Tid(b) /\ Lt(f, b)
        OBVIOUS
    <2> QED
        BY <1>5, RaceThreads
<1>8. \A j \in P : Type(j) = "Join" =>
          \E e \in P : Type(e) = "End" /\ Tid(e) = Target(j) /\ Lt(e, j)
    BY <1>5, RaceThreads
<1>9. LegalUpTo(top)
    BY <1>4, <1>6, <1>7, <1>8 DEF LegalUpTo
<1> QED
    BY <1>2, <1>9 DEF top

\* For every trace that leaves no lock held, a predicted race is real: what the
\* solution puts before the pair is a legal execution, after which both events
\* are next in their threads (casual_model.cpp:237-278).
THEOREM RacesTheorem == Spec => []RacesAreReal
BY InitCausal, NextCausal, InitSolve, NextSolve, RacesReal, PTL DEF Spec
-----------------------------------------------------------------------------
(* Types of the predictor's variables.                                     *)

\* The events that have a position.
PlacedSet == {e \in EIDs : order[e] # 0}

\* Before the query there are no candidates and no phis; no position is greater
\* than the number of the events that have one.
PhasesInv ==
    /\ pc \in {"trace", "group", "build", "constrain", "solve", "sat"}
    /\ pc \notin {"solve", "sat"} => filtered_cops = {} /\ phi_reads = {}
    /\ \A e \in EIDs : order[e] <= Cardinality(PlacedSet)

LEMMA PlacedFinite ==
    /\ IsFiniteSet(PlacedSet) /\ Cardinality(PlacedSet) \in Nat
    /\ Cardinality(PlacedSet) <= MaxEvents
<1>1. MaxEvents \in Nat /\ EIDs = 1 .. MaxEvents
    BY MaxEventsAssumption, EIDsAreTheTraces
<1>2. IsFiniteSet(1 .. MaxEvents) /\ Cardinality(1 .. MaxEvents) = MaxEvents
    BY <1>1, FS_Interval
<1>3. PlacedSet \in SUBSET (1 .. MaxEvents)
    BY <1>1 DEF PlacedSet
<1> QED
    BY <1>2, <1>3, FS_Subset, FS_CardinalityType

LEMMA InitPhases == Init => PhasesInv
<1> SUFFICES ASSUME Init PROVE PhasesInv
    OBVIOUS
<1>1. pc = "trace" /\ filtered_cops = {} /\ phi_reads = {} /\ order = [e \in EIDs |-> 0]
    BY DEF Init, TraceInit
<1>2. Cardinality(PlacedSet) \in Nat
    BY PlacedFinite
<1> QED
    BY <1>1, <1>2 DEF PhasesInv

\* Positions are given out one by one, each to at least one event.
LEMMA PlacePhases ==
    ASSUME CausalInv, SolveInv, PhasesInv, NEW S \in SUBSET EID, Z3Place(S)
    PROVE  PhasesInv'
<1> DEFINE P == {order[e] : e \in EID}
           top == Cardinality(PlacedSet)
<1>1. /\ pc = "solve" /\ S \subseteq Ready /\ S # {} /\ UNCHANGED pc
      /\ order' = [e \in EIDs |-> IF e \in S THEN 1 + LastOf(P) ELSE order[e]]
    BY DEF Z3Place, traceVars
<1>2. EID \subseteq EIDs /\ \A e \in EIDs : order[e] \in Nat
    BY EventFacts DEF SolveInv, OrderTyped
<1>3. top \in Nat /\ IsFiniteSet(PlacedSet) /\ \A e \in EIDs : order[e] <= top
    BY PlacedFinite DEF PhasesInv
<1>4. LastOf(P) \in Nat /\ LastOf(P) <= top
    <2>1. P \in SUBSET Nat /\ \A d \in P : d <= top
        BY <1>2, <1>3
    <2> HIDE DEF P, top
    <2> QED
        BY <1>3, <2>1, LastOfBounded
<1>5. PICK s \in S : s \notin PlacedSet
    BY <1>1 DEF Ready, Placed, PlacedSet
<1>6. /\ IsFiniteSet(PlacedSet \cup {s}) /\ Cardinality(PlacedSet \cup {s}) = top + 1
    BY <1>3, <1>5, FS_AddElement
<1> HIDE DEF P
<1>7. PlacedSet \cup {s} \subseteq PlacedSet'
    <2>1. \A e \in PlacedSet : e \in EIDs /\ order[e] # 0
        BY DEF PlacedSet
    <2>2. s \in EIDs
        BY <1>2
    <2>3. \A e \in EIDs : order'[e] = IF e \in S THEN 1 + LastOf(P) ELSE order[e]
        BY <1>1
    <2>4. 1 + LastOf(P) # 0
        BY <1>4
    <2> QED
        BY <2>1, <2>2, <2>3, <2>4 DEF PlacedSet
<1>8. IsFiniteSet(PlacedSet') /\ Cardinality(PlacedSet') \in Nat
    <2>1. MaxEvents \in Nat /\ EIDs = 1 .. MaxEvents
        BY MaxEventsAssumption, EIDsAreTheTraces
    <2>2. IsFiniteSet(1 .. MaxEvents)
        BY <2>1, FS_Interval
    <2>3. PlacedSet' \in SUBSET (1 .. MaxEvents)
        BY <2>1 DEF PlacedSet
    <2> QED
        BY <2>2, <2>3, FS_Subset, FS_CardinalityType
<1>9. top + 1 <= Cardinality(PlacedSet')
    BY <1>6, <1>7, <1>8, FS_Subset
<1> HIDE DEF top
<1>10. \A e \in EIDs : order'[e] <= Cardinality(PlacedSet')
    BY <1>1, <1>2, <1>3, <1>4, <1>8, <1>9
<1> QED
    BY <1>1, <1>10 DEF PhasesInv

LEMMA NextPhases == CausalInv /\ SolveInv /\ PhasesInv /\ [Next]_vars => PhasesInv'
<1> SUFFICES ASSUME CausalInv, SolveInv, PhasesInv, [Next]_vars PROVE PhasesInv'
    OBVIOUS
<1>1. ASSUME UNCHANGED order, pc' \in {"trace", "group", "build", "constrain", "solve", "sat"},
             \/ pc' \in {"solve", "sat"}
             \/ pc \notin {"solve", "sat"} /\ UNCHANGED <<filtered_cops, phi_reads>>
      PROVE  PhasesInv'
    BY <1>1 DEF PhasesInv, PlacedSet
<1>2. CASE TraceNext /\ UNCHANGED <<builderVars, constraintVars, solverVars>>
    <2>1. pc = "trace" /\ pc' \in {"trace", "group"}
        BY <1>2 DEF TraceNext, Fork, Begin, End, Join, Acquire, Release, Read, Write, AddEvent,
            Finish
    <2> QED
        BY <1>1, <1>2, <2>1 DEF constraintVars, solverVars
<1>3. ASSUME NEW t \in Threads, StartThread(t) \/ NextInThread(t) PROVE PhasesInv'
    BY <1>1, <1>3 DEF StartThread, NextInThread, Step, Current, traceVars, solverVars
<1>4. CASE RelateThreads \/ BuildClosure
    BY <1>1, <1>4 DEF RelateThreads, BuildClosure, solverVars, constraintVars
<1>5. CASE GenerateConstraints \/ Z3Assign
    BY <1>1, <1>5 DEF GenerateConstraints, Z3Assign, solverVars
<1>6. CASE \E S \in SUBSET EID : Z3Place(S)
    BY <1>6, PlacePhases
<1>7. CASE UNCHANGED vars
    BY <1>1, <1>7 DEF PhasesInv, vars, traceVars, constraintVars, solverVars
<1> QED
    BY <1>2, <1>3, <1>4, <1>5, <1>6, <1>7 DEF Next

\* A thread has no more events than the trace.
LEMMA ThreadLength ==
    ASSUME CausalInv, NEW t \in Threads
    PROVE  Len(EventsOf(t)) \in Nat /\ Len(EventsOf(t)) <= Len(all_events)
<1> DEFINE E == EventsOf(t)
           S == {i \in 1 .. Len(E) : E[i] < i}
<1>1. /\ Len(E) \in Nat
      /\ \A i \in 1 .. Len(E) : E[i] \in EID /\ E[i] \in Nat
      /\ \A i, j \in 1 .. Len(E) : i < j => E[i] < E[j]
    BY EventFacts, Positions
<1>2. Len(all_events) \in Nat /\ EID = 1 .. Len(all_events)
    BY EventFacts
<1>3. S = {}
    <2> SUFFICES ASSUME S # {} PROVE FALSE
        OBVIOUS
    <2>1. S \in SUBSET Nat
        OBVIOUS
    <2>2. PICK m \in S : \A n \in S : m <= n
        <3> HIDE DEF S
        <3> QED
            BY <2>1, LeastElement
    <2>3. m \in 1 .. Len(E) /\ E[m] < m /\ m - 1 \notin S
        BY <2>2
    <2>4. m # 1
        BY <1>1, <1>2, <2>3
    <2>5. m - 1 \in 1 .. Len(E) /\ m - 1 < m
        BY <1>1, <2>3, <2>4
    <2>6. ~(E[m - 1] < m - 1) /\ E[m - 1] < E[m]
        BY <1>1, <2>3, <2>5
    <2>7. E[m - 1] \in Nat /\ E[m] \in Nat /\ m \in Nat
        BY <1>1, <2>3, <2>5
    <2> HIDE DEF E
    <2> QED
        BY <2>3, <2>6, <2>7
<1>4. CASE Len(E) = 0
    BY <1>2, <1>4
<1>5. CASE Len(E) # 0
    <2>1. Len(E) \in 1 .. Len(E) /\ Len(E) \notin S
        BY <1>1, <1>3, <1>5
    <2>2. ~(E[Len(E)] < Len(E)) /\ E[Len(E)] \in 1 .. Len(all_events)
        BY <1>1, <1>2, <2>1
    <2>3. E[Len(E)] \in Nat /\ E[Len(E)] <= Len(all_events) /\ Len(E) <= E[Len(E)]
        <3> HIDE DEF E
        <3> QED
            BY <1>1, <1>2, <2>2
    <2>4. Len(E) <= Len(all_events)
        <3> HIDE DEF E
        <3> QED
            BY <1>1, <1>2, <2>3
    <2> QED
        BY <1>1, <2>4
<1> QED
    BY <1>1, <1>4, <1>5

LEMMA CausalTypes == CausalInv /\ SolveInv /\ PhasesInv => CausalTypeOK
<1> SUFFICES ASSUME CausalInv, SolveInv, PhasesInv PROVE CausalTypeOK
    OBVIOUS
<1>1. /\ TypeOK /\ mhb_constraints \subseteq EID \X EID /\ LengthOK
      /\ Len(all_events) \in Nat /\ MaxEvents \in Nat
    BY EventFacts, MaxEventsAssumption DEF IInv
<1>2. mhb_pos \in [Threads -> 0 .. MaxEvents]
    <2>1. ASSUME NEW t \in Threads PROVE mhb_pos[t] \in 0 .. MaxEvents
        <3>1. mhb_pos[t] \in 0 .. Len(EventsOf(t))
            BY EventFacts DEF OrderInv, GroupedSoFar
        <3> QED
            BY <1>1, <3>1, ThreadLength DEF LengthOK
    <2>2. mhb_pos = [t \in Threads |-> mhb_pos[t]]
        BY EventFacts DEF OrderInv
    <2> QED
        BY <2>1, <2>2
<1>3. order \in [EIDs -> 0 .. MaxEvents]
    <2>1. ASSUME NEW e \in EIDs PROVE order[e] \in 0 .. MaxEvents
        <3>1. order[e] \in Nat /\ order[e] <= Cardinality(PlacedSet)
            BY DEF SolveInv, OrderTyped, PhasesInv
        <3> QED
            BY <1>1, <3>1, PlacedFinite
    <2>2. order = [e \in EIDs |-> order[e]]
        BY DEF SolveInv, OrderTyped
    <2> QED
        BY <2>1, <2>2
<1>4. filtered_cops \subseteq EID \X EID /\ phi_reads \subseteq Reads
    <2>1. CASE pc \notin {"solve", "sat"}
        BY <2>1 DEF PhasesInv
    <2>2. CASE pc \in {"solve", "sat"}
        <3>1. filtered_cops = FilteredCOPs /\ phi_reads = PhiReads(FilteredCOPs)
            BY <2>2 DEF SolveInv, QueryOK
        <3>2. \A c \in FilteredCOPs : c \in EID \X EID
            BY COPEvents DEF FilteredCOPs
        <3>3. FirstCalls(FilteredCOPs) \subseteq Reads
            <4> SUFFICES ASSUME NEW r \in FirstCalls(FilteredCOPs) PROVE r \in Reads
                OBVIOUS
            <4>1. PICK e \in UNION {{c[1], c[2]} : c \in FilteredCOPs} :
                      r = getPrevReadInThread(e) /\ r # NullEvent
                BY DEF FirstCalls, PhiAbsOf
            <4>2. e \in EID
                BY <4>1, COPEvents DEF FilteredCOPs
            <4> QED
                BY <4>1, <4>2, PrevRead
        <3>4. PhiReads(FilteredCOPs) \subseteq Reads
            BY <3>3 DEF PhiReads
        <3> QED
            BY <3>1, <3>2, <3>4
    <2> QED
        BY <2>1, <2>2
<1>5. Solved => phi \in [phi_reads -> BOOLEAN]
    BY SolvedFacts
<1> QED
    BY <1>1, <1>2, <1>3, <1>4, <1>5 DEF CausalTypeOK, PhasesInv

-----------------------------------------------------------------------------
(* What the logger takes over from the solver.                             *)

\* A constraint names the event.
Connected(e) == \E c \in mhb_constraints : e \in {c[1], c[2]}

\* The equation of the phi of r names g.
SourceNamed(r, g) == r \in phi_reads /\ Sources(r) # {} /\ g \in generalGoodWritesFilter(r)

PositionsOK ==
    /\ \A e \in EID : order[e] \in Nat
    /\ \A a, b \in EID : Lt(a, b) <=> order[a] < order[b]
    /\ \A a, b \in EID : Tid(a) = Tid(b) /\ a < b =>
           order[a] < order[b] /\ Connected(a) /\ Connected(b)

RegionsApart ==
    \A l \in Locks : \A m, n \in DOMAIN lock_id_to_lock_region[l] :
        LET R == lock_id_to_lock_region[l]
        IN m < n => order[R[m].rel] < order[R[n].acq] \/ order[R[n].rel] < order[R[m].acq]

\* The write a covered read takes its value from is named by the query.
PhisOK ==
    /\ phi_reads \subseteq Reads
    /\ \A r \in Reads : Covered(r) =>
           /\ r \in phi_reads /\ phi[r]
           /\ \E g \in SameValueWrites(r) \cup {NullEvent} :
                  /\ SeesFrom(r, g)
                  /\ g # NullEvent => PastCovered(g) /\ (Connected(g) \/ SourceNamed(r, g))

\* What is known of a solution once the solver is gone.
Solution == TraceInv /\ PositionsOK /\ RegionsApart /\ PhisOK

PairOK(c) ==
    /\ c = <<c[1], c[2]>> /\ c[1] \in EID /\ c[2] \in EID
    /\ Tid(c[1]) # Tid(c[2]) /\ order[c[1]] = order[c[2]]
    /\ PastCovered(c[1]) /\ PastCovered(c[2])

\* Only an event alone in its thread may go unnamed.
LEMMA ThreadsConnected ==
    ASSUME CausalInv, Grouped, NEW a \in EID, NEW b \in EID, Tid(a) = Tid(b), a < b
    PROVE  Connected(a) /\ Connected(b)
<1>1. IInv /\ EventsWellFormed /\ LengthOK /\ OrderInv
    BY EventFacts
<1>2. PICK t \in Threads : t = Tid(a)
    BY <1>1, Positions
<1> DEFINE E == EventsOf(t)
<1>3. PICK i \in 1 .. Len(E) : a = E[i]
    BY <1>1, <1>2, Positions
<1>4. PICK j \in 1 .. Len(E) : b = E[j]
    BY <1>1, <1>2, Positions
<1>5. i < j /\ Len(E) \in Nat /\ \A k \in 1 .. Len(E) : E[k] \in EID
    BY <1>1, <1>3, <1>4, Positions
<1>6. ASSUME NEW k \in 1 .. Len(E), k + 1 \in 1 .. Len(E)
      PROVE  <<E[k], E[k + 1]>> \in mhb_constraints
    <2>1. k \in 1 .. mhb_pos[t] /\ GroupedStep(t, k)
        BY <1>6, GroupedFacts DEF GroupedStep
    <2>2. StepPair(t, k) = <<E[k], E[k + 1]>>
        BY DEF StepPair
    <2>3. StepPair(t, k) \in StepPairs
        BY <1>5, <1>6, <2>1, <2>2 DEF StepPairs
    <2> QED
        BY <2>2, <2>3, GroupedFacts
<1> HIDE DEF E
<1>7. Connected(a)
    <2>1. i + 1 \in 1 .. Len(E)
        BY <1>5
    <2> QED
        BY <1>3, <1>6, <2>1 DEF Connected
<1>8. Connected(b)
    <2>1. j - 1 \in 1 .. Len(E) /\ (j - 1) + 1 = j
        BY <1>5
    <2>2. <<E[j - 1], E[j]>> \in mhb_constraints
        BY <1>6, <2>1
    <2> QED
        BY <1>4, <2>2 DEF Connected
<1> QED
    BY <1>7, <1>8

\* An event that no constraint names is ordered with no other.
LEMMA UnconnectedFree ==
    ASSUME CausalInv, SolveInv, Solved, NEW g \in EID, ~Connected(g), NEW x \in EID
    PROVE  ~hb(g, x) /\ ~hb(x, g)
<1>1. /\ Grouped /\ happens_before = Closure
      /\ mhb_constraints = StepPairs \cup ForkBegins \cup EndJoins
    BY SolvedFacts, GroupedFacts
<1>2. ASSUME NEW a \in EID, NEW b \in EID, MustPrecede(a, b) PROVE a # g /\ b # g
    <2>1. CASE Tid(a) = Tid(b) /\ a < b
        BY <1>1, <2>1, ThreadsConnected
    <2>2. CASE ~(Tid(a) = Tid(b) /\ a < b)
        <3>1. Tid(a) \in Threads /\ Tid(b) \in Threads
            BY EventFacts DEF EventsWellFormed, WellFormed
        <3>2. <<a, b>> \in ForkBegins \cup EndJoins
            BY <1>2, <2>2, <3>1 DEF MustPrecede, ForkBegins, EndJoins, IsFork, IsBegin, IsEnd,
                IsJoin
        <3> QED
            BY <1>1, <3>2 DEF Connected
    <2> QED
        BY <2>1, <2>2
<1>3. ASSUME hb(g, x) PROVE FALSE
    <2>1. ClosedFrom(EID, MustPrecedeEdges, g, {})
        BY <1>2 DEF ClosedFrom, MustPrecedeEdges
    <2>2. Reaches(EID, MustPrecedeEdges, g, x)
        BY <1>1, <1>3, HbSound
    <2> QED
        BY <2>1, <2>2 DEF Reaches
<1>4. ASSUME hb(x, g) PROVE FALSE
    <2> DEFINE U == EID \ {g}
    <2>1. ClosedFrom(EID, MustPrecedeEdges, x, U)
        BY <1>2 DEF ClosedFrom, MustPrecedeEdges
    <2>2. Reaches(EID, MustPrecedeEdges, x, g)
        BY <1>1, <1>4, HbSound
    <2>3. g \in U
        BY <2>1, <2>2 DEF Reaches
    <2> QED
        BY <2>3
<1> QED
    BY <1>3, <1>4

\* The write a covered read takes its value from is named by the query.
LEMMA SourcesNamed ==
    ASSUME CausalInv, SolveInv, Solved, NEW r \in Reads, Covered(r),
           NEW g \in SameValueWrites(r), ~Connected(g)
    PROVE  SourceNamed(r, g)
<1>1. r \in phi_reads
    BY CoveredPhi
<1>2. /\ g \in EID /\ r \in EID /\ g \in getGoodWritesForRead(r)
      /\ getGoodWritesForRead(r) \subseteq EID
    BY WritesAre DEF SameValueWrites, WritesTo, Reads
<1>3. g \in generalGoodWritesFilter(r)
    BY <1>2, UnconnectedFree DEF generalGoodWritesFilter
<1>4. g \in GoodWrites(r)
    <2>1. PICK pw : pw = getSameThreadSameVarPrevWrite(r)
        OBVIOUS
    <2>2. PICK pd : pd = getPrevDiffReadInThread(r)
        OBVIOUS
    <2>3. pw # NullEvent => pw \in EID
        BY <2>1, PrevWrite DEF WritesTo
    <2>4. pd # NullEvent => pd \in EID
        BY <2>2, PrevDiffRead DEF Reads
    <2>5. /\ pw # NullEvent => ~hb(g, pw)
          /\ pd # NullEvent => ~hb(g, pd)
        BY <1>2, <2>3, <2>4, UnconnectedFree
    <2> QED
        BY <1>3, <2>1, <2>2, <2>5 DEF GoodWrites, prevWriteExistFilter
<1>5. <<"write", g>> \in Sources(r)
    BY <1>4 DEF Sources
<1> QED
    BY <1>1, <1>3, <1>5 DEF SourceNamed

LEMMA SolvedSolution ==
    ASSUME CausalInv, SolveInv, Solved
    PROVE  Solution
<1>1. TraceInv
    BY DEF CausalInv
<1>2. PositionsOK
    <2>1. \A a, b \in EID : Tid(a) = Tid(b) /\ a < b =>
              order[a] < order[b] /\ Connected(a) /\ Connected(b)
        BY ThreadOrder, ThreadsConnected, SolvedFacts
    <2> QED
        BY <2>1, SolvedFacts DEF PositionsOK
<1>3. RegionsApart
    BY RegionsFollow DEF RegionsApart
<1>4. PhisOK
    <2>1. phi_reads \subseteq Reads
        BY PhiReadsClosed
    <2>2. ASSUME NEW r \in Reads, Covered(r)
          PROVE  /\ r \in phi_reads /\ phi[r]
                 /\ \E g \in SameValueWrites(r) \cup {NullEvent} :
                        /\ SeesFrom(r, g)
                        /\ g # NullEvent =>
                               PastCovered(g) /\ (Connected(g) \/ SourceNamed(r, g))
        <3>1. r \in phi_reads /\ phi[r]
            BY <2>2, CoveredPhi
        <3>2. PICK g \in SameValueWrites(r) \cup {NullEvent} :
                  SeesFrom(r, g) /\ (g # NullEvent => PastCovered(g))
            BY <2>2, PhisSound DEF PhiSound
        <3>3. g # NullEvent => Connected(g) \/ SourceNamed(r, g)
            BY <2>2, <3>2, SourcesNamed
        <3> QED
            BY <3>1, <3>2, <3>3
    <2> QED
        BY <2>1, <2>2 DEF PhisOK
<1> QED
    BY <1>1, <1>2, <1>3, <1>4 DEF Solution

LEMMA SolvedPair ==
    ASSUME CausalInv, SolveInv, Solved, NEW c \in filtered_cops, RaceConstraint(c)
    PROVE  PairOK(c)
<1>1. c \in getCOPs
    BY SolvedFacts DEF FilteredCOPs
<1>2. c = <<c[1], c[2]>> /\ c[1] \in EID /\ c[2] \in EID /\ Tid(c[1]) # Tid(c[2])
    BY <1>1, COPEvents
<1>3. order[c[1]] = order[c[2]] /\ PhiAbs(phi, c[1]) /\ PhiAbs(phi, c[2])
    BY DEF RaceConstraint
<1>4. \A n \in {1, 2} :
          getPrevReadInThread(c[n]) # NullEvent => getPrevReadInThread(c[n]) \in phi_reads
    BY PhiReadsClosed
<1>5. PastCovered(c[1])
    BY <1>2, <1>3, <1>4, PastFromPhi
<1>6. PastCovered(c[2])
    BY <1>2, <1>3, <1>4, PastFromPhi
<1> QED
    BY <1>2, <1>3, <1>5, <1>6 DEF PairOK

\* All that is said of a solution and of the cuts stays while the logger works.
LEMMA SolutionWords ==
    ASSUME UNCHANGED causalVars
    PROVE  /\ UNCHANGED traceMaps /\ UNCHANGED <<order, phi, phi_reads, mhb_constraints>>
           /\ EID' = EID /\ Reads' = Reads /\ RegionsApart' = RegionsApart
           /\ \A e : Tid(e)' = Tid(e) /\ Type(e)' = Type(e) /\ Target(e)' = Target(e)
           /\ \A e : Value(e)' = Value(e) /\ getPrevAcq(e)' = getPrevAcq(e)
           /\ \A a, b : Lt(a, b)' <=> Lt(a, b)
           /\ \A e : Connected(e)' <=> Connected(e)
           /\ \A e : Covered(e)' <=> Covered(e)
           /\ \A e : PastCovered(e)' <=> PastCovered(e)
           /\ \A r : SameValueWrites(r)' = SameValueWrites(r)
           /\ \A r, g : SeesFrom(r, g)' <=> SeesFrom(r, g)
           /\ \A r, g : SourceNamed(r, g)' <=> SourceNamed(r, g)
           /\ \A c : Named(c)' = Named(c)
           /\ \A e : Cut(e)' <=> Cut(e)
<1>1. /\ UNCHANGED <<all_events, thread_id_to_thread, var_id_to_variable,
                     lock_id_to_lock_region, eventToGroup, happens_before>>
      /\ UNCHANGED <<order, phi, phi_reads, mhb_constraints>> /\ UNCHANGED traceMaps
    BY DEF causalVars, traceMaps, mapVars, builderVars, constraintVars, solverVars
<1>2. /\ \A e : Tid(e)' = Tid(e) /\ Type(e)' = Type(e) /\ Target(e)' = Target(e)
      /\ \A e : Value(e)' = Value(e) /\ VariableOf(e)' = VariableOf(e)
      /\ \A e : getPrevAcq(e)' = getPrevAcq(e)
      /\ \A a, b : happensBefore(a, b)' <=> happensBefore(a, b)
      /\ EID' = EID
    BY <1>1 DEF Tid, Type, Target, Value, VariableOf, getPrevAcq, happensBefore, EID
<1>3. Reads' = Reads /\ \A x : WritesTo(x)' = WritesTo(x) /\ Accesses(x)' = Accesses(x)
    BY <1>2 DEF Reads, WritesTo, Accesses
<1>4. RegionsApart' = RegionsApart
    BY <1>1 DEF RegionsApart
<1>5. \A a, b : Lt(a, b)' <=> Lt(a, b)
    BY <1>1 DEF Lt, Placed
<1>6. \A e : Connected(e)' <=> Connected(e)
    BY <1>1 DEF Connected
<1>7. \A e : Covered(e)' <=> Covered(e)
    BY <1>1, <1>2 DEF Covered
<1>8. \A e : PastCovered(e)' <=> PastCovered(e)
    BY <1>2, <1>3, <1>7 DEF PastCovered
<1>9. \A r : SameValueWrites(r)' = SameValueWrites(r)
    BY <1>2, <1>3 DEF SameValueWrites
<1>10. \A r, g : SeesFrom(r, g)' <=> SeesFrom(r, g)
    <2>1. \A x, v : InitialValue(x, v)' <=> InitialValue(x, v)
        BY <1>2, <1>3 DEF InitialValue
    <2> QED
        BY <1>2, <1>3, <1>5, <2>1 DEF SeesFrom
<1>11. /\ \A r : generalGoodWritesFilter(r)' = generalGoodWritesFilter(r)
       /\ \A r : generalBadWritesFilter(r)' = generalBadWritesFilter(r)
       /\ \A r : Sources(r)' = Sources(r)
    <2>1. \A a, b : hb(a, b)' <=> hb(a, b)
        BY <1>2 DEF hb
    <2>2. \A r : /\ getGoodWritesForRead(r)' = getGoodWritesForRead(r)
                 /\ getBadWritesForRead(r)' = getBadWritesForRead(r)
                 /\ getSameThreadSameVarPrevWrite(r)' = getSameThreadSameVarPrevWrite(r)
                 /\ getPrevDiffReadInThread(r)' = getPrevDiffReadInThread(r)
                 /\ hasSameInitialValue(r)' <=> hasSameInitialValue(r)
        BY <1>2 DEF getGoodWritesForRead, getBadWritesForRead, getSameThreadSameVarPrevWrite,
            getPrevDiffReadInThread, hasSameInitialValue
    <2>3. \A r : /\ generalGoodWritesFilter(r)' = generalGoodWritesFilter(r)
                 /\ generalBadWritesFilter(r)' = generalBadWritesFilter(r)
        BY <2>1, <2>2 DEF generalGoodWritesFilter, generalBadWritesFilter
    <2>4. \A W, prev : prevWriteExistFilter(W, prev)' = prevWriteExistFilter(W, prev)
        BY <2>1 DEF prevWriteExistFilter
    <2>5. \A r : GoodWrites(r)' = GoodWrites(r) /\ BadWrites(r)' = BadWrites(r)
        BY <2>2, <2>3, <2>4 DEF GoodWrites, BadWrites
    <2>6. \A r : Sources(r)' = Sources(r)
        BY <1>2, <2>2, <2>3, <2>5 DEF Sources
    <2> QED
        BY <2>3, <2>6
<1>12. \A r, g : SourceNamed(r, g)' <=> SourceNamed(r, g)
    BY <1>1, <1>11 DEF SourceNamed
<1>13. \A c : Named(c)' = Named(c)
    BY <1>1, <1>11 DEF Named
<1>14. \A e : Cut(e)' <=> Cut(e)
    <2>1. \A t : firstInfeasibleEventInThread(t)' = firstInfeasibleEventInThread(t)
        <3>1. \A r : CutAt(r)' = CutAt(r)
            BY <1>2 DEF CutAt
        <3> QED
            BY <1>1, <1>2, <3>1 DEF firstInfeasibleEventInThread
    <2> QED
        BY <1>2, <2>1 DEF Cut
<1> QED
    BY <1>1, <1>2, <1>3, <1>4, <1>5, <1>6, <1>7, <1>8, <1>9, <1>10, <1>12, <1>13, <1>14

LEMMA KeptSolution == Solution /\ UNCHANGED causalVars => Solution'
<1> SUFFICES ASSUME Solution, UNCHANGED causalVars PROVE Solution'
    OBVIOUS
<1>1. TraceInv'
    BY SolutionWords, KeptTraceInv DEF Solution
<1>2. PositionsOK'
    BY SolutionWords DEF Solution, PositionsOK
<1>3. RegionsApart'
    BY SolutionWords DEF Solution
<1>4. PhisOK'
    BY SolutionWords DEF Solution, PhisOK
<1> QED
    BY <1>1, <1>2, <1>3, <1>4 DEF Solution

LEMMA KeptPair == ASSUME UNCHANGED causalVars, NEW c PROVE PairOK(c)' <=> PairOK(c)
BY SolutionWords DEF PairOK

-----------------------------------------------------------------------------
(* Where the threads are cut.                                              *)

LEMMA FirstOfLeast ==
    ASSUME NEW S \in SUBSET (Nat \ {NullEvent})
    PROVE  /\ S = {} => FirstOf(S) = NullEvent
           /\ S # {} => FirstOf(S) \in S /\ \A d \in S : FirstOf(S) <= d
<1>1. ASSUME S # {} PROVE FirstOf(S) \in S /\ \A d \in S : FirstOf(S) <= d
    <2>1. \E e \in S : \A d \in S : e <= d
        BY <1>1, LeastElement
    <2> QED
        BY <1>1, <2>1 DEF FirstOf
<1> QED
    BY <1>1 DEF FirstOf

LEMMA SolutionEvents ==
    ASSUME Solution
    PROVE  /\ EID = 1 .. Len(all_events) /\ Len(all_events) \in Nat
           /\ EID \subseteq Nat \ {NullEvent}
<1>1. EID = 1 .. Len(all_events) /\ Len(all_events) \in Nat
    BY DEF EID, Solution, TraceInv, IInv, TypeOK
<1> QED
    BY <1>1 DEF NullEvent

\* A thread is cut at an acquire or at the infeasible read itself.
LEMMA CutPoint ==
    ASSUME Solution, NEW q \in Reads
    PROVE  /\ q \in EID /\ EID \subseteq Nat \ {NullEvent}
           /\ CutAt(q) \in EID /\ CutAt(q) <= q /\ Tid(CutAt(q)) = Tid(q)
           /\ getPrevAcq(q) # NullEvent => getPrevAcq(q) \in EID
<1>1. /\ EID = 1 .. Len(all_events) /\ Len(all_events) \in Nat /\ q \in EID
      /\ PrevMapsExact
    BY HistoryExact, SolutionEvents DEF Solution, TraceInv, Reads
<1> DEFINE S == {d \in 1 .. q : /\ Tid(d) = Tid(q) /\ Type(d) = "Acquire"
                                /\ \A r \in d .. q : Tid(r) = Tid(q) => Type(r) # "Release"}
<1>2. getPrevAcq(q) = LastOf(S)
    BY <1>1 DEF PrevMapsExact
<1>3. S \in SUBSET Nat /\ q \in Nat /\ \A d \in S : d <= q
    BY <1>1
<1>4. LastOf(S) # NullEvent => LastOf(S) \in S
    <2> HIDE DEF S
    <2> QED
        BY <1>3, LastOfBounded
<1>5. getPrevAcq(q) # NullEvent =>
          getPrevAcq(q) \in EID /\ getPrevAcq(q) <= q /\ Tid(getPrevAcq(q)) = Tid(q)
    <2>1. \A d \in S : d \in EID /\ d <= q /\ Tid(d) = Tid(q)
        BY <1>1
    <2> HIDE DEF S
    <2> QED
        BY <1>2, <1>4, <2>1
<1> QED
    BY <1>1, <1>5 DEF CutAt, NullEvent

\* An event is cut when some infeasible read of its thread takes it along.
LEMMA CutIff ==
    ASSUME Solution, NEW e \in EID
    PROVE  /\ Cut(e) <=> \E q \in InfeasibleReads(e) : CutAt(q) <= e
           /\ InfeasibleReads(e) \subseteq Reads
           /\ LET first == firstInfeasibleEventInThread(Tid(e))
              IN  first # NullEvent => first \in EID /\ Tid(first) = Tid(e)
<1> DEFINE Q == {q \in phi_reads : Tid(q) = Tid(e) /\ ~phi[q]}
           S == {CutAt(r) : r \in Q}
           first == firstInfeasibleEventInThread(Tid(e))
<1>1. Q = InfeasibleReads(e) /\ Q \subseteq Reads
    BY DEF InfeasibleReads, Solution, PhisOK
<1>2. \A q \in Q : CutAt(q) \in EID /\ Tid(CutAt(q)) = Tid(e)
    BY <1>1, CutPoint
<1>3. EID \subseteq Nat \ {NullEvent}
    BY SolutionEvents
<1>4. S \in SUBSET (Nat \ {NullEvent}) /\ \A d \in S : d \in EID /\ Tid(d) = Tid(e)
    <2>1. \A d \in S : d \in EID /\ Tid(d) = Tid(e)
        <3> HIDE DEF Q
        <3> QED
            BY <1>2
    <2> HIDE DEF S
    <2> QED
        BY <1>3, <2>1
<1>5. first = FirstOf(S)
    BY DEF firstInfeasibleEventInThread
<1>6. /\ S = {} => first = NullEvent
      /\ S # {} => first \in S /\ \A d \in S : first <= d
    <2> HIDE DEF S, first
    <2> QED
        BY <1>4, <1>5, FirstOfLeast
<1>7. first # NullEvent => first \in EID /\ Tid(first) = Tid(e)
    <2> HIDE DEF S, first
    <2> QED
        BY <1>4, <1>6
<1>8. Cut(e) <=> first # NullEvent /\ first <= e
    BY DEF Cut
<1>9. ASSUME Cut(e) PROVE \E q \in Q : CutAt(q) <= e
    <2>1. first \in S /\ first <= e
        <3> HIDE DEF S, first
        <3> QED
            BY <1>6, <1>8, <1>9
    <2> HIDE DEF first
    <2> QED
        BY <2>1
<1>10. ASSUME NEW q \in Q, CutAt(q) <= e PROVE Cut(e)
    <2>1. CutAt(q) \in S
        OBVIOUS
    <2>2. first <= CutAt(q) /\ first \in S
        <3> HIDE DEF S, first, Q
        <3> QED
            BY <1>6, <2>1
    <2>3. first \in Nat /\ CutAt(q) \in Nat /\ e \in Nat /\ first # NullEvent
        <3> HIDE DEF S, first, Q
        <3> QED
            BY <1>2, <1>3, <1>4, <2>2
    <2> HIDE DEF first, S, Q
    <2> QED
        BY <1>8, <1>10, <2>2, <2>3
<1> HIDE DEF Q, S
<1> QED
    BY <1>1, <1>7, <1>9, <1>10 DEF first

-----------------------------------------------------------------------------
(* A sequence of written events.                                           *)

\* Events that may be written are, once, by their positions.
WrittenOK(w) ==
    /\ w \in Seq(EID)
    /\ \A m, n \in DOMAIN w : m < n => order[w[m]] <= order[w[n]] /\ w[m] # w[n]
    /\ \A n \in DOMAIN w : ~Cut(w[n]) /\ ~PastRace(w[n]) /\ ~InPair(w[n])

\* Those among E that may be written and that the query names.
ToWrite(E) == {e \in E \cap Named(cop) : ~Cut(e) /\ ~PastRace(e) /\ ~InPair(e)}

WholeOK(w) == PairOK(cop) /\ WrittenOK(w) /\ ToWrite(EID) \subseteq RangeOf(w)

LEMMA WrittenFacts ==
    ASSUME Solution, NEW w, WholeOK(w)
    PROVE  /\ Len(w) \in Nat /\ DOMAIN w = 1 .. Len(w)
           /\ \A n \in DOMAIN w : /\ w[n] \in EID /\ w[n] \in Nat /\ order[w[n]] \in Nat
                                  /\ ~Cut(w[n]) /\ ~InPair(w[n])
                                  /\ order[w[n]] <= order[cop[1]]
           /\ \A m, n \in DOMAIN w : order[w[m]] < order[w[n]] => m < n
           /\ \A m, n \in DOMAIN w : m < n => order[w[m]] <= order[w[n]] /\ w[m] # w[n]
           /\ order[cop[1]] \in Nat /\ order[cop[2]] = order[cop[1]]
<1>1. /\ w \in Seq(EID) /\ EID \subseteq Nat /\ \A e \in EID : order[e] \in Nat
      /\ cop[1] \in EID /\ order[cop[2]] = order[cop[1]]
    BY SolutionEvents DEF WholeOK, WrittenOK, PairOK, Solution, PositionsOK
<1>2. Len(w) \in Nat /\ DOMAIN w = 1 .. Len(w) /\ \A n \in DOMAIN w : w[n] \in EID
    BY <1>1
<1>3. \A n \in DOMAIN w : w[n] \in Nat /\ order[w[n]] \in Nat
    BY <1>1, <1>2
<1>4. \A n \in DOMAIN w : ~Cut(w[n]) /\ ~InPair(w[n]) /\ order[w[n]] <= order[cop[1]]
    <2> SUFFICES ASSUME NEW n \in DOMAIN w
                 PROVE  ~Cut(w[n]) /\ ~InPair(w[n]) /\ order[w[n]] <= order[cop[1]]
        OBVIOUS
    <2>1. ~Cut(w[n]) /\ ~InPair(w[n]) /\ ~PastRace(w[n])
        BY DEF WholeOK, WrittenOK
    <2>2. order[cop[1]] \in Nat /\ order[w[n]] \in Nat
        BY <1>1, <1>3
    <2> QED
        BY <2>1, <2>2 DEF PastRace
<1>5. \A m, n \in DOMAIN w : m < n => order[w[m]] <= order[w[n]] /\ w[m] # w[n]
    BY DEF WholeOK, WrittenOK
<1>6. \A m, n \in DOMAIN w : order[w[m]] < order[w[n]] => m < n
    <2> SUFFICES ASSUME NEW m \in DOMAIN w, NEW n \in DOMAIN w, order[w[m]] < order[w[n]]
                 PROVE  m < n
        OBVIOUS
    <2>1. m \in Nat /\ n \in Nat /\ order[w[m]] \in Nat /\ order[w[n]] \in Nat
        BY <1>2, <1>3
    <2>2. ~(n < m) /\ m # n
        BY <1>5, <2>1
    <2> QED
        BY <2>1, <2>2
<1> QED
    BY <1>1, <1>2, <1>3, <1>4, <1>5, <1>6

\* What comes before the race, and is named and not cut, is written.
LEMMA EarlierWritten ==
    ASSUME Solution, NEW w, WholeOK(w), NEW e \in EID, Connected(e) \/ e \in Named(cop),
           order[e] < order[cop[1]], ~Cut(e)
    PROVE  \E m \in DOMAIN w : w[m] = e
<1>1. order[e] \in Nat /\ order[cop[1]] \in Nat /\ order[cop[2]] = order[cop[1]]
    BY WrittenFacts DEF Solution, PositionsOK
<1>2. ~PastRace(e) /\ ~InPair(e)
    BY <1>1 DEF PastRace, InPair
<1>3. e \in Named(cop)
    BY DEF Connected, Named
<1>4. e \in ToWrite(EID)
    BY <1>2, <1>3 DEF ToWrite
<1> QED
    BY <1>4 DEF WholeOK, RangeOf

\* A thread is cut once and for all.
LEMMA CutUpwards ==
    ASSUME Solution, NEW d \in EID, NEW e \in EID, Tid(d) = Tid(e), d < e, Cut(d)
    PROVE  Cut(e)
<1>1. InfeasibleReads(d) = InfeasibleReads(e)
    BY DEF InfeasibleReads
<1>2. PICK q \in InfeasibleReads(d) : CutAt(q) <= d
    BY CutIff
<1>3. CutAt(q) \in Nat /\ d \in Nat /\ e \in Nat
    <2>1. EID \subseteq Nat /\ q \in Reads
        BY CutIff, SolutionEvents
    <2> QED
        BY <2>1, CutPoint
<1> QED
    BY <1>1, <1>2, <1>3, CutIff

\* Threads run in order and leave nothing out.
LEMMA WrittenThreads ==
    ASSUME Solution, NEW w, WholeOK(w), NEW n \in DOMAIN w, NEW d \in EID,
           Tid(d) = Tid(w[n]), d < w[n]
    PROVE  \E m \in DOMAIN w : m < n /\ w[m] = d
<1>1. /\ w[n] \in EID /\ ~Cut(w[n]) /\ order[w[n]] \in Nat /\ order[cop[1]] \in Nat
      /\ order[w[n]] <= order[cop[1]]
    BY WrittenFacts
<1>2. order[d] < order[w[n]] /\ Connected(d) /\ order[d] \in Nat
    BY <1>1 DEF Solution, PositionsOK
<1>3. order[d] < order[cop[1]]
    BY <1>1, <1>2
<1>4. ~Cut(d)
    BY <1>1, CutUpwards
<1>5. PICK m \in DOMAIN w : w[m] = d
    BY <1>2, <1>3, <1>4, EarlierWritten
<1> QED
    BY <1>2, <1>5, WrittenFacts

LEMMA WrittenThreadsLegal ==
    ASSUME Solution, NEW w, WholeOK(w)
    PROVE  ThreadsLegal(w)
<1> SUFFICES ASSUME NEW n \in DOMAIN w, NEW d \in 1 .. w[n] - 1, Tid(d) = Tid(w[n])
             PROVE  \E m \in 1 .. n - 1 : w[m] = d
    BY DEF ThreadsLegal, InThreadOrder
<1>1. /\ EID = 1 .. Len(all_events) /\ Len(all_events) \in Nat
      /\ w[n] \in EID /\ Len(w) \in Nat /\ DOMAIN w = 1 .. Len(w)
    BY WrittenFacts, SolutionEvents
<1>2. d \in EID /\ d < w[n]
    BY <1>1
<1>3. PICK m \in DOMAIN w : m < n /\ w[m] = d
    BY <1>2, WrittenThreads
<1>4. m \in 1 .. n - 1
    BY <1>1, <1>3
<1> QED
    BY <1>3, <1>4

\* A lock is released before it is acquired again, unless a thread is cut
\* while holding it.
LEMMA WrittenLocksLegal ==
    ASSUME Solution, NEW w, WholeOK(w), \A l \in Locks : holder[l] = NoThread,
           \A t \in Threads : ~CutInRegion(t)
    PROVE  LocksLegal(w)
<1> SUFFICES ASSUME NEW n \in DOMAIN w, Type(w[n]) = "Acquire",
                    NEW m \in 1 .. n - 1, On("Acquire", w[m], Target(w[n]))
             PROVE  \E p \in Between(w, m, n, {"Release"}, Target(w[n])) : Tid(w[p]) = Tid(w[m])
    BY DEF LocksLegal, LockFree
<1>1. /\ IInv /\ AcquiresRecorded /\ LifeInv /\ EventsWellFormed
      /\ EID = 1 .. Len(all_events) /\ Len(all_events) \in Nat
    BY SolutionEvents DEF Solution, TraceInv
<1>2. Len(w) \in Nat /\ m \in DOMAIN w /\ m < n /\ m \in Nat /\ n \in Nat
    BY WrittenFacts
<1>3. PICK a \in EID : a = w[m]
    BY <1>2, WrittenFacts
<1>4. PICK b \in EID : b = w[n]
    BY WrittenFacts
<1>5. PICK l : l = Target(b)
    OBVIOUS
<1>6. /\ Type(a) = "Acquire" /\ Target(a) = l /\ Type(b) = "Acquire" /\ Target(b) = l
      /\ a # b /\ order[a] <= order[b] /\ ~Cut(a)
    BY <1>2, <1>3, <1>4, <1>5, WrittenFacts DEF On
<1>7. l \in Locks /\ holder[l] = NoThread
    BY <1>1, <1>6 DEF AcquiresRecorded, AcquireOK
<1>8. PICK R : R = lock_id_to_lock_region[l]
    OBVIOUS
<1>9. PICK i \in DOMAIN R : R[i].acq = a
    BY <1>1, <1>6, <1>7, <1>8 DEF AcquiresRecorded, AcquireOK
<1>10. PICK j \in DOMAIN R : R[j].acq = b
    BY <1>1, <1>6, <1>7, <1>8 DEF AcquiresRecorded, AcquireOK
<1>11. PICK d \in EID : /\ d = R[i].rel /\ a < d /\ Tid(a) = Tid(d)
                        /\ Type(d) = "Release" /\ Target(d) = l
                        /\ \A e \in EID : OnLock(e, l) /\ a < e => d <= e
    BY <1>1, <1>7, <1>8, <1>9 DEF IInv, LocksInv, LockOK, RegionOK, LifeInv, RegionTypes
<1>12. PICK f \in EID : f = R[j].rel /\ b < f /\ Tid(b) = Tid(f)
    BY <1>1, <1>7, <1>8, <1>10 DEF IInv, LocksInv, LockOK, RegionOK
<1>13. /\ order[a] \in Nat /\ order[b] \in Nat /\ order[d] \in Nat /\ order[f] \in Nat
       /\ order[a] < order[d] /\ order[b] < order[f] /\ Connected(d)
    BY <1>11, <1>12 DEF Solution, PositionsOK
<1>14. order[d] < order[b]
    <2>0. R \in Seq([acq : EID, rel : EID])
        BY <1>1, <1>7, <1>8 DEF IInv, TypeOK
    <2>1. i \in Nat /\ j \in Nat /\ i # j
        BY <1>6, <1>9, <1>10, <2>0
    <2>2. i < j \/ j < i
        BY <2>1
    <2>3. order[R[i].rel] < order[R[j].acq] \/ order[R[j].rel] < order[R[i].acq]
        BY <1>7, <1>8, <2>2 DEF Solution, RegionsApart
    <2>4. order[d] < order[b] \/ order[f] < order[a]
        BY <1>9, <1>10, <1>11, <1>12, <2>3
    <2> QED
        BY <1>6, <1>13, <2>4
<1>15. ~Cut(d)
    <2> SUFFICES ASSUME Cut(d) PROVE FALSE
        OBVIOUS
    <2>1. PICK t \in Threads : t = Tid(a) /\ t = Tid(d)
        BY <1>1, <1>11 DEF EventsWellFormed, WellFormed
    <2>2. PICK first \in EID : /\ first = firstInfeasibleEventInThread(t)
                               /\ first # NullEvent /\ first <= d /\ Tid(first) = t
        BY <2>1, CutIff DEF Cut
    <2>3. ~(first <= a) /\ first \in Nat /\ a \in Nat /\ d \in Nat
        BY <1>1, <1>6, <2>1, <2>2 DEF Cut
    <2>4. \A e \in a .. first - 1 : ~(Tid(e) = t /\ Type(e) = "Release" /\ Target(e) = l)
        <3> SUFFICES ASSUME NEW e \in a .. first - 1, Type(e) = "Release", Target(e) = l
                     PROVE  FALSE
            OBVIOUS
        <3>1. e \in EID /\ e \in Nat /\ e < d /\ a <= e
            BY <1>1, <2>2, <2>3
        <3>2. a # e
            BY <1>6
        <3>3. a < e /\ OnLock(e, l)
            BY <2>3, <3>1, <3>2 DEF OnLock
        <3>4. d <= e
            BY <1>11, <3>1, <3>3
        <3> QED
            BY <2>3, <3>1, <3>4
    <2>5. a \in 1 .. first
        BY <1>1, <2>3
    <2>6. Protected(first, l)
        BY <1>6, <2>1, <2>2, <2>4, <2>5 DEF Protected
    <2> QED
        BY <1>7, <2>2, <2>6 DEF CutInRegion
<1>16. PICK p \in DOMAIN w : w[p] = d
    <2>1. order[b] <= order[cop[1]] /\ order[cop[1]] \in Nat
        BY <1>4, WrittenFacts
    <2>2. order[d] < order[cop[1]]
        BY <1>13, <1>14, <2>1
    <2> QED
        BY <1>13, <1>15, <2>2, EarlierWritten
<1>17. m < p /\ p < n /\ p \in Nat
    BY <1>2, <1>3, <1>4, <1>13, <1>14, <1>16, WrittenFacts
<1>18. p \in m + 1 .. n - 1
    BY <1>2, <1>17
<1>19. p \in Between(w, m, n, {"Release"}, Target(w[n]))
    BY <1>4, <1>5, <1>11, <1>16, <1>18 DEF Between
<1> QED
    BY <1>3, <1>11, <1>16, <1>19

\* No thread is cut inside a critical section of which an event is needed.
NoneLost == \A e \in EID : ~LostWithRegion(e)

\* An event all of whose reads are covered is not cut.
LEMMA CoveredUncut ==
    ASSUME Solution, NoneLost, NEW e \in EID,
           \A q \in Reads : Tid(q) = Tid(e) /\ q <= e => Covered(q)
    PROVE  ~Cut(e)
<1> SUFFICES ASSUME Cut(e) PROVE FALSE
    OBVIOUS
<1>1. PICK q \in InfeasibleReads(e) : CutAt(q) <= e
    BY CutIff
<1>2. q \in Reads /\ ~phi[q] /\ Tid(q) = Tid(e)
    BY CutIff DEF InfeasibleReads
<1>3. ~Covered(q)
    BY <1>2 DEF Solution, PhisOK
<1>4. /\ q \in Nat /\ e \in Nat /\ 1 <= CutAt(q) /\ CutAt(q) \in Nat
      /\ getPrevAcq(q) # NullEvent => getPrevAcq(q) \in EID
    <2>1. CutAt(q) \in 1 .. Len(all_events) /\ Len(all_events) \in Nat
        BY <1>2, CutPoint, SolutionEvents
    <2> QED
        BY <1>2, <2>1, CutPoint
<1>5. e < q
    BY <1>2, <1>3, <1>4
<1>6. CutAt(q) # q
    BY <1>1, <1>4, <1>5
<1>7. getPrevAcq(q) = CutAt(q)
    BY <1>6 DEF CutAt
<1>8. getPrevAcq(q) \in 1 .. e
    BY <1>1, <1>4, <1>7
<1> QED
    BY <1>5, <1>8 DEF NoneLost, LostWithRegion

\* Both events of the pair are next in their threads.
LEMMA WrittenRaceIsNext ==
    ASSUME Solution, NoneLost, NEW w, WholeOK(w), NEW n \in {1, 2},
           NEW d \in 1 .. cop[n] - 1, Tid(d) = Tid(cop[n])
    PROVE  d \in RangeOf(w)
<1>1. /\ cop[n] \in EID /\ order[cop[n]] = order[cop[1]] /\ PastCovered(cop[n])
      /\ EID = 1 .. Len(all_events) /\ Len(all_events) \in Nat
    BY SolutionEvents DEF WholeOK, PairOK
<1>2. d \in EID /\ d < cop[n] /\ cop[n] \in Nat /\ d \in Nat
    BY <1>1
<1>3. order[d] < order[cop[1]] /\ Connected(d)
    BY <1>1, <1>2 DEF Solution, PositionsOK
<1>4. ASSUME NEW q \in Reads, Tid(q) = Tid(d), q <= d PROVE Covered(q)
    <2>1. q \in Nat
        BY SolutionEvents DEF Reads
    <2>2. q < cop[n]
        BY <1>2, <1>4, <2>1
    <2> QED
        BY <1>1, <1>4, <2>2 DEF PastCovered
<1>5. ~Cut(d)
    BY <1>2, <1>4, CoveredUncut
<1>6. PICK m \in DOMAIN w : w[m] = d
    BY <1>2, <1>3, <1>5, EarlierWritten
<1> QED
    BY <1>6 DEF RangeOf

LEMMA SourceInQuery ==
    ASSUME NEW c, NEW d, NEW g, SourceNamed(d, g)
    PROVE  g \in Named(c)
<1>1. d \in {q \in phi_reads : Sources(q) # {}}
    BY DEF SourceNamed
<1>2. g \in {d} \cup generalGoodWritesFilter(d) \cup generalBadWritesFilter(d)
    BY DEF SourceNamed
<1>3. g \in UNION {{r} \cup generalGoodWritesFilter(r) \cup generalBadWritesFilter(r) :
                       r \in {q \in phi_reads : Sources(q) # {}}}
    BY <1>1, <1>2
<1> QED
    BY <1>3, Zenon DEF Named

\* A written read has its source, which is written before it.
LEMMA WrittenSource ==
    ASSUME Solution, NoneLost, ReadsAccounted, NEW w, WholeOK(w),
           NEW r \in Reads, NEW n \in DOMAIN w, w[n] = r
    PROVE  \E g \in SameValueWrites(r) \cup {NullEvent} :
               /\ SeesFrom(r, g)
               /\ g # NullEvent => \E p \in DOMAIN w : w[p] = g /\ order[g] < order[r]
<1>1. /\ r \in EID /\ order[r] \in Nat /\ order[cop[1]] \in Nat
      /\ order[r] <= order[cop[1]] /\ ~InPair(r) /\ ~Cut(r)
    BY WrittenFacts
<1>2. Covered(r)
    <2> SUFFICES ASSUME NEW q \in InfeasibleReads(r), q <= r PROVE FALSE
        BY <1>1 DEF ReadsAccounted
    <2>1. q \in Reads
        BY <1>1, CutIff
    <2>2. CutAt(q) <= q /\ CutAt(q) \in Nat /\ q \in Nat /\ r \in Nat
        BY <1>1, <2>1, CutPoint
    <2>3. CutAt(q) <= r
        BY <2>2
    <2> QED
        BY <1>1, <2>3, CutIff
<1>3. PICK g \in SameValueWrites(r) \cup {NullEvent} :
          /\ SeesFrom(r, g)
          /\ g # NullEvent => PastCovered(g) /\ (Connected(g) \/ SourceNamed(r, g))
    BY <1>2 DEF Solution, PhisOK
<1>4. ASSUME g # NullEvent PROVE \E p \in DOMAIN w : w[p] = g /\ order[g] < order[r]
    <2>1. g \in EID /\ Type(g) = "Write"
        BY <1>3, <1>4 DEF SameValueWrites, WritesTo
    <2>2. Lt(g, r)
        BY <1>3, <1>4 DEF SeesFrom
    <2>3. order[g] < order[r] /\ order[g] \in Nat
        BY <1>1, <2>1, <2>2 DEF Solution, PositionsOK
    <2>4. order[g] < order[cop[1]]
        BY <1>1, <2>3
    <2>5. ASSUME NEW q \in Reads, Tid(q) = Tid(g), q <= g PROVE Covered(q)
        <3>1. q # g /\ q \in Nat /\ g \in Nat
            BY <2>1, SolutionEvents DEF Reads
        <3>2. q < g
            BY <2>5, <3>1
        <3> QED
            BY <1>3, <1>4, <2>5, <3>2 DEF PastCovered
    <2>6. ~Cut(g)
        BY <2>1, <2>5, CoveredUncut
    <2>7. Connected(g) \/ g \in Named(cop)
        <3>1. SourceNamed(r, g) => g \in Named(cop)
            BY SourceInQuery
        <3> QED
            BY <1>3, <1>4, <3>1
    <2> QED
        BY <2>1, <2>3, <2>4, <2>6, <2>7, EarlierWritten
<1> QED
    BY <1>3, <1>4

\* A read returns what the last written access of its variable left.
LEMMA WrittenReadsLegal ==
    ASSUME Solution, NoneLost, ReadsAccounted, NEW w, WholeOK(w)
    PROVE  ReadsLegal(w)
<1> SUFFICES ASSUME NEW n \in DOMAIN w, Type(w[n]) = "Read",
                    NEW m \in Between(w, 0, n, {"Read", "Write"}, Target(w[n])),
                    Between(w, m, n, {"Read", "Write"}, Target(w[n])) = {},
                    Value(w[m]) # Value(w[n])
             PROVE  FALSE
    BY DEF ReadsLegal, ReadsLast
<1>1. /\ Len(w) \in Nat /\ DOMAIN w = 1 .. Len(w) /\ m \in 1 .. n - 1
      /\ Type(w[m]) \in {"Read", "Write"} /\ Target(w[m]) = Target(w[n])
    BY WrittenFacts DEF Between
<1>2. m \in DOMAIN w /\ m < n /\ m \in Nat /\ n \in Nat
    BY <1>1
<1>3. PICK r \in EID : r = w[n]
    BY WrittenFacts
<1>4. PICK a \in EID : a = w[m]
    BY <1>2, WrittenFacts
<1>5. PICK x : x = Target(r)
    OBVIOUS
<1>6. /\ r \in Reads /\ Type(a) \in {"Read", "Write"} /\ Target(a) = x
      /\ Value(a) # Value(r)
    BY <1>1, <1>3, <1>4, <1>5 DEF Reads
<1>7. order[a] \in Nat /\ order[r] \in Nat /\ order[a] <= order[r]
    BY <1>2, <1>3, <1>4, WrittenFacts
<1>8. ASSUME NEW p \in DOMAIN w, Type(w[p]) = "Write", Target(w[p]) = x, m < p, p < n
      PROVE  FALSE
    <2>1. p \in m + 1 .. n - 1
        BY <1>1, <1>2, <1>8
    <2>2. p \in Between(w, m, n, {"Read", "Write"}, Target(w[n]))
        BY <1>3, <1>5, <1>8, <2>1 DEF Between
    <2> QED
        BY <2>2
<1>9. PICK g \in SameValueWrites(r) \cup {NullEvent} :
          /\ SeesFrom(r, g)
          /\ g # NullEvent => \E p \in DOMAIN w : w[p] = g /\ order[g] < order[r]
    BY <1>3, <1>6, WrittenSource
<1>10. g # NullEvent => g \in EID /\ g \in WritesTo(x) /\ Value(g) = Value(r) /\ order[g] \in Nat
    BY <1>5, <1>9 DEF SameValueWrites, WritesTo, Solution, PositionsOK
<1>11. \A b \in WritesTo(x) : Value(b) # Value(r) =>
           order[r] < order[b] \/ (g # NullEvent /\ order[b] < order[g])
    <2> SUFFICES ASSUME NEW b \in WritesTo(x), Value(b) # Value(r)
                 PROVE  order[r] < order[b] \/ (g # NullEvent /\ order[b] < order[g])
        OBVIOUS
    <2>1. Lt(r, b) \/ (g # NullEvent /\ Lt(b, g))
        BY <1>5, <1>9 DEF SeesFrom
    <2>2. b \in EID
        BY DEF WritesTo
    <2> QED
        BY <1>10, <2>1, <2>2 DEF Solution, PositionsOK
\* A source of the read after the last access would be the last access.
<1>12. ASSUME g # NullEvent, order[a] < order[g] PROVE FALSE
    <2>1. PICK p \in DOMAIN w : w[p] = g /\ order[g] < order[r]
        BY <1>9, <1>12
    <2>2. m < p /\ p < n
        BY <1>2, <1>3, <1>4, <1>12, <2>1, WrittenFacts
    <2> QED
        BY <1>8, <1>10, <1>12, <2>1, <2>2 DEF WritesTo
<1>13. CASE Type(a) = "Write"
    <2>1. a \in WritesTo(x)
        BY <1>6, <1>13 DEF WritesTo
    <2>2. ~(order[r] < order[a])
        BY <1>7
    <2> QED
        BY <1>6, <1>11, <1>12, <2>1, <2>2
<1>14. CASE Type(a) = "Read"
    <2>1. a \in Reads
        BY <1>14 DEF Reads
    <2>2. PICK h \in SameValueWrites(a) \cup {NullEvent} :
              /\ SeesFrom(a, h)
              /\ h # NullEvent => \E p \in DOMAIN w : w[p] = h /\ order[h] < order[a]
        BY <1>2, <1>4, <2>1, WrittenSource
    <2>3. h # NullEvent => /\ h \in WritesTo(x) /\ Value(h) = Value(a) /\ order[h] \in Nat
                           /\ order[h] < order[a]
        BY <1>6, <2>2 DEF SameValueWrites, WritesTo, Solution, PositionsOK
    <2>4. g # NullEvent => order[a] < order[g] \/ (h # NullEvent /\ order[g] < order[h])
        <3> SUFFICES ASSUME g # NullEvent
                     PROVE  order[a] < order[g] \/ (h # NullEvent /\ order[g] < order[h])
            OBVIOUS
        <3>1. g \in WritesTo(Target(a)) /\ Value(g) # Value(a)
            BY <1>6, <1>10
        <3>2. Lt(a, g) \/ (h # NullEvent /\ Lt(g, h))
            BY <2>2, <3>1 DEF SeesFrom
        <3>3. g \in EID /\ (h # NullEvent => h \in EID)
            BY <1>10, <2>3 DEF WritesTo
        <3> QED
            BY <3>2, <3>3 DEF Solution, PositionsOK
    <2>5. h # NullEvent => g # NullEvent /\ order[h] < order[g]
        <3> SUFFICES ASSUME h # NullEvent PROVE g # NullEvent /\ order[h] < order[g]
            OBVIOUS
        <3>1. order[r] < order[h] \/ (g # NullEvent /\ order[h] < order[g])
            BY <1>6, <1>11, <2>3
        <3>2. ~(order[r] < order[h])
            BY <1>7, <2>3
        <3> QED
            BY <3>1, <3>2
    <2>6. CASE g # NullEvent
        BY <1>10, <1>12, <2>3, <2>4, <2>5, <2>6
    <2>7. CASE g = NullEvent
        <3>1. h = NullEvent
            BY <2>5, <2>7
        <3>2. InitialValue(x, Value(r)) /\ InitialValue(x, Value(a))
            BY <1>5, <1>6, <1>9, <2>2, <2>7, <3>1 DEF SeesFrom
        <3>3. PICK d \in Accesses(x) : Value(d) = Value(r) /\ \A e \in Accesses(x) : d <= e
            BY <3>2 DEF InitialValue
        <3>4. PICK f \in Accesses(x) : Value(f) = Value(a) /\ \A e \in Accesses(x) : f <= e
            BY <3>2 DEF InitialValue
        <3>5. d \in Nat /\ f \in Nat /\ d <= f /\ f <= d
            BY <3>3, <3>4, SolutionEvents DEF Accesses
        <3>6. d = f
            BY <3>5
        <3> QED
            BY <1>6, <3>3, <3>4, <3>6
    <2> QED
        BY <2>6, <2>7
<1> QED
    BY <1>6, <1>13, <1>14

-----------------------------------------------------------------------------
(* The invariant of the logger.                                            *)

\* What the loop has written, and what it still has before it.
WritingOK ==
    /\ WrittenOK(witness)
    /\ \A n \in DOMAIN witness :
           witness[n] \notin event_order /\ \A e \in event_order : order[witness[n]] <= order[e]
    /\ ToWrite(EID) \subseteq event_order \cup RangeOf(witness)

Swapped(c) == <<c[2], c[1]>>

\* The whole prefix and the pair.
LoggedOK ==
    \E w : /\ WholeOK(w) /\ (witness = w \o cop \/ witness = w \o Swapped(cop))
           /\ \A n \in DOMAIN w : w[n] \notin event_order
           /\ cop[1] \notin event_order /\ cop[2] \notin event_order

LoggerInv ==
    /\ pc \notin {"write", "logged"} => CausalInv /\ SolveInv /\ PhasesInv /\ witness = <<>>
    /\ pc \in {"write", "logged"} =>
           Solution /\ PairOK(cop) /\ cop \in filtered_cops /\ event_order \subseteq EID
    /\ pc = "write" => WritingOK
    /\ pc = "logged" => LoggedOK

\* The predictor has come to its end when the logger starts.
LEMMA NextPhase == Next => pc \in {"trace", "group", "build", "constrain", "solve"}
<1>1. TraceNext => pc = "trace"
    BY DEF TraceNext, Fork, Join, Begin, End, Acquire, Release, Read, Write, Finish, AddEvent
<1>2. ASSUME NEW t \in Threads PROVE StartThread(t) \/ NextInThread(t) => pc = "group"
    BY DEF StartThread, NextInThread, Step, Current
<1>3. RelateThreads \/ BuildClosure \/ GenerateConstraints \/ Z3Assign
          => pc \in {"group", "build", "constrain", "solve"}
    BY DEF RelateThreads, BuildClosure, GenerateConstraints, Z3Assign
<1>4. ASSUME NEW S \in SUBSET EID PROVE Z3Place(S) => pc = "solve"
    BY DEF Z3Place
<1> QED
    BY <1>1, <1>2, <1>3, <1>4 DEF Next

\* What has been written stays right.
LEMMA KeptWritten ==
    ASSUME UNCHANGED causalVars, UNCHANGED cop
    PROVE  /\ \A w : WrittenOK(w)' <=> WrittenOK(w)
           /\ \A w : WholeOK(w)' <=> WholeOK(w)
           /\ ToWrite(EID)' = ToWrite(EID) /\ (PairOK(cop)' <=> PairOK(cop))
           /\ EID' = EID /\ UNCHANGED order /\ UNCHANGED filtered_cops
<1>1. /\ \A e : Cut(e)' <=> Cut(e)
      /\ \A e : PastRace(e)' <=> PastRace(e)
      /\ \A e : InPair(e)' <=> InPair(e)
      /\ EID' = EID /\ UNCHANGED order
    BY SolutionWords DEF PastRace, InPair
<1>2. \A w : WrittenOK(w)' <=> WrittenOK(w)
    BY <1>1 DEF WrittenOK
<1>3. PICK c : c = cop
    OBVIOUS
<1>4. Named(cop)' = Named(cop) /\ (PairOK(cop)' <=> PairOK(cop))
    <2>1. Named(c)' = Named(c) /\ (PairOK(c)' <=> PairOK(c))
        BY SolutionWords, KeptPair
    <2>2. c = cop'
        BY <1>3
    <2> QED
        BY <1>3, <2>1, <2>2
<1>5. ToWrite(EID)' = ToWrite(EID)
    BY <1>1, <1>4 DEF ToWrite
<1>6. \A w : WholeOK(w)' <=> WholeOK(w)
    BY <1>1, <1>2, <1>4, <1>5 DEF WholeOK, RangeOf
<1> QED
    BY <1>1, <1>2, <1>4, <1>5, <1>6 DEF causalVars, constraintVars

LEMMA InitLogger == LoggerInit => LoggerInv
<1> SUFFICES ASSUME LoggerInit PROVE LoggerInv
    OBVIOUS
<1>1. pc = "trace" /\ witness = <<>>
    BY DEF LoggerInit, Init, TraceInit
<1> QED
    BY <1>1, InitCausal, InitSolve, InitPhases DEF LoggerInit, LoggerInv

\* The predictor's own steps.
LEMMA PredictorLogger ==
    ASSUME LoggerInv, [Next]_vars, UNCHANGED loggerVars
    PROVE  LoggerInv'
<1>1. UNCHANGED <<cop, event_order, witness>>
    BY DEF loggerVars
<1>2. CASE pc \notin {"write", "logged"}
    <2>1. CausalInv' /\ SolveInv' /\ PhasesInv' /\ witness' = <<>>
        BY <1>1, <1>2, NextCausal, NextSolve, NextPhases DEF LoggerInv
    <2>2. pc' \notin {"write", "logged"}
        BY <2>1 DEF PhasesInv
    <2> QED
        BY <2>1, <2>2 DEF LoggerInv
<1>3. CASE pc \in {"write", "logged"}
    <2>1. UNCHANGED vars
        BY <1>3, NextPhase
    <2>2. UNCHANGED causalVars /\ UNCHANGED pc
        BY <2>1 DEF vars, causalVars, traceVars
    <2>3. Solution' /\ PairOK(cop)' /\ (cop \in filtered_cops)' /\ (event_order \subseteq EID)'
        BY <1>1, <1>3, <2>2, KeptSolution, KeptWritten DEF LoggerInv
    <2>4. pc = "write" => WritingOK'
        BY <1>1, <2>2, KeptWritten DEF LoggerInv, WritingOK, RangeOf, WrittenOK
    <2>5. pc = "logged" => LoggedOK'
        BY <1>1, <2>2, KeptWritten DEF LoggerInv, LoggedOK, Swapped
    <2> QED
        BY <1>3, <2>2, <2>3, <2>4, <2>5 DEF LoggerInv
<1> QED
    BY <1>2, <1>3

\* The logger is called for a solution.
LEMMA CallLogger ==
    ASSUME LoggerInv, NEW c \in filtered_cops, LogWitnessPrefix(c)
    PROVE  LoggerInv'
<1>1. /\ pc = "sat" /\ RaceConstraint(c) /\ pc' = "write" /\ cop' = c
      /\ UNCHANGED causalVars /\ witness' = witness
    BY DEF LogWitnessPrefix
<1>2. CausalInv /\ SolveInv /\ Solved /\ witness = <<>>
    BY <1>1 DEF LoggerInv, Solved
<1>3. Solution' /\ PairOK(c)'
    BY <1>1, <1>2, SolvedSolution, SolvedPair, KeptSolution, KeptPair
<1>4. PairOK(cop)' /\ cop' \in filtered_cops'
    BY <1>1, <1>3 DEF PairOK, causalVars, constraintVars
<1>5. PICK left_out \in SUBSET (EID \ Named(c)) : event_order' = EID \ left_out
    BY DEF LogWitnessPrefix
<1>6. EID' = EID /\ Named(c)' = Named(c)
    BY <1>1, SolutionWords
<1>7. Named(cop)' = Named(c)'
    BY <1>1
<1>8. ToWrite(EID)' \subseteq event_order'
    BY <1>5, <1>6, <1>7 DEF ToWrite
<1>9. WrittenOK(witness)'
    BY <1>1, <1>2 DEF WrittenOK
<1>10. WritingOK'
    BY <1>1, <1>2, <1>8, <1>9 DEF WritingOK
<1> QED
    BY <1>1, <1>3, <1>4, <1>5, <1>6, <1>10 DEF LoggerInv

\* An event is left out.
LEMMA LeaveLogger ==
    ASSUME LoggerInv, NEW x \in event_order, Leave(x)
    PROVE  LoggerInv'
<1>1. /\ pc = "write" /\ pc' = pc /\ (Cut(x) \/ InPair(x))
      /\ event_order' = event_order \ {x}
      /\ UNCHANGED causalVars /\ UNCHANGED cop /\ witness' = witness
    BY DEF Leave, Reached
<1>2. /\ Solution /\ PairOK(cop) /\ cop \in filtered_cops /\ event_order \subseteq EID
      /\ WritingOK
    BY <1>1 DEF LoggerInv
<1>3. Solution' /\ PairOK(cop)' /\ cop' \in filtered_cops' /\ event_order' \subseteq EID'
    BY <1>1, <1>2, KeptSolution, KeptWritten
<1>4. x \notin ToWrite(EID)
    BY <1>1 DEF ToWrite
<1>5. WrittenOK(witness)'
    BY <1>1, <1>2, KeptWritten DEF WritingOK, WrittenOK
<1>6. ToWrite(EID)' \subseteq event_order' \cup RangeOf(witness)'
    BY <1>1, <1>2, <1>4, KeptWritten DEF WritingOK, RangeOf
<1>7. WritingOK'
    BY <1>1, <1>2, <1>5, <1>6, KeptWritten DEF WritingOK
<1> QED
    BY <1>1, <1>3, <1>7 DEF LoggerInv

\* An event is written.
LEMMA WriteLogger ==
    ASSUME LoggerInv, NEW x \in event_order, WriteEvent(x)
    PROVE  LoggerInv'
<1>1. /\ pc = "write" /\ pc' = pc /\ ~Cut(x) /\ ~PastRace(x) /\ ~InPair(x)
      /\ event_order' = event_order \ {x} /\ witness' = Append(witness, x)
      /\ \A d \in event_order : order[x] <= order[d]
      /\ UNCHANGED causalVars /\ UNCHANGED cop
    BY DEF WriteEvent, Reached
<1>2. /\ Solution /\ PairOK(cop) /\ cop \in filtered_cops /\ event_order \subseteq EID
      /\ WritingOK
    BY <1>1 DEF LoggerInv
<1>3. Solution' /\ PairOK(cop)' /\ cop' \in filtered_cops' /\ event_order' \subseteq EID'
    BY <1>1, <1>2, KeptSolution, KeptWritten
<1>4. PICK w : w = Append(witness, x)
    OBVIOUS
<1>5. /\ x \in EID /\ witness \in Seq(EID) /\ Len(witness) \in Nat
      /\ w \in Seq(EID) /\ DOMAIN witness = 1 .. Len(witness) /\ Len(w) = Len(witness) + 1
      /\ DOMAIN w = 1 .. Len(w) /\ w[Len(w)] = x
      /\ \A n \in DOMAIN witness : w[n] = witness[n]
    BY <1>2, <1>4 DEF WritingOK, WrittenOK
<1>6. \A n \in DOMAIN w : n \in DOMAIN witness \/ (n = Len(w) /\ w[n] = x)
    BY <1>5
<1>7. \A n \in DOMAIN witness : /\ witness[n] \notin event_order
                                /\ order[witness[n]] <= order[x]
    BY <1>2 DEF WritingOK
<1>8. \A m, n \in DOMAIN w : m < n => order[w[m]] <= order[w[n]] /\ w[m] # w[n]
    <2> SUFFICES ASSUME NEW m \in DOMAIN w, NEW n \in DOMAIN w, m < n
                 PROVE  order[w[m]] <= order[w[n]] /\ w[m] # w[n]
        OBVIOUS
    <2>1. m \in DOMAIN witness /\ w[m] = witness[m]
        BY <1>5, <1>6
    <2>2. CASE n \in DOMAIN witness
        BY <1>2, <1>5, <2>1, <2>2 DEF WritingOK, WrittenOK
    <2>3. CASE w[n] = x
        BY <1>7, <2>1, <2>3
    <2> QED
        BY <1>6, <2>2, <2>3
<1>9. \A n \in DOMAIN w : ~Cut(w[n]) /\ ~PastRace(w[n]) /\ ~InPair(w[n])
    <2> SUFFICES ASSUME NEW n \in DOMAIN w PROVE ~Cut(w[n]) /\ ~PastRace(w[n]) /\ ~InPair(w[n])
        OBVIOUS
    <2>1. CASE n \in DOMAIN witness
        BY <1>2, <1>5, <2>1 DEF WritingOK, WrittenOK
    <2>2. CASE w[n] = x
        BY <1>1, <2>2
    <2> QED
        BY <1>6, <2>1, <2>2
<1>10. WrittenOK(w)
    BY <1>5, <1>8, <1>9 DEF WrittenOK
<1>11. \A n \in DOMAIN w :
           w[n] \notin event_order' /\ \A d \in event_order' : order[w[n]] <= order[d]
    <2> SUFFICES ASSUME NEW n \in DOMAIN w
                 PROVE  /\ w[n] \notin event_order'
                        /\ \A d \in event_order' : order[w[n]] <= order[d]
        OBVIOUS
    <2>1. CASE n \in DOMAIN witness
        BY <1>1, <1>2, <1>5, <2>1 DEF WritingOK
    <2>2. CASE w[n] = x
        BY <1>1, <2>2
    <2> QED
        BY <1>6, <2>1, <2>2
<1>12. ToWrite(EID) \subseteq event_order' \cup RangeOf(w)
    <2>1. x \in RangeOf(w)
        BY <1>5 DEF RangeOf
    <2>2. RangeOf(witness) \subseteq RangeOf(w)
        <3>1. DOMAIN witness \subseteq DOMAIN w
            BY <1>5
        <3> QED
            BY <1>5, <3>1 DEF RangeOf
    <2> QED
        BY <1>1, <1>2, <2>1, <2>2 DEF WritingOK
<1>13. WrittenOK(w)' /\ ToWrite(EID)' = ToWrite(EID) /\ order' = order
    BY <1>1, <1>10, KeptWritten
<1>14. witness' = w
    BY <1>1, <1>4
<1>15. WrittenOK(witness)'
    BY <1>13, <1>14 DEF WrittenOK
<1>16. WritingOK'
    BY <1>11, <1>12, <1>13, <1>14, <1>15 DEF WritingOK, RangeOf
<1> QED
    BY <1>1, <1>3, <1>16 DEF LoggerInv

\* The pair ends the witness.
LEMMA PairLogger ==
    ASSUME LoggerInv, WritePair
    PROVE  LoggerInv'
<1>1. /\ pc = "write" /\ pc' = "logged"
      /\ event_order = {} \/ \E e \in event_order : Reached(e) /\ ~Cut(e) /\ PastRace(e)
      /\ UNCHANGED causalVars /\ UNCHANGED cop /\ event_order' = event_order
      /\ witness' = witness \o <<cop[1], cop[2]>> \/ witness' = witness \o Swapped(cop)
    BY DEF WritePair, Swapped
<1>2. /\ Solution /\ PairOK(cop) /\ cop \in filtered_cops /\ event_order \subseteq EID
      /\ WritingOK
    BY <1>1 DEF LoggerInv
<1>3. Solution' /\ PairOK(cop)' /\ cop' \in filtered_cops' /\ event_order' \subseteq EID'
    BY <1>1, <1>2, KeptSolution, KeptWritten
<1>4. \A d \in event_order : order[d] > order[cop[1]]
    <2> SUFFICES ASSUME NEW d \in event_order PROVE order[d] > order[cop[1]]
        OBVIOUS
    <2>1. PICK e \in event_order : Reached(e) /\ PastRace(e)
        BY <1>1
    <2>2. /\ order[e] \in Nat /\ order[d] \in Nat /\ order[cop[1]] \in Nat
          /\ order[cop[2]] = order[cop[1]]
        BY <1>2 DEF Solution, PositionsOK, PairOK
    <2>3. order[e] <= order[d]
        BY <2>1 DEF Reached
    <2>4. order[e] > order[cop[1]]
        BY <2>1, <2>2 DEF PastRace
    <2> QED
        BY <2>2, <2>3, <2>4
<1>5. \A d \in event_order : PastRace(d) /\ ~InPair(d)
    <2> SUFFICES ASSUME NEW d \in event_order PROVE PastRace(d) /\ ~InPair(d)
        OBVIOUS
    <2>1. /\ order[d] \in Nat /\ order[cop[1]] \in Nat /\ order[d] > order[cop[1]]
          /\ order[cop[2]] = order[cop[1]]
        BY <1>2, <1>4 DEF Solution, PositionsOK, PairOK
    <2> QED
        BY <2>1 DEF PastRace, InPair
<1>6. ToWrite(EID) \subseteq RangeOf(witness)
    BY <1>2, <1>5 DEF WritingOK, ToWrite
<1>7. PICK w : w = witness
    OBVIOUS
<1>8. WholeOK(w) /\ \A n \in DOMAIN w : w[n] \notin event_order
    BY <1>2, <1>6, <1>7 DEF WholeOK, WritingOK
<1>9. WholeOK(w)'
    BY <1>1, <1>8, KeptWritten
<1>10. witness' = w \o cop' \/ witness' = w \o Swapped(cop)'
    BY <1>1, <1>2, <1>7 DEF PairOK, Swapped
<1>11. cop'[1] \notin event_order' /\ cop'[2] \notin event_order'
    BY <1>1, <1>5 DEF InPair
<1>12. LoggedOK'
    BY <1>1, <1>8, <1>9, <1>10, <1>11 DEF LoggedOK
<1> QED
    BY <1>1, <1>3, <1>12 DEF LoggerInv

LEMMA NextLogger == LoggerInv /\ [LoggerNext]_<<vars, loggerVars>> => LoggerInv'
<1> SUFFICES ASSUME LoggerInv, [LoggerNext]_<<vars, loggerVars>> PROVE LoggerInv'
    OBVIOUS
<1>1. CASE (Next /\ UNCHANGED loggerVars) \/ UNCHANGED <<vars, loggerVars>>
    BY <1>1, PredictorLogger
<1>2. ASSUME NEW c \in filtered_cops, LogWitnessPrefix(c) PROVE LoggerInv'
    BY <1>2, CallLogger
<1>3. ASSUME NEW e \in event_order, Leave(e) \/ WriteEvent(e) PROVE LoggerInv'
    BY <1>3, LeaveLogger, WriteLogger
<1>4. CASE WritePair
    BY <1>4, PairLogger
<1> QED
    BY <1>1, <1>2, <1>3, <1>4 DEF LoggerNext

\* A witness without its last two events.
LEMMA PrefixOf ==
    ASSUME NEW S, NEW w \in Seq(S), NEW a \in S, NEW b \in S, NEW s, s = w \o <<a, b>>
    PROVE  /\ Len(w) \in Nat /\ Len(s) = Len(w) + 2 /\ DOMAIN s = 1 .. Len(s)
           /\ DOMAIN w = 1 .. Len(w)
           /\ \A n \in DOMAIN w : s[n] = w[n]
           /\ s[Len(w) + 1] = a /\ s[Len(w) + 2] = b
           /\ SubSeq(s, 1, Len(s) - 2) = w
<1>1. /\ Len(w) \in Nat /\ Len(s) = Len(w) + 2 /\ DOMAIN s = 1 .. Len(s)
      /\ DOMAIN w = 1 .. Len(w) /\ s \in Seq(S)
      /\ \A n \in DOMAIN w : s[n] = w[n]
      /\ s[Len(w) + 1] = a /\ s[Len(w) + 2] = b
    OBVIOUS
<1>2. SubSeq(s, 1, Len(w)) = [n \in 1 .. Len(w) |-> s[n]]
    BY <1>1
<1>3. w = [n \in 1 .. Len(w) |-> w[n]]
    BY <1>1
<1>4. Len(s) - 2 = Len(w)
    BY <1>1
<1> QED
    BY <1>1, <1>2, <1>3, <1>4

LEMMA LoggerTypes == LoggerInv => LoggerTypeOK
<1> SUFFICES ASSUME LoggerInv PROVE LoggerTypeOK
    OBVIOUS
<1>1. pc \notin {"write", "logged"} => CausalTypeOK /\ witness = <<>>
    BY CausalTypes DEF LoggerInv
<1>2. ASSUME pc \in {"write", "logged"}
      PROVE  /\ cop \in filtered_cops /\ event_order \subseteq EID
             /\ \A n \in DOMAIN witness : witness[n] \in EID \ event_order
             /\ \A m, n \in DOMAIN witness : witness[m] = witness[n] => m = n
    <2>1. Solution /\ PairOK(cop) /\ cop \in filtered_cops /\ event_order \subseteq EID
        BY <1>2 DEF LoggerInv
    <2>2. \A w : WrittenOK(w) =>
              /\ DOMAIN w \subseteq Nat /\ \A n \in DOMAIN w : w[n] \in EID
              /\ \A m, n \in DOMAIN w : w[m] = w[n] => m = n
        <3> SUFFICES ASSUME NEW w, WrittenOK(w)
                     PROVE  /\ DOMAIN w \subseteq Nat /\ \A n \in DOMAIN w : w[n] \in EID
                            /\ \A m, n \in DOMAIN w : w[m] = w[n] => m = n
            OBVIOUS
        <3>1. DOMAIN w \subseteq Nat /\ \A n \in DOMAIN w : w[n] \in EID
            BY DEF WrittenOK
        <3>2. \A m, n \in DOMAIN w : m < n => w[m] # w[n]
            BY DEF WrittenOK
        <3> QED
            BY <3>1, <3>2
    <2>3. CASE pc = "write"
        <3>1. WritingOK
            BY <2>3 DEF LoggerInv
        <3> QED
            BY <2>1, <2>2, <3>1 DEF WritingOK
    <2>4. CASE pc = "logged"
        <3>1. PICK w : /\ WholeOK(w) /\ (witness = w \o cop \/ witness = w \o Swapped(cop))
                       /\ \A n \in DOMAIN w : w[n] \notin event_order
                       /\ cop[1] \notin event_order /\ cop[2] \notin event_order
            BY <2>4 DEF LoggerInv, LoggedOK
        <3>2. PICK a, b \in EID : /\ witness = w \o <<a, b>> /\ {a, b} = {cop[1], cop[2]}
                                  /\ a # b
            BY <2>1, <3>1 DEF PairOK, Swapped
        <3>3. w \in Seq(EID) /\ WrittenOK(w)
            BY <3>1 DEF WholeOK, WrittenOK
        <3>4. /\ Len(w) \in Nat /\ DOMAIN w = 1 .. Len(w)
              /\ \A n \in DOMAIN witness : \/ n \in DOMAIN w /\ witness[n] = w[n]
                                           \/ n = Len(w) + 1 /\ witness[n] = a
                                           \/ n = Len(w) + 2 /\ witness[n] = b
            BY <3>2, <3>3, PrefixOf
        <3>5. \A n \in DOMAIN w : w[n] # a /\ w[n] # b
            BY <3>2, <3>3 DEF WrittenOK, InPair
        <3>6. \A n \in DOMAIN witness : witness[n] \in EID \ event_order
            BY <2>2, <3>1, <3>2, <3>3, <3>4
        <3>7. \A m, n \in DOMAIN witness : witness[m] = witness[n] => m = n
            BY <2>2, <3>2, <3>3, <3>4, <3>5
        <3> QED
            BY <2>1, <3>6, <3>7
    <2> QED
        BY <1>2, <2>3, <2>4
<1> QED
    BY <1>1, <1>2 DEF LoggerTypeOK

LEMMA WitnessReal == LoggerInv => WitnessIsReal
<1> SUFFICES ASSUME LoggerInv, Logged, \A l \in Locks : holder[l] = NoThread
             PROVE  /\ ThreadsLegal(Prefix)
                    /\ (\A t \in Threads : ~CutInRegion(t)) => LocksLegal(Prefix)
                    /\ (\A e \in EID : ~LostWithRegion(e)) =>
                           RaceIsNext /\ (ReadsAccounted => ReadsLegal(Prefix))
    BY DEF WitnessIsReal
<1>1. Solution /\ PairOK(cop) /\ LoggedOK
    BY DEF LoggerInv, Logged
<1>2. PICK w : WholeOK(w) /\ (witness = w \o cop \/ witness = w \o Swapped(cop))
    BY <1>1 DEF LoggedOK
<1>3. PICK a, b \in EID : witness = w \o <<a, b>>
    BY <1>1, <1>2 DEF PairOK, Swapped
<1>4. w \in Seq(EID)
    BY <1>2 DEF WholeOK, WrittenOK
<1>5. Prefix = w
    BY <1>3, <1>4, PrefixOf DEF Prefix
<1>6. ThreadsLegal(w)
    BY <1>1, <1>2, WrittenThreadsLegal
<1>7. (\A t \in Threads : ~CutInRegion(t)) => LocksLegal(w)
    BY <1>1, <1>2, WrittenLocksLegal
<1>8. ASSUME \A e \in EID : ~LostWithRegion(e)
      PROVE  RaceIsNext /\ (ReadsAccounted => ReadsLegal(w))
    <2>1. NoneLost
        BY <1>8 DEF NoneLost
    <2>2. RaceIsNext
        BY <1>1, <1>2, <1>5, <2>1, WrittenRaceIsNext DEF RaceIsNext
    <2>3. ReadsAccounted => ReadsLegal(w)
        BY <1>1, <1>2, <2>1, WrittenReadsLegal
    <2> QED
        BY <2>2, <2>3
<1> QED
    BY <1>5, <1>6, <1>7, <1>8

\* No event is written twice, nor before the loop has reached it, whatever the
\* trace, the solution and the order in which ties are sorted.
THEOREM LoggerTypesTheorem == LoggerSpec => []LoggerTypeOK
BY InitLogger, NextLogger, LoggerTypes, PTL DEF LoggerSpec

\* Every witness is legal and leads to its race, as far as the cuts let it
\* (model_logger.cpp:27-92).
THEOREM WitnessTheorem == LoggerSpec => []WitnessIsReal
BY InitLogger, NextLogger, WitnessReal, PTL DEF LoggerSpec
=============================================================================
