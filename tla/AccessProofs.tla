---------------------------- MODULE AccessProofs ----------------------------
(***************************************************************************)
(* What the Thread and Variable objects know of the accesses, whatever the *)
(* trace: the candidate races getCOPs lists are the conflicting pairs of   *)
(* accesses, each in one order, and the maps answer every query as a       *)
(* search of the trace would.                                              *)
(***************************************************************************)
EXTENDS TraceProofs

\* The writes of x, and the reads of x by t, in the whole trace.
WritesOf(x) == {e \in EID : Type(e) = "Write" /\ Target(e) = x}
ReadsOf(x, t) == {e \in EID : Type(e) = "Read" /\ Target(e) = x /\ Tid(e) = t}

Increasing(s) == \A m, n \in DOMAIN s : m < n => s[m] < s[n]

\* The Variable object of x holds all accesses of x, its writes in trace order.
AccessesOK(x) ==
    /\ Increasing(var_id_to_variable[x].writes)
    /\ RangeOf(var_id_to_variable[x].writes) = WritesOf(x)
    /\ var_id_to_variable[x].tid_to_read_events \in [Threads -> Seq(Nat)]
    /\ \A t \in Threads :
           RangeOf(var_id_to_variable[x].tid_to_read_events[t]) = ReadsOf(x, t)

TargetsAreVars == \A e \in EID : Type(e) \in {"Read", "Write"} => Target(e) \in Vars

AccessInv == TargetsAreVars /\ \A x \in Vars : AccessesOK(x)

-----------------------------------------------------------------------------
\* Appending adds one element to the range, and keeps an increasing sequence
\* increasing when the element is greater than the others.
LEMMA AppendRange ==
    ASSUME NEW s \in Seq(Nat), NEW e \in Nat
    PROVE  /\ RangeOf(Append(s, e)) = RangeOf(s) \cup {e}
           /\ Increasing(s) /\ (\A d \in RangeOf(s) : d < e) => Increasing(Append(s, e))
<1> DEFINE s2 == Append(s, e)
<1>1. /\ Len(s) \in Nat /\ DOMAIN s = 1 .. Len(s) /\ DOMAIN s2 = 1 .. Len(s) + 1
      /\ \A n \in DOMAIN s : s2[n] = s[n] /\ s[n] \in Nat
      /\ s2[Len(s) + 1] = e
    OBVIOUS
<1> HIDE DEF s2
<1>2. RangeOf(s2) = RangeOf(s) \cup {e}
    BY <1>1 DEF RangeOf
<1>3. ASSUME Increasing(s), \A d \in RangeOf(s) : d < e,
             NEW m \in DOMAIN s2, NEW n \in DOMAIN s2, m < n
      PROVE  s2[m] < s2[n]
    <2>1. m \in DOMAIN s /\ s2[m] = s[m]
        BY <1>1, <1>3
    <2>2. CASE n \in DOMAIN s
        BY <1>1, <1>3, <2>1, <2>2 DEF Increasing
    <2>3. CASE n = Len(s) + 1
        BY <1>1, <1>3, <2>1, <2>3 DEF RangeOf
    <2> QED
        BY <1>1, <2>2, <2>3
<1> QED
    BY <1>2, <1>3 DEF Increasing, s2

\* An added event joins the accesses of its variable, and only those.
LEMMA AccessSets ==
    ASSUME IInv,
           NEW type \in EventTypes, NEW t \in Threads,
           NEW target \in Threads \cup Vars \cup Locks \cup {0},
           NEW value \in Values \cup {NoValue},
           AddEvent(type, t, target, value),
           NEW x \in Vars
    PROVE  /\ WritesOf(x)' = IF type = "Write" /\ target = x
                             THEN WritesOf(x) \cup {NextId} ELSE WritesOf(x)
           /\ \A u \in Threads :
                  ReadsOf(x, u)' = IF type = "Read" /\ target = x /\ u = t
                                   THEN ReadsOf(x, u) \cup {NextId} ELSE ReadsOf(x, u)
<1>1. all_events \in Seq(EventRecord)
    BY DEF IInv, TypeOK, EventRecord
<1>2. /\ EID' = EID \cup {NextId} /\ NextId \notin EID
      /\ \A e \in EID : all_events'[e] = all_events[e]
      /\ all_events'[NextId] =
             [type |-> type, tid |-> t, target |-> target, value |-> value]
    BY <1>1, AddEventFacts
<1>3. /\ \A e \in EID : /\ all_events'[e].type = all_events[e].type
                        /\ all_events'[e].tid = all_events[e].tid
                        /\ all_events'[e].target = all_events[e].target
      /\ all_events'[NextId].type = type /\ all_events'[NextId].tid = t
      /\ all_events'[NextId].target = target
    BY <1>2
<1>4. WritesOf(x)' = IF type = "Write" /\ target = x
                     THEN WritesOf(x) \cup {NextId} ELSE WritesOf(x)
    BY <1>2, <1>3 DEF WritesOf, Type, Target
<1>5. \A u \in Threads :
          ReadsOf(x, u)' = IF type = "Read" /\ target = x /\ u = t
                           THEN ReadsOf(x, u) \cup {NextId} ELSE ReadsOf(x, u)
    BY <1>2, <1>3 DEF ReadsOf, Type, Target, Tid
<1> QED
    BY <1>4, <1>5

\* The targets of accesses are variables, after an access and any other event.
LEMMA TargetsKept ==
    ASSUME IInv, TargetsAreVars,
           NEW type \in EventTypes, NEW t \in Threads,
           NEW target \in Threads \cup Vars \cup Locks \cup {0},
           NEW value \in Values \cup {NoValue},
           AddEvent(type, t, target, value),
           type \in {"Read", "Write"} => target \in Vars
    PROVE  TargetsAreVars'
<1>1. all_events \in Seq(EventRecord)
    BY DEF IInv, TypeOK, EventRecord
<1>2. /\ EID' = EID \cup {NextId}
      /\ \A e \in EID : all_events'[e] = all_events[e]
      /\ all_events'[NextId] =
             [type |-> type, tid |-> t, target |-> target, value |-> value]
    BY <1>1, AddEventFacts
<1> QED
    BY <1>2 DEF TargetsAreVars, Type, Target

\* A variable the step does not access keeps its object right.
LEMMA AccessesUntouched ==
    ASSUME IInv,
           NEW type \in EventTypes, NEW t \in Threads,
           NEW target \in Threads \cup Vars \cup Locks \cup {0},
           NEW value \in Values \cup {NoValue},
           AddEvent(type, t, target, value),
           NEW x \in Vars, AccessesOK(x),
           type \notin {"Read", "Write"} \/ target # x,
           var_id_to_variable'[x] = var_id_to_variable[x]
    PROVE  AccessesOK(x)'
<1>1. WritesOf(x)' = WritesOf(x) /\ \A u \in Threads : ReadsOf(x, u)' = ReadsOf(x, u)
    BY AccessSets
<1> QED
    BY <1>1 DEF AccessesOK

-----------------------------------------------------------------------------
\* A read is appended to the reads of its thread.
LEMMA ReadAppends ==
    ASSUME NEW v, IsVariable(v), NEW e, NEW t \in Threads, NEW val,
           v.tid_to_read_events \in [Threads -> Seq(Nat)], e \in Nat
    PROVE  /\ VariableAddRead(v, e, t, val).tid_to_read_events \in [Threads -> Seq(Nat)]
           /\ \A u \in Threads :
                  VariableAddRead(v, e, t, val).tid_to_read_events[u] =
                      IF u = t THEN Append(v.tid_to_read_events[u], e)
                      ELSE v.tid_to_read_events[u]
<1> DEFINE diff == LastOf(ReadsOfOtherValue(v.tid_to_read_events[t], val))
           mine == v.tid_to_write_events[t]
           first == IF Untouched(v) THEN e ELSE v.first_read
           other == Put(v.read_to_prev_diff_read_in_thread, e, diff)
           reads == [v.tid_to_read_events EXCEPT ![t] = Append(@, e)]
           prev == IF mine = <<>> THEN v.read_to_prev_write_in_thread
                   ELSE Put(v.read_to_prev_write_in_thread, e, mine[Len(mine)])
           w == VariableAddRead(v, e, t, val)
           old == v.tid_to_read_events
<1>1. w = [v EXCEPT !.first_read = first, !.read_to_prev_diff_read_in_thread = other,
                    !.tid_to_read_events = reads, !.read_to_prev_write_in_thread = prev]
    BY DEF VariableAddRead, IsVariable
<1>2. reads = [old EXCEPT ![t] = Append(old[t], e)]
    OBVIOUS
<1> HIDE DEF w, first, other, reads, prev
<1>3. w = [first_read |-> first, first_write |-> v.first_write, writes |-> v.writes,
           tid_to_read_events |-> reads, tid_to_write_events |-> v.tid_to_write_events,
           read_to_prev_write_in_thread |-> prev, read_to_prev_diff_read_in_thread |-> other]
    BY <1>1 DEF IsVariable
<1>4. w.tid_to_read_events = reads
    BY <1>3
<1> HIDE DEF old
<1>5. /\ reads \in [Threads -> Seq(Nat)]
      /\ \A u \in Threads : reads[u] = IF u = t THEN Append(old[u], e) ELSE old[u]
    BY <1>2 DEF old
<1> QED
    BY <1>4, <1>5 DEF w, old

\* A read is recorded in the object of its variable, the others are untouched.
LEMMA ReadRecorded ==
    ASSUME IInv, AccessInv, NEW t \in Threads, NEW x \in Vars, NEW val \in Values,
           Read(t, x, val)
    PROVE  AccessInv'
<1>1. AddEvent("Read", t, x, val)
    BY DEF Read
<1>2. /\ "Read" \in EventTypes /\ val \in Values \cup {NoValue}
      /\ x \in Threads \cup Vars \cup Locks \cup {0}
    BY DEF EventTypes
<1>3. NextId \in Nat
    BY <1>1, <1>2, EventsKept
<1> DEFINE v == var_id_to_variable[x]
           w == VariableAddRead(v, NextId, t, val)
<1>4. /\ var_id_to_variable' = [var_id_to_variable EXCEPT ![x] = w]
      /\ DOMAIN var_id_to_variable = Vars /\ IsVariable(v)
    BY DEF Read, IInv, MapsTotal
<1>5. /\ Increasing(v.writes) /\ RangeOf(v.writes) = WritesOf(x)
      /\ v.tid_to_read_events \in [Threads -> Seq(Nat)]
      /\ \A u \in Threads : RangeOf(v.tid_to_read_events[u]) = ReadsOf(x, u)
    BY DEF AccessInv, AccessesOK
<1>6. /\ w.writes = v.writes
      /\ w.tid_to_read_events \in [Threads -> Seq(Nat)]
      /\ \A u \in Threads :
            w.tid_to_read_events[u] = IF u = t THEN Append(v.tid_to_read_events[u], NextId)
                                      ELSE v.tid_to_read_events[u]
    <2>1. ASSUME NEW old, NEW e \in Nat, IsVariable(old),
                 old.tid_to_read_events \in [Threads -> Seq(Nat)],
                 NEW new, new = VariableAddRead(old, e, t, val)
          PROVE  /\ new.writes = old.writes
                 /\ new.tid_to_read_events \in [Threads -> Seq(Nat)]
                 /\ \A u \in Threads :
                       new.tid_to_read_events[u] = IF u = t THEN Append(old.tid_to_read_events[u], e)
                                                   ELSE old.tid_to_read_events[u]
        BY <2>1, VariableReadShape, ReadAppends
    <2> QED
        BY <1>3, <1>4, <1>5, <2>1
<1> HIDE DEF w
<1>7. AccessesOK(x)'
    <2>1. WritesOf(x)' = WritesOf(x)
        BY <1>1, <1>2, AccessSets
    <2>2. ASSUME NEW u \in Threads
          PROVE  RangeOf(w.tid_to_read_events[u]) = ReadsOf(x, u)'
        <3>1. ReadsOf(x, u)' = IF u = t THEN ReadsOf(x, u) \cup {NextId} ELSE ReadsOf(x, u)
            BY <1>1, <1>2, AccessSets
        <3>2. RangeOf(Append(v.tid_to_read_events[u], NextId)) =
                  RangeOf(v.tid_to_read_events[u]) \cup {NextId}
            BY <1>3, <1>5, AppendRange
        <3> HIDE DEF v
        <3> QED
            BY <1>5, <1>6, <3>1, <3>2
    <2>3. var_id_to_variable'[x] = w
        BY <1>4
    <2> QED
        BY <1>5, <1>6, <2>1, <2>2, <2>3 DEF AccessesOK
<1>8. ASSUME NEW y \in Vars, y # x PROVE AccessesOK(y)'
    <2>1. var_id_to_variable'[y] = var_id_to_variable[y] /\ AccessesOK(y)
        BY <1>4, <1>8 DEF AccessInv
    <2> QED
        BY <1>1, <1>2, <1>8, <2>1, AccessesUntouched
<1>9. TargetsAreVars'
    BY <1>1, <1>2, TargetsKept DEF AccessInv
<1> QED
    BY <1>7, <1>8, <1>9 DEF AccessInv

\* So is a write, which is greater than those before it.
LEMMA WriteRecorded ==
    ASSUME IInv, AccessInv, NEW t \in Threads, NEW x \in Vars, NEW val \in Values,
           Write(t, x, val)
    PROVE  AccessInv'
<1>1. AddEvent("Write", t, x, val)
    BY DEF Write
<1>2. /\ "Write" \in EventTypes /\ val \in Values \cup {NoValue}
      /\ x \in Threads \cup Vars \cup Locks \cup {0}
    BY DEF EventTypes
<1>3. NextId \in Nat /\ EID \subseteq Nat /\ \A e \in EID : e < NextId
    BY <1>1, <1>2, EventsKept
<1> DEFINE v == var_id_to_variable[x]
           w == VariableAddWrite(v, NextId, t)
<1>4. /\ var_id_to_variable' = [var_id_to_variable EXCEPT ![x] = w]
      /\ DOMAIN var_id_to_variable = Vars /\ IsVariable(v)
      /\ v.writes \in Seq(EID)
    BY DEF Write, IInv, MapsTotal, TypeOK
<1>5. /\ Increasing(v.writes) /\ RangeOf(v.writes) = WritesOf(x)
      /\ v.tid_to_read_events \in [Threads -> Seq(Nat)]
      /\ \A u \in Threads : RangeOf(v.tid_to_read_events[u]) = ReadsOf(x, u)
    BY DEF AccessInv, AccessesOK
<1>6. /\ w.writes = Append(v.writes, NextId)
      /\ w.tid_to_read_events = v.tid_to_read_events
    BY <1>4, VariableWriteShape
<1> HIDE DEF w
<1>7. AccessesOK(x)'
    <2>1. /\ WritesOf(x)' = WritesOf(x) \cup {NextId}
          /\ \A u \in Threads : ReadsOf(x, u)' = ReadsOf(x, u)
        BY <1>1, <1>2, AccessSets
    <2>2. v.writes \in Seq(Nat)
        BY <1>3, <1>4, SeqGrows
    <2>3. \A d \in RangeOf(v.writes) : d < NextId
        BY <1>3, <1>5 DEF WritesOf
    <2>4. RangeOf(w.writes) = WritesOf(x)' /\ Increasing(w.writes)
        BY <1>3, <1>5, <1>6, <2>1, <2>2, <2>3, AppendRange
    <2>5. var_id_to_variable'[x] = w
        BY <1>4
    <2> QED
        BY <1>5, <1>6, <2>1, <2>4, <2>5 DEF AccessesOK
<1>8. ASSUME NEW y \in Vars, y # x PROVE AccessesOK(y)'
    <2>1. var_id_to_variable'[y] = var_id_to_variable[y] /\ AccessesOK(y)
        BY <1>4, <1>8 DEF AccessInv
    <2> QED
        BY <1>1, <1>2, <1>8, <2>1, AccessesUntouched
<1>9. TargetsAreVars'
    BY <1>1, <1>2, TargetsKept DEF AccessInv
<1> QED
    BY <1>7, <1>8, <1>9 DEF AccessInv

\* A synchronisation event is no access.
LEMMA SyncRecorded ==
    ASSUME IInv, AccessInv,
           NEW type \in EventTypes \ {"Read", "Write"}, NEW t \in Threads,
           NEW target \in Threads \cup Vars \cup Locks \cup {0},
           AddEvent(type, t, target, NoValue), UNCHANGED var_id_to_variable
    PROVE  AccessInv'
<1>1. NoValue \in Values \cup {NoValue} /\ type \in EventTypes /\ type \notin {"Read", "Write"}
    OBVIOUS
<1>2. TargetsAreVars'
    BY <1>1, TargetsKept DEF AccessInv
<1>3. ASSUME NEW x \in Vars PROVE AccessesOK(x)'
    BY <1>1, AccessesUntouched DEF AccessInv
<1> QED
    BY <1>2, <1>3 DEF AccessInv

LEMMA NextAccessInv == IInv /\ AccessInv /\ [TraceNext]_traceVars => AccessInv'
<1> SUFFICES ASSUME IInv, AccessInv, [TraceNext]_traceVars PROVE AccessInv'
    OBVIOUS
<1>1. ASSUME NEW t \in Threads, NEW u \in Threads,
             Fork(t, u) \/ Begin(t) \/ End(t) \/ Join(t, u)
      PROVE  AccessInv'
    <2>1. PICK type \in {"Fork", "Begin", "End", "Join"}, target \in {0, u} :
              AddEvent(type, t, target, NoValue)
        BY <1>1 DEF Fork, Begin, End, Join
    <2>2. /\ type \in EventTypes \ {"Read", "Write"}
          /\ target \in Threads \cup Vars \cup Locks \cup {0}
        BY DEF EventTypes
    <2>3. UNCHANGED var_id_to_variable
        BY <1>1 DEF Fork, Begin, End, Join
    <2> QED
        BY <2>1, <2>2, <2>3, SyncRecorded
<1>2. ASSUME NEW t \in Threads, NEW l \in Locks, Acquire(t, l) \/ Release(t, l)
      PROVE  AccessInv'
    <2>1. PICK type \in {"Acquire", "Release"} : AddEvent(type, t, l, NoValue)
        BY <1>2 DEF Acquire, Release
    <2>2. /\ type \in EventTypes \ {"Read", "Write"}
          /\ l \in Threads \cup Vars \cup Locks \cup {0}
        BY DEF EventTypes
    <2>3. UNCHANGED var_id_to_variable
        BY <1>2 DEF Acquire, Release
    <2> QED
        BY <2>1, <2>2, <2>3, SyncRecorded
<1>3. CASE Finish \/ UNCHANGED traceVars
    <2>1. UNCHANGED <<all_events, var_id_to_variable>>
        BY <1>3 DEF Finish, traceVars, mapVars
    <2> QED
        BY <2>1 DEF AccessInv, AccessesOK, TargetsAreVars, WritesOf, ReadsOf, EID, Type,
            Target, Tid
<1> QED
    BY <1>1, <1>2, <1>3, ReadRecorded, WriteRecorded DEF TraceNext

LEMMA InitAccessInv == TraceInit => AccessInv
<1> SUFFICES ASSUME TraceInit PROVE AccessInv
    OBVIOUS
<1>1. EID = {}
    BY DEF TraceInit, EID
<1>2. ASSUME NEW x \in Vars
      PROVE  /\ var_id_to_variable[x].writes = <<>>
             /\ var_id_to_variable[x].tid_to_read_events = [t \in Threads |-> <<>>]
    BY DEF TraceInit, NewVariable
<1>3. RangeOf(<<>>) = {} /\ Increasing(<<>>) /\ <<>> \in Seq(Nat)
    BY DEF RangeOf, Increasing
<1>4. ASSUME NEW x \in Vars PROVE AccessesOK(x)
    <2>1. /\ [t \in Threads |-> <<>>] \in [Threads -> Seq(Nat)]
          /\ \A t \in Threads : [u \in Threads |-> <<>>][t] = <<>>
        BY <1>3
    <2>2. WritesOf(x) = {} /\ \A t \in Threads : ReadsOf(x, t) = {}
        BY <1>1 DEF WritesOf, ReadsOf
    <2> QED
        BY <1>2, <1>3, <2>1, <2>2 DEF AccessesOK
<1> QED
    BY <1>1, <1>4 DEF AccessInv, TargetsAreVars

-----------------------------------------------------------------------------
(* Candidates.                                                             *)

\* The pairs a variable lists: a write with a later write, or with a read.
LEMMA VariablePairs ==
    ASSUME IInv, AccessInv, NEW x \in Vars, NEW d, NEW e
    PROVE  <<d, e>> \in VariableCOPs(var_id_to_variable[x]) <=>
               /\ Tid(d) # Tid(e) /\ d \in WritesOf(x)
               /\ \/ e \in WritesOf(x) /\ d < e
                  \/ \E t \in Threads : e \in ReadsOf(x, t)
<1> DEFINE v == var_id_to_variable[x]
           D == DOMAIN v.writes
           WW == {<<v.writes[q[1]], v.writes[q[2]]>> : q \in {p \in D \X D : p[1] < p[2]}}
           Reads == UNION {RangeOf(v.tid_to_read_events[t]) : t \in Threads}
<1>1. /\ v.writes \in Seq(EID) /\ Increasing(v.writes)
      /\ RangeOf(v.writes) = WritesOf(x)
      /\ \A t \in Threads : RangeOf(v.tid_to_read_events[t]) = ReadsOf(x, t)
    BY DEF AccessInv, AccessesOK, IInv, TypeOK
<1>2. <<d, e>> \in VariableCOPs(v) <=>
          /\ <<d, e>> \in WW \/ (d \in RangeOf(v.writes) /\ e \in Reads)
          /\ Tid(d) # Tid(e)
    BY DEF VariableCOPs
<1>3. e \in Reads <=> \E t \in Threads : e \in ReadsOf(x, t)
    BY <1>1
<1>4. <<d, e>> \in WW <=> d \in WritesOf(x) /\ e \in WritesOf(x) /\ d < e
    <2> DEFINE s == v.writes
    <2>1. /\ Len(s) \in Nat /\ D = 1 .. Len(s) /\ EID \subseteq Nat
          /\ \A n \in D : s[n] \in Nat
          /\ \A m, n \in D : m < n => s[m] < s[n]
          /\ WritesOf(x) = {s[n] : n \in D}
        BY <1>1 DEF Increasing, RangeOf, EID
    <2>2. ASSUME <<d, e>> \in WW
          PROVE  d \in WritesOf(x) /\ e \in WritesOf(x) /\ d < e
        <3>1. PICK q \in D \X D : q[1] < q[2] /\ <<d, e>> = <<s[q[1]], s[q[2]]>>
            BY <2>2
        <3> HIDE DEF s, D
        <3> QED
            BY <2>1, <3>1
    <2>3. ASSUME d \in WritesOf(x), e \in WritesOf(x), d < e
          PROVE  <<d, e>> \in WW
        <3>1. PICK m \in D : d = s[m]
            BY <2>1, <2>3
        <3>2. PICK n \in D : e = s[n]
            BY <2>1, <2>3
        <3>3. m < n
            <4> HIDE DEF s, D
            <4> QED
                BY <2>1, <2>3, <3>1, <3>2
        <3>4. <<m, n>> \in {p \in D \X D : p[1] < p[2]}
            BY <3>3
        <3> QED
            BY <3>1, <3>2, <3>4
    <2> QED
        BY <2>2, <2>3
<1> HIDE DEF v, WW, Reads, D
<1> QED
    BY <1>1, <1>2, <1>3, <1>4 DEF v

LEMMA CandidatesExact == IInv /\ AccessInv => COPsExact
<1> SUFFICES ASSUME IInv, AccessInv, NEW d \in EID, NEW e \in EID
             PROVE  /\ <<d, e>> \in getCOPs => Conflicting(d, e)
                    /\ Conflicting(d, e) => (<<d, e>> \in getCOPs) # (<<e, d>> \in getCOPs)
    BY DEF COPsExact
<1>1. ASSUME NEW p, NEW q
      PROVE  <<p, q>> \in getCOPs <=>
                 \E x \in Vars : <<p, q>> \in VariableCOPs(var_id_to_variable[x])
    BY DEF getCOPs
<1>2. ASSUME NEW p \in EID, NEW q \in EID
      PROVE  <<p, q>> \in getCOPs <=>
                 /\ Tid(p) # Tid(q) /\ Type(p) = "Write" /\ Target(p) = Target(q)
                 /\ (Type(q) = "Write" /\ p < q) \/ Type(q) = "Read"
    <2>1. Tid(q) \in Threads
        <3>1. all_events \in Seq(EventRecord)
            BY DEF IInv, TypeOK, EventRecord
        <3>2. all_events[q] \in EventRecord
            BY <3>1 DEF EID
        <3> QED
            BY <3>2 DEF EventRecord, Tid
    <2>2. Type(p) = "Write" => Target(p) \in Vars
        BY DEF AccessInv, TargetsAreVars
    <2>3. ASSUME NEW x \in Vars
          PROVE  /\ p \in WritesOf(x) <=> Type(p) = "Write" /\ Target(p) = x
                 /\ q \in WritesOf(x) <=> Type(q) = "Write" /\ Target(q) = x
                 /\ (\E t \in Threads : q \in ReadsOf(x, t)) <=>
                        Type(q) = "Read" /\ Target(q) = x
        BY <2>1 DEF WritesOf, ReadsOf
    <2> QED
        BY <1>1, <2>2, <2>3, VariablePairs
<1>3. d \in Nat /\ e \in Nat
    BY DEF EID
<1>4. Conflicting(d, e) => d # e
    BY DEF Conflicting
<1> QED
    BY <1>2, <1>3, <1>4 DEF Conflicting

\* The candidates getCOPs lists are the conflicting pairs of the trace, each
\* in exactly one order.
THEOREM CandidatesTheorem == TraceSpec => []COPsExact
<1> QED
    BY InitIInv, NextIInv, InitAccessInv, NextAccessInv, CandidatesExact, PTL DEF TraceSpec

-----------------------------------------------------------------------------
(* What the Thread objects answer.                                         *)

\* The reads of t before e, and its acquires up to e that no release follows.
ReadsBefore(t, e) == {d \in 1 .. e - 1 : Tid(d) = t /\ Type(d) = "Read"}
OpenAcquires(t, e) ==
    {d \in 1 .. e : /\ Tid(d) = t /\ Type(d) = "Acquire"
                    /\ \A r \in d .. e : Tid(r) = t => Type(r) # "Release"}

\* The Thread object knows its last read and its last open acquire, and has
\* recorded what they were at each of its events.
ThreadMapsOK(t) ==
    LET th == thread_id_to_thread[t]
    IN /\ th.prev_read = LastOf(ReadsBefore(t, NextId))
       /\ th.prev_acq = LastOf(OpenAcquires(t, Len(all_events)))
       /\ \A e \in EID : Tid(e) = t =>
              /\ e \in DOMAIN th.eid_to_prev_read /\ e \in DOMAIN th.eid_to_prev_acq
              /\ th.eid_to_prev_read[e] = LastOf(ReadsBefore(t, e))
              /\ th.eid_to_prev_acq[e] = LastOf(OpenAcquires(t, e))

LEMMA LastOfNone == LastOf({}) = NullEvent
BY DEF LastOf, NullEvent

\* An added event changes the sets of its own thread only, at the end.
LEMMA ThreadSets ==
    ASSUME IInv,
           NEW type \in EventTypes, NEW t \in Threads,
           NEW target \in Threads \cup Vars \cup Locks \cup {0},
           NEW value \in Values \cup {NoValue},
           AddEvent(type, t, target, value),
           NEW u \in Threads
    PROVE  /\ \A e \in EID' : ReadsBefore(u, e)' = ReadsBefore(u, e)
           /\ \A e \in EID : OpenAcquires(u, e)' = OpenAcquires(u, e)
           /\ ReadsBefore(u, NextId)' = IF u = t /\ type = "Read"
                                        THEN ReadsBefore(u, NextId) \cup {NextId}
                                        ELSE ReadsBefore(u, NextId)
           /\ OpenAcquires(u, Len(all_events))' =
                  CASE u = t /\ type = "Acquire" -> OpenAcquires(u, Len(all_events)) \cup {NextId}
                    [] u = t /\ type = "Release" -> {}
                    [] OTHER -> OpenAcquires(u, Len(all_events))
<1>1. /\ Len(all_events) \in Nat /\ NextId = Len(all_events) + 1
      /\ EID = 1 .. Len(all_events) /\ EID' = EID \cup {NextId}
      /\ Len(all_events') = NextId
      /\ \A e \in EID : Tid(e)' = Tid(e) /\ Type(e)' = Type(e)
      /\ \A e : e = NextId => Tid(e)' = t /\ Type(e)' = type
    BY FieldsKept
<1>2. \A e \in EID' : ReadsBefore(u, e)' = ReadsBefore(u, e)
    BY <1>1 DEF ReadsBefore
<1>3. \A e \in EID : OpenAcquires(u, e)' = OpenAcquires(u, e)
    BY <1>1 DEF OpenAcquires
<1>4. NextId' = NextId + 1
    BY <1>1 DEF NextId
<1>5. ReadsBefore(u, NextId)' = IF u = t /\ type = "Read"
                                THEN ReadsBefore(u, NextId) \cup {NextId}
                                ELSE ReadsBefore(u, NextId)
    BY <1>1, <1>4 DEF ReadsBefore
<1>6. OpenAcquires(u, Len(all_events))' =
                  CASE u = t /\ type = "Acquire" -> OpenAcquires(u, Len(all_events)) \cup {NextId}
                    [] u = t /\ type = "Release" -> {}
                    [] OTHER -> OpenAcquires(u, Len(all_events))
    BY <1>1 DEF OpenAcquires
<1> QED
    BY <1>2, <1>3, <1>5, <1>6

\* addEvent keeps the object of its thread right, and touches no other.
LEMMA ThreadMapsKept ==
    ASSUME IInv, \A u \in Threads : ThreadMapsOK(u),
           NEW type \in EventTypes, NEW t \in Threads,
           NEW target \in Threads \cup Vars \cup Locks \cup {0},
           NEW value \in Values \cup {NoValue},
           AddEvent(type, t, target, value),
           NEW u \in Threads
    PROVE  ThreadMapsOK(u)'
<1> DEFINE th == thread_id_to_thread[u]
           new == thread_id_to_thread'[u]
           n == NextId
<1>1. /\ th.prev_read = LastOf(ReadsBefore(u, NextId))
      /\ th.prev_acq = LastOf(OpenAcquires(u, Len(all_events)))
      /\ \A e \in EID : Tid(e) = u =>
             /\ e \in DOMAIN th.eid_to_prev_read /\ e \in DOMAIN th.eid_to_prev_acq
             /\ th.eid_to_prev_read[e] = LastOf(ReadsBefore(u, e))
             /\ th.eid_to_prev_acq[e] = LastOf(OpenAcquires(u, e))
    BY DEF ThreadMapsOK
<1>2. /\ \A e \in EID' : ReadsBefore(u, e)' = ReadsBefore(u, e)
      /\ \A e \in EID : OpenAcquires(u, e)' = OpenAcquires(u, e)
      /\ ReadsBefore(u, NextId)' = IF u = t /\ type = "Read"
                                   THEN ReadsBefore(u, NextId) \cup {NextId}
                                   ELSE ReadsBefore(u, NextId)
      /\ OpenAcquires(u, Len(all_events))' =
             CASE u = t /\ type = "Acquire" -> OpenAcquires(u, Len(all_events)) \cup {NextId}
               [] u = t /\ type = "Release" -> {}
               [] OTHER -> OpenAcquires(u, Len(all_events))
    BY ThreadSets
<1>3. /\ EID' = EID \cup {n} /\ n \notin EID /\ n \in Nat /\ EID \subseteq Nat
      /\ Len(all_events') = n /\ Len(all_events) \in Nat /\ n = Len(all_events) + 1
      /\ \A e \in EID : Tid(e)' = Tid(e) /\ e < n
      /\ \A e : e = n => Tid(e)' = t
    BY FieldsKept, EventsKept DEF EID
<1>4. /\ DOMAIN thread_id_to_thread = Threads
      /\ thread_id_to_thread' = [thread_id_to_thread EXCEPT
              ![t] = ThreadAddEvent(thread_id_to_thread[t], n, type)]
    BY DEF AddEvent, IInv, MapsTotal
<1>5. CASE u # t
    <2>1. new = th
        BY <1>4, <1>5
    <2>2. \A e \in EID' : Tid(e)' = u => e \in EID /\ Tid(e) = u
        BY <1>3, <1>5
    <2>3. /\ LastOf(ReadsBefore(u, NextId))' = LastOf(ReadsBefore(u, NextId))
          /\ LastOf(OpenAcquires(u, Len(all_events)))' = LastOf(OpenAcquires(u, Len(all_events)))
        BY <1>2, <1>5 DEF LastOf
    <2>4. \A e \in EID : /\ LastOf(ReadsBefore(u, e))' = LastOf(ReadsBefore(u, e))
                         /\ LastOf(OpenAcquires(u, e))' = LastOf(OpenAcquires(u, e))
        BY <1>2, <1>3 DEF LastOf
    <2> QED
        BY <1>1, <2>1, <2>2, <2>3, <2>4 DEF ThreadMapsOK
<1>6. CASE u = t
    <2> DEFINE acq == CASE type = "Acquire" -> n
                        [] type = "Release" -> NullEvent
                        [] OTHER -> th.prev_acq
               read == IF type = "Read" THEN n ELSE th.prev_read
    <2>1. /\ new.prev_read = read /\ new.prev_acq = acq
          /\ new.eid_to_prev_read = Put(th.eid_to_prev_read, n, th.prev_read)
          /\ new.eid_to_prev_acq = Put(th.eid_to_prev_acq, n, acq)
        BY <1>4, <1>6 DEF ThreadAddEvent
    <2>2. /\ ReadsBefore(u, NextId) \subseteq EID
          /\ OpenAcquires(u, Len(all_events)) \subseteq EID
        BY <1>3 DEF ReadsBefore, OpenAcquires, EID
    <2>3. LastOf(ReadsBefore(u, NextId))' = read
        <3>1. CASE type = "Read"
            <4>1. ReadsBefore(u, NextId)' = ReadsBefore(u, NextId) \cup {n}
                BY <1>2, <1>6, <3>1
            <4>2. LastOf(ReadsBefore(u, NextId) \cup {n}) = n
                BY <1>3, <2>2, LastOfGreatest
            <4> QED
                BY <3>1, <4>1, <4>2 DEF LastOf
        <3>2. CASE type # "Read"
            <4>1. ReadsBefore(u, NextId)' = ReadsBefore(u, NextId)
                BY <1>2, <3>2
            <4> QED
                BY <1>1, <3>2, <4>1 DEF LastOf
        <3> QED
            BY <3>1, <3>2
    <2>4. LastOf(OpenAcquires(u, Len(all_events)))' = acq
        <3>1. CASE type = "Acquire"
            <4>1. OpenAcquires(u, Len(all_events))' = OpenAcquires(u, Len(all_events)) \cup {n}
                BY <1>2, <1>6, <3>1
            <4>2. LastOf(OpenAcquires(u, Len(all_events)) \cup {n}) = n
                BY <1>3, <2>2, LastOfGreatest
            <4> QED
                BY <3>1, <4>1, <4>2 DEF LastOf
        <3>2. CASE type = "Release"
            <4>1. OpenAcquires(u, Len(all_events))' = {}
                BY <1>2, <1>6, <3>2
            <4> QED
                BY <3>2, <4>1, LastOfNone DEF LastOf
        <3>3. CASE type \notin {"Acquire", "Release"}
            <4>1. OpenAcquires(u, Len(all_events))' = OpenAcquires(u, Len(all_events))
                BY <1>2, <3>3
            <4> QED
                BY <1>1, <3>3, <4>1 DEF LastOf
        <3> QED
            BY <3>1, <3>2, <3>3
    <2> HIDE DEF acq, read
    <2>5. ASSUME NEW e \in EID', Tid(e)' = u
          PROVE  /\ e \in DOMAIN new.eid_to_prev_read /\ e \in DOMAIN new.eid_to_prev_acq
                 /\ new.eid_to_prev_read[e] = LastOf(ReadsBefore(u, e))'
                 /\ new.eid_to_prev_acq[e] = LastOf(OpenAcquires(u, e))'
        <3> DEFINE reads == th.eid_to_prev_read
                   acqs == th.eid_to_prev_acq
        <3>0. /\ DOMAIN Put(reads, n, th.prev_read) = DOMAIN reads \cup {n}
              /\ Put(reads, n, th.prev_read)[n] = th.prev_read
              /\ \A d \in DOMAIN reads : d # n => Put(reads, n, th.prev_read)[d] = reads[d]
              /\ DOMAIN Put(acqs, n, acq) = DOMAIN acqs \cup {n}
              /\ Put(acqs, n, acq)[n] = acq
              /\ \A d \in DOMAIN acqs : d # n => Put(acqs, n, acq)[d] = acqs[d]
            <4> HIDE DEF reads, acqs, n
            <4>1. /\ DOMAIN Put(reads, n, th.prev_read) = DOMAIN reads \cup {n}
                  /\ Put(reads, n, th.prev_read)[n] = th.prev_read
                  /\ \A d \in DOMAIN reads : d # n => Put(reads, n, th.prev_read)[d] = reads[d]
                BY DEF Put
            <4>2. /\ DOMAIN Put(acqs, n, acq) = DOMAIN acqs \cup {n}
                  /\ Put(acqs, n, acq)[n] = acq
                  /\ \A d \in DOMAIN acqs : d # n => Put(acqs, n, acq)[d] = acqs[d]
                BY DEF Put
            <4> QED
                BY <4>1, <4>2
        <3>1. CASE e = n
            <4>1. LastOf(ReadsBefore(u, e))' = LastOf(ReadsBefore(u, n))
                BY <1>2, <1>3, <3>1 DEF LastOf
            <4>2. LastOf(OpenAcquires(u, e))' = acq
                BY <1>3, <2>4, <3>1 DEF LastOf, OpenAcquires
            <4> QED
                BY <1>1, <2>1, <3>0, <3>1, <4>1, <4>2
        <3>2. CASE e # n
            <4>1. e \in EID /\ Tid(e) = u
                BY <1>3, <2>5, <3>2
            <4>2. /\ LastOf(ReadsBefore(u, e))' = LastOf(ReadsBefore(u, e))
                  /\ LastOf(OpenAcquires(u, e))' = LastOf(OpenAcquires(u, e))
                BY <1>2, <2>5, <4>1 DEF LastOf
            <4> QED
                BY <1>1, <2>1, <3>0, <3>2, <4>1, <4>2
        <3> QED
            BY <3>1, <3>2
    <2> QED
        BY <2>1, <2>3, <2>4, <2>5 DEF ThreadMapsOK
<1> QED
    BY <1>5, <1>6

-----------------------------------------------------------------------------
(* What the Variable objects answer.                                       *)

\* The writes of x by t, those before e, and its reads of x before e that
\* returned another value than v.
OwnWrites(x, t) == {d \in EID : Type(d) = "Write" /\ Target(d) = x /\ Tid(d) = t}
OwnWritesBefore(x, t, e) ==
    {d \in 1 .. e - 1 : Type(d) = "Write" /\ Target(d) = x /\ Tid(d) = t}
OtherReadsBefore(x, t, e, v) ==
    {d \in 1 .. e - 1 : Type(d) = "Read" /\ Target(d) = x /\ Tid(d) = t /\ Value(d) # v}

\* The Variable object lists the writes of each thread, and has recorded what
\* each read of its variable has to know.
VariableMapsOK(x) ==
    LET v == var_id_to_variable[x]
        prev == v.read_to_prev_write_in_thread
        diff == v.read_to_prev_diff_read_in_thread
    IN /\ v.tid_to_write_events \in [Threads -> Seq(Nat)]
       /\ \A t \in Threads :
              /\ Increasing(v.tid_to_write_events[t])
              /\ RangeOf(v.tid_to_write_events[t]) = OwnWrites(x, t)
       /\ DOMAIN prev \subseteq EID
       /\ \A r \in EID : Type(r) = "Read" /\ Target(r) = x =>
              /\ (IF r \in DOMAIN prev THEN prev[r] ELSE NullEvent)
                     = LastOf(OwnWritesBefore(x, Tid(r), r))
              /\ r \in DOMAIN diff
              /\ diff[r] = LastOf(OtherReadsBefore(x, Tid(r), r, Value(r)))

\* The first access of a variable is on record, as a read or as a write.
FirstOK(x) ==
    LET v == var_id_to_variable[x]
        Access(e) == Type(e) \in {"Read", "Write"} /\ Target(e) = x
    IN /\ v.first_read # NullEvent =>
              /\ v.first_read \in EID /\ Type(v.first_read) = "Read"
              /\ Target(v.first_read) = x
              /\ \A d \in EID : Access(d) => v.first_read <= d
       /\ v.first_write # NullEvent =>
              /\ v.first_write \in WritesOf(x)
              /\ \A d \in EID : Access(d) => v.first_write <= d
       /\ Untouched(v) => \A d \in EID : ~Access(d)

\* The program is sequentially consistent: the last accesses of a variable
\* have the value it has now, and those before a read the value it returned.
MemoryOK(x) ==
    LET Access(e) == Type(e) \in {"Read", "Write"} /\ Target(e) = x
    IN /\ \A d \in EID : Access(d) /\ (\A w \in WritesOf(x) : w <= d) => Value(d) = mem[x]
       /\ \A d, r \in EID :
              /\ Access(d) /\ d < r /\ Type(r) = "Read" /\ Target(r) = x
              /\ \A w \in WritesOf(x) : w <= d \/ r < w
              => Value(d) = Value(r)

\* An added event joins no set of the events before another one.
LEMMA VariableSets ==
    ASSUME IInv,
           NEW type \in EventTypes, NEW t \in Threads,
           NEW target \in Threads \cup Vars \cup Locks \cup {0},
           NEW value \in Values \cup {NoValue},
           AddEvent(type, t, target, value),
           NEW x \in Vars, NEW u \in Threads
    PROVE  /\ OwnWrites(x, u)' = IF type = "Write" /\ target = x /\ u = t
                                 THEN OwnWrites(x, u) \cup {NextId} ELSE OwnWrites(x, u)
           /\ \A e \in EID' : /\ OwnWritesBefore(x, u, e)' = OwnWritesBefore(x, u, e)
                              /\ \A v : OtherReadsBefore(x, u, e, v)' = OtherReadsBefore(x, u, e, v)
           /\ \A e : e = NextId => OwnWritesBefore(x, u, e) = OwnWrites(x, u)
<1>1. /\ Len(all_events) \in Nat /\ NextId = Len(all_events) + 1
      /\ EID = 1 .. Len(all_events) /\ EID' = EID \cup {NextId} /\ NextId \notin EID
      /\ \A e \in EID : /\ Tid(e)' = Tid(e) /\ Type(e)' = Type(e)
                        /\ Target(e)' = Target(e) /\ Value(e)' = Value(e)
      /\ \A e : e = NextId => /\ Tid(e)' = t /\ Type(e)' = type /\ Target(e)' = target
    BY FieldsKept
<1>2. OwnWrites(x, u)' = IF type = "Write" /\ target = x /\ u = t
                         THEN OwnWrites(x, u) \cup {NextId} ELSE OwnWrites(x, u)
    BY <1>1 DEF OwnWrites
<1>3. \A e \in EID' : OwnWritesBefore(x, u, e)' = OwnWritesBefore(x, u, e)
    BY <1>1 DEF OwnWritesBefore
<1>4. \A e \in EID' : \A v : OtherReadsBefore(x, u, e, v)' = OtherReadsBefore(x, u, e, v)
    BY <1>1 DEF OtherReadsBefore
<1>5. \A e : e = NextId => OwnWritesBefore(x, u, e) = OwnWrites(x, u)
    BY <1>1 DEF OwnWritesBefore, OwnWrites
<1> QED
    BY <1>2, <1>3, <1>4, <1>5

\* The fields of a Variable object after a read, and after a write.
LEMMA ReadFields ==
    ASSUME NEW v, IsVariable(v), NEW e, NEW t \in Threads, NEW val
    PROVE  LET w == VariableAddRead(v, e, t, val)
               mine == v.tid_to_write_events[t]
           IN /\ w.first_read = IF Untouched(v) THEN e ELSE v.first_read
              /\ w.first_write = v.first_write /\ w.writes = v.writes
              /\ w.tid_to_write_events = v.tid_to_write_events
              /\ w.read_to_prev_write_in_thread =
                     IF mine = <<>> THEN v.read_to_prev_write_in_thread
                     ELSE Put(v.read_to_prev_write_in_thread, e, mine[Len(mine)])
              /\ w.read_to_prev_diff_read_in_thread =
                     Put(v.read_to_prev_diff_read_in_thread, e,
                         LastOf(ReadsOfOtherValue(v.tid_to_read_events[t], val)))
<1> DEFINE diff == LastOf(ReadsOfOtherValue(v.tid_to_read_events[t], val))
           mine == v.tid_to_write_events[t]
           first == IF Untouched(v) THEN e ELSE v.first_read
           other == Put(v.read_to_prev_diff_read_in_thread, e, diff)
           reads == [v.tid_to_read_events EXCEPT ![t] = Append(@, e)]
           prev == IF mine = <<>> THEN v.read_to_prev_write_in_thread
                   ELSE Put(v.read_to_prev_write_in_thread, e, mine[Len(mine)])
           w == VariableAddRead(v, e, t, val)
<1>1. w = [v EXCEPT !.first_read = first, !.read_to_prev_diff_read_in_thread = other,
                    !.tid_to_read_events = reads, !.read_to_prev_write_in_thread = prev]
    BY DEF VariableAddRead, IsVariable
<1> HIDE DEF w, first, other, reads, prev
<1>2. w = [first_read |-> first, first_write |-> v.first_write, writes |-> v.writes,
           tid_to_read_events |-> reads, tid_to_write_events |-> v.tid_to_write_events,
           read_to_prev_write_in_thread |-> prev, read_to_prev_diff_read_in_thread |-> other]
    BY <1>1 DEF IsVariable
<1>3. /\ w.first_read = first /\ w.first_write = v.first_write /\ w.writes = v.writes
      /\ w.tid_to_write_events = v.tid_to_write_events
      /\ w.read_to_prev_write_in_thread = prev
      /\ w.read_to_prev_diff_read_in_thread = other
    BY <1>2
<1> QED
    BY <1>3 DEF w, first, other, prev

LEMMA WriteFields ==
    ASSUME NEW v, IsVariable(v), NEW e, NEW t \in Threads
    PROVE  LET w == VariableAddWrite(v, e, t)
           IN /\ w.first_read = v.first_read
              /\ w.first_write = IF Untouched(v) THEN e ELSE v.first_write
              /\ w.tid_to_write_events = [v.tid_to_write_events EXCEPT ![t] = Append(@, e)]
              /\ w.read_to_prev_write_in_thread = v.read_to_prev_write_in_thread
              /\ w.read_to_prev_diff_read_in_thread = v.read_to_prev_diff_read_in_thread
<1> DEFINE first == IF Untouched(v) THEN e ELSE v.first_write
           mine == [v.tid_to_write_events EXCEPT ![t] = Append(@, e)]
           all == Append(v.writes, e)
           w == VariableAddWrite(v, e, t)
<1>1. w = [v EXCEPT !.first_write = first, !.writes = all, !.tid_to_write_events = mine]
    BY DEF VariableAddWrite, IsVariable
<1> HIDE DEF w, first, mine, all
<1>2. w = [first_read |-> v.first_read, first_write |-> first, writes |-> all,
           tid_to_read_events |-> v.tid_to_read_events, tid_to_write_events |-> mine,
           read_to_prev_write_in_thread |-> v.read_to_prev_write_in_thread,
           read_to_prev_diff_read_in_thread |-> v.read_to_prev_diff_read_in_thread]
    BY <1>1 DEF IsVariable
<1>3. /\ w.first_read = v.first_read /\ w.first_write = first /\ w.tid_to_write_events = mine
      /\ w.read_to_prev_write_in_thread = v.read_to_prev_write_in_thread
      /\ w.read_to_prev_diff_read_in_thread = v.read_to_prev_diff_read_in_thread
    BY <1>2
<1> QED
    BY <1>3 DEF w, first, mine

\* An event that is no access of x changes nothing of its object.
LEMMA VariableMapsUntouched ==
    ASSUME IInv,
           NEW type \in EventTypes, NEW t \in Threads,
           NEW target \in Threads \cup Vars \cup Locks \cup {0},
           NEW value \in Values \cup {NoValue},
           AddEvent(type, t, target, value),
           NEW x \in Vars, VariableMapsOK(x), EventsWellFormed,
           type \notin {"Read", "Write"} \/ target # x,
           var_id_to_variable'[x] = var_id_to_variable[x]
    PROVE  VariableMapsOK(x)'
<1>1. /\ EID' = EID \cup {NextId} /\ NextId \notin EID
      /\ \A e \in EID : /\ Tid(e)' = Tid(e) /\ Type(e)' = Type(e)
                        /\ Target(e)' = Target(e) /\ Value(e)' = Value(e)
      /\ \A e : e = NextId => Type(e)' = type /\ Target(e)' = target
    BY FieldsKept
<1>2. \A u \in Threads : /\ OwnWrites(x, u)' = OwnWrites(x, u)
                         /\ \A e \in EID' : /\ OwnWritesBefore(x, u, e)' = OwnWritesBefore(x, u, e)
                                            /\ \A v : OtherReadsBefore(x, u, e, v)' = OtherReadsBefore(x, u, e, v)
    BY VariableSets
<1>3. ASSUME NEW r \in EID', Type(r)' = "Read", Target(r)' = x
      PROVE  /\ r \in EID /\ Type(r) = "Read" /\ Target(r) = x
             /\ LastOf(OwnWritesBefore(x, Tid(r), r))' = LastOf(OwnWritesBefore(x, Tid(r), r))
             /\ LastOf(OtherReadsBefore(x, Tid(r), r, Value(r)))' =
                    LastOf(OtherReadsBefore(x, Tid(r), r, Value(r)))
    <2>1. r \in EID /\ Type(r) = "Read" /\ Target(r) = x
        BY <1>1, <1>3
    <2>2. Tid(r) \in Threads
        BY <2>1 DEF EventsWellFormed, WellFormed
    <2>3. Tid(r)' = Tid(r) /\ Value(r)' = Value(r)
        BY <1>1, <2>1
    <2> DEFINE u == Tid(r)
               z == Value(r)
    <2>4. /\ OwnWritesBefore(x, Tid(r), r)' = OwnWritesBefore(x, u, r)
          /\ OtherReadsBefore(x, Tid(r), r, Value(r))' = OtherReadsBefore(x, u, r, z)
        <3>1. /\ \A i : i = u => OwnWritesBefore(x, i, r)' = OwnWritesBefore(x, i, r)
              /\ \A i, k : i = u => OtherReadsBefore(x, i, r, k)' = OtherReadsBefore(x, i, r, k)
            BY <1>2, <2>2
        <3>2. ASSUME NEW i, i = u, NEW k, k = z
              PROVE  /\ OwnWritesBefore(x, Tid(r), r)' = OwnWritesBefore(x, i, r)'
                     /\ OtherReadsBefore(x, Tid(r), r, Value(r))' = OtherReadsBefore(x, i, r, k)'
            BY <2>3, <3>2 DEF OwnWritesBefore, OtherReadsBefore
        <3> QED
            BY <3>1, <3>2
    <2> QED
        BY <2>1, <2>4 DEF LastOf
<1> QED
    BY <1>1, <1>2, <1>3 DEF VariableMapsOK

\* The last element of an increasing sequence is the last of its elements.
LEMMA LastIsLast ==
    ASSUME NEW s \in Seq(Nat), Increasing(s)
    PROVE  LastOf(RangeOf(s)) = IF s = <<>> THEN NullEvent ELSE s[Len(s)]
<1>1. CASE s = <<>>
    BY <1>1, LastOfNone DEF RangeOf
<1>2. CASE s # <<>>
    <2>1. /\ Len(s) \in DOMAIN s /\ DOMAIN s = 1 .. Len(s) /\ Len(s) \in Nat
          /\ \A n \in DOMAIN s : s[n] \in Nat
        BY <1>2
    <2>2. RangeOf(s) \in SUBSET Nat /\ s[Len(s)] \in RangeOf(s)
        BY <2>1 DEF RangeOf
    <2>3. \A d \in RangeOf(s) : d <= s[Len(s)]
        <3> SUFFICES ASSUME NEW n \in DOMAIN s PROVE s[n] <= s[Len(s)]
            BY DEF RangeOf
        <3> QED
            BY <2>1 DEF Increasing
    <2>4. LastOf(RangeOf(s)) = s[Len(s)]
        BY <2>2, <2>3, LastOfGreatest
    <2> QED
        BY <1>2, <2>4
<1> QED
    BY <1>1, <1>2

\* A read records the thread's last write of x and its last read of x of
\* another value.
LEMMA VariableMapsRead ==
    ASSUME IInv, EventsWellFormed, NEW t \in Threads, NEW x \in Vars, NEW val \in Values,
           Read(t, x, val), AccessesOK(x), VariableMapsOK(x)
    PROVE  VariableMapsOK(x)'
<1> DEFINE v == var_id_to_variable[x]
           w == VariableAddRead(v, NextId, t, val)
           n == NextId
           mine == v.tid_to_write_events[t]
           prev == v.read_to_prev_write_in_thread
           diff == v.read_to_prev_diff_read_in_thread
           last == LastOf(ReadsOfOtherValue(v.tid_to_read_events[t], val))
<1>1. AddEvent("Read", t, x, val)
    BY DEF Read
<1>2. /\ "Read" \in EventTypes /\ val \in Values \cup {NoValue}
      /\ x \in Threads \cup Vars \cup Locks \cup {0}
    BY DEF EventTypes
<1>3. /\ EID' = EID \cup {n} /\ n \notin EID /\ n \in Nat /\ EID \subseteq Nat
      /\ \A e \in EID : /\ Tid(e)' = Tid(e) /\ Type(e)' = Type(e) /\ e < n
                        /\ Target(e)' = Target(e) /\ Value(e)' = Value(e)
      /\ \A e : e = n => Tid(e)' = t /\ Value(e)' = val
    BY <1>1, <1>2, FieldsKept DEF EID
<1>4. var_id_to_variable'[x] = w /\ IsVariable(v)
    BY DEF Read, IInv, MapsTotal
<1>5. /\ w.tid_to_write_events = v.tid_to_write_events
      /\ w.read_to_prev_write_in_thread = IF mine = <<>> THEN prev ELSE Put(prev, n, mine[Len(mine)])
      /\ w.read_to_prev_diff_read_in_thread = Put(diff, n, last)
    BY <1>4, ReadFields
<1>6. /\ v.tid_to_write_events \in [Threads -> Seq(Nat)]
      /\ \A u \in Threads : /\ Increasing(v.tid_to_write_events[u])
                            /\ RangeOf(v.tid_to_write_events[u]) = OwnWrites(x, u)
      /\ DOMAIN prev \subseteq EID
      /\ \A r \in EID : Type(r) = "Read" /\ Target(r) = x =>
             /\ (IF r \in DOMAIN prev THEN prev[r] ELSE NullEvent)
                    = LastOf(OwnWritesBefore(x, Tid(r), r))
             /\ r \in DOMAIN diff
             /\ diff[r] = LastOf(OtherReadsBefore(x, Tid(r), r, Value(r)))
    BY DEF VariableMapsOK
<1>7. \A u \in Threads :
          /\ OwnWrites(x, u)' = OwnWrites(x, u)
          /\ \A e \in EID' : /\ OwnWritesBefore(x, u, e)' = OwnWritesBefore(x, u, e)
                             /\ \A z : OtherReadsBefore(x, u, e, z)' = OtherReadsBefore(x, u, e, z)
          /\ \A e : e = n => OwnWritesBefore(x, u, e) = OwnWrites(x, u)
    BY <1>1, <1>2, VariableSets
<1>8. (IF mine = <<>> THEN NullEvent ELSE mine[Len(mine)]) = LastOf(OwnWritesBefore(x, t, n))
    <2>1. mine \in Seq(Nat) /\ Increasing(mine) /\ RangeOf(mine) = OwnWritesBefore(x, t, n)
        BY <1>6, <1>7
    <2> HIDE DEF mine
    <2> QED
        BY <2>1, LastIsLast
<1>9. last = LastOf(OtherReadsBefore(x, t, n, val))
    <2>1. RangeOf(v.tid_to_read_events[t]) = ReadsOf(x, t)
        BY DEF AccessesOK
    <2>2. ReadsOfOtherValue(v.tid_to_read_events[t], val) = {r \in ReadsOf(x, t) : Value(r) # val}
        BY <2>1 DEF ReadsOfOtherValue, RangeOf, Value
    <2>3. Len(all_events) \in Nat
        BY DEF IInv, TypeOK
    <2>4. {r \in ReadsOf(x, t) : Value(r) # val} = OtherReadsBefore(x, t, n, val)
        BY <2>3 DEF ReadsOf, OtherReadsBefore, NextId, EID
    <2> QED
        BY <2>2, <2>4
<1> HIDE DEF v, w, mine, prev, diff, last, n
<1>10. ASSUME NEW r \in EID', Type(r)' = "Read", Target(r)' = x
       PROVE  /\ (IF r \in DOMAIN w.read_to_prev_write_in_thread
                  THEN w.read_to_prev_write_in_thread[r] ELSE NullEvent)
                     = LastOf(OwnWritesBefore(x, Tid(r), r))'
              /\ r \in DOMAIN w.read_to_prev_diff_read_in_thread
              /\ w.read_to_prev_diff_read_in_thread[r] =
                     LastOf(OtherReadsBefore(x, Tid(r), r, Value(r)))'
    <2>1. CASE r = n
        <3>1. /\ OwnWritesBefore(x, Tid(r), r)' = OwnWritesBefore(x, t, n)
              /\ OtherReadsBefore(x, Tid(r), r, Value(r))' = OtherReadsBefore(x, t, n, val)
            <4>1. /\ \A i, e : i = t /\ e = n => OwnWritesBefore(x, i, e)' = OwnWritesBefore(x, i, e)
                  /\ \A i, e, k : i = t /\ e = n =>
                         OtherReadsBefore(x, i, e, k)' = OtherReadsBefore(x, i, e, k)
                BY <1>3, <1>7
            <4>2. ASSUME NEW i, i = t, NEW k, k = val
                  PROVE  /\ OwnWritesBefore(x, Tid(r), r)' = OwnWritesBefore(x, i, r)'
                         /\ OtherReadsBefore(x, Tid(r), r, Value(r))' = OtherReadsBefore(x, i, r, k)'
                BY <1>3, <2>1, <4>2 DEF OwnWritesBefore, OtherReadsBefore
            <4> QED
                BY <2>1, <4>1, <4>2
        <3>2. /\ LastOf(OwnWritesBefore(x, Tid(r), r))' = LastOf(OwnWritesBefore(x, t, n))
              /\ LastOf(OtherReadsBefore(x, Tid(r), r, Value(r)))' =
                     LastOf(OtherReadsBefore(x, t, n, val))
            BY <3>1 DEF LastOf
        <3> QED
            BY <1>3, <1>5, <1>6, <1>8, <1>9, <2>1, <3>2 DEF Put
    <2>2. CASE r # n
        <3>1. r \in EID /\ Type(r) = "Read" /\ Target(r) = x
            BY <1>3, <1>10, <2>2
        <3>2. Tid(r) \in Threads /\ Tid(r)' = Tid(r) /\ Value(r)' = Value(r)
            BY <1>3, <3>1 DEF EventsWellFormed, WellFormed
        <3>3. /\ OwnWritesBefore(x, Tid(r), r)' = OwnWritesBefore(x, Tid(r), r)
              /\ OtherReadsBefore(x, Tid(r), r, Value(r))' = OtherReadsBefore(x, Tid(r), r, Value(r))
            <4> DEFINE u == Tid(r)
                       z == Value(r)
            <4>1. /\ \A i : i = u => OwnWritesBefore(x, i, r)' = OwnWritesBefore(x, i, r)
                  /\ \A i, k : i = u => OtherReadsBefore(x, i, r, k)' = OtherReadsBefore(x, i, r, k)
                BY <1>7, <3>2
            <4>2. ASSUME NEW i, i = u, NEW k, k = z
                  PROVE  /\ OwnWritesBefore(x, Tid(r), r)' = OwnWritesBefore(x, i, r)'
                         /\ OtherReadsBefore(x, Tid(r), r, Value(r))' = OtherReadsBefore(x, i, r, k)'
                BY <3>2, <4>2 DEF OwnWritesBefore, OtherReadsBefore
            <4> QED
                BY <4>1, <4>2
        <3>4. /\ LastOf(OwnWritesBefore(x, Tid(r), r))' = LastOf(OwnWritesBefore(x, Tid(r), r))
              /\ LastOf(OtherReadsBefore(x, Tid(r), r, Value(r)))' =
                     LastOf(OtherReadsBefore(x, Tid(r), r, Value(r)))
            BY <3>3 DEF LastOf
        <3>5. CASE mine = <<>>
            BY <1>5, <1>6, <2>2, <3>1, <3>4, <3>5 DEF Put
        <3>6. CASE mine # <<>>
            BY <1>5, <1>6, <2>2, <3>1, <3>4, <3>6 DEF Put
        <3> QED
            BY <3>5, <3>6
    <2> QED
        BY <2>1, <2>2
<1>11. DOMAIN w.read_to_prev_write_in_thread \subseteq EID'
    BY <1>3, <1>5, <1>6 DEF Put
<1> QED
    BY <1>4, <1>5, <1>6, <1>7, <1>10, <1>11 DEF VariableMapsOK

\* A write joins the writes of its thread; no earlier read takes notice.
LEMMA VariableMapsWrite ==
    ASSUME IInv, EventsWellFormed, NEW t \in Threads, NEW x \in Vars, NEW val \in Values,
           Write(t, x, val), VariableMapsOK(x)
    PROVE  VariableMapsOK(x)'
<1> DEFINE v == var_id_to_variable[x]
           w == VariableAddWrite(v, NextId, t)
           n == NextId
           prev == v.read_to_prev_write_in_thread
           diff == v.read_to_prev_diff_read_in_thread
           own == v.tid_to_write_events
           own2 == w.tid_to_write_events
<1>1. AddEvent("Write", t, x, val)
    BY DEF Write
<1>2. /\ "Write" \in EventTypes /\ val \in Values \cup {NoValue}
      /\ x \in Threads \cup Vars \cup Locks \cup {0}
    BY DEF EventTypes
<1>3. /\ EID' = EID \cup {n} /\ n \notin EID /\ n \in Nat /\ EID \subseteq Nat
      /\ \A e \in EID : /\ Tid(e)' = Tid(e) /\ Type(e)' = Type(e) /\ e < n
                        /\ Target(e)' = Target(e) /\ Value(e)' = Value(e)
      /\ \A e : e = n => Type(e)' = "Write"
    BY <1>1, <1>2, FieldsKept DEF EID
<1>4. var_id_to_variable'[x] = w /\ IsVariable(v)
    BY DEF Write, IInv, MapsTotal
<1>5. /\ own2 = [own EXCEPT ![t] = Append(@, n)]
      /\ w.read_to_prev_write_in_thread = prev /\ w.read_to_prev_diff_read_in_thread = diff
    BY <1>4, WriteFields
<1>6. /\ own \in [Threads -> Seq(Nat)]
      /\ \A u \in Threads : Increasing(own[u]) /\ RangeOf(own[u]) = OwnWrites(x, u)
      /\ DOMAIN prev \subseteq EID
      /\ \A r \in EID : Type(r) = "Read" /\ Target(r) = x =>
             /\ (IF r \in DOMAIN prev THEN prev[r] ELSE NullEvent)
                    = LastOf(OwnWritesBefore(x, Tid(r), r))
             /\ r \in DOMAIN diff
             /\ diff[r] = LastOf(OtherReadsBefore(x, Tid(r), r, Value(r)))
    BY DEF VariableMapsOK
<1>7. \A u \in Threads :
          /\ OwnWrites(x, u)' = IF u = t THEN OwnWrites(x, u) \cup {n} ELSE OwnWrites(x, u)
          /\ \A e \in EID' : /\ OwnWritesBefore(x, u, e)' = OwnWritesBefore(x, u, e)
                             /\ \A z : OtherReadsBefore(x, u, e, z)' = OtherReadsBefore(x, u, e, z)
    BY <1>1, <1>2, VariableSets
<1>8. \A u \in Threads : OwnWrites(x, u) \subseteq EID
    BY DEF OwnWrites
<1> HIDE DEF v, w, prev, diff, own, own2, n
<1>9. /\ own2 \in [Threads -> Seq(Nat)]
      /\ \A u \in Threads : own2[u] = IF u = t THEN Append(own[u], n) ELSE own[u]
    BY <1>3, <1>5, <1>6
<1>10. ASSUME NEW u \in Threads
       PROVE  Increasing(own2[u]) /\ RangeOf(own2[u]) = OwnWrites(x, u)'
    <2>1. CASE u = t
        <3>1. own2[u] = Append(own[u], n) /\ own[u] \in Seq(Nat)
            BY <1>6, <1>9, <2>1
        <3>2. \A d \in RangeOf(own[u]) : d < n
            BY <1>3, <1>6, <1>8
        <3>3. /\ RangeOf(Append(own[u], n)) = RangeOf(own[u]) \cup {n}
              /\ Increasing(Append(own[u], n))
            BY <1>3, <1>6, <3>1, <3>2, AppendRange
        <3> QED
            BY <1>6, <1>7, <2>1, <3>1, <3>3
    <2>2. CASE u # t
        BY <1>6, <1>7, <1>9, <2>2
    <2> QED
        BY <2>1, <2>2
<1>11. ASSUME NEW r \in EID', Type(r)' = "Read", Target(r)' = x
       PROVE  /\ (IF r \in DOMAIN prev THEN prev[r] ELSE NullEvent)
                     = LastOf(OwnWritesBefore(x, Tid(r), r))'
              /\ r \in DOMAIN diff
              /\ diff[r] = LastOf(OtherReadsBefore(x, Tid(r), r, Value(r)))'
    <2>1. r \in EID /\ Type(r) = "Read" /\ Target(r) = x
        BY <1>3, <1>11
    <2>2. Tid(r) \in Threads /\ Tid(r)' = Tid(r) /\ Value(r)' = Value(r)
        BY <1>3, <2>1 DEF EventsWellFormed, WellFormed
    <2> DEFINE u == Tid(r)
               z == Value(r)
    <2>3. /\ \A i : i = u => OwnWritesBefore(x, i, r)' = OwnWritesBefore(x, i, r)
          /\ \A i, k : i = u => OtherReadsBefore(x, i, r, k)' = OtherReadsBefore(x, i, r, k)
        BY <1>7, <2>2
    <2>4. ASSUME NEW i, i = u, NEW k, k = z
          PROVE  /\ OwnWritesBefore(x, Tid(r), r)' = OwnWritesBefore(x, i, r)'
                 /\ OtherReadsBefore(x, Tid(r), r, Value(r))' = OtherReadsBefore(x, i, r, k)'
        BY <2>2, <2>4 DEF OwnWritesBefore, OtherReadsBefore
    <2>5. /\ OwnWritesBefore(x, Tid(r), r)' = OwnWritesBefore(x, u, r)
          /\ OtherReadsBefore(x, Tid(r), r, Value(r))' = OtherReadsBefore(x, u, r, z)
        BY <2>3, <2>4
    <2>6. /\ LastOf(OwnWritesBefore(x, Tid(r), r))' = LastOf(OwnWritesBefore(x, Tid(r), r))
          /\ LastOf(OtherReadsBefore(x, Tid(r), r, Value(r)))' =
                 LastOf(OtherReadsBefore(x, Tid(r), r, Value(r)))
        BY <2>5 DEF LastOf
    <2> QED
        BY <1>6, <2>1, <2>6
<1>12. DOMAIN prev \subseteq EID'
    BY <1>3, <1>6
<1>13. /\ var_id_to_variable'[x].tid_to_write_events = own2
       /\ var_id_to_variable'[x].read_to_prev_write_in_thread = prev
       /\ var_id_to_variable'[x].read_to_prev_diff_read_in_thread = diff
    BY <1>4, <1>5 DEF own2
<1> QED
    BY <1>9, <1>10, <1>11, <1>12, <1>13 DEF VariableMapsOK

-----------------------------------------------------------------------------
(* The first access of a variable, and its value.                          *)

IsAccess(e, x) == Type(e) \in {"Read", "Write"} /\ Target(e) = x

\* An event that is no access of x.
LEMMA HistoryUntouched ==
    ASSUME IInv,
           NEW type \in EventTypes, NEW t \in Threads,
           NEW target \in Threads \cup Vars \cup Locks \cup {0},
           NEW value \in Values \cup {NoValue},
           AddEvent(type, t, target, value),
           NEW x \in Vars, FirstOK(x), MemoryOK(x),
           type \notin {"Read", "Write"} \/ target # x,
           var_id_to_variable'[x] = var_id_to_variable[x], mem'[x] = mem[x]
    PROVE  FirstOK(x)' /\ MemoryOK(x)'
<1>1. /\ EID' = EID \cup {NextId} /\ NextId \notin EID
      /\ \A e \in EID : /\ Tid(e)' = Tid(e) /\ Type(e)' = Type(e)
                        /\ Target(e)' = Target(e) /\ Value(e)' = Value(e)
      /\ \A e : e = NextId => Type(e)' = type /\ Target(e)' = target
    BY FieldsKept
<1>2. WritesOf(x)' = WritesOf(x)
    BY AccessSets
<1>3. \A e \in EID' : Type(e)' \in {"Read", "Write"} /\ Target(e)' = x =>
          e \in EID /\ Type(e) \in {"Read", "Write"} /\ Target(e) = x
    BY <1>1
<1> DEFINE f == var_id_to_variable[x].first_read
           g == var_id_to_variable[x].first_write
<1>4. FirstOK(x)'
    <2>1. /\ f # NullEvent => /\ f \in EID /\ Type(f) = "Read" /\ Target(f) = x
                              /\ \A d \in EID : IsAccess(d, x) => f <= d
          /\ g # NullEvent => g \in WritesOf(x) /\ \A d \in EID : IsAccess(d, x) => g <= d
          /\ Untouched(var_id_to_variable[x]) => \A d \in EID : ~IsAccess(d, x)
        BY DEF FirstOK, IsAccess
    <2>2. /\ var_id_to_variable'[x].first_read = f /\ var_id_to_variable'[x].first_write = g
          /\ Untouched(var_id_to_variable'[x]) <=> Untouched(var_id_to_variable[x])
        OBVIOUS
    <2>3. f \in EID => f \in EID' /\ Type(f)' = Type(f) /\ Target(f)' = Target(f)
        BY <1>1 DEF Type, Target
    <2>4. ASSUME NEW h, h = f, h # NullEvent
          PROVE  h \in EID' /\ Type(h)' = "Read" /\ Target(h)' = x
        BY <1>1, <2>1, <2>4
    <2> HIDE DEF f, g
    <2>5. \A d \in EID' : IsAccess(d, x)' => d \in EID /\ IsAccess(d, x)
        BY <1>3 DEF IsAccess
    <2>6. /\ f # NullEvent => \A d \in EID' : IsAccess(d, x)' => f <= d
          /\ g # NullEvent => g \in WritesOf(x)' /\ \A d \in EID' : IsAccess(d, x)' => g <= d
          /\ Untouched(var_id_to_variable[x]) => \A d \in EID' : ~IsAccess(d, x)'
        BY <1>1, <1>2, <2>1, <2>5
    <2> QED
        BY <2>2, <2>4, <2>6 DEF FirstOK, IsAccess, Type, Target
<1>5. MemoryOK(x)'
    <2>1. \A e \in EID' : IsAccess(e, x)' => e \in EID /\ IsAccess(e, x) /\ Value(e)' = Value(e)
        BY <1>1 DEF IsAccess
    <2>2. \A e \in EID' : Type(e)' = "Read" /\ Target(e)' = x => Type(e) = "Read" /\ IsAccess(e, x)'
        BY <1>1 DEF IsAccess
    <2> QED
        BY <1>2, <2>1, <2>2 DEF MemoryOK, IsAccess
<1> QED
    BY <1>4, <1>5

\* Which accesses a write leaves as the first ones.
LEMMA WriteFirst ==
    ASSUME NEW v, IsVariable(v), NEW e, NEW t \in Threads
    PROVE  /\ VariableAddWrite(v, e, t).first_write = IF Untouched(v) THEN e ELSE v.first_write
           /\ VariableAddWrite(v, e, t).first_read = v.first_read
<1> DEFINE first == IF Untouched(v) THEN e ELSE v.first_write
           mine == [v.tid_to_write_events EXCEPT ![t] = Append(@, e)]
           all == Append(v.writes, e)
           w == VariableAddWrite(v, e, t)
<1>1. w = [v EXCEPT !.first_write = first, !.writes = all, !.tid_to_write_events = mine]
    BY DEF VariableAddWrite, IsVariable
<1> HIDE DEF w, first, mine, all
<1>2. w.first_write = first /\ w.first_read = v.first_read
    BY <1>1 DEF IsVariable
<1> QED
    BY <1>2 DEF w, first

\* An access of x is its first one only when there was none.
LEMMA FirstKept ==
    ASSUME IInv, NEW t \in Threads, NEW x \in Vars, NEW val \in Values,
           Read(t, x, val) \/ Write(t, x, val), FirstOK(x)
    PROVE  FirstOK(x)'
<1> DEFINE v == var_id_to_variable[x]
           f == v.first_read
           g == v.first_write
           n == NextId
<1>1. PICK type \in {"Read", "Write"} :
          AddEvent(type, t, x, val) /\ type = IF Read(t, x, val) THEN "Read" ELSE "Write"
    <2>1. CASE Read(t, x, val)
        BY <2>1 DEF Read
    <2>2. CASE ~Read(t, x, val)
        BY <2>2 DEF Write
    <2> QED
        BY <2>1, <2>2
<1>2. /\ type \in EventTypes /\ val \in Values \cup {NoValue}
      /\ x \in Threads \cup Vars \cup Locks \cup {0}
    BY DEF EventTypes
<1>3. /\ EID' = EID \cup {n} /\ n \notin EID /\ n \in Nat \ {0} /\ EID \subseteq Nat \ {0}
      /\ \A e \in EID : /\ Type(e)' = Type(e) /\ Target(e)' = Target(e) /\ e < n
      /\ \A e : e = n => Type(e)' = type /\ Target(e)' = x
    BY <1>1, <1>2, FieldsKept DEF EID
<1>4. WritesOf(x)' = IF type = "Write" THEN WritesOf(x) \cup {n} ELSE WritesOf(x)
    BY <1>1, <1>2, AccessSets
<1>5. /\ f # NullEvent => /\ f \in EID /\ Type(f) = "Read" /\ Target(f) = x
                          /\ \A d \in EID : IsAccess(d, x) => f <= d
      /\ g # NullEvent => g \in WritesOf(x) /\ \A d \in EID : IsAccess(d, x) => g <= d
      /\ Untouched(v) => \A d \in EID : ~IsAccess(d, x)
    BY DEF FirstOK, IsAccess
<1> DEFINE w == var_id_to_variable'[x]
<1>6. /\ w.first_read = IF type = "Read" /\ Untouched(v) THEN n ELSE f
      /\ w.first_write = IF type = "Write" /\ Untouched(v) THEN n ELSE g
    <2>1. IsVariable(v) /\ DOMAIN var_id_to_variable = Vars
        BY DEF IInv, MapsTotal
    <2>2. CASE Read(t, x, val)
        <3>1. w = VariableAddRead(v, n, t, val) /\ type = "Read"
            BY <1>1, <2>1, <2>2 DEF Read
        <3>2. /\ VariableAddRead(v, n, t, val).first_read = IF Untouched(v) THEN n ELSE f
              /\ VariableAddRead(v, n, t, val).first_write = g
            BY <2>1, ReadFields
        <3> QED
            BY <3>1, <3>2
    <2>3. CASE ~Read(t, x, val)
        <3>1. w = VariableAddWrite(v, n, t) /\ type = "Write"
            BY <1>1, <2>1, <2>3 DEF Write
        <3>2. /\ VariableAddWrite(v, n, t).first_write = IF Untouched(v) THEN n ELSE g
              /\ VariableAddWrite(v, n, t).first_read = f
            BY <2>1, WriteFirst
        <3> QED
            BY <3>1, <3>2
    <2> QED
        BY <2>2, <2>3
<1>7. \A d \in EID : IsAccess(d, x)' <=> IsAccess(d, x)
    BY <1>3 DEF IsAccess
<1>8. \A d : d = n => IsAccess(d, x)'
    BY <1>1, <1>3 DEF IsAccess
<1>9. Untouched(v) <=> f = NullEvent /\ g = NullEvent
    BY DEF Untouched
<1> HIDE DEF v, f, g, n, w
<1>10. ASSUME NEW h, h = w.first_read, h # NullEvent
       PROVE  /\ h \in EID' /\ Type(h)' = "Read" /\ Target(h)' = x
              /\ \A d \in EID' : IsAccess(d, x)' => h <= d
    <2>1. CASE h = n /\ type = "Read" /\ Untouched(v)
        BY <1>3, <1>5, <1>7, <2>1
    <2>2. CASE h = f
        <3>1. /\ h \in EID /\ Type(h) = "Read" /\ Target(h) = x
              /\ \A d \in EID : IsAccess(d, x) => h <= d
            BY <1>5, <1>10, <2>2
        <3>2. \A d \in EID' : IsAccess(d, x)' => h <= d
            BY <1>3, <1>7, <3>1
        <3> QED
            BY <1>3, <3>1, <3>2
    <2> QED
        BY <1>6, <1>10, <2>1, <2>2
<1>11. ASSUME NEW h, h = w.first_write, h # NullEvent
       PROVE  /\ h \in WritesOf(x)'
              /\ \A d \in EID' : IsAccess(d, x)' => h <= d
    <2>1. CASE h = n /\ type = "Write" /\ Untouched(v)
        BY <1>3, <1>4, <1>5, <1>7, <2>1
    <2>2. CASE h = g
        <3>1. h \in WritesOf(x) /\ \A d \in EID : IsAccess(d, x) => h <= d
            BY <1>5, <1>11, <2>2
        <3>2. h \in EID
            BY <3>1 DEF WritesOf
        <3>3. \A d \in EID' : IsAccess(d, x)' => h <= d
            BY <1>3, <1>7, <3>1, <3>2
        <3> QED
            BY <1>4, <3>1, <3>3
    <2> QED
        BY <1>6, <1>11, <2>1, <2>2
<1>12. ~Untouched(w)
    BY <1>1, <1>3, <1>6, <1>9 DEF Untouched, NullEvent
<1> QED
    BY <1>10, <1>11, <1>12 DEF FirstOK, IsAccess, Type, Target, w

\* A read finds what memory holds, a write replaces it.
LEMMA MemoryKept ==
    ASSUME IInv, EventsWellFormed, NEW t \in Threads, NEW x \in Vars, NEW val \in Values,
           Read(t, x, val) \/ Write(t, x, val), MemoryOK(x)
    PROVE  MemoryOK(x)'
<1> DEFINE n == NextId
<1>1. PICK type \in {"Read", "Write"} :
          /\ AddEvent(type, t, x, val) /\ mem'[x] = val
          /\ type = "Read" => mem[x] \in {val, NoValue}
    <2>1. mem \in [Vars -> Values \cup {NoValue}]
        BY DEF IInv, TypeOK, ProgramTypeOK
    <2>2. CASE Read(t, x, val)
        BY <2>1, <2>2 DEF Read, DoRead
    <2>3. CASE Write(t, x, val)
        BY <2>1, <2>3 DEF Write, DoWrite
    <2> QED
        BY <2>2, <2>3
<1>2. /\ type \in EventTypes /\ val \in Values \cup {NoValue}
      /\ x \in Threads \cup Vars \cup Locks \cup {0}
    BY DEF EventTypes
<1>3. /\ EID' = EID \cup {n} /\ n \notin EID /\ n \in Nat \ {0} /\ EID \subseteq Nat \ {0}
      /\ \A e \in EID : /\ Type(e)' = Type(e) /\ Target(e)' = Target(e) /\ e < n
                        /\ Value(e)' = Value(e)
      /\ \A e : e = n => Type(e)' = type /\ Target(e)' = x /\ Value(e)' = val
    BY <1>1, <1>2, FieldsKept DEF EID
<1>4. /\ WritesOf(x)' = IF type = "Write" THEN WritesOf(x) \cup {n} ELSE WritesOf(x)
      /\ WritesOf(x) \subseteq EID
    BY <1>1, <1>2, AccessSets DEF WritesOf
<1>5. /\ \A d \in EID : IsAccess(d, x) /\ (\A w \in WritesOf(x) : w <= d) => Value(d) = mem[x]
      /\ \A d, r \in EID :
             /\ IsAccess(d, x) /\ d < r /\ Type(r) = "Read" /\ Target(r) = x
             /\ \A w \in WritesOf(x) : w <= d \/ r < w
             => Value(d) = Value(r)
    BY DEF MemoryOK, IsAccess
<1>6. \A d \in EID : (IsAccess(d, x)' <=> IsAccess(d, x)) /\ (IsAccess(d, x) => Value(d) \in Values)
    BY <1>3 DEF IsAccess, EventsWellFormed, WellFormed
<1> HIDE DEF n
<1>7. ASSUME NEW d \in EID', IsAccess(d, x)', \A w \in WritesOf(x)' : w <= d
      PROVE  Value(d)' = val
    <2>1. CASE d = n
        BY <1>3, <2>1
    <2>2. CASE d # n
        <3>1. d \in EID /\ d < n
            BY <1>3, <2>2
        <3>2. type = "Read"
            BY <1>1, <1>3, <1>4, <1>7, <3>1
        <3>3. Value(d) = mem[x] /\ Value(d) \in Values
            BY <1>4, <1>5, <1>6, <1>7, <3>1, <3>2
        <3>4. mem[x] = val
            BY <1>1, <3>2, <3>3, ProgramAssumption
        <3> QED
            BY <1>3, <3>1, <3>3, <3>4
    <2> QED
        BY <2>1, <2>2
<1>8. ASSUME NEW d \in EID', NEW r \in EID', IsAccess(d, x)', d < r, Type(r)' = "Read",
             Target(r)' = x, \A w \in WritesOf(x)' : w <= d \/ r < w
      PROVE  Value(d)' = Value(r)'
    <2>1. d \in EID
        BY <1>3, <1>8
    <2>2. CASE r = n
        <3>1. type = "Read" /\ Value(r)' = val
            BY <1>3, <1>8, <2>2
        <3>2. ASSUME NEW w \in WritesOf(x)' PROVE w <= d
            <4>1. w \in EID /\ w < n /\ w \in Nat /\ n \in Nat
                BY <1>3, <1>4, <3>1
            <4>2. w <= d \/ n < w
                BY <1>8, <2>2
            <4> QED
                BY <4>1, <4>2
        <3> QED
            BY <1>7, <1>8, <3>1, <3>2
    <2>3. CASE r # n
        <3>1. r \in EID /\ Type(r) = "Read" /\ Target(r) = x
            BY <1>3, <1>8, <2>3
        <3>2. \A w \in WritesOf(x) : w <= d \/ r < w
            BY <1>4, <1>8
        <3> QED
            BY <1>3, <1>5, <1>6, <1>8, <2>1, <3>1, <3>2
    <2> QED
        BY <2>2, <2>3
<1> QED
    BY <1>1, <1>7, <1>8 DEF MemoryOK, IsAccess

\* What the Thread and Variable objects know of the trace so far.
VariableOK(x) == VariableMapsOK(x) /\ FirstOK(x) /\ MemoryOK(x)
HistoryInv ==
    /\ \A t \in Threads : ThreadMapsOK(t)
    /\ \A x \in Vars : VariableOK(x)

LEMMA InitHistory == TraceInit => HistoryInv
<1> SUFFICES ASSUME TraceInit PROVE HistoryInv
    OBVIOUS
<1>1. EID = {} /\ Len(all_events) = 0 /\ NextId = 1
    BY DEF TraceInit, EID, NextId
<1>2. ASSUME NEW t \in Threads PROVE ThreadMapsOK(t)
    <2>1. ReadsBefore(t, NextId) = {} /\ OpenAcquires(t, Len(all_events)) = {}
        BY <1>1 DEF ReadsBefore, OpenAcquires
    <2>2. thread_id_to_thread[t].prev_read = NullEvent /\ thread_id_to_thread[t].prev_acq = NullEvent
        BY DEF TraceInit, NewThread
    <2> QED
        BY <1>1, <2>1, <2>2, LastOfNone DEF ThreadMapsOK
<1>3. ASSUME NEW x \in Vars PROVE VariableOK(x)
    <2>1. /\ var_id_to_variable[x].first_read = NullEvent
          /\ var_id_to_variable[x].first_write = NullEvent
          /\ var_id_to_variable[x].tid_to_write_events = [t \in Threads |-> <<>>]
          /\ var_id_to_variable[x].read_to_prev_write_in_thread = EmptyMap
        BY DEF TraceInit, NewVariable
    <2>2. /\ <<>> \in Seq(Nat) /\ Increasing(<<>>) /\ RangeOf(<<>>) = {}
          /\ DOMAIN EmptyMap = {}
        BY DEF Increasing, RangeOf, EmptyMap
    <2>3. /\ [t \in Threads |-> <<>>] \in [Threads -> Seq(Nat)]
          /\ \A t \in Threads : [u \in Threads |-> <<>>][t] = <<>> /\ OwnWrites(x, t) = {}
        BY <1>1, <2>2 DEF OwnWrites
    <2>4. VariableMapsOK(x)
        BY <1>1, <2>1, <2>2, <2>3 DEF VariableMapsOK
    <2>5. FirstOK(x) /\ MemoryOK(x)
        BY <1>1, <2>1 DEF FirstOK, MemoryOK
    <2> QED
        BY <2>4, <2>5 DEF VariableOK
<1> QED
    BY <1>2, <1>3 DEF HistoryInv

LEMMA SyncHistory ==
    ASSUME IInv, EventsWellFormed, HistoryInv,
           NEW type \in EventTypes \ {"Read", "Write"}, NEW t \in Threads,
           NEW target \in Threads \cup Vars \cup Locks \cup {0},
           AddEvent(type, t, target, NoValue), UNCHANGED <<var_id_to_variable, mem>>
    PROVE  HistoryInv'
<1>1. NoValue \in Values \cup {NoValue} /\ type \in EventTypes /\ type \notin {"Read", "Write"}
    OBVIOUS
<1>2. ASSUME NEW u \in Threads PROVE ThreadMapsOK(u)'
    BY <1>1, ThreadMapsKept DEF HistoryInv
<1>3. ASSUME NEW x \in Vars PROVE VariableOK(x)'
    <2>1. VariableMapsOK(x) /\ FirstOK(x) /\ MemoryOK(x)
        BY DEF HistoryInv, VariableOK
    <2>2. VariableMapsOK(x)'
        BY <1>1, <2>1, VariableMapsUntouched
    <2>3. FirstOK(x)' /\ MemoryOK(x)'
        BY <1>1, <2>1, HistoryUntouched
    <2> QED
        BY <2>2, <2>3 DEF VariableOK
<1> QED
    BY <1>2, <1>3 DEF HistoryInv

LEMMA AccessHistory ==
    ASSUME IInv, EventsWellFormed, AccessInv, HistoryInv,
           NEW t \in Threads, NEW x \in Vars, NEW val \in Values,
           Read(t, x, val) \/ Write(t, x, val)
    PROVE  HistoryInv'
<1>1. PICK type \in {"Read", "Write"} : AddEvent(type, t, x, val)
    BY DEF Read, Write
<1>2. /\ type \in EventTypes /\ val \in Values \cup {NoValue}
      /\ x \in Threads \cup Vars \cup Locks \cup {0}
    BY DEF EventTypes
<1>3. \A u \in Threads : ThreadMapsOK(u)
    BY DEF HistoryInv
<1>4. ASSUME NEW u \in Threads PROVE ThreadMapsOK(u)'
    BY <1>1, <1>2, <1>3, ThreadMapsKept
<1>5. ASSUME NEW y \in Vars PROVE VariableOK(y)'
    <2>1. VariableMapsOK(y) /\ FirstOK(y) /\ MemoryOK(y) /\ AccessesOK(y)
        BY DEF HistoryInv, VariableOK, AccessInv
    <2>2. CASE y = x
        <3>1. VariableMapsOK(x)'
            BY <2>1, <2>2, VariableMapsRead, VariableMapsWrite
        <3>2. FirstOK(x)' /\ MemoryOK(x)'
            BY <2>1, <2>2, FirstKept, MemoryKept
        <3> QED
            BY <2>2, <3>1, <3>2 DEF VariableOK
    <2>3. CASE y # x
        <3>1. /\ DOMAIN var_id_to_variable = Vars
              /\ mem \in [Vars -> Values \cup {NoValue}]
            BY DEF IInv, MapsTotal, TypeOK, ProgramTypeOK
        <3>2. var_id_to_variable'[y] = var_id_to_variable[y] /\ mem'[y] = mem[y]
            BY <2>3, <3>1 DEF Read, Write, DoRead, DoWrite
        <3>3. VariableMapsOK(y)'
            BY <1>1, <1>2, <2>1, <2>3, <3>2, VariableMapsUntouched
        <3>4. FirstOK(y)' /\ MemoryOK(y)'
            BY <1>1, <1>2, <2>1, <2>3, <3>2, HistoryUntouched
        <3> QED
            BY <3>3, <3>4 DEF VariableOK
    <2> QED
        BY <2>2, <2>3
<1> QED
    BY <1>4, <1>5 DEF HistoryInv

LEMMA KeptHistory == HistoryInv /\ UNCHANGED traceMaps => HistoryInv'
<1> SUFFICES ASSUME HistoryInv, UNCHANGED traceMaps PROVE HistoryInv'
    OBVIOUS
<1>1. UNCHANGED <<all_events, thread_id_to_thread, var_id_to_variable, mem>>
    BY DEF traceMaps, mapVars, programVars
<1>2. EID' = EID /\ NextId' = NextId
    BY <1>1 DEF EID, NextId
<1>3. ASSUME NEW t \in Threads PROVE ThreadMapsOK(t)'
    BY <1>1, <1>2 DEF HistoryInv, ThreadMapsOK, ReadsBefore, OpenAcquires, LastOf, Tid, Type
<1>4. ASSUME NEW x \in Vars PROVE VariableOK(x)'
    <2>1. VariableMapsOK(x) /\ FirstOK(x) /\ MemoryOK(x)
        BY DEF HistoryInv, VariableOK
    <2>2. VariableMapsOK(x)'
        BY <1>1, <1>2, <2>1 DEF VariableMapsOK, OwnWrites, OwnWritesBefore, OtherReadsBefore,
            LastOf, Tid, Type, Target, Value
    <2>3. FirstOK(x)'
        BY <1>1, <1>2, <2>1 DEF FirstOK, Untouched, WritesOf, Type, Target
    <2>4. MemoryOK(x)'
        BY <1>1, <1>2, <2>1 DEF MemoryOK, WritesOf, Type, Target, Value
    <2> QED
        BY <2>2, <2>3, <2>4 DEF VariableOK
<1> QED
    BY <1>3, <1>4 DEF HistoryInv

LEMMA NextHistory ==
    IInv /\ EventsWellFormed /\ AccessInv /\ HistoryInv /\ [TraceNext]_traceVars => HistoryInv'
<1> SUFFICES ASSUME IInv, EventsWellFormed, AccessInv, HistoryInv, [TraceNext]_traceVars
             PROVE  HistoryInv'
    OBVIOUS
<1>1. ASSUME NEW t \in Threads, NEW u \in Threads,
             Fork(t, u) \/ Begin(t) \/ End(t) \/ Join(t, u)
      PROVE  HistoryInv'
    <2>1. PICK type \in {"Fork", "Begin", "End", "Join"}, target \in {0, u} :
              AddEvent(type, t, target, NoValue)
        BY <1>1 DEF Fork, Begin, End, Join
    <2>2. /\ type \in EventTypes \ {"Read", "Write"}
          /\ target \in Threads \cup Vars \cup Locks \cup {0}
        BY DEF EventTypes
    <2>3. UNCHANGED <<var_id_to_variable, mem>>
        BY <1>1 DEF Fork, Begin, End, Join, DoFork, DoBegin, DoEnd, DoJoin, Moves
    <2> QED
        BY <2>1, <2>2, <2>3, SyncHistory
<1>2. ASSUME NEW t \in Threads, NEW l \in Locks, Acquire(t, l) \/ Release(t, l)
      PROVE  HistoryInv'
    <2>1. PICK type \in {"Acquire", "Release"} : AddEvent(type, t, l, NoValue)
        BY <1>2 DEF Acquire, Release
    <2>2. /\ type \in EventTypes \ {"Read", "Write"}
          /\ l \in Threads \cup Vars \cup Locks \cup {0}
        BY DEF EventTypes
    <2>3. UNCHANGED <<var_id_to_variable, mem>>
        BY <1>2 DEF Acquire, Release, DoAcquire, DoRelease
    <2> QED
        BY <2>1, <2>2, <2>3, SyncHistory
<1>3. CASE Finish \/ UNCHANGED traceVars
    BY <1>3, KeptHistory DEF Finish, traceVars, traceMaps
<1> QED
    BY <1>1, <1>2, <1>3, AccessHistory DEF TraceNext

LEMMA HistoryExact == HistoryInv /\ EventsWellFormed => PrevMapsExact
<1> SUFFICES ASSUME HistoryInv, EventsWellFormed, NEW e \in EID
             PROVE  LET Mine(d) == Tid(d) = Tid(e)
                        SameVar(d) == Mine(d) /\ Target(d) = Target(e)
                        IsRead(d) == Mine(d) /\ Type(d) = "Read"
                        Held(d) == /\ Mine(d) /\ Type(d) = "Acquire"
                                   /\ \A r \in d .. e : Mine(r) => Type(r) # "Release"
                        IsWrite(d) == SameVar(d) /\ Type(d) = "Write"
                        IsDiffRead(d) == SameVar(d) /\ Type(d) = "Read" /\ Value(d) # Value(e)
                    IN /\ getPrevReadInThread(e) = Before(e, IsRead)
                       /\ getPrevAcq(e) = LastOf({d \in 1 .. e : Held(d)})
                       /\ Type(e) = "Read" =>
                              /\ getSameThreadSameVarPrevWrite(e) = Before(e, IsWrite)
                              /\ getPrevDiffReadInThread(e) = Before(e, IsDiffRead)
    BY DEF PrevMapsExact
<1>1. Tid(e) \in Threads /\ (Type(e) = "Read" => Target(e) \in Vars)
    BY DEF EventsWellFormed, WellFormed
<1>2. getPrevReadInThread(e) = LastOf(ReadsBefore(Tid(e), e))
    BY <1>1 DEF HistoryInv, ThreadMapsOK, getPrevReadInThread
<1>3. getPrevAcq(e) = LastOf(OpenAcquires(Tid(e), e))
    BY <1>1 DEF HistoryInv, ThreadMapsOK, getPrevAcq
<1>4. ASSUME Type(e) = "Read"
      PROVE  /\ getSameThreadSameVarPrevWrite(e) = LastOf(OwnWritesBefore(Target(e), Tid(e), e))
             /\ getPrevDiffReadInThread(e)
                    = LastOf(OtherReadsBefore(Target(e), Tid(e), e, Value(e)))
    <2>1. VariableMapsOK(Target(e))
        BY <1>1, <1>4 DEF HistoryInv, VariableOK
    <2> QED
        BY <1>1, <1>4, <2>1 DEF VariableMapsOK, getSameThreadSameVarPrevWrite,
            getPrevDiffReadInThread, VariableOf
<1>5. ReadsBefore(Tid(e), e) = {d \in 1 .. e - 1 : Tid(d) = Tid(e) /\ Type(d) = "Read"}
    BY DEF ReadsBefore
<1>6. OpenAcquires(Tid(e), e) =
          {d \in 1 .. e : /\ Tid(d) = Tid(e) /\ Type(d) = "Acquire"
                          /\ \A r \in d .. e : Tid(r) = Tid(e) => Type(r) # "Release"}
    BY DEF OpenAcquires
<1>7. OwnWritesBefore(Target(e), Tid(e), e) =
          {d \in 1 .. e - 1 : (Tid(d) = Tid(e) /\ Target(d) = Target(e)) /\ Type(d) = "Write"}
    BY DEF OwnWritesBefore
<1>8. OtherReadsBefore(Target(e), Tid(e), e, Value(e)) =
          {d \in 1 .. e - 1 : /\ Tid(d) = Tid(e) /\ Target(d) = Target(e)
                              /\ Type(d) = "Read" /\ Value(d) # Value(e)}
    BY DEF OtherReadsBefore
<1> QED
    BY <1>2, <1>3, <1>4, <1>5, <1>6, <1>7, <1>8 DEF Before

-----------------------------------------------------------------------------
(* The events of a thread.                                                 *)

\* Each thread lists its events, all of them, in trace order.
ThreadEvents(t) == {e \in EID : Tid(e) = t}
ThreadsOrdered ==
    \A t \in Threads : Increasing(EventsOf(t)) /\ RangeOf(EventsOf(t)) = ThreadEvents(t)

\* An added event is the last of its thread.
LEMMA ThreadsStayOrdered ==
    ASSUME IInv, ThreadsOrdered,
           NEW type \in EventTypes, NEW t \in Threads,
           NEW target \in Threads \cup Vars \cup Locks \cup {0},
           NEW value \in Values \cup {NoValue},
           AddEvent(type, t, target, value)
    PROVE  ThreadsOrdered' /\ \A u \in Threads : Len(EventsOf(u)) <= Len(EventsOf(u)')
<1>1. /\ NextId \in Nat /\ EID \subseteq Nat /\ EID' = EID \cup {NextId}
      /\ \A e \in EID : e < NextId /\ Tid(e)' = Tid(e)
      /\ \A e : e = NextId => Tid(e)' = t
    BY FieldsKept
<1>2. ASSUME NEW u \in Threads
      PROVE  EventsOf(u)' = IF u = t THEN Append(EventsOf(u), NextId) ELSE EventsOf(u)
    <2>1. thread_id_to_thread' = [thread_id_to_thread EXCEPT
              ![t] = ThreadAddEvent(thread_id_to_thread[t], NextId, type)]
        BY DEF AddEvent
    <2>2. ThreadAddEvent(thread_id_to_thread[t], NextId, type).events =
              Append(thread_id_to_thread[t].events, NextId)
        BY DEF ThreadAddEvent
    <2> QED
        BY <2>1, <2>2 DEF IInv, MapsTotal, EventsOf
<1>3. ASSUME NEW u \in Threads
      PROVE  ThreadEvents(u)' = IF u = t THEN ThreadEvents(u) \cup {NextId} ELSE ThreadEvents(u)
    <2> DEFINE n == NextId
    <2>1. ThreadEvents(u)' = {e \in EID' : Tid(e)' = u}
        BY DEF ThreadEvents
    <2>2. \A e \in EID' : Tid(e)' = u <=> (e \in EID /\ Tid(e) = u) \/ (e = n /\ u = t)
        BY <1>1
    <2> HIDE DEF n
    <2> QED
        BY <1>1, <2>1, <2>2 DEF ThreadEvents, n
<1>4. ASSUME NEW u \in Threads
      PROVE  /\ Increasing(EventsOf(u)') /\ RangeOf(EventsOf(u)') = ThreadEvents(u)'
             /\ Len(EventsOf(u)) <= Len(EventsOf(u)')
    <2>1. EventsOf(u) \in Seq(EID)
        BY DEF IInv, TypeOK, EventsOf
    <2>2. EventsOf(u) \in Seq(Nat)
        BY <1>1, <2>1, SeqGrows
    <2>3. Increasing(EventsOf(u)) /\ RangeOf(EventsOf(u)) = ThreadEvents(u)
        BY DEF ThreadsOrdered
    <2>4. \A d \in RangeOf(EventsOf(u)) : d < NextId
        BY <1>1, <2>3 DEF ThreadEvents
    <2>5. /\ Increasing(Append(EventsOf(u), NextId))
          /\ RangeOf(Append(EventsOf(u), NextId)) = RangeOf(EventsOf(u)) \cup {NextId}
        BY <1>1, <2>2, <2>3, <2>4, AppendRange
    <2>6. Len(EventsOf(u)) <= Len(Append(EventsOf(u), NextId)) /\ Len(EventsOf(u)) \in Nat
        BY <2>2
    <2>7. CASE u = t
        <3>1. /\ EventsOf(u)' = Append(EventsOf(u), NextId)
              /\ ThreadEvents(u)' = ThreadEvents(u) \cup {NextId}
            BY <1>2, <1>3, <2>7
        <3> QED
            BY <2>3, <2>5, <2>6, <3>1 DEF EventsOf, Increasing, RangeOf
    <2>8. CASE u # t
        <3>1. EventsOf(u)' = EventsOf(u) /\ ThreadEvents(u)' = ThreadEvents(u)
            BY <1>2, <1>3, <2>8
        <3> QED
            BY <2>3, <2>6, <3>1 DEF EventsOf, Increasing, RangeOf
    <2> QED
        BY <2>7, <2>8
<1> QED
    BY <1>4 DEF ThreadsOrdered, Increasing, RangeOf, EventsOf

LEMMA NextThreads == IInv /\ ThreadsOrdered /\ TraceNext => ThreadsOrdered'
<1> SUFFICES ASSUME IInv, ThreadsOrdered, TraceNext PROVE ThreadsOrdered'
    OBVIOUS
<1>1. CASE UNCHANGED traceMaps
    BY <1>1 DEF traceMaps, ThreadsOrdered, ThreadEvents, EventsOf, EID, Tid
<1>2. ASSUME NEW type \in EventTypes, NEW t \in Threads,
             NEW target \in Threads \cup Vars \cup Locks \cup {0},
             NEW value \in Values \cup {NoValue},
             AddEvent(type, t, target, value)
      PROVE  ThreadsOrdered'
    BY <1>2, ThreadsStayOrdered
<1> QED
    BY <1>1, <1>2, TraceSteps

LEMMA InitThreads == TraceInit => ThreadsOrdered
<1> SUFFICES ASSUME TraceInit, NEW t \in Threads
             PROVE  Increasing(EventsOf(t)) /\ RangeOf(EventsOf(t)) = ThreadEvents(t)
    BY DEF ThreadsOrdered
<1>1. EventsOf(t) = <<>> /\ EID = {}
    BY DEF TraceInit, NewThread, EventsOf, EID
<1>2. Increasing(<<>>) /\ RangeOf(<<>>) = {}
    BY DEF Increasing, RangeOf
<1> QED
    BY <1>1, <1>2 DEF ThreadEvents

-----------------------------------------------------------------------------
(* Everything that is known of the trace.                                  *)

TraceInv ==
    /\ IInv /\ EventsWellFormed /\ AccessInv /\ HistoryInv
    /\ PartnersInv /\ AcquiresRecorded /\ LifeInv

LEMMA InitTraceInv == TraceInit => TraceInv
BY InitIInv, InitWellFormed, InitAccessInv, InitHistory, InitPartners, InitAcquires, InitLife
   DEF TraceInv

LEMMA KeptTraceInv == TraceInv /\ UNCHANGED traceMaps => TraceInv'
<1> SUFFICES ASSUME TraceInv, UNCHANGED traceMaps PROVE TraceInv'
    OBVIOUS
<1>1. UNCHANGED <<all_events, var_id_to_variable>>
    BY DEF traceMaps, mapVars
<1>2. EventsWellFormed'
    BY <1>1 DEF TraceInv, EventsWellFormed, WellFormed, EID, Type, Target, Tid, Value
<1>3. AccessInv'
    BY <1>1 DEF TraceInv, AccessInv, AccessesOK, TargetsAreVars, WritesOf, ReadsOf, EID, Type,
        Target, Tid
<1> QED
    BY <1>2, <1>3, KeptIInv, KeptHistory, KeptPartners, KeptAcquires, KeptLife
       DEF TraceInv, traceMaps

LEMMA NextTraceInv == TraceInv /\ TraceNext => TraceInv'
BY NextIInv, TraceWellFormed, NextAccessInv, NextHistory, NextPartners, NextAcquires, NextLife
   DEF TraceInv

\* The maps of every trace answer each query with what a search of the trace
\* would find.
THEOREM PrevMapsTheorem == TraceSpec => []PrevMapsExact
<1>1. TraceInv /\ UNCHANGED traceVars => TraceInv'
    BY KeptTraceInv DEF traceVars, traceMaps
<1>2. TraceInv => PrevMapsExact
    BY HistoryExact DEF TraceInv
<1> QED
    BY InitTraceInv, NextTraceInv, <1>1, <1>2, PTL DEF TraceSpec
=============================================================================
