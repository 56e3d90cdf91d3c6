------------------------------- MODULE Trace --------------------------------
(***************************************************************************)
(* Trace::createTrace: one pass over the raw events that numbers them and  *)
(* files each one with its thread (Thread::addEvent), its variable         *)
(* (Variable::addEvent) and, for a synchronisation event, with the lock    *)
(* regions and the fork/begin and end/join pairs.  One action per case of  *)
(* the switch.  An Event object is represented by its identifier: objects  *)
(* compare by it, all_events gives its fields, and NullEvent is Event().   *)
(***************************************************************************)
EXTENDS TracedProgram, Sequences, FiniteSets

CONSTANT MaxEvents   \* bound: the length of a trace

ASSUME MaxEventsAssumption == MaxEvents \in Nat

VARIABLES
    pc,                       \* "trace" while events are read
    all_events,               \* the events, in the order of the trace
    thread_id_to_thread,      \* a Thread object per thread
    var_id_to_variable,       \* a Variable object per variable
    lock_id_to_lock_region,   \* the closed regions of each lock
    fork_begin_pairs, end_join_pairs,
    forks, ends, last_acquire \* createTrace's auxiliary maps

mapVars == <<var_id_to_variable, lock_id_to_lock_region, fork_begin_pairs,
             end_join_pairs, forks, ends, last_acquire>>
traceVars == <<programVars, pc, all_events, thread_id_to_thread, mapVars>>

EventTypes == {"Fork", "Begin", "End", "Join", "Acquire", "Release", "Read", "Write"}
NullEvent == 0
EID == 1 .. Len(all_events)

\* m[key] = value on a map that may lack the key.
Put(m, key, value) ==
    [x \in DOMAIN m \cup {key} |-> IF x = key THEN value ELSE m[x]]

EmptyMap == [x \in {} |-> NullEvent]

\* The last of a set of events, or the null event.
LastOf(S) ==
    CHOOSE e \in S \cup {NullEvent} : \A d \in S : d <= e

NewThread ==
    [events |-> <<>>, prev_read |-> NullEvent, prev_acq |-> NullEvent,
     eid_to_prev_read |-> EmptyMap, eid_to_prev_acq |-> EmptyMap]

NewVariable ==
    [first_read |-> NullEvent, first_write |-> NullEvent, writes |-> <<>>,
     tid_to_read_events |-> [t \in Threads |-> <<>>],
     tid_to_write_events |-> [t \in Threads |-> <<>>],
     read_to_prev_write_in_thread |-> EmptyMap,
     read_to_prev_diff_read_in_thread |-> EmptyMap]

-----------------------------------------------------------------------------
\* Mutant: the previous read is replaced before it is recorded.
ThreadAddEventReadFirst(th, e, type) ==
    LET acq == CASE type = "Acquire" -> e
                 [] type = "Release" -> NullEvent
                 [] OTHER -> th.prev_acq
        read == IF type = "Read" THEN e ELSE th.prev_read
    IN [events |-> Append(th.events, e), prev_read |-> read, prev_acq |-> acq,
        eid_to_prev_read |-> Put(th.eid_to_prev_read, e, read),
        eid_to_prev_acq |-> Put(th.eid_to_prev_acq, e, acq)]

\* Thread::addEvent.
ThreadAddEvent(th, e, type) ==
    LET acq == CASE type = "Acquire" -> e
                 [] type = "Release" -> NullEvent
                 [] OTHER -> th.prev_acq
    IN [events |-> Append(th.events, e),
        prev_read |-> IF type = "Read" THEN e ELSE th.prev_read,
        prev_acq |-> acq,
        eid_to_prev_read |-> Put(th.eid_to_prev_read, e, th.prev_read),
        eid_to_prev_acq |-> Put(th.eid_to_prev_acq, e, acq)]

Untouched(v) == v.first_read = NullEvent /\ v.first_write = NullEvent

\* The reads of sequence s that returned another value than val.
ReadsOfOtherValue(s, val) ==
    {r \in {s[n] : n \in DOMAIN s} : all_events[r].value # val}

\* Variable::addEvent on a read e of value val by thread t.
VariableAddRead(v, e, t, val) ==
    LET diff == LastOf(ReadsOfOtherValue(v.tid_to_read_events[t], val))
        mine == v.tid_to_write_events[t]
    IN [v EXCEPT
        !.first_read = IF Untouched(v) THEN e ELSE @,
        !.read_to_prev_diff_read_in_thread = Put(@, e, diff),
        !.tid_to_read_events[t] = Append(@, e),
        !.read_to_prev_write_in_thread =
            IF mine = <<>> THEN @ ELSE Put(@, e, mine[Len(mine)])]

\* Variable::addEvent on a write e by thread t; the index by value is
\* recomputed from writes and all_events.
VariableAddWrite(v, e, t) ==
    [v EXCEPT
        !.first_write = IF Untouched(v) THEN e ELSE @,
        !.writes = Append(@, e),
        !.tid_to_write_events[t] = Append(@, e)]

-----------------------------------------------------------------------------
TraceInit ==
    /\ ProgramInit
    /\ pc = "trace"
    /\ all_events = <<>>
    /\ thread_id_to_thread = [t \in Threads |-> NewThread]
    /\ var_id_to_variable = [x \in Vars |-> NewVariable]
    /\ lock_id_to_lock_region = [l \in Locks |-> <<>>]
    /\ fork_begin_pairs = {} /\ end_join_pairs = {}
    /\ forks = [t \in Threads |-> NullEvent]
    /\ ends = [t \in Threads |-> NullEvent]
    /\ last_acquire = [l \in Locks |-> NullEvent]

\* Mutant: identifiers start at 0.
NextIdFromZero == Len(all_events)
NextId == Len(all_events) + 1

\* The head of the loop: the event is numbered, stored, and given to its thread.
AddEvent(type, t, target, value) ==
    /\ pc = "trace"
    /\ Len(all_events) < MaxEvents
    /\ all_events' = Append(all_events,
           [type |-> type, tid |-> t, target |-> target, value |-> value])
    /\ thread_id_to_thread' =
           [thread_id_to_thread EXCEPT ![t] = ThreadAddEvent(@, NextId, type)]
    /\ UNCHANGED pc

Fork(t, u) ==
    /\ DoFork(t, u)
    /\ AddEvent("Fork", t, u, NoValue)
    /\ forks' = [forks EXCEPT ![u] = NextId]
    /\ UNCHANGED <<var_id_to_variable, lock_id_to_lock_region, fork_begin_pairs,
                   end_join_pairs, ends, last_acquire>>

Begin(t) ==
    /\ DoBegin(t)
    /\ AddEvent("Begin", t, 0, NoValue)
    /\ fork_begin_pairs' = fork_begin_pairs \cup {<<forks[t], NextId>>}
    /\ UNCHANGED <<var_id_to_variable, lock_id_to_lock_region, end_join_pairs,
                   forks, ends, last_acquire>>

End(t) ==
    /\ DoEnd(t)
    /\ AddEvent("End", t, 0, NoValue)
    /\ ends' = [ends EXCEPT ![t] = NextId]
    /\ UNCHANGED <<var_id_to_variable, lock_id_to_lock_region, fork_begin_pairs,
                   end_join_pairs, forks, last_acquire>>

Join(t, u) ==
    /\ DoJoin(t, u)
    /\ AddEvent("Join", t, u, NoValue)
    /\ end_join_pairs' = end_join_pairs \cup {<<ends[u], NextId>>}
    /\ UNCHANGED <<var_id_to_variable, lock_id_to_lock_region, fork_begin_pairs,
                   forks, ends, last_acquire>>

\* Mutant: insert() instead of operator[]: an old entry stays.
AcquireInserts(t, l) ==
    /\ DoAcquire(t, l)
    /\ AddEvent("Acquire", t, l, NoValue)
    /\ last_acquire' = [last_acquire EXCEPT ![l] = IF @ = NullEvent THEN NextId ELSE @]
    /\ UNCHANGED <<var_id_to_variable, lock_id_to_lock_region, fork_begin_pairs,
                   end_join_pairs, forks, ends>>

Acquire(t, l) ==
    /\ DoAcquire(t, l)
    /\ AddEvent("Acquire", t, l, NoValue)
    /\ last_acquire' = [last_acquire EXCEPT ![l] = NextId]
    /\ UNCHANGED <<var_id_to_variable, lock_id_to_lock_region, fork_begin_pairs,
                   end_join_pairs, forks, ends>>

\* Mutant: the region list is replaced, not extended.
ReleaseReplaces(t, l) ==
    /\ DoRelease(t, l)
    /\ AddEvent("Release", t, l, NoValue)
    /\ lock_id_to_lock_region' = [lock_id_to_lock_region EXCEPT
           ![l] = <<[acq |-> last_acquire[l], rel |-> NextId]>>]
    /\ UNCHANGED <<var_id_to_variable, fork_begin_pairs, end_join_pairs, forks,
                   ends, last_acquire>>

\* last_acquire keeps its entry: only the next Acquire replaces it.
Release(t, l) ==
    /\ DoRelease(t, l)
    /\ AddEvent("Release", t, l, NoValue)
    /\ lock_id_to_lock_region' = [lock_id_to_lock_region EXCEPT
           ![l] = Append(@, [acq |-> last_acquire[l], rel |-> NextId])]
    /\ UNCHANGED <<var_id_to_variable, fork_begin_pairs, end_join_pairs, forks,
                   ends, last_acquire>>

Read(t, x, v) ==
    /\ DoRead(t, x, v)
    /\ AddEvent("Read", t, x, v)
    /\ var_id_to_variable' = [var_id_to_variable EXCEPT
           ![x] = VariableAddRead(@, NextId, t, v)]
    /\ UNCHANGED <<lock_id_to_lock_region, fork_begin_pairs, end_join_pairs,
                   forks, ends, last_acquire>>

Write(t, x, v) ==
    /\ DoWrite(t, x, v)
    /\ AddEvent("Write", t, x, v)
    /\ var_id_to_variable' = [var_id_to_variable EXCEPT
           ![x] = VariableAddWrite(@, NextId, t)]
    /\ UNCHANGED <<lock_id_to_lock_region, fork_begin_pairs, end_join_pairs,
                   forks, ends, last_acquire>>

\* The input is exhausted, possibly in the middle of the program's execution.
Finish ==
    /\ pc = "trace"
    /\ pc' = "group"
    /\ UNCHANGED <<programVars, all_events, thread_id_to_thread, mapVars>>

TraceNext ==
    \/ \E t, u \in Threads : Fork(t, u) \/ Join(t, u)
    \/ \E t \in Threads : Begin(t) \/ End(t)
    \/ \E t \in Threads, l \in Locks : Acquire(t, l) \/ Release(t, l)
    \/ \E t \in Threads, x \in Vars, v \in Values : Read(t, x, v) \/ Write(t, x, v)
    \/ Finish

TraceSpec == TraceInit /\ [][TraceNext]_traceVars

-----------------------------------------------------------------------------
(* The queries of class Trace, on the events a query is made for.          *)

Tid(e) == all_events[e].tid
Target(e) == all_events[e].target
Value(e) == all_events[e].value
Type(e) == all_events[e].type
VariableOf(e) == var_id_to_variable[Target(e)]
RangeOf(s) == {s[n] : n \in DOMAIN s}
EventsOf(t) == thread_id_to_thread[t].events

getPrevReadInThread(e) == thread_id_to_thread[Tid(e)].eid_to_prev_read[e]
getPrevAcq(e) == thread_id_to_thread[Tid(e)].eid_to_prev_acq[e]

getSameThreadSameVarPrevWrite(r) ==
    LET m == VariableOf(r).read_to_prev_write_in_thread
    IN IF r \in DOMAIN m THEN m[r] ELSE NullEvent

getPrevDiffReadInThread(r) == VariableOf(r).read_to_prev_diff_read_in_thread[r]

getGoodWritesForRead(r) == {w \in RangeOf(VariableOf(r).writes) : Value(w) = Value(r)}
getBadWritesForRead(r) == {w \in RangeOf(VariableOf(r).writes) : Value(w) # Value(r)}

hasSameInitialValue(r) ==
    /\ VariableOf(r).first_write = NullEvent
    /\ Value(r) = Value(VariableOf(r).first_read)

\* Mutant: the inner loop starts at 0 instead of i + 1.
VariableCOPsBothOrders(v) ==
    LET Reads == UNION {RangeOf(v.tid_to_read_events[t]) : t \in Threads}
    IN {p \in RangeOf(v.writes) \X (RangeOf(v.writes) \cup Reads) : Tid(p[1]) # Tid(p[2])}

\* Variable::getCOP: writes with later writes, and writes with all reads, of
\* other threads.
VariableCOPs(v) ==
    LET D == DOMAIN v.writes
        Later == {q \in D \X D : q[1] < q[2]}
        Reads == UNION {RangeOf(v.tid_to_read_events[t]) : t \in Threads}
        Pairs == {<<v.writes[q[1]], v.writes[q[2]]>> : q \in Later}
                     \cup (RangeOf(v.writes) \X Reads)
    IN {p \in Pairs : Tid(p[1]) # Tid(p[2])}

getCOPs == UNION {VariableCOPs(var_id_to_variable[x]) : x \in Vars}

-----------------------------------------------------------------------------
TypeOK ==
    /\ ProgramTypeOK
    /\ all_events \in Seq([type : EventTypes, tid : Threads,
                           target : Threads \cup Vars \cup Locks \cup {0},
                           value : Values \cup {NoValue}])
    /\ \A t \in Threads :
           /\ thread_id_to_thread[t].events \in Seq(EID)
           /\ {thread_id_to_thread[t].prev_read, thread_id_to_thread[t].prev_acq}
                  \subseteq EID \cup {NullEvent}
    /\ \A x \in Vars : var_id_to_variable[x].writes \in Seq(EID)
    /\ lock_id_to_lock_region \in [Locks -> Seq([acq : EID, rel : EID])]
    /\ fork_begin_pairs \cup end_join_pairs \subseteq EID \X EID
    /\ forks \in [Threads -> EID \cup {NullEvent}]
    /\ ends \in [Threads -> EID \cup {NullEvent}]
    /\ last_acquire \in [Locks -> EID \cup {NullEvent}]

\* The last event of the trace before e that satisfies P, or the null event.
Before(e, P(_)) == LastOf({d \in 1 .. e - 1 : P(d)})

(***************************************************************************)
(* The maps addEvent fills one event at a time answer every query with     *)
(* what a search of the whole trace would find: the previous read of the   *)
(* thread, the latest acquire since its last release, and, for a read, the *)
(* thread's previous write of the variable and its previous read of        *)
(* another value (thread.hpp:24-43, variable.hpp:30-67).                   *)
(***************************************************************************)
PrevMapsExact ==
    \A e \in EID :
        LET Mine(d) == Tid(d) = Tid(e)
            SameVar(d) == Mine(d) /\ Target(d) = Target(e)
            IsRead(d) == Mine(d) /\ Type(d) = "Read"
            Held(d) == /\ Mine(d) /\ Type(d) = "Acquire"
                       /\ \A r \in d .. e : Mine(r) => Type(r) # "Release"
            IsWrite(d) == SameVar(d) /\ Type(d) = "Write"
            IsDiffRead(d) == SameVar(d) /\ Type(d) = "Read" /\ Value(d) # Value(e)
        IN /\ getPrevReadInThread(e) = Before(e, IsRead)
           /\ getPrevAcq(e) = LastOf({d \in 1 .. e : Held(d)})
           /\ Type(e) = "Read" =>
                  /\ getSameThreadSameVarPrevWrite(e) = Before(e, IsWrite)
                  /\ getPrevDiffReadInThread(e) = Before(e, IsDiffRead)

(***************************************************************************)
(* Regions of one lock are pairs of an acquire and a later release of one  *)
(* thread, listed in trace order, and never overlap: what containsEvent    *)
(* asserts and the lock constraints take for granted (lock_region.hpp:27,  *)
(* trace.cpp:50-56).                                                       *)
(***************************************************************************)
LockRegionsDisjoint ==
    \A l \in Locks :
        LET R == lock_id_to_lock_region[l]
        IN /\ \A n \in DOMAIN R :
                  R[n].acq < R[n].rel /\ Tid(R[n].acq) = Tid(R[n].rel)
           /\ \A m, n \in DOMAIN R : m < n => R[m].rel < R[n].acq

(***************************************************************************)
(* The regions are all the critical sections the trace closes: every       *)
(* release ends exactly one, which starts at the acquire it matches.       *)
(***************************************************************************)
LockRegionsComplete ==
    \A e \in EID : Type(e) = "Release" =>
        \E n \in DOMAIN lock_id_to_lock_region[Target(e)] :
            LET r == lock_id_to_lock_region[Target(e)][n]
                OnLock(d) == Target(d) = Target(e) /\ Type(d) \in {"Acquire", "Release"}
            IN r.rel = e /\ r.acq = Before(e, OnLock)

Conflicting(d, e) ==
    /\ Tid(d) # Tid(e) /\ Target(d) = Target(e)
    /\ Type(d) = "Write" /\ Type(e) \in {"Read", "Write"}

(***************************************************************************)
(* The candidates are the conflicting pairs, each listed in one order only *)
(* (variable.hpp:130-148).                                                 *)
(***************************************************************************)
COPsExact ==
    \A d, e \in EID :
        /\ <<d, e>> \in getCOPs => Conflicting(d, e)
        /\ Conflicting(d, e) => (<<d, e>> \in getCOPs) # (<<e, d>> \in getCOPs)
=============================================================================
