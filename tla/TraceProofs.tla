----------------------------- MODULE TraceProofs ----------------------------
(***************************************************************************)
(* What createTrace builds, for every set of threads, locks, variables and *)
(* values and for traces of every length: types, lock regions, candidates. *)
(***************************************************************************)
EXTENDS Trace, TLAPS

EventRecord == [type : EventTypes, tid : Threads,
                target : Threads \cup Vars \cup Locks \cup {0},
                value : Values \cup {NoValue}]

\* A sequence of elements of S is one of elements of a larger set.
LEMMA SeqGrows ==
    ASSUME NEW S, NEW T, S \subseteq T, NEW s \in Seq(S)
    PROVE  s \in Seq(T)
OBVIOUS

\* An added event gets the next identifier and leaves the others alone.
LEMMA AddEventFacts ==
    ASSUME all_events \in Seq(EventRecord),
           NEW type \in EventTypes, NEW t \in Threads,
           NEW target \in Threads \cup Vars \cup Locks \cup {0},
           NEW value \in Values \cup {NoValue},
           AddEvent(type, t, target, value)
    PROVE  /\ NextId \in Nat \ {0} /\ NextId \notin EID
           /\ EID \subseteq Nat \ {0}
           /\ EID' = EID \cup {NextId}
           /\ \A e \in EID : e < NextId
           /\ all_events' \in Seq(EventRecord)
           /\ \A e \in EID : all_events'[e] = all_events[e]
           /\ all_events'[NextId] =
                  [type |-> type, tid |-> t, target |-> target, value |-> value]
<1> DEFINE new == [type |-> type, tid |-> t, target |-> target, value |-> value]
<1>1. new \in EventRecord
    BY DEF EventRecord
<1>2. all_events' = Append(all_events, new)
    BY DEF AddEvent
<1> HIDE DEF new
<1>3. /\ Len(all_events') = Len(all_events) + 1
      /\ all_events' \in Seq(EventRecord)
      /\ \A e \in 1 .. Len(all_events) : all_events'[e] = all_events[e]
      /\ all_events'[Len(all_events) + 1] = new
    BY <1>1, <1>2
<1> QED
    BY <1>3 DEF EID, NextId, new

-----------------------------------------------------------------------------
(* The inductive invariant of types and lock regions.                      *)

\* A Variable object has its fields.
IsVariable(v) ==
    v = [first_read |-> v.first_read, first_write |-> v.first_write, writes |-> v.writes,
         tid_to_read_events |-> v.tid_to_read_events,
         tid_to_write_events |-> v.tid_to_write_events,
         read_to_prev_write_in_thread |-> v.read_to_prev_write_in_thread,
         read_to_prev_diff_read_in_thread |-> v.read_to_prev_diff_read_in_thread]

\* There is one object per thread and one per variable.
MapsTotal ==
    /\ thread_id_to_thread = [t \in Threads |-> thread_id_to_thread[t]]
    /\ var_id_to_variable = [x \in Vars |-> var_id_to_variable[x]]
    /\ \A x \in Vars : IsVariable(var_id_to_variable[x])

\* A forked thread has its Fork event on record, an ended one its End event.
PartnersKnown ==
    \A t \in Threads : /\ status[t] = "forked" => forks[t] \in EID
                       /\ status[t] = "ended" => ends[t] \in EID

\* The acquires and releases of lock l.
OnLock(e, l) == Type(e) \in {"Acquire", "Release"} /\ Target(e) = l

\* A recorded region: no other event of its lock lies inside it.
RegionOK(r, l) ==
    /\ r.acq \in EID /\ r.rel \in EID /\ r.acq < r.rel
    /\ Tid(r.acq) = Tid(r.rel)
    /\ OnLock(r.acq, l)
    /\ \A e \in EID : OnLock(e, l) /\ r.acq < e => r.rel <= e

\* While a lock is held, last_acquire is its last event, an acquire by the
\* holder.
HolderOK(l) ==
    holder[l] # NoThread =>
        /\ last_acquire[l] \in EID
        /\ Tid(last_acquire[l]) = holder[l] /\ OnLock(last_acquire[l], l)
        /\ \A e \in EID : OnLock(e, l) => e <= last_acquire[l]

\* The regions of l follow each other, and all precede the current holder's.
LockOK(l) ==
    LET R == lock_id_to_lock_region[l]
    IN /\ \A n \in DOMAIN R : RegionOK(R[n], l)
       /\ \A n \in DOMAIN R : holder[l] # NoThread => R[n].rel < last_acquire[l]
       /\ \A m, n \in DOMAIN R : m < n => R[m].rel < R[n].acq
       /\ HolderOK(l)

LocksInv == \A l \in Locks : LockOK(l)

IInv == TypeOK /\ MapsTotal /\ PartnersKnown /\ LocksInv

LEMMA InitIInv == TraceInit => IInv
<1> SUFFICES ASSUME TraceInit PROVE IInv
    OBVIOUS
<1> USE DEF TraceInit, ProgramInit
<1>1. EID = {} /\ all_events \in Seq(EventRecord)
    BY DEF EID
<1>2. TypeOK
    <2>1. ProgramTypeOK
        BY DEF ProgramTypeOK, Statuses
    <2>2. \A u \in Threads :
              /\ thread_id_to_thread[u].events \in Seq(EID)
              /\ {thread_id_to_thread[u].prev_read, thread_id_to_thread[u].prev_acq}
                     \subseteq EID \cup {NullEvent}
        <3>1. /\ NewThread.events = <<>>
              /\ NewThread.prev_read = NullEvent /\ NewThread.prev_acq = NullEvent
            BY DEF NewThread
        <3>2. \A u \in Threads : thread_id_to_thread[u] = NewThread
            OBVIOUS
        <3>3. <<>> \in Seq(EID)
            OBVIOUS
        <3> QED
            BY <3>1, <3>2, <3>3, Zenon
    <2>3. \A x \in Vars : var_id_to_variable[x].writes \in Seq(EID)
        <3>1. NewVariable.writes = <<>>
            BY DEF NewVariable
        <3>2. \A x \in Vars : var_id_to_variable[x] = NewVariable
            OBVIOUS
        <3>3. <<>> \in Seq(EID)
            OBVIOUS
        <3> QED
            BY <3>1, <3>2, <3>3, Zenon
    <2>4. lock_id_to_lock_region \in [Locks -> Seq([acq : EID, rel : EID])]
        OBVIOUS
    <2> QED
        BY <1>1, <2>1, <2>2, <2>3, <2>4 DEF TypeOK, EventRecord
<1>3. MapsTotal /\ PartnersKnown /\ LocksInv
    BY DEF MapsTotal, PartnersKnown, LocksInv, LockOK, HolderOK, IsVariable, NewVariable
<1> QED
    BY <1>2, <1>3 DEF IInv

\* What an added event leaves of the types: everything that is not touched
\* keeps its type, and the threads are as they should be.
LEMMA Frame ==
    ASSUME IInv,
           NEW type \in EventTypes, NEW t \in Threads,
           NEW target \in Threads \cup Vars \cup Locks \cup {0},
           NEW value \in Values \cup {NoValue},
           AddEvent(type, t, target, value)
    PROVE  /\ all_events' \in Seq(EventRecord)
           /\ \A u \in Threads :
                  /\ thread_id_to_thread'[u].events \in Seq(EID')
                  /\ {thread_id_to_thread'[u].prev_read, thread_id_to_thread'[u].prev_acq}
                         \subseteq EID' \cup {NullEvent}
           /\ thread_id_to_thread' = [u \in Threads |-> thread_id_to_thread'[u]]
           /\ \A x \in Vars : var_id_to_variable[x].writes \in Seq(EID')
           /\ lock_id_to_lock_region \in [Locks -> Seq([acq : EID', rel : EID'])]
           /\ fork_begin_pairs \cup end_join_pairs \subseteq EID' \X EID'
           /\ forks \in [Threads -> EID' \cup {NullEvent}]
           /\ ends \in [Threads -> EID' \cup {NullEvent}]
           /\ last_acquire \in [Locks -> EID' \cup {NullEvent}]
<1>1. TypeOK /\ MapsTotal /\ all_events \in Seq(EventRecord)
    BY DEF IInv, TypeOK, EventRecord
<1>2. EID \subseteq EID' /\ NextId \in EID' /\ all_events' \in Seq(EventRecord)
    BY <1>1, AddEventFacts
<1>3. \A u \in Threads :
          /\ thread_id_to_thread[u].events \in Seq(EID')
          /\ {thread_id_to_thread[u].prev_read, thread_id_to_thread[u].prev_acq}
                 \subseteq EID' \cup {NullEvent}
    BY <1>1, <1>2, SeqGrows DEF TypeOK
<1>4. thread_id_to_thread' = [thread_id_to_thread EXCEPT
                                  ![t] = ThreadAddEvent(thread_id_to_thread[t], NextId, type)]
    BY DEF AddEvent
<1>5. /\ ThreadAddEvent(thread_id_to_thread[t], NextId, type).events \in Seq(EID')
      /\ ThreadAddEvent(thread_id_to_thread[t], NextId, type).prev_read \in EID' \cup {NullEvent}
      /\ ThreadAddEvent(thread_id_to_thread[t], NextId, type).prev_acq \in EID' \cup {NullEvent}
    BY <1>2, <1>3 DEF ThreadAddEvent
<1>6. /\ \A u \in Threads :
            /\ thread_id_to_thread'[u].events \in Seq(EID')
            /\ {thread_id_to_thread'[u].prev_read, thread_id_to_thread'[u].prev_acq}
                   \subseteq EID' \cup {NullEvent}
      /\ thread_id_to_thread' = [u \in Threads |-> thread_id_to_thread'[u]]
    <2> DEFINE th == ThreadAddEvent(thread_id_to_thread[t], NextId, type)
    <2>1. \A u \in Threads : thread_id_to_thread'[u] = IF u = t THEN th ELSE thread_id_to_thread[u]
        BY <1>1, <1>4 DEF MapsTotal
    <2>2. thread_id_to_thread' = [u \in Threads |-> thread_id_to_thread'[u]]
        BY <1>1, <1>4 DEF MapsTotal
    <2>3. th.events \in Seq(EID') /\ {th.prev_read, th.prev_acq} \subseteq EID' \cup {NullEvent}
        BY <1>5
    <2> HIDE DEF th
    <2> QED
        BY <1>3, <2>1, <2>2, <2>3
<1>7. \A x \in Vars : var_id_to_variable[x].writes \in Seq(EID')
    BY <1>1, <1>2, SeqGrows DEF TypeOK
<1>8. lock_id_to_lock_region \in [Locks -> Seq([acq : EID', rel : EID'])]
    <2> DEFINE Regions == [acq : EID, rel : EID]
               RegionsNext == [acq : EID', rel : EID']
    <2>1. Regions \subseteq RegionsNext
        BY <1>2
    <2>2. lock_id_to_lock_region \in [Locks -> Seq(Regions)]
        BY <1>1 DEF TypeOK
    <2> HIDE DEF Regions, RegionsNext
    <2>3. \A l \in Locks : lock_id_to_lock_region[l] \in Seq(RegionsNext)
        BY <2>1, <2>2, SeqGrows
    <2>4. lock_id_to_lock_region \in [Locks -> Seq(RegionsNext)]
        BY <2>2, <2>3
    <2> QED
        BY <2>4 DEF RegionsNext
<1>9. /\ fork_begin_pairs \cup end_join_pairs \subseteq EID' \X EID'
      /\ forks \in [Threads -> EID' \cup {NullEvent}]
      /\ ends \in [Threads -> EID' \cup {NullEvent}]
      /\ last_acquire \in [Locks -> EID' \cup {NullEvent}]
    BY <1>1, <1>2 DEF TypeOK
<1> QED
    BY <1>2, <1>6, <1>7, <1>8, <1>9

-----------------------------------------------------------------------------
(* Lock regions.                                                           *)

\* An added event is the last one, and the others keep their fields.
LEMMA EventsKept ==
    ASSUME IInv,
           NEW type \in EventTypes, NEW t \in Threads,
           NEW target \in Threads \cup Vars \cup Locks \cup {0},
           NEW value \in Values \cup {NoValue},
           AddEvent(type, t, target, value)
    PROVE  /\ NextId \in Nat /\ NextId \in EID' /\ EID \subseteq Nat \ {0}
           /\ \A e \in EID : /\ e \in EID' /\ e < NextId
                              /\ Tid(e)' = Tid(e)
                              /\ \A l \in Locks : OnLock(e, l)' <=> OnLock(e, l)
           /\ \A e \in EID' : e \in EID \/ e = NextId
           /\ \A e : e = NextId => /\ Tid(e)' = t
                                  /\ Type(e)' = type /\ Target(e)' = target
<1>1. all_events \in Seq(EventRecord)
    BY DEF IInv, TypeOK, EventRecord
<1>2. /\ NextId \in Nat /\ NextId \in EID' /\ EID \subseteq Nat \ {0}
      /\ \A e \in EID' : e \in EID \/ e = NextId
      /\ \A e \in EID : e \in EID' /\ e < NextId
      /\ \A e \in EID : all_events'[e] = all_events[e]
      /\ all_events'[NextId] =
             [type |-> type, tid |-> t, target |-> target, value |-> value]
    BY <1>1, AddEventFacts
<1>3. \A e \in EID : /\ Tid(e)' = Tid(e)
                     /\ \A l \in Locks : OnLock(e, l)' <=> OnLock(e, l)
    BY <1>2 DEF Tid, Type, Target, OnLock
<1>4. \A e : e = NextId => Tid(e)' = t /\ Type(e)' = type /\ Target(e)' = target
    BY <1>2 DEF Tid, Type, Target
<1> QED
    BY <1>2, <1>3, <1>4

\* A recorded region stays one: events are only added after it.
LEMMA RegionKept ==
    ASSUME IInv,
           NEW type \in EventTypes, NEW t \in Threads,
           NEW target \in Threads \cup Vars \cup Locks \cup {0},
           NEW value \in Values \cup {NoValue},
           AddEvent(type, t, target, value),
           NEW l \in Locks, NEW r, RegionOK(r, l)
    PROVE  RegionOK(r, l)'
<1>1. /\ r.acq \in EID /\ r.rel \in EID /\ r.acq < r.rel
      /\ Tid(r.acq) = Tid(r.rel) /\ OnLock(r.acq, l)
      /\ \A e \in EID : OnLock(e, l) /\ r.acq < e => r.rel <= e
    BY DEF RegionOK
<1>2. /\ r.acq \in EID' /\ r.rel \in EID'
      /\ Tid(r.acq)' = Tid(r.rel)' /\ OnLock(r.acq, l)'
    BY <1>1, EventsKept
<1>3. ASSUME NEW e \in EID', OnLock(e, l)', r.acq < e PROVE r.rel <= e
    <2>1. CASE e \in EID
        BY <1>1, <1>3, <2>1, EventsKept
    <2>2. CASE e = NextId
        BY <1>1, <2>2, EventsKept
    <2> QED
        BY <2>1, <2>2, EventsKept
<1> QED
    BY <1>1, <1>2, <1>3 DEF RegionOK

\* An event on no lock, or on another one, disturbs nothing of lock l.
LEMMA LockUntouched ==
    ASSUME IInv,
           NEW type \in EventTypes, NEW t \in Threads,
           NEW target \in Threads \cup Vars \cup Locks \cup {0},
           NEW value \in Values \cup {NoValue},
           AddEvent(type, t, target, value),
           NEW l \in Locks, type \notin {"Acquire", "Release"} \/ target # l,
           holder'[l] = holder[l], last_acquire'[l] = last_acquire[l],
           lock_id_to_lock_region'[l] = lock_id_to_lock_region[l]
    PROVE  LockOK(l)'
<1> DEFINE R == lock_id_to_lock_region[l]
<1>1. /\ \A n \in DOMAIN R : RegionOK(R[n], l)
      /\ \A n \in DOMAIN R : holder[l] # NoThread => R[n].rel < last_acquire[l]
      /\ \A m, n \in DOMAIN R : m < n => R[m].rel < R[n].acq
      /\ HolderOK(l)
    BY DEF IInv, LocksInv, LockOK
<1>2. ASSUME NEW n \in DOMAIN R PROVE RegionOK(R[n], l)'
    <2>1. ASSUME NEW r, RegionOK(r, l) PROVE RegionOK(r, l)'
        BY <2>1, RegionKept
    <2>2. ASSUME NEW r, r = R[n] PROVE RegionOK(r, l)'
        BY <1>1, <2>1, <2>2
    <2> QED
        BY <2>2 DEF RegionOK, Tid, OnLock, Type, Target
<1>3. HolderOK(l)'
    <2> SUFFICES ASSUME holder[l] # NoThread
                 PROVE  /\ last_acquire[l] \in EID'
                        /\ Tid(last_acquire[l])' = holder[l] /\ OnLock(last_acquire[l], l)'
                        /\ \A e \in EID' : OnLock(e, l)' => e <= last_acquire[l]
        BY DEF HolderOK, Tid, OnLock, Type, Target
    <2>1. /\ last_acquire[l] \in EID
          /\ Tid(last_acquire[l]) = holder[l] /\ OnLock(last_acquire[l], l)
          /\ \A e \in EID : OnLock(e, l) => e <= last_acquire[l]
        BY <1>1 DEF HolderOK
    <2>2. \A e : e = NextId => ~OnLock(e, l)'
        BY EventsKept DEF OnLock
    <2>3. /\ Tid(last_acquire[l])' = Tid(last_acquire[l])
          /\ OnLock(last_acquire[l], l)'
        BY <2>1, EventsKept DEF Tid, OnLock, Type, Target
    <2> QED
        BY <2>1, <2>2, <2>3, EventsKept
<1> QED
    BY <1>1, <1>2, <1>3 DEF LockOK

\* Acquiring a lock that nobody holds opens its next region.
LEMMA AcquireLocks ==
    ASSUME IInv, NEW t \in Threads, NEW lock \in Locks, Acquire(t, lock)
    PROVE  LocksInv'
<1>1. AddEvent("Acquire", t, lock, NoValue)
    BY DEF Acquire
<1>2. /\ "Acquire" \in EventTypes /\ NoValue \in Values \cup {NoValue}
      /\ lock \in Threads \cup Vars \cup Locks \cup {0}
    BY DEF EventTypes
<1>3. /\ holder' = [holder EXCEPT ![lock] = t] /\ last_acquire' = [last_acquire EXCEPT ![lock] = NextId]
      /\ lock_id_to_lock_region' = lock_id_to_lock_region
      /\ holder \in [Locks -> Threads \cup {NoThread}]
      /\ last_acquire \in [Locks -> EID \cup {NullEvent}]
    BY DEF Acquire, DoAcquire, IInv, TypeOK, ProgramTypeOK
<1>4. ASSUME NEW l \in Locks, l # lock PROVE LockOK(l)'
    BY <1>1, <1>2, <1>3, <1>4, LockUntouched
<1>5. LockOK(lock)'
    <2> DEFINE R == lock_id_to_lock_region[lock]
    <2>1. /\ \A n \in DOMAIN R : RegionOK(R[n], lock)
          /\ \A m, n \in DOMAIN R : m < n => R[m].rel < R[n].acq
        BY DEF IInv, LocksInv, LockOK
    <2>2. ASSUME NEW n \in DOMAIN R PROVE RegionOK(R[n], lock)' /\ R[n].rel < NextId
        <3>1. ASSUME NEW r, RegionOK(r, lock) PROVE RegionOK(r, lock)' /\ r.rel < NextId
            BY <1>1, <1>2, <3>1, RegionKept, EventsKept DEF RegionOK
        <3>2. ASSUME NEW r, r = R[n] PROVE RegionOK(r, lock)' /\ r.rel < NextId
            BY <2>1, <3>1, <3>2
        <3> QED
            BY <1>3, <3>2 DEF RegionOK, Tid, OnLock, Type, Target
    <2>3. HolderOK(lock)'
        <3>1. \A e : e = NextId => e \in EID' /\ Tid(e)' = t /\ OnLock(e, lock)'
            BY <1>1, <1>2, EventsKept DEF OnLock
        <3>2. \A e \in EID' : e <= NextId
            BY <1>1, <1>2, EventsKept
        <3>3. last_acquire'[lock] = NextId /\ holder'[lock] = t
            BY <1>3
        <3> QED
            BY <3>1, <3>2, <3>3 DEF HolderOK, OnLock, Tid, Type, Target
    <2> QED
        BY <1>3, <2>1, <2>2, <2>3 DEF LockOK
<1> QED
    BY <1>4, <1>5 DEF LocksInv

\* A release by the holder closes the region that last_acquire opened.
LEMMA ReleaseLocks ==
    ASSUME IInv, NEW t \in Threads, NEW lock \in Locks, Release(t, lock)
    PROVE  LocksInv' /\ last_acquire[lock] \in EID
<1> DEFINE R == lock_id_to_lock_region[lock]
           new == [acq |-> last_acquire[lock], rel |-> NextId]
<1>1. AddEvent("Release", t, lock, NoValue)
    BY DEF Release
<1>2. /\ "Release" \in EventTypes /\ NoValue \in Values \cup {NoValue}
      /\ lock \in Threads \cup Vars \cup Locks \cup {0}
    BY DEF EventTypes
<1>3. /\ holder' = [holder EXCEPT ![lock] = NoThread] /\ holder[lock] = t /\ t # NoThread
      /\ last_acquire' = last_acquire
      /\ lock_id_to_lock_region' = [lock_id_to_lock_region EXCEPT ![lock] = Append(R, new)]
      /\ holder \in [Locks -> Threads \cup {NoThread}]
      /\ last_acquire \in [Locks -> EID \cup {NullEvent}]
      /\ lock_id_to_lock_region \in [Locks -> Seq([acq : EID, rel : EID])]
    BY ProgramAssumption DEF Release, DoRelease, IInv, TypeOK, ProgramTypeOK, NoThread
<1>4. ASSUME NEW l \in Locks, l # lock PROVE LockOK(l)'
    BY <1>1, <1>2, <1>3, <1>4, LockUntouched
<1>5. /\ \A n \in DOMAIN R : RegionOK(R[n], lock) /\ R[n].rel < last_acquire[lock]
      /\ \A m, n \in DOMAIN R : m < n => R[m].rel < R[n].acq
      /\ last_acquire[lock] \in EID
      /\ Tid(last_acquire[lock]) = t /\ OnLock(last_acquire[lock], lock)
      /\ \A e \in EID : OnLock(e, lock) => e <= last_acquire[lock]
    BY <1>3 DEF IInv, LocksInv, LockOK, HolderOK
<1>6. LockOK(lock)'
    <2>1. ASSUME NEW n \in DOMAIN R, NEW r, r = R[n] PROVE RegionOK(r, lock)'
        BY <1>1, <1>2, <1>5, <2>1, RegionKept
    <2>2. ASSUME NEW r, r = new PROVE RegionOK(r, lock)'
        <3>1. r.acq = last_acquire[lock] /\ r.rel = NextId
            BY <2>2
        <3>2. r.acq \in EID /\ r.rel \in EID' /\ r.acq \in EID' /\ r.acq < r.rel
            BY <1>1, <1>2, <1>5, <3>1, EventsKept
        <3>3. Tid(r.acq)' = t /\ OnLock(r.acq, lock)' /\ Tid(r.rel)' = t
            BY <1>1, <1>2, <1>5, <3>1, <3>2, EventsKept
        <3>4. ASSUME NEW e \in EID', OnLock(e, lock)', r.acq < e PROVE r.rel <= e
            <4>1. CASE e \in EID
                BY <1>1, <1>2, <1>5, <3>1, <3>4, <4>1, EventsKept
            <4>2. CASE e = NextId
                BY <1>1, <1>2, <3>1, <4>2, EventsKept
            <4> QED
                BY <1>1, <1>2, <4>1, <4>2, EventsKept
        <3> QED
            BY <3>2, <3>3, <3>4 DEF RegionOK
    <2> DEFINE R2 == Append(R, new)
    <2>3. /\ Len(R) \in Nat /\ DOMAIN R = 1 .. Len(R)
          /\ DOMAIN R2 = 1 .. Len(R) + 1
          /\ \A n \in DOMAIN R2 : R2[n] = IF n = Len(R) + 1 THEN new ELSE R[n]
        <3> DEFINE S == [acq : EID', rel : EID']
        <3>1. last_acquire[lock] \in EID' /\ NextId \in EID'
            BY <1>1, <1>2, <1>5, EventsKept
        <3>2. new \in S
            BY <3>1
        <3>3. R \in Seq(S)
            BY <1>1, <1>2, Frame
        <3> HIDE DEF S, new, R
        <3> QED
            BY <3>2, <3>3
    <2>4. lock_id_to_lock_region'[lock] = R2 /\ holder'[lock] = NoThread
        BY <1>3
    <2>5. ASSUME NEW n \in DOMAIN R2, NEW r, r = R2[n] PROVE RegionOK(r, lock)'
        BY <2>1, <2>2, <2>3, <2>5
    <2>6. ASSUME NEW m \in DOMAIN R2, NEW n \in DOMAIN R2, m < n PROVE R2[m].rel < R2[n].acq
        <3>1. m \in DOMAIN R /\ R2[m] = R[m]
            BY <2>3, <2>6
        <3>2. CASE n = Len(R) + 1
            BY <1>5, <2>3, <3>1, <3>2
        <3>3. CASE n # Len(R) + 1
            BY <1>5, <2>3, <2>6, <3>1, <3>3
        <3> QED
            BY <3>2, <3>3
    <2> HIDE DEF R2
    <2> QED
        BY <2>4, <2>6, <2>5 DEF LockOK, RegionOK, HolderOK, Tid, OnLock, Type, Target
<1> QED
    BY <1>4, <1>5, <1>6 DEF LocksInv

-----------------------------------------------------------------------------
(* Types.                                                                  *)

\* The four events of a thread's life: they touch status and the pairs.
LEMMA ThreadEventsKeep ==
    ASSUME IInv, NEW t \in Threads, NEW u \in Threads,
           Fork(t, u) \/ Begin(t) \/ End(t) \/ Join(t, u)
    PROVE  IInv'
<1>1. PICK type \in {"Fork", "Begin", "End", "Join"}, target \in {0, u} :
          AddEvent(type, t, target, NoValue)
    BY DEF Fork, Begin, End, Join
<1>2. /\ type \in EventTypes /\ type \notin {"Acquire", "Release"}
      /\ NoValue \in Values \cup {NoValue}
      /\ target \in Threads \cup Vars \cup Locks \cup {0}
    BY DEF EventTypes
<1>3. /\ UNCHANGED <<holder, mem, var_id_to_variable, lock_id_to_lock_region, last_acquire>>
    BY DEF Fork, Begin, End, Join, DoFork, DoBegin, DoEnd, DoJoin, Moves
<1>4. LocksInv'
    BY <1>1, <1>2, <1>3, LockUntouched DEF LocksInv
<1>5. EID \subseteq EID' /\ NextId \in EID'
    BY <1>1, <1>2, EventsKept
<1>6. /\ status \in [Threads -> Statuses] /\ forks \in [Threads -> EID \cup {NullEvent}]
      /\ ends \in [Threads -> EID \cup {NullEvent}]
      /\ \A v \in Threads : /\ status[v] = "forked" => forks[v] \in EID
                            /\ status[v] = "ended" => ends[v] \in EID
      /\ fork_begin_pairs \cup end_join_pairs \subseteq EID \X EID
      /\ holder \in [Locks -> Threads \cup {NoThread}] /\ mem \in [Vars -> Values \cup {NoValue}]
    BY DEF IInv, TypeOK, ProgramTypeOK, PartnersKnown
<1>7. /\ status' \in [Threads -> Statuses] /\ forks' \in [Threads -> EID' \cup {NullEvent}]
      /\ ends' \in [Threads -> EID' \cup {NullEvent}]
      /\ \A v \in Threads : /\ status'[v] = "forked" => forks'[v] \in EID'
                            /\ status'[v] = "ended" => ends'[v] \in EID'
      /\ fork_begin_pairs' \cup end_join_pairs' \subseteq EID' \X EID'
    <2>1. CASE Fork(t, u)
        BY <1>5, <1>6, <2>1 DEF Fork, DoFork, Moves, Statuses
    <2>2. CASE Begin(t)
        BY <1>5, <1>6, <2>2 DEF Begin, DoBegin, Moves, Statuses
    <2>3. CASE End(t)
        BY <1>5, <1>6, <2>3 DEF End, DoEnd, Moves, Statuses
    <2>4. CASE Join(t, u)
        BY <1>5, <1>6, <2>4 DEF Join, DoJoin, Moves, Statuses
    <2> QED
        BY <2>1, <2>2, <2>3, <2>4
<1>8. TypeOK'
    BY <1>1, <1>2, <1>3, <1>6, <1>7, Frame DEF TypeOK, ProgramTypeOK, EventRecord
<1>9. MapsTotal'
    BY <1>1, <1>2, <1>3, Frame DEF MapsTotal, IInv, IsVariable
<1> QED
    BY <1>4, <1>7, <1>8, <1>9 DEF IInv, PartnersKnown

LEMMA AcquireKeeps ==
    ASSUME IInv, NEW t \in Threads, NEW lock \in Locks, Acquire(t, lock)
    PROVE  IInv'
<1>1. AddEvent("Acquire", t, lock, NoValue)
    BY DEF Acquire
<1>2. /\ "Acquire" \in EventTypes /\ NoValue \in Values \cup {NoValue}
      /\ lock \in Threads \cup Vars \cup Locks \cup {0}
    BY DEF EventTypes
<1>3. EID \subseteq EID' /\ NextId \in EID'
    BY <1>1, <1>2, EventsKept
<1>4. /\ UNCHANGED <<status, mem, var_id_to_variable, lock_id_to_lock_region, forks, ends,
                      fork_begin_pairs, end_join_pairs>>
      /\ holder' \in [Locks -> Threads \cup {NoThread}]
      /\ last_acquire' \in [Locks -> EID' \cup {NullEvent}]
    BY <1>3 DEF Acquire, DoAcquire, IInv, TypeOK, ProgramTypeOK
<1>5. TypeOK'
    BY <1>1, <1>2, <1>4, Frame DEF IInv, TypeOK, ProgramTypeOK, EventRecord
<1>6. MapsTotal' /\ PartnersKnown'
    BY <1>1, <1>2, <1>3, <1>4, Frame DEF MapsTotal, IInv, PartnersKnown, IsVariable
<1> QED
    BY <1>5, <1>6, AcquireLocks DEF IInv

LEMMA ReleaseKeeps ==
    ASSUME IInv, NEW t \in Threads, NEW lock \in Locks, Release(t, lock)
    PROVE  IInv'
<1>1. AddEvent("Release", t, lock, NoValue)
    BY DEF Release
<1>2. /\ "Release" \in EventTypes /\ NoValue \in Values \cup {NoValue}
      /\ lock \in Threads \cup Vars \cup Locks \cup {0}
    BY DEF EventTypes
<1>3. EID \subseteq EID' /\ NextId \in EID'
    BY <1>1, <1>2, EventsKept
<1>4. /\ UNCHANGED <<status, mem, var_id_to_variable, last_acquire, forks, ends,
                      fork_begin_pairs, end_join_pairs>>
      /\ holder' \in [Locks -> Threads \cup {NoThread}]
    BY DEF Release, DoRelease, IInv, TypeOK, ProgramTypeOK
<1>5. lock_id_to_lock_region' \in [Locks -> Seq([acq : EID', rel : EID'])]
    <2> DEFINE new == [acq |-> last_acquire[lock], rel |-> NextId]
               S == [acq : EID', rel : EID']
    <2>1. lock_id_to_lock_region' = [lock_id_to_lock_region EXCEPT
                                         ![lock] = Append(lock_id_to_lock_region[lock], new)]
        BY DEF Release
    <2>2. new \in S
        BY <1>3, ReleaseLocks
    <2>3. lock_id_to_lock_region \in [Locks -> Seq(S)]
        BY <1>1, <1>2, Frame
    <2> HIDE DEF new, S
    <2>4. Append(lock_id_to_lock_region[lock], new) \in Seq(S)
        BY <2>2, <2>3
    <2>5. lock_id_to_lock_region' \in [Locks -> Seq(S)]
        BY <2>1, <2>3, <2>4
    <2> QED
        BY <2>5 DEF S
<1>6. TypeOK'
    BY <1>1, <1>2, <1>4, <1>5, Frame DEF IInv, TypeOK, ProgramTypeOK, EventRecord
<1>7. MapsTotal' /\ PartnersKnown'
    BY <1>1, <1>2, <1>3, <1>4, Frame DEF MapsTotal, IInv, PartnersKnown, IsVariable
<1> QED
    BY <1>6, <1>7, ReleaseLocks DEF IInv

\* addEvent keeps a Variable object one; only a write extends its writes.
LEMMA VariableReadShape ==
    ASSUME NEW v, IsVariable(v), NEW e, NEW t \in Threads, NEW val
    PROVE  /\ IsVariable(VariableAddRead(v, e, t, val))
           /\ VariableAddRead(v, e, t, val).writes = v.writes
<1> DEFINE diff == LastOf(ReadsOfOtherValue(v.tid_to_read_events[t], val))
           mine == v.tid_to_write_events[t]
           first == IF Untouched(v) THEN e ELSE v.first_read
           other == Put(v.read_to_prev_diff_read_in_thread, e, diff)
           reads == [v.tid_to_read_events EXCEPT ![t] = Append(@, e)]
           prev == IF mine = <<>> THEN v.read_to_prev_write_in_thread
                   ELSE Put(v.read_to_prev_write_in_thread, e, mine[Len(mine)])
           w == VariableAddRead(v, e, t, val)
<1>1. w = [v EXCEPT !.first_read = first, !.read_to_prev_diff_read_in_thread = other,
                    !.tid_to_read_events = reads, !.read_to_prev_write_in_thread = prev]
    BY DEF VariableAddRead, IsVariable
<1> HIDE DEF w, first, other, reads, prev
<1>2. w = [first_read |-> first, first_write |-> v.first_write, writes |-> v.writes,
           tid_to_read_events |-> reads, tid_to_write_events |-> v.tid_to_write_events,
           read_to_prev_write_in_thread |-> prev, read_to_prev_diff_read_in_thread |-> other]
    BY <1>1 DEF IsVariable
<1>3. IsVariable(w) /\ w.writes = v.writes
    BY <1>2 DEF IsVariable
<1> QED
    BY <1>3 DEF w

LEMMA VariableWriteShape ==
    ASSUME NEW v, IsVariable(v), NEW e, NEW t \in Threads
    PROVE  /\ IsVariable(VariableAddWrite(v, e, t))
           /\ VariableAddWrite(v, e, t).writes = Append(v.writes, e)
           /\ VariableAddWrite(v, e, t).tid_to_read_events = v.tid_to_read_events
<1> DEFINE first == IF Untouched(v) THEN e ELSE v.first_write
           mine == [v.tid_to_write_events EXCEPT ![t] = Append(@, e)]
           all == Append(v.writes, e)
           w == VariableAddWrite(v, e, t)
<1>1. w = [v EXCEPT !.first_write = first, !.writes = all, !.tid_to_write_events = mine]
    BY DEF VariableAddWrite, IsVariable
<1> HIDE DEF w, first, mine, all
<1>2. w = [first_read |-> v.first_read, first_write |-> first, writes |-> all,
           tid_to_read_events |-> v.tid_to_read_events, tid_to_write_events |-> mine,
           read_to_prev_write_in_thread |-> v.read_to_prev_write_in_thread,
           read_to_prev_diff_read_in_thread |-> v.read_to_prev_diff_read_in_thread]
    BY <1>1 DEF IsVariable
<1>3. IsVariable(w) /\ w.writes = all /\ w.tid_to_read_events = v.tid_to_read_events
    BY <1>2 DEF IsVariable
<1> QED
    BY <1>3 DEF w, all

LEMMA AccessKeeps ==
    ASSUME IInv, NEW t \in Threads, NEW x \in Vars, NEW val \in Values,
           Read(t, x, val) \/ Write(t, x, val)
    PROVE  IInv'
<1>1. PICK type \in {"Read", "Write"} : AddEvent(type, t, x, val)
    BY DEF Read, Write
<1>2. /\ type \in EventTypes /\ val \in Values \cup {NoValue}
      /\ type \notin {"Acquire", "Release"}
      /\ x \in Threads \cup Vars \cup Locks \cup {0}
    BY DEF EventTypes
<1>3. EID \subseteq EID' /\ NextId \in EID'
    BY <1>1, <1>2, EventsKept
<1>4. /\ UNCHANGED <<status, holder, lock_id_to_lock_region, last_acquire, forks, ends,
                      fork_begin_pairs, end_join_pairs>>
      /\ mem' \in [Vars -> Values \cup {NoValue}]
    BY DEF Read, Write, DoRead, DoWrite, IInv, TypeOK, ProgramTypeOK
<1>5. LocksInv'
    BY <1>1, <1>2, <1>4, LockUntouched DEF LocksInv
<1>6. PICK v : /\ v = VariableAddRead(var_id_to_variable[x], NextId, t, val)
                  \/ v = VariableAddWrite(var_id_to_variable[x], NextId, t)
               /\ var_id_to_variable' = [var_id_to_variable EXCEPT ![x] = v]
    BY DEF Read, Write
<1>7. /\ IsVariable(v)
      /\ v.writes = var_id_to_variable[x].writes \/ v.writes = Append(var_id_to_variable[x].writes, NextId)
    <2>1. IsVariable(var_id_to_variable[x])
        BY DEF IInv, MapsTotal
    <2>2. CASE v = VariableAddRead(var_id_to_variable[x], NextId, t, val)
        BY <2>1, <2>2, VariableReadShape
    <2>3. CASE v = VariableAddWrite(var_id_to_variable[x], NextId, t)
        BY <2>1, <2>3, VariableWriteShape
    <2> QED
        BY <1>6, <2>2, <2>3
<1>8. \A y \in Vars : var_id_to_variable[y].writes \in Seq(EID')
    BY <1>1, <1>2, Frame
<1>9. v.writes \in Seq(EID')
    BY <1>3, <1>7, <1>8
<1>10. \A y \in Vars : var_id_to_variable'[y] = IF y = x THEN v ELSE var_id_to_variable[y]
    BY <1>6 DEF IInv, MapsTotal
<1>11. \A y \in Vars : var_id_to_variable'[y].writes \in Seq(EID')
    BY <1>8, <1>9, <1>10
<1>12. TypeOK'
    BY <1>1, <1>2, <1>4, <1>11, Frame DEF IInv, TypeOK, ProgramTypeOK, EventRecord
<1>13. MapsTotal'
    <2>1. thread_id_to_thread' = [u \in Threads |-> thread_id_to_thread'[u]]
        BY <1>1, <1>2, Frame
    <2>2. var_id_to_variable' = [y \in Vars |-> var_id_to_variable'[y]]
        BY <1>6 DEF IInv, MapsTotal
    <2>3. \A y \in Vars : IsVariable(var_id_to_variable'[y])
        BY <1>7, <1>10 DEF IInv, MapsTotal
    <2> QED
        BY <2>1, <2>2, <2>3 DEF MapsTotal, IsVariable
<1>14. PartnersKnown'
    BY <1>3, <1>4 DEF IInv, PartnersKnown
<1> QED
    BY <1>5, <1>12, <1>13, <1>14 DEF IInv

\* A step that changes only pc.
LEMMA KeptIInv ==
    ASSUME IInv, UNCHANGED <<programVars, all_events, thread_id_to_thread, mapVars>>
    PROVE  IInv'
<1>1. EID' = EID
    BY DEF EID
<1>2. TypeOK'
    BY <1>1 DEF programVars, mapVars, IInv, TypeOK, ProgramTypeOK
<1>3. MapsTotal'
    BY DEF mapVars, IInv, MapsTotal, IsVariable
<1>4. PartnersKnown'
    BY <1>1 DEF programVars, mapVars, IInv, PartnersKnown
<1>5. LocksInv'
    BY <1>1 DEF programVars, mapVars, IInv, LocksInv, LockOK, RegionOK, HolderOK,
        OnLock, Tid, Type, Target
<1> QED
    BY <1>2, <1>3, <1>4, <1>5 DEF IInv

LEMMA NextIInv == IInv /\ [TraceNext]_traceVars => IInv'
<1> SUFFICES ASSUME IInv, [TraceNext]_traceVars PROVE IInv'
    OBVIOUS
<1>1. CASE Finish \/ UNCHANGED traceVars
    BY <1>1, KeptIInv DEF Finish, traceVars
<1>2. CASE TraceNext
    BY <1>1, <1>2, ThreadEventsKeep, AcquireKeeps, ReleaseKeeps, AccessKeeps DEF TraceNext
<1> QED
    BY <1>1, <1>2

LEMMA RegionsDisjoint == LocksInv => LockRegionsDisjoint
BY DEF LocksInv, LockOK, RegionOK, LockRegionsDisjoint

\* Every variable of createTrace has its type: in particular every region,
\* fork/begin pair and end/join pair it records is made of events of the
\* trace, never of the null event that an empty map entry would give.
THEOREM TraceTypes == TraceSpec => []TypeOK
<1>1. IInv => TypeOK
    BY DEF IInv
<1> QED
    BY InitIInv, NextIInv, <1>1, PTL DEF TraceSpec

\* The regions of a lock are pairs of an acquire and a later release of one
\* thread, in trace order, and never overlap.
THEOREM RegionsTheorem == TraceSpec => []LockRegionsDisjoint
<1>1. IInv => LockRegionsDisjoint
    BY RegionsDisjoint DEF IInv
<1> QED
    BY InitIInv, NextIInv, <1>1, PTL DEF TraceSpec

-----------------------------------------------------------------------------
(* Every release is recorded.                                              *)

\* A release has a region of its lock that ends with it.
ReleasesRecorded ==
    \A e \in EID : Type(e) = "Release" =>
        /\ Target(e) \in Locks
        /\ \E n \in DOMAIN lock_id_to_lock_region[Target(e)] :
               lock_id_to_lock_region[Target(e)][n].rel = e

\* An event that is no release adds none, and changes no region.
LEMMA OtherEventRecorded ==
    ASSUME IInv, ReleasesRecorded,
           NEW type \in EventTypes \ {"Release"}, NEW t \in Threads,
           NEW target \in Threads \cup Vars \cup Locks \cup {0},
           NEW value \in Values \cup {NoValue},
           AddEvent(type, t, target, value),
           UNCHANGED lock_id_to_lock_region
    PROVE  ReleasesRecorded'
<1> SUFFICES ASSUME NEW e \in EID', Type(e)' = "Release"
             PROVE  /\ Target(e)' \in Locks
                    /\ \E n \in DOMAIN lock_id_to_lock_region[Target(e)'] :
                           lock_id_to_lock_region[Target(e)'][n].rel = e
    BY DEF ReleasesRecorded, Type, Target
<1>1. /\ \A d \in EID' : d \in EID \/ d = NextId
      /\ \A d \in EID : all_events'[d] = all_events[d]
      /\ all_events'[NextId] =
             [type |-> type, tid |-> t, target |-> target, value |-> value]
    <2>1. all_events \in Seq(EventRecord) /\ type \in EventTypes
        BY DEF IInv, TypeOK, EventRecord
    <2> QED
        BY <2>1, AddEventFacts
<1>2. e \in EID
    BY <1>1 DEF Type
<1>3. Type(e) = "Release" /\ Target(e)' = Target(e)
    BY <1>1, <1>2 DEF Type, Target
<1> QED
    BY <1>2, <1>3 DEF ReleasesRecorded

\* A release adds the region that ends with it to those of its lock.
LEMMA ReleaseRecorded ==
    ASSUME IInv, ReleasesRecorded, NEW t \in Threads, NEW lock \in Locks, Release(t, lock)
    PROVE  ReleasesRecorded'
<1> DEFINE R == lock_id_to_lock_region[lock]
           new == [acq |-> last_acquire[lock], rel |-> NextId]
           R2 == Append(R, new)
<1>1. AddEvent("Release", t, lock, NoValue)
    BY DEF Release
<1>2. /\ "Release" \in EventTypes /\ NoValue \in Values \cup {NoValue}
      /\ lock \in Threads \cup Vars \cup Locks \cup {0}
    BY DEF EventTypes
<1>3. /\ \A d \in EID' : d \in EID \/ d = NextId
      /\ \A d \in EID : all_events'[d] = all_events[d]
      /\ all_events'[NextId] =
             [type |-> "Release", tid |-> t, target |-> lock, value |-> NoValue]
    BY <1>1, <1>2, AddEventFacts DEF IInv, TypeOK, EventRecord
<1>4. /\ lock_id_to_lock_region' = [lock_id_to_lock_region EXCEPT ![lock] = R2]
      /\ lock_id_to_lock_region \in [Locks -> Seq([acq : EID, rel : EID])]
    BY DEF Release, IInv, TypeOK
<1>5. /\ DOMAIN R \subseteq DOMAIN R2
      /\ \A n \in DOMAIN R : R2[n] = R[n]
      /\ Len(R) + 1 \in DOMAIN R2 /\ R2[Len(R) + 1] = new
    <2> DEFINE S == [acq : EID', rel : EID']
    <2>1. new \in S
        BY <1>1, <1>2, ReleaseLocks, EventsKept
    <2>2. R \in Seq(S)
        BY <1>1, <1>2, Frame
    <2> HIDE DEF S, new, R
    <2> QED
        BY <2>1, <2>2
<1>6. new.rel = NextId
    OBVIOUS
<1> SUFFICES ASSUME NEW e \in EID', Type(e)' = "Release"
             PROVE  /\ Target(e)' \in Locks
                    /\ \E n \in DOMAIN lock_id_to_lock_region'[Target(e)'] :
                           lock_id_to_lock_region'[Target(e)'][n].rel = e
    BY DEF ReleasesRecorded, Type, Target
<1>7. CASE e = NextId
    <2>1. Target(e)' = lock /\ lock_id_to_lock_region'[lock] = R2
        BY <1>3, <1>4, <1>7 DEF Target
    <2> HIDE DEF R2, new
    <2> QED
        BY <1>5, <1>6, <1>7, <2>1
<1>8. CASE e \in EID
    <2>1. Type(e) = "Release" /\ Target(e)' = Target(e)
        BY <1>3, <1>8 DEF Type, Target
    <2>2. /\ Target(e) \in Locks
          /\ \E n \in DOMAIN lock_id_to_lock_region[Target(e)] :
                 lock_id_to_lock_region[Target(e)][n].rel = e
        BY <1>8, <2>1 DEF ReleasesRecorded
    <2> HIDE DEF R2, new
    <2>3. CASE Target(e) = lock
        BY <1>4, <1>5, <2>1, <2>2, <2>3
    <2>4. CASE Target(e) # lock
        BY <1>4, <2>1, <2>2, <2>4
    <2> QED
        BY <2>3, <2>4
<1> QED
    BY <1>3, <1>7, <1>8

LEMMA NextRecorded == IInv /\ ReleasesRecorded /\ [TraceNext]_traceVars => ReleasesRecorded'
<1> SUFFICES ASSUME IInv, ReleasesRecorded, [TraceNext]_traceVars PROVE ReleasesRecorded'
    OBVIOUS
<1>1. NoValue \in Values \cup {NoValue}
    OBVIOUS
<1>2. ASSUME NEW t \in Threads, NEW u \in Threads,
             Fork(t, u) \/ Begin(t) \/ End(t) \/ Join(t, u)
      PROVE  ReleasesRecorded'
    <2>1. PICK type \in {"Fork", "Begin", "End", "Join"}, target \in {0, u} :
              AddEvent(type, t, target, NoValue)
        BY <1>2 DEF Fork, Begin, End, Join
    <2>2. type \in EventTypes \ {"Release"} /\ target \in Threads \cup Vars \cup Locks \cup {0}
        BY DEF EventTypes
    <2>3. UNCHANGED lock_id_to_lock_region
        BY <1>2 DEF Fork, Begin, End, Join
    <2> QED
        BY <1>1, <2>1, <2>2, <2>3, OtherEventRecorded
<1>3. ASSUME NEW t \in Threads, NEW l \in Locks, Acquire(t, l) PROVE ReleasesRecorded'
    <2>1. /\ AddEvent("Acquire", t, l, NoValue)
          /\ UNCHANGED lock_id_to_lock_region
        BY <1>3 DEF Acquire
    <2>2. "Acquire" \in EventTypes \ {"Release"} /\ l \in Threads \cup Vars \cup Locks \cup {0}
        BY DEF EventTypes
    <2> QED
        BY <1>1, <2>1, <2>2, OtherEventRecorded
<1>4. ASSUME NEW t \in Threads, NEW x \in Vars, NEW v \in Values, Read(t, x, v) \/ Write(t, x, v)
      PROVE  ReleasesRecorded'
    <2>1. PICK type \in {"Read", "Write"} : AddEvent(type, t, x, v)
        BY <1>4 DEF Read, Write
    <2>2. /\ type \in EventTypes \ {"Release"} /\ x \in Threads \cup Vars \cup Locks \cup {0}
          /\ v \in Values \cup {NoValue}
        BY DEF EventTypes
    <2>3. UNCHANGED lock_id_to_lock_region
        BY <1>4 DEF Read, Write
    <2> QED
        BY <2>1, <2>2, <2>3, OtherEventRecorded
<1>5. CASE Finish \/ UNCHANGED traceVars
    <2>1. UNCHANGED <<all_events, lock_id_to_lock_region>>
        BY <1>5 DEF Finish, traceVars, mapVars
    <2> QED
        BY <2>1 DEF ReleasesRecorded, EID, Type, Target
<1> QED
    BY <1>2, <1>3, <1>4, <1>5, ReleaseRecorded DEF TraceNext

\* The last of a set of events is its greatest.
LEMMA LastOfGreatest ==
    ASSUME NEW S \in SUBSET Nat, NEW x \in S, \A d \in S : d <= x
    PROVE  LastOf(S) = x
<1>1. \A e \in S \cup {NullEvent} : (\A d \in S : d <= e) => e = x
    BY DEF NullEvent
<1> QED
    BY <1>1 DEF LastOf

LEMMA RegionsComplete == IInv /\ ReleasesRecorded => LockRegionsComplete
<1> SUFFICES ASSUME IInv, ReleasesRecorded, NEW e \in EID, Type(e) = "Release"
             PROVE  \E n \in DOMAIN lock_id_to_lock_region[Target(e)] :
                        LET r == lock_id_to_lock_region[Target(e)][n]
                            On(d) == Target(d) = Target(e) /\ Type(d) \in {"Acquire", "Release"}
                        IN r.rel = e /\ r.acq = Before(e, On)
    BY DEF LockRegionsComplete
<1> DEFINE R == lock_id_to_lock_region[Target(e)]
           S == {d \in 1 .. e - 1 : Target(d) = Target(e) /\ Type(d) \in {"Acquire", "Release"}}
<1>1. PICK n \in DOMAIN R : R[n].rel = e
    BY DEF ReleasesRecorded
<1>2. RegionOK(R[n], Target(e))
    BY DEF ReleasesRecorded, IInv, LocksInv, LockOK
<1>3. EID = 1 .. Len(all_events) /\ Len(all_events) \in Nat
    BY DEF EID, IInv, TypeOK
<1>4. R[n].acq \in S /\ S \in SUBSET Nat
    BY <1>1, <1>2, <1>3 DEF RegionOK, OnLock
<1>5. \A d \in S : d <= R[n].acq
    BY <1>1, <1>2, <1>3, <1>4 DEF RegionOK, OnLock
<1>6. LastOf(S) = R[n].acq
    BY <1>4, <1>5, LastOfGreatest
<1> QED
    BY <1>1, <1>6 DEF Before

\* Every release closes exactly the region opened by the last event of its
\* lock: the lock constraints of the filter see every critical section that
\* the trace closes.
THEOREM RegionsCompleteTheorem == TraceSpec => []LockRegionsComplete
<1>1. TraceInit => ReleasesRecorded
    BY DEF TraceInit, ReleasesRecorded, EID
<1> QED
    BY InitIInv, NextIInv, <1>1, NextRecorded, RegionsComplete, PTL DEF TraceSpec
-----------------------------------------------------------------------------
(* createTrace makes well-formed events.                                   *)

\* The target of an event is what its type says, an access has a value.
WellFormed(e) ==
    /\ Tid(e) \in Threads
    /\ Type(e) \in {"Acquire", "Release"} => Target(e) \in Locks
    /\ Type(e) \in {"Read", "Write"} => Target(e) \in Vars /\ Value(e) \in Values

EventsWellFormed == \A e \in EID : WellFormed(e)

LEMMA InitWellFormed == TraceInit => EventsWellFormed
BY DEF TraceInit, EventsWellFormed, EID

LEMMA AddedWellFormed ==
    ASSUME IInv, EventsWellFormed,
           NEW type \in EventTypes, NEW t \in Threads,
           NEW target \in Threads \cup Vars \cup Locks \cup {0},
           NEW value \in Values \cup {NoValue},
           AddEvent(type, t, target, value),
           type \in {"Acquire", "Release"} => target \in Locks,
           type \in {"Read", "Write"} => target \in Vars /\ value \in Values
    PROVE  EventsWellFormed'
<1>1. all_events \in Seq(EventRecord)
    BY DEF IInv, TypeOK, EventRecord
<1>2. /\ EID' = EID \cup {NextId}
      /\ \A e \in EID : all_events'[e] = all_events[e]
      /\ all_events'[NextId] =
             [type |-> type, tid |-> t, target |-> target, value |-> value]
    BY <1>1, AddEventFacts
<1>3. ASSUME NEW e \in EID PROVE WellFormed(e)'
    BY <1>2 DEF EventsWellFormed, WellFormed, Type, Target, Tid, Value
<1>4. ASSUME NEW e, e = NextId PROVE WellFormed(e)'
    BY <1>2, <1>4 DEF WellFormed, Type, Target, Tid, Value
<1> QED
    BY <1>2, <1>3, <1>4 DEF EventsWellFormed

LEMMA TraceWellFormed ==
    ASSUME IInv, EventsWellFormed, TraceNext
    PROVE  EventsWellFormed'
<1>1. NoValue \in Values \cup {NoValue}
    OBVIOUS
<1>2. ASSUME NEW t \in Threads, NEW u \in Threads,
             Fork(t, u) \/ Begin(t) \/ End(t) \/ Join(t, u)
      PROVE  EventsWellFormed'
    <2>1. PICK type \in {"Fork", "Begin", "End", "Join"}, target \in {0, u} :
              AddEvent(type, t, target, NoValue)
        BY <1>2 DEF Fork, Begin, End, Join
    <2>2. /\ type \in EventTypes /\ type \notin {"Acquire", "Release", "Read", "Write"}
          /\ target \in Threads \cup Vars \cup Locks \cup {0}
        BY DEF EventTypes
    <2> QED
        BY <1>1, <2>1, <2>2, AddedWellFormed
<1>3. ASSUME NEW t \in Threads, NEW l \in Locks, Acquire(t, l) \/ Release(t, l)
      PROVE  EventsWellFormed'
    <2>1. PICK type \in {"Acquire", "Release"} : AddEvent(type, t, l, NoValue)
        BY <1>3 DEF Acquire, Release
    <2>2. /\ type \in EventTypes /\ type \notin {"Read", "Write"}
          /\ l \in Threads \cup Vars \cup Locks \cup {0}
        BY DEF EventTypes
    <2> QED
        BY <1>1, <2>1, <2>2, AddedWellFormed
<1>4. ASSUME NEW t \in Threads, NEW x \in Vars, NEW v \in Values, Read(t, x, v) \/ Write(t, x, v)
      PROVE  EventsWellFormed'
    <2>1. PICK type \in {"Read", "Write"} : AddEvent(type, t, x, v)
        BY <1>4 DEF Read, Write
    <2>2. /\ type \in EventTypes /\ type \notin {"Acquire", "Release"}
          /\ x \in Threads \cup Vars \cup Locks \cup {0} /\ v \in Values \cup {NoValue}
        BY DEF EventTypes
    <2> QED
        BY <2>1, <2>2, AddedWellFormed
<1>5. CASE Finish
    BY <1>5 DEF Finish, EventsWellFormed, WellFormed, EID, Type, Target, Tid, Value
<1> QED
    BY <1>2, <1>3, <1>4, <1>5 DEF TraceNext

-----------------------------------------------------------------------------
(* The fork/begin and end/join pairs.                                      *)

\* An added event is the one after the last, the others keep all their fields.
LEMMA FieldsKept ==
    ASSUME IInv,
           NEW type \in EventTypes, NEW t \in Threads,
           NEW target \in Threads \cup Vars \cup Locks \cup {0},
           NEW value \in Values \cup {NoValue},
           AddEvent(type, t, target, value)
    PROVE  /\ Len(all_events) \in Nat /\ NextId = Len(all_events) + 1
           /\ EID = 1 .. Len(all_events) /\ EID' = EID \cup {NextId} /\ NextId \notin EID
           /\ Len(all_events') = NextId /\ EID' = 1 .. NextId
           /\ \A e \in EID : /\ e < NextId /\ e # NextId
                             /\ Tid(e)' = Tid(e) /\ Type(e)' = Type(e)
                             /\ Target(e)' = Target(e) /\ Value(e)' = Value(e)
           /\ \A e : e = NextId => /\ Tid(e)' = t /\ Type(e)' = type
                                   /\ Target(e)' = target /\ Value(e)' = value
<1>1. all_events \in Seq(EventRecord)
    BY DEF IInv, TypeOK, EventRecord
<1>2. /\ NextId \in Nat /\ NextId \notin EID /\ EID' = EID \cup {NextId}
      /\ \A e \in EID : e < NextId /\ all_events'[e] = all_events[e]
      /\ all_events'[NextId] =
             [type |-> type, tid |-> t, target |-> target, value |-> value]
    BY <1>1, AddEventFacts
<1>3. /\ Len(all_events) \in Nat /\ NextId = Len(all_events) + 1
      /\ Len(all_events') = NextId
    BY <1>1 DEF AddEvent, NextId
<1>4. EID = 1 .. Len(all_events) /\ EID' = 1 .. NextId
    BY <1>3 DEF EID
<1>5. \A e \in EID : Tid(e)' = Tid(e) /\ Type(e)' = Type(e) /\ Target(e)' = Target(e)
                         /\ Value(e)' = Value(e)
    BY <1>2 DEF Tid, Type, Target, Value
<1>6. \A e : e = NextId => /\ Tid(e)' = t /\ Type(e)' = type
                           /\ Target(e)' = target /\ Value(e)' = value
    BY <1>2 DEF Tid, Type, Target, Value
<1> QED
    BY <1>2, <1>3, <1>4, <1>5, <1>6

IsFork(e, u) == Type(e) = "Fork" /\ Target(e) = u
IsJoin(e, u) == Type(e) = "Join" /\ Target(e) = u
IsBegin(e, u) == Type(e) = "Begin" /\ Tid(e) = u
IsEnd(e, u) == Type(e) = "End" /\ Tid(e) = u

\* A thread is forked and ends at most once, in the event on record; what it
\* has not reached yet is not in the trace.
LifeOK(u) ==
    /\ \A e \in EID : IsFork(e, u) => e = forks[u]
    /\ \A e \in EID : IsEnd(e, u) => e = ends[u]
    /\ status[u] = "unborn" => \A e \in EID : ~IsFork(e, u)
    /\ status[u] = "forked" => forks[u] \in EID /\ IsFork(forks[u], u)
    /\ status[u] \in {"unborn", "forked"} => \A e \in EID : ~IsBegin(e, u)
    /\ status[u] \in {"unborn", "forked", "running"} => \A e \in EID : ~IsEnd(e, u)
    /\ status[u] = "ended" => ends[u] \in EID /\ IsEnd(ends[u], u)
    /\ status[u] # "joined" => \A e \in EID : ~IsJoin(e, u)

TargetsAreThreads == \A e \in EID : Type(e) \in {"Fork", "Join"} => Target(e) \in Threads

\* The pairs are those the events say.
ForkBegins == {p \in EID \X EID : \E u \in Threads : IsFork(p[1], u) /\ IsBegin(p[2], u)}
EndJoins == {p \in EID \X EID : \E u \in Threads : IsEnd(p[1], u) /\ IsJoin(p[2], u)}

PartnersInv ==
    /\ TargetsAreThreads /\ \A u \in Threads : LifeOK(u)
    /\ fork_begin_pairs = ForkBegins /\ end_join_pairs = EndJoins

\* What an added event is, and what it leaves.
LEMMA LifeEvents ==
    ASSUME IInv,
           NEW type \in EventTypes, NEW t \in Threads,
           NEW target \in Threads \cup Vars \cup Locks \cup {0},
           NEW value \in Values \cup {NoValue},
           AddEvent(type, t, target, value), NEW u \in Threads
    PROVE  /\ EID' = EID \cup {NextId} /\ NextId \notin EID
           /\ \A e \in EID : /\ IsFork(e, u)' <=> IsFork(e, u)
                             /\ IsJoin(e, u)' <=> IsJoin(e, u)
                             /\ IsBegin(e, u)' <=> IsBegin(e, u)
                             /\ IsEnd(e, u)' <=> IsEnd(e, u)
           /\ \A e : e = NextId => /\ IsFork(e, u)' <=> type = "Fork" /\ target = u
                                   /\ IsJoin(e, u)' <=> type = "Join" /\ target = u
                                   /\ IsBegin(e, u)' <=> type = "Begin" /\ t = u
                                   /\ IsEnd(e, u)' <=> type = "End" /\ t = u
BY FieldsKept DEF IsFork, IsJoin, IsBegin, IsEnd

\* An event of no thread's life, or of another thread's, leaves a thread as it is.
LEMMA LifeKept ==
    ASSUME IInv, NEW type \in EventTypes, NEW t \in Threads,
           NEW target \in Threads \cup Vars \cup Locks \cup {0},
           NEW value \in Values \cup {NoValue},
           AddEvent(type, t, target, value),
           NEW u \in Threads, LifeOK(u),
           type \in {"Fork", "Join"} => target # u,
           type \in {"Begin", "End"} => t # u,
           status'[u] = status[u], forks'[u] = forks[u], ends'[u] = ends[u]
    PROVE  LifeOK(u)'
<1>1. /\ \A e : e = NextId => ~IsFork(e, u)' /\ ~IsJoin(e, u)' /\ ~IsBegin(e, u)' /\ ~IsEnd(e, u)'
      /\ EID' = EID \cup {NextId}
    BY LifeEvents
<1>2. \A e \in EID : /\ IsFork(e, u)' <=> IsFork(e, u)
                     /\ IsJoin(e, u)' <=> IsJoin(e, u)
                     /\ IsBegin(e, u)' <=> IsBegin(e, u)
                     /\ IsEnd(e, u)' <=> IsEnd(e, u)
    BY LifeEvents
<1> DEFINE f == forks[u]
           g == ends[u]
<1>3. /\ f \in EID /\ IsFork(f, u) => IsFork(f, u)'
      /\ g \in EID /\ IsEnd(g, u) => IsEnd(g, u)'
    BY <1>2
<1>4. forks' [u] = f /\ ends'[u] = g
    OBVIOUS
<1>5. IsFork(forks[u], u)' <=> IsFork(f, u)'
    BY <1>4 DEF IsFork, Type, Target
<1>6. IsEnd(ends[u], u)' <=> IsEnd(g, u)'
    BY <1>4 DEF IsEnd, Type, Tid
<1> QED
    BY <1>1, <1>2, <1>3, <1>4, <1>5, <1>6 DEF LifeOK

\* Events of other types make no pair.
LEMMA PairsKept ==
    ASSUME IInv, NEW type \in EventTypes, NEW t \in Threads,
           NEW target \in Threads \cup Vars \cup Locks \cup {0},
           NEW value \in Values \cup {NoValue},
           AddEvent(type, t, target, value)
    PROVE  /\ (\A u \in Threads, e \in EID' :
                  e # NextId => (IsFork(e, u)' <=> IsFork(e, u)) /\ (IsBegin(e, u)' <=> IsBegin(e, u))
                             /\ (IsEnd(e, u)' <=> IsEnd(e, u)) /\ (IsJoin(e, u)' <=> IsJoin(e, u)))
           /\ type \notin {"Fork", "Begin"} => ForkBegins' = ForkBegins
           /\ type \notin {"End", "Join"} => EndJoins' = EndJoins
<1>1. EID' = EID \cup {NextId} /\ NextId \notin EID
    BY FieldsKept
<1>2. \A u \in Threads, e \in EID :
          /\ IsFork(e, u)' <=> IsFork(e, u)
          /\ IsBegin(e, u)' <=> IsBegin(e, u)
          /\ IsEnd(e, u)' <=> IsEnd(e, u)
          /\ IsJoin(e, u)' <=> IsJoin(e, u)
    BY LifeEvents
<1>3. \A u \in Threads : \A e :
          e = NextId => /\ type # "Fork" => ~IsFork(e, u)'
                        /\ type # "Begin" => ~IsBegin(e, u)'
                        /\ type # "End" => ~IsEnd(e, u)'
                        /\ type # "Join" => ~IsJoin(e, u)'
    BY LifeEvents
<1>4. ASSUME type \notin {"Fork", "Begin"} PROVE ForkBegins' = ForkBegins
    <2>1. ASSUME NEW a, NEW b
          PROVE  <<a, b>> \in ForkBegins' <=> <<a, b>> \in ForkBegins
        BY <1>1, <1>2, <1>3, <1>4 DEF ForkBegins
    <2>2. ForkBegins' \subseteq EID' \X EID' /\ ForkBegins \subseteq EID \X EID
        BY DEF ForkBegins
    <2> QED
        BY <2>1, <2>2
<1>5. ASSUME type \notin {"End", "Join"} PROVE EndJoins' = EndJoins
    <2>1. ASSUME NEW a, NEW b
          PROVE  <<a, b>> \in EndJoins' <=> <<a, b>> \in EndJoins
        BY <1>1, <1>2, <1>3, <1>5 DEF EndJoins
    <2>2. EndJoins' \subseteq EID' \X EID' /\ EndJoins \subseteq EID \X EID
        BY DEF EndJoins
    <2> QED
        BY <2>1, <2>2
<1> QED
    BY <1>1, <1>2, <1>4, <1>5

LEMMA ForkPartners ==
    ASSUME IInv, PartnersInv, NEW t \in Threads, NEW u \in Threads, Fork(t, u)
    PROVE  PartnersInv'
<1>1. AddEvent("Fork", t, u, NoValue)
    BY DEF Fork
<1>2. /\ "Fork" \in EventTypes /\ NoValue \in Values \cup {NoValue}
      /\ u \in Threads \cup Vars \cup Locks \cup {0}
    BY DEF EventTypes
<1>3. /\ status[u] = "unborn" /\ status' = [status EXCEPT ![u] = "forked"]
      /\ forks' = [forks EXCEPT ![u] = NextId] /\ ends' = ends
      /\ fork_begin_pairs' = fork_begin_pairs /\ end_join_pairs' = end_join_pairs
      /\ DOMAIN status = Threads /\ DOMAIN forks = Threads
    BY DEF Fork, DoFork, Moves, IInv, TypeOK, ProgramTypeOK
<1>4. ASSUME NEW v \in Threads, v # u PROVE LifeOK(v)'
    BY <1>1, <1>2, <1>3, <1>4, LifeKept DEF PartnersInv
<1>5. /\ EID' = EID \cup {NextId}
      /\ \A e \in EID : /\ IsFork(e, u)' <=> IsFork(e, u)
                        /\ IsJoin(e, u)' <=> IsJoin(e, u)
                        /\ IsBegin(e, u)' <=> IsBegin(e, u)
                        /\ IsEnd(e, u)' <=> IsEnd(e, u)
      /\ \A e : e = NextId => IsFork(e, u)' /\ ~IsJoin(e, u)' /\ ~IsBegin(e, u)' /\ ~IsEnd(e, u)'
    BY <1>1, <1>2, LifeEvents
<1>6. LifeOK(u)'
    <2>1. /\ status'[u] = "forked" /\ forks'[u] = NextId
          /\ \A e \in EID : ~IsFork(e, u) /\ ~IsBegin(e, u) /\ ~IsEnd(e, u) /\ ~IsJoin(e, u)
        BY <1>3 DEF PartnersInv, LifeOK
    <2>2. IsFork(forks[u], u)'
        BY <1>5, <2>1 DEF IsFork, Type, Target
    <2> QED
        BY <1>5, <2>1, <2>2 DEF LifeOK
<1>7. ForkBegins' = ForkBegins
    <2>1. \A e \in EID' : ~IsBegin(e, u)'
        BY <1>3, <1>5 DEF PartnersInv, LifeOK
    <2>2. \A v \in Threads : \A e : e = NextId /\ IsFork(e, v)' => v = u
        BY <1>1, <1>2, LifeEvents
    <2>3. \A v \in Threads : \A e : e = NextId => ~IsBegin(e, v)'
        BY <1>1, <1>2, LifeEvents
    <2>4. \A v \in Threads, e \in EID : (IsFork(e, v)' <=> IsFork(e, v)) /\ (IsBegin(e, v)' <=> IsBegin(e, v))
        BY <1>1, <1>2, LifeEvents
    <2>5. ASSUME NEW a, NEW b
          PROVE  <<a, b>> \in ForkBegins' <=> <<a, b>> \in ForkBegins
        BY <1>5, <2>1, <2>2, <2>3, <2>4 DEF ForkBegins
    <2>6. ForkBegins' \subseteq EID' \X EID' /\ ForkBegins \subseteq EID \X EID
        BY DEF ForkBegins
    <2> QED
        BY <2>5, <2>6
<1>8. EndJoins' = EndJoins
    BY <1>1, <1>2, PairsKept
<1>9. TargetsAreThreads'
    BY <1>1, <1>2, FieldsKept DEF PartnersInv, TargetsAreThreads
<1> QED
    BY <1>3, <1>4, <1>6, <1>7, <1>8, <1>9 DEF PartnersInv

LEMMA BeginPartners ==
    ASSUME IInv, PartnersInv, NEW t \in Threads, Begin(t)
    PROVE  PartnersInv'
<1>1. AddEvent("Begin", t, 0, NoValue)
    BY DEF Begin
<1>2. /\ "Begin" \in EventTypes /\ NoValue \in Values \cup {NoValue}
      /\ 0 \in Threads \cup Vars \cup Locks \cup {0}
    BY DEF EventTypes
<1>3. /\ status[t] = "forked" /\ status' = [status EXCEPT ![t] = "running"]
      /\ fork_begin_pairs' = fork_begin_pairs \cup {<<forks[t], NextId>>}
      /\ end_join_pairs' = end_join_pairs /\ forks' = forks /\ ends' = ends
      /\ DOMAIN status = Threads
    BY DEF Begin, DoBegin, Moves, IInv, TypeOK, ProgramTypeOK
<1>4. ASSUME NEW v \in Threads, v # t PROVE LifeOK(v)'
    BY <1>1, <1>2, <1>3, <1>4, LifeKept DEF PartnersInv
<1>5. /\ EID' = EID \cup {NextId} /\ NextId \notin EID
      /\ \A e \in EID, v \in Threads : /\ IsFork(e, v)' <=> IsFork(e, v)
                                       /\ IsJoin(e, v)' <=> IsJoin(e, v)
                                       /\ IsBegin(e, v)' <=> IsBegin(e, v)
                                       /\ IsEnd(e, v)' <=> IsEnd(e, v)
      /\ \A e, v : e = NextId /\ v \in Threads =>
             ~IsFork(e, v)' /\ ~IsJoin(e, v)' /\ (IsBegin(e, v)' <=> v = t) /\ ~IsEnd(e, v)'
    BY <1>1, <1>2, LifeEvents, FieldsKept
<1>6. /\ forks[t] \in EID /\ IsFork(forks[t], t)
      /\ \A e \in EID : IsFork(e, t) => e = forks[t]
      /\ \A e \in EID : ~IsBegin(e, t) /\ ~IsEnd(e, t) /\ ~IsJoin(e, t)
    BY <1>3 DEF PartnersInv, LifeOK
<1>7. LifeOK(t)'
    <2>1. status'[t] = "running" /\ forks'[t] = forks[t]
        BY <1>3
    <2> QED
        BY <1>5, <1>6, <2>1 DEF LifeOK
<1>8. ForkBegins' = ForkBegins \cup {<<forks[t], NextId>>}
    <2>1. ASSUME NEW a, NEW b
          PROVE  <<a, b>> \in ForkBegins' <=>
                     <<a, b>> \in ForkBegins \/ (a = forks[t] /\ b = NextId)
        BY <1>5, <1>6 DEF ForkBegins
    <2>2. ForkBegins' \subseteq EID' \X EID' /\ ForkBegins \subseteq EID \X EID
        BY DEF ForkBegins
    <2> QED
        BY <2>1, <2>2
<1>9. EndJoins' = EndJoins
    BY <1>1, <1>2, PairsKept
<1>10. TargetsAreThreads'
    BY <1>1, <1>2, FieldsKept DEF PartnersInv, TargetsAreThreads
<1> QED
    BY <1>3, <1>4, <1>7, <1>8, <1>9, <1>10 DEF PartnersInv

LEMMA EndPartners ==
    ASSUME IInv, PartnersInv, NEW t \in Threads, End(t)
    PROVE  PartnersInv'
<1>1. AddEvent("End", t, 0, NoValue)
    BY DEF End
<1>2. /\ "End" \in EventTypes /\ NoValue \in Values \cup {NoValue}
      /\ 0 \in Threads \cup Vars \cup Locks \cup {0}
    BY DEF EventTypes
<1>3. /\ status[t] = "running" /\ status' = [status EXCEPT ![t] = "ended"]
      /\ fork_begin_pairs' = fork_begin_pairs /\ end_join_pairs' = end_join_pairs
      /\ forks' = forks /\ ends' = [ends EXCEPT ![t] = NextId]
      /\ DOMAIN status = Threads /\ DOMAIN ends = Threads
    BY DEF End, DoEnd, Moves, IInv, TypeOK, ProgramTypeOK
<1>4. ASSUME NEW v \in Threads, v # t PROVE LifeOK(v)'
    BY <1>1, <1>2, <1>3, <1>4, LifeKept DEF PartnersInv
<1>5. /\ EID' = EID \cup {NextId} /\ NextId \notin EID
      /\ \A e \in EID, v \in Threads : /\ IsFork(e, v)' <=> IsFork(e, v)
                                       /\ IsJoin(e, v)' <=> IsJoin(e, v)
                                       /\ IsBegin(e, v)' <=> IsBegin(e, v)
                                       /\ IsEnd(e, v)' <=> IsEnd(e, v)
      /\ \A e, v : e = NextId /\ v \in Threads =>
             ~IsFork(e, v)' /\ ~IsJoin(e, v)' /\ ~IsBegin(e, v)' /\ (IsEnd(e, v)' <=> v = t)
    BY <1>1, <1>2, LifeEvents, FieldsKept
<1>6. /\ \A e \in EID : ~IsEnd(e, t) /\ ~IsJoin(e, t)
      /\ \A e \in EID : IsFork(e, t) => e = forks[t]
    BY <1>3 DEF PartnersInv, LifeOK
<1>7. LifeOK(t)'
    <2>1. status'[t] = "ended" /\ forks'[t] = forks[t] /\ ends'[t] = NextId
        BY <1>3
    <2>2. IsEnd(ends[t], t)'
        BY <1>5, <2>1 DEF IsEnd, Type, Tid
    <2> QED
        BY <1>5, <1>6, <2>1, <2>2 DEF LifeOK
<1>8. EndJoins' = EndJoins
    <2>1. ASSUME NEW a, NEW b
          PROVE  <<a, b>> \in EndJoins' <=> <<a, b>> \in EndJoins
        BY <1>5, <1>6 DEF EndJoins
    <2>2. EndJoins' \subseteq EID' \X EID' /\ EndJoins \subseteq EID \X EID
        BY DEF EndJoins
    <2> QED
        BY <2>1, <2>2
<1>9. ForkBegins' = ForkBegins
    BY <1>1, <1>2, PairsKept
<1>10. TargetsAreThreads'
    BY <1>1, <1>2, FieldsKept DEF PartnersInv, TargetsAreThreads
<1> QED
    BY <1>3, <1>4, <1>7, <1>8, <1>9, <1>10 DEF PartnersInv

LEMMA JoinPartners ==
    ASSUME IInv, PartnersInv, NEW t \in Threads, NEW u \in Threads, Join(t, u)
    PROVE  PartnersInv'
<1>1. AddEvent("Join", t, u, NoValue)
    BY DEF Join
<1>2. /\ "Join" \in EventTypes /\ NoValue \in Values \cup {NoValue}
      /\ u \in Threads \cup Vars \cup Locks \cup {0}
    BY DEF EventTypes
<1>3. /\ status[u] = "ended" /\ status' = [status EXCEPT ![u] = "joined"]
      /\ end_join_pairs' = end_join_pairs \cup {<<ends[u], NextId>>}
      /\ fork_begin_pairs' = fork_begin_pairs /\ forks' = forks /\ ends' = ends
      /\ DOMAIN status = Threads
    BY DEF Join, DoJoin, Moves, IInv, TypeOK, ProgramTypeOK
<1>4. ASSUME NEW v \in Threads, v # u PROVE LifeOK(v)'
    BY <1>1, <1>2, <1>3, <1>4, LifeKept DEF PartnersInv
<1>5. /\ EID' = EID \cup {NextId} /\ NextId \notin EID
      /\ \A e \in EID, v \in Threads : /\ IsFork(e, v)' <=> IsFork(e, v)
                                       /\ IsJoin(e, v)' <=> IsJoin(e, v)
                                       /\ IsBegin(e, v)' <=> IsBegin(e, v)
                                       /\ IsEnd(e, v)' <=> IsEnd(e, v)
      /\ \A e, v : e = NextId /\ v \in Threads =>
             ~IsFork(e, v)' /\ (IsJoin(e, v)' <=> v = u) /\ ~IsBegin(e, v)' /\ ~IsEnd(e, v)'
    BY <1>1, <1>2, LifeEvents, FieldsKept
<1>6. /\ ends[u] \in EID /\ IsEnd(ends[u], u)
      /\ \A e \in EID : IsEnd(e, u) => e = ends[u]
      /\ \A e \in EID : IsFork(e, u) => e = forks[u]
    BY <1>3 DEF PartnersInv, LifeOK
<1>7. LifeOK(u)'
    <2>1. status'[u] = "joined" /\ forks'[u] = forks[u] /\ ends'[u] = ends[u]
        BY <1>3
    <2> QED
        BY <1>5, <1>6, <2>1 DEF LifeOK
<1>8. EndJoins' = EndJoins \cup {<<ends[u], NextId>>}
    <2>1. ASSUME NEW a, NEW b
          PROVE  <<a, b>> \in EndJoins' <=>
                     <<a, b>> \in EndJoins \/ (a = ends[u] /\ b = NextId)
        BY <1>5, <1>6 DEF EndJoins
    <2>2. EndJoins' \subseteq EID' \X EID' /\ EndJoins \subseteq EID \X EID
        BY DEF EndJoins
    <2> QED
        BY <2>1, <2>2
<1>9. ForkBegins' = ForkBegins
    BY <1>1, <1>2, PairsKept
<1>10. TargetsAreThreads'
    BY <1>1, <1>2, FieldsKept DEF PartnersInv, TargetsAreThreads
<1> QED
    BY <1>3, <1>4, <1>7, <1>8, <1>9, <1>10 DEF PartnersInv

LEMMA InitPartners == TraceInit => PartnersInv
<1> SUFFICES ASSUME TraceInit PROVE PartnersInv
    OBVIOUS
<1>1. EID = {}
    BY DEF TraceInit, EID
<1>2. \A u \in Threads : status[u] \in {"unborn", "running"}
    BY DEF TraceInit, ProgramInit
<1>3. \A u \in Threads : LifeOK(u)
    BY <1>1, <1>2 DEF LifeOK
<1>4. ForkBegins = {} /\ EndJoins = {}
    BY <1>1 DEF ForkBegins, EndJoins
<1> QED
    BY <1>1, <1>3, <1>4 DEF PartnersInv, TargetsAreThreads, TraceInit

\* An event of a lock or of a variable is in no pair and in no thread's life.
LEMMA OtherPartners ==
    ASSUME IInv, PartnersInv,
           NEW type \in EventTypes \ {"Fork", "Begin", "End", "Join"}, NEW t \in Threads,
           NEW target \in Threads \cup Vars \cup Locks \cup {0},
           NEW value \in Values \cup {NoValue},
           AddEvent(type, t, target, value),
           UNCHANGED <<status, forks, ends, fork_begin_pairs, end_join_pairs>>
    PROVE  PartnersInv'
<1>1. type \in EventTypes /\ type \notin {"Fork", "Begin", "End", "Join"}
    OBVIOUS
<1>2. ASSUME NEW u \in Threads PROVE LifeOK(u)'
    BY <1>1, LifeKept DEF PartnersInv
<1>3. ForkBegins' = ForkBegins /\ EndJoins' = EndJoins
    BY <1>1, PairsKept
<1>4. TargetsAreThreads'
    BY <1>1, FieldsKept DEF PartnersInv, TargetsAreThreads
<1> QED
    BY <1>2, <1>3, <1>4 DEF PartnersInv

\* The trace as createTrace leaves it: what the later phases only read.
traceMaps == <<programVars, all_events, thread_id_to_thread, mapVars>>

LEMMA KeptPartners == PartnersInv /\ UNCHANGED traceMaps => PartnersInv'
BY DEF PartnersInv, TargetsAreThreads, LifeOK, ForkBegins, EndJoins, IsFork, IsJoin, IsBegin,
    IsEnd, EID, Type, Target, Tid, traceMaps, programVars, mapVars

LEMMA NextPartners == IInv /\ PartnersInv /\ [TraceNext]_traceVars => PartnersInv'
<1> SUFFICES ASSUME IInv, PartnersInv, [TraceNext]_traceVars PROVE PartnersInv'
    OBVIOUS
<1>1. ASSUME NEW t \in Threads, NEW l \in Locks, Acquire(t, l) \/ Release(t, l)
      PROVE  PartnersInv'
    <2>1. PICK type \in {"Acquire", "Release"} : AddEvent(type, t, l, NoValue)
        BY <1>1 DEF Acquire, Release
    <2>2. /\ type \in EventTypes \ {"Fork", "Begin", "End", "Join"}
          /\ l \in Threads \cup Vars \cup Locks \cup {0} /\ NoValue \in Values \cup {NoValue}
        BY DEF EventTypes
    <2>3. UNCHANGED <<status, forks, ends, fork_begin_pairs, end_join_pairs>>
        BY <1>1 DEF Acquire, Release, DoAcquire, DoRelease
    <2> QED
        BY <2>1, <2>2, <2>3, OtherPartners
<1>2. ASSUME NEW t \in Threads, NEW x \in Vars, NEW v \in Values, Read(t, x, v) \/ Write(t, x, v)
      PROVE  PartnersInv'
    <2>1. PICK type \in {"Read", "Write"} : AddEvent(type, t, x, v)
        BY <1>2 DEF Read, Write
    <2>2. /\ type \in EventTypes \ {"Fork", "Begin", "End", "Join"}
          /\ x \in Threads \cup Vars \cup Locks \cup {0} /\ v \in Values \cup {NoValue}
        BY DEF EventTypes
    <2>3. UNCHANGED <<status, forks, ends, fork_begin_pairs, end_join_pairs>>
        BY <1>2 DEF Read, Write, DoRead, DoWrite
    <2> QED
        BY <2>1, <2>2, <2>3, OtherPartners
<1>3. CASE Finish \/ UNCHANGED traceVars
    BY <1>3, KeptPartners DEF Finish, traceVars, traceMaps
<1> QED
    BY <1>1, <1>2, <1>3, ForkPartners, BeginPartners, EndPartners, JoinPartners DEF TraceNext

-----------------------------------------------------------------------------
(* Every acquire is recorded.                                              *)

\* An acquire opens a region of its lock, unless the lock is held and it is
\* the last one.
AcquireOK(e) ==
    /\ Target(e) \in Locks
    /\ \/ \E n \in DOMAIN lock_id_to_lock_region[Target(e)] :
              lock_id_to_lock_region[Target(e)][n].acq = e
       \/ holder[Target(e)] # NoThread /\ last_acquire[Target(e)] = e

AcquiresRecorded == \A e \in EID : Type(e) = "Acquire" => AcquireOK(e)

\* An event of another type leaves the recorded acquires alone.
LEMMA OtherAcquires ==
    ASSUME IInv, AcquiresRecorded,
           NEW type \in EventTypes \ {"Acquire"}, NEW t \in Threads,
           NEW target \in Threads \cup Vars \cup Locks \cup {0},
           NEW value \in Values \cup {NoValue},
           AddEvent(type, t, target, value),
           UNCHANGED <<holder, last_acquire, lock_id_to_lock_region>>
    PROVE  AcquiresRecorded'
<1>1. type \in EventTypes /\ type # "Acquire"
    OBVIOUS
<1>2. ASSUME NEW e \in EID', Type(e)' = "Acquire"
      PROVE  e \in EID /\ Type(e) = "Acquire" /\ Target(e)' = Target(e)
    BY <1>1, <1>2, FieldsKept
<1> QED
    BY <1>2 DEF AcquiresRecorded, AcquireOK

\* An acquire finds its lock free, so that all earlier ones have their regions.
LEMMA AcquireAcquires ==
    ASSUME IInv, AcquiresRecorded, NEW t \in Threads, NEW lock \in Locks, Acquire(t, lock)
    PROVE  AcquiresRecorded'
<1>1. AddEvent("Acquire", t, lock, NoValue)
    BY DEF Acquire
<1>2. /\ "Acquire" \in EventTypes /\ NoValue \in Values \cup {NoValue}
      /\ lock \in Threads \cup Vars \cup Locks \cup {0}
    BY DEF EventTypes
<1>3. /\ holder[lock] = NoThread /\ t # NoThread
      /\ holder' = [holder EXCEPT ![lock] = t] /\ last_acquire' = [last_acquire EXCEPT ![lock] = NextId]
      /\ lock_id_to_lock_region' = lock_id_to_lock_region
      /\ DOMAIN holder = Locks /\ DOMAIN last_acquire = Locks
    BY ProgramAssumption DEF Acquire, DoAcquire, IInv, TypeOK, ProgramTypeOK, NoThread
<1>4. ASSUME NEW e \in EID', Type(e)' = "Acquire" PROVE AcquireOK(e)'
    <2>1. CASE e \in EID
        <3>1. Type(e) = "Acquire" /\ Target(e)' = Target(e)
            BY <1>1, <1>2, <1>4, <2>1, FieldsKept
        <3>2. AcquireOK(e)
            BY <2>1, <3>1 DEF AcquiresRecorded
        <3>3. CASE Target(e) = lock
            BY <1>3, <3>1, <3>2, <3>3 DEF AcquireOK
        <3>4. CASE Target(e) # lock
            BY <1>3, <3>1, <3>2, <3>4 DEF AcquireOK
        <3> QED
            BY <3>3, <3>4
    <2>2. CASE e = NextId
        <3>1. Target(e)' = lock
            BY <1>1, <1>2, <2>2, FieldsKept
        <3> QED
            BY <1>3, <2>2, <3>1 DEF AcquireOK
    <2> QED
        BY <1>1, <1>2, <2>1, <2>2, FieldsKept
<1> QED
    BY <1>4 DEF AcquiresRecorded

\* A release turns the open region into a recorded one.
LEMMA ReleaseAcquires ==
    ASSUME IInv, AcquiresRecorded, NEW t \in Threads, NEW lock \in Locks, Release(t, lock)
    PROVE  AcquiresRecorded'
<1> DEFINE R == lock_id_to_lock_region[lock]
           new == [acq |-> last_acquire[lock], rel |-> NextId]
           R2 == Append(R, new)
<1>1. AddEvent("Release", t, lock, NoValue)
    BY DEF Release
<1>2. /\ "Release" \in EventTypes /\ NoValue \in Values \cup {NoValue}
      /\ lock \in Threads \cup Vars \cup Locks \cup {0}
    BY DEF EventTypes
<1>3. /\ holder' = [holder EXCEPT ![lock] = NoThread] /\ last_acquire' = last_acquire
      /\ lock_id_to_lock_region' = [lock_id_to_lock_region EXCEPT ![lock] = R2]
      /\ DOMAIN holder = Locks /\ DOMAIN lock_id_to_lock_region = Locks
    BY DEF Release, DoRelease, IInv, TypeOK, ProgramTypeOK
<1>4. /\ \A n \in DOMAIN R : n \in DOMAIN R2 /\ R2[n] = R[n]
      /\ Len(R) + 1 \in DOMAIN R2 /\ R2[Len(R) + 1] = new
    <2> DEFINE S == [acq : EID', rel : EID']
    <2>1. new \in S
        BY <1>1, <1>2, ReleaseLocks, EventsKept
    <2>2. R \in Seq(S)
        BY <1>1, <1>2, Frame
    <2> HIDE DEF S, new, R
    <2> QED
        BY <2>1, <2>2
<1>5. new.acq = last_acquire[lock]
    OBVIOUS
<1> HIDE DEF R2, new
<1>6. ASSUME NEW e \in EID', Type(e)' = "Acquire" PROVE AcquireOK(e)'
    <2>1. e \in EID /\ Type(e) = "Acquire" /\ Target(e)' = Target(e)
        BY <1>1, <1>2, <1>6, FieldsKept
    <2>2. AcquireOK(e)
        BY <2>1 DEF AcquiresRecorded
    <2>3. CASE Target(e) = lock
        <3>1. lock_id_to_lock_region'[Target(e)] = R2
            BY <1>3, <2>3
        <3>2. \E n \in DOMAIN R2 : R2[n].acq = e
            BY <1>4, <1>5, <2>2, <2>3 DEF AcquireOK
        <3> QED
            BY <2>1, <2>3, <3>1, <3>2 DEF AcquireOK
    <2>4. CASE Target(e) # lock
        BY <1>3, <2>1, <2>2, <2>4 DEF AcquireOK
    <2> QED
        BY <2>3, <2>4
<1> QED
    BY <1>6 DEF AcquiresRecorded

LEMMA KeptAcquires == AcquiresRecorded /\ UNCHANGED traceMaps => AcquiresRecorded'
BY DEF AcquiresRecorded, AcquireOK, EID, Type, Target, traceMaps, programVars, mapVars

LEMMA NextAcquires == IInv /\ AcquiresRecorded /\ [TraceNext]_traceVars => AcquiresRecorded'
<1> SUFFICES ASSUME IInv, AcquiresRecorded, [TraceNext]_traceVars PROVE AcquiresRecorded'
    OBVIOUS
<1>1. NoValue \in Values \cup {NoValue}
    OBVIOUS
<1>2. ASSUME NEW t \in Threads, NEW u \in Threads,
             Fork(t, u) \/ Begin(t) \/ End(t) \/ Join(t, u)
      PROVE  AcquiresRecorded'
    <2>1. PICK type \in {"Fork", "Begin", "End", "Join"}, target \in {0, u} :
              AddEvent(type, t, target, NoValue)
        BY <1>2 DEF Fork, Begin, End, Join
    <2>2. /\ type \in EventTypes \ {"Acquire"}
          /\ target \in Threads \cup Vars \cup Locks \cup {0}
        BY DEF EventTypes
    <2>3. UNCHANGED <<holder, last_acquire, lock_id_to_lock_region>>
        BY <1>2 DEF Fork, Begin, End, Join, DoFork, DoBegin, DoEnd, DoJoin, Moves
    <2> QED
        BY <1>1, <2>1, <2>2, <2>3, OtherAcquires
<1>3. ASSUME NEW t \in Threads, NEW x \in Vars, NEW v \in Values, Read(t, x, v) \/ Write(t, x, v)
      PROVE  AcquiresRecorded'
    <2>1. PICK type \in {"Read", "Write"} : AddEvent(type, t, x, v)
        BY <1>3 DEF Read, Write
    <2>2. /\ type \in EventTypes \ {"Acquire"}
          /\ x \in Threads \cup Vars \cup Locks \cup {0} /\ v \in Values \cup {NoValue}
        BY DEF EventTypes
    <2>3. UNCHANGED <<holder, last_acquire, lock_id_to_lock_region>>
        BY <1>3 DEF Read, Write, DoRead, DoWrite
    <2> QED
        BY <2>1, <2>2, <2>3, OtherAcquires
<1>4. CASE Finish \/ UNCHANGED traceVars
    BY <1>4, KeptAcquires DEF Finish, traceVars, traceMaps
<1> QED
    BY <1>2, <1>3, <1>4, AcquireAcquires, ReleaseAcquires DEF TraceNext

LEMMA InitAcquires == TraceInit => AcquiresRecorded
BY DEF TraceInit, AcquiresRecorded, EID

\* The pairs createTrace records are exactly those of the trace: each Fork with
\* the Begin of the thread it makes, each End with the Join that waits for it
\* (trace.cpp:36-49).
THEOREM PairsTheorem ==
    TraceSpec => [](fork_begin_pairs = ForkBegins /\ end_join_pairs = EndJoins)
<1>1. PartnersInv => fork_begin_pairs = ForkBegins /\ end_join_pairs = EndJoins
    BY DEF PartnersInv
<1> QED
    BY InitIInv, NextIInv, InitPartners, NextPartners, <1>1, PTL DEF TraceSpec

-----------------------------------------------------------------------------
(* Where the life of a thread begins and ends in the trace.                *)

\* A step of createTrace adds one event of a thread that may run, or none; the
\* pairs and the regions grow by the event only.
LEMMA TraceSteps ==
    ASSUME IInv, TraceNext
    PROVE  \/ UNCHANGED traceMaps
           \/ \E type \in EventTypes, t \in Threads,
                 target \in Threads \cup Vars \cup Locks \cup {0},
                 value \in Values \cup {NoValue} :
                  /\ AddEvent(type, t, target, value)
                  /\ status[t] = IF type = "Begin" THEN "forked" ELSE "running"
                  /\ status'[t] \notin {"unborn", "forked"}
                  /\ \A u \in Threads : status'[u] \in {"unborn", "forked"} =>
                         status[u] \in {"unborn", "forked"}
                  /\ fork_begin_pairs' = IF type = "Begin"
                         THEN fork_begin_pairs \cup {<<forks[t], NextId>>} ELSE fork_begin_pairs
                  /\ \E u \in Threads : end_join_pairs' = IF type = "Join"
                         THEN end_join_pairs \cup {<<ends[u], NextId>>} ELSE end_join_pairs
                  /\ lock_id_to_lock_region' = IF type = "Release" THEN
                         [lock_id_to_lock_region EXCEPT ![target] =
                             Append(lock_id_to_lock_region[target],
                                    [acq |-> last_acquire[target], rel |-> NextId])]
                         ELSE lock_id_to_lock_region
<1> DEFINE Added(type, t, target, value) ==
               /\ AddEvent(type, t, target, value)
               /\ status[t] = IF type = "Begin" THEN "forked" ELSE "running"
               /\ status'[t] \notin {"unborn", "forked"}
               /\ \A u \in Threads : status'[u] \in {"unborn", "forked"} =>
                      status[u] \in {"unborn", "forked"}
               /\ fork_begin_pairs' = IF type = "Begin"
                      THEN fork_begin_pairs \cup {<<forks[t], NextId>>} ELSE fork_begin_pairs
               /\ \E u \in Threads : end_join_pairs' = IF type = "Join"
                      THEN end_join_pairs \cup {<<ends[u], NextId>>} ELSE end_join_pairs
               /\ lock_id_to_lock_region' = IF type = "Release" THEN
                      [lock_id_to_lock_region EXCEPT ![target] =
                          Append(lock_id_to_lock_region[target],
                                 [acq |-> last_acquire[target], rel |-> NextId])]
                      ELSE lock_id_to_lock_region
<1> SUFFICES \/ UNCHANGED traceMaps
             \/ \E type \in EventTypes, t \in Threads,
                   target \in Threads \cup Vars \cup Locks \cup {0},
                   value \in Values \cup {NoValue} : Added(type, t, target, value)
    OBVIOUS
<1>1. status \in [Threads -> Statuses]
    BY DEF IInv, TypeOK, ProgramTypeOK
<1>2. ASSUME NEW t \in Threads, NEW u \in Threads, Fork(t, u)
      PROVE  Added("Fork", t, u, NoValue)
    BY <1>1, <1>2 DEF Fork, DoFork, Moves
<1>3. ASSUME NEW t \in Threads, Begin(t) PROVE Added("Begin", t, 0, NoValue)
    BY <1>1, <1>3 DEF Begin, DoBegin, Moves
<1>4. ASSUME NEW t \in Threads, End(t) PROVE Added("End", t, 0, NoValue)
    BY <1>1, <1>4 DEF End, DoEnd, Moves
<1>5. ASSUME NEW t \in Threads, NEW u \in Threads, Join(t, u)
      PROVE  Added("Join", t, u, NoValue)
    BY <1>1, <1>5 DEF Join, DoJoin, Moves
<1>6. ASSUME NEW t \in Threads, NEW l \in Locks, Acquire(t, l)
      PROVE  Added("Acquire", t, l, NoValue)
    BY <1>1, <1>6 DEF Acquire, DoAcquire
<1>7. ASSUME NEW t \in Threads, NEW l \in Locks, Release(t, l)
      PROVE  Added("Release", t, l, NoValue)
    BY <1>1, <1>7 DEF Release, DoRelease
<1>8. ASSUME NEW t \in Threads, NEW x \in Vars, NEW v \in Values, Read(t, x, v)
      PROVE  Added("Read", t, x, v)
    BY <1>1, <1>8 DEF Read, DoRead
<1>9. ASSUME NEW t \in Threads, NEW x \in Vars, NEW v \in Values, Write(t, x, v)
      PROVE  Added("Write", t, x, v)
    BY <1>1, <1>9 DEF Write, DoWrite
<1>10. CASE Finish
    BY <1>10 DEF Finish, traceMaps
<1>11. EventTypes = {"Fork", "Begin", "End", "Join", "Acquire", "Release", "Read", "Write"}
    BY DEF EventTypes
<1> HIDE DEF Added
<1> QED
    BY <1>2, <1>3, <1>4, <1>5, <1>6, <1>7, <1>8, <1>9, <1>10, <1>11 DEF TraceNext

\* A thread does nothing before its Begin nor after its End.
BoundsOK(u) ==
    /\ status[u] \in {"unborn", "forked"} => \A e \in EID : Tid(e) # u
    /\ \A b, e \in EID : IsBegin(b, u) /\ Tid(e) = u => b <= e
    /\ \A n, e \in EID : IsEnd(n, u) /\ Tid(e) = u => e <= n

\* Every Begin and every Join has its pair.
Paired ==
    /\ \A e \in EID : Type(e) = "Begin" => \E p \in fork_begin_pairs : p[2] = e
    /\ \A e \in EID : Type(e) = "Join" => \E p \in end_join_pairs : p[2] = e

\* A region ends with a release of its lock.
RegionTypes ==
    \A l \in Locks : \A n \in DOMAIN lock_id_to_lock_region[l] :
        LET r == lock_id_to_lock_region[l][n] IN Type(r.rel) = "Release" /\ Target(r.rel) = l

LengthOK == Len(all_events) <= MaxEvents

LifeInv == (\A u \in Threads : BoundsOK(u)) /\ Paired /\ RegionTypes /\ LengthOK

LEMMA InitLife == TraceInit => LifeInv
<1> SUFFICES ASSUME TraceInit PROVE LifeInv
    OBVIOUS
<1>1. EID = {} /\ Len(all_events) = 0 /\ MaxEvents \in Nat
    BY MaxEventsAssumption DEF TraceInit, EID
<1>2. RegionTypes
    BY DEF TraceInit, RegionTypes
<1> QED
    BY <1>1, <1>2 DEF LifeInv, BoundsOK, Paired, LengthOK

LEMMA KeptLife == LifeInv /\ UNCHANGED traceMaps => LifeInv'
<1> SUFFICES ASSUME LifeInv, UNCHANGED traceMaps PROVE LifeInv'
    OBVIOUS
<1>1. UNCHANGED <<status, all_events, lock_id_to_lock_region, fork_begin_pairs, end_join_pairs>>
    BY DEF traceMaps, programVars, mapVars
<1> QED
    BY <1>1 DEF LifeInv, BoundsOK, Paired, RegionTypes, LengthOK, IsBegin, IsEnd, EID, Tid,
        Type, Target

LEMMA NextLife == IInv /\ PartnersInv /\ LifeInv /\ [TraceNext]_traceVars => LifeInv'
<1> SUFFICES ASSUME IInv, PartnersInv, LifeInv, TraceNext, ~UNCHANGED traceMaps PROVE LifeInv'
    BY KeptLife DEF traceVars, traceMaps
<1>1. PICK type \in EventTypes, t \in Threads,
           target \in Threads \cup Vars \cup Locks \cup {0}, value \in Values \cup {NoValue} :
          /\ AddEvent(type, t, target, value)
          /\ status[t] = IF type = "Begin" THEN "forked" ELSE "running"
          /\ status'[t] \notin {"unborn", "forked"}
          /\ \A u \in Threads : status'[u] \in {"unborn", "forked"} =>
                 status[u] \in {"unborn", "forked"}
          /\ fork_begin_pairs' = IF type = "Begin"
                 THEN fork_begin_pairs \cup {<<forks[t], NextId>>} ELSE fork_begin_pairs
          /\ \E u \in Threads : end_join_pairs' = IF type = "Join"
                 THEN end_join_pairs \cup {<<ends[u], NextId>>} ELSE end_join_pairs
          /\ lock_id_to_lock_region' = IF type = "Release" THEN
                 [lock_id_to_lock_region EXCEPT ![target] =
                     Append(lock_id_to_lock_region[target],
                            [acq |-> last_acquire[target], rel |-> NextId])]
                 ELSE lock_id_to_lock_region
    BY TraceSteps
<1> DEFINE n == NextId
<1>2. /\ EID' = EID \cup {n} /\ n \notin EID /\ EID \subseteq Nat /\ n \in Nat
      /\ Len(all_events') = n /\ n = Len(all_events) + 1 /\ Len(all_events) \in Nat
      /\ \A e \in EID : /\ e < n /\ Tid(e)' = Tid(e) /\ Type(e)' = Type(e)
                        /\ Target(e)' = Target(e)
      /\ \A e : e = n => Tid(e)' = t /\ Type(e)' = type /\ Target(e)' = target
    BY <1>1, FieldsKept
<1> HIDE DEF n
<1>3. ASSUME NEW u \in Threads PROVE BoundsOK(u)'
    <2>1. BoundsOK(u) /\ LifeOK(u)
        BY DEF LifeInv, PartnersInv
    <2>2. (status[u] \in {"unborn", "forked"} => \A e \in EID : Tid(e) # u)'
        <3> SUFFICES ASSUME status'[u] \in {"unborn", "forked"}, NEW e \in EID'
                     PROVE  Tid(e)' # u
            OBVIOUS
        <3>1. u # t /\ status[u] \in {"unborn", "forked"}
            BY <1>1
        <3> QED
            BY <1>2, <2>1, <3>1 DEF BoundsOK
    <2>3. (\A b, e \in EID : IsBegin(b, u) /\ Tid(e) = u => b <= e)'
        <3> SUFFICES ASSUME NEW b \in EID', NEW e \in EID', Type(b)' = "Begin", Tid(b)' = u,
                            Tid(e)' = u
                     PROVE  b <= e
            BY DEF IsBegin
        <3>1. CASE b \in EID /\ e \in EID
            BY <1>2, <2>1, <3>1 DEF BoundsOK, IsBegin
        <3>2. CASE b \in EID /\ e = n
            BY <1>2, <3>2
        <3>3. CASE b = n
            <4>1. u = t /\ type = "Begin"
                BY <1>2, <3>3
            <4>2. \A d \in EID : Tid(d) # u
                BY <1>1, <2>1, <4>1 DEF BoundsOK
            <4>3. e = n
                BY <1>2, <4>2
            <4> QED
                BY <1>2, <3>3, <4>3
        <3> QED
            BY <1>2, <3>1, <3>2, <3>3
    <2>4. (\A m, e \in EID : IsEnd(m, u) /\ Tid(e) = u => e <= m)'
        <3> SUFFICES ASSUME NEW m \in EID', NEW e \in EID', Type(m)' = "End", Tid(m)' = u,
                            Tid(e)' = u
                     PROVE  e <= m
            BY DEF IsEnd
        <3>1. CASE m \in EID /\ e \in EID
            BY <1>2, <2>1, <3>1 DEF BoundsOK, IsEnd
        <3>2. CASE m = n
            BY <1>2, <3>2
        <3>3. CASE m \in EID /\ e = n
            <4>1. u = t /\ IsEnd(m, u)
                BY <1>2, <3>3 DEF IsEnd
            <4> QED
                BY <1>1, <2>1, <3>3, <4>1 DEF LifeOK
        <3> QED
            BY <1>2, <3>1, <3>2, <3>3
    <2> QED
        BY <2>2, <2>3, <2>4 DEF BoundsOK
<1>4. Paired'
    <2>1. ASSUME NEW e \in EID', Type(e)' = "Begin" PROVE \E p \in fork_begin_pairs' : p[2] = e
        <3>1. CASE e \in EID
            BY <1>1, <1>2, <2>1, <3>1 DEF LifeInv, Paired
        <3>2. CASE e = n
            <4>1. <<forks[t], n>> \in fork_begin_pairs'
                BY <1>1, <1>2, <2>1, <3>2 DEF n
            <4> QED
                BY <3>2, <4>1
        <3> QED
            BY <1>2, <3>1, <3>2
    <2>2. ASSUME NEW e \in EID', Type(e)' = "Join" PROVE \E p \in end_join_pairs' : p[2] = e
        <3>1. CASE e \in EID
            BY <1>1, <1>2, <2>2, <3>1 DEF LifeInv, Paired
        <3>2. CASE e = n
            <4>1. PICK u \in Threads : <<ends[u], n>> \in end_join_pairs'
                BY <1>1, <1>2, <2>2, <3>2 DEF n
            <4> QED
                BY <3>2, <4>1
        <3> QED
            BY <1>2, <3>1, <3>2
    <2> QED
        BY <2>1, <2>2 DEF Paired
<1>5. RegionTypes'
    <2> SUFFICES ASSUME NEW l \in Locks, NEW m \in DOMAIN lock_id_to_lock_region'[l],
                        NEW d, d = lock_id_to_lock_region'[l][m].rel
                 PROVE  Type(d)' = "Release" /\ Target(d)' = l
        BY DEF RegionTypes, Type, Target
    <2>1. /\ lock_id_to_lock_region \in [Locks -> Seq([acq : EID, rel : EID])]
          /\ lock_id_to_lock_region[l] \in Seq([acq : EID, rel : EID])
        BY DEF IInv, TypeOK
    <2>2. \A k \in DOMAIN lock_id_to_lock_region[l] :
              /\ lock_id_to_lock_region[l][k].rel \in EID
              /\ Type(lock_id_to_lock_region[l][k].rel) = "Release"
              /\ Target(lock_id_to_lock_region[l][k].rel) = l
        BY DEF LifeInv, RegionTypes, IInv, LocksInv, LockOK, RegionOK
    <2>3. CASE lock_id_to_lock_region'[l] = lock_id_to_lock_region[l]
        BY <1>2, <2>2, <2>3
    <2>4. CASE lock_id_to_lock_region'[l] # lock_id_to_lock_region[l]
        <3> DEFINE R == lock_id_to_lock_region[l]
                   new == [acq |-> last_acquire[l], rel |-> n]
        <3>1. type = "Release" /\ l = target
            BY <1>1, <2>1, <2>4
        <3>2. lock_id_to_lock_region'[l] = Append(R, new)
            BY <1>1, <2>1, <3>1 DEF n
        <3>3. /\ m \in 1 .. Len(R) + 1 /\ Len(R) \in Nat
              /\ m \in DOMAIN R => Append(R, new)[m] = R[m]
              /\ m \notin DOMAIN R => Append(R, new)[m] = new
            BY <2>1, <3>2
        <3>4. CASE m \in DOMAIN R
            BY <1>2, <2>2, <3>2, <3>3, <3>4
        <3>5. CASE m \notin DOMAIN R
            <4>1. d = n
                BY <3>2, <3>3, <3>5
            <4> QED
                BY <1>2, <3>1, <4>1
        <3> QED
            BY <3>4, <3>5
    <2> QED
        BY <2>3, <2>4
<1>6. LengthOK'
    <2>1. Len(all_events) < MaxEvents
        BY <1>1 DEF AddEvent
    <2> QED
        BY <1>2, <2>1, MaxEventsAssumption DEF LengthOK
<1> QED
    BY <1>3, <1>4, <1>5, <1>6 DEF LifeInv
=============================================================================
