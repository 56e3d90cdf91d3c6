----------------------------- MODULE CausalModel ----------------------------
(***************************************************************************)
(* The race predictor.  CasualModel turns a trace into constraints over    *)
(* one integer per event, its position in a reordering of the trace, and   *)
(* one Boolean phi per read, true when the reordering lets the read return *)
(* the value it returned in the trace.  A pair of conflicting events races *)
(* when the constraints allow both to have the same position after a       *)
(* feasible past.  The constructor's phases are steps of this module; Z3   *)
(* is the environment, which builds one solution position by position.     *)
(***************************************************************************)
EXTENDS Trace, ClosureBuilder

ASSUME EIDsAreTheTraces == EIDs = 1 .. MaxEvents

VARIABLES
    mhb_pos,            \* of each thread: how many of its events are grouped
    mhb_constraints,    \* the pairs <<a, b>> of the constraints a < b
    lock_constraints,   \* the pairs of regions that must not overlap
    filtered_cops,      \* filtered_cop_events_
    phi_reads,          \* the reads with an entry in read_to_phi_conc_offset_
    order,              \* Z3: the position of each event, 0 while it has none
    phi                 \* Z3: the value of the phi of each read in phi_reads

constraintVars == <<mhb_pos, mhb_constraints, lock_constraints, filtered_cops, phi_reads>>
solverVars == <<order, phi>>
vars == <<traceVars, builderVars, constraintVars, solverVars>>

-----------------------------------------------------------------------------
(* generateMHBConstraints                                                  *)

ThreadDone(t) == mhb_pos[t] = Len(EventsOf(t))

\* The loop over the threads is in some order, one thread after the other.
Current(t) ==
    /\ pc = "group" /\ ~ThreadDone(t)
    /\ \A u \in Threads \ {t} : mhb_pos[u] = 0 \/ ThreadDone(u)

Step(t) ==
    /\ Current(t)
    /\ mhb_pos' = [mhb_pos EXCEPT ![t] = @ + 1]
    /\ UNCHANGED <<traceVars, built, happens_before, lock_constraints,
                   filtered_cops, phi_reads, solverVars>>

StartThread(t) ==
    /\ Step(t) /\ mhb_pos[t] = 0
    /\ CreateNewGroup(EventsOf(t)[1])
    /\ UNCHANGED <<relations, mhb_constraints>>

\* Mutant: a join does not split the group.
SplitsAtForks(e1, e2) == Type(e1) = "Fork"
Splits(e1, e2) == Type(e1) = "Fork" \/ Type(e2) = "Join"

\* Mutant: the constraint is the wrong way round.
NextInThreadReversed(t) ==
    /\ Step(t) /\ mhb_pos[t] > 0
    /\ LET e1 == EventsOf(t)[mhb_pos[t]]
           e2 == EventsOf(t)[mhb_pos[t] + 1]
       IN /\ mhb_constraints' = mhb_constraints \cup {<<e2, e1>>}
          /\ CreateNewGroup(e2)
          /\ AddRelation(e1, e2)

NextInThread(t) ==
    /\ Step(t) /\ mhb_pos[t] > 0
    /\ LET e1 == EventsOf(t)[mhb_pos[t]]
           e2 == EventsOf(t)[mhb_pos[t] + 1]
       IN /\ mhb_constraints' = mhb_constraints \cup {<<e1, e2>>}
          /\ \/ /\ Splits(e1, e2)
                /\ CreateNewGroup(e2)
                /\ AddRelation(e1, e2)
             \/ /\ ~Splits(e1, e2)
                /\ AddToGroup(e2, e1)
                /\ UNCHANGED relations

\* Mutant: the loop over the end/join pairs is missing.
RelateThreadsNoJoin ==
    /\ pc = "group" /\ \A t \in Threads : ThreadDone(t)
    /\ relations' = relations \cup fork_begin_pairs
    /\ mhb_constraints' = mhb_constraints \cup fork_begin_pairs
    /\ pc' = "build"
    /\ UNCHANGED <<programVars, all_events, thread_id_to_thread, mapVars, eventToGroup,
                   groupCount, built, happens_before, mhb_pos, lock_constraints,
                   filtered_cops, phi_reads, solverVars>>

\* The loops over the fork/begin and the end/join pairs.
RelateThreads ==
    /\ pc = "group" /\ \A t \in Threads : ThreadDone(t)
    /\ relations' = relations \cup fork_begin_pairs \cup end_join_pairs
    /\ mhb_constraints' = mhb_constraints \cup fork_begin_pairs \cup end_join_pairs
    /\ pc' = "build"
    /\ UNCHANGED <<programVars, all_events, thread_id_to_thread, mapVars, eventToGroup,
                   groupCount, built, happens_before, mhb_pos, lock_constraints,
                   filtered_cops, phi_reads, solverVars>>

BuildClosure ==
    /\ pc = "build"
    /\ Build
    /\ pc' = "constrain"
    /\ UNCHANGED <<programVars, all_events, thread_id_to_thread, mapVars,
                   constraintVars, solverVars>>

-----------------------------------------------------------------------------
(* generateLockConstraints and filterCOPs                                  *)

\* Two regions of one lock, the earlier listed first, that nothing orders.
Unordered(r1, r2) ==
    /\ Tid(r1.acq) # Tid(r2.acq)
    /\ ~happensBefore(r1.rel, r2.acq)
    /\ ~happensBefore(r2.rel, r1.acq)

\* Mutant: the inner loop starts at i + 2.
RegionPairsSkipNext(R) ==
    {<<R[p[1]], R[p[2]]>> : p \in {q \in (DOMAIN R) \X (DOMAIN R) : q[1] + 1 < q[2]}}

RegionPairs(R) ==
    {<<R[p[1]], R[p[2]]>> : p \in {q \in (DOMAIN R) \X (DOMAIN R) : q[1] < q[2]}}

LockConstraints ==
    UNION {{p \in RegionPairs(lock_id_to_lock_region[l]) : Unordered(p[1], p[2])} : l \in Locks}

containsEvent(r, e) == Tid(e) = Tid(r.acq) /\ r.acq <= e /\ e <= r.rel

\* getThreadIdToLockIdToLockRegions()[t][l]
RegionsOf(t, l) == {r \in RangeOf(lock_id_to_lock_region[l]) : Tid(r.acq) = t}

\* LocksetEngine::hasCommonLock.  Its map is the one above: the outer keys
\* are threads, and the inner maps, keyed by lock, are searched for thread
\* identifiers.
hasCommonLock(e1, e2) ==
    \E outer \in Threads :
        /\ {Tid(e1), Tid(e2)} \subseteq Locks
        /\ \E r \in RegionsOf(outer, Tid(e1)) : containsEvent(r, e1)
        /\ \E r \in RegionsOf(outer, Tid(e2)) : containsEvent(r, e2)

FilteredCOPs ==
    {c \in getCOPs : /\ ~happensBefore(c[1], c[2])
                     /\ ~happensBefore(c[2], c[1])
                     /\ ~hasCommonLock(c[1], c[2])}

-----------------------------------------------------------------------------
(* getPhiSC: which writes a read may take its value from                   *)

hb(a, b) == happensBefore(a, b) \/ (Tid(a) = Tid(b) /\ a < b)

\* Mutant: the later good write need not come before the read.
generalGoodWritesFilterAnyLater(r) ==
    LET G == getGoodWritesForRead(r)
    IN {w \in G : ~hb(r, w) /\ ~\E w2 \in G : hb(w, w2)}

\* Good writes not after the read and not hidden by a later good write.
generalGoodWritesFilter(r) ==
    LET G == getGoodWritesForRead(r)
    IN {w \in G : ~hb(r, w) /\ ~\E w2 \in G : hb(w, w2) /\ hb(w2, r)}

generalBadWritesFilter(r) == {w \in getBadWritesForRead(r) : ~hb(r, w)}

prevWriteExistFilter(W, prev) == {w \in W : ~hb(w, prev)}

\* Case 1: the thread wrote the variable before; case 2: it did not, but read
\* another value from it.
GoodWrites(r) ==
    LET pw == getSameThreadSameVarPrevWrite(r)
        pd == getPrevDiffReadInThread(r)
        G == generalGoodWritesFilter(r)
    IN CASE pw # NullEvent -> prevWriteExistFilter(G, pw)
         [] pw = NullEvent /\ pd # NullEvent -> prevWriteExistFilter(G, pd)
         [] OTHER -> G

BadWrites(r) ==
    LET pw == getSameThreadSameVarPrevWrite(r)
        B == generalBadWritesFilter(r)
    IN IF pw # NullEvent THEN prevWriteExistFilter(B, pw) ELSE B

\* The event a good write must follow: the thread's own write of another
\* value, or in case 2 its read of another value.
Anchor(r) ==
    LET pw == getSameThreadSameVarPrevWrite(r)
    IN CASE pw # NullEvent /\ Value(pw) # Value(r) -> pw
         [] pw # NullEvent /\ Value(pw) = Value(r) -> NullEvent
         [] OTHER -> getPrevDiffReadInThread(r)

(***************************************************************************)
(* getPhiConc and getPhiAbs call each other through the previous read of   *)
(* the thread and the previous reads of the good writes, and stop at a     *)
(* read that has an entry already: the reads with a phi are those that can *)
(* be reached from the candidates.                                         *)
(***************************************************************************)
Reads == {e \in EID : Type(e) = "Read"}

\* Mutant: the null event is not tested for.
PhiAbsOfNull(E) == {getPrevReadInThread(e) : e \in E}
PhiAbsOf(E) == {getPrevReadInThread(e) : e \in E} \ {NullEvent}
CalledFrom(r) == PhiAbsOf({r} \cup GoodWrites(r))
Calls == UNION {{r} \X CalledFrom(r) : r \in Reads}
FirstCalls(cops) == PhiAbsOf(UNION {{c[1], c[2]} : c \in cops})

PhiReads(cops) ==
    FirstCalls(cops) \cup
        {r \in Reads : \E q \in FirstCalls(cops) : Reaches(Reads, Calls, q, r)}

GenerateConstraints ==
    /\ pc = "constrain"
    /\ lock_constraints' = LockConstraints
    /\ filtered_cops' = FilteredCOPs
    /\ phi_reads' = PhiReads(FilteredCOPs)
    /\ pc' = "solve"
    /\ UNCHANGED <<programVars, all_events, thread_id_to_thread, mapVars,
                   builderVars, mhb_pos, mhb_constraints, solverVars>>

-----------------------------------------------------------------------------
(* The meaning of the constraints under a solution.  An event that has no  *)
(* position yet will get a later one than those that have.                 *)

Placed(e) == order[e] # 0
Lt(a, b) == Placed(a) /\ (Placed(b) => order[a] < order[b])

\* Mutant: a bad write may come after the good one, not only before it.
RFConstraintSwapped(r, good, bad) ==
    CASE hb(good, bad) -> Lt(r, bad)
      [] ~hb(good, bad) /\ hb(bad, r) -> Lt(bad, good)
      [] OTHER -> Lt(good, bad) \/ Lt(r, bad)

\* makeRFConstraint
RFConstraint(r, good, bad) ==
    CASE hb(good, bad) -> Lt(r, bad)
      [] ~hb(good, bad) /\ hb(bad, r) -> Lt(bad, good)
      [] OTHER -> Lt(bad, good) \/ Lt(r, bad)

PhiAbs(f, e) ==
    LET prev == getPrevReadInThread(e) IN prev # NullEvent => f[prev]

\* The disjuncts of phiSC, by what the read takes its value from: the initial
\* value, the thread's own previous write, or another good write.
Sources(r) ==
    LET pw == getSameThreadSameVarPrevWrite(r)
        Ruled == generalGoodWritesFilter(r) \cup generalBadWritesFilter(r)
    IN {s \in {<<"initial", NullEvent>>} : hasSameInitialValue(r) /\ Ruled # {}}
       \cup {s \in {<<"own", pw>>} :
                pw # NullEvent /\ Value(pw) = Value(r) /\ BadWrites(r) # {}}
       \cup ({"write"} \X GoodWrites(r))

\* Mutants: the good write is used without its own past, or without having
\* to come before the read.
ReadsFromNoPhi(f, r, s) ==
    CASE s[1] = "initial" ->
             \A w \in generalGoodWritesFilter(r) \cup generalBadWritesFilter(r) : Lt(r, w)
      [] s[1] = "own" -> \A b \in BadWrites(r) : RFConstraint(r, s[2], b)
      [] s[1] = "write" ->
             /\ Lt(s[2], r)
             /\ Anchor(r) # NullEvent => Lt(Anchor(r), s[2])
             /\ \A b \in BadWrites(r) : hb(b, s[2]) \/ RFConstraint(r, s[2], b)

ReadsFromAnyOrder(f, r, s) ==
    CASE s[1] = "initial" ->
             \A w \in generalGoodWritesFilter(r) \cup generalBadWritesFilter(r) : Lt(r, w)
      [] s[1] = "own" -> \A b \in BadWrites(r) : RFConstraint(r, s[2], b)
      [] s[1] = "write" ->
             /\ PhiAbs(f, s[2])
             /\ Anchor(r) # NullEvent => Lt(Anchor(r), s[2])
             /\ \A b \in BadWrites(r) : hb(b, s[2]) \/ RFConstraint(r, s[2], b)

ReadsFrom(f, r, s) ==
    CASE s[1] = "initial" ->
             \A w \in generalGoodWritesFilter(r) \cup generalBadWritesFilter(r) : Lt(r, w)
      [] s[1] = "own" -> \A b \in BadWrites(r) : RFConstraint(r, s[2], b)
      [] s[1] = "write" ->
             /\ PhiAbs(f, s[2])
             /\ Lt(s[2], r)
             /\ Anchor(r) # NullEvent => Lt(Anchor(r), s[2])
             /\ \A b \in BadWrites(r) : hb(b, s[2]) \/ RFConstraint(r, s[2], b)

PhiSC(f, r) == Sources(r) # {} => \E s \in Sources(r) : ReadsFrom(f, r, s)
PhiConc(f, r) == PhiAbs(f, r) /\ PhiSC(f, r)

\* The definitions solve adds for the phi variables.
PhiEquations(f) == \A r \in phi_reads : f[r] = PhiConc(f, r)

\* Mutant: only the past of the first event has to be feasible.
RaceConstraintFirstPast(c) ==
    /\ order[c[1]] = order[c[2]]
    /\ PhiAbs(phi, c[1])

\* e1 == e2 and the past of both is feasible.
RaceConstraint(c) ==
    /\ order[c[1]] = order[c[2]]
    /\ PhiAbs(phi, c[1]) /\ PhiAbs(phi, c[2])

-----------------------------------------------------------------------------
(* Z3: a solution of the constraints, built position by position.          *)

Ready == {e \in EID : /\ ~Placed(e)
                      /\ \A c \in mhb_constraints : c[2] = e => Placed(c[1])}

\* A lock constraint whose two acquires have a position is decided.
LocksExclude ==
    \A c \in lock_constraints :
        Placed(c[1].acq) /\ Placed(c[2].acq) =>
            Lt(c[1].rel, c[2].acq) # Lt(c[2].rel, c[1].acq)

Z3Place(S) ==
    /\ pc = "solve" /\ S # {} /\ S \subseteq Ready
    /\ LET next == 1 + LastOf({order[e] : e \in EID})
       IN order' = [e \in EIDs |-> IF e \in S THEN next ELSE order[e]]
    /\ UNCHANGED <<traceVars, builderVars, constraintVars, phi>>
    /\ LocksExclude'

Z3Assign ==
    /\ pc = "solve" /\ \A e \in EID : Placed(e)
    /\ \E f \in [phi_reads -> BOOLEAN] : PhiEquations(f) /\ phi' = f
    /\ pc' = "sat"
    /\ UNCHANGED <<programVars, all_events, thread_id_to_thread, mapVars,
                   builderVars, constraintVars, order>>

-----------------------------------------------------------------------------
Init ==
    /\ TraceInit /\ BuilderInit
    /\ mhb_pos = [t \in Threads |-> 0]
    /\ mhb_constraints = {} /\ lock_constraints = {}
    /\ filtered_cops = {} /\ phi_reads = {}
    /\ order = [e \in EIDs |-> 0]
    /\ phi = [r \in {} |-> FALSE]

Next ==
    \/ TraceNext /\ UNCHANGED <<builderVars, constraintVars, solverVars>>
    \/ \E t \in Threads : StartThread(t) \/ NextInThread(t)
    \/ RelateThreads
    \/ BuildClosure
    \/ GenerateConstraints
    \/ \E S \in SUBSET EID : Z3Place(S)
    \/ Z3Assign

Spec == Init /\ [][Next]_vars

-----------------------------------------------------------------------------
Solved == pc = "sat"

CausalTypeOK ==
    /\ TypeOK
    /\ pc \in {"trace", "group", "build", "constrain", "solve", "sat"}
    /\ mhb_pos \in [Threads -> 0 .. MaxEvents]
    /\ mhb_constraints \subseteq EID \X EID
    /\ filtered_cops \subseteq EID \X EID
    /\ phi_reads \subseteq Reads
    /\ order \in [EIDs -> 0 .. MaxEvents]
    /\ Solved => phi \in [phi_reads -> BOOLEAN]

\* The must-happen-before edges, read off the trace.
MustPrecede(a, b) ==
    \/ Tid(a) = Tid(b) /\ a < b
    \/ Type(a) = "Fork" /\ Type(b) = "Begin" /\ Target(a) = Tid(b)
    \/ Type(a) = "End" /\ Type(b) = "Join" /\ Tid(a) = Target(b)
MustPrecedeEdges == {p \in EID \X EID : MustPrecede(p[1], p[2])}

(***************************************************************************)
(* Grouping loses nothing: two events are ordered by their groups or by    *)
(* their thread exactly when a path of program order, fork and join edges  *)
(* leads from one to the other (casual_model.cpp:19-61, casual_model.hpp:  *)
(* 60-64).                                                                 *)
(***************************************************************************)
HbExact ==
    pc = "constrain" =>
        \A a, b \in EID : hb(a, b) <=> Reaches(EID, MustPrecedeEdges, a, b)

WritesTo(x) == {w \in EID : Type(w) = "Write" /\ Target(w) = x}
Accesses(x) == {e \in EID : Type(e) \in {"Read", "Write"} /\ Target(e) = x}
InitialValue(x, v) ==
    \E e \in Accesses(x) : /\ Type(e) = "Read" /\ Value(e) = v
                           /\ \A d \in Accesses(x) : e <= d

(***************************************************************************)
(* In the reordering, the read takes the value it returned in the trace    *)
(* from the write g of that value, which comes before it with no write of  *)
(* another value between them, or, if g is the null event, finds the       *)
(* initial value and no write of another value before it.                  *)
(***************************************************************************)
SeesFrom(r, g) ==
    LET Other == {w \in WritesTo(Target(r)) : Value(w) # Value(r)}
    IN IF g = NullEvent
       THEN InitialValue(Target(r), Value(r)) /\ \A b \in Other : Lt(r, b)
       ELSE Lt(g, r) /\ \A b \in Other : Lt(b, g) \/ Lt(r, b)

SameValueWrites(r) == {g \in WritesTo(Target(r)) : Value(g) = Value(r)}
SeesOwnValue(r) == \E g \in SameValueWrites(r) \cup {NullEvent} : SeesFrom(r, g)

\* The reads a true phi vouches for.
Covered(r) == \E q \in phi_reads : phi[q] /\ Tid(q) = Tid(r) /\ r <= q
PastCovered(e) == \A p \in Reads : Tid(p) = Tid(e) /\ p < e => Covered(p)

(***************************************************************************)
(* A phi that is true means what it stands for: the read, and every read   *)
(* of its thread before it, returns its own value in the reordering, from  *)
(* a write whose own past is feasible in the same sense, for all the       *)
(* filters and shortcuts of getPhiSC (casual_model.cpp:122-235).           *)
(***************************************************************************)
PhiSound ==
    Solved => \A r \in Reads : Covered(r) =>
        \E g \in SameValueWrites(r) \cup {NullEvent} :
            SeesFrom(r, g) /\ (g # NullEvent => PastCovered(g))

(***************************************************************************)
(* Nothing is filtered too much: a reordering with no ties in which every  *)
(* read returns its own value satisfies every phi.                         *)
(***************************************************************************)
NoTies == \A a, b \in EID : order[a] = order[b] => a = b
PhiComplete ==
    Solved /\ NoTies /\ (\A r \in Reads : SeesOwnValue(r)) =>
        \A r \in phi_reads : phi[r]

(***************************************************************************)
(* The definitions of the phi variables, although they may refer to each   *)
(* other in a cycle, leave the solver no choice: reads cannot justify each *)
(* other (casual_model.cpp:94-111, 251-253).                               *)
(***************************************************************************)
PhiDetermined ==
    Solved => \A f \in [phi_reads -> BOOLEAN] : PhiEquations(f) => f = phi

(***************************************************************************)
(* The observed trace is one of the solutions: no constraint contradicts   *)
(* it (casual_model.cpp:33-56, 86).                                        *)
(***************************************************************************)
ObservedOrderAllowed ==
    pc = "solve" =>
        /\ \A c \in mhb_constraints : c[1] < c[2]
        /\ \A c \in lock_constraints : (c[1].rel < c[2].acq) # (c[2].rel < c[1].acq)

InCommonRegion(c) ==
    \E l \in Locks : \A n \in {1, 2} :
        \E r \in RangeOf(lock_id_to_lock_region[l]) : containsEvent(r, c[n])

(***************************************************************************)
(* The two filters of filterCOPs only save work: no solution puts a        *)
(* candidate at one position whose events are ordered or are both inside   *)
(* a region of one lock (casual_model.cpp:3-11).                           *)
(***************************************************************************)
FiltersOnlySaveWork ==
    Solved => \A c \in getCOPs :
        hb(c[1], c[2]) \/ hb(c[2], c[1]) \/ InCommonRegion(c) => order[c[1]] # order[c[2]]

\* The events strictly before a position run as a legal execution: reads
\* return their values, a lock is acquired after its last holder released
\* it, and threads begin and are joined in order.
LegalUpTo(n) ==
    LET P == {e \in EID : order[e] < n}
        Of(type, x) == {e \in P : Type(e) = type /\ Target(e) = x}
    IN /\ \A r \in P : Type(r) = "Read" => SeesOwnValue(r)
       /\ \A l \in Locks : \A a, b \in Of("Acquire", l) :
              a # b /\ ~Lt(b, a) =>
                  \E d \in Of("Release", l) : Tid(d) = Tid(a) /\ Lt(a, d) /\ Lt(d, b)
       /\ \A b \in P : Type(b) = "Begin" => \E f \in Of("Fork", Tid(b)) : Lt(f, b)
       /\ \A j \in P : Type(j) = "Join" =>
              \E e \in P : Type(e) = "End" /\ Tid(e) = Target(j) /\ Lt(e, j)

(***************************************************************************)
(* A predicted race is real: in a trace that leaves no lock held, the      *)
(* events the solution puts before the race are a legal execution, after   *)
(* which both events of the pair are next in their threads.  The reads of  *)
(* the two racing threads need no premise; a read of a third thread is     *)
(* only right when a phi that covers it is true (casual_model.cpp:237-278).*)
(***************************************************************************)
RacesAreReal ==
    Solved /\ (\A l \in Locks : holder[l] = NoThread) =>
        \A c \in filtered_cops :
            /\ RaceConstraint(c)
            /\ \A r \in Reads : /\ order[r] < order[c[1]]
                                 /\ Tid(r) \notin {Tid(c[1]), Tid(c[2])}
                                 => Covered(r)
            => /\ LegalUpTo(order[c[1]])
               /\ \A n \in {1, 2} : \A e \in EID :
                      Tid(e) = Tid(c[n]) => (e < c[n] <=> order[e] < order[c[n]])

(***************************************************************************)
(* What the names in LocksetEngine say of it: it finds the lock two events *)
(* of different threads have in common (lockset_engine.hpp:9-24).  The     *)
(* code never does.                                                        *)
(***************************************************************************)
CommonLockFound ==
    pc = "solve" => \A c \in getCOPs : InCommonRegion(c) => hasCommonLock(c[1], c[2])

\* The thread of e acquired l before e and had not released it at e.
Protected(e, l) ==
    \E a \in 1 .. e : /\ Tid(a) = Tid(e) /\ Type(a) = "Acquire" /\ Target(a) = l
                     /\ \A d \in a .. e - 1 : ~(Tid(d) = Tid(e) /\ Type(d) = "Release" /\ Target(d) = l)

(***************************************************************************)
(* A lock region is where "events are protected by the lock" (lock_region. *)
(* hpp:9-10): two accesses made while holding one lock do not race.  The   *)
(* code drops the region that is still open where the trace ends.          *)
(***************************************************************************)
ProtectedEventsNeverRace ==
    Solved => \A c \in filtered_cops :
        (\E l \in Locks : Protected(c[1], l) /\ Protected(c[2], l)) => ~RaceConstraint(c)
=============================================================================
