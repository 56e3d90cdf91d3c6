----------------------------- MODULE ModelLogger ----------------------------
(***************************************************************************)
(* logWitnessPrefix: a solution in which a candidate pair races is written *)
(* out as a sequence of events.  The events are sorted by position and     *)
(* written up to the race; a thread is cut at its first read whose phi is  *)
(* false, or rather at the acquire that encloses it; the pair comes last.  *)
(* Events at one position are written in any order, as std::sort leaves    *)
(* it, and one that no constraint names may have no value in the model.    *)
(***************************************************************************)
EXTENDS CausalModel, LegalOrder

VARIABLES
    cop,           \* the pair e1, e2 of the call
    event_order,   \* the events of the sorted vector the loop has not reached
    witness        \* the events written

loggerVars == <<cop, event_order, witness>>
causalVars == <<programVars, all_events, thread_id_to_thread, mapVars, builderVars,
                constraintVars, solverVars>>

-----------------------------------------------------------------------------
(* The first loop: which events of a thread are cut off.                   *)

\* The least of a set of events, or the null event.
FirstOf(S) == IF S = {} THEN NullEvent ELSE CHOOSE e \in S : \A d \in S : e <= d

CutAt(r) == IF getPrevAcq(r) # NullEvent THEN getPrevAcq(r) ELSE r

firstInfeasibleEventInThread(t) ==
    FirstOf({CutAt(r) : r \in {q \in phi_reads : Tid(q) = t /\ ~phi[q]}})

\* Mutant: the first infeasible event itself is written.
CutAfter(e) ==
    LET first == firstInfeasibleEventInThread(Tid(e)) IN first # NullEvent /\ first < e

Cut(e) ==
    LET first == firstInfeasibleEventInThread(Tid(e)) IN first # NullEvent /\ first <= e

\* Events that occur in no constraint of the query for c.
Named(c) ==
    {c[1], c[2]} \cup (UNION {{m[1], m[2]} : m \in mhb_constraints})
    \cup (UNION {{r} \cup generalGoodWritesFilter(r) \cup generalBadWritesFilter(r) :
                     r \in {q \in phi_reads : Sources(q) # {}}})

\* solve: the check for c was satisfiable, and this is the solution.
LogWitnessPrefix(c) ==
    /\ pc = "sat" /\ c \in filtered_cops /\ RaceConstraint(c)
    /\ pc' = "write"
    /\ cop' = c
    /\ \E left_out \in SUBSET (EID \ Named(c)) : event_order' = EID \ left_out
    /\ UNCHANGED <<causalVars, witness>>

-----------------------------------------------------------------------------
(* The second loop, over the sorted vector.                                *)

Reached(e) ==
    /\ pc = "write" /\ e \in event_order
    /\ \A d \in event_order : order[e] <= order[d]

\* Mutant: the loop ends one position late.
PastRaceByTwo(e) == order[e] > 1 + order[cop[1]] \/ order[e] > 1 + order[cop[2]]
PastRace(e) == order[e] > order[cop[1]] \/ order[e] > order[cop[2]]

InPair(e) == e \in {cop[1], cop[2]}

Leave(e) ==
    /\ Reached(e) /\ (Cut(e) \/ (InPair(e) /\ ~PastRace(e)))
    /\ event_order' = event_order \ {e}
    /\ UNCHANGED <<causalVars, pc, cop, witness>>

WriteEvent(e) ==
    /\ Reached(e) /\ ~Cut(e) /\ ~PastRace(e) /\ ~InPair(e)
    /\ event_order' = event_order \ {e}
    /\ witness' = Append(witness, e)
    /\ UNCHANGED <<causalVars, pc, cop>>

\* The loop ends or breaks; the pair is written in the order of its positions.
WritePair ==
    /\ pc = "write"
    /\ event_order = {} \/ \E e \in event_order : Reached(e) /\ ~Cut(e) /\ PastRace(e)
    /\ witness' = witness \o
           IF order[cop[1]] < order[cop[2]] THEN <<cop[1], cop[2]>> ELSE <<cop[2], cop[1]>>
    /\ pc' = "logged"
    /\ UNCHANGED <<causalVars, cop, event_order>>

LoggerInit == Init /\ cop = <<NullEvent, NullEvent>> /\ event_order = {} /\ witness = <<>>

LoggerNext ==
    \/ Next /\ UNCHANGED loggerVars
    \/ \E c \in filtered_cops : LogWitnessPrefix(c)
    \/ \E e \in event_order : Leave(e) \/ WriteEvent(e)
    \/ WritePair

LoggerSpec == LoggerInit /\ [][LoggerNext]_<<vars, loggerVars>>

-----------------------------------------------------------------------------
Logged == pc = "logged"

\* No event is written twice, nor before the loop has reached it.
LoggerTypeOK ==
    /\ pc \notin {"write", "logged"} => CausalTypeOK /\ witness = <<>>
    /\ pc \in {"write", "logged"} =>
           /\ cop \in filtered_cops
           /\ event_order \subseteq EID
           /\ \A n \in DOMAIN witness : witness[n] \in EID \ event_order
           /\ \A m, n \in DOMAIN witness : witness[m] = witness[n] => m = n

Prefix == SubSeq(witness, 1, Len(witness) - 2)

\* After the prefix, both events of the pair are next in their threads.
RaceIsNext ==
    \A n \in {1, 2} : \A d \in 1 .. cop[n] - 1 :
        Tid(d) = Tid(cop[n]) => d \in RangeOf(Prefix)

InfeasibleReads(e) == {q \in phi_reads : ~phi[q] /\ Tid(q) = Tid(e)}

\* Every read up to the race returns its own value, for all the phis say, or
\* is to be left out.
ReadsAccounted ==
    \A r \in Reads : order[r] <= order[cop[1]] /\ ~InPair(r) =>
        Covered(r) \/ \E q \in InfeasibleReads(r) : q <= r

\* An event precedes an infeasible read in one critical section.
LostWithRegion(e) == \E q \in InfeasibleReads(e) : e < q /\ getPrevAcq(q) \in 1 .. e

\* A thread is cut where it holds a lock.
CutInRegion(t) ==
    LET first == firstInfeasibleEventInThread(t)
    IN first # NullEvent /\ \E l \in Locks : Protected(first, l)

(***************************************************************************)
(* A witness is legal and leads to the race, as far as the cuts let it:    *)
(* threads run in order; locks are consistent unless a thread was cut      *)
(* while holding one; reads get their values, if phis account for all of   *)
(* them, and the race is next, unless an infeasible read takes events of   *)
(* its critical section with it (model_logger.cpp:27-92).  The trace       *)
(* leaves no lock held.                                                    *)
(***************************************************************************)
WitnessIsReal ==
    Logged /\ (\A l \in Locks : holder[l] = NoThread) =>
        /\ ThreadsLegal(Prefix)
        /\ (\A t \in Threads : ~CutInRegion(t)) => LocksLegal(Prefix)
        /\ (\A e \in EID : ~LostWithRegion(e)) =>
               RaceIsNext /\ (ReadsAccounted => ReadsLegal(Prefix))

(***************************************************************************)
(* "If its a lock, ensure it is consistent" (verifier.cpp:56).  A thread   *)
(* that is cut inside a region keeps the lock of an outer region, and the  *)
(* witness goes on to acquire it in another thread.                        *)
(***************************************************************************)
WitnessLocksLegal == Logged => LocksLegal(Prefix)
=============================================================================
