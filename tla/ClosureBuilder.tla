--------------------------- MODULE ClosureBuilder ---------------------------
(***************************************************************************)
(* What TransitiveClosure::Builder promises its client.  Events are put    *)
(* into numbered groups, relations are recorded between events, and build  *)
(* turns both into a table saying which group happens before which.  Here  *)
(* build is one step whose result is the reachability of the recorded      *)
(* relations; module TransitiveClosure refines it by the loops of the code *)
(* and module CausalModel uses it as it stands.                            *)
(***************************************************************************)
EXTENDS Integers

CONSTANT EIDs   \* the event identifiers that may be put into groups

ASSUME EIDsAssumption == EIDs \subseteq Nat

VARIABLES
    eventToGroup,    \* eventToGroup_: the group of each event, or NoGroup
    relations,       \* relations_: the recorded pairs of events
    groupCount,      \* groupCount_: groups are 0 .. groupCount - 1
    built,           \* build has returned
    happens_before   \* happens_before_: the pairs of groups whose entry is true

builderVars == <<eventToGroup, relations, groupCount, built, happens_before>>

NoGroup == -1
Groups == 0 .. groupCount - 1

(***************************************************************************)
(* b can be reached from a by one or more edges of R: b belongs to every   *)
(* set of nodes of G that contains the successors of a and is closed under *)
(* R.                                                                      *)
(***************************************************************************)
ClosedFrom(G, R, a, U) ==
    /\ \A x \in G : <<a, x>> \in R => x \in U
    /\ \A x \in U, y \in G : <<x, y>> \in R => y \in U

Reaches(G, R, a, b) == \A U \in SUBSET G : ClosedFrom(G, R, a, U) => b \in U

\* The recorded relations, as pairs of groups.
GroupRelations ==
    {<<eventToGroup[r[1]], eventToGroup[r[2]]>> : r \in relations}

Closure == {p \in Groups \X Groups : Reaches(Groups, GroupRelations, p[1], p[2])}

-----------------------------------------------------------------------------
BuilderInit ==
    /\ eventToGroup = [e \in EIDs |-> NoGroup]
    /\ relations = {}
    /\ groupCount = 0
    /\ built = FALSE
    /\ happens_before = {}

\* Mutant: the counter is incremented before the event gets its group.
CreateNewGroupPreIncrement(e) ==
    /\ eventToGroup' = [eventToGroup EXCEPT ![e] = groupCount + 1]
    /\ groupCount' = groupCount + 1

CreateNewGroup(e) ==
    /\ eventToGroup' = [eventToGroup EXCEPT ![e] = groupCount]
    /\ groupCount' = groupCount + 1

\* The assertion of the code: the event whose group is joined has one.
AddToGroup(e1, e2) ==
    /\ eventToGroup[e2] # NoGroup
    /\ eventToGroup' = [eventToGroup EXCEPT ![e1] = eventToGroup[e2]]
    /\ UNCHANGED groupCount

AddRelation(e1, e2) == relations' = relations \cup {<<e1, e2>>}

Build ==
    /\ ~built
    /\ built' = TRUE
    /\ happens_before' = Closure
    /\ UNCHANGED <<eventToGroup, relations, groupCount>>

-----------------------------------------------------------------------------
(***************************************************************************)
(* The client's calls, in any order it may make them: an event enters one  *)
(* group, once, and relations connect events that have a group.            *)
(***************************************************************************)
Ungrouped(e) == eventToGroup[e] = NoGroup

NewGroupCall(e) ==
    /\ ~built /\ Ungrouped(e)
    /\ CreateNewGroup(e)
    /\ UNCHANGED <<relations, built, happens_before>>

JoinGroupCall(e1, e2) ==
    /\ ~built /\ Ungrouped(e1)
    /\ AddToGroup(e1, e2)
    /\ UNCHANGED <<relations, built, happens_before>>

RelateCall(e1, e2) ==
    /\ ~built /\ ~Ungrouped(e1) /\ ~Ungrouped(e2)
    /\ AddRelation(e1, e2)
    /\ UNCHANGED <<eventToGroup, groupCount, built, happens_before>>

BuilderNext ==
    \/ \E e \in EIDs : NewGroupCall(e)
    \/ \E e1, e2 \in EIDs : JoinGroupCall(e1, e2) \/ RelateCall(e1, e2)
    \/ Build

BuilderSpec == BuilderInit /\ [][BuilderNext]_builderVars

-----------------------------------------------------------------------------
\* TransitiveClosure::happensBefore, once build has returned.
happensBefore(e1, e2) == <<eventToGroup[e1], eventToGroup[e2]>> \in happens_before
=============================================================================
