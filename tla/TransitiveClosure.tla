------------------------- MODULE TransitiveClosure --------------------------
(***************************************************************************)
(* TransitiveClosure::Builder as the code runs it: the calls that group    *)
(* and relate events, then build, which writes the relations into a table  *)
(* and closes it with three nested loops that read the table they are      *)
(* writing.  One step is one assignment hb[i][j] of the innermost loop.    *)
(***************************************************************************)
EXTENDS Integers, FiniteSets

CONSTANTS
    EIDs,          \* the event identifiers
    MaxRelations   \* bound: how many relations the client records

VARIABLES
    eventToGroup, relations, groupCount,   \* as in ClosureBuilder
    pc,        \* "calls", "load", "close" or "done"
    hb,        \* the table, as the set of the pairs whose entry is true
    k, i, j    \* the loop counters

vars == <<eventToGroup, relations, groupCount, pc, hb, k, i, j>>
tableVars == <<pc, hb, k, i, j>>

Abstract == INSTANCE ClosureBuilder WITH
    built <- (pc = "done"),
    happens_before <- (IF pc = "done" THEN hb ELSE {})

Groups == Abstract!Groups

-----------------------------------------------------------------------------
Init ==
    /\ eventToGroup = [e \in EIDs |-> Abstract!NoGroup]
    /\ relations = {}
    /\ groupCount = 0
    /\ pc = "calls"
    /\ hb = {}
    /\ k = 0 /\ i = 0 /\ j = 0

CreateNewGroup(e) ==
    /\ pc = "calls" /\ Abstract!Ungrouped(e)
    /\ Abstract!CreateNewGroup(e)
    /\ UNCHANGED <<relations, tableVars>>

AddToGroup(e1, e2) ==
    /\ pc = "calls" /\ Abstract!Ungrouped(e1)
    /\ Abstract!AddToGroup(e1, e2)
    /\ UNCHANGED <<relations, tableVars>>

\* A trace lists the earlier event of a relation first: e1 < e2.
AddRelation(e1, e2) ==
    /\ pc = "calls" /\ e1 < e2
    /\ ~Abstract!Ungrouped(e1) /\ ~Abstract!Ungrouped(e2)
    /\ Cardinality(relations) < MaxRelations
    /\ Abstract!AddRelation(e1, e2)
    /\ UNCHANGED <<eventToGroup, groupCount, tableVars>>

CallBuild ==
    /\ pc = "calls"
    /\ pc' = "load"
    /\ UNCHANGED <<eventToGroup, relations, groupCount, hb, k, i, j>>

\* The first loop of build; it leaves with an empty table when there is no group.
LoadRelations ==
    /\ pc = "load"
    /\ hb' = {<<eventToGroup[r[1]], eventToGroup[r[2]]>> : r \in relations}
    /\ pc' = IF groupCount = 0 THEN "done" ELSE "close"
    /\ UNCHANGED <<eventToGroup, relations, groupCount, k, i, j>>

\* Mutant: the first factor has its indices swapped.
RelaxSwapped(ii, jj, kk) ==
    IF <<kk, ii>> \in hb /\ <<kk, jj>> \in hb THEN hb \cup {<<ii, jj>>} ELSE hb

\* hb[i][j] = hb[i][j] || (hb[i][k] && hb[k][j])
Relax(ii, jj, kk) ==
    IF <<ii, kk>> \in hb /\ <<kk, jj>> \in hb THEN hb \cup {<<ii, jj>>} ELSE hb

\* The counters after one iteration: j runs fastest, then i, then k.
Last == groupCount - 1

\* Mutants: the loop over k is the innermost one, or k is never incremented.
AdvanceInnermostK ==
    /\ k' = IF j = Last /\ i = Last /\ k = Last THEN k + 1 ELSE IF k = Last THEN 0 ELSE k + 1
    /\ j' = IF k = Last THEN (IF j = Last THEN 0 ELSE j + 1) ELSE j
    /\ i' = IF k = Last /\ j = Last THEN (IF i = Last THEN 0 ELSE i + 1) ELSE i

AdvanceKeepsK ==
    /\ j' = IF j = Last THEN 0 ELSE j + 1
    /\ i' = IF j = Last THEN (IF i = Last THEN 0 ELSE i + 1) ELSE i
    /\ k' = k

Advance ==
    /\ j' = IF j = Last THEN 0 ELSE j + 1
    /\ i' = IF j = Last THEN (IF i = Last THEN 0 ELSE i + 1) ELSE i
    /\ k' = IF j = Last /\ i = Last THEN k + 1 ELSE k

Close ==
    /\ pc = "close"
    /\ hb' = Relax(i, j, k)
    /\ Advance
    /\ pc' = IF k' = groupCount THEN "done" ELSE "close"
    /\ UNCHANGED <<eventToGroup, relations, groupCount>>

Next ==
    \/ \E e \in EIDs : CreateNewGroup(e)
    \/ \E e1, e2 \in EIDs : AddToGroup(e1, e2)
    \/ \E e1, e2 \in EIDs : AddRelation(e1, e2)
    \/ CallBuild
    \/ LoadRelations
    \/ Close

\* build is a sequential procedure: once called it runs to its end.
Fairness == WF_vars(LoadRelations) /\ WF_vars(Close)
Spec == Init /\ [][Next]_vars
FairSpec == Spec /\ Fairness

-----------------------------------------------------------------------------
TypeOK ==
    /\ eventToGroup \in [EIDs -> Groups \cup {Abstract!NoGroup}]
    /\ relations \subseteq EIDs \X EIDs
    /\ groupCount \in Nat
    /\ pc \in {"calls", "load", "close", "done"}
    /\ hb \subseteq Groups \X Groups
    /\ k \in Nat /\ i \in Nat /\ j \in Nat

(***************************************************************************)
(* The loops compute what build promises: the calls, then one atomic step  *)
(* to the reachability of the relations (transitive_closure.hpp:67-86).    *)
(***************************************************************************)
ImplementsBuilder == Abstract!BuilderSpec

(***************************************************************************)
(* A build that was called returns: the loops run out.                     *)
(***************************************************************************)
BuildReturns == (pc = "load") ~> (pc = "done")

-----------------------------------------------------------------------------
(***************************************************************************)
(* The inductive invariant.  Every entry of the table is justified by a    *)
(* path of relations; the table contains the relations; and it is          *)
(* transitive through the groups below k, except that the row of a pair    *)
(* the pass has not reached yet may still owe an entry that goes through k.*)
(***************************************************************************)
Justified ==
    \A p \in hb : Abstract!Reaches(Groups, Abstract!GroupRelations, p[1], p[2])

Passed(a, b) == a < i \/ (a = i /\ b < j)

TransitiveSoFar ==
    \A a, b \in Groups :
        /\ \A m \in 0 .. k - 1 : <<a, m>> \in hb /\ <<m, b>> \in hb =>
               \/ <<a, b>> \in hb
               \/ k < groupCount /\ <<a, k>> \in hb /\ <<k, b>> \in hb
        /\ k < groupCount /\ Passed(a, b) /\ <<a, k>> \in hb /\ <<k, b>> \in hb =>
               <<a, b>> \in hb

CountersOK ==
    /\ pc = "close" => i < groupCount /\ j < groupCount /\ k < groupCount
    /\ pc = "done" => k = groupCount
    /\ pc \in {"calls", "load"} => i = 0 /\ j = 0 /\ k = 0 /\ hb = {}

RelationsGrouped ==
    \A r \in relations : eventToGroup[r[1]] \in Groups /\ eventToGroup[r[2]] \in Groups

(***************************************************************************)
(* The loop invariant of build, on which the refinement rests              *)
(* (transitive_closure.hpp:77-83).                                         *)
(***************************************************************************)
LoopInv ==
    /\ CountersOK
    /\ RelationsGrouped
    /\ Justified
    /\ pc \in {"close", "done"} => Abstract!GroupRelations \subseteq hb
    /\ pc \in {"close", "done"} => TransitiveSoFar
=============================================================================
