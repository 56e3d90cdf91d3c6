----------------------- MODULE TransitiveClosureProofs ----------------------
(***************************************************************************)
(* For every set of events: the loops of TransitiveClosure::Builder::build *)
(* keep their invariant, and implement the one-step build of               *)
(* ClosureBuilder.                                                         *)
(***************************************************************************)
EXTENDS TransitiveClosure, TLAPS

-----------------------------------------------------------------------------
(* Facts about reachability.                                               *)

\* An edge is a path.
LEMMA ReachesEdge ==
    ASSUME NEW G, NEW R, NEW a \in G, NEW b \in G, <<a, b>> \in R
    PROVE  Abstract!Reaches(G, R, a, b)
BY DEF Abstract!Reaches, Abstract!ClosedFrom

\* Paths compose.
LEMMA ReachesTransitive ==
    ASSUME NEW G, NEW R, NEW a \in G, NEW b \in G, NEW c \in G,
           Abstract!Reaches(G, R, a, b), Abstract!Reaches(G, R, b, c)
    PROVE  Abstract!Reaches(G, R, a, c)
<1> SUFFICES ASSUME NEW U \in SUBSET G, Abstract!ClosedFrom(G, R, a, U)
             PROVE  c \in U
    BY DEF Abstract!Reaches
<1>1. b \in U
    BY DEF Abstract!Reaches
<1>2. Abstract!ClosedFrom(G, R, b, U)
    BY <1>1 DEF Abstract!ClosedFrom
<1> QED
    BY <1>2 DEF Abstract!Reaches

\* A transitive relation that contains R and nothing unreachable is the
\* reachability of R.
LEMMA ClosureExact ==
    ASSUME NEW G, NEW R, NEW H \in SUBSET (G \X G),
           R \subseteq H,
           \A a, b, c \in G : <<a, b>> \in H /\ <<b, c>> \in H => <<a, c>> \in H,
           \A p \in H : Abstract!Reaches(G, R, p[1], p[2])
    PROVE  H = {p \in G \X G : Abstract!Reaches(G, R, p[1], p[2])}
<1> SUFFICES ASSUME NEW a \in G, NEW b \in G, Abstract!Reaches(G, R, a, b)
             PROVE  <<a, b>> \in H
    OBVIOUS
<1> DEFINE U == {x \in G : <<a, x>> \in H}
<1>1. Abstract!ClosedFrom(G, R, a, U)
    BY DEF Abstract!ClosedFrom
<1>2. U \in SUBSET G
    OBVIOUS
<1> HIDE DEF U
<1>3. b \in U
    BY <1>1, <1>2 DEF Abstract!Reaches
<1> QED
    BY <1>3 DEF U

-----------------------------------------------------------------------------
(* The inductive invariant, action by action.                              *)

IInv == TypeOK /\ LoopInv

LEMMA InitIInv == Init => IInv
BY DEF Init, IInv, TypeOK, LoopInv, CountersOK, RelationsGrouped, Justified, Groups,
       Abstract!Groups, Abstract!NoGroup

\* The calls leave the table empty and give every related event a group.
LEMMA CallsIInv ==
    ASSUME IInv,
           \/ \E e \in EIDs : CreateNewGroup(e)
           \/ \E e1, e2 \in EIDs : AddToGroup(e1, e2) \/ AddRelation(e1, e2)
           \/ CallBuild
    PROVE  IInv'
<1> USE DEF IInv, TypeOK, LoopInv, CountersOK, RelationsGrouped, Justified, Groups,
            Abstract!Groups, Abstract!NoGroup, Abstract!Ungrouped
<1>1. CASE \E e \in EIDs : CreateNewGroup(e)
    BY <1>1 DEF CreateNewGroup, Abstract!CreateNewGroup, tableVars
<1>2. CASE \E e1, e2 \in EIDs : AddToGroup(e1, e2)
    BY <1>2 DEF AddToGroup, Abstract!AddToGroup, tableVars
<1>3. CASE \E e1, e2 \in EIDs : AddRelation(e1, e2)
    BY <1>3 DEF AddRelation, Abstract!AddRelation, tableVars
<1>4. CASE CallBuild
    BY <1>4 DEF CallBuild
<1> QED
    BY <1>1, <1>2, <1>3, <1>4

\* Loading writes exactly the relations, each a path of one edge.
LEMMA LoadIInv == ASSUME IInv, LoadRelations PROVE IInv'
<1> USE DEF IInv, LoadRelations
<1>1. hb' = Abstract!GroupRelations'
    BY DEF Abstract!GroupRelations
<1>2. Groups' = Groups /\ groupCount \in Nat
    BY DEF Groups, Abstract!Groups, TypeOK
<1>3. hb' \subseteq Groups \X Groups
    BY DEF LoopInv, RelationsGrouped
<1>4. TypeOK'
    BY <1>2, <1>3 DEF TypeOK
<1>5. k' = 0 /\ i' = 0 /\ j' = 0
    BY DEF LoopInv, CountersOK
<1>6. CountersOK' /\ RelationsGrouped'
    BY <1>2, <1>5 DEF LoopInv, CountersOK, RelationsGrouped, Groups, Abstract!Groups
<1>7. Justified'
    BY <1>1, <1>2, <1>3, ReachesEdge DEF Justified
<1>8. TransitiveSoFar'
    BY <1>2, <1>5 DEF TransitiveSoFar, Passed, Groups, Abstract!Groups
<1> QED
    BY <1>1, <1>4, <1>6, <1>7, <1>8 DEF LoopInv

-----------------------------------------------------------------------------
(* One assignment of the innermost loop.                                   *)

\* The ranges of the counters and of the table before an assignment.
LEMMA CloseRanges ==
    ASSUME IInv, Close
    PROVE  /\ i \in Groups /\ j \in Groups /\ k \in Groups
           /\ groupCount \in Nat \ {0} /\ Last \in Nat
           /\ hb \in SUBSET (Groups \X Groups) /\ hb' \in SUBSET (Groups \X Groups)
           /\ hb \subseteq hb'
           /\ Groups' = Groups /\ Abstract!GroupRelations' = Abstract!GroupRelations
BY DEF IInv, TypeOK, LoopInv, CountersOK, Close, Relax, Last, Groups, Abstract!Groups,
       Abstract!GroupRelations

\* Row k and column k do not change during pass k.
LEMMA PivotUnchanged ==
    ASSUME IInv, Close, NEW a \in Groups
    PROVE  /\ <<a, k>> \in hb' <=> <<a, k>> \in hb
           /\ <<k, a>> \in hb' <=> <<k, a>> \in hb
BY CloseRanges DEF Close, Relax

\* Every entry stays justified.
LEMMA CloseJustified == ASSUME IInv, Close PROVE Justified'
<1> USE CloseRanges
<1>1. SUFFICES ASSUME NEW p \in hb'
               PROVE  Abstract!Reaches(Groups, Abstract!GroupRelations, p[1], p[2])
    BY DEF Justified
<1>2. CASE p \in hb
    BY <1>2 DEF IInv, LoopInv, Justified
<1>3. CASE p \notin hb
    <2>1. p = <<i, j>> /\ <<i, k>> \in hb /\ <<k, j>> \in hb
        BY <1>3 DEF Close, Relax
    <2>2. /\ Abstract!Reaches(Groups, Abstract!GroupRelations, i, k)
          /\ Abstract!Reaches(Groups, Abstract!GroupRelations, k, j)
        BY <2>1 DEF IInv, LoopInv, Justified
    <2> QED
        BY <2>1, <2>2, ReachesTransitive
<1> QED
    BY <1>2, <1>3

\* What goes through a finished group is in the table or goes through k.
LEMMA CloseBelow ==
    ASSUME IInv, Close, NEW a \in Groups, NEW b \in Groups, NEW m \in 0 .. k - 1,
           <<a, m>> \in hb', <<m, b>> \in hb'
    PROVE  <<a, b>> \in hb' \/ (<<a, k>> \in hb' /\ <<k, b>> \in hb')
<1> USE CloseRanges
<1>0. /\ k < groupCount
      /\ \A c, d \in Groups : \A n \in 0 .. k - 1 :
             <<c, n>> \in hb /\ <<n, d>> \in hb =>
                 <<c, d>> \in hb \/ (<<c, k>> \in hb /\ <<k, d>> \in hb)
    BY DEF IInv, LoopInv, CountersOK, TransitiveSoFar, Close
<1>1. CASE <<a, m>> \in hb /\ <<m, b>> \in hb
    BY <1>0, <1>1
<1>2. CASE <<a, m>> \notin hb /\ <<m, b>> \in hb
    <2>1. a = i /\ m = j /\ <<i, k>> \in hb /\ <<k, j>> \in hb
        BY <1>2 DEF Close, Relax
    <2>2. <<k, b>> \in hb
        BY <1>0, <1>2, <2>1
    <2> QED
        BY <2>1, <2>2
<1>3. CASE <<a, m>> \in hb /\ <<m, b>> \notin hb
    <2>1. m = i /\ b = j /\ <<i, k>> \in hb /\ <<k, j>> \in hb
        BY <1>3 DEF Close, Relax
    <2>2. <<a, k>> \in hb
        BY <1>0, <1>3, <2>1
    <2> QED
        BY <2>1, <2>2
<1>4. CASE <<a, m>> \notin hb /\ <<m, b>> \notin hb
    <2>1. <<a, m>> = <<i, j>> /\ <<m, b>> = <<i, j>>
        BY <1>4 DEF Close, Relax
    <2> QED
        BY <2>1
<1> QED
    BY <1>1, <1>2, <1>3, <1>4

\* The pairs passed, the current one included, owe nothing that goes through k.
LEMMA ClosePassed ==
    ASSUME IInv, Close, NEW a \in Groups, NEW b \in Groups,
           Passed(a, b) \/ (a = i /\ b = j),
           <<a, k>> \in hb', <<k, b>> \in hb'
    PROVE  <<a, b>> \in hb'
<1> USE CloseRanges
<1>1. <<a, k>> \in hb /\ <<k, b>> \in hb
    BY PivotUnchanged
<1>2. CASE Passed(a, b)
    BY <1>1, <1>2 DEF IInv, LoopInv, CountersOK, TransitiveSoFar, Close
<1>3. CASE a = i /\ b = j
    BY <1>1, <1>3 DEF Close, Relax
<1> QED
    BY <1>2, <1>3

\* Within a pass the current pair becomes a passed one; at the end of a pass
\* every pair has been passed, and the next pass starts afresh.
LEMMA CloseCounters ==
    ASSUME IInv, Close
    PROVE  /\ i' \in Nat /\ j' \in Nat /\ k' \in Nat
           /\ i' < groupCount /\ j' < groupCount
           /\ \/ /\ k' = k
                 /\ \A a, b \in Groups : Passed(a, b)' <=> Passed(a, b) \/ (a = i /\ b = j)
              \/ /\ k' = k + 1
                 /\ \A a, b \in Groups : Passed(a, b) \/ (a = i /\ b = j)
                 /\ \A a, b \in Groups : ~Passed(a, b)'
BY CloseRanges DEF Close, Advance, Last, Passed, Groups, Abstract!Groups

LEMMA CloseTransitive == ASSUME IInv, Close PROVE TransitiveSoFar'
<1> USE CloseRanges
<1>0. k < groupCount
    BY DEF Groups, Abstract!Groups
<1>1. CASE k' = k /\ \A a, b \in Groups : Passed(a, b)' <=> Passed(a, b) \/ (a = i /\ b = j)
    BY <1>0, <1>1, CloseBelow, ClosePassed DEF TransitiveSoFar, Close
<1>2. CASE /\ k' = k + 1
           /\ \A a, b \in Groups : Passed(a, b) \/ (a = i /\ b = j)
           /\ \A a, b \in Groups : ~Passed(a, b)'
    <2>1. \A a, b \in Groups : <<a, k>> \in hb' /\ <<k, b>> \in hb' => <<a, b>> \in hb'
        BY <1>2, ClosePassed
    <2>2. \A a, b \in Groups : \A m \in 0 .. k - 1 :
              <<a, m>> \in hb' /\ <<m, b>> \in hb' => <<a, b>> \in hb'
        BY <2>1, CloseBelow
    <2>3. \A m \in 0 .. k' - 1 : m = k \/ m \in 0 .. k - 1
        BY <1>2 DEF Groups, Abstract!Groups
    <2> QED
        BY <1>2, <2>1, <2>2, <2>3 DEF TransitiveSoFar
<1> QED
    BY <1>1, <1>2, CloseCounters

LEMMA CloseIInv == ASSUME IInv, Close PROVE IInv'
<1> USE CloseRanges, CloseCounters
<1>1. TypeOK'
    BY DEF IInv, TypeOK, Close, Abstract!NoGroup
<1>2. CountersOK'
    BY DEF IInv, LoopInv, CountersOK, Close, Groups, Abstract!Groups
<1>3. RelationsGrouped'
    BY DEF IInv, LoopInv, RelationsGrouped, Close
<1>4. Abstract!GroupRelations' \subseteq hb'
    BY DEF IInv, LoopInv, Close
<1> QED
    BY <1>1, <1>2, <1>3, <1>4, CloseJustified, CloseTransitive DEF IInv, LoopInv

LEMMA NextIInv == IInv /\ [Next]_vars => IInv'
<1> SUFFICES ASSUME IInv, [Next]_vars PROVE IInv'
    OBVIOUS
<1>1. CASE UNCHANGED vars
    <2>1. UNCHANGED <<Groups, Abstract!GroupRelations>>
        BY <1>1 DEF vars, Groups, Abstract!Groups, Abstract!GroupRelations
    <2> QED
        BY <1>1, <2>1 DEF vars, IInv, TypeOK, LoopInv, CountersOK, RelationsGrouped, Justified,
                          TransitiveSoFar, Passed
<1>2. CASE LoadRelations
    BY <1>2, LoadIInv
<1>3. CASE Close
    BY <1>3, CloseIInv
<1> QED
    BY <1>1, <1>2, <1>3, CallsIInv DEF Next

\* In every reachable state the builder's variables have their types and the
\* loop invariant of build holds: nothing unjustified is ever entered, and what
\* is missing goes through the groups the outermost loop has yet to reach.
THEOREM LoopInvariant == Spec => [](TypeOK /\ LoopInv)
<1>1. IInv => TypeOK /\ LoopInv
    BY DEF IInv
<1> QED
    BY InitIInv, NextIInv, <1>1, PTL DEF Spec

\* Every event has no group or one below the counter, and the table of build
\* relates only such groups, for any number of calls and of iterations
\* (transitive_closure.hpp:42-86): no index is out of its range.
THEOREM BuilderTypes == Spec => []TypeOK
    BY LoopInvariant, PTL

-----------------------------------------------------------------------------
(* Refinement.                                                             *)

\* Where build returns, the table is the reachability of the relations.
LEMMA DoneExact == IInv /\ pc = "done" => hb = Abstract!Closure
<1> SUFFICES ASSUME IInv, pc = "done" PROVE hb = Abstract!Closure
    OBVIOUS
<1>1. /\ Groups = Abstract!Groups /\ groupCount \in Nat /\ k = groupCount
      /\ hb \in SUBSET (Groups \X Groups)
      /\ Abstract!GroupRelations \subseteq hb
    BY DEF IInv, TypeOK, LoopInv, CountersOK, Groups
<1>2. \A a, b, c \in Groups : <<a, b>> \in hb /\ <<b, c>> \in hb => <<a, c>> \in hb
    <2>1. TransitiveSoFar
        BY DEF IInv, LoopInv
    <2>2. ~(k < groupCount)
        BY <1>1
    <2>3. \A a, b \in Groups : \A m \in 0 .. k - 1 :
              <<a, m>> \in hb /\ <<m, b>> \in hb => <<a, b>> \in hb
        BY <2>1, <2>2, Zenon DEF TransitiveSoFar
    <2>4. Groups = 0 .. k - 1
        BY <1>1 DEF Abstract!Groups
    <2> QED
        BY <2>3, <2>4
<1>3. \A p \in hb : Abstract!Reaches(Groups, Abstract!GroupRelations, p[1], p[2])
    BY DEF IInv, LoopInv, Justified
<1> QED
    BY <1>1, <1>2, <1>3, ClosureExact DEF Abstract!Closure

LEMMA DoneExactNext == (IInv /\ pc = "done" => hb = Abstract!Closure)'
BY DoneExact, PTL

LEMMA InitRefines == Init => Abstract!BuilderInit
BY DEF Init, Abstract!BuilderInit

\* A call is a call, the last step of the loops is Build, and every other step
\* of build changes nothing the client can see.
LEMMA StepRefines ==
    ASSUME IInv, IInv', [Next]_vars
    PROVE  [Abstract!BuilderNext]_(Abstract!builderVars)
<1> USE DEF Abstract!builderVars
<1>1. CASE UNCHANGED vars
    BY <1>1 DEF vars
<1>2. ASSUME NEW e \in EIDs, CreateNewGroup(e) PROVE Abstract!NewGroupCall(e)
    BY <1>2 DEF CreateNewGroup, Abstract!NewGroupCall, tableVars
<1>3. ASSUME NEW e1 \in EIDs, NEW e2 \in EIDs, AddToGroup(e1, e2)
      PROVE  Abstract!JoinGroupCall(e1, e2)
    BY <1>3 DEF AddToGroup, Abstract!JoinGroupCall, tableVars
<1>4. ASSUME NEW e1 \in EIDs, NEW e2 \in EIDs, AddRelation(e1, e2)
      PROVE  Abstract!RelateCall(e1, e2)
    BY <1>4 DEF AddRelation, Abstract!RelateCall, tableVars
<1>5. CASE CallBuild
    BY <1>5 DEF CallBuild
<1>6. CASE LoadRelations \/ Close
    <2>1. /\ pc # "done" /\ pc' \in {"close", "done"}
          /\ UNCHANGED <<eventToGroup, relations, groupCount>>
        BY <1>6 DEF LoadRelations, Close
    <2>2. CASE pc' = "close"
        BY <2>1, <2>2
    <2>3. CASE pc' = "done"
        <3>1. hb' = Abstract!Closure'
            BY <2>3, DoneExactNext
        <3>2. Abstract!Closure' = Abstract!Closure
            BY <2>1 DEF Abstract!Closure, Abstract!Groups, Abstract!GroupRelations
        <3> QED
            BY <2>1, <2>3, <3>1, <3>2 DEF Abstract!BuilderNext, Abstract!Build
    <2> QED
        BY <2>1, <2>2, <2>3
<1> QED
    BY <1>1, <1>2, <1>3, <1>4, <1>5, <1>6 DEF Next, Abstract!BuilderNext

\* The loops of build implement the builder: seen from its client, build is
\* one step that fills the table with the reachability of the relations.
THEOREM BuilderRefinement == Spec => ImplementsBuilder
<1>1. Spec => []IInv
    BY InitIInv, NextIInv, PTL DEF Spec
<1>2. IInv /\ IInv' /\ [Next]_vars => [Abstract!BuilderNext]_(Abstract!builderVars)
    BY StepRefines
<1> QED
    BY <1>1, <1>2, InitRefines, PTL DEF Spec, ImplementsBuilder, Abstract!BuilderSpec
=============================================================================
