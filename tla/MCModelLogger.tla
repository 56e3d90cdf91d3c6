---------------------------- MODULE MCModelLogger ---------------------------
(***************************************************************************)
(* Witnesses of chosen programs, in every interleaving, and of chosen      *)
(* traces, too long for that.  A trace lists thread, type, target and      *)
(* value of its events; every solution of its constraints is looked at.    *)
(***************************************************************************)
EXTENDS ModelLogger, MCPrograms

CONSTANTS
    z,
    SmallLength,       \* bound on the length of other traces
    OrderedPrograms,   \* programs whose threads are grouped in one order
    Traces             \* a set of sequences of events

Ev(type, t, target, val) == [type |-> type, tid |-> t, target |-> target, value |-> val]
A(t, l) == Ev("Acquire", t, l, NoValue)
D(t, l) == Ev("Release", t, l, NoValue)
Rd(t, var, val) == Ev("Read", t, var, val)
Wr(t, var, val) == Ev("Write", t, var, val)

\* The trace is one of the given ones, and is read to its end.
Given ==
    \E s \in Traces :
        /\ Len(all_events) <= Len(s) /\ all_events = SubSeq(s, 1, Len(all_events))
        /\ pc # "trace" => Len(all_events) = Len(s)

\* Any short trace of two threads, a lock and a variable.
Small ==
    /\ Len(all_events) <= SmallLength
    /\ \A e \in EID : Tid(e) \in {1, 2} /\ Target(e) \notin {y, z} /\ Type(e) # "Fork"

Scenarios ==
    \/ Small
    \/ Follows(Programs)
    \/ InOrder /\ (Follows(OrderedPrograms) \/ Given)

AnyOrderPrograms == TwoThreadPrograms \cup ForkJoinPrograms

(***************************************************************************)
(* Thread 3 reads y and is in no race.                                     *)
(***************************************************************************)
ThirdThread == {
    <<Wr(1, y, v0), Wr(2, y, v1), Rd(3, y, v1), A(3, 1), D(3, 1), Wr(2, x, v1), Wr(1, x, v0)>> }

(***************************************************************************)
(* Thread 1 reads x inside two nested critical sections, the others race   *)
(* on y.                                                                   *)
(***************************************************************************)
NestedLocks == {
    <<A(1, 1), A(1, 2), Rd(1, x, v0), D(1, 2), D(1, 1), Rd(1, x, v0),
      Wr(2, x, v1), A(2, 1), D(2, 1), Wr(2, y, v1), Wr(3, y, v0)>> }

(***************************************************************************)
(* Thread 1 writes y and reads x in one critical section, thread 2 writes  *)
(* both.                                                                   *)
(***************************************************************************)
RaceInRegion == {
    <<A(1, 1), Wr(1, y, v0), Rd(1, x, v0), Rd(1, x, v0), D(1, 1), Wr(2, x, v1), Wr(2, y, v1)>> }

(***************************************************************************)
(* Thread 2 reads what thread 1 wrote to x in the critical section in      *)
(* which thread 1 reads y, for which it races with thread 3.               *)
(***************************************************************************)
WriteInRegion == {
    <<Wr(3, x, v0), A(1, 1), Wr(1, x, v1), Rd(1, y, v0), Rd(1, y, v0), D(1, 1),
      Rd(2, x, v1), Rd(2, x, v1), Wr(3, y, v1)>> }

(***************************************************************************)
(* The traces above, and one in which thread 2 reads x again outside of    *)
(* any critical section, after a value that a reordering may change.       *)
(***************************************************************************)
WitnessTraces == ThirdThread \cup RaceInRegion \cup WriteInRegion \cup {
    <<Wr(1, x, v0), A(1, 1), Wr(1, y, v1), D(1, 1), Rd(2, x, v0), A(2, 1), D(2, 1), Rd(2, x, v0),
      Wr(3, x, v1), Wr(3, y, v0)>> }
=============================================================================
