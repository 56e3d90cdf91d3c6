----------------------------- MODULE MCPrograms -----------------------------
(***************************************************************************)
(* The predictor on longer traces of chosen programs.  A program gives     *)
(* each thread the sequence of its events; every interleaving of them is a *)
(* trace, a read returns what the interleaving makes it return, and the    *)
(* trace may stop anywhere.                                                *)
(***************************************************************************)
EXTENDS CausalModel, TLC

CONSTANTS
    x, y, v0, v1,   \* model values for Vars and Values
    Programs        \* a set of functions from threads to sequences of events

Acq == <<"Acquire", 1>>
Rel == <<"Release", 1>>
R(var) == <<"Read", var>>
W(var, val) == <<"Write", var, val>>
B == <<"Begin", 0>>
E == <<"End", 0>>

\* An event of the trace is the one of the script, whatever a read returned.
Matches(e, s) ==
    /\ Type(e) = s[1] /\ Target(e) = s[2]
    /\ s[1] = "Write" => Value(e) = s[3]

Script(p, t) == IF t \in DOMAIN p THEN p[t] ELSE <<>>

Follows(programs) ==
    \E p \in programs : \A t \in Threads :
        /\ Len(EventsOf(t)) <= Len(Script(p, t))
        /\ \A n \in DOMAIN EventsOf(t) : Matches(EventsOf(t)[n], Script(p, t)[n])

Scripted == Follows(Programs)

\* Threads are grouped in any order; the programs of three threads have
\* theirs grouped in the order of their identifiers.
InOrder == \A t, u \in Threads : t < u /\ mhb_pos[u] > 0 => ThreadDone(t)

(***************************************************************************)
(* Two threads: own previous writes of the same and of another value, a    *)
(* previous read of another value, critical sections, and a read of y that *)
(* decides whether the accesses to x race.                                 *)
(***************************************************************************)
TwoThreadPrograms == {
    <<<<W(x, v0), R(x), W(x, v1), R(x)>>, <<R(x), W(x, v0), R(x)>>>>,
    <<<<R(x), R(x), R(x)>>, <<W(x, v0), W(x, v1), W(x, v0)>>>>,
    <<<<Acq, W(x, v0), Rel, R(x)>>, <<W(x, v1), Acq, R(x), Rel>>>>,
    <<<<R(x), W(y, v1)>>, <<R(y), W(x, v1)>>>>,
    <<<<W(x, v1), W(y, v1)>>, <<W(y, v0), R(y), R(x), W(x, v0)>>>> }

(***************************************************************************)
(* A thread that is forked and joined: accesses before, beside and after   *)
(* it, and a lock that both hold.                                          *)
(***************************************************************************)
ForkJoinPrograms == {
    (1 :> <<W(x, v0), <<"Fork", 4>>, W(x, v1), <<"Join", 4>>, R(x)>>)
        @@ (4 :> <<B, R(x), W(x, v0), E>>),
    (1 :> <<<<"Fork", 4>>, Acq, W(x, v0), Rel, <<"Join", 4>>>>)
        @@ (4 :> <<B, Acq, R(x), Rel, E>>) }

(***************************************************************************)
(* Three threads, where a write that a read may take its value from is     *)
(* itself feasible only if a read before it is.                            *)
(***************************************************************************)
ThreeThreadPrograms == {
    <<<<W(x, v1), W(x, v0)>>, <<R(x), W(y, v1)>>, <<R(y), R(x)>>>>,
    <<<<W(x, v0), R(x)>>, <<W(x, v1)>>, <<W(x, v0), R(x)>>>> }

(***************************************************************************)
(* Two writes, each in a critical section of one lock.                     *)
(***************************************************************************)
LockedPrograms == {<<<<Acq, W(x, v0), Rel>>, <<Acq, W(x, v1), Rel>>>>}
=============================================================================
