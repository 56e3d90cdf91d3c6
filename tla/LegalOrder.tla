----------------------------- MODULE LegalOrder -----------------------------
(***************************************************************************)
(* What a witness has to be, said of a whole sequence of events of the     *)
(* trace: every thread runs its events in order and leaves none out;       *)
(* between two acquires of a lock the first thread releases it; a read     *)
(* returns what the last access of its variable left.  The logger promises *)
(* such sequences and the verifier decides whether they are.               *)
(***************************************************************************)
EXTENDS Trace

On(type, e, x) == Type(e) = type /\ Target(e) = x

\* All events before the n-th in its thread come before it.
InThreadOrder(w, n) ==
    \A d \in 1 .. w[n] - 1 : Tid(d) = Tid(w[n]) => \E m \in 1 .. n - 1 : w[m] = d

\* The positions between m and n of the events of one of these types on x.
Between(w, m, n, types, x) ==
    {p \in m + 1 .. n - 1 : Type(w[p]) \in types /\ Target(w[p]) = x}

LockFree(w, n) ==
    \A m \in 1 .. n - 1 : On("Acquire", w[m], Target(w[n])) =>
        \E p \in Between(w, m, n, {"Release"}, Target(w[n])) : Tid(w[p]) = Tid(w[m])

ReadsLast(w, n) ==
    \A m \in Between(w, 0, n, {"Read", "Write"}, Target(w[n])) :
        Between(w, m, n, {"Read", "Write"}, Target(w[n])) = {} => Value(w[m]) = Value(w[n])

ThreadsLegal(w) == \A n \in DOMAIN w : InThreadOrder(w, n)
LocksLegal(w) == \A n \in DOMAIN w : Type(w[n]) = "Acquire" => LockFree(w, n)
ReadsLegal(w) == \A n \in DOMAIN w : Type(w[n]) = "Read" => ReadsLast(w, n)

Legal(w) == ThreadsLegal(w) /\ LocksLegal(w) /\ ReadsLegal(w)
=============================================================================
