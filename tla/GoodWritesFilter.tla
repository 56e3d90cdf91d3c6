--------------------------- MODULE GoodWritesFilter --------------------------
(***************************************************************************)
(* generalGoodWritesFilter: std::remove_if moves the writes that stay to   *)
(* the front of the vector, one after the other, and asks of each write    *)
(* whether another write of the same vector comes between it and the read. *)
(* The vector is being overwritten while it is asked.  The part of         *)
(* remove_if that looks for the first write to go is the same loop, with   *)
(* result = first.  Events are their identifiers.                          *)
(***************************************************************************)
EXTENDS Naturals, Sequences

CONSTANTS
    Events,     \* identifiers, in trace order
    MaxWrites   \* bound on the length of the vector

ASSUME FilterAssumption == Events \subseteq Nat /\ MaxWrites \in Nat

VARIABLES
    mhb,          \* the pairs of hb
    read,         \* the read
    good,         \* its good writes, as getGoodWritesForRead returned them
    goodWrites,   \* the vector
    first, result,
    loop

filterVars == <<mhb, read, good, goodWrites, first, result, loop>>

hb(a, b) == <<a, b>> \in mhb

\* Mutant: only the writes that are known to stay are asked.
BetweenKept(w) ==
    \E i \in 1 .. result - 1 : hb(w, goodWrites[i]) /\ hb(goodWrites[i], read)

\* any_of over the vector as it is.
Shadowed(w) ==
    \E i \in DOMAIN goodWrites : hb(w, goodWrites[i]) /\ hb(goodWrites[i], read)

Goes(w) == hb(read, w) \/ Shadowed(w)

Keep ==
    /\ loop = "scan" /\ first <= Len(goodWrites) /\ ~Goes(goodWrites[first])
    /\ goodWrites' = [goodWrites EXCEPT ![result] = goodWrites[first]]
    /\ result' = result + 1
    /\ first' = first + 1
    /\ UNCHANGED <<mhb, read, good, loop>>

Remove ==
    /\ loop = "scan" /\ first <= Len(goodWrites) /\ Goes(goodWrites[first])
    /\ first' = first + 1
    /\ UNCHANGED <<mhb, read, good, goodWrites, result, loop>>

Erase ==
    /\ loop = "scan" /\ first > Len(goodWrites)
    /\ goodWrites' = SubSeq(goodWrites, 1, result - 1)
    /\ loop' = "done"
    /\ UNCHANGED <<mhb, read, good, first, result>>

-----------------------------------------------------------------------------
Transitive(R) == \A p, q \in R : p[2] = q[1] => <<p[1], q[2]>> \in R
Increasing(s) == \A i, j \in DOMAIN s : i < j => s[i] < s[j]

\* hb is a part of the trace order; the writes of a value are listed in it.
FilterInit ==
    /\ read \in Events
    /\ good \in UNION {[1 .. n -> Events \ {read}] : n \in 0 .. MaxWrites} /\ Increasing(good)
    /\ mhb \in SUBSET {p \in Events \X Events : p[1] < p[2]} /\ Transitive(mhb)
    /\ goodWrites = good
    /\ first = 1 /\ result = 1
    /\ loop = "scan"

FilterNext == Keep \/ Remove \/ Erase

FilterSpec == FilterInit /\ [][FilterNext]_filterVars

-----------------------------------------------------------------------------
Elements(s) == {s[i] : i \in DOMAIN s}

\* The writes the comment wants to stay: not after the read, and with no other
\* good write between them and it.
Wanted == {w \in Elements(good) :
              /\ ~hb(read, w)
              /\ \A v \in Elements(good) : ~(hb(w, v) /\ hb(v, read))}

(***************************************************************************)
(* The filter leaves what it would leave if it asked an untouched copy of  *)
(* the vector, in the same order (casual_model.hpp:84-102).                *)
(***************************************************************************)
FilterExact ==
    loop = "done" => Elements(goodWrites) = Wanted /\ Increasing(goodWrites)
=============================================================================
