----------------------------- MODULE EventLayout ----------------------------
(***************************************************************************)
(* An event packed into one word: type, thread, target and value, from the *)
(* top.  A number is the set of the positions of its one bits, so a shift  *)
(* moves positions, and is no arithmetic.  The widths are parameters; in   *)
(* the code they are 4, 8, 20 and 32.                                      *)
(***************************************************************************)
EXTENDS Naturals

CONSTANTS TypeBits, ThreadBits, TargetBits, ValueBits

ASSUME WidthsAssumption ==
    /\ TypeBits \in Nat /\ ThreadBits \in Nat
    /\ TargetBits \in Nat /\ ValueBits \in Nat

TargetAt == ValueBits
ThreadAt == TargetAt + TargetBits
TypeAt == ThreadAt + ThreadBits
WordBits == TypeAt + TypeBits

Below(k) == 0 .. k - 1
Mask(w, k) == w \cap Below(k)
ShiftLeft(n, k) == Mask({b + k : b \in n}, WordBits)
ShiftRight(w, k) == {b - k : b \in {c \in w : c >= k}}

\* The fields are not masked.
createRawEvent(type, tid, target, val) ==
    ShiftLeft(type, TypeAt) \cup ShiftLeft(tid, ThreadAt)
    \cup ShiftLeft(target, TargetAt) \cup ShiftLeft(val, 0)

getEventType(w) == Mask(ShiftRight(w, TypeAt), TypeBits)
getThreadId(w) == Mask(ShiftRight(w, ThreadAt), ThreadBits)
getTargetId(w) == Mask(ShiftRight(w, TargetAt), TargetBits)
getTargetValue(w) == Mask(w, ValueBits)

Fits(n, k) == n \subseteq Below(k)
=============================================================================
