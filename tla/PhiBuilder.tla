----------------------------- MODULE PhiBuilder -----------------------------
(***************************************************************************)
(* How CasualModel collects the definitions of the phi variables.          *)
(* getPhiConc and getPhiAbs call each other: the definition of a read      *)
(* mentions the phi of the previous read of its thread and those of the    *)
(* previous reads of its good writes, whose definitions are built first    *)
(* unless they exist already or are under way.  What a read calls, and     *)
(* what solve calls for its candidates, is given.  The C++ call stack is a *)
(* variable.                                                               *)
(***************************************************************************)
EXTENDS Naturals, Sequences

CONSTANTS
    Reads,      \* the read events of the trace
    MaxCalls    \* bound on the length of a list of calls

ASSUME MaxCallsAssumption == MaxCalls \in Nat

VARIABLES
    calls,                  \* of each read: the reads its definition mentions
    roots,                  \* the reads solve calls getPhiConc for
    next_root,
    read_to_phi_conc_offset,
    read_to_phi_conc,       \* the vector of definitions
    stack,                  \* the calls of getPhiConc that have not returned
    pc

memoVars == <<read_to_phi_conc_offset, read_to_phi_conc>>
phiVars == <<calls, roots, next_root, memoVars, stack, pc>>

-----------------------------------------------------------------------------
\* An entry of the vector: the constant itself until the definition is known.
Placeholder(r) == [read |-> r, defined |-> FALSE]
Definition(r) == [read |-> r, defined |-> TRUE]

Known(r) == r \in DOMAIN read_to_phi_conc_offset
Slot(r) == 1 + read_to_phi_conc_offset[r]

\* A frame of the call stack: the read, and which of its calls comes next.
Frame(r, n) == [read |-> r, next |-> n]
Top == stack[Len(stack)]
Callers == SubSeq(stack, 1, Len(stack) - 1)

\* getPhiConc(r), called by the frames in s, up to its first call.
\* Mutant: only a complete definition counts as an entry.
EnterUnlessDefined(r, s) ==
    IF Known(r) /\ read_to_phi_conc[Slot(r)].defined
    THEN UNCHANGED memoVars /\ stack' = s
    ELSE /\ read_to_phi_conc_offset' =
                [q \in DOMAIN read_to_phi_conc_offset \cup {r} |->
                    IF q = r THEN Len(read_to_phi_conc) ELSE read_to_phi_conc_offset[q]]
         /\ read_to_phi_conc' = Append(read_to_phi_conc, Placeholder(r))
         /\ stack' = Append(s, Frame(r, 1))

\* Mutant: the offset is taken after the push, one past the end.
EnterAfterPush(r, s) ==
    IF Known(r)
    THEN UNCHANGED memoVars /\ stack' = s
    ELSE /\ read_to_phi_conc_offset' =
                [q \in DOMAIN read_to_phi_conc_offset \cup {r} |->
                    IF q = r THEN Len(read_to_phi_conc) + 1 ELSE read_to_phi_conc_offset[q]]
         /\ read_to_phi_conc' = Append(read_to_phi_conc, Placeholder(r))
         /\ stack' = Append(s, Frame(r, 1))

Enter(r, s) ==
    IF Known(r)
    THEN UNCHANGED memoVars /\ stack' = s
    ELSE /\ read_to_phi_conc_offset' =
                [q \in DOMAIN read_to_phi_conc_offset \cup {r} |->
                    IF q = r THEN Len(read_to_phi_conc) ELSE read_to_phi_conc_offset[q]]
         /\ read_to_phi_conc' = Append(read_to_phi_conc, Placeholder(r))
         /\ stack' = Append(s, Frame(r, 1))

\* solve asks for the phi of the next read before an event of a candidate.
CallFromSolve ==
    /\ pc = "build" /\ stack = <<>> /\ next_root <= Len(roots)
    /\ Enter(roots[next_root], <<>>)
    /\ next_root' = next_root + 1
    /\ UNCHANGED <<calls, roots, pc>>

\* The innermost call makes its next call, through getPhiAbs.
\* Mutant: it is not counted as made.
RecurseAgain ==
    /\ stack # <<>> /\ Top.next <= Len(calls[Top.read])
    /\ Enter(calls[Top.read][Top.next], stack)
    /\ UNCHANGED <<calls, roots, next_root, pc>>

Recurse ==
    /\ stack # <<>> /\ Top.next <= Len(calls[Top.read])
    /\ Enter(calls[Top.read][Top.next],
             Append(Callers, Frame(Top.read, Top.next + 1)))
    /\ UNCHANGED <<calls, roots, next_root, pc>>

\* Mutant: the definition goes to the end of the vector.
SlotOfLast(r) == Len(read_to_phi_conc)
DefinitionSlot(r) == Slot(r)

\* The innermost call stores its definition and returns.
SetDefinition ==
    /\ stack # <<>> /\ Top.next > Len(calls[Top.read])
    /\ read_to_phi_conc' =
           [read_to_phi_conc EXCEPT ![DefinitionSlot(Top.read)] = Definition(Top.read)]
    /\ stack' = Callers
    /\ UNCHANGED <<calls, roots, next_root, read_to_phi_conc_offset, pc>>

\* solve hands the definitions to the solver.
\* Mutant: it does so before all candidates have their constraint.
AddDefinitionsEarly ==
    /\ pc = "build" /\ stack = <<>>
    /\ pc' = "solve"
    /\ UNCHANGED <<calls, roots, next_root, memoVars, stack>>

AddDefinitions ==
    /\ pc = "build" /\ stack = <<>> /\ next_root > Len(roots)
    /\ pc' = "solve"
    /\ UNCHANGED <<calls, roots, next_root, memoVars, stack>>

-----------------------------------------------------------------------------
\* No definition mentions its own phi directly: a good write after the read
\* in its thread is filtered away.
PhiInit ==
    /\ calls \in [Reads -> UNION {[1 .. n -> Reads] : n \in 0 .. MaxCalls}]
    /\ \A r \in Reads : \A n \in DOMAIN calls[r] : calls[r][n] # r
    /\ roots \in UNION {[1 .. n -> Reads] : n \in 0 .. MaxCalls}
    /\ next_root = 1
    /\ read_to_phi_conc_offset = [r \in {} |-> 0]
    /\ read_to_phi_conc = <<>>
    /\ stack = <<>>
    /\ pc = "build"

PhiNext == CallFromSolve \/ Recurse \/ SetDefinition \/ AddDefinitions

PhiSpec == PhiInit /\ [][PhiNext]_phiVars /\ WF_phiVars(PhiNext)

-----------------------------------------------------------------------------
OnStack(r) == \E n \in DOMAIN stack : stack[n].read = r

\* The types; an offset points into the vector (casual_model.cpp:99-100).
PhiTypeOK ==
    /\ calls \in [Reads -> Seq(Reads)]
    /\ roots \in Seq(Reads)
    /\ next_root \in 1 .. Len(roots) + 1
    /\ DOMAIN read_to_phi_conc_offset \subseteq Reads
    /\ read_to_phi_conc_offset \in [DOMAIN read_to_phi_conc_offset -> Nat]
    /\ \A r \in DOMAIN read_to_phi_conc_offset :
           read_to_phi_conc_offset[r] < Len(read_to_phi_conc)
    /\ read_to_phi_conc \in Seq([read : Reads, defined : BOOLEAN])
    /\ stack \in Seq([read : Reads, next : Nat \ {0}])
    /\ pc \in {"build", "solve"}

(***************************************************************************)
(* At any moment of the recursion every read that has an entry has a slot  *)
(* of its own, which holds its definition, or its placeholder as long as   *)
(* its call has not returned (casual_model.cpp:99-107).                    *)
(***************************************************************************)
SlotsMatch ==
    \A r \in DOMAIN read_to_phi_conc_offset :
        /\ Slot(r) \in DOMAIN read_to_phi_conc
        /\ read_to_phi_conc[Slot(r)] = IF OnStack(r) THEN Placeholder(r) ELSE Definition(r)

(***************************************************************************)
(* The recursion is only as deep as there are reads: a read is on the call *)
(* stack at most once, however the definitions refer to each other         *)
(* (casual_model.cpp:98).                                                  *)
(***************************************************************************)
OnStackOnce == \A m, n \in DOMAIN stack : stack[m].read = stack[n].read => m = n

\* The calls of the reads of S stay in S.
ClosedUnderCalls(S) == \A r \in S : \A n \in DOMAIN calls[r] : calls[r][n] \in S
HasRoots(S) == \A n \in DOMAIN roots : roots[n] \in S

\* The reads that can be reached from solve's calls.
Needed == {r \in Reads : \A S \in SUBSET Reads : HasRoots(S) /\ ClosedUnderCalls(S) => r \in S}

(***************************************************************************)
(* The definitions that reach the solver are those of the reads that can   *)
(* be reached from the candidates, and no others; so every phi that a      *)
(* definition or a race constraint mentions is defined                     *)
(* (casual_model.cpp:94-120, 243-253).                                     *)
(***************************************************************************)
BuildsNeeded == pc = "solve" => DOMAIN read_to_phi_conc_offset = Needed

(***************************************************************************)
(* The recursion ends, although the calls may be cyclic.                   *)
(***************************************************************************)
Ends == <>(pc = "solve")
=============================================================================
