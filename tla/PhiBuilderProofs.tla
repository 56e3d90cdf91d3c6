--------------------------- MODULE PhiBuilderProofs --------------------------
(***************************************************************************)
(* For every set of reads and every pattern of calls, the recursion of     *)
(* getPhiConc keeps each definition in a slot of its own, has no read on   *)
(* its stack twice, and defines exactly the phis that can be reached.  For *)
(* every ordering of the events and every vector in trace order, the       *)
(* in-place filter of the good writes leaves what one that asks a copy     *)
(* would leave.                                                            *)
(***************************************************************************)
EXTENDS PhiBuilder, GoodWritesFilter, SequenceTheorems, TLAPS

Memo == DOMAIN read_to_phi_conc_offset
Frames == [read : Reads, next : Nat \ {0}]

\* No two reads share a slot.
SlotsDistinct ==
    \A q, r \in Memo : Slot(q) = Slot(r) => q = r

\* The reads on the stack have entries, and so have the reads they called.
StackKnown ==
    \A n \in DOMAIN stack :
        /\ stack[n].read \in Memo
        /\ stack[n].next <= Len(calls[stack[n].read]) + 1
        /\ \A m \in 1 .. stack[n].next - 1 : calls[stack[n].read][m] \in Memo

\* A read whose call has returned has called all its reads.
ReturnedComplete ==
    \A r \in Memo : ~OnStack(r) => \A m \in DOMAIN calls[r] : calls[r][m] \in Memo

RootsKnown == \A n \in 1 .. next_root - 1 : roots[n] \in Memo

OnlyNeeded == Memo \subseteq Needed

SearchInv ==
    /\ SlotsDistinct /\ SlotsMatch
    /\ StackKnown /\ OnStackOnce /\ ReturnedComplete
    /\ OnlyNeeded

Ended == pc = "solve" => stack = <<>> /\ next_root = Len(roots) + 1

PhiInv == PhiTypeOK /\ SearchInv /\ RootsKnown /\ Ended

-----------------------------------------------------------------------------
(* What Enter does with a stack s that differs from the present one only   *)
(* in how far the innermost call has come.                                 *)

\* s has the frames of the stack, all of whose calls but r have entries.
Resumes(s, r) ==
    /\ s \in Seq(Frames) /\ Len(s) = Len(stack)
    /\ \A n \in DOMAIN s :
           /\ s[n].read = stack[n].read
           /\ s[n].next <= Len(calls[s[n].read]) + 1
           /\ \A m \in 1 .. s[n].next - 1 :
                  calls[s[n].read][m] \in Memo \/ calls[s[n].read][m] = r

LEMMA EnterKnown ==
    ASSUME PhiTypeOK, SearchInv, NEW r \in Reads, NEW s, Resumes(s, r),
           Known(r), Enter(r, s), UNCHANGED <<calls, roots>>
    PROVE  /\ stack' \in Seq(Frames)
           /\ UNCHANGED memoVars
           /\ SearchInv'
<1>1. stack' = s /\ UNCHANGED memoVars /\ DOMAIN s = DOMAIN stack
    BY DEF Enter, Resumes, PhiTypeOK, Frames
<1>2. \A q : OnStack(q)' <=> OnStack(q)
    BY <1>1 DEF OnStack, Resumes
<1>3. SlotsDistinct'
    BY <1>1 DEF SearchInv, SlotsDistinct, Memo, Slot, memoVars
<1>4. SlotsMatch'
    BY <1>1, <1>2 DEF SearchInv, SlotsMatch, Slot, memoVars
<1>5. StackKnown'
    <2>1. /\ calls' = calls /\ Memo' = Memo /\ r \in Memo
          /\ stack' = s
        BY <1>1 DEF Memo, memoVars, Known
    <2>2. ASSUME NEW n \in DOMAIN s
          PROVE  /\ s[n].read \in Memo
                 /\ s[n].next <= Len(calls[s[n].read]) + 1
                 /\ \A m \in 1 .. s[n].next - 1 : calls[s[n].read][m] \in Memo
        BY <1>1, <2>1, <2>2 DEF Resumes, SearchInv, StackKnown
    <2> QED
        BY <2>1, <2>2 DEF StackKnown
<1>6. OnStackOnce'
    BY <1>1 DEF SearchInv, OnStackOnce, Resumes
<1>7. ReturnedComplete'
    BY <1>1, <1>2 DEF SearchInv, ReturnedComplete, Memo, memoVars
<1>8. OnlyNeeded'
    BY <1>1 DEF SearchInv, OnlyNeeded, Needed, HasRoots, ClosedUnderCalls, Memo, memoVars
<1> QED
    BY <1>1, <1>3, <1>4, <1>5, <1>6, <1>7, <1>8 DEF SearchInv, Resumes

LEMMA EnterNew ==
    ASSUME PhiTypeOK, SearchInv, NEW r \in Reads, NEW s, Resumes(s, r),
           r \in Needed, ~Known(r), Enter(r, s), UNCHANGED <<calls, roots>>
    PROVE  /\ stack' \in Seq(Frames)
           /\ Memo' = Memo \cup {r}
           /\ read_to_phi_conc_offset' \in [Memo' -> Nat]
           /\ \A q \in Memo' : read_to_phi_conc_offset'[q] < Len(read_to_phi_conc')
           /\ read_to_phi_conc' \in Seq([read : Reads, defined : BOOLEAN])
           /\ SearchInv'
<1> USE DEF Memo
<1>1. /\ Memo' = Memo \cup {r}
      /\ \A q \in Memo : Slot(q)' = Slot(q)
      /\ Slot(r)' = Len(read_to_phi_conc) + 1
    <2>1. read_to_phi_conc_offset' =
              [q \in Memo \cup {r} |->
                  IF q = r THEN Len(read_to_phi_conc) ELSE read_to_phi_conc_offset[q]]
        BY DEF Enter, Known
    <2>2. Len(read_to_phi_conc) \in Nat
        BY DEF PhiTypeOK
    <2>3. r \notin Memo
        BY DEF Known
    <2> QED
        BY <2>1, <2>2, <2>3 DEF Slot
<1>2. read_to_phi_conc' = Append(read_to_phi_conc, Placeholder(r))
    BY DEF Enter
<1>3. /\ Placeholder(r) \in [read : Reads, defined : BOOLEAN]
      /\ read_to_phi_conc \in Seq([read : Reads, defined : BOOLEAN])
    BY DEF Placeholder, PhiTypeOK
<1>4. /\ read_to_phi_conc' \in Seq([read : Reads, defined : BOOLEAN])
      /\ Len(read_to_phi_conc') = Len(read_to_phi_conc) + 1
      /\ \A i \in 1 .. Len(read_to_phi_conc) : read_to_phi_conc'[i] = read_to_phi_conc[i]
      /\ read_to_phi_conc'[Len(read_to_phi_conc) + 1] = Placeholder(r)
    BY <1>2, <1>3
<1>5. /\ read_to_phi_conc_offset' \in [Memo' -> Nat]
      /\ \A q \in Memo' : read_to_phi_conc_offset'[q] < Len(read_to_phi_conc')
    <2>1. Len(read_to_phi_conc) \in Nat
        BY <1>3
    <2>2. /\ read_to_phi_conc_offset \in [Memo -> Nat]
          /\ \A q \in Memo : read_to_phi_conc_offset[q] < Len(read_to_phi_conc)
        BY DEF PhiTypeOK
    <2>3. read_to_phi_conc_offset' =
              [q \in Memo \cup {r} |->
                  IF q = r THEN Len(read_to_phi_conc) ELSE read_to_phi_conc_offset[q]]
        BY DEF Enter, Known
    <2> QED
        BY <1>1, <1>4, <2>1, <2>2, <2>3
<1>6. Frame(r, 1) \in Frames /\ s \in Seq(Frames) /\ stack' = Append(s, Frame(r, 1))
    BY DEF Frame, Frames, Enter, Resumes
<1>7. /\ stack' \in Seq(Frames)
      /\ Len(stack') = Len(stack) + 1
      /\ DOMAIN stack' = 1 .. Len(stack) + 1
      /\ \A n \in 1 .. Len(stack) : stack'[n] = s[n]
      /\ stack'[Len(stack) + 1] = Frame(r, 1)
    BY <1>6 DEF Resumes
<1>8. stack \in Seq(Frames) /\ Len(stack) \in Nat /\ DOMAIN stack = 1 .. Len(stack)
      /\ DOMAIN s = 1 .. Len(stack)
    BY DEF PhiTypeOK, Frames, Resumes
<1>9. /\ \A n \in 1 .. Len(stack) : stack'[n].read = stack[n].read
      /\ stack'[Len(stack) + 1].read = r
    BY <1>7, <1>8 DEF Resumes, Frame
<1>10. \A q : OnStack(q)' <=> OnStack(q) \/ q = r
    BY <1>7, <1>8, <1>9 DEF OnStack
<1>11. \A q \in Memo : Slot(q) \in 1 .. Len(read_to_phi_conc) /\ q # r
    BY <1>3 DEF SearchInv, SlotsMatch, Known
<1>12. SlotsDistinct'
    BY <1>1, <1>11 DEF SearchInv, SlotsDistinct
<1>13. SlotsMatch'
    <2>1. ASSUME NEW q \in Memo
          PROVE  /\ Slot(q)' \in DOMAIN read_to_phi_conc'
                 /\ read_to_phi_conc'[Slot(q)'] =
                        IF OnStack(q)' THEN Placeholder(q) ELSE Definition(q)
        BY <1>1, <1>4, <1>10, <1>11 DEF SearchInv, SlotsMatch
    <2>2. /\ Slot(r)' \in DOMAIN read_to_phi_conc'
          /\ read_to_phi_conc'[Slot(r)'] = Placeholder(r) /\ OnStack(r)'
        BY <1>1, <1>3, <1>4, <1>10
    <2> QED
        BY <1>1, <2>1, <2>2 DEF SlotsMatch, Placeholder, Definition
<1>14. StackKnown'
    <2>1. ASSUME NEW n \in 1 .. Len(stack)
          PROVE  /\ stack'[n].read \in Memo'
                 /\ stack'[n].next <= Len(calls[stack'[n].read]) + 1
                 /\ \A m \in 1 .. stack'[n].next - 1 : calls[stack'[n].read][m] \in Memo'
        <3>1. stack'[n] = s[n] /\ n \in DOMAIN s /\ n \in DOMAIN stack
            BY <1>7, <1>8
        <3>2. stack[n].read \in Memo
            BY <3>1 DEF SearchInv, StackKnown
        <3> QED
            BY <1>1, <3>1, <3>2 DEF Resumes
    <2>2. calls[r] \in Seq(Reads)
        BY DEF PhiTypeOK
    <2>3. /\ stack'[Len(stack) + 1].read \in Memo'
          /\ stack'[Len(stack) + 1].next <= Len(calls[r]) + 1
          /\ 1 .. stack'[Len(stack) + 1].next - 1 = {}
        BY <1>1, <1>7, <2>2 DEF Frame
    <2>4. calls' = calls /\ DOMAIN stack' = 1 .. Len(stack) + 1
        BY <1>7
    <2>5. SUFFICES ASSUME NEW n \in 1 .. Len(stack) + 1
                   PROVE  /\ stack'[n].read \in Memo'
                          /\ stack'[n].next <= Len(calls[stack'[n].read]) + 1
                          /\ \A m \in 1 .. stack'[n].next - 1 :
                                 calls[stack'[n].read][m] \in Memo'
        BY <2>4 DEF StackKnown
    <2>6. CASE n = Len(stack) + 1
        BY <1>9, <2>3, <2>6
    <2>7. CASE n # Len(stack) + 1
        BY <1>8, <2>1, <2>5, <2>7
    <2> QED
        BY <2>6, <2>7
<1>15. OnStackOnce'
    <2>1. \A n \in 1 .. Len(stack) : stack[n].read # r
        BY <1>8, <1>11 DEF SearchInv, StackKnown
    <2> QED
        BY <1>7, <1>8, <1>9, <2>1 DEF SearchInv, OnStackOnce
<1>16. ReturnedComplete'
    BY <1>1, <1>10 DEF SearchInv, ReturnedComplete
<1>17. OnlyNeeded'
    BY <1>1 DEF SearchInv, OnlyNeeded, Needed, HasRoots, ClosedUnderCalls
<1> QED
    BY <1>1, <1>4, <1>5, <1>7, <1>12, <1>13, <1>14, <1>15, <1>16, <1>17 DEF SearchInv

\* Once the type invariant's other parts are kept, Enter keeps it.
LEMMA EnterTypes ==
    ASSUME PhiTypeOK, SearchInv, NEW r \in Reads, NEW s, Resumes(s, r),
           r \in Needed, Enter(r, s), UNCHANGED <<calls, roots, pc>>,
           next_root' \in 1 .. Len(roots) + 1
    PROVE  PhiTypeOK' /\ SearchInv' /\ Memo \cup {r} \subseteq Memo'
<1>1. CASE Known(r)
    BY <1>1, EnterKnown DEF PhiTypeOK, Frames, memoVars, Known, Memo
<1>2. CASE ~Known(r)
    <2>1. Memo' \subseteq Reads
        BY <1>2, EnterNew DEF PhiTypeOK, Memo
    <2> QED
        BY <1>2, <2>1, EnterNew DEF PhiTypeOK, Frames, Memo
<1> QED
    BY <1>1, <1>2

LEMMA CallFromSolveKeeps ==
    ASSUME PhiInv, CallFromSolve
    PROVE  PhiInv'
<1> DEFINE r == roots[next_root]
<1>1. /\ stack = <<>> /\ pc = "build"
      /\ next_root \in 1 .. Len(roots) /\ next_root' = next_root + 1
      /\ roots \in Seq(Reads) /\ UNCHANGED <<calls, roots, pc>>
      /\ Enter(r, <<>>)
    BY DEF CallFromSolve, PhiInv, PhiTypeOK
<1>2. r \in Reads
    BY <1>1
<1>3. Resumes(<<>>, r)
    BY <1>1 DEF Resumes
<1>4. r \in Needed
    BY <1>1, <1>2 DEF Needed, HasRoots
<1>5. next_root' \in 1 .. Len(roots) + 1
    BY <1>1
<1>6. PhiTypeOK' /\ SearchInv' /\ Memo \cup {r} \subseteq Memo'
    BY <1>1, <1>2, <1>3, <1>4, <1>5, EnterTypes DEF PhiInv
<1>7. RootsKnown'
    BY <1>1, <1>6 DEF PhiInv, RootsKnown
<1> QED
    BY <1>1, <1>6, <1>7 DEF PhiInv, Ended

\* The calls below the innermost one.
LEMMA CallersProp ==
    ASSUME PhiTypeOK, stack # <<>>
    PROVE  /\ stack \in Seq(Frames) /\ Len(stack) \in Nat \ {0}
           /\ Top \in Frames
           /\ Callers \in Seq(Frames)
           /\ Len(Callers) = Len(stack) - 1
           /\ \A n \in 1 .. Len(stack) - 1 : Callers[n] = stack[n]
<1>1. stack \in Seq(Frames) /\ Len(stack) \in Nat \ {0}
    BY DEF PhiTypeOK, Frames
<1>2. \A i \in 1 .. Len(stack) - 1 : stack[i] \in Frames
    BY <1>1
<1>3. /\ Callers \in Seq(Frames)
      /\ Len(Callers) = Len(stack) - 1
      /\ \A n \in 1 .. Len(stack) - 1 : Callers[n] = stack[n]
    <2> DEFINE n == Len(stack) - 1
    <2>1. n \in Int /\ 1 \in Int /\ n = n - 1 + 1 /\ n >= 0
        BY <1>1
    <2>2. /\ SubSeq(stack, 1, n) \in Seq(Frames)
          /\ Len(SubSeq(stack, 1, n)) = IF 1 <= n THEN n - 1 + 1 ELSE 0
          /\ \A i \in 1 .. n - 1 + 1 : SubSeq(stack, 1, n)[i] = stack[1 + i - 1]
        <3> HIDE DEF n
        <3> QED
            BY <1>2, <2>1, SubSeqProperties DEF n
    <2> QED
        BY <1>1, <2>1, <2>2 DEF Callers
<1> QED
    BY <1>1, <1>3 DEF Top

LEMMA RecurseKeeps ==
    ASSUME PhiInv, Recurse
    PROVE  PhiInv'
<1> DEFINE top == Top.read
           r == calls[top][Top.next]
           s == Append(Callers, Frame(top, Top.next + 1))
<1>1. /\ stack # <<>> /\ Top.next <= Len(calls[top])
      /\ Enter(r, s)
      /\ UNCHANGED <<calls, roots, next_root, pc>>
      /\ PhiTypeOK /\ SearchInv
    BY DEF Recurse, PhiInv
<1>2. /\ stack \in Seq(Frames) /\ Len(stack) \in Nat \ {0}
      /\ Top \in Frames /\ Top = stack[Len(stack)]
      /\ Callers \in Seq(Frames)
      /\ Len(Callers) = Len(stack) - 1
      /\ \A n \in 1 .. Len(stack) - 1 : Callers[n] = stack[n]
    BY <1>1, CallersProp DEF Top
<1>3. top \in Reads /\ Top.next \in Nat \ {0} /\ calls[top] \in Seq(Reads)
    BY <1>1, <1>2 DEF Frames, PhiTypeOK
<1>4. r \in Reads
    BY <1>1, <1>3
<1>5. Frame(top, Top.next + 1) \in Frames
    BY <1>3 DEF Frame, Frames
<1>6. /\ s \in Seq(Frames) /\ Len(s) = Len(stack)
      /\ \A n \in 1 .. Len(stack) - 1 : s[n] = stack[n]
      /\ s[Len(stack)] = Frame(top, Top.next + 1)
    BY <1>2, <1>5
<1>7. StackKnown
    BY <1>1 DEF SearchInv
<1>8. Resumes(s, r)
    <2>1. ASSUME NEW n \in 1 .. Len(stack) - 1
          PROVE  /\ s[n].read = stack[n].read
                 /\ s[n].next <= Len(calls[s[n].read]) + 1
                 /\ \A m \in 1 .. s[n].next - 1 : calls[s[n].read][m] \in Memo
        <3>1. n \in DOMAIN stack /\ s[n] = stack[n]
            BY <1>2, <1>6
        <3> QED
            BY <1>7, <3>1 DEF StackKnown
    <2>2. /\ s[Len(stack)].read = stack[Len(stack)].read
          /\ s[Len(stack)].next <= Len(calls[s[Len(stack)].read]) + 1
        BY <1>1, <1>2, <1>3, <1>6 DEF Frame
    <2>3. ASSUME NEW m \in 1 .. s[Len(stack)].next - 1
          PROVE  calls[s[Len(stack)].read][m] \in Memo \/ calls[s[Len(stack)].read][m] = r
        <3>1. s[Len(stack)].read = top /\ m \in 1 .. Top.next
            BY <1>3, <1>6 DEF Frame
        <3>2. CASE m = Top.next
            BY <3>1, <3>2
        <3>3. CASE m # Top.next
            BY <1>2, <1>3, <1>7, <3>1, <3>3 DEF StackKnown
        <3> QED
            BY <3>2, <3>3
    <2>4. DOMAIN s = 1 .. Len(stack)
        BY <1>6
    <2> QED
        <3>1. ASSUME NEW n \in DOMAIN s, n # Len(stack)
              PROVE  n \in 1 .. Len(stack) - 1
            BY <1>2, <2>4, <3>1
        <3> QED
            BY <1>6, <2>1, <2>2, <2>3, <3>1 DEF Resumes
<1>9. r \in Needed
    <2>1. top \in Needed
        BY <1>1, <1>2, <1>7 DEF StackKnown, SearchInv, OnlyNeeded
    <2> QED
        BY <1>1, <1>3, <1>4, <2>1 DEF Needed, ClosedUnderCalls
<1>10. next_root' \in 1 .. Len(roots) + 1
    BY <1>1 DEF PhiTypeOK
<1>11. PhiTypeOK' /\ SearchInv' /\ Memo \cup {r} \subseteq Memo'
    BY <1>1, <1>4, <1>8, <1>9, <1>10, EnterTypes
<1>12. RootsKnown'
    BY <1>1, <1>11 DEF PhiInv, RootsKnown
<1>13. pc # "solve"
    BY <1>1 DEF PhiInv, Ended
<1> QED
    BY <1>1, <1>11, <1>12, <1>13 DEF PhiInv, Ended

LEMMA SetDefinitionKeeps ==
    ASSUME PhiInv, SetDefinition
    PROVE  PhiInv'
<1> DEFINE top == Top.read
<1> USE DEF Memo
<1>1. /\ stack # <<>> /\ Top.next > Len(calls[top])
      /\ read_to_phi_conc' = [read_to_phi_conc EXCEPT ![Slot(top)] = Definition(top)]
      /\ stack' = Callers
      /\ UNCHANGED <<calls, roots, next_root, read_to_phi_conc_offset, pc>>
      /\ PhiTypeOK /\ SearchInv /\ RootsKnown /\ Ended
    BY DEF SetDefinition, DefinitionSlot, PhiInv
<1>2. /\ stack \in Seq(Frames) /\ Len(stack) \in Nat \ {0}
      /\ DOMAIN stack = 1 .. Len(stack)
      /\ Top \in Frames /\ Top = stack[Len(stack)]
      /\ stack' \in Seq(Frames)
      /\ DOMAIN stack' = 1 .. Len(stack) - 1
      /\ \A n \in 1 .. Len(stack) - 1 : stack'[n] = stack[n]
    BY <1>1, CallersProp DEF Top
<1>3. top \in Reads /\ Top.next \in Nat \ {0} /\ calls[top] \in Seq(Reads) /\ top \in Memo
    <2>1. top \in Reads /\ Top.next \in Nat \ {0}
        BY <1>2 DEF Frames
    <2>2. Len(stack) \in DOMAIN stack /\ StackKnown
        BY <1>1, <1>2 DEF SearchInv
    <2>3. stack[Len(stack)].read \in Memo
        BY <2>2 DEF StackKnown
    <2> QED
        BY <1>1, <1>2, <2>1, <2>3 DEF PhiTypeOK
<1>4. \A n \in 1 .. Len(stack) - 1 : stack[n].read # top
    BY <1>1, <1>2 DEF SearchInv, OnStackOnce
<1>5. \A q : OnStack(q)' <=> OnStack(q) /\ q # top
    <2>1. \A q : OnStack(q)' => OnStack(q) /\ q # top
        BY <1>2, <1>4 DEF OnStack
    <2>2. ASSUME NEW q, OnStack(q), q # top
          PROVE  OnStack(q)'
        <3>1. PICK n \in DOMAIN stack : stack[n].read = q
            BY <2>2 DEF OnStack
        <3>2. n \in 1 .. Len(stack) - 1
            BY <1>2, <2>2, <3>1
        <3> QED
            BY <1>2, <3>1, <3>2 DEF OnStack
    <2> QED
        BY <2>1, <2>2
<1>6. /\ Slot(top) \in 1 .. Len(read_to_phi_conc)
      /\ read_to_phi_conc \in Seq([read : Reads, defined : BOOLEAN])
      /\ Definition(top) \in [read : Reads, defined : BOOLEAN]
    BY <1>1, <1>3 DEF SearchInv, SlotsMatch, PhiTypeOK, Definition
<1>7. /\ read_to_phi_conc' \in Seq([read : Reads, defined : BOOLEAN])
      /\ DOMAIN read_to_phi_conc' = DOMAIN read_to_phi_conc
      /\ read_to_phi_conc'[Slot(top)] = Definition(top)
      /\ \A i \in DOMAIN read_to_phi_conc :
             i # Slot(top) => read_to_phi_conc'[i] = read_to_phi_conc[i]
    BY <1>1, <1>6
<1>8. Memo' = Memo /\ \A q : Slot(q)' = Slot(q)
    BY <1>1 DEF Slot
<1>9. PhiTypeOK'
    <2>1. calls' = calls /\ roots' = roots /\ next_root' = next_root /\ pc' = pc
          /\ read_to_phi_conc_offset' = read_to_phi_conc_offset
        BY <1>1
    <2> QED
        BY <1>1, <1>2, <1>7, <2>1 DEF PhiTypeOK, Frames
<1>10. SlotsDistinct'
    BY <1>1, <1>8 DEF SearchInv, SlotsDistinct
<1>11. SlotsMatch'
    <2>1. ASSUME NEW q \in Memo
          PROVE  /\ Slot(q) \in DOMAIN read_to_phi_conc'
                 /\ read_to_phi_conc'[Slot(q)] =
                        IF OnStack(q)' THEN Placeholder(q) ELSE Definition(q)
        <3>1. CASE q = top
            BY <1>5, <1>6, <1>7, <3>1
        <3>2. CASE q # top
            <4>1. Slot(q) # Slot(top)
                BY <1>1, <1>3, <3>2 DEF SearchInv, SlotsDistinct
            <4> QED
                BY <1>1, <1>5, <1>7, <3>2, <4>1 DEF SearchInv, SlotsMatch
        <3> QED
            BY <3>1, <3>2
    <2> QED
        BY <1>8, <2>1 DEF SlotsMatch, Placeholder, Definition
<1>12. StackKnown'
    <2>1. calls' = calls
        BY <1>1
    <2>2. ASSUME NEW n \in 1 .. Len(stack) - 1
          PROVE  /\ stack[n].read \in Memo
                 /\ stack[n].next <= Len(calls[stack[n].read]) + 1
                 /\ \A m \in 1 .. stack[n].next - 1 : calls[stack[n].read][m] \in Memo
        <3>1. n \in DOMAIN stack /\ StackKnown
            BY <1>1, <1>2 DEF SearchInv
        <3> QED
            BY <3>1 DEF StackKnown
    <2> QED
        BY <1>2, <1>8, <2>1, <2>2 DEF StackKnown
<1>13. OnStackOnce'
    BY <1>1, <1>2 DEF SearchInv, OnStackOnce
<1>14. ReturnedComplete'
    <2>1. \A m \in DOMAIN calls[top] : calls[top][m] \in Memo
        <3>1. DOMAIN calls[top] \subseteq 1 .. Top.next - 1
            BY <1>1, <1>3
        <3> QED
            BY <1>1, <1>2, <3>1 DEF SearchInv, StackKnown
    <2>2. calls' = calls
        BY <1>1
    <2> QED
        BY <1>1, <1>5, <1>8, <2>1, <2>2 DEF SearchInv, ReturnedComplete
<1>15. OnlyNeeded'
    BY <1>1 DEF SearchInv, OnlyNeeded, Needed, HasRoots, ClosedUnderCalls
<1>16. RootsKnown' /\ Ended'
    <2>1. RootsKnown'
        BY <1>1 DEF RootsKnown
    <2>2. pc # "solve"
        BY <1>1 DEF Ended
    <2> QED
        BY <1>1, <2>1, <2>2 DEF Ended
<1> QED
    BY <1>9, <1>10, <1>11, <1>12, <1>13, <1>14, <1>15, <1>16 DEF PhiInv, SearchInv

LEMMA AddDefinitionsKeeps ==
    ASSUME PhiInv, AddDefinitions
    PROVE  PhiInv'
<1>1. /\ UNCHANGED <<calls, roots, next_root, memoVars, stack>> /\ pc' = "solve"
      /\ stack = <<>> /\ next_root > Len(roots)
    BY DEF AddDefinitions
<1>2. next_root = Len(roots) + 1
    BY <1>1 DEF PhiInv, PhiTypeOK
<1>3. \A q : OnStack(q)' <=> OnStack(q)
    BY <1>1 DEF OnStack
<1>4. SlotsMatch' /\ SlotsDistinct' /\ ReturnedComplete'
    BY <1>1, <1>3 DEF PhiInv, SearchInv, SlotsMatch, SlotsDistinct, ReturnedComplete,
                     Slot, Memo, memoVars
<1>5. StackKnown' /\ OnStackOnce' /\ OnlyNeeded' /\ RootsKnown'
    BY <1>1 DEF PhiInv, SearchInv, StackKnown, OnStackOnce, OnlyNeeded, RootsKnown,
                Needed, HasRoots, ClosedUnderCalls, Memo, memoVars
<1>6. PhiTypeOK'
    BY <1>1 DEF PhiInv, PhiTypeOK, memoVars
<1> QED
    BY <1>1, <1>2, <1>4, <1>5, <1>6 DEF PhiInv, SearchInv, Ended

LEMMA PhiInitInv == PhiInit => PhiInv
<1> SUFFICES ASSUME PhiInit PROVE PhiInv
    OBVIOUS
<1>1. \A n \in 0 .. MaxCalls : [1 .. n -> Reads] \subseteq Seq(Reads)
    BY MaxCallsAssumption
<1>2. calls \in [Reads -> Seq(Reads)] /\ roots \in Seq(Reads)
    <2>1. UNION {[1 .. n -> Reads] : n \in 0 .. MaxCalls} \subseteq Seq(Reads)
        BY <1>1
    <2> QED
        BY <2>1 DEF PhiInit
<1>3. /\ next_root = 1 /\ stack = <<>> /\ read_to_phi_conc = <<>> /\ pc = "build"
      /\ Memo = {} /\ read_to_phi_conc_offset = [r \in {} |-> 0]
    BY DEF PhiInit, Memo
<1>4. PhiTypeOK
    <2>1. read_to_phi_conc_offset \in [DOMAIN read_to_phi_conc_offset -> Nat]
        BY <1>3
    <2> QED
        BY <1>2, <1>3, <2>1 DEF PhiTypeOK, Memo
<1>5. SearchInv
    BY <1>3 DEF SearchInv, SlotsDistinct, SlotsMatch, StackKnown, OnStackOnce,
                ReturnedComplete, OnlyNeeded, Memo
<1>6. RootsKnown /\ Ended
    BY <1>3 DEF RootsKnown, Ended
<1> QED
    BY <1>4, <1>5, <1>6 DEF PhiInv

LEMMA PhiNextInv == PhiInv /\ [PhiNext]_phiVars => PhiInv'
<1> SUFFICES ASSUME PhiInv, [PhiNext]_phiVars PROVE PhiInv'
    OBVIOUS
<1>1. CASE CallFromSolve
    BY <1>1, CallFromSolveKeeps
<1>2. CASE Recurse
    BY <1>2, RecurseKeeps
<1>3. CASE SetDefinition
    BY <1>3, SetDefinitionKeeps
<1>4. CASE AddDefinitions
    BY <1>4, AddDefinitionsKeeps
<1>5. CASE UNCHANGED phiVars
    <2>1. \A q : OnStack(q)' <=> OnStack(q)
        BY <1>5 DEF OnStack, phiVars
    <2>2. SlotsMatch' /\ SlotsDistinct' /\ ReturnedComplete'
        BY <1>5, <2>1 DEF PhiInv, SearchInv, SlotsMatch, SlotsDistinct, ReturnedComplete,
                         Slot, Memo, memoVars, phiVars
    <2>3. StackKnown' /\ OnStackOnce' /\ OnlyNeeded' /\ RootsKnown' /\ Ended'
        BY <1>5 DEF PhiInv, SearchInv, StackKnown, OnStackOnce, OnlyNeeded, RootsKnown,
                    Ended, Needed, HasRoots, ClosedUnderCalls, Memo, memoVars, phiVars
    <2>4. PhiTypeOK'
        BY <1>5 DEF PhiInv, PhiTypeOK, memoVars, phiVars
    <2> QED
        BY <2>2, <2>3, <2>4 DEF PhiInv, SearchInv
<1> QED
    BY <1>1, <1>2, <1>3, <1>4, <1>5 DEF PhiNext

LEMMA PhiInvAlways == PhiSpec => []PhiInv
    BY PhiInitInv, PhiNextInv, PTL DEF PhiSpec

-----------------------------------------------------------------------------
(***************************************************************************)
(* Every definition is in a slot of its own (casual_model.cpp:99-107).     *)
(***************************************************************************)
THEOREM SlotsTheorem == PhiSpec => [](PhiTypeOK /\ SlotsMatch)
<1>1. PhiInv => PhiTypeOK /\ SlotsMatch
    BY DEF PhiInv, SearchInv
<1> QED
    BY <1>1, PhiInvAlways, PTL

(***************************************************************************)
(* The index of solve's loop, the offsets, the vector of definitions and   *)
(* the frames of the call stack have their types all through the recursion *)
(* (casual_model.cpp:94-120, 243-253).                                     *)
(***************************************************************************)
THEOREM PhiTypesTheorem == PhiSpec => []PhiTypeOK
    BY SlotsTheorem, PTL

(***************************************************************************)
(* The recursion is no deeper than there are reads: no read is on the      *)
(* stack twice (casual_model.cpp:98).                                      *)
(***************************************************************************)
THEOREM DepthTheorem == PhiSpec => []OnStackOnce
<1>1. PhiInv => OnStackOnce
    BY DEF PhiInv, SearchInv
<1> QED
    BY <1>1, PhiInvAlways, PTL

(***************************************************************************)
(* The definitions are those of the reads that can be reached from the     *)
(* candidates: at the end the entries contain solve's reads and are closed *)
(* under calls, and all along they are needed (casual_model.cpp:94-120,    *)
(* 243-253).                                                               *)
(***************************************************************************)
THEOREM BuildsNeededTheorem == PhiSpec => []BuildsNeeded
<1>1. PhiInv => BuildsNeeded
    <2> SUFFICES ASSUME PhiInv, pc = "solve" PROVE Memo = Needed
        BY DEF BuildsNeeded, Memo
    <2>1. stack = <<>> /\ next_root = Len(roots) + 1 /\ roots \in Seq(Reads)
        BY DEF PhiInv, Ended, PhiTypeOK
    <2>2. Memo \in SUBSET Reads
        BY DEF PhiInv, PhiTypeOK, Memo
    <2>3. HasRoots(Memo)
        BY <2>1 DEF PhiInv, RootsKnown, HasRoots
    <2>4. ClosedUnderCalls(Memo)
        <3>1. \A r : ~OnStack(r)
            BY <2>1 DEF OnStack
        <3> QED
            BY <3>1 DEF PhiInv, SearchInv, ReturnedComplete, ClosedUnderCalls
    <2>5. Needed \subseteq Memo
        BY <2>2, <2>3, <2>4 DEF Needed
    <2>6. Memo \subseteq Needed
        BY DEF PhiInv, SearchInv, OnlyNeeded
    <2> QED
        BY <2>5, <2>6
<1> QED
    BY <1>1, PhiInvAlways, PTL

-----------------------------------------------------------------------------
(* generalGoodWritesFilter.                                                *)

Stays(w) == ~hb(read, w) /\ \A v \in Elements(good) : ~(hb(w, v) /\ hb(v, read))

InputInv ==
    /\ read \in Events
    /\ good \in Seq(Nat) /\ Increasing(good)
    /\ \A a, b \in Nat : hb(a, b) => a < b

\* The vector: what stays of the elements seen, leftovers, what is to come.
ScanInv ==
    /\ goodWrites \in Seq(Nat) /\ Len(goodWrites) = Len(good)
    /\ first \in 1 .. Len(good) + 1 /\ result \in 1 .. first
    /\ \A i \in 1 .. Len(good) : goodWrites[i] \in Elements(good)
    /\ \A i \in first .. Len(good) : goodWrites[i] = good[i]
    /\ \A i \in 1 .. result - 1 :
           \E j \in 1 .. first - 1 : goodWrites[i] = good[j] /\ Stays(good[j])
    /\ \A j \in 1 .. first - 1 :
           Stays(good[j]) => \E i \in 1 .. result - 1 : goodWrites[i] = good[j]
    /\ \A i, j \in 1 .. result - 1 : i < j => goodWrites[i] < goodWrites[j]

FilterInv ==
    /\ InputInv
    /\ loop \in {"scan", "done"}
    /\ loop = "scan" => ScanInv
    /\ FilterExact

-----------------------------------------------------------------------------
(***************************************************************************)
(* An element that shadows the one that is looked at comes after it in the *)
(* trace, so it has not been overwritten yet.                              *)
(***************************************************************************)
LEMMA GoesIsExact ==
    ASSUME InputInv, ScanInv, first <= Len(good)
    PROVE  Goes(goodWrites[first]) <=> ~Stays(good[first])
<1> DEFINE w == good[first]
<1>1. /\ goodWrites[first] = w /\ first \in 1 .. Len(good) /\ w \in Nat
      /\ DOMAIN goodWrites = 1 .. Len(good) /\ DOMAIN good = 1 .. Len(good)
    BY DEF ScanInv, InputInv
<1>2. ASSUME NEW i \in DOMAIN goodWrites, hb(w, goodWrites[i]), hb(goodWrites[i], read)
      PROVE  \E v \in Elements(good) : hb(w, v) /\ hb(v, read)
    BY <1>1, <1>2 DEF ScanInv
<1>3. ASSUME NEW v \in Elements(good), hb(w, v), hb(v, read)
      PROVE  \E i \in DOMAIN goodWrites : hb(w, goodWrites[i]) /\ hb(goodWrites[i], read)
    <2>1. PICK j \in 1 .. Len(good) : v = good[j]
        BY <1>1 DEF Elements
    <2>2. w < good[j]
        BY <1>1, <1>3, <2>1 DEF InputInv
    <2>3. ~(j < first)
        BY <1>1, <2>1, <2>2 DEF InputInv, Increasing
    <2>4. j # first
        BY <1>1, <2>2
    <2>5. j \in first .. Len(good)
        BY <1>1, <2>1, <2>3, <2>4
    <2> QED
        BY <1>1, <1>3, <2>1, <2>5 DEF ScanInv
<1>4. Shadowed(w) <=> \E v \in Elements(good) : hb(w, v) /\ hb(v, read)
    BY <1>2, <1>3 DEF Shadowed
<1> QED
    BY <1>1, <1>4 DEF Goes, Stays

LEMMA KeepKeeps ==
    ASSUME FilterInv, Keep
    PROVE  FilterInv'
<1>1. /\ InputInv /\ ScanInv /\ loop = "scan" /\ first \in 1 .. Len(good)
      /\ ~Goes(goodWrites[first])
      /\ goodWrites' = [goodWrites EXCEPT ![result] = goodWrites[first]]
      /\ result' = result + 1 /\ first' = first + 1
      /\ mhb' = mhb /\ read' = read /\ good' = good /\ loop' = loop
    BY DEF Keep, FilterInv, ScanInv
<1>2. Stays(good[first]) /\ goodWrites[first] = good[first]
    BY <1>1, GoesIsExact DEF ScanInv
<1>3. \A w : Stays(w)' <=> Stays(w)
    BY <1>1 DEF Stays, hb, Elements
<1>4. InputInv'
    BY <1>1 DEF InputInv, Increasing, hb
<1>5. /\ result \in 1 .. Len(good) /\ result <= first /\ Len(good) \in Nat
      /\ goodWrites \in Seq(Nat) /\ Len(goodWrites) = Len(good)
      /\ good[first] \in Nat
    BY <1>1 DEF ScanInv, InputInv
<1>6. /\ goodWrites' \in Seq(Nat) /\ Len(goodWrites') = Len(good)
      /\ goodWrites'[result] = good[first]
      /\ \A i \in 1 .. Len(good) : i # result => goodWrites'[i] = goodWrites[i]
    BY <1>1, <1>2, <1>5
<1>7. \A i \in 1 .. Len(good) : goodWrites'[i] \in Elements(good)
    <2>1. good[first] \in Elements(good)
        BY <1>1 DEF Elements, InputInv
    <2>2. \A i \in 1 .. Len(good) : goodWrites[i] \in Elements(good)
        BY <1>1 DEF ScanInv
    <2> QED
        BY <1>6, <2>1, <2>2
<1>8. \A i \in first + 1 .. Len(good) : goodWrites'[i] = good[i]
    <2>1. ASSUME NEW i \in first + 1 .. Len(good)
          PROVE  i \in first .. Len(good) /\ i \in 1 .. Len(good) /\ i # result
        BY <1>1, <1>5
    <2>2. \A i \in first .. Len(good) : goodWrites[i] = good[i]
        BY <1>1 DEF ScanInv
    <2> QED
        BY <1>6, <2>1, <2>2
<1>9. \A i \in 1 .. result :
          \E j \in 1 .. first : goodWrites'[i] = good[j] /\ Stays(good[j])
    <2>1. ASSUME NEW i \in 1 .. result - 1
          PROVE  \E j \in 1 .. first : goodWrites'[i] = good[j] /\ Stays(good[j])
        <3>1. PICK j \in 1 .. first - 1 : goodWrites[i] = good[j] /\ Stays(good[j])
            BY <1>1 DEF ScanInv
        <3>2. i \in 1 .. Len(good) /\ i # result
            BY <1>5
        <3>3. goodWrites'[i] = good[j] /\ j \in 1 .. first
            BY <1>1, <1>6, <3>1, <3>2
        <3> QED
            BY <3>1, <3>3
    <2>2. \E j \in 1 .. first : goodWrites'[result] = good[j] /\ Stays(good[j])
        BY <1>1, <1>2, <1>6
    <2>3. \A i \in 1 .. result : i = result \/ i \in 1 .. result - 1
        BY <1>5
    <2> QED
        BY <2>1, <2>2, <2>3
<1>10. \A j \in 1 .. first : Stays(good[j]) => \E i \in 1 .. result : goodWrites'[i] = good[j]
    <2>1. ASSUME NEW j \in 1 .. first - 1, Stays(good[j])
          PROVE  \E i \in 1 .. result : goodWrites'[i] = good[j]
        <3>1. PICK i \in 1 .. result - 1 : goodWrites[i] = good[j]
            BY <1>1, <2>1 DEF ScanInv
        <3> QED
            BY <1>5, <1>6, <3>1
    <2> QED
        BY <1>1, <1>5, <1>6, <2>1
<1>11. \A i, j \in 1 .. result : i < j => goodWrites'[i] < goodWrites'[j]
    <2>1. ASSUME NEW i \in 1 .. result - 1
          PROVE  goodWrites[i] < good[first]
        <3>1. PICK j \in 1 .. first - 1 : goodWrites[i] = good[j]
            BY <1>1 DEF ScanInv
        <3> QED
            BY <1>1, <3>1 DEF InputInv, Increasing
    <2>2. \A i, j \in 1 .. result - 1 : i < j => goodWrites[i] < goodWrites[j]
        BY <1>1 DEF ScanInv
    <2>3. ASSUME NEW i \in 1 .. result, NEW j \in 1 .. result, i < j
          PROVE  goodWrites'[i] < goodWrites'[j]
        <3>1. i \in 1 .. result - 1 /\ i \in 1 .. Len(good) /\ j \in 1 .. Len(good)
            BY <1>5, <2>3
        <3>2. goodWrites'[i] = goodWrites[i]
            BY <1>5, <1>6, <3>1
        <3>3. CASE j = result
            BY <1>6, <2>1, <3>1, <3>2, <3>3
        <3>4. CASE j # result
            <4>1. j \in 1 .. result - 1 /\ goodWrites'[j] = goodWrites[j]
                BY <1>5, <1>6, <3>1, <3>4
            <4> QED
                BY <2>2, <2>3, <3>1, <3>2, <4>1
        <3> QED
            BY <3>3, <3>4
    <2> QED
        BY <2>3
<1>12. ScanInv'
    <2>1. Elements(good)' = Elements(good)
        BY <1>1 DEF Elements
    <2>2. /\ first' = first + 1 /\ result' = result + 1 /\ good' = good
          /\ first' - 1 = first /\ result' - 1 = result
          /\ first' \in 1 .. Len(good) + 1 /\ result' \in 1 .. first'
        BY <1>1, <1>5
    <2> QED
        BY <1>3, <1>6, <1>7, <1>8, <1>9, <1>10, <1>11, <2>1, <2>2 DEF ScanInv
<1> QED
    BY <1>1, <1>4, <1>12 DEF FilterInv, FilterExact

LEMMA RemoveKeeps ==
    ASSUME FilterInv, Remove
    PROVE  FilterInv'
<1>1. /\ InputInv /\ ScanInv /\ loop = "scan" /\ first \in 1 .. Len(good)
      /\ Goes(goodWrites[first])
      /\ first' = first + 1
      /\ mhb' = mhb /\ read' = read /\ good' = good /\ loop' = loop
      /\ goodWrites' = goodWrites /\ result' = result
    BY DEF Remove, FilterInv, ScanInv
<1>2. ~Stays(good[first])
    BY <1>1, GoesIsExact
<1>3. \A w : Stays(w)' <=> Stays(w)
    BY <1>1 DEF Stays, hb, Elements
<1>4. InputInv'
    BY <1>1 DEF InputInv, Increasing, hb
<1>5. \A i \in 1 .. result - 1 :
          \E j \in 1 .. first : goodWrites[i] = good[j] /\ Stays(good[j])
    BY <1>1 DEF ScanInv
<1>6. \A j \in 1 .. first : Stays(good[j]) => \E i \in 1 .. result - 1 : goodWrites[i] = good[j]
    BY <1>1, <1>2 DEF ScanInv
<1>7. ScanInv'
    <2>1. Elements(good)' = Elements(good)
        BY <1>1 DEF Elements
    <2>2. /\ first' - 1 = first /\ first' \in 1 .. Len(good) + 1 /\ result' \in 1 .. first'
          /\ \A i \in first' .. Len(good) : goodWrites[i] = good[i]
        BY <1>1 DEF ScanInv
    <2> QED
        BY <1>1, <1>3, <1>5, <1>6, <2>1, <2>2 DEF ScanInv
<1> QED
    BY <1>1, <1>4, <1>7 DEF FilterInv, FilterExact

LEMMA EraseKeeps ==
    ASSUME FilterInv, Erase
    PROVE  FilterInv'
<1>1. /\ InputInv /\ ScanInv /\ loop = "scan" /\ loop' = "done"
      /\ first = Len(good) + 1 /\ result \in 1 .. first
      /\ goodWrites' = SubSeq(goodWrites, 1, result - 1)
      /\ mhb' = mhb /\ read' = read /\ good' = good
    BY DEF Erase, FilterInv, ScanInv
<1>2. InputInv'
    BY <1>1 DEF InputInv, Increasing, hb
<1>3. /\ DOMAIN goodWrites' = 1 .. result - 1
      /\ \A i \in 1 .. result - 1 : goodWrites'[i] = goodWrites[i]
    <2>1. goodWrites \in Seq(Nat) /\ result - 1 \in 0 .. Len(goodWrites)
        BY <1>1 DEF ScanInv
    <2> QED
        BY <1>1, <2>1
<1>4. Elements(goodWrites)' = Wanted
    <2>1. ASSUME NEW i \in 1 .. result - 1
          PROVE  goodWrites[i] \in Wanted
        <3>1. PICK j \in 1 .. first - 1 : goodWrites[i] = good[j] /\ Stays(good[j])
            BY <1>1 DEF ScanInv
        <3>2. good[j] \in Elements(good)
            BY <1>1, <3>1 DEF Elements, InputInv
        <3> QED
            BY <3>1, <3>2 DEF Wanted, Stays
    <2>2. ASSUME NEW w \in Wanted
          PROVE  \E i \in 1 .. result - 1 : goodWrites[i] = w
        <3>1. PICK j \in DOMAIN good : w = good[j]
            BY DEF Wanted, Elements
        <3>2. Stays(good[j]) /\ j \in 1 .. first - 1
            BY <1>1, <3>1 DEF Wanted, Stays, InputInv
        <3> QED
            BY <1>1, <3>1, <3>2 DEF ScanInv
    <2> QED
        BY <1>3, <2>1, <2>2 DEF Elements
<1>5. Wanted' = Wanted
    BY <1>1 DEF Wanted, Elements, hb
<1>6. Increasing(goodWrites)'
    BY <1>1, <1>3 DEF ScanInv, Increasing
<1> QED
    BY <1>1, <1>2, <1>4, <1>5, <1>6 DEF FilterInv, FilterExact

LEMMA FilterInitInv == FilterInit => FilterInv
<1> SUFFICES ASSUME FilterInit PROVE FilterInv
    OBVIOUS
<1>1. good \in Seq(Nat)
    <2>1. ASSUME NEW n \in 0 .. MaxWrites, NEW s \in [1 .. n -> Events \ {read}]
          PROVE  s \in Seq(Nat)
        <3>1. n \in Nat /\ Events \subseteq Nat
            BY FilterAssumption
        <3>2. \A i \in 1 .. n : s[i] \in Nat
            BY <3>1
        <3>3. s \in [1 .. n -> Nat]
            BY <3>2
        <3> QED
            BY <3>1, <3>3
    <2>2. UNION {[1 .. n -> Events \ {read}] : n \in 0 .. MaxWrites} \subseteq Seq(Nat)
        BY <2>1
    <2> QED
        BY <2>2 DEF FilterInit
<1>2. InputInv
    <2>1. read \in Events /\ Increasing(good) /\ \A p \in mhb : p[1] < p[2]
        BY DEF FilterInit
    <2>2. \A a, b \in Nat : hb(a, b) => a < b
        BY <2>1 DEF hb
    <2> QED
        BY <1>1, <2>1, <2>2 DEF InputInv
<1>3. ScanInv
    BY <1>1 DEF FilterInit, ScanInv, Elements
<1> QED
    BY <1>2, <1>3 DEF FilterInit, FilterInv, FilterExact

-----------------------------------------------------------------------------
(***************************************************************************)
(* The filter leaves what it would leave if it asked an untouched copy of  *)
(* the vector, in the same order (casual_model.hpp:84-102).                *)
(***************************************************************************)
THEOREM FilterExactTheorem == FilterSpec => []FilterExact
<1>1. FilterInv /\ [FilterNext]_filterVars => FilterInv'
    <2> SUFFICES ASSUME FilterInv, [FilterNext]_filterVars PROVE FilterInv'
        OBVIOUS
    <2>1. CASE UNCHANGED filterVars
        <3>1. /\ mhb' = mhb /\ read' = read /\ good' = good /\ goodWrites' = goodWrites
              /\ first' = first /\ result' = result /\ loop' = loop
            BY <2>1 DEF filterVars
        <3>2. \A w : Stays(w)' <=> Stays(w)
            BY <3>1 DEF Stays, hb, Elements
        <3>3. InputInv'
            BY <3>1 DEF FilterInv, InputInv, Increasing, hb
        <3>4. loop = "scan" => ScanInv'
            BY <3>1, <3>2 DEF FilterInv, ScanInv, Elements
        <3>5. FilterExact'
            BY <3>1 DEF FilterInv, FilterExact, Wanted, Elements, Increasing, hb
        <3> QED
            BY <3>1, <3>3, <3>4, <3>5 DEF FilterInv
    <2> QED
        BY <2>1, KeepKeeps, RemoveKeeps, EraseKeeps DEF FilterNext
<1>2. FilterInv => FilterExact
    BY DEF FilterInv
<1> QED
    BY <1>1, <1>2, FilterInitInv, PTL DEF FilterSpec
=============================================================================
