------------------------- MODULE ResolverGraphProof -------------------------
(***************************************************************************)
(* What resolveInstance leaves behind, for every heap and class layout:    *)
(* the arcs of the class graph with their counts, the set of resolved      *)
(* objects, and the totals.  All rest on IInv of InstanceResolverProof.    *)
(*                                                                         *)
(* The arcs are added by the frames as they go on, so the invariant speaks *)
(* of the references that the frames have passed (Seen): a step of a frame *)
(* passes one, and arc_add counts it.  The resolved objects are bounded    *)
(* from above by the calls (every argument can be reached) and, at the     *)
(* end, from below by LoadedFromOwnBody.                                   *)
(*                                                                         *)
(* The totals are defined by recursion over the heap; where there is no    *)
(* cycle below an object that recursion ends, because what it refers to    *)
(* reaches less (Depth).  Each frame has added up the values it has passed *)
(* (Added), and a call hands the total of its object to the frame below    *)
(* (Returned).  The one call that would return an unfinished sum is for an *)
(* object on the stack; since each frame is for what the next refers to    *)
(* (Chained), the caller then is in a cycle and has no total.              *)
(***************************************************************************)
EXTENDS InstanceResolverProof, FiniteSetTheorems

\* The i-th reference of o has been followed to its end.
Seen(o, i) ==
    /\ resolved[o]
    /\ \A k \in 1..Len(stack) : stack[k].obj = o => i < stack[k].i

\* The references from objects of class p to objects of class d that were followed.
Counted(p, d) ==
    {r \in Obj \X Nat : /\ r[2] \in Refs(r[1]) /\ Seen(r[1], r[2])
                        /\ heap[r[1]].class = p
                        /\ heap[Target(r[1], r[2])].class = d}

\* A list of children has one arc for a class.
OneArc ==
    \A p \in Class : \A j, k \in 1..Len(children[p]) :
       children[p][j].child = children[p][k].child => j = k

\* The arcs array lists the arcs between distinct classes.
ArcsListed ==
    /\ \A k \in 1..Len(arcs) : arcs[k][1] # arcs[k][2] /\ ArcAt(arcs[k][1], arcs[k][2]) # {}
    /\ \A p, d \in Class : p # d /\ ArcAt(p, d) # {} =>
          \E k \in 1..Len(arcs) : arcs[k] = <<p, d>>
    /\ \A j, k \in 1..Len(arcs) : arcs[j] = arcs[k] => j = k
    /\ Len(arcs) <= arcs_max

\* What an arc has counted so far.
ArcsCount ==
    \A p, d \in Class :
       /\ IsFiniteSet(Counted(p, d))
       /\ ArcAt(p, d) = {} => Counted(p, d) = {}
       /\ \A k \in ArcAt(p, d) : children[p][k].count = Cardinality(Counted(p, d))

Selected == {o \in Obj : heap[o].class \in ckey}

\* What the traversal may resolve.
From == Selected \cup UNION {Reach(o) : o \in Selected}

\* The objects resolved, or about to be, can be reached, and none that is selected
\* is passed over.
Walked ==
    /\ \A o \in Obj : resolved[o] => o \in From
    /\ pc = "call" => arg \in From
    /\ \A o \in Selected : o \in todo \/ resolved[o] \/ (pc = "call" /\ arg = o)
    /\ todo \subseteq Selected
    /\ pc = "done" => todo = {}

GInv == OneArc /\ ArcsListed /\ ArcsCount /\ Walked

-----------------------------------------------------------------------------
\* What refers to what is a matter of the heap alone.
LEMMA HeapOnly ==
    ASSUME heap' = heap
    PROVE  \A o : /\ Count(o)' = Count(o)
                  /\ Refs(o)' = Refs(o)
                  /\ Succ(o)' = Succ(o)
                  /\ \A i : Target(o, i)' = Target(o, i)
  <1>1. \A o : Count(o)' = Count(o) /\ \A i : Slot(o, i)' = Slot(o, i) /\ ftype(o, i)' = ftype(o, i)
    BY DEF Count, Slot, ftype
  <1>2. \A o, i : Refers(o, i)' = Refers(o, i) /\ Target(o, i)' = Target(o, i)
    BY <1>1 DEF Refers, Target
  <1>3. \A o : Refs(o)' = Refs(o)
    BY <1>1, <1>2 DEF Refs
  <1>4. \A o : Succ(o)' = Succ(o)
    BY <1>2, <1>3 DEF Succ
  <1> QED BY <1>1, <1>2, <1>3, <1>4

\* The steps of the walk as the graph sees them.
Idle == UNCHANGED <<resolved, stack, arcVars>>

Enters ==
    /\ pc = "call" /\ arg \in Obj /\ ~resolved[arg] /\ UNCHANGED arcVars
    /\ resolved' = [resolved EXCEPT ![arg] = TRUE]
    /\ \/ stack' = stack /\ Refs(arg) = {}
       \/ Push(arg)

Turns(g) ==
    /\ stack # <<>> /\ UNCHANGED <<resolved, arcVars>>
    /\ stack' = SetTop(g) /\ g.obj = Top.obj
    /\ g.i = Top.i \/ (g.i = Top.i + 1 /\ Top.i \notin Refs(Top.obj))

Ends ==
    /\ stack # <<>> /\ UNCHANGED <<resolved, arcVars>>
    /\ stack' = Tail(stack) /\ Top.i > Count(Top.obj)

\* Every step is one of these.
LEMMA StepKinds ==
    ASSUME IInv, [Next]_vars
    PROVE  /\ heap' = heap /\ ckey' = ckey
           /\ \/ Idle \/ Enters \/ Ends \/ ReturnToFrame
              \/ \E g \in Frame : Turns(g)
  <1>1. heap' = heap /\ ckey' = ckey
    BY DEF Next, vars, Drive, DriveEnd, CallResolved, CallLeaf, CallOArray, CallInstance,
           LoadField, LoadElement, Finish, ReturnToDriver, ReturnToFrame, ReturnSegv,
           Terminated, fixed
  <1>2. CASE Drive \/ DriveEnd \/ CallResolved \/ ReturnToDriver \/ ReturnSegv \/ Terminated
             \/ UNCHANGED vars
    <2>1. Idle
      BY <1>2 DEF Idle, vars, Drive, DriveEnd, CallResolved, ReturnToDriver, ReturnSegv,
                  Terminated, objVars, arcVars
    <2> QED BY <1>1, <2>1
  <1>3. CASE CallLeaf \/ CallOArray \/ CallInstance
    <2>1. pc = "call" /\ arg \in Obj /\ ~resolved[arg]
          /\ resolved' = [resolved EXCEPT ![arg] = TRUE] /\ UNCHANGED arcVars
      BY <1>3 DEF CallLeaf, CallOArray, CallInstance, IInv, TypeOK
    <2>2. CASE CallLeaf
      <3>1. stack' = stack /\ (heap[arg].htype = "varray" \/ Count(arg) = 0)
        BY <2>2 DEF CallLeaf
      <3>2. Refs(arg) = {}
        BY <3>1 DEF Refs, Refers
      <3> QED BY <1>1, <2>1, <3>1, <3>2 DEF Enters
    <2>3. CASE CallOArray \/ CallInstance
      BY <1>1, <2>1, <2>3 DEF Enters, CallOArray, CallInstance
    <2> QED BY <1>3, <2>2, <2>3
  <1>4. CASE Finish
    BY <1>1, <1>4 DEF Finish, Ends, arcVars
  <1>5. CASE LoadElement
    <2>1. /\ stack # <<>> /\ Top \in Frame /\ Top.obj \in Obj /\ Top.i \in Nat \ {0}
          /\ Top.size \in Nat /\ stack \in Seq(Frame) /\ Open(Top)
      BY <1>5, TopFacts DEF LoadElement
    <2>2. UNCHANGED <<resolved, arcVars>> /\ heap[Top.obj].htype = "oarray"
          /\ Top.i <= Count(Top.obj) /\ Count(Top.obj) \in Nat
      BY <1>5, <2>1, TopFacts DEF LoadElement, objVars
    <2>3. CASE stack' = stack
      BY <1>1, <2>2, <2>3 DEF Idle
    <2>4. CASE stack' = Advanced(Top.size) /\ hvalues[Top.obj][Top.i] \notin Obj
      <3>1. Top.i \notin Refs(Top.obj)
        BY <2>1, <2>2, <2>4 DEF Refs, Refers, Open, Slot
      <3>2. PICK g \in Frame : g = [obj |-> Top.obj, i |-> Top.i + 1, size |-> Top.size]
        BY <2>1, NextFrame
      <3>3. Turns(g)
        BY <2>1, <2>2, <2>4, <3>1, <3>2 DEF Turns, Advanced
      <3> QED BY <1>1, <3>3
    <2> QED BY <1>5, <2>3, <2>4 DEF LoadElement
  <1>6. CASE LoadField
    <2>1. /\ stack # <<>> /\ Top \in Frame /\ Top.obj \in Obj /\ Top.i \in Nat \ {0}
          /\ Top.size \in Nat /\ TypeOK /\ Count(Top.obj) \in Nat
      BY <1>6, TopFacts DEF LoadField
    <2>2. PICK o \in Obj, i \in Nat \ {0} : o = Top.obj /\ i = Top.i
      BY <2>1
    <2>3. UNCHANGED <<resolved, arcVars>> /\ heap[o].htype = "instance" /\ i \in 1..Count(o)
      BY <1>6, <2>1, <2>2 DEF LoadField
    <2>4. /\ CellAt(<<o, Slot(o, i)>>) = Target(o, i) /\ Width[ftype(o, i)] \in Nat
      BY <2>1, <2>3, HeapFacts DEF Target
    <2> DEFINE sz == Top.size + Width[ftype(o, i)]
    <2>5. \/ stack' = SetTop([Top EXCEPT !.size = sz])
          \/ stack' = Advanced(sz)
                /\ (~IsRead(o, i) \/ ~(ftype(o, i) \in RefType /\ Target(o, i) \in Obj))
      BY <1>6, <2>2, <2>4 DEF LoadField, SeekField
    <2>6. sz \in Nat
      BY <2>1, <2>4
    <2> HIDE DEF sz
    <2>7. CASE stack' = SetTop([Top EXCEPT !.size = sz])
      <3>1. PICK g \in Frame : g = [Top EXCEPT !.size = sz]
        BY <2>1, <2>6 DEF Frame
      <3>2. g.obj = Top.obj /\ g.i = Top.i
        BY <2>1, <3>1 DEF Frame
      <3> QED BY <1>1, <2>1, <2>3, <2>7, <3>1, <3>2 DEF Turns
    <2>8. CASE /\ stack' = Advanced(sz)
               /\ ~IsRead(o, i) \/ ~(ftype(o, i) \in RefType /\ Target(o, i) \in Obj)
      <3>1. Top.i \notin Refs(Top.obj)
        BY <2>2, <2>8 DEF Refs, Refers, Target, IsRead, RefType
      <3>2. PICK g \in Frame : g = [obj |-> Top.obj, i |-> Top.i + 1, size |-> sz]
        BY <2>1, <2>6, NextFrame
      <3>3. Turns(g)
        BY <2>1, <2>3, <2>8, <3>1, <3>2 DEF Turns, Advanced
      <3> QED BY <1>1, <3>3
    <2> QED BY <2>5, <2>7, <2>8
  <1> QED BY <1>1, <1>2, <1>3, <1>4, <1>5, <1>6 DEF Next

\* The stack after a push, a turn of the innermost frame, or its end.
LEMMA StackFacts ==
    ASSUME IInv
    PROVE  /\ stack \in Seq(Frame) /\ Len(stack) \in Nat
           /\ \A k \in 1..Len(stack) : stack[k] \in Frame /\ resolved[stack[k].obj]
  BY SeqElement DEF IInv, TypeOK, FramesOpen, Open

\* No step but the return to a frame changes what has been followed.
LEMMA SeenKept ==
    ASSUME IInv, heap' = heap, Idle \/ Enters \/ Ends \/ \E g \in Frame : Turns(g)
    PROVE  \A o \in Obj : \A i \in Refs(o) : Seen(o, i)' <=> Seen(o, i)
  <1> SUFFICES ASSUME NEW o \in Obj, NEW i \in Refs(o)
               PROVE  Seen(o, i)' <=> Seen(o, i)
    OBVIOUS
  <1>0. i \in Nat \ {0} /\ i <= Count(o) /\ Count(o) \in Nat
    BY HeapFacts DEF Refs, IInv
  <1>1. /\ stack \in Seq(Frame) /\ Len(stack) \in Nat
        /\ \A k \in 1..Len(stack) : stack[k] \in Frame /\ resolved[stack[k].obj]
    BY StackFacts
  <1>2. CASE Idle
    BY <1>2 DEF Idle, Seen
  <1>3. CASE Enters
    <2>1. CASE stack' = stack /\ Refs(arg) = {}
      <3>1. o # arg /\ resolved'[o] = resolved[o]
        BY <1>3, <2>1 DEF Enters, IInv, TypeOK
      <3> QED BY <2>1, <3>1 DEF Seen
    <2>2. CASE Push(arg)
      <3> DEFINE g == [obj |-> arg, i |-> 1, size |-> 0]
      <3>1. g \in Frame /\ g.obj = arg /\ g.i = 1 /\ stack' = <<g>> \o stack
        BY <1>3, <2>2 DEF Push, Enters, Frame
      <3> HIDE DEF g
      <3>2. /\ Len(stack') = Len(stack) + 1 /\ stack'[1] = g
            /\ \A k \in 2..(Len(stack) + 1) : stack'[k] = stack[k - 1]
        BY <1>1, <3>1, PushSeq
      <3>3. /\ 1 \in 1..Len(stack')
            /\ \A k \in 1..Len(stack) : k + 1 \in 1..Len(stack') /\ stack'[k + 1] = stack[k]
        BY <1>1, <3>2
      <3>4. CASE o = arg
        <4>1. ~resolved[arg]
          BY <1>3 DEF Enters
        <4>2. stack'[1].obj = o /\ ~(i < stack'[1].i)
          BY <1>0, <3>1, <3>2, <3>4
        <4> QED BY <3>3, <3>4, <4>1, <4>2 DEF Seen
      <3>5. CASE o # arg
        <4>1. resolved'[o] = resolved[o]
          BY <1>3, <3>5 DEF Enters, IInv, TypeOK
        <4>2. \A k \in 1..Len(stack') : stack'[k].obj = o => k - 1 \in 1..Len(stack) /\ stack'[k] = stack[k - 1]
          <5> SUFFICES ASSUME NEW k \in 1..Len(stack'), stack'[k].obj = o
                       PROVE  k - 1 \in 1..Len(stack) /\ stack'[k] = stack[k - 1]
            OBVIOUS
          <5>1. k # 1
            BY <3>1, <3>2, <3>5
          <5> QED BY <1>1, <3>2, <5>1
        <4> QED BY <3>3, <4>1, <4>2, SMTT(30) DEF Seen
      <3> QED BY <3>4, <3>5
    <2> QED BY <1>3, <2>1, <2>2 DEF Enters
  <1>4. CASE Ends
    <2>1. /\ Len(stack') = Len(stack) - 1 /\ Top = stack[1] /\ Len(stack) # 0
          /\ \A k \in 1..(Len(stack) - 1) : stack'[k] = stack[k + 1]
      BY <1>1, <1>4, PopSeq DEF Ends, Top
    <2>2. ASSUME NEW k \in 2..Len(stack)
          PROVE  k - 1 \in 1..Len(stack') /\ stack'[k - 1] = stack[k]
      <3>1. k - 1 \in 1..(Len(stack) - 1) /\ (k - 1) + 1 = k
        BY <1>1
      <3>2. stack'[k - 1] = stack[(k - 1) + 1]
        BY <2>1, <3>1
      <3> QED BY <2>1, <3>1, <3>2
    <2>3. \A k \in 1..Len(stack') : k + 1 \in 1..Len(stack) /\ stack'[k] = stack[k + 1]
      BY <1>1, <2>1
    <2>4. Top.obj = o => i < Top.i
      <3>1. Top \in Frame /\ Top.i \in Nat
        BY <1>1, <2>1 DEF Frame
      <3> QED BY <1>0, <1>4, <3>1 DEF Ends
    <2>5. \A k \in 1..Len(stack) : k = 1 \/ k \in 2..Len(stack)
      BY <1>1
    <2>6. resolved' = resolved
      BY <1>4 DEF Ends
    <2>7. ASSUME Seen(o, i)' PROVE Seen(o, i)
      <3> SUFFICES ASSUME NEW k \in 1..Len(stack), stack[k].obj = o
                   PROVE  i < stack[k].i
        BY <2>6, <2>7 DEF Seen
      <3>1. CASE k = 1
        BY <2>1, <2>4, <3>1
      <3>2. CASE k \in 2..Len(stack)
        BY <2>2, <2>7, <3>2 DEF Seen
      <3> QED BY <2>5, <3>1, <3>2
    <2>8. ASSUME Seen(o, i) PROVE Seen(o, i)'
      BY <2>3, <2>6, <2>8 DEF Seen
    <2> QED BY <2>7, <2>8
  <1>5. CASE \E g \in Frame : Turns(g)
    <2>1. PICK g \in Frame : Turns(g)
      BY <1>5
    <2>2. /\ Len(stack') = Len(stack) /\ stack'[1] = g /\ Len(stack) # 0
          /\ \A k \in 2..Len(stack) : stack'[k] = stack[k]
          /\ Top = stack[1] /\ resolved' = resolved /\ Top \in Frame
      BY <1>1, <2>1, SetTopSeq, PopSeq DEF Turns, SetTop, Top
    <2>3. Top.obj = o => (i < g.i <=> i < Top.i)
      <3>1. Top.i \in Nat
        BY <2>2 DEF Frame
      <3>2. CASE g.i = Top.i
        BY <3>2
      <3>3. CASE g.i = Top.i + 1 /\ Top.i \notin Refs(Top.obj) /\ Top.obj = o
        <4>1. i # Top.i
          BY <3>3
        <4> QED BY <1>0, <3>1, <3>3, <4>1
      <3> QED BY <2>1, <3>2, <3>3 DEF Turns
    <2>4. \A k \in 1..Len(stack) : /\ stack'[k].obj = stack[k].obj
                                   /\ stack[k].obj = o => (i < stack'[k].i <=> i < stack[k].i)
      <3> SUFFICES ASSUME NEW k \in 1..Len(stack)
                   PROVE  /\ stack'[k].obj = stack[k].obj
                          /\ stack[k].obj = o => (i < stack'[k].i <=> i < stack[k].i)
        OBVIOUS
      <3>1. CASE k = 1
        BY <2>1, <2>2, <2>3, <3>1 DEF Turns
      <3>2. CASE k \in 2..Len(stack)
        BY <2>2, <3>2
      <3> QED BY <1>1, <3>1, <3>2
    <2> QED BY <2>2, <2>4 DEF Seen
  <1> QED BY <1>2, <1>3, <1>4, <1>5

\* The return to a frame passes its current reference, and no other.
LEMMA SeenReturn ==
    ASSUME IInv, ReturnToFrame
    PROVE  \E p \in Obj : \E n \in Refs(p) :
              /\ p = Top.obj /\ n = Top.i /\ n \in Nat
              /\ hvalues[p][n] = Target(p, n) /\ Target(p, n) \in Obj
              /\ ~Seen(p, n) /\ Seen(p, n)'
              /\ \A o \in Obj : \A i \in Refs(o) :
                    o # p \/ i # n => (Seen(o, i)' <=> Seen(o, i))
  <1>1. /\ stack \in Seq(Frame) /\ Len(stack) \in Nat
        /\ \A k \in 1..Len(stack) : stack[k] \in Frame /\ resolved[stack[k].obj]
    BY StackFacts
  <1>2. /\ stack # <<>> /\ Top = stack[1] /\ 1 \in 1..Len(stack) /\ Top \in Frame
        /\ Top.obj \in Obj /\ Top.i \in Nat \ {0} /\ Top.size \in Nat /\ Count(Top.obj) \in Nat
    BY TopFacts DEF ReturnToFrame
  <1>3. Waits(Top)
    BY <1>2 DEF IInv, FramesWait, ReturnToFrame
  <1>4. PICK g \in Frame : g = [obj |-> Top.obj, i |-> Top.i + 1, size |-> Top.size]
    BY <1>2, NextFrame
  <1>5. /\ Len(stack') = Len(stack) /\ stack'[1] = g /\ resolved' = resolved
        /\ \A k \in 2..Len(stack) : stack'[k] = stack[k]
    <2>1. stack' = SetTop(g)
      BY <1>4 DEF ReturnToFrame, Advanced
    <2>2. resolved' = resolved
      BY DEF ReturnToFrame
    <2>3. stack' = <<g>> \o Tail(stack)
      BY <2>1 DEF SetTop
    <2>4. /\ Len(<<g>> \o Tail(stack)) = Len(stack) /\ (<<g>> \o Tail(stack))[1] = g
          /\ \A k \in 2..Len(stack) : (<<g>> \o Tail(stack))[k] = stack[k]
      BY <1>1, <1>2, SetTopSeq
    <2> QED BY <2>2, <2>3, <2>4
  <1>6. \A k \in 2..Len(stack) : stack[k].obj # Top.obj
    BY <1>1, <1>2 DEF IInv, NoReentry
  <1>7. \A k \in 1..Len(stack) : k = 1 \/ k \in 2..Len(stack)
    BY <1>1
  <1>8. Top.i \in Refs(Top.obj) /\ Target(Top.obj, Top.i) \in Obj
        /\ hvalues[Top.obj][Top.i] = Target(Top.obj, Top.i)
    BY <1>2, <1>3 DEF Waits, Refs, Refers, Target
  <1>9. ~Seen(Top.obj, Top.i)
    BY <1>2 DEF Seen
  <1>10. PICK p \in Obj, n \in Nat : p = Top.obj /\ n = Top.i /\ n \in Refs(p)
    BY <1>2, <1>8
  <1>11. Seen(p, n)'
    <2>1. ASSUME NEW k \in 1..Len(stack'), stack'[k].obj = p
          PROVE  n < stack'[k].i
      <3>1. k = 1
        BY <1>5, <1>6, <1>7, <1>10, <2>1
      <3> QED BY <1>4, <1>5, <1>10, <3>1
    <2>2. resolved'[p]
      BY <1>1, <1>2, <1>5, <1>10
    <2> QED BY <2>1, <2>2 DEF Seen
  <1>12. ASSUME NEW o \in Obj, NEW i \in Refs(o), o # Top.obj \/ i # Top.i
         PROVE  Seen(o, i)' <=> Seen(o, i)
    <2>0. i \in Nat
      BY DEF Refs
    <2>1. \A k \in 1..Len(stack) : /\ stack'[k].obj = stack[k].obj
                                   /\ stack[k].obj = o => (i < stack'[k].i <=> i < stack[k].i)
      <3> SUFFICES ASSUME NEW k \in 1..Len(stack)
                   PROVE  /\ stack'[k].obj = stack[k].obj
                          /\ stack[k].obj = o => (i < stack'[k].i <=> i < stack[k].i)
        OBVIOUS
      <3>1. CASE k = 1
        <4>1. g.obj = Top.obj /\ g.i = Top.i + 1
          BY <1>4
        <4>2. Top.obj = o => i # Top.i
          BY <1>12
        <4>3. Top.obj = o => (i < g.i <=> i < Top.i)
          BY <1>2, <2>0, <4>1, <4>2
        <4> QED BY <1>2, <1>5, <3>1, <4>1, <4>3
      <3>2. CASE k \in 2..Len(stack)
        BY <1>5, <3>2
      <3> QED BY <1>7, <3>1, <3>2
    <2> QED BY <1>5, <2>1 DEF Seen
  <1> QED BY <1>8, <1>9, <1>10, <1>11, <1>12

-----------------------------------------------------------------------------
(* arc_add.                                                                *)

Entry == [child : Class, count : Nat]

\* arc_add finds the arc: its count goes up, and nothing else changes.
LEMMA ArcFound ==
    ASSUME TypeOK, NEW p \in Class, NEW d \in Class, ArcAdd(p, d), ArcAt(p, d) # {}
    PROVE  /\ UNCHANGED <<arcs, arcs_max>>
           /\ \A q \in Class : Len(children'[q]) = Len(children[q])
           /\ \A q \in Class : \A j \in 1..Len(children[q]) :
                 children'[q][j].child = children[q][j].child
           /\ \E k \in ArcAt(p, d) :
                 \A q \in Class : \A j \in 1..Len(children[q]) :
                    children'[q][j].count = IF q = p /\ j = k THEN children[q][j].count + 1
                                                              ELSE children[q][j].count
  <1>1. PICK k \in ArcAt(p, d) : children' = [children EXCEPT ![p][k].count = @ + 1]
    BY DEF ArcAdd
  <1>2. UNCHANGED <<arcs, arcs_max>>
    BY DEF ArcAdd
  <1>3. children \in [Class -> Seq(Entry)]
    BY DEF TypeOK, Entry
  <1>4. \A q \in Class : children[q] \in Seq(Entry)
    BY <1>3
  <1>5. k \in 1..Len(children[p])
    BY <1>1 DEF ArcAt
  <1>6. children[p][k] \in Entry
    BY <1>4, <1>5, SeqElement
  <1>7. children' = [children EXCEPT ![p] =
              [children[p] EXCEPT ![k] = [children[p][k] EXCEPT !.count = @ + 1]]]
    BY <1>1
  <1> DEFINE new == [children[p] EXCEPT ![k] = [children[p][k] EXCEPT !.count = @ + 1]]
  <1>8. /\ children'[p] = new
        /\ \A q \in Class : q # p => children'[q] = children[q]
    BY <1>3, <1>7
  <1>9. /\ Len(new) = Len(children[p])
        /\ new[k] = [children[p][k] EXCEPT !.count = @ + 1]
        /\ \A j \in 1..Len(children[p]) : j # k => new[j] = children[p][j]
    BY <1>4, <1>5
  <1>10. new[k].child = children[p][k].child /\ new[k].count = children[p][k].count + 1
    BY <1>6, <1>9 DEF Entry
  <1> HIDE DEF new
  <1>11. \A q \in Class : Len(children'[q]) = Len(children[q])
    BY <1>8, <1>9
  <1>12. ASSUME NEW q \in Class, NEW j \in 1..Len(children[q])
         PROVE  /\ children'[q][j].child = children[q][j].child
                /\ children'[q][j].count = IF q = p /\ j = k THEN children[q][j].count + 1
                                                             ELSE children[q][j].count
    <2>1. CASE q = p /\ j = k
      BY <1>8, <1>10, <2>1
    <2>2. CASE q # p \/ j # k
      BY <1>8, <1>9, <2>2
    <2> QED BY <2>1, <2>2
  <1> QED BY <1>2, <1>11, <1>12

\* arc_add makes an arc: it is the first of its list, the others move on by one.
LEMMA ArcMade ==
    ASSUME TypeOK, NEW p \in Class, NEW d \in Class, ArcAdd(p, d), ArcAt(p, d) = {}
    PROVE  /\ \A q \in Class : q # p => children'[q] = children[q]
           /\ Len(children[p]) \in Nat /\ Len(children'[p]) = Len(children[p]) + 1
           /\ children'[p][1].child = d /\ children'[p][1].count = 1
           /\ \A j \in 1..Len(children[p]) : children'[p][j + 1] = children[p][j]
           /\ \A j \in 2..Len(children'[p]) :
                 j - 1 \in 1..Len(children[p]) /\ children'[p][j] = children[p][j - 1]
           /\ p = d => UNCHANGED <<arcs, arcs_max>>
           /\ p # d => /\ arcs' = Append(arcs, <<p, d>>)
                       /\ arcs_max' = IF Len(arcs) = arcs_max THEN arcs_max + ArcChunk
                                                              ELSE arcs_max
  <1>1. children \in [Class -> Seq(Entry)]
    BY DEF TypeOK, Entry
  <1> DEFINE e == [child |-> d, count |-> 1]
  <1>2. e \in Entry /\ e.child = d /\ e.count = 1
    BY DEF Entry
  <1>3. /\ children' = [children EXCEPT ![p] = <<e>> \o @]
        /\ p = d => UNCHANGED <<arcs, arcs_max>>
        /\ p # d => /\ arcs' = Append(arcs, <<p, d>>)
                    /\ arcs_max' = IF Len(arcs) = arcs_max THEN arcs_max + ArcChunk
                                                           ELSE arcs_max
    BY DEF ArcAdd
  <1> HIDE DEF e
  <1>4. children[p] \in Seq(Entry) /\ Len(children[p]) \in Nat
    BY <1>1
  <1>5. children'[p] = <<e>> \o children[p] /\ \A q \in Class : q # p => children'[q] = children[q]
    BY <1>1, <1>3
  <1>6. /\ Len(children'[p]) = Len(children[p]) + 1 /\ children'[p][1] = e
        /\ \A k \in 2..(Len(children[p]) + 1) : children'[p][k] = children[p][k - 1]
    BY <1>2, <1>4, <1>5, PushSeq
  <1>7. ASSUME NEW j \in 1..Len(children[p])
        PROVE  children'[p][j + 1] = children[p][j]
    <2>1. j + 1 \in 2..(Len(children[p]) + 1) /\ (j + 1) - 1 = j
      BY <1>4
    <2>2. children'[p][j + 1] = children[p][(j + 1) - 1]
      BY <1>6, <2>1
    <2> QED BY <2>1, <2>2
  <1>8. \A j \in 2..Len(children'[p]) :
           j - 1 \in 1..Len(children[p]) /\ children'[p][j] = children[p][j - 1]
    BY <1>4, <1>6
  <1> QED BY <1>2, <1>3, <1>4, <1>5, <1>6, <1>7, <1>8

\* arc_add keeps one arc for a pair of classes, whichever way it goes, and adds to
\* the count of this pair alone.
LEMMA ArcAddKeeps ==
    ASSUME TypeOK, OneArc, NEW p \in Class, NEW d \in Class, ArcAdd(p, d)
    PROVE  /\ OneArc'
           /\ \A q, e \in Class : q # p \/ e # d => (ArcAt(q, e)' = {} <=> ArcAt(q, e) = {})
           /\ ArcAt(p, d)' # {}
           /\ \A q, e \in Class : q # p \/ e # d =>
                 \A k \in ArcAt(q, e)' : \E j \in ArcAt(q, e) :
                    children'[q][k].count = children[q][j].count
           /\ ArcAt(p, d) = {} => \A k \in ArcAt(p, d)' : children'[p][k].count = 1
           /\ ArcAt(p, d) # {} => \A k \in ArcAt(p, d)' :
                 k \in ArcAt(p, d) /\ children'[p][k].count = children[p][k].count + 1
  <1>1. CASE ArcAt(p, d) # {}
    <2>1. /\ \A q \in Class : Len(children'[q]) = Len(children[q])
          /\ \A q \in Class : \A j \in 1..Len(children[q]) :
                 children'[q][j].child = children[q][j].child
      BY <1>1, ArcFound
    <2>2. PICK k \in ArcAt(p, d) :
             \A q \in Class : \A j \in 1..Len(children[q]) :
                children'[q][j].count = IF q = p /\ j = k THEN children[q][j].count + 1
                                                          ELSE children[q][j].count
      BY <1>1, ArcFound
    <2>3. \A q, e \in Class : ArcAt(q, e)' = ArcAt(q, e)
      BY <2>1 DEF ArcAt
    <2>4. OneArc'
      BY <2>1 DEF OneArc
    <2>5. k \in 1..Len(children[p]) /\ children[p][k].child = d
      BY <2>2 DEF ArcAt
    <2>6. ASSUME NEW q \in Class, NEW e \in Class, NEW j \in ArcAt(q, e)
          PROVE  /\ q # p \/ e # d => children'[q][j].count = children[q][j].count
                 /\ q = p /\ e = d => children'[q][j].count = children[q][j].count + 1
      <3>1. j \in 1..Len(children[q]) /\ children[q][j].child = e
        BY <2>6 DEF ArcAt
      <3>2. q = p => (j = k <=> e = d)
        BY <2>5, <3>1 DEF OneArc
      <3> QED BY <2>2, <3>1, <3>2
    <2> QED BY <1>1, <2>3, <2>4, <2>6
  <1>2. CASE ArcAt(p, d) = {}
    <2>1. /\ \A q \in Class : q # p => children'[q] = children[q]
          /\ Len(children[p]) \in Nat /\ Len(children'[p]) = Len(children[p]) + 1
          /\ children'[p][1].child = d /\ children'[p][1].count = 1
          /\ \A j \in 1..Len(children[p]) : children'[p][j + 1] = children[p][j]
          /\ \A j \in 2..Len(children'[p]) :
                j - 1 \in 1..Len(children[p]) /\ children'[p][j] = children[p][j - 1]
      BY <1>2, ArcMade
    <2>2. \A j \in 1..Len(children[p]) : children[p][j].child # d
      BY <1>2 DEF ArcAt
    <2>3. \A j \in 1..Len(children'[p]) : j = 1 \/ j \in 2..Len(children'[p])
      BY <2>1
    <2>4. OneArc'
      <3> SUFFICES ASSUME NEW q \in Class, NEW j \in 1..Len(children'[q]),
                          NEW k \in 1..Len(children'[q]),
                          children'[q][j].child = children'[q][k].child
                   PROVE  j = k
        BY DEF OneArc
      <3>1. CASE q # p
        BY <2>1, <3>1 DEF OneArc
      <3>2. CASE q = p
        <4>1. CASE j = 1
          BY <2>1, <2>2, <2>3, <3>2, <4>1
        <4>2. CASE k = 1
          BY <2>1, <2>2, <2>3, <3>2, <4>2, SMTT(30)
        <4>3. CASE j # 1 /\ k # 1
          <5>1. j - 1 = k - 1
            <6>1. /\ j - 1 \in 1..Len(children[p]) /\ children'[p][j] = children[p][j - 1]
                  /\ k - 1 \in 1..Len(children[p]) /\ children'[p][k] = children[p][k - 1]
              BY <2>1, <2>3, <3>2, <4>3
            <6>2. children[p][j - 1].child = children[p][k - 1].child
              BY <3>2, <6>1
            <6> QED BY <6>1, <6>2 DEF OneArc
          <5>2. j \in Int /\ k \in Int
            BY <2>1, <3>2
          <5> QED BY <5>1, <5>2
        <4> QED BY <4>1, <4>2, <4>3
      <3> QED BY <3>1, <3>2
    <2>5. ASSUME NEW q \in Class, NEW e \in Class, q # p \/ e # d
          PROVE  /\ ArcAt(q, e)' = {} <=> ArcAt(q, e) = {}
                 /\ \A k \in ArcAt(q, e)' : \E j \in ArcAt(q, e) :
                       children'[q][k].count = children[q][j].count
      <3>1. CASE q # p
        BY <2>1, <3>1 DEF ArcAt
      <3>2. CASE q = p /\ e # d
        <4>1. ASSUME NEW k \in ArcAt(q, e)'
              PROVE  k - 1 \in ArcAt(q, e) /\ children'[q][k].count = children[q][k - 1].count
          <5>1. k \in 1..Len(children'[p]) /\ children'[p][k].child = e
            BY <3>2, <4>1 DEF ArcAt
          <5>2. k \in 2..Len(children'[p])
            BY <2>1, <2>3, <3>2, <5>1
          <5> QED BY <2>1, <3>2, <5>1, <5>2 DEF ArcAt
        <4>2. ASSUME NEW j \in ArcAt(q, e)
              PROVE  j + 1 \in ArcAt(q, e)'
          <5>1. j \in 1..Len(children[p]) /\ children[p][j].child = e
            BY <3>2, <4>2 DEF ArcAt
          <5>2. j + 1 \in 1..Len(children'[p]) /\ children'[p][j + 1].child = e
            BY <2>1, <5>1
          <5> QED BY <3>2, <5>2 DEF ArcAt
        <4> QED BY <4>1, <4>2
      <3> QED BY <2>5, <3>1, <3>2
    <2>6. ArcAt(p, d)' = {1}
      <3>1. 1 \in ArcAt(p, d)'
        BY <2>1 DEF ArcAt
      <3>2. ASSUME NEW k \in ArcAt(p, d)' PROVE k = 1
        BY <2>1, <2>2, <2>3, <3>2 DEF ArcAt
      <3> QED BY <3>1, <3>2
    <2> QED BY <1>2, <2>1, <2>4, <2>5, <2>6
  <1> QED BY <1>1, <1>2

\* The arcs array goes on listing the arcs between distinct classes, once each, and
\* grows before it is full.
LEMMA ArcAddListed ==
    ASSUME TypeOK, OneArc, ArcsListed, NEW p \in Class, NEW d \in Class, ArcAdd(p, d)
    PROVE  ArcsListed'
  <1>1. /\ \A q, e \in Class : q # p \/ e # d => (ArcAt(q, e)' = {} <=> ArcAt(q, e) = {})
        /\ ArcAt(p, d)' # {}
    BY ArcAddKeeps
  <1>2. arcs \in Seq(Class \X Class) /\ Len(arcs) \in Nat /\ arcs_max \in Nat
    BY DEF TypeOK
  <1>3. \A k \in 1..Len(arcs) : arcs[k] \in Class \X Class
    BY <1>2, SeqElement
  <1>4. CASE UNCHANGED <<arcs, arcs_max>> /\ (p = d \/ ArcAt(p, d) # {})
    <2>1. \A q, e \in Class : q # e => (ArcAt(q, e)' # {} <=> ArcAt(q, e) # {})
      BY <1>1, <1>4
    <2>2. \A k \in 1..Len(arcs) : arcs[k][1] \in Class /\ arcs[k][2] \in Class
      BY <1>3
    <2>3. ASSUME NEW k \in 1..Len(arcs'), NEW q \in Class, NEW e \in Class,
                 q = arcs'[k][1], e = arcs'[k][2]
          PROVE  q # e /\ ArcAt(q, e)' # {}
      BY <1>4, <2>1, <2>3 DEF ArcsListed
    <2>4. \A k \in 1..Len(arcs') : arcs'[k][1] # arcs'[k][2] /\ ArcAt(arcs[k][1], arcs[k][2])' # {}
      BY <1>4, <2>2, <2>3 DEF ArcAt
    <2> QED BY <1>4, <2>1, <2>4 DEF ArcsListed
  <1>5. CASE p # d /\ ArcAt(p, d) = {}
    <2>1. /\ arcs' = Append(arcs, <<p, d>>)
          /\ arcs_max' = IF Len(arcs) = arcs_max THEN arcs_max + ArcChunk ELSE arcs_max
      BY <1>5, ArcMade
    <2>2. /\ Len(arcs') = Len(arcs) + 1 /\ arcs'[Len(arcs) + 1] = <<p, d>>
          /\ \A k \in 1..Len(arcs) : arcs'[k] = arcs[k]
      BY <1>2, <2>1
    <2>3. Len(arcs') <= arcs_max'
      BY <1>2, <2>1, <2>2, SizeAssumption DEF ArcsListed
    <2>4. \A k \in 1..Len(arcs) : arcs[k] # <<p, d>>
      BY <1>5 DEF ArcsListed
    <2>5. \A k \in 1..Len(arcs') : k = Len(arcs) + 1 \/ k \in 1..Len(arcs)
      BY <1>2, <2>2
    <2>6. \A j, k \in 1..Len(arcs') : arcs'[j] = arcs'[k] => j = k
      BY <2>2, <2>4, <2>5 DEF ArcsListed
    <2>7. ASSUME NEW k \in 1..Len(arcs'), NEW q \in Class, NEW e \in Class,
                 q = arcs'[k][1], e = arcs'[k][2]
          PROVE  q # e /\ ArcAt(q, e)' # {}
      <3>1. CASE k = Len(arcs) + 1
        BY <1>1, <1>5, <2>2, <2>7, <3>1
      <3>2. CASE k \in 1..Len(arcs)
        <4>1. q # e /\ ArcAt(q, e) # {}
          BY <2>2, <2>7, <3>2 DEF ArcsListed
        <4> QED BY <1>1, <4>1
      <3> QED BY <2>5, <3>1, <3>2
    <2>8. \A k \in 1..Len(arcs') : arcs'[k][1] \in Class /\ arcs'[k][2] \in Class
      BY <1>3, <2>2, <2>5
    <2>9. ASSUME NEW q \in Class, NEW e \in Class, q # e, ArcAt(q, e)' # {}
          PROVE  \E k \in 1..Len(arcs') : arcs'[k] = <<q, e>>
      <3>1. CASE q = p /\ e = d
        <4>1. Len(arcs) + 1 \in 1..Len(arcs')
          BY <1>2, <2>2
        <4> QED BY <2>2, <3>1, <4>1
      <3>2. CASE q # p \/ e # d
        <4>1. PICK k \in 1..Len(arcs) : arcs[k] = <<q, e>>
          BY <1>1, <2>9, <3>2 DEF ArcsListed
        <4>2. k \in 1..Len(arcs')
          BY <1>2, <2>2
        <4> QED BY <2>2, <4>1, <4>2
      <3> QED BY <3>1, <3>2
    <2>10. \A k \in 1..Len(arcs') : ArcAt(arcs[k][1], arcs[k][2])' # {}
      BY <2>7, <2>8 DEF ArcAt
    <2> QED BY <2>3, <2>6, <2>7, <2>8, <2>9, <2>10 DEF ArcsListed
  <1>6. CASE p = d /\ ArcAt(p, d) = {}
    BY <1>4, <1>6, ArcMade
  <1>7. CASE ArcAt(p, d) # {}
    BY <1>4, <1>7, ArcFound
  <1> QED BY <1>5, <1>6, <1>7

-----------------------------------------------------------------------------
(* The references counted.                                                 *)

\* A step that is no return to a frame counts nothing.
LEMMA CountedKept ==
    ASSUME IInv, heap' = heap, Idle \/ Enters \/ Ends \/ \E g \in Frame : Turns(g)
    PROVE  \A p, d : Counted(p, d)' = Counted(p, d)
  <1>1. \A o \in Obj : \A i \in Refs(o) : Seen(o, i)' <=> Seen(o, i)
    BY SeenKept
  <1>2. \A o : Refs(o)' = Refs(o) /\ \A i : Target(o, i)' = Target(o, i)
    BY HeapOnly
  <1> QED BY <1>1, <1>2 DEF Counted

\* The return to a frame counts the reference at which the frame stands, on the arc
\* of the two classes and on no other.
LEMMA CountedReturn ==
    ASSUME IInv, ReturnToFrame, NEW o, NEW n, o = Top.obj, n = Top.i
    PROVE  /\ o \in Obj /\ n \in Refs(o) /\ Target(o, n) \in Obj
           /\ hvalues[o][n] = Target(o, n)
           /\ <<o, n>> \notin Counted(heap[o].class, heap[Target(o, n)].class)
           /\ \A p, d : Counted(p, d)' =
                 IF p = heap[o].class /\ d = heap[Target(o, n)].class
                 THEN Counted(p, d) \cup {<<o, n>>} ELSE Counted(p, d)
  <1>1. heap' = heap
    BY DEF ReturnToFrame, fixed
  <1>2. /\ n \in Refs(o) /\ Target(o, n) \in Obj /\ hvalues[o][n] = Target(o, n)
        /\ ~Seen(o, n) /\ Seen(o, n)'
        /\ \A q \in Obj : \A i \in Refs(q) : (q # o \/ i # n) => (Seen(q, i)' <=> Seen(q, i))
    BY SeenReturn
  <1>3. o \in Obj /\ n \in Nat
    BY TopFacts DEF ReturnToFrame
  <1>4. \A q : Refs(q)' = Refs(q) /\ \A i : Target(q, i)' = Target(q, i)
    BY <1>1, HeapOnly
  <1>5. ASSUME NEW p, NEW d, NEW r \in Obj \X Nat
        PROVE  r \in Counted(p, d)' <=>
                 \/ r \in Counted(p, d)
                 \/ r = <<o, n>> /\ p = heap[o].class /\ d = heap[Target(o, n)].class
    <2>1. CASE r = <<o, n>>
      BY <1>1, <1>2, <1>3, <1>4, <2>1 DEF Counted
    <2>2. CASE r # <<o, n>>
      <3>1. r[1] # o \/ r[2] # n
        BY <2>2
      <3> QED BY <1>1, <1>2, <1>4, <2>2, <3>1 DEF Counted
    <2> QED BY <2>1, <2>2
  <1>6. \A p, d : Counted(p, d) \subseteq Obj \X Nat /\ Counted(p, d)' \subseteq Obj \X Nat
    BY DEF Counted
  <1>7. <<o, n>> \notin Counted(heap[o].class, heap[Target(o, n)].class)
    BY <1>2 DEF Counted
  <1>8. ASSUME NEW p, NEW d
        PROVE  Counted(p, d)' =
                 IF p = heap[o].class /\ d = heap[Target(o, n)].class
                 THEN Counted(p, d) \cup {<<o, n>>} ELSE Counted(p, d)
    <2>1. <<o, n>> \in Obj \X Nat
      BY <1>3
    <2> QED BY <1>5, <1>6, <2>1
  <1> QED BY <1>2, <1>3, <1>7, <1>8

\* The arcs, with their counts, after every step.
LEMMA ArcsNext ==
    ASSUME IInv, [Next]_vars, OneArc, ArcsListed, ArcsCount
    PROVE  OneArc' /\ ArcsListed' /\ ArcsCount'
  <1>1. heap' = heap /\ TypeOK
    BY StepKinds DEF IInv
  <1>2. CASE Idle \/ Enters \/ Ends \/ \E g \in Frame : Turns(g)
    <2>1. UNCHANGED <<children, arcs, arcs_max>>
      BY <1>2 DEF Idle, Enters, Ends, Turns, arcVars
    <2>2. \A p, d : Counted(p, d)' = Counted(p, d)
      BY <1>1, <1>2, CountedKept
    <2>3. \A p, d : ArcAt(p, d)' = ArcAt(p, d)
      BY <2>1 DEF ArcAt
    <2>4. OneArc'
      BY <2>1 DEF OneArc
    <2>5. ArcsListed'
      BY <2>1, <2>3 DEF ArcsListed
    <2>6. ArcsCount'
      BY <2>1, <2>2, <2>3 DEF ArcsCount
    <2> QED BY <2>4, <2>5, <2>6
  <1>3. CASE ReturnToFrame
    <2>1. PICK o, n : o = Top.obj /\ n = Top.i
      OBVIOUS
    <2>2. /\ o \in Obj /\ n \in Refs(o) /\ Target(o, n) \in Obj
          /\ hvalues[o][n] = Target(o, n)
          /\ <<o, n>> \notin Counted(heap[o].class, heap[Target(o, n)].class)
          /\ \A p, d : Counted(p, d)' =
                IF p = heap[o].class /\ d = heap[Target(o, n)].class
                THEN Counted(p, d) \cup {<<o, n>>} ELSE Counted(p, d)
      BY <1>3, <2>1, CountedReturn
    <2>3. PICK p \in Class, d \in Class : p = heap[o].class /\ d = heap[Target(o, n)].class
      <3>1. heap[o] \in HObject /\ heap[Target(o, n)] \in HObject
        BY <1>1, <2>2, HeapFacts
      <3> QED BY <3>1 DEF HObject
    <2>4. ArcAdd(p, d)
      BY <1>3, <2>1, <2>2, <2>3 DEF ReturnToFrame
    <2>5. /\ OneArc' /\ ArcAt(p, d)' # {}
          /\ \A q, e \in Class : q # p \/ e # d => (ArcAt(q, e)' = {} <=> ArcAt(q, e) = {})
          /\ \A q, e \in Class : q # p \/ e # d =>
                \A k \in ArcAt(q, e)' : \E j \in ArcAt(q, e) :
                   children'[q][k].count = children[q][j].count
          /\ ArcAt(p, d) = {} => \A k \in ArcAt(p, d)' : children'[p][k].count = 1
          /\ ArcAt(p, d) # {} => \A k \in ArcAt(p, d)' :
                k \in ArcAt(p, d) /\ children'[p][k].count = children[p][k].count + 1
      BY <1>1, <2>4, ArcAddKeeps
    <2>6. ArcsListed'
      BY <1>1, <2>4, ArcAddListed
    <2>7. ASSUME NEW q \in Class, NEW e \in Class
          PROVE  /\ IsFiniteSet(Counted(q, e)')
                 /\ ArcAt(q, e)' = {} => Counted(q, e)' = {}
                 /\ \A k \in ArcAt(q, e)' : children'[q][k].count = Cardinality(Counted(q, e)')
      <3>1. CASE q # p \/ e # d
        <4>1. Counted(q, e)' = Counted(q, e)
          BY <2>2, <2>3, <3>1
        <4> QED BY <2>5, <3>1, <4>1 DEF ArcsCount
      <3>2. CASE q = p /\ e = d
        <4>1. Counted(q, e)' = Counted(q, e) \cup {<<o, n>>} /\ <<o, n>> \notin Counted(q, e)
          BY <2>2, <2>3, <3>2
        <4>2. IsFiniteSet(Counted(q, e))
          BY DEF ArcsCount
        <4>3. IsFiniteSet(Counted(q, e)') /\ Cardinality(Counted(q, e)') = Cardinality(Counted(q, e)) + 1
          BY <4>1, <4>2, FS_AddElement
        <4>4. ASSUME NEW k \in ArcAt(q, e)'
              PROVE  children'[q][k].count = Cardinality(Counted(q, e)) + 1
          <5>1. CASE ArcAt(q, e) = {}
            <6>1. Cardinality(Counted(q, e)) = 0
              BY <5>1, FS_EmptySet DEF ArcsCount
            <6> QED BY <2>5, <3>2, <4>4, <5>1, <6>1
          <5>2. CASE ArcAt(q, e) # {}
            BY <2>5, <3>2, <4>4, <5>2 DEF ArcsCount
          <5> QED BY <5>1, <5>2
        <4> QED BY <2>5, <3>2, <4>3, <4>4
      <3> QED BY <3>1, <3>2
    <2> QED BY <2>5, <2>6, <2>7 DEF ArcsCount
  <1> QED BY <1>2, <1>3, StepKinds

-----------------------------------------------------------------------------
(* The objects walked.                                                     *)

\* What a reference leads to.
LEMMA SuccObj ==
    ASSUME NEW o \in Obj
    PROVE  Succ(o) \subseteq Obj
  BY DEF Succ, Refs, Refers, Target

\* The references of what the traversal may resolve lead to more of it.
LEMMA FromClosed == From \subseteq Obj /\ Closed(From)
  <1>1. From \subseteq Obj
    BY DEF From, Selected, Reach
  <1>2. ASSUME NEW q \in From, NEW x \in Succ(q)
        PROVE  x \in From
    <2>0. q \in Obj /\ x \in Obj
      BY <1>1, SuccObj
    <2>1. CASE q \in Selected
      <3>1. x \in Reach(q)
        BY <2>0 DEF Reach
      <3> QED BY <2>1, <3>1 DEF From
    <2>2. CASE q \notin Selected
      <3>1. PICK s \in Selected : q \in Reach(s)
        BY <2>2 DEF From
      <3>2. x \in Reach(s)
        BY <2>0, <3>1 DEF Reach, Closed
      <3> QED BY <3>2 DEF From
    <2> QED BY <2>1, <2>2
  <1> QED BY <1>1, <1>2 DEF Closed

\* What may be resolved is a matter of the heap and of the option.
LEMMA FromFixed ==
    ASSUME heap' = heap, ckey' = ckey
    PROVE  Selected' = Selected /\ From' = From
  <1>1. \A o : Succ(o)' = Succ(o)
    BY HeapOnly
  <1>2. \A S : Closed(S)' = Closed(S)
    BY <1>1 DEF Closed
  <1>3. \A o : Reach(o)' = Reach(o)
    BY <1>1, <1>2 DEF Reach
  <1>4. Selected' = Selected
    BY DEF Selected
  <1> QED BY <1>3, <1>4 DEF From

\* The walk stays within what may be resolved, and passes over nothing selected.
LEMMA WalkedNext ==
    ASSUME IInv, IInv', [Next]_vars, Walked
    PROVE  Walked'
  <1>1. /\ Selected' = Selected /\ From' = From /\ TypeOK
        /\ resolved \in [Obj -> BOOLEAN] /\ todo \subseteq Obj
    BY StepKinds, FromFixed DEF IInv, TypeOK
  <1>2. Selected \subseteq From
    BY DEF From
  <1>3. CASE Drive
    <2>1. resolved' = resolved /\ pc' = "call" /\ arg' \in todo /\ todo' = todo \ {arg'} /\ pc = "drive"
      BY <1>3 DEF Drive, objVars
    <2> QED BY <1>1, <1>2, <2>1 DEF Walked
  <1>4. CASE DriveEnd \/ ReturnToDriver \/ ReturnSegv
    <2>1. /\ resolved' = resolved /\ todo' = todo /\ pc # "call" /\ pc' # "call"
          /\ pc' = "done" => todo = {}
      BY <1>4 DEF DriveEnd, ReturnToDriver, ReturnSegv, objVars
    <2> QED BY <1>1, <2>1 DEF Walked
  <1>5. CASE CallResolved
    <2>1. /\ resolved' = resolved /\ todo' = todo /\ pc = "call" /\ pc' = "ret" /\ resolved[arg]
      BY <1>5 DEF CallResolved, objVars
    <2> QED BY <1>1, <2>1 DEF Walked
  <1>6. CASE CallLeaf \/ CallOArray \/ CallInstance
    <2>1. /\ resolved' = [resolved EXCEPT ![arg] = TRUE] /\ todo' = todo
          /\ pc = "call" /\ pc' \in {"ret", "loop"} /\ arg \in Obj
      BY <1>1, <1>6 DEF CallLeaf, CallOArray, CallInstance, TypeOK
    <2>2. \A o \in Obj : resolved'[o] <=> (o = arg \/ resolved[o])
      BY <1>1, <2>1
    <2>3. Selected \subseteq Obj
      BY DEF Selected
    <2> QED BY <1>1, <2>1, <2>2, <2>3 DEF Walked
  <1>7. CASE LoadField \/ LoadElement
    <2>1. /\ resolved' = resolved /\ todo' = todo /\ pc = "loop" /\ pc' \in {"loop", "call"}
          /\ stack # <<>>
      BY <1>7 DEF LoadField, LoadElement, objVars
    <2>2. ASSUME pc' = "call"
          PROVE  arg' \in From
      <3>1. stack' # <<>>
        <4>1. stack \in Seq(Frame) /\ Top \in Frame
          BY <2>1, TopFacts
        <4>2. \A f : SetTop(f) # <<>>
          BY <2>1, <4>1 DEF SetTop
        <4> QED BY <1>7, <2>1, <4>2 DEF LoadField, LoadElement, Advanced
      <3>2. PICK f \in Frame : /\ f = stack'[1] /\ Waits(f)' /\ resolved'[f.obj]
                               /\ arg' = Target(f.obj, f.i)'
        <4>1. stack' \in Seq(Frame) /\ Len(stack') \in Nat /\ 1 \in 1..Len(stack')
          BY <3>1 DEF IInv, TypeOK
        <4>2. stack'[1] \in Frame
          BY <4>1, SeqElement
        <4>3. PICK f \in Frame : f = stack'[1]
          BY <4>2
        <4>4. Waits(f)' /\ resolved'[f.obj]
          BY <2>2, <4>1, <4>3 DEF IInv, FramesWait, FramesOpen, Open, Waits, Refers, ftype, Slot, Count, Target
        <4>5. arg' = Target(f.obj, f.i)'
          BY <2>2, <3>1, <4>3 DEF IInv, CallPending, Target, Slot
        <4> QED BY <4>3, <4>4, <4>5
      <3>3. f.obj \in Obj /\ f.i \in Nat \ {0} /\ f.obj \in From
        BY <2>1, <3>2 DEF Frame, Walked
      <3>4. arg' \in Succ(f.obj)'
        <4>1. f.i \in Refs(f.obj)'
          BY <3>2, <3>3 DEF Waits, Refs
        <4> QED BY <3>2, <4>1 DEF Succ
      <3>5. arg' \in Succ(f.obj)
        BY <3>4, StepKinds, HeapOnly
      <3> QED BY <3>3, <3>5, FromClosed DEF Closed
    <2> QED BY <1>1, <2>1, <2>2 DEF Walked
  <1>8. CASE Finish \/ ReturnToFrame
    <2>1. /\ resolved' = resolved /\ todo' = todo /\ pc \in {"loop", "ret"} /\ pc' \in {"ret", "loop"}
      BY <1>8 DEF Finish, ReturnToFrame
    <2> QED BY <1>1, <2>1 DEF Walked
  <1>9. CASE Terminated \/ UNCHANGED vars
    <2>1. UNCHANGED <<resolved, todo, pc, arg>>
      BY <1>9 DEF Terminated, vars
    <2> QED BY <1>1, <2>1 DEF Walked
  <1> QED BY <1>3, <1>4, <1>5, <1>6, <1>7, <1>8, <1>9 DEF Next

\* Before the first call there are no arcs, and the selected objects are all to come.
LEMMA InitGInv == Init => GInv
  <1> SUFFICES ASSUME Init PROVE GInv
    OBVIOUS
  <1>1. /\ \A c \in Class : children[c] = <<>> /\ Len(children[c]) = 0
        /\ arcs = <<>> /\ Len(arcs) = 0 /\ arcs_max = 0 /\ \A o \in Obj : ~resolved[o]
    BY DEF Init
  <1>2. \A p, d \in Class : ArcAt(p, d) = {}
    BY <1>1 DEF ArcAt
  <1>3. \A p, d : Counted(p, d) = {}
    BY <1>1 DEF Counted, Seen
  <1>4. OneArc /\ ArcsListed
    BY <1>1, <1>2 DEF OneArc, ArcsListed
  <1>5. ArcsCount
    BY <1>2, <1>3, FS_EmptySet DEF ArcsCount
  <1>6. Walked
    BY <1>1 DEF Init, Walked, Selected
  <1> QED BY <1>4, <1>5, <1>6 DEF GInv

\* The invariant of the graph, on which the theorems rest.
THEOREM GraphInvariance == Spec => [](IInv /\ GInv)
  <1>1. IInv /\ GInv /\ [Next]_vars => (IInv /\ GInv)'
    BY NextIInv, ArcsNext, WalkedNext DEF GInv
  <1> QED BY <1>1, InitIInv, InitGInv, PTL DEF Spec

\* What the invariant says of the arcs at any time.
LEMMA ArcsAgreeFromGInv == IInv /\ GInv => ArcsAgree
  <1> SUFFICES ASSUME IInv, GInv PROVE ArcsAgree
    OBVIOUS
  <1>1. ASSUME NEW p \in Class, NEW d \in Class
        PROVE  Cardinality(ArcAt(p, d)) <= 1
    <2>1. CASE ArcAt(p, d) = {}
      BY <2>1, FS_EmptySet
    <2>2. CASE ArcAt(p, d) # {}
      <3>1. PICK k \in ArcAt(p, d) : TRUE
        BY <2>2
      <3>2. \A j \in ArcAt(p, d) : j = k
        BY <3>1 DEF ArcAt, GInv, OneArc
      <3>3. ArcAt(p, d) = {k}
        BY <3>1, <3>2
      <3>4. Cardinality({k}) = 1
        BY FS_Singleton
      <3> QED BY <3>3, <3>4
    <2> QED BY <2>1, <2>2
  <1>2. \A k \in 1..Len(arcs) : arcs[k] \in Class \X Class
    BY SeqElement DEF IInv, TypeOK
  <1>3. {arcs[k] : k \in 1..Len(arcs)} =
           {pd \in Class \X Class : pd[1] # pd[2] /\ ArcAt(pd[1], pd[2]) # {}}
    <2>1. ASSUME NEW k \in 1..Len(arcs)
          PROVE  arcs[k] \in {pd \in Class \X Class : pd[1] # pd[2] /\ ArcAt(pd[1], pd[2]) # {}}
      BY <1>2 DEF GInv, ArcsListed
    <2>2. ASSUME NEW pd \in Class \X Class, pd[1] # pd[2], ArcAt(pd[1], pd[2]) # {}
          PROVE  \E k \in 1..Len(arcs) : arcs[k] = pd
      <3>1. PICK p \in Class, d \in Class : pd = <<p, d>>
        OBVIOUS
      <3>2. p # d /\ ArcAt(p, d) # {}
        BY <2>2, <3>1
      <3> QED BY <3>1, <3>2 DEF GInv, ArcsListed
    <2> DEFINE Listed == {arcs[k] : k \in 1..Len(arcs)}
               Made == {pd \in Class \X Class : pd[1] # pd[2] /\ ArcAt(pd[1], pd[2]) # {}}
    <2>3. Listed \subseteq Made
      BY <2>1
    <2>4. Made \subseteq Listed
      BY <2>2
    <2> QED BY <2>3, <2>4
  <1> QED BY <1>1, <1>3 DEF GInv, ArcsListed, ArcsAgree

\* What the invariant says of the counts at the end, when no frame is left.
LEMMA ArcsCountFromGInv == IInv /\ GInv => ArcsCountReferences
  <1> SUFFICES ASSUME IInv, GInv, pc = "done", NEW p \in Class, NEW d \in Class
               PROVE  LET refs == UNION {{<<o, i>> : i \in {i \in Refs(o) :
                                               heap[Target(o, i)].class = d}} :
                           o \in {o \in Obj : resolved[o] /\ heap[o].class = p}}
                      IN  IF ArcAt(p, d) = {} THEN refs = {}
                          ELSE \A k \in ArcAt(p, d) : children[p][k].count = Cardinality(refs)
    BY DEF ArcsCountReferences
  <1> DEFINE refs == UNION {{<<o, i>> : i \in {i \in Refs(o) : heap[Target(o, i)].class = d}} :
                           o \in {o \in Obj : resolved[o] /\ heap[o].class = p}}
  <1>1. stack = <<>> /\ Len(stack) = 0
    BY DEF IInv, Control
  <1>2. \A o, i : Seen(o, i) <=> resolved[o]
    BY <1>1 DEF Seen
  <1>3. \A o \in Obj : Refs(o) \subseteq Nat
    BY HeapFacts DEF Refs, IInv
  <1>4. refs = Counted(p, d)
    <2>1. ASSUME NEW r \in refs PROVE r \in Counted(p, d)
      <3>1. PICK o \in Obj : /\ resolved[o] /\ heap[o].class = p
                             /\ \E i \in Refs(o) : r = <<o, i>> /\ heap[Target(o, i)].class = d
        BY <2>1
      <3> QED BY <1>2, <1>3, <3>1 DEF Counted
    <2>2. ASSUME NEW r \in Counted(p, d) PROVE r \in refs
      <3>1. PICK o \in Obj, i \in Nat : r = <<o, i>>
        BY <2>2 DEF Counted
      <3>2. i \in Refs(o) /\ resolved[o] /\ heap[o].class = p /\ heap[Target(o, i)].class = d
        BY <1>2, <2>2, <3>1 DEF Counted
      <3> QED BY <3>1, <3>2
    <2> QED BY <2>1, <2>2
  <1> HIDE DEF refs
  <1>5. IF ArcAt(p, d) = {} THEN refs = {}
        ELSE \A k \in ArcAt(p, d) : children[p][k].count = Cardinality(refs)
    BY <1>4 DEF GInv, ArcsCount
  <1> QED BY <1>5 DEF refs

\* For every heap, with every cycle in it: arc_add, called from all depths of the
\* recursion, keeps one arc for a pair of classes, lists it once in an array that is
\* never overrun, and at the end has counted exactly the references there are.
THEOREM ArcsRight == Spec => []ArcsExact
  <1>1. IInv /\ GInv => ArcsExact
    BY ArcsAgreeFromGInv, ArcsCountFromGInv DEF ArcsExact
  <1> QED BY <1>1, GraphInvariance, PTL

\* When the traversal ends, resolveInstance has resolved the selected objects, what
\* they reach, and nothing else.
THEOREM ResolvesTheReachable == Spec => []ResolvedAreReachable
  <1>1. ASSUME IInv, GInv, pc = "done"
        PROVE  {o \in Obj : resolved[o]} = Selected \cup UNION {Reach(o) : o \in Selected}
    <2> DEFINE R == {o \in Obj : resolved[o]}
    <2>1. R \subseteq From
      BY <1>1 DEF GInv, Walked
    <2>2. Selected \subseteq R
      BY <1>1 DEF GInv, Walked, Selected
    <2>3. Closed(R)
      <3> SUFFICES ASSUME NEW o \in R, NEW x \in Succ(o) PROVE x \in R
        BY DEF Closed
      <3>1. o \in Obj /\ resolved[o] /\ ~OnStack(o)
        BY <1>1 DEF IInv, Control, OnStack
      <3>2. LoadedUpTo(o, Count(o))
        BY <1>1, <3>1 DEF IInv, ResolvedIsLoaded
      <3>3. PICK i \in Refs(o) : x = Target(o, i)
        BY DEF Succ
      <3>4. resolved[x] /\ x \in Obj
        BY <3>2, <3>3 DEF Refs, LoadedUpTo, Refers, Target
      <3> QED BY <3>4
    <2>4. ASSUME NEW o \in Selected PROVE Reach(o) \subseteq R
      <3>1. Succ(o) \subseteq R /\ R \subseteq Obj
        BY <2>2, <2>3 DEF Closed
      <3> HIDE DEF R
      <3> QED BY <2>3, <3>1 DEF Reach
    <2> QED BY <2>1, <2>2, <2>4 DEF From
  <1>2. IInv /\ GInv => ResolvedAreReachable
    BY <1>1 DEF ResolvedAreReachable, Selected
  <1> QED BY <1>2, GraphInvariance, PTL

-----------------------------------------------------------------------------
(* The reference definition of the totals.                                 *)

\* The bytes of every value are a number.
LEMMA BytesNat ==
    ASSUME TypeOK, NEW o \in Obj, NEW i \in 1..Count(o)
    PROVE  Bytes(o, i) \in Nat
  <1>1. ftype(o, i) \in FType /\ Width[ftype(o, i)] \in Nat
    BY HeapFacts
  <1>2. \A t \in FType : ElemWidth[t] \in Nat
    BY SizeAssumption DEF ElemWidth, Width, FType, RefType
  <1> QED BY <1>1, <1>2 DEF Bytes

\* T gives a number to every object that o refers to.
Numbers(T, o) == \A i \in 1..Count(o) : Refers(o, i) => T[Target(o, i)] \in Nat

\* The n-th value of o, with what it refers to.
Part(o, T, n) == Bytes(o, n) + (IF Refers(o, n) THEN T[Target(o, n)] ELSE 0)

\* The sums grow by one value at a time.
LEMMA SumsAre ==
    ASSUME TypeOK, NEW o \in Obj, NEW T, Numbers(T, o)
    PROVE  /\ Sums(o, T)[0] = 0
           /\ \A n \in 0..Count(o) : Sums(o, T)[n] \in Nat
           /\ \A n \in 1..Count(o) : Sums(o, T)[n] = Sums(o, T)[n - 1] + Part(o, T, n)
  <1>1. PICK N \in Nat : N = Count(o)
    BY HeapFacts
  <1>2. \A n \in 1..N : Part(o, T, n) \in Nat
    BY <1>1, BytesNat DEF Part, Numbers
  <1>3. PICK w : /\ w \in [Nat -> Nat]
                 /\ \A n \in 1..N : w[n] = Part(o, T, n)
    <2> DEFINE v == [n \in Nat |-> IF n \in 1..N THEN Part(o, T, n) ELSE 0]
    <2>1. v \in [Nat -> Nat] /\ \A n \in 1..N : v[n] = Part(o, T, n)
      BY <1>2
    <2> QED BY <2>1
  <1> DEFINE G == [p \in Nat \X Nat |-> p[2] + w[p[1] + 1]]
             Is(f) == f = [n \in 0..N |-> IF n = 0 THEN 0
                             ELSE f[n - 1] + Bytes(o, n)
                                  + (IF Refers(o, n) THEN T[Target(o, n)] ELSE 0)]
  <1>4. G \in [Nat \X Nat -> Nat]
    BY <1>3
  <1>5. \A n, x \in Nat : G[<<n, x>>] = x + w[n + 1]
    OBVIOUS
  <1> HIDE DEF G
  <1>6. PICK g : g \in [Nat -> Nat] /\ g[0] = 0 /\ \A n \in Nat : g[n + 1] = G[<<n, g[n]>>]
    <2>1. \E f : GoesOn(f, Nat, 0, G)
      BY <1>4, NatRecursion
    <2> QED BY <2>1 DEF GoesOn
  <1>7. \A n \in Nat : g[n] \in Nat /\ g[n + 1] = g[n] + w[n + 1]
    BY <1>5, <1>6
  <1> DEFINE f == [n \in 0..N |-> g[n]]
  <1>8. ASSUME NEW n \in 0..N
        PROVE  f[n] = IF n = 0 THEN 0 ELSE f[n - 1] + Bytes(o, n)
                                  + (IF Refers(o, n) THEN T[Target(o, n)] ELSE 0)
    <2>1. CASE n = 0
      BY <1>6, <2>1
    <2>2. CASE n # 0
      <3>1. n \in 1..N /\ n - 1 \in Nat /\ n - 1 \in 0..N /\ (n - 1) + 1 = n
        BY <2>2
      <3>2. f[n] = f[n - 1] + Part(o, T, n) /\ f[n - 1] \in Nat
        BY <1>3, <1>7, <3>1
      <3>3. Bytes(o, n) \in Nat /\ (Refers(o, n) => T[Target(o, n)] \in Nat)
        BY <1>1, <3>1, BytesNat DEF Numbers
      <3> HIDE DEF f
      <3> QED BY <2>2, <3>2, <3>3 DEF Part
    <2> QED BY <2>1, <2>2
  <1>9. f = [n \in 0..N |-> f[n]]
    OBVIOUS
  <1> HIDE DEF f
  <1>10. Is(f)
    BY <1>8, <1>9
  <1>11. Sums(o, T) = CHOOSE h : Is(h)
    BY <1>1 DEF Sums
  <1> DEFINE S == Sums(o, T)
  <1>12. Is(S)
    BY <1>10, <1>11
  <1> HIDE DEF S
  <1>13. S[0] = 0
    BY <1>12
  <1>14. ASSUME NEW n \in 1..N
         PROVE  S[n] = S[n - 1] + Bytes(o, n) + (IF Refers(o, n) THEN T[Target(o, n)] ELSE 0)
    BY <1>12
  <1> HIDE DEF Is
  <1> DEFINE R == {n \in 0..N : S[n] \notin Nat}
  <1>15. ASSUME R # {} PROVE FALSE
    <2>1. PICK n \in R : \A m \in R : n <= m
      <3>1. R \subseteq Nat
        OBVIOUS
      <3> HIDE DEF R
      <3> QED BY <1>15, <3>1, Smallest
    <2>2. n \in 1..N /\ n - 1 \in 0..N /\ n - 1 \notin R
      BY <1>13, <2>1
    <2>3. S[n - 1] \in Nat /\ Part(o, T, n) \in Nat
      BY <1>2, <2>2
    <2>4. Bytes(o, n) \in Nat /\ (Refers(o, n) => T[Target(o, n)] \in Nat)
      BY <1>1, <2>2, BytesNat DEF Numbers
    <2>5. S[n] \in Nat
      BY <1>14, <2>2, <2>3, <2>4
    <2> QED BY <2>1, <2>5
  <1>16. \A n \in 0..N : S[n] \in Nat
    BY <1>15
  <1>17. ASSUME NEW n \in 1..N PROVE S[n] = S[n - 1] + Part(o, T, n)
    <2>1. n - 1 \in 0..N
      OBVIOUS
    <2>2. S[n - 1] \in Nat /\ Bytes(o, n) \in Nat /\ (Refers(o, n) => T[Target(o, n)] \in Nat)
      BY <1>1, <1>16, <2>1, BytesNat DEF Numbers
    <2> QED BY <1>14, <2>2 DEF Part
  <1> QED BY <1>1, <1>13, <1>16, <1>17 DEF S

\* They depend on the objects referred to only.
LEMMA SumsAgree ==
    ASSUME TypeOK, NEW o \in Obj, NEW T, NEW U, Numbers(T, o),
           \A i \in 1..Count(o) : Refers(o, i) => U[Target(o, i)] = T[Target(o, i)]
    PROVE  Sums(o, U)[Count(o)] = Sums(o, T)[Count(o)]
  <1>1. PICK N \in Nat : N = Count(o)
    BY HeapFacts
  <1>2. Numbers(U, o)
    BY DEF Numbers
  <1>3. \A n \in 1..N : Part(o, U, n) = Part(o, T, n)
    BY <1>1 DEF Part
  <1> DEFINE A == Sums(o, T)
             B == Sums(o, U)
             R == {n \in 0..N : A[n] # B[n]}
  <1>4. A[0] = 0 /\ \A n \in 1..N : A[n] = A[n - 1] + Part(o, T, n)
    BY <1>1, SumsAre
  <1>5. B[0] = 0 /\ \A n \in 1..N : B[n] = B[n - 1] + Part(o, U, n)
    BY <1>1, <1>2, SumsAre
  <1> HIDE DEF A, B
  <1>6. ASSUME R # {} PROVE FALSE
    <2>1. PICK n \in R : \A m \in R : n <= m
      <3>1. R \subseteq Nat
        OBVIOUS
      <3> HIDE DEF R
      <3> QED BY <1>6, <3>1, Smallest
    <2>2. n \in 1..N /\ n - 1 \in 0..N /\ n - 1 \notin R
      BY <1>4, <1>5, <2>1
    <2> QED BY <1>3, <1>4, <1>5, <2>1, <2>2
  <1>7. A[N] = B[N]
    BY <1>6
  <1> QED BY <1>1, <1>7 DEF A, B

\* What a reference leads to reaches less, if it is in no cycle.
LEMMA ReachBelow ==
    ASSUME NEW o \in Obj, NEW x \in Succ(o)
    PROVE  x \in Obj /\ x \in Reach(o) /\ Reach(x) \subseteq Reach(o)
  <1>1. x \in Obj /\ Succ(o) \subseteq Obj
    BY SuccObj
  <1>2. x \in Reach(o)
    BY <1>1 DEF Reach
  <1>3. ASSUME NEW y \in Reach(x) PROVE y \in Reach(o)
    <2>1. y \in Obj
      BY DEF Reach
    <2>2. ASSUME NEW S \in SUBSET Obj, Succ(o) \subseteq S, Closed(S) PROVE y \in S
      <3>1. Succ(x) \subseteq S
        BY <2>2 DEF Closed
      <3> QED BY <2>2, <3>1 DEF Reach
    <2> QED BY <2>1, <2>2 DEF Reach
  <1> QED BY <1>1, <1>2, <1>3

\* The objects with a total.
Cleans == {x \in Obj : Clean(x)}

\* How much an object reaches: less, the further down.
Depth(o) == Cardinality(Reach(o))

\* What an object with a total refers to has a total, and reaches less.
LEMMA CleanBelow ==
    ASSUME NEW o \in Obj, Clean(o), NEW x \in Succ(o)
    PROVE  /\ x \in Obj /\ Clean(x) /\ o \notin Reach(x) /\ x # o
           /\ Depth(x) \in Nat /\ Depth(o) \in Nat /\ Depth(x) < Depth(o)
  <1>1. x \in Obj /\ x \in Reach(o) /\ Reach(x) \subseteq Reach(o)
    BY ReachBelow
  <1>2. o \notin Reach(o) /\ x \notin Reach(x)
    BY <1>1 DEF Clean
  <1>3. Clean(x)
    BY <1>1 DEF Clean
  <1>4. IsFiniteSet(Reach(o))
    BY FiniteAssumption, FS_Subset DEF Reach
  <1>5. IsFiniteSet(Reach(x)) /\ Depth(x) \in Nat /\ Depth(o) \in Nat
    BY <1>1, <1>4, FS_Subset, FS_CardinalityType DEF Depth
  <1>6. Depth(x) <= Depth(o) /\ (Depth(x) = Depth(o) => Reach(x) = Reach(o))
    BY <1>1, <1>4, FS_Subset DEF Depth
  <1> QED BY <1>1, <1>2, <1>3, <1>5, <1>6

\* The depth of any object is a number.
LEMMA DepthNat ==
    ASSUME NEW o \in Obj
    PROVE  Depth(o) \in Nat
  <1>1. IsFiniteSet(Reach(o))
    BY FiniteAssumption, FS_Subset DEF Reach
  <1> QED BY <1>1, FS_CardinalityType DEF Depth

\* A reference of an object with a total is to another one, further down.
LEMMA CleanRef ==
    ASSUME NEW o \in Cleans, NEW i \in 1..Count(o), Refers(o, i)
    PROVE  /\ Target(o, i) \in Cleans /\ Target(o, i) \in Succ(o)
           /\ Depth(Target(o, i)) < Depth(o)
  <1>1. PICK x : x = Target(o, i)
    OBVIOUS
  <1>2. x \in Succ(o) /\ o \in Obj /\ Clean(o)
    BY <1>1 DEF Succ, Refs, Cleans
  <1>3. x \in Obj /\ Clean(x) /\ Depth(x) < Depth(o)
    BY <1>2, CleanBelow
  <1> QED BY <1>1, <1>2, <1>3 DEF Cleans

\* T is what the definition of Total asks for.
IsTotal(T) == T = [o \in Cleans |-> Sums(o, T)[Count(o)]]

\* There is such a function: the totals of objects of depth n follow from those further
\* down.
LEMMA TotalExists ==
    ASSUME TypeOK
    PROVE  \E T : IsTotal(T)
  <1> DEFINE V == [Cleans -> Nat]
             zero == [o \in Cleans |-> 0]
             on(h) == [o \in Cleans |-> Sums(o, h)[Count(o)]]
             G == [p \in Nat \X V |-> on(p[2])]
  <1>1. zero \in V
    OBVIOUS
  <1>2. ASSUME NEW o \in Cleans
        PROVE  o \in Obj /\ Count(o) \in Nat /\ Depth(o) \in Nat
    BY HeapFacts, DepthNat DEF Cleans
  <1>3. ASSUME NEW h \in V, NEW o \in Cleans PROVE Numbers(h, o)
    BY CleanRef DEF Numbers
  <1>4. ASSUME NEW h \in V PROVE on(h) \in V
    <2>1. ASSUME NEW o \in Cleans PROVE Sums(o, h)[Count(o)] \in Nat
      <3>1. Numbers(h, o) /\ Count(o) \in 0..Count(o)
        BY <1>2, <1>3
      <3> HIDE DEF V
      <3> QED BY <1>2, <3>1, SumsAre
    <2> QED BY <2>1
  <1>5. \A h, o : o \in Cleans => on(h)[o] = Sums(o, h)[Count(o)]
    OBVIOUS
  <1> HIDE DEF on
  <1>6. G \in [Nat \X V -> V]
    BY <1>4
  <1>7. \A n \in Nat, h \in V : G[<<n, h>>] = on(h)
    OBVIOUS
  <1> HIDE DEF G
  <1>8. PICK f : f \in [Nat -> V] /\ f[0] = zero /\ \A n \in Nat : f[n + 1] = G[<<n, f[n]>>]
    <2>1. \E f : GoesOn(f, V, zero, G)
      <3> HIDE DEF V, zero
      <3> QED BY <1>1, <1>6, NatRecursion
    <2> QED BY <2>1 DEF GoesOn
  <1>9. \A n \in Nat : f[n] \in V /\ f[n + 1] = on(f[n])
    <2> HIDE DEF V
    <2> QED BY <1>7, <1>8
  <1> HIDE DEF V
  <1> DEFINE g == [o \in Cleans |-> f[Depth(o) + 1][o]]
             R == {d \in Nat : \E o \in Cleans, n \in Nat :
                                  d = Depth(o) /\ d < n /\ f[n][o] # g[o]}
  <1>10. \A o \in Cleans : g[o] = f[Depth(o) + 1][o]
    OBVIOUS
  <1>11. g = [o \in Cleans |-> g[o]]
    OBVIOUS
  <1> HIDE DEF g
  <1>12. ASSUME NEW o \in Cleans, NEW n \in Nat, Depth(o) < n
         PROVE  f[n][o] = Sums(o, f[n - 1])[Count(o)] /\ f[n - 1] \in V /\ Numbers(f[n - 1], o)
    <2>1. n - 1 \in Nat /\ (n - 1) + 1 = n
      BY <1>2, <1>12
    <2> QED BY <1>3, <1>5, <1>9, <2>1
  <1>13. ASSUME R # {} PROVE FALSE
    <2>1. PICK d \in R : \A m \in R : d <= m
      <3>1. R \subseteq Nat
        OBVIOUS
      <3> HIDE DEF R
      <3> QED BY <1>13, <3>1, Smallest
    <2>2. PICK o \in Cleans, n \in Nat : d = Depth(o) /\ d < n /\ f[n][o] # g[o]
      BY <2>1
    <2>3. f[n][o] = Sums(o, f[n - 1])[Count(o)] /\ Numbers(f[n - 1], o)
      BY <1>12, <2>2
    <2>4. d \in Nat /\ d + 1 \in Nat /\ (d + 1) - 1 = d /\ d < d + 1 /\ n - 1 \in Nat /\ d <= n - 1
      BY <2>1, <2>2
    <2>5. f[d + 1][o] = Sums(o, f[d])[Count(o)] /\ Numbers(f[d], o)
      BY <1>12, <2>2, <2>4
    <2>6. ASSUME NEW i \in 1..Count(o), Refers(o, i)
          PROVE  f[n - 1][Target(o, i)] = f[d][Target(o, i)]
      <3>1. PICK x \in Cleans : x = Target(o, i) /\ Depth(x) < d
        BY <2>2, <2>6, CleanRef
      <3>2. Depth(x) \in Nat /\ Depth(x) \notin R
        BY <1>2, <2>1, <2>4, <3>1
      <3>3. f[d][x] = g[x] /\ f[n - 1][x] = g[x]
        BY <2>4, <3>1, <3>2
      <3> QED BY <3>1, <3>3
    <2>7. Sums(o, f[n - 1])[Count(o)] = Sums(o, f[d])[Count(o)]
      <3> HIDE DEF R
      <3> QED BY <1>2, <2>5, <2>6, SumsAgree
    <2> QED BY <1>10, <2>2, <2>3, <2>5, <2>7
  <1>14. ASSUME NEW o \in Cleans, NEW n \in Nat, Depth(o) < n PROVE f[n][o] = g[o]
    BY <1>2, <1>13, <1>14
  <1> HIDE DEF R
  <1>15. ASSUME NEW o \in Cleans PROVE g[o] = Sums(o, g)[Count(o)]
    <2>1. PICK d \in Nat : d = Depth(o) /\ o \in Obj
      BY <1>2
    <2>2. d + 1 \in Nat /\ (d + 1) - 1 = d /\ d < d + 1
      BY <2>1
    <2>3. g[o] = Sums(o, f[d])[Count(o)] /\ Numbers(f[d], o)
      BY <1>10, <1>12, <2>1, <2>2
    <2>4. ASSUME NEW i \in 1..Count(o), Refers(o, i)
          PROVE  g[Target(o, i)] = f[d][Target(o, i)]
      <3>1. PICK x \in Cleans : x = Target(o, i) /\ Depth(x) < d
        BY <2>1, <2>4, CleanRef
      <3> QED BY <1>14, <3>1
    <2>5. Sums(o, g)[Count(o)] = Sums(o, f[d])[Count(o)]
      BY <2>1, <2>3, <2>4, SumsAgree
    <2> QED BY <2>3, <2>5
  <1>16. IsTotal(g)
    BY <1>11, <1>15 DEF IsTotal
  <1> QED BY <1>16

\* The total of an object is the sum over its values.
LEMMA TotalIs ==
    ASSUME TypeOK
    PROVE  \A o \in Cleans : /\ Total[o] \in Nat /\ Numbers(Total, o)
                             /\ Total[o] = Sums(o, Total)[Count(o)]
  <1>1. Total = CHOOSE T : IsTotal(T)
    BY DEF Total, IsTotal, Cleans
  <1>2. IsTotal(Total)
    BY <1>1, TotalExists
  <1>3. \A o \in Cleans : Total[o] = Sums(o, Total)[Count(o)]
    <2>1. PICK T : T = Total
      OBVIOUS
    <2>2. \A o \in Cleans : T[o] = Sums(o, T)[Count(o)]
      BY <1>2, <2>1 DEF IsTotal
    <2> QED BY <2>1, <2>2
  <1> DEFINE R == {d \in Nat : \E o \in Cleans : d = Depth(o) /\ Total[o] \notin Nat}
  <1>4. ASSUME NEW o \in Cleans,
               \A x \in Cleans : Depth(x) < Depth(o) => Total[x] \in Nat
        PROVE  Numbers(Total, o) /\ Total[o] \in Nat
    <2>1. Numbers(Total, o)
      BY <1>4, CleanRef DEF Numbers
    <2>2. o \in Obj /\ Count(o) \in 0..Count(o)
      BY HeapFacts DEF Cleans
    <2> QED BY <1>3, <2>1, <2>2, SumsAre
  <1>5. \A o \in Cleans : Depth(o) \in Nat
    BY DepthNat DEF Cleans
  <1>6. ASSUME R # {} PROVE FALSE
    <2>1. PICK d \in R : \A m \in R : d <= m
      <3>1. R \subseteq Nat
        OBVIOUS
      <3> HIDE DEF R
      <3> QED BY <1>6, <3>1, Smallest
    <2>2. PICK o \in Cleans : d = Depth(o) /\ Total[o] \notin Nat
      BY <2>1
    <2>3. ASSUME NEW x \in Cleans, Depth(x) < Depth(o) PROVE Total[x] \in Nat
      <3>1. Depth(x) \notin R
        BY <1>5, <2>1, <2>2, <2>3
      <3> QED BY <1>5, <3>1
    <2> HIDE DEF R
    <2> QED BY <1>4, <2>2, <2>3
  <1>7. \A o \in Cleans : Total[o] \in Nat
    BY <1>5, <1>6
  <1> HIDE DEF R
  <1> QED BY <1>3, <1>4, <1>7

-----------------------------------------------------------------------------
(* self+children.                                                          *)

\* The totals are a matter of the heap alone.
LEMMA TotalFixed ==
    ASSUME heap' = heap
    PROVE  /\ \A o : Clean(o)' = Clean(o)
           /\ \A o, i : Bytes(o, i)' = Bytes(o, i) /\ Refers(o, i)' = Refers(o, i)
           /\ \A o, T : Sums(o, T)' = Sums(o, T)
           /\ Total' = Total
  <1>1. /\ \A o : Count(o)' = Count(o) /\ Succ(o)' = Succ(o)
        /\ \A o, i : Target(o, i)' = Target(o, i)
    BY HeapOnly
  <1>2. \A o, i : ftype(o, i)' = ftype(o, i) /\ IsRead(o, i)' = IsRead(o, i) /\ Slot(o, i)' = Slot(o, i)
    BY DEF ftype, IsRead, Slot
  <1>3. \A o, i : Bytes(o, i)' = Bytes(o, i) /\ Refers(o, i)' = Refers(o, i)
    BY <1>2 DEF Bytes, Refers
  <1>4. \A S : Closed(S)' = Closed(S)
    BY <1>1 DEF Closed
  <1>5. \A o : Reach(o)' = Reach(o)
    BY <1>1, <1>4 DEF Reach
  <1>6. \A o : Clean(o)' = Clean(o)
    BY <1>1, <1>2, <1>5 DEF Clean
  <1>7. \A o, T : Sums(o, T)' = Sums(o, T)
    BY <1>1, <1>3 DEF Sums
  <1>8. Total' = Total
    BY <1>1, <1>6, <1>7 DEF Total
  <1> QED BY <1>3, <1>6, <1>7, <1>8

\* A frame that waits has the bytes of its current field in size already; the
\* elements of an object array are counted at the end.
Waiting(k) == k > 1 \/ pc \in {"call", "ret", "segv"}

\* The bytes of its own that a frame has passed, and all that it has passed.
Own(f) == IF heap[f.obj].htype = "oarray" THEN (f.i - 1) * IdSize ELSE f.size

Passed(f, waiting) ==
    Sums(f.obj, Total)[f.i - 1]
      + (IF heap[f.obj].htype = "instance" /\ waiting THEN Bytes(f.obj, f.i) ELSE 0)

\* The frame has added up the values it has passed.
Added(f, waiting) ==
    Clean(f.obj) => (Own(f) + csize[f.obj]) % SizeMod = Passed(f, waiting) % SizeMod

FramesAdded == \A k \in 1..Len(stack) : Added(stack[k], Waiting(k))

\* Each frame is for the object that the next one refers to.
Chained ==
    \A k \in 2..Len(stack) : stack[k - 1].obj = Target(stack[k].obj, stack[k].i)

\* No child is counted before the object is entered.
NotYet == \A o \in Obj : ~resolved[o] => csize[o] = 0

\* An object whose call has returned has its total ...
Summed(o) == (osize[o] + csize[o]) % SizeMod = Total[o] % SizeMod

AllSummed == \A o \in Obj : resolved[o] /\ ~OnStack(o) /\ Clean(o) => Summed(o)

\* ... and so has the call that is about to return.
Returned ==
    pc = "ret" /\ stack # <<>> /\ Clean(Top.obj) =>
       arg % SizeMod = Total[Target(Top.obj, Top.i)] % SizeMod

\* The inductive invariant of the sums.
SInv == Chained /\ NotYet /\ AllSummed /\ FramesAdded /\ Returned

\* Sums are taken modulo the width of unsigned long, part by part.
LEMMA ModAdd ==
    ASSUME NEW a \in Int, NEW b \in Int, NEW c \in Int, NEW d \in Int,
           a % SizeMod = b % SizeMod, c % SizeMod = d % SizeMod
    PROVE  (a + c) % SizeMod = (b + d) % SizeMod
  <1>1. PICK M \in Nat \ {0} : M = SizeMod
    BY SizeAssumption
  <1>2. \A x \in Int : x % M \in Int /\ x \div M \in Int /\ x = M * (x \div M) + (x % M)
    <2> SUFFICES ASSUME NEW x \in Int
                 PROVE  x % M \in Int /\ x \div M \in Int /\ x = M * (x \div M) + (x % M)
      OBVIOUS
    <2>1. x % M \in 0..(M - 1) /\ x \div M \in Int /\ x = M * (x \div M) + (x % M)
      BY ModDef
    <2> QED BY <2>1
  <1>3. PICK r, t \in Int : r = a % M /\ t = c % M /\ r = b % M /\ t = d % M
    BY <1>1, <1>2
  <1>4. ASSUME NEW x \in Int, NEW y, y = x % M PROVE \E n \in Int : x = M * n + y
    BY <1>2, <1>4
  <1>5. PICK p \in Int : a = M * p + r
    BY <1>3, <1>4
  <1>6. PICK q \in Int : b = M * q + r
    BY <1>3, <1>4
  <1>7. PICK s \in Int : c = M * s + t
    BY <1>3, <1>4
  <1>8. PICK u \in Int : d = M * u + t
    BY <1>3, <1>4
  <1>9. PICK v, w, z \in Int : v = p + s /\ w = q + u /\ z = r + t
    OBVIOUS
  <1>10. M * v = M * p + M * s /\ M * w = M * q + M * u
    BY <1>9
  <1>11. a + c = M * v + z /\ b + d = M * w + z
    BY <1>9, <1>10, <1>5, <1>6, <1>7, <1>8
  <1>12. (M * v + z) % M = z % M
    BY ModShift
  <1>13. (M * w + z) % M = z % M
    BY ModShift
  <1> QED BY <1>1, <1>11, <1>12, <1>13

\* Taking the remainder twice changes nothing.
LEMMA ModTwice ==
    ASSUME NEW a \in Int
    PROVE  a % SizeMod \in Nat /\ (a % SizeMod) % SizeMod = a % SizeMod
  <1>1. PICK M \in Nat \ {0} : M = SizeMod
    BY SizeAssumption
  <1>2. PICK c \in 0..(M - 1) : c = a % M
    BY ModDef
  <1>3. c % M = c
    BY ModSmall
  <1> QED BY <1>1, <1>2, <1>3

\* The objects of the frames above lead to those of the frames below.
LEMMA StackReach ==
    ASSUME IInv, Chained, NEW j \in 1..Len(stack), NEW k \in 1..Len(stack), j < k
    PROVE  stack[j].obj \in Reach(stack[k].obj)
  <1>1. Len(stack) \in Nat /\ \A m \in 1..Len(stack) : stack[m] \in Frame /\ stack[m].obj \in Obj
    BY StackFacts DEF Frame
  <1>2. ASSUME NEW m \in 2..Len(stack)
        PROVE  stack[m - 1].obj \in Succ(stack[m].obj)
    <2>1. PICK f \in Frame : f = stack[m] /\ m \in 1..Len(stack) /\ m > 1
      BY <1>1
    <2>2. Waits(f)
      BY <2>1 DEF IInv, FramesWait
    <2>3. f.i \in Refs(f.obj)
      BY <2>2 DEF Waits, Refs, Frame
    <2>4. stack[m - 1].obj = Target(f.obj, f.i)
      BY <2>1 DEF Chained
    <2> QED BY <2>1, <2>3, <2>4 DEF Succ
  <1> DEFINE R == {m \in 1..Len(stack) : j < m /\ stack[j].obj \notin Reach(stack[m].obj)}
  <1>3. ASSUME R # {} PROVE FALSE
    <2>1. PICK m \in R : \A n \in R : m <= n
      <3>1. R \subseteq Nat
        OBVIOUS
      <3> HIDE DEF R
      <3> QED BY <1>3, <3>1, Smallest
    <2>2. m \in 2..Len(stack) /\ m - 1 \in 1..Len(stack) /\ m - 1 \notin R /\ j <= m - 1
          /\ stack[j].obj \notin Reach(stack[m].obj)
      BY <1>1, <2>1
    <2>3. PICK o \in Obj, x \in Obj : o = stack[m].obj /\ x = stack[m - 1].obj /\ x \in Succ(o)
      BY <1>1, <1>2, <2>2
    <2>4. x \in Reach(o) /\ Reach(x) \subseteq Reach(o)
      BY <2>3, ReachBelow
    <2>5. CASE j = m - 1
      BY <2>2, <2>3, <2>4, <2>5
    <2>6. CASE j < m - 1
      <3>1. stack[j].obj \in Reach(x)
        BY <2>2, <2>3, <2>6
      <3> QED BY <2>2, <2>3, <2>4, <3>1
    <2> QED BY <2>2, <2>5, <2>6
  <1> QED BY <1>3

\* The innermost frame waits at a reference.
LEMMA TopWaits ==
    ASSUME IInv, stack # <<>>, pc \in {"call", "ret"}
    PROVE  /\ Top.obj \in Obj /\ Top.i \in 1..Count(Top.obj) /\ Refers(Top.obj, Top.i)
           /\ Target(Top.obj, Top.i) \in Succ(Top.obj)
           /\ pc = "call" => arg = Target(Top.obj, Top.i)
  <1>1. Top = stack[1] /\ 1 \in 1..Len(stack) /\ Top.i \in Nat \ {0} /\ Top.obj \in Obj
        /\ Count(Top.obj) \in Nat
    BY TopFacts
  <1>2. Waits(Top)
    BY <1>1 DEF IInv, FramesWait
  <1>3. Top.i \in Refs(Top.obj)
    BY <1>1, <1>2 DEF Waits, Refs
  <1> QED BY <1>1, <1>2, <1>3 DEF Waits, Refs, Succ, IInv, CallPending

\* A call for an object whose call is open closes a cycle.
LEMMA OpenIsCycle ==
    ASSUME IInv, Chained, stack # <<>>, pc = "call", OnStack(arg)
    PROVE  ~Clean(Top.obj)
  <1>1. PICK o \in Obj : /\ o = Top.obj /\ o = stack[1].obj /\ 1 \in 1..Len(stack)
                         /\ arg \in Succ(o) /\ Len(stack) \in Nat
    BY TopFacts, TopWaits
  <1>2. PICK k \in 1..Len(stack) : stack[k].obj = arg
    BY DEF OnStack
  <1>3. CASE k = 1
    BY <1>1, <1>2, <1>3, CleanBelow
  <1>4. CASE k # 1
    <2>1. 1 < k
      BY <1>1, <1>4
    <2>2. o \in Reach(arg)
      BY <1>1, <1>2, <2>1, StackReach
    <2> QED BY <1>1, <2>2, CleanBelow
  <1> QED BY <1>3, <1>4

\* What a frame has added after a step.
LEMMA AddedNext ==
    ASSUME heap' = heap, NEW f, NEW b
    PROVE  Added(f, b)' <=>
              (Clean(f.obj) => (Own(f) + csize'[f.obj]) % SizeMod = Passed(f, b) % SizeMod)
  <1>1. /\ Clean(f.obj)' = Clean(f.obj) /\ Bytes(f.obj, f.i)' = Bytes(f.obj, f.i)
        /\ Sums(f.obj, Total)' = Sums(f.obj, Total)
    <2>1. PICK T : T = Total /\ T = Total'
      BY TotalFixed
    <2>2. Sums(f.obj, T)' = Sums(f.obj, T)
      BY TotalFixed
    <2>3. Sums(f.obj, Total)' = Sums(f.obj, T)'
      BY <2>1 DEF Sums
    <2> QED BY <2>1, <2>2, <2>3, TotalFixed
  <1>2. Own(f)' = Own(f) /\ Passed(f, b)' = Passed(f, b)
    BY <1>1 DEF Own, Passed
  <1> QED BY <1>1, <1>2 DEF Added

\* It stays added while csize does not change.
LEMMA AddedStays ==
    ASSUME heap' = heap, NEW f, NEW b, csize'[f.obj] = csize[f.obj], Added(f, b)
    PROVE  Added(f, b)'
  BY AddedNext DEF Added

\* The sums of an object with a total.
LEMMA CleanSums ==
    ASSUME TypeOK, NEW o \in Obj, Clean(o)
    PROVE  /\ Total[o] \in Nat /\ Total[o] = Sums(o, Total)[Count(o)]
           /\ Sums(o, Total)[0] = 0
           /\ \A n \in 0..Count(o) : Sums(o, Total)[n] \in Nat
           /\ \A n \in 1..Count(o) :
                 /\ Bytes(o, n) \in Nat
                 /\ Refers(o, n) => /\ Target(o, n) \in Obj /\ Clean(Target(o, n))
                                    /\ Total[Target(o, n)] \in Nat
                 /\ Sums(o, Total)[n] = Sums(o, Total)[n - 1] + Bytes(o, n)
                                        + (IF Refers(o, n) THEN Total[Target(o, n)] ELSE 0)
  <1>1. o \in Cleans
    BY DEF Cleans
  <1>2. Total[o] \in Nat /\ Numbers(Total, o) /\ Total[o] = Sums(o, Total)[Count(o)]
    BY <1>1, TotalIs
  <1>3. /\ Sums(o, Total)[0] = 0
        /\ \A n \in 0..Count(o) : Sums(o, Total)[n] \in Nat
        /\ \A n \in 1..Count(o) : Sums(o, Total)[n] = Sums(o, Total)[n - 1] + Part(o, Total, n)
    BY <1>2, SumsAre
  <1>4. ASSUME NEW n \in 1..Count(o)
        PROVE  /\ Bytes(o, n) \in Nat
               /\ Refers(o, n) => /\ Target(o, n) \in Obj /\ Clean(Target(o, n))
                                  /\ Total[Target(o, n)] \in Nat
               /\ Sums(o, Total)[n] = Sums(o, Total)[n - 1] + Bytes(o, n)
                                        + (IF Refers(o, n) THEN Total[Target(o, n)] ELSE 0)
    <2>1. Bytes(o, n) \in Nat
      BY BytesNat
    <2>2. Refers(o, n) => /\ Target(o, n) \in Obj /\ Clean(Target(o, n))
                          /\ Total[Target(o, n)] \in Nat
      BY <1>1, <1>2, CleanRef DEF Cleans, Numbers
    <2>3. Sums(o, Total)[n - 1] \in Nat
      <3>1. n - 1 \in 0..Count(o)
        BY HeapFacts
      <3> QED BY <1>3, <3>1
    <2>4. Sums(o, Total)[n] = Sums(o, Total)[n - 1] + Part(o, Total, n)
      BY <1>3
    <2> QED BY <2>1, <2>2, <2>3, <2>4 DEF Part
  <1> QED BY <1>2, <1>3, <1>4

\* A primitive array is the sum of its elements.
LEMMA ArrayTotal ==
    ASSUME TypeOK, NEW o \in Obj, Clean(o), heap[o].htype = "varray"
    PROVE  /\ Count(o) > 0 /\ ElemWidth[ElemType[heap[o].class]] \in Nat
           /\ Total[o] = Count(o) * ElemWidth[ElemType[heap[o].class]]
  <1> DEFINE S == Sums(o, Total)
             e == ElemWidth[ElemType[heap[o].class]]
  <1>1. PICK N \in Nat : N = Count(o)
    BY HeapFacts
  <1>2. N > 0
    BY <1>1 DEF Clean
  <1>3. ASSUME NEW n \in 1..N PROVE Bytes(o, n) = e /\ ~Refers(o, n)
    BY DEF Bytes, Refers, ftype
  <1>4. S[0] = 0 /\ (\A n \in 0..N : S[n] \in Nat) /\ Total[o] = S[N] /\ e \in Nat
    <2>1. 1 \in 1..N
      BY <1>2
    <2>2. Bytes(o, 1) \in Nat
      BY <1>1, <2>1, BytesNat
    <2>3. e \in Nat
      BY <1>3, <2>1, <2>2
    <2> QED BY <1>1, <2>3, CleanSums
  <1>5. ASSUME NEW n \in 1..N PROVE S[n] = S[n - 1] + e
    <2>1. S[n] = S[n - 1] + Bytes(o, n) + (IF Refers(o, n) THEN Total[Target(o, n)] ELSE 0)
      BY <1>1, CleanSums
    <2>2. n - 1 \in 0..N
      OBVIOUS
    <2> HIDE DEF S, e
    <2> QED BY <1>3, <1>4, <2>1, <2>2
  <1> HIDE DEF S, e
  <1> DEFINE R == {n \in 0..N : S[n] # n * e}
  <1>6. ASSUME R # {} PROVE FALSE
    <2>1. PICK n \in R : \A m \in R : n <= m
      <3>1. R \subseteq Nat
        OBVIOUS
      <3> HIDE DEF R
      <3> QED BY <1>6, <3>1, Smallest
    <2>2. n # 0
      BY <1>4, <2>1
    <2>3. n \in 1..N /\ n - 1 \in 0..N /\ n - 1 \notin R /\ S[n] # n * e
      BY <2>1, <2>2
    <2>4. S[n - 1] = (n - 1) * e
      BY <2>3
    <2>5. (n - 1) * e + e = n * e
      BY <1>4, <2>3
    <2> QED BY <1>5, <2>3, <2>4, <2>5
  <1>7. S[N] = N * e
    BY <1>6
  <1> QED BY <1>1, <1>2, <1>4, <1>7 DEF e

\* Steps that change no object and no frame.
LEMMA SameSums ==
    ASSUME IInv, SInv, UNCHANGED <<heap, resolved, osize, csize, stack>>,
           stack # <<>> => (pc' \in {"call", "ret", "segv"} <=> pc \in {"call", "ret", "segv"})
    PROVE  Chained' /\ NotYet' /\ AllSummed' /\ FramesAdded'
  <1>1. Chained'
    BY DEF SInv, Chained, Target, Slot
  <1>2. NotYet'
    BY DEF SInv, NotYet
  <1>3. AllSummed'
    BY TotalFixed DEF SInv, AllSummed, Summed, OnStack
  <1>4. FramesAdded'
    <2> SUFFICES ASSUME NEW k \in 1..Len(stack)
                 PROVE  Added(stack[k], Waiting(k))'
      BY DEF FramesAdded
    <2>1. stack # <<>>
      BY DEF IInv, TypeOK
    <2>2. PICK f, b : f = stack[k] /\ b = Waiting(k) /\ b = Waiting(k)'
      BY <2>1 DEF Waiting
    <2>3. Added(f, b)
      BY <2>2 DEF SInv, FramesAdded
    <2>4. Added(f, b)'
      BY <2>3, AddedStays
    <2>5. Added(stack[k], Waiting(k))' = Added(f, b)'
      BY <2>2 DEF Added, Own, Passed
    <2> QED BY <2>4, <2>5
  <1> QED BY <1>1, <1>2, <1>3, <1>4

\* The driver and the end.
LEMMA DriveSInv ==
    ASSUME IInv, SInv, Drive \/ DriveEnd \/ ReturnToDriver \/ ReturnSegv \/ Terminated
                       \/ UNCHANGED vars
    PROVE  SInv'
  <1>1. /\ UNCHANGED <<heap, resolved, osize, csize, stack>>
        /\ stack # <<>> => (pc' \in {"call", "ret", "segv"} <=> pc \in {"call", "ret", "segv"})
        /\ pc' = "ret" => pc = "ret" /\ arg' = arg
    BY DEF IInv, Control, Drive, DriveEnd, ReturnToDriver, ReturnSegv, Terminated, vars, fixed,
           objVars
  <1>2. Returned'
    BY <1>1, TotalFixed DEF SInv, Returned, Top, Target, Slot
  <1> QED BY <1>1, <1>2, SameSums DEF SInv

\* A resolved object gives back its total, unless its own call is open.
LEMMA CallResolvedSInv ==
    ASSUME IInv, SInv, CallResolved
    PROVE  SInv'
  <1>1. /\ UNCHANGED <<heap, resolved, osize, csize, stack>>
        /\ pc = "call" /\ pc' = "ret" /\ resolved[arg]
        /\ arg' = (osize[arg] + csize[arg]) % SizeMod
    BY DEF CallResolved, fixed, objVars
  <1>2. ASSUME stack # <<>>, Clean(Top.obj)
        PROVE  arg' % SizeMod = Total[Target(Top.obj, Top.i)] % SizeMod
    <2>1. PICK o \in Obj : o = Top.obj /\ arg \in Succ(o) /\ arg = Target(Top.obj, Top.i)
      BY <1>1, <1>2, TopWaits
    <2>2. arg \in Obj /\ Clean(arg)
      BY <1>2, <2>1, CleanBelow
    <2>3. ~OnStack(arg)
      BY <1>1, <1>2, OpenIsCycle DEF SInv
    <2>4. Summed(arg)
      BY <1>1, <2>2, <2>3 DEF SInv, AllSummed
    <2>5. osize[arg] + csize[arg] \in Int
      BY <2>2 DEF IInv, TypeOK
    <2>6. ((osize[arg] + csize[arg]) % SizeMod) % SizeMod = (osize[arg] + csize[arg]) % SizeMod
      BY <2>5, ModTwice
    <2> QED BY <1>1, <2>1, <2>4, <2>6 DEF Summed
  <1>3. Returned'
    BY <1>1, <1>2, TotalFixed DEF Returned, Top, Target, Slot
  <1> QED BY <1>1, <1>3, SameSums DEF SInv

\* An array without calls of its own: it has its total at once, or none.
LEMMA CallLeafSInv ==
    ASSUME IInv, SInv, CallLeaf
    PROVE  SInv'
  <1>1. /\ UNCHANGED <<heap, csize, stack>> /\ pc = "call" /\ pc' = "ret" /\ ~resolved[arg]
        /\ resolved' = [resolved EXCEPT ![arg] = TRUE] /\ TypeOK /\ arg \in Obj
        /\ heap[arg].htype \in {"varray", "oarray"}
    BY DEF CallLeaf, fixed, IInv, TypeOK
  <1>2. \A o \in Obj : o # arg => resolved'[o] = resolved[o] /\ osize'[o] = osize[o]
    BY <1>1 DEF CallLeaf, TypeOK
  <1>3. \A o, i : Target(o, i)' = Target(o, i)
    BY <1>1, HeapOnly
  <1>4. Chained'
    BY <1>1, <1>3 DEF SInv, Chained
  <1>5. NotYet'
    BY <1>1, <1>2 DEF SInv, NotYet, TypeOK
  <1>6. FramesAdded'
    <2> SUFFICES ASSUME NEW k \in 1..Len(stack)
                 PROVE  Added(stack[k], Waiting(k))'
      BY <1>1 DEF FramesAdded
    <2>1. PICK f, b : f = stack[k] /\ b = Waiting(k) /\ b = Waiting(k)'
      BY <1>1 DEF Waiting
    <2>2. Added(f, b)'
      BY <1>1, <2>1, AddedStays DEF SInv, FramesAdded
    <2>3. Added(stack[k], Waiting(k))' = Added(f, b)'
      BY <1>1, <2>1 DEF Added, Own, Passed
    <2> QED BY <2>2, <2>3
  <1>7. PICK a \in Obj : a = arg
    BY <1>1
  <1>8. ASSUME Clean(a)
        PROVE  Summed(a)' /\ arg' % SizeMod = Total[a] % SizeMod
    <2>1. heap[arg].htype = "varray" /\ Count(arg) > 0
      BY <1>1, <1>8, <1>7 DEF CallLeaf, Clean
    <2>2. PICK e \in Nat, n \in Nat : /\ e = ElemWidth[ElemType[heap[arg].class]] /\ n = Count(arg)
                                      /\ Total[arg] = n * e
      BY <1>1, <1>8, <1>7, <2>1, ArrayTotal, HeapFacts
    <2>3. osize'[arg] = (n * e) % SizeMod /\ arg' = (n * e) % SizeMod
      BY <1>1, <2>1, <2>2 DEF CallLeaf, TypeOK
    <2>4. csize[arg] = 0
      BY <1>1 DEF SInv, NotYet
    <2>5. PICK t \in Nat : t = n * e
      OBVIOUS
    <2>6. t % SizeMod \in Nat /\ (t % SizeMod) % SizeMod = t % SizeMod
      BY ModTwice
    <2>7. osize'[arg] + csize'[arg] = t % SizeMod
      BY <1>1, <2>3, <2>4, <2>5, <2>6
    <2>8. Summed(a)'
      BY <1>1, <1>7, <2>2, <2>5, <2>6, <2>7, TotalFixed DEF Summed
    <2> QED BY <1>7, <2>2, <2>3, <2>5, <2>6, <2>8
  <1>9. AllSummed'
    <2> SUFFICES ASSUME NEW o \in Obj, resolved'[o], ~OnStack(o)', Clean(o)'
                 PROVE  Summed(o)'
      BY DEF AllSummed
    <2>1. Clean(o) /\ ~OnStack(o)
      BY <1>1, TotalFixed DEF OnStack
    <2>2. CASE o = arg
      BY <1>8, <1>7, <2>1, <2>2
    <2>3. CASE o # arg
      <3>1. Summed(o)
        BY <1>2, <2>1, <2>3 DEF SInv, AllSummed
      <3> QED BY <1>1, <1>2, <2>3, <3>1, TotalFixed DEF Summed
    <2> QED BY <2>2, <2>3
  <1>10. Returned'
    <2> SUFFICES ASSUME stack # <<>>, Clean(Top.obj)
                 PROVE  arg' % SizeMod = Total[Target(Top.obj, Top.i)] % SizeMod
      BY <1>1, <1>3, TotalFixed DEF Returned, Top
    <2>1. PICK o \in Obj : o = Top.obj /\ arg \in Succ(o) /\ arg = Target(Top.obj, Top.i)
      BY <1>1, TopWaits
    <2>2. Clean(arg)
      BY <2>1, CleanBelow
    <2> QED BY <1>8, <1>7, <2>1, <2>2
  <1> QED BY <1>4, <1>5, <1>6, <1>9, <1>10 DEF SInv

\* A call that enters its loop has added nothing.
LEMMA CallSInv ==
    ASSUME IInv, SInv, CallOArray \/ CallInstance
    PROVE  SInv'
  <1>1. /\ UNCHANGED <<heap, osize, csize>> /\ pc = "call" /\ pc' = "loop" /\ ~resolved[arg]
        /\ resolved' = [resolved EXCEPT ![arg] = TRUE] /\ TypeOK /\ arg \in Obj /\ Push(arg)
    BY DEF CallOArray, CallInstance, fixed, IInv, TypeOK
  <1>2. /\ stack \in Seq(Frame) /\ Len(stack) \in Nat
        /\ \A k \in 1..Len(stack) : stack[k] \in Frame /\ resolved[stack[k].obj]
    BY StackFacts
  <1>3. PICK g \in Frame : g.obj = arg /\ g.i = 1 /\ g.size = 0 /\ stack' = <<g>> \o stack
    <2>1. [obj |-> arg, i |-> 1, size |-> 0] \in Frame
      BY <1>1 DEF Frame
    <2> QED BY <1>1, <2>1 DEF Push
  <1>4. /\ Len(stack') = Len(stack) + 1 /\ stack'[1] = g
        /\ \A k \in 1..Len(stack) : k + 1 \in 1..Len(stack') /\ stack'[k + 1] = stack[k]
        /\ \A k \in 2..Len(stack') : k - 1 \in 1..Len(stack) /\ stack'[k] = stack[k - 1]
    BY <1>2, <1>3, PushSeq
  <1>5. \A o \in Obj : o # arg => resolved'[o] = resolved[o]
    BY <1>1 DEF TypeOK
  <1>6. \A o, i : Target(o, i)' = Target(o, i)
    BY <1>1, HeapOnly
  <1>7. Chained'
    <2> SUFFICES ASSUME NEW k \in 2..Len(stack')
                 PROVE  stack'[k - 1].obj = Target(stack'[k].obj, stack'[k].i)
      BY <1>6 DEF Chained
    <2>1. k - 1 \in 1..Len(stack) /\ stack'[k] = stack[k - 1]
      BY <1>4
    <2>2. CASE k = 2
      <3>1. stack # <<>> /\ Top = stack[1] /\ stack'[2] = stack[1] /\ stack'[1].obj = arg
        BY <1>2, <1>3, <1>4, <2>1, <2>2, TopFacts
      <3>2. arg = Target(Top.obj, Top.i)
        BY <1>1, <3>1, TopWaits
      <3> QED BY <2>2, <3>1, <3>2
    <2>3. CASE k # 2
      <3>1. PICK j \in 2..Len(stack) : j = k - 1 /\ k - 1 \in 2..Len(stack')
        BY <1>2, <1>4, <2>1, <2>3
      <3>2. stack'[k - 1] = stack[j - 1]
        BY <1>4, <3>1
      <3>3. stack[j - 1].obj = Target(stack[j].obj, stack[j].i)
        BY DEF SInv, Chained
      <3> QED BY <2>1, <3>1, <3>2, <3>3
    <2> QED BY <2>2, <2>3
  <1>8. NotYet'
    BY <1>1, <1>5 DEF SInv, NotYet, TypeOK
  <1>9. AllSummed'
    <2> SUFFICES ASSUME NEW o \in Obj, resolved'[o], ~OnStack(o)', Clean(o)'
                 PROVE  Summed(o)'
      BY DEF AllSummed
    <2>1. o # arg
      <3>1. 1 \in 1..Len(stack') /\ stack'[1].obj = arg
        BY <1>2, <1>3, <1>4
      <3> QED BY <3>1 DEF OnStack
    <2>2. Clean(o) /\ ~OnStack(o)
      BY <1>1, <1>4, TotalFixed DEF OnStack
    <2>3. Summed(o)
      BY <1>5, <2>1, <2>2 DEF SInv, AllSummed
    <2> QED BY <1>1, <2>3, TotalFixed DEF Summed
  <1>10. FramesAdded'
    <2> SUFFICES ASSUME NEW k \in 1..Len(stack')
                 PROVE  \E f, b : f = stack'[k] /\ b = Waiting(k)' /\ Added(f, b)'
      BY DEF FramesAdded, Added, Own, Passed
    <2>1. CASE k = 1
      <3>1. Waiting(k)' = FALSE
        BY <1>1, <2>1 DEF Waiting
      <3>2. PICK b : b = FALSE
        OBVIOUS
      <3>3. Added(g, b)
        <4> SUFFICES ASSUME Clean(arg)
                     PROVE  (Own(g) + csize[arg]) % SizeMod = Passed(g, b) % SizeMod
          BY <1>3 DEF Added
        <4>1. csize[arg] = 0
          BY <1>1 DEF SInv, NotYet
        <4>2. Sums(arg, Total)[0] = 0
          BY <1>1, CleanSums
        <4>3. Own(g) = 0
          BY <1>3, SizeAssumption DEF Own
        <4>4. Passed(g, b) = 0
          BY <1>3, <3>2, <4>2 DEF Passed
        <4>5. Own(g) + csize[arg] = Passed(g, b)
          BY <4>1, <4>3, <4>4
        <4> QED BY <4>5
      <3>4. Added(g, b)'
        BY <1>1, <3>3, AddedStays
      <3> QED BY <1>4, <2>1, <3>1, <3>2, <3>4
    <2>2. CASE k # 1
      <3>1. PICK j \in 1..Len(stack) : j = k - 1 /\ stack'[k] = stack[j]
        BY <1>4, <2>2
      <3>2. PICK f, b : f = stack[j] /\ b = Waiting(j) /\ b = Waiting(k)'
        BY <1>1, <2>2, <3>1 DEF Waiting
      <3>3. Added(f, b)'
        BY <1>1, <3>2, AddedStays DEF SInv, FramesAdded
      <3> QED BY <3>1, <3>2, <3>3
    <2> QED BY <2>1, <2>2
  <1>11. Returned'
    BY <1>1 DEF Returned
  <1> QED BY <1>7, <1>8, <1>9, <1>10, <1>11 DEF SInv

\* A turn of the innermost frame changes nothing for the others.
LEMMA TurnSums ==
    ASSUME IInv, SInv, stack # <<>>, UNCHANGED <<heap, resolved, osize>>,
           \A o \in Obj : o # Top.obj => csize'[o] = csize[o],
           NEW g, g.obj = Top.obj, Len(stack') = Len(stack), stack'[1] = g,
           \A k \in 2..Len(stack) : stack'[k] = stack[k],
           NEW b, b = (pc' \in {"call", "ret", "segv"}), Added(g, b)'
    PROVE  Chained' /\ NotYet' /\ AllSummed' /\ FramesAdded'
  <1>1. /\ Top = stack[1] /\ 1 \in 1..Len(stack) /\ Top.obj \in Obj /\ Len(stack) \in Nat
        /\ resolved[Top.obj]
        /\ \A k \in 1..Len(stack) : stack[k] \in Frame /\ stack[k].obj \in Obj
    BY TopFacts DEF Frame, Open
  <1>2. \A k \in 1..Len(stack) : stack'[k].obj = stack[k].obj
    BY <1>1
  <1>3. \A o, i : Target(o, i)' = Target(o, i)
    BY HeapOnly
  <1>4. Chained'
    <2> SUFFICES ASSUME NEW k \in 2..Len(stack)
                 PROVE  stack'[k - 1].obj = Target(stack'[k].obj, stack'[k].i)
      BY <1>3 DEF Chained
    <2>1. k - 1 \in 1..Len(stack)
      BY <1>1
    <2>2. stack[k - 1].obj = Target(stack[k].obj, stack[k].i)
      BY DEF SInv, Chained
    <2> QED BY <1>2, <2>1, <2>2
  <1>5. NotYet'
    BY <1>1 DEF SInv, NotYet
  <1>6. AllSummed'
    <2> SUFFICES ASSUME NEW o \in Obj, resolved'[o], ~OnStack(o)', Clean(o)'
                 PROVE  Summed(o)'
      BY DEF AllSummed
    <2>1. Clean(o) /\ ~OnStack(o)
      BY <1>2, TotalFixed DEF OnStack
    <2>2. o # Top.obj
      BY <1>1, <2>1 DEF OnStack
    <2>3. Summed(o)
      BY <2>1 DEF SInv, AllSummed
    <2> QED BY <2>2, <2>3, TotalFixed DEF Summed
  <1>7. FramesAdded'
    <2> SUFFICES ASSUME NEW k \in 1..Len(stack)
                 PROVE  \E f, c : f = stack'[k] /\ c = Waiting(k)' /\ Added(f, c)'
      BY DEF FramesAdded, Added, Own, Passed
    <2>1. CASE k = 1
      BY <2>1 DEF Waiting
    <2>2. CASE k # 1
      <3>1. PICK f, c : f = stack[k] /\ c = Waiting(k) /\ c = Waiting(k)' /\ stack'[k] = f
        BY <1>1, <2>2 DEF Waiting
      <3>2. f.obj # Top.obj /\ f.obj \in Obj
        BY <1>1, <2>2, <3>1 DEF IInv, NoReentry
      <3>3. Added(f, c)'
        BY <3>1, <3>2, AddedStays DEF SInv, FramesAdded
      <3> QED BY <3>1, <3>3
    <2> QED BY <2>1, <2>2
  <1> QED BY <1>4, <1>5, <1>6, <1>7

\* One more value on both sides.
LEMMA ModGrow ==
    ASSUME NEW a \in Int, NEW b \in Int, NEW c \in Int, a % SizeMod = b % SizeMod
    PROVE  (a + c) % SizeMod = (b + c) % SizeMod
  BY ModAdd

\* What is known of the innermost frame of an object with a total.
LEMMA TopSums ==
    ASSUME IInv, SInv, stack # <<>>, Clean(Top.obj), NEW b, b = (pc \in {"call", "ret", "segv"})
    PROVE  /\ TypeOK /\ Top.obj \in Obj /\ Top.i \in Nat \ {0} /\ Top.size \in Nat
           /\ csize[Top.obj] \in Nat /\ Own(Top) \in Nat /\ IdSize \in Nat
           /\ Top.i - 1 \in 0..Count(Top.obj) /\ Sums(Top.obj, Total)[Top.i - 1] \in Nat
           /\ (Own(Top) + csize[Top.obj]) % SizeMod = Passed(Top, b) % SizeMod
  <1>1. /\ TypeOK /\ Top.obj \in Obj /\ Top.i \in Nat \ {0} /\ Top.size \in Nat /\ Open(Top)
        /\ Count(Top.obj) \in Nat /\ 1 \in 1..Len(stack) /\ Top = stack[1]
    BY TopFacts
  <1>2. csize[Top.obj] \in Nat
    BY <1>1 DEF TypeOK
  <1>3. Own(Top) \in Nat /\ IdSize \in Nat
    BY <1>1, SizeAssumption DEF Own
  <1>4. Top.i - 1 \in 0..Count(Top.obj)
    BY <1>1 DEF Open
  <1>5. Sums(Top.obj, Total)[Top.i - 1] \in Nat
    BY <1>1, <1>4, CleanSums
  <1>6. b = Waiting(1)
    BY DEF Waiting
  <1>7. Added(Top, b)
    BY <1>1, <1>6 DEF SInv, FramesAdded
  <1> QED BY <1>1, <1>2, <1>3, <1>4, <1>5, <1>7 DEF Added

\* A turn of the loop over the fields.
LEMMA LoadFieldSInv ==
    ASSUME IInv, SInv, LoadField
    PROVE  SInv'
  <1>1. /\ TypeOK /\ stack # <<>> /\ Top \in Frame /\ Top.obj \in Obj /\ Top.i \in Nat \ {0}
        /\ Top.size \in Nat /\ Count(Top.obj) \in Nat /\ stack \in Seq(Frame)
    BY TopFacts DEF LoadField
  <1>2. PICK o \in Obj, i \in Nat \ {0} : o = Top.obj /\ i = Top.i
    BY <1>1
  <1>3. /\ UNCHANGED <<heap, resolved, osize, csize>> /\ pc = "loop" /\ pc' # "ret"
        /\ heap[o].htype = "instance" /\ i \in 1..Count(o)
    BY <1>1, <1>2 DEF LoadField, fixed
  <1>4. /\ CellAt(<<o, Slot(o, i)>>) = Target(o, i) /\ Width[ftype(o, i)] \in Nat
    BY <1>1, <1>3, HeapFacts DEF Target
  <1>5. PICK sz \in Nat : sz = Top.size + Bytes(o, i) /\ sz = Top.size + Width[ftype(o, i)]
    BY <1>1, <1>3, <1>4 DEF Bytes
  <1>6. PICK g, b : /\ g \in Frame
                    /\ b = (pc' \in {"call", "ret", "segv"})
                    /\ g.obj = o /\ g.size = sz /\ stack' = SetTop(g)
                    /\ \/ ~IsRead(o, i)
                       \/ g.i = i /\ b = TRUE
                       \/ g.i = i + 1 /\ b = FALSE /\ ~Refers(o, i)
    <2>1. CASE ~IsRead(o, i)
      <3>1. PICK g \in Frame : g = [obj |-> Top.obj, i |-> Top.i + 1, size |-> sz]
        BY <1>1, NextFrame
      <3>2. stack' = SetTop(g)
        BY <1>2, <1>5, <2>1, <3>1 DEF LoadField, Advanced
      <3> QED BY <1>2, <2>1, <3>1, <3>2
    <2>2. CASE IsRead(o, i) /\ ftype(o, i) \in RefType /\ Target(o, i) \in Obj
      <3>1. PICK g \in Frame : g = [Top EXCEPT !.size = sz]
        BY <1>1 DEF Frame
      <3>2. g.obj = o /\ g.i = i /\ g.size = sz
        BY <1>1, <1>2, <3>1 DEF Frame
      <3>3. stack' = SetTop(g) /\ pc' = "call"
        BY <1>2, <1>4, <1>5, <2>2, <3>1 DEF LoadField, SeekField
      <3> QED BY <3>2, <3>3
    <2>3. CASE IsRead(o, i) /\ ~(ftype(o, i) \in RefType /\ Target(o, i) \in Obj)
      <3>1. PICK g \in Frame : g = [obj |-> Top.obj, i |-> Top.i + 1, size |-> sz]
        BY <1>1, NextFrame
      <3>2. stack' = SetTop(g) /\ pc' = "loop"
        BY <1>2, <1>3, <1>4, <1>5, <2>3, <3>1 DEF LoadField, SeekField, Advanced
      <3>3. ~Refers(o, i)
        BY <2>3 DEF Refers, Target
      <3>4. (pc' \in {"call", "ret", "segv"}) = FALSE
        BY <3>2
      <3>5. g.obj = o /\ g.size = sz /\ g.i = i + 1
        BY <1>2, <3>1
      <3> QED BY <3>2, <3>3, <3>4, <3>5
    <2> QED BY <2>1, <2>2, <2>3
  <1>7. ASSUME Clean(o)
        PROVE  (Own(g) + csize[o]) % SizeMod = Passed(g, b) % SizeMod
    <2>1. (pc \in {"call", "ret", "segv"}) = FALSE
      BY <1>3
    <2>2. PICK c : c = (pc \in {"call", "ret", "segv"}) /\ c = FALSE
      BY <2>1
    <2>3. /\ csize[o] \in Nat /\ Own(Top) \in Nat /\ Sums(o, Total)[i - 1] \in Nat
          /\ (Own(Top) + csize[o]) % SizeMod = Passed(Top, c) % SizeMod
      BY <1>1, <1>2, <1>7, <2>2, TopSums
    <2>4. PICK s, y, x \in Nat : s = Sums(o, Total)[i - 1] /\ y = Bytes(o, i) /\ x = csize[o]
      BY <1>1, <1>3, <2>3, BytesNat
    <2>5. Own(Top) = Top.size /\ Passed(Top, c) = s + 0
      BY <1>2, <1>3, <2>2, <2>4 DEF Own, Passed
    <2>6. (Top.size + x) % SizeMod = s % SizeMod
      BY <2>3, <2>4, <2>5
    <2>7. PICK u \in Int : u = Top.size + x /\ u % SizeMod = s % SizeMod
      BY <1>1, <2>6
    <2>8. (u + y) % SizeMod = (s + y) % SizeMod
      BY <2>7, ModGrow
    <2>9. Own(g) = sz /\ sz = Top.size + y
      BY <1>3, <1>5, <1>6, <2>4 DEF Own
    <2>10. IsRead(o, i)
      BY <1>3, <1>7 DEF Clean
    <2>11. Passed(g, b) = s + y
      <3>1. CASE g.i = i /\ b = TRUE
        BY <1>3, <1>6, <2>4, <3>1 DEF Passed
      <3>2. CASE g.i = i + 1 /\ b = FALSE /\ ~Refers(o, i)
        <4>1. Sums(o, Total)[i] = Sums(o, Total)[i - 1] + Bytes(o, i)
                                        + (IF Refers(o, i) THEN Total[Target(o, i)] ELSE 0)
          BY <1>1, <1>3, <1>7, CleanSums
        <4>2. Sums(o, Total)[i] = s + y
          BY <2>4, <3>2, <4>1
        <4>3. g.i - 1 = i
          BY <3>2
        <4> QED BY <1>6, <2>4, <3>2, <4>2, <4>3 DEF Passed
      <3> QED BY <1>6, <2>10, <3>1, <3>2
    <2>12. Own(g) + csize[o] = u + y
      <3>1. PICK z \in Nat : z = Top.size
        BY <1>1
      <3>2. Own(g) = z + y /\ csize[o] = x /\ u = z + x
        BY <2>4, <2>7, <2>9, <3>1
      <3> QED BY <3>2
    <2> QED BY <2>11, <2>12, <2>8
  <1>8. Added(g, b)'
    BY <1>3, <1>6, <1>7, AddedNext
  <1>9. Len(stack') = Len(stack) /\ stack'[1] = g /\ \A k \in 2..Len(stack) : stack'[k] = stack[k]
    BY <1>1, <1>6, SetTopSeq DEF SetTop
  <1>10. Chained' /\ NotYet' /\ AllSummed' /\ FramesAdded'
    BY <1>1, <1>2, <1>3, <1>6, <1>8, <1>9, TurnSums
  <1> QED BY <1>3, <1>10 DEF SInv, Returned

\* A turn of the loop over the elements.
LEMMA LoadElementSInv ==
    ASSUME IInv, SInv, LoadElement
    PROVE  SInv'
  <1>1. /\ TypeOK /\ stack # <<>> /\ Top \in Frame /\ Top.obj \in Obj /\ Top.i \in Nat \ {0}
        /\ Top.size \in Nat /\ Count(Top.obj) \in Nat /\ stack \in Seq(Frame) /\ Open(Top)
        /\ Top = stack[1]
    BY TopFacts DEF LoadElement
  <1>2. PICK o \in Obj, i \in Nat \ {0} : o = Top.obj /\ i = Top.i
    BY <1>1
  <1>3. /\ UNCHANGED <<heap, resolved, osize, csize>> /\ pc = "loop" /\ pc' # "ret"
        /\ heap[o].htype = "oarray" /\ i \in 1..Count(o)
    BY <1>1, <1>2 DEF LoadElement, fixed, objVars
  <1>4. hvalues[o][i] = Target(o, i)
    BY <1>1, <1>2, <1>3 DEF Open, Target, Slot
  <1>5. PICK g, b : /\ g \in Frame
                    /\ b = (pc' \in {"call", "ret", "segv"}) /\ g.obj = o
                    /\ Len(stack') = Len(stack) /\ stack'[1] = g
                    /\ \A k \in 2..Len(stack) : stack'[k] = stack[k]
                    /\ \/ g.i = i
                       \/ g.i = i + 1 /\ ~Refers(o, i)
    <2>1. CASE stack' = stack
      BY <1>1, <1>2, <2>1
    <2>2. CASE stack' = Advanced(Top.size) /\ hvalues[o][i] \notin Obj
      <3>1. PICK g \in Frame : g = [obj |-> Top.obj, i |-> Top.i + 1, size |-> Top.size]
        BY <1>1, NextFrame
      <3>2. stack' = SetTop(g)
        BY <2>2, <3>1 DEF Advanced
      <3>3. Len(stack') = Len(stack) /\ stack'[1] = g /\ \A k \in 2..Len(stack) : stack'[k] = stack[k]
        BY <1>1, <3>2, SetTopSeq DEF SetTop
      <3>4. ~Refers(o, i)
        BY <1>4, <2>2 DEF Refers, Target
      <3> QED BY <1>2, <3>1, <3>3, <3>4
    <2> QED BY <1>2, <2>1, <2>2 DEF LoadElement
  <1>6. ASSUME Clean(o)
        PROVE  (Own(g) + csize[o]) % SizeMod = Passed(g, b) % SizeMod
    <2>1. PICK c : c = (pc \in {"call", "ret", "segv"})
      OBVIOUS
    <2>2. /\ csize[o] \in Nat /\ Own(Top) \in Nat /\ Sums(o, Total)[i - 1] \in Nat
          /\ (Own(Top) + csize[o]) % SizeMod = Passed(Top, c) % SizeMod /\ IdSize \in Nat
      BY <1>1, <1>2, <1>6, <2>1, TopSums
    <2>3. PICK s, y, x \in Nat : s = Sums(o, Total)[i - 1] /\ y = IdSize /\ x = csize[o]
      BY <2>2
    <2>4. Own(Top) = (i - 1) * y /\ Passed(Top, c) = s + 0
      BY <1>2, <1>3, <2>3 DEF Own, Passed
    <2>5. PICK w \in Nat : w = (i - 1) * y /\ (w + x) % SizeMod = s % SizeMod
      BY <2>2, <2>3, <2>4
    <2>6. CASE g.i = i
      <3>1. Own(g) = w /\ Passed(g, b) = s + 0
        BY <1>3, <1>5, <2>3, <2>5, <2>6 DEF Own, Passed
      <3> QED BY <2>3, <2>5, <3>1
    <2>7. CASE g.i = i + 1 /\ ~Refers(o, i)
      <3>1. Bytes(o, i) = y
        BY <1>3, <2>3 DEF Bytes, ftype, Width, FType, RefType
      <3>2. Sums(o, Total)[i] = Sums(o, Total)[i - 1] + Bytes(o, i)
                                        + (IF Refers(o, i) THEN Total[Target(o, i)] ELSE 0)
        BY <1>1, <1>3, <1>6, CleanSums
      <3>3. Sums(o, Total)[i] = s + y
        BY <2>3, <2>7, <3>1, <3>2
      <3>4. g.i - 1 = i
        BY <2>7
      <3>5. Passed(g, b) = s + y
        BY <1>3, <1>5, <3>3, <3>4 DEF Passed
      <3>6. Own(g) = i * y
        BY <1>3, <1>5, <2>3, <3>4 DEF Own
      <3>7. i * y = w + y
        BY <2>5
      <3>8. PICK u \in Int : u = w + x /\ u % SizeMod = s % SizeMod
        BY <2>5
      <3>9. (u + y) % SizeMod = (s + y) % SizeMod
        <4>1. s \in Int /\ y \in Int
          BY <2>3
        <4> QED BY <3>8, <4>1, ModGrow
      <3>10. Own(g) = w + y
        BY <3>6, <3>7
      <3>11. Own(g) + csize[o] = u + y
        BY <2>3, <3>8, <3>10
      <3> QED BY <3>5, <3>9, <3>11
    <2> QED BY <1>5, <2>6, <2>7
  <1>7. Added(g, b)'
    BY <1>3, <1>5, <1>6, AddedNext
  <1>8. Chained' /\ NotYet' /\ AllSummed' /\ FramesAdded'
    BY <1>1, <1>2, <1>3, <1>5, <1>7, TurnSums
  <1> QED BY <1>3, <1>8 DEF SInv, Returned

\* The end of a loop: own bytes and csize are the total, and the frame below gets it.
LEMMA FinishSInv ==
    ASSUME IInv, SInv, Finish
    PROVE  SInv'
  <1>1. /\ TypeOK /\ stack # <<>> /\ Top.obj \in Obj /\ Top.i \in Nat \ {0} /\ Len(stack) \in Nat
        /\ Top.size \in Nat /\ Count(Top.obj) \in Nat /\ stack \in Seq(Frame) /\ Open(Top)
        /\ Top = stack[1] /\ \A k \in 1..Len(stack) : stack[k] \in Frame
    BY TopFacts DEF Finish
  <1>2. PICK o \in Obj, i \in Nat \ {0} : o = Top.obj /\ i = Top.i
    BY <1>1
  <1>3. /\ UNCHANGED <<heap, resolved, csize>> /\ pc = "loop" /\ pc' = "ret"
        /\ stack' = Tail(stack) /\ i = Count(o) + 1 /\ resolved[o]
    BY <1>1, <1>2 DEF Finish, fixed, Open
  <1>4. osize'[o] = Own(Top) % SizeMod /\ arg' = ((Own(Top) % SizeMod) + csize[o]) % SizeMod
    <2>1. (IF heap[o].htype = "oarray" THEN Count(o) * IdSize ELSE Top.size) = Own(Top)
      BY <1>1, <1>2, <1>3 DEF Own
    <2> QED BY <1>1, <1>2, <2>1 DEF Finish, TypeOK
  <1>5. \A p \in Obj : p # o => osize'[p] = osize[p]
    BY <1>1, <1>2 DEF Finish, TypeOK
  <1>6. /\ \A k \in 1..Len(stack') : k + 1 \in 1..Len(stack) /\ stack'[k] = stack[k + 1]
        /\ \A k \in 1..Len(stack) : k = 1 \/ (k - 1 \in 1..Len(stack') /\ stack'[k - 1] = stack[k])
        /\ Len(stack') = Len(stack) - 1
    BY <1>1, <1>3, PopIndex, PopSeq
  <1>7. \A p, n : Target(p, n)' = Target(p, n)
    BY <1>3, HeapOnly
  <1>8. Chained'
    <2> SUFFICES ASSUME NEW k \in 2..Len(stack')
                 PROVE  stack'[k - 1].obj = Target(stack'[k].obj, stack'[k].i)
      BY <1>7 DEF Chained
    <2>1. k \in 1..Len(stack') /\ k - 1 \in 1..Len(stack') /\ (k - 1) + 1 = k /\ (k + 1) - 1 = k
      BY <1>1, <1>6
    <2>2. stack'[k] = stack[k + 1] /\ k + 1 \in 2..Len(stack)
      BY <1>1, <1>6, <2>1
    <2>3. stack'[k - 1] = stack[(k + 1) - 1]
      BY <1>6, <2>1
    <2> QED BY <2>2, <2>3 DEF SInv, Chained
  <1>9. NotYet'
    BY <1>3 DEF SInv, NotYet
  <1>10. ASSUME Clean(o)
         PROVE  Summed(o)' /\ arg' % SizeMod = Total[o] % SizeMod
    <2>1. (pc \in {"call", "ret", "segv"}) = FALSE
      BY <1>3
    <2>2. PICK c : c = (pc \in {"call", "ret", "segv"}) /\ c = FALSE
      BY <2>1
    <2>3. /\ csize[o] \in Nat /\ Own(Top) \in Nat
          /\ (Own(Top) + csize[o]) % SizeMod = Passed(Top, c) % SizeMod
      BY <1>1, <1>2, <1>10, <2>2, TopSums
    <2>4. i - 1 = Count(o) /\ Total[o] = Sums(o, Total)[Count(o)] /\ Total[o] \in Nat
      <3>1. i - 1 = Count(o)
        BY <1>1, <1>2, <1>3
      <3> QED BY <1>1, <1>10, <3>1, CleanSums
    <2>5. Passed(Top, c) = Total[o]
      BY <1>2, <2>2, <2>4 DEF Passed
    <2>6. PICK w, x \in Nat : w = Own(Top) /\ x = csize[o] /\ (w + x) % SizeMod = Total[o] % SizeMod
      BY <2>3, <2>5
    <2>7. w % SizeMod \in Nat /\ (w % SizeMod) % SizeMod = w % SizeMod
      BY ModTwice
    <2>8. PICK v \in Nat : v = w % SizeMod /\ v % SizeMod = w % SizeMod
      BY <2>7
    <2>9. (v + x) % SizeMod = (w + x) % SizeMod
      BY <2>8, ModGrow
    <2>10. osize'[o] = v /\ csize'[o] = x /\ arg' = (v + x) % SizeMod
      BY <1>3, <1>4, <2>6, <2>8
    <2>11. ((v + x) % SizeMod) % SizeMod = (v + x) % SizeMod
      BY ModTwice
    <2>12. Total' = Total
      BY <1>3, TotalFixed
    <2> QED BY <2>6, <2>9, <2>10, <2>11, <2>12 DEF Summed
  <1>11. AllSummed'
    <2> SUFFICES ASSUME NEW p \in Obj, resolved'[p], ~OnStack(p)', Clean(p)'
                 PROVE  Summed(p)'
      BY DEF AllSummed
    <2>1. Clean(p)
      BY <1>3, TotalFixed
    <2>2. CASE p = o
      BY <1>10, <2>1, <2>2
    <2>3. CASE p # o
      <3>1. ~OnStack(p)
        BY <1>1, <1>2, <1>6, <2>3 DEF OnStack
      <3>2. Summed(p)
        BY <1>3, <2>1, <3>1 DEF SInv, AllSummed
      <3> QED BY <1>3, <1>5, <2>3, <3>2, TotalFixed DEF Summed
    <2> QED BY <2>2, <2>3
  <1>12. FramesAdded'
    <2> SUFFICES ASSUME NEW k \in 1..Len(stack')
                 PROVE  \E f, b : f = stack'[k] /\ b = Waiting(k)' /\ Added(f, b)'
      BY DEF FramesAdded, Added, Own, Passed
    <2>1. k + 1 \in 1..Len(stack) /\ stack'[k] = stack[k + 1] /\ k + 1 > 1
      BY <1>6
    <2>2. PICK f, b : f = stack[k + 1] /\ b = Waiting(k + 1) /\ b = Waiting(k)'
      BY <1>3, <2>1 DEF Waiting
    <2>3. Added(f, b)'
      BY <1>3, <2>1, <2>2, AddedStays DEF SInv, FramesAdded
    <2> QED BY <2>1, <2>2, <2>3
  <1>13. Returned'
    <2> SUFFICES ASSUME stack' # <<>>, NEW f, f = Top', Clean(f.obj)
                 PROVE  arg' % SizeMod = Total[Target(f.obj, f.i)] % SizeMod
      BY <1>3, <1>7, TotalFixed DEF Returned
    <2>1. 1 \in 1..Len(stack') /\ f = stack'[1]
      <3>1. stack' \in Seq(Frame)
        BY <1>1, <1>3, PopSeq
      <3> QED BY <3>1, PopSeq DEF Top
    <2>2. f = stack[2] /\ 2 \in 2..Len(stack) /\ f \in Frame
      BY <1>1, <1>6, <2>1
    <2>3. o = Target(f.obj, f.i)
      BY <1>1, <1>2, <2>2 DEF SInv, Chained
    <2>4. Waits(f)
      BY <2>2 DEF IInv, FramesWait
    <2>5. f.obj \in Obj /\ o \in Succ(f.obj)
      BY <2>2, <2>3, <2>4 DEF Frame, Waits, Succ, Refs
    <2>6. Clean(o)
      BY <2>5, CleanBelow
    <2> QED BY <1>10, <2>3, <2>6
  <1> QED BY <1>8, <1>9, <1>11, <1>12, <1>13 DEF SInv

\* Back in the loop: the total of the object referred to is added to csize.
LEMMA ReturnToFrameSInv ==
    ASSUME IInv, SInv, ReturnToFrame
    PROVE  SInv'
  <1>1. /\ TypeOK /\ stack # <<>> /\ Top \in Frame /\ Top.obj \in Obj /\ Top.i \in Nat \ {0}
        /\ Top.size \in Nat /\ Count(Top.obj) \in Nat /\ stack \in Seq(Frame) /\ Open(Top)
        /\ arg \in Nat
    BY TopFacts DEF ReturnToFrame, TypeOK
  <1>2. PICK o \in Obj, i \in Nat \ {0} : o = Top.obj /\ i = Top.i
    BY <1>1
  <1>3. /\ UNCHANGED <<heap, resolved, osize>> /\ pc = "ret" /\ pc' = "loop"
        /\ csize'[o] = (csize[o] + arg) % SizeMod
        /\ \A p \in Obj : p # o => csize'[p] = csize[p]
    BY <1>1, <1>2 DEF ReturnToFrame, fixed, TypeOK
  <1>4. i \in 1..Count(o) /\ Refers(o, i)
    BY <1>1, <1>2, <1>3, TopWaits
  <1>5. PICK g \in Frame : g = [obj |-> o, i |-> i + 1, size |-> Top.size]
    BY <1>1, NextFrame
  <1>6. stack' = SetTop(g) /\ g.obj = o /\ g.i - 1 = i /\ g.size = Top.size
    BY <1>2, <1>5 DEF ReturnToFrame, Advanced
  <1>7. PICK b : b = (pc' \in {"call", "ret", "segv"}) /\ b = FALSE
    <2>1. (pc' \in {"call", "ret", "segv"}) = FALSE
      BY <1>3
    <2> QED BY <2>1
  <1>8. ASSUME Clean(o)
        PROVE  (Own(g) + csize'[o]) % SizeMod = Passed(g, b) % SizeMod
    <2>1. (pc \in {"call", "ret", "segv"}) = TRUE
      BY <1>3
    <2>2. PICK c : c = (pc \in {"call", "ret", "segv"}) /\ c = TRUE
      BY <2>1
    <2>3. /\ csize[o] \in Nat /\ Own(Top) \in Nat /\ Sums(o, Total)[i - 1] \in Nat
          /\ (Own(Top) + csize[o]) % SizeMod = Passed(Top, c) % SizeMod /\ IdSize \in Nat
      BY <1>1, <1>2, <1>8, <2>2, TopSums
    <2>4. /\ Sums(o, Total)[i] = Sums(o, Total)[i - 1] + Bytes(o, i) + Total[Target(o, i)]
          /\ Bytes(o, i) \in Nat /\ Total[Target(o, i)] \in Nat
      BY <1>1, <1>4, <1>8, CleanSums
    <2>5. PICK s, y, x, t, w \in Nat : /\ s = Sums(o, Total)[i - 1] /\ y = Bytes(o, i)
                                       /\ x = csize[o] /\ t = Total[Target(o, i)] /\ w = Own(Top)
      BY <2>3, <2>4
    <2>6. Passed(g, b) = (s + y) + t
      <3>1. Sums(o, Total)[i] = (s + y) + t
        BY <2>4, <2>5
      <3> QED BY <1>6, <1>7, <3>1 DEF Passed
    <2>7. arg % SizeMod = t % SizeMod
      BY <1>1, <1>2, <1>3, <1>8, <2>5 DEF SInv, Returned
    <2>8. heap[o].htype # "varray"
      BY <1>1, <1>2 DEF Open
    <2>9. heap[o] \in HObject
      BY <1>1, HeapFacts
    <2>10. PICK z \in Nat : Own(g) = z /\ (z + x) % SizeMod = (s + y) % SizeMod
      <3>1. CASE heap[o].htype = "instance"
        <4>1. Own(g) = w /\ Passed(Top, c) = s + y
          BY <1>2, <1>6, <2>2, <2>5, <3>1 DEF Own, Passed
        <4> QED BY <2>3, <2>5, <4>1
      <3>2. CASE heap[o].htype = "oarray"
        <4>1. y = IdSize
          BY <2>5, <3>2 DEF Bytes, ftype, Width, FType, RefType
        <4>2. w = (i - 1) * y /\ Own(g) = i * y /\ Passed(Top, c) = s + 0
          BY <1>2, <1>6, <2>5, <3>2, <4>1 DEF Own, Passed
        <4>3. i * y = w + y
          BY <4>2
        <4>4. PICK u \in Nat : u = w + x /\ u % SizeMod = s % SizeMod
          BY <2>3, <2>5, <4>2
        <4>5. (u + y) % SizeMod = (s + y) % SizeMod
          <5>1. u \in Int /\ s \in Int /\ y \in Int
            OBVIOUS
          <5> QED BY <4>4, <5>1, ModGrow
        <4>6. Own(g) = w + y /\ (w + y) + x = u + y
          BY <4>2, <4>3, <4>4
        <4> QED BY <4>5, <4>6
      <3> QED BY <2>8, <2>9, <3>1, <3>2 DEF HObject
    <2>11. PICK a, d \in Nat : a = z + x /\ d = s + y /\ a % SizeMod = d % SizeMod
      BY <2>10
    <2>12. PICK r \in Nat : r = arg /\ r % SizeMod = t % SizeMod
      BY <1>1, <2>7
    <2>13. (a + r) % SizeMod = (d + t) % SizeMod
      BY <2>11, <2>12, ModAdd
    <2>14. PICK e, q \in Nat : /\ e = x + r /\ q = e % SizeMod /\ q % SizeMod = e % SizeMod
                               /\ csize'[o] = q
      <3>1. PICK e \in Nat : e = x + r
        OBVIOUS
      <3>2. e % SizeMod \in Nat /\ (e % SizeMod) % SizeMod = e % SizeMod
        BY ModTwice
      <3>3. csize'[o] = e % SizeMod
        BY <1>3, <2>5, <2>12, <3>1
      <3> QED BY <3>1, <3>2, <3>3
    <2>15. (q + z) % SizeMod = (e + z) % SizeMod
      <3>1. q \in Int /\ e \in Int /\ z \in Int
        OBVIOUS
      <3>2. q % SizeMod = e % SizeMod
        BY <2>14
      <3> QED BY <3>1, <3>2, ModGrow
    <2>16. q + z = Own(g) + csize'[o] /\ e + z = a + r
      BY <2>10, <2>11, <2>14
    <2>17. Passed(g, b) = d + t
      BY <2>6, <2>11
    <2> QED BY <2>13, <2>15, <2>16, <2>17
  <1>9. Added(g, b)'
    BY <1>3, <1>6, <1>8, AddedNext
  <1>10. Len(stack') = Len(stack) /\ stack'[1] = g /\ \A k \in 2..Len(stack) : stack'[k] = stack[k]
    BY <1>1, <1>6, SetTopSeq DEF SetTop
  <1>11. Chained' /\ NotYet' /\ AllSummed' /\ FramesAdded'
    BY <1>1, <1>2, <1>3, <1>6, <1>7, <1>9, <1>10, TurnSums
  <1> QED BY <1>3, <1>11 DEF SInv, Returned

\* Before the first call nothing is added.
LEMMA InitSInv == Init => SInv
  <1> SUFFICES ASSUME Init PROVE SInv
    OBVIOUS
  <1>1. stack = <<>> /\ Len(stack) = 0 /\ pc = "drive" /\ \A o \in Obj : ~resolved[o] /\ csize[o] = 0
    BY DEF Init
  <1> QED BY <1>1 DEF SInv, Chained, NotYet, AllSummed, FramesAdded, Returned

\* The invariant of the sums.
THEOREM SumsInvariance == Spec => [](IInv /\ SInv)
  <1>1. IInv /\ SInv /\ [Next]_vars => (IInv /\ SInv)'
    <2> SUFFICES ASSUME IInv, SInv, [Next]_vars PROVE SInv'
      BY NextIInv
    <2> QED BY DriveSInv, CallResolvedSInv, CallLeafSInv, CallSInv, LoadFieldSInv,
               LoadElementSInv, FinishSInv, ReturnToFrameSInv DEF Next
  <1> QED BY <1>1, InitIInv, InitSInv, PTL DEF Spec

\* TotalsExact: at the end, osize + csize of every resolved object below which there is
\* neither a cycle, an empty array nor a float field is its own bytes and the total of
\* every object it refers to, however the calls of resolveInstance were nested and
\* whichever of them found the object resolved already.
THEOREM TotalsRight == Spec => []TotalsExact
  <1>1. ASSUME IInv, SInv PROVE TotalsExact
    <2> SUFFICES ASSUME pc = "done", NEW o \in Obj, resolved[o], Clean(o)
                 PROVE  Summed(o)
      BY DEF TotalsExact, Summed
    <2>1. ~OnStack(o)
      BY <1>1 DEF IInv, Control, OnStack
    <2> QED BY <1>1, <2>1 DEF SInv, AllSummed
  <1> QED BY <1>1, SumsInvariance, PTL
=============================================================================
