------------------------ MODULE InstanceResolverProof ------------------------
(***************************************************************************)
(* Proofs about InstanceResolver for every heap, every class layout and    *)
(* every number of objects: the walk never re-enters an open frame, and an *)
(* object whose call has returned is loaded from its own bytes, with every *)
(* object it refers to entered.                                            *)
(*                                                                         *)
(* Neither fact is inductive alone.  IInv adds what is true of the frames  *)
(* that are still open: how far each has got, and that each frame below    *)
(* the innermost waits for the object its current value refers to.         *)
(***************************************************************************)
EXTENDS InstanceResolver, CommonLemmas

Control ==
    /\ pc \in {"drive", "done"} => stack = <<>>
    /\ pc = "loop" => stack # <<>>

\* The state of a call that has entered its loop.
Open(f) ==
    /\ resolved[f.obj]
    /\ heap[f.obj].htype # "varray"
    /\ Len(hvalues[f.obj]) = Count(f.obj)
    /\ f.i <= Count(f.obj) + 1
    /\ LoadedUpTo(f.obj, f.i - 1)
    /\ heap[f.obj].htype = "oarray" =>
          \A j \in 1..Count(f.obj) : hvalues[f.obj][j] = heap[f.obj].body[j]
    /\ heap[f.obj].htype = "instance" =>
          \A j \in 1..Count(f.obj) : ~IsRead(f.obj, j) => hvalues[f.obj][j] = Unread

\* The state of a call that waits for a nested one.
Waits(f) ==
    /\ f.i <= Count(f.obj)
    /\ Refers(f.obj, f.i)
    /\ hvalues[f.obj][f.i] = Target(f.obj, f.i)

FramesOpen == \A k \in 1..Len(stack) : Open(stack[k])

FramesWait ==
    \A k \in 1..Len(stack) :
       (k > 1 \/ pc \in {"call", "ret", "segv"}) => Waits(stack[k])

Entered ==
    \A k \in 1..Len(stack) :
       (k > 1 \/ pc = "ret") => resolved[Target(stack[k].obj, stack[k].i)]

CallPending ==
    pc = "call" /\ stack # <<>> => arg = Target(stack[1].obj, stack[1].i)

IInv ==
    /\ TypeOK
    /\ Control
    /\ NoReentry
    /\ FramesOpen
    /\ FramesWait
    /\ Entered
    /\ CallPending
    /\ ResolvedIsLoaded

-----------------------------------------------------------------------------
\* The heap is well formed, and what the loops index exists.
LEMMA HeapFacts ==
    ASSUME TypeOK, NEW o \in Obj
    PROVE  /\ heap[o] \in HObject
           /\ Count(o) \in Nat
           /\ \A i \in 1..Count(o) :
                 /\ Slot(o, i) \in 1..Len(heap[o].body)
                 /\ heap[o].body[Slot(o, i)] \in Nat
                 /\ CellAt(<<o, Slot(o, i)>>) = heap[o].body[Slot(o, i)]
                 /\ ftype(o, i) \in FType
                 /\ Width[ftype(o, i)] \in Nat
  <1>1. heap \in [Obj -> HObject] /\ WellFormedHeap(heap)
    BY HeapsAssumption DEF TypeOK, WellFormedHeap
  <1>2. /\ heap[o] \in HObject
        /\ Fields[heap[o].class] \in Seq(FieldInfo)
        /\ ElemType[heap[o].class] \in FType
        /\ heap[o].body \in Seq(Nat)
    BY <1>1, FieldsAssumption DEF HObject
  <1>3. Count(o) \in Nat
    BY <1>2 DEF Count
  <1>4. \A t \in FType : Width[t] \in Nat
    BY SizeAssumption DEF Width, FType, RefType
  <1>5. ASSUME NEW i \in 1..Count(o)
        PROVE  Slot(o, i) \in 1..Len(heap[o].body) /\ ftype(o, i) \in FType
    <2>1. CASE heap[o].htype = "instance"
      <3>1. i \in 1..Len(Fields[heap[o].class])
        BY <1>5, <2>1 DEF Count
      <3>2. Fields[heap[o].class][i] \in FieldInfo
        BY <1>2, <3>1, SeqElement
      <3>3. Fields[heap[o].class][i].slot \in 1..Len(heap[o].body)
        BY <1>1, <2>1, <3>1 DEF WellFormedHeap
      <3> QED BY <2>1, <3>2, <3>3 DEF Slot, ftype, FieldInfo
    <2>2. CASE heap[o].htype # "instance"
      BY <1>2, <1>5, <2>2 DEF Count, Slot, ftype, FType
    <2> QED BY <2>1, <2>2
  <1> QED BY <1>2, <1>3, <1>4, <1>5 DEF CellAt

\* A value once loaded stays loaded while the object's values do not change
\* and no object loses its mark.
LEMMA LoadedStable ==
    ASSUME NEW o, NEW n, heap' = heap, hvalues'[o] = hvalues[o],
           \A p \in Obj : resolved[p] => resolved'[p],
           LoadedUpTo(o, n)
    PROVE  LoadedUpTo(o, n)'
  BY DEF LoadedUpTo, Expected, IsRead, Refers, ftype, Slot, Count

\* The same for every value of an object at once.
LEMMA LoadedAllStable ==
    ASSUME NEW o, heap' = heap, hvalues'[o] = hvalues[o],
           \A p \in Obj : resolved[p] => resolved'[p],
           LoadedUpTo(o, Count(o))
    PROVE  LoadedUpTo(o, Count(o))'
  <1>1. PICK n : n = Count(o)
    OBVIOUS
  <1>2. LoadedUpTo(o, n)' /\ n = Count(o)'
    BY <1>1, LoadedStable DEF Count
  <1> QED BY <1>2 DEF LoadedUpTo

\* So an open frame stays open, and a waiting one goes on waiting.
LEMMA FrameStable ==
    ASSUME NEW f, heap' = heap, hvalues'[f.obj] = hvalues[f.obj],
           f.obj \in Obj, \A p \in Obj : resolved[p] => resolved'[p]
    PROVE  /\ Open(f) => Open(f)'
           /\ Waits(f) => Waits(f)'
           /\ Target(f.obj, f.i)' = Target(f.obj, f.i)
           /\ Count(f.obj)' = Count(f.obj)
  <1>1. LoadedUpTo(f.obj, f.i - 1) => LoadedUpTo(f.obj, f.i - 1)'
    BY LoadedStable
  <1> QED
    BY <1>1 DEF Open, Waits, Count, Refers, Target, Slot, ftype, IsRead
\* The frames stay as they are when neither they nor the objects change.
LEMMA FramesStable ==
    ASSUME IInv, UNCHANGED <<heap, hvalues, resolved, stack>>
    PROVE  /\ NoReentry'
           /\ FramesOpen'
           /\ ResolvedIsLoaded'
           /\ \A k \in 1..Len(stack) :
                 /\ Waits(stack[k])' = Waits(stack[k])
                 /\ Target(stack[k].obj, stack[k].i)' = Target(stack[k].obj, stack[k].i)
  <1>1. NoReentry'
    BY DEF IInv, NoReentry
  <1>2. \A o : Count(o)' = Count(o)
    BY DEF Count
  <1>3. \A o, i : /\ Slot(o, i)' = Slot(o, i)
                  /\ ftype(o, i)' = ftype(o, i)
    BY DEF Slot, ftype
  <1>4. \A o, n : LoadedUpTo(o, n)' = LoadedUpTo(o, n)
    BY <1>3 DEF LoadedUpTo, Expected, Refers, IsRead
  <1>5. FramesOpen'
    BY <1>2, <1>3, <1>4 DEF IInv, FramesOpen, Open, IsRead
  <1>6. ResolvedIsLoaded'
    BY <1>2, <1>4 DEF IInv, ResolvedIsLoaded, OnStack
  <1> QED
    BY <1>1, <1>2, <1>3, <1>5, <1>6 DEF Waits, Refers, Target

-----------------------------------------------------------------------------
\* hprof_resolve_instances starts with no frame, nothing resolved and no value stored.
LEMMA InitIInv == Init => IInv
  <1> SUFFICES ASSUME Init PROVE IInv
    OBVIOUS
  <1>1. TypeOK
    <2>1. heap \in Heaps /\ resolved \in [Obj -> BOOLEAN] /\ todo \subseteq Obj
      BY DEF Init
    <2>2. hvalues \in [Obj -> Seq(Nat \cup {Unread})] /\ csize \in [Obj -> Nat]
      BY DEF Init
    <2>3. osize \in [Obj -> Nat]
      BY SizeAssumption DEF Init
    <2>4. children \in [Class -> Seq([child : Class, count : Nat])]
      BY DEF Init
    <2>5. arcs \in Seq(Class \X Class) /\ stack \in Seq(Frame)
      BY DEF Init
    <2> QED BY <2>1, <2>2, <2>3, <2>4, <2>5 DEF Init, TypeOK
  <1>2. Len(stack) = 0
    BY DEF Init
  <1> QED
    BY <1>1, <1>2 DEF Init, IInv, Control, NoReentry, FramesOpen, FramesWait,
                      Entered, CallPending, ResolvedIsLoaded

\* The loop of hprof_resolve_instances opens no frame: it only names the next object to call for.
LEMMA DriveIInv == IInv /\ (Drive \/ DriveEnd \/ ReturnToDriver) => IInv'
  <1> SUFFICES ASSUME IInv, Drive \/ DriveEnd \/ ReturnToDriver PROVE IInv'
    OBVIOUS
  <1>1. /\ UNCHANGED <<heap, hvalues, resolved, stack>>
        /\ stack = <<>>
        /\ pc' \in {"drive", "call", "done"}
    BY DEF IInv, Control, Drive, DriveEnd, ReturnToDriver, fixed, objVars
  <1>2. TypeOK'
    <2>1. CASE Drive
      <3>1. PICK o \in todo : todo' = todo \ {o} /\ arg' = o
        BY <2>1 DEF Drive
      <3>2. arg' \in Obj /\ arg' \in Nat /\ todo' \subseteq Obj
        BY <3>1, ObjAssumption DEF IInv, TypeOK
      <3> QED
        BY <2>1, <3>2 DEF IInv, TypeOK, Drive, fixed, objVars, arcVars
    <2>2. CASE DriveEnd
      BY <2>2 DEF IInv, TypeOK, DriveEnd, fixed, objVars, arcVars
    <2>3. CASE ReturnToDriver
      BY <2>3 DEF IInv, TypeOK, ReturnToDriver, fixed, objVars, arcVars
    <2> QED BY <2>1, <2>2, <2>3
  <1>3. Len(stack') = 0
    BY <1>1
  <1> QED
    BY <1>1, <1>2, <1>3, FramesStable
    DEF IInv, Control, FramesWait, Entered, CallPending

\* The innermost frame waited for arg, which is resolved.
LEMMA CallResolvedIInv == IInv /\ CallResolved => IInv'
  <1> SUFFICES ASSUME IInv, CallResolved PROVE IInv'
    OBVIOUS
  <1>1. UNCHANGED <<heap, hvalues, resolved, stack>>
    BY DEF CallResolved, fixed, objVars
  <1>2. TypeOK'
    <2>1. arg \in Obj /\ osize[arg] \in Nat /\ csize[arg] \in Nat
      BY DEF IInv, TypeOK, CallResolved
    <2>2. arg' \in Nat /\ pc' = "ret"
      BY <2>1, SizeAssumption DEF CallResolved
    <2> QED BY <2>2 DEF IInv, TypeOK, CallResolved, fixed, objVars, arcVars
  <1>3. FramesWait'
    BY <1>1, FramesStable DEF IInv, FramesWait, CallResolved
  <1>4. Entered'
    <2> SUFFICES ASSUME NEW k \in 1..Len(stack)
                 PROVE  resolved[Target(stack[k].obj, stack[k].i)]
      BY <1>1, FramesStable DEF Entered
    <2>1. CASE k > 1
      BY <2>1 DEF IInv, Entered
    <2>2. CASE k = 1
      BY <2>2 DEF IInv, CallPending, CallResolved, TypeOK
    <2> QED BY <2>1, <2>2
  <1> QED
    BY <1>1, <1>2, <1>3, <1>4, FramesStable
    DEF IInv, Control, CallPending, CallResolved

\* A return that follows a wild children pointer changes neither frames nor values.
LEMMA SegvIInv == IInv /\ (ReturnSegv \/ Terminated \/ UNCHANGED vars) => IInv'
  <1> SUFFICES ASSUME IInv, ReturnSegv \/ Terminated \/ UNCHANGED vars PROVE IInv'
    OBVIOUS
  <1>1. UNCHANGED <<heap, hvalues, resolved, stack>>
    BY DEF ReturnSegv, Terminated, vars, fixed, objVars
  <1>2. TypeOK'
    BY DEF IInv, TypeOK, ReturnSegv, Terminated, vars, fixed, objVars, arcVars
  <1>3. \/ pc = "ret" /\ pc' = "segv"
        \/ pc' = pc /\ arg' = arg
    BY DEF ReturnSegv, Terminated, vars
  <1>4. FramesWait' /\ Entered' /\ CallPending'
    <2>1. FramesWait'
      BY <1>1, <1>3, FramesStable DEF IInv, FramesWait
    <2>2. Entered'
      BY <1>1, <1>3, FramesStable DEF IInv, Entered
    <2>3. CallPending'
      <3>1. SUFFICES ASSUME pc' = "call", stack # <<>>
                     PROVE  arg' = Target(stack[1].obj, stack[1].i)'
        BY <1>1 DEF CallPending
      <3>2. 1 \in 1..Len(stack)
        BY <3>1 DEF IInv, TypeOK
      <3> QED BY <1>1, <1>3, <3>1, <3>2, FramesStable DEF IInv, CallPending
    <2> QED BY <2>1, <2>2, <2>3
  <1> QED
    BY <1>1, <1>2, <1>3, <1>4, FramesStable DEF IInv, Control
-----------------------------------------------------------------------------
\* A call that marks arg and changes nobody else's values keeps every frame:
\* arg was not resolved, so it is not the object of an open frame.
LEMMA EnterKeepsFrames ==
    ASSUME IInv, pc = "call", ~resolved[arg], heap' = heap,
           resolved' = [resolved EXCEPT ![arg] = TRUE],
           \A o \in Obj \ {arg} : hvalues'[o] = hvalues[o]
    PROVE  /\ resolved'[arg]
           /\ \A p \in Obj : resolved[p] => resolved'[p]
           /\ \A k \in 1..Len(stack), f \in Frame : f = stack[k] =>
                 /\ f.obj # arg
                 /\ Open(f)'
                 /\ Waits(f)'
                 /\ resolved'[Target(f.obj, f.i)']
           /\ \A o \in Obj \ {arg} :
                 resolved'[o] /\ ~OnStack(o) => LoadedUpTo(o, Count(o))'
  <1>1. resolved'[arg] /\ \A p \in Obj : resolved[p] => resolved'[p]
    BY DEF IInv, TypeOK
  <1>2. ASSUME NEW k \in 1..Len(stack), NEW f \in Frame, f = stack[k]
        PROVE  /\ f.obj # arg
               /\ Open(f)'
               /\ Waits(f)'
               /\ resolved'[Target(f.obj, f.i)']
    <2>2. f.obj # arg /\ Open(f) /\ f.obj \in Obj
      BY <1>2 DEF IInv, FramesOpen, Open, Frame
    <2>3. Waits(f)
      BY <1>2 DEF IInv, FramesWait
    <2>4. /\ Open(f)'
          /\ Waits(f)'
          /\ Target(f.obj, f.i)' = Target(f.obj, f.i)
      BY <1>1, <2>2, <2>3, FrameStable
    <2>5. Target(f.obj, f.i) \in Obj
      BY <2>3 DEF Waits, Refers, Target
    <2>6. resolved'[Target(f.obj, f.i)]
      <3>1. CASE k > 1
        BY <1>2, <3>1, <1>1, <2>5 DEF IInv, Entered
      <3>2. CASE k = 1
        BY <1>2, <3>2, <1>1 DEF IInv, CallPending, TypeOK
      <3> QED BY <3>1, <3>2
    <2> QED BY <2>2, <2>4, <2>6
  <1>3. ASSUME NEW o \in Obj \ {arg}, resolved'[o], ~OnStack(o)
        PROVE  LoadedUpTo(o, Count(o))'
    <2>1. resolved[o]
      BY <1>3 DEF IInv, TypeOK
    <2>2. LoadedUpTo(o, Count(o))
      BY <1>3, <2>1 DEF IInv, ResolvedIsLoaded
    <2> QED BY <1>1, <2>2, LoadedAllStable
  <1> QED BY <1>1, <1>2, <1>3

\* A call on a string, a class or a primitive array resolves it at once and opens no frame.
LEMMA CallLeafIInv == IInv /\ CallLeaf => IInv'
  <1> SUFFICES ASSUME IInv, CallLeaf PROVE IInv'
    OBVIOUS
  <1>1. /\ arg \in Obj /\ arg \in Nat
        /\ heap[arg] \in HObject /\ Count(arg) \in Nat
        /\ stack \in Seq(Frame)
        /\ hvalues \in [Obj -> Seq(Nat \cup {Unread})]
    BY ObjAssumption, HeapFacts DEF IInv, TypeOK, CallLeaf
  <1>2. /\ heap' = heap /\ stack' = stack /\ pc' = "ret"
        /\ resolved' = [resolved EXCEPT ![arg] = TRUE]
        /\ \A o \in Obj \ {arg} : hvalues'[o] = hvalues[o]
        /\ heap[arg].htype # "instance"
    BY <1>1 DEF CallLeaf, fixed
  <1> DEFINE size == (Count(arg) * ElemWidth[ElemType[heap[arg].class]]) % SizeMod
             hv   == [i \in 1..Count(arg) |->
                        IF IsRead(arg, i) THEN CellAt(<<arg, i>>) ELSE Unread]
             cell == IF ElemType[heap[arg].class] \in {"F", "D"} THEN 1 ELSE Count(arg) + 1
  <1>0. \/ Count(arg) = 0 /\ arg' = 0 /\ UNCHANGED <<fin, hvalues, osize>>
        \/ /\ heap[arg].htype = "varray" /\ Count(arg) > 0
           /\ osize' = [osize EXCEPT ![arg] = size] /\ arg' = size
           /\ fin' = <<arg, cell>>
           /\ hvalues' = [hvalues EXCEPT ![arg] = hv]
    BY DEF CallLeaf
  <1> HIDE DEF size, cell
  <1>3. /\ resolved'[arg]
        /\ \A k \in 1..Len(stack), f \in Frame : f = stack[k] =>
              /\ Open(f)'
              /\ Waits(f)'
              /\ resolved'[Target(f.obj, f.i)']
        /\ \A o \in Obj \ {arg} :
              resolved'[o] /\ ~OnStack(o) => LoadedUpTo(o, Count(o))'
    BY <1>2, EnterKeepsFrames DEF CallLeaf
  <1>4. \A k \in 1..Len(stack) : stack[k] \in Frame
    BY <1>1
  <1>5. FramesOpen' /\ FramesWait' /\ Entered'
    BY <1>2, <1>3, <1>4 DEF FramesOpen, FramesWait, Entered
  <1>6. ResolvedIsLoaded'
    <2>1. ASSUME NEW o \in Obj, o = arg
          PROVE  LoadedUpTo(o, Count(o))'
      <3>1. Count(o)' = Count(o)
        BY <1>2 DEF Count
      <3>2. CASE Count(o) = 0
        BY <3>1, <3>2 DEF LoadedUpTo
      <3>3. CASE Count(o) # 0
        <4>1. /\ heap[o].htype = "varray"
              /\ hvalues'[o] = [i \in 1..Count(o) |->
                                  IF IsRead(o, i) THEN CellAt(<<o, i>>) ELSE Unread]
          BY <1>0, <1>1, <2>1, <3>3
        <4>2. \A i \in 1..Count(o) : /\ Slot(o, i) = i
                                     /\ CellAt(<<o, i>>) = heap[o].body[i]
          BY <4>1, HeapFacts DEF Slot, IInv
        <4>3. \A i \in 1..Count(o) :
                 /\ i \in DOMAIN hvalues'[o]
                 /\ hvalues'[o][i] = Expected(o, i)
                 /\ ~Refers(o, i)
          BY <4>1, <4>2 DEF Expected, Refers
        <4> QED
          BY <1>2, <3>1, <4>3
          DEF LoadedUpTo, Expected, Refers, IsRead, ftype, Slot
      <3> QED BY <3>2, <3>3
    <2> QED BY <1>2, <1>3, <2>1 DEF ResolvedIsLoaded, OnStack
  <1>7. TypeOK'
    <2>1. resolved' \in [Obj -> BOOLEAN]
      BY <1>1, <1>2 DEF IInv, TypeOK
    <2>2. /\ fin' \in Nat \X Nat /\ osize' \in [Obj -> Nat]
          /\ hvalues' \in [Obj -> Seq(Nat \cup {Unread})] /\ arg' \in Nat
      <3>1. CASE UNCHANGED <<fin, hvalues, osize>> /\ arg' = 0
        BY <3>1 DEF IInv, TypeOK
      <3>2. CASE heap[arg].htype = "varray" /\ Count(arg) > 0
        <4>1. ElemType[heap[arg].class] \in FType
          BY <1>1, FieldsAssumption DEF HObject
        <4>2. ElemWidth[ElemType[heap[arg].class]] \in Nat
          BY <4>1, SizeAssumption DEF ElemWidth, Width, FType, RefType
        <4>3. size \in Nat
          BY <1>1, <4>2, SizeAssumption, SMTT(30) DEF size
        <4>4. osize' \in [Obj -> Nat] /\ arg' \in Nat
          BY <1>0, <1>1, <3>2, <4>3 DEF IInv, TypeOK
        <4>5. cell \in Nat
          BY <1>1 DEF cell
        <4>6. fin' \in Nat \X Nat
          BY <1>0, <1>1, <3>2, <4>5
        <4>7. ASSUME NEW i \in 1..Count(arg)
              PROVE  (IF IsRead(arg, i) THEN CellAt(<<arg, i>>) ELSE Unread)
                        \in Nat \cup {Unread}
          <5>1. Slot(arg, i) = i
            BY <3>2 DEF Slot
          <5>2. CellAt(<<arg, i>>) \in Nat
            BY <1>1, <5>1, HeapFacts DEF IInv
          <5> QED BY <5>2
        <4>8. hv \in [1..Count(arg) -> Nat \cup {Unread}]
          BY <4>7
        <4> HIDE DEF hv
        <4>9. hv \in Seq(Nat \cup {Unread})
          BY <1>1, <4>8, FunctionSeq
        <4>10. hvalues' \in [Obj -> Seq(Nat \cup {Unread})]
          BY <1>0, <1>1, <3>2, <4>9
        <4> QED BY <4>4, <4>6, <4>10
      <3> QED BY <1>0, <3>1, <3>2
    <2> QED BY <1>2, <2>1, <2>2 DEF IInv, TypeOK, CallLeaf, fixed, arcVars
  <1> QED
    BY <1>2, <1>5, <1>6, <1>7 DEF IInv, Control, NoReentry, CallPending

\* Both calls that enter a loop: arg is marked, its frame is pushed, and its
\* values are those already read.
LEMMA PushIInv ==
    ASSUME IInv, pc = "call", ~resolved[arg], heap' = heap,
           resolved' = [resolved EXCEPT ![arg] = TRUE],
           NEW hv \in [1..Count(arg) -> Nat \cup {Unread}],
           hvalues' = [hvalues EXCEPT ![arg] = hv],
           heap[arg].htype # "varray",
           heap[arg].htype = "oarray" =>
              \A j \in 1..Count(arg) : hv[j] = heap[arg].body[j],
           heap[arg].htype = "instance" => \A j \in 1..Count(arg) : hv[j] = Unread,
           Push(arg), pc' = "loop", TypeOK'
    PROVE  IInv'
  <1> DEFINE g == [obj |-> arg, i |-> 1, size |-> 0]
  <1>1. /\ arg \in Obj /\ Count(arg) \in Nat
        /\ stack \in Seq(Frame) /\ g \in Frame
        /\ hvalues \in [Obj -> Seq(Nat \cup {Unread})]
    <2>1. arg \in Obj /\ TypeOK
      BY DEF IInv, TypeOK
    <2>2. g \in Frame
      BY <2>1 DEF Frame
    <2>3. stack \in Seq(Frame) /\ hvalues \in [Obj -> Seq(Nat \cup {Unread})]
      BY DEF IInv, TypeOK
    <2> QED BY <2>1, <2>2, <2>3, HeapFacts
  <1>2. /\ hvalues'[arg] = hv /\ Len(hv) = Count(arg)
        /\ \A o \in Obj \ {arg} : hvalues'[o] = hvalues[o]
    BY <1>1, FunctionSeq
  <1>3. /\ resolved'[arg]
        /\ \A k \in 1..Len(stack), f \in Frame : f = stack[k] =>
              /\ f.obj # arg
              /\ Open(f)'
              /\ Waits(f)'
              /\ resolved'[Target(f.obj, f.i)']
        /\ \A o \in Obj \ {arg} :
              resolved'[o] /\ ~OnStack(o) => LoadedUpTo(o, Count(o))'
    BY <1>2, EnterKeepsFrames
  <1> HIDE DEF g
  <1>4. stack' = <<g>> \o stack
    BY DEF Push, g
  <1>5. /\ Len(stack) \in Nat /\ Len(stack') = Len(stack) + 1
        /\ stack'[1] = g /\ g.obj = arg /\ g.i = 1
        /\ \A k \in 2..(Len(stack) + 1) : stack'[k] = stack[k - 1]
    BY <1>1, <1>4, PushSeq DEF g
  <1>6. \A k \in 1..Len(stack) : stack[k] \in Frame
    BY <1>1, SeqElement
  <1>7. ASSUME NEW k \in 2..Len(stack')
        PROVE  \E j \in 1..Len(stack) :
                  j = k - 1 /\ stack'[k] = stack[j] /\ stack[j] \in Frame
    <2>1. k \in 2..(Len(stack) + 1) /\ k - 1 \in 1..Len(stack)
      BY <1>5
    <2> QED BY <1>5, <1>6, <2>1
  <1>8. NoReentry'
    <2>1. ASSUME NEW j \in 2..Len(stack'), NEW k \in 2..Len(stack'),
                 stack'[j].obj = stack'[k].obj
          PROVE  j = k
      <3>1. /\ j - 1 \in 1..Len(stack) /\ k - 1 \in 1..Len(stack)
            /\ stack'[j] = stack[j - 1] /\ stack'[k] = stack[k - 1]
        BY <1>7
      <3>2. j - 1 = k - 1
        BY <2>1, <3>1 DEF IInv, NoReentry
      <3> QED BY <3>2
    <2>2. \A k \in 2..Len(stack') : stack'[k].obj # stack'[1].obj
      BY <1>3, <1>5, <1>7
    <2> QED BY <1>5, <2>1, <2>2 DEF NoReentry
  <1>9. ASSUME NEW f \in Frame, f = g
        PROVE  Open(f)'
    <2>1. Count(f.obj)' = Count(arg)
      BY <1>5, <1>9 DEF Count
    <2>2. LoadedUpTo(f.obj, f.i - 1)'
      BY <1>5, <1>9 DEF LoadedUpTo
    <2> QED BY <1>1, <1>2, <1>3, <1>5, <1>9, <2>1, <2>2 DEF Open
  <1>10. FramesOpen'
    <2> SUFFICES ASSUME NEW k \in 1..Len(stack'), NEW f \in Frame, f = stack'[k]
                 PROVE  Open(f)'
      <3>1. ASSUME NEW k \in 1..Len(stack') PROVE stack'[k] \in Frame
        <4>1. CASE k = 1
          BY <1>1, <1>5, <4>1
        <4>2. CASE k \in 2..Len(stack')
          BY <1>7, <4>2
        <4> QED BY <1>5, <4>1, <4>2
      <3> QED BY <3>1 DEF FramesOpen
    <2>1. CASE k = 1
      BY <1>5, <1>9, <2>1
    <2>2. CASE k \in 2..Len(stack')
      BY <1>3, <1>7, <2>2
    <2> QED BY <1>5, <2>1, <2>2
  <1>11. FramesWait' /\ Entered'
    BY <1>3, <1>5, <1>7 DEF FramesWait, Entered
  <1>12. ResolvedIsLoaded'
    <2>1. ASSUME NEW o \in Obj, ~OnStack(o)'
          PROVE  o # arg /\ ~OnStack(o)
      <3>1. 1 \in 1..Len(stack') /\ stack'[1].obj = arg
        BY <1>5
      <3>2. \A k \in 1..Len(stack) : k + 1 \in 1..Len(stack') /\ stack'[k + 1] = stack[k]
        BY <1>5
      <3> QED BY <2>1, <3>1, <3>2 DEF OnStack
    <2> QED BY <1>3, <2>1 DEF ResolvedIsLoaded
  <1> QED
    BY <1>5, <1>8, <1>10, <1>11, <1>12 DEF IInv, Control, CallPending

\* A call on an object array or an instance opens a frame of an object that has none.
LEMMA CallIInv == IInv /\ (CallOArray \/ CallInstance) => IInv'
  <1> SUFFICES ASSUME IInv, CallOArray \/ CallInstance PROVE IInv'
    OBVIOUS
  <1>1. /\ arg \in Obj /\ arg \in Nat
        /\ Count(arg) \in Nat /\ heap[arg] \in HObject
        /\ stack \in Seq(Frame) /\ [obj |-> arg, i |-> 1, size |-> 0] \in Frame
        /\ hvalues \in [Obj -> Seq(Nat \cup {Unread})]
        /\ resolved \in [Obj -> BOOLEAN]
    <2>1. arg \in Obj /\ TypeOK
      BY DEF IInv, TypeOK, CallOArray, CallInstance
    <2>2. [obj |-> arg, i |-> 1, size |-> 0] \in Frame
      BY <2>1 DEF Frame
    <2>3. /\ stack \in Seq(Frame) /\ resolved \in [Obj -> BOOLEAN]
          /\ hvalues \in [Obj -> Seq(Nat \cup {Unread})]
      BY DEF IInv, TypeOK
    <2>4. arg \in Nat
      BY <2>1, ObjAssumption
    <2> QED BY <2>1, <2>2, <2>3, <2>4, HeapFacts
  <1>2. /\ pc = "call" /\ ~resolved[arg] /\ heap' = heap
        /\ resolved' = [resolved EXCEPT ![arg] = TRUE]
        /\ Push(arg) /\ pc' = "loop" /\ arg' = 0
        /\ UNCHANGED <<osize, csize, children, arcs, arcs_max, wild, ckey, todo>>
        /\ fin' = fin \/ fin' = <<arg, Count(arg) + 1>>
    BY DEF CallOArray, CallInstance, fixed, arcVars
  <1>3. PICK hv \in [1..Count(arg) -> Nat \cup {Unread}] :
           /\ hvalues' = [hvalues EXCEPT ![arg] = hv]
           /\ heap[arg].htype # "varray"
           /\ heap[arg].htype = "oarray" =>
                 \A j \in 1..Count(arg) : hv[j] = heap[arg].body[j]
           /\ heap[arg].htype = "instance" =>
                 \A j \in 1..Count(arg) : hv[j] = Unread
    <2>1. CASE CallInstance
      <3>1. [i \in 1..Count(arg) |-> Unread] \in [1..Count(arg) -> Nat \cup {Unread}]
        OBVIOUS
      <3>2. \A j \in 1..Count(arg) : [i \in 1..Count(arg) |-> Unread][j] = Unread
        OBVIOUS
      <3> QED BY <2>1, <3>1, <3>2 DEF CallInstance
    <2>2. CASE CallOArray
      <3>1. \A i \in 1..Count(arg) : /\ CellAt(<<arg, i>>) = heap[arg].body[i]
                                     /\ CellAt(<<arg, i>>) \in Nat
        BY <1>1, <2>2, HeapFacts DEF CallOArray, Slot, IInv
      <3>2. [i \in 1..Count(arg) |-> CellAt(<<arg, i>>)]
               \in [1..Count(arg) -> Nat \cup {Unread}]
        BY <3>1
      <3>3. \A j \in 1..Count(arg) :
               [i \in 1..Count(arg) |-> CellAt(<<arg, i>>)][j] = heap[arg].body[j]
        BY <3>1
      <3> QED BY <2>2, <3>2, <3>3 DEF CallOArray
    <2> QED BY <2>1, <2>2
  <1>4. TypeOK'
    <2>1. resolved' \in [Obj -> BOOLEAN]
      BY <1>1, <1>2
    <2>2. hvalues' \in [Obj -> Seq(Nat \cup {Unread})]
      BY <1>1, <1>3, FunctionSeq
    <2>3. stack' \in Seq(Frame)
      BY <1>1, <1>2, PushSeq DEF Push
    <2>4. fin' \in Nat \X Nat
      BY <1>1, <1>2 DEF IInv, TypeOK
    <2> QED BY <1>2, <2>1, <2>2, <2>3, <2>4 DEF IInv, TypeOK
  <1> QED BY <1>2, <1>3, <1>4, PushIInv
-----------------------------------------------------------------------------
\* The innermost frame.
LEMMA TopFacts ==
    ASSUME IInv, stack # <<>>
    PROVE  /\ TypeOK
           /\ stack \in Seq(Frame) /\ Len(stack) \in Nat /\ 1 \in 1..Len(stack)
           /\ Top = stack[1] /\ Top \in Frame
           /\ Top.obj \in Obj /\ Top.i \in Nat \ {0} /\ Top.size \in Nat
           /\ Open(Top)
           /\ Count(Top.obj) \in Nat
           /\ \A k \in 1..Len(stack) : stack[k] \in Frame
  <1>1. TypeOK /\ stack \in Seq(Frame)
    BY DEF IInv, TypeOK
  <1>2. Len(stack) \in Nat /\ 1 \in 1..Len(stack) /\ Top = stack[1] /\ Top \in Frame
    BY <1>1, PopSeq DEF Top
  <1>3. Top.obj \in Obj /\ Top.i \in Nat \ {0} /\ Top.size \in Nat
    BY <1>2 DEF Frame
  <1>4. Open(Top)
    BY <1>2 DEF IInv, FramesOpen
  <1> QED BY <1>1, <1>2, <1>3, <1>4, HeapFacts, SeqElement

\* A step of the innermost frame that keeps it open keeps the others: they are
\* frames of other objects.
LEMMA StepTop ==
    ASSUME IInv, stack # <<>>, NEW g \in Frame, g.obj = Top.obj,
           stack' = SetTop(g), heap' = heap, resolved' = resolved,
           \A o \in Obj \ {Top.obj} : hvalues'[o] = hvalues[o],
           Open(g)', pc' \in {"loop", "call"}, TypeOK',
           pc' = "call" => Waits(g)' /\ arg' = Target(g.obj, g.i)'
    PROVE  IInv'
  <1>1. /\ stack \in Seq(Frame) /\ Len(stack) \in Nat /\ 1 \in 1..Len(stack)
        /\ Top = stack[1] /\ \A k \in 1..Len(stack) : stack[k] \in Frame
    BY TopFacts
  <1>2. /\ Len(stack') = Len(stack) /\ stack'[1] = g
        /\ \A k \in 2..Len(stack) : stack'[k] = stack[k]
    BY <1>1, SetTopSeq DEF SetTop
  <1>3. \A k \in 1..Len(stack) : stack'[k].obj = stack[k].obj
    BY <1>1, <1>2
  <1>4. NoReentry'
    BY <1>2, <1>3 DEF IInv, NoReentry
  <1>5. ASSUME NEW k \in 2..Len(stack), NEW f \in Frame, f = stack'[k]
        PROVE  Open(f)' /\ Waits(f)' /\ resolved'[Target(f.obj, f.i)']
    <2>1. f = stack[k] /\ f.obj \in Obj /\ f.obj # Top.obj
      BY <1>1, <1>2, <1>5 DEF Frame, IInv, NoReentry
    <2>2. Open(f) /\ Waits(f) /\ resolved[Target(f.obj, f.i)]
      BY <2>1 DEF IInv, FramesOpen, FramesWait, Entered
    <2> QED BY <2>1, <2>2, FrameStable
  <1>6. \A k \in 2..Len(stack) : stack'[k] \in Frame
    BY <1>1, <1>2
  <1>7. FramesOpen'
    <2> SUFFICES ASSUME NEW k \in 1..Len(stack), NEW f \in Frame, f = stack'[k]
                 PROVE  Open(f)'
      BY <1>2, <1>6 DEF FramesOpen
    <2>1. CASE k = 1
      BY <1>2, <2>1
    <2>2. CASE k \in 2..Len(stack)
      BY <1>5, <2>2
    <2> QED BY <1>1, <2>1, <2>2
  <1>8. FramesWait'
    <2> SUFFICES ASSUME NEW k \in 1..Len(stack), NEW f \in Frame, f = stack'[k],
                        k > 1 \/ pc' = "call"
                 PROVE  Waits(f)'
      BY <1>2, <1>6 DEF FramesWait
    <2>1. CASE k = 1
      BY <1>2, <2>1
    <2>2. CASE k \in 2..Len(stack)
      BY <1>5, <2>2
    <2> QED BY <1>1, <2>1, <2>2
  <1>9. Entered'
    BY <1>1, <1>2, <1>5, <1>6 DEF Entered
  <1>10. CallPending'
    BY <1>2 DEF CallPending
  <1>11. ResolvedIsLoaded'
    <2> SUFFICES ASSUME NEW o \in Obj, resolved[o], ~OnStack(o)'
                 PROVE  LoadedUpTo(o, Count(o))'
      BY DEF ResolvedIsLoaded
    <2>1. ~OnStack(o) /\ o # Top.obj
      BY <1>1, <1>2, <1>3 DEF OnStack
    <2> QED BY <2>1, LoadedAllStable DEF IInv, ResolvedIsLoaded
  <1> QED
    BY <1>1, <1>2, <1>4, <1>7, <1>8, <1>9, <1>10, <1>11 DEF IInv, Control

\* A finished call leaves its object loaded, and the frame below goes on waiting for it.
LEMMA FinishIInv == IInv /\ Finish => IInv'
  <1> SUFFICES ASSUME IInv, Finish PROVE IInv'
    OBVIOUS
  <1>1. /\ TypeOK /\ stack \in Seq(Frame) /\ Len(stack) \in Nat /\ 1 \in 1..Len(stack)
        /\ Top = stack[1] /\ Top \in Frame
        /\ Top.obj \in Obj /\ Top.i \in Nat \ {0} /\ Top.size \in Nat
        /\ Open(Top) /\ Count(Top.obj) \in Nat
        /\ \A k \in 1..Len(stack) : stack[k] \in Frame
    BY TopFacts DEF Finish
  <1>2. /\ UNCHANGED <<heap, hvalues, resolved>> /\ pc' = "ret"
        /\ stack' = Tail(stack) /\ Top.i > Count(Top.obj)
    BY DEF Finish, fixed
  <1>3. /\ stack' \in Seq(Frame) /\ Len(stack') = Len(stack) - 1
        /\ \A k \in 1..Len(stack') : stack'[k] = stack[k + 1]
    BY <1>1, <1>2, PopSeq
  <1>4. TypeOK'
    <2> DEFINE size == (IF heap[Top.obj].htype = "oarray" THEN Count(Top.obj) * IdSize
                                                          ELSE Top.size) % SizeMod
    <2>1. size \in Nat
      BY <1>1, SizeAssumption
    <2>2. csize[Top.obj] \in Nat
      BY <1>1 DEF TypeOK
    <2>3. /\ osize' = [osize EXCEPT ![Top.obj] = size]
          /\ arg' = (size + csize[Top.obj]) % SizeMod
      BY DEF Finish
    <2> HIDE DEF size
    <2>4. osize' \in [Obj -> Nat] /\ arg' \in Nat
      <3>1. (size + csize[Top.obj]) % SizeMod \in Nat
        BY <2>1, <2>2, SizeAssumption
      <3> QED BY <1>1, <2>1, <2>3, <3>1 DEF TypeOK
    <2> QED BY <1>1, <1>2, <1>3, <2>4 DEF TypeOK, Finish, fixed, arcVars
  <1>5. NoReentry'
    <2> SUFFICES ASSUME NEW j \in 1..Len(stack'), NEW k \in 1..Len(stack'),
                        stack'[j].obj = stack'[k].obj
                 PROVE  j = k
      BY DEF NoReentry
    <2>1. j + 1 \in 1..Len(stack) /\ k + 1 \in 1..Len(stack)
      BY <1>1, <1>3
    <2>2. stack[j + 1].obj = stack[k + 1].obj
      BY <1>3
    <2>3. j + 1 = k + 1
      BY <2>1, <2>2 DEF IInv, NoReentry
    <2> QED BY <2>3
  <1>6. ASSUME NEW k \in 1..Len(stack'), NEW f \in Frame, f = stack'[k]
        PROVE  Open(f)' /\ Waits(f)' /\ resolved'[Target(f.obj, f.i)']
    <2>1. /\ k + 1 \in 1..Len(stack) /\ k + 1 > 1 /\ f = stack[k + 1]
          /\ f.obj \in Obj
      <3>1. k + 1 \in 1..Len(stack) /\ k + 1 > 1
        BY <1>1, <1>3
      <3>2. f = stack[k + 1]
        BY <1>3, <1>6
      <3> QED BY <3>1, <3>2 DEF Frame
    <2>2. Open(f) /\ Waits(f) /\ resolved[Target(f.obj, f.i)]
      BY <2>1 DEF IInv, FramesOpen, FramesWait, Entered
    <2> QED BY <1>2, <2>1, <2>2, FrameStable
  <1>7. \A k \in 1..Len(stack') : stack'[k] \in Frame
    BY <1>3, SeqElement
  <1>8. FramesOpen' /\ FramesWait' /\ Entered'
    BY <1>6, <1>7 DEF FramesOpen, FramesWait, Entered
  <1>9. ResolvedIsLoaded'
    <2> SUFFICES ASSUME NEW o \in Obj, resolved[o], ~OnStack(o)'
                 PROVE  LoadedUpTo(o, Count(o))'
      BY <1>2 DEF ResolvedIsLoaded
    <2>1. CASE o = Top.obj
      <3>1. LoadedUpTo(o, Top.i - 1) /\ Top.i - 1 = Count(o)
        BY <1>1, <1>2, <2>1 DEF Open
      <3> QED BY <1>2, <3>1, LoadedAllStable
    <2>2. CASE o # Top.obj
      <3>1. ASSUME NEW k \in 2..Len(stack)
            PROVE  k - 1 \in 1..Len(stack') /\ stack'[k - 1] = stack[k]
        <4>1. Len(stack) \in Nat /\ Len(stack') = Len(stack) - 1
          BY <1>1, <1>3
        <4>2. k - 1 \in 1..Len(stack') /\ (k - 1) + 1 = k
          BY <4>1
        <4>3. stack'[k - 1] = stack[(k - 1) + 1]
          BY <1>3, <4>2
        <4> QED BY <4>2, <4>3
      <3>2. ~OnStack(o)
        BY <1>1, <2>2, <3>1 DEF OnStack
      <3> QED BY <1>2, <3>2, LoadedAllStable DEF IInv, ResolvedIsLoaded
    <2> QED BY <2>1, <2>2
  <1> QED
    BY <1>2, <1>4, <1>5, <1>8, <1>9 DEF IInv, Control, CallPending

\* The i-th value is stored, and it refers to nothing that is not yet entered:
\* the loop may go on to the next one.
LEMMA OpenNext ==
    ASSUME IInv, stack # <<>>, NEW g \in Frame, g.obj = Top.obj, g.i = Top.i + 1,
           heap' = heap, resolved' = resolved, Top.i <= Count(Top.obj),
           Len(hvalues'[Top.obj]) = Len(hvalues[Top.obj]),
           DOMAIN hvalues'[Top.obj] = 1..Count(Top.obj),
           \A j \in 1..Count(Top.obj) :
              j # Top.i => hvalues'[Top.obj][j] = hvalues[Top.obj][j],
           hvalues'[Top.obj][Top.i] = Expected(Top.obj, Top.i),
           Refers(Top.obj, Top.i) => resolved[Target(Top.obj, Top.i)]
    PROVE  Open(g)'
  <1>1. /\ Top.obj \in Obj /\ Top.i \in Nat \ {0} /\ Open(Top)
        /\ Count(Top.obj) \in Nat /\ TypeOK
    BY TopFacts
  <1>2. PICK o \in Obj, i \in Nat \ {0} : o = Top.obj /\ i = Top.i
    BY <1>1
  <1>3. /\ Count(o)' = Count(o)
        /\ \A j : /\ Slot(o, j)' = Slot(o, j)
                  /\ Expected(o, j)' = Expected(o, j)
                  /\ Refers(o, j)' = Refers(o, j)
    BY DEF Count, Slot, ftype, IsRead, Expected, Refers
  <1>4. LoadedUpTo(o, i - 1)
    BY <1>1, <1>2 DEF Open
  <1>5. \A j \in 1..i : /\ j \in DOMAIN hvalues'[o]
                        /\ hvalues'[o][j] = Expected(o, j)
                        /\ Refers(o, j) => resolved[heap[o].body[Slot(o, j)]]
    <2> SUFFICES ASSUME NEW j \in 1..i
                 PROVE  /\ j \in DOMAIN hvalues'[o]
                        /\ hvalues'[o][j] = Expected(o, j)
                        /\ Refers(o, j) => resolved[heap[o].body[Slot(o, j)]]
      OBVIOUS
    <2>1. j \in 1..Count(o)
      BY <1>1, <1>2
    <2>2. CASE j = i
      BY <1>2, <2>1, <2>2 DEF Target
    <2>3. CASE j \in 1..(i - 1)
      BY <1>2, <1>4, <2>1, <2>3 DEF LoadedUpTo
    <2> QED BY <2>2, <2>3
  <1>6. LoadedUpTo(o, i)'
    BY <1>3, <1>5 DEF LoadedUpTo
  <1>7. ASSUME heap[o].htype = "oarray", NEW j \in 1..Count(o)
        PROVE  hvalues'[o][j] = heap[o].body[j]
    <2>1. hvalues[o][j] = heap[o].body[j]
      BY <1>1, <1>2, <1>7 DEF Open
    <2>2. Expected(o, j) = heap[o].body[j]
      BY <1>7 DEF Expected, IsRead, ftype, Slot
    <2> QED BY <1>2, <2>1, <2>2
  <1>8. LoadedUpTo(g.obj, g.i - 1)'
    <2>1. g.obj = o /\ g.i - 1 = i
      BY <1>2
    <2> QED BY <1>6, <2>1
  <1>9. ASSUME heap[o].htype = "instance", NEW j \in 1..Count(o), ~IsRead(o, j)'
        PROVE  hvalues'[o][j] = Unread
    <2>1. ~IsRead(o, j)
      BY <1>9 DEF IsRead, ftype
    <2>2. hvalues[o][j] = Unread
      BY <1>1, <1>2, <1>9, <2>1 DEF Open
    <2>3. Expected(o, j) = Unread
      BY <2>1 DEF Expected
    <2> QED BY <1>2, <2>2, <2>3
  <1> QED
    BY <1>1, <1>2, <1>3, <1>7, <1>8, <1>9 DEF Open

\* The frame of the next loop turn is a frame.
LEMMA NextFrame ==
    ASSUME NEW o \in Obj, NEW i \in Nat, NEW z \in Nat
    PROVE  [obj |-> o, i |-> i + 1, size |-> z] \in Frame
  BY DEF Frame

\* One turn of the loop over the elements of an object array.
LEMMA LoadElementIInv == IInv /\ LoadElement => IInv'
  <1> SUFFICES ASSUME IInv, LoadElement PROVE IInv'
    OBVIOUS
  <1>1. /\ TypeOK /\ stack \in Seq(Frame) /\ stack # <<>>
        /\ Top = stack[1] /\ Top \in Frame
        /\ Top.obj \in Obj /\ Top.i \in Nat \ {0} /\ Top.size \in Nat
        /\ Open(Top) /\ Count(Top.obj) \in Nat
    BY TopFacts DEF LoadElement
  <1>2. /\ UNCHANGED <<heap, hvalues, resolved, fin, osize, csize, children,
                       wild, ckey, arcs, arcs_max, todo>>
        /\ heap[Top.obj].htype = "oarray" /\ Top.i <= Count(Top.obj)
        /\ Top.i \in 1..Count(Top.obj)
        /\ pc = "loop"
    BY <1>1 DEF LoadElement, fixed, objVars, arcVars
  <1>3. /\ hvalues[Top.obj][Top.i] = Target(Top.obj, Top.i)
        /\ Expected(Top.obj, Top.i) = Target(Top.obj, Top.i)
        /\ Refers(Top.obj, Top.i) <=> Target(Top.obj, Top.i) \in Obj
    BY <1>1, <1>2 DEF Open, Target, Slot, Expected, IsRead, ftype, Refers, RefType
  <1>4. CASE hvalues[Top.obj][Top.i] \in Obj
    <2>1. stack' = stack /\ pc' = "call" /\ arg' = hvalues[Top.obj][Top.i]
      BY <1>4 DEF LoadElement
    <2>2. TypeOK'
      BY <1>1, <1>2, <1>4, <2>1, ObjAssumption DEF TypeOK
    <2>3. stack' = SetTop(Top)
      <3>1. stack = <<Head(stack)>> \o Tail(stack)
        BY <1>1
      <3> QED BY <2>1, <3>1 DEF SetTop, Top
    <2>4. PICK g \in Frame : g = Top
      BY <1>1
    <2>5. Waits(g)
      BY <1>2, <1>3, <1>4, <2>4 DEF Waits
    <2>6. Open(g)' /\ Waits(g)' /\ arg' = Target(g.obj, g.i)'
      <3>1. Open(g) /\ g.obj \in Obj
        BY <1>1, <2>4
      <3>2. arg' = Target(g.obj, g.i)
        BY <1>3, <2>1, <2>4
      <3> QED BY <1>2, <2>5, <3>1, <3>2, FrameStable
    <2> QED BY <1>1, <1>2, <2>1, <2>2, <2>3, <2>4, <2>6, StepTop
  <1>5. CASE hvalues[Top.obj][Top.i] \notin Obj
    <2>1. stack' = Advanced(Top.size) /\ pc' = pc /\ arg' = arg
      BY <1>5 DEF LoadElement
    <2>2. PICK g \in Frame : g = [obj |-> Top.obj, i |-> Top.i + 1, size |-> Top.size]
      BY <1>1, NextFrame
    <2>3. stack' = SetTop(g)
      BY <2>1, <2>2 DEF Advanced
    <2>4. TypeOK'
      <3>1. stack' \in Seq(Frame)
        BY <1>1, <2>3, SetTopSeq DEF SetTop
      <3> QED BY <1>1, <1>2, <2>1, <3>1 DEF TypeOK
    <2>5. Open(g)'
      <3>1. DOMAIN hvalues[Top.obj] = 1..Count(Top.obj)
        BY <1>1 DEF Open, TypeOK
      <3> QED BY <1>1, <1>2, <1>3, <1>5, <2>2, <3>1, OpenNext
    <2> QED BY <1>1, <1>2, <2>1, <2>2, <2>3, <2>4, <2>5, StepTop
  <1> QED BY <1>4, <1>5

\* One turn of the loop over the fields of an instance, inherited ones included.
LEMMA LoadFieldIInv == IInv /\ LoadField => IInv'
  <1> SUFFICES ASSUME IInv, LoadField PROVE IInv'
    OBVIOUS
  <1>1. /\ TypeOK /\ stack \in Seq(Frame) /\ stack # <<>>
        /\ Top \in Frame
        /\ Top.obj \in Obj /\ Top.i \in Nat \ {0} /\ Top.size \in Nat
        /\ Open(Top) /\ Count(Top.obj) \in Nat
    BY TopFacts DEF LoadField
  <1>2. PICK o \in Obj, i \in Nat \ {0} : o = Top.obj /\ i = Top.i
    BY <1>1
  <1> DEFINE at == SeekField(o, i)
             sz == Top.size + Width[ftype(o, i)]
             v  == CellAt(at)
             isRef == ftype(o, i) \in RefType /\ v \in Obj
  <1>3. /\ UNCHANGED <<heap, wild, resolved, osize, csize, children, arcs,
                       arcs_max, ckey, todo>>
        /\ heap[o].htype = "instance" /\ i <= Count(o) /\ pc = "loop"
    BY <1>2 DEF LoadField, fixed, arcVars
  <1>4. \/ /\ ~IsRead(o, i) /\ fin' = at /\ stack' = Advanced(sz)
           /\ UNCHANGED <<hvalues, pc, arg>>
        \/ /\ IsRead(o, i) /\ fin' = <<at[1], at[2] + 1>>
           /\ hvalues' = [hvalues EXCEPT ![o][i] = v]
           /\ \/ /\ isRef
                 /\ stack' = SetTop([Top EXCEPT !.size = sz])
                 /\ pc' = "call" /\ arg' = v
              \/ /\ ~isRef /\ stack' = Advanced(sz)
                 /\ UNCHANGED <<pc, arg>>
    BY <1>2 DEF LoadField
  <1>5. /\ i \in 1..Count(o)
        /\ Slot(o, i) \in Nat /\ Target(o, i) \in Nat
        /\ v = Target(o, i) /\ sz \in Nat
        /\ at = <<o, Slot(o, i)>> /\ o \in Nat
    <2>1. i \in 1..Count(o)
      BY <1>1, <1>2, <1>3
    <2>2. /\ Slot(o, i) \in Nat /\ Target(o, i) \in Nat
          /\ CellAt(<<o, Slot(o, i)>>) = Target(o, i) /\ Width[ftype(o, i)] \in Nat
      BY <1>1, <2>1, HeapFacts DEF Target
    <2>3. at = <<o, Slot(o, i)>>
      BY DEF SeekField
    <2>4. sz \in Nat
      BY <1>1, <1>2, <2>2
    <2> QED BY <2>1, <2>2, <2>3, <2>4, ObjAssumption
  <1> HIDE DEF at, sz, v
  <1>6. /\ hvalues \in [Obj -> Seq(Nat \cup {Unread})]
        /\ Len(hvalues[o]) = Count(o) /\ DOMAIN hvalues[o] = 1..Count(o)
        /\ LoadedUpTo(o, i - 1)
    <2>1. hvalues \in [Obj -> Seq(Nat \cup {Unread})]
      BY <1>1 DEF TypeOK
    <2>2. Len(hvalues[o]) = Count(o) /\ LoadedUpTo(o, i - 1)
      BY <1>1, <1>2 DEF Open
    <2>3. hvalues[o] \in Seq(Nat \cup {Unread})
      BY <2>1
    <2> QED BY <2>1, <2>2, <2>3
  <1>7. fin' \in Nat \X Nat
    BY <1>4, <1>5
  <1>8. hvalues' \in [Obj -> Seq(Nat \cup {Unread})]
    <2>1. CASE UNCHANGED hvalues
      BY <1>6, <2>1
    <2>2. CASE hvalues' = [hvalues EXCEPT ![o][i] = v]
      <3>1. [hvalues[o] EXCEPT ![i] = v] \in Seq(Nat \cup {Unread})
        BY <1>5, <1>6
      <3> QED BY <1>6, <2>2, <3>1
    <2> QED BY <1>4, <2>1, <2>2
  <1>9. \A p \in Obj \ {Top.obj} : hvalues'[p] = hvalues[p]
    BY <1>2, <1>4, <1>6
  <1>10. PICK g \in Frame : g = [obj |-> o, i |-> i + 1, size |-> sz]
    BY <1>5, NextFrame
  <1>11. CASE ~IsRead(o, i)
    <2>1. /\ stack' = SetTop(g) /\ UNCHANGED <<hvalues, pc, arg>>
      BY <1>2, <1>4, <1>10, <1>11 DEF Advanced
    <2>2. TypeOK'
      <3>1. stack' \in Seq(Frame)
        BY <1>1, <2>1, SetTopSeq DEF SetTop
      <3> QED BY <1>1, <1>3, <1>7, <1>8, <2>1, <3>1 DEF TypeOK
    <2>3. hvalues[o][i] = Expected(o, i) /\ ~Refers(o, i)
      BY <1>1, <1>2, <1>3, <1>5, <1>11 DEF Open, Expected, Refers, IsRead, RefType
    <2>4. Open(g)'
      BY <1>1, <1>2, <1>3, <1>5, <1>6, <1>10, <2>1, <2>3, OpenNext
    <2> QED BY <1>1, <1>2, <1>3, <1>9, <1>10, <2>1, <2>2, <2>4, StepTop
  <1>12. CASE IsRead(o, i) /\ ~isRef
    <2>1. /\ stack' = SetTop(g) /\ UNCHANGED <<pc, arg>>
          /\ hvalues' = [hvalues EXCEPT ![o][i] = v]
      BY <1>2, <1>4, <1>10, <1>12 DEF Advanced
    <2>2. TypeOK'
      <3>1. stack' \in Seq(Frame)
        BY <1>1, <2>1, SetTopSeq DEF SetTop
      <3> QED BY <1>1, <1>3, <1>7, <1>8, <2>1, <3>1 DEF TypeOK
    <2>3. /\ hvalues'[o][i] = v /\ DOMAIN hvalues'[o] = 1..Count(o)
          /\ Len(hvalues'[o]) = Len(hvalues[o])
          /\ \A j \in 1..Count(o) : j # i => hvalues'[o][j] = hvalues[o][j]
      BY <1>5, <1>6, <2>1
    <2>4. v = Expected(o, i) /\ ~Refers(o, i)
      BY <1>5, <1>12 DEF Expected, Target, Refers
    <2>5. Open(g)'
      BY <1>1, <1>2, <1>3, <1>5, <1>6, <1>10, <2>3, <2>4, OpenNext
    <2> QED BY <1>1, <1>2, <1>3, <1>9, <1>10, <2>1, <2>2, <2>5, StepTop
  <1>13. CASE IsRead(o, i) /\ isRef
    <2>1. /\ stack' = SetTop([Top EXCEPT !.size = sz]) /\ pc' = "call" /\ arg' = v
          /\ hvalues' = [hvalues EXCEPT ![o][i] = v]
      BY <1>4, <1>13
    <2>2. PICK f \in Frame : f = [Top EXCEPT !.size = sz]
      BY <1>1, <1>5 DEF Frame
    <2>3. f.obj = o /\ f.i = i
      BY <1>1, <1>2, <2>2 DEF Frame
    <2>4. stack' = SetTop(f)
      BY <2>1, <2>2
    <2>5. TypeOK'
      <3>1. stack' \in Seq(Frame)
        BY <1>1, <2>4, SetTopSeq DEF SetTop
      <3> QED
        BY <1>1, <1>3, <1>5, <1>7, <1>8, <1>13, <2>1, <3>1 DEF TypeOK
    <2>6. /\ hvalues'[o][i] = v /\ DOMAIN hvalues'[o] = 1..Count(o)
          /\ Len(hvalues'[o]) = Count(o)
          /\ \A j \in 1..Count(o) : j # i => hvalues'[o][j] = hvalues[o][j]
      BY <1>5, <1>6, <2>1
    <2>7. /\ Count(o)' = Count(o)
          /\ \A j : /\ Slot(o, j)' = Slot(o, j)
                    /\ IsRead(o, j)' = IsRead(o, j)
                    /\ Target(o, j)' = Target(o, j)
                    /\ Expected(o, j)' = Expected(o, j)
                    /\ Refers(o, j)' = Refers(o, j)
      BY <1>3 DEF Count, Slot, ftype, IsRead, Expected, Refers, Target
    <2>8. LoadedUpTo(o, i - 1)'
      <3>1. \A j \in 1..(i - 1) : j \in 1..Count(o) /\ j # i
        BY <1>1, <1>2, <1>5
      <3> QED BY <1>3, <1>6, <2>6, <2>7, <3>1 DEF LoadedUpTo
    <2>9. Open(f)'
      <3>1. resolved[o] /\ \A j \in 1..Count(o) : ~IsRead(o, j) => hvalues[o][j] = Unread
        BY <1>1, <1>2, <1>3 DEF Open
      <3>2. \A j \in 1..Count(o) : ~IsRead(o, j) => hvalues'[o][j] = Unread
        BY <1>13, <2>6, <3>1
      <3>3. i <= Count(o) + 1 /\ resolved'[o]
        <4>1. Count(o) \in Nat
          BY <1>1, <1>2
        <4>2. resolved'[o]
          BY <1>3, <3>1
        <4>3. i <= Count(o)
          BY <1>3
        <4> QED BY <4>1, <4>2, <4>3
      <3>4. heap'[o].htype = "instance" /\ heap'[o].htype # "varray" /\ heap'[o].htype # "oarray"
        BY <1>3
      <3>5. /\ Count(f.obj)' = Count(o) /\ LoadedUpTo(f.obj, f.i - 1)'
            /\ \A j : IsRead(f.obj, j)' = IsRead(o, j)
        BY <2>3, <2>7, <2>8
      <3> QED
        BY <2>3, <2>6, <3>2, <3>3, <3>4, <3>5 DEF Open
    <2>10. Waits(f)' /\ arg' = Target(f.obj, f.i)'
      <3>1. Refers(o, i)
        BY <1>3, <1>5, <1>13 DEF Refers, Target
      <3> QED BY <1>3, <1>5, <2>1, <2>3, <2>6, <2>7, <3>1 DEF Waits
    <2> QED BY <1>1, <1>2, <1>3, <1>9, <2>1, <2>3, <2>4, <2>5, <2>9, <2>10, StepTop
  <1> QED BY <1>11, <1>12, <1>13

\* arc_add keeps the arc tables well typed: it is called with classes of the heap.
LEMMA ArcAddType ==
    ASSUME TypeOK, NEW p \in Class, NEW d \in Class, ArcAdd(p, d)
    PROVE  /\ children' \in [Class -> Seq([child : Class, count : Nat])]
           /\ arcs' \in Seq(Class \X Class)
           /\ arcs_max' \in Nat
  <1> DEFINE Entry == [child : Class, count : Nat]
  <1>1. /\ children \in [Class -> Seq(Entry)] /\ arcs \in Seq(Class \X Class)
        /\ arcs_max \in Nat
    BY DEF TypeOK
  <1>2. CASE ArcAt(p, d) = {}
    <2>1. [child |-> d, count |-> 1] \in Entry
      OBVIOUS
    <2>2. /\ children' = [children EXCEPT ![p] = <<[child |-> d, count |-> 1]>> \o @]
          /\ \/ UNCHANGED <<arcs, arcs_max>>
             \/ /\ arcs' = Append(arcs, <<p, d>>)
                /\ arcs_max' = IF Len(arcs) = arcs_max THEN arcs_max + ArcChunk
                                                       ELSE arcs_max
      BY <1>2 DEF ArcAdd
    <2>3. arcs' \in Seq(Class \X Class)
      <3>1. <<p, d>> \in Class \X Class
        OBVIOUS
      <3>2. Append(arcs, <<p, d>>) \in Seq(Class \X Class)
        BY <1>1, <3>1, AppendSeq
      <3> QED BY <1>1, <2>2, <3>2
    <2>4. arcs_max' \in Nat
      BY <1>1, <2>2, SizeAssumption
    <2> HIDE DEF Entry
    <2>5. <<[child |-> d, count |-> 1]>> \o children[p] \in Seq(Entry)
      BY <1>1, <2>1, PushSeq
    <2>6. children' \in [Class -> Seq(Entry)]
      BY <1>1, <2>2, <2>5
    <2> QED BY <2>3, <2>4, <2>6 DEF Entry
  <1>3. CASE ArcAt(p, d) # {}
    <2>1. PICK k \in ArcAt(p, d) : children' = [children EXCEPT ![p][k].count = @ + 1]
      BY <1>3 DEF ArcAdd
    <2>2. k \in 1..Len(children[p])
      BY <2>1 DEF ArcAt
    <2>3. children[p] \in Seq(Entry)
      BY <1>1
    <2>4. children[p][k] \in Entry
      <3> HIDE DEF Entry
      <3> QED BY <2>2, <2>3, SeqElement
    <2>5. [children[p][k] EXCEPT !.count = @ + 1] \in Entry
      BY <2>4
    <2>6. [children[p] EXCEPT ![k] = [children[p][k] EXCEPT !.count = @ + 1]] \in Seq(Entry)
      <3> HIDE DEF Entry
      <3> QED BY <2>2, <2>3, <2>5
    <2>7. children' = [children EXCEPT ![p] =
              [children[p] EXCEPT ![k] = [children[p][k] EXCEPT !.count = @ + 1]]]
      BY <2>1
    <2>8. children' \in [Class -> Seq(Entry)]
      <3> HIDE DEF Entry
      <3> QED BY <1>1, <2>6, <2>7
    <2>9. UNCHANGED <<arcs, arcs_max>>
      BY <1>3 DEF ArcAdd
    <2> QED BY <1>1, <2>8, <2>9
  <1> QED BY <1>2, <1>3

\* Back in the calling frame: the size and the arcs are updated, the loop goes on.
LEMMA ReturnToFrameIInv == IInv /\ ReturnToFrame => IInv'
  <1> SUFFICES ASSUME IInv, ReturnToFrame PROVE IInv'
    OBVIOUS
  <1>1. /\ TypeOK /\ stack \in Seq(Frame) /\ stack # <<>> /\ 1 \in 1..Len(stack)
        /\ Top = stack[1] /\ Top \in Frame
        /\ Top.obj \in Obj /\ Top.i \in Nat \ {0} /\ Top.size \in Nat
        /\ Open(Top) /\ Count(Top.obj) \in Nat
    BY TopFacts DEF ReturnToFrame
  <1>2. /\ UNCHANGED <<heap, wild, ckey, fin, resolved, hvalues, osize, todo>>
        /\ pc = "ret" /\ pc' = "loop" /\ arg' = 0
        /\ stack' = Advanced(Top.size)
        /\ csize' = [csize EXCEPT ![Top.obj] = (@ + arg) % SizeMod]
        /\ ArcAdd(heap[Top.obj].class, heap[hvalues[Top.obj][Top.i]].class)
    BY DEF ReturnToFrame, fixed
  <1>3. Waits(Top) /\ resolved[Target(Top.obj, Top.i)]
    BY <1>1, <1>2 DEF IInv, FramesWait, Entered
  <1>4. PICK g \in Frame : g = [obj |-> Top.obj, i |-> Top.i + 1, size |-> Top.size]
    BY <1>1, NextFrame
  <1>5. stack' = SetTop(g)
    BY <1>2, <1>4 DEF Advanced
  <1>6. TypeOK'
    <2>1. stack' \in Seq(Frame)
      BY <1>1, <1>5, SetTopSeq DEF SetTop
    <2>2. csize' \in [Obj -> Nat]
      <3>1. csize[Top.obj] \in Nat /\ arg \in Nat
        BY <1>1 DEF TypeOK
      <3>2. (csize[Top.obj] + arg) % SizeMod \in Nat
        BY <3>1, SizeAssumption
      <3> QED BY <1>1, <1>2, <3>2 DEF TypeOK
    <2>3. hvalues[Top.obj][Top.i] \in Obj
      BY <1>3 DEF Waits, Refers, Target
    <2>4. /\ heap[Top.obj].class \in Class
          /\ heap[hvalues[Top.obj][Top.i]].class \in Class
      <3>1. heap[Top.obj] \in HObject /\ heap[hvalues[Top.obj][Top.i]] \in HObject
        BY <1>1, <2>3, HeapFacts
      <3> QED BY <3>1 DEF HObject
    <2>5. /\ children' \in [Class -> Seq([child : Class, count : Nat])]
          /\ arcs' \in Seq(Class \X Class)
          /\ arcs_max' \in Nat
      BY <1>1, <1>2, <2>4, ArcAddType
    <2> QED BY <1>1, <1>2, <2>1, <2>2, <2>5 DEF TypeOK
  <1>7. Open(g)'
    <2>1. DOMAIN hvalues[Top.obj] = 1..Count(Top.obj) /\ Top.i <= Count(Top.obj)
      BY <1>1, <1>3 DEF Open, Waits, TypeOK
    <2>2. hvalues[Top.obj][Top.i] = Expected(Top.obj, Top.i)
      BY <1>3 DEF Waits, Expected, Target, Refers, IsRead, RefType
    <2> QED BY <1>1, <1>2, <1>3, <1>4, <2>1, <2>2, OpenNext
  <1> QED BY <1>1, <1>2, <1>4, <1>5, <1>6, <1>7, StepTop

-----------------------------------------------------------------------------
\* Every step of the walk keeps the invariant.
LEMMA NextIInv == IInv /\ [Next]_vars => IInv'
  BY DriveIInv, CallResolvedIInv, CallLeafIInv, CallIInv, LoadFieldIInv,
     LoadElementIInv, FinishIInv, ReturnToFrameIInv, SegvIInv DEF Next

\* The invariant of the walk, on which the theorems rest.
THEOREM Invariance == Spec => []IInv
  BY InitIInv, NextIInv, PTL DEF Spec

\* Every variable of the walk keeps its type: in particular resolveInstance is
\* only called on objects that are in hTable, and arc_add only with classes.
THEOREM TypeCorrect == Spec => []TypeOK
  <1>1. IInv => TypeOK
    BY DEF IInv
  <1> QED BY <1>1, Invariance, PTL

\* Reference cycles of any length never re-enter an open call.
THEOREM NeverReentered == Spec => []NoReentry
  <1>1. IInv => NoReentry
    BY DEF IInv
  <1> QED BY <1>1, Invariance, PTL

\* Every object whose call has returned holds the values of its own bytes, and
\* every object it refers to has been entered, although all calls share one
\* file cursor.
THEOREM LoadedFromOwnBody == Spec => []ResolvedIsLoaded
  <1>1. IInv => ResolvedIsLoaded
    BY DEF IInv
  <1> QED BY <1>1, Invariance, PTL
=============================================================================
