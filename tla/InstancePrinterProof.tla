------------------------ MODULE InstancePrinterProof ------------------------
(***************************************************************************)
(* printInstance for every sequence of heap dump records, every set of     *)
(* roots and every limit: what it reads was resolved, except in one case,  *)
(* it prints the fields of an instance once, accounts for every element of *)
(* an array, and prints what is due.                                       *)
(*                                                                         *)
(* The last is the long one.  It needs to know how the frames hang together*)
(* (a frame is as many references away from a root as its indent says) and *)
(* what has been printed of the objects that are done with, of those whose *)
(* loop is still open, and of the one that is about to be called.          *)
(***************************************************************************)
EXTENDS InstancePrinter, CommonLemmas, FiniteSetTheorems

Call == [obj : Obj, indent : Nat, i : Nat \ {0}, last_cnt : Nat, last_pid : Int,
         run : Seq(Int), label : Int, told : Nat]

\* What hTable may hold.
HTab == {h \in [Obj -> HObject] :
           \A o \in Obj : h[o].kind \in {"varray", "absent"} => h[o].refs = <<>>}

Typed ==
    /\ heap \in HTab /\ roots \subseteq Obj /\ plimit \in Limits /\ every \in BOOLEAN
    /\ round \in 0 .. Rounds
    /\ born \in [Obj -> 0 .. round] /\ loaded \in [Obj -> 0 .. round] /\ last \in [Obj -> 0 .. round]
    /\ todo \subseteq roots \cap Table /\ visit \subseteq Obj
    /\ resolved \subseteq Table /\ shown \subseteq Table
    /\ stack \in Seq(Call) /\ Len(stack) <= MaxDepth
    /\ pc \in {"drive", "call", "loop", "done", "overflow", "unset"}
    /\ arg \in [obj : Obj \cup {0}, indent : Nat]
    /\ fields \in [Obj -> Nat]

Control ==
    /\ pc = "loop" => stack # <<>>
    /\ pc \in {"drive", "done"} => stack = <<>>
    /\ pc = "done" => todo = {}
    /\ pc \in {"call", "unset"} => arg.obj \in Table /\ arg.indent = Len(stack)
    /\ pc \notin {"call", "unset"} => arg = NoArg
    /\ round = 0 => todo = {} /\ pc \in {"drive", "done"}

\* A frame loops over references, as deep as its place on the stack.
Opened ==
    \A k \in 1 .. Len(stack) : /\ stack[k].indent = Len(stack) - k
                               /\ heap[stack[k].obj].kind \in {"instance", "oarray"}

\* What a resolved object refers to is resolved, unless it was dumped later; with -a
\* everything is.
Loads ==
    /\ \A x \in resolved : \A y \in Succ(x) : born[y] <= loaded[x] => y \in resolved
    /\ every /\ round > 0 => Table \subseteq resolved

\* Frames with references are of resolved objects, and an argument is a resolved
\* object or one that the caller refers to.
InResolved ==
    /\ \A k \in 1 .. Len(stack) : stack[k].obj \in resolved \/ heap[stack[k].obj].refs = <<>>
    /\ pc \in {"call", "unset"} => IF stack = <<>> THEN arg.obj \in resolved
                                   ELSE arg.obj \in Succ(stack[1].obj)
    /\ pc = "unset" => arg.obj \notin resolved

Marked ==
    /\ \A o \in Obj : fields[o] <= 1 /\ (o \notin visit => fields[o] = 0)
    /\ visit \subseteq shown

\* RunsAccounted, where the identifier of a run is known before the run begins.
Accounted(f) ==
    heap[f.obj].kind = "oarray" =>
       /\ f.told + f.last_cnt = f.i - 1
       /\ f.last_cnt = Len(f.run)
       /\ \A n \in 1 .. Len(f.run) : f.run[n] = f.last_pid
       /\ f.label = f.last_pid \/ f.last_pid = Ones

Runs == \A k \in 1 .. Len(stack) : Accounted(stack[k])

\* x is m references away from a root, on some way.
At(x, m) == \E p \in [0 .. m -> Obj] : Path(p, m, x)

\* The indent is the number of references from the root.
Traced ==
    /\ \A k \in 1 .. Len(stack) : At(stack[k].obj, stack[k].indent)
    /\ pc = "call" => At(arg.obj, arg.indent)
    /\ plimit # 0 /\ round # 0 =>
          \A x \in Obj : last[x] = round => \E m \in 0 .. plimit : At(x, m)

\* The object about to be printed.
Pending == IF pc = "call" THEN {arg.obj} ELSE {}

\* What o refers to is due; with a limit this is said of the first record only.
Due(o) == plimit = 0 \/ (round = 1 /\ Unshared /\ \E m \in Nat : m < plimit /\ At(o, m))

\* What the loop of f has passed.
Passed(f) == {heap[f.obj].refs[n] : n \in 1 .. f.i - 1} \cap Table

Printed ==
    pc \notin {"overflow", "unset"} =>
    /\ \A k \in 1 .. Len(stack) :
          /\ stack[k].obj \in shown
          /\ Due(stack[k].obj) =>
                Passed(stack[k]) \subseteq shown \cup (IF k = 1 THEN Pending ELSE {})
    /\ \A o \in shown : Due(o) => Known(o) \subseteq shown \/ \E k \in 1 .. Len(stack) : stack[k].obj = o
    /\ round > 0 => \A o \in roots \cap Table : o \in todo \cup shown \/ (stack = <<>> /\ o \in Pending)

PInv == Typed /\ Control /\ Opened /\ Loads /\ InResolved /\ Marked /\ Runs /\ Traced /\ Printed

-----------------------------------------------------------------------------
(* The heap and the ways through it.                                       *)

\* What an object of the heap is made of.
LEMMA HeapFacts ==
    ASSUME heap \in HTab, NEW o \in Obj
    PROVE  /\ heap[o] \in HObject /\ heap[o].refs \in Seq(Obj \cup NoObject)
           /\ Len(heap[o].refs) \in Nat /\ DOMAIN heap[o].refs = 1 .. Len(heap[o].refs)
           /\ heap[o].refs = <<>> => Succ(o) = {}
           /\ heap[o].kind \in {"varray", "absent"} => heap[o].refs = <<>>
           /\ \A n \in 1 .. Len(heap[o].refs) : heap[o].refs[n] \in Obj \cup NoObject
  <1>1. heap[o] \in HObject /\ (heap[o].kind \in {"varray", "absent"} => heap[o].refs = <<>>)
    BY DEF HTab
  <1>2. heap[o].refs \in Seq(Obj \cup NoObject)
    BY <1>1 DEF HObject
  <1>3. Len(heap[o].refs) \in Nat /\ DOMAIN heap[o].refs = 1 .. Len(heap[o].refs)
    BY <1>2
  <1>4. heap[o].refs = <<>> => Succ(o) = {}
    BY DEF Succ
  <1>5. \A n \in 1 .. Len(heap[o].refs) : heap[o].refs[n] \in Obj \cup NoObject
    BY <1>2, SeqElement
  <1> QED BY <1>1, <1>2, <1>3, <1>4, <1>5

\* The ways are a matter of the heap and of the options.
LEMMA FixedFacts ==
    ASSUME UNCHANGED <<fixed, round>>
    PROVE  /\ Table' = Table
           /\ \A o : Succ(o)' = Succ(o)
           /\ \A x, m : At(x, m)' = At(x, m)
           /\ \A o : Due(o)' = Due(o)
           /\ \A f : Passed(f)' = Passed(f) /\ Accounted(f)' = Accounted(f)
  <1>1. heap' = heap /\ roots' = roots /\ plimit' = plimit /\ round' = round
    BY DEF fixed
  <1>0. Table' = Table
    BY <1>1 DEF Table
  <1>2. \A o : Succ(o)' = Succ(o)
    BY <1>0, <1>1 DEF Succ
  <1>4. \A p, m, x : Path(p, m, x)' = Path(p, m, x)
    BY <1>0, <1>1, <1>2 DEF Path
  <1>5. \A x, m : At(x, m)' = At(x, m)
    BY <1>4 DEF At
  <1>7. Unshared' = Unshared
    BY <1>1 DEF Unshared, Sites
  <1>8. \A o : Due(o)' = Due(o)
    BY <1>1, <1>5, <1>7 DEF Due
  <1>9. \A f : Passed(f)' = Passed(f) /\ Accounted(f)' = Accounted(f)
    BY <1>0, <1>1 DEF Passed, Accounted
  <1> QED BY <1>0, <1>2, <1>5, <1>8, <1>9

\* What is resolved and printed is read off loaded and last.
LEMMA SetFacts ==
    /\ loaded' = loaded => resolved' = resolved
    /\ last' = last => shown' = shown
    /\ Table \subseteq Obj /\ \A o : Succ(o) \subseteq Table
  BY DEF resolved, shown, Table, Succ

\* What an object refers to is known until the next record.
LEMMA KnownFacts ==
    ASSUME UNCHANGED <<fixed, round>>, NEW o, last'[o] = last[o]
    PROVE  Known(o)' = Known(o)
  <1>1. Succ(o)' = Succ(o) /\ born' = born
    BY FixedFacts DEF fixed
  <1> QED BY <1>1 DEF Known

\* Resolving goes on only between the records and at the roots.
LEMMA LoadsSame ==
    ASSUME Loads, UNCHANGED <<fixed, round, loaded>>
    PROVE  Loads'
  <1>1. born' = born /\ loaded' = loaded /\ every' = every /\ round' = round
    BY DEF fixed
  <1>2. Table' = Table /\ resolved' = resolved /\ \A o : Succ(o)' = Succ(o)
    BY <1>1, FixedFacts, SetFacts
  <1> QED BY <1>1, <1>2 DEF Loads

\* A way of no reference begins at a root.
LEMMA AtRoot ==
    ASSUME roots \subseteq Obj, NEW x
    PROVE  At(x, 0) <=> x \in roots \cap Table
  <1>1. ASSUME x \in roots \cap Table PROVE At(x, 0)
    <2> DEFINE p == [j \in 0 .. 0 |-> x]
    <2>1. p \in [0 .. 0 -> Obj] /\ p[0] = x
      BY <1>1
    <2>2. \A j \in 0 .. 0 - 1 : p[j + 1] \in Succ(p[j])
      OBVIOUS
    <2> QED BY <1>1, <2>1, <2>2 DEF At, Path
  <1>2. ASSUME At(x, 0) PROVE x \in roots \cap Table
    BY <1>2 DEF At, Path
  <1> QED BY <1>1, <1>2

\* A way goes on by a reference.
LEMMA AtNext ==
    ASSUME NEW m \in Nat, NEW x, NEW y \in Succ(x), At(x, m)
    PROVE  At(y, m + 1)
  <1>1. PICK p \in [0 .. m -> Obj] : Path(p, m, x)
    BY DEF At
  <1> DEFINE q == [j \in 0 .. (m + 1) |-> IF j = m + 1 THEN y ELSE p[j]]
  <1>2. y \in Obj
    BY DEF Succ, Table
  <1>3. q \in [0 .. (m + 1) -> Obj] /\ q[m + 1] = y /\ \A j \in 0 .. m : q[j] = p[j]
    BY <1>2
  <1> HIDE DEF q
  <1>4. ASSUME NEW j \in 0 .. (m + 1) - 1
        PROVE  q[j + 1] \in Succ(q[j])
    <2>1. CASE j = m
      BY <1>1, <1>3, <2>1 DEF Path
    <2>2. CASE j # m
      <3>1. j \in 0 .. m - 1 /\ j \in 0 .. m /\ j + 1 \in 0 .. m
        BY <2>2
      <3>2. p[j + 1] \in Succ(p[j])
        BY <1>1, <3>1 DEF Path
      <3> QED BY <1>3, <3>1, <3>2
    <2> QED BY <2>1, <2>2
  <1>5. q[0] \in roots \cap Table
    BY <1>1, <1>3 DEF Path
  <1>6. Path(q, m + 1, y)
    BY <1>3, <1>4, <1>5 DEF Path
  <1> QED BY <1>3, <1>6 DEF At

\* The last reference of a way.
LEMMA AtLast ==
    ASSUME NEW m \in Nat, NEW y, At(y, m + 1)
    PROVE  \E x \in Obj : At(x, m) /\ y \in Succ(x)
  <1>1. PICK p \in [0 .. (m + 1) -> Obj] : Path(p, m + 1, y)
    BY DEF At
  <1> DEFINE q == [j \in 0 .. m |-> p[j]]
  <1>2. q \in [0 .. m -> Obj] /\ \A j \in 0 .. m : q[j] = p[j]
    OBVIOUS
  <1> HIDE DEF q
  <1>3. m \in 0 .. m /\ 0 \in 0 .. m /\ m \in 0 .. (m + 1) - 1
    OBVIOUS
  <1>4. q[0] \in roots \cap Table /\ q[m] \in Obj /\ y \in Succ(q[m])
    BY <1>1, <1>2, <1>3 DEF Path
  <1>5. ASSUME NEW j \in 0 .. m - 1
        PROVE  q[j + 1] \in Succ(q[j])
    <2>1. j \in 0 .. m /\ j + 1 \in 0 .. m /\ j \in 0 .. (m + 1) - 1
      OBVIOUS
    <2> QED BY <1>1, <1>2, <2>1 DEF Path
  <1>6. Path(q, m, q[m])
    BY <1>2, <1>4, <1>5 DEF Path
  <1> QED BY <1>2, <1>4, <1>6 DEF At

\* A reference has a place.
LEMMA SuccSite ==
    ASSUME NEW y \in Obj, NEW x \in Succ(y)
    PROVE  \E i : <<y, i>> \in Sites(x)
  <1>1. PICK i \in DOMAIN heap[y].refs : heap[y].refs[i] = x
    BY DEF Succ
  <1> QED BY <1>1 DEF Sites

\* Where nothing is shared, only one number of references leads to an object.
LEMMA OneWay ==
    ASSUME roots \subseteq Obj, Unshared
    PROVE  \A x \in Obj : \A m, n \in Nat : At(x, m) /\ At(x, n) => m = n
  <1> DEFINE T == {m \in Nat : \E x \in Obj : \E n \in Nat : At(x, m) /\ At(x, n) /\ m # n}
  <1>1. SUFFICES ASSUME T # {} PROVE FALSE
    OBVIOUS
  <1>2. PICK m \in T : \A k \in T : m <= k
    BY <1>1, Smallest
  <1>3. PICK x \in Obj, n \in Nat : m \in Nat /\ At(x, m) /\ At(x, n) /\ m # n
    BY <1>2
  <1>4. ASSUME NEW k \in Nat, At(x, k + 1)
        PROVE  x \notin roots
    <2>1. PICK y \in Obj : x \in Succ(y)
      BY <1>4, AtLast
    <2>2. Sites(x) # {}
      BY <2>1, SuccSite
    <2> QED BY <2>2 DEF Unshared
  <1>5. m # 0
    <2> SUFFICES ASSUME m = 0 PROVE FALSE
      OBVIOUS
    <2>1. x \in roots
      BY <1>3, AtRoot
    <2>2. PICK k \in Nat : n = k + 1
      <3>1. n - 1 \in Nat /\ n = (n - 1) + 1
        BY <1>3
      <3> QED BY <3>1
    <2> QED BY <1>3, <1>4, <2>1, <2>2
  <1>6. PICK m1 \in Nat : m = m1 + 1
    <2>1. m - 1 \in Nat /\ m = (m - 1) + 1
      BY <1>3, <1>5
    <2> QED BY <2>1
  <1>7. n # 0
    <2> SUFFICES ASSUME n = 0 PROVE FALSE
      OBVIOUS
    <2>1. x \in roots
      BY <1>3, AtRoot
    <2> QED BY <1>3, <1>4, <1>6, <2>1
  <1>8. PICK n1 \in Nat : n = n1 + 1
    <2>1. n - 1 \in Nat /\ n = (n - 1) + 1
      BY <1>3, <1>7
    <2> QED BY <2>1
  <1>9. PICK y \in Obj : At(y, m1) /\ x \in Succ(y)
    BY <1>3, <1>6, AtLast
  <1>10. PICK z \in Obj : At(z, n1) /\ x \in Succ(z)
    BY <1>3, <1>8, AtLast
  <1>11. y = z
    <2>1. PICK i : <<y, i>> \in Sites(x)
      BY <1>9, SuccSite
    <2>2. PICK j : <<z, j>> \in Sites(x)
      BY <1>10, SuccSite
    <2>3. <<y, i>> = <<z, j>>
      BY <2>1, <2>2 DEF Unshared
    <2> QED BY <2>3
  <1>12. m1 \in T /\ ~(m <= m1)
    BY <1>3, <1>6, <1>8, <1>9, <1>10, <1>11
  <1> QED BY <1>2, <1>12

-----------------------------------------------------------------------------
(* The frames.                                                             *)

\* The frames on the stack.
LEMMA StackFacts ==
    ASSUME PInv
    PROVE  /\ heap \in HTab /\ stack \in Seq(Call) /\ Len(stack) \in Nat
           /\ \A k \in 1 .. Len(stack) : stack[k] \in Call /\ stack[k].obj \in Obj
                                         /\ stack[k].i \in Nat \ {0} /\ stack[k].indent \in Nat
           /\ stack # <<>> => /\ top = stack[1] /\ top \in Call /\ 1 \in 1 .. Len(stack)
                              /\ top.indent = Len(stack) - 1
  <1>1. heap \in HTab /\ stack \in Seq(Call) /\ Len(stack) \in Nat
    BY DEF PInv, Typed
  <1>2. \A k \in 1 .. Len(stack) : stack[k] \in Call
    BY <1>1, SeqElement
  <1>3. \A f \in Call : f.obj \in Obj /\ f.i \in Nat \ {0} /\ f.indent \in Nat
    BY DEF Call
  <1>4. ASSUME stack # <<>>
        PROVE  top = stack[1] /\ top \in Call /\ 1 \in 1 .. Len(stack)
    BY <1>1, <1>4, PopSeq DEF top
  <1>5. stack # <<>> => top.indent = Len(stack) - 1
    BY <1>4 DEF PInv, Opened
  <1> QED BY <1>1, <1>2, <1>3, <1>4, <1>5

\* A frame after a turn of its loop.
Turned(f) ==
    /\ f \in Call /\ f.obj = top.obj /\ f.indent = top.indent /\ f.i = top.i + 1
    /\ Accounted(f)

\* What Flushed changes.
LEMMA FlushedFacts ==
    ASSUME NEW f \in Call
    PROVE  /\ Flushed(f) \in Call /\ Flushed(f).obj = f.obj /\ Flushed(f).indent = f.indent
           /\ Flushed(f).i = f.i /\ Flushed(f).last_cnt = 0 /\ Flushed(f).run = <<>>
           /\ Flushed(f).label = f.label /\ Flushed(f).last_pid = f.last_pid
           /\ Flushed(f).told = f.told + f.last_cnt
  <1>0. f.told + f.last_cnt \in Nat /\ <<>> \in Seq(Int)
    BY DEF Call
  <1>1. PICK t, r, z : /\ t \in Nat /\ r \in Seq(Int) /\ z \in Nat
                       /\ t = f.told + f.last_cnt /\ r = <<>> /\ z = 0
    BY <1>0
  <1>2. Flushed(f) = [f EXCEPT !.told = t, !.last_cnt = z, !.run = r]
    BY <1>1 DEF Flushed
  <1>3. Flushed(f) \in Call
    <2>1. [f EXCEPT !.told = t, !.last_cnt = z, !.run = r] \in Call
      BY <1>1 DEF Call
    <2> QED BY <1>2, <2>1
  <1>4. /\ Flushed(f).obj = f.obj /\ Flushed(f).indent = f.indent
        /\ Flushed(f).i = f.i /\ Flushed(f).last_cnt = z /\ Flushed(f).run = r
        /\ Flushed(f).label = f.label /\ Flushed(f).last_pid = f.last_pid
        /\ Flushed(f).told = t
    BY <1>2 DEF Call
  <1> QED BY <1>1, <1>3, <1>4

\* A frame after the first element of a run, and after another.
Begun(f, x)    == [f EXCEPT !.i = @ + 1, !.last_cnt = 1, !.last_pid = x, !.run = <<x>>, !.label = x]
Extended(f, x) == [f EXCEPT !.i = @ + 1, !.last_cnt = @ + 1, !.run = Append(@, x)]

\* What the other changes of a frame make of it.
LEMMA StepFacts ==
    ASSUME NEW f \in Call, NEW g, g = [f EXCEPT !.i = @ + 1, !.told = @ + 1]
    PROVE  /\ g \in Call /\ g.obj = f.obj /\ g.indent = f.indent /\ g.i = f.i + 1
           /\ g.last_cnt = f.last_cnt /\ g.run = f.run /\ g.label = f.label
           /\ g.last_pid = f.last_pid /\ g.told = f.told + 1
  <1>1. PICK t \in Nat, n \in Nat \ {0} : t = f.told + 1 /\ n = f.i + 1
    BY DEF Call
  <1>2. g = [f EXCEPT !.i = n, !.told = t]
    BY <1>1
  <1>3. g \in Call
    BY <1>2 DEF Call
  <1>4. /\ g.obj = f.obj /\ g.indent = f.indent /\ g.i = n
        /\ g.last_cnt = f.last_cnt /\ g.run = f.run /\ g.label = f.label
        /\ g.last_pid = f.last_pid /\ g.told = t
    BY <1>2 DEF Call
  <1> QED BY <1>1, <1>3, <1>4

\* A run begins.
LEMMA BeginFacts ==
    ASSUME NEW f \in Call, NEW x \in Int, NEW g, g = Begun(f, x)
    PROVE  /\ g \in Call /\ g.obj = f.obj /\ g.indent = f.indent /\ g.i = f.i + 1
           /\ g.last_cnt = 1 /\ g.run = <<x>> /\ g.label = x /\ g.last_pid = x /\ g.told = f.told
  <1>0. f.i + 1 \in Nat \ {0} /\ <<x>> \in Seq(Int)
    BY DEF Call
  <1>1. PICK n, r, z : /\ n \in Nat \ {0} /\ r \in Seq(Int) /\ z \in Nat
                       /\ n = f.i + 1 /\ r = <<x>> /\ z = 1
    BY <1>0
  <1>2. g = [f EXCEPT !.i = n, !.last_cnt = z, !.last_pid = x, !.run = r, !.label = x]
    BY <1>1 DEF Begun
  <1>3. g \in Call
    <2>1. [f EXCEPT !.i = n, !.last_cnt = z, !.last_pid = x, !.run = r, !.label = x] \in Call
      BY <1>1 DEF Call
    <2> QED BY <1>2, <2>1
  <1>4. /\ g.obj = f.obj /\ g.indent = f.indent /\ g.i = n
        /\ g.last_cnt = z /\ g.run = r /\ g.label = x /\ g.last_pid = x /\ g.told = f.told
    BY <1>2 DEF Call
  <1> QED BY <1>1, <1>3, <1>4

\* A run grows.
LEMMA ExtendFacts ==
    ASSUME NEW f \in Call, NEW x \in Int, NEW g, g = Extended(f, x)
    PROVE  /\ g \in Call /\ g.obj = f.obj /\ g.indent = f.indent /\ g.i = f.i + 1
           /\ g.last_cnt = f.last_cnt + 1 /\ g.run = Append(f.run, x)
           /\ g.label = f.label /\ g.last_pid = f.last_pid /\ g.told = f.told
  <1>1. f.run \in Seq(Int)
    BY DEF Call
  <1>0. f.i + 1 \in Nat \ {0} /\ f.last_cnt + 1 \in Nat /\ Append(f.run, x) \in Seq(Int)
    BY <1>1, AppendSeq DEF Call
  <1>2. PICK n, c, r : /\ n \in Nat \ {0} /\ c \in Nat /\ r \in Seq(Int)
                       /\ n = f.i + 1 /\ c = f.last_cnt + 1 /\ r = Append(f.run, x)
    BY <1>0
  <1>3. g = [f EXCEPT !.i = n, !.last_cnt = c, !.run = r]
    BY <1>2 DEF Extended
  <1>4. g \in Call
    <2>1. [f EXCEPT !.i = n, !.last_cnt = c, !.run = r] \in Call
      BY <1>2 DEF Call
    <2> QED BY <1>3, <2>1
  <1>5. /\ g.obj = f.obj /\ g.indent = f.indent /\ g.i = n
        /\ g.last_cnt = c /\ g.run = r
        /\ g.label = f.label /\ g.last_pid = f.last_pid /\ g.told = f.told
    BY <1>3 DEF Call
  <1> QED BY <1>2, <1>4, <1>5

\* Every turn of a loop goes on by one, with its account in order.
LEMMA TurnFacts ==
    ASSUME PInv, FollowField \/ SkipField \/ FollowElement \/ BeginRun \/ ExtendRun
    PROVE  \E f : Turned(f) /\ stack' = <<f>> \o Tail(stack)
  <1>1. pc = "loop" /\ stack # <<>> /\ top.i <= Len(heap[top.obj].refs)
    BY DEF PInv, Control, FollowField, SkipField, FollowElement, BeginRun, ExtendRun, looping
  <1>2. /\ top = stack[1] /\ top \in Call /\ 1 \in 1 .. Len(stack) /\ heap \in HTab
        /\ top.obj \in Obj /\ top.i \in Nat \ {0}
    BY <1>1, StackFacts
  <1>3. Accounted(top)
    BY <1>2 DEF PInv, Runs
  <1>4. ident \in Int
    <2>1. top.i \in 1 .. Len(heap[top.obj].refs) /\ Len(heap[top.obj].refs) \in Nat
      BY <1>1, <1>2, HeapFacts
    <2>2. ident \in Obj \cup NoObject
      BY <1>2, <2>1, HeapFacts DEF ident
    <2> QED BY <2>2, ObjAssumption DEF NoObject, Ones
  <1>5. CASE FollowField \/ SkipField
    <2>0. PICK f : f = [top EXCEPT !.i = @ + 1]
      OBVIOUS
    <2>1. stack' = <<f>> \o Tail(stack) /\ heap[top.obj].kind # "oarray"
      BY <1>5, <2>0 DEF FollowField, SkipField, Update, isArray
    <2>2. f \in Call /\ f.obj = top.obj /\ f.indent = top.indent /\ f.i = top.i + 1
      <3>1. PICK t \in Call, n \in Nat \ {0} : t = top /\ n = t.i + 1
        BY <1>2
      <3>2. f = [t EXCEPT !.i = n]
        BY <2>0, <3>1
      <3>3. f \in Call /\ f.obj = t.obj /\ f.indent = t.indent /\ f.i = n
        BY <3>2 DEF Call
      <3> QED BY <3>1, <3>3
    <2>3. Accounted(f)
      BY <2>1, <2>2 DEF Accounted
    <2> QED BY <2>1, <2>2, <2>3 DEF Turned
  <1>6. CASE FollowElement
    <2>1. PICK g : g = Flushed(top)
      OBVIOUS
    <2>2. /\ g \in Call /\ g.obj = top.obj /\ g.indent = top.indent
          /\ g.i = top.i /\ g.last_cnt = 0 /\ g.run = <<>>
          /\ g.label = top.label /\ g.last_pid = top.last_pid
          /\ g.told = top.told + top.last_cnt
      BY <1>2, <1>3, <2>1, FlushedFacts
    <2>9. PICK f : f = [g EXCEPT !.i = @ + 1, !.told = @ + 1]
      OBVIOUS
    <2>3. stack' = <<f>> \o Tail(stack) /\ heap[top.obj].kind = "oarray"
      BY <1>6, <2>1, <2>9 DEF FollowElement, Update, isArray
    <2>4. /\ f \in Call /\ f.obj = g.obj /\ f.indent = g.indent /\ f.i = g.i + 1
          /\ f.last_cnt = g.last_cnt /\ f.run = g.run /\ f.label = g.label
          /\ f.last_pid = g.last_pid /\ f.told = g.told + 1
      BY <2>2, <2>9, StepFacts, ZenonT(60)
    <2>5. Accounted(f)
      <3>1. top.told + top.last_cnt = top.i - 1 /\ (top.label = top.last_pid \/ top.last_pid = Ones)
        BY <1>3, <2>3 DEF Accounted
      <3>2. f.told = (top.i - 1) + 1 /\ f.last_cnt = 0 /\ f.run = <<>> /\ f.i = top.i + 1
        BY <2>2, <2>4, <3>1
      <3> QED BY <1>2, <2>2, <2>4, <3>1, <3>2 DEF Accounted
    <2> QED BY <2>2, <2>3, <2>4, <2>5 DEF Turned
  <1>7. CASE BeginRun
    <2>1. PICK g : g = Flushed(top)
      OBVIOUS
    <2>2. /\ g \in Call /\ g.obj = top.obj /\ g.indent = top.indent
          /\ g.i = top.i /\ g.told = top.told + top.last_cnt
      BY <1>2, <1>3, <2>1, FlushedFacts
    <2>9. PICK f : f = Begun(g, ident)
      OBVIOUS
    <2>3. stack' = <<f>> \o Tail(stack) /\ heap[top.obj].kind = "oarray"
      BY <1>7, <2>1, <2>9 DEF BeginRun, Begun, Update, isArray
    <2>4. /\ f \in Call /\ f.obj = g.obj /\ f.indent = g.indent /\ f.i = g.i + 1
          /\ f.last_cnt = 1 /\ f.run = <<ident>> /\ f.label = ident
          /\ f.last_pid = ident /\ f.told = g.told
      BY <1>4, <2>2, <2>9, BeginFacts
    <2>5. Accounted(f)
      <3>1. top.told + top.last_cnt = top.i - 1
        BY <1>3, <2>3 DEF Accounted
      <3>2. f.told = top.i - 1 /\ f.last_cnt = 1 /\ f.i = top.i + 1
        BY <2>2, <2>4, <3>1
      <3>3. Len(f.run) = 1 /\ \A n \in 1 .. Len(f.run) : f.run[n] = f.last_pid
        BY <2>4
      <3> QED BY <1>2, <2>4, <3>2, <3>3 DEF Accounted
    <2> QED BY <2>2, <2>3, <2>4, <2>5 DEF Turned
  <1>8. CASE ExtendRun
    <2>9. PICK f : f = Extended(top, ident)
      OBVIOUS
    <2>1. stack' = <<f>> \o Tail(stack) /\ heap[top.obj].kind = "oarray" /\ ident = top.last_pid
      BY <1>8, <2>9 DEF ExtendRun, Extended, Update, isArray
    <2>2. top.run \in Seq(Int) /\ Append(top.run, ident) \in Seq(Int)
      BY <1>2, <1>4, AppendSeq DEF Call
    <2>3. /\ f \in Call /\ f.obj = top.obj /\ f.indent = top.indent /\ f.i = top.i + 1
          /\ f.last_cnt = top.last_cnt + 1 /\ f.run = Append(top.run, ident)
          /\ f.label = top.label /\ f.last_pid = top.last_pid /\ f.told = top.told
      <3>1. PICK t \in Call, x \in Int : t = top /\ x = ident
        BY <1>2, <1>4
      <3>2. f = Extended(t, x)
        BY <2>9, <3>1
      <3>3. /\ f \in Call /\ f.obj = t.obj /\ f.indent = t.indent /\ f.i = t.i + 1
            /\ f.last_cnt = t.last_cnt + 1 /\ f.run = Append(t.run, x)
            /\ f.label = t.label /\ f.last_pid = t.last_pid /\ f.told = t.told
        BY <3>2, ExtendFacts, ZenonT(60)
      <3> QED BY <3>1, <3>3
    <2>4. Accounted(f)
      <3>1. /\ top.told + top.last_cnt = top.i - 1 /\ (top.label = top.last_pid \/ top.last_pid = Ones)
            /\ top.last_cnt = Len(top.run) /\ \A n \in 1 .. Len(top.run) : top.run[n] = top.last_pid
        BY <1>3, <2>1 DEF Accounted
      <3>2. f.told + f.last_cnt = f.i - 1
        <4>1. top.told \in Nat /\ top.last_cnt \in Nat /\ top.i \in Nat
          BY <1>2 DEF Call
        <4>2. f.told = top.told /\ f.last_cnt = top.last_cnt + 1 /\ f.i = top.i + 1
          BY <2>3
        <4>3. \A a, b, i \in Nat : a + b = i - 1 => a + (b + 1) = (i + 1) - 1
          OBVIOUS
        <4>4. top.told + (top.last_cnt + 1) = (top.i + 1) - 1
          BY <3>1, <4>1, <4>3, Zenon
        <4> QED BY <4>2, <4>4, Zenon
      <3>3. Len(f.run) = Len(top.run) + 1 /\ \A n \in 1 .. Len(f.run) : f.run[n] = f.last_pid
        BY <1>4, <2>1, <2>2, <2>3, <3>1
      <3> QED BY <2>3, <3>1, <3>2, <3>3 DEF Accounted
    <2> QED BY <2>1, <2>3, <2>4 DEF Turned
  <1> QED BY <1>5, <1>6, <1>7, <1>8

-----------------------------------------------------------------------------
(* The steps.                                                              *)

\* What a turn of a loop adds to what was passed.
LEMMA PassedTurn ==
    ASSUME NEW f, NEW g, heap \in HTab, f \in Call, g \in Call, f.obj = g.obj, f.i = g.i + 1,
           g.i <= Len(heap[g.obj].refs)
    PROVE  Passed(f) \subseteq Passed(g) \cup ({heap[g.obj].refs[g.i]} \cap Table)
  <1>1. g.i \in Nat /\ g.obj \in Obj
    BY DEF Call
  <1>2. \A n \in 1 .. f.i - 1 : n = g.i \/ n \in 1 .. g.i - 1
    BY <1>1
  <1> QED BY <1>2 DEF Passed

\* A turn of a loop.
LEMMA TurnPInv ==
    ASSUME PInv, FollowField \/ SkipField \/ FollowElement \/ BeginRun \/ ExtendRun
    PROVE  PInv'
  <1>1. /\ UNCHANGED <<fixed, round, todo, loaded, visit, last, fields>>
        /\ pc = "loop" /\ stack # <<>> /\ top.i <= Len(heap[top.obj].refs) /\ arg = NoArg
    BY DEF PInv, Control, FollowField, SkipField, FollowElement, BeginRun, ExtendRun, looping
  <1>2. PICK f : Turned(f) /\ stack' = <<f>> \o Tail(stack)
    BY TurnFacts
  <1>3. \/ pc' = "loop" /\ arg' = NoArg /\ ident \notin Table
        \/ pc' = "call" /\ ident \in Table /\ arg' = [obj |-> ident, indent |-> top.indent + 1]
    BY <1>1 DEF FollowField, SkipField, FollowElement, BeginRun, ExtendRun
  <1>4. /\ heap \in HTab /\ stack \in Seq(Call) /\ Len(stack) \in Nat
        /\ \A k \in 1 .. Len(stack) : stack[k] \in Call /\ stack[k].obj \in Obj
        /\ top = stack[1] /\ top \in Call /\ 1 \in 1 .. Len(stack) /\ top.indent = Len(stack) - 1
        /\ top.obj \in Obj /\ top.i \in Nat \ {0} /\ top.indent \in Nat
    BY <1>1, StackFacts
  <1>5. /\ f \in Call /\ f.obj = top.obj /\ f.indent = top.indent /\ f.i = top.i + 1
        /\ Accounted(f)
    BY <1>2 DEF Turned
  <1>6. /\ stack' \in Seq(Call) /\ Len(stack') = Len(stack) /\ stack'[1] = f
        /\ \A k \in 2 .. Len(stack) : stack'[k] = stack[k]
    BY <1>1, <1>2, <1>4, <1>5, SetTopSeq
  <1>7. \A k \in 1 .. Len(stack) : k = 1 \/ k \in 2 .. Len(stack)
    BY <1>4
  <1>8. stack' # <<>>
    BY <1>4, <1>6
  <1>9. UNCHANGED <<heap, roots, plimit, every, born>>
    BY <1>1 DEF fixed
  <1>0. Table' = Table /\ resolved' = resolved /\ shown' = shown /\ Table \subseteq Obj
    BY <1>1, FixedFacts, SetFacts
  <1>10. ident \in Table => ident \in Succ(top.obj)
    <2>1. top.i \in DOMAIN heap[top.obj].refs
      BY <1>1, <1>4, HeapFacts
    <2> QED BY <2>1 DEF Succ, ident
  <1>11. Typed'
    <2>1. arg' \in [obj : Obj \cup {0}, indent : Nat]
      BY <1>0, <1>3, <1>4 DEF NoArg
    <2>2. pc' \in {"drive", "call", "loop", "done", "overflow", "unset"}
      BY <1>3
    <2> QED BY <1>0, <1>1, <1>6, <1>9, <2>1, <2>2 DEF PInv, Typed
  <1>12. Control'
    <2>1. pc' \in {"call", "unset"} => arg'.obj \in Table' /\ arg'.indent = Len(stack')
      BY <1>0, <1>3, <1>4, <1>6
    <2>2. pc' \notin {"call", "unset"} => arg' = NoArg
      BY <1>3
    <2>3. round' # 0
      BY <1>1 DEF PInv, Control
    <2> QED BY <1>3, <1>8, <2>1, <2>2, <2>3 DEF Control
  <1>13. Opened'
    BY <1>4, <1>5, <1>6, <1>7, <1>9 DEF PInv, Opened
  <1>14. Loads' /\ InResolved'
    <2>1. Loads'
      BY <1>1, LoadsSame DEF PInv
    <2>2. \A k \in 1 .. Len(stack') : stack'[k].obj \in resolved \/ heap[stack'[k].obj].refs = <<>>
      BY <1>4, <1>5, <1>6, <1>7 DEF PInv, InResolved
    <2>3. pc' \in {"call", "unset"} => arg'.obj \in Succ(stack'[1].obj) /\ pc' = "call"
      BY <1>3, <1>4, <1>5, <1>6, <1>10
    <2>4. \A o : Succ(o)' = Succ(o)
      BY <1>1, FixedFacts
    <2>5. pc' \in {"call", "unset"} => arg'.obj \in Succ(stack[1].obj)'
      BY <2>3, <2>4
    <2> QED BY <1>0, <1>8, <1>9, <2>1, <2>2, <2>3, <2>5 DEF InResolved
  <1>15. Marked'
    BY <1>0, <1>1 DEF PInv, Marked
  <1>16. Runs'
    <2>1. \A g : Accounted(g)' = Accounted(g)
      BY <1>1, FixedFacts
    <2>2. \A k \in 1 .. Len(stack') : Accounted(stack'[k])
      BY <1>5, <1>6, <1>7 DEF PInv, Runs
    <2> QED BY <1>9, <2>2 DEF Runs, Accounted
  <1>17. Traced'
    <2>1. \A x, m : At(x, m)' = At(x, m)
      BY <1>1, FixedFacts
    <2>2. \A k \in 1 .. Len(stack') : At(stack'[k].obj, stack'[k].indent)
      BY <1>4, <1>5, <1>6, <1>7 DEF PInv, Traced
    <2>3. pc' = "call" => At(arg'.obj, arg'.indent)
      <3>1. At(top.obj, top.indent)
        BY <1>4 DEF PInv, Traced
      <3>2. ident \in Table => At(ident, top.indent + 1)
        BY <1>4, <1>10, <3>1, AtNext
      <3> QED BY <1>3, <3>2
    <2>5. ASSUME NEW k \in 1 .. Len(stack')
          PROVE  At(stack[k].obj, stack[k].indent)'
      BY <2>1, <2>2
    <2>6. pc' = "call" => At(arg.obj, arg.indent)'
      BY <2>1, <2>3
    <2>7. plimit' # 0 /\ round' # 0 =>
             \A x \in Obj : last'[x] = round' => \E m \in 0 .. plimit' : At(x, m)'
      BY <1>1, <1>9, <2>1 DEF PInv, Traced
    <2> QED BY <2>5, <2>6, <2>7 DEF Traced
  <1>18. Printed'
    <2>1. \A o : Due(o)' = Due(o) /\ Known(o)' = Known(o)
      BY <1>1, FixedFacts, KnownFacts
    <2>2. /\ \A k \in 1 .. Len(stack) :
               /\ stack[k].obj \in shown
               /\ Due(stack[k].obj) => Passed(stack[k]) \subseteq shown
          /\ \A o \in shown : Due(o) => Known(o) \subseteq shown \/ \E k \in 1 .. Len(stack) : stack[k].obj = o
          /\ round > 0 => \A o \in roots \cap Table : o \in todo \cup shown
      BY <1>1 DEF PInv, Printed, Pending
    <2>3. Passed(f) \subseteq Passed(top) \cup Pending'
      <3>1. Passed(f) \subseteq Passed(top) \cup ({ident} \cap Table)
        BY <1>1, <1>4, <1>5, PassedTurn DEF ident
      <3>2. {ident} \cap Table \subseteq Pending'
        BY <1>3 DEF Pending
      <3> QED BY <3>1, <3>2
    <2>4. ASSUME NEW k \in 1 .. Len(stack')
          PROVE  /\ stack'[k].obj \in shown
                 /\ Due(stack'[k].obj) =>
                       Passed(stack'[k]) \subseteq shown \cup (IF k = 1 THEN Pending' ELSE {})
      <3>1. CASE k = 1
        BY <1>4, <1>5, <1>6, <2>2, <2>3, <3>1
      <3>2. CASE k \in 2 .. Len(stack)
        BY <1>4, <1>6, <2>2, <3>2
      <3> QED BY <1>6, <1>7, <3>1, <3>2
    <2>5. ASSUME NEW o \in shown, Due(o)
          PROVE  Known(o) \subseteq shown \/ \E k \in 1 .. Len(stack') : stack'[k].obj = o
      <3>1. CASE Known(o) \subseteq shown
        BY <3>1
      <3>2. CASE \E k \in 1 .. Len(stack) : stack[k].obj = o
        <4>1. PICK k \in 1 .. Len(stack) : stack[k].obj = o
          BY <3>2
        <4>2. stack'[k].obj = o
          BY <1>4, <1>5, <1>6, <1>7, <4>1
        <4> QED BY <1>6, <4>2
      <3> QED BY <2>2, <2>5, <3>1, <3>2
    <2>6. \A g : Passed(g)' = Passed(g)
      BY <1>1, FixedFacts
    <2>7. \A k \in 1 .. Len(stack') : /\ Due(stack[k].obj)' <=> Due(stack'[k].obj)
                                      /\ Passed(stack[k])' = Passed(stack'[k])
      BY <2>1, <2>6
    <2> QED BY <1>0, <1>1, <1>9, <2>1, <2>2, <2>4, <2>5, <2>7 DEF Printed
  <1> QED BY <1>11, <1>12, <1>13, <1>14, <1>15, <1>16, <1>17, <1>18 DEF PInv

\* A limit lets through what is not further away than it says.
LEMMA LimitFacts ==
    ASSUME PInv, pc = "call", plimit # 0
    PROVE  /\ ~BelowLimit(arg.indent) => arg.indent \in 0 .. plimit
           /\ BelowLimit(arg.indent) => stack # <<>> /\ arg.indent > plimit
  <1>1. plimit \in Nat /\ arg.indent = Len(stack) /\ Len(stack) \in Nat
    BY BoundsAssumption DEF PInv, Typed, Control
  <1>2. stack = <<>> => Len(stack) = 0
    OBVIOUS
  <1> QED BY <1>1, <1>2 DEF BelowLimit

\* The callee is printed now or has been printed, or the limit cuts it off; then
\* what its caller refers to is not due.
LEMMA CalleeShown ==
    ASSUME PInv, pc = "call", stack # <<>>, callee \notin visit, BelowLimit(arg.indent)
    PROVE  ~Due(stack[1].obj)
  <1> SUFFICES ASSUME Due(stack[1].obj) PROVE FALSE
    OBVIOUS
  <1>1. plimit # 0
    BY DEF BelowLimit
  <1>2. arg.indent > plimit /\ arg.indent = Len(stack) /\ plimit \in Nat /\ roots \subseteq Obj
    BY <1>1, LimitFacts, BoundsAssumption DEF PInv, Typed, Control
  <1>3. /\ stack[1].indent = Len(stack) - 1 /\ stack[1].obj \in Obj /\ stack[1].indent \in Nat
        /\ At(stack[1].obj, stack[1].indent) /\ Len(stack) \in Nat
    BY StackFacts DEF PInv, Traced
  <1>4. Unshared /\ \E m \in Nat : m < plimit /\ At(stack[1].obj, m)
    BY <1>1 DEF Due
  <1>5. stack[1].indent < plimit
    BY <1>2, <1>3, <1>4, OneWay
  <1> QED BY <1>2, <1>3, <1>5

\* A line is printed.
LEMMA LineFacts ==
    ASSUME PInv, pc = "call", last' = [last EXCEPT ![callee] = round]
    PROVE  /\ callee \in Table /\ callee \in Obj /\ round \in Nat \ {0}
           /\ shown' = shown \cup {callee}
           /\ last' \in [Obj -> 0 .. round] /\ last'[callee] = round
           /\ \A o \in Obj \ {callee} : last'[o] = last[o]
  <1>1. callee \in Table /\ callee \in Obj
    BY SetFacts DEF PInv, Control, callee
  <1>2. round \in Nat \ {0} /\ last \in [Obj -> 0 .. round]
    BY DEF PInv, Control, Typed
  <1>3. last' \in [Obj -> 0 .. round] /\ last'[callee] = round
        /\ \A o \in Obj \ {callee} : last'[o] = last[o]
    BY <1>1, <1>2
  <1>4. shown' = shown \cup {callee}
    BY <1>1, <1>2, <1>3 DEF shown
  <1> QED BY <1>1, <1>2, <1>3, <1>4

\* A line is printed only of what the limit lets through.
LEMMA LineTraced ==
    ASSUME PInv, pc = "call", UNCHANGED <<fixed, round>>,
           \/ last' = last
           \/ last' = [last EXCEPT ![callee] = round] /\ ~BelowLimit(arg.indent)
    PROVE  plimit' # 0 /\ round' # 0 =>
              \A x \in Obj : last'[x] = round' => \E m \in 0 .. plimit' : At(x, m)'
  <1>1. plimit' = plimit /\ round' = round /\ \A x, m : At(x, m)' = At(x, m)
    BY FixedFacts DEF fixed
  <1> SUFFICES ASSUME plimit # 0, round # 0, NEW x \in Obj, last'[x] = round
               PROVE  \E m \in 0 .. plimit : At(x, m)
    BY <1>1
  <1>2. CASE last[x] = round
    BY <1>2 DEF PInv, Traced
  <1>3. CASE last[x] # round
    <2>1. last' = [last EXCEPT ![callee] = round] /\ ~BelowLimit(arg.indent)
      BY <1>3
    <2>2. x = callee
      BY <1>3, <2>1, LineFacts
    <2>3. arg.indent \in 0 .. plimit /\ At(arg.obj, arg.indent)
      BY <2>1, LimitFacts DEF PInv, Traced
    <2> QED BY <2>2, <2>3 DEF callee
  <1> QED BY <1>2, <1>3

\* A call that reads unset values.
LEMMA UnsetPInv ==
    ASSUME PInv, PrintUnset
    PROVE  PInv'
  <1>1. /\ UNCHANGED <<fixed, round, todo, loaded, visit, stack, arg, last, fields>>
        /\ pc = "call" /\ pc' = "unset" /\ arg.obj \notin resolved
    BY DEF PrintUnset, callee
  <1>2. UNCHANGED <<heap, roots, plimit, every, born>>
    BY <1>1 DEF fixed
  <1>3. /\ Table' = Table /\ resolved' = resolved /\ shown' = shown
        /\ \A o : Succ(o)' = Succ(o)
        /\ \A x, m : At(x, m)' = At(x, m)
        /\ \A f : Accounted(f)' = Accounted(f)
    BY <1>1, FixedFacts, SetFacts
  <1>4. Typed' /\ Opened' /\ Marked'
    BY <1>1, <1>2, <1>3 DEF PInv, Typed, Opened, Marked
  <1>5. Control'
    BY <1>1, <1>3 DEF PInv, Control
  <1>6. Loads'
    BY <1>1, LoadsSame DEF PInv
  <1>7. InResolved'
    <2>1. Succ(stack[1].obj)' = Succ(stack[1].obj)
      BY <1>1, <1>3
    <2> QED BY <1>1, <1>2, <1>3, <2>1 DEF PInv, InResolved
  <1>8. Runs' /\ Traced'
    BY <1>1, <1>2, <1>3 DEF PInv, Runs, Traced
  <1>9. Printed'
    BY <1>1 DEF Printed
  <1> QED BY <1>4, <1>5, <1>6, <1>7, <1>8, <1>9 DEF PInv

\* A call that returns at once.
LEMMA ReturnPInv ==
    ASSUME PInv, PrintRecursive \/ PrintNothing \/ PrintVArray
    PROVE  PInv'
  <1>1. /\ UNCHANGED <<fixed, round, todo, loaded, visit, stack, fields>>
        /\ pc = "call" /\ Resume /\ callee = arg.obj /\ callee \in Table
        /\ round # 0
    BY DEF PInv, Control, PrintRecursive, PrintNothing, PrintVArray, Printable, callee
  <1>2. UNCHANGED <<heap, roots, plimit, every, born>>
    BY <1>1 DEF fixed
  <1>0. Table' = Table /\ resolved' = resolved /\ Table \subseteq Obj
    BY <1>1, FixedFacts, SetFacts
  <1>3. /\ pc' \in {"drive", "loop"} /\ arg' = NoArg
        /\ pc' = "loop" <=> stack # <<>>
    BY <1>1 DEF Resume
  <1>14. \/ last' = last /\ (callee \in shown \/ (callee \notin visit /\ BelowLimit(arg.indent)))
         \/ /\ last' = [last EXCEPT ![callee] = round] /\ Succ(callee) = {} /\ ~BelowLimit(arg.indent)
    <2>1. CASE PrintRecursive
      BY <2>1 DEF PInv, Marked, PrintRecursive
    <2>2. CASE PrintNothing
      BY <2>2 DEF PrintNothing
    <2>3. CASE PrintVArray
      <3>1. heap \in HTab /\ callee \in Obj
        BY <1>0, <1>1 DEF PInv, Typed
      <3> QED BY <2>3, <3>1, HeapFacts DEF PrintVArray, Printable
    <2> QED BY <2>1, <2>2, <2>3
  <1>4. /\ \/ shown' = shown /\ (callee \in shown \/ (callee \notin visit /\ BelowLimit(arg.indent)))
           \/ shown' = shown \cup {callee} /\ Succ(callee) = {} /\ ~BelowLimit(arg.indent)
        /\ last' \in [Obj -> 0 .. round]
        /\ \A o \in shown' : last'[o] = last[o] \/ (o = callee /\ Succ(callee) = {})
    <2>1. last \in [Obj -> 0 .. round] /\ shown \subseteq Obj
      BY <1>0 DEF PInv, Typed
    <2>2. CASE last' = last /\ (callee \in shown \/ (callee \notin visit /\ BelowLimit(arg.indent)))
      BY <2>1, <2>2, SetFacts
    <2>3. CASE last' = [last EXCEPT ![callee] = round] /\ Succ(callee) = {} /\ ~BelowLimit(arg.indent)
      <3>1. /\ shown' = shown \cup {callee} /\ last' \in [Obj -> 0 .. round] /\ callee \in Obj
            /\ \A o \in Obj \ {callee} : last'[o] = last[o]
        BY <1>1, <2>3, LineFacts
      <3> QED BY <2>1, <2>3, <3>1
    <2> QED BY <1>14, <2>2, <2>3
  <1>5. shown \subseteq shown' /\ shown' \subseteq Table /\ shown' \subseteq shown \cup {callee}
    BY <1>1, <1>4 DEF PInv, Typed
  <1>6. Typed'
    <2>1. arg' \in [obj : Obj \cup {0}, indent : Nat]
      BY <1>3 DEF NoArg
    <2> QED BY <1>0, <1>1, <1>2, <1>3, <1>4, <1>5, <2>1 DEF PInv, Typed
  <1>7. Control'
    <2>1. round' # 0
      BY <1>1 DEF PInv, Control
    <2> QED BY <1>1, <1>3, <2>1 DEF Control
  <1>8. Opened'
    BY <1>1, <1>2 DEF PInv, Opened
  <1>9. Loads' /\ InResolved'
    <2>1. Loads'
      BY <1>1, LoadsSame DEF PInv
    <2> QED BY <1>0, <1>1, <1>2, <1>3, <2>1 DEF PInv, InResolved
  <1>10. Marked'
    BY <1>1, <1>5 DEF PInv, Marked
  <1>11. Runs'
    <2>1. \A f : Accounted(f)' = Accounted(f)
      BY <1>1, FixedFacts
    <2> QED BY <1>1, <2>1 DEF PInv, Runs
  <1>12. Traced'
    <2>1. \A x, m : At(x, m)' = At(x, m)
      BY <1>1, FixedFacts
    <2>2. ASSUME NEW k \in 1 .. Len(stack')
          PROVE  At(stack[k].obj, stack[k].indent)'
      BY <1>1, <2>1 DEF PInv, Traced
    <2>4. plimit' # 0 /\ round' # 0 =>
             \A x \in Obj : last'[x] = round' => \E m \in 0 .. plimit' : At(x, m)'
      BY <1>1, <1>14, LineTraced
    <2> QED BY <1>3, <2>2, <2>4 DEF Traced
  <1>13. Printed'
    <2>1. \A o : Due(o)' = Due(o) /\ Succ(o)' = Succ(o)
      BY <1>1, FixedFacts
    <2>10. \A o : last'[o] = last[o] => Known(o)' = Known(o)
      BY <1>1, KnownFacts
    <2>2. \A g : Passed(g)' = Passed(g)
      BY <1>1, FixedFacts
    <2>3. /\ \A k \in 1 .. Len(stack) :
               /\ stack[k].obj \in shown
               /\ Due(stack[k].obj) =>
                     Passed(stack[k]) \subseteq shown \cup (IF k = 1 THEN {callee} ELSE {})
          /\ \A o \in shown : Due(o) => Known(o) \subseteq shown \/ \E k \in 1 .. Len(stack) : stack[k].obj = o
          /\ round > 0 => \A o \in roots \cap Table : o \in todo \cup shown \/ (stack = <<>> /\ o = callee)
      BY <1>1 DEF PInv, Printed, Pending
    <2>4. stack # <<>> /\ callee \notin shown' => ~Due(stack[1].obj)
      BY <1>1, <1>4, CalleeShown
    <2>5. stack = <<>> => callee \in shown'
      <3>1. stack = <<>> => ~BelowLimit(arg.indent)
        <4>1. stack = <<>> => arg.indent = 0
          BY <1>1 DEF PInv, Control
        <4> QED BY <4>1 DEF BelowLimit
      <3> QED BY <1>4, <3>1
    <2>6. ASSUME NEW k \in 1 .. Len(stack)
          PROVE  /\ stack[k].obj \in shown'
                 /\ Due(stack[k].obj) => Passed(stack[k]) \subseteq shown'
      <3>1. CASE k = 1
        <4>1. stack # <<>>
          <5>1. stack = <<>> => Len(stack) = 0
            OBVIOUS
          <5> QED BY <5>1
        <4> QED BY <1>5, <2>3, <2>4, <3>1, <4>1
      <3>2. CASE k # 1
        BY <1>5, <2>3, <3>2
      <3> QED BY <3>1, <3>2
    <2>7. ASSUME NEW o \in shown', Due(o)
          PROVE  Known(o)' \subseteq shown' \/ \E k \in 1 .. Len(stack) : stack[k].obj = o
      <3>1. CASE last'[o] = last[o] /\ o \in shown
        BY <1>5, <2>3, <2>7, <2>10, <3>1
      <3>2. CASE Succ(o) = {}
        <4>1. Succ(o)' = {}
          BY <2>1, <3>2
        <4> QED BY <4>1 DEF Known
      <3>3. (last'[o] = last[o] /\ o \in shown) \/ Succ(o) = {}
        BY <1>4, <2>7
      <3> QED BY <3>1, <3>2, <3>3
    <2>8. round > 0 => \A o \in roots \cap Table : o \in todo \cup shown'
      BY <1>5, <2>3, <2>5
    <2>9. ASSUME NEW k \in 1 .. Len(stack')
          PROVE  /\ stack'[k].obj \in shown'
                 /\ Due(stack[k].obj)' => Passed(stack[k])' \subseteq shown'
      BY <1>1, <2>1, <2>2, <2>6
    <2> QED BY <1>0, <1>1, <1>2, <1>3, <2>1, <2>7, <2>8, <2>9 DEF Printed
  <1> QED BY <1>6, <1>7, <1>8, <1>9, <1>10, <1>11, <1>12, <1>13 DEF PInv

\* The end of a loop.
LEMMA EndPInv ==
    ASSUME PInv, EndLoop
    PROVE  PInv'
  <1>1. /\ UNCHANGED <<fixed, round, todo, loaded, visit, arg, last, fields>>
        /\ pc = "loop" /\ stack # <<>> /\ top.i > Len(heap[top.obj].refs) /\ arg = NoArg
        /\ stack' = Tail(stack) /\ pc' = IF Len(stack) = 1 THEN "drive" ELSE "loop"
    BY DEF PInv, Control, EndLoop
  <1>2. UNCHANGED <<heap, roots, plimit, every, born>>
    BY <1>1 DEF fixed
  <1>0. Table' = Table /\ resolved' = resolved /\ shown' = shown
    BY <1>1, FixedFacts, SetFacts
  <1>3. /\ heap \in HTab /\ stack \in Seq(Call) /\ Len(stack) \in Nat
        /\ \A k \in 1 .. Len(stack) : stack[k] \in Call /\ stack[k].obj \in Obj
        /\ top = stack[1] /\ 1 \in 1 .. Len(stack) /\ top.obj \in Obj /\ top.i \in Nat \ {0}
    BY <1>1, StackFacts
  <1>4. /\ stack' \in Seq(Call) /\ Len(stack') = Len(stack) - 1
    BY <1>1, <1>3, PopSeq
  <1>5. /\ \A k \in 1 .. Len(stack') : k + 1 \in 1 .. Len(stack) /\ stack'[k] = stack[k + 1]
        /\ \A k \in 1 .. Len(stack) :
              k = 1 \/ (k - 1 \in 1 .. Len(stack') /\ stack'[k - 1] = stack[k])
    BY <1>1, <1>3, PopIndex
  <1>6. stack' = <<>> <=> Len(stack) = 1
    BY <1>3, <1>4
  <1>7. Typed'
    <2>1. pc' \in {"drive", "call", "loop", "done", "overflow", "unset"}
      BY <1>1
    <2>2. Len(stack') <= MaxDepth
      BY <1>3, <1>4, BoundsAssumption DEF PInv, Typed
    <2> QED BY <1>0, <1>1, <1>2, <1>4, <2>1, <2>2 DEF PInv, Typed
  <1>8. Control'
    <2>1. round' # 0
      BY <1>1 DEF PInv, Control
    <2> QED BY <1>1, <1>6, <2>1 DEF Control
  <1>9. Opened'
    <2>1. ASSUME NEW k \in 1 .. Len(stack')
          PROVE  stack'[k].indent = Len(stack') - k /\ heap'[stack'[k].obj].kind \in {"instance", "oarray"}
      <3>1. /\ stack[k + 1].indent = Len(stack) - (k + 1) /\ stack'[k] = stack[k + 1]
            /\ heap[stack[k + 1].obj].kind \in {"instance", "oarray"}
        BY <1>5 DEF PInv, Opened
      <3>2. Len(stack) - (k + 1) = Len(stack') - k
        BY <1>3, <1>4
      <3> QED BY <1>2, <3>1, <3>2
    <2> QED BY <2>1 DEF Opened
  <1>10. Loads' /\ InResolved'
    <2>1. Loads'
      BY <1>1, LoadsSame DEF PInv
    <2>2. \A k \in 1 .. Len(stack') : stack'[k].obj \in resolved \/ heap[stack'[k].obj].refs = <<>>
      BY <1>5 DEF PInv, InResolved
    <2> QED BY <1>0, <1>1, <1>2, <2>1, <2>2 DEF InResolved
  <1>11. Marked'
    BY <1>0, <1>1 DEF PInv, Marked
  <1>12. Runs'
    <2>1. \A f : Accounted(f)' = Accounted(f)
      BY <1>1, FixedFacts
    <2>2. \A k \in 1 .. Len(stack') : Accounted(stack'[k])
      BY <1>5 DEF PInv, Runs
    <2> QED BY <2>1, <2>2 DEF Runs
  <1>13. Traced'
    <2>1. \A x, m : At(x, m)' = At(x, m)
      BY <1>1, FixedFacts
    <2>2. \A k \in 1 .. Len(stack') : At(stack'[k].obj, stack'[k].indent)
      BY <1>5 DEF PInv, Traced
    <2>3. ASSUME NEW k \in 1 .. Len(stack')
          PROVE  At(stack[k].obj, stack[k].indent)'
      BY <2>1, <2>2
    <2>4. plimit' # 0 /\ round' # 0 =>
             \A x \in Obj : last'[x] = round' => \E m \in 0 .. plimit' : At(x, m)'
      BY <1>1, <1>2, <2>1 DEF PInv, Traced
    <2> QED BY <1>1, <2>3, <2>4 DEF Traced
  <1>14. Printed'
    <2>1. \A o : Due(o)' = Due(o) /\ Known(o)' = Known(o)
      BY <1>1, FixedFacts, KnownFacts
    <2>2. \A g : Passed(g)' = Passed(g)
      BY <1>1, FixedFacts
    <2>3. /\ \A k \in 1 .. Len(stack) :
               /\ stack[k].obj \in shown
               /\ Due(stack[k].obj) => Passed(stack[k]) \subseteq shown
          /\ \A o \in shown : Due(o) => Known(o) \subseteq shown \/ \E k \in 1 .. Len(stack) : stack[k].obj = o
          /\ round > 0 => \A o \in roots \cap Table : o \in todo \cup shown
      BY <1>1 DEF PInv, Printed, Pending
    <2>4. Known(top.obj) \subseteq Passed(top)
      <3>1. DOMAIN heap[top.obj].refs = 1 .. Len(heap[top.obj].refs) /\ Len(heap[top.obj].refs) \in Nat
        BY <1>3, HeapFacts
      <3>2. \A n \in 1 .. Len(heap[top.obj].refs) : n \in 1 .. top.i - 1
        BY <1>1, <1>3, <3>1
      <3> QED BY <3>1, <3>2 DEF Known, Succ, Passed
    <2>5. ASSUME NEW o \in shown, Due(o)
          PROVE  Known(o) \subseteq shown \/ \E k \in 1 .. Len(stack') : stack'[k].obj = o
      <3>1. CASE Known(o) \subseteq shown
        BY <3>1
      <3>2. CASE \E k \in 1 .. Len(stack) : stack[k].obj = o
        <4>1. PICK k \in 1 .. Len(stack) : stack[k].obj = o
          BY <3>2
        <4>2. CASE k = 1
          BY <1>3, <2>3, <2>4, <2>5, <4>1, <4>2
        <4>3. CASE k # 1
          BY <1>5, <4>1, <4>3
        <4> QED BY <4>2, <4>3
      <3> QED BY <2>3, <2>5, <3>1, <3>2
    <2>6. ASSUME NEW k \in 1 .. Len(stack')
          PROVE  /\ stack'[k].obj \in shown
                 /\ Due(stack'[k].obj) => Passed(stack'[k]) \subseteq shown
      BY <1>5, <2>3
    <2>7. ASSUME NEW k \in 1 .. Len(stack')
          PROVE  /\ stack'[k].obj \in shown'
                 /\ Due(stack[k].obj)' => Passed(stack[k])' \subseteq shown'
      BY <1>0, <2>1, <2>2, <2>6
    <2> QED BY <1>0, <1>1, <1>2, <2>1, <2>3, <2>5, <2>7 DEF Printed
  <1> QED BY <1>7, <1>8, <1>9, <1>10, <1>11, <1>12, <1>13, <1>14 DEF PInv

\* A new frame.
LEMMA NewFrame ==
    ASSUME NEW a, a \in [obj : Obj \cup {0}, indent : Nat], a.obj \in Obj
    PROVE  /\ Frame(a) \in Call /\ Frame(a).obj = a.obj /\ Frame(a).indent = a.indent
           /\ Frame(a).i = 1 /\ Accounted(Frame(a)) /\ Passed(Frame(a)) = {}
  <1>1. <<>> \in Seq(Int) /\ Ones \in Int /\ a.indent \in Nat
    BY DEF Ones
  <1>2. Frame(a) \in Call /\ Frame(a).obj = a.obj /\ Frame(a).indent = a.indent /\ Frame(a).i = 1
    BY <1>1 DEF Frame, Call
  <1>3. Frame(a).told = 0 /\ Frame(a).last_cnt = 0 /\ Frame(a).run = <<>> /\ Frame(a).last_pid = Ones
    BY DEF Frame
  <1>4. Accounted(Frame(a))
    BY <1>2, <1>3 DEF Accounted
  <1>5. Passed(Frame(a)) = {}
    BY <1>2 DEF Passed
  <1> QED BY <1>2, <1>4, <1>5

\* A call that enters its loop, or finds no room for its frame.
LEMMA PushPInv ==
    ASSUME PInv, PrintOArray \/ PrintFields
    PROVE  PInv'
  <1>1. /\ UNCHANGED <<fixed, round, todo, loaded>>
        /\ pc = "call" /\ callee = arg.obj /\ callee \in Table /\ ~BelowLimit(arg.indent)
        /\ last' = [last EXCEPT ![callee] = round] /\ arg' = NoArg
        /\ heap[callee].kind \in {"instance", "oarray"}
        /\ callee \notin visit /\ arg.indent = Len(stack)
        /\ callee \in resolved \/ heap[callee].refs = <<>>
        /\ arg \in [obj : Obj \cup {0}, indent : Nat]
    BY DEF PInv, Control, Typed, PrintOArray, PrintFields, Printable, callee
  <1>2. UNCHANGED <<heap, roots, plimit, every, born>>
    BY <1>1 DEF fixed
  <1>0. /\ Table' = Table /\ resolved' = resolved /\ callee \in Obj
        /\ shown' = shown \cup {callee} /\ last' \in [Obj -> 0 .. round']
        /\ \A o \in Obj \ {callee} : last'[o] = last[o]
    BY <1>1, FixedFacts, SetFacts, LineFacts
  <1>3. heap \in HTab /\ stack \in Seq(Call) /\ Len(stack) \in Nat /\ MaxDepth \in Nat
    BY StackFacts, BoundsAssumption
  <1>4. \/ visit' = visit /\ fields' = fields
        \/ visit' = visit \cup {callee} /\ fields' = [fields EXCEPT ![callee] = @ + 1]
    BY DEF PrintOArray, PrintFields
  <1>5. fields \in [Obj -> Nat] /\ fields[callee] = 0 /\ visit \subseteq Obj /\ shown \subseteq Obj
    BY <1>0, <1>1, SetFacts DEF PInv, Typed, Marked
  <1>6. Marked' /\ visit' \subseteq Obj /\ fields' \in [Obj -> Nat]
    <2>1. \A o \in Obj : fields[o] <= 1 /\ (o \notin visit => fields[o] = 0)
      BY DEF PInv, Marked
    <2>2. visit' \subseteq shown'
      BY <1>0, <1>4 DEF PInv, Marked
    <2>3. \A o \in Obj : fields'[o] <= 1 /\ (o \notin visit' => fields'[o] = 0)
      BY <1>0, <1>4, <1>5, <2>1
    <2>4. visit' \subseteq Obj /\ fields' \in [Obj -> Nat]
      BY <1>0, <1>4, <1>5
    <2> QED BY <2>2, <2>3, <2>4 DEF Marked
  <1>7. PICK f : f = Frame(arg)
    OBVIOUS
  <1>8. /\ f \in Call /\ f.obj = callee /\ f.indent = Len(stack)
        /\ Accounted(f) /\ Passed(f) = {}
    BY <1>0, <1>1, <1>7, NewFrame
  <1>9. \/ Len(stack) < MaxDepth /\ stack' = <<f>> \o stack /\ pc' = "loop"
        \/ stack' = stack /\ pc' = "overflow"
    BY <1>7 DEF PrintOArray, PrintFields, Push
  <1>10. round' # 0
    BY <1>1 DEF PInv, Control
  <1>11. Loads'
    BY <1>1, LoadsSame DEF PInv
  <1>12. plimit' # 0 /\ round' # 0 =>
            \A x \in Obj : last'[x] = round' => \E m \in 0 .. plimit' : At(x, m)'
    BY <1>1, LineTraced
  <1>13. \A g : Accounted(g)' = Accounted(g)
    BY <1>1, FixedFacts
  <1>14. \A x, m : At(x, m)' = At(x, m)
    BY <1>1, FixedFacts
  <1>15. CASE stack' = stack /\ pc' = "overflow"
    <2>1. Typed'
      <3>1. arg' \in [obj : Obj \cup {0}, indent : Nat] /\ shown' \subseteq Table'
        BY <1>0, <1>1 DEF NoArg, PInv, Typed
      <3> QED BY <1>0, <1>1, <1>2, <1>6, <1>15, <3>1 DEF PInv, Typed
    <2>2. Control'
      BY <1>1, <1>10, <1>15 DEF Control
    <2>3. Opened'
      BY <1>2, <1>15 DEF PInv, Opened
    <2>4. InResolved'
      BY <1>0, <1>2, <1>15 DEF PInv, InResolved
    <2>5. Runs'
      BY <1>13, <1>15 DEF PInv, Runs
    <2>6. Traced'
      <3>1. ASSUME NEW k \in 1 .. Len(stack')
            PROVE  At(stack[k].obj, stack[k].indent)'
        BY <1>14, <1>15 DEF PInv, Traced
      <3> QED BY <1>12, <1>15, <3>1 DEF Traced
    <2>7. Printed'
      BY <1>15 DEF Printed
    <2> QED BY <1>6, <1>11, <2>1, <2>2, <2>3, <2>4, <2>5, <2>6, <2>7 DEF PInv
  <1>16. CASE Len(stack) < MaxDepth /\ stack' = <<f>> \o stack /\ pc' = "loop"
    <2>1. /\ stack' \in Seq(Call) /\ Len(stack') = Len(stack) + 1 /\ stack'[1] = f
          /\ 1 \in 1 .. Len(stack')
          /\ \A k \in 1 .. Len(stack) : k + 1 \in 1 .. Len(stack') /\ stack'[k + 1] = stack[k]
          /\ \A k \in 1 .. Len(stack') : k = 1 \/ (k - 1 \in 1 .. Len(stack) /\ stack'[k] = stack[k - 1])
      BY <1>3, <1>8, <1>16, PushSeq, PushIndex
    <2>2. stack' # <<>>
      BY <1>3, <2>1
    <2>3. Typed'
      <3>1. arg' \in [obj : Obj \cup {0}, indent : Nat] /\ shown' \subseteq Table'
        BY <1>0, <1>1 DEF NoArg, PInv, Typed
      <3>2. Len(stack') <= MaxDepth
        BY <1>3, <1>16, <2>1
      <3> QED BY <1>0, <1>1, <1>2, <1>6, <1>16, <2>1, <3>1, <3>2 DEF PInv, Typed
    <2>4. Control'
      BY <1>1, <1>10, <1>16, <2>2 DEF Control
    <2>5. Opened'
      <3>1. ASSUME NEW k \in 1 .. Len(stack')
            PROVE  stack'[k].indent = Len(stack') - k /\ heap'[stack'[k].obj].kind \in {"instance", "oarray"}
        <4>1. CASE k = 1
          BY <1>1, <1>2, <1>3, <1>8, <2>1, <4>1
        <4>2. CASE k # 1
          <5>1. /\ k - 1 \in 1 .. Len(stack) /\ stack'[k] = stack[k - 1]
                /\ stack[k - 1].indent = Len(stack) - (k - 1)
                /\ heap[stack[k - 1].obj].kind \in {"instance", "oarray"}
            BY <2>1, <4>2 DEF PInv, Opened
          <5>2. Len(stack) - (k - 1) = Len(stack') - k
            BY <1>3, <2>1
          <5> QED BY <1>2, <5>1, <5>2
        <4> QED BY <4>1, <4>2
      <3> QED BY <3>1 DEF Opened
    <2>6. InResolved'
      <3>1. \A k \in 1 .. Len(stack') : stack'[k].obj \in resolved \/ heap[stack'[k].obj].refs = <<>>
        BY <1>1, <1>8, <2>1 DEF PInv, InResolved
      <3> QED BY <1>0, <1>2, <1>16, <3>1 DEF InResolved
    <2>7. Runs'
      <3>1. \A k \in 1 .. Len(stack') : Accounted(stack'[k])
        BY <1>8, <2>1 DEF PInv, Runs
      <3> QED BY <1>13, <3>1 DEF Runs
    <2>8. Traced'
      <3>1. \A k \in 1 .. Len(stack') : At(stack'[k].obj, stack'[k].indent)
        BY <1>1, <1>8, <2>1 DEF PInv, Traced
      <3>2. ASSUME NEW k \in 1 .. Len(stack')
            PROVE  At(stack[k].obj, stack[k].indent)'
        BY <1>14, <3>1
      <3> QED BY <1>12, <1>16, <3>2 DEF Traced
    <2>9. Printed'
      <3>1. \A o : Due(o)' = Due(o)
        BY <1>1, FixedFacts
      <3>7. \A o \in Obj \ {callee} : Known(o)' = Known(o)
        BY <1>0, <1>1, KnownFacts
      <3>2. \A g : Passed(g)' = Passed(g)
        BY <1>1, FixedFacts
      <3>3. /\ \A k \in 1 .. Len(stack) :
                 /\ stack[k].obj \in shown'
                 /\ Due(stack[k].obj) => Passed(stack[k]) \subseteq shown'
            /\ \A o \in shown : Due(o) => Known(o) \subseteq shown \/ \E k \in 1 .. Len(stack) : stack[k].obj = o
            /\ round > 0 => \A o \in roots \cap Table : o \in todo \cup shown'
        BY <1>0, <1>1 DEF PInv, Printed, Pending
      <3>4. ASSUME NEW k \in 1 .. Len(stack')
            PROVE  stack'[k].obj \in shown' /\ (Due(stack'[k].obj) => Passed(stack'[k]) \subseteq shown')
        BY <1>0, <1>8, <2>1, <3>3, ZenonT(60)
      <3>5. ASSUME NEW k \in 1 .. Len(stack')
            PROVE  /\ stack'[k].obj \in shown'
                   /\ Due(stack[k].obj)' => Passed(stack[k])' \subseteq shown'
        BY <3>1, <3>2, <3>4
      <3>6. ASSUME NEW o \in shown', Due(o)
            PROVE  Known(o)' \subseteq shown' \/ \E k \in 1 .. Len(stack') : stack'[k].obj = o
        <4>1. CASE o = callee
          BY <1>8, <2>1, <4>1
        <4>2. CASE o \in shown /\ o # callee
          <5>1. Known(o)' = Known(o) /\ shown \subseteq shown'
            BY <1>0, <1>5, <3>7, <4>2
          <5>2. CASE Known(o) \subseteq shown
            BY <5>1, <5>2
          <5>3. CASE \E k \in 1 .. Len(stack) : stack[k].obj = o
            BY <2>1, <5>3
          <5> QED BY <3>3, <3>6, <4>2, <5>2, <5>3
        <4> QED BY <1>0, <3>6, <4>1, <4>2
      <3> QED BY <1>0, <1>1, <1>2, <3>1, <3>3, <3>5, <3>6 DEF Printed
    <2> QED BY <1>6, <1>11, <2>3, <2>4, <2>5, <2>6, <2>7, <2>8, <2>9 DEF PInv
  <1> QED BY <1>9, <1>15, <1>16

\* Resolving leaves nothing out that it comes to.
LEMMA ReachFacts ==
    ASSUME NEW o \in Obj
    PROVE  Reach(o) \subseteq Obj /\ o \in Reach(o) /\ Closed(Reach(o))
  <1>1. Reach(o) \subseteq Obj /\ o \in Reach(o)
    BY DEF Reach
  <1>2. ASSUME NEW x \in Reach(o) \ resolved, NEW y \in Succ(x)
        PROVE  y \in Reach(o)
    <2>1. y \in Obj
      BY SetFacts
    <2> QED BY <1>2, <2>1 DEF Reach, Closed
  <1> QED BY <1>1, <1>2 DEF Closed

\* Resolving does not leave the table.
LEMMA ReachTable ==
    ASSUME NEW o \in Table
    PROVE  Reach(o) \subseteq Table
  <1>1. o \in Obj /\ Table \in SUBSET Obj /\ Closed(Table)
    BY SetFacts DEF Closed
  <1> QED BY <1>1 DEF Reach

\* A root is resolved, unless it was before, and printed.
LEMMA DrivePInv ==
    ASSUME PInv, Drive
    PROVE  PInv'
  <1>1. /\ UNCHANGED <<fixed, round, visit, stack, last, fields>> /\ pc' = "call"
        /\ pc = "drive" /\ stack = <<>> /\ Len(stack) = 0 /\ arg = NoArg
    BY DEF PInv, Control, Drive
  <1>2. UNCHANGED <<heap, roots, plimit, every, born>> /\ roots \subseteq Obj
    BY <1>1 DEF fixed, PInv, Typed
  <1>3. /\ \A x, m : At(x, m)' = At(x, m)
        /\ \A o : Due(o)' = Due(o) /\ Succ(o)' = Succ(o) /\ Known(o)' = Known(o)
        /\ Table' = Table /\ shown' = shown /\ Table \subseteq Obj
    BY <1>1, FixedFacts, KnownFacts, SetFacts
  <1>4. PICK o \in todo : /\ todo' = todo \ {o} /\ arg' = [obj |-> o, indent |-> 0]
                          /\ loaded' = Load(loaded, IF every THEN {} ELSE Reach(o), round)
    BY DEF Drive
  <1>5. /\ round \in Nat \ {0} /\ o \in roots /\ o \in Table /\ o \in Obj
        /\ arg'.obj = o /\ arg'.indent = 0
    BY <1>3, <1>4 DEF PInv, Typed, Control
  <1>6. /\ loaded \in [Obj -> 0 .. round] /\ resolved \subseteq Table
        /\ born \in [Obj -> 0 .. round]
    BY DEF PInv, Typed
  <1>7. PICK S : S = IF every THEN {} ELSE Reach(o)
    OBVIOUS
  <1>8. /\ S \subseteq Table /\ S \subseteq Obj
        /\ loaded' = [x \in Obj |-> IF x \in S /\ loaded[x] = 0 THEN round ELSE loaded[x]]
    BY <1>3, <1>4, <1>5, <1>7, ReachTable DEF Load
  <1>9. /\ loaded' \in [Obj -> 0 .. round]
        /\ resolved' = resolved \cup S
        /\ \A x \in resolved : loaded'[x] = loaded[x]
        /\ \A x \in S \ resolved : loaded'[x] = round
    <2>1. loaded' \in [Obj -> 0 .. round]
      BY <1>5, <1>6, <1>8
    <2>2. \A x \in Obj : x \in resolved <=> loaded[x] # 0
      BY <1>6 DEF resolved
    <2>3. \A x \in Obj : x \in resolved' <=> loaded'[x] # 0
      BY <2>1 DEF resolved
    <2>4. resolved \subseteq Obj /\ resolved' \subseteq Obj
      BY DEF resolved
    <2>5. \A x \in Obj : loaded'[x] # 0 <=> (loaded[x] # 0 \/ x \in S)
      BY <1>5, <1>6, <1>8
    <2>6. resolved' = resolved \cup S
      BY <1>8, <2>2, <2>3, <2>4, <2>5
    <2>7. \A x \in resolved : loaded'[x] = loaded[x]
      BY <1>8, <2>2, <2>4
    <2>8. \A x \in S \ resolved : loaded'[x] = round
      BY <1>8, <2>2
    <2> QED BY <2>1, <2>6, <2>7, <2>8
  <1>10. o \in resolved'
    <2>1. CASE every
      BY <1>5, <1>9, <2>1 DEF PInv, Loads
    <2>2. CASE ~every
      BY <1>5, <1>7, <1>9, <2>2, ReachFacts
    <2> QED BY <2>1, <2>2
  <1>11. Loads'
    <2>1. ASSUME NEW x \in resolved', NEW y \in Succ(x), born[y] <= loaded'[x]
          PROVE  y \in resolved'
      <3>1. CASE x \in resolved
        BY <1>9, <2>1, <3>1 DEF PInv, Loads
      <3>2. CASE x \in S \ resolved
        <4>1. S = Reach(o)
          BY <1>7, <3>2
        <4>2. Closed(S)
          BY <1>5, <4>1, ReachFacts
        <4> QED BY <1>9, <3>2, <4>2 DEF Closed
      <3> QED BY <1>9, <3>1, <3>2
    <2>2. every /\ round > 0 => Table \subseteq resolved'
      BY <1>9 DEF PInv, Loads
    <2>3. ASSUME NEW x \in resolved', NEW y \in Succ(x)', born'[y] <= loaded'[x]
          PROVE  y \in resolved'
      BY <1>2, <1>3, <2>1, <2>3
    <2> QED BY <1>1, <1>2, <1>3, <2>2, <2>3 DEF Loads
  <1>12. Typed'
    <2>1. arg' \in [obj : Obj \cup {0}, indent : Nat]
      BY <1>4, <1>5
    <2>2. resolved' \subseteq Table'
      BY <1>3, <1>6, <1>8, <1>9
    <2>3. todo' \subseteq roots' \cap Table'
      BY <1>2, <1>3, <1>4 DEF PInv, Typed
    <2> QED BY <1>1, <1>2, <1>3, <1>9, <2>1, <2>2, <2>3 DEF PInv, Typed
  <1>13. Control'
    BY <1>1, <1>3, <1>5 DEF Control
  <1>14. Opened' /\ Runs' /\ Marked'
    BY <1>1, <1>3 DEF PInv, Opened, Runs, Marked
  <1>15. InResolved'
    BY <1>1, <1>5, <1>10 DEF InResolved
  <1>16. Traced'
    <2>1. At(o, 0)
      BY <1>2, <1>5, AtRoot
    <2>2. At(arg.obj, arg.indent)'
      BY <1>3, <1>5, <2>1
    <2>3. plimit' # 0 /\ round' # 0 =>
             \A x \in Obj : last'[x] = round' => \E m \in 0 .. plimit' : At(x, m)'
      BY <1>1, <1>2, <1>3 DEF PInv, Traced
    <2> QED BY <1>1, <2>2, <2>3 DEF Traced
  <1>17. Printed'
    <2>1. \A x \in roots \cap Table : x \in todo' \cup shown \/ x \in Pending'
      BY <1>1, <1>4, <1>5 DEF PInv, Printed, Pending
    <2>2. \A x \in shown : Due(x) => Known(x) \subseteq shown
      BY <1>1 DEF PInv, Printed
    <2> QED BY <1>1, <1>2, <1>3, <2>1, <2>2 DEF Printed
  <1> QED BY <1>11, <1>12, <1>13, <1>14, <1>15, <1>16, <1>17 DEF PInv

\* The next record is in the table.  What it leaves alone refers to new objects only
\* as to ones dumped later.
LEMMA RecordPInv ==
    ASSUME PInv, EndOfHeap
    PROVE  PInv'
  <1>1. /\ UNCHANGED <<roots, every, plimit, stack, pc, arg>>
        /\ pc = "drive" /\ stack = <<>> /\ Len(stack) = 0 /\ arg = NoArg /\ todo = {}
        /\ round' = round + 1 /\ round \in Nat /\ round' \in 1 .. Rounds /\ roots \subseteq Obj
        /\ todo' = roots \cap Table'
    BY RecordsAssumption DEF PInv, Control, Typed, EndOfHeap, Rounds
  <1> DEFINE Renew(r, f, x) == [o \in Obj |-> IF r[o].kind = "absent" THEN f[o] ELSE x]
  <1>2. PICK r \in Records[round + 1] :
           /\ heap' = [o \in Obj |-> IF r[o].kind = "absent" THEN heap[o] ELSE r[o]]
           /\ born' = Renew(r, born, round')
           /\ loaded' = Load(Renew(r, loaded, 0), IF every THEN Table' ELSE {}, round')
           /\ visit' = {o \in visit : r[o].kind = "absent"}
           /\ last' = Renew(r, last, 0)
           /\ fields' = Renew(r, fields, 0)
    BY DEF EndOfHeap
  <1>3. r \in HTab
    <2>1. Records[round'] \in SUBSET [Obj -> HObject]
      BY <1>1, RecordsAssumption, SeqElement DEF Rounds
    <2>2. \A o \in Obj : r[o].kind \in {"varray", "absent"} => r[o].refs = <<>>
      BY <1>1, <1>2, RecordsAssumption
    <2> QED BY <1>1, <1>2, <2>1, <2>2 DEF HTab
  <1>4. /\ heap \in HTab /\ born \in [Obj -> 0 .. round] /\ loaded \in [Obj -> 0 .. round]
        /\ last \in [Obj -> 0 .. round] /\ visit \subseteq Obj /\ fields \in [Obj -> Nat]
        /\ resolved \subseteq Table /\ shown \subseteq Table /\ Table \subseteq Obj
    BY SetFacts DEF PInv, Typed
  <1> DEFINE Old == {o \in Obj : r[o].kind = "absent"}
  <1>5. \A o \in Obj : o \in Old <=> r[o].kind = "absent"
    OBVIOUS
  <1>6. /\ heap' \in HTab
        /\ \A o \in Old : heap'[o] = heap[o]
    <2>1. heap' \in [Obj -> HObject]
      BY <1>2, <1>3, <1>4 DEF HTab
    <2>2. \A o \in Obj : heap'[o].kind \in {"varray", "absent"} => heap'[o].refs = <<>>
      BY <1>2, <1>3, <1>4 DEF HTab
    <2> QED BY <1>2, <2>1, <2>2 DEF HTab
  <1>7. /\ Table' \subseteq Obj
        /\ \A o \in Old : o \in Table' <=> o \in Table
        /\ \A o \in Obj \ Old : o \in Table'
    BY <1>2, <1>6 DEF Table
  <1>8. /\ born' \in [Obj -> 0 .. round'] /\ last' \in [Obj -> 0 .. round']
        /\ fields' \in [Obj -> Nat]
        /\ \A o \in Old : born'[o] = born[o] /\ last'[o] = last[o] /\ fields'[o] = fields[o]
        /\ \A o \in Obj \ Old : born'[o] = round + 1 /\ last'[o] = 0 /\ fields'[o] = 0
        /\ visit' = visit \cap Old
    BY <1>1, <1>2, <1>4
  <1>9. /\ loaded' \in [Obj -> 0 .. round']
        /\ \A o \in Old : loaded'[o] = loaded[o] \/ (every /\ o \in Table' /\ loaded[o] = 0)
        /\ ~every => \A o \in Obj \ Old : loaded'[o] = 0
        /\ every => \A o \in Table' : loaded'[o] # 0
        /\ \A o \in Obj : loaded'[o] # 0 => (o \in Old /\ loaded[o] # 0) \/ (every /\ o \in Table')
    <2>1. PICK g : g = Renew(r, loaded, 0)
      OBVIOUS
    <2>2. /\ g \in [Obj -> 0 .. round'] /\ \A o \in Old : g[o] = loaded[o]
          /\ \A o \in Obj \ Old : g[o] = 0
      BY <1>1, <1>4, <2>1
    <2>3. PICK S : S = IF every THEN Table' ELSE {}
      OBVIOUS
    <2>4. loaded' = [x \in Obj |-> IF x \in S /\ g[x] = 0 THEN round' ELSE g[x]]
      BY <1>2, <2>1, <2>3 DEF Load
    <2>5. round' \in Nat \ {0}
      BY <1>1
    <2>6. loaded' \in [Obj -> 0 .. round']
      BY <2>2, <2>4, <2>5
    <2>7. \A o \in Obj : loaded'[o] = (IF o \in S /\ g[o] = 0 THEN round' ELSE g[o])
      BY <2>4
    <2>8. Old \subseteq Obj /\ Table' \subseteq Obj
      BY <1>7
    <2> HIDE DEF Old
    <2>9. CASE every
      <3>1. S = Table'
        BY <2>3, <2>9
      <3> QED BY <2>2, <2>5, <2>6, <2>7, <2>8, <2>9, <3>1
    <2>10. CASE ~every
      <3>1. S = {}
        BY <2>3, <2>10
      <3> QED BY <2>2, <2>6, <2>7, <2>8, <2>10, <3>1
    <2> QED BY <2>9, <2>10
  <1> HIDE DEF Old, Renew
  <1>10. /\ shown' = shown \cap Old
         /\ Old \subseteq Obj
         /\ \A o \in Obj : o \in resolved' <=> loaded'[o] # 0
         /\ \A o \in Obj : o \in resolved <=> loaded[o] # 0
         /\ resolved' \subseteq Obj
    <2>1. Old \subseteq Obj
      BY DEF Old
    <2>2. \A o \in Obj : (o \in resolved' <=> loaded'[o] # 0) /\ (o \in resolved <=> loaded[o] # 0)
      BY <1>1, <1>4, <1>9 DEF resolved
    <2>3. shown' = shown \cap Old
      BY <1>1, <1>4, <1>8, <2>1 DEF shown
    <2> QED BY <2>1, <2>2, <2>3 DEF resolved
  <1>11. ASSUME NEW x \in Old, NEW y \in Succ(x)', y \in Old
         PROVE  y \in Succ(x)
    BY <1>6, <1>7, <1>11 DEF Succ
  <1>12. Typed'
    <2>1. resolved' \subseteq Table'
      BY <1>4, <1>7, <1>9, <1>10
    <2>2. shown' \subseteq Table'
      BY <1>4, <1>7, <1>10
    <2>3. visit' \subseteq Obj /\ round' \in 0 .. Rounds
      BY <1>1, <1>4, <1>8
    <2> QED BY <1>1, <1>6, <1>8, <1>9, <2>1, <2>2, <2>3 DEF PInv, Typed
  <1>13. Control' /\ Opened' /\ InResolved' /\ Runs'
    BY <1>1 DEF Control, Opened, InResolved, Runs
  <1>14. Loads'
    <2>1. ASSUME NEW x \in resolved', NEW y \in Succ(x)', born'[y] <= loaded'[x]
          PROVE  y \in resolved'
      <3>1. y \in Table' /\ y \in Obj /\ x \in Obj
        BY <1>7, <1>10 DEF Succ
      <3>2. CASE every
        BY <1>9, <1>10, <3>1, <3>2
      <3>3. CASE ~every
        <4>1. x \in Old /\ loaded'[x] = loaded[x] /\ x \in resolved
          BY <1>9, <1>10, <2>1, <3>1, <3>3
        <4>2. loaded[x] \in 0 .. round /\ born'[y] <= loaded[x]
          BY <1>4, <2>1, <3>1, <4>1
        <4>3. y \in Old
          BY <1>1, <1>8, <3>1, <4>2
        <4>4. born[y] <= loaded[x] /\ y \in Succ(x)
          BY <1>8, <1>11, <4>1, <4>2, <4>3
        <4>5. y \in resolved
          BY <4>1, <4>4 DEF PInv, Loads
        <4> QED BY <1>9, <1>10, <3>1, <3>3, <4>3, <4>5
      <3> QED BY <3>2, <3>3
    <2>2. every' => Table' \subseteq resolved'
      BY <1>1, <1>7, <1>9, <1>10
    <2> QED BY <2>1, <2>2 DEF Loads
  <1>15. Marked'
    <2>1. \A o \in Obj : fields'[o] <= 1 /\ (o \notin visit' => fields'[o] = 0)
      BY <1>8 DEF PInv, Marked
    <2>2. visit' \subseteq shown'
      BY <1>8, <1>10 DEF PInv, Marked
    <2> QED BY <2>1, <2>2 DEF Marked
  <1>16. Traced'
    <2>1. ASSUME NEW x \in Obj PROVE last'[x] # round'
      <3>1. CASE x \in Old
        <4>1. last'[x] = last[x] /\ last[x] \in 0 .. round
          BY <1>4, <1>8, <3>1
        <4> QED BY <1>1, <4>1
      <3>2. CASE x \notin Old
        <4>1. last'[x] = 0
          BY <1>8, <3>2
        <4> QED BY <1>1, <4>1
      <3> QED BY <3>1, <3>2
    <2> QED BY <1>1, <2>1 DEF Traced
  <1>17. Printed'
    <2>1. ASSUME NEW o \in shown', Due(o)'
          PROVE  Known(o)' \subseteq shown'
      <3>1. o \in shown /\ o \in Old /\ o \in Obj
        BY <1>10
      <3>2. plimit = 0
        <4>1. round' # 1
          <5>1. last[o] \in 0 .. round /\ last[o] > 0
            BY <1>4, <3>1 DEF shown
          <5> QED BY <1>1, <5>1
        <4> QED BY <1>1, <2>1, <4>1 DEF Due
      <3>3. Known(o) \subseteq shown
        BY <1>1, <3>1, <3>2 DEF PInv, Printed, Due
      <3>4. ASSUME NEW y \in Known(o)'
            PROVE  y \in shown'
        <4>1. y \in Succ(o)' /\ born'[y] <= last'[o] /\ y \in Obj
          BY <1>7 DEF Known, Succ
        <4>2. last'[o] = last[o] /\ last[o] \in 0 .. round
          BY <1>4, <1>8, <3>1
        <4>3. y \in Old
          BY <1>1, <1>8, <4>1, <4>2
        <4>4. y \in Known(o)
          BY <1>8, <1>11, <3>1, <4>1, <4>2, <4>3 DEF Known
        <4> QED BY <1>10, <3>3, <4>3, <4>4
      <3> QED BY <3>4
    <2> QED BY <1>1, <2>1 DEF Printed
  <1> QED BY <1>12, <1>13, <1>14, <1>15, <1>16, <1>17 DEF PInv

\* Before the first heap dump record.
LEMMA InitPInv == Init => PInv
  <1> SUFFICES ASSUME Init PROVE PInv
    OBVIOUS
  <1>1. /\ round = 0 /\ todo = {} /\ visit = {} /\ stack = <<>> /\ Len(stack) = 0
        /\ pc = "drive" /\ arg = NoArg /\ \A o \in Obj : fields[o] = 0
        /\ resolved = {} /\ shown = {}
    BY DEF Init, resolved, shown
  <1>2. Typed
    <2>1. roots \subseteq Obj /\ every \in BOOLEAN /\ Rounds \in Nat
      <3>1. Len(Records) \in Nat
        BY RecordsAssumption
      <3>2. roots \subseteq Obj /\ every \in BOOLEAN
        BY RootsAssumption DEF Init
      <3> QED BY <3>1, <3>2 DEF Rounds
    <2>2. fields \in [Obj -> Nat] /\ stack \in Seq(Call) /\ arg \in [obj : Obj \cup {0}, indent : Nat]
      BY DEF Init, NoArg
    <2>3. heap \in HTab
      <3>1. [kind |-> "absent", refs |-> <<>>] \in HObject
        BY DEF HObject
      <3> QED BY <3>1 DEF Init, HTab
    <2>4. /\ born \in [Obj -> 0 .. round] /\ loaded \in [Obj -> 0 .. round]
          /\ last \in [Obj -> 0 .. round]
      BY DEF Init
    <2> QED BY <1>1, <2>1, <2>2, <2>3, <2>4, BoundsAssumption DEF Init, Typed
  <1>3. Control /\ Opened /\ Runs /\ Marked
    BY <1>1 DEF Control, Opened, Runs, Marked
  <1>4. Loads /\ InResolved /\ Traced /\ Printed
    BY <1>1 DEF Loads, InResolved, Traced, Printed
  <1> QED BY <1>2, <1>3, <1>4 DEF PInv

\* Nothing but the program counter moves, and that to the end.
LEMMA StutterPInv ==
    ASSUME PInv, DriveEnd \/ UNCHANGED vars
    PROVE  PInv'
  <1>1. /\ UNCHANGED <<fixed, round, todo, loaded, visit, stack, arg, last, fields>>
        /\ pc' = pc \/ (pc = "drive" /\ pc' = "done" /\ todo = {})
    BY DEF vars, fixed, DriveEnd
  <1>2. UNCHANGED <<heap, roots, plimit, every, born>>
    BY <1>1 DEF fixed
  <1>3. /\ \A x, m : At(x, m)' = At(x, m)
        /\ \A o : Due(o)' = Due(o) /\ Succ(o)' = Succ(o) /\ Known(o)' = Known(o)
        /\ \A f : Passed(f)' = Passed(f) /\ Accounted(f)' = Accounted(f)
        /\ Table' = Table /\ resolved' = resolved /\ shown' = shown
    BY <1>1, FixedFacts, KnownFacts, SetFacts
  <1>4. Typed' /\ Opened' /\ Marked'
    BY <1>1, <1>2, <1>3 DEF PInv, Typed, Opened, Marked
  <1>5. Control'
    BY <1>1, <1>3 DEF PInv, Control
  <1>6. Loads'
    BY <1>1, LoadsSame DEF PInv
  <1>7. InResolved'
    <2>1. Succ(stack[1].obj)' = Succ(stack[1].obj)
      BY <1>1, <1>3
    <2> QED BY <1>1, <1>2, <1>3, <2>1 DEF PInv, InResolved
  <1>8. Runs' /\ Traced'
    BY <1>1, <1>2, <1>3 DEF PInv, Runs, Traced
  <1>9. Printed'
    <2>1. Pending' = Pending
      BY <1>1 DEF Pending
    <2>2. ASSUME NEW k \in 1 .. Len(stack')
          PROVE  /\ Due(stack[k].obj)' <=> Due(stack'[k].obj)
                 /\ Passed(stack[k])' = Passed(stack'[k])
      BY <1>3
    <2> QED BY <1>1, <1>2, <1>3, <2>1, <2>2 DEF PInv, Printed
  <1> QED BY <1>4, <1>5, <1>6, <1>7, <1>8, <1>9 DEF PInv

\* The invariant of the printer, on which the theorems rest.
THEOREM PrinterInvariance == Spec => []PInv
  <1>1. PInv /\ [Next]_vars => PInv'
    BY TurnPInv, ReturnPInv, UnsetPInv, PushPInv, EndPInv, DrivePInv, RecordPInv, StutterPInv
       DEF Next, Terminated
  <1> QED BY <1>1, InitPInv, PTL DEF Spec

\* For any number of heap dump records, each adding to hTable and replacing in it
\* what it likes: with -a printInstance reads only hvalues that were set; with -C it
\* reads unset ones only of an object dumped by a later record than the one at whose
\* end the object that refers to it was resolved.
THEOREM ReadsOnlyResolved == Spec => []ReadsResolved
  <1>1. ASSUME PInv PROVE ReadsResolved
    <2>1. /\ stack \in Seq(Call) /\ DOMAIN stack = 1 .. Len(stack) /\ Len(stack) \in Nat
          /\ \A k \in 1 .. Len(stack) : stack[k].obj \in Obj /\ stack[k].i \in Nat \ {0}
          /\ stack # <<>> => top = stack[1] /\ 1 \in 1 .. Len(stack)
          /\ heap \in HTab
      BY <1>1, StackFacts
    <2>2. arg.obj \in Obj \cup {0} /\ arg.indent \in 0 .. MaxDepth
      <3>1. CASE pc \in {"call", "unset"}
        BY <1>1, <2>1, <3>1, BoundsAssumption DEF PInv, Control, Typed
      <3>2. CASE pc \notin {"call", "unset"}
        BY <1>1, <3>2, BoundsAssumption DEF PInv, Control, NoArg
      <3> QED BY <3>1, <3>2
    <2>3. TypeOK
      <3>1. \A k \in 1 .. Len(stack) : stack[k].obj \in Table
        BY <1>1, <2>1 DEF PInv, Opened, Table
      <3>2. todo \cup resolved \cup visit \cup shown \subseteq Table
        BY <1>1 DEF PInv, Typed, Marked
      <3>3. heap \in [Obj -> HObject]
        BY <2>1 DEF HTab
      <3> QED BY <1>1, <2>1, <2>2, <3>1, <3>2, <3>3 DEF PInv, Typed, TypeOK
    <2>4. ASSUME pc = "unset"
          PROVE  ~every /\ stack # <<>> /\ loaded[top.obj] \in 1 .. born[arg.obj] - 1
      <3>1. arg.obj \notin resolved /\ arg.obj \in Table /\ round # 0 /\ round \in Nat
        BY <1>1, <2>4 DEF PInv, InResolved, Control, Typed
      <3>2. ~every
        BY <1>1, <3>1 DEF PInv, Loads
      <3>3. stack # <<>> /\ arg.obj \in Succ(stack[1].obj)
        BY <1>1, <2>4, <3>1 DEF PInv, InResolved
      <3>4. top = stack[1] /\ 1 \in 1 .. Len(stack) /\ top.obj \in Obj
        BY <2>1, <3>3
      <3>5. heap[top.obj].refs # <<>>
        BY <2>1, <3>3, <3>4, HeapFacts
      <3>6. top.obj \in resolved
        BY <1>1, <3>4, <3>5 DEF PInv, InResolved
      <3>7. ~(born[arg.obj] <= loaded[top.obj])
        BY <1>1, <3>1, <3>3, <3>4, <3>6 DEF PInv, Loads
      <3>8. born[arg.obj] \in Nat /\ loaded[top.obj] \in Nat /\ loaded[top.obj] > 0
        <4>1. arg.obj \in Obj /\ loaded[top.obj] > 0
          BY <3>1, <3>6 DEF Table, resolved
        <4> QED BY <1>1, <3>4, <4>1 DEF PInv, Typed
      <3> QED BY <3>2, <3>3, <3>7, <3>8
    <2> QED BY <2>3, <2>4 DEF ReadsResolved
  <1> QED BY <1>1, PrinterInvariance, PTL

\* The mark makes printInstance print the fields of an instance once, however many
\* references, roots and heap dump records lead to it, until it is dumped again.
THEOREM FieldsPrintedOnce == Spec => []FieldsOnce
  <1>1. PInv => FieldsOnce
    BY DEF PInv, Marked, FieldsOnce
  <1> QED BY <1>1, PrinterInvariance, PTL

\* The run-length counts of printInstance leave out no element of an array and
\* count none twice, and a run is of one identifier.
THEOREM ElementsAccounted == Spec => []RunsAccounted
  <1>1. ASSUME PInv PROVE RunsAccounted
    <2>1. DOMAIN stack = 1 .. Len(stack) /\ \A k \in 1 .. Len(stack) : stack[k] \in Call
      BY <1>1, StackFacts
    <2>2. \A f \in Call : DOMAIN f.run = 1 .. Len(f.run)
      BY DEF Call
    <2> QED BY <1>1, <2>1, <2>2 DEF PInv, Runs, Accounted, RunsAccounted
  <1> QED BY <1>1, PrinterInvariance, PTL

\* At the end of a record nothing that is due is missing.
LEMMA AllDueShown ==
    ASSUME PInv, AtEndOfRecord
    PROVE  /\ roots \cap Table \subseteq shown
           /\ \A o \in shown : Due(o) => Known(o) \subseteq shown
  <1>1. stack = <<>> /\ Len(stack) = 0 /\ todo = {} /\ Pending = {} /\ round > 0
        /\ pc \notin {"overflow", "unset"}
    BY DEF PInv, Control, Pending, AtEndOfRecord
  <1> QED BY <1>1 DEF PInv, Printed

\* Without -l.
LEMMA DueWithoutLimit == PInv => CompleteWithoutLimit
  BY AllDueShown DEF CompleteWithoutLimit, Due

\* With -l.
LEMMA DueWithLimit == PInv => LimitExact
  <1> SUFFICES ASSUME PInv, plimit # 0
               PROVE  /\ round > 0 => {o \in Obj : last[o] = round} \subseteq Within(plimit)
                      /\ AtEndOfRecord /\ round = 1 /\ Unshared => shown = Within(plimit)
    BY DEF LimitExact
  <1>1. /\ plimit \in Nat /\ roots \subseteq Obj /\ round \in Nat
        /\ last \in [Obj -> 0 .. round] /\ born \in [Obj -> 0 .. round]
    BY BoundsAssumption DEF PInv, Typed
  <1>2. Within(plimit) = {x \in Obj : \E m \in 0 .. plimit : At(x, m)}
    BY DEF Within, At
  <1>3. round > 0 => {o \in Obj : last[o] = round} \subseteq Within(plimit)
    BY <1>1, <1>2 DEF PInv, Traced
  <1>5. round = 1 => shown = {o \in Obj : last[o] = round}
    BY <1>1 DEF shown
  <1>4. ASSUME AtEndOfRecord, round = 1, Unshared
        PROVE  Within(plimit) \subseteq shown
    <2> DEFINE T == {m \in 0 .. plimit : \E x \in Obj : At(x, m) /\ x \notin shown}
    <2>1. SUFFICES ASSUME T # {} PROVE FALSE
      BY <1>2
    <2>2. PICK m \in T : \A k \in T : m <= k
      <3>1. T \subseteq Nat
        BY <1>1
      <3> HIDE DEF T
      <3> QED BY <2>1, <3>1, Smallest
    <2>3. PICK x \in Obj : m \in 0 .. plimit /\ At(x, m) /\ x \notin shown
      BY <2>2
    <2>4. roots \cap Table \subseteq shown /\ \A o \in shown : Due(o) => Known(o) \subseteq shown
      BY <1>4, AllDueShown
    <2>5. m # 0
      BY <1>1, <2>3, <2>4, AtRoot
    <2>6. PICK n \in Nat : m = n + 1 /\ n < plimit /\ n \in 0 .. plimit
      <3>1. m - 1 \in Nat /\ m = (m - 1) + 1 /\ m - 1 < plimit /\ m - 1 \in 0 .. plimit
        BY <1>1, <2>3, <2>5
      <3> QED BY <3>1
    <2>7. PICK y \in Obj : At(y, n) /\ x \in Succ(y)
      BY <2>3, <2>6, AtLast
    <2>8. y \in shown
      <3>1. n \notin T
        BY <1>1, <2>2, <2>6
      <3> QED BY <2>6, <2>7, <3>1
    <2>9. Due(y)
      BY <1>4, <2>6, <2>7 DEF Due
    <2>10. x \in Known(y)
      <3>1. last[y] = 1 /\ born[x] \in 0 .. 1
        BY <1>1, <1>4, <1>5, <2>3, <2>8
      <3> QED BY <2>7, <3>1 DEF Known
    <2> QED BY <2>3, <2>4, <2>8, <2>9, <2>10
  <1> QED BY <1>3, <1>4, <1>5

\* printInstance prints what is due, for every file: without -l, at the end of each
\* record, the selected objects and all that a printed object referred to when it was
\* printed last; with -l n nothing further away than n references, and at the end of
\* the first record all that is nearer where no object is shared.
THEOREM PrintsTheDue == Spec => []PrintsWhatIsDue
  <1>1. PInv => PrintsWhatIsDue
    BY DueWithoutLimit, DueWithLimit DEF PrintsWhatIsDue
  <1> QED BY <1>1, PrinterInvariance, PTL

-----------------------------------------------------------------------------
(* The stack.                                                              *)

\* An instance has one frame at most, and is marked while it has it.
Nested ==
    \A k \in 1 .. Len(stack) : heap[stack[k].obj].kind = "instance" =>
       /\ stack[k].obj \in visit
       /\ \A j \in 1 .. Len(stack) : stack[j].obj = stack[k].obj => j = k

\* The stack overflows when it is full, at a depth that the limit allows.
Full == pc = "overflow" => Len(stack) = MaxDepth /\ (plimit # 0 => MaxDepth <= plimit)

\* Neither is lost by any step.
LEMMA NextNested ==
    ASSUME PInv, Nested, Full, [Next]_vars
    PROVE  Nested' /\ Full'
  <1>6. CASE EndOfHeap
    <2>1. stack' = <<>> /\ Len(stack') = 0 /\ pc' = "drive"
      BY <1>6 DEF PInv, Control, EndOfHeap
    <2> QED BY <2>1 DEF Nested, Full
  <1> SUFFICES ASSUME ~EndOfHeap PROVE Nested' /\ Full'
    BY <1>6
  <1>1. heap' = heap /\ plimit' = plimit
    BY DEF Next, vars, fixed, PrintUnset, Drive, DriveEnd, PrintRecursive, PrintNothing, PrintVArray,
           PrintOArray, PrintFields, FollowField, SkipField, FollowElement, BeginRun, ExtendRun,
           EndLoop, Terminated
  <1>2. CASE FollowField \/ SkipField \/ FollowElement \/ BeginRun \/ ExtendRun
    <2>1. visit' = visit /\ pc = "loop" /\ stack # <<>> /\ pc' # "overflow"
      BY <1>2 DEF PInv, Control, FollowField, SkipField, FollowElement, BeginRun, ExtendRun, looping
    <2>2. PICK f : f \in Call /\ f.obj = top.obj /\ stack' = <<f>> \o Tail(stack)
      BY <1>2, TurnFacts DEF Turned
    <2>3. stack \in Seq(Call) /\ top = stack[1] /\ Len(stack) \in Nat
      BY <2>1, StackFacts
    <2>4. Len(stack') = Len(stack) /\ stack'[1] = f /\ \A k \in 2 .. Len(stack) : stack'[k] = stack[k]
      BY <2>1, <2>2, <2>3, SetTopSeq
    <2>5. \A k \in 1 .. Len(stack) : stack'[k].obj = stack[k].obj
      <3>1. \A k \in 1 .. Len(stack) : k = 1 \/ k \in 2 .. Len(stack)
        BY <2>3
      <3> QED BY <2>2, <2>3, <2>4, <3>1
    <2>6. Nested'
      BY <1>1, <2>1, <2>4, <2>5 DEF Nested
    <2> QED BY <2>1, <2>6 DEF Full
  <1>3. CASE EndLoop
    <2>1. visit' = visit /\ stack # <<>> /\ pc' # "overflow" /\ stack' = Tail(stack)
      BY <1>3 DEF PInv, Control, EndLoop
    <2>2. stack \in Seq(Call) /\ Len(stack) \in Nat
      BY <2>1, StackFacts
    <2>3. \A k \in 1 .. Len(stack') : k + 1 \in 1 .. Len(stack) /\ stack'[k] = stack[k + 1]
      BY <2>1, <2>2, PopIndex
    <2>4. Len(stack') \in Nat
      BY <2>1, <2>2, PopSeq
    <2>5. Nested'
      <3> SUFFICES ASSUME NEW k \in 1 .. Len(stack'), heap[stack'[k].obj].kind = "instance"
                   PROVE  /\ stack'[k].obj \in visit
                          /\ \A j \in 1 .. Len(stack') : stack'[j].obj = stack'[k].obj => j = k
        BY <1>1, <2>1 DEF Nested
      <3>1. stack[k + 1].obj \in visit
        BY <2>3 DEF Nested
      <3>2. \A j \in 1 .. Len(stack') : stack'[j].obj = stack'[k].obj => j + 1 = k + 1
        BY <2>3 DEF Nested
      <3> QED BY <2>3, <2>4, <3>1, <3>2
    <2> QED BY <2>1, <2>5 DEF Full
  <1>4. CASE PrintOArray \/ PrintFields
    <2>1. /\ pc = "call" /\ callee = arg.obj /\ callee \in Obj /\ callee \notin visit
          /\ ~BelowLimit(arg.indent) /\ arg.indent = Len(stack)
          /\ arg \in [obj : Obj \cup {0}, indent : Nat]
          /\ visit \subseteq visit' /\ (heap[callee].kind = "instance" => callee \in visit')
      BY <1>4, SetFacts DEF PInv, Control, Typed, PrintOArray, PrintFields, Printable, callee
    <2>2. PICK f : f = Frame(arg)
      OBVIOUS
    <2>3. f \in Call /\ f.obj = callee
      BY <2>1, <2>2, NewFrame
    <2>4. stack \in Seq(Call) /\ Len(stack) \in Nat
      BY StackFacts
    <2>5. CASE Len(stack) < MaxDepth /\ stack' = <<f>> \o stack /\ pc' = "loop"
      <3>1. /\ stack'[1] = f /\ Len(stack') \in Nat
            /\ \A k \in 1 .. Len(stack') : k = 1 \/ (k - 1 \in 1 .. Len(stack) /\ stack'[k] = stack[k - 1])
        BY <2>3, <2>4, <2>5, PushSeq, PushIndex
      <3>2. \A k \in 1 .. Len(stack) : heap[stack[k].obj].kind = "instance" => stack[k].obj # callee
        BY <2>1 DEF Nested
      <3> SUFFICES ASSUME NEW k \in 1 .. Len(stack'), heap[stack'[k].obj].kind = "instance"
                   PROVE  /\ stack'[k].obj \in visit'
                          /\ \A j \in 1 .. Len(stack') : stack'[j].obj = stack'[k].obj => j = k
        BY <1>1, <2>5 DEF Nested, Full
      <3>3. CASE k = 1
        BY <2>1, <2>3, <3>1, <3>2, <3>3
      <3>4. CASE k # 1
        <4>1. k - 1 \in 1 .. Len(stack) /\ stack'[k] = stack[k - 1] /\ stack'[k].obj # callee
              /\ stack'[k].obj \in visit
          BY <3>1, <3>2, <3>4 DEF Nested
        <4>2. ASSUME NEW j \in 1 .. Len(stack'), stack'[j].obj = stack'[k].obj
              PROVE  j = k
          <5>1. j # 1
            BY <2>3, <3>1, <4>1, <4>2
          <5>2. j - 1 \in 1 .. Len(stack) /\ stack'[j] = stack[j - 1]
            BY <3>1, <5>1
          <5>3. j - 1 = k - 1
            BY <4>1, <4>2, <5>2 DEF Nested
          <5> QED BY <3>1, <5>3
        <4> QED BY <2>1, <4>1, <4>2
      <3> QED BY <3>3, <3>4
    <2>6. CASE stack' = stack /\ pc' = "overflow" /\ ~(Len(stack) < MaxDepth)
      <3>1. Nested'
        BY <1>1, <2>1, <2>6 DEF Nested
      <3>2. Len(stack) = MaxDepth
        BY <2>4, <2>6, BoundsAssumption DEF PInv, Typed
      <3>3. plimit # 0 => MaxDepth <= plimit
        <4>1. plimit # 0 => Len(stack) \in 0 .. plimit
          BY <2>1, LimitFacts
        <4> QED BY <3>2, <4>1
      <3> QED BY <1>1, <2>6, <3>1, <3>2, <3>3 DEF Full
    <2> QED BY <1>4, <2>2, <2>5, <2>6 DEF PrintOArray, PrintFields, Push
  <1>5. CASE \/ Drive \/ DriveEnd \/ PrintRecursive \/ PrintNothing \/ PrintUnset \/ PrintVArray
             \/ Terminated \/ UNCHANGED vars
    <2>1. /\ stack' = stack /\ visit' = visit
          /\ pc' = "overflow" => pc = "overflow"
      BY <1>5 DEF Drive, DriveEnd, PrintRecursive, PrintNothing, PrintUnset, PrintVArray, Terminated,
                  Resume, vars
    <2> QED BY <1>1, <2>1 DEF Nested, Full
  <1> QED BY <1>2, <1>3, <1>4, <1>5 DEF Next

\* The instance whose frame is the nearest below frame k, or k itself; 0 for none.
Inst(n) == heap[stack[n].obj].kind = "instance"
First(k, n) == n \in k .. Len(stack) /\ Inst(n) /\ \A m \in k .. n - 1 : ~Inst(m)
Host(k) == IF \E n \in k .. Len(stack) : Inst(n)
           THEN CHOOSE x \in Obj : \E n \in k .. Len(stack) : First(k, n) /\ x = stack[n].obj
           ELSE 0

\* What Host chooses.
LEMMA HostFacts ==
    ASSUME PInv, NEW k \in 1 .. Len(stack)
    PROVE  \/ Host(k) = 0 /\ \A n \in k .. Len(stack) : ~Inst(n)
           \/ Host(k) \in Obj /\ \E n \in k .. Len(stack) : First(k, n) /\ Host(k) = stack[n].obj
  <1>1. Len(stack) \in Nat /\ \A n \in 1 .. Len(stack) : stack[n].obj \in Obj
    BY StackFacts
  <1>2. CASE \E n \in k .. Len(stack) : Inst(n)
    <2> DEFINE T == {n \in k .. Len(stack) : Inst(n)}
    <2>1. PICK n \in T : \A m \in T : n <= m
      <3>1. T \subseteq Nat /\ T # {}
        BY <1>1, <1>2
      <3> HIDE DEF T
      <3> QED BY <3>1, Smallest
    <2>2. First(k, n)
      <3>1. n \in k .. Len(stack) /\ Inst(n)
        OBVIOUS
      <3>2. ASSUME NEW m \in k .. n - 1 PROVE ~Inst(m)
        <4>1. m \in k .. Len(stack) /\ ~(n <= m)
          BY <1>1, <3>1
        <4> QED BY <2>1, <4>1
      <3> QED BY <3>1, <3>2 DEF First
    <2>3. n \in k .. Len(stack) /\ stack[n].obj \in Obj
      BY <1>1
    <2>4. \E x \in Obj : \E m \in k .. Len(stack) : First(k, m) /\ x = stack[m].obj
      BY <2>2, <2>3
    <2>5. Host(k) = CHOOSE x \in Obj : \E m \in k .. Len(stack) : First(k, m) /\ x = stack[m].obj
      BY <1>2 DEF Host
    <2> QED BY <2>4, <2>5
  <1>3. CASE ~\E n \in k .. Len(stack) : Inst(n)
    BY <1>3 DEF Host
  <1> QED BY <1>2, <1>3

\* Two frames of one object on the same stretch between two instances: the arrays
\* from the one to the other are a cycle.
LEMMA SameHost ==
    ASSUME PInv, Nested, NEW j \in 1 .. Len(stack), NEW k \in 1 .. Len(stack), j < k,
           Host(j) = Host(k), stack[j].obj = stack[k].obj
    PROVE  \A n \in j .. k : heap[stack[n].obj].kind = "oarray"
  <1>1. /\ Len(stack) \in Nat /\ heap \in HTab
        /\ \A n \in 1 .. Len(stack) : stack[n].obj \in Obj
    BY StackFacts
  <1>2. ASSUME NEW n \in j .. k, ~Inst(n)
        PROVE  heap[stack[n].obj].kind = "oarray"
    <2>1. n \in 1 .. Len(stack) /\ stack[n].obj \in Obj
      BY <1>1
    <2>2. heap[stack[n].obj].kind \in {"instance", "oarray"}
      BY <2>1 DEF PInv, Opened
    <2> QED BY <1>2, <2>2 DEF Inst
  <1>3. CASE Host(j) = 0
    <2>1. \A n \in j .. Len(stack) : ~Inst(n)
      BY <1>3, HostFacts, ObjAssumption
    <2>2. \A n \in j .. k : n \in j .. Len(stack)
      BY <1>1
    <2> QED BY <1>2, <2>1, <2>2
  <1>4. CASE Host(j) # 0
    <2>1. PICK n \in j .. Len(stack) : First(j, n) /\ Host(j) = stack[n].obj
      BY <1>4, HostFacts
    <2>2. PICK m \in k .. Len(stack) : First(k, m) /\ Host(k) = stack[m].obj
      BY <1>4, HostFacts
    <2>3. n \in 1 .. Len(stack) /\ m \in 1 .. Len(stack)
      BY <1>1
    <2>4. n = m
      BY <2>1, <2>2, <2>3 DEF Nested, First, Inst
    <2>5. n # k
      BY <2>1, <2>3 DEF Nested, First, Inst
    <2>6. \A i \in j .. k : i \in j .. n - 1
      BY <1>1, <2>2, <2>4, <2>5
    <2> QED BY <1>2, <2>1, <2>6 DEF First
  <1> QED BY <1>3, <1>4

\* The C stack is deeper than the limits and than a walk of the heap that goes
\* through every array at most once between two instances.
StackSuffices ==
    /\ \A l \in Limits : l < MaxDepth
    /\ (Cardinality(Obj) + 1) * Cardinality(Obj) < MaxDepth

\* A full stack has a cycle of arrays.
LEMMA FullStack ==
    ASSUME PInv, Nested, Len(stack) = MaxDepth, StackSuffices
    PROVE  \E j, k \in 1 .. Len(stack) :
              /\ j < k /\ stack[j].obj = stack[k].obj
              /\ \A n \in j .. k : heap[stack[n].obj].kind = "oarray"
  <1> DEFINE S == 1 .. Len(stack)
             T == (Obj \cup {0}) \X Obj
             g == [k \in S |-> <<Host(k), stack[k].obj>>]
  <1>1. Len(stack) \in Nat /\ \A n \in S : stack[n].obj \in Obj
    BY StackFacts
  <1>2. g \in [S -> T]
    <2>1. \A k \in S : Host(k) \in Obj \cup {0}
      BY HostFacts
    <2> QED BY <1>1, <2>1
  <1>3. IsFiniteSet(Obj) /\ 0 \notin Obj /\ Cardinality(Obj) \in Nat
    BY ObjAssumption, FS_CardinalityType
  <1>4. IsFiniteSet(Obj \cup {0}) /\ Cardinality(Obj \cup {0}) = Cardinality(Obj) + 1
    BY <1>3, FS_AddElement
  <1>5. IsFiniteSet(T) /\ Cardinality(T) = (Cardinality(Obj) + 1) * Cardinality(Obj)
    BY <1>3, <1>4, FS_Product
  <1>6. IsFiniteSet(S) /\ Cardinality(S) = Len(stack)
    <2>1. IsFiniteSet(1 .. Len(stack))
          /\ Cardinality(1 .. Len(stack)) = IF 1 > Len(stack) THEN 0 ELSE Len(stack) - 1 + 1
      BY <1>1, FS_Interval
    <2> QED BY <1>1, <2>1
  <1>7. Cardinality(T) < Cardinality(S)
    BY <1>5, <1>6 DEF StackSuffices
  <1> HIDE DEF g, S, T
  <1>8. PICK x \in S, y \in S : x # y /\ g[x] = g[y]
    BY <1>2, <1>5, <1>6, <1>7, FS_PigeonHole
  <1>9. PICK j \in S, k \in S : j < k /\ g[j] = g[k]
    <2>1. x \in Int /\ y \in Int
      BY <1>1 DEF S
    <2>2. x < y \/ y < x
      BY <1>8, <2>1
    <2> QED BY <1>8, <2>2
  <1>10. Host(j) = Host(k) /\ stack[j].obj = stack[k].obj
    BY <1>9 DEF g
  <1>11. \A n \in j .. k : heap[stack[n].obj].kind = "oarray"
    BY <1>9, <1>10, SameHost DEF S
  <1> QED BY <1>9, <1>10, <1>11 DEF S

\* If printInstance overflows a stack that is deep enough for the heap, then by a
\* cycle of object arrays, which it never marks, and without -l.
THEOREM OnlyArraysOverflow == ASSUME StackSuffices PROVE Spec => []OverflowOnlyByArrays
  <1>1. Init => Nested /\ Full
    BY DEF Init, Nested, Full
  <1>2. Spec => [](PInv /\ Nested /\ Full)
    <2>1. PInv /\ Nested /\ Full /\ [Next]_vars => (PInv /\ Nested /\ Full)'
      BY NextNested, TurnPInv, ReturnPInv, UnsetPInv, PushPInv, EndPInv, DrivePInv, RecordPInv,
         StutterPInv DEF Next, Terminated
    <2> QED BY <1>1, <2>1, InitPInv, PTL DEF Spec
  <1>3. PInv /\ Nested /\ Full => OverflowOnlyByArrays
    <2> SUFFICES ASSUME PInv, Nested, Full, pc = "overflow"
                 PROVE  /\ plimit = 0
                        /\ \E j, k \in DOMAIN stack :
                              /\ j < k /\ stack[j].obj = stack[k].obj
                              /\ \A n \in j .. k : heap[stack[n].obj].kind = "oarray"
      BY DEF OverflowOnlyByArrays
    <2>1. Len(stack) = MaxDepth /\ plimit \in Limits /\ DOMAIN stack = 1 .. Len(stack)
      BY StackFacts DEF Full, PInv, Typed
    <2>2. plimit = 0
      BY <2>1, BoundsAssumption DEF Full, StackSuffices
    <2> QED BY <2>1, <2>2, FullStack
  <1> QED BY <1>2, <1>3, PTL
=============================================================================
