-------------------------- MODULE InstanceResolver --------------------------
(***************************************************************************)
(* resolveInstance (phat.c): the depth-first walk that loads the fields of *)
(* a heap object from the dump file, follows every reference it finds, adds*)
(* up "self+children" sizes and records one arc per pair of classes.       *)
(*                                                                         *)
(* The C recursion is an explicit stack of frames.  What makes the walk    *)
(* delicate is that all frames share ONE file cursor (jf->fin): a nested   *)
(* call moves it, so the outer frame must not rely on where it left it.    *)
(*                                                                         *)
(* Data abstraction: an object's bytes in the file are a sequence of cells,*)
(* one per field or element in file order; the byte offset a class layout  *)
(* computes for a field is the index ("slot") of its cell.  ci->size,      *)
(* arc->child_size and the list of parent arcs are only read by mg_assemble*)
(* (never called) and are left out.                                        *)
(***************************************************************************)
EXTENDS Integers, Sequences, FiniteSets

CONSTANTS
    Obj,        \* identifiers that have an entry in hTable
    Class,      \* classes of the dump (the entries of cTable)
    Fields,     \* Fields[c]: ci->values, a sequence of [ftype, slot]
    ElemType,   \* ElemType[c]: element type of a primitive-array class
    IdSize,     \* jf->identsz
    Heaps,      \* the heaps to consider
    Targets,    \* sets of classes a -C / -a option can select
    Garbage,    \* what an uninitialised hobject.osize may hold
    WildSets,   \* sets of classes whose uninitialised children pointer is wild
    SizeMod,    \* unsigned long arithmetic is modulo SizeMod
    ArcChunk,   \* growth step of the arcs array (10 in the code)
    Unread      \* content of an hvalues entry that was never stored

ASSUME ObjAssumption == Obj \subseteq Nat \ {0}
ASSUME FiniteAssumption == IsFiniteSet(Obj)
ASSUME SizeAssumption == /\ SizeMod \in Nat \ {0}
                         /\ IdSize \in Nat
                         /\ Garbage \subseteq Nat
                         /\ ArcChunk \in Nat \ {0}
ASSUME UnreadAssumption == Unread \notin Nat

FType == {"L", "[", "Z", "B", "S", "C", "I", "J", "F", "D"}
RefType == {"L", "["}

FieldInfo == [ftype : FType, slot : Nat \ {0}]

ASSUME FieldsAssumption ==
    /\ DOMAIN Fields = Class
    /\ \A c \in Class : Fields[c] \in Seq(FieldInfo)
    /\ ElemType \in [Class -> FType]

\* What resolveInstance adds to "size" for a field: float and double fields
\* have no case in the switch, so they are neither read nor counted.
Width == [t \in FType |->
            CASE t \in RefType      -> IdSize
              [] t \in {"Z", "B"}   -> 1
              [] t \in {"S", "C"}   -> 2
              [] t = "I"            -> 4
              [] t = "J"            -> 8
              [] t \in {"F", "D"}   -> 0]

\* Element size of a primitive array; here float and double are counted.
ElemWidth == [t \in FType |-> CASE t = "F" -> 4 [] t = "D" -> 8
                               [] OTHER -> Width[t]]

HObject == [htype : {"instance", "oarray", "varray"},
            class : Class,
            body  : Seq(Nat)]

\* Every field of an instance has its cell in the dump.
WellFormedHeap(h) ==
    /\ h \in [Obj -> HObject]
    /\ \A o \in Obj : h[o].htype = "instance" =>
          \A i \in 1..Len(Fields[h[o].class]) :
             Fields[h[o].class][i].slot \in 1..Len(h[o].body)

ASSUME HeapsAssumption == \A h \in Heaps : WellFormedHeap(h)

VARIABLES
    heap,      \* the objects in the dump file; never changes
    fin,       \* file cursor: <<object, slot>>
    resolved,  \* hobject.resolved
    hvalues,   \* hobject.hvalues
    osize,     \* hobject.osize
    csize,     \* hobject.csize
    children,  \* cinfo.children: per class, a list of [child, count]
    wild,      \* classes whose children pointer holds a wild value
    arcs,      \* the global array of arcs between distinct classes
    arcs_max,  \* its capacity
    stack,     \* frames of resolveInstance, innermost first
    ckey,      \* the classes selected, the argument of collectStats
    todo,      \* objects the traversal of hTable has still to visit
    pc, arg    \* control point, and the argument or result passed there

vars == <<heap, fin, resolved, hvalues, osize, csize, children, wild,
          arcs, arcs_max, stack, ckey, todo, pc, arg>>

objVars == <<resolved, hvalues, osize, csize>>
arcVars == <<children, arcs, arcs_max>>
fixed   == <<heap, wild, ckey>>

Frame == [obj : Obj, i : Nat \ {0}, size : Nat]
Top   == Head(stack)

\* Number of iterations of the loop over an object's fields or elements.
Count(o) == IF heap[o].htype = "instance" THEN Len(Fields[heap[o].class])
                                          ELSE Len(heap[o].body)

\* Cell that holds the i-th value of an object.
Slot(o, i) == IF heap[o].htype = "instance" THEN Fields[heap[o].class][i].slot
                                            ELSE i

ftype(o, i) == CASE heap[o].htype = "instance" -> Fields[heap[o].class][i].ftype
                 [] heap[o].htype = "varray"   -> ElemType[heap[o].class]
                 [] OTHER                      -> "L"

IsRead(o, i) == ftype(o, i) \notin {"F", "D"}

\* What a read at file position p returns (outside any body: other bytes).
CellAt(p) == IF p[1] \in Obj /\ p[2] \in 1..Len(heap[p[1]].body)
             THEN heap[p[1]].body[p[2]] ELSE 0

-----------------------------------------------------------------------------
\* Entry: collectStats visits the objects of one class, resolveInstances all.
Init ==
    /\ heap \in Heaps
    /\ fin = <<0, 1>>
    /\ resolved = [o \in Obj |-> FALSE]
    /\ hvalues = [o \in Obj |-> <<>>]
    /\ osize \in {[o \in Obj |-> g] : g \in Garbage}
    /\ csize = [o \in Obj |-> 0]
    /\ children = [c \in Class |-> <<>>]
    /\ wild \in WildSets
    /\ arcs = <<>>
    /\ arcs_max = 0
    /\ stack = <<>>
    /\ ckey \in Targets
    /\ todo = {o \in Obj : heap[o].class \in ckey}
    /\ pc = "drive"
    /\ arg = 0

\* Mutant of Drive: a resolved object ends the visit of its subtree.
DriveStops ==
    /\ pc = "drive"
    /\ \E o \in todo :
          /\ \A p \in todo : o <= p
          /\ todo' = IF resolved[o] THEN {} ELSE todo \ {o}
          /\ arg' = o
    /\ pc' = "call"
    /\ UNCHANGED <<fixed, fin, objVars, arcVars, stack>>

\* In-order traversal of hTable: the next object is the one with the
\* smallest identifier.
Drive ==
    /\ pc = "drive"
    /\ \E o \in todo :
          /\ \A p \in todo : o <= p
          /\ todo' = todo \ {o}
          /\ arg' = o
    /\ pc' = "call"
    /\ UNCHANGED <<fixed, fin, objVars, arcVars, stack>>

DriveEnd ==
    /\ pc = "drive" /\ todo = {}
    /\ pc' = "done"
    /\ UNCHANGED <<fixed, fin, objVars, arcVars, stack, todo, arg>>

\* Mutant of CallResolved: the children's part of the total is forgotten.
CallResolvedSelfOnly ==
    /\ pc = "call" /\ resolved[arg]
    /\ pc' = "ret"
    /\ arg' = osize[arg] % SizeMod
    /\ UNCHANGED <<fixed, fin, objVars, arcVars, stack, todo>>

\* "if (ho->resolved) return ho->osize + ho->csize": also taken for an object
\* whose own call is still in progress, when osize is not yet stored.
CallResolved ==
    /\ pc = "call" /\ resolved[arg]
    /\ pc' = "ret"
    /\ arg' = (osize[arg] + csize[arg]) % SizeMod
    /\ UNCHANGED <<fixed, fin, objVars, arcVars, stack, todo>>

\* A primitive array, or an empty object array: no nested call.  An empty
\* array returns before anything is seeked or stored.
CallLeaf ==
    /\ pc = "call" /\ ~resolved[arg]
    /\ resolved' = [resolved EXCEPT ![arg] = TRUE]
    /\ \/ /\ heap[arg].htype \in {"varray", "oarray"} /\ Count(arg) = 0
          /\ arg' = 0
          /\ UNCHANGED <<fin, hvalues, osize>>
       \/ /\ heap[arg].htype = "varray" /\ Count(arg) > 0
          /\ LET t    == ElemType[heap[arg].class]
                 size == (Count(arg) * ElemWidth[t]) % SizeMod
             IN  /\ osize' = [osize EXCEPT ![arg] = size]
                 /\ arg' = size
                 /\ fin' = <<arg, IF t \in {"F", "D"} THEN 1 ELSE Count(arg) + 1>>
          /\ hvalues' = [hvalues EXCEPT ![arg] = [i \in 1..Count(arg) |->
                            IF IsRead(arg, i) THEN CellAt(<<arg, i>>) ELSE Unread]]
    /\ pc' = "ret"
    /\ UNCHANGED <<fixed, csize, arcVars, stack, todo>>

Push(o) == stack' = <<[obj |-> o, i |-> 1, size |-> 0]>> \o stack

\* An object array reads ALL its identifiers before the first nested call.
CallOArray ==
    /\ pc = "call" /\ ~resolved[arg]
    /\ heap[arg].htype = "oarray" /\ Count(arg) > 0
    /\ resolved' = [resolved EXCEPT ![arg] = TRUE]
    /\ fin' = <<arg, Count(arg) + 1>>
    /\ hvalues' = [hvalues EXCEPT ![arg] =
                      [i \in 1..Count(arg) |-> CellAt(<<arg, i>>)]]
    /\ Push(arg)
    /\ pc' = "loop" /\ arg' = 0
    /\ UNCHANGED <<fixed, osize, csize, arcVars, todo>>

\* Mutant of CallInstance: the object is not marked on entry.
CallInstanceUnmarked ==
    /\ pc = "call" /\ ~resolved[arg]
    /\ heap[arg].htype = "instance"
    /\ hvalues' = [hvalues EXCEPT ![arg] = [i \in 1..Count(arg) |-> Unread]]
    /\ Push(arg)
    /\ pc' = "loop" /\ arg' = 0
    /\ UNCHANGED <<fixed, fin, resolved, osize, csize, arcVars, todo>>

CallInstance ==
    /\ pc = "call" /\ ~resolved[arg]
    /\ heap[arg].htype = "instance"
    /\ resolved' = [resolved EXCEPT ![arg] = TRUE]
    /\ hvalues' = [hvalues EXCEPT ![arg] = [i \in 1..Count(arg) |-> Unread]]
    /\ Push(arg)
    /\ pc' = "loop" /\ arg' = 0
    /\ UNCHANGED <<fixed, fin, osize, csize, arcVars, todo>>

-----------------------------------------------------------------------------
\* The stack with another innermost frame; the frame after an iteration.
SetTop(f) == <<f>> \o Tail(stack)
Advanced(size) == SetTop([obj |-> Top.obj, i |-> Top.i + 1, size |-> size])

\* Mutant of SeekField: the seek is hoisted out of the loop.
SeekFieldOnce(o, i) == IF i = 1 THEN <<o, Slot(o, i)>> ELSE fin

\* fseeko(ho->fpos) then fseek(info->offset): absolute, whatever fin was.
SeekField(o, i) == <<o, Slot(o, i)>>

\* One iteration of the field loop: seek, read, and, for a reference to an
\* object in hTable, call resolveInstance on it (size += identsz first).
LoadField ==
    /\ pc = "loop" /\ stack # <<>>
    /\ LET o  == Top.obj
           i  == Top.i
           at == SeekField(o, i)
           t  == ftype(o, i)
           v  == CellAt(at)
           sz == Top.size + Width[t]
       IN
       /\ heap[o].htype = "instance" /\ i <= Count(o)
       /\ \/ /\ ~IsRead(o, i)                      \* no case in the switch
             /\ fin' = at
             /\ stack' = Advanced(sz)
             /\ UNCHANGED <<hvalues, pc, arg>>
          \/ /\ IsRead(o, i)
             /\ fin' = <<at[1], at[2] + 1>>
             /\ hvalues' = [hvalues EXCEPT ![o][i] = v]
             /\ \/ /\ t \in RefType /\ v \in Obj
                   /\ stack' = SetTop([Top EXCEPT !.size = sz])
                   /\ pc' = "call" /\ arg' = v
                \/ /\ ~(t \in RefType /\ v \in Obj)
                   /\ stack' = Advanced(sz)
                   /\ UNCHANGED <<pc, arg>>
    /\ UNCHANGED <<fixed, resolved, osize, csize, arcVars, todo>>

\* Mutants of LoadElement: the test "if (dref)" is dropped; an identifier with
\* no object does not advance the loop.
LoadElementUnchecked ==
    /\ pc = "loop" /\ stack # <<>>
    /\ heap[Top.obj].htype = "oarray" /\ Top.i <= Count(Top.obj)
    /\ pc' = "call" /\ arg' = hvalues[Top.obj][Top.i]
    /\ UNCHANGED <<fixed, fin, objVars, arcVars, stack, todo>>

LoadElementStuck ==
    /\ pc = "loop" /\ stack # <<>>
    /\ heap[Top.obj].htype = "oarray" /\ Top.i <= Count(Top.obj)
    /\ LET v == hvalues[Top.obj][Top.i] IN
       IF v \in Obj THEN pc' = "call" /\ arg' = v ELSE UNCHANGED <<pc, arg>>
    /\ UNCHANGED <<fixed, fin, objVars, arcVars, stack, todo>>

\* One iteration of the element loop; the identifiers are already in memory.
LoadElement ==
    /\ pc = "loop" /\ stack # <<>>
    /\ LET o == Top.obj
           v == hvalues[o][Top.i]
       IN
       /\ heap[o].htype = "oarray" /\ Top.i <= Count(o)
       /\ \/ /\ v \in Obj
             /\ pc' = "call" /\ arg' = v
             /\ UNCHANGED stack
          \/ /\ v \notin Obj
             /\ stack' = Advanced(Top.size)
             /\ UNCHANGED <<pc, arg>>
    /\ UNCHANGED <<fixed, fin, objVars, arcVars, todo>>

\* The loop is over: only now is osize stored, and the frame returns.
Finish ==
    /\ pc = "loop" /\ stack # <<>> /\ Top.i > Count(Top.obj)
    /\ LET o == Top.obj
           size == (IF heap[o].htype = "oarray" THEN Count(o) * IdSize
                                                ELSE Top.size) % SizeMod
       IN  /\ osize' = [osize EXCEPT ![o] = size]
           /\ arg' = (size + csize[o]) % SizeMod
    /\ stack' = Tail(stack)
    /\ pc' = "ret"
    /\ UNCHANGED <<fixed, fin, resolved, hvalues, csize, arcVars, todo>>

-----------------------------------------------------------------------------
\* arc_lookup: positions of the arc to class d in the list of class p.
ArcAt(p, d) == {k \in 1..Len(children[p]) : children[p][k].child = d}

\* Mutant of ArcAdd: an arc that is found is not returned but added again.
ArcAddAlways(p, d) ==
    /\ children' = [children EXCEPT ![p] = <<[child |-> d, count |-> 1]>> \o @]
    /\ IF p = d THEN UNCHANGED <<arcs, arcs_max>>
       ELSE /\ arcs_max' = IF Len(arcs) = arcs_max THEN arcs_max + ArcChunk
                                                   ELSE arcs_max
            /\ arcs' = Append(arcs, <<p, d>>)

\* arc_add: count one more reference on the arc, or put a new arc at the head
\* of the list and, unless it is a self arc, at the end of the arcs array,
\* which grows by ArcChunk when it is full.
ArcAdd(p, d) ==
    \/ /\ \E k \in ArcAt(p, d) :
             children' = [children EXCEPT ![p][k].count = @ + 1]
       /\ UNCHANGED <<arcs, arcs_max>>
    \/ /\ ArcAt(p, d) = {}
       /\ children' = [children EXCEPT ![p] = <<[child |-> d, count |-> 1]>> \o @]
       /\ IF p = d THEN UNCHANGED <<arcs, arcs_max>>
          ELSE /\ arcs_max' = IF Len(arcs) = arcs_max THEN arcs_max + ArcChunk
                                                      ELSE arcs_max
               /\ arcs' = Append(arcs, <<p, d>>)

ReturnToDriver ==
    /\ pc = "ret" /\ stack = <<>>
    /\ pc' = "drive" /\ arg' = 0
    /\ UNCHANGED <<fixed, fin, objVars, arcVars, stack, todo>>

\* Back in the caller: ho->csize += result, arc_add(ho, dref), next iteration.
ReturnToFrame ==
    /\ pc = "ret" /\ stack # <<>>
    /\ LET o == Top.obj
           d == hvalues[o][Top.i]
       IN  /\ heap[o].class \notin wild
           /\ csize' = [csize EXCEPT ![o] = (@ + arg) % SizeMod]
           /\ ArcAdd(heap[o].class, heap[d].class)
    /\ stack' = Advanced(Top.size)
    /\ pc' = "loop" /\ arg' = 0
    /\ UNCHANGED <<fixed, fin, resolved, hvalues, osize, todo>>

\* mkcinfo does not set ci->children and arc_init is never called, so
\* arc_lookup may follow a wild pointer.
ReturnSegv ==
    /\ pc = "ret" /\ stack # <<>>
    /\ heap[Top.obj].class \in wild
    /\ pc' = "segv"
    /\ UNCHANGED <<fixed, fin, objVars, arcVars, stack, todo, arg>>

Terminated ==
    /\ pc \in {"done", "segv"}
    /\ UNCHANGED vars

Next ==
    \/ Drive \/ DriveEnd
    \/ CallResolved \/ CallLeaf \/ CallOArray \/ CallInstance
    \/ LoadField \/ LoadElement \/ Finish
    \/ ReturnToDriver \/ ReturnToFrame \/ ReturnSegv
    \/ Terminated

Spec == Init /\ [][Next]_vars

\* A sequential program that is given the processor always takes its next step.
FairSpec == Spec /\ WF_vars(Next)

-----------------------------------------------------------------------------
TypeOK ==
    /\ heap \in Heaps
    /\ fin \in Nat \X Nat
    /\ resolved \in [Obj -> BOOLEAN]
    /\ hvalues \in [Obj -> Seq(Nat \cup {Unread})]
    /\ osize \in [Obj -> Nat]
    /\ csize \in [Obj -> Nat]
    /\ children \in [Class -> Seq([child : Class, count : Nat])]
    /\ wild \in WildSets
    /\ arcs \in Seq(Class \X Class)
    /\ arcs_max \in Nat
    /\ stack \in Seq(Frame)
    /\ ckey \in Targets
    /\ todo \subseteq Obj
    /\ pc \in {"drive", "call", "ret", "loop", "done", "segv"}
    /\ arg \in Nat
    /\ pc = "call" => arg \in Obj

OnStack(o) == \E k \in 1..Len(stack) : stack[k].obj = o

\* No object is ever entered twice: "ho->resolved = 1" is stored on entry, so
\* a reference cycle in the heap cannot make resolveInstance recurse into a
\* frame that is still open, and the recursion is no deeper than the heap.
NoReentry ==
    \A j, k \in 1..Len(stack) : stack[j].obj = stack[k].obj => j = k

\* The i-th value of o as the dump has it.
Expected(o, i) == IF IsRead(o, i) THEN heap[o].body[Slot(o, i)] ELSE Unread

Refers(o, i) == /\ heap[o].htype # "varray"
                /\ ftype(o, i) \in RefType
                /\ heap[o].body[Slot(o, i)] \in Obj

\* The first n values of o are those of its own body in the file, although
\* nested calls moved the cursor between the reads, and the objects they refer
\* to have been entered.
LoadedUpTo(o, n) ==
    \A i \in 1..n :
       /\ i \in DOMAIN hvalues[o]
       /\ hvalues[o][i] = Expected(o, i)
       /\ Refers(o, i) => resolved[heap[o].body[Slot(o, i)]]

\* What printInstance relies on when it follows references without resolving
\* anything: an object whose call has returned holds all its values, each read
\* from its own body, and every object it refers to is resolved as well.
ResolvedIsLoaded ==
    \A o \in Obj : resolved[o] /\ ~OnStack(o) => LoadedUpTo(o, Count(o))

\* arc_lookup finds the arc again: a pair of classes has one arc, the arcs array
\* lists the arcs between distinct classes once each, within its capacity.
ArcsAgree ==
    /\ \A p, d \in Class : Cardinality(ArcAt(p, d)) <= 1
    /\ {arcs[k] : k \in 1..Len(arcs)} =
          {pd \in Class \X Class : pd[1] # pd[2] /\ ArcAt(pd[1], pd[2]) # {}}
    /\ \A j, k \in 1..Len(arcs) : arcs[j] = arcs[k] => j = k
    /\ Len(arcs) <= arcs_max

Refs(o)      == {i \in 1..Count(o) : Refers(o, i)}
Target(o, i) == heap[o].body[Slot(o, i)]

\* At the end an arc's count is the number of references from the resolved
\* objects of one class to the objects of the other.
ArcsCountReferences ==
    pc = "done" => \A p, d \in Class :
        LET refs == UNION {{<<o, i>> : i \in {i \in Refs(o) :
                                               heap[Target(o, i)].class = d}} :
                           o \in {o \in Obj : resolved[o] /\ heap[o].class = p}}
        IN  IF ArcAt(p, d) = {} THEN refs = {}
            ELSE \A k \in ArcAt(p, d) : children[p][k].count = Cardinality(refs)

\* arc_add, called from every depth of the recursion, keeps the arcs of the class
\* graph: one for each pair of classes, with the right count at the end.
ArcsExact == ArcsAgree /\ ArcsCountReferences

Succ(o) == {Target(o, i) : i \in Refs(o)}

\* No reference leaves S.
Closed(S) == \A q \in S : Succ(q) \subseteq S

\* Objects reachable from o by one reference or more: those of every closed set
\* that holds what o refers to.
Reach(o) == {x \in Obj : \A S \in SUBSET Obj : Succ(o) \subseteq S /\ Closed(S) => x \in S}

\* When the traversal ends without a crash, the resolved objects are exactly
\* the selected ones and those that can be reached from them: printInstance
\* finds everything it will follow, and nothing else was loaded.
ResolvedAreReachable ==
    pc = "done" =>
        LET sel == {o \in Obj : heap[o].class \in ckey}
        IN  {o \in Obj : resolved[o]} = sel \cup UNION {Reach(o) : o \in sel}

\* Objects below which there is neither a cycle, nor an empty array (whose osize
\* is never stored), nor a float or double field (which is never counted).
Clean(o) ==
    \A q \in Reach(o) \cup {o} :
       /\ q \notin Reach(q)
       /\ heap[q].htype # "instance" => Count(q) > 0
       /\ heap[q].htype = "instance" => \A i \in 1..Count(q) : IsRead(q, i)

\* What the i-th value of an object takes in the dump.
Bytes(o, i) == IF heap[o].htype = "varray" THEN ElemWidth[ftype(o, i)] ELSE Width[ftype(o, i)]

\* The first n values of o, with T of the object they refer to.
Sums(o, T) ==
    LET S[n \in 0..Count(o)] ==
          IF n = 0 THEN 0
          ELSE S[n - 1] + Bytes(o, n) + (IF Refers(o, n) THEN T[Target(o, n)] ELSE 0)
    IN  S

\* Reference definition of self+children: own bytes plus the total of every
\* referenced object, once per reference.
Total ==
    LET T[o \in {x \in Obj : Clean(x)}] == Sums(o, T)[Count(o)]
    IN  T

\* "self+children" is what its name says wherever it is well defined, whatever
\* the order in which the objects are visited and however they are shared.
TotalsExact ==
    pc = "done" => \A o \in Obj : resolved[o] /\ Clean(o) =>
        (osize[o] + csize[o]) % SizeMod = Total[o] % SizeMod

\* The walk over the heap ends (or dies in arc_lookup), whatever cycles it has.
Termination == <>(pc \in {"done", "segv"})

\* The totals printed as "self+children" are made of sizes of objects: no
\* uninitialised memory flows into them.  Every heap of the run is far smaller
\* than the value that stands for uninitialised memory.
TotalsFromHeap == \A o \in Obj : csize[o] < 500

\* The arc lists are initialised before arc_lookup walks them.
ArcListsInitialised == pc # "segv"
=============================================================================
