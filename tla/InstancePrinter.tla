--------------------------- MODULE InstancePrinter ---------------------------
(***************************************************************************)
(* What phat prints for -C and -a at the end of each heap dump record:     *)
(* collectStats resolves and prints the objects of a class in turn;        *)
(* resolveInstances and printInstances do all objects, one after the other.*)
(* printInstance recurses through fields and elements; it marks instances  *)
(* (visit) but not arrays, and stops below plimit.                         *)
(*                                                                         *)
(* hTable lives through all records of the file: each adds objects to it   *)
(* and replaces those it dumps again by new ones, neither resolved nor     *)
(* marked.  What an earlier record resolved or marked stays so, although   *)
(* it may refer to what came only now.                                     *)
(*                                                                         *)
(* Resolving is one step here: InstanceResolver shows that it enters what  *)
(* its argument reaches through objects not resolved before.  pshort is 0  *)
(* in every live call (the call of printString is disabled) and inString   *)
(* only chooses a format; values other than references and the text are    *)
(* left out.                                                               *)
(***************************************************************************)
EXTENDS Integers, Sequences, FiniteSets

CONSTANTS Obj,      \* identifiers of objects, in the order of the keys of hTable
          Records,  \* for each heap dump record in turn, what it may hold
          Roots,    \* sets of objects that -C selects
          Limits,   \* values of -l; 0 is none
          MaxDepth  \* calls that fit on the C stack

ASSUME ObjAssumption == Obj \subseteq Nat \ {0} /\ IsFiniteSet(Obj)
ASSUME BoundsAssumption == Limits \subseteq Nat /\ MaxDepth \in Nat

\* The identifiers of no object: null, the all-ones value, and some other.
Ones == -1
NoObject == {0, Ones, -2}

\* What a record or hTable has for an identifier; "absent" is nothing.
HObject == [kind : {"instance", "oarray", "varray", "absent"}, refs : Seq(Obj \cup NoObject)]

Rounds == Len(Records)

ASSUME RecordsAssumption ==
    /\ Records \in Seq(SUBSET [Obj -> HObject])
    /\ \A n \in 1 .. Rounds : \A r \in Records[n] : \A o \in Obj :
          r[o].kind \in {"varray", "absent"} => r[o].refs = <<>>
ASSUME RootsAssumption == Roots \subseteq SUBSET Obj

VARIABLES
    heap,      \* hTable
    born,      \* history: the record that dumped an object last; 0 is none
    roots, every, plimit,  \* the class of -C, -a and -l
    round,     \* heap dump records read
    todo,      \* objects the traversal has not come to
    loaded,    \* ho->resolved, as the record at whose end it was set; 0 is not
    visit,     \* ho->visit
    stack,     \* calls of printInstance, innermost first
    pc,        \* "drive", "call", "loop", "done", "overflow", "unset"
    arg,       \* the argument of the call: [obj, indent]
    last,      \* history: the record at whose end the object's own line was printed last
    fields     \* history: how often the fields of an instance were printed

fixed == <<heap, born, roots, every, plimit>>
vars == <<heap, born, roots, every, plimit, round, todo, loaded, visit, stack, pc, arg, last, fields>>

\* The objects in hTable, those with hvalues, and those printed.
Table    == {o \in Obj : heap[o].kind # "absent"}
resolved == {o \in Obj : loaded[o] > 0}
shown    == {o \in Obj : last[o] > 0}

\* The objects that o refers to; a set that resolving does not leave: it goes no
\* further where an object is resolved; the objects that resolving o comes to.
Succ(o)   == {heap[o].refs[i] : i \in DOMAIN heap[o].refs} \cap Table
Closed(S) == \A x \in S \ resolved : Succ(x) \subseteq S
Reach(o)  == {x \in Obj : \A S \in SUBSET Obj : o \in S /\ Closed(S) => x \in S}

\* f, a value of loaded, after the objects of S were resolved at the end of record n.
Load(f, S, n) == [x \in Obj |-> IF x \in S /\ f[x] = 0 THEN n ELSE f[x]]

NoArg == [obj |-> 0, indent |-> 0]

Init ==
    /\ plimit \in Limits
    /\ \/ every = TRUE /\ roots = Obj
       \/ every = FALSE /\ roots \in Roots
    /\ heap = [o \in Obj |-> [kind |-> "absent", refs |-> <<>>]]
    /\ born = [o \in Obj |-> 0] /\ loaded = [o \in Obj |-> 0] /\ last = [o \in Obj |-> 0]
    /\ round = 0 /\ todo = {} /\ visit = {} /\ stack = <<>>
    /\ pc = "drive" /\ arg = NoArg
    /\ fields = [o \in Obj |-> 0]

-----------------------------------------------------------------------------
(* The traversals of hTable.                                               *)

\* The next heap dump record has put r in hTable and ends: what was dumped again
\* is a new object.  With -a everything is resolved first.
EndOfHeap ==
    /\ pc = "drive" /\ todo = {} /\ round < Rounds
    /\ round' = round + 1
    /\ \E r \in Records[round + 1] :
          LET Renew(f, x) == [o \in Obj |-> IF r[o].kind = "absent" THEN f[o] ELSE x]
          IN  /\ heap' = [o \in Obj |-> IF r[o].kind = "absent" THEN heap[o] ELSE r[o]]
              /\ born' = Renew(born, round')
              /\ loaded' = Load(Renew(loaded, 0), IF every THEN Table' ELSE {}, round')
              /\ visit' = {o \in visit : r[o].kind = "absent"}
              /\ last' = Renew(last, 0)
              /\ fields' = Renew(fields, 0)
    /\ todo' = roots \cap Table'
    /\ UNCHANGED <<roots, every, plimit, stack, pc, arg>>

\* Mutant of Drive: collectStats prints an object before it resolves it.
DriveUnresolved ==
    /\ pc = "drive"
    /\ \E o \in todo :
          /\ \A x \in todo : o <= x
          /\ todo' = todo \ {o}
          /\ arg' = [obj |-> o, indent |-> 0]
    /\ pc' = "call"
    /\ UNCHANGED <<fixed, round, loaded, visit, stack, last, fields>>

\* collectStats or printInstances comes to its next object.
Drive ==
    /\ pc = "drive"
    /\ \E o \in todo :
          /\ \A x \in todo : o <= x
          /\ todo' = todo \ {o}
          /\ loaded' = Load(loaded, IF every THEN {} ELSE Reach(o), round)
          /\ arg' = [obj |-> o, indent |-> 0]
    /\ pc' = "call"
    /\ UNCHANGED <<fixed, round, visit, stack, last, fields>>

\* The file has no further heap dump record.
DriveEnd ==
    /\ pc = "drive" /\ todo = {}
    /\ pc' = "done"
    /\ UNCHANGED <<fixed, round, todo, loaded, visit, stack, arg, last, fields>>

-----------------------------------------------------------------------------
(* printInstance.                                                          *)

top == Head(stack)
callee == arg.obj

Resume == /\ pc' = IF stack = <<>> THEN "drive" ELSE "loop"
          /\ arg' = NoArg

\* "[ recursive ]": the instance is marked.
PrintRecursive ==
    /\ pc = "call" /\ callee \in visit
    /\ Resume
    /\ UNCHANGED <<fixed, round, todo, loaded, visit, stack, last, fields>>

\* Mutant of BelowLimit: lets one more level through.
BelowNextLimit(indent) == 1 < indent /\ plimit # 0 /\ indent > plimit + 1

BelowLimit(indent) == 1 < indent /\ plimit # 0 /\ indent > plimit

\* Too deep: not even a line is printed.
PrintNothing ==
    /\ pc = "call" /\ callee \notin visit /\ BelowLimit(arg.indent)
    /\ Resume
    /\ UNCHANGED <<fixed, round, todo, loaded, visit, stack, last, fields>>

\* The callee is printed, and its hvalues are not read before they are set: of an
\* object with no references there may be none.
Printable == /\ pc = "call" /\ callee \notin visit /\ ~BelowLimit(arg.indent)
             /\ callee \in resolved \/ heap[callee].refs = <<>>

\* The hvalues of an object that was not resolved are read: makeObj left the pointer
\* unset, and nothing is said of what follows.
PrintUnset ==
    /\ pc = "call" /\ callee \notin visit /\ ~BelowLimit(arg.indent)
    /\ callee \notin resolved
    /\ heap[callee].kind = "oarray" => heap[callee].refs # <<>>
    /\ pc' = "unset"
    /\ UNCHANGED <<fixed, round, todo, loaded, visit, stack, arg, last, fields>>

\* A value array is one line of values.
PrintVArray ==
    /\ Printable
    /\ heap[callee].kind = "varray"
    /\ last' = [last EXCEPT ![callee] = round]
    /\ Resume
    /\ UNCHANGED <<fixed, round, todo, loaded, visit, stack, fields>>

\* A call that loops over elements or fields; last_cnt and last_pid are the
\* locals of the array loop, `run' (history) the elements last_cnt stands for,
\* `label' the identifier printed last and `told' all elements reported.
Frame(a) == [obj |-> a.obj, indent |-> a.indent, i |-> 1, last_cnt |-> 0, last_pid |-> Ones,
             run |-> <<>>, label |-> 0, told |-> 0]

Push == IF Len(stack) < MaxDepth
        THEN stack' = <<Frame(arg)>> \o stack /\ pc' = "loop"
        ELSE UNCHANGED stack /\ pc' = "overflow"

PrintOArray ==
    /\ Printable
    /\ heap[callee].kind = "oarray"
    /\ last' = [last EXCEPT ![callee] = round]
    /\ Push /\ arg' = NoArg
    /\ UNCHANGED <<fixed, round, todo, loaded, visit, fields>>

\* Mutant of PrintFields: the mark is not set.
PrintFieldsUnmarked ==
    /\ Printable
    /\ heap[callee].kind = "instance"
    /\ last' = [last EXCEPT ![callee] = round]
    /\ fields' = [fields EXCEPT ![callee] = @ + 1]
    /\ Push /\ arg' = NoArg
    /\ UNCHANGED <<fixed, round, todo, loaded, visit>>

\* An instance is marked before its fields are printed.
PrintFields ==
    /\ Printable
    /\ heap[callee].kind = "instance"
    /\ last' = [last EXCEPT ![callee] = round]
    /\ visit' = visit \cup {callee}
    /\ fields' = [fields EXCEPT ![callee] = @ + 1]
    /\ Push /\ arg' = NoArg
    /\ UNCHANGED <<fixed, round, todo, loaded>>

-----------------------------------------------------------------------------
(* The loops.                                                              *)

looping == pc = "loop" /\ top.i <= Len(heap[top.obj].refs)
ident == heap[top.obj].refs[top.i]
isArray == heap[top.obj].kind = "oarray"

Update(f) == stack' = <<f>> \o Tail(stack)

\* Mutant of Flushed: the count goes on.
FlushedOnly(f) == [f EXCEPT !.told = @ + f.last_cnt, !.run = <<>>]

\* f after " [ n elements ]", which is printed if n is not 0.
Flushed(f) == [f EXCEPT !.told = @ + f.last_cnt, !.last_cnt = 0, !.run = <<>>]

\* A reference to an object of the table is followed.
FollowField ==
    /\ looping /\ ~isArray /\ ident \in Table
    /\ Update([top EXCEPT !.i = @ + 1])
    /\ arg' = [obj |-> ident, indent |-> top.indent + 1]
    /\ pc' = "call"
    /\ UNCHANGED <<fixed, round, todo, loaded, visit, last, fields>>

\* Mutant of SkipField: does not go on to the next field.
SkipFieldForever ==
    /\ looping /\ ~isArray /\ ident \notin Table
    /\ UNCHANGED <<fixed, round, todo, loaded, visit, stack, pc, arg, last, fields>>

\* A null or unknown reference is a line of its own.
SkipField ==
    /\ looping /\ ~isArray /\ ident \notin Table
    /\ Update([top EXCEPT !.i = @ + 1])
    /\ UNCHANGED <<fixed, round, todo, loaded, visit, pc, arg, last, fields>>

\* Mutant of FollowElement: an array in itself is not a level deeper.
FollowElementFlat ==
    /\ looping /\ isArray /\ ident \in Table
    /\ LET f == Flushed(top) IN Update([f EXCEPT !.i = @ + 1, !.told = @ + 1])
    /\ arg' = [obj |-> ident, indent |-> top.indent + (IF ident = top.obj THEN 0 ELSE 1)]
    /\ pc' = "call"
    /\ UNCHANGED <<fixed, round, todo, loaded, visit, last, fields>>

FollowElement ==
    /\ looping /\ isArray /\ ident \in Table
    /\ LET f == Flushed(top) IN Update([f EXCEPT !.i = @ + 1, !.told = @ + 1])
    /\ arg' = [obj |-> ident, indent |-> top.indent + 1]
    /\ pc' = "call"
    /\ UNCHANGED <<fixed, round, todo, loaded, visit, last, fields>>

\* A null or unknown element that differs from the last one begins a run.
BeginRun ==
    /\ looping /\ isArray /\ ident \notin Table /\ ident # top.last_pid
    /\ LET f == Flushed(top)
       IN  Update([f EXCEPT !.i = @ + 1, !.last_cnt = 1, !.last_pid = ident,
                            !.run = <<ident>>, !.label = ident])
    /\ UNCHANGED <<fixed, round, todo, loaded, visit, pc, arg, last, fields>>

\* Any other is only counted.
ExtendRun ==
    /\ looping /\ isArray /\ ident \notin Table /\ ident = top.last_pid
    /\ Update([top EXCEPT !.i = @ + 1, !.last_cnt = @ + 1, !.run = Append(@, ident)])
    /\ UNCHANGED <<fixed, round, todo, loaded, visit, pc, arg, last, fields>>

\* The loop is over.
EndLoop ==
    /\ pc = "loop" /\ top.i > Len(heap[top.obj].refs)
    /\ stack' = Tail(stack)
    /\ pc' = IF Len(stack) = 1 THEN "drive" ELSE "loop"
    /\ UNCHANGED <<fixed, round, todo, loaded, visit, arg, last, fields>>

Terminated == pc \in {"done", "overflow", "unset"} /\ UNCHANGED vars

Next ==
    \/ EndOfHeap \/ Drive \/ DriveEnd
    \/ PrintRecursive \/ PrintNothing \/ PrintUnset \/ PrintVArray \/ PrintOArray \/ PrintFields
    \/ FollowField \/ SkipField \/ FollowElement \/ BeginRun \/ ExtendRun \/ EndLoop
    \/ Terminated

Spec == Init /\ [][Next]_vars
FairSpec == Spec /\ WF_vars(Next)
-----------------------------------------------------------------------------
(* Properties.                                                             *)

\* The locals of printInstance and the marks in the table keep their types, and
\* calls nest no deeper than the stack.
TypeOK ==
    /\ pc \in {"drive", "call", "loop", "done", "overflow", "unset"}
    /\ round \in 0 .. Rounds
    /\ heap \in [Obj -> HObject]
    /\ {born, loaded, last} \subseteq [Obj -> 0 .. round]
    /\ todo \cup resolved \cup visit \cup shown \subseteq Table
    /\ arg.obj \in Obj \cup {0} /\ arg.indent \in 0 .. MaxDepth
    /\ Len(stack) <= MaxDepth
    /\ \A k \in DOMAIN stack : stack[k].obj \in Table /\ stack[k].i \in Nat \ {0}

\* With -a, printInstance reads only hvalues that were set.  With -C it reads unset
\* ones in one case only: of an object that was dumped after the object that refers
\* to it was resolved, by a later heap dump record, since what is resolved once is
\* not resolved again.
ReadsResolved ==
    TypeOK /\ (pc = "unset" => /\ ~every /\ stack # <<>>
                               /\ loaded[top.obj] \in 1 .. born[arg.obj] - 1)

\* The fields of an instance are printed once in the life of its hobject, however
\* many references, roots and heap dump records lead to it.
FieldsOnce == \A o \in Obj : fields[o] <= 1

\* The traversal of the last record read is over.
AtEndOfRecord == pc \in {"drive", "done"} /\ todo = {} /\ round > 0

\* What o referred to when it was printed last.
Known(o) == {y \in Succ(o) : born[y] <= last[o]}

\* Without -l, at the end of every record, all selected objects are printed, and so
\* is all that a printed object refers to, except what was dumped after it was
\* printed last (an instance is printed once; its later "[ recursive ]" line leads
\* nowhere).
CompleteWithoutLimit ==
    AtEndOfRecord /\ plimit = 0 =>
        /\ roots \cap Table \subseteq shown
        /\ \A o \in shown : Known(o) \subseteq shown

\* Only a cycle of object arrays, which are never marked, overflows the stack, and
\* only without -l.
OverflowOnlyByArrays ==
    pc = "overflow" =>
        /\ plimit = 0
        /\ \E j, k \in DOMAIN stack :
              /\ j < k /\ stack[j].obj = stack[k].obj
              /\ \A n \in j .. k : heap[stack[n].obj].kind = "oarray"

\* Each element of an object array is reported once, as an object or in the count
\* of a run; a run is of equal identifiers, and the identifier printed last, before
\* this run or an earlier one, is theirs, unless it is the all-ones value.
RunsAccounted ==
    \A k \in DOMAIN stack :
       LET f == stack[k]
       IN  heap[f.obj].kind = "oarray" =>
             /\ f.told + f.last_cnt = f.i - 1
             /\ f.last_cnt = Len(f.run)
             /\ \A n \in DOMAIN f.run : f.run[n] = f.last_pid
             /\ f.last_cnt > 0 => f.label = f.last_pid \/ f.last_pid = Ones

\* p is a chain of references from a root to x.
Path(p, m, x) ==
    /\ p \in [0 .. m -> Obj] /\ p[0] \in roots \cap Table /\ p[m] = x
    /\ \A j \in 0 .. m - 1 : p[j + 1] \in Succ(p[j])

\* Objects at most n references away from a root.
Within(n) == {x \in Obj : \E m \in 0 .. n : \E p \in [0 .. m -> Obj] : Path(p, m, x)}

\* The places that refer to o.
Sites(o) == UNION {{<<x, i>> : i \in {i \in DOMAIN heap[x].refs : heap[x].refs[i] = o}} : x \in Obj}

Unshared == \A o \in Obj : /\ \A s, t \in Sites(o) : s = t
                           /\ o \in roots => Sites(o) = {}

\* With -l n nothing is printed at the end of a record that is more than n references
\* away from every selected object; and at the end of the first one all that is
\* nearer is, if no two references and roots lead to the same object.  (A shared
\* object that is first met at the limit is marked, so that later its fields are not
\* printed where they would be due.)
LimitExact ==
    plimit # 0 =>
        /\ round > 0 => {o \in Obj : last[o] = round} \subseteq Within(plimit)
        /\ AtEndOfRecord /\ round = 1 /\ Unshared => shown = Within(plimit)

\* printInstance prints what is due: with -l and without it.
PrintsWhatIsDue == CompleteWithoutLimit /\ LimitExact

\* Printing ends on every heap, or overflows the stack or comes to unset hvalues.
Termination == <>(pc \in {"done", "overflow", "unset"})
=============================================================================
