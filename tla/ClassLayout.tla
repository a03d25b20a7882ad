----------------------------- MODULE ClassLayout -----------------------------
(***************************************************************************)
(* resolveClassNode and its helpers (src/phat.c): the layout of a class'   *)
(* instances, computed once per class from the class dumps read so far.    *)
(*                                                                         *)
(* ci->values lists the fields of a class, inherited ones first; the bytes *)
(* of an instance are in the opposite order, own fields first.  So one     *)
(* loop walks up the superclasses, giving each field its offset, and fills *)
(* values from the back.  Own fields are the finfo records of readClass;   *)
(* inherited ones are copies, because each subclass gives them an offset   *)
(* of its own.                                                             *)
(*                                                                         *)
(* Classes are resolved after every HEAP DUMP record, on demand of the     *)
(* objects met, and class dumps may be read again in a later record.  A    *)
(* class whose dump has not been read (the classes made up for arrays are  *)
(* never dumped) has what talloc left in superId, cfields and fields, and  *)
(* in cstats and statics, through which resolveClassNode then writes.      *)
(***************************************************************************)
EXTENDS Integers, Sequences, FiniteSets, FiniteSetsExt

CONSTANTS
    Class,      \* the keys of cTable
    Dumps,      \* what the class dumps of a file may say: [super, fields]
    Files,      \* a file: for each HEAP DUMP record, the classes it dumps
    Garbage,    \* what talloc may leave in a class: [super, cfields]
    Width       \* the bytes of a field of each type

ASSUME ClassAssumption == IsFiniteSet(Class) /\ Class \subseteq Nat \ {0}

FType == DOMAIN Width

ASSUME WidthAssumption == Width \in [FType -> Nat]

ASSUME DumpsAssumption ==
    \A d \in Dumps : /\ d.super \in [Class -> Class \cup {0}]
                     /\ d.fields \in [Class -> Seq(FType)]

ASSUME FilesAssumption == Files \subseteq Seq(SUBSET Class)

ASSUME GarbageAssumption == Garbage \subseteq [super : Nat, cfields : Nat]

VARIABLES
    dump, file,     \* the input
    left,           \* the classes of the current record still to be read
    finfo,          \* the finfo records allocated so far; an address is an index
    superId, cfields, tfields, values, size, resolved,      \* struct _cinfo
    fields,         \* ci->fields: the address of the first, or 0 if never set
    stack,          \* the calls of resolveClassNode, innermost first
    pc, arg,        \* what is called, and with which class
    known,          \* the classes whose superclasses were all dumped on entry
    reread          \* the classes dumped again after they were resolved

input == <<dump, file>>
cinfo == <<superId, cfields, tfields, values, size, resolved, fields>>
vars  == <<input, left, finfo, cinfo, stack, pc, arg, known, reread>>

Unset == 0      \* a slot of talloc_array(ci, finfo *, tfields) not yet stored

Dumped(c) == fields[c] # 0

Top == Head(stack)

-----------------------------------------------------------------------------
(***************************************************************************)
(* Superclasses.                                                           *)
(***************************************************************************)

\* The n-th superclass of c when sup gives the superclasses, 0 above the last.
Lineage(sup, c) ==
    LET up[n \in Nat] == IF n = 0 THEN c
                         ELSE IF up[n - 1] \in Class THEN sup[up[n - 1]] ELSE 0
    IN  up

Levels == 0..Cardinality(Class)

\* Java classes do not inherit from themselves.
ASSUME AcyclicAssumption ==
    \A d \in Dumps, c \in Class : \E n \in Levels : Lineage(d.super, c)[n] = 0

\* getSuperClass, n times.
Up(c) == Lineage(superId, c)

\* resolveSClassSize reaches a class without superclass at level n.  Otherwise
\* it is called with NULL, or does not end.
RootAt(c, n) ==
    /\ \A m \in 0..n : Up(c)[m] \in Class
    /\ superId[Up(c)[n]] = 0

\* The fields of the first n classes from c up, for every n.
FieldSum(c) ==
    LET up == Up(c)
        sum[n \in Nat] == IF n = 0 THEN 0
                          ELSE sum[n - 1] + (IF up[n - 1] \in Class THEN cfields[up[n - 1]] ELSE 0)
    IN  sum

\* Mutant of resolveSClassSize: the fields of the topmost class are counted too.
SizeWithRoot(c) == FieldSum(c)[1 + (CHOOSE n \in Levels : RootAt(c, n))]

\* The fields of the class and of its superclasses; those of the topmost class
\* are not counted.
resolveSClassSize(c) == FieldSum(c)[CHOOSE n \in Levels : RootAt(c, n)]

\* The while loop of resolveClassNode: how many classes up the next field is.
Climbs(f, n) ==
    /\ \A m \in 0..n : Up(f.cc)[m] \in Class
    /\ IF n = 0 THEN f.fieldNo < cfields[f.cc]
       ELSE /\ f.fieldNo >= cfields[f.cc]
            /\ cfields[Up(f.cc)[n]] > 0
            /\ \A m \in 1..(n - 1) : cfields[Up(f.cc)[m]] = 0

-----------------------------------------------------------------------------
Init ==
    /\ dump \in Dumps /\ file \in Files
    /\ left = {}
    /\ finfo = <<>>
    /\ \E g \in Garbage : /\ superId = [c \in Class |-> g.super]
                          /\ cfields = [c \in Class |-> g.cfields]
    /\ tfields = [c \in Class |-> 0]
    /\ values = [c \in Class |-> <<>>]
    /\ size = [c \in Class |-> 0]
    /\ resolved = [c \in Class |-> FALSE]
    /\ fields = [c \in Class |-> 0]
    /\ stack = <<>>
    /\ pc = "record" /\ arg = 0
    /\ known = {} /\ reread = {}

\* readHeap starts on the next HEAP DUMP record.
NextRecord ==
    /\ pc = "record" /\ file # <<>>
    /\ left' = Head(file) /\ file' = Tail(file)
    /\ pc' = "read"
    /\ UNCHANGED <<dump, finfo, cinfo, stack, arg, known, reread>>

\* Mutant of ReadClass: the class is to be resolved again.
ReadClassForgets(c) ==
    /\ pc = "read" /\ c \in left
    /\ left' = left \ {c}
    /\ superId' = [superId EXCEPT ![c] = dump.super[c]]
    /\ cfields' = [cfields EXCEPT ![c] = Len(dump.fields[c])]
    /\ fields' = [fields EXCEPT ![c] = Len(finfo) + 1]
    /\ finfo' = finfo \o [k \in 1..Len(dump.fields[c]) |->
                            [ident |-> <<c, k>>, ftype |-> dump.fields[c][k],
                             named |-> FALSE, offset |-> 0]]
    /\ resolved' = [resolved EXCEPT ![c] = FALSE]
    /\ UNCHANGED <<input, tfields, values, size, stack, pc, arg, known, reread>>

\* readClass: new finfo records, with neither name nor offset.  resolved,
\* tfields and values are not touched.
ReadClass(c) ==
    /\ pc = "read" /\ c \in left
    /\ left' = left \ {c}
    /\ superId' = [superId EXCEPT ![c] = dump.super[c]]
    /\ cfields' = [cfields EXCEPT ![c] = Len(dump.fields[c])]
    /\ fields' = [fields EXCEPT ![c] = Len(finfo) + 1]
    /\ finfo' = finfo \o [k \in 1..Len(dump.fields[c]) |->
                            [ident |-> <<c, k>>, ftype |-> dump.fields[c][k],
                             named |-> FALSE, offset |-> 0]]
    /\ reread' = reread \cup (IF resolved[c] THEN {c} ELSE {})
    /\ UNCHANGED <<input, tfields, values, size, resolved, stack, pc, arg, known>>

\* The record has been read; readHeap goes on to the objects.
StartResolving ==
    /\ pc = "read" /\ left = {}
    /\ pc' = "drive"
    /\ UNCHANGED <<input, left, finfo, cinfo, stack, arg, known, reread>>

\* resolveInstance meets an object of class c.
Drive(c) ==
    /\ pc = "drive" /\ ~resolved[c]
    /\ arg' = c /\ pc' = "call"
    /\ UNCHANGED <<input, left, finfo, cinfo, stack, known, reread>>

DriveEnd ==
    /\ pc = "drive"
    /\ pc' = "record"
    /\ UNCHANGED <<input, left, finfo, cinfo, stack, arg, known, reread>>

-----------------------------------------------------------------------------
(***************************************************************************)
(* resolveClassNode                                                        *)
(***************************************************************************)

CallResolved ==
    /\ pc = "call" /\ resolved[arg]
    /\ pc' = "ret"
    /\ UNCHANGED <<input, left, finfo, cinfo, stack, arg, known, reread>>

\* Mutant of Enter: the superclass is not resolved first.
EnterAlone ==
    /\ pc = "call" /\ ~resolved[arg]
    /\ \E n \in Levels : RootAt(arg, n)
    /\ LET total == resolveSClassSize(arg)
       IN  /\ tfields' = [tfields EXCEPT ![arg] = total]
           /\ stack' = <<[class |-> arg, cc |-> arg, target |-> total - cfields[arg],
                          fieldNo |-> 0, i |-> 0, index |-> 0]>> \o stack
    /\ pc' = "ret" /\ UNCHANGED arg
    /\ UNCHANGED <<input, left, finfo, superId, cfields, values, size, resolved,
                   fields, known, reread>>

\* tfields, the statics (only marked, see EnterSegv), then the superclass if there
\* is one.
Enter ==
    /\ pc = "call" /\ ~resolved[arg]
    /\ \E n \in Levels : RootAt(arg, n)
    /\ LET total == resolveSClassSize(arg)
       IN  /\ tfields' = [tfields EXCEPT ![arg] = total]
           /\ stack' = <<[class |-> arg, cc |-> arg, target |-> total - cfields[arg],
                          fieldNo |-> 0, i |-> 0, index |-> 0]>> \o stack
    /\ IF superId[arg] \in Class THEN pc' = "call" /\ arg' = superId[arg]
                                 ELSE pc' = "ret" /\ UNCHANGED arg
    /\ known' = known \cup (IF \A n \in Levels : Up(arg)[n] \in Class => Dumped(Up(arg)[n])
                            THEN {arg} ELSE {})
    /\ UNCHANGED <<input, left, finfo, superId, cfields, values, size, resolved,
                   fields, reread>>

\* resolveSClassSize follows superId to no class, or for ever; or the statics of a
\* class that was not dumped, whose number and address were never set, are marked
\* in memory that is not there.
EnterSegv ==
    /\ pc = "call" /\ ~resolved[arg]
    /\ ~Dumped(arg) \/ ~\E n \in Levels : RootAt(arg, n)
    /\ pc' = "segv"
    /\ UNCHANGED <<input, left, finfo, cinfo, stack, arg, known, reread>>

\* The superclass is resolved: the loop starts with an array of no values.
Begin ==
    /\ pc = "ret" /\ stack # <<>>
    /\ values' = [values EXCEPT ![Top.class] =
                    [k \in 1..tfields[Top.class] |-> Unset]]
    /\ pc' = "loop"
    /\ UNCHANGED <<input, left, finfo, superId, cfields, tfields, size, resolved,
                   fields, stack, arg, known, reread>>

ReturnToDriver ==
    /\ pc = "ret" /\ stack = <<>>
    /\ pc' = "drive"
    /\ UNCHANGED <<input, left, finfo, cinfo, stack, arg, known, reread>>

\* copyField: a record of the subclass' own.  The result is the store and the
\* address.
copyField(store, src) == [store |-> Append(store, store[src]), at |-> Len(store) + 1]

\* The own field: the record itself, which gets its name now.
ownField(store, src) == [store |-> [store EXCEPT ![src].named = TRUE], at |-> src]

\* Mutant of Climbed: target is not moved back.
ClimbedSameTarget(f, n) ==
    [f EXCEPT !.cc = Up(f.cc)[n], !.fieldNo = IF n = 0 THEN f.fieldNo ELSE 0]

\* The next field of the frame: its class cc, the frame's target for it and its
\* number there.  The classes passed over have no field to move target by.
Climbed(f, n) ==
    IF n = 0 THEN f
    ELSE [f EXCEPT !.cc = Up(f.cc)[n], !.fieldNo = 0, !.target = @ - cfields[Up(f.cc)[n]]]

\* One turn of the loop, with the climb that precedes it.
Place ==
    /\ pc = "loop" /\ Top.i < tfields[Top.class]
    /\ \E n \in Levels :
          /\ Climbs(Top, n)
          /\ LET f     == Climbed(Top, n)
                 src   == fields[f.cc] + f.fieldNo
                 field == IF f.cc = f.class THEN ownField(finfo, src)
                                            ELSE copyField(finfo, src)
             IN  /\ Dumped(f.cc)
                 /\ values' = [values EXCEPT ![f.class][f.target + f.fieldNo + 1] = field.at]
                 /\ finfo' = [field.store EXCEPT ![field.at].offset = f.index]
                 /\ stack' = <<[f EXCEPT !.i = @ + 1, !.fieldNo = @ + 1,
                                         !.index = @ + Width[finfo[src].ftype]]>>
                             \o Tail(stack)
    /\ UNCHANGED <<input, left, superId, cfields, tfields, size, resolved, fields,
                   pc, arg, known, reread>>

\* There is no class to climb to, or its fields pointer was never set.
PlaceSegv ==
    /\ pc = "loop" /\ Top.i < tfields[Top.class]
    /\ ~\E n \in Levels : Climbs(Top, n) /\ Dumped(Up(Top.cc)[n])
    /\ pc' = "segv"
    /\ UNCHANGED <<input, left, finfo, cinfo, stack, arg, known, reread>>

Finish ==
    /\ pc = "loop" /\ Top.i >= tfields[Top.class]
    /\ size' = IF tfields[Top.class] > 0 THEN [size EXCEPT ![Top.class] = Top.index]
                                         ELSE size
    /\ resolved' = [resolved EXCEPT ![Top.class] = TRUE]
    /\ stack' = Tail(stack)
    /\ pc' = "ret"
    /\ UNCHANGED <<input, left, finfo, superId, cfields, tfields, values, fields,
                   arg, known, reread>>

Terminated ==
    /\ pc = "segv" \/ (pc = "record" /\ file = <<>>)
    /\ UNCHANGED vars

Next ==
    \/ NextRecord \/ StartResolving \/ DriveEnd
    \/ \E c \in Class : ReadClass(c) \/ Drive(c)
    \/ CallResolved \/ Enter \/ EnterSegv \/ Begin \/ ReturnToDriver
    \/ Place \/ PlaceSegv \/ Finish
    \/ Terminated

Spec == Init /\ [][Next]_vars

-----------------------------------------------------------------------------
(***************************************************************************)
(* Properties                                                              *)
(***************************************************************************)

FInfo == [ident : Class \X Nat, ftype : FType, named : BOOLEAN, offset : Nat]

Frame == [class : Class, cc : Class, target : Int, fieldNo : Nat, i : Nat, index : Nat]

\* The fields of struct _cinfo, the finfo store and the locals of the calls.
TypeOK ==
    /\ left \subseteq Class
    /\ finfo \in Seq(FInfo)
    /\ superId \in [Class -> Nat]
    /\ cfields \in [Class -> Nat]
    /\ tfields \in [Class -> Nat]
    /\ values \in [Class -> Seq(0..Len(finfo))]
    /\ size \in [Class -> Nat]
    /\ resolved \in [Class -> BOOLEAN]
    /\ fields \in [Class -> 0..(Len(finfo) + 1)]
    /\ stack \in Seq(Frame)
    /\ pc \in {"record", "read", "drive", "call", "ret", "loop", "segv"}
    /\ arg \in Class \cup {0}
    /\ known \subseteq Class /\ reread \subseteq Class

\* The climb never leaves the array that tfields sized: the next field has a
\* slot of its own in values, one that no earlier turn has stored.  tfields is
\* counted by resolveSClassSize on one walk up the superclasses, the slots by
\* the loop on another.
SlotInside ==
    pc = "loop" /\ Top.i < tfields[Top.class] =>
       \A n \in Levels : Climbs(Top, n) =>
          LET f    == Climbed(Top, n)
              slot == f.target + f.fieldNo + 1
          IN  slot \in DOMAIN values[f.class] /\ values[f.class][slot] = Unset

\* The reference: what the class dumps say an instance of c looks like.
Inherits(c, d) == \E n \in Levels : Lineage(dump.super, c)[n] = d

Members(c) ==
    UNION {{<<d, k>> : k \in 1..Len(dump.fields[d])} :
              d \in {e \in Class : Inherits(c, e) /\ dump.super[e] # 0}}

Earlier(m, p) == m[1] = p[1] /\ m[2] < p[2]
Lower(m, p)   == m[1] # p[1] /\ Inherits(m[1], p[1])

\* The bytes: the own fields, then those of each superclass in turn.
BytesBefore(c, p) == {m \in Members(c) : Lower(m, p) \/ Earlier(m, p)}

\* values: the fields of the topmost class first.
ValuesBefore(c, p) == {m \in Members(c) : Lower(p, m) \/ Earlier(m, p)}

Bytes(M) == MapThenSumSet(LAMBDA m : Width[dump.fields[m[1]][m[2]]], M)

\* A class resolved when its dump and those of its superclasses had been read
\* has the layout they define: every field of its own and of its superclasses
\* (but the topmost) is in values, in order, with its type and with the offset
\* of its bytes in an instance, and the size is that of all of them.
LayoutCorrect ==
    \A c \in known :
       resolved[c] =>
          /\ tfields[c] = Cardinality(Members(c))
          /\ size[c] = Bytes(Members(c))
          /\ \A m \in Members(c) :
                LET v == finfo[values[c][Cardinality(ValuesBefore(c, m)) + 1]]
                IN  /\ v.ident = m
                    /\ v.ftype = dump.fields[m[1]][m[2]]
                    /\ v.offset = Bytes(BytesBefore(c, m))

\* printInstance prints the name of every field.  A name is looked up by the
\* class that declares the field and reaches the subclasses by copyField, so
\* it is missing only below a class that was resolved before one of its dumps
\* (by the superclasses that readClass stored or, before, talloc left): the
\* recursion stops there, or finds the new records without names.
NamesLostOnlyByRereading ==
    \A c \in Class : resolved[c] =>
       \A k \in DOMAIN values[c] :
          finfo[values[c][k]].named \/ \E n \in Levels : Up(c)[n] \in reread

\* Following a pointer that is not there takes a class, on the way up from the
\* one first called for, whose dump has not been read: with all the dumps, the
\* loop finds as many fields as resolveSClassSize counted.
SegvOnlyUndumped ==
    pc = "segv" =>
       LET outer == IF stack = <<>> THEN arg ELSE stack[Len(stack)].class
       IN  \E n \in Levels : Up(outer)[n] \in Class /\ ~Dumped(Up(outer)[n])

\* resolveClassNode stays within the memory it has: addresses are those of field
\* records, slots those of the array, and only a missing dump leads elsewhere.
WithinMemory == TypeOK /\ SlotInside /\ SegvOnlyUndumped

\* The layout of a resolved class never changes: not when a subclass lays out
\* the fields it inherits, and not when the class is dumped again.
LayoutKept ==
    [][\A c \in Class : resolved[c] =>
          /\ values'[c] = values[c] /\ tfields'[c] = tfields[c] /\ resolved'[c]
          /\ \A k \in DOMAIN values[c] : finfo'[values[c][k]] = finfo[values[c][k]]]_vars

=============================================================================
