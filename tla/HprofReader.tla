----------------------------- MODULE HprofReader -----------------------------
(***************************************************************************)
(* readDump and readHeap (phat.c): the two nested loops that parse an HPROF*)
(* file and fill the tables of struct jdump.                               *)
(*                                                                         *)
(* The file is a flat sequence of records; the sub-records of a heap dump  *)
(* follow their "heap" record, which states their total length in bytes.   *)
(* The file is walked forward, so the file cursor is the index of the next *)
(* record together with "left", the bytes between the cursor and the end   *)
(* of the current heap dump record.  The program does not know "left": it  *)
(* counts hsize down by what each handler believes it has read.            *)
(*                                                                         *)
(* Left out: the counters and the text of the two summaries, timestamps,   *)
(* and what a read returns once a record is cut in the middle ("torn"):    *)
(* from there on the program works with uninitialised variables.           *)
(***************************************************************************)
EXTENDS Integers, Sequences, FiniteSets

CONSTANTS
    Dumps,      \* the files to consider: sequences of records
    Options,    \* values of jf->fclass: "none", "*" or a class name
    IdSize,     \* jf->identsz, as the header of the file says it
    Cut,        \* those of them that may end before their last record does
    Modulus,    \* unsigned int arithmetic: hsize is modulo 2^32
    KeyMod,     \* keys of the tables are uint32_t
    Cap,        \* instances of a class that are kept (50000)
    FirstFake,  \* initial value of fakeClass (1000)
    Hash        \* crc32 of a class name

ASSUME SizesAssumption ==
    /\ IdSize \in Nat
    /\ Modulus \in Nat \ {0} /\ KeyMod \in Nat \ {0}
    /\ Cap \in Nat /\ FirstFake \in Nat

NameOf == DOMAIN Hash
StringName == "java/lang/String"
NULL == 0

\* Numbers of values by what readValue makes of them: identifiers, primitives of
\* 1, 2, 4 and 8 bytes, booleans that are neither 0 nor 1, values of unknown type.
Vals == [ref : Nat, b1 : Nat, b2 : Nat, b4 : Nat, b8 : Nat, illegal : Nat, unknown : Nat]

RootKind == {"unknown", "thread", "global", "local", "frame", "stack",
             "sticky", "block", "monitor"}

Record ==
    [tag : {"utf8"}, id : Nat, name : NameOf]
    \cup [tag : {"load"}, serial : Nat, id : Nat, nameId : Nat]
    \cup [tag : {"frame"}, serial : Nat]
    \cup [tag : {"other"}]
    \cup [tag : {"heap"}, rlen : Nat]

SubRecord ==
    [tag : {"root"}, kind : RootKind, id : Nat]
    \cup [tag : {"class"}, id : Nat, super : Nat, cpool : Vals, statics : Vals,
          cfields : Nat]
    \cup [tag : {"inst"}, id : Nat, class : Nat, isz : Nat]
    \cup [tag : {"oarray"}, id : Nat, class : Nat, n : Nat]
    \cup [tag : {"parray"}, id : Nat, type : 0..255, n : Nat]
    \cup [tag : {"bad"}, len : Nat]

SubTags == {"root", "class", "inst", "oarray", "parray", "bad"}

ASSUME DumpsAssumption == Dumps \subseteq Seq(Record \cup SubRecord)

\* crc32 has a value, a key of rcTable, for every name the program looks up.
ASSUME HashAssumption ==
    /\ KeyMod > 1 /\ Hash \in [NameOf -> 0..(KeyMod - 1)]
    /\ {StringName, "[Z", "[C", "[F", "[D", "[B", "[S", "[I", "[J"} \subseteq NameOf

VARIABLES
    dump,      \* the file
    next,      \* index of the record the cursor is at
    left,      \* bytes from the cursor to the end of the heap dump record
    eof,       \* the file ends at the cursor
    synced,    \* the cursor is where the loop of readDump left it
    fclass,    \* jf->fclass
    hsize,     \* hsize of readHeap
    slack,     \* history: bytes of this heap dump record that readValue miscounted
    sbTable,   \* string table: key -> name
    cinfo,     \* the cinfo structures, in order of allocation
    cTable, scTable, rcTable,   \* by ident, by serial, by hash of the name
    hTable,    \* key -> hobject
    roots,     \* key -> rtype
    javaLangString,             \* a cinfo, or NULL
    fakeClass,
    pc, code   \* control point; exit status

tables == <<sbTable, cinfo, cTable, scTable, rcTable, hTable, roots, fakeClass>>
cursor == <<left, eof, synced>>
env    == <<dump, fclass>>
vars   == <<env, next, cursor, hsize, slack, tables, javaLangString, pc, code>>

-----------------------------------------------------------------------------
\* trbt_insert32: one entry per 32-bit key, a later one replaces an earlier.
Key(id) == id % KeyMod
Put(table, id, v) == [k \in DOMAIN table \cup {Key(id)} |->
                        IF k = Key(id) THEN v ELSE table[k]]
Has(table, id) == Key(id) \in DOMAIN table
At(table, id)  == table[Key(id)]

\* mkcinfo leaves superId unset until readClass fills it in.
Uninit == -1
mkcinfo(id, name) == [ident |-> id, name |-> name, count |-> 0, superId |-> Uninit]

makeObj(ht, iid, cid, n) == [htype |-> ht, instId |-> iid, classId |-> cid, count |-> n]

\* findClass: the class last entered under the hash of the name.
findClass(name) == IF Hash[name] \in DOMAIN rcTable THEN rcTable[Hash[name]] ELSE NULL

PrimName == [t \in 4..11 |-> CASE t = 4 -> "[Z" [] t = 5 -> "[C" [] t = 6 -> "[F"
                               [] t = 7 -> "[D" [] t = 8 -> "[B" [] t = 9 -> "[S"
                               [] t = 10 -> "[I" [] t = 11 -> "[J"]
elsz == [t \in 4..11 |-> CASE t \in {4, 8} -> 1 [] t \in {5, 9} -> 2
                           [] t \in {6, 10} -> 4 [] t \in {7, 11} -> 8]

\* The types that readArray knows, and the bytes it takes for an element.
PrimType == 4..11
ElemBytes(t) == IF t \in PrimType THEN elsz[t] ELSE IdSize

\* readValue: the bytes of a number of values, without their type tags.  Of a value
\* of unknown type nothing is read.
ValueBytes(v) == v.ref * IdSize + v.b1 + 2 * v.b2 + 4 * v.b4 + 8 * v.b8 + v.illegal

\* What readValue returns for them: -1 for an illegal boolean, 0 for an unknown type.
readValue(v) == v.ref * IdSize + v.b1 + 2 * v.b2 + 4 * v.b4 + 8 * v.b8 - v.illegal

Entries(v) == v.ref + v.b1 + v.b2 + v.b4 + v.b8 + v.illegal + v.unknown

RootBytes(kind) ==
    CASE kind \in {"unknown", "sticky", "monitor"} -> IdSize
      [] kind \in {"thread", "local", "frame"}     -> IdSize + 8
      [] kind = "global"                           -> IdSize + IdSize
      [] kind \in {"stack", "block"}               -> IdSize + 4

\* Bytes a handler takes from the file: its reads and its fseek.
BytesRead(r) ==
    CASE r.tag = "root"   -> 1 + RootBytes(r.kind)
      [] r.tag = "class"  -> 1 + 7 * IdSize + 8
                             + 2 + 3 * Entries(r.cpool) + ValueBytes(r.cpool)
                             + 2 + (IdSize + 1) * Entries(r.statics) + ValueBytes(r.statics)
                             + 2 + (IdSize + 1) * r.cfields
      [] r.tag = "inst"   -> 1 + 2 * IdSize + 8 + r.isz
      [] r.tag = "oarray" -> 1 + 2 * IdSize + 8 + IdSize * r.n
      [] r.tag = "parray" -> 1 + IdSize + 9 + ElemBytes(r.type) * r.n
      [] r.tag = "bad"    -> r.len

\* The bytes of a heap dump record that are left before record i of d.
Rest(d) ==
    LET rest[i \in Nat] ==
          IF i <= 1 THEN 0
          ELSE CASE d[i - 1].tag = "heap" -> d[i - 1].rlen
                 [] d[i - 1].tag \in SubTags -> rest[i - 1] - BytesRead(d[i - 1])
                 [] OTHER -> 0
    IN  rest

\* The sub-records of a heap dump record fill it, stand nowhere else, and one of
\* unknown type is the last: nothing behind it can be told apart.
Framed(d, rest) ==
    /\ rest[1] = 0
    /\ \A i \in DOMAIN d :
          /\ rest[i] \in 0..(Modulus - 1)
          /\ rest[i] > 0 <=> d[i].tag \in SubTags
          /\ d[i].tag \in SubTags => rest[i + 1] = rest[i] - BytesRead(d[i])
          /\ d[i].tag = "bad" => rest[i + 1] = 0
          /\ d[i].tag = "heap" => rest[i + 1] = d[i].rlen
          /\ d[i].tag \notin SubTags \cup {"heap"} => rest[i + 1] = 0

ASSUME FramedAssumption == \A d \in Dumps : Framed(d, Rest(d))

\* Mutant of BytesCharged: the type tag of a static value is not counted either.
BytesChargedNoTag(r) ==
    CASE r.tag = "root"   -> 1 + RootBytes(r.kind)
      [] r.tag = "class"  -> 1 + (7 * IdSize) + 8
                             + 2 + 2 * Entries(r.cpool) + readValue(r.cpool)
                             + 2 + IdSize * Entries(r.statics) + readValue(r.statics)
                             + 2 + (1 + IdSize) * r.cfields
      [] r.tag = "inst"   -> 1 + r.isz + 8 + IdSize + IdSize
      [] r.tag = "oarray" -> 1 + (8 + IdSize) + IdSize + IdSize * r.n
      [] r.tag = "parray" -> 1 + (8 + IdSize) + 1 + ElemBytes(r.type) * r.n

\* Bytes a handler subtracts from hsize, the "hsize--" of the loop included.
\* For a constant pool entry readClass forgets the type tag, and the error returns
\* of readValue are subtracted like lengths.
BytesCharged(r) ==
    CASE r.tag = "root"   -> 1 + RootBytes(r.kind)
      [] r.tag = "class"  -> 1 + (7 * IdSize) + 8
                             + 2 + 2 * Entries(r.cpool) + readValue(r.cpool)
                             + 2 + (IdSize + 1) * Entries(r.statics) + readValue(r.statics)
                             + 2 + (1 + IdSize) * r.cfields
      [] r.tag = "inst"   -> 1 + r.isz + 8 + IdSize + IdSize
      [] r.tag = "oarray" -> 1 + (8 + IdSize) + IdSize + IdSize * r.n
      [] r.tag = "parray" -> 1 + (8 + IdSize) + 1 + ElemBytes(r.type) * r.n

\* What BytesCharged is short of BytesRead by.
Miscount(r) ==
    IF r.tag = "class" THEN Entries(r.cpool) + 2 * (r.cpool.illegal + r.statics.illegal) ELSE 0

\* A value whose type readValue or readArray does not know, and so neither its width.
OfNoType(r) ==
    \/ r.tag = "class" /\ r.cpool.unknown + r.statics.unknown > 0
    \/ r.tag = "parray" /\ r.type \notin PrimType

-----------------------------------------------------------------------------
EmptyTable == [k \in {} |-> 0]

Init ==
    /\ dump \in Dumps
    /\ fclass \in Options
    /\ next = 1 /\ left = 0 /\ eof = FALSE /\ synced = TRUE
    /\ hsize = 0 /\ slack = 0
    /\ sbTable = EmptyTable /\ cinfo = <<>>
    /\ cTable = EmptyTable /\ scTable = EmptyTable /\ rcTable = EmptyTable
    /\ hTable = EmptyTable /\ roots = EmptyTable
    /\ javaLangString = NULL
    /\ fakeClass = FirstFake
    /\ pc = "header" /\ code = 0

\* The checks of the header: exit statuses 1 to 4.
ReadHeader ==
    /\ pc = "header"
    /\ \/ pc' = "exit" /\ code' \in 1..3   \* no file, short or bad magic, version
       \/ IF IdSize \in {4, 8} THEN pc' = "record" /\ UNCHANGED code
                               ELSE pc' = "exit" /\ code' = 4
    /\ UNCHANGED <<env, next, cursor, hsize, slack, tables, javaLangString>>

AtEnd == eof \/ next > Len(dump)
Rec   == dump[next]

\* The loop of readDump is at a record with this tag.
AtRecord(tag) == pc = "record" /\ synced /\ ~AtEnd /\ Rec.tag = tag

Crash == /\ pc' = "crash"
         /\ UNCHANGED <<tables, javaLangString>>

ReadUtf8 ==
    /\ AtRecord("utf8")
    /\ sbTable' = Put(sbTable, Rec.id, Rec.name)
    /\ next' = next + 1
    /\ UNCHANGED <<env, cursor, hsize, slack, cinfo, cTable, scTable, rcTable,
                   hTable, roots, javaLangString, fakeClass, pc, code>>

\* A class whose name was never read has a NULL name: strlen(ci->name) crashes.
ReadLoadClass ==
    /\ AtRecord("load")
    /\ next' = next + 1
    /\ IF ~Has(sbTable, Rec.nameId) THEN Crash
       ELSE LET name == At(sbTable, Rec.nameId)
                c    == Len(cinfo) + 1
            IN  /\ cinfo' = Append(cinfo, mkcinfo(Rec.id, name))
                /\ cTable' = Put(cTable, Rec.id, c)
                /\ scTable' = Put(scTable, Rec.serial, c)
                /\ rcTable' = Put(rcTable, Hash[name], c)
                /\ UNCHANGED <<sbTable, hTable, roots, javaLangString, fakeClass, pc>>
    /\ UNCHANGED <<env, cursor, hsize, slack, code>>

\* HPROF_FRAME prints ci->name, HPROF_TRACE prints, others are skipped.
ReadOther ==
    /\ AtRecord("frame") \/ AtRecord("other")
    /\ next' = next + 1
    /\ IF Rec.tag = "frame" /\ ~Has(scTable, Rec.serial) THEN Crash
       ELSE UNCHANGED <<tables, javaLangString, pc>>
    /\ UNCHANGED <<env, cursor, hsize, slack, code>>

\* Mutant of BeginHeap: the String class is not looked up.
BeginHeapNoString ==
    /\ AtRecord("heap")
    /\ next' = next + 1
    /\ hsize' = Rec.rlen % Modulus
    /\ left' = Rec.rlen /\ slack' = 0
    /\ pc' = "heap"
    /\ UNCHANGED <<env, eof, synced, tables, javaLangString, code>>

BeginHeap ==
    /\ AtRecord("heap")
    /\ next' = next + 1
    /\ hsize' = Rec.rlen % Modulus
    /\ left' = Rec.rlen /\ slack' = 0
    /\ javaLangString' = findClass(StringName)
    /\ pc' = "heap"
    /\ UNCHANGED <<env, eof, synced, tables, code>>

\* End of file: readDump returns and the program exits.
Exit ==
    /\ pc = "record" /\ synced /\ AtEnd
    /\ pc' = "exit"
    /\ UNCHANGED <<env, next, cursor, hsize, slack, tables, javaLangString, code>>

-----------------------------------------------------------------------------
\* The loop of readHeap is at a sub-record with this tag.
AtSub(tag) == pc = "heap" /\ hsize > 0 /\ ~AtEnd /\ Rec.tag = tag

\* What every handler of a sub-record does to the cursor and to hsize.
Consume ==
    /\ next' = next + 1
    /\ left' = left - BytesRead(Rec)
    /\ hsize' = (hsize - BytesCharged(Rec)) % Modulus
    /\ UNCHANGED <<env, eof, synced, code>>

\* Where the loop goes on.  The file may hold more bytes of a value without a type
\* than were read: they are then taken for the rest of the class, or for sub-records.
Onward == {"heap"} \cup (IF OfNoType(Rec) THEN {"lost"} ELSE {})

\* The roots of unknown kind and the thread objects are not stored.
SubRoot ==
    /\ AtSub("root")
    /\ Consume
    /\ roots' = IF Rec.kind \in {"unknown", "thread"} THEN roots
                ELSE Put(roots, Rec.id, Rec.kind)
    /\ UNCHANGED <<slack, sbTable, cinfo, cTable, scTable, rcTable, hTable,
                   fakeClass, javaLangString, pc>>

\* readClass: fills the cinfo found under the identifier.
SubClass ==
    /\ AtSub("class")
    /\ Consume
    /\ slack' = slack + Miscount(Rec)
    /\ IF ~Has(cTable, Rec.id) THEN Crash
       ELSE /\ cinfo' = [cinfo EXCEPT ![At(cTable, Rec.id)].superId = Rec.super]
            /\ pc' \in Onward
            /\ UNCHANGED <<sbTable, cTable, scTable, rcTable, hTable, roots,
                           fakeClass, javaLangString>>

\* Mutant of WithinLimit: the limit is off by one.
WithinLimitOneMore(n) == Cap >= n

\* "50000 > ci->count", the count including the instance at hand.
WithinLimit(n) == Cap > n

\* An instance is kept while its class has fewer than Cap, or if it is a
\* String; without a String class the second test dereferences NULL.
SubInstance ==
    /\ AtSub("inst")
    /\ Consume
    /\ UNCHANGED slack
    /\ IF ~Has(cTable, Rec.class) THEN Crash
       ELSE LET c == At(cTable, Rec.class)
                n == cinfo[c].count + 1
            IN  IF WithinLimit(n) \/ (javaLangString # NULL /\ Rec.class = cinfo[javaLangString].ident)
                THEN /\ cinfo' = [cinfo EXCEPT ![c].count = n]
                     /\ hTable' = Put(hTable, Rec.id,
                                      makeObj("instance", Rec.id, Rec.class, 0))
                     /\ UNCHANGED <<sbTable, cTable, scTable, rcTable, roots,
                                    fakeClass, javaLangString, pc>>
                ELSE IF javaLangString = NULL THEN Crash
                ELSE /\ cinfo' = [cinfo EXCEPT ![c].count = n]
                     /\ UNCHANGED <<sbTable, cTable, scTable, rcTable, hTable,
                                    roots, fakeClass, javaLangString, pc>>

\* Mutant of StoreArray: a class that is made up is not entered by name.
StoreArrayNoName(ht, name, nameId) ==
    LET found == findClass(name)
        cid   == IF found # NULL THEN cinfo[found].ident ELSE fakeClass
    IN  /\ hTable' = Put(hTable, Rec.id, makeObj(ht, Rec.id, cid, Rec.n))
        /\ IF found # NULL
           THEN UNCHANGED <<sbTable, cinfo, cTable, fakeClass>>
           ELSE /\ cinfo' = Append(cinfo, mkcinfo(fakeClass, name))
                /\ fakeClass' = fakeClass + 1
                /\ sbTable' = Put(sbTable, nameId, name)
                /\ cTable' = Put(cTable, fakeClass + 1, Len(cinfo) + 1)
        /\ pc' \in Onward
        /\ UNCHANGED <<rcTable, scTable, roots, javaLangString>>

\* Common end of readArray: the class is looked up by name; if there is none a
\* class is made up, with ident fakeClass, and entered in cTable after the
\* increment, under the NEXT number.
StoreArray(ht, name, nameId) ==
    LET found == findClass(name)
        cid   == IF found # NULL THEN cinfo[found].ident ELSE fakeClass
        c     == Len(cinfo) + 1
    IN  /\ hTable' = Put(hTable, Rec.id, makeObj(ht, Rec.id, cid, Rec.n))
        /\ IF found # NULL
           THEN UNCHANGED <<sbTable, cinfo, cTable, rcTable, fakeClass>>
           ELSE /\ cinfo' = Append(cinfo, mkcinfo(fakeClass, name))
                /\ fakeClass' = fakeClass + 1
                /\ sbTable' = Put(sbTable, nameId, name)
                /\ cTable' = Put(cTable, fakeClass + 1, c)
                /\ rcTable' = Put(rcTable, Hash[name], c)
        /\ pc' \in Onward
        /\ UNCHANGED <<scTable, roots, javaLangString>>

\* Arrays of objects: the class looked up by its identifier is not tested.
ObjArrayOf(cid) ==
    IF Has(cTable, cid) THEN StoreArray("oarray", cinfo[At(cTable, cid)].name, cid) ELSE Crash

SubObjArray ==
    /\ AtSub("oarray")
    /\ Consume
    /\ UNCHANGED slack
    /\ ObjArrayOf(Rec.class)

\* An array of an unknown type is one of objects of the class with that number.
SubPrimArray ==
    /\ AtSub("parray")
    /\ Consume
    /\ UNCHANGED slack
    /\ IF Rec.type \in PrimType THEN StoreArray("varray", PrimName[Rec.type], Rec.type)
                                ELSE ObjArrayOf(Rec.type)

\* Mutant of SubBad: readHeap returns without skipping the rest.
SubBadReturns ==
    /\ AtSub("bad")
    /\ pc' = "record"
    /\ left' = left - 1
    /\ hsize' = 0
    /\ UNCHANGED <<env, next, eof, synced, slack, tables, javaLangString, code>>

\* A sub-record of unknown type: the rest of the heap dump is skipped.
SubBad ==
    /\ AtSub("bad")
    /\ next' = next + 1
    /\ left' = left - 1 - ((hsize - 1) % Modulus)
    /\ hsize' = 0
    /\ UNCHANGED <<env, eof, synced, slack, tables, javaLangString, pc, code>>

\* Mutant of EofRoot: the byte of the type is not counted.
EofRootEven ==
    /\ pc = "heap" /\ hsize > 0 /\ AtEnd
    /\ hsize' = (hsize - IdSize) % Modulus
    /\ eof' = TRUE
    /\ UNCHANGED <<env, next, left, synced, slack, tables, javaLangString, pc, code>>

\* At the end of the file getc returns EOF, which "unsigned char rtype" turns
\* into 0xff: the loop test fails to stop and a root of unknown kind is read,
\* again and again until hsize happens to be 0.
EofRoot ==
    /\ pc = "heap" /\ hsize > 0 /\ AtEnd
    /\ hsize' = (hsize - (1 + IdSize)) % Modulus
    /\ eof' = TRUE
    /\ UNCHANGED <<env, next, left, synced, slack, tables, javaLangString, pc, code>>

\* The objects that -C or -a makes readHeap resolve and print.
Selected ==
    CASE fclass = "none" -> {}
      [] fclass = "*"    -> DOMAIN hTable
      [] OTHER -> {k \in DOMAIN hTable : /\ findClass(fclass) # NULL
                                         /\ hTable[k].classId = cinfo[findClass(fclass)].ident}

\* Classes from which the walk along superId ends in a class of S.
Leads(S) ==
    LET W[n \in Nat] ==
          IF n = 0 THEN S
          ELSE W[n - 1] \cup {c \in 1..Len(cinfo) :
                                /\ cinfo[c].superId > 0 /\ Has(cTable, cinfo[c].superId)
                                /\ At(cTable, cinfo[c].superId) \in W[n - 1]}
    IN  W[Len(cinfo)]

Grounded == Leads({c \in 1..Len(cinfo) : cinfo[c].superId = 0})
Unknown  == Leads({c \in 1..Len(cinfo) : cinfo[c].superId = Uninit})

\* resolveInstance looks the class of an object up in cTable without a test, and
\* resolveSClassSize walks its superclasses up to the one whose superId is 0.
Resolves(k, classes) == /\ Has(cTable, hTable[k].classId)
                        /\ At(cTable, hTable[k].classId) \in classes

\* Loop over, summaries printed.  Resolving the selected objects moves the cursor to
\* the end of the last one read and nobody moves it back, wherever that is; it may
\* crash on an object whose class is not in cTable or has no chain of superclasses.
\* A miscounted rest that was skipped (SubBad) leaves the cursor inside a record, too.
HeapDone ==
    /\ pc = "heap" /\ hsize = 0
    /\ \/ /\ \A k \in Selected : Resolves(k, Grounded \cup Unknown)
          /\ pc' = "record"
       \/ /\ \E k \in Selected : ~Resolves(k, Grounded)
          /\ pc' = "crash"
    /\ LET there == synced /\ (left = 0 \/ AtEnd)
       IN  synced' \in {there} \cup (IF Selected = {} THEN {} ELSE {FALSE})
    /\ UNCHANGED <<env, next, left, eof, hsize, slack, tables, javaLangString, code>>

\* The cursor is not at a record of the kind the loop expects: whatever bytes
\* are there are taken for records.
Lost ==
    /\ \/ pc = "record" /\ (~synced \/ (~AtEnd /\ Rec.tag \in SubTags))
       \/ pc = "heap" /\ hsize > 0 /\ ~AtEnd /\ Rec.tag \notin SubTags
    /\ pc' = "lost"
    /\ UNCHANGED <<env, next, cursor, hsize, slack, tables, javaLangString, code>>

\* The file turns out to end here: before the next record, in its header
\* (readDump exits with status 2), or inside its contents.
Truncated ==
    /\ dump \in Cut /\ pc \in {"record", "heap"} /\ synced /\ ~AtEnd
    /\ \/ /\ eof' = TRUE
          /\ UNCHANGED <<pc, code>>
       \/ /\ pc = "record" /\ pc' = "exit" /\ code' = 2
          /\ UNCHANGED eof
       \/ /\ pc' = "torn"
          /\ UNCHANGED <<eof, code>>
    /\ UNCHANGED <<env, next, left, synced, hsize, slack, tables, javaLangString>>

Stopped == pc \in {"exit", "crash", "lost", "torn"}

Terminated == Stopped /\ UNCHANGED vars

Next ==
    \/ ReadHeader \/ ReadUtf8 \/ ReadLoadClass \/ ReadOther \/ BeginHeap \/ Exit
    \/ SubRoot \/ SubClass \/ SubInstance \/ SubObjArray \/ SubPrimArray \/ SubBad
    \/ EofRoot \/ HeapDone \/ Lost \/ Truncated
    \/ Terminated

Spec == Init /\ [][Next]_vars

\* The program is sequential and the file is finite.
FairSpec == Spec /\ WF_vars(Next)
-----------------------------------------------------------------------------
CInfos == 1..Len(cinfo)

\* The state of readDump and readHeap keeps its types, keys their 32 bits, and no
\* table holds a class that was not made.
TypeOK ==
    /\ fclass \in Options
    /\ next \in 1..(Len(dump) + 1) /\ left \in Int
    /\ eof \in BOOLEAN /\ synced \in BOOLEAN
    /\ hsize \in 0..(Modulus - 1) /\ slack \in Nat
    /\ \A c \in CInfos : cinfo[c] \in [ident : Nat, name : NameOf, count : Nat,
                                       superId : Nat \cup {Uninit}]
    /\ \A t \in {cTable, scTable, rcTable} : \A k \in DOMAIN t : t[k] \in CInfos
    /\ \A D \in {DOMAIN sbTable, DOMAIN cTable, DOMAIN hTable, DOMAIN roots} :
          D \subseteq 0..(KeyMod - 1)
    /\ javaLangString \in CInfos \cup {NULL}
    /\ fakeClass \in Nat
    /\ pc \in {"header", "record", "heap", "exit", "crash", "lost", "torn"}
    /\ code \in 0..4

\* hsize is the number of bytes that are left of the heap dump record, plus one for
\* each constant pool entry and two for each illegal boolean read: every handler of
\* readHeap, readClass and readArray subtracts what it reads, except the type tag of
\* such an entry and the -1 that readValue returns for such a boolean.
Accounting ==
    pc = "heap" /\ ~eof => hsize = (left + slack) % Modulus

\* Reader and file stay in step: the loops take a sub-record for a record, the reverse,
\* or the middle of one for either, only if readValue miscounted in this heap dump
\* record, if the resolver had objects to read, or after a value of unknown type.
LostOnlyKnownWays ==
    pc = "lost" => \/ slack > 0
                   \/ ~synced /\ Selected # {}
                   \/ \E i \in 1..(next - 1) : OfNoType(dump[i])

\* Records before the cursor, by tag.
Before(tags) == {i \in 1..(next - 1) : dump[i].tag \in tags}
SameKey(x, y) == Key(x) = Key(y)

\* The last LOAD_CLASS for an identifier before record j (0 if none).
LoadFor(id, j) ==
    LET L == {i \in Before({"load"}) : i < j /\ SameKey(dump[i].id, id)}
    IN  IF L = {} THEN 0 ELSE CHOOSE i \in L : \A k \in L : k <= i

\* Rank of the instance dumped at j among those of its class.
Rank(j) == Cardinality({i \in Before({"inst"}) :
                          /\ LoadFor(dump[j].class, j) < i /\ i <= j
                          /\ SameKey(dump[i].class, dump[j].class)})

\* The class summary: a class counts the instance dumps that named it since it
\* was (last) loaded, kept or not.
CountsExact ==
    pc # "crash" => \A i \in Before({"load"}) :
        LET id == dump[i].id IN
        i = LoadFor(id, next) /\ cinfo[At(cTable, id)].ident = id =>
           cinfo[At(cTable, id)].count =
              Cardinality({j \in Before({"inst"}) : i < j /\ SameKey(dump[j].class, id)})

\* The identifiers of classes in the file up to the cursor, and what they may lack:
\* a 32-bit key of their own, and one that no made-up class gets.
ClassIds == {dump[i].id : i \in Before({"load"})} \cup {dump[i].class : i \in Before({"inst"})}
KeysApart  == \A x, y \in ClassIds : SameKey(x, y) => x = y
FakesApart == \A x \in ClassIds, f \in FirstFake..fakeClass : ~SameKey(x, f)

\* No two classes have the hash of the String class.
OneString ==
    \A c, d \in {e \in CInfos : Hash[cinfo[e].name] = Hash[StringName]} : c = d

\* The object table holds, for every key, the last object read that the limit
\* on instances lets through, unless a made-up class took the place of a class of
\* the file in cTable (whose count then starts anew) or String was loaded again.
ObjectsKept ==
    LET Kept(j) == \/ dump[j].tag \in {"oarray", "parray"}
                   \/ dump[j].tag = "inst" /\ Rank(j) < Cap
                   \/ /\ dump[j].tag = "inst" /\ javaLangString # NULL
                      /\ dump[j].class = cinfo[javaLangString].ident
        objs == {j \in Before({"inst", "oarray", "parray"}) : Kept(j)}
    IN  pc \notin {"crash", "torn"} /\ FakesApart /\ OneString =>
          /\ DOMAIN hTable = {Key(dump[j].id) : j \in objs}
          /\ \A j \in objs :
                (\A i \in objs : SameKey(dump[i].id, dump[j].id) => i <= j) =>
                   hTable[Key(dump[j].id)].instId = dump[j].id

\* The tables of readHeap are those of the file: of their types, with 32-bit keys,
\* with every class's count and with the objects the limit lets through.
TablesExact == TypeOK /\ CountsExact /\ ObjectsKept

\* Whatever is in the class table is found again by its name, so readArray
\* never makes up a class for an object array, only for primitive ones.
ClassesFoundByName ==
    /\ \A k \in DOMAIN cTable : findClass(cinfo[cTable[k]].name) # NULL
    /\ \A c \in CInfos : \/ cinfo[c].name \in {PrimName[t] : t \in PrimType}
                         \/ LoadFor(cinfo[c].ident, next) # 0

\* The class of an object is found in cTable under the identifier the object stores,
\* if the class was loaded.  Identifiers need keys of their own: two of 64 bits that
\* agree in the lower 32 are one class to the program.
ClassByIdentIfLoaded ==
    pc = "heap" /\ KeysApart /\ FakesApart => \A k \in DOMAIN hTable :
        LET cid == hTable[k].classId
        IN  LoadFor(cid, next) # 0 => Has(cTable, cid) /\ cinfo[At(cTable, cid)].ident = cid

\* A class is found again by name and, if the file loaded it, by ident.
ClassesFound == ClassesFoundByName /\ ClassByIdentIfLoaded

\* cTable is the "class table, by ident" (struct jdump): the class of every object
\* is found in it under the identifier the object stores.
ClassByIdent ==
    pc = "heap" /\ KeysApart /\ FakesApart => \A k \in DOMAIN hTable :
        LET cid == hTable[k].classId
        IN  Has(cTable, cid) /\ cinfo[At(cTable, cid)].ident = cid

\* A class of this name is loaded before record j.
Loaded(name, j) ==
    \E i \in Before({"load"}), u \in Before({"utf8"}) :
       /\ u < i /\ i < j /\ dump[u].name = name /\ SameKey(dump[u].id, dump[i].nameId)
       /\ \A v \in Before({"utf8"}) : u < v /\ v < i => ~SameKey(dump[v].id, dump[u].id)

\* A file in the order the virtual machine writes: a name before the class that
\* has it, a superclass and the String class before what needs them, a class
\* before its objects, and a CLASS_DUMP for every class loaded.  A superclass is
\* not loaded again after a class below it: its new superclass might be that one.
WellOrdered ==
    \A j \in 1..(next - 1) : LET r == dump[j] IN
       /\ r.tag = "load" => \E i \in Before({"utf8"}) : i < j /\ SameKey(dump[i].id, r.nameId)
       /\ r.tag = "load" => \E i \in Before({"class"}) : i > j /\ dump[i].id = r.id
       /\ r.tag = "frame" => \E i \in Before({"load"}) : i < j /\ SameKey(dump[i].serial, r.serial)
       /\ r.tag \in {"inst", "oarray"} => LoadFor(r.class, j) # 0
       /\ r.tag = "class" => LoadFor(r.id, j) # 0
       /\ r.tag = "class" /\ r.super # 0 =>
             LoadFor(r.super, next) \in 1..(LoadFor(r.id, next) - 1)
       /\ r.tag = "inst" => \E h \in Before({"heap"}) : h < j /\ Loaded(StringName, h)
       /\ r.tag = "parray" => r.type \in PrimType /\ Loaded(PrimName[r.type], j)

\* Nothing is dereferenced that a well ordered file has not provided, although
\* the code tests none of its table lookups.
NoCrashOnWellOrdered ==
    WellOrdered => pc # "crash"

\* The reader stops on every file, also on one that ends inside a heap dump:
\* there the loop only ends because 1 + identsz is odd, so that hsize, modulo a
\* power of two, must reach 0.
Termination == <>Stopped

-----------------------------------------------------------------------------
\* The usual end of a run: the program reads the file to its end.
StaysInStep == pc # "lost"
=============================================================================
