-------------------------- MODULE HprofTablesProof --------------------------
(***************************************************************************)
(* The tables of readDump and readHeap, for every file, whatever its length*)
(* and the order of its records: they hold what the records before the     *)
(* cursor say, classes are found again in them, and a well ordered file    *)
(* never makes the reader dereference what is not there.                   *)
(*                                                                         *)
(* The handlers are first reduced to what they do to the tables (Effect);  *)
(* every invariant is then shown to be kept by these effects.              *)
(***************************************************************************)
EXTENDS HprofReaderProof, FiniteSetTheorems

-----------------------------------------------------------------------------
(* Records, keys and loads, said of a file d up to its record n.           *)

\* The fields of a record, by its tag.
LEMMA Fields ==
    ASSUME NEW d \in Dumps, NEW i \in 1..Len(d)
    PROVE  /\ d[i].tag = "utf8" => d[i].id \in Nat /\ d[i].name \in NameOf
           /\ d[i].tag = "load" => d[i].serial \in Nat /\ d[i].id \in Nat /\ d[i].nameId \in Nat
           /\ d[i].tag = "frame" => d[i].serial \in Nat
           /\ d[i].tag = "root" => d[i].id \in Nat
           /\ d[i].tag = "class" => d[i].id \in Nat /\ d[i].super \in Nat
           /\ d[i].tag = "inst" => d[i].id \in Nat /\ d[i].class \in Nat
           /\ d[i].tag = "oarray" => d[i].id \in Nat /\ d[i].class \in Nat /\ d[i].n \in Nat
           /\ d[i].tag = "parray" => d[i].id \in Nat /\ d[i].type \in Nat /\ d[i].n \in Nat
           /\ d[i].tag \in {"utf8", "load", "frame", "other", "heap"} \cup SubTags
  <1>1. d[i] \in Record \cup SubRecord
    <2> HIDE DEF Record, SubRecord
    <2>1. d \in Seq(Record \cup SubRecord)
      BY DumpsAssumption
    <2> QED BY <2>1, SeqElement
  <1>2. CASE d[i] \in Record
    BY <1>2 DEF Record, SubTags
  <1>3. CASE d[i] \in SubRecord
    <2>1. \A t \in 0..255 : t \in Nat
      OBVIOUS
    <2>2. CASE d[i].tag = "parray"
      BY <1>3, <2>1, <2>2 DEF SubRecord, SubTags
    <2>3. CASE d[i].tag # "parray"
      BY <1>3, <2>3 DEF SubRecord, SubTags
    <2> QED BY <2>2, <2>3
  <1> QED BY <1>1, <1>2, <1>3

\* Keys are numbers of 32 bits.
LEMMA KeyIs ==
    ASSUME NEW id \in Nat
    PROVE  Key(id) \in 0..(KeyMod - 1)
  BY SizesAssumption, ModDef DEF Key

\* A key is its own key.
LEMMA KeySmall ==
    ASSUME NEW k \in 0..(KeyMod - 1)
    PROVE  k \in Nat /\ Key(k) = k
  BY SizesAssumption, ModSmall DEF Key

\* Two numbers in a row have different keys.
LEMMA KeyNext ==
    ASSUME NEW f \in Nat
    PROVE  Key(f + 1) # Key(f)
  <1> SUFFICES ASSUME Key(f + 1) = Key(f) PROVE FALSE
    OBVIOUS
  <1>1. KeyMod \in Nat \ {0} /\ KeyMod > 1 /\ f + 1 \in Int /\ f \in Int
    BY SizesAssumption, HashAssumption
  <1>2. PICK q \in Int : f = KeyMod * q + (f % KeyMod)
    BY <1>1, ModDef
  <1>3. PICK p \in Int : f + 1 = KeyMod * p + ((f + 1) % KeyMod)
    BY <1>1, ModDef
  <1>4. PICK r \in Int : r = f % KeyMod /\ r = (f + 1) % KeyMod
    BY <1>1, ModDef DEF Key
  <1>5. KeyMod * (p - q) = 1
    BY <1>1, <1>2, <1>3, <1>4
  <1>6. CASE p - q >= 1
    <2>1. KeyMod * (p - q) >= KeyMod
      BY <1>1, <1>6
    <2> QED BY <1>1, <1>5, <2>1
  <1>7. CASE p - q <= 0
    <2>1. KeyMod * (p - q) <= 0
      BY <1>1, <1>7
    <2> QED BY <1>1, <1>5, <2>1
  <1> QED BY <1>6, <1>7

\* What trbt_insert32 makes of table t.
Entered(u, t, id, v) ==
    /\ DOMAIN u = DOMAIN t \cup {Key(id)}
    /\ u[Key(id)] = v
    /\ \A k \in DOMAIN t : k # Key(id) => u[k] = t[k]

LEMMA PutIs ==
    ASSUME NEW t, NEW id, NEW v
    PROVE  Entered(Put(t, id, v), t, id, v)
  BY DEF Put, Entered

\* The records of one kind before record n.
Of(d, n, tag) == {i \in 1..(n - 1) : d[i].tag = tag}

\* The loads for an identifier before record j.
LoadsOf(d, n, id, j) == {i \in Of(d, n, "load") : i < j /\ SameKey(d[i].id, id)}

\* The last of a set of records, or 0.
LastOf(L) == IF L = {} THEN 0 ELSE CHOOSE i \in L : \A k \in L : k <= i

LEMMA LoadForIs ==
    ASSUME NEW id, NEW j
    PROVE  LoadFor(id, j) = LastOf(LoadsOf(dump, next, id, j))
  BY DEF LoadFor, LastOf, LoadsOf, Of, Before

\* A set of records has a last one.
LEMMA LastOfIs ==
    ASSUME NEW n \in Nat, NEW L, L \subseteq 1..(n - 1)
    PROVE  /\ LastOf(L) \in Nat
           /\ LastOf(L) = 0 <=> L = {}
           /\ L # {} => LastOf(L) \in L /\ \A k \in L : k <= LastOf(L)
           /\ \A i \in L : (\A k \in L : k <= i) => i = LastOf(L)
  <1>1. CASE L = {}
    BY <1>1 DEF LastOf
  <1>2. CASE L # {}
    <2> DEFINE T == {n - i : i \in L}
    <2>0. \A i \in L : i \in 1..(n - 1) /\ n - i \in Nat
      OBVIOUS
    <2>1. T \subseteq Nat /\ T # {}
      BY <1>2, <2>0
    <2>2. PICK m \in T : \A l \in T : m <= l
      <3> HIDE DEF T
      <3> QED BY <2>1, Smallest
    <2>3. PICK i \in L : m = n - i
      OBVIOUS
    <2>4. ASSUME NEW k \in L PROVE k <= i
      <3>1. n - k \in T
        OBVIOUS
      <3>2. n - i <= n - k
        BY <2>2, <2>3, <3>1
      <3> QED BY <3>2
    <2>5. LastOf(L) \in L /\ \A k \in L : k <= LastOf(L)
      <3> HIDE DEF T
      <3> QED BY <1>2, <2>4 DEF LastOf
    <2> HIDE DEF T
    <2>8. LastOf(L) \in 1..(n - 1)
      BY <2>0, <2>5, Zenon
    <2>7. PICK m1 \in Nat \ {0} : m1 = LastOf(L)
      <3> HIDE DEF LastOf
      <3> QED BY <2>8
    <2>6. ASSUME NEW l \in L, \A k \in L : k <= l PROVE l = LastOf(L)
      <3>1. l \in Nat
        BY <2>0
      <3>2. l <= m1
        BY <2>5, <2>7
      <3>3. m1 <= l
        BY <2>5, <2>6, <2>7
      <3> QED BY <2>7, <3>1, <3>2, <3>3
    <2> QED BY <1>2, <2>7, <2>5, <2>6
  <1> QED BY <1>1, <1>2

\* i is the last load of its class before record n.
LastLoad(d, n, i) ==
    i \in Of(d, n, "load") /\ \A k \in Of(d, n, "load") : SameKey(d[k].id, d[i].id) => k <= i

\* Instances of the class loaded at i that are dumped after it.
SinceLoad(d, n, i) == {j \in Of(d, n, "inst") : i < j /\ SameKey(d[j].class, d[i].id)}

\* LoadFor finds the last load.
LEMMA LoadForLast ==
    ASSUME NEW d, NEW n \in Nat, NEW id
    PROVE  LET l == LastOf(LoadsOf(d, n, id, n)) IN
           /\ l # 0 <=> \E i \in Of(d, n, "load") : SameKey(d[i].id, id)
           /\ l # 0 => LastLoad(d, n, l) /\ SameKey(d[l].id, id)
           /\ \A i : LastLoad(d, n, i) /\ SameKey(d[i].id, id) => l = i
  <1> DEFINE L == LoadsOf(d, n, id, n)
             l == LastOf(L)
  <1>1. L \subseteq 1..(n - 1)
    BY DEF LoadsOf, Of
  <1>2. L = {i \in Of(d, n, "load") : SameKey(d[i].id, id)}
    BY DEF LoadsOf, Of
  <1> HIDE DEF L
  <1>3. /\ l \in Nat /\ (l = 0 <=> L = {})
        /\ L # {} => l \in L /\ \A k \in L : k <= l
        /\ \A i \in L : (\A k \in L : k <= i) => i = l
    BY <1>1, LastOfIs
  <1> HIDE DEF l
  <1>4. l # 0 <=> \E i \in Of(d, n, "load") : SameKey(d[i].id, id)
    BY <1>2, <1>3
  <1>5. ASSUME l # 0 PROVE LastLoad(d, n, l) /\ SameKey(d[l].id, id)
    <2>1. l \in L /\ \A k \in L : k <= l
      BY <1>3, <1>5
    <2> QED BY <1>2, <2>1 DEF LastLoad, SameKey
  <1>6. ASSUME NEW i, LastLoad(d, n, i), SameKey(d[i].id, id) PROVE l = i
    <2>1. i \in L /\ \A k \in L : k <= i
      BY <1>2, <1>6 DEF LastLoad, SameKey
    <2> QED BY <1>3, <2>1
  <1> QED BY <1>4, <1>5, <1>6 DEF L, l

-----------------------------------------------------------------------------
\* One record more.
LEMMA OfNext ==
    ASSUME NEW d, NEW n \in Nat \ {0}, NEW tag
    PROVE  Of(d, n + 1, tag) = IF d[n].tag = tag THEN Of(d, n, tag) \cup {n} ELSE Of(d, n, tag)
  <1>1. 1..((n + 1) - 1) = (1..(n - 1)) \cup {n}
    OBVIOUS
  <1> QED BY <1>1 DEF Of

\* A load hides earlier loads of its class and no others.
LEMMA LastLoadNext ==
    ASSUME NEW d, NEW n \in Nat \ {0}
    PROVE  /\ d[n].tag # "load" => \A i : LastLoad(d, n + 1, i) <=> LastLoad(d, n, i)
           /\ d[n].tag = "load" => LastLoad(d, n + 1, n)
           /\ d[n].tag = "load" => \A i : i # n =>
                 (LastLoad(d, n + 1, i) <=> LastLoad(d, n, i) /\ ~SameKey(d[n].id, d[i].id))
  <1>1. CASE d[n].tag # "load"
    BY <1>1, OfNext DEF LastLoad
  <1>2. CASE d[n].tag = "load"
    <2>1. Of(d, n + 1, "load") = Of(d, n, "load") \cup {n}
      BY <1>2, OfNext
    <2>2. \A k \in Of(d, n, "load") : k \in Nat /\ k < n
      BY DEF Of
    <2>3. LastLoad(d, n + 1, n)
      BY <2>1, <2>2 DEF LastLoad
    <2>4. ASSUME NEW i, i # n
          PROVE  LastLoad(d, n + 1, i) <=> LastLoad(d, n, i) /\ ~SameKey(d[n].id, d[i].id)
      <3>1. ASSUME LastLoad(d, n + 1, i) PROVE LastLoad(d, n, i) /\ ~SameKey(d[n].id, d[i].id)
        <4>1. i \in Of(d, n, "load")
          BY <2>1, <2>4, <3>1 DEF LastLoad
        <4>2. ~(n <= i)
          BY <2>2, <4>1
        <4> QED BY <2>1, <3>1, <4>1, <4>2 DEF LastLoad
      <3>2. ASSUME LastLoad(d, n, i), ~SameKey(d[n].id, d[i].id) PROVE LastLoad(d, n + 1, i)
        BY <2>1, <3>2 DEF LastLoad
      <3> QED BY <3>1, <3>2
    <2> QED BY <1>2, <2>3, <2>4
  <1> QED BY <1>1, <1>2

\* The instances since a load can be counted.
LEMMA SinceFinite ==
    ASSUME NEW d, NEW n \in Nat, NEW i
    PROVE  IsFiniteSet(SinceLoad(d, n, i)) /\ Cardinality(SinceLoad(d, n, i)) \in Nat
  <1>1. IsFiniteSet(1..(n - 1))
    BY FS_Interval
  <1>2. SinceLoad(d, n, i) \subseteq 1..(n - 1)
    BY DEF SinceLoad, Of
  <1>3. IsFiniteSet(SinceLoad(d, n, i))
    BY <1>1, <1>2, FS_Subset
  <1> QED BY <1>3, FS_CardinalityType

\* Only an instance of the class is one more.
LEMMA SinceNext ==
    ASSUME NEW d, NEW n \in Nat \ {0}, NEW i \in 1..(n - 1)
    PROVE  /\ d[n].tag # "inst" => SinceLoad(d, n + 1, i) = SinceLoad(d, n, i)
           /\ d[n].tag = "inst" /\ ~SameKey(d[n].class, d[i].id) =>
                 SinceLoad(d, n + 1, i) = SinceLoad(d, n, i)
           /\ d[n].tag = "inst" /\ SameKey(d[n].class, d[i].id) =>
                 Cardinality(SinceLoad(d, n + 1, i)) = Cardinality(SinceLoad(d, n, i)) + 1
  <1>1. CASE d[n].tag # "inst"
    BY <1>1, OfNext DEF SinceLoad
  <1>2. CASE d[n].tag = "inst" /\ ~SameKey(d[n].class, d[i].id)
    BY <1>2, OfNext DEF SinceLoad
  <1>3. CASE d[n].tag = "inst" /\ SameKey(d[n].class, d[i].id)
    <2>0. i < n
      OBVIOUS
    <2>4. Of(d, n + 1, "inst") = Of(d, n, "inst") \cup {n}
      BY <1>3, OfNext
    <2>1. SinceLoad(d, n + 1, i) = SinceLoad(d, n, i) \cup {n}
      BY <1>3, <2>0, <2>4 DEF SinceLoad
    <2>2. n \notin SinceLoad(d, n, i)
      BY DEF SinceLoad, Of
    <2>3. IsFiniteSet(SinceLoad(d, n, i))
      BY SinceFinite
    <2> QED BY <1>3, <2>1, <2>2, <2>3, FS_AddElement
  <1> QED BY <1>1, <1>2, <1>3

\* A load has no instances yet.
LEMMA SinceNone ==
    ASSUME NEW d, NEW n \in Nat \ {0}
    PROVE  Cardinality(SinceLoad(d, n + 1, n)) = 0
  <1>1. SinceLoad(d, n + 1, n) = {}
    BY DEF SinceLoad, Of
  <1> QED BY <1>1, FS_EmptySet

-----------------------------------------------------------------------------
(* What a step does to the tables.                                         *)

\* The types of the tables, and that every class has an entry under its name.
CIRecord == [ident : Nat, name : NameOf, count : Nat, superId : Nat \cup {Uninit}]

TabType ==
    /\ dump \in Dumps /\ next \in 1..(Len(dump) + 1)
    /\ cinfo \in Seq(CIRecord)
    /\ \A k \in DOMAIN sbTable : sbTable[k] \in NameOf
    /\ \A t \in {cTable, scTable, rcTable} : \A k \in DOMAIN t : t[k] \in CInfos
    /\ \A D \in {DOMAIN sbTable, DOMAIN cTable, DOMAIN hTable} : D \subseteq 0..(KeyMod - 1)
    /\ javaLangString \in CInfos \cup {NULL}
    /\ fakeClass \in Nat /\ FirstFake <= fakeClass

HashOf(c) == Hash[cinfo[c].name]
Findable == \A c \in CInfos : HashOf(c) \in DOMAIN rcTable

TabInv == TabType /\ Findable

PrimNames == {PrimName[t] : t \in PrimType}

\* Nothing but roots and scalars change ...
EStay ==
    /\ UNCHANGED <<dump, next, sbTable, cinfo, cTable, scTable, rcTable, hTable,
                   fakeClass, javaLangString>>
    /\ pc = "crash" => pc' = "crash"
    /\ pc' = "crash" => pc = "crash" \/ HeapDone

\* ... or a record with one of these tags is read.
Advance(tags) ==
    /\ pc # "crash" /\ dump' = dump /\ next \in 1..Len(dump) /\ next' = next + 1
    /\ Rec.tag \in tags

\* A table lacks what the record needs.
Missing ==
    \/ Rec.tag = "load" /\ ~Has(sbTable, Rec.nameId)
    \/ Rec.tag = "frame" /\ ~Has(scTable, Rec.serial)
    \/ Rec.tag = "class" /\ ~Has(cTable, Rec.id)
    \/ Rec.tag \in {"inst", "oarray"} /\ ~Has(cTable, Rec.class)
    \/ Rec.tag = "parray" /\ Rec.type \notin PrimType /\ ~Has(cTable, Rec.type)
    \/ Rec.tag = "inst" /\ javaLangString = NULL
         /\ ~WithinLimit(cinfo[At(cTable, Rec.class)].count + 1)

ECrash ==
    /\ Advance({"load", "frame", "class", "inst", "oarray", "parray"}) /\ Missing /\ pc' = "crash"
    /\ UNCHANGED <<sbTable, cinfo, cTable, scTable, rcTable, hTable, fakeClass, javaLangString>>

ESkip ==
    /\ Advance({"frame", "other", "root", "bad"}) /\ pc' # "crash"
    /\ UNCHANGED <<sbTable, cinfo, cTable, scTable, rcTable, hTable, fakeClass, javaLangString>>

EUtf8 ==
    /\ Advance({"utf8"}) /\ pc' # "crash"
    /\ sbTable' = Put(sbTable, Rec.id, Rec.name)
    /\ UNCHANGED <<cinfo, cTable, scTable, rcTable, hTable, fakeClass, javaLangString>>

ELoad ==
    /\ Advance({"load"}) /\ pc' # "crash" /\ Has(sbTable, Rec.nameId)
    /\ cinfo' = Append(cinfo, mkcinfo(Rec.id, At(sbTable, Rec.nameId)))
    /\ cTable' = Put(cTable, Rec.id, Len(cinfo) + 1)
    /\ scTable' = Put(scTable, Rec.serial, Len(cinfo) + 1)
    /\ rcTable' = Put(rcTable, Hash[At(sbTable, Rec.nameId)], Len(cinfo) + 1)
    /\ UNCHANGED <<sbTable, hTable, fakeClass, javaLangString>>

EHeap ==
    /\ Advance({"heap"}) /\ pc' # "crash"
    /\ javaLangString' = findClass(StringName)
    /\ UNCHANGED <<sbTable, cinfo, cTable, scTable, rcTable, hTable, fakeClass>>

EClass ==
    /\ Advance({"class"}) /\ pc' # "crash" /\ Has(cTable, Rec.id)
    /\ cinfo' = [cinfo EXCEPT ![At(cTable, Rec.id)].superId = Rec.super]
    /\ UNCHANGED <<sbTable, cTable, scTable, rcTable, hTable, fakeClass, javaLangString>>

\* The instance at the cursor is kept.
KeptNow == \/ WithinLimit(cinfo[At(cTable, Rec.class)].count + 1)
           \/ javaLangString # NULL /\ Rec.class = cinfo[javaLangString].ident

EInst ==
    /\ Advance({"inst"}) /\ pc' # "crash" /\ Has(cTable, Rec.class)
    /\ cinfo' = [cinfo EXCEPT ![At(cTable, Rec.class)].count =
                                  cinfo[At(cTable, Rec.class)].count + 1]
    /\ KeptNow \/ javaLangString # NULL
    /\ hTable' = IF KeptNow THEN Put(hTable, Rec.id, makeObj("instance", Rec.id, Rec.class, 0))
                            ELSE hTable
    /\ UNCHANGED <<sbTable, cTable, scTable, rcTable, fakeClass, javaLangString>>

\* An object of the class that is found under its name ...
EFound ==
    /\ Advance({"oarray", "parray"}) /\ pc' # "crash"
    /\ \E c \in CInfos : \E ht : hTable' = Put(hTable, Rec.id, makeObj(ht, Rec.id, cinfo[c].ident, Rec.n))
    /\ UNCHANGED <<sbTable, cinfo, cTable, scTable, rcTable, fakeClass, javaLangString>>

\* ... or of one that is made up, which only happens to primitive arrays.
EMade ==
    /\ Advance({"parray"}) /\ pc' # "crash" /\ Rec.type \in PrimType
    /\ Hash[PrimName[Rec.type]] \notin DOMAIN rcTable
    /\ \E ht : hTable' = Put(hTable, Rec.id, makeObj(ht, Rec.id, fakeClass, Rec.n))
    /\ cinfo' = Append(cinfo, mkcinfo(fakeClass, PrimName[Rec.type]))
    /\ fakeClass' = fakeClass + 1
    /\ sbTable' = Put(sbTable, Rec.type, PrimName[Rec.type])
    /\ cTable' = Put(cTable, fakeClass + 1, Len(cinfo) + 1)
    /\ rcTable' = Put(rcTable, Hash[PrimName[Rec.type]], Len(cinfo) + 1)
    /\ UNCHANGED <<scTable, javaLangString>>

Effect == EStay \/ ECrash \/ ESkip \/ EUtf8 \/ ELoad \/ EHeap \/ EClass \/ EInst \/ EFound \/ EMade

\* Names have their hash, and keys of their own.
LEMMA HashIs ==
    /\ \A n \in NameOf : Hash[n] \in Nat /\ Key(Hash[n]) = Hash[n]
    /\ StringName \in NameOf
    /\ \A t \in PrimType : PrimName[t] \in NameOf
  <1>1. \A n \in NameOf : Hash[n] \in 0..(KeyMod - 1)
    BY HashAssumption
  <1>2. \A n \in NameOf : Hash[n] \in Nat /\ Key(Hash[n]) = Hash[n]
    BY <1>1, KeySmall
  <1>3. StringName \in NameOf
    BY HashAssumption
  <1>4. ASSUME NEW t \in PrimType PROVE PrimName[t] \in NameOf
    <2>1. t \in {4, 5, 6, 7, 8, 9, 10, 11}
      BY DEF PrimType
    <2> QED BY <2>1, HashAssumption DEF PrimName
  <1> QED BY <1>2, <1>3, <1>4

\* The file is a sequence, and the cursor is in it.
LEMMA FileIs ==
    ASSUME TabType
    PROVE  dump \in Dumps /\ Len(dump) \in Nat /\ next \in 1..(Len(dump) + 1) /\ next \in Nat \ {0}
  <1>1. next \in 1..(Len(dump) + 1) /\ dump \in Dumps /\ dump \in Seq(Record \cup SubRecord)
    BY DumpsAssumption DEF TabType
  <1>2. Len(dump) \in Nat
    <2> HIDE DEF Record, SubRecord
    <2> QED BY <1>1
  <1> QED BY <1>1, <1>2

\* The record under the cursor.
LEMMA AdvanceIs ==
    ASSUME TabType, ~AtEnd
    PROVE  next \in 1..Len(dump)
  BY FileIs DEF AtEnd

\* findClass finds what is in rcTable.
LEMMA FindIs ==
    ASSUME TabType, NEW name
    PROVE  /\ findClass(name) # NULL <=> Hash[name] \in DOMAIN rcTable
           /\ Hash[name] \in DOMAIN rcTable => findClass(name) = rcTable[Hash[name]]
           /\ findClass(name) \in CInfos \cup {NULL}
  <1>1. ASSUME Hash[name] \in DOMAIN rcTable
        PROVE  findClass(name) = rcTable[Hash[name]] /\ findClass(name) \in CInfos
    BY <1>1 DEF findClass, TabType
  <1>2. ASSUME Hash[name] \notin DOMAIN rcTable PROVE findClass(name) = NULL
    BY <1>2 DEF findClass
  <1>3. \A c \in CInfos : c # NULL
    BY DEF CInfos, NULL
  <1> QED BY <1>1, <1>2, <1>3

\* Storing an array.
LEMMA ArrayEffect ==
    ASSUME TabInv, Advance({"oarray", "parray"}), pc' # "crash", NEW ht, NEW name, NEW nameId,
           StoreArray(ht, name, nameId),
           \/ \E cid : Has(cTable, cid) /\ name = cinfo[At(cTable, cid)].name
           \/ /\ Rec.tag = "parray" /\ Rec.type \in PrimType
              /\ name = PrimName[Rec.type] /\ nameId = Rec.type
    PROVE  EFound \/ EMade
  <1>0. TabType /\ Findable
    BY DEF TabInv
  <1>1. CASE findClass(name) # NULL
    <2>1. findClass(name) \in CInfos
      BY <1>0, <1>1, FindIs
    <2>2. /\ hTable' = Put(hTable, Rec.id, makeObj(ht, Rec.id, cinfo[findClass(name)].ident, Rec.n))
          /\ UNCHANGED <<sbTable, cinfo, cTable, scTable, rcTable, fakeClass, javaLangString>>
      BY <1>1 DEF StoreArray
    <2> QED BY <2>1, <2>2 DEF EFound
  <1>2. CASE findClass(name) = NULL
    <2>1. Hash[name] \notin DOMAIN rcTable
      BY <1>0, <1>2, FindIs
    <2>2. ASSUME NEW cid, Has(cTable, cid), name = cinfo[At(cTable, cid)].name PROVE FALSE
      <3>1. name = cinfo[At(cTable, cid)].name /\ At(cTable, cid) \in CInfos
        BY <1>0, <2>2 DEF TabType, Has, At
      <3> QED BY <1>0, <2>1, <3>1 DEF Findable, HashOf
    <2>3. Rec.tag = "parray" /\ Rec.type \in PrimType /\ name = PrimName[Rec.type] /\ nameId = Rec.type
      BY <2>2
    <2>4. Advance({"parray"})
      BY <2>3 DEF Advance
    <2>5. /\ hTable' = Put(hTable, Rec.id, makeObj(ht, Rec.id, fakeClass, Rec.n))
          /\ cinfo' = Append(cinfo, mkcinfo(fakeClass, name))
          /\ fakeClass' = fakeClass + 1
          /\ sbTable' = Put(sbTable, nameId, name)
          /\ cTable' = Put(cTable, fakeClass + 1, Len(cinfo) + 1)
          /\ rcTable' = Put(rcTable, Hash[name], Len(cinfo) + 1)
          /\ UNCHANGED <<scTable, javaLangString>>
      BY <1>2 DEF StoreArray
    <2> QED BY <2>1, <2>3, <2>4, <2>5 DEF EMade
  <1> QED BY <1>1, <1>2

\* Storing an array of objects of the class with identifier cid.
LEMMA ObjArrayEffect ==
    ASSUME TabInv, Advance({"oarray", "parray"}),
           Advance({"load", "frame", "class", "inst", "oarray", "parray"}),
           NEW cid, ObjArrayOf(cid), ~Has(cTable, cid) => Missing
    PROVE  ECrash \/ EFound \/ EMade
  <1>1. CASE ~Has(cTable, cid)
    <2>1. /\ pc' = "crash"
          /\ UNCHANGED <<sbTable, cinfo, cTable, scTable, rcTable, hTable, fakeClass, javaLangString>>
      BY <1>1 DEF ObjArrayOf, Crash, tables
    <2> QED BY <1>1, <2>1 DEF ECrash
  <1>2. CASE Has(cTable, cid)
    <2> DEFINE name == cinfo[At(cTable, cid)].name
    <2>1. StoreArray("oarray", name, cid)
      BY <1>2 DEF ObjArrayOf
    <2>2. pc' # "crash"
      BY <2>1 DEF StoreArray, Onward
    <2>3. \E c : Has(cTable, c) /\ name = cinfo[At(cTable, c)].name
      BY <1>2
    <2> HIDE DEF name
    <2> QED BY <2>1, <2>2, <2>3, ArrayEffect
  <1> QED BY <1>1, <1>2

\* The handlers, as changes of the tables.
LEMMA StepEffect ==
    ASSUME TabInv, [Next]_vars
    PROVE  Effect
  <1>0. TabType
    BY DEF TabInv
  <1>1. CASE ReadHeader \/ Exit \/ EofRoot \/ Lost \/ Truncated
    <2>1. /\ UNCHANGED <<dump, next, sbTable, cinfo, cTable, scTable, rcTable, hTable,
                         fakeClass, javaLangString>>
          /\ pc # "crash" /\ pc' # "crash"
      BY <1>1 DEF ReadHeader, Exit, EofRoot, Lost, Truncated, env, tables
    <2> QED BY <2>1 DEF EStay, Effect
  <1>2. CASE HeapDone
    <2>1. /\ UNCHANGED <<dump, next, sbTable, cinfo, cTable, scTable, rcTable, hTable,
                         fakeClass, javaLangString>>
          /\ pc = "heap"
      BY <1>2 DEF HeapDone, env, tables
    <2> QED BY <1>2, <2>1 DEF EStay, Effect
  <1>3. CASE Terminated \/ UNCHANGED vars
    <2>1. UNCHANGED <<dump, next, sbTable, cinfo, cTable, scTable, rcTable, hTable,
                      fakeClass, javaLangString, pc>>
      BY <1>3 DEF Terminated, vars, env, tables
    <2> QED BY <2>1 DEF EStay, Effect
  <1>4. CASE ReadUtf8
    <2>1. ~AtEnd /\ Rec.tag = "utf8" /\ pc = "record" /\ pc' = pc /\ next' = next + 1 /\ dump' = dump
      BY <1>4 DEF ReadUtf8, AtRecord, env
    <2>2. Advance({"utf8"})
      BY <1>0, <2>1, AdvanceIs DEF Advance
    <2>3. /\ sbTable' = Put(sbTable, Rec.id, Rec.name)
          /\ UNCHANGED <<cinfo, cTable, scTable, rcTable, hTable, fakeClass, javaLangString>>
      BY <1>4 DEF ReadUtf8
    <2> QED BY <2>1, <2>2, <2>3 DEF EUtf8, Effect
  <1>5. CASE ReadLoadClass
    <2>1. ~AtEnd /\ Rec.tag = "load" /\ pc = "record" /\ next' = next + 1 /\ dump' = dump
      BY <1>5 DEF ReadLoadClass, AtRecord, env
    <2>2. Advance({"load"}) /\ Advance({"load", "frame", "class", "inst", "oarray", "parray"})
      BY <1>0, <2>1, AdvanceIs DEF Advance
    <2>3. CASE ~Has(sbTable, Rec.nameId)
      <3>1. /\ pc' = "crash"
            /\ UNCHANGED <<sbTable, cinfo, cTable, scTable, rcTable, hTable, fakeClass, javaLangString>>
        BY <1>5, <2>3 DEF ReadLoadClass, Crash, tables
      <3> QED BY <2>1, <2>2, <2>3, <3>1 DEF ECrash, Missing, Effect
    <2>4. CASE Has(sbTable, Rec.nameId)
      <3>1. /\ pc' = pc
            /\ cinfo' = Append(cinfo, mkcinfo(Rec.id, At(sbTable, Rec.nameId)))
            /\ cTable' = Put(cTable, Rec.id, Len(cinfo) + 1)
            /\ scTable' = Put(scTable, Rec.serial, Len(cinfo) + 1)
            /\ rcTable' = Put(rcTable, Hash[At(sbTable, Rec.nameId)], Len(cinfo) + 1)
            /\ UNCHANGED <<sbTable, hTable, fakeClass, javaLangString>>
        BY <1>5, <2>4 DEF ReadLoadClass
      <3> QED BY <2>1, <2>2, <2>4, <3>1 DEF ELoad, Effect
    <2> QED BY <2>3, <2>4
  <1>6. CASE ReadOther
    <2>1. ~AtEnd /\ Rec.tag \in {"frame", "other"} /\ pc = "record" /\ next' = next + 1 /\ dump' = dump
      BY <1>6 DEF ReadOther, AtRecord, env
    <2>2. /\ Advance({"frame", "other", "root", "bad"})
          /\ Rec.tag = "frame" => Advance({"load", "frame", "class", "inst", "oarray", "parray"})
      BY <1>0, <2>1, AdvanceIs DEF Advance
    <2>3. UNCHANGED <<sbTable, cinfo, cTable, scTable, rcTable, hTable, fakeClass, javaLangString>>
      BY <1>6 DEF ReadOther, Crash, tables
    <2>4. CASE Rec.tag = "frame" /\ ~Has(scTable, Rec.serial)
      <3>1. pc' = "crash"
        BY <1>6, <2>4 DEF ReadOther, Crash
      <3> QED BY <2>2, <2>3, <2>4, <3>1 DEF ECrash, Missing, Effect
    <2>5. CASE ~(Rec.tag = "frame" /\ ~Has(scTable, Rec.serial))
      <3>1. pc' = pc
        BY <1>6, <2>5 DEF ReadOther
      <3> QED BY <2>1, <2>2, <2>3, <3>1 DEF ESkip, Effect
    <2> QED BY <2>4, <2>5
  <1>7. CASE BeginHeap
    <2>1. ~AtEnd /\ Rec.tag = "heap" /\ pc = "record" /\ pc' = "heap" /\ next' = next + 1 /\ dump' = dump
      BY <1>7 DEF BeginHeap, AtRecord, env
    <2>2. Advance({"heap"})
      BY <1>0, <2>1, AdvanceIs DEF Advance
    <2>3. /\ javaLangString' = findClass(StringName)
          /\ UNCHANGED <<sbTable, cinfo, cTable, scTable, rcTable, hTable, fakeClass>>
      BY <1>7 DEF BeginHeap, tables
    <2> QED BY <2>1, <2>2, <2>3 DEF EHeap, Effect
  <1>8. CASE SubRoot \/ SubBad
    <2>1. /\ ~AtEnd /\ Rec.tag \in {"root", "bad"} /\ pc = "heap" /\ pc' = pc
          /\ next' = next + 1 /\ dump' = dump
      BY <1>8 DEF SubRoot, SubBad, AtSub, Consume, env
    <2>2. Advance({"frame", "other", "root", "bad"})
      BY <1>0, <2>1, AdvanceIs DEF Advance
    <2>3. UNCHANGED <<sbTable, cinfo, cTable, scTable, rcTable, hTable, fakeClass, javaLangString>>
      BY <1>8 DEF SubRoot, SubBad, tables
    <2> QED BY <2>1, <2>2, <2>3 DEF ESkip, Effect
  <1>9. CASE SubClass
    <2>1. ~AtEnd /\ Rec.tag = "class" /\ pc = "heap" /\ next' = next + 1 /\ dump' = dump
      BY <1>9 DEF SubClass, AtSub, Consume, env
    <2>2. Advance({"class"}) /\ Advance({"load", "frame", "class", "inst", "oarray", "parray"})
      BY <1>0, <2>1, AdvanceIs DEF Advance
    <2>3. CASE ~Has(cTable, Rec.id)
      <3>1. /\ pc' = "crash"
            /\ UNCHANGED <<sbTable, cinfo, cTable, scTable, rcTable, hTable, fakeClass, javaLangString>>
        BY <1>9, <2>3 DEF SubClass, Crash, tables
      <3> QED BY <2>1, <2>2, <2>3, <3>1 DEF ECrash, Missing, Effect
    <2>4. CASE Has(cTable, Rec.id)
      <3>1. /\ pc' # "crash"
            /\ cinfo' = [cinfo EXCEPT ![At(cTable, Rec.id)].superId = Rec.super]
            /\ UNCHANGED <<sbTable, cTable, scTable, rcTable, hTable, fakeClass, javaLangString>>
        BY <1>9, <2>4 DEF SubClass, Onward
      <3> QED BY <2>1, <2>2, <2>4, <3>1 DEF EClass, Effect
    <2> QED BY <2>3, <2>4
  <1>10. CASE SubInstance
    <2> DEFINE c == At(cTable, Rec.class)
               n == cinfo[c].count + 1
    <2>1. ~AtEnd /\ Rec.tag = "inst" /\ pc = "heap" /\ next' = next + 1 /\ dump' = dump
      BY <1>10 DEF SubInstance, AtSub, Consume, env
    <2>2. Advance({"inst"}) /\ Advance({"load", "frame", "class", "inst", "oarray", "parray"})
      BY <1>0, <2>1, AdvanceIs DEF Advance
    <2>3. CASE ~Has(cTable, Rec.class)
      <3>1. /\ pc' = "crash"
            /\ UNCHANGED <<sbTable, cinfo, cTable, scTable, rcTable, hTable, fakeClass, javaLangString>>
        BY <1>10, <2>3 DEF SubInstance, Crash, tables
      <3> QED BY <2>1, <2>2, <2>3, <3>1 DEF ECrash, Missing, Effect
    <2>4. CASE Has(cTable, Rec.class) /\ KeptNow
      <3>1. WithinLimit(n) \/ (javaLangString # NULL /\ Rec.class = cinfo[javaLangString].ident)
        BY <2>4 DEF KeptNow
      <3>2. /\ pc' = pc
            /\ cinfo' = [cinfo EXCEPT ![c].count = n]
            /\ hTable' = Put(hTable, Rec.id, makeObj("instance", Rec.id, Rec.class, 0))
            /\ UNCHANGED <<sbTable, cTable, scTable, rcTable, fakeClass, javaLangString>>
        BY <1>10, <2>4, <3>1 DEF SubInstance
      <3> QED BY <2>1, <2>2, <2>4, <3>2 DEF EInst, Effect
    <2>5. CASE Has(cTable, Rec.class) /\ ~KeptNow
      <3>1. ~(WithinLimit(n) \/ (javaLangString # NULL /\ Rec.class = cinfo[javaLangString].ident))
        BY <2>5 DEF KeptNow
      <3>2. CASE javaLangString = NULL
        <4>1. /\ pc' = "crash"
              /\ UNCHANGED <<sbTable, cinfo, cTable, scTable, rcTable, hTable, fakeClass, javaLangString>>
          BY <1>10, <2>5, <3>1, <3>2 DEF SubInstance, Crash, tables
        <4> QED BY <2>1, <2>2, <3>1, <3>2, <4>1 DEF ECrash, Missing, Effect
      <3>3. CASE javaLangString # NULL
        <4>1. /\ pc' = pc
              /\ cinfo' = [cinfo EXCEPT ![c].count = n]
              /\ UNCHANGED <<sbTable, cTable, scTable, rcTable, hTable, fakeClass, javaLangString>>
          BY <1>10, <2>5, <3>1, <3>3 DEF SubInstance
        <4> QED BY <2>1, <2>2, <2>5, <3>3, <4>1 DEF EInst, Effect
      <3> QED BY <3>2, <3>3
    <2> QED BY <2>3, <2>4, <2>5
  <1>11. CASE SubObjArray
    <2>1. ~AtEnd /\ Rec.tag = "oarray" /\ pc = "heap" /\ next' = next + 1 /\ dump' = dump
      BY <1>11 DEF SubObjArray, AtSub, Consume, env
    <2>2. /\ Advance({"oarray", "parray"})
          /\ Advance({"load", "frame", "class", "inst", "oarray", "parray"})
      BY <1>0, <2>1, AdvanceIs DEF Advance
    <2>3. ObjArrayOf(Rec.class)
      BY <1>11 DEF SubObjArray
    <2>4. ~Has(cTable, Rec.class) => Missing
      BY <2>1 DEF Missing
    <2>5. ECrash \/ EFound \/ EMade
      BY <2>2, <2>3, <2>4, ObjArrayEffect
    <2> QED BY <2>5 DEF Effect
  <1>12. CASE SubPrimArray
    <2>1. ~AtEnd /\ Rec.tag = "parray" /\ pc = "heap" /\ next' = next + 1 /\ dump' = dump
      BY <1>12 DEF SubPrimArray, AtSub, Consume, env
    <2>2. /\ Advance({"oarray", "parray"})
          /\ Advance({"load", "frame", "class", "inst", "oarray", "parray"})
      BY <1>0, <2>1, AdvanceIs DEF Advance
    <2>3. CASE Rec.type \in PrimType
      <3>1. StoreArray("varray", PrimName[Rec.type], Rec.type)
        BY <1>12, <2>3 DEF SubPrimArray
      <3>2. pc' # "crash"
        BY <3>1 DEF StoreArray, Onward
      <3>3. EFound \/ EMade
        BY <2>1, <2>2, <2>3, <3>1, <3>2, ArrayEffect
      <3> QED BY <3>3 DEF Effect
    <2>4. CASE Rec.type \notin PrimType
      <3>1. ObjArrayOf(Rec.type)
        BY <1>12, <2>4 DEF SubPrimArray
      <3>2. ~Has(cTable, Rec.type) => Missing
        BY <2>1, <2>4 DEF Missing
      <3>3. ECrash \/ EFound \/ EMade
        BY <2>2, <3>1, <3>2, ObjArrayEffect
      <3> QED BY <3>3 DEF Effect
    <2> QED BY <2>3, <2>4
  <1> QED
    BY <1>1, <1>2, <1>3, <1>4, <1>5, <1>6, <1>7, <1>8, <1>9, <1>10, <1>11, <1>12 DEF Next

\* Put keeps the range and the keys of a table.
LEMMA PutRange ==
    ASSUME NEW t, NEW S, \A k \in DOMAIN t : t[k] \in S, NEW id, NEW v \in S,
           NEW u, u = Put(t, id, v)
    PROVE  \A k \in DOMAIN u : u[k] \in S
  <1>1. /\ DOMAIN u = DOMAIN t \cup {Key(id)} /\ u[Key(id)] = v
        /\ \A k \in DOMAIN t : k # Key(id) => u[k] = t[k]
    <2>1. Entered(u, t, id, v)
      BY PutIs
    <2> QED BY <2>1 DEF Entered
  <1> QED BY <1>1, Zenon

LEMMA PutKeys ==
    ASSUME NEW t, DOMAIN t \subseteq 0..(KeyMod - 1), NEW id \in Nat, NEW v,
           NEW u, u = Put(t, id, v)
    PROVE  DOMAIN u \subseteq 0..(KeyMod - 1)
  <1>1. /\ DOMAIN u = DOMAIN t \cup {Key(id)} /\ u[Key(id)] = v
        /\ \A k \in DOMAIN t : k # Key(id) => u[k] = t[k]
    <2>1. Entered(u, t, id, v)
      BY PutIs
    <2> QED BY <2>1 DEF Entered
  <1>2. Key(id) \in 0..(KeyMod - 1)
    BY KeyIs
  <1> QED BY <1>1, <1>2, Zenon

\* A class more, at the end.
LEMMA ClassAdded ==
    ASSUME cinfo \in Seq(CIRecord), NEW r \in CIRecord, cinfo' = Append(cinfo, r)
    PROVE  /\ cinfo' \in Seq(CIRecord) /\ CInfos' = CInfos \cup {Len(cinfo) + 1}
           /\ Len(cinfo) + 1 \notin CInfos /\ Len(cinfo) + 1 # NULL
           /\ cinfo'[Len(cinfo) + 1] = r /\ \A c \in CInfos : cinfo'[c] = cinfo[c]
  <1> HIDE DEF CIRecord
  <1>1. Append(cinfo, r) \in Seq(CIRecord) /\ Len(cinfo) \in Nat
    OBVIOUS
  <1>2. /\ Len(cinfo') = Len(cinfo) + 1 /\ cinfo'[Len(cinfo) + 1] = r
        /\ \A c \in 1..Len(cinfo) : cinfo'[c] = cinfo[c]
    BY AppendIs
  <1>3. 1..(Len(cinfo) + 1) = (1..Len(cinfo)) \cup {Len(cinfo) + 1}
    BY <1>1
  <1> QED BY <1>1, <1>2, <1>3 DEF CInfos, NULL

\* A class of the type is a record of the type.
LEMMA ClassIs ==
    ASSUME cinfo \in Seq(CIRecord), NEW c \in CInfos
    PROVE  /\ cinfo[c] \in CIRecord /\ cinfo[c].ident \in Nat /\ cinfo[c].name \in NameOf
           /\ cinfo[c].count \in Nat /\ cinfo[c].superId \in Nat \cup {Uninit}
           /\ c \in Nat \ {0}
  <1>1. cinfo[c] \in CIRecord
    <2> HIDE DEF CIRecord
    <2> QED BY SeqElement DEF CInfos
  <1>2. c \in Nat \ {0}
    BY DEF CInfos
  <1> QED BY <1>1, <1>2 DEF CIRecord

\* A class changed in one place.
LEMMA ClassChanged ==
    ASSUME cinfo \in Seq(CIRecord), NEW c \in CInfos, NEW r \in CIRecord,
           cinfo' = [cinfo EXCEPT ![c] = r]
    PROVE  /\ cinfo' \in Seq(CIRecord) /\ CInfos' = CInfos
           /\ cinfo'[c] = r /\ \A b \in CInfos : b # c => cinfo'[b] = cinfo[b]
  <1> HIDE DEF CIRecord
  <1>1. cinfo \in [1..Len(cinfo) -> CIRecord] /\ Len(cinfo) \in Nat
    OBVIOUS
  <1>2. cinfo' \in [1..Len(cinfo) -> CIRecord]
    BY <1>1 DEF CInfos
  <1>3. cinfo' \in Seq(CIRecord) /\ Len(cinfo') = Len(cinfo)
    BY <1>1, <1>2, FunctionSeq
  <1>4. cinfo'[c] = r /\ \A b \in CInfos : b # c => cinfo'[b] = cinfo[b]
    BY <1>1 DEF CInfos
  <1> QED BY <1>3, <1>4 DEF CInfos

\* What an instance and a class dump change in a class.
LEMMA InstClass ==
    ASSUME TabType, EInst
    PROVE  LET c == At(cTable, Rec.class) IN
           /\ c \in CInfos /\ Key(Rec.class) \in DOMAIN cTable /\ c = cTable[Key(Rec.class)]
           /\ cinfo' \in Seq(CIRecord) /\ CInfos' = CInfos
           /\ cinfo'[c].ident = cinfo[c].ident /\ cinfo'[c].name = cinfo[c].name
           /\ cinfo'[c].superId = cinfo[c].superId /\ cinfo'[c].count = cinfo[c].count + 1
           /\ \A b \in CInfos : b # c => cinfo'[b] = cinfo[b]
  <1> DEFINE c == At(cTable, Rec.class)
             r == [cinfo[c] EXCEPT !.count = cinfo[c].count + 1]
  <1>1. c \in CInfos /\ Key(Rec.class) \in DOMAIN cTable /\ c = cTable[Key(Rec.class)]
    BY DEF TabType, EInst, Has, At
  <1>2. cinfo \in Seq(CIRecord)
    BY DEF TabType
  <1>3. cinfo' = [cinfo EXCEPT ![c] = r]
    BY DEF EInst
  <1>4. cinfo[c] \in CIRecord /\ cinfo[c].count \in Nat
    BY <1>1, <1>2, ClassIs
  <1>5. /\ r \in CIRecord /\ r.ident = cinfo[c].ident /\ r.name = cinfo[c].name
        /\ r.superId = cinfo[c].superId /\ r.count = cinfo[c].count + 1
    <2>1. PICK x \in CIRecord : x = cinfo[c]
      BY <1>4
    <2>2. x.count + 1 \in Nat
      BY <1>4, <2>1
    <2> QED BY <2>1, <2>2 DEF CIRecord
  <1> HIDE DEF c, r
  <1>6. /\ cinfo' \in Seq(CIRecord) /\ CInfos' = CInfos /\ cinfo'[c] = r
        /\ \A b \in CInfos : b # c => cinfo'[b] = cinfo[b]
    BY <1>1, <1>2, <1>3, <1>5, ClassChanged
  <1> QED BY <1>1, <1>5, <1>6 DEF c

LEMMA DumpClass ==
    ASSUME TabType, EClass
    PROVE  LET c == At(cTable, Rec.id) IN
           /\ c \in CInfos /\ Key(Rec.id) \in DOMAIN cTable /\ c = cTable[Key(Rec.id)]
           /\ cinfo' \in Seq(CIRecord) /\ CInfos' = CInfos
           /\ cinfo'[c].ident = cinfo[c].ident /\ cinfo'[c].name = cinfo[c].name
           /\ cinfo'[c].superId = Rec.super /\ cinfo'[c].count = cinfo[c].count
           /\ \A b \in CInfos : b # c => cinfo'[b] = cinfo[b]
  <1> DEFINE c == At(cTable, Rec.id)
             r == [cinfo[c] EXCEPT !.superId = Rec.super]
  <1>1. c \in CInfos /\ Key(Rec.id) \in DOMAIN cTable /\ c = cTable[Key(Rec.id)]
    BY DEF TabType, EClass, Has, At
  <1>2. cinfo \in Seq(CIRecord)
    BY DEF TabType
  <1>3. cinfo' = [cinfo EXCEPT ![c] = r]
    BY DEF EClass
  <1>4. cinfo[c] \in CIRecord
    BY <1>1, <1>2, ClassIs
  <1>5. Rec.super \in Nat
    BY Fields DEF TabType, EClass, Advance, Rec
  <1>6. /\ r \in CIRecord /\ r.ident = cinfo[c].ident /\ r.name = cinfo[c].name
        /\ r.superId = Rec.super /\ r.count = cinfo[c].count
    <2>1. PICK x \in CIRecord : x = cinfo[c]
      BY <1>4
    <2> QED BY <1>5, <2>1 DEF CIRecord
  <1> HIDE DEF c, r
  <1>7. /\ cinfo' \in Seq(CIRecord) /\ CInfos' = CInfos /\ cinfo'[c] = r
        /\ \A b \in CInfos : b # c => cinfo'[b] = cinfo[b]
    BY <1>1, <1>2, <1>3, <1>6, ClassChanged
  <1> QED BY <1>1, <1>6, <1>7 DEF c

\* A loaded and a made-up class.
LEMMA LoadClass ==
    ASSUME TabType, ELoad
    PROVE  LET c == Len(cinfo) + 1  name == At(sbTable, Rec.nameId) IN
           /\ name \in NameOf
           /\ cinfo' \in Seq(CIRecord) /\ CInfos' = CInfos \cup {c} /\ c \notin CInfos /\ c # NULL
           /\ cinfo'[c] = mkcinfo(Rec.id, name) /\ \A b \in CInfos : cinfo'[b] = cinfo[b]
  <1>1. At(sbTable, Rec.nameId) \in NameOf /\ Rec.id \in Nat /\ cinfo \in Seq(CIRecord)
    BY Fields DEF TabType, ELoad, Advance, Rec, Has, At
  <1>2. mkcinfo(Rec.id, At(sbTable, Rec.nameId)) \in CIRecord
    BY <1>1 DEF mkcinfo, CIRecord
  <1>3. cinfo' = Append(cinfo, mkcinfo(Rec.id, At(sbTable, Rec.nameId)))
    BY DEF ELoad
  <1> QED BY <1>1, <1>2, <1>3, ClassAdded

LEMMA MadeClass ==
    ASSUME TabType, EMade
    PROVE  LET c == Len(cinfo) + 1  name == PrimName[Rec.type] IN
           /\ name \in NameOf /\ name \in PrimNames /\ Rec.type \in Nat
           /\ cinfo' \in Seq(CIRecord) /\ CInfos' = CInfos \cup {c} /\ c \notin CInfos /\ c # NULL
           /\ cinfo'[c] = mkcinfo(fakeClass, name) /\ \A b \in CInfos : cinfo'[b] = cinfo[b]
  <1>1. Rec.type \in PrimType /\ Rec.type \in Nat /\ fakeClass \in Nat /\ cinfo \in Seq(CIRecord)
    BY Fields DEF TabType, EMade, Advance, Rec
  <1>2. PrimName[Rec.type] \in NameOf /\ PrimName[Rec.type] \in PrimNames
    BY <1>1, HashIs DEF PrimNames
  <1>3. mkcinfo(fakeClass, PrimName[Rec.type]) \in CIRecord
    BY <1>1, <1>2 DEF mkcinfo, CIRecord
  <1>4. cinfo' = Append(cinfo, mkcinfo(fakeClass, PrimName[Rec.type]))
    BY DEF EMade
  <1>5. Rec.type \in Nat
    BY <1>1
  <1> QED BY <1>1, <1>2, <1>3, <1>4, <1>5, ClassAdded

\* The tables keep their types, and every class its entry by name.
LEMMA NextTabInv == TabInv /\ [Next]_vars => TabInv'
  <1> SUFFICES ASSUME TabInv, [Next]_vars PROVE TabInv'
    OBVIOUS
  <1>0. TabType /\ Findable
    BY DEF TabInv
  <1>1. /\ dump \in Dumps /\ next \in 1..(Len(dump) + 1) /\ Len(dump) \in Nat
        /\ cinfo \in Seq(CIRecord)
        /\ fakeClass \in Nat /\ FirstFake <= fakeClass
        /\ javaLangString \in CInfos \cup {NULL}
    BY <1>0, FileIs DEF TabType
  <1>2. /\ \A k \in DOMAIN sbTable : sbTable[k] \in NameOf
        /\ \A k \in DOMAIN cTable : cTable[k] \in CInfos
        /\ \A k \in DOMAIN scTable : scTable[k] \in CInfos
        /\ \A k \in DOMAIN rcTable : rcTable[k] \in CInfos
        /\ DOMAIN sbTable \subseteq 0..(KeyMod - 1)
        /\ DOMAIN cTable \subseteq 0..(KeyMod - 1)
        /\ DOMAIN hTable \subseteq 0..(KeyMod - 1)
    BY <1>0 DEF TabType
  <1>3. Effect
    BY StepEffect
  <1>4. \A tags : Advance(tags) => /\ dump' \in Dumps /\ next' \in 1..(Len(dump') + 1)
                                   /\ next \in 1..Len(dump)
    BY <1>1 DEF Advance
  <1>5. CASE EStay \/ ECrash \/ ESkip
    <2>1. /\ UNCHANGED <<sbTable, cinfo, cTable, scTable, rcTable, hTable, fakeClass, javaLangString>>
          /\ dump' \in Dumps /\ next' \in 1..(Len(dump') + 1)
      BY <1>1, <1>4, <1>5 DEF EStay, ECrash, ESkip
    <2> QED BY <1>0, <2>1 DEF TabInv, TabType, Findable, CInfos, HashOf
  <1>6. CASE EUtf8
    <2>1. Rec.id \in Nat /\ Rec.name \in NameOf
      BY <1>1, <1>4, <1>6, Fields DEF EUtf8, Advance, Rec
    <2>2. sbTable' = Put(sbTable, Rec.id, Rec.name)
      BY <1>6 DEF EUtf8
    <2>3. DOMAIN sbTable' \subseteq 0..(KeyMod - 1) /\ \A k \in DOMAIN sbTable' : sbTable'[k] \in NameOf
      BY <1>2, <2>1, <2>2, PutRange, PutKeys
    <2>4. /\ UNCHANGED <<cinfo, cTable, scTable, rcTable, hTable, fakeClass, javaLangString>>
          /\ dump' \in Dumps /\ next' \in 1..(Len(dump') + 1)
      BY <1>4, <1>6 DEF EUtf8
    <2> QED BY <1>0, <1>1, <1>2, <2>3, <2>4 DEF TabInv, TabType, Findable, CInfos, HashOf
  <1>7. CASE ELoad
    <2> DEFINE c == Len(cinfo) + 1
               name == At(sbTable, Rec.nameId)
    <2>1. Rec.id \in Nat /\ Rec.serial \in Nat
      BY <1>1, <1>4, <1>7, Fields DEF ELoad, Advance, Rec
    <2>2. /\ name \in NameOf
          /\ cinfo' \in Seq(CIRecord) /\ CInfos' = CInfos \cup {c} /\ c \notin CInfos /\ c # NULL
          /\ cinfo'[c] = mkcinfo(Rec.id, name) /\ \A b \in CInfos : cinfo'[b] = cinfo[b]
      BY <1>0, <1>7, LoadClass
    <2>3. /\ cTable' = Put(cTable, Rec.id, c) /\ scTable' = Put(scTable, Rec.serial, c)
          /\ rcTable' = Put(rcTable, Hash[name], c)
          /\ UNCHANGED <<sbTable, hTable, fakeClass, javaLangString>>
          /\ dump' \in Dumps /\ next' \in 1..(Len(dump') + 1)
      BY <1>4, <1>7 DEF ELoad
    <2> HIDE DEF c, name
    <2>4. c \in CInfos' /\ CInfos \subseteq CInfos'
      BY <2>2
    <2>5. /\ \A k \in DOMAIN cTable' : cTable'[k] \in CInfos'
          /\ \A k \in DOMAIN scTable' : scTable'[k] \in CInfos'
          /\ \A k \in DOMAIN rcTable' : rcTable'[k] \in CInfos'
      <3>1. /\ \A k \in DOMAIN cTable : cTable[k] \in CInfos'
            /\ \A k \in DOMAIN scTable : scTable[k] \in CInfos'
            /\ \A k \in DOMAIN rcTable : rcTable[k] \in CInfos'
        BY <1>2, <2>4
      <3> QED BY <2>3, <2>4, <3>1, PutRange
    <2>6. DOMAIN cTable' \subseteq 0..(KeyMod - 1)
      BY <1>2, <2>1, <2>3, PutKeys
    <2>7. TabType'
      BY <1>1, <1>2, <2>2, <2>3, <2>4, <2>5, <2>6 DEF TabType
    <2>8. DOMAIN rcTable' = DOMAIN rcTable \cup {Hash[name]}
      <3>1. Key(Hash[name]) = Hash[name]
        BY <2>2, HashIs
      <3>2. Entered(rcTable', rcTable, Hash[name], c)
        BY <2>3, PutIs
      <3> QED BY <3>1, <3>2 DEF Entered
    <2>9. cinfo'[c].name = name
      BY <2>2 DEF mkcinfo
    <2>10. \A b \in CInfos' : Hash[cinfo'[b].name] \in DOMAIN rcTable'
      BY <1>0, <2>2, <2>8, <2>9 DEF Findable, HashOf
    <2> QED BY <2>7, <2>10 DEF TabInv, Findable, HashOf
  <1>8. CASE EHeap
    <2>1. /\ UNCHANGED <<sbTable, cinfo, cTable, scTable, rcTable, hTable, fakeClass>>
          /\ javaLangString' = findClass(StringName)
          /\ dump' \in Dumps /\ next' \in 1..(Len(dump') + 1)
      BY <1>4, <1>8 DEF EHeap
    <2>2. javaLangString' \in CInfos \cup {NULL}
      BY <1>0, <2>1, FindIs
    <2> QED BY <1>0, <2>1, <2>2 DEF TabInv, TabType, Findable, CInfos, HashOf
  <1>9. CASE EClass
    <2> DEFINE c == At(cTable, Rec.id)
    <2>1. /\ c \in CInfos /\ cinfo' \in Seq(CIRecord) /\ CInfos' = CInfos
          /\ cinfo'[c].name = cinfo[c].name /\ \A b \in CInfos : b # c => cinfo'[b] = cinfo[b]
      BY <1>0, <1>9, DumpClass
    <2>2. /\ UNCHANGED <<sbTable, cTable, scTable, rcTable, hTable, fakeClass, javaLangString>>
          /\ dump' \in Dumps /\ next' \in 1..(Len(dump') + 1)
      BY <1>4, <1>9 DEF EClass
    <2> HIDE DEF c
    <2>3. TabType'
      BY <1>1, <1>2, <2>1, <2>2 DEF TabType
    <2>4. \A b \in CInfos' : Hash[cinfo'[b].name] \in DOMAIN rcTable'
      BY <1>0, <2>1, <2>2 DEF Findable, HashOf
    <2> QED BY <2>3, <2>4 DEF TabInv, Findable, HashOf
  <1>10. CASE EInst
    <2> DEFINE c == At(cTable, Rec.class)
    <2>1. /\ c \in CInfos /\ cinfo' \in Seq(CIRecord) /\ CInfos' = CInfos
          /\ cinfo'[c].name = cinfo[c].name /\ \A b \in CInfos : b # c => cinfo'[b] = cinfo[b]
      BY <1>0, <1>10, InstClass
    <2>2. /\ UNCHANGED <<sbTable, cTable, scTable, rcTable, fakeClass, javaLangString>>
          /\ dump' \in Dumps /\ next' \in 1..(Len(dump') + 1)
      BY <1>4, <1>10 DEF EInst
    <2>3. DOMAIN hTable' \subseteq 0..(KeyMod - 1)
      <3>1. Rec.id \in Nat
        BY <1>1, <1>4, <1>10, Fields DEF EInst, Advance, Rec
      <3>2. hTable' = hTable \/ \E o : hTable' = Put(hTable, Rec.id, o)
        BY <1>10 DEF EInst
      <3> QED BY <1>2, <3>1, <3>2, PutKeys
    <2> HIDE DEF c
    <2>4. TabType'
      BY <1>1, <1>2, <2>1, <2>2, <2>3 DEF TabType
    <2>5. \A b \in CInfos' : Hash[cinfo'[b].name] \in DOMAIN rcTable'
      BY <1>0, <2>1, <2>2 DEF Findable, HashOf
    <2> QED BY <2>4, <2>5 DEF TabInv, Findable, HashOf
  <1>11. CASE EFound
    <2>1. /\ UNCHANGED <<sbTable, cinfo, cTable, scTable, rcTable, fakeClass, javaLangString>>
          /\ dump' \in Dumps /\ next' \in 1..(Len(dump') + 1)
          /\ \E o : hTable' = Put(hTable, Rec.id, o)
      BY <1>4, <1>11 DEF EFound
    <2>2. Rec.id \in Nat
      BY <1>1, <1>4, <1>11, Fields DEF EFound, Advance, Rec
    <2>3. DOMAIN hTable' \subseteq 0..(KeyMod - 1)
      BY <1>2, <2>1, <2>2, PutKeys
    <2> QED BY <1>0, <2>1, <2>3 DEF TabInv, TabType, Findable, CInfos, HashOf
  <1>12. CASE EMade
    <2> DEFINE c == Len(cinfo) + 1
               name == PrimName[Rec.type]
    <2>1. Rec.id \in Nat
      BY <1>1, <1>4, <1>12, Fields DEF EMade, Advance, Rec
    <2>2. /\ name \in NameOf /\ Rec.type \in Nat
          /\ cinfo' \in Seq(CIRecord) /\ CInfos' = CInfos \cup {c} /\ c \notin CInfos /\ c # NULL
          /\ cinfo'[c] = mkcinfo(fakeClass, name) /\ \A b \in CInfos : cinfo'[b] = cinfo[b]
      BY <1>0, <1>12, MadeClass
    <2>3. /\ cTable' = Put(cTable, fakeClass + 1, c) /\ sbTable' = Put(sbTable, Rec.type, name)
          /\ rcTable' = Put(rcTable, Hash[name], c) /\ fakeClass' = fakeClass + 1
          /\ UNCHANGED <<scTable, javaLangString>>
          /\ dump' \in Dumps /\ next' \in 1..(Len(dump') + 1)
          /\ \E o : hTable' = Put(hTable, Rec.id, o)
      BY <1>4, <1>12 DEF EMade
    <2> HIDE DEF c, name
    <2>4. c \in CInfos' /\ CInfos \subseteq CInfos' /\ fakeClass + 1 \in Nat /\ FirstFake <= fakeClass + 1
      BY <1>1, <2>2, SizesAssumption
    <2>5. /\ \A k \in DOMAIN cTable' : cTable'[k] \in CInfos'
          /\ \A k \in DOMAIN scTable' : scTable'[k] \in CInfos'
          /\ \A k \in DOMAIN rcTable' : rcTable'[k] \in CInfos'
      <3>1. /\ \A k \in DOMAIN cTable : cTable[k] \in CInfos'
            /\ \A k \in DOMAIN scTable : scTable[k] \in CInfos'
            /\ \A k \in DOMAIN rcTable : rcTable[k] \in CInfos'
        BY <1>2, <2>4
      <3> QED BY <2>3, <2>4, <3>1, PutRange
    <2>6. /\ DOMAIN cTable' \subseteq 0..(KeyMod - 1) /\ DOMAIN sbTable' \subseteq 0..(KeyMod - 1)
          /\ DOMAIN hTable' \subseteq 0..(KeyMod - 1)
          /\ \A k \in DOMAIN sbTable' : sbTable'[k] \in NameOf
      BY <1>2, <2>1, <2>2, <2>3, <2>4, PutKeys, PutRange
    <2>7. TabType'
      BY <1>1, <1>2, <2>2, <2>3, <2>4, <2>5, <2>6 DEF TabType
    <2>8. DOMAIN rcTable' = DOMAIN rcTable \cup {Hash[name]}
      <3>1. Key(Hash[name]) = Hash[name]
        BY <2>2, HashIs
      <3>2. Entered(rcTable', rcTable, Hash[name], c)
        BY <2>3, PutIs
      <3> QED BY <3>1, <3>2 DEF Entered
    <2>9. cinfo'[c].name = name
      BY <2>2 DEF mkcinfo
    <2>10. \A b \in CInfos' : Hash[cinfo'[b].name] \in DOMAIN rcTable'
      BY <1>0, <2>2, <2>8, <2>9 DEF Findable, HashOf
    <2> QED BY <2>7, <2>10 DEF TabInv, Findable, HashOf
  <1> QED
    BY <1>3, <1>5, <1>6, <1>7, <1>8, <1>9, <1>10, <1>11, <1>12 DEF Effect

LEMMA InitTabInv == Init => TabInv
  <1> SUFFICES ASSUME Init PROVE TabInv
    OBVIOUS
  <1>1. DOMAIN EmptyTable = {}
    BY DEF EmptyTable
  <1>2. dump \in Dumps /\ Len(dump) \in Nat
    <2>1. dump \in Dumps /\ dump \in Seq(Record \cup SubRecord)
      BY DumpsAssumption DEF Init
    <2> HIDE DEF Record, SubRecord
    <2> QED BY <2>1
  <1>3. cinfo = <<>> /\ CInfos = {}
    BY DEF Init, CInfos
  <1>4. TabType
    BY <1>1, <1>2, <1>3, SizesAssumption DEF Init, TabType
  <1>5. Findable
    BY <1>3 DEF Findable
  <1> QED BY <1>4, <1>5 DEF TabInv

-----------------------------------------------------------------------------
(* The entries of cTable.                                                  *)

\* The entry at k is a made-up class: it stands under the next number.
MadeUpAt(k) ==
    \E f \in FirstFake..(fakeClass - 1) : cinfo[cTable[k]].ident = f /\ k = Key(f + 1)

\* The entry at k is the class last loaded with this key; its count is right.
LoadedAt(k) ==
    \E i \in Of(dump, next, "load") :
       /\ LastLoad(dump, next, i) /\ k = Key(dump[i].id)
       /\ cinfo[cTable[k]].ident = dump[i].id
       /\ cinfo[cTable[k]].count = Cardinality(SinceLoad(dump, next, i))

\* Every key has an entry of its own, and every class loaded has its key.
EntriesOK ==
    /\ \A k \in DOMAIN cTable : MadeUpAt(k) \/ LoadedAt(k)
    /\ \A k, l \in DOMAIN cTable : cTable[k] = cTable[l] => k = l
    /\ \A i \in Of(dump, next, "load") : Key(dump[i].id) \in DOMAIN cTable

EntriesInv == pc # "crash" => EntriesOK

\* A record that neither loads a class nor is an instance.
LEMMA EntriesSkip ==
    ASSUME TabType, EntriesOK, Advance({"utf8", "frame", "other", "heap", "root", "class", "oarray", "parray", "bad"}),
           cTable' = cTable, fakeClass' = fakeClass,
           \A c \in CInfos : cinfo'[c].ident = cinfo[c].ident /\ cinfo'[c].count = cinfo[c].count
    PROVE  EntriesOK'
  <1>1. /\ dump' = dump /\ next' = next + 1 /\ next \in Nat \ {0}
        /\ dump[next].tag # "load" /\ dump[next].tag # "inst"
    BY DEF Advance, Rec
  <1>2. Of(dump', next', "load") = Of(dump, next, "load")
    BY <1>1, OfNext
  <1>3. \A i : LastLoad(dump', next', i) <=> LastLoad(dump, next, i)
    BY <1>1, LastLoadNext
  <1>4. \A i \in Of(dump, next, "load") : SinceLoad(dump', next', i) = SinceLoad(dump, next, i)
    <2>1. \A i \in Of(dump, next, "load") : i \in 1..(next - 1)
      BY DEF Of
    <2> QED BY <1>1, <2>1, SinceNext
  <1>5. \A k \in DOMAIN cTable : cTable[k] \in CInfos
    BY DEF TabType
  <1>6. ASSUME NEW k \in DOMAIN cTable, MadeUpAt(k) PROVE MadeUpAt(k)'
    BY <1>5, <1>6 DEF MadeUpAt
  <1>7. ASSUME NEW k \in DOMAIN cTable, LoadedAt(k) PROVE LoadedAt(k)'
    BY <1>1, <1>2, <1>3, <1>4, <1>5, <1>7 DEF LoadedAt
  <1> QED BY <1>1, <1>2, <1>6, <1>7 DEF EntriesOK

\* An instance is counted at the class that its key stands for.
LEMMA EntriesInst ==
    ASSUME TabType, EntriesOK, EInst
    PROVE  EntriesOK'
  <1> DEFINE c == At(cTable, Rec.class)
             q == Key(Rec.class)
  <1>1. /\ dump' = dump /\ next' = next + 1 /\ next \in Nat \ {0}
        /\ dump[next].tag = "inst" /\ Rec = dump[next]
        /\ cTable' = cTable /\ fakeClass' = fakeClass
    BY DEF EInst, Advance, Rec
  <1>2. Of(dump', next', "load") = Of(dump, next, "load")
    BY <1>1, OfNext
  <1>3. \A i : LastLoad(dump', next', i) <=> LastLoad(dump, next, i)
    BY <1>1, LastLoadNext
  <1>4. \A i \in Of(dump, next, "load") : i \in 1..(next - 1)
    BY DEF Of
  <1>5. /\ c \in CInfos /\ q \in DOMAIN cTable /\ c = cTable[q]
        /\ cinfo'[c].ident = cinfo[c].ident /\ cinfo'[c].count = cinfo[c].count + 1
        /\ \A b \in CInfos : b # c => cinfo'[b] = cinfo[b]
    BY InstClass
  <1> HIDE DEF c
  <1>6. \A k \in DOMAIN cTable : cTable[k] \in CInfos /\ (k # q => cTable[k] # c)
    BY <1>5 DEF TabType, EntriesOK
  <1>7. ASSUME NEW k \in DOMAIN cTable, MadeUpAt(k) PROVE MadeUpAt(k)'
    BY <1>1, <1>5, <1>6, <1>7 DEF MadeUpAt
  <1>8. ASSUME NEW k \in DOMAIN cTable, LoadedAt(k) PROVE LoadedAt(k)'
    <2>1. PICK i \in Of(dump, next, "load") :
             /\ LastLoad(dump, next, i) /\ k = Key(dump[i].id)
             /\ cinfo[cTable[k]].ident = dump[i].id
             /\ cinfo[cTable[k]].count = Cardinality(SinceLoad(dump, next, i))
      BY <1>8 DEF LoadedAt
    <2>2. CASE k = q
      <3>1. SameKey(dump[next].class, dump[i].id)
        BY <1>1, <2>1, <2>2 DEF SameKey
      <3>2. Cardinality(SinceLoad(dump, next + 1, i)) = Cardinality(SinceLoad(dump, next, i)) + 1
        BY <1>1, <1>4, <3>1, SinceNext
      <3>3. /\ cinfo'[cTable[k]].ident = dump[i].id
            /\ cinfo'[cTable[k]].count = Cardinality(SinceLoad(dump, next + 1, i))
        BY <1>5, <2>1, <2>2, <3>2
      <3> QED BY <1>1, <1>2, <1>3, <2>1, <3>3 DEF LoadedAt
    <2>3. CASE k # q
      <3>1. ~SameKey(dump[next].class, dump[i].id)
        BY <1>1, <2>1, <2>3 DEF SameKey
      <3>2. SinceLoad(dump, next + 1, i) = SinceLoad(dump, next, i)
        BY <1>1, <1>4, <3>1, SinceNext
      <3>3. cinfo'[cTable[k]] = cinfo[cTable[k]]
        BY <1>5, <1>6, <2>3
      <3> QED BY <1>1, <1>2, <1>3, <2>1, <3>2, <3>3 DEF LoadedAt
    <2> QED BY <2>2, <2>3
  <1> QED BY <1>1, <1>2, <1>7, <1>8 DEF EntriesOK

\* A load takes the place of what had its key.
LEMMA EntriesLoad ==
    ASSUME TabType, EntriesOK, ELoad
    PROVE  EntriesOK'
  <1> DEFINE c == Len(cinfo) + 1
             name == At(sbTable, Rec.nameId)
  <1>0. PICK q : q = Key(Rec.id)
    OBVIOUS
  <1>1. /\ dump' = dump /\ next' = next + 1 /\ next \in Nat \ {0}
        /\ dump[next].tag = "load" /\ Rec = dump[next] /\ fakeClass' = fakeClass
        /\ cTable' = Put(cTable, Rec.id, c)
    BY DEF ELoad, Advance, Rec
  <1>2. /\ DOMAIN cTable' = DOMAIN cTable \cup {q} /\ cTable'[q] = c
        /\ \A k \in DOMAIN cTable : k # q => cTable'[k] = cTable[k]
    <2>1. Entered(cTable', cTable, Rec.id, c)
      BY <1>1, PutIs
    <2> QED BY <1>0, <2>1 DEF Entered
  <1>3. /\ c \notin CInfos /\ cinfo'[c] = mkcinfo(Rec.id, name)
        /\ \A b \in CInfos : cinfo'[b] = cinfo[b]
    BY LoadClass
  <1> HIDE DEF c
  <1>4. \A k \in DOMAIN cTable : cTable[k] \in CInfos
    BY DEF TabType
  <1>5. Of(dump', next', "load") = Of(dump, next, "load") \cup {next}
    BY <1>1, OfNext
  <1>6. \A i \in Of(dump, next, "load") : i \in 1..(next - 1) /\ i # next
    BY DEF Of
  <1>7. ASSUME NEW k \in DOMAIN cTable, k # q, MadeUpAt(k) PROVE MadeUpAt(k)'
    BY <1>1, <1>2, <1>3, <1>4, <1>7 DEF MadeUpAt
  <1>8. ASSUME NEW k \in DOMAIN cTable, k # q, LoadedAt(k) PROVE LoadedAt(k)'
    <2>1. PICK i \in Of(dump, next, "load") :
             /\ LastLoad(dump, next, i) /\ k = Key(dump[i].id)
             /\ cinfo[cTable[k]].ident = dump[i].id
             /\ cinfo[cTable[k]].count = Cardinality(SinceLoad(dump, next, i))
      BY <1>8 DEF LoadedAt
    <2>2. ~SameKey(dump[next].id, dump[i].id)
      BY <1>0, <1>1, <1>8, <2>1 DEF SameKey
    <2>3. LastLoad(dump', next', i)
      BY <1>1, <1>6, <2>1, <2>2, LastLoadNext
    <2>4. SinceLoad(dump', next', i) = SinceLoad(dump, next, i)
      BY <1>1, <1>6, SinceNext
    <2>5. cinfo'[cTable'[k]] = cinfo[cTable[k]]
      BY <1>2, <1>3, <1>4, <1>8
    <2> QED BY <1>1, <1>5, <2>1, <2>3, <2>4, <2>5 DEF LoadedAt
  <1>9. LoadedAt(q)'
    <2>1. LastLoad(dump', next', next)
      BY <1>1, LastLoadNext
    <2>2. Cardinality(SinceLoad(dump', next', next)) = 0
      BY <1>1, SinceNone
    <2>3. cinfo'[cTable'[q]].ident = dump'[next].id /\ cinfo'[cTable'[q]].count = 0
      BY <1>1, <1>2, <1>3 DEF mkcinfo
    <2>4. next \in Of(dump', next', "load") /\ q = Key(dump'[next].id)
      BY <1>0, <1>1, <1>5
    <2> QED BY <2>1, <2>2, <2>3, <2>4 DEF LoadedAt
  <1>10. \A k \in DOMAIN cTable' : MadeUpAt(k)' \/ LoadedAt(k)'
    BY <1>2, <1>7, <1>8, <1>9 DEF EntriesOK
  <1>11. \A k, l \in DOMAIN cTable' : cTable'[k] = cTable'[l] => k = l
    BY <1>2, <1>3, <1>4 DEF EntriesOK
  <1>12. \A i \in Of(dump', next', "load") : Key(dump'[i].id) \in DOMAIN cTable'
    BY <1>0, <1>1, <1>2, <1>5 DEF EntriesOK
  <1> QED BY <1>10, <1>11, <1>12 DEF EntriesOK

\* So does a made-up class.
LEMMA EntriesMade ==
    ASSUME TabType, EntriesOK, EMade
    PROVE  EntriesOK'
  <1> DEFINE c == Len(cinfo) + 1
             name == PrimName[Rec.type]
  <1>0. PICK q : q = Key(fakeClass + 1)
    OBVIOUS
  <1>1. /\ dump' = dump /\ next' = next + 1 /\ next \in Nat \ {0}
        /\ dump[next].tag = "parray" /\ fakeClass' = fakeClass + 1
        /\ cTable' = Put(cTable, fakeClass + 1, c)
    BY DEF EMade, Advance, Rec
  <1>2. /\ DOMAIN cTable' = DOMAIN cTable \cup {q} /\ cTable'[q] = c
        /\ \A k \in DOMAIN cTable : k # q => cTable'[k] = cTable[k]
    <2>1. Entered(cTable', cTable, fakeClass + 1, c)
      BY <1>1, PutIs
    <2> QED BY <1>0, <2>1 DEF Entered
  <1>3. /\ c \notin CInfos /\ cinfo'[c] = mkcinfo(fakeClass, name)
        /\ \A b \in CInfos : cinfo'[b] = cinfo[b]
    BY MadeClass
  <1> HIDE DEF c
  <1>4. /\ \A k \in DOMAIN cTable : cTable[k] \in CInfos
        /\ fakeClass \in Nat /\ FirstFake <= fakeClass /\ FirstFake \in Nat
    BY SizesAssumption DEF TabType
  <1>5. Of(dump', next', "load") = Of(dump, next, "load")
    BY <1>1, OfNext
  <1>6. \A i \in Of(dump, next, "load") : i \in 1..(next - 1)
    BY DEF Of
  <1>7. ASSUME NEW k \in DOMAIN cTable, k # q, MadeUpAt(k) PROVE MadeUpAt(k)'
    <2>1. PICK f \in FirstFake..(fakeClass - 1) : cinfo[cTable[k]].ident = f /\ k = Key(f + 1)
      BY <1>7 DEF MadeUpAt
    <2>2. f \in FirstFake..(fakeClass' - 1)
      BY <1>1, <1>4, <2>1
    <2>3. cinfo'[cTable'[k]] = cinfo[cTable[k]]
      BY <1>2, <1>3, <1>4, <1>7
    <2> QED BY <2>1, <2>2, <2>3 DEF MadeUpAt
  <1>8. ASSUME NEW k \in DOMAIN cTable, k # q, LoadedAt(k) PROVE LoadedAt(k)'
    <2>1. PICK i \in Of(dump, next, "load") :
             /\ LastLoad(dump, next, i) /\ k = Key(dump[i].id)
             /\ cinfo[cTable[k]].ident = dump[i].id
             /\ cinfo[cTable[k]].count = Cardinality(SinceLoad(dump, next, i))
      BY <1>8 DEF LoadedAt
    <2>2. LastLoad(dump', next', i)
      BY <1>1, <2>1, LastLoadNext
    <2>3. SinceLoad(dump', next', i) = SinceLoad(dump, next, i)
      BY <1>1, <1>6, SinceNext
    <2>4. cinfo'[cTable'[k]] = cinfo[cTable[k]]
      BY <1>2, <1>3, <1>4, <1>8
    <2> QED BY <1>1, <1>5, <2>1, <2>2, <2>3, <2>4 DEF LoadedAt
  <1>9. MadeUpAt(q)'
    <2>1. cinfo'[cTable'[q]].ident = fakeClass
      BY <1>2, <1>3 DEF mkcinfo
    <2>2. fakeClass \in FirstFake..(fakeClass' - 1)
      BY <1>1, <1>4
    <2> QED BY <1>0, <2>1, <2>2 DEF MadeUpAt
  <1>10. \A k \in DOMAIN cTable' : MadeUpAt(k)' \/ LoadedAt(k)'
    BY <1>2, <1>7, <1>8, <1>9 DEF EntriesOK
  <1>11. \A k, l \in DOMAIN cTable' : cTable'[k] = cTable'[l] => k = l
    BY <1>2, <1>3, <1>4 DEF EntriesOK
  <1>12. \A i \in Of(dump', next', "load") : Key(dump'[i].id) \in DOMAIN cTable'
    BY <1>1, <1>2, <1>5 DEF EntriesOK
  <1> QED BY <1>10, <1>11, <1>12 DEF EntriesOK

LEMMA NextEntriesInv == TabInv /\ EntriesInv /\ [Next]_vars => EntriesInv'
  <1> SUFFICES ASSUME TabInv, EntriesInv, [Next]_vars, pc' # "crash" PROVE EntriesOK'
    BY DEF EntriesInv
  <1>1. Effect /\ TabType
    BY StepEffect DEF TabInv
  <1>2. EntriesOK
    BY <1>1 DEF EntriesInv, Effect, EStay, ECrash, ESkip, EUtf8, ELoad, EHeap, EClass, EInst,
                EFound, EMade, Advance
  <1>3. CASE EStay
    BY <1>2, <1>3 DEF EStay, EntriesOK, MadeUpAt, LoadedAt
  <1>4. CASE ESkip \/ EUtf8 \/ EHeap \/ EFound
    <2>1. /\ UNCHANGED <<cTable, cinfo, fakeClass>>
          /\ Advance({"utf8", "frame", "other", "heap", "root", "class", "oarray", "parray", "bad"})
      BY <1>4 DEF ESkip, EUtf8, EHeap, EFound, Advance
    <2> QED BY <1>1, <1>2, <2>1, EntriesSkip
  <1>5. CASE EClass
    <2>1. /\ UNCHANGED <<cTable, fakeClass>>
          /\ Advance({"utf8", "frame", "other", "heap", "root", "class", "oarray", "parray", "bad"})
      BY <1>5 DEF EClass, Advance
    <2>2. \A c \in CInfos : cinfo'[c].ident = cinfo[c].ident /\ cinfo'[c].count = cinfo[c].count
      BY <1>1, <1>5, DumpClass
    <2> QED BY <1>1, <1>2, <2>1, <2>2, EntriesSkip
  <1>6. CASE ECrash
    BY <1>6 DEF ECrash
  <1> QED
    BY <1>1, <1>2, <1>3, <1>4, <1>5, <1>6, EntriesLoad, EntriesInst, EntriesMade DEF Effect

\* A loaded class has counted its instances.
LEMMA CountsFromEntries ==
    ASSUME TabInv, EntriesInv
    PROVE  CountsExact
  <1> SUFFICES ASSUME pc # "crash", NEW i \in Before({"load"}),
                      i = LoadFor(dump[i].id, next),
                      cinfo[At(cTable, dump[i].id)].ident = dump[i].id
               PROVE  cinfo[At(cTable, dump[i].id)].count
                        = Cardinality({j \in Before({"inst"}) : i < j /\ SameKey(dump[j].class, dump[i].id)})
    BY DEF CountsExact
  <1>1. /\ TabType /\ EntriesOK /\ dump \in Dumps /\ next \in Nat \ {0} /\ next \in 1..(Len(dump) + 1)
        /\ i \in Of(dump, next, "load") /\ i \in 1..(next - 1) /\ i # 0
        /\ FirstFake \in Nat /\ fakeClass \in Nat
    BY SizesAssumption DEF TabInv, EntriesInv, TabType, Before, Of
  <1> DEFINE k == Key(dump[i].id)
             S == SinceLoad(dump, next, i)
  <1>2. k \in DOMAIN cTable /\ At(cTable, dump[i].id) = cTable[k]
    BY <1>1 DEF EntriesOK, At
  <1>3. ~MadeUpAt(k)
    <2> SUFFICES ASSUME MadeUpAt(k) PROVE FALSE
      OBVIOUS
    <2>1. PICK f \in FirstFake..(fakeClass - 1) : cinfo[cTable[k]].ident = f /\ k = Key(f + 1)
      BY DEF MadeUpAt
    <2>2. f = dump[i].id /\ f \in Nat
      BY <1>1, <1>2, <2>1
    <2> QED BY <2>1, <2>2, KeyNext
  <1>4. PICK l \in Of(dump, next, "load") :
           /\ LastLoad(dump, next, l) /\ k = Key(dump[l].id)
           /\ cinfo[cTable[k]].count = Cardinality(SinceLoad(dump, next, l))
    BY <1>1, <1>2, <1>3 DEF EntriesOK, LoadedAt
  <1>5. LastOf(LoadsOf(dump, next, dump[i].id, next)) = l
    BY <1>1, <1>4, LoadForLast DEF SameKey
  <1>6. l = i
    BY <1>5, LoadForIs
  <1>7. S = {j \in Before({"inst"}) : i < j /\ SameKey(dump[j].class, dump[i].id)}
    BY DEF SinceLoad, Of, Before
  <1> QED BY <1>2, <1>4, <1>6, <1>7

-----------------------------------------------------------------------------
(* The object table.                                                       *)

\* The rank of instance j among those of its class, and what the limit lets
\* through if s is the identifier of the String class.
RankSet(d, n, j) ==
    {i \in Of(d, n, "inst") : /\ LastOf(LoadsOf(d, n, d[j].class, j)) < i /\ i <= j
                              /\ SameKey(d[i].class, d[j].class)}
RankOf(d, n, j) == Cardinality(RankSet(d, n, j))

KeptAt(d, n, s, j) ==
    \/ d[j].tag \in {"oarray", "parray"}
    \/ d[j].tag = "inst" /\ RankOf(d, n, j) < Cap
    \/ d[j].tag = "inst" /\ d[j].class = s

Objs(d, n, s) == {j \in 1..(n - 1) : KeptAt(d, n, s, j)}

\* Table ht holds them.
Holds(d, n, s, ht) ==
    /\ DOMAIN ht = {Key(d[j].id) : j \in Objs(d, n, s)}
    /\ \A j \in Objs(d, n, s) :
          (\A i \in Objs(d, n, s) : SameKey(d[i].id, d[j].id) => i <= j) =>
             ht[Key(d[j].id)].instId = d[j].id

\* What is kept of the records up to n does not change any more.
LEMMA ObjsNext ==
    ASSUME NEW d, NEW n \in Nat \ {0}, NEW s
    PROVE  /\ \A j \in 1..(n - 1) : RankOf(d, n + 1, j) = RankOf(d, n, j)
           /\ KeptAt(d, n + 1, s, n) => Objs(d, n + 1, s) = Objs(d, n, s) \cup {n}
           /\ ~KeptAt(d, n + 1, s, n) => Objs(d, n + 1, s) = Objs(d, n, s)
           /\ \A j \in Objs(d, n, s) : j \in Nat /\ j < n
  <1>1. ASSUME NEW j \in 1..(n - 1) PROVE RankSet(d, n + 1, j) = RankSet(d, n, j)
    <2>1. 1..((n + 1) - 1) = (1..(n - 1)) \cup {n} /\ ~(n <= j) /\ ~(n < j)
      OBVIOUS
    <2>2. /\ {i \in Of(d, n + 1, "load") : i < j} = {i \in Of(d, n, "load") : i < j}
          /\ {i \in Of(d, n + 1, "inst") : i <= j} = {i \in Of(d, n, "inst") : i <= j}
      BY <2>1 DEF Of
    <2>3. LoadsOf(d, n + 1, d[j].class, j) = LoadsOf(d, n, d[j].class, j)
      BY <2>2 DEF LoadsOf
    <2> QED BY <2>2, <2>3 DEF RankSet
  <1>2. \A j \in 1..(n - 1) : RankOf(d, n + 1, j) = RankOf(d, n, j)
    BY <1>1 DEF RankOf
  <1>3. \A j \in 1..(n - 1) : KeptAt(d, n + 1, s, j) <=> KeptAt(d, n, s, j)
    BY <1>2 DEF KeptAt
  <1>4. 1..((n + 1) - 1) = (1..(n - 1)) \cup {n} /\ \A j \in 1..(n - 1) : j \in Nat /\ j < n
    OBVIOUS
  <1>5. KeptAt(d, n + 1, s, n) => Objs(d, n + 1, s) = Objs(d, n, s) \cup {n}
    BY <1>3, <1>4 DEF Objs
  <1>6. ~KeptAt(d, n + 1, s, n) => Objs(d, n + 1, s) = Objs(d, n, s)
    BY <1>3, <1>4 DEF Objs
  <1> QED BY <1>2, <1>4, <1>5, <1>6 DEF Objs

LEMMA HoldsSkip ==
    ASSUME NEW d, NEW n \in Nat \ {0}, NEW s, NEW ht, Holds(d, n, s, ht), ~KeptAt(d, n + 1, s, n)
    PROVE  Holds(d, n + 1, s, ht)
  <1>1. Objs(d, n + 1, s) = Objs(d, n, s)
    BY ObjsNext
  <1> QED BY <1>1 DEF Holds

LEMMA HoldsAdd ==
    ASSUME NEW d, NEW n \in Nat \ {0}, NEW s, NEW ht, Holds(d, n, s, ht), KeptAt(d, n + 1, s, n),
           NEW o, o.instId = d[n].id, NEW new, new = Put(ht, d[n].id, o)
    PROVE  Holds(d, n + 1, s, new)
  <1>1. Objs(d, n + 1, s) = Objs(d, n, s) \cup {n} /\ \A j \in Objs(d, n, s) : j \in Nat /\ j < n
    BY ObjsNext
  <1>2. /\ DOMAIN new = DOMAIN ht \cup {Key(d[n].id)} /\ new[Key(d[n].id)] = o
        /\ \A k \in DOMAIN ht : k # Key(d[n].id) => new[k] = ht[k]
    <2>1. Entered(new, ht, d[n].id, o)
      BY PutIs
    <2> QED BY <2>1 DEF Entered
  <1>3. DOMAIN new = {Key(d[j].id) : j \in Objs(d, n + 1, s)}
    BY <1>1, <1>2 DEF Holds
  <1>4. ASSUME NEW j \in Objs(d, n + 1, s),
               \A i \in Objs(d, n + 1, s) : SameKey(d[i].id, d[j].id) => i <= j
        PROVE  new[Key(d[j].id)].instId = d[j].id
    <2>1. CASE Key(d[j].id) = Key(d[n].id)
      <3>1. n <= j
        BY <1>1, <1>4, <2>1 DEF SameKey
      <3>2. j = n
        BY <1>1, <3>1
      <3> QED BY <1>2, <3>2
    <2>2. CASE Key(d[j].id) # Key(d[n].id)
      <3>1. j \in Objs(d, n, s)
        BY <1>1, <2>2
      <3>2. ht[Key(d[j].id)].instId = d[j].id /\ Key(d[j].id) \in DOMAIN ht
        BY <1>1, <1>4, <3>1 DEF Holds
      <3> QED BY <1>2, <2>2, <3>2
    <2> QED BY <2>1, <2>2
  <1> QED BY <1>3, <1>4 DEF Holds

\* Which class is String does not matter while no limit is reached.
LEMMA HoldsAnyString ==
    ASSUME NEW d, NEW n \in Nat \ {0}, NEW s, NEW r, NEW ht, Holds(d, n, s, ht),
           \A j \in Of(d, n, "inst") : RankOf(d, n, j) < Cap
    PROVE  Holds(d, n, r, ht)
  <1>1. ASSUME NEW j \in 1..(n - 1) PROVE KeptAt(d, n, s, j) <=> KeptAt(d, n, r, j)
    BY DEF KeptAt, Of
  <1>2. Objs(d, n, s) = Objs(d, n, r)
    BY <1>1 DEF Objs
  <1> QED BY <1>2 DEF Holds

\* The rank of the instance at the cursor is what its class counts, unless the
\* entry of its class is a made-up one.
LEMMA RankIsCount ==
    ASSUME TabType, EntriesOK, EInst, FakesApart'
    PROVE  /\ RankOf(dump, next + 1, next) = cinfo[At(cTable, Rec.class)].count + 1
           /\ cinfo[At(cTable, Rec.class)].count \in Nat
  <1> DEFINE q == Key(Rec.class)
  <1>1. /\ dump' = dump /\ next' = next + 1 /\ next \in Nat \ {0}
        /\ dump[next].tag = "inst" /\ Rec = dump[next] /\ fakeClass' = fakeClass
        /\ fakeClass \in Nat /\ FirstFake \in Nat
    BY SizesAssumption DEF TabType, EInst, Advance, Rec
  <1>2. q \in DOMAIN cTable /\ At(cTable, Rec.class) = cTable[q] /\ cTable[q] \in CInfos
    BY InstClass
  <1>3. ~MadeUpAt(q)
    <2> SUFFICES ASSUME MadeUpAt(q) PROVE FALSE
      OBVIOUS
    <2>1. PICK f \in FirstFake..(fakeClass - 1) : q = Key(f + 1)
      BY DEF MadeUpAt
    <2>2. f + 1 \in FirstFake..fakeClass
      BY <1>1, <2>1
    <2>3. dump'[next].class \in ClassIds'
      <3>1. next \in Before({"inst"})'
        BY <1>1 DEF Before
      <3> QED BY <3>1 DEF ClassIds
    <2>4. ~SameKey(dump[next].class, f + 1)
      BY <1>1, <2>2, <2>3 DEF FakesApart
    <2> QED BY <1>1, <2>1, <2>4 DEF SameKey
  <1>4. PICK i \in Of(dump, next, "load") :
           /\ LastLoad(dump, next, i) /\ q = Key(dump[i].id)
           /\ cinfo[cTable[q]].count = Cardinality(SinceLoad(dump, next, i))
    BY <1>2, <1>3 DEF EntriesOK, LoadedAt
  <1>5. i \in 1..(next - 1) /\ SameKey(dump[next].class, dump[i].id)
    BY <1>1, <1>4 DEF Of, SameKey
  <1>6. Cardinality(SinceLoad(dump, next + 1, i)) = Cardinality(SinceLoad(dump, next, i)) + 1
    BY <1>1, <1>5, SinceNext
  <1>7. LastOf(LoadsOf(dump, next + 1, dump[next].class, next)) = i
    <2>1. LoadsOf(dump, next + 1, dump[next].class, next) = LoadsOf(dump, next, dump[next].class, next)
      <3>1. Of(dump, next + 1, "load") = Of(dump, next, "load")
        BY <1>1, OfNext
      <3> QED BY <3>1 DEF LoadsOf
    <2> QED BY <1>1, <1>4, <1>5, <2>1, LoadForLast DEF SameKey
  <1>8. RankSet(dump, next + 1, next) = SinceLoad(dump, next + 1, i)
    <2>1. \A j \in Of(dump, next + 1, "inst") : j <= next
      BY <1>1 DEF Of
    <2>2. \A j \in Of(dump, next + 1, "inst") :
             SameKey(dump[j].class, dump[next].class) <=> SameKey(dump[j].class, dump[i].id)
      BY <1>5 DEF SameKey
    <2> QED BY <1>7, <2>1, <2>2 DEF RankSet, SinceLoad
  <1>9. cinfo[cTable[q]].count \in Nat
    BY <1>2, ClassIs DEF TabType
  <1> QED BY <1>2, <1>4, <1>6, <1>8, <1>9 DEF RankOf

\* rcTable holds classes under the hash of their names.
HashInv == \A h \in DOMAIN rcTable : HashOf(rcTable[h]) = h

LEMMA NextHashInv == TabInv /\ HashInv /\ [Next]_vars => HashInv'
  <1> SUFFICES ASSUME TabInv, HashInv, [Next]_vars PROVE HashInv'
    OBVIOUS
  <1>1. Effect /\ TabType
    BY StepEffect DEF TabInv
  <1>2. \A h \in DOMAIN rcTable : rcTable[h] \in CInfos
    BY <1>1 DEF TabType
  <1>3. ASSUME rcTable' = rcTable, \A c \in CInfos : cinfo'[c].name = cinfo[c].name
        PROVE  HashInv'
    BY <1>2, <1>3 DEF HashInv, HashOf
  <1>4. CASE EStay \/ ECrash \/ ESkip \/ EUtf8 \/ EHeap \/ EFound
    BY <1>3, <1>4 DEF EStay, ECrash, ESkip, EUtf8, EHeap, EFound
  <1>5. CASE EClass
    <2>1. \A c \in CInfos : cinfo'[c].name = cinfo[c].name
      BY <1>1, <1>5, DumpClass
    <2> QED BY <1>3, <1>5, <2>1 DEF EClass
  <1>6. CASE EInst
    <2>1. \A c \in CInfos : cinfo'[c].name = cinfo[c].name
      BY <1>1, <1>6, InstClass
    <2> QED BY <1>3, <1>6, <2>1 DEF EInst
  <1>7. ASSUME NEW c, NEW name \in NameOf, c \notin CInfos, cinfo'[c].name = name,
               rcTable' = Put(rcTable, Hash[name], c), \A b \in CInfos : cinfo'[b] = cinfo[b]
        PROVE  HashInv'
    <2>1. Key(Hash[name]) = Hash[name]
      BY <1>7, HashIs
    <2>2. Entered(rcTable', rcTable, Hash[name], c)
      BY <1>7, PutIs
    <2> QED BY <1>2, <1>7, <2>1, <2>2 DEF HashInv, HashOf, Entered
  <1>8. CASE ELoad
    <2> DEFINE c == Len(cinfo) + 1
               name == At(sbTable, Rec.nameId)
    <2>1. /\ name \in NameOf /\ c \notin CInfos
          /\ cinfo'[c] = mkcinfo(Rec.id, name) /\ \A b \in CInfos : cinfo'[b] = cinfo[b]
      BY <1>1, <1>8, LoadClass
    <2>2. rcTable' = Put(rcTable, Hash[name], c)
      BY <1>8 DEF ELoad
    <2> HIDE DEF c, name
    <2>3. cinfo'[c].name = name
      BY <2>1 DEF mkcinfo
    <2> QED BY <1>7, <2>1, <2>2, <2>3
  <1>9. CASE EMade
    <2> DEFINE c == Len(cinfo) + 1
               name == PrimName[Rec.type]
    <2>1. /\ name \in NameOf /\ c \notin CInfos
          /\ cinfo'[c] = mkcinfo(fakeClass, name) /\ \A b \in CInfos : cinfo'[b] = cinfo[b]
      BY <1>1, <1>9, MadeClass
    <2>2. rcTable' = Put(rcTable, Hash[name], c)
      BY <1>9 DEF EMade
    <2> HIDE DEF c, name
    <2>3. cinfo'[c].name = name
      BY <2>1 DEF mkcinfo
    <2> QED BY <1>7, <2>1, <2>2, <2>3
  <1> QED BY <1>1, <1>4, <1>5, <1>6, <1>8, <1>9 DEF Effect

\* Made-up numbers and identifiers only become more, so do classes.
LEMMA Growing ==
    ASSUME TabType, Effect
    PROVE  /\ CInfos \subseteq CInfos'
           /\ \A c \in CInfos : cinfo'[c].name = cinfo[c].name /\ cinfo'[c].ident = cinfo[c].ident
           /\ fakeClass <= fakeClass' /\ fakeClass' \in Nat
           /\ ClassIds \subseteq ClassIds'
           /\ \A tag : Of(dump, next, tag) \subseteq Of(dump', next', tag)
           /\ dump' = dump
  <1>0. /\ next \in Nat \ {0} /\ fakeClass \in Nat /\ fakeClass + 1 \in Nat
        /\ fakeClass <= fakeClass + 1 /\ fakeClass <= fakeClass
    BY DEF TabType
  <1>1. CASE EStay
    BY <1>0, <1>1 DEF EStay, ClassIds, CInfos, Before
  <1>2. ASSUME NEW tags, Advance(tags)
        PROVE  /\ \A tag : Of(dump, next, tag) \subseteq Of(dump', next', tag)
               /\ ClassIds \subseteq ClassIds' /\ dump' = dump
    <2>1. dump' = dump /\ next' = next + 1
      BY <1>2 DEF Advance
    <2>2. \A i \in 1..(next - 1) : i \in 1..(next' - 1)
      BY <1>0, <2>1
    <2>3. Before({"load"}) \subseteq Before({"load"})' /\ Before({"inst"}) \subseteq Before({"inst"})'
      BY <2>1, <2>2 DEF Before
    <2>4. ClassIds \subseteq ClassIds'
      BY <2>1, <2>3 DEF ClassIds
    <2> QED BY <2>1, <2>2, <2>4 DEF Of
  <1>3. CASE ECrash \/ ESkip \/ EUtf8 \/ EHeap \/ EFound
    BY <1>0, <1>2, <1>3 DEF ECrash, ESkip, EUtf8, EHeap, EFound, CInfos
  <1>4. CASE EClass
    <2>1. /\ CInfos' = CInfos
          /\ \A c \in CInfos : cinfo'[c].name = cinfo[c].name /\ cinfo'[c].ident = cinfo[c].ident
      BY <1>4, DumpClass
    <2> QED BY <1>0, <1>2, <1>4, <2>1 DEF EClass
  <1>5. CASE EInst
    <2>1. /\ CInfos' = CInfos
          /\ \A c \in CInfos : cinfo'[c].name = cinfo[c].name /\ cinfo'[c].ident = cinfo[c].ident
      BY <1>5, InstClass
    <2> QED BY <1>0, <1>2, <1>5, <2>1 DEF EInst
  <1>6. CASE ELoad
    <2>1. CInfos \subseteq CInfos' /\ \A c \in CInfos : cinfo'[c] = cinfo[c]
      BY <1>6, LoadClass
    <2> QED BY <1>0, <1>2, <1>6, <2>1 DEF ELoad
  <1>7. CASE EMade
    <2>1. CInfos \subseteq CInfos' /\ \A c \in CInfos : cinfo'[c] = cinfo[c]
      BY <1>7, MadeClass
    <2> QED BY <1>0, <1>2, <1>7, <2>1 DEF EMade
  <1> QED BY <1>1, <1>3, <1>4, <1>5, <1>6, <1>7 DEF Effect

\* What the file lacks now it lacked before.
LEMMA LackedBefore ==
    ASSUME TabType, Effect
    PROVE  /\ FakesApart' => FakesApart
           /\ OneString' => OneString
           /\ KeysApart' => KeysApart
  <1>1. /\ CInfos \subseteq CInfos'
        /\ \A c \in CInfos : cinfo'[c].name = cinfo[c].name
        /\ fakeClass <= fakeClass' /\ fakeClass' \in Nat
        /\ ClassIds \subseteq ClassIds'
    BY Growing
  <1>2. FirstFake \in Nat /\ fakeClass \in Nat
    BY SizesAssumption DEF TabType
  <1>3. \A f \in FirstFake..fakeClass : f \in FirstFake..fakeClass'
    BY <1>1, <1>2
  <1>4. FakesApart' => FakesApart
    BY <1>1, <1>3 DEF FakesApart
  <1>5. OneString' => OneString
    BY <1>1 DEF OneString
  <1>6. KeysApart' => KeysApart
    BY <1>1 DEF KeysApart
  <1> QED BY <1>4, <1>5, <1>6

\* The identifier of the String class; no class has that of a missing one.
StringId == IF javaLangString = NULL THEN Uninit ELSE cinfo[javaLangString].ident

\* No instance can be beyond the limit before there is a String class.
ObjectsOK ==
    /\ Holds(dump, next, StringId, hTable)
    /\ javaLangString = NULL => \A j \in Of(dump, next, "inst") : RankOf(dump, next, j) < Cap
    /\ javaLangString # NULL => HashOf(javaLangString) = Hash[StringName]

ObjectsInv == pc # "crash" /\ FakesApart /\ OneString => ObjectsOK

\* The rank of no earlier instance changes.
LEMMA RanksKept ==
    ASSUME NEW d, NEW n \in Nat \ {0}, \A j \in Of(d, n, "inst") : RankOf(d, n, j) < Cap,
           d[n].tag = "inst" => RankOf(d, n + 1, n) < Cap
    PROVE  \A j \in Of(d, n + 1, "inst") : RankOf(d, n + 1, j) < Cap
  <1>1. \A j \in 1..(n - 1) : RankOf(d, n + 1, j) = RankOf(d, n, j)
    BY ObjsNext
  <1>2. \A j \in Of(d, n, "inst") : j \in 1..(n - 1)
    BY DEF Of
  <1>3. Of(d, n + 1, "inst") = IF d[n].tag = "inst" THEN Of(d, n, "inst") \cup {n} ELSE Of(d, n, "inst")
    BY OfNext
  <1> QED BY <1>1, <1>2, <1>3

\* A record of which nothing is stored.
LEMMA ObjectsSkip ==
    ASSUME TabType, ObjectsOK, Effect, Advance({"utf8", "load", "frame", "other", "root", "class", "bad"}),
           UNCHANGED <<hTable, javaLangString>>
    PROVE  ObjectsOK'
  <1>1. /\ dump' = dump /\ next' = next + 1 /\ next \in Nat \ {0}
        /\ dump[next].tag \notin {"inst", "oarray", "parray"}
    BY DEF Advance, Rec
  <1>2. /\ javaLangString \in CInfos \cup {NULL}
        /\ \A c \in CInfos : cinfo'[c].name = cinfo[c].name /\ cinfo'[c].ident = cinfo[c].ident
    BY Growing DEF TabType
  <1>3. StringId' = StringId /\ (javaLangString # NULL => HashOf(javaLangString)' = HashOf(javaLangString))
    BY <1>2 DEF StringId, HashOf
  <1>4. ~KeptAt(dump, next + 1, StringId, next)
    BY <1>1 DEF KeptAt
  <1>5. Holds(dump, next + 1, StringId, hTable)
    BY <1>1, <1>4, HoldsSkip DEF ObjectsOK
  <1>6. javaLangString = NULL => \A j \in Of(dump, next + 1, "inst") : RankOf(dump, next + 1, j) < Cap
    BY <1>1, RanksKept DEF ObjectsOK
  <1> QED BY <1>1, <1>3, <1>5, <1>6 DEF ObjectsOK

\* An array.
LEMMA ObjectsArray ==
    ASSUME TabType, ObjectsOK, Effect, Advance({"oarray", "parray"}), javaLangString' = javaLangString,
           NEW o, o.instId = Rec.id, hTable' = Put(hTable, Rec.id, o)
    PROVE  ObjectsOK'
  <1>1. /\ dump' = dump /\ next' = next + 1 /\ next \in Nat \ {0} /\ Rec = dump[next]
        /\ dump[next].tag \in {"oarray", "parray"} /\ dump[next].tag # "inst"
    BY DEF Advance, Rec
  <1>2. /\ javaLangString \in CInfos \cup {NULL}
        /\ \A c \in CInfos : cinfo'[c].name = cinfo[c].name /\ cinfo'[c].ident = cinfo[c].ident
    BY Growing DEF TabType
  <1>3. StringId' = StringId /\ (javaLangString # NULL => HashOf(javaLangString)' = HashOf(javaLangString))
    BY <1>2 DEF StringId, HashOf
  <1>4. KeptAt(dump, next + 1, StringId, next)
    BY <1>1 DEF KeptAt
  <1>5. Holds(dump, next + 1, StringId, hTable')
    BY <1>1, <1>4, HoldsAdd DEF ObjectsOK
  <1>6. javaLangString = NULL => \A j \in Of(dump, next + 1, "inst") : RankOf(dump, next + 1, j) < Cap
    BY <1>1, RanksKept DEF ObjectsOK
  <1> QED BY <1>1, <1>3, <1>5, <1>6 DEF ObjectsOK

\* An instance: the test of readInstance is that of the limit.
LEMMA ObjectsInst ==
    ASSUME TabType, EntriesOK, ObjectsOK, Effect, EInst, FakesApart'
    PROVE  ObjectsOK'
  <1> DEFINE c == At(cTable, Rec.class)
  <1>1. /\ dump' = dump /\ next' = next + 1 /\ next \in Nat \ {0} /\ Rec = dump[next]
        /\ dump[next].tag = "inst" /\ javaLangString' = javaLangString
        /\ dump \in Dumps /\ next \in 1..Len(dump)
    BY DEF TabType, EInst, Advance, Rec
  <1>2. /\ javaLangString \in CInfos \cup {NULL}
        /\ \A b \in CInfos : cinfo'[b].name = cinfo[b].name /\ cinfo'[b].ident = cinfo[b].ident
    BY Growing DEF TabType
  <1>3. StringId' = StringId /\ (javaLangString # NULL => HashOf(javaLangString)' = HashOf(javaLangString))
    BY <1>1, <1>2 DEF StringId, HashOf
  <1>4. RankOf(dump, next + 1, next) = cinfo[c].count + 1
    BY RankIsCount
  <1>5. WithinLimit(cinfo[c].count + 1) <=> RankOf(dump, next + 1, next) < Cap
    <2>1. cinfo[c].count \in Nat /\ Cap \in Nat
      BY RankIsCount, SizesAssumption
    <2> QED BY <1>4, <2>1 DEF WithinLimit
  <1>6. Rec.class # Uninit
    <2>1. Rec.class \in Nat
      BY <1>1, Fields
    <2> QED BY <2>1 DEF Uninit
  <1>7. KeptNow <=> KeptAt(dump, next + 1, StringId, next)
    BY <1>1, <1>5, <1>6 DEF KeptNow, KeptAt, StringId
  <1>8. Holds(dump, next + 1, StringId, hTable')
    <2>1. CASE KeptNow
      <3> DEFINE o == makeObj("instance", Rec.id, Rec.class, 0)
      <3>1. hTable' = Put(hTable, dump[next].id, o) /\ o.instId = dump[next].id
        BY <1>1, <2>1 DEF EInst, makeObj
      <3> HIDE DEF o
      <3> QED BY <1>1, <1>7, <2>1, <3>1, HoldsAdd DEF ObjectsOK
    <2>2. CASE ~KeptNow
      <3>1. hTable' = hTable
        BY <2>2 DEF EInst
      <3> QED BY <1>1, <1>7, <2>2, <3>1, HoldsSkip DEF ObjectsOK
    <2> QED BY <2>1, <2>2
  <1>9. javaLangString = NULL => \A j \in Of(dump, next + 1, "inst") : RankOf(dump, next + 1, j) < Cap
    <2> SUFFICES ASSUME javaLangString = NULL
                 PROVE  \A j \in Of(dump, next + 1, "inst") : RankOf(dump, next + 1, j) < Cap
      OBVIOUS
    <2>1. KeptNow
      BY DEF EInst
    <2>2. RankOf(dump, next + 1, next) < Cap
      BY <1>5, <2>1 DEF KeptNow
    <2> QED BY <1>1, <2>2, RanksKept DEF ObjectsOK
  <1> QED BY <1>1, <1>3, <1>8, <1>9 DEF ObjectsOK

\* The String class is looked up: it is the one known already, if there was one.
LEMMA ObjectsHeap ==
    ASSUME TabInv, HashInv, ObjectsOK, EHeap, OneString
    PROVE  ObjectsOK'
  <1>1. /\ dump' = dump /\ next' = next + 1 /\ next \in Nat \ {0} /\ Rec = dump[next]
        /\ dump[next].tag = "heap" /\ javaLangString' = findClass(StringName)
        /\ UNCHANGED <<cinfo, rcTable, hTable>>
        /\ TabType /\ Findable
    BY DEF TabInv, TabType, EHeap, Advance, Rec
  <1> DEFINE h == Hash[StringName]
  <1>2. /\ findClass(StringName) # NULL <=> h \in DOMAIN rcTable
        /\ h \in DOMAIN rcTable => findClass(StringName) = rcTable[h]
        /\ findClass(StringName) \in CInfos \cup {NULL}
        /\ javaLangString \in CInfos \cup {NULL}
    BY <1>1, FindIs DEF TabType
  <1>3. javaLangString' # NULL => HashOf(javaLangString') = h /\ javaLangString' \in CInfos
    BY <1>1, <1>2 DEF HashInv
  <1>4. javaLangString # NULL => javaLangString' = javaLangString
    <2> SUFFICES ASSUME javaLangString # NULL PROVE javaLangString' = javaLangString
      OBVIOUS
    <2>1. HashOf(javaLangString) = h /\ javaLangString \in CInfos
      BY <1>2 DEF ObjectsOK
    <2>2. h \in DOMAIN rcTable
      BY <1>1, <2>1 DEF Findable
    <2>3. javaLangString' # NULL
      BY <1>1, <1>2, <2>2
    <2> QED BY <1>3, <2>1, <2>3 DEF OneString, HashOf
  <1>5. Holds(dump, next, StringId', hTable)
    <2>1. CASE javaLangString = NULL
      BY <1>1, <2>1, HoldsAnyString DEF ObjectsOK
    <2>2. CASE javaLangString # NULL
      <3>1. StringId' = StringId
        BY <1>1, <1>4, <2>2 DEF StringId
      <3> QED BY <3>1 DEF ObjectsOK
    <2> QED BY <2>1, <2>2
  <1>6. ~KeptAt(dump, next + 1, StringId', next)
    BY <1>1 DEF KeptAt
  <1>7. Holds(dump, next + 1, StringId', hTable)
    BY <1>1, <1>5, <1>6, HoldsSkip
  <1>8. javaLangString' = NULL => \A j \in Of(dump, next + 1, "inst") : RankOf(dump, next + 1, j) < Cap
    <2>1. javaLangString' = NULL => javaLangString = NULL
      BY <1>4
    <2> QED BY <1>1, <2>1, RanksKept DEF ObjectsOK
  <1>9. javaLangString' # NULL => HashOf(javaLangString)' = Hash[StringName]
    BY <1>1, <1>3 DEF HashOf
  <1> QED BY <1>1, <1>7, <1>8, <1>9 DEF ObjectsOK

LEMMA NextObjectsInv ==
    TabInv /\ HashInv /\ EntriesInv /\ ObjectsInv /\ [Next]_vars => ObjectsInv'
  <1> SUFFICES ASSUME TabInv, HashInv, EntriesInv, ObjectsInv, [Next]_vars,
                      pc' # "crash", FakesApart', OneString'
               PROVE  ObjectsOK'
    BY DEF ObjectsInv
  <1>1. Effect /\ TabType
    BY StepEffect DEF TabInv
  <1>2. pc # "crash"
    BY <1>1 DEF Effect, EStay, ECrash, ESkip, EUtf8, ELoad, EHeap, EClass, EInst,
                EFound, EMade, Advance
  <1>3. FakesApart /\ OneString /\ EntriesOK /\ ObjectsOK
    BY <1>1, <1>2, LackedBefore DEF EntriesInv, ObjectsInv
  <1>4. CASE EStay
    BY <1>3, <1>4 DEF EStay, ObjectsOK, StringId, HashOf
  <1>5. CASE ESkip \/ EUtf8 \/ ELoad \/ EClass
    <2>1. /\ UNCHANGED <<hTable, javaLangString>>
          /\ Advance({"utf8", "load", "frame", "other", "root", "class", "bad"})
      BY <1>5 DEF ESkip, EUtf8, ELoad, EClass, Advance
    <2> QED BY <1>1, <1>3, <2>1, ObjectsSkip
  <1>6. CASE EFound \/ EMade
    <2>1. PICK ht, id : hTable' = Put(hTable, Rec.id, makeObj(ht, Rec.id, id, Rec.n))
      BY <1>6 DEF EFound, EMade
    <2> DEFINE o == makeObj(ht, Rec.id, id, Rec.n)
    <2>2. o.instId = Rec.id
      BY DEF makeObj
    <2>3. Advance({"oarray", "parray"}) /\ javaLangString' = javaLangString
      BY <1>6 DEF EFound, EMade, Advance
    <2> HIDE DEF o
    <2>4. hTable' = Put(hTable, Rec.id, o)
      BY <2>1 DEF o
    <2> QED BY <1>1, <1>3, <2>2, <2>3, <2>4, ObjectsArray
  <1>7. CASE ECrash
    BY <1>7 DEF ECrash
  <1> QED
    BY <1>1, <1>3, <1>4, <1>5, <1>6, <1>7, ObjectsInst, ObjectsHeap DEF Effect

\* ObjectsKept, as the run states it.
LEMMA KeptFromObjects ==
    ASSUME TabInv, ObjectsInv
    PROVE  ObjectsKept
  <1> SUFFICES ASSUME pc # "crash", FakesApart, OneString PROVE ObjectsKept
    BY DEF ObjectsKept
  <1>1. ObjectsOK /\ dump \in Dumps /\ next \in 1..(Len(dump) + 1) /\ Len(dump) \in Nat
        /\ javaLangString \in CInfos \cup {NULL}
    BY FileIs DEF ObjectsInv, TabInv, TabType
  <1> DEFINE Kept(j) == \/ dump[j].tag \in {"oarray", "parray"}
                        \/ dump[j].tag = "inst" /\ Rank(j) < Cap
                        \/ /\ dump[j].tag = "inst" /\ javaLangString # NULL
                           /\ dump[j].class = cinfo[javaLangString].ident
             objs == {j \in Before({"inst", "oarray", "parray"}) : Kept(j)}
  <1>2. \A j : Rank(j) = RankOf(dump, next, j)
    <2>1. \A j : RankSet(dump, next, j) = {i \in Before({"inst"}) :
                          /\ LoadFor(dump[j].class, j) < i /\ i <= j
                          /\ SameKey(dump[i].class, dump[j].class)}
      <3>1. \A j : LoadFor(dump[j].class, j) = LastOf(LoadsOf(dump, next, dump[j].class, j))
        BY LoadForIs
      <3>2. Before({"inst"}) = Of(dump, next, "inst")
        BY DEF Before, Of
      <3> QED BY <3>1, <3>2 DEF RankSet
    <2> QED BY <2>1 DEF Rank, RankOf
  <1>3. ASSUME NEW j \in 1..(next - 1) PROVE Kept(j) <=> KeptAt(dump, next, StringId, j)
    <2>1. dump[j].tag = "inst" => dump[j].class # Uninit
      <3>1. j \in 1..Len(dump)
        BY <1>1
      <3>2. dump[j].tag = "inst" => dump[j].class \in Nat
        BY <1>1, <3>1, Fields
      <3> QED BY <3>2 DEF Uninit
    <2> QED BY <1>2, <2>1 DEF KeptAt, StringId
  <1>4. objs = Objs(dump, next, StringId)
    <2>1. \A j : Kept(j) => dump[j].tag \in {"inst", "oarray", "parray"}
      OBVIOUS
    <2> HIDE DEF Kept
    <2> QED BY <1>3, <2>1 DEF Objs, Before
  <1>5. /\ DOMAIN hTable = {Key(dump[j].id) : j \in objs}
        /\ \A j \in objs :
             (\A i \in objs : SameKey(dump[i].id, dump[j].id) => i <= j) =>
                hTable[Key(dump[j].id)].instId = dump[j].id
    BY <1>1, <1>4 DEF ObjectsOK, Holds
  <1> QED BY <1>5 DEF ObjectsKept

-----------------------------------------------------------------------------
(* Types.                                                                  *)

\* The scalars of readDump and readHeap.
ScalarInv ==
    /\ fclass \in Options
    /\ eof \in BOOLEAN /\ synced \in BOOLEAN
    /\ hsize \in 0..(Modulus - 1) /\ slack \in Nat
    /\ DOMAIN roots \subseteq 0..(KeyMod - 1)
    /\ pc \in {"header", "record", "heap", "exit", "crash", "lost", "torn"}
    /\ code \in 0..4

LEMMA NextScalarInv == AInv /\ TabType /\ ScalarInv /\ [Next]_vars => ScalarInv'
  <1> SUFFICES ASSUME AInv, TabType, ScalarInv, [Next]_vars PROVE ScalarInv'
    OBVIOUS
  <1>0. Modulus \in Nat \ {0} /\ 0 \in 0..(Modulus - 1) /\ hsize \in Int /\ IdSize \in Int
    BY SizesAssumption DEF AInv
  <1>1. CASE /\ UNCHANGED <<fclass, hsize, slack, roots>>
             /\ eof' \in BOOLEAN /\ synced' \in BOOLEAN
             /\ pc' \in {"header", "record", "heap", "exit", "crash", "lost", "torn"}
             /\ code' \in 0..4
    BY <1>1 DEF ScalarInv
  <1>2. CASE ReadHeader
    <2>1. code' \in 0..4
      BY <1>2 DEF ReadHeader, ScalarInv
    <2>2. pc' \in {"record", "exit"} /\ UNCHANGED <<fclass, hsize, slack, roots, eof, synced>>
      BY <1>2 DEF ReadHeader, env, cursor, tables
    <2> QED BY <2>1, <2>2 DEF ScalarInv
  <1>3. CASE ReadUtf8 \/ ReadLoadClass \/ ReadOther
    <2>1. pc' \in {pc, "crash"} /\ UNCHANGED <<fclass, hsize, slack, roots, eof, synced, code>>
      BY <1>3 DEF ReadUtf8, ReadLoadClass, ReadOther, Crash, env, cursor, tables
    <2> QED BY <2>1 DEF ScalarInv
  <1>4. CASE BeginHeap
    <2>1. Rec.rlen \in Nat
      BY <1>4, RecType DEF BeginHeap, AtRecord
    <2>2. /\ hsize' = Rec.rlen % Modulus /\ slack' = 0 /\ pc' = "heap"
          /\ UNCHANGED <<fclass, roots, eof, synced, code>>
      BY <1>4 DEF BeginHeap, env, tables
    <2>3. hsize' \in 0..(Modulus - 1)
      <3>1. PICK a \in Int : a = Rec.rlen
        BY <2>1
      <3>2. a % Modulus \in 0..(Modulus - 1)
        BY <1>0, ModDef
      <3> QED BY <2>2, <3>1, <3>2
    <2> QED BY <2>2, <2>3 DEF ScalarInv
  <1>5. CASE Exit \/ Lost \/ Terminated \/ UNCHANGED vars
    <2>1. /\ pc' \in {pc, "exit", "lost"} /\ UNCHANGED <<fclass, hsize, slack, roots, eof, synced, code>>
      BY <1>5 DEF Exit, Lost, Terminated, vars, env, cursor, tables
    <2> QED BY <2>1 DEF ScalarInv
  <1>6. CASE HeapDone
    <2>1. pc' \in {"record", "crash"} /\ UNCHANGED <<fclass, hsize, slack, roots, eof, code>>
      BY <1>6 DEF HeapDone, env, tables
    <2>2. synced' \in BOOLEAN
      BY <1>6 DEF HeapDone
    <2> QED BY <2>1, <2>2 DEF ScalarInv
  <1>7. CASE Truncated
    <2>1. pc' \in {pc, "exit", "torn"} /\ UNCHANGED <<fclass, hsize, slack, roots, synced>>
      BY <1>7 DEF Truncated, env, tables
    <2>2. (eof' = TRUE \/ eof' = eof) /\ (code' = 2 \/ code' = code)
      BY <1>7 DEF Truncated
    <2>3. eof' \in BOOLEAN
      BY <2>2, Zenon DEF ScalarInv
    <2>4. code' \in 0..4
      BY <2>2 DEF ScalarInv
    <2> QED BY <2>1, <2>3, <2>4 DEF ScalarInv
  <1>8. CASE SubBad
    <2>1. /\ hsize' = 0 /\ UNCHANGED <<fclass, slack, roots, eof, synced, pc, code>>
      BY <1>8 DEF SubBad, env, tables
    <2> QED BY <1>0, <2>1 DEF ScalarInv
  <1>9. CASE EofRoot
    <2>1. /\ hsize' = (hsize - (1 + IdSize)) % Modulus /\ eof' = TRUE
          /\ UNCHANGED <<fclass, slack, roots, synced, pc, code>>
      BY <1>9 DEF EofRoot, env, tables
    <2>2. hsize - (1 + IdSize) \in Int
      BY <1>0
    <2>3. hsize' \in 0..(Modulus - 1)
      BY <1>0, <2>1, <2>2, ModDef
    <2> QED BY <2>1, <2>3 DEF ScalarInv
  <1>10. CASE SubRoot \/ SubClass \/ SubInstance \/ SubObjArray \/ SubPrimArray
    <2>1. /\ ~AtEnd /\ Rec.tag \in SubTags \ {"bad"} /\ Consume
          /\ slack' = slack + Miscount(Rec)
      BY <1>10, HandlerSlack DEF SubRoot, SubClass, SubInstance, SubObjArray, SubPrimArray, AtSub, SubTags
    <2>2. pc' \in {pc, "heap", "crash", "lost"}
      BY <1>10 DEF SubRoot, SubClass, SubInstance, SubObjArray, SubPrimArray, ObjArrayOf,
                   StoreArray, Crash, Onward
    <2>3. BytesCharged(Rec) \in Int /\ Miscount(Rec) \in Nat
      BY <2>1, RecType, ChargedIsRead
    <2>4. /\ hsize' = (hsize - BytesCharged(Rec)) % Modulus
          /\ UNCHANGED <<fclass, eof, synced, code>>
      BY <2>1 DEF Consume, env
    <2>5. hsize' \in 0..(Modulus - 1)
      <3>1. hsize - BytesCharged(Rec) \in Int
        BY <1>0, <2>3
      <3> QED BY <1>0, <2>4, <3>1, ModDef
    <2>6. slack' \in Nat
      BY <2>1, <2>3 DEF ScalarInv
    <2>7. roots' = roots \/ (SubRoot /\ roots' = Put(roots, Rec.id, Rec.kind))
      BY <1>10 DEF SubRoot, SubClass, SubInstance, SubObjArray, SubPrimArray, ObjArrayOf,
                   StoreArray, Crash, tables
    <2>8. DOMAIN roots' \subseteq 0..(KeyMod - 1)
      <3>1. ASSUME SubRoot PROVE Rec.id \in Nat
        <4>1. Rec.tag = "root" /\ ~AtEnd /\ dump \in Dumps
          BY <3>1 DEF SubRoot, AtSub, TabType
        <4> QED BY <4>1, AdvanceIs, Fields DEF Rec
      <3> QED BY <2>7, <3>1, PutKeys DEF ScalarInv
    <2> QED BY <2>2, <2>4, <2>5, <2>6, <2>8 DEF ScalarInv
  <1> QED
    BY <1>2, <1>3, <1>4, <1>5, <1>6, <1>7, <1>8, <1>9, <1>10 DEF Next

LEMMA TypeFromTables ==
    ASSUME AInv, TabInv, ScalarInv
    PROVE  TypeOK
  <1>1. TabType
    BY DEF TabInv
  <1>2. \A c \in CInfos : cinfo[c] \in [ident : Nat, name : NameOf, count : Nat,
                                        superId : Nat \cup {Uninit}]
    BY <1>1, ClassIs DEF TabType, CIRecord
  <1> QED BY <1>1, <1>2 DEF AInv, TabType, ScalarInv, TypeOK

\* The inductive invariant of the tables.
TInv == AInv /\ ScalarInv /\ TabInv /\ HashInv /\ EntriesInv /\ ObjectsInv

LEMMA NextTInv == TInv /\ [Next]_vars => TInv'
  BY NextAInv, NextScalarInv, NextTabInv, NextHashInv, NextEntriesInv, NextObjectsInv DEF TInv, TabInv

LEMMA InitTInv == Init => TInv
  <1> SUFFICES ASSUME Init PROVE TInv
    OBVIOUS
  <1>1. DOMAIN EmptyTable = {}
    BY DEF EmptyTable
  <1>2. AInv
    BY DEF Init, AInv, Accounting
  <1>3. ScalarInv
    <2>1. 0 \in 0..(Modulus - 1) /\ roots = EmptyTable /\ hsize = 0 /\ slack = 0 /\ code = 0
      BY SizesAssumption DEF Init
    <2>2. eof \in BOOLEAN /\ synced \in BOOLEAN /\ fclass \in Options /\ pc = "header"
      BY DEF Init
    <2> QED BY <1>1, <2>1, <2>2 DEF ScalarInv
  <1>4. HashInv
    BY <1>1 DEF Init, HashInv
  <1>5. next = 1 /\ \A tag : Of(dump, next, tag) = {}
    BY DEF Init, Of
  <1>6. EntriesInv
    BY <1>1, <1>5 DEF Init, EntriesInv, EntriesOK
  <1>7. Objs(dump, next, StringId) = {}
    BY <1>5 DEF Objs
  <1>8. Holds(dump, next, StringId, hTable)
    BY <1>1, <1>7 DEF Init, Holds
  <1>9. ObjectsInv
    BY <1>5, <1>8 DEF Init, ObjectsInv, ObjectsOK
  <1> QED BY <1>2, <1>3, <1>4, <1>6, <1>9, InitTabInv DEF TInv

\* For every file, of every length and with every order of its records, and every
\* limit on instances: the tables of readHeap keep their types and their 32-bit
\* keys, a loaded class counts the instances dumped since it was loaded, and the
\* object table holds for every key the last object the limit lets through.
THEOREM TablesAreExact == Spec => []TablesExact
  <1>1. TInv => TablesExact
    BY TypeFromTables, CountsFromEntries, KeptFromObjects DEF TInv, TablesExact
  <1> QED BY <1>1, InitTInv, NextTInv, PTL DEF Spec

-----------------------------------------------------------------------------
(* Where classes and the classes of objects come from.                     *)

\* A number that stands for a class loaded, or for one made up.
LoadedId(x) == \E i \in Of(dump, next, "load") : dump[i].id = x
MadeUpId(x) == x \in FirstFake..(fakeClass - 1)

\* A class has the identifier it was loaded with; made-up classes are those of
\* primitive arrays.
OwnNumbers ==
    \A c \in CInfos : \/ LoadedId(cinfo[c].ident)
                      \/ MadeUpId(cinfo[c].ident) /\ cinfo[c].name \in PrimNames

\* An object has a number of such a class.
OriginInv ==
    pc # "crash" /\ KeysApart /\ FakesApart =>
       \A k \in DOMAIN hTable : LoadedId(hTable[k].classId) \/ MadeUpId(hTable[k].classId)

\* A number goes on standing for a class.
LEMMA NumbersKept ==
    ASSUME TabType, Effect, NEW x
    PROVE  /\ LoadedId(x) => LoadedId(x)'
           /\ MadeUpId(x) => MadeUpId(x)'
  <1>1. /\ fakeClass <= fakeClass' /\ fakeClass' \in Nat /\ dump' = dump
        /\ Of(dump, next, "load") \subseteq Of(dump', next', "load")
    BY Growing
  <1>2. FirstFake \in Nat /\ fakeClass \in Nat
    BY SizesAssumption DEF TabType
  <1> QED BY <1>1, <1>2 DEF LoadedId, MadeUpId

LEMMA NextOwnNumbers == TabInv /\ OwnNumbers /\ [Next]_vars => OwnNumbers'
  <1> SUFFICES ASSUME TabInv, OwnNumbers, [Next]_vars PROVE OwnNumbers'
    OBVIOUS
  <1>1. Effect /\ TabType
    BY StepEffect DEF TabInv
  <1>2. ASSUME NEW c \in CInfos
        PROVE  LoadedId(cinfo[c].ident)' \/ (MadeUpId(cinfo[c].ident)' /\ cinfo'[c].name \in PrimNames)
    <2>1. cinfo'[c].ident = cinfo[c].ident /\ cinfo'[c].name = cinfo[c].name
      BY <1>1, Growing
    <2>2. PICK x : x = cinfo[c].ident
      OBVIOUS
    <2>3. LoadedId(x) \/ (MadeUpId(x) /\ cinfo[c].name \in PrimNames)
      BY <2>2 DEF OwnNumbers
    <2>4. LoadedId(x)' \/ (MadeUpId(x)' /\ cinfo[c].name \in PrimNames)
      BY <1>1, <2>3, NumbersKept
    <2> QED BY <2>1, <2>2, <2>4 DEF LoadedId, MadeUpId
  <1>3. CASE CInfos' = CInfos
    BY <1>2, <1>3 DEF OwnNumbers
  <1>4. CASE EStay \/ ECrash \/ ESkip \/ EUtf8 \/ EHeap \/ EFound
    BY <1>3, <1>4 DEF EStay, ECrash, ESkip, EUtf8, EHeap, EFound, CInfos
  <1>5. CASE EClass
    BY <1>1, <1>3, <1>5, DumpClass
  <1>6. CASE EInst
    BY <1>1, <1>3, <1>6, InstClass
  <1>7. CASE ELoad
    <2>0. PICK c : c = Len(cinfo) + 1
      OBVIOUS
    <2>1. CInfos' = CInfos \cup {c} /\ cinfo'[c].ident = Rec.id
      BY <1>1, <1>7, <2>0, LoadClass DEF mkcinfo
    <2>2. /\ dump' = dump /\ next' = next + 1 /\ next \in Nat \ {0}
          /\ dump[next].tag = "load" /\ Rec = dump[next]
      BY <1>7 DEF ELoad, Advance, Rec
    <2>3. next \in Of(dump', next', "load")
      BY <2>2 DEF Of
    <2>4. LoadedId(cinfo[c].ident)'
      BY <2>1, <2>2, <2>3 DEF LoadedId
    <2> QED BY <1>2, <2>1, <2>4 DEF OwnNumbers
  <1>8. CASE EMade
    <2>0. PICK c : c = Len(cinfo) + 1
      OBVIOUS
    <2>1. /\ CInfos' = CInfos \cup {c} /\ cinfo'[c].ident = fakeClass
          /\ cinfo'[c].name \in PrimNames
      BY <1>1, <1>8, <2>0, MadeClass DEF mkcinfo
    <2>2. fakeClass' = fakeClass + 1 /\ fakeClass \in Nat /\ FirstFake \in Nat /\ FirstFake <= fakeClass
      BY <1>1, <1>8, SizesAssumption DEF EMade, TabType
    <2>3. fakeClass \in FirstFake..(fakeClass' - 1)
      BY <2>2
    <2>4. MadeUpId(cinfo[c].ident)'
      BY <2>1, <2>3 DEF MadeUpId
    <2> QED BY <1>2, <2>1, <2>4 DEF OwnNumbers
  <1> QED BY <1>1, <1>4, <1>5, <1>6, <1>7, <1>8 DEF Effect

\* Without clashes of keys, an entry for a class of the file is a loaded class's.
LEMMA EntryOfFile ==
    ASSUME TabType, EntriesOK, NEW ids, NEW x \in ids, ids \subseteq Nat,
           \A i \in Of(dump, next, "load") : dump[i].id \in ids,
           \A y, z \in ids : SameKey(y, z) => y = z,
           \A y \in ids, f \in FirstFake..fakeClass : ~SameKey(y, f),
           Key(x) \in DOMAIN cTable
    PROVE  cinfo[cTable[Key(x)]].ident = x /\ LoadedId(x)
  <1>1. FirstFake \in Nat /\ fakeClass \in Nat
    BY SizesAssumption DEF TabType
  <1>2. ~MadeUpAt(Key(x))
    <2> SUFFICES ASSUME MadeUpAt(Key(x)) PROVE FALSE
      OBVIOUS
    <2>1. PICK f \in FirstFake..(fakeClass - 1) : Key(x) = Key(f + 1)
      BY DEF MadeUpAt
    <2>2. f + 1 \in FirstFake..fakeClass
      BY <1>1
    <2> QED BY <2>1, <2>2 DEF SameKey
  <1>3. PICK i \in Of(dump, next, "load") :
           Key(x) = Key(dump[i].id) /\ cinfo[cTable[Key(x)]].ident = dump[i].id
    BY <1>2 DEF EntriesOK, LoadedAt
  <1>4. dump[i].id = x
    BY <1>3 DEF SameKey
  <1> QED BY <1>3, <1>4 DEF LoadedId

\* Identifiers of classes are those of loads and of the classes of instances.
LEMMA ClassIdsAre ==
    ASSUME TabType
    PROVE  /\ \A i \in Of(dump, next, "load") : dump[i].id \in ClassIds
           /\ \A i \in Of(dump, next, "inst") : dump[i].class \in ClassIds
           /\ ClassIds \subseteq Nat
  <1>1. \A i \in Before({"load"}) : dump[i].id \in Nat
    <2>1. dump \in Dumps /\ \A i \in Before({"load"}) : i \in 1..Len(dump) /\ dump[i].tag = "load"
      BY FileIs DEF Before
    <2> QED BY <2>1, Fields
  <1>2. \A i \in Before({"inst"}) : dump[i].class \in Nat
    <2>1. dump \in Dumps /\ \A i \in Before({"inst"}) : i \in 1..Len(dump) /\ dump[i].tag = "inst"
      BY FileIs DEF Before
    <2> QED BY <2>1, Fields
  <1> QED BY <1>1, <1>2 DEF ClassIds, Before, Of

LEMMA NextOriginInv ==
    TabInv /\ EntriesInv /\ OwnNumbers /\ OriginInv /\ [Next]_vars => OriginInv'
  <1> SUFFICES ASSUME TabInv, EntriesInv, OwnNumbers, OriginInv, [Next]_vars,
                      pc' # "crash", KeysApart', FakesApart',
                      NEW k \in DOMAIN hTable'
               PROVE  LoadedId(hTable[k].classId)' \/ MadeUpId(hTable[k].classId)'
    BY DEF OriginInv
  <1>0. TabInv'
    BY NextTabInv
  <1>1. Effect /\ TabType /\ TabType'
    BY <1>0, StepEffect DEF TabInv
  <1>2. pc # "crash"
    BY <1>1 DEF Effect, EStay, ECrash, ESkip, EUtf8, ELoad, EHeap, EClass, EInst,
                EFound, EMade, Advance
  <1>3. FakesApart /\ KeysApart /\ EntriesOK
    BY <1>1, <1>2, LackedBefore DEF EntriesInv
  <1>4. ASSUME NEW x, LoadedId(x) \/ MadeUpId(x), hTable'[k].classId = x
        PROVE  LoadedId(hTable[k].classId)' \/ MadeUpId(hTable[k].classId)'
    <2>1. LoadedId(x)' \/ MadeUpId(x)'
      BY <1>1, <1>4, NumbersKept
    <2> QED BY <1>4, <2>1 DEF LoadedId, MadeUpId
  <1>5. CASE k \in DOMAIN hTable /\ hTable'[k] = hTable[k]
    BY <1>2, <1>3, <1>4, <1>5 DEF OriginInv
  <1>6. ASSUME NEW id, NEW ht, NEW iid, NEW cid, NEW n, hTable' = Put(hTable, id, makeObj(ht, iid, cid, n)),
               LoadedId(cid)' \/ MadeUpId(cid)'
        PROVE  LoadedId(hTable[k].classId)' \/ MadeUpId(hTable[k].classId)'
    <2> DEFINE o == makeObj(ht, iid, cid, n)
    <2>1. o.classId = cid
      BY DEF makeObj
    <2> HIDE DEF o
    <2>2. Entered(hTable', hTable, id, o)
      BY <1>6, PutIs DEF o
    <2>3. \/ k \in DOMAIN hTable /\ hTable'[k] = hTable[k]
          \/ hTable'[k] = o
      BY <2>2 DEF Entered
    <2>4. ASSUME hTable'[k] = o
          PROVE  LoadedId(hTable[k].classId)' \/ MadeUpId(hTable[k].classId)'
      BY <1>6, <2>1, <2>4 DEF LoadedId, MadeUpId
    <2> QED BY <1>5, <2>3, <2>4
  <1>7. CASE EStay \/ ECrash \/ ESkip \/ EUtf8 \/ ELoad \/ EHeap \/ EClass
    BY <1>5, <1>7 DEF EStay, ECrash, ESkip, EUtf8, ELoad, EHeap, EClass
  <1>8. CASE EFound
    <2>1. PICK c \in CInfos : \E ht : hTable' = Put(hTable, Rec.id, makeObj(ht, Rec.id, cinfo[c].ident, Rec.n))
      BY <1>8 DEF EFound
    <2>2. PICK x : x = cinfo[c].ident
      OBVIOUS
    <2>3. LoadedId(x) \/ MadeUpId(x)
      BY <2>2 DEF OwnNumbers
    <2>4. LoadedId(x)' \/ MadeUpId(x)'
      BY <1>1, <2>3, NumbersKept
    <2> QED BY <1>6, <2>1, <2>2, <2>4
  <1>9. CASE EMade
    <2>1. PICK ht : hTable' = Put(hTable, Rec.id, makeObj(ht, Rec.id, fakeClass, Rec.n))
      BY <1>9 DEF EMade
    <2>2. fakeClass' = fakeClass + 1 /\ fakeClass \in Nat /\ FirstFake \in Nat /\ FirstFake <= fakeClass
      BY <1>1, <1>9, SizesAssumption DEF EMade, TabType
    <2>3. PICK x : x = fakeClass
      OBVIOUS
    <2>4. MadeUpId(x)'
      BY <2>2, <2>3 DEF MadeUpId
    <2> QED BY <1>6, <2>1, <2>3, <2>4
  <1>10. CASE EInst
    <2>1. /\ dump' = dump /\ next' = next + 1 /\ next \in Nat \ {0}
          /\ dump[next].tag = "inst" /\ Rec = dump[next] /\ fakeClass' = fakeClass
          /\ Key(Rec.class) \in DOMAIN cTable
      BY <1>10 DEF EInst, Advance, Rec, Has
    <2>2. PICK ids : ids = ClassIds'
      OBVIOUS
    <2>3. Of(dump', next', "load") = Of(dump, next, "load") /\ next \in Of(dump', next', "inst")
      BY <2>1, OfNext DEF Of
    <2>4. /\ \A i \in Of(dump', next', "load") : dump'[i].id \in ids
          /\ \A i \in Of(dump', next', "inst") : dump'[i].class \in ids
          /\ ids \subseteq Nat
      <3>1. (/\ \A i \in Of(dump, next, "load") : dump[i].id \in ClassIds
             /\ \A i \in Of(dump, next, "inst") : dump[i].class \in ClassIds
             /\ ClassIds \subseteq Nat)'
        BY <1>1, ClassIdsAre, PTL
      <3> QED BY <2>2, <3>1
    <2>5. /\ \A y, z \in ids : SameKey(y, z) => y = z
          /\ \A y \in ids, f \in FirstFake..fakeClass : ~SameKey(y, f)
      BY <2>1, <2>2 DEF KeysApart, FakesApart
    <2>6. Rec.class \in ids
      BY <2>1, <2>3, <2>4
    <2>7. LoadedId(Rec.class)
      BY <1>1, <1>3, <2>1, <2>3, <2>4, <2>5, <2>6, EntryOfFile
    <2>8. PICK x : x = Rec.class
      OBVIOUS
    <2>9. LoadedId(x)'
      BY <1>1, <2>7, <2>8, NumbersKept
    <2>10. hTable' = hTable \/ hTable' = Put(hTable, Rec.id, makeObj("instance", Rec.id, x, 0))
      BY <1>10, <2>8 DEF EInst
    <2> QED BY <1>5, <1>6, <2>9, <2>10
  <1> QED BY <1>1, <1>7, <1>8, <1>9, <1>10 DEF Effect

\* Names and identifiers find what they should.
LEMMA FoundFromTables ==
    ASSUME TabInv, EntriesInv, OwnNumbers, OriginInv
    PROVE  ClassesFound
  <1>1. TabType /\ Findable /\ next \in Nat
    BY DEF TabInv, TabType
  <1>2. ASSUME NEW k \in DOMAIN cTable PROVE findClass(cinfo[cTable[k]].name) # NULL
    <2>1. cTable[k] \in CInfos
      BY <1>1 DEF TabType
    <2> QED BY <1>1, <2>1, FindIs DEF Findable, HashOf
  <1>3. ASSUME NEW x
        PROVE  LoadFor(x, next) # 0 <=> \E i \in Of(dump, next, "load") : SameKey(dump[i].id, x)
    BY <1>1, LoadForLast, LoadForIs
  <1>4. ASSUME NEW c \in CInfos
        PROVE  cinfo[c].name \in {PrimName[t] : t \in PrimType} \/ LoadFor(cinfo[c].ident, next) # 0
    <2>1. CASE LoadedId(cinfo[c].ident)
      BY <1>3, <2>1 DEF LoadedId, SameKey
    <2> QED BY <2>1 DEF OwnNumbers, PrimNames
  <1>5. ASSUME pc = "heap", KeysApart, FakesApart, NEW k \in DOMAIN hTable, NEW x, x = hTable[k].classId
        PROVE  LoadFor(x, next) # 0 => Has(cTable, x) /\ cinfo[At(cTable, x)].ident = x
    <2>0. EntriesOK
      BY <1>5 DEF EntriesInv
    <2>1. CASE LoadedId(x)
      <3>2. x \in ClassIds /\ Key(x) \in DOMAIN cTable
        BY <1>1, <2>0, <2>1, ClassIdsAre DEF LoadedId, EntriesOK
      <3>3. /\ \A i \in Of(dump, next, "load") : dump[i].id \in ClassIds
            /\ ClassIds \subseteq Nat
        BY <1>1, ClassIdsAre
      <3>4. cinfo[cTable[Key(x)]].ident = x
        BY <1>1, <1>5, <2>0, <3>2, <3>3, EntryOfFile DEF KeysApart, FakesApart
      <3> QED BY <3>2, <3>4 DEF Has, At
    <2>2. CASE MadeUpId(x)
      <3>0. fakeClass \in Nat /\ FirstFake \in Nat
        BY <1>1, SizesAssumption DEF TabType
      <3>1. x \in FirstFake..fakeClass /\ x \in Nat
        BY <2>2, <3>0 DEF MadeUpId
      <3>2. \A i \in Of(dump, next, "load") : ~SameKey(dump[i].id, x)
        BY <1>1, <1>5, <3>1, ClassIdsAre DEF FakesApart
      <3>3. LoadFor(x, next) = 0
        BY <1>3, <3>2
      <3> QED BY <3>3
    <2>3. LoadedId(x) \/ MadeUpId(x)
      BY <1>5 DEF OriginInv
    <2> QED BY <2>1, <2>2, <2>3
  <1> QED BY <1>2, <1>4, <1>5 DEF ClassesFound, ClassesFoundByName, ClassByIdentIfLoaded

CInv == TabInv /\ EntriesInv /\ OwnNumbers /\ OriginInv

LEMMA InitCInv == Init => CInv
  <1> SUFFICES ASSUME Init PROVE CInv
    OBVIOUS
  <1>1. TabInv /\ EntriesInv
    BY InitTInv DEF TInv
  <1>2. CInfos = {}
    BY DEF Init, CInfos
  <1>3. DOMAIN hTable = {}
    BY DEF Init, EmptyTable
  <1> QED BY <1>1, <1>2, <1>3 DEF CInv, OwnNumbers, OriginInv

\* For every file: every class in cTable is found again under its name, so that
\* only classes of primitive arrays are made up; and, where no two classes share a
\* key, the class of an object is found under its identifier if the file loaded it.
THEOREM ClassesAreFound == Spec => []ClassesFound
  <1>1. CInv => ClassesFound
    BY FoundFromTables DEF CInv
  <1>2. CInv /\ [Next]_vars => CInv'
    BY NextTabInv, NextEntriesInv, NextOwnNumbers, NextOriginInv DEF CInv
  <1> QED BY <1>1, <1>2, InitCInv, PTL DEF Spec

-----------------------------------------------------------------------------
(* Files in the order the virtual machine writes them.                     *)

\* Load i is given a name by the strings before it; a class of that name is
\* loaded before record n.
Named(d, i, name) ==
    \E u \in Of(d, i, "utf8") :
       /\ d[u].name = name /\ SameKey(d[u].id, d[i].nameId)
       /\ \A v \in Of(d, i, "utf8") : SameKey(d[v].id, d[i].nameId) => v <= u
NameLoaded(d, n, name) == \E i \in Of(d, n, "load") : Named(d, i, name)

\* Record j finds before it what its handler looks up.
RecOK(d, j) ==
    /\ d[j].tag = "load" => \E u \in Of(d, j, "utf8") : SameKey(d[u].id, d[j].nameId)
    /\ d[j].tag = "frame" => \E i \in Of(d, j, "load") : SameKey(d[i].serial, d[j].serial)
    /\ d[j].tag \in {"inst", "oarray"} => \E i \in Of(d, j, "load") : SameKey(d[i].id, d[j].class)
    /\ d[j].tag = "class" => \E i \in Of(d, j, "load") : SameKey(d[i].id, d[j].id)
    /\ d[j].tag = "inst" => \E h \in Of(d, j, "heap") : NameLoaded(d, h, StringName)
    /\ d[j].tag = "parray" => d[j].type \in PrimType /\ NameLoaded(d, j, PrimName[d[j].type])

Ordered(d, n) == \A j \in 1..(n - 1) : RecOK(d, j)

\* What a well ordered file has in addition: class dumps for all, superclasses
\* loaded before.
WellAt(d, n) ==
    /\ Ordered(d, n)
    /\ \A i \in Of(d, n, "load") : \E m \in Of(d, n, "class") : i < m /\ d[m].id = d[i].id
    /\ \A m \in Of(d, n, "class") : d[m].super # 0 =>
          \E l, i : /\ LastLoad(d, n, l) /\ SameKey(d[l].id, d[m].super)
                    /\ LastLoad(d, n, i) /\ SameKey(d[i].id, d[m].id)
                    /\ l < i

\* Being in order is a property of every beginning of a file.
LEMMA OrderedNext ==
    ASSUME NEW d, NEW n \in Nat \ {0}, Ordered(d, n + 1)
    PROVE  Ordered(d, n) /\ RecOK(d, n)
  <1>1. n \in 1..((n + 1) - 1) /\ \A j \in 1..(n - 1) : j \in 1..((n + 1) - 1)
    OBVIOUS
  <1> QED BY <1>1 DEF Ordered

LEMMA WellIsOrdered ==
    ASSUME TabType, WellOrdered
    PROVE  Ordered(dump, next)
  <1>1. next \in Nat \ {0} /\ \A j \in 1..(next - 1) : j \in Nat /\ j < next
    BY DEF TabType
  <1> SUFFICES ASSUME NEW j \in 1..(next - 1) PROVE RecOK(dump, j)
    BY DEF Ordered
  <1>2. \A tag : \A i \in Before({tag}) : i < j => i \in Of(dump, j, tag)
    BY <1>1 DEF Before, Of
  <1>3. ASSUME NEW id, LoadFor(id, j) # 0
        PROVE  \E i \in Of(dump, j, "load") : SameKey(dump[i].id, id)
    <2>1. LoadsOf(dump, next, id, j) \subseteq 1..(next - 1)
      BY DEF LoadsOf, Of
    <2>2. LoadsOf(dump, next, id, j) # {}
      BY <1>1, <1>3, <2>1, LoadForIs, LastOfIs
    <2>3. PICK i \in LoadsOf(dump, next, id, j) : TRUE
      BY <2>2
    <2> QED BY <1>1, <2>3 DEF LoadsOf, Of
  <1>4. ASSUME NEW n \in 1..(next - 1), NEW name, Loaded(name, n) PROVE NameLoaded(dump, n, name)
    <2>1. PICK i \in Before({"load"}), u \in Before({"utf8"}) :
             /\ u < i /\ i < n /\ dump[u].name = name /\ SameKey(dump[u].id, dump[i].nameId)
             /\ \A v \in Before({"utf8"}) : u < v /\ v < i => ~SameKey(dump[v].id, dump[u].id)
      BY <1>4 DEF Loaded
    <2>2. i \in Of(dump, n, "load") /\ u \in Of(dump, i, "utf8")
      BY <1>1, <2>1 DEF Before, Of
    <2>3. ASSUME NEW v \in Of(dump, i, "utf8"), SameKey(dump[v].id, dump[i].nameId) PROVE v <= u
      <3>1. v \in Before({"utf8"}) /\ v < i /\ v \in Nat /\ u \in Nat
        BY <1>1, <2>1 DEF Before, Of
      <3>2. SameKey(dump[v].id, dump[u].id)
        BY <2>1, <2>3 DEF SameKey
      <3> QED BY <2>1, <3>1, <3>2
    <2>4. Named(dump, i, name)
      BY <2>1, <2>2, <2>3 DEF Named
    <2> QED BY <2>2, <2>4 DEF NameLoaded
  <1>5. dump[j].tag = "load" => \E u \in Of(dump, j, "utf8") : SameKey(dump[u].id, dump[j].nameId)
    BY <1>2 DEF WellOrdered
  <1>6. dump[j].tag = "frame" => \E i \in Of(dump, j, "load") : SameKey(dump[i].serial, dump[j].serial)
    BY <1>2 DEF WellOrdered
  <1>7. dump[j].tag \in {"inst", "oarray"} => \E i \in Of(dump, j, "load") : SameKey(dump[i].id, dump[j].class)
    BY <1>3 DEF WellOrdered
  <1>8. dump[j].tag = "class" => \E i \in Of(dump, j, "load") : SameKey(dump[i].id, dump[j].id)
    BY <1>3 DEF WellOrdered
  <1>9. dump[j].tag = "inst" => \E h \in Of(dump, j, "heap") : NameLoaded(dump, h, StringName)
    <2> SUFFICES ASSUME dump[j].tag = "inst"
                 PROVE  \E h \in Of(dump, j, "heap") : NameLoaded(dump, h, StringName)
      OBVIOUS
    <2>1. PICK h \in Before({"heap"}) : h < j /\ Loaded(StringName, h)
      BY DEF WellOrdered
    <2>2. h \in 1..(next - 1)
      BY DEF Before
    <2> QED BY <1>2, <1>4, <2>1, <2>2
  <1>10. dump[j].tag = "parray" => dump[j].type \in PrimType /\ NameLoaded(dump, j, PrimName[dump[j].type])
    BY <1>4 DEF WellOrdered
  <1> QED BY <1>5, <1>6, <1>7, <1>8, <1>9, <1>10 DEF RecOK

LEMMA WellIsWell ==
    ASSUME TabType, WellOrdered
    PROVE  WellAt(dump, next)
  <1>1. next \in Nat \ {0}
    BY DEF TabType
  <1>2. ASSUME NEW i \in Of(dump, next, "load")
        PROVE  \E m \in Of(dump, next, "class") : i < m /\ dump[m].id = dump[i].id
    <2>1. i \in 1..(next - 1) /\ dump[i].tag = "load"
      BY DEF Of
    <2>2. PICK m \in Before({"class"}) : m > i /\ dump[m].id = dump[i].id
      BY <2>1 DEF WellOrdered
    <2>3. m \in Of(dump, next, "class") /\ m \in Nat /\ i \in Nat
      BY <2>1 DEF Before, Of
    <2> QED BY <2>2, <2>3
  <1>3. ASSUME NEW m \in Of(dump, next, "class"), dump[m].super # 0
        PROVE  \E l, i : /\ LastLoad(dump, next, l) /\ SameKey(dump[l].id, dump[m].super)
                         /\ LastLoad(dump, next, i) /\ SameKey(dump[i].id, dump[m].id)
                         /\ l < i
    <2>1. m \in 1..(next - 1) /\ dump[m].tag = "class"
      BY DEF Of
    <2> DEFINE l == LoadFor(dump[m].super, next)
               i == LoadFor(dump[m].id, next)
    <2>2. l \in 1..(i - 1)
      BY <1>3, <2>1 DEF WellOrdered
    <2>3. \A x : LoadFor(x, next) # 0 =>
                   LastLoad(dump, next, LoadFor(x, next)) /\ SameKey(dump[LoadFor(x, next)].id, x)
      BY <1>1, LoadForIs, LoadForLast
    <2>4. i \in Nat
      <3>1. LoadsOf(dump, next, dump[m].id, next) \subseteq 1..(next - 1)
        BY DEF LoadsOf, Of
      <3> QED BY <1>1, <3>1, LoadForIs, LastOfIs
    <2> HIDE DEF l, i
    <2>5. l # 0 /\ i # 0 /\ l < i
      BY <2>2, <2>4
    <2> QED BY <2>3, <2>5 DEF l, i
  <1> QED BY <1>2, <1>3, WellIsOrdered DEF WellAt

\* In such a file no class is made up, and what a record needs is in the tables.
OrderOK ==
    /\ fakeClass = FirstFake
    /\ \A u \in Of(dump, next, "utf8") :
          /\ Key(dump[u].id) \in DOMAIN sbTable
          /\ (\A v \in Of(dump, next, "utf8") : SameKey(dump[v].id, dump[u].id) => v <= u) =>
                sbTable[Key(dump[u].id)] = dump[u].name
    /\ \A i \in Of(dump, next, "load") : Key(dump[i].serial) \in DOMAIN scTable
    /\ \A i \in Of(dump, next, "load") : \A name \in NameOf :
          Named(dump, i, name) => Hash[name] \in DOMAIN rcTable
    /\ \A h \in Of(dump, next, "heap") : NameLoaded(dump, h, StringName) => javaLangString # NULL

\* A record that enters nothing by name or serial number.
LEMMA OrderSkip ==
    ASSUME TabType, OrderOK, Advance({"frame", "other", "root", "bad", "class", "inst", "oarray", "parray"}),
           UNCHANGED <<sbTable, scTable, rcTable, javaLangString, fakeClass>>
    PROVE  OrderOK'
  <1>1. /\ dump' = dump /\ next' = next + 1 /\ next \in Nat \ {0}
        /\ dump[next].tag \notin {"utf8", "load", "heap"}
    BY DEF Advance, Rec
  <1>2. \A tag \in {"utf8", "load", "heap"} : Of(dump', next', tag) = Of(dump, next, tag)
    BY <1>1, OfNext
  <1> QED BY <1>1, <1>2 DEF OrderOK

\* A string.
LEMMA OrderUtf8 ==
    ASSUME TabType, OrderOK, EUtf8
    PROVE  OrderOK'
  <1>1. /\ dump' = dump /\ next' = next + 1 /\ next \in Nat \ {0}
        /\ dump[next].tag = "utf8" /\ Rec = dump[next]
        /\ UNCHANGED <<scTable, rcTable, javaLangString, fakeClass>>
        /\ sbTable' = Put(sbTable, Rec.id, Rec.name)
    BY DEF EUtf8, Advance, Rec
  <1>2. /\ Of(dump', next', "load") = Of(dump, next, "load")
        /\ Of(dump', next', "heap") = Of(dump, next, "heap")
        /\ Of(dump', next', "utf8") = Of(dump, next, "utf8") \cup {next}
        /\ \A u \in Of(dump, next, "utf8") : u \in Nat /\ u < next
    BY <1>1, OfNext DEF Of
  <1>3. Entered(sbTable', sbTable, dump[next].id, dump[next].name)
    BY <1>1, PutIs
  <1>4. ASSUME NEW u \in Of(dump', next', "utf8")
        PROVE  /\ Key(dump[u].id) \in DOMAIN sbTable'
               /\ (\A v \in Of(dump', next', "utf8") : SameKey(dump[v].id, dump[u].id) => v <= u) =>
                     sbTable'[Key(dump[u].id)] = dump[u].name
    <2>1. CASE u = next
      BY <1>3, <2>1 DEF Entered
    <2>2. CASE u # next
      <3>1. u \in Of(dump, next, "utf8") /\ Key(dump[u].id) \in DOMAIN sbTable
        BY <1>2, <2>2 DEF OrderOK
      <3>2. ASSUME \A v \in Of(dump', next', "utf8") : SameKey(dump[v].id, dump[u].id) => v <= u
            PROVE  sbTable'[Key(dump[u].id)] = dump[u].name
        <4>1. ~(next <= u)
          BY <1>1, <1>2, <3>1
        <4>2. Key(dump[next].id) # Key(dump[u].id)
          BY <1>2, <3>2, <4>1 DEF SameKey
        <4>3. sbTable[Key(dump[u].id)] = dump[u].name
          BY <1>2, <3>1, <3>2 DEF OrderOK
        <4> QED BY <1>3, <3>1, <4>2, <4>3 DEF Entered
      <3> QED BY <1>3, <3>1, <3>2 DEF Entered
    <2> QED BY <2>1, <2>2
  <1> QED BY <1>1, <1>2, <1>4 DEF OrderOK

\* A load.
LEMMA OrderLoad ==
    ASSUME TabType, OrderOK, ELoad
    PROVE  OrderOK'
  <1> DEFINE c == Len(cinfo) + 1
             known == At(sbTable, Rec.nameId)
  <1>1. /\ dump' = dump /\ next' = next + 1 /\ next \in Nat \ {0}
        /\ dump[next].tag = "load" /\ Rec = dump[next]
        /\ UNCHANGED <<sbTable, javaLangString, fakeClass>>
        /\ scTable' = Put(scTable, Rec.serial, c)
        /\ rcTable' = Put(rcTable, Hash[known], c)
    BY DEF ELoad, Advance, Rec
  <1>2. /\ Of(dump', next', "utf8") = Of(dump, next, "utf8")
        /\ Of(dump', next', "heap") = Of(dump, next, "heap")
        /\ Of(dump', next', "load") = Of(dump, next, "load") \cup {next}
    BY <1>1, OfNext
  <1>3. Entered(scTable', scTable, Rec.serial, c) /\ Entered(rcTable', rcTable, Hash[known], c)
    <2> HIDE DEF c, known
    <2> QED BY <1>1, PutIs
  <1>4. known \in NameOf /\ Key(Hash[known]) = Hash[known]
    BY LoadClass, HashIs
  <1>5. ASSUME NEW name \in NameOf, Named(dump, next, name) PROVE name = known
    <2>1. PICK u \in Of(dump, next, "utf8") :
             /\ dump[u].name = name /\ SameKey(dump[u].id, dump[next].nameId)
             /\ \A v \in Of(dump, next, "utf8") : SameKey(dump[v].id, dump[next].nameId) => v <= u
      BY <1>5 DEF Named
    <2>2. \A v \in Of(dump, next, "utf8") : SameKey(dump[v].id, dump[u].id) => v <= u
      BY <2>1 DEF SameKey
    <2>3. sbTable[Key(dump[u].id)] = name
      BY <2>1, <2>2 DEF OrderOK
    <2> QED BY <1>1, <2>1, <2>3 DEF SameKey, At
  <1> HIDE DEF c, known
  <1>6. DOMAIN rcTable' = DOMAIN rcTable \cup {Hash[known]} /\ DOMAIN scTable' = DOMAIN scTable \cup {Key(dump[next].serial)}
    BY <1>1, <1>3, <1>4 DEF Entered
  <1>7. \A i \in Of(dump', next', "load") : Key(dump[i].serial) \in DOMAIN scTable'
    BY <1>2, <1>6 DEF OrderOK
  <1>8. \A i \in Of(dump', next', "load") : \A name \in NameOf :
           Named(dump, i, name) => Hash[name] \in DOMAIN rcTable'
    BY <1>2, <1>5, <1>6 DEF OrderOK
  <1> QED BY <1>1, <1>2, <1>7, <1>8 DEF OrderOK

\* A class that is loaded under a name is found under its hash.
LEMMA LoadedFound ==
    ASSUME OrderOK, NEW n, n <= next, n \in Nat, next \in Nat, NEW name \in NameOf,
           NameLoaded(dump, n, name)
    PROVE  Hash[name] \in DOMAIN rcTable
  <1>1. PICK i \in Of(dump, n, "load") : Named(dump, i, name)
    BY DEF NameLoaded
  <1>2. i \in Of(dump, next, "load")
    BY <1>1 DEF Of
  <1> QED BY <1>1, <1>2 DEF OrderOK

\* A heap dump begins.
LEMMA OrderHeap ==
    ASSUME TabType, OrderOK, EHeap
    PROVE  OrderOK'
  <1>1. /\ dump' = dump /\ next' = next + 1 /\ next \in Nat \ {0}
        /\ dump[next].tag = "heap" /\ javaLangString' = findClass(StringName)
        /\ UNCHANGED <<sbTable, scTable, rcTable, fakeClass>>
    BY DEF EHeap, Advance, Rec
  <1>2. /\ Of(dump', next', "utf8") = Of(dump, next, "utf8")
        /\ Of(dump', next', "load") = Of(dump, next, "load")
        /\ \A h \in Of(dump', next', "heap") : h \in Nat /\ h <= next
    BY <1>1, OfNext DEF Of
  <1>3. ASSUME NEW h \in Of(dump', next', "heap"), NameLoaded(dump, h, StringName)
        PROVE  javaLangString' # NULL
    <2>1. Hash[StringName] \in DOMAIN rcTable
      BY <1>1, <1>2, <1>3, LoadedFound, HashIs
    <2> QED BY <1>1, <2>1, FindIs
  <1> QED BY <1>1, <1>2, <1>3 DEF OrderOK

\* No class is made up in such a file.
LEMMA NoneMade ==
    ASSUME TabType, OrderOK, RecOK(dump, next)
    PROVE  ~EMade
  <1> SUFFICES ASSUME EMade PROVE FALSE
    OBVIOUS
  <1>1. /\ next \in Nat /\ next \in 1..Len(dump) /\ dump \in Dumps /\ dump[next].tag = "parray" /\ Rec = dump[next]
        /\ Hash[PrimName[dump[next].type]] \notin DOMAIN rcTable
    BY DEF TabType, EMade, Advance, Rec
  <1>2. dump[next].type \in PrimType
    BY <1>1 DEF EMade
  <1>3. PrimName[dump[next].type] \in NameOf
    BY <1>2, HashIs
  <1>4. NameLoaded(dump, next, PrimName[dump[next].type])
    BY <1>1 DEF RecOK
  <1>5. next <= next
    BY <1>1
  <1> QED BY <1>1, <1>3, <1>4, <1>5, LoadedFound

\* Nothing is missing in such a file.
LEMMA NoneMissing ==
    ASSUME TabType, EntriesOK, OrderOK, RecOK(dump, next), ECrash
    PROVE  FALSE
  <1>1. Missing /\ Rec = dump[next]
    BY DEF ECrash, Rec
  <1>2. ASSUME NEW id, \E i \in Of(dump, next, "load") : SameKey(dump[i].id, id)
        PROVE  Has(cTable, id)
    BY <1>2 DEF EntriesOK, Has, SameKey
  <1>3. CASE Rec.tag = "load" /\ ~Has(sbTable, Rec.nameId)
    <2>1. PICK u \in Of(dump, next, "utf8") : SameKey(dump[u].id, dump[next].nameId)
      BY <1>1, <1>3 DEF RecOK
    <2> QED BY <1>1, <1>3, <2>1 DEF OrderOK, Has, SameKey
  <1>4. CASE Rec.tag = "frame" /\ ~Has(scTable, Rec.serial)
    <2>1. PICK i \in Of(dump, next, "load") : SameKey(dump[i].serial, dump[next].serial)
      BY <1>1, <1>4 DEF RecOK
    <2> QED BY <1>1, <1>4, <2>1 DEF OrderOK, Has, SameKey
  <1>5. CASE Rec.tag = "class" /\ ~Has(cTable, Rec.id)
    BY <1>1, <1>2, <1>5 DEF RecOK
  <1>6. CASE Rec.tag \in {"inst", "oarray"} /\ ~Has(cTable, Rec.class)
    BY <1>1, <1>2, <1>6 DEF RecOK
  <1>7. CASE Rec.tag = "inst" /\ javaLangString = NULL
    BY <1>1, <1>7 DEF RecOK, OrderOK
  <1>8. CASE Rec.tag = "parray" /\ Rec.type \notin PrimType
    BY <1>1, <1>8 DEF RecOK
  <1> QED BY <1>1, <1>3, <1>4, <1>5, <1>6, <1>7, <1>8 DEF Missing

-----------------------------------------------------------------------------
(* Superclasses.                                                           *)

\* The class dumps of the class loaded at i.
DumpsOf(d, n, i) == {m \in Of(d, n, "class") : i < m /\ SameKey(d[m].id, d[i].id)}

\* The class that cTable has for load i.
EntryOf(i) == cTable[Key(dump[i].id)]

\* It is there.
LEMMA EntryIs ==
    ASSUME TabType, EntriesOK, NEW i, LastLoad(dump, next, i)
    PROVE  /\ i \in Of(dump, next, "load") /\ i \in Nat /\ i < next
           /\ Key(dump[i].id) \in DOMAIN cTable /\ EntryOf(i) \in CInfos
  <1>1. i \in Of(dump, next, "load") /\ next \in Nat
    BY DEF LastLoad, TabType
  <1>2. Key(dump[i].id) \in DOMAIN cTable
    BY <1>1 DEF EntriesOK
  <1> QED BY <1>1, <1>2 DEF Of, TabType, EntryOf

\* Objects have classes that stand in cTable.
ObjectClasses == \A k \in DOMAIN hTable : Key(hTable[k].classId) \in DOMAIN cTable

LEMMA NextObjectClasses ==
    ASSUME TabType, EntriesOK, OrderOK, OwnNumbers, ObjectClasses, Effect, ~EMade
    PROVE  ObjectClasses'
  <1>1. CASE EStay \/ ECrash \/ ESkip \/ EUtf8 \/ EHeap \/ EClass
    BY <1>1 DEF EStay, ECrash, ESkip, EUtf8, EHeap, EClass, ObjectClasses
  <1>2. CASE ELoad
    <2>1. cTable' = Put(cTable, Rec.id, Len(cinfo) + 1) /\ hTable' = hTable
      BY <1>2 DEF ELoad
    <2>2. Entered(cTable', cTable, Rec.id, Len(cinfo) + 1)
      BY <2>1, PutIs
    <2> QED BY <2>1, <2>2 DEF Entered, ObjectClasses
  <1>3. ASSUME NEW id, NEW o, hTable' = Put(hTable, id, o), cTable' = cTable, Key(o.classId) \in DOMAIN cTable
        PROVE  ObjectClasses'
    <2>1. Entered(hTable', hTable, id, o)
      BY <1>3, PutIs
    <2> QED BY <1>3, <2>1 DEF Entered, ObjectClasses
  <1>4. CASE EInst
    <2> DEFINE o == makeObj("instance", Rec.id, Rec.class, 0)
    <2>1. cTable' = cTable /\ Key(Rec.class) \in DOMAIN cTable /\ (hTable' = hTable \/ hTable' = Put(hTable, Rec.id, o))
      BY <1>4 DEF EInst, Has
    <2>2. o.classId = Rec.class
      BY DEF makeObj
    <2> HIDE DEF o
    <2>3. CASE hTable' = hTable
      BY <2>1, <2>3 DEF ObjectClasses
    <2> QED BY <1>3, <2>1, <2>2, <2>3
  <1>5. CASE EFound
    <2>1. PICK c \in CInfos : \E ht : hTable' = Put(hTable, Rec.id, makeObj(ht, Rec.id, cinfo[c].ident, Rec.n))
      BY <1>5 DEF EFound
    <2>7. PICK ht : hTable' = Put(hTable, Rec.id, makeObj(ht, Rec.id, cinfo[c].ident, Rec.n))
      BY <2>1
    <2> DEFINE o == makeObj(ht, Rec.id, cinfo[c].ident, Rec.n)
    <2>2. o.classId = cinfo[c].ident
      BY DEF makeObj
    <2>3. ~MadeUpId(cinfo[c].ident)
      <3>1. fakeClass = FirstFake /\ FirstFake \in Nat
        BY SizesAssumption DEF OrderOK
      <3> QED BY <3>1 DEF MadeUpId
    <2>4. LoadedId(cinfo[c].ident)
      BY <2>3 DEF OwnNumbers
    <2>5. Key(cinfo[c].ident) \in DOMAIN cTable
      BY <2>4 DEF LoadedId, EntriesOK
    <2> HIDE DEF o
    <2>6. hTable' = Put(hTable, Rec.id, o) /\ cTable' = cTable
      BY <1>5, <2>7 DEF o, EFound
    <2> QED BY <1>3, <2>2, <2>5, <2>6
  <1> QED BY <1>1, <1>2, <1>4, <1>5 DEF Effect

\* Classes stand in cTable in the order of their last loads, with the superclass
\* of one of their dumps.
Chains ==
    /\ \A i, l : LastLoad(dump, next, i) /\ LastLoad(dump, next, l) /\ i < l => EntryOf(i) < EntryOf(l)
    /\ \A i : LastLoad(dump, next, i) /\ DumpsOf(dump, next, i) # {} =>
          \E m \in DumpsOf(dump, next, i) : cinfo[EntryOf(i)].superId = dump[m].super

\* A record that neither loads nor dumps a class.
LEMMA ChainsSkip ==
    ASSUME TabType, EntriesOK, Chains,
           Advance({"utf8", "frame", "other", "heap", "root", "inst", "oarray", "parray", "bad"}),
           cTable' = cTable, \A c \in CInfos : cinfo'[c].superId = cinfo[c].superId
    PROVE  Chains'
  <1>1. /\ dump' = dump /\ next' = next + 1 /\ next \in Nat \ {0}
        /\ dump[next].tag # "load" /\ dump[next].tag # "class"
    BY DEF Advance, Rec
  <1>2. \A i : LastLoad(dump', next', i) <=> LastLoad(dump, next, i)
    BY <1>1, LastLoadNext
  <1>3. Of(dump', next', "class") = Of(dump, next, "class")
    BY <1>1, OfNext
  <1>4. \A i : DumpsOf(dump', next', i) = DumpsOf(dump, next, i)
    BY <1>1, <1>3 DEF DumpsOf
  <1>5. \A i : EntryOf(i)' = EntryOf(i)
    BY <1>1 DEF EntryOf
  <1>6. \A i : LastLoad(dump, next, i) => cinfo'[EntryOf(i)].superId = cinfo[EntryOf(i)].superId
    BY EntryIs
  <1>7. ASSUME NEW i, LastLoad(dump', next', i), DumpsOf(dump', next', i) # {}
        PROVE  \E m \in DumpsOf(dump', next', i) : cinfo'[EntryOf(i)'].superId = dump'[m].super
    <2>1. PICK m \in DumpsOf(dump, next, i) : cinfo[EntryOf(i)].superId = dump[m].super
      BY <1>2, <1>4, <1>7 DEF Chains
    <2> QED BY <1>1, <1>2, <1>4, <1>5, <1>6, <1>7, <2>1
  <1>8. \A i, l : LastLoad(dump', next', i) /\ LastLoad(dump', next', l) /\ i < l => EntryOf(i)' < EntryOf(l)'
    BY <1>2, <1>5 DEF Chains
  <1> QED BY <1>7, <1>8 DEF Chains

\* A class dump: the class of its key gets the superclass.
LEMMA ChainsDump ==
    ASSUME TabType, EntriesOK, Chains, EClass
    PROVE  Chains'
  <1>0. PICK c : c = At(cTable, Rec.id)
    OBVIOUS
  <1>1. /\ dump' = dump /\ next' = next + 1 /\ next \in Nat \ {0}
        /\ dump[next].tag = "class" /\ Rec = dump[next] /\ cTable' = cTable
    BY DEF EClass, Advance, Rec
  <1>2. /\ c \in CInfos /\ Key(dump[next].id) \in DOMAIN cTable /\ c = cTable[Key(dump[next].id)]
        /\ cinfo'[c].superId = dump[next].super
        /\ \A b \in CInfos : b # c => cinfo'[b] = cinfo[b]
    BY <1>0, <1>1, DumpClass
  <1>3. \A i : LastLoad(dump', next', i) <=> LastLoad(dump, next, i)
    BY <1>1, LastLoadNext
  <1>4. Of(dump', next', "class") = Of(dump, next, "class") \cup {next}
    BY <1>1, OfNext
  <1>5. \A i : EntryOf(i)' = EntryOf(i)
    BY <1>1 DEF EntryOf
  <1>6. ASSUME NEW i, LastLoad(dump, next, i), DumpsOf(dump', next', i) # {}
        PROVE  \E m \in DumpsOf(dump', next', i) : cinfo'[EntryOf(i)].superId = dump[m].super
    <2>1. i < next /\ EntryOf(i) \in CInfos /\ Key(dump[i].id) \in DOMAIN cTable
      BY <1>6, EntryIs
    <2>2. CASE SameKey(dump[next].id, dump[i].id)
      <3>1. next \in DumpsOf(dump', next', i)
        BY <1>1, <1>4, <2>1, <2>2 DEF DumpsOf
      <3>2. EntryOf(i) = c
        BY <1>2, <2>2 DEF EntryOf, SameKey
      <3> QED BY <1>2, <3>1, <3>2
    <2>3. CASE ~SameKey(dump[next].id, dump[i].id)
      <3>1. DumpsOf(dump', next', i) = DumpsOf(dump, next, i)
        BY <1>1, <1>4, <2>3 DEF DumpsOf
      <3>2. EntryOf(i) # c
        BY <1>2, <2>1, <2>3 DEF EntryOf, SameKey, EntriesOK
      <3>3. PICK m \in DumpsOf(dump, next, i) : cinfo[EntryOf(i)].superId = dump[m].super
        BY <1>6, <3>1 DEF Chains
      <3> QED BY <1>2, <2>1, <3>1, <3>2, <3>3
    <2> QED BY <2>2, <2>3
  <1>7. \A i : LastLoad(dump', next', i) /\ DumpsOf(dump', next', i) # {} =>
           \E m \in DumpsOf(dump', next', i) : cinfo'[EntryOf(i)'].superId = dump'[m].super
    BY <1>1, <1>3, <1>5, <1>6
  <1>8. \A i, l : LastLoad(dump', next', i) /\ LastLoad(dump', next', l) /\ i < l => EntryOf(i)' < EntryOf(l)'
    BY <1>3, <1>5 DEF Chains
  <1> QED BY <1>7, <1>8 DEF Chains

\* A load: its class is the last in cTable and has not been dumped.
LEMMA ChainsLoad ==
    ASSUME TabType, EntriesOK, Chains, ELoad
    PROVE  Chains'
  <1>0. PICK c : c = Len(cinfo) + 1
    OBVIOUS
  <1>1. /\ dump' = dump /\ next' = next + 1 /\ next \in Nat \ {0}
        /\ dump[next].tag = "load" /\ Rec = dump[next] /\ cTable' = Put(cTable, dump[next].id, c)
    BY <1>0 DEF ELoad, Advance, Rec
  <1>2. \A b \in CInfos : cinfo'[b] = cinfo[b] /\ b < c
    <2>1. \A b \in CInfos : cinfo'[b] = cinfo[b]
      BY LoadClass
    <2>2. Len(cinfo) \in Nat
      <3> HIDE DEF CIRecord
      <3> QED BY DEF TabType
    <2> QED BY <1>0, <2>1, <2>2 DEF CInfos
  <1>3. Entered(cTable', cTable, dump[next].id, c)
    BY <1>1, PutIs
  <1>4. \A i : LastLoad(dump', next', i) /\ i # next =>
                  LastLoad(dump, next, i) /\ ~SameKey(dump[next].id, dump[i].id)
    BY <1>1, LastLoadNext
  <1>5. Of(dump', next', "class") = Of(dump, next, "class")
    BY <1>1, OfNext
  <1>6. \A i : DumpsOf(dump', next', i) = DumpsOf(dump, next, i)
    BY <1>1, <1>5 DEF DumpsOf
  <1>7. DumpsOf(dump', next', next) = {}
    <2>1. \A m \in Of(dump, next, "class") : ~(next < m)
      BY <1>1 DEF Of
    <2>2. DumpsOf(dump, next, next) = {}
      BY <2>1 DEF DumpsOf
    <2> QED BY <1>6, <2>2
  <1>8. \A i : i = next => EntryOf(i)' = c
    BY <1>1, <1>3 DEF EntryOf, Entered
  <1>9. ASSUME NEW i, LastLoad(dump', next', i), i # next
        PROVE  /\ LastLoad(dump, next, i) /\ i < next /\ EntryOf(i) \in CInfos
               /\ EntryOf(i)' = EntryOf(i) /\ cinfo'[EntryOf(i)] = cinfo[EntryOf(i)]
    <2>1. LastLoad(dump, next, i) /\ ~SameKey(dump[next].id, dump[i].id)
      BY <1>4, <1>9
    <2>2. i < next /\ EntryOf(i) \in CInfos /\ Key(dump[i].id) \in DOMAIN cTable
      BY <2>1, EntryIs
    <2>3. EntryOf(i)' = EntryOf(i)
      BY <1>1, <1>3, <2>1, <2>2 DEF Entered, EntryOf, SameKey
    <2> QED BY <1>2, <2>1, <2>2, <2>3
  <1>10. ASSUME NEW i, LastLoad(dump', next', i), DumpsOf(dump', next', i) # {}
         PROVE  \E m \in DumpsOf(dump', next', i) : cinfo'[EntryOf(i)'].superId = dump'[m].super
    <2>1. i # next
      BY <1>7, <1>10
    <2>2. PICK m \in DumpsOf(dump, next, i) : cinfo[EntryOf(i)].superId = dump[m].super
      BY <1>6, <1>9, <1>10, <2>1 DEF Chains
    <2> QED BY <1>1, <1>6, <1>9, <1>10, <2>1, <2>2
  <1>11. ASSUME NEW i, NEW l, LastLoad(dump', next', i), LastLoad(dump', next', l), i < l
         PROVE  EntryOf(i)' < EntryOf(l)'
    <2>1. CASE i # next /\ l # next
      BY <1>9, <1>11, <2>1 DEF Chains
    <2>2. CASE i # next /\ l = next
      BY <1>2, <1>8, <1>9, <1>11, <2>2
    <2>3. CASE i = next
      <3>1. l # next
        BY <1>1, <1>11, <2>3
      <3>2. l < next /\ LastLoad(dump, next, l)
        BY <1>9, <1>11, <3>1
      <3>3. l \in Nat
        BY <3>2, EntryIs
      <3> QED BY <1>1, <1>11, <2>3, <3>2, <3>3
    <2> QED BY <2>1, <2>2, <2>3
  <1> QED BY <1>10, <1>11 DEF Chains

-----------------------------------------------------------------------------
(* The walk of resolveSClassSize.                                          *)

\* The classes whose superclass is in T.
Above(T) == {c \in 1..Len(cinfo) : /\ cinfo[c].superId > 0 /\ Has(cTable, cinfo[c].superId)
                                   /\ At(cTable, cinfo[c].superId) \in T}

\* w[n] are the classes from which n steps or fewer lead to S.
Within(w, S) == w[0] = S /\ \A n \in Nat : w[n + 1] = w[n] \cup Above(w[n])

LEMMA LeadsIs ==
    ASSUME Len(cinfo) \in Nat, NEW S, S \subseteq CInfos
    PROVE  \E w : Within(w, S) /\ Leads(S) = w[Len(cinfo)]
  <1> DEFINE P == SUBSET (1..Len(cinfo))
             G == [p \in Nat \X P |-> p[2] \cup Above(p[2])]
             Is(f) == f = [n \in Nat |-> IF n = 0 THEN S
                             ELSE f[n - 1] \cup {c \in 1..Len(cinfo) :
                                /\ cinfo[c].superId > 0 /\ Has(cTable, cinfo[c].superId)
                                /\ At(cTable, cinfo[c].superId) \in f[n - 1]}]
             L == CHOOSE g : Is(g)
  <1>1. \A T : Above(T) \in P
    BY DEF Above
  <1>2. /\ G \in [Nat \X P -> P] /\ S \in P
        /\ \A n \in Nat, T \in P : G[<<n, T>>] = T \cup Above(T)
    <2>1. \A T \in P : T \cup Above(T) \in P
      BY <1>1
    <2> HIDE DEF P
    <2>2. \A n \in Nat, T \in P : G[<<n, T>>] = T \cup Above(T)
      OBVIOUS
    <2>3. G \in [Nat \X P -> P]
      BY <2>1
    <2> QED BY <2>2, <2>3 DEF P, CInfos
  <1> HIDE DEF P, G
  <1>3. PICK f : f \in [Nat -> P] /\ f[0] = S /\ \A n \in Nat : f[n + 1] = G[<<n, f[n]>>]
    <2>1. \E f : GoesOn(f, P, S, G)
      BY <1>2, NatRecursion
    <2> QED BY <2>1 DEF GoesOn
  <1>4. \A n \in Nat : f[n] \in P
    BY <1>3
  <1>5. ASSUME NEW n \in Nat
        PROVE  f[n] = IF n = 0 THEN S ELSE f[n - 1] \cup Above(f[n - 1])
    <2>1. CASE n = 0
      BY <1>3, <2>1
    <2>2. CASE n # 0
      <3>1. n - 1 \in Nat /\ (n - 1) + 1 = n
        BY <2>2
      <3>2. f[(n - 1) + 1] = G[<<n - 1, f[n - 1]>>]
        BY <1>3, <3>1
      <3> QED BY <1>2, <1>4, <2>2, <3>1, <3>2
    <2> QED BY <2>1, <2>2
  <1>6. Is(f)
    BY <1>3, <1>5 DEF Above
  <1>7. Leads(S) = L[Len(cinfo)]
    BY DEF Leads
  <1>8. Is(L)
    BY <1>6
  <1> HIDE DEF L
  <1>9. \A n \in Nat : L[n] = IF n = 0 THEN S ELSE L[n - 1] \cup Above(L[n - 1])
    BY <1>8 DEF Above
  <1>10. Within(L, S)
    <2>1. \A n \in Nat : n + 1 \in Nat /\ n + 1 # 0 /\ (n + 1) - 1 = n
      OBVIOUS
    <2>2. \A n \in Nat : L[n + 1] = L[n] \cup Above(L[n])
      BY <1>9, <2>1
    <2>3. L[0] = S
      BY <1>9
    <2> QED BY <2>2, <2>3 DEF Within
  <1> QED BY <1>7, <1>10

\* More steps lead to more classes.
LEMMA WithinGrows ==
    ASSUME NEW w, NEW S, Within(w, S), NEW n \in Nat, NEW m \in 0..n
    PROVE  w[m] \subseteq w[n]
  <1> DEFINE B == {l \in Nat : m <= l /\ ~(w[m] \subseteq w[l])}
  <1> SUFFICES ASSUME B # {} PROVE FALSE
    OBVIOUS
  <1>1. B \subseteq Nat
    OBVIOUS
  <1>2. PICK l \in B : \A k \in B : l <= k
    <2> HIDE DEF B
    <2> QED BY <1>1, Smallest
  <1>3. l # m /\ l \in Nat /\ m <= l
    BY <1>2
  <1>4. l - 1 \in Nat /\ m <= l - 1 /\ (l - 1) + 1 = l /\ ~(l <= l - 1)
    BY <1>3
  <1>5. w[m] \subseteq w[l - 1]
    BY <1>2, <1>4
  <1>6. w[(l - 1) + 1] = w[l - 1] \cup Above(w[l - 1])
    BY <1>4 DEF Within
  <1> QED BY <1>2, <1>4, <1>5, <1>6

\* Classes whose superclasses stand before them are grounded.
LEMMA BeforeGrounds ==
    ASSUME cinfo \in Seq(CIRecord), NEW E, E \subseteq CInfos,
           \A c \in E : \/ cinfo[c].superId = 0
                        \/ /\ cinfo[c].superId > 0 /\ Has(cTable, cinfo[c].superId)
                           /\ At(cTable, cinfo[c].superId) \in E
                           /\ At(cTable, cinfo[c].superId) < c
    PROVE  E \subseteq Grounded
  <1> DEFINE S == {c \in 1..Len(cinfo) : cinfo[c].superId = 0}
  <1>1. Len(cinfo) \in Nat
    <2> HIDE DEF CIRecord
    <2> QED OBVIOUS
  <1>2. S \subseteq CInfos /\ Grounded = Leads(S)
    BY DEF CInfos, Grounded
  <1> HIDE DEF S
  <1>3. PICK w : Within(w, S) /\ Leads(S) = w[Len(cinfo)]
    BY <1>1, <1>2, LeadsIs
  <1>4. \A c \in E : c \in 1..Len(cinfo) /\ c \in Nat
    BY <1>1 DEF CInfos
  <1> DEFINE B == {c \in E : c \notin w[c]}
  <1>5. B = {}
    <2> SUFFICES ASSUME B # {} PROVE FALSE
      OBVIOUS
    <2>1. B \subseteq Nat
      BY <1>4
    <2>2. PICK c \in B : \A b \in B : c <= b
      <3> HIDE DEF B
      <3> QED BY <2>1, Smallest
    <2>3. c \in E /\ c \in Nat /\ c \in 1..Len(cinfo) /\ c \notin w[c]
      BY <1>4, <2>2
    <2>4. CASE cinfo[c].superId = 0
      <3>1. c \in w[0] /\ 0 \in 0..c
        BY <1>3, <2>3, <2>4 DEF Within, S
      <3> QED BY <1>3, <2>3, <3>1, WithinGrows
    <2>5. CASE /\ cinfo[c].superId > 0 /\ Has(cTable, cinfo[c].superId)
               /\ At(cTable, cinfo[c].superId) \in E
               /\ At(cTable, cinfo[c].superId) < c
      <3>1. PICK b \in E : b = At(cTable, cinfo[c].superId)
        BY <2>5
      <3>2. b \in Nat /\ b < c
        BY <1>4, <2>5, <3>1
      <3>3. b \in w[b]
        BY <2>2, <2>3, <3>2
      <3>4. c - 1 \in Nat /\ b \in 0..(c - 1) /\ (c - 1) + 1 = c
        BY <2>3, <3>2
      <3>5. b \in w[c - 1]
        BY <1>3, <3>3, <3>4, WithinGrows
      <3>6. c \in Above(w[c - 1])
        BY <2>3, <2>5, <3>1, <3>5 DEF Above
      <3>7. w[(c - 1) + 1] = w[c - 1] \cup Above(w[c - 1])
        BY <1>3, <3>4 DEF Within
      <3> QED BY <2>3, <3>4, <3>6, <3>7
    <2> QED BY <2>3, <2>4, <2>5
  <1>6. ASSUME NEW c \in E PROVE c \in Grounded
    <2>1. c \in w[c] /\ c \in 0..Len(cinfo)
      BY <1>1, <1>4, <1>5
    <2> QED BY <1>1, <1>2, <1>3, <2>1, WithinGrows
  <1> QED BY <1>6

\* In a well ordered file every class in cTable is grounded.
LEMMA AllGrounded ==
    ASSUME TabType, EntriesOK, OrderOK, Chains, WellAt(dump, next)
    PROVE  \A k \in DOMAIN cTable : cTable[k] \in Grounded
  <1> DEFINE E == {EntryOf(i) : i \in {j \in Of(dump, next, "load") : LastLoad(dump, next, j)}}
  <1>1. next \in Nat \ {0} /\ cinfo \in Seq(CIRecord) /\ dump \in Dumps /\ next \in 1..(Len(dump) + 1)
        /\ Len(dump) \in Nat
    BY FileIs DEF TabType
  <1>2. \A i : LastLoad(dump, next, i) => i \in Of(dump, next, "load") /\ EntryOf(i) \in E
    BY DEF LastLoad
  <1>3. E \subseteq CInfos
    BY EntryIs
  <1>4. ASSUME NEW c \in E
        PROVE  \/ cinfo[c].superId = 0
               \/ /\ cinfo[c].superId > 0 /\ Has(cTable, cinfo[c].superId)
                  /\ At(cTable, cinfo[c].superId) \in E
                  /\ At(cTable, cinfo[c].superId) < c
    <2>1. PICK i \in Of(dump, next, "load") : LastLoad(dump, next, i) /\ c = EntryOf(i)
      OBVIOUS
    <2>2. DumpsOf(dump, next, i) # {}
      <3>1. PICK m \in Of(dump, next, "class") : i < m /\ dump[m].id = dump[i].id
        BY <2>1 DEF WellAt
      <3>2. m \in DumpsOf(dump, next, i)
        BY <3>1 DEF DumpsOf, SameKey
      <3> QED BY <3>2
    <2>3. PICK m \in DumpsOf(dump, next, i) : cinfo[c].superId = dump[m].super
      BY <2>1, <2>2 DEF Chains
    <2>4. m \in Of(dump, next, "class") /\ SameKey(dump[m].id, dump[i].id)
      BY DEF DumpsOf
    <2>5. dump[m].super \in Nat
      <3>1. m \in 1..Len(dump) /\ dump[m].tag = "class"
        BY <1>1, <2>4 DEF Of
      <3> QED BY <1>1, <3>1, Fields
    <2>6. CASE dump[m].super # 0
      <3>1. PICK l, j : /\ LastLoad(dump, next, l) /\ SameKey(dump[l].id, dump[m].super)
                        /\ LastLoad(dump, next, j) /\ SameKey(dump[j].id, dump[m].id)
                        /\ l < j
        BY <2>4, <2>6 DEF WellAt
      <3>2. j = i
        <4>1. SameKey(dump[j].id, dump[i].id) /\ SameKey(dump[i].id, dump[j].id)
          BY <2>4, <3>1 DEF SameKey
        <4>2. i <= j /\ j <= i
          BY <2>1, <3>1, <4>1 DEF LastLoad
        <4>3. i \in Nat /\ j \in Nat
          BY <2>1, <3>1, EntryIs
        <4> QED BY <4>2, <4>3
      <3>3. EntryOf(l) < c
        BY <2>1, <3>1, <3>2 DEF Chains
      <3>4. Key(dump[l].id) = Key(dump[m].super) /\ Key(dump[l].id) \in DOMAIN cTable
        BY <3>1, EntryIs DEF SameKey
      <3>5. Has(cTable, dump[m].super) /\ At(cTable, dump[m].super) = EntryOf(l)
        BY <3>4 DEF Has, At, EntryOf
      <3>6. dump[m].super > 0
        BY <2>5, <2>6
      <3> QED BY <1>2, <2>3, <3>1, <3>3, <3>5, <3>6
    <2> QED BY <2>3, <2>6
  <1>5. E \subseteq Grounded
    <2> HIDE DEF E
    <2> QED BY <1>1, <1>3, <1>4, BeforeGrounds
  <1>6. ASSUME NEW k \in DOMAIN cTable PROVE cTable[k] \in E
    <2>1. ~MadeUpAt(k)
      <3>1. fakeClass = FirstFake /\ FirstFake \in Nat
        BY SizesAssumption DEF OrderOK
      <3>2. FirstFake..(fakeClass - 1) = {}
        BY <3>1
      <3> QED BY <3>2 DEF MadeUpAt
    <2>2. PICK i \in Of(dump, next, "load") : LastLoad(dump, next, i) /\ k = Key(dump[i].id)
      BY <2>1 DEF EntriesOK, LoadedAt
    <2> QED BY <2>2 DEF EntryOf
  <1> QED BY <1>5, <1>6

\* So the walk crashes on no object.
LEMMA WalkSafe ==
    ASSUME TabType, EntriesOK, OrderOK, Chains, ObjectClasses, WellAt(dump, next), HeapDone
    PROVE  pc' # "crash"
  <1>1. \A k \in Selected : k \in DOMAIN hTable
    BY DEF Selected
  <1>2. \A k \in Selected : Resolves(k, Grounded)
    BY <1>1, AllGrounded DEF ObjectClasses, Resolves, Has, At
  <1> QED BY <1>2 DEF HeapDone

-----------------------------------------------------------------------------
\* The inductive invariant of a file in order.
OrderInv == pc # "crash" /\ Ordered(dump, next) => OrderOK /\ Chains /\ ObjectClasses

NInv == /\ TabInv /\ EntriesInv /\ OwnNumbers /\ OrderInv
        /\ pc = "crash" => ~WellAt(dump, next)

LEMMA InitNInv == Init => NInv
  <1> SUFFICES ASSUME Init PROVE NInv
    OBVIOUS
  <1>1. TabInv /\ EntriesInv /\ OwnNumbers
    BY InitCInv DEF CInv
  <1>2. next = 1 /\ \A tag : Of(dump, next, tag) = {}
    BY DEF Init, Of
  <1>3. fakeClass = FirstFake /\ pc # "crash"
    BY DEF Init
  <1>4. OrderOK
    BY <1>2, <1>3 DEF OrderOK
  <1>5. Chains
    BY <1>2 DEF Chains, LastLoad
  <1>6. ObjectClasses
    BY DEF Init, EmptyTable, ObjectClasses
  <1> QED BY <1>1, <1>3, <1>4, <1>5, <1>6 DEF NInv, OrderInv

LEMMA NextNInv == NInv /\ [Next]_vars => NInv'
  <1> SUFFICES ASSUME NInv, [Next]_vars PROVE NInv'
    OBVIOUS
  <1>0. TabInv /\ EntriesInv /\ OwnNumbers /\ OrderInv /\ TabType
    BY DEF NInv, TabInv
  <1>1. TabInv' /\ EntriesInv' /\ OwnNumbers'
    BY <1>0, NextTabInv, NextEntriesInv, NextOwnNumbers
  <1>2. Effect
    BY <1>0, StepEffect
  <1>3. CASE EStay
    <2>1. UNCHANGED <<dump, next, sbTable, cinfo, cTable, scTable, rcTable, hTable, fakeClass, javaLangString>>
          /\ (pc = "crash" => pc' = "crash")
      BY <1>3 DEF EStay
    <2>2. OrderInv'
      <3> SUFFICES ASSUME pc' # "crash", Ordered(dump', next')
                   PROVE  OrderOK' /\ Chains' /\ ObjectClasses'
        BY DEF OrderInv
      <3>1. OrderOK /\ Chains /\ ObjectClasses
        BY <1>0, <2>1 DEF OrderInv
      <3>2. OrderOK'
        BY <2>1, <3>1 DEF OrderOK
      <3>3. Chains'
        BY <2>1, <3>1 DEF Chains, EntryOf
      <3> QED BY <2>1, <3>1, <3>2, <3>3 DEF ObjectClasses
    <2>3. ASSUME pc' = "crash", WellAt(dump, next) PROVE FALSE
      <3>1. pc # "crash"
        BY <2>3 DEF NInv
      <3>2. HeapDone
        BY <1>3, <2>3, <3>1 DEF EStay
      <3>3. OrderOK /\ Chains /\ ObjectClasses /\ EntriesOK
        BY <1>0, <2>3, <3>1 DEF OrderInv, EntriesInv, WellAt
      <3> QED BY <1>0, <2>3, <3>2, <3>3, WalkSafe
    <2> QED BY <1>1, <2>1, <2>2, <2>3 DEF NInv
  <1>4. CASE ~EStay
    <2>1. /\ pc # "crash" /\ dump' = dump /\ next' = next + 1 /\ next \in Nat \ {0}
          /\ pc' = "crash" => ECrash
      BY <1>2, <1>4 DEF Effect, ECrash, ESkip, EUtf8, ELoad, EHeap, EClass, EInst, EFound, EMade, Advance
    <2>2. ASSUME Ordered(dump', next')
          PROVE  OrderOK' /\ Chains' /\ ObjectClasses' /\ pc' # "crash"
      <3>1. Ordered(dump, next) /\ RecOK(dump, next)
        BY <2>1, <2>2, OrderedNext
      <3>2. OrderOK /\ Chains /\ ObjectClasses /\ EntriesOK
        BY <1>0, <2>1, <3>1 DEF OrderInv, EntriesInv
      <3>3. ~ECrash /\ ~EMade
        BY <1>0, <3>1, <3>2, NoneMissing, NoneMade
      <3>4. ObjectClasses'
        BY <1>0, <1>2, <3>2, <3>3, NextObjectClasses
      <3>5. ASSUME ESkip \/ EClass \/ EInst \/ EFound PROVE OrderOK'
        <4>1. /\ Advance({"frame", "other", "root", "bad", "class", "inst", "oarray", "parray"})
              /\ UNCHANGED <<sbTable, scTable, rcTable, javaLangString, fakeClass>>
          BY <3>5 DEF ESkip, EClass, EInst, EFound, Advance
        <4> QED BY <1>0, <3>2, <4>1, OrderSkip
      <3>6. OrderOK'
        BY <1>0, <1>2, <1>4, <3>2, <3>3, <3>5, OrderUtf8, OrderLoad, OrderHeap DEF Effect
      <3>7. ASSUME ESkip \/ EUtf8 \/ EHeap \/ EFound PROVE Chains'
        <4>1. /\ Advance({"utf8", "frame", "other", "heap", "root", "inst", "oarray", "parray", "bad"})
              /\ cTable' = cTable /\ cinfo' = cinfo
          BY <3>7 DEF ESkip, EUtf8, EHeap, EFound, Advance
        <4> QED BY <1>0, <3>2, <4>1, ChainsSkip
      <3>8. ASSUME EInst PROVE Chains'
        <4>1. /\ Advance({"utf8", "frame", "other", "heap", "root", "inst", "oarray", "parray", "bad"})
              /\ cTable' = cTable
          BY <3>8 DEF EInst, Advance
        <4>2. \A c \in CInfos : cinfo'[c].superId = cinfo[c].superId
          BY <1>0, <3>8, InstClass
        <4> QED BY <1>0, <3>2, <4>1, <4>2, ChainsSkip
      <3>9. Chains'
        BY <1>0, <1>2, <1>4, <3>2, <3>3, <3>7, <3>8, ChainsLoad, ChainsDump DEF Effect
      <3> QED BY <2>1, <3>3, <3>4, <3>6, <3>9
    <2> QED BY <1>1, <2>2 DEF NInv, OrderInv, WellAt
  <1> QED BY <1>3, <1>4

\* Whatever the file, of every length: if it is well ordered, the reader has found
\* in its tables everything it dereferences, and the walk along the superclasses of
\* every selected object has ended.
THEOREM WellOrderedNeverCrashes == Spec => []NoCrashOnWellOrdered
  <1>1. NInv => NoCrashOnWellOrdered
    BY WellIsWell DEF NInv, TabInv, NoCrashOnWellOrdered
  <1> QED BY <1>1, InitNInv, NextNInv, PTL DEF Spec
=============================================================================
