-------------------------- MODULE HprofReaderProof --------------------------
(***************************************************************************)
(* The byte accounting of readHeap, for every file, every identifier size  *)
(* and every width of hsize: what remains of hsize is what remains of the  *)
(* heap dump record, plus what readValue and the type tags of the constant *)
(* pool make readClass miscount.                                           *)
(***************************************************************************)
EXTENDS HprofReader, CommonLemmas

\* Every handler but readClass subtracts what it reads; readClass is short by the
\* type tags of the constant pool and by two for every illegal boolean.
LEMMA ChargedIsRead ==
    ASSUME NEW r \in SubRecord, r.tag # "bad"
    PROVE  /\ BytesRead(r) \in Int /\ BytesCharged(r) \in Int
           /\ Miscount(r) \in Nat
           /\ BytesRead(r) = BytesCharged(r) + Miscount(r)
           /\ r.tag # "class" => Miscount(r) = 0
  <1>1. CASE r.tag = "root"
    <2>1. r.kind \in RootKind
      BY <1>1 DEF SubRecord
    <2>2. RootBytes(r.kind) \in Int
      BY <2>1, SizesAssumption DEF RootBytes, RootKind
    <2> QED BY <1>1, <2>2 DEF BytesRead, BytesCharged, Miscount
  <1>2. CASE r.tag = "class"
    <2>1. r.cpool \in Vals /\ r.statics \in Vals /\ r.cfields \in Nat
      BY <1>2 DEF SubRecord
    <2>2. ASSUME NEW v \in Vals
          PROVE  /\ Entries(v) \in Nat /\ readValue(v) \in Int /\ v.illegal \in Nat
                 /\ ValueBytes(v) = readValue(v) + 2 * v.illegal
      <3>1. v.ref * IdSize \in Int /\ v.illegal \in Nat
        BY SizesAssumption DEF Vals
      <3> QED BY <3>1 DEF Vals, Entries, ValueBytes, readValue
    <2>3. /\ Entries(r.cpool) \in Nat /\ readValue(r.cpool) \in Int /\ r.cpool.illegal \in Nat
          /\ Entries(r.statics) \in Nat /\ readValue(r.statics) \in Int /\ r.statics.illegal \in Nat
          /\ ValueBytes(r.cpool) = readValue(r.cpool) + 2 * r.cpool.illegal
          /\ ValueBytes(r.statics) = readValue(r.statics) + 2 * r.statics.illegal
      BY <2>1, <2>2
    <2>4. /\ (IdSize + 1) * Entries(r.statics) \in Int
          /\ (IdSize + 1) * r.cfields \in Int
          /\ (1 + IdSize) * r.cfields = (IdSize + 1) * r.cfields
      BY <2>1, <2>3, SizesAssumption
    <2> DEFINE tagged == (IdSize + 1) * Entries(r.statics)
               named  == (IdSize + 1) * r.cfields
    <2>5. BytesRead(r) = 1 + 7 * IdSize + 8
                         + 2 + 3 * Entries(r.cpool) + ValueBytes(r.cpool)
                         + 2 + tagged + ValueBytes(r.statics) + 2 + named
      BY <1>2 DEF BytesRead
    <2>6. BytesCharged(r) = 1 + (7 * IdSize) + 8
                            + 2 + 2 * Entries(r.cpool) + readValue(r.cpool)
                            + 2 + tagged + readValue(r.statics) + 2 + named
      BY <1>2, <2>4 DEF BytesCharged
    <2>7. Miscount(r) = Entries(r.cpool) + 2 * (r.cpool.illegal + r.statics.illegal)
      BY <1>2 DEF Miscount
    <2>8. tagged \in Int /\ named \in Int
      BY <2>4
    <2> HIDE DEF tagged, named
    <2> QED BY <1>2, <2>3, <2>5, <2>6, <2>7, <2>8, SizesAssumption
  <1>3. CASE r.tag = "inst"
    <2>1. r.isz \in Nat
      BY <1>3 DEF SubRecord
    <2> QED BY <1>3, <2>1, SizesAssumption DEF BytesRead, BytesCharged, Miscount
  <1>4. CASE r.tag = "oarray"
    <2>1. r.n \in Nat
      BY <1>4 DEF SubRecord
    <2>2. IdSize * r.n \in Int
      BY <2>1, SizesAssumption
    <2> QED BY <1>4, <2>2, SizesAssumption DEF BytesRead, BytesCharged, Miscount
  <1>5. CASE r.tag = "parray"
    <2>1. r.n \in Nat
      BY <1>5 DEF SubRecord
    <2>2. ElemBytes(r.type) \in Int
      BY SizesAssumption DEF ElemBytes, PrimType, elsz
    <2>3. ElemBytes(r.type) * r.n \in Int
      BY <2>1, <2>2
    <2> QED BY <1>5, <2>3, SizesAssumption DEF BytesRead, BytesCharged, Miscount
  <1> QED BY <1>1, <1>2, <1>3, <1>4, <1>5 DEF SubRecord
-----------------------------------------------------------------------------
\* Accounting is inductive once the cursor and the counters are typed.
AInv ==
    /\ dump \in Dumps
    /\ next \in Nat \ {0}
    /\ left \in Int /\ slack \in Int /\ hsize \in Int
    /\ Accounting

\* The record at the cursor is a record of the dump, with the fields of its tag.
LEMMA RecType ==
    ASSUME AInv, ~AtEnd
    PROVE  /\ Rec \in Record \cup SubRecord
           /\ Rec.tag \in SubTags => Rec \in SubRecord
           /\ Rec.tag = "heap" => Rec.rlen \in Nat
  <1>1. dump \in Seq(Record \cup SubRecord)
    BY DumpsAssumption DEF AInv
  <1>2. next \in 1..Len(dump)
    BY <1>1 DEF AInv, AtEnd
  <1>3. Rec \in Record \cup SubRecord
    <2> HIDE DEF Record, SubRecord
    <2> QED BY <1>1, <1>2 DEF Rec
  <1> QED BY <1>3 DEF Record, SubRecord, SubTags

\* The handlers that go through Consume.
LEMMA ConsumeAInv ==
    ASSUME AInv, pc = "heap", ~AtEnd, Rec.tag \in SubTags \ {"bad"}, Consume,
           slack' = slack + Miscount(Rec)
    PROVE  AInv'
  <1> DEFINE ch == BytesCharged(Rec)
             rd == BytesRead(Rec)
  <1>1. /\ rd \in Int /\ ch \in Int
        /\ Miscount(Rec) \in Nat /\ rd = ch + Miscount(Rec)
    BY RecType, ChargedIsRead
  <1>2. /\ left' = left - rd /\ next' = next + 1 /\ eof' = eof /\ dump' = dump
        /\ hsize' = (hsize - ch) % Modulus
    BY DEF Consume, env
  <1> HIDE DEF ch, rd
  <1>3. /\ left \in Int /\ slack \in Int /\ hsize \in Int
        /\ next \in Nat \ {0} /\ dump \in Dumps
    BY DEF AInv
  <1>4. left' \in Int /\ slack' \in Int /\ left' + slack' = (left + slack) - ch
    BY <1>1, <1>2, <1>3
  <1>5. hsize' \in Int
    BY <1>1, <1>2, <1>3, SizesAssumption, ModDef
  <1>6. ~eof => hsize' = (left' + slack') % Modulus
    <2> SUFFICES ASSUME ~eof PROVE hsize' = (left' + slack') % Modulus
      OBVIOUS
    <2>1. hsize = (left + slack) % Modulus
      BY DEF AInv, Accounting
    <2>2. (((left + slack) % Modulus) - ch) % Modulus = ((left + slack) - ch) % Modulus
      <3>1. PICK a \in Int : a = left + slack
        BY <1>3
      <3>2. Modulus \in Nat \ {0} /\ ch \in Int
        BY <1>1, SizesAssumption
      <3>3. ((a % Modulus) - ch) % Modulus = (a - ch) % Modulus
        BY <3>2, ModMinus
      <3> QED BY <3>1, <3>3
    <2> QED BY <1>2, <1>4, <2>1, <2>2
  <1> QED BY <1>2, <1>3, <1>4, <1>5, <1>6 DEF AInv, Accounting

\* What a handler leaves in slack.
LEMMA HandlerSlack ==
    ASSUME AInv, SubRoot \/ SubClass \/ SubInstance \/ SubObjArray \/ SubPrimArray
    PROVE  slack' = slack + Miscount(Rec)
  <1>1. ~AtEnd /\ Rec.tag \in SubTags \ {"bad"}
    BY DEF SubRoot, SubClass, SubInstance, SubObjArray, SubPrimArray, AtSub, SubTags
  <1>2. slack \in Int /\ (Rec.tag # "class" => Miscount(Rec) = 0)
    BY <1>1, RecType, ChargedIsRead DEF AInv
  <1>3. slack' = IF Rec.tag = "class" THEN slack + Miscount(Rec) ELSE slack
    BY DEF SubRoot, SubClass, SubInstance, SubObjArray, SubPrimArray, AtSub
  <1> QED BY <1>2, <1>3

\* Every handler keeps the accounting invariant.
LEMMA NextAInv == AInv /\ [Next]_vars => AInv'
  <1> SUFFICES ASSUME AInv, [Next]_vars PROVE AInv'
    OBVIOUS
  <1>1. CASE /\ UNCHANGED <<dump, next, left, slack, hsize, eof>>
             /\ pc' \in {pc, "record", "exit", "crash", "lost"}
    BY <1>1 DEF AInv, Accounting
  <1>2. CASE ReadUtf8 \/ ReadLoadClass \/ ReadOther
    <2>1. /\ pc # "heap" /\ pc' # "heap" /\ next' = next + 1
          /\ UNCHANGED <<dump, left, slack, hsize, eof>>
      BY <1>2 DEF ReadUtf8, ReadLoadClass, ReadOther, AtRecord, Crash, env, cursor
    <2> QED BY <2>1 DEF AInv, Accounting
  <1>3. CASE BeginHeap
    <2>1. Rec.rlen \in Nat
      BY <1>3, RecType DEF BeginHeap, AtRecord
    <2>2. /\ next' = next + 1 /\ hsize' = Rec.rlen % Modulus /\ left' = Rec.rlen
          /\ slack' = 0 /\ dump' = dump
      BY <1>3 DEF BeginHeap, env
    <2>3. hsize' \in Int /\ left' + slack' = Rec.rlen
      BY <2>1, <2>2, SizesAssumption, ModDef
    <2> QED BY <2>1, <2>2, <2>3 DEF AInv, Accounting
  <1>4. CASE SubRoot \/ SubClass \/ SubInstance \/ SubObjArray \/ SubPrimArray
    <2>1. /\ pc = "heap" /\ ~AtEnd /\ Rec.tag \in SubTags \ {"bad"} /\ Consume
          /\ slack' = slack + Miscount(Rec)
      BY HandlerSlack, <1>4 DEF SubRoot, SubClass, SubInstance, SubObjArray, SubPrimArray,
                  AtSub, SubTags
    <2> QED BY <2>1, ConsumeAInv
  <1>5. CASE SubBad
    <2>1. /\ next' = next + 1 /\ hsize' = 0 /\ slack' = slack /\ dump' = dump
          /\ eof' = eof /\ pc = "heap" /\ pc' = pc /\ hsize > 0
          /\ left' = left - 1 - ((hsize - 1) % Modulus)
      BY <1>5 DEF SubBad, AtSub, env
    <2>2. left \in Int /\ slack \in Int /\ hsize \in Int
      BY DEF AInv
    <2>3. (hsize - 1) % Modulus \in Int
      BY <2>2, SizesAssumption, ModDef
    <2>4. ~eof => (left' + slack') % Modulus = 0
      <3> SUFFICES ASSUME ~eof PROVE (left' + slack') % Modulus = 0
        OBVIOUS
      <3>1. hsize = (left + slack) % Modulus
        BY <2>1 DEF AInv, Accounting
      <3>2. hsize \in 0..(Modulus - 1)
        BY <2>2, <3>1, SizesAssumption, ModDef
      <3>3. (hsize - 1) % Modulus = hsize - 1
        BY <2>1, <2>2, <3>2, SizesAssumption
      <3>4. left' + slack' = (left + slack) - hsize
        BY <2>1, <2>2, <3>3
      <3>5. (((left + slack) % Modulus) - hsize) % Modulus = ((left + slack) - hsize) % Modulus
        <4>1. PICK a \in Int : a = left + slack
          BY <2>2
        <4>2. ((a % Modulus) - hsize) % Modulus = (a - hsize) % Modulus
          BY <2>2, SizesAssumption, ModMinus
        <4> QED BY <4>1, <4>2
      <3>6. ((left + slack) % Modulus) - hsize = 0
        BY <2>2, <3>1
      <3>7. 0 % Modulus = 0
        BY SizesAssumption
      <3> QED BY <3>4, <3>5, <3>6, <3>7
    <2> QED BY <2>1, <2>2, <2>3, <2>4 DEF AInv, Accounting
  <1>6. CASE EofRoot
    <2>1. /\ hsize' = (hsize - (1 + IdSize)) % Modulus /\ eof' = TRUE
          /\ UNCHANGED <<dump, next, left, slack>>
      BY <1>6 DEF EofRoot, env
    <2>2. hsize' \in Int
      BY <2>1, SizesAssumption, ModDef DEF AInv
    <2> QED BY <2>1, <2>2 DEF AInv, Accounting
  <1>7. CASE ReadHeader \/ Exit \/ HeapDone \/ Lost
    BY <1>1, <1>7 DEF ReadHeader, Exit, HeapDone, Lost, env, cursor
  <1>8. CASE Truncated
    BY <1>8 DEF Truncated, env, AInv, Accounting
  <1>9. CASE Terminated \/ UNCHANGED vars
    BY <1>1, <1>9 DEF Terminated, vars, env, cursor
  <1> QED
    BY <1>2, <1>3, <1>4, <1>5, <1>6, <1>7, <1>8, <1>9 DEF Next

\* For every file and every identifier size, as long as the file has not ended
\* hsize equals the bytes that are left of the heap dump record plus the number of
\* constant pool entries, and twice that of illegal booleans, read in it.
THEOREM AccountingHolds == Spec => []Accounting
  <1>1. Init => AInv
    BY DEF Init, AInv, Accounting
  <1>2. AInv => Accounting
    BY DEF AInv
  <1> QED BY <1>1, <1>2, NextAInv, PTL DEF Spec

-----------------------------------------------------------------------------
(* Reader and file stay in step.                                           *)

\* What the file has left of its heap dump record at the cursor.
Due == Rest(dump)[next]

\* Where the cursor stands.  At a record no heap dump is open; inside one, left is
\* what the file has left, unless the rest was skipped after a miscount; and only a
\* miscount or the resolver leaves it elsewhere.
InStep ==
    /\ slack \in Nat
    /\ pc \in {"header", "heap"} => synced
    /\ pc = "header" => next = 1
    /\ pc = "record" /\ synced /\ ~AtEnd => Due = 0
    /\ pc = "record" /\ ~synced => slack > 0 \/ Selected # {}
    /\ pc = "heap" /\ ~AtEnd => /\ Due = 0 \/ left = Due
                                /\ slack = 0 => left = Due

\* The inductive invariant.
LInv == AInv /\ InStep /\ LostOnlyKnownWays

\* What Framed says of the record at the cursor.
LEMMA FramedHere ==
    ASSUME AInv, ~AtEnd
    PROVE  /\ Due \in 0..(Modulus - 1)
           /\ Due > 0 <=> Rec.tag \in SubTags
           /\ Rec.tag \in SubTags => Rest(dump)[next + 1] = Due - BytesRead(Rec)
           /\ Rec.tag = "bad" => Rest(dump)[next + 1] = 0
           /\ Rec.tag = "heap" => Rest(dump)[next + 1] = Rec.rlen
           /\ Rec.tag \notin SubTags \cup {"heap"} => Rest(dump)[next + 1] = 0
  <1>1. dump \in Seq(Record \cup SubRecord) /\ dump \in Dumps
    BY DumpsAssumption DEF AInv
  <1>2. next \in DOMAIN dump
    <2> HIDE DEF Record, SubRecord
    <2>1. DOMAIN dump = 1..Len(dump) /\ Len(dump) \in Nat
      BY <1>1
    <2> QED BY <2>1 DEF AInv, AtEnd
  <1>3. Framed(dump, Rest(dump))
    BY <1>1, FramedAssumption
  <1> QED BY <1>2, <1>3 DEF Framed, Due, Rec

\* A handler of a sub-record moves the cursor as the file is framed.
LEMMA ConsumeInStep ==
    ASSUME LInv, pc = "heap", ~AtEnd, Rec.tag \in SubTags \ {"bad"}, Consume,
           pc' \in {"heap", "crash", "lost"},
           slack' = slack + Miscount(Rec)
    PROVE  InStep'
  <1>1. AInv /\ slack \in Nat /\ synced /\ (Due = 0 \/ left = Due) /\ (slack = 0 => left = Due)
    BY DEF LInv, InStep
  <1>2. /\ Rec \in SubRecord
        /\ Miscount(Rec) \in Nat
    BY <1>1, RecType, ChargedIsRead
  <1>3. /\ next' = next + 1 /\ left' = left - BytesRead(Rec)
        /\ UNCHANGED <<dump, eof, synced>>
    BY DEF Consume, env
  <1>4. /\ Due > 0 /\ Rest(dump)[next + 1] = Due - BytesRead(Rec) /\ Due \in 0..(Modulus - 1)
    BY <1>1, FramedHere
  <1>5. left = Due
    BY <1>1, <1>4
  <1>6. Due' = left'
    BY <1>3, <1>4, <1>5 DEF Due
  <1>7. slack' \in Nat
    BY <1>1, <1>2
  <1> QED BY <1>1, <1>3, <1>6, <1>7 DEF InStep

\* The rest of a heap dump record is skipped.
LEMMA BadInStep ==
    ASSUME LInv, SubBad
    PROVE  InStep'
  <1>1. /\ pc = "heap" /\ hsize > 0 /\ ~AtEnd /\ Rec.tag = "bad" /\ next' = next + 1
        /\ left' = left - 1 - ((hsize - 1) % Modulus)
        /\ UNCHANGED <<dump, eof, synced, slack, pc>>
    BY DEF SubBad, AtSub, env
  <1>2. /\ AInv /\ slack \in Nat /\ synced /\ (slack = 0 => left = Due)
    BY <1>1 DEF LInv, InStep
  <1>3. Rest(dump)[next + 1] = 0 /\ Due \in 0..(Modulus - 1)
    BY <1>1, <1>2, FramedHere
  <1>4. Due' = 0
    BY <1>1, <1>3 DEF Due
  <1>5. ASSUME slack = 0 PROVE left' = 0
    <2>1. left \in 0..(Modulus - 1)
      BY <1>2, <1>3, <1>5
    <2>2. hsize = (left + slack) % Modulus
      BY <1>1, <1>2 DEF AInv, Accounting, AtEnd
    <2>3. left + slack = left
      BY <1>5, <2>1
    <2>4. hsize = left
      BY <2>1, <2>2, <2>3, SizesAssumption, ModSmall
    <2>5. (hsize - 1) % Modulus = hsize - 1
      <3>1. hsize - 1 \in 0..(Modulus - 1)
        BY <1>1, <2>1, <2>4, SizesAssumption
      <3> QED BY <3>1, SizesAssumption, ModSmall
    <2> QED BY <1>1, <2>1, <2>4, <2>5
  <1> QED BY <1>1, <1>2, <1>4, <1>5 DEF InStep

\* Lost is taken only after a miscount or after the resolver moved the cursor.
LEMMA LostInStep ==
    ASSUME LInv, Lost
    PROVE  slack > 0 \/ (~synced /\ Selected # {})
  <1>0. ~synced => slack > 0 \/ Selected # {}
    BY DEF LInv, InStep, Lost
  <1> SUFFICES ASSUME ~(slack > 0), synced PROVE FALSE
    BY <1>0
  <1>1. AInv /\ slack \in Nat
    BY DEF LInv, InStep
  <1>2. slack = 0
    BY <1>1
  <1>3. CASE pc = "record" /\ ~AtEnd /\ Rec.tag \in SubTags
    <2>1. Due = 0
      BY <1>3 DEF LInv, InStep
    <2>2. Due > 0
      BY <1>1, <1>3, FramedHere
    <2> QED BY <2>1, <2>2
  <1>4. CASE pc = "heap" /\ hsize > 0 /\ ~AtEnd /\ Rec.tag \notin SubTags
    <2>1. left = Due
      BY <1>2, <1>4 DEF LInv, InStep
    <2>2. Due \in 0..(Modulus - 1) /\ ~(Due > 0)
      BY <1>1, <1>4, FramedHere
    <2>3. left = 0
      BY <2>1, <2>2
    <2>4. hsize = (left + slack) % Modulus
      BY <1>1, <1>4 DEF AInv, Accounting, AtEnd
    <2>5. hsize = 0 % Modulus
      BY <1>2, <2>3, <2>4
    <2>6. 0 % Modulus = 0
      BY SizesAssumption
    <2> QED BY <1>4, <2>5, <2>6
  <1> QED BY <1>3, <1>4 DEF Lost

\* Only values without a type make a handler lose its way.
LEMMA HandlerLost ==
    ASSUME LInv, SubRoot \/ SubClass \/ SubInstance \/ SubObjArray \/ SubPrimArray, pc' = "lost"
    PROVE  \E i \in 1..(next' - 1) : OfNoType(dump'[i])
  <1>1. pc = "heap" /\ Consume
    BY DEF SubRoot, SubClass, SubInstance, SubObjArray, SubPrimArray, AtSub
  <1>2. OfNoType(Rec)
    BY <1>1 DEF SubRoot, SubClass, SubInstance, SubObjArray, SubPrimArray, ObjArrayOf, StoreArray,
                Crash, Onward
  <1>3. next' = next + 1 /\ dump' = dump /\ next \in Nat \ {0}
    BY <1>1 DEF Consume, env, LInv, AInv
  <1>4. next \in 1..(next' - 1)
    BY <1>3
  <1> QED BY <1>2, <1>3, <1>4 DEF Rec

\* What HeapDone leaves behind.
LEMMA DoneInStep ==
    ASSUME LInv, HeapDone
    PROVE  InStep'
  <1>1. AInv /\ InStep
    BY DEF LInv
  <1>2. /\ pc = "heap" /\ hsize = 0 /\ pc' \in {"record", "crash"}
        /\ UNCHANGED <<dump, next, left, eof, slack, fclass, hTable, cinfo, rcTable>>
        /\ synced' => left = 0 \/ AtEnd
        /\ ~synced' => Selected # {} \/ ~(synced /\ (left = 0 \/ AtEnd))
    BY DEF HeapDone, env, tables
  <1>3. Due' = Due /\ AtEnd' = AtEnd /\ Selected' = Selected
    BY <1>2 DEF Due, AtEnd, Selected, findClass
  <1>4. synced /\ slack \in Nat /\ (~AtEnd => Due = 0 \/ left = Due)
    BY <1>1, <1>2 DEF InStep
  <1>5. ASSUME ~synced', Selected = {} PROVE slack > 0
    <2> SUFFICES ASSUME slack = 0 PROVE FALSE
      BY <1>4
    <2>1. ~AtEnd /\ left # 0
      BY <1>2, <1>4, <1>5
    <2>2. left = Due /\ Due \in 0..(Modulus - 1)
      BY <1>1, <1>2, <2>1, FramedHere DEF InStep
    <2>3. hsize = (left + slack) % Modulus
      BY <1>1, <1>2, <2>1 DEF AInv, Accounting, AtEnd
    <2>4. left + slack = left
      BY <2>2
    <2>5. hsize = left
      BY <2>2, <2>3, <2>4, SizesAssumption, ModSmall
    <2> QED BY <1>2, <2>1, <2>5
  <1> QED BY <1>2, <1>3, <1>4, <1>5 DEF InStep

\* Every step keeps reader and file in step.
LEMMA NextLInv == LInv /\ [Next]_vars => LInv'
  <1> SUFFICES ASSUME LInv, [Next]_vars PROVE LInv'
    OBVIOUS
  <1>1. AInv /\ InStep /\ LostOnlyKnownWays
    BY DEF LInv
  <1>2. AInv'
    BY <1>1, NextAInv
  <1> SUFFICES InStep' /\ LostOnlyKnownWays'
    BY <1>2 DEF LInv
  <1>3. CASE ReadUtf8 \/ ReadLoadClass \/ ReadOther
    <2>1. /\ pc = "record" /\ pc' \in {"record", "crash"} /\ next' = next + 1 /\ ~AtEnd /\ synced
          /\ Rec.tag \notin SubTags \cup {"heap"}
          /\ UNCHANGED <<dump, left, slack, eof, synced>>
      BY <1>3 DEF ReadUtf8, ReadLoadClass, ReadOther, AtRecord, Crash, env, cursor, SubTags
    <2>2. Rest(dump)[next + 1] = 0
      BY <1>1, <2>1, FramedHere
    <2>3. Due' = 0
      BY <2>1, <2>2 DEF Due
    <2> QED BY <1>1, <2>1, <2>3 DEF InStep, LostOnlyKnownWays
  <1>4. CASE BeginHeap
    <2>1. /\ pc = "record" /\ pc' = "heap" /\ next' = next + 1 /\ ~AtEnd /\ synced
          /\ Rec.tag = "heap" /\ left' = Rec.rlen /\ slack' = 0
          /\ UNCHANGED <<dump, eof, synced>>
      BY <1>4 DEF BeginHeap, AtRecord, env
    <2>2. Rest(dump)[next + 1] = Rec.rlen
      BY <1>1, <2>1, FramedHere
    <2>3. Due' = left'
      BY <2>1, <2>2 DEF Due
    <2> QED BY <2>1, <2>3 DEF InStep, LostOnlyKnownWays
  <1>5. CASE SubRoot \/ SubClass \/ SubInstance \/ SubObjArray \/ SubPrimArray
    <2>1. /\ pc = "heap" /\ ~AtEnd /\ Rec.tag \in SubTags \ {"bad"} /\ Consume
          /\ slack' = slack + Miscount(Rec)
      BY HandlerSlack, <1>1, <1>5 DEF SubRoot, SubClass, SubInstance, SubObjArray, SubPrimArray,
                  AtSub, SubTags
    <2>2. pc' \in {"heap", "crash", "lost"}
      BY <1>5, <2>1 DEF SubRoot, SubClass, SubInstance, SubObjArray, SubPrimArray, ObjArrayOf,
                        StoreArray, Crash, Onward
    <2>3. InStep'
      BY <2>1, <2>2, ConsumeInStep
    <2>4. LostOnlyKnownWays'
      BY <1>5, HandlerLost DEF LostOnlyKnownWays
    <2> QED BY <2>3, <2>4
  <1>6. CASE SubBad
    <2>1. pc' = "heap"
      BY <1>6 DEF SubBad, AtSub
    <2> QED BY <1>6, <2>1, BadInStep DEF LostOnlyKnownWays
  <1>7. CASE EofRoot
    BY <1>1, <1>7 DEF EofRoot, AtEnd, InStep, LostOnlyKnownWays
  <1>8. CASE HeapDone
    <2>1. pc' \in {"record", "crash"}
      BY <1>8 DEF HeapDone
    <2> QED BY <1>8, <2>1, DoneInStep DEF LostOnlyKnownWays
  <1>9. CASE Lost
    <2>1. /\ pc' = "lost" /\ slack' = slack /\ synced' = synced
          /\ UNCHANGED <<fclass, hTable, cinfo, rcTable>>
      BY <1>9 DEF Lost, cursor, env, tables
    <2>2. slack > 0 \/ (~synced /\ Selected # {})
      BY <1>9, LostInStep
    <2>3. Selected' = Selected
      BY <2>1 DEF Selected, findClass
    <2> QED BY <1>1, <2>1, <2>2, <2>3 DEF InStep, LostOnlyKnownWays
  <1>10. CASE Truncated
    <2>1. /\ UNCHANGED <<dump, next, left, slack, synced>> /\ pc \in {"record", "heap"} /\ synced
          /\ \/ eof' = TRUE /\ pc' = pc
             \/ pc' \in {"exit", "torn"}
      BY <1>10 DEF Truncated, env
    <2>2. eof' = TRUE => AtEnd'
      BY DEF AtEnd
    <2> QED BY <1>1, <2>1, <2>2 DEF InStep, LostOnlyKnownWays
  <1>11. CASE ReadHeader
    <2>1. /\ pc = "header" /\ pc' \in {"record", "exit"}
          /\ UNCHANGED <<dump, next, left, eof, slack, synced>>
      BY <1>11 DEF ReadHeader, env, cursor
    <2>2. next = 1 /\ synced
      BY <1>1, <2>1 DEF InStep
    <2>3. Due = 0
      <3>1. dump \in Dumps
        BY <1>1 DEF AInv
      <3> QED BY <2>2, <3>1, FramedAssumption DEF Framed, Due
    <2>4. Due' = Due
      BY <2>1 DEF Due
    <2> QED BY <1>1, <2>1, <2>3, <2>4 DEF InStep, LostOnlyKnownWays
  <1>12. CASE Exit
    <2>1. pc' = "exit" /\ slack' = slack
      BY <1>12 DEF Exit
    <2> QED BY <1>1, <2>1 DEF InStep, LostOnlyKnownWays
  <1>13. CASE Terminated \/ UNCHANGED vars
    <2>1. UNCHANGED <<dump, next, left, eof, slack, synced, pc, fclass, hTable, cinfo, rcTable>>
      BY <1>13 DEF Terminated, vars, env, cursor, tables
    <2>2. Due' = Due /\ AtEnd' = AtEnd /\ Selected' = Selected
      BY <2>1 DEF Due, AtEnd, Selected, findClass
    <2> QED BY <1>1, <2>1, <2>2 DEF InStep, LostOnlyKnownWays
  <1> QED
    BY <1>3, <1>4, <1>5, <1>6, <1>7, <1>8, <1>9, <1>10, <1>11, <1>12, <1>13 DEF Next

\* On every file whose heap dumps are framed, the loops of readDump and readHeap take
\* a sub-record for a record, or the reverse, only if readValue miscounted in the heap
\* dump record, if objects were selected for the resolver to read, or after a value or
\* an array of unknown type.
THEOREM StaysWithTheFile == Spec => []LostOnlyKnownWays
  <1>1. Init => LInv
    <2> SUFFICES ASSUME Init PROVE LInv
      OBVIOUS
    <2>1. AInv
      BY DEF Init, AInv, Accounting
    <2>2. InStep /\ LostOnlyKnownWays
      BY DEF Init, InStep, LostOnlyKnownWays
    <2> QED BY <2>1, <2>2 DEF LInv
  <1>2. LInv => LostOnlyKnownWays
    BY DEF LInv
  <1> QED BY <1>1, <1>2, NextLInv, PTL DEF Spec
=============================================================================
