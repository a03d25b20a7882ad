---------------------------- MODULE MCHprofReader ----------------------------
(***************************************************************************)
(* Small files for HprofReader.  Classes: 30 = java/lang/Object, 31 =      *)
(* java/lang/String, 32 = "A", 33 = "[C"; "[I" is never loaded.  Names have*)
(* the identifiers 40 and up.  Objects 1 and 65 have the same 32-bit key.  *)
(***************************************************************************)
EXTENDS HprofReader

MCHash == [n \in {"java/lang/Object", "java/lang/String", "A", "[Z", "[C", "[F",
                  "[D", "[B", "[S", "[I", "[J"} |->
             CASE n = "java/lang/Object" -> 11 [] n = "java/lang/String" -> 12
               [] n = "A" -> 13 [] n = "[C" -> 14 [] n = "[I" -> 15 [] n = "[Z" -> 16
               [] n = "[F" -> 17 [] n = "[D" -> 18 [] n = "[B" -> 19 [] n = "[S" -> 20
               [] n = "[J" -> 21]

Utf8(i, n)     == [tag |-> "utf8", id |-> i, name |-> n]
Load(s, i, n)  == [tag |-> "load", serial |-> s, id |-> i, nameId |-> n]
Frame(s)       == [tag |-> "frame", serial |-> s]
Other          == [tag |-> "other"]
V(r, b, z, u)  == [ref |-> r, b1 |-> 0, b2 |-> 0, b4 |-> 0, b8 |-> b, illegal |-> z, unknown |-> u]
ClassDump(i, s, cp) == [tag |-> "class", id |-> i, super |-> s, cpool |-> V(cp, 0, 0, 0),
                        statics |-> V(1, 1, 0, 0), cfields |-> 2]
OddDump(cp, st) == [ClassDump(32, 30, 0) EXCEPT !.cpool = cp, !.statics = st]
InstOf(i, c)   == [tag |-> "inst", id |-> i, class |-> c, isz |-> 3]
OArr(i, c)     == [tag |-> "oarray", id |-> i, class |-> c, n |-> 2]
PArr(i, t)     == [tag |-> "parray", id |-> i, type |-> t, n |-> 3]
Bad            == [tag |-> "bad", len |-> 7]
Root(k)        == [tag |-> "root", kind |-> k, id |-> 1]

Strings == <<Utf8(40, "java/lang/Object"), Utf8(41, "java/lang/String"),
             Utf8(42, "A"), Utf8(43, "[C")>>
ObjLoad == <<Load(1, 30, 40)>>
StrLoad == <<Load(2, 31, 41)>>
ALoad   == <<Load(3, 32, 42)>>
CLoad   == <<Load(4, 33, 43)>>
ObjDump == <<ClassDump(30, 0, 0)>>
StrDump == <<ClassDump(31, 30, 0)>>
ADump   == <<ClassDump(32, 30, 0)>>
CDump   == <<ClassDump(33, 30, 0)>>

\* What precedes the first heap dump, and the class dumps in it: complete; no
\* "[C"; no String; "A" loaded twice; a name, a class, a serial that is missing.
Preludes ==
    {<<Strings \o ObjLoad \o StrLoad \o ALoad \o CLoad \o <<Frame(3)>>,
       ObjDump \o StrDump \o ADump \o CDump>>,
     <<Strings \o ObjLoad \o StrLoad \o ALoad, ObjDump \o StrDump \o ADump>>,
     <<Strings \o ObjLoad \o ALoad \o CLoad, ObjDump \o ADump \o CDump>>,
     <<Strings \o ObjLoad \o StrLoad \o ALoad \o ALoad, ObjDump \o StrDump \o ADump>>,
     <<Strings \o StrLoad \o ALoad \o CLoad, StrDump \o ADump>>,
     <<Strings \o ALoad, ObjDump>>,
     <<<<Utf8(40, "A"), Frame(9)>>, <<>>>>,
     <<ObjLoad, <<>>>>}

Subs == {InstOf(1, 32), InstOf(65, 32), InstOf(2, 31), OArr(3, 32), OArr(1, 33),
         PArr(4, 5), PArr(5, 10), ClassDump(32, 30, 1)}

\* What no virtual machine writes: booleans other than 0 and 1, values and arrays of
\* unknown type, one of them with the number of the class "A".
Odd == {OddDump(V(0, 0, 1, 0), V(0, 0, 0, 0)), OddDump(V(0, 0, 0, 0), V(1, 0, 2, 0)),
        OddDump(V(0, 0, 0, 1), V(0, 0, 0, 0)), OddDump(V(0, 0, 0, 0), V(1, 0, 0, 1)),
        PArr(6, 3), PArr(6, 32)}

Bodies == {<<>>} \cup {<<a>> : a \in Subs} \cup {<<a, b>> : a, b \in Subs \cup Odd}
          \cup {<<a, b, c>> : a, b, c \in Subs}

RootBody == <<Root("unknown"), Root("thread"), Root("global"), Root("local"),
              Root("frame"), Root("stack"), Root("sticky"), Root("block"),
              Root("monitor")>>

Bytes(subs) == LET S[i \in 0..Len(subs)] ==
                     IF i = 0 THEN 0 ELSE S[i - 1] + BytesRead(subs[i])
               IN  S[Len(subs)]
Heap(subs) == <<[tag |-> "heap", rlen |-> Bytes(subs)]>> \o subs

WholeDumps ==
    {p[1] \o Heap(p[2] \o b) \o <<Other>> : p \in Preludes, b \in Bodies}
    \cup {p[1] \o Heap(p[2] \o RootBody) \o <<Other>> \o Heap(<<a, Bad>>) \o <<Other>> :
             p \in Preludes, a \in Subs \cup Odd}

\* Arrays of a primitive type whose class, "[I", the file does not load.
ArrayDumps == {Strings \o ObjLoad \o StrLoad \o ALoad
                 \o Heap(ObjDump \o StrDump \o ADump \o b) \o <<Other>> :
                 b \in {<<a, c, d>> : a, c, d \in {InstOf(1, 32), OArr(3, 32), PArr(5, 10)}}}

\* A heap dump without constant pools, followed by another record.
PlainDumps ==
    {Strings \o ObjLoad \o StrLoad \o ALoad \o CLoad
       \o Heap(ObjDump \o StrDump \o ADump \o CDump \o <<InstOf(1, 32), PArr(4, 5)>>)
       \o <<Other>>}

\* Files that may end anywhere.
ShortDumps == {ObjLoad, <<Utf8(40, "A"), Load(3, 32, 40)>>
                           \o Heap(<<Root("frame"), InstOf(1, 32), PArr(5, 10)>>) \o <<Other>>}

MCDumps == WholeDumps \cup ShortDumps
=============================================================================
