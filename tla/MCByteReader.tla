---------------------------- MODULE MCByteReader ----------------------------
(***************************************************************************)
(* Files with bytes of four values, and every file they are cut down to: a *)
(* right or a wrong magic number, known, unknown, unended and overlong     *)
(* versions, identifiers of 4, 8 and 6 bytes, and up to two records, of    *)
(* strings with all lengths around the size of an identifier, of other     *)
(* records and of a tag of all ones.  The bytes behind a length are not    *)
(* tied to it, so records overlap and are cut off.                         *)
(***************************************************************************)
EXTENDS ByteReader

MCMagic == <<2, 3, 1, 1>>
MCVersions == <<<<1>>, <<1, 2>>, <<1, 3>>>>

Beginnings ==
    {MCMagic \o v : v \in {<<1, 0>>, <<1, 2, 0>>, <<1, 3, 0>>,
                           <<2, 0>>, <<1, 2, 2, 0>>, <<1, 2, 2, 2, 0>>, <<1, 3, 3, 3, 3, 0>>}}
    \cup {<<2, 3, 1, 2, 1, 0>>}
Sizes == {<<0, 0, 1, 0>>, <<0, 0, 2, 0>>, <<0, 0, 1, 2>>}
Dates == {<<0, 0, 0, 0, 1, 2, 3, 0>>, <<0, 1, 3, 0, 2, 1, 0, 3>>, <<3, 0, 0, 1, 0, 0, 3, 3>>}
Headers == {b \o s \o d : b \in Beginnings, s \in Sizes, d \in Dates}

Lengths == {0, 3, 4, 5, 7, 8, 9, 10}
Length(n) == <<0, 0, n \div Base, n % Base>>
Bodies == {<<>>, <<0, 0, 0, 3, 2>>, <<0, 0, 2, 0, 0, 0, 0, 1, 3, 3>>, <<3, 0, 0, 1, 2, 2, 2, 1, 1>>}
Record(t, n, b) == <<t, 0, 0, 0, 0>> \o Length(n) \o b
Records == {Record(t, n, b) : t \in {1, 2, 3}, n \in Lengths, b \in Bodies}
           \cup {<<1, 0, 0, 0, 0, 2, 0, 0, 0>>, <<2, 0, 0, 0, 0, 3, 3, 3, 3>>}

Good == MCMagic \o <<1, 2, 0>>
Lists == {<<>>} \cup {Good \o s \o d \o r : s \in {<<0, 0, 1, 0>>, <<0, 0, 2, 0>>},
                      d \in {<<0, 1, 3, 0, 2, 1, 0, 3>>},
                      r \in Records \cup {q \o r : q \in Records,
                              r \in {Record(1, 5, <<0, 0, 0, 3, 2>>), Record(2, 0, <<>>), <<3>>}}}

MCFiles == UNION {{SubSeq(f, 1, n) : n \in 0 .. Len(f)} : f \in Headers \cup Lists}
=============================================================================
