-------------------------- MODULE MCInstancePrinter --------------------------
(***************************************************************************)
(* Heaps of three objects: instances and object arrays that refer to any   *)
(* two objects, themselves included, value arrays, empty ones, and arrays  *)
(* with runs of null, unknown and all-ones identifiers around an object.   *)
(* The third object may be missing; a second record brings it, dumps an    *)
(* object again, or holds none.                                            *)
(***************************************************************************)
EXTENDS InstancePrinter

Instance(r) == [kind |-> "instance", refs |-> r]
OArray(r)   == [kind |-> "oarray", refs |-> r]
VArray      == [kind |-> "varray", refs |-> <<>>]
Absent      == [kind |-> "absent", refs |-> <<>>]

Pairs == {<<a, b>> : a, b \in Obj}

Rich == {Instance(r) : r \in Pairs \cup {<<>>, <<0, 3>>}}
        \cup {OArray(r) : r \in Pairs \cup {<<>>, <<0, 0, 3, 0>>, <<Ones, -2, -2, 3, 0>>}}
        \cup {VArray}
Poor == {Instance(<<>>), Instance(<<2, -2>>), OArray(<<1>>), OArray(<<3>>), VArray, Absent}

FirstRecord  == {<<x, y, z>> : x, y \in Rich, z \in Poor}
SecondRecord == {<<Absent, Absent, Absent>>,
                 <<Absent, Absent, Instance(<<2>>)>>,
                 <<Absent, OArray(<<3, 1>>), Absent>>,
                 <<Instance(<<2, 3>>), Absent, VArray>>}

MCRecords == <<FirstRecord, SecondRecord>>
=============================================================================
