------------------------- MODULE MCInstanceResolver -------------------------
(***************************************************************************)
(* Small heaps for InstanceResolver: class "A" has a reference and an int  *)
(* of its own and a reference inherited from a superclass (so the order of *)
(* ci->values is not the order of the file), "O" is an object array class, *)
(* "V" a primitive array class, "F" a class with a float and a reference.  *)
(***************************************************************************)
EXTENDS InstanceResolver

MCClass == {"A", "O", "V", "F"}

MCFields == [c \in MCClass |->
    CASE c = "A" -> <<[ftype |-> "L", slot |-> 3], [ftype |-> "L", slot |-> 1],
                      [ftype |-> "I", slot |-> 2]>>
      [] c = "F" -> <<[ftype |-> "F", slot |-> 1], [ftype |-> "[", slot |-> 2]>>
      [] OTHER   -> <<>>]

MCElemType == [c \in MCClass |-> IF c = "V" THEN "C" ELSE "D"]

Inst(c, b) == [htype |-> "instance", class |-> c, body |-> b]
Arr(t, c, b) == [htype |-> t, class |-> c, body |-> b]

\* An int cell holds 1, which misread as a reference would name object 1.
AObjects == {Inst("A", <<r, 1, q>>) : r \in {0} \cup Obj, q \in {0} \cup Obj}
\* 9 is an identifier that names no object.
OArrays  == {Arr("oarray", "O", <<>>)}
            \cup {Arr("oarray", "O", <<r, q>>) : r \in {9, 1, 2}, q \in {1, 3}}
VArrays  == {Arr("varray", "V", <<>>), Arr("varray", "V", <<1, 2>>),
             Arr("varray", "F", <<1>>)}
FObjects == {Inst("F", <<1, r>>) : r \in Obj}

MCHeaps == {h \in [Obj -> AObjects \cup OArrays \cup VArrays \cup FObjects] :
              /\ h[1] \in AObjects
              /\ h[2] \in AObjects \cup OArrays
              /\ h[3] \in OArrays \cup VArrays \cup FObjects}

MCTargets == {{"A"}, MCClass}

\* Heaps whose classes are all found, for the runs about undefined values.
SmallHeaps == {h \in [Obj -> AObjects \cup {Arr("varray", "V", <<>>)}] :
                 h[1] \in AObjects}
=============================================================================
