---------------------------- MODULE MCClassLayout ----------------------------
(***************************************************************************)
(* Four classes: a chain, and a class with two subclasses.  Each class has *)
(* no field, or two of different width.                                    *)
(***************************************************************************)
EXTENDS ClassLayout

Four == 1..4

Chain  == <<0, 1, 2, 3>>
Fork   == <<0, 1, 2, 2>>

SmallWidth == [L |-> 4, B |-> 1]

FieldLists == {<<>>, <<"L", "B">>}

SmallDumps == [super : {Chain, Fork}, fields : [Four -> FieldLists]]

\* All classes at once; all of them twice; a class without dump; a subclass, or
\* a superclass, dumped in a later record.
SmallFiles == {<<Four>>, <<Four, {2}>>, <<{1, 2, 3}>>, <<{1, 2}, {3, 4}>>,
               <<{1, 3, 4}, {2}>>}

\* No superclass; one that is a class, with and without fields of its own; one
\* that is not a class.
SmallGarbage == {[super |-> 0, cfields |-> 1], [super |-> 2, cfields |-> 0],
                 [super |-> 2, cfields |-> 1], [super |-> 9, cfields |-> 0]}

=============================================================================
