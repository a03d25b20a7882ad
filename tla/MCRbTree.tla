----------------------------- MODULE MCRbTree -----------------------------
(***************************************************************************)
(* RbTree with enough keys for every rebalancing case of insertion and     *)
(* deletion while one datum is allocated, and with few keys that two data  *)
(* share and that are freed under them.                                    *)
(***************************************************************************)
EXTENDS RbTree, TLC

CONSTANTS a, b

ManyKeys == 1 .. 10
FewKeys == 1 .. 5

\* Callbacks that keep what they find, and one that changes it.
MCCallbacks == {Null :> a @@ a :> b @@ b :> b, Null :> b @@ b :> a @@ a :> a}

DataSymmetry == Permutations(Data)
=============================================================================
