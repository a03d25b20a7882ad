---------------------------- MODULE Dictionary ----------------------------
(***************************************************************************)
(* What a table of the program promises its users: a partial function from *)
(* 32-bit keys to data pointers.  phat keeps its strings, classes, roots   *)
(* and heap objects in such tables; RbTree.tla models the red-black tree   *)
(* of rbtree.c that provides them and is checked to implement this.        *)
(***************************************************************************)
EXTENDS Functions, TLC

CONSTANTS
    Key,        \* the keys
    Data        \* the data pointers

VARIABLES
    dict,       \* the table's contents, a function from a subset of Key
    auto,       \* TRUE when the table goes away with its last entry
    up          \* TRUE while the table exists

dictVars == <<dict, auto, up>>

Empty == [k \in {} |-> k]

DictTypeOK ==
    /\ DOMAIN dict \subseteq Key
    /\ \A k \in DOMAIN dict : dict[k] \in Data
    /\ auto \in BOOLEAN
    /\ up \in BOOLEAN

DictInit ==
    /\ dict = Empty
    /\ auto = FALSE
    /\ up = FALSE

(* A new table is empty.                                                   *)
Open ==
    /\ ~up
    /\ up' = TRUE
    /\ auto' \in BOOLEAN
    /\ UNCHANGED dict

(* Storing under a key replaces what the key held and touches no other.    *)
Store(k, d) ==
    /\ up
    /\ dict' = k :> d @@ dict
    /\ UNCHANGED <<auto, up>>

(* Removing a key removes that key alone; an autofree table whose last     *)
(* entry goes is closed in the same step.                                  *)
Remove(k) ==
    /\ up
    /\ k \in DOMAIN dict
    /\ dict' = Restrict(dict, DOMAIN dict \ {k})
    /\ up' = ~(auto /\ DOMAIN dict = {k})
    /\ UNCHANGED auto

(* Closing the table forgets every entry.                                  *)
Close ==
    /\ up
    /\ up' = FALSE
    /\ dict' = Empty
    /\ UNCHANGED auto

DictNext ==
    \/ Open
    \/ \E k \in Key, d \in Data : Store(k, d)
    \/ \E k \in Key : Remove(k)
    \/ Close

DictSpec == DictInit /\ [][DictNext]_dictVars
=============================================================================
