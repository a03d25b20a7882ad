------------------------------ MODULE RbTree ------------------------------
(***************************************************************************)
(* The talloc-based red-black tree of rbtree.c, which holds every table of *)
(* phat.  The tree is a graph of nodes joined by left, right and parent    *)
(* pointers; each operation below is the pointer surgery of the C function *)
(* it is named after.  The code writes every case twice, once per side;    *)
(* here a case is written once with the side as a parameter.               *)
(*                                                                         *)
(* A node is a talloc child of the data it points to, so freeing the data  *)
(* runs the node's destructor, which takes the node out of the tree.  The  *)
(* talloc facts used (a free runs the destructors of the children one by   *)
(* one; a steal moves a child) are those of talloc.c.                      *)
(*                                                                         *)
(* The operators recurse as the code does, so this module is for TLC.      *)
(***************************************************************************)
EXTENDS Integers, FiniteSets, Sequences

CONSTANTS
    Key,            \* the keys in use, a set of naturals
    Data,           \* the data pointers callers store
    Callbacks,      \* the callbacks, functions from old data or NULL to new
    Few,            \* the keys in use while more than one datum is, see Roomy
    Null,           \* the NULL pointer
    Dummy           \* the stack-allocated child `dc' of delete_node

ASSUME KeysAreNaturals == Key \subseteq Nat /\ IsFiniteSet(Key)
ASSUME PointersDiffer  == /\ Null \notin Key \cup Data \cup {Dummy}
                          /\ Dummy \notin Key

VARIABLES
    t,              \* the nodes and the root pointer
    up,             \* TRUE while the tree itself is allocated
    auto,           \* the TRBT_AUTOFREE flag
    heap,           \* the data now allocated
    freeing         \* the data whose children talloc_free is working through

vars == <<t, up, auto, heap, freeing>>

(* The node created for key k is written k: an address is only a name, and *)
(* NodesKeepTheirKey checks that this one is free when it is allocated.    *)
Cell == Key \cup {Dummy}
Side == {"left", "right"}
Opposite(s) == IF s = "left" THEN "right" ELSE "left"
NoKey == -1

EmptyTree ==
    [root   |-> Null,
     child  |-> [s \in Side |-> [n \in Cell |-> Null]],
     parent |-> [n \in Cell |-> Null],
     red    |-> [n \in Cell |-> FALSE],
     key    |-> [n \in Cell |-> NoKey],
     data   |-> [n \in Cell |-> Null],
     owner  |-> [n \in Cell |-> Null],
     live   |-> {},         \* the nodes now allocated
     segv   |-> "no"]       \* "null" or "oom" once a NULL node is written

-----------------------------------------------------------------------------
(* Pointer helpers.                                                        *)

(* The side of its parent p a node hangs on: the code tests the left.      *)
SideIn(u, p, n) == IF u.child["left"][p] = n THEN "left" ELSE "right"

trbt_sibling(u, n) ==
    LET p == u.parent[n]
    IN  IF p = Null THEN Null ELSE u.child[Opposite(SideIn(u, p, n))][p]

trbt_uncle(u, n) ==
    LET p == u.parent[n]
    IN  IF p = Null THEN Null ELSE trbt_sibling(u, p)

(* What pointed at n from above, a parent or the root, points at m.        *)
Replace(u, n, m) ==
    LET p == u.parent[n]
    IN  IF p = Null THEN [u EXCEPT !.root = m]
        ELSE [u EXCEPT !.child[SideIn(u, p, n)][p] = m]

SetParent(u, n, p) == IF n = Null THEN u ELSE [u EXCEPT !.parent[n] = p]

(* trbt_rotate_left for s = "left", trbt_rotate_right for s = "right": the *)
(* child on the other side comes up and n goes down on side s.             *)
Rotate(u, n, s) ==
    LET c == u.child[Opposite(s)][n]
        m == u.child[s][c]
        linked == [Replace(u, n, c) EXCEPT
                     !.parent[c] = u.parent[n],
                     !.parent[n] = c,
                     !.child[Opposite(s)][n] = m,
                     !.child[s][c] = n]
    IN  IF c = Null THEN [u EXCEPT !.segv = "null"] ELSE SetParent(linked, m, n)

(* NULL is black, and blackening NULL does nothing.                        *)
IsRed(u, n) == n # Null /\ u.red[n]
ChildRed(u, n, s) == n # Null /\ IsRed(u, u.child[s][n])

Paint(u, n, isRed) ==
    IF n # Null THEN [u EXCEPT !.red[n] = isRed]
    ELSE IF isRed THEN [u EXCEPT !.segv = "null"]
    ELSE u

PaintChild(u, n, s, isRed) ==
    Paint(u, IF n = Null THEN Null ELSE u.child[s][n], isRed)

-----------------------------------------------------------------------------
(* Rebalancing after an insertion: node n has just been coloured red.      *)

insert_case5(u, n) ==
    LET p == u.parent[n]
        g == u.parent[p]
        painted == [u EXCEPT !.red[p] = FALSE, !.red[g] = TRUE]
        leftmost == n = u.child["left"][p] /\ p = u.child["left"][g]
    IN  Rotate(painted, g, IF leftmost THEN "right" ELSE "left")

(* A zigzag is straightened first, and the old parent is the node case 5   *)
(* works on.                                                               *)
insert_case4(u, n) ==
    LET p == u.parent[n]
        g == u.parent[p]
        sp == SideIn(u, g, p)
    IN  CASE g = Null -> u
          [] g # Null /\ SideIn(u, p, n) # sp -> insert_case5(Rotate(u, p, sp), p)
          [] OTHER -> insert_case5(u, n)

RECURSIVE insert_case1(_, _)

insert_case3(u, n) ==
    LET p == u.parent[n]
        g == u.parent[p]
        uncle == trbt_uncle(u, n)
    IN  IF IsRed(u, uncle)
        THEN insert_case1([u EXCEPT !.red[p] = FALSE, !.red[uncle] = FALSE,
                                    !.red[g] = TRUE], g)
        ELSE insert_case4(u, n)

insert_case1(u, n) ==
    LET p == u.parent[n]
    IN  CASE p = Null -> [u EXCEPT !.red[n] = FALSE]
          [] p # Null /\ ~u.red[p] -> u
          [] OTHER -> insert_case3(u, n)

-----------------------------------------------------------------------------
(* Rebalancing after a deletion: the paths through n are one black short.  *)

delete_case6(u, n) ==
    LET p == u.parent[n]
        sib == trbt_sibling(u, n)
        s == SideIn(u, p, n)
        painted == Paint(Paint(u, sib, u.red[p]), p, FALSE)
    IN  Rotate(PaintChild(painted, sib, Opposite(s), FALSE), p, s)

delete_case5(u, n) ==
    LET p == u.parent[n]
        sib == trbt_sibling(u, n)
        s == SideIn(u, p, n)
        inner == /\ ~IsRed(u, sib)
                 /\ ChildRed(u, sib, s)
                 /\ ~ChildRed(u, sib, Opposite(s))
    IN  IF inner
        THEN delete_case6(
               Rotate(PaintChild(Paint(u, sib, TRUE), sib, s, FALSE),
                      sib, Opposite(s)), n)
        ELSE delete_case6(u, n)

(* The sibling and both its children are black.                            *)
AllBlack(u, sib) ==
    ~IsRed(u, sib) /\ \A s \in Side : ~ChildRed(u, sib, s)

delete_case4(u, n) ==
    LET p == u.parent[n]
        sib == trbt_sibling(u, n)
    IN  IF IsRed(u, p) /\ AllBlack(u, sib)
        THEN Paint(Paint(u, sib, TRUE), p, FALSE)
        ELSE delete_case5(u, n)

RECURSIVE delete_case1(_, _)

(* Case 3 that does not carry the shortage up to the parent.               *)
delete_case3_stops(u, n) ==
    LET p == u.parent[n]
        sib == trbt_sibling(u, n)
    IN  IF ~IsRed(u, p) /\ AllBlack(u, sib)
        THEN Paint(u, sib, TRUE)
        ELSE delete_case4(u, n)

delete_case3(u, n) ==
    LET p == u.parent[n]
        sib == trbt_sibling(u, n)
    IN  IF ~IsRed(u, p) /\ AllBlack(u, sib)
        THEN delete_case1(Paint(u, sib, TRUE), p)
        ELSE delete_case4(u, n)

delete_case2(u, n) ==
    LET p == u.parent[n]
        sib == trbt_sibling(u, n)
    IN  IF IsRed(u, sib)
        THEN delete_case3(Rotate(Paint(Paint(u, p, TRUE), sib, FALSE),
                                 p, SideIn(u, p, n)), n)
        ELSE delete_case3(u, n)

delete_case1(u, n) == IF u.parent[n] = Null THEN u ELSE delete_case2(u, n)

-----------------------------------------------------------------------------
(* A deletion that rebalances whatever the colour of the node removed.     *)
DeleteOneAlwaysFixes(u, n) ==
    LET only == IF u.child["right"][n] # Null THEN u.child["right"][n]
                ELSE u.child["left"][n]
        c == IF only = Null THEN Dummy ELSE only
        placed == [Replace(u, n, c) EXCEPT !.parent[c] = u.parent[n]]
        fixed == IF placed.red[c] THEN Paint(placed, c, FALSE)
                 ELSE delete_case1(placed, c)
    IN  IF c = Dummy THEN [Replace(fixed, Dummy, Null) EXCEPT !.parent[Dummy] = Null]
        ELSE fixed

(* delete_node for a node with at most one child.  With no child the black *)
(* dummy takes the node's place while the tree is rebalanced and is then   *)
(* unlinked; its fields live only for the call.                            *)
DeleteOne(u, n) ==
    LET only == IF u.child["right"][n] # Null THEN u.child["right"][n]
                ELSE u.child["left"][n]
        c == IF only = Null THEN Dummy ELSE only
        placed == [Replace(u, n, c) EXCEPT !.parent[c] = u.parent[n]]
        fixed == CASE u.red[n] -> placed
                   [] ~u.red[n] /\ placed.red[c] -> Paint(placed, c, FALSE)
                   [] OTHER -> delete_case1(placed, c)
    IN  IF c = Dummy
        THEN [Replace(fixed, Dummy, Null) EXCEPT !.parent[Dummy] = Null,
                                                 !.red[Dummy] = FALSE]
        ELSE fixed

RECURSIVE Rightmost(_, _)
Rightmost(u, n) ==
    IF u.child["right"][n] = Null THEN n ELSE Rightmost(u, u.child["right"][n])

(* The takeover that leaves m the key it was given when it was deleted.    *)
TakeOverNoKey(u, n, m) ==
    LET moved == [Replace(u, n, m) EXCEPT
                    !.red[m] = u.red[n],
                    !.data[m] = u.data[n], !.owner[m] = u.data[n],
                    !.parent[m] = u.parent[n],
                    !.child["left"][m] = u.child["left"][n],
                    !.child["right"][m] = u.child["right"][n]]
    IN  SetParent(SetParent(moved, u.child["left"][n], m), u.child["right"][n], m)

(* The block after `finished': m, which was deleted in place of n, takes   *)
(* over everything n is, and n is left to be freed.                        *)
TakeOver(u, n, m) ==
    LET moved == [Replace(u, n, m) EXCEPT
                    !.key[m] = u.key[n], !.red[m] = u.red[n],
                    !.data[m] = u.data[n], !.owner[m] = u.data[n],
                    !.parent[m] = u.parent[n],
                    !.child["left"][m] = u.child["left"][n],
                    !.child["right"][m] = u.child["right"][n]]
    IN  SetParent(SetParent(moved, u.child["left"][n], m), u.child["right"][n], m)

(* A node with two children takes its predecessor's key and data, and the  *)
(* predecessor leaves the tree; then they change places again, because it  *)
(* is n's memory that the caller is about to release.                      *)
delete_node(u, n) ==
    IF \A s \in Side : u.child[s][n] # Null
    THEN LET m == Rightmost(u, u.child["left"][n])
             copied == [u EXCEPT !.key[n] = u.key[m], !.data[n] = u.data[m],
                                 !.owner[n] = u.data[m],
                                 !.key[m] = NoKey, !.data[m] = Null]
         IN  TakeOver(DeleteOne(copied, m), n, m)
    ELSE DeleteOne(u, n)

(* talloc_free(node): the destructor, then the memory goes.                *)
FreeNode(u, n) ==
    [delete_node(u, n) EXCEPT
       !.child["left"][n] = Null, !.child["right"][n] = Null,
       !.parent[n] = Null, !.red[n] = FALSE, !.key[n] = NoKey,
       !.data[n] = Null, !.owner[n] = Null, !.live = @ \ {n}]

-----------------------------------------------------------------------------
(* The walk every operation makes from the root: the node with key k, or   *)
(* the node whose empty side k belongs on.                                 *)
Toward(u, n, k) == IF k < u.key[n] THEN "left" ELSE "right"

RECURSIVE Walk(_, _, _)
Walk(u, n, k) ==
    LET c == u.child[Toward(u, n, k)][n]
    IN  IF k = u.key[n] \/ c = Null THEN n ELSE Walk(u, c, k)

(* The node holding k, or NULL.                                            *)
Find(u, k) ==
    IF u.root = Null THEN Null
    ELSE LET n == Walk(u, u.root, k) IN IF u.key[n] = k THEN n ELSE Null

trbt_lookup32(u, k) ==
    LET n == Find(u, k) IN IF n = Null THEN Null ELSE u.data[n]

(* A node hanging off its data, black until the caller colours it.         *)
trbt_create_node(u, p, k, d) ==
    [u EXCEPT !.live = @ \cup {k}, !.parent[k] = p, !.red[k] = FALSE,
              !.key[k] = k, !.data[k] = d, !.owner[k] = d]

(* Replacing data without moving the node to its new owner.                *)
InsertedNoSteal(u, k, d) ==
    LET n == Find(u, k)
        p == Walk(u, u.root, k)
        hung == [trbt_create_node(u, p, k, d) EXCEPT
                   !.child[Toward(u, p, k)][p] = k, !.red[k] = TRUE]
    IN  CASE u.root = Null -> [trbt_create_node(u, Null, k, d) EXCEPT !.root = k]
          [] u.root # Null /\ n # Null -> [u EXCEPT !.data[n] = d]
          [] OTHER -> insert_case1(hung, k)

(* The tree with k stored, the allocation of a node having succeeded.      *)
Inserted(u, k, d) ==
    LET n == Find(u, k)
        p == Walk(u, u.root, k)
        hung == [trbt_create_node(u, p, k, d) EXCEPT
                   !.child[Toward(u, p, k)][p] = k, !.red[k] = TRUE]
    IN  CASE u.root = Null -> [trbt_create_node(u, Null, k, d) EXCEPT !.root = k]
          [] u.root # Null /\ n # Null ->
               [u EXCEPT !.data[n] = d, !.owner[n] = d]
          [] OTHER -> insert_case1(hung, k)

-----------------------------------------------------------------------------
(* Operations.                                                             *)

Init ==
    /\ t = EmptyTree
    /\ up = FALSE
    /\ auto = FALSE
    /\ heap = {}
    /\ freeing = Null

Running == t.segv = "no" /\ freeing = Null

trbt_create(flag) ==
    /\ Running
    /\ ~up
    /\ up' = TRUE
    /\ auto' = flag
    /\ UNCHANGED <<t, heap, freeing>>

(* Bound: with several data allocated only a few keys are in use.          *)
Roomy(data, keys) == Cardinality(data) <= 1 \/ keys \subseteq Few

(* A caller allocates data to store.                                       *)
AllocData(d) ==
    /\ Running
    /\ d \notin heap
    /\ Roomy(heap \cup {d}, t.live)
    /\ heap' = heap \cup {d}
    /\ UNCHANGED <<t, up, auto, freeing>>

trbt_insert32(k, d) ==
    /\ Running
    /\ up
    /\ d \in heap
    /\ Roomy(heap, {k})
    /\ t' = Inserted(t, k, d)
    /\ UNCHANGED <<up, auto, heap, freeing>>

(* With a callback the data stored is what the callback makes of the old.  *)
trbt_insert32_callback(k, callback) ==
    /\ Running
    /\ up
    /\ callback[trbt_lookup32(t, k)] \in heap
    /\ Roomy(heap, {k})
    /\ t' = Inserted(t, k, callback[trbt_lookup32(t, k)])
    /\ UNCHANGED <<up, auto, heap, freeing>>

(* A node cannot be allocated.  trbt_insert32 gives up, leaving all as it  *)
(* was; the callback form links the NULL and writes a colour through it,   *)
(* unless it was to be the first node, where the root stays NULL.          *)
CallbackAllocFails(k) ==
    /\ Running
    /\ up
    /\ heap # {}
    /\ t.root # Null
    /\ Find(t, k) = Null
    /\ t' = [t EXCEPT !.segv = "oom"]
    /\ UNCHANGED <<up, auto, heap, freeing>>

(* A tree whose flag is never looked at.                                   *)
StillUpNoAuto(u, flag) == TRUE

(* A tree with TRBT_AUTOFREE goes when its last node does.                 *)
StillUp(u, flag) == ~(flag /\ u.root = Null)

trbt_delete32(k) ==
    /\ Running
    /\ up
    /\ Find(t, k) # Null
    /\ t' = FreeNode(t, Find(t, k))
    /\ up' = StillUp(t', auto)
    /\ UNCHANGED <<auto, heap, freeing>>

(* A caller frees data: talloc_free then frees the data's children, the    *)
(* nodes that point to it, in the order of its child list.                 *)
FreeData(d) ==
    /\ Running
    /\ d \in heap
    /\ freeing' = d
    /\ UNCHANGED <<t, up, auto, heap>>

FreeChild(n) ==
    /\ t.segv = "no"
    /\ freeing # Null
    /\ n \in t.live
    /\ t.owner[n] = freeing
    /\ t' = FreeNode(t, n)
    /\ up' = StillUp(t', auto)
    /\ UNCHANGED <<auto, heap, freeing>>

FreeDone ==
    /\ t.segv = "no"
    /\ freeing # Null
    /\ \A n \in t.live : t.owner[n] # freeing
    /\ heap' = heap \ {freeing}
    /\ freeing' = Null
    /\ UNCHANGED <<t, up, auto>>

(* In-order traversal: trbt_traversearray32 with one key part.             *)
RECURSIVE InOrder(_, _)
InOrder(u, n) ==
    IF n = Null THEN <<>>
    ELSE InOrder(u, u.child["left"][n]) \o <<n>> \o InOrder(u, u.child["right"][n])

(* trbt_findfirstarray32 with one key part.                                *)
RECURSIVE Leftmost(_, _)
Leftmost(u, n) ==
    IF u.child["left"][n] = Null THEN n ELSE Leftmost(u, u.child["left"][n])

Reached(u) == {InOrder(u, u.root)[i] : i \in DOMAIN InOrder(u, u.root)}

(* Freeing the tree frees the nodes the destructor reaches from the root,  *)
(* their own destructors disarmed, and none of the data.                   *)
FreeTree ==
    /\ Running
    /\ up
    /\ up' = FALSE
    /\ t' = [EmptyTree EXCEPT !.live = t.live \ Reached(t)]
    /\ UNCHANGED <<auto, heap, freeing>>

Next ==
    \/ \E flag \in BOOLEAN : trbt_create(flag)
    \/ \E d \in Data : AllocData(d)
    \/ \E k \in Key, d \in Data : trbt_insert32(k, d)
    \/ \E k \in Key, f \in Callbacks : trbt_insert32_callback(k, f)
    \/ \E k \in Key : CallbackAllocFails(k)
    \/ \E k \in Key : trbt_delete32(k)
    \/ \E d \in Data : FreeData(d)
    \/ \E n \in Key : FreeChild(n)
    \/ FreeDone
    \/ FreeTree

Spec == Init /\ [][Next]_vars

-----------------------------------------------------------------------------
(* Properties.                                                             *)

(* Type correctness; no pointer is ever left at delete_node's dummy.       *)
TypeOK ==
    /\ t.root \in Key \cup {Null}
    /\ t.child \in [Side -> [Cell -> Key \cup {Null}]]
    /\ t.parent \in [Cell -> Key \cup {Null}]
    /\ t.red \in [Cell -> BOOLEAN]
    /\ t.key \in [Cell -> Key \cup {NoKey}]
    /\ t.data \in [Cell -> Data \cup {Null}]
    /\ t.owner \in [Cell -> Data \cup {Null}]
    /\ t.live \subseteq Key
    /\ t.segv \in {"no", "null", "oom"}
    /\ up \in BOOLEAN
    /\ auto \in BOOLEAN
    /\ heap \subseteq Data
    /\ freeing \in heap \cup {Null}

(* The pointers form one tree of exactly the allocated nodes: every child  *)
(* points back at its parent, the root has none, no node is lost by a      *)
(* rotation or a deletion and no freed node is still linked.               *)
Linked ==
    /\ t.root # Null => t.parent[t.root] = Null
    /\ \A n \in t.live, s \in Side :
          t.child[s][n] # Null => t.parent[t.child[s][n]] = n
    /\ Reached(t) = t.live
    /\ Len(InOrder(t, t.root)) = Cardinality(t.live)

(* The traversal meets the keys in strictly increasing order, whatever     *)
(* rotations and replacements have happened, and starts at the node that   *)
(* trbt_findfirstarray32 returns.                                          *)
Ordered ==
    LET seq == InOrder(t, t.root)
    IN  /\ \A i \in 1 .. Len(seq) - 1 : t.key[seq[i]] < t.key[seq[i + 1]]
        /\ seq # <<>> => seq[1] = Leftmost(t, t.root)

(* The numbers of black nodes on the paths from n down to NULL.            *)
RECURSIVE BlackCounts(_)
BlackCounts(n) ==
    IF n = Null THEN {0}
    ELSE {(IF t.red[n] THEN 0 ELSE 1) + b :
            b \in UNION {BlackCounts(t.child[s][n]) : s \in Side}}

(* The tree is balanced between any two operations: the root is black, no  *)
(* red node has a red child, and all paths have as many black nodes.  The  *)
(* bound of every walk by twice the logarithm of the size rests on this.   *)
RedBlack ==
    /\ ~IsRed(t, t.root)
    /\ \A n \in t.live : t.red[n] => \A s \in Side : ~ChildRed(t, n, s)
    /\ Cardinality(BlackCounts(t.root)) = 1

(* The data of the nodes by key.                                           *)
Contents == [k \in {t.key[n] : n \in t.live} |-> t.data[CHOOSE n \in t.live : t.key[n] = k]]

(* trbt_lookup32 finds what is in the nodes, and nothing else.             *)
Found ==
    \A k \in Key : trbt_lookup32(t, k) = IF k \in DOMAIN Contents THEN Contents[k] ELSE Null

(* After every operation, and between the deletions of one talloc_free,    *)
(* the nodes make up a red-black tree in which every key is found, without *)
(* the dummy of delete_node.                                               *)
RedBlackTree == TypeOK /\ Linked /\ Ordered /\ RedBlack /\ Found

(* delete_node swaps two nodes' keys and data and swaps them back: between *)
(* operations a node still stands for the key it was created for, so what  *)
(* is freed is the node of the key deleted and no other.                   *)
NodesKeepTheirKey == \A n \in t.live : t.key[n] = n

(* The rebalancing never writes through a NULL sibling, uncle or child;    *)
(* the only NULL written is the unchecked allocation of the callback form. *)
NoNullWrite == t.segv # "null"

(* No lookup returns freed data: replacing, deleting and rebalancing keep  *)
(* every node a talloc child of the data it points to, so that freeing the *)
(* data takes all its nodes out of the tree.                               *)
NoDangling == \A k \in Key : trbt_lookup32(t, k) \in heap \cup {Null}

(* With what trbt_lookup32 finds the tree is a dictionary: an operation    *)
(* changes the entry of its own key and of no other.                       *)
Dict == INSTANCE Dictionary WITH
    dict <- Contents

ImplementsDictionary == Dict!DictSpec
=============================================================================
