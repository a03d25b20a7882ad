------------------------------- MODULE Talloc -------------------------------
(***************************************************************************)
(* The hierarchical allocator src/talloc.c: chunks in a tree of sibling    *)
(* lists, additional parents (references), destructors, and talloc_free    *)
(* with its calls on an explicit stack.  A chunk is named by its address.  *)
(* Only the first of a list of siblings knows the parent, so who owns a    *)
(* chunk is found by walking `prev'; talloc_free relies on such walks      *)
(* after it has taken the chunk out of the list.                           *)
(*                                                                         *)
(* Names and sizes of chunks, external allocators and their lock, and the  *)
(* helpers for strings and arrays are not modelled.                        *)
(***************************************************************************)
EXTENDS Integers, Sequences, FiniteSets

CONSTANTS Memories,        \* the memories to consider: sets of addresses
          Full,            \* up to this size clients make every call, see Small
          Destructors,     \* kinds of destructors clients set, see CallDestructor
          MaxDestructors   \* how many chunks have one at a time, see Room

Addr == UNION Memories

ASSUME AddrAssumption == Addr \subseteq Nat \ {0} /\ IsFiniteSet(Addr) /\ Full \in Nat
ASSUME DestructorsAssumption == Destructors \subseteq {"fail", "up", "any"}

VARIABLES
    heap,          \* address -> struct talloc_chunk
    null_context,  \* the parent of top-level chunks, or NULL
    stack,         \* calls of _talloc_free, innermost first
    ret,           \* what the last call of _talloc_free returned
    fault,         \* "none", "freed" memory was read, or a "loop" of parents
    call           \* history: the client's talloc_free and the heap it met

vars == <<heap, null_context, stack, ret, fault, call>>

NULL == 0

\* No list or path is longer.
N == Cardinality(Addr)

\* Memory that is not allocated.  `ptr' is set in a reference handle only, whose
\* place in the list of references is hnext, hprev.
Dead == [live |-> FALSE, loop |-> FALSE, next |-> NULL, prev |-> NULL,
         parent |-> NULL, child |-> NULL, refs |-> NULL, destructor |-> "none",
         ptr |-> NULL, hnext |-> NULL, hprev |-> NULL]

NoCall == [ptr |-> NULL, heap |-> <<>>]

Live(h)    == {c \in DOMAIN h : h[c].live}
Handles(h) == {c \in Live(h) : h[c].ptr # NULL}
Unused(h)  == DOMAIN h \ Live(h)

\* h with field f of chunk c set to v, unless c is NULL.
Put(h, c, f, v) == IF c = NULL THEN h ELSE [h EXCEPT ![c] = [@ EXCEPT ![f] = v]]

\* malloc: the lowest address, so that freed memory is used again at once.
Fresh(h) == CHOOSE a \in Unused(h) : \A b \in Unused(h) : a <= b

-----------------------------------------------------------------------------
(* Walks over the lists.                                                   *)

\* The chunk at which `while (tc->prev) tc = tc->prev' stops, or freed memory.
First(h, c) ==
    LET back[n \in 0 .. N, x \in Addr] ==
          IF n = 0 \/ h[x].prev = NULL \/ ~h[x].live THEN x ELSE back[n - 1, h[x].prev]
    IN  back[N, c]

talloc_parent_chunk(h, c) == IF c = NULL THEN NULL ELSE h[First(h, c)].parent

\* c and the chunks above it, with the siblings at which the walk turns up.
Climb(h, c) ==
    LET up[n \in 0 .. N, x \in Addr \cup {NULL}] ==
          IF n = 0 \/ x = NULL THEN {}
          ELSE {x, First(h, x)} \cup up[n - 1, talloc_parent_chunk(h, x)]
    IN  up[N, c]

_talloc_is_parent(h, context, ptr) ==
    LET up[n \in 0 .. N, x \in Addr \cup {NULL}] ==
          n > 0 /\ x # NULL /\ (x = ptr \/ up[n - 1, talloc_parent_chunk(h, x)])
    IN  up[N, context]

\* The references of c, the most recent first.
RefList(h, c) ==
    LET from[n \in 0 .. N, x \in Addr \cup {NULL}] ==
          IF n = 0 \/ x = NULL THEN <<>> ELSE <<x>> \o from[n - 1, h[x].hnext]
    IN  from[N, h[c].refs]

\* Blocks in the subtree of c, and (one unit per block) its total size.
talloc_total_blocks(h, c) ==
    LET list[n \in 0 .. 2 * N, x \in Addr \cup {NULL}] ==
          IF n = 0 \/ x = NULL THEN 0
          ELSE 1 + list[n - 1, h[x].child] + list[n - 1, h[x].next]
    IN  1 + list[2 * N, h[c].child]

-----------------------------------------------------------------------------
(* The lists of children and of references.                                *)

\* Hook t into the front of p's children.
Adopt(h, p, t) ==
    LET old == h[p].child
        h1  == Put(Put(h, old, "parent", NULL), old, "prev", t)
    IN  [h1 EXCEPT ![t].parent = p, ![t].next = old, ![t].prev = NULL, ![p].child = t]

\* Mutant of Unlink: the next sibling is not told that it is first now.
UnlinkSilently(h, t) ==
    LET p == h[t].parent  n == h[t].next
    IN  IF p # NULL
        THEN [Put(h, n, "prev", NULL) EXCEPT ![p].child = n, ![t].next = NULL, ![t].prev = NULL]
        ELSE Put(Put(h, h[t].prev, "next", n), n, "prev", h[t].prev)

\* Take t out of its siblings.  A first child hands the parent pointer on and
\* keeps it; any other chunk keeps its stale next and prev.
Unlink(h, t) ==
    LET p == h[t].parent  n == h[t].next
    IN  IF p # NULL
        THEN [Put(Put(h, n, "prev", NULL), n, "parent", p)
                EXCEPT ![p].child = n, ![t].next = NULL, ![t].prev = NULL]
        ELSE Put(Put(h, h[t].prev, "next", n), n, "prev", h[t].prev)

\* Who is meant by a context that may be NULL.
Context(ctx) == IF ctx = NULL THEN null_context ELSE ctx

__talloc_steal(h, ctx, t) ==
    LET new == Context(ctx)
    IN  IF new = NULL
        THEN [Unlink(h, t) EXCEPT ![t].parent = NULL, ![t].next = NULL, ![t].prev = NULL]
        ELSE IF t = new \/ h[t].parent = new THEN h
        ELSE Adopt(Unlink(h, t), new, t)

\* A new chunk below ctx at the next free address.
init_talloc(h, ctx) ==
    LET a  == Fresh(h)
        h1 == [h EXCEPT ![a] = [Dead EXCEPT !.live = TRUE]]
    IN  IF Context(ctx) = NULL THEN h1 ELSE Adopt(h1, Context(ctx), a)

_talloc_reference(h, ctx, t) ==
    LET a   == Fresh(h)
        old == h[t].refs
    IN  [Put(init_talloc(h, ctx), old, "hprev", a)
           EXCEPT ![a].ptr = t, ![a].hnext = old, ![t].refs = a]

talloc_reference_destructor(h, hd) ==
    LET t == h[hd].ptr  n == h[hd].hnext  p == h[hd].hprev
        h1 == IF h[t].refs = hd THEN Put(h, t, "refs", n) ELSE Put(h, p, "hnext", n)
    IN  Put(h1, n, "hprev", p)

\* talloc_free of a handle: it has no children and no references, and its
\* destructor calls nothing, so the call is one step.
FreeHandle(h, hd) ==
    [Unlink(talloc_reference_destructor(h, hd), hd) EXCEPT ![hd] = Dead]

\* The first reference to t made from ctx, or NULL.
ReferenceFrom(h, ctx, t) ==
    LET fits(x) == talloc_parent_chunk(h, x) = Context(ctx)
        L == SelectSeq(RefList(h, t), fits)
    IN  IF L = <<>> THEN NULL ELSE Head(L)

-----------------------------------------------------------------------------
(* _talloc_free.                                                           *)

Frame(p) == [ptr |-> p, pc |-> "enter", child |-> NULL, new_parent |-> NULL,
             old_parent |-> NULL, d |-> "none"]

top == Head(stack)
this == heap[top.ptr]

Running(pc) == stack # <<>> /\ fault = "none" /\ top.pc = pc

\* The call returns r.  A caller whose child is gone goes on with the next one;
\* after the call made by talloc_disable_null_tracking, null_context is NULL.
Return(r) ==
    /\ ret' = r
    /\ stack' = IF Len(stack) > 1 /\ stack[2].pc = "child" /\ r = 0
                THEN <<[Frame(stack[2].ptr) EXCEPT !.pc = "children"]>> \o Tail(Tail(stack))
                ELSE Tail(stack)
    /\ null_context' = IF Len(stack) = 1 /\ top.ptr = null_context THEN NULL ELSE null_context
    /\ call' = IF Len(stack) = 1 THEN NoCall ELSE call

Goto(f) == stack' = <<f>> \o Tail(stack) /\ UNCHANGED <<null_context, ret, call>>
Call(p, f) == stack' = <<Frame(p), f>> \o Tail(stack) /\ UNCHANGED <<null_context, ret, call>>

\* Mutant of FreeReferenced: a reference from below is like any other.
FreeReferencedAlike ==
    /\ Running("enter") /\ this.refs # NULL
    /\ heap' = FreeHandle(heap, this.refs)
    /\ Return(-1)
    /\ UNCHANGED fault

\* Mutant of FreeReferenced: a reference from below is kept when the call is repeated.
FreeReferencedAgain ==
    /\ Running("enter") /\ this.refs # NULL
    /\ UNCHANGED fault
    /\ IF _talloc_is_parent(heap, this.refs, top.ptr)
       THEN heap' = heap /\ Goto(top)
       ELSE heap' = FreeHandle(heap, this.refs) /\ Return(-1)

\* A referenced chunk loses its most recent reference instead; if that one was
\* made from below the chunk, the call is repeated.
FreeReferenced ==
    /\ Running("enter") /\ this.refs # NULL
    /\ heap' = FreeHandle(heap, this.refs)
    /\ fault' = IF Climb(heap, this.refs) \subseteq Live(heap) THEN "none" ELSE "freed"
    /\ IF _talloc_is_parent(heap, this.refs, top.ptr) THEN Goto(top) ELSE Return(-1)

\* The chunk is already being freed by an outer call, in its children ...
FreeLooping ==
    /\ Running("enter") /\ this.refs = NULL /\ this.loop
    /\ Return(0)
    /\ UNCHANGED <<heap, fault>>

\* ... or in its destructor.
FreeBusy ==
    /\ Running("enter") /\ this.refs = NULL /\ ~this.loop /\ this.destructor = "busy"
    /\ Return(-1)
    /\ UNCHANGED <<heap, fault>>

\* The chunk leaves its siblings, marked, and its children are next.
Detach(h) ==
    /\ heap' = [Unlink(h, top.ptr) EXCEPT ![top.ptr].loop = TRUE]
    /\ Goto([top EXCEPT !.pc = "children"])
    /\ UNCHANGED fault

FreePlain ==
    /\ Running("enter") /\ this.refs = NULL /\ ~this.loop /\ this.destructor = "none"
    /\ Detach(heap)

\* What a destructor may free: its own parent ("up") or whatever the client
\* holds ("any").
Prey(d) ==
    LET held == Live(heap) \ (Handles(heap) \cup {null_context})
    IN  CASE d = "fail" -> {}
          [] d = "up"   -> {talloc_parent_chunk(heap, top.ptr)} \cap held
          [] d = "any"  -> held

\* The destructor runs: it may call talloc_free itself.
CallDestructor ==
    /\ Running("enter") /\ this.refs = NULL /\ ~this.loop /\ this.destructor \in Destructors
    /\ heap' = [heap EXCEPT ![top.ptr].destructor = "busy"]
    /\ LET f == [top EXCEPT !.pc = "destructor", !.d = this.destructor]
       IN  \/ Prey(f.d) = {} /\ Goto(f)
           \/ \E q \in Prey(f.d) : Call(q, f)
    /\ UNCHANGED fault

\* A destructor that returns -1 is put back and the chunk stays.
DestructorFails ==
    /\ Running("destructor") /\ top.d = "fail"
    /\ heap' = [heap EXCEPT ![top.ptr].destructor = "fail"]
    /\ Return(-1)
    /\ UNCHANGED fault

DestructorSucceeds ==
    /\ Running("destructor") /\ top.d # "fail"
    /\ Detach([heap EXCEPT ![top.ptr].destructor = "none"])

\* Mutant of ReferenceOwner: the handle instead of the chunk it belongs to.
ReferenceItself(c) == heap[c].refs

\* The owner of the most recent reference to c, or NULL.
ReferenceOwner(c) == IF heap[c].refs = NULL THEN NULL
                     ELSE talloc_parent_chunk(heap, heap[c].refs)

\* The next child.  Who would own it if it stays is worked out first: the
\* parent of its most recent reference, or else this chunk's parent, which is
\* looked for only if the child might stay.
FreeChild ==
    /\ Running("children") /\ this.child # NULL
    /\ LET c   == this.child
           np  == IF ReferenceOwner(c) # NULL THEN ReferenceOwner(c) ELSE null_context
           ask == np = null_context /\ (heap[c].refs # NULL \/ heap[c].destructor # "none"
                                          \/ c \in Handles(heap))
           op  == IF ask THEN talloc_parent_chunk(heap, top.ptr) ELSE NULL
       IN  /\ fault' = IF ask /\ ~heap[First(heap, top.ptr)].live THEN "freed" ELSE "none"
           /\ IF c \in Handles(heap)
              THEN heap' = FreeHandle(heap, c) /\ Goto(top)
              ELSE /\ Call(c, [top EXCEPT !.pc = "child", !.child = c,
                                          !.new_parent = np, !.old_parent = op])
                   /\ UNCHANGED heap

\* Whether moving t below ctx closes a loop of parents, or touches freed memory.
StealFault(h, ctx, t) ==
    CASE Context(ctx) # NULL /\ ~h[Context(ctx)].live -> "freed"
      [] Context(ctx) # NULL /\ Context(ctx) # t /\ _talloc_is_parent(h, Context(ctx), t) -> "loop"
      [] OTHER -> "none"

\* Mutant of HandOver: the child is left to the null context.
HandOverToNull(f) ==
    /\ heap' = __talloc_steal(heap, f.new_parent, f.child)
    /\ fault' = StealFault(heap, f.new_parent, f.child)

\* Mutant of HandOver: the arguments of the steal are exchanged.
HandOverSwapped(f) ==
    LET new == IF f.new_parent = null_context /\ f.old_parent # NULL
               THEN f.old_parent ELSE f.new_parent
    IN  IF new = NULL THEN heap' = __talloc_steal(heap, NULL, f.child) /\ fault' = "none"
        ELSE /\ heap' = __talloc_steal(heap, f.child, new)
             /\ fault' = StealFault(heap, f.child, new)

\* The child goes to the owner found before: that of a reference, else the old
\* parent, else the null context.
HandOver(f) ==
    LET new == IF f.new_parent = null_context /\ f.old_parent # NULL
               THEN f.old_parent ELSE f.new_parent
    IN  /\ heap' = __talloc_steal(heap, new, f.child)
        /\ fault' = StealFault(heap, new, f.child)

\* A child that could not be freed is handed over.
ChildStays ==
    /\ Running("child")
    /\ HandOver(top)
    /\ Goto([Frame(top.ptr) EXCEPT !.pc = "children"])

\* Without children left the memory is given back.
FreeDone ==
    /\ Running("children") /\ this.child = NULL
    /\ heap' = [heap EXCEPT ![top.ptr] = Dead]
    /\ Return(0)
    /\ UNCHANGED fault

FreeStep ==
    \/ FreeReferenced \/ FreeLooping \/ FreeBusy \/ FreePlain
    \/ CallDestructor \/ DestructorFails \/ DestructorSucceeds
    \/ FreeChild \/ ChildStays \/ FreeDone
-----------------------------------------------------------------------------
(* What clients call, with pointers they hold: never a reference handle,   *)
(* never the null context.                                                 *)

Idle == stack = <<>> /\ fault = "none"
Held == Live(heap) \ (Handles(heap) \cup {null_context})

\* Bound: in a larger memory clients only build trees, set destructors, make references
\* and free, and no gap among the chunks is filled.
Small == Cardinality(DOMAIN heap) <= Full

\* There is memory for n blocks.
Memory(n) ==
    /\ Cardinality(Unused(heap)) >= n
    /\ Small \/ \A a \in Unused(heap), c \in Live(heap) : c < a

\* talloc and its relatives; without memory nothing changes.
talloc(ctx) ==
    /\ Idle /\ Memory(1)
    /\ heap' = init_talloc(heap, ctx)
    /\ ret' = 0 /\ UNCHANGED <<null_context, stack, fault, call>>

\* The name is a child of the chunk; if there is no memory for it the chunk is
\* freed again and nothing changes.
talloc_named(ctx) ==
    /\ Idle /\ Memory(2)
    /\ heap' = init_talloc(init_talloc(heap, ctx), Fresh(heap))
    /\ ret' = 0 /\ UNCHANGED <<null_context, stack, fault, call>>

\* Bound: one more chunk may get a destructor.
Room == Cardinality({c \in Live(heap) : heap[c].destructor # "none"}) < MaxDestructors

_talloc_set_destructor(t, d) ==
    /\ Idle /\ heap[t].destructor # d /\ (heap[t].destructor = "none" => Room)
    /\ heap' = [heap EXCEPT ![t].destructor = d]
    /\ ret' = 0 /\ UNCHANGED <<null_context, stack, fault, call>>

talloc_reference(ctx, t) ==
    /\ Idle /\ Memory(1)
    /\ heap' = _talloc_reference(heap, ctx, t)
    /\ ret' = 0 /\ UNCHANGED <<null_context, stack, fault, call>>

\* Its documentation forbids to move a chunk below itself.
talloc_steal(ctx, t) ==
    /\ Idle /\ ~_talloc_is_parent(heap, ctx, t)
    /\ heap' = __talloc_steal(heap, ctx, t)
    /\ ret' = 0 /\ UNCHANGED <<null_context, stack, fault, call>>

talloc_free(t) ==
    /\ Idle
    /\ stack' = <<Frame(t)>>
    /\ call' = [ptr |-> t, heap |-> heap]
    /\ ret' = 0 /\ UNCHANGED <<heap, null_context, fault>>

\* realloc moves the chunk (it may also grow in place, which changes nothing
\* here); a referenced chunk is refused.
_talloc_realloc(t) ==
    /\ Idle /\ heap[t].refs = NULL /\ Unused(heap) # {}
    /\ LET a  == Fresh(heap)
           c  == heap[t]
           h1 == [heap EXCEPT ![a] = c, ![t] = Dead]
           h2 == Put(Put(h1, c.parent, "child", a), c.child, "parent", a)
       IN  heap' = Put(Put(h2, c.prev, "next", a), c.next, "prev", a)
    /\ ret' = 0 /\ UNCHANGED <<null_context, stack, fault, call>>

\* talloc_unlink of a parent made by talloc_reference ...
UnlinkReference(ctx, t) ==
    /\ Idle /\ ReferenceFrom(heap, ctx, t) # NULL
    /\ heap' = FreeHandle(heap, ReferenceFrom(heap, ctx, t))
    /\ ret' = 0 /\ UNCHANGED <<null_context, stack, fault, call>>

\* ... of the only parent, which frees the chunk ...
UnlinkLast(ctx, t) ==
    /\ Idle /\ ReferenceFrom(heap, ctx, t) = NULL
    /\ talloc_parent_chunk(heap, t) = Context(ctx) /\ heap[t].refs = NULL
    /\ stack' = <<Frame(t)>>
    /\ call' = [ptr |-> t, heap |-> heap]
    /\ ret' = 0 /\ UNCHANGED <<heap, null_context, fault>>

\* ... or of the owner, whose place the most recent reference takes.
UnlinkOwner(ctx, t) ==
    /\ Idle /\ ReferenceFrom(heap, ctx, t) = NULL
    /\ talloc_parent_chunk(heap, t) = Context(ctx) /\ heap[t].refs # NULL
    /\ LET new == talloc_parent_chunk(heap, heap[t].refs)
           hd  == ReferenceFrom(heap, new, t)
           h1  == FreeHandle(heap, hd)
       IN  /\ hd # NULL
           /\ heap' = __talloc_steal(h1, new, t)
           /\ fault' = StealFault(h1, new, t)
    /\ ret' = 0 /\ UNCHANGED <<null_context, stack, call>>

talloc_enable_null_tracking ==
    /\ Idle /\ null_context = NULL /\ Unused(heap) # {}
    /\ heap' = init_talloc(heap, NULL)
    /\ null_context' = Fresh(heap)
    /\ ret' = 0 /\ UNCHANGED <<stack, fault, call>>

\* Frees the null context, and with it every chunk that has no other parent.
talloc_disable_null_tracking ==
    /\ Idle /\ null_context # NULL
    /\ stack' = <<Frame(null_context)>>
    /\ call' = [ptr |-> null_context, heap |-> heap]
    /\ ret' = 0 /\ UNCHANGED <<heap, null_context, fault>>

Client ==
    \/ \E ctx \in Held \cup {NULL} :
          \/ talloc(ctx)
          \/ Small /\ talloc_named(ctx)
    \/ \E t \in Held :
          \/ \E d \in Destructors \cup {"none"} : _talloc_set_destructor(t, d)
          \/ talloc_free(t)
          \/ Small /\ _talloc_realloc(t)
    \/ \E t \in Held, ctx \in Held \cup {NULL} :
          \/ talloc_reference(ctx, t)
          \/ Small /\ talloc_steal(ctx, t)
          \/ Small /\ (UnlinkReference(ctx, t) \/ UnlinkLast(ctx, t) \/ UnlinkOwner(ctx, t))
    \/ Small /\ (talloc_enable_null_tracking \/ talloc_disable_null_tracking)

Init ==
    /\ \E M \in Memories : heap = [a \in M |-> Dead]
    /\ null_context = NULL /\ stack = <<>> /\ ret = 0 /\ fault = "none" /\ call = NoCall

Next == Client \/ FreeStep

Spec == Init /\ [][Next]_vars
FairSpec == Spec /\ WF_vars(FreeStep)
-----------------------------------------------------------------------------
(* Properties.                                                             *)

\* Every pointer of a chunk header is an address or NULL, and _talloc_free
\* returns nothing but 0 and -1.
TypeOK ==
    /\ DOMAIN heap \in Memories
    /\ \A a \in DOMAIN heap : /\ {heap[a].next, heap[a].prev, heap[a].parent, heap[a].child,
                                  heap[a].refs, heap[a].ptr, heap[a].hnext, heap[a].hprev}
                                   \subseteq DOMAIN heap \cup {NULL}
                              /\ heap[a].destructor \in Destructors \cup {"none", "busy"}
    /\ null_context \in DOMAIN heap \cup {NULL} /\ ret \in {0, -1}
    /\ fault \in {"none", "freed", "loop"}
    /\ \A i \in DOMAIN stack :
          stack[i].ptr \in DOMAIN heap /\ stack[i].pc \in {"enter", "destructor", "children", "child"}

\* Chunks that a running talloc_free has taken out of their list.
Detached == {stack[i].ptr : i \in {j \in DOMAIN stack : stack[j].pc \in {"children", "child"}}}

\* The sibling lists are doubly linked, start at the parent's child pointer, and
\* their first chunk alone knows the parent, whatever was allocated, moved,
\* reallocated or freed before, and also while talloc_free is under way; no chunk
\* outside of a running talloc_free points to freed memory, and freed memory is
\* not written.
ListsAgree ==
    /\ \A a \in DOMAIN heap : heap[a].live \/ heap[a] = Dead
    /\ \A c \in Live(heap) :
       /\ heap[c].child # NULL => /\ heap[c].child \in Live(heap) \ Detached
                                  /\ heap[heap[c].child].parent = c
       /\ c \notin Detached =>
             /\ heap[c].next # NULL => /\ heap[c].next \in Live(heap) \ Detached
                                       /\ heap[heap[c].next].prev = c
             /\ heap[c].prev # NULL => /\ heap[c].prev \in Live(heap) \ Detached
                                       /\ heap[heap[c].prev].next = c
                                       /\ heap[c].parent = NULL
             /\ heap[c].parent # NULL => /\ heap[c].parent \in Live(heap)
                                         /\ heap[heap[c].parent].child = c
             /\ heap[c].prev = NULL /\ heap[c].parent = NULL => heap[c].next = NULL

\* The references listed in a chunk are the handles that name it, each once: no
\* handle names freed memory, and none is forgotten.
RefsAgree ==
    /\ \A hd \in Handles(heap) : heap[hd].ptr \in Live(heap)
    /\ \A c \in Live(heap) :
          LET L == RefList(heap, c)
          IN  /\ {L[i] : i \in DOMAIN L} = {hd \in Handles(heap) : heap[hd].ptr = c}
              /\ \A i \in DOMAIN L : heap[L[i]].hprev = (IF i = 1 THEN NULL ELSE L[i - 1])

\* The parents of a chunk lead to a top-level chunk or to one that is being freed,
\* never back to the chunk, unless a loop was closed as in LoopOnlyInRing.
Rooted ==
    fault # "loop" => \A c \in Live(heap) : ~_talloc_is_parent(heap, talloc_parent_chunk(heap, c), c)

\* The heap that the call in progress, or the next one, starts from.
Met == IF call = NoCall THEN heap ELSE call.heap

\* Chunks each of which is owned by another one of them, or is named by a
\* reference that another one of them owns.
Ring(h, S) ==
    \A x \in S : \E y \in S : \/ talloc_parent_chunk(h, x) = y
                             \/ \E hd \in Handles(h) : h[hd].ptr = x /\ talloc_parent_chunk(h, hd) = y

\* talloc_free and talloc_unlink may hand a chunk to the owner of a reference that
\* is below the chunk by then, which cuts both off from the rest.  A loop of parents
\* is closed only if owners and references formed a ring when the call was made:
\* a chunk referenced from below, or two chunks each with a reference to the other.
LoopOnlyInRing == [][fault' = "loop" => \E S \in SUBSET Live(Met) : S # {} /\ Ring(Met, S)]_vars

\* talloc_free looks for the owner of a child before it frees the child, since "the
\* free call can invalidate the prev pointer"; that of an earlier child can, too.  Yet
\* a walk over siblings meets freed memory only past a reference: when the call was
\* made, the owner of a chunk x also had a reference to some chunk below x.  The
\* reference goes with that chunk while x, out of its list, keeps the handle as prev.
FreedOnlyPastReference ==
    [][fault' = "freed" =>
         \E x \in Live(Met), hd \in Handles(Met) :
            /\ talloc_parent_chunk(Met, hd) = talloc_parent_chunk(Met, x)
            /\ Met[hd].ptr # x /\ _talloc_is_parent(Met, Met[hd].ptr, x)]_vars

\* talloc_total_blocks counts the chunks whose owners lead to c.
BlocksExact ==
    Idle => \A c \in Live(heap) :
               talloc_total_blocks(heap, c)
                 = Cardinality({x \in Live(heap) : _talloc_is_parent(heap, x, c)})

\* The chunks are one consistent forest after every call and at every step of a
\* running _talloc_free, whichever of their pointers one follows.
HeapConsistent == TypeOK /\ ListsAgree /\ RefsAgree /\ Rooted /\ BlocksExact

\* The outermost call of a talloc_free made by the client returns.
Answered == call # NoCall /\ call' = NoCall /\ fault' = "none"

Quiet(h) == \A c \in Live(h) : h[c].destructor # "up"

Below(h, p) == {c \in Live(h) : _talloc_is_parent(h, c, p)}

\* The chunks below p that may stay: their destructor fails, something that is not
\* below p or that stays itself has a reference to them, or their parent stays.
MayStay(h, p) ==
    LET B == Below(h, p)
        stay[n \in 0 .. N] ==
          IF n = 0 THEN {}
          ELSE LET S == stay[n - 1]
               IN  {c \in B : \/ h[c].destructor = "fail"
                              \/ talloc_parent_chunk(h, c) \in S
                              \/ \E hd \in Handles(h) : h[hd].ptr = c /\ hd \notin B \ S}
    IN  stay[N]

\* talloc_free(p) returns 0 exactly if p is gone.  It frees nothing but chunks
\* below p and handles that name one of them, and of the chunks below p all that
\* have no reason to stay.
SubtreeFreed ==
    [][Answered /\ Quiet(call.heap) =>
         LET B == call.heap  p == call.ptr
             gone == Live(B) \ Live(heap')
         IN  /\ (ret' = 0) = (p \in gone)
             /\ gone \subseteq Below(B, p) \cup {hd \in Handles(B) : B[hd].ptr \in Below(B, p)}
             /\ p \in MayStay(B, p) \/ Below(B, p) \ MayStay(B, p) \subseteq gone]_vars

\* talloc_free(p) moves only chunks that it could not free, and to the owner of a
\* reference to them or to the parent of p; the null context gets them only if p
\* has no parent.  All others stay where they were, so nothing is lost.
SurvivorsOwned ==
    [][Answered /\ Quiet(call.heap) =>
         LET B == call.heap  p == call.ptr
         IN  \A c \in Live(B) \cap Live(heap') :
               LET was == talloc_parent_chunk(B, c)
                   now == talloc_parent_chunk(heap', c)
               IN  \/ now = was
                   \/ /\ ret' = 0 /\ c \in MayStay(B, p)
                      /\ \/ now = (IF talloc_parent_chunk(B, p) # NULL
                                   THEN talloc_parent_chunk(B, p) ELSE null_context)
                         \/ /\ now # NULL
                            /\ \E hd \in Handles(B) :
                                  B[hd].ptr = c /\ now = talloc_parent_chunk(B, hd)]_vars

\* talloc_disable_null_tracking with a top-level chunk whose destructor fails:
\* the chunk is handed back to the null context again and again.
NullLoop ==
    /\ stack # <<>> /\ stack[Len(stack)].ptr = null_context
    /\ \E c \in Live(heap) : /\ talloc_parent_chunk(heap, c) = null_context
                             /\ heap[c].destructor \in {"fail", "busy"}

\* Every talloc_free returns, whatever destructors fail or free their parents
\* and whatever references there are, except for NullLoop.
FreeReturns == stack # <<>> ~> (stack = <<>> \/ fault # "none" \/ NullLoop)
=============================================================================
