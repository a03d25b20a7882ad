# A TLA+ model of phat

phat reads a Java heap dump in HPROF format, keeps its classes and objects in
red-black trees and, on request, resolves and prints the objects of a class
(`src/phat.c`, with `src/rbtree.c` and the allocator `src/talloc.c`).  This
directory holds TLA+ modules translated from that code, TLC configurations that
check them on small instances, and proofs checked by TLAPS.  `PROJECT.json` maps
every definition to the lines it models and lists runs, mutants, findings,
hazards and theorems.

## Inventory

| Part | State | Operations | What makes it correct |
|---|---|---|---|
| HPROF reader: `readDump`, `readHeap`, `readClass`, `readArray`, `readValue` | file cursor, `hsize`, seven tables, `fakeClass`, `javaLangString` | one handler per record and sub-record type | `hsize` follows the file; the tables hold what the file says; no untested lookup fails on a well ordered file; it ends on every file |
| Instance resolver: `resolveInstance`, `resolveInstances`, `collectStats`, `arc_lookup`, `arc_add` | per object `resolved`, `hvalues`, `osize`, `csize`; per class its arcs; the same file cursor; the C stack | call, one step of a field or element loop, return | terminates on cycles; every value comes from the object's own bytes; totals and arc counts are those of the heap |
| Red-black tree: `trbt_*32` | nodes, root, colours; a node is a talloc child of its data | create, insert, insert with callback, lookup, delete, free of data, free of tree | ordered, balanced, pointers agree; a dictionary to its callers; never returns freed data |
| Red-black tree with array keys: `trbt_*array32` | trees of trees, autofree | insert, lookup, traverse, find first | as above, level by level; an emptied subtree leaves its parent |
| Class layout: `resolveSClassSize`, `resolveClassNode` | `tfields`, `values`, `offset`, `resolved` | one walk per class | each field has its offset in the instance's bytes |
| Instance printer: `printInstance`, `printInstances`, `collectStats` | `visit`, the C stack, the count of equal elements | recursive print, limited by `-l` | ends; reads only values that were set; prints everything that is due, the fields of an object once |
| Byte decoding: `readUshort`, `readUint`, `readUlong`, `readIdent`, `readVersion`, the header and tag loop of `readDump` | file cursor, version and string buffers | one read per step | agrees with big-endian decoding; accepts exactly whole headers; stays within its buffers |
| Class graph: `mg_assemble` and what it calls | numbering, cycles, propagated sizes | depth-first numbering, topological sort, propagation | (not called by the program) |
| talloc | chunk headers in sibling lists, reference lists, destructors, `null_context`, calls of `_talloc_free` | alloc, name, set destructor, reference, steal, unlink, free, realloc, null tracking | lists agree; a free returns, frees what nothing keeps and hands on the rest; freed memory is read in one known case only |

The parts meet in a few places.  All tables of the reader are red-black trees with
32-bit keys, whose nodes belong to the data they point to; talloc frees them together.  The
resolver and the reader share one `FILE *`: the resolver seeks in the file in the
middle of the reader's loop.  The printer follows the values the resolver loaded,
by turns with it.  All of this happens at the end of each heap dump record, while
`hTable`, the marks and the values of earlier records stay.

The program is a single thread.  What is hard in it is not concurrency but
recursion over cyclic data with shared state (the cursor, the marks, the sizes
still being added up), unchecked lookups that depend on the order of records,
unsigned arithmetic that must come out at exactly zero, memory that talloc does
not clear, and pointer surgery in a tree whose nodes are freed from under it.
The hazards in `PROJECT.json` are listed by line.

## Modules

| Module | Contents |
|---|---|
| `HprofReader` | the two nested loops of the reader |
| `HprofReaderProof` | theorems `AccountingHolds`, `StaysWithTheFile` |
| `HprofTablesProof` | on top of it, the tables: theorems `TablesAreExact`, `ClassesAreFound`, `WellOrderedNeverCrashes` |
| `InstanceResolver` | the recursive resolver with an explicit stack |
| `InstanceResolverProof` | the inductive invariant and theorems `Invariance`, `TypeCorrect`, `NeverReentered`, `LoadedFromOwnBody` |
| `ResolverGraphProof` | on top of it: theorems `GraphInvariance`, `ArcsRight`, `ResolvesTheReachable`, `SumsInvariance`, `TotalsRight` |
| `ClassLayout` | `resolveClassNode` over several heap dump records |
| `ClassLayoutProof` | theorems `LayoutInvariance`, `StaysWithinMemory`, `LayoutsKept`, `NamesInvariance`, `NamesReach`, `LayoutsCorrect` |
| `Dictionary` | what a table promises: a partial function |
| `RbTree` | `rbtree.c` pointer by pointer, implementing `Dictionary` |
| `Talloc` | `talloc.c`: the tree of chunks, with `_talloc_free` step by step |
| `InstancePrinter` | `printInstance` with an explicit stack, and what drives it |
| `InstancePrinterProof` | theorems `PrinterInvariance`, `ReadsOnlyResolved`, `FieldsPrintedOnce`, `ElementsAccounted`, `PrintsTheDue`, `OnlyArraysOverflow` |
| `ByteReader` | the decoders and the part of `readDump` that works on bytes |
| `ByteReaderProof` | theorems `ReaderInvariance`, `DecodesRight`, `DecidesHeader`, `OverrunsOnLongVersion`, `StringsInBounds`, `StepsOverRecords` |
| `CommonLemmas` | what the proofs share: sequences as stacks, remainders, the smallest element of a set of naturals, functions defined by recursion on the naturals |
| `MC*` | the instances TLC checks |

### InstanceResolver

`stack` is the C stack of `resolveInstance`: a frame is the object, the loop
index `i` and the local `size`.  `pc`/`arg` say what happens next: `drive` (the
in-order traversal picks the next object), `call` with an object, `loop` in the
innermost frame, `ret` with a result.

| Action | Code |
|---|---|
| `Drive`, `DriveEnd`, `ReturnToDriver` | `collectStats` (`-C`), `resolveInstances` (`-a`) |
| `CallResolved` | `if (ho->resolved) return ho->osize + ho->csize` |
| `CallLeaf` | primitive arrays; empty arrays, which return before `osize` is stored |
| `CallOArray` | reads all identifiers, then loops |
| `CallInstance`, `LoadField`, `LoadElement`, `Finish` | entry, the two loops, the stores after them |
| `ReturnToFrame`, `ArcAdd`, `ReturnSegv` | `ho->csize += ...; arc_add(...)`; `arc_lookup` on an unset list |

The bytes of an object are cells, one per field or element; a field's byte
offset is the index of its cell (`slot`), and the layout is the parameter
`Fields`.  `Init` gives `osize` a value from `Garbage`, because `makeObj` does
not set it, and `wild` says for which classes the unset `children` pointer
happens to be wild.  The heap is that of one traversal, at the end of one heap dump
record; what a later record adds or replaces is the subject of `InstancePrinter`.  `ci->size`, `child_size` and the parent lists are read only
by the class graph code, which is never called, and are left out.

### HprofReader

The file is a sequence of records; the cursor is the index `next` together with
`left`, the bytes that really remain of the heap dump record.  The program does
not have `left`; it has `hsize`, modulo 2^32.  Keeping both makes the accounting
a property.  `BytesRead` adds up the reads and seeks of a handler, `BytesCharged`
what it subtracts; they are written down separately from the same lines.  They
differ where `readValue`'s result is not what was read (`Miscount`, summed up in
`slack`): by one for the type tag of each constant pool entry, which `readClass`
forgets, and by two for each boolean that is neither 0 nor 1, for which `readValue`
returns -1 after its byte.  Of a value of unknown type nothing is read and 0 is
returned; an array of primitives of unknown type is taken for one of objects of the
class with that number, which is not tested.  How many bytes the file has for
such a value cannot be said, so the reader either goes on or is `lost` (`Onward`).

`pc` is `header`, `record` (loop of `readDump`), `heap` (loop of `readHeap`),
and the ends `exit`, `crash` (a NULL lookup dereferenced), `lost` (bytes of one
kind are parsed as another) and `torn` (a file that ends within a record, after
which the code works with uninitialised variables).  Every handler is an action
with all its table updates.  At the end of a heap dump `HeapDone` does to the
reader what the resolver does: if objects are selected it may move the cursor
(`synced`) and it may crash on a class it cannot find.  `EofRoot` is the end of the file inside a heap dump,
where the `unsigned char` makes EOF look like a root of unknown kind.

Not in the model: counters and text of the summaries, timestamps, names beyond
their identity (`Hash` stands for crc32).

### ClassLayout

`finfo` is the memory of field records, an address being an index: `ReadClass`
appends the records of a class, `copyField` appends a copy, and `values[c]` holds
addresses, so that sharing a record with the superclass would show.  The calls of
`resolveClassNode` are frames with its local variables; `Place` is one turn of
the loop with the climb to the next class that has fields.  A topmost class has
`superId` 0 and, as in the code, its own fields count for nothing.

A class may be resolved before its dump is read, or dumped again after: a file
may have several heap dump records and each is resolved when it ends.  (The
resolver moves the file cursor, see `reader_in_step`; the next record is still
met when the last value read is the last of the record, or when the objects
resolved have no bytes.)  Until its dump is read, `superId` and `cfields` are
what talloc left there (`Garbage`), and `fields` is a wild pointer.  `EnterSegv` is also
the loop that marks the statics of such a class, of a number and at an address never
set.  `known` and `reread` only record which classes were resolved from complete dumps and which
were dumped after they were resolved.

### RbTree and Dictionary

`t` holds the root and, per node, both children, parent, colour, key, data and
talloc owner.  The C code has each case for both sides; the model has it once
with the side as a parameter (`Rotate`, `delete_case5`...).  `delete_node`
removes the predecessor of a node with two children, then exchanges the two
nodes so that the freed memory is the one the caller meant; `DeleteOne` is the
part for at most one child, with the dummy `dc` as a real cell.  Writing through
NULL sets `t.segv` instead of being undefined.

Freeing data is several steps (`FreeData`, `FreeChild`, `FreeDone`): talloc runs
the destructors of the children one at a time, each takes its node out of the
tree and rebalances.  talloc frees children from the head of its list; the model
allows any order.  A node's address is named after the key it was created for;
`NodesKeepTheirKey` shows that this name is free when it is used.

`Dictionary` is the abstract specification.  The refinement mapping reads the
nodes (`Contents`), of which `Found`, a part of `RedBlackTree`, says that they are what
`trbt_lookup32` returns.  `Roomy` is a bound for TLC: with two data allocated only the
keys in `Few` are used.

### Talloc

`heap` maps an address to the header of the chunk there: `next`, `prev`, `parent`,
`child`, `refs`, `destructor`, the loop flag, and for a reference handle what it
names and its place in the list of references.  As in the code only the first
sibling has a valid `parent`, an unlinked chunk keeps its stale pointers, and
malloc returns the lowest free address, so that freed memory is used again soon.
`Memories` are the memories considered; in one larger than `Full` clients make fewer
calls and gaps are not filled (`Small`), a bound for TLC.

A call of `_talloc_free` is a frame: `enter`, `destructor`, `children` (the head
of the while loop) and `child` (a nested call is out).

| Action | Code |
|---|---|
| `FreeReferenced` | the chunk has references: drop the most recent, repeat if it came from below |
| `FreeLooping`, `FreeBusy` | the loop flag; the destructor value -1 |
| `FreePlain`, `CallDestructor`, `DestructorFails`, `DestructorSucceeds` | the destructor, then the unlinking |
| `FreeChild`, `ChildStays`, `FreeDone` | the loop over the children with the owner found in advance; `__talloc_steal`; `tc_free` |
| `UnlinkReference`, `UnlinkLast`, `UnlinkOwner` | the three outcomes of `talloc_unlink` that change something |

Clients call with pointers they hold, never with a reference handle or the null
context.  A destructor fails (`fail`) or frees its own chunk's parent (`up`); one
that frees anything (`any`) is in the module and not in the run, see below.
`fault` records a read of freed memory or a loop of parents and stops the model,
as what follows has no meaning.  `call` is a history variable: the client's
outermost free and the heap it met.

What the model shows of the code, beyond the properties:

* A chunk that is referenced from below itself may be handed to its own
  descendant, by `talloc_unlink` of its owner, or by a free of its parent if the
  most recent reference is from below and another reference or a failing
  destructor keeps the chunk.  The two then hang on each other and on nothing
  else.  The same happens to two siblings with references to each other, when a free
  of their parent hands the first to the second and then the second to the first.
  `LoopOnlyInRing` says what all these have in common: when the call is made, owners
  and references form a ring.  The documentation warns of loops for `talloc_steal`
  alone (`talloc.h:293`).
* A chunk that is being freed keeps `prev`, and the owner of its second child is
  looked up through it.  If `prev` was a reference handle to the first child, it went
  with that child and freed memory is read: five chunks are enough, `p`, `x` below
  it, two children of `x` of which the second has a destructor, and a reference of `p`
  to the first.  The comment at `talloc.c:557` guards against the
  free of the same child only.  `FreedOnlyPastReference` says that it takes such a
  handle: one of the chunk's owner to a chunk below it.
* `talloc_disable_null_tracking` never returns if a top-level chunk's destructor
  fails: the chunk is handed back to the null context that is being freed
  (`NullLoop`, the exception in `FreeReturns`).
* With two destructors of kind `any` freed memory is read without a reference, too:
  `talloc_parent_chunk(ptr)` follows the stale `prev` when an earlier sibling was freed
  by a destructor in between, while `talloc.h:172` allows a destructor "freeing other
  pieces of memory".
* `talloc_unlink(NULL, ptr)` fails for a chunk that was made before null tracking
  was enabled: NULL then means the null context.

Not in the model: names and sizes, external allocators and their lock, reports,
the string and array helpers, `talloc_set`, the autofree context.

### InstancePrinter

`stack` is the C stack of `printInstance`, bounded by `MaxDepth`; a frame has the
object, the depth `indent`, the index of the loop and, for arrays, `last_cnt` and
`last_pid`.  `Drive` is the next object of `collectStats` (`-C`, which resolves it
first) or of `printInstances` (`-a`, after all were resolved).  `EndOfHeap` is the
end of the next heap dump record: `heap`, which is `hTable`, has got what the record
dumped, new objects and others anew, which are then neither resolved nor marked;
nothing clears the marks of the rest.  `Records` is what each record in turn may hold.
Resolving is one step: what an object reaches through objects not resolved before
(`Reach`).  `loaded` is `resolved` with the record it was set at; `born` (the record
that dumped an object last), `last` (the record at whose end it was printed last),
`fields`, and `run`, `label` and `told` in a frame are history.  Identifiers of no
object are null, all ones (the initial `last_pid`) and one unknown.

With several records an object resolved at the end of one may refer to an object
that only a later one dumps.  It is not resolved again, so with `-C` the lookup finds
the new object and its `hvalues` are read unset (`PrintUnset`, after which nothing is
claimed); `ReadsResolved` says that there is no other way to it, and that `-a` is
free of it.  And an instance that was printed is "[ recursive ]" from then on, so what
it refers to that came later is not printed through it: `CompleteWithoutLimit`
promises what an object referred to when it was printed last (`Known`).

With `-l n` a shared object met first at the limit is marked there although what
it refers to is not printed, and its fields are not printed again where they are
due: `LimitExact` promises completeness only without sharing, and at the end of the
first record.  The all-ones
identifier gets no label, and after an object the count of an earlier run's
identifier is printed without one (`RunsAccounted` states both).

### ByteReader

A byte has `Base` values; `Word` and its square are the ranges of the C types.
`readUlong` is written as the C expression parses: the last shift applies to the
sum, and the upper half is an `int` first.  `ReadVersionChar` is one turn of the
loop of `readVersion`, with the NUL it stores one too far (`over`).  The decoders
are the `#else` branches: `endian.h` defines `__BYTE_ORDER`, and `__BIGENDIAN`,
which nothing defines, counts as 0.
In `ReadUtf8` the capacity of the buffer is unsigned and the length signed, as in
the code; NULL from talloc is a `crash`, a store or a search past the end an
`overflow`.  Records other than strings are skipped here.

## Runs

Every run takes less than four minutes with two workers.

| Run | Result | Instance |
|---|---|---|
| `resolver` | pass, 412 k states | all heaps of 3 objects from four classes: instances with inherited fields, object arrays with duplicate and dangling identifiers, empty and non-empty primitive arrays, float fields; driven for one class or all |
| `reader` | pass, 294 k states | 8 preludes (complete, a class, a name or String missing, a class loaded twice) x all bodies of up to 3 of 8 sub-records, and of 2 with illegal booleans, values and arrays of unknown type; all roots; an unknown sub-record; two heap dumps; two files that may end at or in any record; options none, `-a`, `-C`; liveness |
| `class_layout` | pass, 332 k states | 4 classes in a chain or a fork, each with no or two fields of different width, topmost one included; dumped in one or two records, one never or late; four kinds of garbage; resolved in every order |
| `rbtree` | pass, 87 k states | 10 keys with one datum, 5 keys with two, callbacks that replace one by the other; the two data are symmetric |
| `talloc` | pass, 864 k states | 4 blocks of memory, one destructor at a time, with and without null tracking, every sequence of calls; 5 blocks, trees, destructors, references and frees in every order; liveness |
| `printer` | pass, 1.2 M states | heaps of 3 objects: instances and object arrays that refer to any two objects, runs of null, unknown and all-ones identifiers, value arrays, one object missing; a second heap dump record that is empty, brings it, or dumps others again; limits none, 1, 2; liveness |
| `bytes` | pass, 63 k states | 8 beginnings x 3 identifier sizes x 3 dates, and up to two records with lengths around the identifier size, each cut at every byte; liveness |
| `resolver_totals`, `resolver_arc_lists`, `reader_in_step`, `reader_class_by_ident`, `bytes_date` | violation | see Findings |

Bounds.  Three objects are enough for self-reference, two- and three-cycles,
sharing (diamonds) and a cycle entered from outside; one more object adds length
only, and the proofs cover every size.  The byte modulus, key modulus, instance
limit and array growth are scaled down (1024 or 4096, 64, 2, 1) so that wrapping,
key collision, the limit and growth happen; the real values are 2^32, 2^32, 50000
and 10.  Ten keys give trees with seven or more black nodes, where a shortage
climbs through `delete_case3` twice; every rebalancing case occurs from eight on.
Two data on five keys let one datum own several nodes, some of them each other's
predecessors, while it is freed.  Four blocks of memory hold a parent, a child and
two references to it, or three generations with a reference from below, and freed
memory is handed out again.  Five hold two siblings with references to each other, and
a handle before a chunk with two children; there the calls are fewer and no gap
among the chunks is filled.  `MaxDepth` 13 is
more than three objects times four, the deepest walk without a repeated array
between two instances (`StackSuffices` in `InstancePrinterProof`); limits 1 and 2 lie within heaps of depth 3.  Bytes of four values make words of
256, identifiers of 4 and 8 bytes are `0100` and `0200`; the version buffer has 5
places instead of 40, the longest version 2 characters instead of 14, and the
allocation limit is half a word, as in C.

Fairness.  `FairSpec` of the resolver, the reader, the printer and the byte reader
is weak fairness of the whole next-state relation: a sequential program that is
not stopped takes its next step.  In `Talloc` it is weak fairness of `FreeStep`, a
call that has begun goes on; clients need not call.  No single action is favoured.
The tree and the class layout have no liveness property.

`CHECK_DEADLOCK FALSE` is used for the tree, where the process may have died
writing through NULL, and for talloc, which stops at a fault; the other
specifications end in an explicit `Terminated` step.

### What the passing runs show

* Resolver: it ends on every heap (`Termination`) because no object is entered
  twice (`NoReentry`); every value of a resolved object was read from its own
  body although nested calls moved the cursor (`ResolvedIsLoaded`); exactly the
  selected objects and what they reach are resolved (`ResolvedAreReachable`); a
  pair of classes has one arc, listed once, counting the references
  (`ArcsExact`); `self+children` is the recursive total wherever the
  heap below an object has no cycle, empty array or float field (`TotalsExact`).
* Reader: `hsize` is the rest of the record up to what `readValue` miscounts, the
  constant pool tags and the illegal booleans (`Accounting`), and reader and file lose
  step only in a record with those, after a value or array of unknown type, or through
  objects that `-C` or `-a` select (`LostOnlyKnownWays`); instance counts and the object table are those
  of the file, unless a made-up class takes the key of a class of the file or two
  classes have the hash of `String` (`TablesExact`); a class in the table is found by
  name and, where identifiers have 32-bit keys of their own, under its identifier
  if the file loaded it (`ClassesFound`; for the others see Findings); a file in the order a JVM writes it crashes
  nothing (`NoCrashOnWellOrdered`); a file that ends in a heap dump is still left
  (`Termination`), but only because `1 + identsz` is odd.
* Class layout: a class resolved from complete dumps has every field in its place,
  with the offset of its bytes (`LayoutCorrect`), and keeps that layout when
  subclasses copy from it or its dump is read again (`LayoutKept`); the loop
  stores each slot of `values` once and none outside, and it follows a bad
  pointer only where a dump was missing (`WithinMemory`); field names are
  missing only below a class resolved before one of its dumps
  (`NamesLostOnlyByRereading`), which then prints through an unset pointer.
* Tree: after every operation the nodes form one ordered, balanced tree with
  matching parent pointers (`RedBlackTree`), the rebalancing
  follows no NULL (`NoNullWrite`), a node stands for the key it was made for
  (`NodesKeepTheirKey`), no lookup returns freed data (`NoDangling`), and the tree implements `Dictionary`
  (`ImplementsDictionary`).
* talloc: the sibling lists, the lists of references and the parents agree after
  every call and in the middle of a free, and blocks are counted right
  (`HeapConsistent`); a free takes all that has no reason to stay and
  nothing else (`SubtreeFreed`), gives what stays to a reference's owner or its parent
  (`SurvivorsOwned`), closes a loop only where owners and references form a ring
  (`LoopOnlyInRing`), reads freed memory only past a reference to a chunk below
  the one it frees (`FreedOnlyPastReference`), and returns (`FreeReturns`).
* Printer: it ends, overflows the stack or comes to unset values (`Termination`), the
  second only through a cycle of object arrays and without `-l`
  (`OverflowOnlyByArrays`), the last only with `-C` and for an object dumped later than
  the one referring to it was resolved (`ReadsResolved`); fields are printed once until
  the object is dumped again (`FieldsOnce`); at the end of each record the selected
  objects and what they and others referred to when printed last are shown, without
  a limit, and nothing beyond it with one (`PrintsWhatIsDue`); every element of an array is reported under its own
  identifier (`RunsAccounted`).
* Bytes: 16- and 32-bit values are right, 64-bit values if they fit in 32
  bits (for the others see Findings), the lower half, which is the key in all tables, always (`DecodedRight`); a
  header is accepted if and only if it is
  whole (`HeaderDecided`); `sb` is overrun by a version without an end, by one byte
  (`OverrunOnlyLongVersion`), and the buffer of a string only by a record shorter
  than its identifier (`StringInBounds`); the loop stays on record boundaries and
  ends at the end of the file or at a tag 0xff (`InStepToTheEnd`); it ends
  (`Termination`).

Several properties are conjunctions of named parts (`HeapConsistent`,
`WithinMemory`, `RedBlackTree`, `TablesExact`...), each with its own comment in the
module; the type invariant is the first part.  Each property has a mutant in `PROJECT.json`: a definition with a plausible bug
under which TLC finds it violated.

### Findings

| Run | What |
|---|---|
| `resolver_totals` | the total of an object on a cycle includes an `osize` not stored yet, that is, uninitialised memory: the negative totals in the program's own README |
| `resolver_arc_lists` | `arc_add` walks class lists that only the disabled `mg_assemble` would initialise |
| `reader_in_step` | after `-C` the record loop continues where the resolver left the cursor |
| `reader_class_by_ident` | a class made up for an array is stored in `cTable` under its identifier plus one (`phat.c:739`, against "class table, by ident" at `phat.c:58`), so its objects find no class or that of another array |
| `bytes_date` | `readUlong` shifts the upper half once too often, and the creation date that is printed is wrong for every dump since 1970 |

Disagreements that show in the models themselves, without a run of their own:
`talloc_free` reads freed memory past a reference handle (`talloc.c:562`, see Talloc
above), the precaution in the comment there notwithstanding; `trbt_delete32` leaves the data, which
`rbtree.h:68` says it frees; the tree does not steal the data inserted, which
`rbtree.h:53` says it does; `talloc_free` returns -1 for a referenced chunk, not
only for a failing destructor as `talloc.h:136` has it.

## Proofs

The proofs hold for every value of the constants that meets the named assumptions
in the modules, which TLC evaluates on the instances.  Beyond types these say:
`Fields` and `Heaps` are well formed and a heap has finitely many objects, as `hTable`
has entries (`FiniteAssumption`); files are made of bytes and the versions
have neither NUL nor more characters than `sb` (`HeaderAssumption`,
`BufferAssumption`); Java classes do not inherit from themselves
(`AcyclicAssumption`); `MAX_TALLOC_SIZE` is at most half the range of `unsigned`
(`AllocAssumption`; it is 0x7fffffff); and, in `HprofReader`, crc32 has a 32-bit
value for every name looked up (`HashAssumption`) and the sub-records of a heap dump
record add up to its length (`FramedAssumption`), which is what makes a reader out of
step a fault of the reader and not of the file.

| Theorem | Property | Inductive invariant |
|---|---|---|
| `TypeCorrect`, `NeverReentered`, `LoadedFromOwnBody` | `TypeOK`, `NoReentry`, `ResolvedIsLoaded` | `IInv` |
| `ArcsRight`, `ResolvesTheReachable` | `ArcsExact`, `ResolvedAreReachable` | `IInv /\ GInv` |
| `TotalsRight` | `TotalsExact` | `IInv /\ SInv` (of `ResolverGraphProof`) |
| `ReadsOnlyResolved`, `FieldsPrintedOnce`, `ElementsAccounted`, `PrintsTheDue` | `ReadsResolved`, `FieldsOnce`, `RunsAccounted`, `PrintsWhatIsDue` | `PInv` |
| `OnlyArraysOverflow` | `OverflowOnlyByArrays` | `PInv /\ Nested /\ Full` |
| `DecodesRight`, `DecidesHeader`, `OverrunsOnLongVersion`, `StringsInBounds` | `DecodedRight`, `HeaderDecided`, `OverrunOnlyLongVersion`, `StringInBounds` | `RInv` |
| `StepsOverRecords` | `InStepToTheEnd` | `RInv /\ SInv` (of `ByteReaderProof`) |
| `AccountingHolds`, `StaysWithTheFile` | `Accounting`, `LostOnlyKnownWays` | `AInv`, `LInv` |
| `TablesAreExact` | `TablesExact` | `TInv` |
| `ClassesAreFound` | `ClassesFound` | `CInv` (of `HprofTablesProof`) |
| `WellOrderedNeverCrashes` | `NoCrashOnWellOrdered` | `NInv` (of `HprofTablesProof`) |
| `StaysWithinMemory`, `LayoutsKept` | `WithinMemory`, `LayoutKept` | `CInv` |
| `NamesReach` | `NamesLostOnlyByRereading` | `NInv` |
| `LayoutsCorrect` | `LayoutCorrect` | `LInv` (of `ClassLayoutProof`) |

**InstanceResolverProof.**  `NoReentry` and `ResolvedIsLoaded` speak about calls
that have not begun or have returned; to be inductive they need what holds of the
calls in between.  `IInv` adds: every frame's object is marked, is not a
primitive array and has its values up to the loop index loaded (`FramesOpen`);
every frame that waits for a nested call waits at a reference (`FramesWait`) to an
object that has been entered (`Entered`), and the call about to be made is the one
the innermost frame waits for (`CallPending`).  The seek before each field is what
makes `LoadField` preserve `FramesOpen` whatever the cursor was; marking on entry
is what makes a push preserve `NoReentry`.  One lemma per action or group of
actions, then `Invariance` and the theorems from it.

**ResolverGraphProof.**  The counts of `arc_add` are right only at the end; before
that they are those of the references that some frame has passed (`Seen`,
`Counted`).  Four kinds of steps (`StepKinds`) are all that the graph sees: nothing
changes, an object is entered, a frame goes on to its next field or ends, and
`arc_add` counts the reference a frame waited at, which is the one reference that
then becomes `Seen`.  At the end no frame is open and every reference of a resolved
object is counted.  Reachability is the smallest set closed under references, stated
as an intersection (`Reach`), so that no recursion is needed: from above, every
argument of a call is reachable (`Walked`); from below, `ResolvedIsLoaded` closes
the resolved set.

`TotalsExact` compares what the loops add up with a recursion over the heap
(`Total`).  The recursion is on the objects with no cycle, empty array or float field
below them (`Clean`), and a function that satisfies it exists because what an object
refers to reaches fewer objects than it does (`Depth`, `TotalExists`, `TotalFixed`).
`SInv` says that in every frame, the innermost and those that wait, `size` and the
`csize` of its object make up the values the frame has passed (`FramesAdded`), that
an object whose call has returned has its total (`AllSummed`), and that the call about
to return hands over the total of the object it was made for (`Returned`).  The hard
case is a call for an object already marked: it returns what is stored.  If that
object is not on the stack, `AllSummed` has its total.  If it is on the stack, its sum
is unfinished; then, since each frame is for the object that the next one refers to
(`Chained`), the caller can reach itself and has no total to be wrong about
(`OpenIsCycle`).  No object has two frames (`NoReentry`), so only its own frame adds
to its `csize`.  All equations are modulo the width of `unsigned long` (`ModAdd`).

**InstancePrinterProof.**  Over several records it matters when an object was dumped,
resolved and printed.  `Loads` says that what a resolved object refers to is resolved
unless it was dumped later than that, and that with `-a` all is; a record that
dumps an object again makes it younger than all that is resolved (`RecordPInv`), and
`Drive` resolves a set that is closed but for what was resolved before (`DrivePInv`).
From it and `InResolved`, that an argument is resolved or is what the caller refers to,
follows `ReadsResolved`.  What is printed depends on how the frames hang together:
`Traced` says that a frame is as many references away from a root as its indent, and
`Printed` what has been shown of the objects that are done with, of those whose loop
is open, and of the one about to be called, where an object owes what it referred to
when it was printed last (`Known`), which no later record changes; in it the marked
but unfinished objects are exactly those on the stack.  With a limit, `Due` uses that in a heap without
sharing an object is met at one depth only.  `OnlyArraysOverflow` has the
hypothesis `StackSuffices`: the stack is deeper than the limits and than
(n + 1) n calls for n objects.  Between two instances on a stack, which are
different because they are marked (`Nested`), come only arrays; if no array
repeats there, the map from a frame to the pair of the instance above it and its
own object is one-to-one, so a full stack has a repeated array by the pigeonhole
principle.  The run of TLC meets the hypothesis, and it is a matter of available memory
in the program.

**ByteReaderProof.**  The decoders are sums of digits; for `readUlong`, with the
shift applied to the sum and the upper half sign extended, the value is the right
one plus a multiple of (B - 1) times the upper half modulo the square of the word,
so it is right if the upper half is 0, and its lower word always is.  `RInv`
says at each point of `readDump` what has been taken of the file (`Stage`): the
buffer is the part of the file after the magic number, without a NUL but the last.
For the records, `RecordStarts` is a function defined by recursion towards the end of
the file; that it exists follows without induction from the smallest sets that hold
with a record the one after it (`StartsExist`), and that its value holds with a record
the next from the smallest rest of the file for which it does not (`StartsGoOn`).
`SInv` adds where the record of an open string began.  A record shorter than its
identifier never comes back to the loop: `talloc_zero_array` is asked for no byte or
for more than it gives (`ShortRecord`).

**HprofReaderProof.**  `AInv` is `Accounting` with the types of `left`, `slack`
and `hsize`.  The arithmetic is `ModMinus`, that subtracting before or after
taking the remainder is the same, and `ChargedIsRead`, that for every sub-record
what is charged is what is read less `Miscount`: one byte per constant pool entry and
two per illegal boolean.  For
`StaysWithTheFile` the invariant `LInv` compares the cursor with what a framed file
has left at it (`Due`): with `hsize` the rest of the record, the loop of `readHeap`
ends exactly where the record ends as long as `slack` is 0.

**HprofTablesProof.**  The handlers are first reduced to what they do to the tables
(`Effect`, lemma `StepEffect`): nothing, a string, a class loaded, a class dump, an
instance, an array whose class is found or made up, and so on; each invariant is
then kept by each effect.  `TInv` relates tables and file at the cursor: a key of
`cTable` holds the last class stored under it (`TabInv`, `EntriesInv`), the hash of
a name in `rcTable` leads to a class with that hash (`HashInv`), and counts and
objects are those of the records before the cursor (`ObjectsInv`).  For `ClassesFound`,
`CInv` adds that a class has the identifier of a load record or was made up, with a
number given out, for a primitive array (`OwnNumbers`), and that an object has the
number of such a class (`OriginInv`).  For `NoCrashOnWellOrdered`,
`NInv` adds, as far as the file is well ordered, that superclasses were loaded before
their subclasses (`OrderInv`); the load records then decrease on the way up, so the
walk that `HeapDone` makes over every object comes to an end (`AllGrounded`).  The
proofs settled what the properties must ask of the file, each confirmed by a
counterexample of TLC: a class made up for an array may take the key of a class of
the file, which loses its count (`FakesApart`); of two identifiers with the same
lower 32 bits one class remains (`KeysApart`); `String` loaded twice moves the
exemption from the limit (`OneString`); and a superclass loaded again after its
subclass can make the superclasses a cycle, so `WellOrdered` compares the last load
of both.

**ClassLayoutProof.**  `resolveSClassSize` and the loop of `resolveClassNode` walk up
the superclasses separately; that they agree is `Looping`: at the l-th superclass
`i` is the number of fields of the l classes below and `fieldNo`, `target` is
`tfields` less the fields of l + 1 classes, and exactly the slots before `target`
and the rest of the current class' are not set.  `Climbing` says that the open calls
are for the superclasses in turn, none of them resolved, and so all different.
`SegvOnlyUndumped` then follows from `AcyclicAssumption`: if all dumps up from the
first call have been read there is a topmost class, and `Looping` leaves no field
missing.  For `LayoutKept` the addresses matter: the dumps of two classes do not
overlap (`Read`), and what a class has in `values` is in no other class' dump
(`Private`), because inherited fields are copies.  `NInv` adds to `CInv` that a
superclass is resolved first (`SupersFirst`) and that a loop names every field of
its own dump (`OwnNamed`, `NamedSoFar`); a class keeps a class dumped again above it
because only the dump of a class can change its superclass.  `Lineage` and
`FieldSum` are recursive functions; that they exist is `NatRecursion` in
`CommonLemmas`, proved from the functions on initial segments.

`LayoutCorrect` compares a resolved class with counts and sums over the sets of fields
that the dumps define.  In between, `LInv` says how far the loop has come
(`LaidSoFar`): the fields laid out are those of the first l classes and the first
`fieldNo` of the next (`Done`), `index` is the sum of their bytes, and each stands in
its slot with its type and offset.  It needs that the records of a dump are the
dump's (`DumpsRead`), that a class counts as known only once its dump and all above it
were read (`KnownDumped`), and that no call waits with bytes already counted
(`AtFirstByte`).  The slot that the property counts, one more than the fields of the
classes above and of the same class before it, is the code's
`target + fieldNo + 1` (`SlotIs`, `TurnAdds`); classes on the way up are all different
(`AncDistinct`), so no field is counted twice.  Inherited fields are copies
of the records of the superclass' dump, whose identity and type no step changes, and
the loop sets the offset of the copy anew.  The sums are folds of the community modules, whose
element is chosen at each step; that adding an element adds its weight (`SumTakes`)
holds for each finite set whatever is chosen, by the smallest set for which it does
not.

**Only model-checked.**  Liveness (all `Termination` properties, `FreeReturns`);
the tree, whose operations recurse as the code does; `Talloc`, whose invariants follow
lists and parents through every pointer that a step changes, so that each step needs
an induction along the paths it cuts or joins; no proof of it was tried.  Where an
argument needs induction over the naturals (the depth of a stack, the length of a
path) the proofs take the smallest counterexample (`Smallest`).

## Not modelled, and plan

1. Theorems about `Talloc` (`HeapConsistent`, `LoopOnlyInRing`).
2. `InstanceResolver` with the layout `ClassLayout` computes in place of `Fields`,
   and reader and resolver composed on one cursor.
3. `RbArray`: array keys as trees of trees with the autofree cascade, on top of
   `Dictionary`; phat does not use them.
4. The class graph (`mg_assemble`), which the program does not call.
5. talloc's external allocators: `lock` and `unlock` are not counted, so a nested
   call releases or aborts; phat sets no external allocator.

Outside any model: the text printed, `getopt`, compiler macros, the file system.
