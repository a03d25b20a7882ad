-------------------------- MODULE ClassLayoutProof --------------------------
(***************************************************************************)
(* For every set of classes, every set of fields, every order in which     *)
(* dumps are read and objects met, and whatever talloc leaves behind:      *)
(* resolveClassNode stays within the memory it has, a layout that is done  *)
(* never changes, names are lost only below a class dumped again, and a    *)
(* layout is the one that the dumps define.                                *)
(*                                                                         *)
(* tfields comes from resolveSClassSize, which walks up to the topmost     *)
(* class; the slots come from the loop, which walks up again.  That they   *)
(* agree is the invariant Looping: a frame at the l-th superclass has      *)
(* placed FieldSum[l] + fieldNo fields, and its target is tfields less     *)
(* FieldSum[l + 1].  Slots cannot run out before the topmost class, and    *)
(* nothing is placed from the topmost class itself.                        *)
(*                                                                         *)
(* That a layout is kept needs to know whose records are written: own      *)
(* fields are records of the class' own dump (Private, Read), which no     *)
(* other class shares, and a class is written only while a call for it is  *)
(* on the stack, when it is not resolved (Climbing).                       *)
(*                                                                         *)
(* That a layout is right needs to know how far the loop has come          *)
(* (LaidSoFar): at level l it has laid out the fields of the first l       *)
(* classes and the first fieldNo of the next, index is the sum of their    *)
(* bytes, and each is in its slot.  The slot, counted by the definition    *)
(* of LayoutCorrect over sets of fields, is target + fieldNo + 1 because   *)
(* the fields from there to the topmost class are FieldSum[R] less         *)
(* FieldSum[l + 1]; and a turn adds one field to both sums.                *)
(***************************************************************************)
EXTENDS ClassLayout, CommonLemmas, FiniteSetTheorems

\* The class for which resolveClassNode was called first.
Outer == IF stack = <<>> THEN arg ELSE stack[Len(stack)].class

\* The records of the fields of c are Own(c), if its dump has been read.
Own(c) == fields[c]..(fields[c] + cfields[c] - 1)

Control ==
    /\ pc \in {"record", "read", "drive"} => stack = <<>>
    /\ pc = "loop" => stack # <<>>
    /\ pc = "call" => arg \in Class

\* What the dumps read so far have left: the superclass, and an array of records for
\* each class that overlaps no other.
Read ==
    \A c \in Class : Dumped(c) =>
       /\ superId[c] = dump.super[c]
       /\ fields[c] + cfields[c] <= Len(finfo) + 1
       /\ \A d \in Class \ {c} : Dumped(d) => Own(c) \cap Own(d) = {}

\* A class shares no record with the dump of another: inherited fields are copies.
Private ==
    \A c \in Class : \A k \in DOMAIN values[c] :
       values[c][k] # Unset =>
          \A d \in Class \ {c} : Dumped(d) => values[c][k] \notin Own(d)

\* A resolved class has a record for each of its fields.
Filled ==
    \A c \in Class : resolved[c] => \A k \in DOMAIN values[c] : values[c][k] # Unset

\* The calls are for the superclasses in turn, up to the topmost one at the most,
\* and for classes that are not resolved.
Climbing ==
    stack # <<>> =>
       /\ \E n \in Levels : RootAt(Outer, n) /\ Len(stack) <= n + 1
       /\ \A k \in 1..Len(stack) : /\ stack[k].class = Up(Outer)[Len(stack) - k]
                                   /\ ~resolved[stack[k].class]
       /\ pc = "call" => arg = Up(Outer)[Len(stack)]

\* A call that has not come to its loop.
Fresh(f) ==
    /\ tfields[f.class] = resolveSClassSize(f.class)
    /\ f.cc = f.class /\ f.fieldNo = 0 /\ f.i = 0
    /\ f.target = tfields[f.class] - cfields[f.class]

\* A call in its loop, at the fields of the l-th superclass: i counts the fields
\* of the classes below it and its own, and target is where its fields begin in
\* values, which is filled from there on and up to fieldNo.
AtLevel(f, l) ==
    /\ \A m \in 0..l : Up(f.class)[m] \in Class
    /\ l = 0 \/ superId[Up(f.class)[l]] # 0
    /\ f.cc = Up(f.class)[l]
    /\ f.fieldNo <= cfields[f.cc]
    /\ f.i = FieldSum(f.class)[l] + f.fieldNo
    /\ f.target = tfields[f.class] - FieldSum(f.class)[l + 1]

Looping(f) ==
    /\ tfields[f.class] = resolveSClassSize(f.class)
    /\ \E l \in Levels : AtLevel(f, l)
    /\ DOMAIN values[f.class] = 1..tfields[f.class]
    /\ \A k \in 1..tfields[f.class] :
          values[f.class][k] = Unset <=>
             \/ k <= f.target
             \/ f.target + f.fieldNo < k /\ k <= f.target + cfields[f.cc]

Calls ==
    /\ pc \in {"call", "ret"} => \A k \in 1..Len(stack) : Fresh(stack[k])
    /\ pc = "loop" => /\ Looping(stack[1])
                      /\ \A k \in 2..Len(stack) : Fresh(stack[k])

\* The inductive invariant.
CInv ==
    /\ TypeOK /\ dump \in Dumps /\ file \in Seq(SUBSET Class)
    /\ Control /\ Read /\ Private /\ Filled /\ Climbing /\ Calls
    /\ SegvOnlyUndumped

-----------------------------------------------------------------------------
(* Superclasses.                                                           *)

\* Lineage, step by step.
LEMMA LineageIs ==
    ASSUME NEW sup \in [Class -> Nat], NEW c \in Nat
    PROVE  /\ Lineage(sup, c) \in [Nat -> Nat]
           /\ Lineage(sup, c)[0] = c
           /\ \A n \in Nat : Lineage(sup, c)[n + 1] =
                 IF Lineage(sup, c)[n] \in Class THEN sup[Lineage(sup, c)[n]] ELSE 0
  <1> DEFINE G == [p \in Nat \X Nat |-> IF p[2] \in Class THEN sup[p[2]] ELSE 0]
             Is(f) == f = [n \in Nat |-> IF n = 0 THEN c
                             ELSE IF f[n - 1] \in Class THEN sup[f[n - 1]] ELSE 0]
  <1>1. G \in [Nat \X Nat -> Nat]
    OBVIOUS
  <1>2. \A n, x \in Nat : G[<<n, x>>] = IF x \in Class THEN sup[x] ELSE 0
    OBVIOUS
  <1> HIDE DEF G
  <1>3. PICK f : f \in [Nat -> Nat] /\ f[0] = c /\ \A n \in Nat : f[n + 1] = G[<<n, f[n]>>]
    <2>1. \E f : GoesOn(f, Nat, c, G)
      BY <1>1, NatRecursion
    <2> QED BY <2>1 DEF GoesOn
  <1>4. \A n \in Nat : f[n] \in Nat
    BY <1>3
  <1>5. ASSUME NEW n \in Nat
        PROVE  f[n] = IF n = 0 THEN c ELSE IF f[n - 1] \in Class THEN sup[f[n - 1]] ELSE 0
    <2>1. CASE n = 0
      BY <1>3, <2>1
    <2>2. CASE n # 0
      <3>1. n - 1 \in Nat /\ (n - 1) + 1 = n
        BY <2>2
      <3>2. f[(n - 1) + 1] = G[<<n - 1, f[n - 1]>>]
        BY <1>3, <3>1
      <3> QED BY <1>2, <1>4, <2>2, <3>1, <3>2
    <2> QED BY <2>1, <2>2
  <1>6. Is(f)
    BY <1>3, <1>5
  <1>7. Lineage(sup, c) = CHOOSE g : Is(g)
    BY DEF Lineage
  <1>8. Is(Lineage(sup, c))
    BY <1>6, <1>7
  <1> DEFINE L == Lineage(sup, c)
  <1>9. \A n \in Nat : L[n] = IF n = 0 THEN c ELSE IF L[n - 1] \in Class THEN sup[L[n - 1]] ELSE 0
    BY <1>8
  <1>10. \A n \in Nat : L[n + 1] = IF L[n] \in Class THEN sup[L[n]] ELSE 0
    <2>1. \A n \in Nat : n + 1 \in Nat /\ n + 1 # 0 /\ (n + 1) - 1 = n
      OBVIOUS
    <2> QED BY <1>9, <2>1
  <1>11. \A n \in Nat : L[n] \in Nat
    <2> DEFINE R == {n \in Nat : L[n] \notin Nat}
    <2>1. R \subseteq Nat
      OBVIOUS
    <2>2. ASSUME R # {} PROVE FALSE
      <3>1. PICK n \in R : \A m \in R : n <= m
        <4> HIDE DEF R
        <4> QED BY <2>1, <2>2, Smallest
      <3>2. n # 0 /\ n - 1 \in Nat
        BY <1>9, <3>1
      <3>3. L[n - 1] \in Nat
        BY <3>1, <3>2
      <3> QED BY <1>9, <3>1, <3>2, <3>3
    <2> QED BY <2>2
  <1>12. L \in [Nat -> Nat]
    <2>1. DOMAIN L = Nat /\ L = [n \in Nat |-> L[n]]
      BY <1>8
    <2> HIDE DEF L
    <2> QED BY <1>11, <2>1
  <1>13. L[0] = c
    BY <1>9
  <1> QED BY <1>10, <1>12, <1>13

\* The number of fields of the first n classes, step by step.
LEMMA FieldSumIs ==
    ASSUME superId \in [Class -> Nat], cfields \in [Class -> Nat], NEW c \in Nat
    PROVE  /\ FieldSum(c) \in [Nat -> Nat]
           /\ FieldSum(c)[0] = 0
           /\ \A n \in Nat : FieldSum(c)[n + 1] = FieldSum(c)[n]
                 + (IF Up(c)[n] \in Class THEN cfields[Up(c)[n]] ELSE 0)
  <1> DEFINE u == Up(c)
             w == [n \in Nat |-> IF u[n] \in Class THEN cfields[u[n]] ELSE 0]
             G == [p \in Nat \X Nat |-> p[2] + w[p[1]]]
             Is(f) == f = [n \in Nat |-> IF n = 0 THEN 0
                             ELSE f[n - 1] + (IF u[n - 1] \in Class THEN cfields[u[n - 1]] ELSE 0)]
  <1>1. w \in [Nat -> Nat]
    OBVIOUS
  <1>2. \A n \in Nat : w[n] = IF u[n] \in Class THEN cfields[u[n]] ELSE 0
    OBVIOUS
  <1> HIDE DEF w
  <1>3. G \in [Nat \X Nat -> Nat]
    BY <1>1
  <1>4. \A n, x \in Nat : G[<<n, x>>] = x + w[n]
    OBVIOUS
  <1> HIDE DEF G
  <1>5. PICK f : f \in [Nat -> Nat] /\ f[0] = 0 /\ \A n \in Nat : f[n + 1] = G[<<n, f[n]>>]
    <2>1. \E f : GoesOn(f, Nat, 0, G)
      BY <1>3, NatRecursion
    <2> QED BY <2>1 DEF GoesOn
  <1>6. \A n \in Nat : f[n] \in Nat /\ f[n + 1] = f[n] + w[n]
    BY <1>4, <1>5
  <1>7. ASSUME NEW n \in Nat
        PROVE  f[n] = IF n = 0 THEN 0
                      ELSE f[n - 1] + (IF u[n - 1] \in Class THEN cfields[u[n - 1]] ELSE 0)
    <2>1. CASE n = 0
      BY <1>5, <2>1
    <2>2. CASE n # 0
      <3>1. n - 1 \in Nat /\ (n - 1) + 1 = n
        BY <2>2
      <3> QED BY <1>2, <1>6, <2>2, <3>1
    <2> QED BY <2>1, <2>2
  <1>8. Is(f)
    BY <1>5, <1>7
  <1>9. FieldSum(c) = CHOOSE g : Is(g)
    BY DEF FieldSum
  <1>10. Is(FieldSum(c))
    BY <1>8, <1>9
  <1> DEFINE F == FieldSum(c)
  <1>11. \A n \in Nat : F[n] = IF n = 0 THEN 0 ELSE F[n - 1] + w[n - 1]
    <2>1. \A n \in Nat : F[n] = IF n = 0 THEN 0
                 ELSE F[n - 1] + (IF u[n - 1] \in Class THEN cfields[u[n - 1]] ELSE 0)
      BY <1>10
    <2>2. \A n \in Nat : n # 0 => n - 1 \in Nat
      OBVIOUS
    <2> QED BY <1>2, <2>1, <2>2
  <1>12. \A n \in Nat : F[n + 1] = F[n] + w[n]
    <2>1. \A n \in Nat : n + 1 \in Nat /\ n + 1 # 0 /\ (n + 1) - 1 = n
      OBVIOUS
    <2> QED BY <1>11, <2>1
  <1>13. \A n \in Nat : F[n] \in Nat
    <2> DEFINE R == {n \in Nat : F[n] \notin Nat}
    <2>1. R \subseteq Nat
      OBVIOUS
    <2>2. ASSUME R # {} PROVE FALSE
      <3>1. PICK n \in R : \A m \in R : n <= m
        <4> HIDE DEF R
        <4> QED BY <2>1, <2>2, Smallest
      <3>2. n # 0 /\ n - 1 \in Nat
        BY <1>11, <3>1
      <3>3. F[n - 1] \in Nat /\ w[n - 1] \in Nat
        BY <1>1, <3>1, <3>2
      <3> QED BY <1>11, <3>1, <3>2, <3>3
    <2> QED BY <2>2
  <1>14. F \in [Nat -> Nat]
    <2>1. DOMAIN F = Nat /\ F = [n \in Nat |-> F[n]]
      BY <1>10
    <2> HIDE DEF F
    <2> QED BY <1>13, <2>1
  <1>15. F[0] = 0
    BY <1>11
  <1> QED BY <1>2, <1>12, <1>14, <1>15

\* The superclasses that superId gives, step by step.
LEMMA UpIs ==
    ASSUME superId \in [Class -> Nat], NEW c \in Nat
    PROVE  /\ \A n \in Nat : Up(c)[n] \in Nat
           /\ Up(c)[0] = c
           /\ \A n \in Nat : Up(c)[n + 1] = IF Up(c)[n] \in Class THEN superId[Up(c)[n]] ELSE 0
  <1>1. Up(c) = Lineage(superId, c)
    BY DEF Up
  <1>2. /\ Lineage(superId, c) \in [Nat -> Nat]
        /\ Lineage(superId, c)[0] = c
        /\ \A n \in Nat : Lineage(superId, c)[n + 1] =
              IF Lineage(superId, c)[n] \in Class THEN superId[Lineage(superId, c)[n]] ELSE 0
    BY LineageIs
  <1> QED BY <1>1, <1>2

\* The n-th superclass of the m-th superclass is the (m + n)-th.
LEMMA UpShift ==
    ASSUME superId \in [Class -> Nat], NEW c \in Nat, NEW m \in Nat, NEW n \in Nat
    PROVE  Up(Up(c)[m])[n] = Up(c)[m + n]
  <1> DEFINE d == Up(c)[m]
             R == {k \in Nat : Up(d)[k] # Up(c)[m + k]}
  <1>1. R \subseteq Nat
    OBVIOUS
  <1>2. d \in Nat
    BY UpIs
  <1>3. ASSUME R # {} PROVE FALSE
    <2>1. PICK k \in R : \A j \in R : k <= j
      <3> HIDE DEF R
      <3> QED BY <1>1, <1>3, Smallest
    <2>2. Up(d)[0] = Up(c)[m + 0]
      BY <1>2, UpIs
    <2>3. k # 0 /\ k \in Nat /\ Up(d)[k] # Up(c)[m + k]
      BY <2>1, <2>2
    <2>4. PICK j \in Nat : k = j + 1
      <3>1. k - 1 \in Nat /\ k = (k - 1) + 1
        BY <2>3
      <3> QED BY <3>1
    <2>5. Up(d)[j] = Up(c)[m + j]
      BY <2>1, <2>4
    <2>6. m + j \in Nat /\ m + k = (m + j) + 1
      BY <2>4
    <2>7. /\ Up(d)[j + 1] = IF Up(d)[j] \in Class THEN superId[Up(d)[j]] ELSE 0
          /\ Up(c)[(m + j) + 1] = IF Up(c)[m + j] \in Class THEN superId[Up(c)[m + j]] ELSE 0
      BY <1>2, <2>6, UpIs
    <2> QED BY <2>3, <2>4, <2>5, <2>6, <2>7
  <1> QED BY <1>3

\* There is one topmost class.
LEMMA RootUnique ==
    ASSUME superId \in [Class -> Nat], NEW c \in Nat, NEW m \in Nat, NEW n \in Nat,
           RootAt(c, m), RootAt(c, n)
    PROVE  m = n
  <1>1. ASSUME NEW i \in Nat, NEW j \in Nat, RootAt(c, i), RootAt(c, j), i < j
        PROVE  FALSE
    <2>1. i + 1 \in 0..j /\ i \in 0..i
      BY <1>1
    <2>2. Up(c)[i] \in Class /\ superId[Up(c)[i]] = 0 /\ Up(c)[i + 1] \in Class
      BY <1>1, <2>1 DEF RootAt
    <2>3. Up(c)[i + 1] = 0
      BY <2>2, UpIs
    <2> QED BY <2>2, <2>3, ClassAssumption
  <1> QED BY <1>1

\* Going up m classes brings the topmost one m classes nearer.
LEMMA RootNearer ==
    ASSUME superId \in [Class -> Nat], NEW c \in Nat, NEW n \in Nat, RootAt(c, n),
           NEW m \in 0..n
    PROVE  Up(c)[m] \in Class /\ RootAt(Up(c)[m], n - m)
  <1>1. \A k \in 0..n : Up(c)[k] \in Class
    BY DEF RootAt
  <1>2. n - m \in Nat /\ m + (n - m) = n /\ m \in Nat
    OBVIOUS
  <1>3. \A k \in 0..(n - m) : k \in Nat /\ m + k \in 0..n
    OBVIOUS
  <1>4. \A k \in 0..(n - m) : Up(Up(c)[m])[k] = Up(c)[m + k]
    BY <1>2, <1>3, UpShift
  <1>5. superId[Up(Up(c)[m])[n - m]] = 0
    <2>1. n - m \in 0..(n - m)
      BY <1>2
    <2>2. Up(Up(c)[m])[n - m] = Up(c)[n]
      BY <1>2, <1>4, <2>1
    <2> QED BY <2>2 DEF RootAt
  <1>6. \A k \in 0..(n - m) : Up(Up(c)[m])[k] \in Class
    BY <1>1, <1>3, <1>4
  <1> QED BY <1>1, <1>5, <1>6 DEF RootAt

\* No class is its own superclass.
LEMMA UpDistinct ==
    ASSUME superId \in [Class -> Nat], NEW c \in Nat, NEW n \in Nat, RootAt(c, n),
           NEW i \in 0..n, NEW j \in 0..n, Up(c)[i] = Up(c)[j]
    PROVE  i = j
  <1>1. RootAt(Up(c)[i], n - i) /\ RootAt(Up(c)[i], n - j) /\ Up(c)[i] \in Nat
    BY RootNearer, ClassAssumption
  <1>2. n - i \in Nat /\ n - j \in Nat
    OBVIOUS
  <1>3. n - i = n - j
    BY <1>1, <1>2, RootUnique
  <1> QED BY <1>3

\* Above the topmost class there is none.
LEMMA NoneAbove ==
    ASSUME superId \in [Class -> Nat], NEW c \in Nat, NEW n \in Nat, RootAt(c, n),
           NEW m \in Nat, \A k \in 0..m : Up(c)[k] \in Class
    PROVE  m <= n
  <1>1. ASSUME n < m PROVE FALSE
    <2>1. n + 1 \in 0..m /\ n \in 0..n
      BY <1>1
    <2>2. Up(c)[n] \in Class /\ superId[Up(c)[n]] = 0 /\ Up(c)[n + 1] \in Class
      BY <2>1 DEF RootAt
    <2>3. Up(c)[n + 1] = 0
      BY <2>2, UpIs
    <2> QED BY <2>2, <2>3, ClassAssumption
  <1> QED BY <1>1

-----------------------------------------------------------------------------
(* Numbers of fields.                                                      *)

\* The number of fields below level n.
LEMMA SumIs ==
    ASSUME superId \in [Class -> Nat], cfields \in [Class -> Nat], NEW c \in Nat
    PROVE  /\ \A n \in Nat : FieldSum(c)[n] \in Nat
           /\ FieldSum(c)[0] = 0
           /\ \A n \in Nat : Up(c)[n] \in Class =>
                 FieldSum(c)[n + 1] = FieldSum(c)[n] + cfields[Up(c)[n]]
           /\ \A n \in Nat : FieldSum(c)[n] <= FieldSum(c)[n + 1]
  <1>1. FieldSum(c) \in [Nat -> Nat]
    BY FieldSumIs
  <1>2. ASSUME NEW n \in Nat
        PROVE  /\ Up(c)[n] \in Class => FieldSum(c)[n + 1] = FieldSum(c)[n] + cfields[Up(c)[n]]
               /\ FieldSum(c)[n] <= FieldSum(c)[n + 1]
    <2>1. FieldSum(c)[n + 1] = FieldSum(c)[n] + (IF Up(c)[n] \in Class THEN cfields[Up(c)[n]] ELSE 0)
      BY FieldSumIs
    <2>2. FieldSum(c)[n] \in Nat /\ (Up(c)[n] \in Class => cfields[Up(c)[n]] \in Nat)
      BY <1>1
    <2> QED BY <2>1, <2>2
  <1> QED BY <1>1, <1>2, FieldSumIs

\* It grows with the level.
LEMMA SumGrows ==
    ASSUME superId \in [Class -> Nat], cfields \in [Class -> Nat], NEW c \in Nat,
           NEW m \in Nat, NEW n \in Nat, m <= n
    PROVE  FieldSum(c)[m] <= FieldSum(c)[n]
  <1> DEFINE R == {k \in Nat : m <= k /\ ~(FieldSum(c)[m] <= FieldSum(c)[k])}
  <1>1. R \subseteq Nat
    OBVIOUS
  <1>2. \A k \in Nat : FieldSum(c)[k] \in Nat /\ FieldSum(c)[k] <= FieldSum(c)[k + 1]
    BY SumIs
  <1>3. ASSUME R # {} PROVE FALSE
    <2>1. PICK k \in R : \A j \in R : k <= j
      <3> HIDE DEF R
      <3> QED BY <1>1, <1>3, Smallest
    <2>2. k # m /\ k - 1 \in Nat /\ m <= k - 1 /\ (k - 1) + 1 = k
      <3>1. k \in Nat /\ m <= k /\ ~(FieldSum(c)[m] <= FieldSum(c)[k])
        BY <2>1
      <3>2. FieldSum(c)[m] <= FieldSum(c)[m]
        BY <1>2
      <3> QED BY <3>1, <3>2
    <2>3. FieldSum(c)[m] <= FieldSum(c)[k - 1]
      BY <2>1, <2>2
    <2>4. FieldSum(c)[k - 1] <= FieldSum(c)[k] /\ FieldSum(c)[k - 1] \in Nat /\ FieldSum(c)[k] \in Nat
          /\ FieldSum(c)[m] \in Nat
      BY <1>2, <2>1, <2>2
    <2> QED BY <2>1, <2>3, <2>4
  <1> QED BY <1>3

\* It does not grow over classes without fields.
LEMMA SumFlat ==
    ASSUME superId \in [Class -> Nat], cfields \in [Class -> Nat], NEW c \in Nat,
           NEW m \in Nat, NEW n \in Nat, m <= n,
           \A k \in m..(n - 1) : Up(c)[k] \in Class /\ cfields[Up(c)[k]] = 0
    PROVE  FieldSum(c)[n] = FieldSum(c)[m]
  <1> DEFINE R == {k \in Nat : m <= k /\ k <= n /\ FieldSum(c)[k] # FieldSum(c)[m]}
  <1>1. R \subseteq Nat
    OBVIOUS
  <1>2. ASSUME R # {} PROVE FALSE
    <2>1. PICK k \in R : \A j \in R : k <= j
      <3> HIDE DEF R
      <3> QED BY <1>1, <1>2, Smallest
    <2>2. k # m /\ k - 1 \in Nat /\ k - 1 \in m..(n - 1) /\ (k - 1) + 1 = k
      BY <2>1
    <2>3. FieldSum(c)[k - 1] = FieldSum(c)[m]
      BY <2>1, <2>2
    <2>4. Up(c)[k - 1] \in Class /\ cfields[Up(c)[k - 1]] = 0
      BY <2>2
    <2>5. FieldSum(c)[(k - 1) + 1] = FieldSum(c)[k - 1] + 0 /\ FieldSum(c)[k - 1] \in Nat
      BY <2>2, <2>4, SumIs
    <2> QED BY <2>1, <2>2, <2>3, <2>5
  <1> QED BY <1>2

\* resolveSClassSize counts the classes below the topmost one.
LEMMA SizeIs ==
    ASSUME superId \in [Class -> Nat], cfields \in [Class -> Nat], NEW c \in Nat,
           NEW n \in Levels, RootAt(c, n)
    PROVE  resolveSClassSize(c) = FieldSum(c)[n] /\ resolveSClassSize(c) \in Nat /\ n \in Nat
  <1>1. Levels \subseteq Nat
    BY ClassAssumption, FS_CardinalityType DEF Levels
  <1> DEFINE d == CHOOSE k \in Levels : RootAt(c, k)
  <1>2. d \in Levels /\ RootAt(c, d)
    OBVIOUS
  <1>3. d = n
    BY <1>1, <1>2, RootUnique
  <1> QED BY <1>1, <1>3, SumIs DEF resolveSClassSize

-----------------------------------------------------------------------------
(* Steps that leave the classes alone.                                     *)

\* Superclasses and numbers of fields change only with superId and cfields.
LEMMA SameClasses ==
    ASSUME superId' = superId, cfields' = cfields
    PROVE  /\ \A c : Up(c)' = Up(c)
           /\ \A c : FieldSum(c)' = FieldSum(c)
           /\ \A c, n : RootAt(c, n)' <=> RootAt(c, n)
           /\ \A c : resolveSClassSize(c)' = resolveSClassSize(c)
  <1>1. \A c : Up(c)' = Up(c)
    BY DEF Up
  <1>2. \A c : FieldSum(c)' = FieldSum(c)
    BY <1>1 DEF FieldSum
  <1>3. \A c, n : RootAt(c, n)' <=> RootAt(c, n)
    BY <1>1 DEF RootAt
  <1>4. ASSUME NEW c PROVE resolveSClassSize(c)' = resolveSClassSize(c)
    <2>1. resolveSClassSize(c)' = FieldSum(c)'[CHOOSE n \in Levels : RootAt(c, n)']
      BY DEF resolveSClassSize, Levels
    <2>2. resolveSClassSize(c) = FieldSum(c)[CHOOSE n \in Levels : RootAt(c, n)]
      BY DEF resolveSClassSize
    <2> QED BY <1>2, <1>3, <2>1, <2>2
  <1> QED BY <1>1, <1>2, <1>3, <1>4

\* The classes and their records do not change.
Still == UNCHANGED <<dump, finfo, cinfo, reread>>

\* Such a step leaves what the dumps and the loops have left.
LEMMA StillKeeps ==
    ASSUME CInv, Still
    PROVE  Read' /\ Private' /\ Filled'
  <1>1. \A c : Dumped(c)' <=> Dumped(c)
    BY DEF Still, cinfo, Dumped
  <1>2. \A c : Own(c)' = Own(c)
    BY DEF Still, cinfo, Own
  <1>3. Read'
    BY <1>1, <1>2 DEF CInv, Read, Still, cinfo
  <1>4. Private'
    BY <1>1, <1>2 DEF CInv, Private, Still, cinfo
  <1>5. Filled'
    BY DEF CInv, Filled, Still, cinfo
  <1> QED BY <1>3, <1>4, <1>5

\* A frame is what it was.
LEMMA StillFrames ==
    ASSUME Still
    PROVE  \A f : (Fresh(f)' <=> Fresh(f)) /\ (Looping(f)' <=> Looping(f))
  <1>1. UNCHANGED <<superId, cfields, tfields, values>>
    BY DEF Still, cinfo
  <1>2. \A f : Fresh(f)' <=> Fresh(f)
    BY <1>1, SameClasses DEF Fresh
  <1>3. \A f, l : AtLevel(f, l)' <=> AtLevel(f, l)
    BY <1>1, SameClasses DEF AtLevel
  <1>4. \A f : Looping(f)' <=> Looping(f)
    BY <1>1, <1>3, SameClasses DEF Looping, Levels
  <1> QED BY <1>2, <1>4

\* What such a step must see to.
LEMMA StillStep ==
    ASSUME CInv, Still, stack' = stack, Control', SegvOnlyUndumped',
           file' \in Seq(SUBSET Class), left' \subseteq Class, arg' \in Class \cup {0},
           known' \subseteq Class,
           pc' \in {"record", "read", "drive", "call", "ret", "loop", "segv"},
           pc' = "call" => stack = <<>> \/ (pc = "call" /\ arg' = arg),
           pc' = "ret" => stack = <<>> \/ pc \in {"call", "ret"},
           pc' = "loop" => pc = "loop"
    PROVE  CInv'
  <1>1. TypeOK'
    BY DEF CInv, TypeOK, Still, cinfo
  <1>2. dump' \in Dumps
    BY DEF CInv, Still
  <1>3. Climbing'
    <2>1. ASSUME stack # <<>> PROVE Outer' = Outer
      BY <2>1 DEF Outer
    <2>2. resolved' = resolved /\ superId' = superId /\ cfields' = cfields /\ Levels' = Levels
      BY DEF Still, cinfo, Levels
    <2> QED BY <2>1, <2>2, SameClasses DEF CInv, Climbing
  <1>4. Calls'
    <2>1. stack = <<>> => Len(stack) = 0
      OBVIOUS
    <2> QED BY <2>1, StillFrames DEF CInv, Calls, Control
  <1> QED BY <1>1, <1>2, <1>3, <1>4, StillKeeps DEF CInv

\* The next HEAP DUMP record.
LEMMA NextRecordKeeps ==
    ASSUME CInv, NextRecord
    PROVE  CInv'
  <1>1. Still /\ stack' = stack /\ arg' = arg /\ known' = known
    BY DEF NextRecord, Still
  <1>2. stack = <<>> /\ pc' = "read"
    BY DEF NextRecord, CInv, Control
  <1>3. Head(file) \in SUBSET Class /\ Tail(file) \in Seq(SUBSET Class)
    BY DEF NextRecord, CInv
  <1>4. file' \in Seq(SUBSET Class) /\ left' \subseteq Class
    BY <1>3 DEF NextRecord
  <1>5. Control' /\ SegvOnlyUndumped'
    BY <1>1, <1>2 DEF Control, SegvOnlyUndumped
  <1> QED BY <1>1, <1>2, <1>4, <1>5, StillStep DEF CInv, TypeOK

\* The steps of readHeap and resolveInstance, which call resolveClassNode.
LEMMA DriverKeeps ==
    ASSUME CInv,
           StartResolving \/ DriveEnd \/ (\E c \in Class : Drive(c)) \/ ReturnToDriver
    PROVE  CInv'
  <1>1. Still /\ stack' = stack /\ known' = known /\ file' = file /\ left' = left
    BY DEF StartResolving, DriveEnd, Drive, ReturnToDriver, Still, input
  <1>2. stack = <<>> /\ pc' \in {"drive", "record", "call"}
    BY DEF StartResolving, DriveEnd, Drive, ReturnToDriver, CInv, Control
  <1>3. arg' \in Class \cup {0} /\ (pc' = "call" => arg' \in Class)
    BY DEF StartResolving, DriveEnd, Drive, ReturnToDriver, CInv, TypeOK
  <1>4. Control' /\ SegvOnlyUndumped'
    BY <1>1, <1>2, <1>3 DEF Control, SegvOnlyUndumped
  <1> QED BY <1>1, <1>2, <1>3, <1>4, StillStep DEF CInv, TypeOK

\* A call for a class that is resolved returns at once.
LEMMA CallResolvedKeeps ==
    ASSUME CInv, CallResolved
    PROVE  CInv'
  <1>1. Still /\ UNCHANGED <<stack, known, file, left, arg>> /\ pc = "call" /\ pc' = "ret"
    BY DEF CallResolved, Still, input
  <1>2. Control' /\ SegvOnlyUndumped'
    BY <1>1 DEF Control, SegvOnlyUndumped
  <1> QED BY <1>1, <1>2, StillStep DEF CInv, TypeOK

\* Nothing changes.
LEMMA StutterKeeps ==
    ASSUME CInv, UNCHANGED vars
    PROVE  CInv'
  <1>1. Still /\ UNCHANGED <<stack, known, file, left, arg, pc, fields>>
    BY DEF vars, Still, input, cinfo
  <1>2. superId' = superId /\ cfields' = cfields
    BY DEF vars, cinfo
  <1>3. Control'
    BY <1>1 DEF CInv, Control
  <1>4. SegvOnlyUndumped'
    <2>1. \A c : Dumped(c)' <=> Dumped(c)
      BY <1>1 DEF Dumped
    <2>2. Levels' = Levels /\ \A c : Up(c)' = Up(c)
      BY <1>2, SameClasses DEF Levels
    <2> QED BY <1>1, <2>1, <2>2 DEF CInv, SegvOnlyUndumped
  <1> QED BY <1>1, <1>3, <1>4, StillStep DEF CInv, TypeOK

-----------------------------------------------------------------------------
(* The climb.                                                              *)

\* A frame in its loop, with its topmost class at level M and the number of fields
\* that resolveSClassSize found.
Counting(f, M, l) ==
    /\ superId \in [Class -> Nat] /\ cfields \in [Class -> Nat]
    /\ f \in Frame /\ M \in Levels /\ l \in Levels
    /\ RootAt(f.class, M) /\ tfields[f.class] = FieldSum(f.class)[M]
    /\ AtLevel(f, l)

\* What such a frame is made of.
LEMMA CountingFacts ==
    ASSUME NEW f, NEW M, NEW l, Counting(f, M, l)
    PROVE  /\ M \in Nat /\ l \in Nat /\ Levels \subseteq Nat
           /\ \A m \in Levels : \A k \in 0..m : k \in Levels
           /\ f.class \in Class /\ f.class \in Nat /\ f.cc \in Class
           /\ f.fieldNo \in Nat /\ f.i \in Nat /\ f.target \in Int
           /\ \A m \in Nat : FieldSum(f.class)[m] \in Nat
           /\ l <= M
           /\ \A m \in 0..M : Up(f.class)[m] \in Class /\ cfields[Up(f.class)[m]] \in Nat
           /\ \A m \in Nat : Up(f.cc)[m] = Up(f.class)[l + m]
           /\ FieldSum(f.class)[l + 1] = FieldSum(f.class)[l] + cfields[f.cc]
  <1>1. Cardinality(Class) \in Nat
    BY ClassAssumption, FS_CardinalityType
  <1>2. M \in Nat /\ l \in Nat /\ Levels \subseteq Nat /\ \A m \in Levels : \A k \in 0..m : k \in Levels
    BY <1>1 DEF Counting, Levels
  <1>3. /\ f.class \in Class /\ f.class \in Nat /\ f.cc \in Class
        /\ f.fieldNo \in Nat /\ f.i \in Nat /\ f.target \in Int
    BY ClassAssumption DEF Counting, Frame
  <1>4. \A m \in Nat : FieldSum(f.class)[m] \in Nat
    BY <1>3, SumIs DEF Counting
  <1>5. \A m \in 0..l : Up(f.class)[m] \in Class
    BY DEF Counting, AtLevel
  <1>6. l <= M
    BY <1>2, <1>3, <1>5, NoneAbove DEF Counting
  <1>7. \A m \in 0..M : Up(f.class)[m] \in Class /\ cfields[Up(f.class)[m]] \in Nat
    BY DEF Counting, RootAt
  <1>8. f.cc = Up(f.class)[l]
    BY DEF Counting, AtLevel
  <1>9. \A m \in Nat : Up(f.cc)[m] = Up(f.class)[l + m]
    <2>1. superId \in [Class -> Nat]
      BY DEF Counting
    <2>2. \A m \in Nat : Up(Up(f.class)[l])[m] = Up(f.class)[l + m]
      BY <1>2, <1>3, <2>1, UpShift
    <2> QED BY <1>8, <2>2
  <1>10. FieldSum(f.class)[l + 1] = FieldSum(f.class)[l] + cfields[f.cc]
    <2>1. Up(f.class)[l] \in Class /\ superId \in [Class -> Nat] /\ cfields \in [Class -> Nat]
      BY <1>3, <1>8 DEF Counting
    <2>2. FieldSum(f.class)[l + 1] = FieldSum(f.class)[l] + cfields[Up(f.class)[l]]
      BY <1>2, <1>3, <2>1, SumIs
    <2> QED BY <1>8, <2>2
  <1> QED BY <1>2, <1>3, <1>4, <1>6, <1>7, <1>9, <1>10

\* While fields are missing the while loop finds a class that has some, below the
\* topmost one.
LEMMA ClimbsSomewhere ==
    ASSUME NEW f, NEW M, NEW l, Counting(f, M, l), f.i < tfields[f.class]
    PROVE  \E n \in Levels : Climbs(f, n) /\ l + n < M
  <1> DEFINE c == f.class
             S(k) == FieldSum(c)[k]
  <1>1. /\ M \in Nat /\ l \in Nat /\ c \in Nat /\ f.cc \in Class /\ f.fieldNo \in Nat /\ l <= M
        /\ \A m \in Nat : S(m) \in Nat
        /\ \A m \in 0..M : Up(c)[m] \in Class /\ cfields[Up(c)[m]] \in Nat
        /\ \A m \in Nat : Up(f.cc)[m] = Up(c)[l + m]
        /\ S(l + 1) = S(l) + cfields[f.cc]
        /\ 0 \in Levels /\ \A m \in Levels : \A k \in 0..m : k \in Levels
    <2>1. M \in Levels
      BY DEF Counting
    <2>2. 0 \in 0..M
      BY CountingFacts
    <2> QED BY <2>1, <2>2, CountingFacts
  <1>2. /\ f.fieldNo <= cfields[f.cc] /\ f.i = S(l) + f.fieldNo /\ f.cc = Up(c)[l]
        /\ tfields[c] = S(M) /\ M \in Levels /\ cfields[f.cc] \in Nat
        /\ superId \in [Class -> Nat] /\ cfields \in [Class -> Nat]
    BY <1>1 DEF Counting, AtLevel
  <1>3. l < M
    <2>1. l # M
      BY <1>1, <1>2
    <2> QED BY <1>1, <2>1
  <1>4. CASE f.fieldNo < cfields[f.cc]
    <2>1. \A m \in 0..0 : Up(f.cc)[m] \in Class
      <3>1. Up(f.cc)[0] = Up(c)[l] /\ l + 0 = l
        BY <1>1
      <3> QED BY <1>1, <1>2, <3>1
    <2>2. Climbs(f, 0)
      BY <1>4, <2>1 DEF Climbs
    <2>3. l + 0 < M
      BY <1>1, <1>3
    <2> QED BY <1>1, <2>2, <2>3
  <1>5. CASE ~(f.fieldNo < cfields[f.cc])
    <2> DEFINE R == {k \in Nat : l < k /\ k < M /\ cfields[Up(c)[k]] > 0}
    <2>1. S(l + 1) < S(M)
      BY <1>1, <1>2, <1>5
    <2>2. R # {}
      <3>1. SUFFICES ASSUME R = {} PROVE FALSE
        OBVIOUS
      <3>2. \A k \in (l + 1)..(M - 1) : Up(c)[k] \in Class /\ cfields[Up(c)[k]] = 0
        <4> TAKE k \in (l + 1)..(M - 1)
        <4>1. k \in Nat /\ l < k /\ k < M /\ k \in 0..M
          BY <1>1
        <4>2. Up(c)[k] \in Class /\ cfields[Up(c)[k]] \in Nat
          BY <1>1, <4>1
        <4>3. ~(cfields[Up(c)[k]] > 0)
          BY <3>1, <4>1
        <4> QED BY <4>2, <4>3
      <3>3. l + 1 \in Nat /\ l + 1 <= M
        BY <1>1, <1>3
      <3>4. S(M) = S(l + 1)
        <4>1. /\ superId \in [Class -> Nat] /\ cfields \in [Class -> Nat] /\ c \in Nat /\ M \in Nat
          BY <1>1, <1>2
        <4> HIDE DEF c, S, R
        <4>2. FieldSum(c)[M] = FieldSum(c)[l + 1]
          BY <3>2, <3>3, <4>1, SumFlat
        <4> QED BY <4>2 DEF S
      <3> QED BY <1>1, <2>1, <3>3, <3>4
    <2>3. PICK k \in R : \A j \in R : k <= j
      <3>1. R \subseteq Nat
        OBVIOUS
      <3> HIDE DEF R
      <3> QED BY <2>2, <3>1, Smallest
    <2>4. PICK n \in Nat \ {0} : k = l + n
      <3>1. k - l \in Nat \ {0} /\ k = l + (k - l)
        BY <1>1, <2>3
      <3> QED BY <3>1
    <2>5. n \in Levels /\ l + n < M
      <3>1. n \in 0..M
        BY <1>1, <2>3, <2>4
      <3> QED BY <1>1, <1>2, <2>3, <2>4, <3>1
    <2>6. \A m \in 0..n : Up(f.cc)[m] = Up(c)[l + m] /\ Up(f.cc)[m] \in Class /\ cfields[Up(f.cc)[m]] \in Nat
      <3>1. \A m \in 0..n : m \in Nat /\ l + m \in 0..M
        BY <1>1, <2>5
      <3> QED BY <1>1, <3>1
    <2>7. \A m \in 1..(n - 1) : cfields[Up(f.cc)[m]] = 0
      <3> TAKE m \in 1..(n - 1)
      <3>1. m \in 0..n /\ l + m \in Nat /\ l < l + m /\ l + m < M /\ ~(k <= l + m)
        BY <1>1, <2>4, <2>5
      <3>2. l + m \notin R
        BY <2>3, <3>1
      <3>3. ~(cfields[Up(c)[l + m]] > 0)
        BY <3>1, <3>2
      <3> QED BY <2>6, <3>1, <3>3
    <2>8. cfields[Up(f.cc)[n]] > 0
      <3>1. n \in 0..n
        OBVIOUS
      <3> QED BY <2>3, <2>4, <2>6, <3>1
    <2>9. f.fieldNo >= cfields[f.cc]
      BY <1>1, <1>2, <1>5
    <2>10. Climbs(f, n)
      BY <2>4, <2>6, <2>7, <2>8, <2>9 DEF Climbs
    <2> QED BY <2>5, <2>10
  <1> QED BY <1>4, <1>5

\* And the frame is then at the fields of that class: there is a slot for the next
\* one, in front of those that were filled before.
LEMMA ClimbedLevel ==
    ASSUME NEW f, NEW M, NEW l, Counting(f, M, l), f.i < tfields[f.class],
           NEW n \in Levels, Climbs(f, n), NEW g, g = Climbed(f, n)
    PROVE  /\ l + n < M /\ l + n \in Levels /\ AtLevel(g, l + n)
           /\ g \in Frame /\ g.class = f.class /\ g.i = f.i /\ g.index = f.index
           /\ g.fieldNo < cfields[g.cc] /\ cfields[g.cc] \in Nat
           /\ g.target >= 0 /\ g.target + g.fieldNo + 1 <= tfields[f.class]
           /\ g.cc = Up(f.cc)[n]
           /\ n = 0 => g = f
           /\ n # 0 => g.fieldNo = 0 /\ g.target + cfields[g.cc] = f.target
                       /\ f.fieldNo = cfields[f.cc]
  <1> DEFINE c == f.class
             S(k) == FieldSum(c)[k]
             e == Up(c)[l + n]
  <1>1. M \in Levels /\ superId \in [Class -> Nat] /\ cfields \in [Class -> Nat] /\ f \in Frame
    BY DEF Counting
  <1>2. /\ M \in Nat /\ l \in Nat /\ n \in Nat /\ c \in Nat /\ f.cc \in Class /\ l <= M
        /\ f.fieldNo \in Nat /\ f.i \in Nat /\ f.target \in Int
        /\ \A m \in Nat : S(m) \in Nat
        /\ \A m \in 0..M : Up(c)[m] \in Class /\ cfields[Up(c)[m]] \in Nat
        /\ \A m \in Nat : Up(f.cc)[m] = Up(c)[l + m]
        /\ S(l + 1) = S(l) + cfields[f.cc]
        /\ \A m \in Levels : \A k \in 0..m : k \in Levels
    BY CountingFacts
  <1>3. /\ f.fieldNo <= cfields[f.cc] /\ f.i = S(l) + f.fieldNo /\ f.cc = Up(c)[l]
        /\ tfields[c] = S(M) /\ f.target = tfields[c] - S(l + 1) /\ cfields[f.cc] \in Nat
        /\ \A m \in 0..l : Up(c)[m] \in Class
        /\ RootAt(c, M)
    BY <1>2 DEF Counting, AtLevel
  <1>4. /\ \A m \in 0..n : Up(f.cc)[m] \in Class
        /\ n = 0 => f.fieldNo < cfields[f.cc]
        /\ n # 0 => /\ f.fieldNo >= cfields[f.cc] /\ cfields[Up(f.cc)[n]] > 0
                    /\ \A m \in 1..(n - 1) : cfields[Up(f.cc)[m]] = 0
    BY DEF Climbs
  <1>5. \A m \in 0..(l + n) : Up(c)[m] \in Class
    <2> TAKE m \in 0..(l + n)
    <2>1. CASE m <= l
      BY <1>2, <1>3, <2>1
    <2>2. CASE ~(m <= l)
      <3>1. m - l \in 0..n /\ m - l \in Nat /\ l + (m - l) = m
        BY <1>2, <2>2
      <3>2. Up(f.cc)[m - l] = Up(c)[l + (m - l)]
        BY <1>2, <3>1
      <3> QED BY <1>4, <3>1, <3>2
    <2> QED BY <2>1, <2>2
  <1>6. l + n \in Nat /\ l + n <= M
    <2>1. l + n \in Nat
      BY <1>2
    <2> HIDE DEF c
    <2> QED BY <1>1, <1>2, <1>3, <1>5, <2>1, NoneAbove
  <1>7. e = Up(f.cc)[n] /\ e \in Class /\ cfields[e] \in Nat
    <2>1. l + n \in 0..M
      BY <1>2, <1>6
    <2> QED BY <1>2, <2>1
  <1>8. S(l + n + 1) = S(l + n) + cfields[e]
    <2>1. Up(c)[l + n] \in Class
      BY <1>7
    <2> HIDE DEF c
    <2>2. FieldSum(c)[l + n + 1] = FieldSum(c)[l + n] + cfields[Up(c)[l + n]]
      BY <1>1, <1>2, <1>6, <2>1, SumIs
    <2> QED BY <2>2
  <1>9. n # 0 => S(l + n) = S(l + 1) /\ f.fieldNo = cfields[f.cc]
    <2> SUFFICES ASSUME n # 0 PROVE S(l + n) = S(l + 1) /\ f.fieldNo = cfields[f.cc]
      OBVIOUS
    <2>1. f.fieldNo = cfields[f.cc]
      <3>1. f.fieldNo >= cfields[f.cc]
        BY <1>4
      <3>2. f.fieldNo <= cfields[f.cc] /\ f.fieldNo \in Nat /\ cfields[f.cc] \in Nat
        BY <1>2, <1>3
      <3> QED BY <3>1, <3>2
    <2>2. \A k \in (l + 1)..((l + n) - 1) : Up(c)[k] \in Class /\ cfields[Up(c)[k]] = 0
      <3> TAKE k \in (l + 1)..((l + n) - 1)
      <3>1. k \in 0..(l + n) /\ k - l \in 1..(n - 1) /\ k - l \in Nat /\ l + (k - l) = k
        BY <1>2
      <3>2. Up(f.cc)[k - l] = Up(c)[l + (k - l)]
        BY <1>2, <3>1
      <3>3. cfields[Up(f.cc)[k - l]] = 0
        BY <1>4, <3>1
      <3> QED BY <1>5, <3>1, <3>2, <3>3
    <2>3. l + 1 \in Nat /\ l + 1 <= l + n
      BY <1>2
    <2>4. FieldSum(c)[l + n] = FieldSum(c)[l + 1]
      <3>1. c \in Nat
        BY <1>2
      <3> HIDE DEF c
      <3> QED BY <1>1, <1>6, <2>2, <2>3, <3>1, SumFlat
    <2> QED BY <2>1, <2>4
  <1>10. l + n # M
    <2>1. n = 0 => l + n = l
      BY <1>2
    <2> HIDE DEF c, S, e
    <2>2. f.i < S(M) /\ S(M) \in Nat /\ S(l) \in Nat
      BY <1>2, <1>3 DEF c
    <2>3. n = 0 => S(l + n) <= f.i
      BY <1>2, <1>3, <2>1, <2>2
    <2>4. n # 0 => S(l + n) = f.i
      BY <1>2, <1>3, <1>9, <2>2
    <2>5. S(l + n) \in Nat
      BY <1>2, <1>6
    <2>6. PICK x \in Nat, y \in Nat : x = S(l + n) /\ y = S(M)
      BY <2>2, <2>5
    <2>7. f.i \in Nat /\ f.i < y /\ (x = f.i \/ x <= f.i)
      BY <1>2, <2>2, <2>3, <2>4, <2>6
    <2>8. x # y
      BY <2>7
    <2> QED BY <2>6, <2>8
  <1>11. l + n < M /\ l + n \in Levels
    <2>1. l + n < M
      BY <1>2, <1>6, <1>10
    <2>2. l + n \in 0..M
      BY <1>2, <1>6, <2>1
    <2> QED BY <1>1, <1>2, <2>1, <2>2
  <1>12. superId[e] # 0
    <2>1. ASSUME superId[e] = 0 PROVE RootAt(c, l + n)
      BY <1>5, <2>1 DEF RootAt
    <2> HIDE DEF c, e
    <2>2. ASSUME RootAt(c, l + n) PROVE FALSE
      BY <1>1, <1>2, <1>3, <1>6, <1>10, <2>2, RootUnique
    <2> QED BY <2>1, <2>2
  <1>13. S(l + n + 1) <= S(M) /\ S(l + n) \in Nat /\ S(l + n + 1) \in Nat /\ S(M) \in Nat
    <2>1. l + n + 1 \in Nat /\ l + n + 1 <= M
      BY <1>2, <1>6, <1>11
    <2> HIDE DEF c
    <2>2. FieldSum(c)[l + n + 1] <= FieldSum(c)[M]
      BY <1>1, <1>2, <2>1, SumGrows
    <2> QED BY <1>2, <1>6, <2>1, <2>2
  <1>14. CASE n = 0
    <2>1. g = f /\ l + n = l /\ e = f.cc
      BY <1>2, <1>3, <1>14 DEF Climbed
    <2>2. AtLevel(g, l + n)
      BY <2>1 DEF Counting
    <2>3. g.target = S(M) - S(l + n + 1) /\ g.target >= 0
      BY <1>3, <1>13, <2>1
    <2>4. g.target + g.fieldNo + 1 <= tfields[f.class]
      <3>1. S(l + n + 1) = S(l + n) + cfields[f.cc] /\ f.fieldNo < cfields[f.cc]
        BY <1>4, <1>8, <1>14, <2>1
      <3> HIDE DEF S
      <3> QED BY <1>2, <1>3, <1>13, <2>1, <2>3, <3>1
    <2> QED BY <1>1, <1>3, <1>4, <1>7, <1>11, <1>14, <2>1, <2>2, <2>3, <2>4
  <1>15. CASE n # 0
    <2>1. g = [f EXCEPT !.cc = e, !.fieldNo = 0, !.target = f.target - cfields[e]]
      BY <1>7, <1>15 DEF Climbed
    <2>2. /\ g \in Frame /\ g.class = f.class /\ g.i = f.i /\ g.index = f.index /\ g.cc = e /\ g.fieldNo = 0
          /\ g.target = f.target - cfields[e]
      <3>1. e \in Class /\ f.target - cfields[e] \in Int
        BY <1>2, <1>7
      <3> HIDE DEF e
      <3>2. g = [class |-> f.class, cc |-> e, target |-> f.target - cfields[e], fieldNo |-> 0,
                 i |-> f.i, index |-> f.index]
        BY <1>1, <2>1 DEF Frame
      <3> QED BY <1>1, <3>1, <3>2 DEF Frame
    <2>3. /\ f.i = S(l + n) /\ f.target = S(M) - S(l + n) /\ S(l + n + 1) = S(l + n) + cfields[e]
          /\ f.fieldNo = cfields[f.cc]
      <3>1. S(l + n) = S(l + 1) /\ f.fieldNo = cfields[f.cc]
        BY <1>9, <1>15
      <3>2. f.i = S(l) + cfields[f.cc] /\ f.target = S(M) - S(l + 1)
        BY <1>3, <3>1
      <3> QED BY <1>2, <1>8, <3>1, <3>2
    <2>4. g.target = S(M) - S(l + n + 1) /\ g.target >= 0 /\ g.target + cfields[e] = f.target
      <3> HIDE DEF S, e
      <3> QED BY <1>2, <1>7, <1>13, <2>2, <2>3
    <2>5. 0 < cfields[e]
      BY <1>4, <1>7, <1>15
    <2>6. AtLevel(g, l + n)
      <3>1. f.i = S(l + n) + 0
        BY <1>13, <2>3
      <3>2. tfields[g.class] - FieldSum(g.class)[l + n + 1] = S(M) - S(l + n + 1)
        BY <1>3, <2>2
      <3> QED BY <1>3, <1>5, <1>7, <1>12, <2>2, <2>4, <3>1, <3>2 DEF AtLevel
    <2>7. g.target + g.fieldNo + 1 <= tfields[f.class]
      <3> HIDE DEF S, e
      <3> QED BY <1>2, <1>3, <1>7, <1>13, <2>2, <2>3, <2>4, <2>5 DEF c
    <2> QED BY <1>7, <1>11, <1>15, <2>2, <2>3, <2>4, <2>5, <2>6, <2>7
  <1> QED BY <1>14, <1>15

-----------------------------------------------------------------------------
(* Bad pointers.                                                           *)

\* Levels are numbers, and with a level come those below it.
LEMMA LevelsAre == Levels \subseteq Nat /\ \A m \in Levels : \A k \in 0..m : k \in Levels
  <1>1. Cardinality(Class) \in Nat
    BY ClassAssumption, FS_CardinalityType
  <1> QED BY <1>1 DEF Levels

\* The keys of cTable are numbers, and not 0.
LEMMA ClassNat == Class \subseteq Nat /\ 0 \notin Class
  BY ClassAssumption

\* If the dumps of a class and of its superclasses have been read, there is a
\* topmost one.
LEMMA RootWhenDumped ==
    ASSUME CInv, NEW c \in Class, \A n \in Levels : Up(c)[n] \in Class => Dumped(Up(c)[n])
    PROVE  \E n \in Levels : RootAt(c, n)
  <1> DEFINE D == Lineage(dump.super, c)
             R == {n \in Levels : Up(c)[n] # D[n]}
             Z == {n \in Levels : D[n] = 0}
  <1>1. /\ superId \in [Class -> Nat] /\ c \in Nat /\ c # 0
        /\ dump.super \in [Class -> Class \cup {0}] /\ dump.super \in [Class -> Nat]
    <2>1. dump \in Dumps /\ superId \in [Class -> Nat]
      BY DEF CInv, TypeOK
    <2>2. dump.super \in [Class -> Class \cup {0}]
      BY <2>1, DumpsAssumption
    <2>3. \A F \in [Class -> Class \cup {0}] : F \in [Class -> Nat]
      <3>1. Class \cup {0} \subseteq Nat
        BY ClassNat
      <3> QED BY <3>1
    <2>4. c \in Nat /\ c # 0
      BY ClassNat
    <2> QED BY <2>1, <2>2, <2>3, <2>4
  <1>2. /\ D[0] = c
        /\ \A n \in Nat : D[n + 1] = IF D[n] \in Class THEN dump.super[D[n]] ELSE 0
    BY <1>1, LineageIs
  <1>3. /\ Up(c)[0] = c
        /\ \A n \in Nat : Up(c)[n + 1] = IF Up(c)[n] \in Class THEN superId[Up(c)[n]] ELSE 0
    BY <1>1, UpIs
  <1>4. PICK z \in Z : \A k \in Z : z <= k
    <2>1. Z # {}
      BY AcyclicAssumption DEF CInv
    <2>2. Z \subseteq Nat
      BY LevelsAre
    <2> HIDE DEF Z
    <2> QED BY <2>1, <2>2, Smallest
  <1> HIDE DEF D
  <1>5. \A n \in Levels : Up(c)[n] = D[n]
    <2>1. SUFFICES ASSUME R # {} PROVE FALSE
      OBVIOUS
    <2>2. PICK n \in R : \A k \in R : n <= k
      <3>1. R \subseteq Nat
        BY LevelsAre
      <3> HIDE DEF R
      <3> QED BY <2>1, <3>1, Smallest
    <2>3. n # 0 /\ n \in Nat /\ n \in Levels
      BY <1>2, <1>3, <2>2, LevelsAre
    <2>4. PICK m \in Nat : n = m + 1
      <3>1. n - 1 \in Nat /\ n = (n - 1) + 1
        BY <2>3
      <3> QED BY <3>1
    <2>5. m \in Levels
      <3>1. m \in 0..n
        BY <2>4
      <3> QED BY <2>3, <3>1, LevelsAre
    <2>6. Up(c)[m] = D[m]
      <3>1. ~(n <= m)
        BY <2>4
      <3> QED BY <2>2, <2>5, <3>1
    <2>7. Up(c)[m] \in Class => superId[Up(c)[m]] = dump.super[Up(c)[m]]
      BY <2>5 DEF CInv, Read
    <2>8. Up(c)[m + 1] = D[m + 1]
      BY <1>2, <1>3, <2>4, <2>6, <2>7
    <2> QED BY <2>2, <2>4, <2>8
  <1>6. z \in Nat /\ z \in Levels /\ D[z] = 0 /\ z # 0
    BY <1>1, <1>2, <1>4, LevelsAre
  <1>7. PICK n \in Nat : z = n + 1
    <2>1. z - 1 \in Nat /\ z = (z - 1) + 1
      BY <1>6
    <2> QED BY <2>1
  <1>8. \A m \in 0..n : m \in Levels /\ D[m] \in Class
    <2> TAKE m \in 0..n
    <2>1. m \in Levels /\ ~(z <= m) /\ m \in Nat
      <3>1. m \in 0..z /\ ~(z <= m)
        BY <1>6, <1>7
      <3> QED BY <1>6, <3>1, LevelsAre
    <2>2. D[m] # 0
      BY <1>4, <2>1
    <2>3. CASE m = 0
      BY <1>2, <2>1, <2>3
    <2>4. CASE m # 0
      <3>1. m - 1 \in Nat /\ (m - 1) + 1 = m
        BY <2>1, <2>4
      <3>2. D[(m - 1) + 1] = IF D[m - 1] \in Class THEN dump.super[D[m - 1]] ELSE 0
        BY <1>2, <3>1
      <3> QED BY <1>1, <2>1, <2>2, <3>1, <3>2
    <2> QED BY <2>3, <2>4
  <1>9. n \in 0..n
    BY <1>7
  <1>10. superId[Up(c)[n]] = 0
    <2>1. Up(c)[n] \in Class /\ Up(c)[n + 1] = 0
      BY <1>5, <1>6, <1>7, <1>8, <1>9
    <2> QED BY <1>3, <1>7, <2>1
  <1>11. RootAt(c, n)
    BY <1>5, <1>8, <1>10 DEF RootAt
  <1> QED BY <1>8, <1>9, <1>11

\* The frames and the topmost class above them.
LEMMA StackRoot ==
    ASSUME CInv, stack # <<>>
    PROVE  /\ Len(stack) \in Nat \ {0} /\ Outer = stack[Len(stack)].class /\ Outer \in Class
           /\ \A k \in 1..Len(stack) : stack[k] \in Frame /\ stack[k].class \in Class
           /\ \E n \in Levels :
                 /\ RootAt(Outer, n) /\ Len(stack) <= n + 1
                 /\ \A k \in 1..Len(stack) :
                       /\ stack[k].class = Up(Outer)[Len(stack) - k]
                       /\ n - (Len(stack) - k) \in Levels
                       /\ RootAt(stack[k].class, n - (Len(stack) - k))
  <1>1. stack \in Seq(Frame)
    BY DEF CInv, TypeOK
  <1>2. Len(stack) \in Nat \ {0}
    BY <1>1
  <1>3. \A k \in 1..Len(stack) : stack[k] \in Frame /\ stack[k].class \in Class
    <2>1. \A k \in 1..Len(stack) : stack[k] \in Frame
      BY <1>1, SeqElement, Zenon
    <2> QED BY <2>1 DEF Frame
  <1>4. Outer = stack[Len(stack)].class /\ Outer \in Class
    BY <1>2, <1>3 DEF Outer
  <1>5. PICK n \in Levels : RootAt(Outer, n) /\ Len(stack) <= n + 1
    BY DEF CInv, Climbing
  <1>6. ASSUME NEW k \in 1..Len(stack)
        PROVE  /\ stack[k].class = Up(Outer)[Len(stack) - k]
               /\ n - (Len(stack) - k) \in Levels
               /\ RootAt(stack[k].class, n - (Len(stack) - k))
    <2>1. stack[k].class = Up(Outer)[Len(stack) - k]
      BY DEF CInv, Climbing
    <2>2. n \in Nat
      BY <1>5, LevelsAre
    <2>3. PICK m \in 0..n : m = Len(stack) - k
      BY <1>2, <1>5, <2>2
    <2>4. n - m \in 0..n
      BY <2>2, <2>3
    <2>5. n - m \in Levels
      BY <1>5, <2>4, LevelsAre
    <2>6. superId \in [Class -> Nat] /\ Outer \in Nat
      BY <1>4, ClassNat DEF CInv, TypeOK
    <2>7. RootAt(Up(Outer)[m], n - m)
      BY <1>5, <2>2, <2>3, <2>6, RootNearer
    <2> QED BY <2>1, <2>3, <2>5, <2>7
  <1> QED BY <1>2, <1>3, <1>4, <1>5, <1>6

\* A call for the superclass is below the topmost class or for it.
LEMMA CallRoot ==
    ASSUME CInv, pc = "call", stack # <<>>
    PROVE  \E n \in Levels : RootAt(Outer, n) /\ Len(stack) <= n /\ RootAt(arg, n - Len(stack))
                             /\ n - Len(stack) \in Levels
  <1>1. Len(stack) \in Nat \ {0} /\ Outer \in Class /\ Outer \in Nat
    BY StackRoot, ClassNat
  <1>2. PICK n \in Levels : RootAt(Outer, n) /\ Len(stack) <= n + 1
    BY StackRoot
  <1>3. n \in Nat /\ superId \in [Class -> Nat]
    BY <1>2, LevelsAre DEF CInv, TypeOK
  <1>4. arg = Up(Outer)[Len(stack)] /\ arg \in Class
    BY DEF CInv, Climbing, Control
  <1>5. Len(stack) # n + 1
    <2>1. n \in 0..n
      BY <1>3
    <2>2. Up(Outer)[n] \in Class /\ superId[Up(Outer)[n]] = 0
      BY <1>2, <2>1 DEF RootAt
    <2>3. Up(Outer)[n + 1] = 0
      BY <1>1, <1>3, <2>2, UpIs
    <2> QED BY <1>4, <2>3, ClassNat
  <1>6. Len(stack) \in 0..n /\ n - Len(stack) \in 0..n
    BY <1>1, <1>2, <1>3, <1>5
  <1>7. RootAt(arg, n - Len(stack))
    BY <1>1, <1>2, <1>3, <1>4, <1>6, RootNearer
  <1>8. n - Len(stack) \in Levels
    BY <1>2, <1>6, LevelsAre
  <1> QED BY <1>2, <1>6, <1>7, <1>8

\* A call goes astray only by a class, on the way up, that was not dumped: the one
\* it is for, or one that resolveSClassSize passes, and then it is the first call.
LEMMA EnterSegvKeeps ==
    ASSUME CInv, EnterSegv
    PROVE  CInv'
  <1>1. Still /\ UNCHANGED <<stack, known, file, left, arg>> /\ pc = "call" /\ pc' = "segv"
    BY DEF EnterSegv, Still, input
  <1>2. UNCHANGED <<superId, cfields, fields>>
    BY <1>1 DEF Still, cinfo
  <1>3. arg \in Class /\ arg \in Nat
    BY <1>1, ClassNat DEF CInv, Control
  <1>4. PICK o : /\ o = IF stack = <<>> THEN arg ELSE stack[Len(stack)].class
                 /\ \E n \in Levels : Up(o)[n] \in Class /\ ~Dumped(Up(o)[n])
    <2>1. CASE stack = <<>>
      <3>1. CASE ~Dumped(arg)
        <4>1. 0 \in Levels
          BY ClassAssumption, FS_CardinalityType DEF Levels
        <4>2. superId \in [Class -> Nat]
          BY DEF CInv, TypeOK
        <4>3. Up(arg)[0] = arg
          BY <1>3, <4>2, UpIs
        <4> QED BY <1>3, <2>1, <3>1, <4>1, <4>3
      <3>2. CASE ~\E n \in Levels : RootAt(arg, n)
        BY <1>3, <2>1, <3>2, RootWhenDumped
      <3> QED BY <3>1, <3>2 DEF EnterSegv
    <2>2. CASE stack # <<>>
      <3>1. Len(stack) \in Nat \ {0}
        BY <2>2, StackRoot
      <3>2. PICK n \in Levels : Len(stack) <= n /\ RootAt(arg, n - Len(stack)) /\ n - Len(stack) \in Levels
        BY <1>1, <2>2, CallRoot
      <3>3. ~Dumped(arg)
        BY <3>2 DEF EnterSegv
      <3>4. Len(stack) \in Levels
        BY <3>1, <3>2, LevelsAre
      <3>5. arg = Up(Outer)[Len(stack)]
        BY <1>1, <2>2 DEF CInv, Climbing
      <3> QED BY <1>3, <2>2, <3>3, <3>4, <3>5 DEF Outer
    <2> QED BY <2>1, <2>2
  <1>5. (\E n \in Levels : Up(o)[n] \in Class /\ ~Dumped(Up(o)[n]))'
    BY <1>1, <1>2, <1>4, SameClasses DEF Dumped, Levels
  <1>6. Control' /\ SegvOnlyUndumped'
    BY <1>1, <1>4, <1>5 DEF Control, SegvOnlyUndumped
  <1> QED BY <1>1, <1>6, StillStep DEF CInv, TypeOK

\* The call in its loop, in numbers: p classes above the first call, M classes below
\* the topmost one, at the fields of its l-th superclass.
LEMMA TopCounts ==
    ASSUME CInv, pc = "loop"
    PROVE  /\ stack # <<>> /\ Top = stack[1] /\ Top \in Frame
           /\ \E M \in Levels, l \in Levels, p \in Nat :
                 /\ Counting(Top, M, l) /\ Top.class = Up(Outer)[p] /\ p + M \in Levels
                 /\ RootAt(Outer, p + M)
  <1>1. stack # <<>>
    BY DEF CInv, Control
  <1>2. Len(stack) \in Nat \ {0} /\ stack \in Seq(Frame) /\ 1 \in 1..Len(stack)
    BY <1>1, StackRoot DEF CInv, TypeOK
  <1>3. Top = stack[1] /\ Top \in Frame
    <2>1. Head(stack) = stack[1] /\ stack[1] \in Frame
      BY <1>1, <1>2, PopSeq
    <2> QED BY <2>1 DEF Top
  <1>4. PICK n \in Levels :
           /\ RootAt(Outer, n) /\ Len(stack) <= n + 1
           /\ stack[1].class = Up(Outer)[Len(stack) - 1]
           /\ n - (Len(stack) - 1) \in Levels
           /\ RootAt(stack[1].class, n - (Len(stack) - 1))
    BY <1>1, <1>2, StackRoot
  <1>5. PICK M \in Levels : M = n - (Len(stack) - 1)
    BY <1>4
  <1>6. PICK p \in Nat : p = Len(stack) - 1 /\ p + M = n
    <2>1. n \in Nat /\ M \in Nat
      BY <1>4, <1>5, LevelsAre
    <2>2. Len(stack) - 1 \in Nat /\ (Len(stack) - 1) + M = n
      BY <1>2, <1>5, <2>1
    <2> QED BY <2>2
  <1>7. superId \in [Class -> Nat] /\ cfields \in [Class -> Nat]
    BY DEF CInv, TypeOK
  <1>8. Looping(stack[1])
    BY DEF CInv, Calls
  <1>9. PICK l \in Levels : AtLevel(stack[1], l)
    BY <1>8 DEF Looping
  <1>10. tfields[Top.class] = FieldSum(Top.class)[M]
    <2>1. Top.class \in Nat
      BY <1>3, ClassNat DEF Frame
    <2>2. RootAt(Top.class, M)
      BY <1>3, <1>4, <1>5
    <2>3. resolveSClassSize(Top.class) = FieldSum(Top.class)[M]
      BY <1>7, <2>1, <2>2, SizeIs
    <2> QED BY <1>3, <1>8, <2>3 DEF Looping
  <1>11. Counting(Top, M, l)
    BY <1>3, <1>4, <1>5, <1>7, <1>9, <1>10 DEF Counting
  <1> QED BY <1>1, <1>3, <1>4, <1>5, <1>6, <1>11

\* With all the dumps the loop finds as many fields as resolveSClassSize counted.
LEMMA PlaceSegvKeeps ==
    ASSUME CInv, PlaceSegv
    PROVE  CInv'
  <1>1. Still /\ UNCHANGED <<stack, known, file, left, arg>> /\ pc = "loop" /\ pc' = "segv"
    BY DEF PlaceSegv, Still, input
  <1>2. UNCHANGED <<superId, cfields, fields>>
    BY <1>1 DEF Still, cinfo
  <1>3. stack # <<>> /\ Outer = stack[Len(stack)].class /\ Outer \in Nat /\ superId \in [Class -> Nat]
    BY <1>1, TopCounts, StackRoot, ClassNat DEF CInv, TypeOK
  <1>4. PICK M \in Levels, l \in Levels, p \in Nat :
           /\ Counting(Top, M, l) /\ Top.class = Up(Outer)[p] /\ p + M \in Levels
           /\ RootAt(Outer, p + M)
    BY <1>1, TopCounts
  <1>5. PICK n \in Levels : Climbs(Top, n) /\ l + n < M
    BY <1>4, ClimbsSomewhere DEF PlaceSegv
  <1>6. M \in Nat /\ l \in Nat /\ n \in Nat
    BY LevelsAre
  <1>7. Up(Top.cc)[n] \in Class
    <2>1. n \in 0..n
      BY <1>6
    <2> QED BY <1>5, <2>1 DEF Climbs
  <1>8. ~Dumped(Up(Top.cc)[n])
    BY <1>5 DEF PlaceSegv
  <1>9. PICK k \in Levels : k = p + (l + n)
    <2>1. p + (l + n) \in 0..(p + M)
      BY <1>5, <1>6
    <2> QED BY <1>4, <2>1, LevelsAre
  <1>10. Up(Top.cc)[n] = Up(Outer)[k]
    <2>1. Up(Top.cc)[n] = Up(Top.class)[l + n]
      BY <1>4, <1>6, CountingFacts
    <2>2. l + n \in Nat
      BY <1>6
    <2>3. Up(Up(Outer)[p])[l + n] = Up(Outer)[p + (l + n)]
      BY <1>3, <2>2, UpShift
    <2> QED BY <1>4, <1>9, <2>1, <2>3
  <1>11. \E j \in Levels : Up(Outer)[j] \in Class /\ ~Dumped(Up(Outer)[j])
    BY <1>7, <1>8, <1>9, <1>10
  <1>12. (\E j \in Levels : Up(Outer)[j] \in Class /\ ~Dumped(Up(Outer)[j]))'
    <2>1. Outer' = Outer
      BY <1>1 DEF Outer
    <2> QED BY <1>2, <1>11, <2>1, SameClasses DEF Dumped, Levels
  <1>13. Control' /\ SegvOnlyUndumped'
    BY <1>1, <1>3, <1>12 DEF Control, SegvOnlyUndumped, Outer
  <1> QED BY <1>1, <1>13, StillStep DEF CInv, TypeOK

-----------------------------------------------------------------------------
(* readClass.                                                              *)

\* A sequence of smaller numbers is one of larger numbers.
LEMMA SeqWider ==
    ASSUME NEW m \in Nat, NEW n \in Nat, m <= n, NEW s \in Seq(0..m)
    PROVE  s \in Seq(0..n)
  <1>1. 0..m \subseteq 0..n
    OBVIOUS
  <1>2. s \in [1..Len(s) -> 0..m] /\ Len(s) \in Nat
    OBVIOUS
  <1>3. s \in [1..Len(s) -> 0..n]
    BY <1>1, <1>2
  <1> QED BY <1>2, <1>3, FunctionSeq

\* The values keep their type when finfo grows.
LEMMA ValuesWider ==
    ASSUME CInv, NEW m \in Nat, Len(finfo) <= m
    PROVE  values \in [Class -> Seq(0..m)]
  <1>1. values \in [Class -> Seq(0..Len(finfo))] /\ Len(finfo) \in Nat
    BY DEF CInv, TypeOK
  <1>2. \A c \in Class : values[c] \in Seq(0..m)
    BY <1>1, SeqWider
  <1> QED BY <1>1, <1>2

\* readClass gives a class new records, behind all others.
LEMMA ReadClassKeeps ==
    ASSUME CInv, NEW c \in Class, ReadClass(c)
    PROVE  CInv'
  <1> DEFINE n == Len(dump.fields[c])
             new == [k \in 1..n |-> [ident |-> <<c, k>>, ftype |-> dump.fields[c][k],
                                     named |-> FALSE, offset |-> 0]]
  <1>1. /\ pc = "read" /\ stack = <<>> /\ left' = left \ {c}
        /\ superId' = [superId EXCEPT ![c] = dump.super[c]]
        /\ cfields' = [cfields EXCEPT ![c] = n]
        /\ fields' = [fields EXCEPT ![c] = Len(finfo) + 1]
        /\ finfo' = finfo \o new
        /\ reread' = reread \cup (IF resolved[c] THEN {c} ELSE {})
        /\ UNCHANGED <<dump, file, tfields, values, size, resolved, stack, pc, arg, known>>
    BY DEF ReadClass, CInv, Control, input
  <1>2. /\ dump \in Dumps /\ finfo \in Seq(FInfo) /\ Len(finfo) \in Nat
        /\ superId \in [Class -> Nat] /\ cfields \in [Class -> Nat]
        /\ fields \in [Class -> 0..(Len(finfo) + 1)]
        /\ values \in [Class -> Seq(0..Len(finfo))]
    <2>1. /\ dump \in Dumps /\ finfo \in Seq(FInfo)
          /\ superId \in [Class -> Nat] /\ cfields \in [Class -> Nat]
          /\ fields \in [Class -> 0..(Len(finfo) + 1)]
          /\ values \in [Class -> Seq(0..Len(finfo))]
      BY DEF CInv, TypeOK
    <2>2. Len(finfo) \in Nat
      BY <2>1
    <2> QED BY <2>1, <2>2
  <1>3. dump.fields[c] \in Seq(FType) /\ n \in Nat /\ dump.super[c] \in Nat
    <2>1. dump.super \in [Class -> Class \cup {0}] /\ dump.fields \in [Class -> Seq(FType)]
      BY <1>2, DumpsAssumption
    <2>2. dump.super[c] \in Class \cup {0} /\ dump.fields[c] \in Seq(FType)
      BY <2>1
    <2>3. dump.super[c] \in Nat
      <3>1. \A x \in Class \cup {0} : x \in Nat
        BY ClassNat
      <3> QED BY <2>2, <3>1, Zenon
    <2>4. n \in Nat
      BY <2>2
    <2> QED BY <2>2, <2>3, <2>4
  <1>4. new \in Seq(FInfo) /\ Len(new) = n
    <2>1. \A k \in 1..n : dump.fields[c][k] \in FType
      BY <1>3, SeqElement, Zenon
    <2>2. \A k \in 1..n : [ident |-> <<c, k>>, ftype |-> dump.fields[c][k],
                           named |-> FALSE, offset |-> 0] \in FInfo
      BY <2>1 DEF FInfo
    <2>3. new \in [1..n -> FInfo]
      BY <2>2
    <2> HIDE DEF new, n
    <2> QED BY <1>3, <2>3, FunctionSeq
  <1> HIDE DEF new, n
  <1>5. finfo' \in Seq(FInfo) /\ Len(finfo') = Len(finfo) + n
    BY <1>1, <1>2, <1>4, ConcatSeq
  <1>6. TypeOK'
    <2>1. superId' \in [Class -> Nat] /\ cfields' \in [Class -> Nat]
      BY <1>1, <1>2, <1>3
    <2>2. fields' \in [Class -> 0..(Len(finfo') + 1)]
      <3>1. Len(finfo) + 1 \in 0..(Len(finfo') + 1) /\ 0..(Len(finfo) + 1) \subseteq 0..(Len(finfo') + 1)
        BY <1>2, <1>3, <1>5
      <3> QED BY <1>1, <1>2, <3>1
    <2>3. values' \in [Class -> Seq(0..Len(finfo'))]
      <3>1. Len(finfo') \in Nat /\ Len(finfo) <= Len(finfo')
        BY <1>2, <1>3, <1>5
      <3>2. values \in [Class -> Seq(0..Len(finfo'))]
        BY <3>1, ValuesWider
      <3> QED BY <1>1, <3>2
    <2>4. left' \subseteq Class /\ reread' \subseteq Class
      BY <1>1 DEF CInv, TypeOK
    <2> QED BY <1>1, <1>5, <2>1, <2>2, <2>3, <2>4 DEF CInv, TypeOK
  <1>7. /\ Dumped(c)' /\ fields'[c] = Len(finfo) + 1 /\ cfields'[c] = n /\ superId'[c] = dump.super[c]
        /\ Own(c)' = (Len(finfo) + 1)..(Len(finfo) + n)
    <2>1. fields'[c] = Len(finfo) + 1 /\ cfields'[c] = n /\ superId'[c] = dump.super[c]
      BY <1>1, <1>2
    <2>2. (Len(finfo) + 1) + n - 1 = Len(finfo) + n /\ Len(finfo) + 1 # 0
      <3>1. Len(finfo) \in Nat /\ n \in Nat
        BY <1>2, <1>3
      <3> QED BY <3>1
    <2> QED BY <2>1, <2>2 DEF Dumped, Own
  <1>8. \A d \in Class \ {c} : /\ Dumped(d)' <=> Dumped(d)
                               /\ Own(d)' = Own(d) /\ fields'[d] = fields[d]
                               /\ cfields'[d] = cfields[d] /\ superId'[d] = superId[d]
    BY <1>1, <1>2 DEF Dumped, Own
  <1>9. \A d \in Class \ {c} : Dumped(d) =>
           /\ superId[d] = dump.super[d] /\ fields[d] + cfields[d] <= Len(finfo) + 1
           /\ \A x \in Own(d) : x <= Len(finfo)
           /\ \A e \in Class \ {d} : Dumped(e) => Own(d) \cap Own(e) = {}
    <2> TAKE d \in Class \ {c}
    <2> HAVE Dumped(d)
    <2>1. /\ superId[d] = dump.super[d] /\ fields[d] + cfields[d] <= Len(finfo) + 1
          /\ \A e \in Class \ {d} : Dumped(e) => Own(d) \cap Own(e) = {}
      BY DEF CInv, Read
    <2>2. fields[d] \in Int /\ cfields[d] \in Nat
      BY <1>2
    <2>3. \A x \in Own(d) : x <= Len(finfo)
      BY <1>2, <2>1, <2>2 DEF Own
    <2> QED BY <2>1, <2>3
  <1>10. Read'
    <2> SUFFICES ASSUME NEW d \in Class, Dumped(d)'
                 PROVE  /\ superId'[d] = dump'.super[d]
                        /\ fields'[d] + cfields'[d] <= Len(finfo') + 1
                        /\ \A e \in Class \ {d} : Dumped(e)' => Own(d)' \cap Own(e)' = {}
      BY DEF Read
    <2>1. CASE d = c
      <3>1. fields'[d] + cfields'[d] <= Len(finfo') + 1
        BY <1>2, <1>3, <1>5, <1>7, <2>1
      <3>2. ASSUME NEW e \in Class \ {d}, Dumped(e)' PROVE Own(d)' \cap Own(e)' = {}
        <4>1. Own(e)' = Own(e) /\ \A x \in Own(e) : x <= Len(finfo)
          BY <1>8, <1>9, <2>1, <3>2
        <4>2. \A x \in Own(d)' : ~(x <= Len(finfo))
          BY <1>2, <1>3, <1>7, <2>1
        <4> QED BY <4>1, <4>2
      <3> QED BY <1>1, <1>7, <2>1, <3>1, <3>2
    <2>2. CASE d # c
      <3>1. Dumped(d) /\ superId'[d] = dump'.super[d]
        BY <1>1, <1>8, <1>9, <2>2
      <3>2. fields'[d] + cfields'[d] <= Len(finfo') + 1
        <4>1. fields[d] + cfields[d] <= Len(finfo) + 1 /\ fields[d] \in Int /\ cfields[d] \in Nat
          BY <1>2, <1>9, <2>2, <3>1
        <4>2. fields'[d] = fields[d] /\ cfields'[d] = cfields[d]
          BY <1>8, <2>2
        <4> QED BY <1>2, <1>3, <1>5, <4>1, <4>2
      <3>3. ASSUME NEW e \in Class \ {d}, Dumped(e)' PROVE Own(d)' \cap Own(e)' = {}
        <4>1. Own(d)' = Own(d)
          BY <1>8, <2>2
        <4>2. CASE e = c
          <5>1. \A x \in Own(d)' : x <= Len(finfo)
            BY <1>9, <2>2, <3>1, <4>1
          <5>2. \A x \in Own(e)' : ~(x <= Len(finfo))
            BY <1>2, <1>3, <1>7, <4>2
          <5> QED BY <5>1, <5>2
        <4>3. CASE e # c
          BY <1>8, <1>9, <2>2, <3>1, <3>3, <4>1, <4>3
        <4> QED BY <4>2, <4>3
      <3> QED BY <3>1, <3>2, <3>3
    <2> QED BY <2>1, <2>2
  <1>11. Private'
    <2> SUFFICES ASSUME NEW d \in Class, NEW k \in DOMAIN values[d], values[d][k] # Unset,
                        NEW e \in Class \ {d}, Dumped(e)'
                 PROVE  values[d][k] \notin Own(e)'
      BY <1>1 DEF Private
    <2>1. CASE e = c
      <3>1. values[d] \in Seq(0..Len(finfo)) /\ k \in 1..Len(values[d])
        <4>1. values[d] \in Seq(0..Len(finfo))
          BY <1>2
        <4>2. DOMAIN values[d] = 1..Len(values[d])
          BY <4>1
        <4> QED BY <4>1, <4>2
      <3>2. values[d][k] \in 0..Len(finfo)
        BY <3>1, SeqElement, Zenon
      <3> QED BY <1>2, <1>3, <1>7, <2>1, <3>2
    <2>2. CASE e # c
      BY <1>8, <2>2 DEF CInv, Private
    <2> QED BY <2>1, <2>2
  <1>12. Filled'
    BY <1>1 DEF CInv, Filled
  <1>13. Control' /\ Climbing' /\ Calls' /\ SegvOnlyUndumped'
    BY <1>1 DEF Control, Climbing, Calls, SegvOnlyUndumped
  <1>14. dump' \in Dumps /\ file' \in Seq(SUBSET Class)
    BY <1>1 DEF CInv
  <1> QED BY <1>6, <1>10, <1>11, <1>12, <1>13, <1>14 DEF CInv

-----------------------------------------------------------------------------
(* resolveClassNode enters a class and starts its loop.                    *)

\* A call begins: its topmost class is that of the first call.
LEMMA EnterKeeps ==
    ASSUME CInv, Enter
    PROVE  CInv'
  <1> DEFINE total == resolveSClassSize(arg)
             f == [class |-> arg, cc |-> arg, target |-> total - cfields[arg],
                   fieldNo |-> 0, i |-> 0, index |-> 0]
  <1>1. /\ pc = "call" /\ ~resolved[arg]
        /\ \E n \in Levels : RootAt(arg, n)
        /\ tfields' = [tfields EXCEPT ![arg] = total]
        /\ stack' = <<f>> \o stack
        /\ IF superId[arg] \in Class THEN pc' = "call" /\ arg' = superId[arg]
                                     ELSE pc' = "ret" /\ arg' = arg
        /\ UNCHANGED <<dump, file, left, finfo, superId, cfields, values, size, resolved,
                       fields, reread>>
    BY DEF Enter, input
  <1>2. /\ arg \in Class /\ arg \in Nat /\ superId \in [Class -> Nat] /\ cfields \in [Class -> Nat]
        /\ tfields \in [Class -> Nat] /\ stack \in Seq(Frame)
    <2>1. arg \in Class
      BY <1>1 DEF CInv, Control
    <2> QED BY <2>1, ClassNat DEF CInv, TypeOK
  <1>3. PICK n \in Levels : RootAt(arg, n)
    BY <1>1
  <1>4. total \in Nat /\ cfields[arg] \in Nat
    BY <1>2, <1>3, SizeIs
  <1>5. f \in Frame
    <2>1. total - cfields[arg] \in Int
      BY <1>4
    <2> HIDE DEF total
    <2> QED BY <1>2, <2>1 DEF Frame
  <1> HIDE DEF total
  <1>6. /\ stack' \in Seq(Frame) /\ Len(stack') = Len(stack) + 1 /\ stack'[1] = f
        /\ \A k \in 2..(Len(stack) + 1) : stack'[k] = stack[k - 1]
        /\ Len(stack) \in Nat /\ stack' # <<>>
    <2> HIDE DEF f
    <2>1. /\ stack' \in Seq(Frame) /\ Len(stack') = Len(stack) + 1 /\ stack'[1] = f
          /\ \A k \in 2..(Len(stack) + 1) : stack'[k] = stack[k - 1]
      BY <1>1, <1>2, <1>5, PushSeq
    <2>2. Len(stack) \in Nat
      BY <1>2
    <2>3. stack' # <<>>
      BY <2>1, <2>2
    <2> QED BY <2>1, <2>2, <2>3
  <1>7. f.class = arg /\ f.cc = arg /\ f.fieldNo = 0 /\ f.i = 0 /\ f.target = total - cfields[arg]
    OBVIOUS
  <1> HIDE DEF f
  <1>8. /\ \A c : Up(c)' = Up(c)
        /\ \A c, m : RootAt(c, m)' <=> RootAt(c, m)
        /\ \A c : resolveSClassSize(c)' = resolveSClassSize(c)
    BY <1>1, SameClasses
  <1>9. TypeOK'
    <2>1. tfields' \in [Class -> Nat]
      BY <1>1, <1>2, <1>4
    <2>2. arg' \in Class \cup {0} /\ pc' \in {"call", "ret"}
      BY <1>1, <1>2
    <2>3. known' \subseteq Class
      BY <1>2 DEF Enter, CInv, TypeOK
    <2> QED BY <1>1, <1>6, <2>1, <2>2, <2>3 DEF CInv, TypeOK
  <1>10. Read' /\ Private' /\ Filled'
    <2>1. \A c : (Dumped(c)' <=> Dumped(c)) /\ Own(c)' = Own(c)
      BY <1>1 DEF Dumped, Own
    <2> QED BY <1>1, <2>1 DEF CInv, Read, Private, Filled
  <1>11. Outer \in Nat /\ Outer' = Outer /\ Up(Outer)[Len(stack)] = arg
    <2>1. CASE stack = <<>>
      <3>1. Len(stack) = 0 /\ Outer = arg
        BY <2>1 DEF Outer
      <3>2. Outer' = stack'[1].class
        BY <1>6, <3>1 DEF Outer
      <3>3. Up(arg)[0] = arg
        BY <1>2, UpIs
      <3> QED BY <1>2, <1>6, <1>7, <3>1, <3>2, <3>3
    <2>2. CASE stack # <<>>
      <3>1. Len(stack) \in Nat \ {0} /\ Outer = stack[Len(stack)].class /\ Outer \in Nat
        BY <2>2, StackRoot, ClassNat
      <3>2. Len(stack) + 1 \in 2..(Len(stack) + 1) /\ (Len(stack) + 1) - 1 = Len(stack)
        BY <3>1
      <3>3. stack'[Len(stack')] = stack[Len(stack)]
        BY <1>6, <3>2
      <3>4. Outer' = Outer
        BY <1>6, <3>1, <3>3 DEF Outer
      <3>5. arg = Up(Outer)[Len(stack)]
        BY <1>1, <2>2 DEF CInv, Climbing
      <3> QED BY <3>1, <3>4, <3>5
    <2> QED BY <2>1, <2>2
  <1>12. \E m \in Levels : RootAt(Outer, m) /\ Len(stack') <= m + 1
    <2>1. CASE stack = <<>>
      <3>1. Outer = arg /\ Len(stack) = 0 /\ n \in Nat
        BY <2>1, LevelsAre DEF Outer
      <3>2. Len(stack') <= n + 1
        BY <1>6, <3>1
      <3> QED BY <1>3, <3>1, <3>2
    <2>2. CASE stack # <<>>
      <3>1. PICK m \in Levels : RootAt(Outer, m) /\ Len(stack) <= m
        BY <1>1, <2>2, CallRoot
      <3>2. m \in Nat
        BY LevelsAre
      <3>3. Len(stack') <= m + 1
        BY <1>6, <3>1, <3>2
      <3> QED BY <3>1, <3>3
    <2> QED BY <2>1, <2>2
  <1>13. ASSUME NEW k \in 1..Len(stack')
         PROVE  stack'[k].class = Up(Outer)[Len(stack') - k] /\ ~resolved[stack'[k].class]
    <2>1. CASE k = 1
      <3>1. Len(stack') - 1 = Len(stack)
        BY <1>6
      <3> QED BY <1>1, <1>6, <1>7, <1>11, <2>1, <3>1
    <2>2. CASE k # 1
      <3>1. /\ k \in 2..(Len(stack) + 1) /\ k - 1 \in 1..Len(stack)
            /\ Len(stack') - k = Len(stack) - (k - 1) /\ stack # <<>>
        BY <1>2, <1>6, <2>2
      <3>2. stack[k - 1].class = Up(Outer)[Len(stack) - (k - 1)] /\ ~resolved[stack[k - 1].class]
        BY <3>1 DEF CInv, Climbing
      <3> QED BY <1>6, <3>1, <3>2
    <2> QED BY <2>1, <2>2
  <1>14. pc' = "call" => arg' = Up(Outer)[Len(stack')]
    <2>1. Up(Outer)[Len(stack) + 1] = superId[arg]
      BY <1>2, <1>6, <1>11, UpIs
    <2> QED BY <1>1, <1>6, <2>1
  <1>15. Climbing'
    <2>1. Levels' = Levels /\ resolved' = resolved
      BY <1>1 DEF Levels
    <2>2. \E m \in Levels' : RootAt(Outer, m)' /\ Len(stack') <= m + 1
      BY <1>8, <1>11, <1>12, <2>1
    <2> QED BY <1>8, <1>11, <1>13, <1>14, <2>1, <2>2 DEF Climbing
  <1>16. Calls'
    <2> DEFINE Is(g) == /\ tfields'[g.class] = resolveSClassSize(g.class)
                        /\ g.cc = g.class /\ g.fieldNo = 0 /\ g.i = 0
                        /\ g.target = tfields'[g.class] - cfields[g.class]
    <2>1. ASSUME NEW k \in 1..Len(stack') PROVE Is(stack'[k])
      <3>1. CASE k = 1
        <4>1. tfields'[arg] = total
          BY <1>1, <1>2
        <4> QED BY <1>6, <1>7, <3>1, <4>1 DEF total
      <3>2. CASE k # 1
        <4>1. k \in 2..(Len(stack) + 1) /\ k - 1 \in 1..Len(stack)
          BY <1>6, <3>2
        <4>2. stack'[k] = stack[k - 1] /\ Fresh(stack[k - 1])
          BY <1>1, <1>6, <4>1 DEF CInv, Calls
        <4>3. stack[k - 1].class \in Class
          <5>1. stack # <<>>
            BY <1>6, <4>1
          <5> QED BY <4>1, <5>1, StackRoot
        <4>4. tfields'[stack[k - 1].class] = tfields[stack[k - 1].class]
          BY <1>1, <1>2, <4>2, <4>3 DEF Fresh, total
        <4> QED BY <4>2, <4>4 DEF Fresh
      <3> QED BY <3>1, <3>2
    <2>2. pc' \in {"call", "ret"}
      BY <1>1
    <2>3. \A g : Is(g) => Fresh(g)'
      BY <1>1, <1>8 DEF Fresh
    <2> HIDE DEF Is
    <2>4. \A k \in 1..Len(stack') : Fresh(stack[k])'
      BY <2>1, <2>3
    <2> QED BY <2>2, <2>4 DEF Calls
  <1>17. Control' /\ SegvOnlyUndumped'
    BY <1>1, <1>6 DEF Control, SegvOnlyUndumped
  <1>18. dump' \in Dumps /\ file' \in Seq(SUBSET Class)
    BY <1>1 DEF CInv
  <1> QED BY <1>9, <1>10, <1>15, <1>16, <1>17, <1>18 DEF CInv

\* The loop begins, with no slot set.
LEMMA BeginKeeps ==
    ASSUME CInv, Begin
    PROVE  CInv'
  <1> DEFINE c == Top.class
             none == [k \in 1..tfields[c] |-> Unset]
  <1>1. /\ pc = "ret" /\ pc' = "loop" /\ stack # <<>>
        /\ values' = [values EXCEPT ![c] = none]
        /\ UNCHANGED <<dump, file, left, finfo, superId, cfields, tfields, size, resolved,
                       fields, stack, arg, known, reread>>
    BY DEF Begin, input
  <1>2. /\ superId \in [Class -> Nat] /\ cfields \in [Class -> Nat] /\ tfields \in [Class -> Nat]
        /\ values \in [Class -> Seq(0..Len(finfo))] /\ finfo \in Seq(FInfo) /\ stack \in Seq(Frame)
    BY DEF CInv, TypeOK
  <1>3. Top = stack[1] /\ Top \in Frame /\ 1 \in 1..Len(stack) /\ c \in Class /\ c \in Nat
    <2>1. Head(stack) = stack[1] /\ stack[1] \in Frame
      BY <1>1, <1>2, PopSeq
    <2>2. 1 \in 1..Len(stack)
      BY <1>1, <1>2
    <2>3. Top.class \in Class
      BY <2>1 DEF Top, Frame
    <2> QED BY <2>1, <2>2, <2>3, ClassNat DEF Top
  <1>4. /\ \A d : Up(d)' = Up(d) /\ FieldSum(d)' = FieldSum(d)
        /\ \A d, m : RootAt(d, m)' <=> RootAt(d, m)
        /\ \A d : resolveSClassSize(d)' = resolveSClassSize(d)
        /\ Outer' = Outer /\ Levels' = Levels
    BY <1>1, SameClasses DEF Outer, Levels
  <1>5. ~resolved[c] /\ Fresh(Top) /\ tfields[c] \in Nat /\ cfields[c] \in Nat
    BY <1>1, <1>2, <1>3 DEF CInv, Climbing, Calls
  <1>6. /\ values'[c] = none /\ DOMAIN values' = Class
        /\ \A d \in Class \ {c} : values'[d] = values[d]
        /\ DOMAIN none = 1..tfields[c] /\ \A k \in 1..tfields[c] : none[k] = Unset
    <2>1. c \in Class
      BY <1>3
    <2> HIDE DEF c
    <2> QED BY <1>1, <1>2, <2>1
  <1>7. values' \in [Class -> Seq(0..Len(finfo))]
    <2>1. 0 \in 0..Len(finfo)
      BY <1>2
    <2>2. none \in [1..tfields[c] -> 0..Len(finfo)]
      BY <2>1 DEF Unset
    <2>3. c \in Class
      BY <1>3
    <2> HIDE DEF none, c
    <2>4. none \in Seq(0..Len(finfo))
      BY <1>5, <2>2, FunctionSeq
    <2> QED BY <1>1, <1>2, <2>3, <2>4
  <1> HIDE DEF none
  <1>8. TypeOK'
    BY <1>1, <1>7 DEF CInv, TypeOK
  <1>9. \A d : (Dumped(d)' <=> Dumped(d)) /\ Own(d)' = Own(d)
    BY <1>1 DEF Dumped, Own
  <1>10. Read'
    BY <1>1, <1>9 DEF CInv, Read
  <1>11. Private'
    <2> SUFFICES ASSUME NEW d \in Class, NEW k \in DOMAIN values'[d], values'[d][k] # Unset,
                        NEW e \in Class \ {d}, Dumped(e)
                 PROVE  values'[d][k] \notin Own(e)
      BY <1>9 DEF Private, Unset
    <2>1. d # c
      BY <1>6
    <2> QED BY <1>6, <2>1 DEF CInv, Private
  <1>12. Filled'
    BY <1>1, <1>5, <1>6 DEF CInv, Filled, Unset
  <1>13. Climbing'
    BY <1>1, <1>4 DEF CInv, Climbing
  <1>14. Looping(Top)'
    <2>2. /\ tfields[c] = resolveSClassSize(c) /\ Top.cc = c /\ Top.fieldNo = 0 /\ Top.i = 0
          /\ Top.target = tfields[c] - cfields[c]
      BY <1>5 DEF Fresh
    <2>3. Up(c)[0] = c /\ FieldSum(c)[0] = 0 /\ FieldSum(c)[0 + 1] = FieldSum(c)[0] + cfields[c]
      <3>1. c \in Nat /\ c \in Class
        BY <1>3
      <3> HIDE DEF c
      <3>2. Up(c)[0] = c
        BY <1>2, <3>1, UpIs
      <3> QED BY <1>2, <3>1, <3>2, SumIs
    <2>4. AtLevel(Top, 0)
      BY <1>3, <1>5, <2>2, <2>3 DEF AtLevel
    <2>5. 0 \in Levels
      BY ClassAssumption, FS_CardinalityType DEF Levels
    <2>6. \A k \in 1..tfields[c] : k <= Top.target \/ (Top.target + Top.fieldNo < k /\ k <= Top.target + cfields[Top.cc])
      BY <1>5, <2>2
    <2>7. Top' = Top
      BY <1>1 DEF Top
    <2>8. AtLevel(Top, 0)'
      BY <1>1, <1>4, <2>4, <2>7 DEF AtLevel
    <2> QED BY <1>1, <1>4, <1>6, <2>2, <2>5, <2>6, <2>7, <2>8 DEF Looping, Unset
  <1>15. Calls'
    <2>1. Top' = stack'[1]
      BY <1>1, <1>3 DEF Top
    <2>2. \A g : Fresh(g)' <=> Fresh(g)
      BY <1>1, <1>4 DEF Fresh
    <2>3. \A k \in 2..Len(stack') : Fresh(stack[k])'
      <3>1. \A k \in 2..Len(stack) : k \in 1..Len(stack)
        BY <1>2
      <3> QED BY <1>1, <2>2, <3>1 DEF CInv, Calls
    <2> QED BY <1>1, <1>14, <2>1, <2>3 DEF Calls
  <1>16. Control' /\ SegvOnlyUndumped'
    BY <1>1 DEF Control, SegvOnlyUndumped
  <1>17. dump' \in Dumps /\ file' \in Seq(SUBSET Class)
    BY <1>1 DEF CInv
  <1> QED BY <1>8, <1>10, <1>11, <1>12, <1>13, <1>15, <1>16, <1>17 DEF CInv

-----------------------------------------------------------------------------
(* The loop ends.                                                          *)

\* With as many turns as fields, every slot has been filled and every field of the
\* last class placed, if there was any.
LEMMA LoopFills ==
    ASSUME CInv, pc = "loop", Top.i >= tfields[Top.class]
    PROVE  /\ \A k \in DOMAIN values[Top.class] : values[Top.class][k] # Unset
           /\ superId[Top.class] = 0 \/ Top.fieldNo = cfields[Top.cc]
  <1> DEFINE f == Top
             c == f.class
             S(k) == FieldSum(c)[k]
  <1>1. PICK M \in Levels, l \in Levels : Counting(f, M, l)
    BY TopCounts
  <1>2. /\ M \in Nat /\ l \in Nat /\ l <= M /\ c \in Nat /\ f.cc \in Class
        /\ f.fieldNo \in Nat /\ f.i \in Nat /\ f.target \in Int
        /\ S(l) \in Nat /\ S(M) \in Nat /\ S(l + 1) \in Nat
        /\ S(l + 1) = S(l) + cfields[f.cc]
    <2>1. /\ M \in Nat /\ l \in Nat /\ l <= M /\ c \in Nat /\ f.cc \in Class
          /\ f.fieldNo \in Nat /\ f.i \in Nat /\ f.target \in Int
          /\ \A m \in Nat : S(m) \in Nat
          /\ S(l + 1) = S(l) + cfields[f.cc]
      BY <1>1, CountingFacts
    <2>2. l + 1 \in Nat
      BY <2>1
    <2> QED BY <2>1, <2>2
  <1>3. /\ superId \in [Class -> Nat] /\ cfields \in [Class -> Nat] /\ RootAt(c, M)
        /\ tfields[c] = S(M) /\ f.fieldNo <= cfields[f.cc] /\ f.i = S(l) + f.fieldNo
        /\ f.target = tfields[c] - S(l + 1) /\ f.cc = Up(c)[l]
        /\ l = 0 \/ superId[Up(c)[l]] # 0
    BY <1>1 DEF Counting, AtLevel
  <1>4. /\ DOMAIN values[c] = 1..tfields[c]
        /\ \A k \in 1..tfields[c] : values[c][k] = Unset =>
              k <= f.target \/ (f.target + f.fieldNo < k /\ k <= f.target + cfields[f.cc])
    <2>1. Looping(f)
      BY TopCounts DEF CInv, Calls
    <2> QED BY <2>1 DEF Looping
  <1>5. cfields[f.cc] \in Nat
    BY <1>2, <1>3
  <1>6. CASE l < M
    <2>1. S(l + 1) <= S(M)
      <3>1. l + 1 \in Nat /\ l + 1 <= M
        BY <1>2, <1>6
      <3> HIDE DEF c
      <3> QED BY <1>2, <1>3, <3>1, SumGrows
    <2> HIDE DEF S, f, c
    <2>2. f.i >= S(M)
      BY <1>3 DEF f, c
    <2>3. f.fieldNo = cfields[f.cc] /\ f.target = 0
      BY <1>2, <1>3, <1>5, <2>1, <2>2
    <2>4. \A k \in 1..tfields[c] : ~(k <= f.target \/ (f.target + f.fieldNo < k /\ k <= f.target + cfields[f.cc]))
      BY <1>2, <1>3, <1>5, <2>3
    <2> QED BY <1>4, <2>3, <2>4 DEF f, c
  <1>7. CASE ~(l < M)
    <2>1. l = M
      BY <1>2, <1>7
    <2>2. superId[Up(c)[l]] = 0
      BY <1>3, <2>1 DEF RootAt
    <2>3. M = 0
      BY <1>3, <2>1, <2>2
    <2>4. S(M) = 0
      <3> HIDE DEF c
      <3> QED BY <1>2, <1>3, <2>3, SumIs
    <2>5. tfields[c] = 0
      BY <1>3, <2>4
    <2>6. 1..tfields[c] = {}
      BY <2>5
    <2>7. superId[c] = 0
      <3> HIDE DEF c
      <3> QED BY <1>2, <1>3, <2>1, <2>2, <2>3, UpIs
    <2> QED BY <1>4, <2>6, <2>7
  <1> QED BY <1>6, <1>7

\* The loop ends: the class is resolved, with every slot set.
LEMMA FinishKeeps ==
    ASSUME CInv, Finish
    PROVE  CInv'
  <1> DEFINE c == Top.class
  <1>1. /\ pc = "loop" /\ pc' = "ret" /\ Top.i >= tfields[c]
        /\ size' = IF tfields[c] > 0 THEN [size EXCEPT ![c] = Top.index] ELSE size
        /\ resolved' = [resolved EXCEPT ![c] = TRUE]
        /\ stack' = Tail(stack)
        /\ UNCHANGED <<dump, file, left, finfo, superId, cfields, tfields, values, fields,
                       arg, known, reread>>
    BY DEF Finish, input
  <1>2. /\ superId \in [Class -> Nat] /\ cfields \in [Class -> Nat] /\ size \in [Class -> Nat]
        /\ resolved \in [Class -> BOOLEAN] /\ stack \in Seq(Frame)
    BY DEF CInv, TypeOK
  <1>3. stack # <<>> /\ Top = stack[1] /\ Top \in Frame /\ c \in Class /\ Top.index \in Nat
    <2>1. stack # <<>> /\ Top = stack[1] /\ Top \in Frame
      BY <1>1, TopCounts
    <2>2. Top.class \in Class /\ Top.index \in Nat
      BY <2>1 DEF Frame
    <2> QED BY <2>1, <2>2
  <1>4. /\ Len(stack) \in Nat \ {0} /\ stack' \in Seq(Frame) /\ Len(stack') = Len(stack) - 1
        /\ \A k \in 1..Len(stack') : stack'[k] = stack[k + 1] /\ k + 1 \in 2..Len(stack)
        /\ \A k \in 2..Len(stack) : k \in 1..Len(stack)
    <2>1. /\ Tail(stack) \in Seq(Frame) /\ Len(Tail(stack)) = Len(stack) - 1
          /\ \A k \in 1..(Len(stack) - 1) : Tail(stack)[k] = stack[k + 1]
      BY <1>2, <1>3, PopSeq
    <2>2. Len(stack) \in Nat \ {0}
      BY <1>3, StackRoot
    <2>3. /\ \A k \in 1..(Len(stack) - 1) : k + 1 \in 2..Len(stack)
          /\ \A k \in 2..Len(stack) : k \in 1..Len(stack)
      BY <2>2
    <2> QED BY <1>1, <2>1, <2>2, <2>3
  <1>5. TypeOK'
    <2>1. size' \in [Class -> Nat]
      BY <1>1, <1>2, <1>3
    <2>2. resolved' \in [Class -> BOOLEAN]
      BY <1>1, <1>2
    <2> QED BY <1>1, <1>4, <2>1, <2>2 DEF CInv, TypeOK
  <1>6. Read' /\ Private'
    <2>1. \A d : (Dumped(d)' <=> Dumped(d)) /\ Own(d)' = Own(d)
      BY <1>1 DEF Dumped, Own
    <2> QED BY <1>1, <2>1 DEF CInv, Read, Private
  <1>7. Filled'
    <2>1. \A k \in DOMAIN values[c] : values[c][k] # Unset
      BY <1>1, LoopFills
    <2>2. \A d \in Class : d # c => (resolved'[d] <=> resolved[d])
      BY <1>1, <1>2
    <2>3. \A d \in Class : d # c /\ resolved[d] => \A k \in DOMAIN values[d] : values[d][k] # Unset
      BY DEF CInv, Filled
    <2>4. \A d \in Class : resolved'[d] => \A k \in DOMAIN values[d] : values[d][k] # Unset
      <3> HIDE DEF c
      <3> QED BY <2>1, <2>2, <2>3
    <2> QED BY <1>1, <2>4 DEF Filled
  <1>8. Climbing'
    <2> SUFFICES ASSUME stack' # <<>>
                 PROVE  /\ \E n \in Levels' : RootAt(Outer, n)' /\ Len(stack') <= n + 1
                        /\ \A k \in 1..Len(stack') : /\ stack'[k].class = (Up(Outer)')[Len(stack') - k]
                                                     /\ ~resolved'[stack'[k].class]
      BY <1>1 DEF Climbing
    <2>1. Len(stack') \in Nat \ {0} /\ Len(stack) > 1
      BY <1>4
    <2>2. Outer' = Outer
      <3>1. Outer' = stack'[Len(stack')].class /\ Outer = stack[Len(stack)].class
        BY <1>3 DEF Outer
      <3>2. Len(stack') \in 1..Len(stack') /\ Len(stack') + 1 = Len(stack)
        BY <1>4, <2>1
      <3> QED BY <1>4, <3>1, <3>2
    <2>3. /\ \A d : Up(d)' = Up(d)
          /\ \A d, m : RootAt(d, m)' <=> RootAt(d, m)
          /\ Levels' = Levels
      BY <1>1, SameClasses DEF Levels
    <2>4. PICK n \in Levels : RootAt(Outer, n) /\ Len(stack) <= n + 1
      BY <1>3, StackRoot
    <2>5. n \in Nat /\ Len(stack') <= n + 1
      BY <1>4, <2>4, LevelsAre
    <2>6. ASSUME NEW k \in 1..Len(stack')
          PROVE  stack'[k].class = Up(Outer)[Len(stack') - k] /\ ~resolved'[stack'[k].class]
      <3>1. stack'[k] = stack[k + 1] /\ k + 1 \in 1..Len(stack) /\ 1 \in 1..Len(stack) /\ k + 1 # 1
        BY <1>4
      <3>2. stack[k + 1].class = Up(Outer)[Len(stack) - (k + 1)] /\ ~resolved[stack[k + 1].class]
            /\ stack[k + 1].class \in Class
        BY <1>3, <3>1, StackRoot DEF CInv, Climbing
      <3>3. c = Up(Outer)[Len(stack) - 1]
        BY <1>3, <3>1, StackRoot
      <3>4. Len(stack') - k = Len(stack) - (k + 1)
        BY <1>4
      <3>5. stack[k + 1].class # c
        <4>1. Len(stack) - (k + 1) \in 0..n /\ Len(stack) - 1 \in 0..n
              /\ Len(stack) - (k + 1) # Len(stack) - 1
          BY <1>4, <2>4, <2>5, <3>1
        <4>2. Outer \in Nat
          BY <1>3, StackRoot, ClassNat
        <4>3. Up(Outer)[Len(stack) - (k + 1)] # Up(Outer)[Len(stack) - 1]
          BY <1>2, <2>4, <2>5, <4>1, <4>2, UpDistinct
        <4> QED BY <3>2, <3>3, <4>3
      <3>6. ~resolved'[stack[k + 1].class]
        BY <1>1, <1>2, <3>2, <3>5
      <3> QED BY <3>1, <3>2, <3>4, <3>6
    <2> QED BY <2>2, <2>3, <2>4, <2>5, <2>6
  <1>9. Calls'
    <2>1. \A g : Fresh(g)' <=> Fresh(g)
      BY <1>1, SameClasses DEF Fresh
    <2>2. \A k \in 1..Len(stack') : Fresh(stack'[k])
      BY <1>1, <1>4 DEF CInv, Calls
    <2>3. \A k \in 1..Len(stack') : Fresh(stack[k])'
      BY <2>1, <2>2
    <2> QED BY <1>1, <2>3 DEF Calls
  <1>10. Control' /\ SegvOnlyUndumped'
    BY <1>1 DEF Control, SegvOnlyUndumped
  <1>11. dump' \in Dumps /\ file' \in Seq(SUBSET Class)
    BY <1>1 DEF CInv
  <1> QED BY <1>5, <1>6, <1>7, <1>8, <1>9, <1>10, <1>11 DEF CInv

-----------------------------------------------------------------------------
(* One turn of the loop.                                                   *)

\* The two ways to change a record.
LEMMA FInfoChanged ==
    ASSUME NEW r \in FInfo, NEW x \in Nat
    PROVE  /\ [r EXCEPT !.offset = x] \in FInfo /\ [r EXCEPT !.offset = x].named = r.named
           /\ [r EXCEPT !.named = TRUE] \in FInfo /\ [r EXCEPT !.named = TRUE].named
           /\ [r EXCEPT !.offset = x].ident = r.ident /\ [r EXCEPT !.offset = x].ftype = r.ftype
           /\ [r EXCEPT !.offset = x].offset = x
           /\ [r EXCEPT !.named = TRUE].ident = r.ident /\ [r EXCEPT !.named = TRUE].ftype = r.ftype
  BY DEF FInfo

\* A sequence with one element changed.
LEMMA ChangedSeq ==
    ASSUME NEW S, NEW s \in Seq(S), NEW k \in 1..Len(s), NEW e \in S
    PROVE  /\ [s EXCEPT ![k] = e] \in Seq(S) /\ Len([s EXCEPT ![k] = e]) = Len(s)
           /\ [s EXCEPT ![k] = e][k] = e
           /\ \A j \in 1..Len(s) : j # k => [s EXCEPT ![k] = e][j] = s[j]
  OBVIOUS

\* The fields of a dump are records.
LEMMA OwnInside ==
    ASSUME CInv, NEW c \in Class, Dumped(c)
    PROVE  Own(c) \subseteq 1..Len(finfo) /\ fields[c] \in Nat \ {0} /\ cfields[c] \in Nat
  <1>1. fields[c] + cfields[c] <= Len(finfo) + 1
    BY DEF CInv, Read
  <1>2. finfo \in Seq(FInfo) /\ fields[c] \in 0..(Len(finfo) + 1) /\ cfields[c] \in Nat
    BY DEF CInv, TypeOK
  <1>3. Len(finfo) \in Nat
    BY <1>2
  <1>4. fields[c] \in Nat \ {0}
    BY <1>2, <1>3 DEF Dumped
  <1> QED BY <1>1, <1>2, <1>3, <1>4 DEF Own

\* The field before the turn is at src; after it the class has the record at.
\* Inherited fields are new records, own ones the record of the dump, which gets a
\* name; the offset is where the frame stands.  No other record changes.
Placed(g, src, at) ==
    /\ src \in 1..Len(finfo) /\ src \in Own(g.cc) /\ Dumped(g.cc)
    /\ finfo' \in Seq(FInfo) /\ Len(finfo) <= Len(finfo') /\ at \in 1..Len(finfo')
    /\ \A j \in 1..Len(finfo) : j # at => finfo'[j] = finfo[j]
    /\ finfo'[at].ident = finfo[src].ident /\ finfo'[at].ftype = finfo[src].ftype
    /\ finfo'[at].offset = g.index
    /\ \/ g.cc = g.class /\ at = src /\ finfo'[at].named
       \/ g.cc # g.class /\ at = Len(finfo) + 1 /\ finfo'[at].named = finfo[src].named

\* The field of one turn, as Place has it, and what is stored.
FieldOf(g, src) == IF g.cc = g.class THEN ownField(finfo, src) ELSE copyField(finfo, src)

Stored(g, src) ==
    finfo' = [FieldOf(g, src).store EXCEPT ![FieldOf(g, src).at].offset = g.index]

\* What a turn does to the records.
LEMMA PlaceStores ==
    ASSUME CInv, NEW g \in Frame, g.fieldNo < cfields[g.cc], Dumped(g.cc),
           NEW src, src = fields[g.cc] + g.fieldNo, Stored(g, src)
    PROVE  Placed(g, src, FieldOf(g, src).at) /\ Width[finfo[src].ftype] \in Nat
  <1> DEFINE field == FieldOf(g, src)
  <1>1. /\ g.class \in Class /\ g.cc \in Class /\ g.fieldNo \in Nat /\ g.index \in Nat
    BY DEF Frame
  <1>2. /\ finfo \in Seq(FInfo) /\ cfields[g.cc] \in Nat /\ fields[g.cc] \in 0..(Len(finfo) + 1)
    BY <1>1 DEF CInv, TypeOK
  <1>3. Len(finfo) \in Nat
    BY <1>2
  <1>4. src \in 1..Len(finfo) /\ src \in Own(g.cc)
    <2>1. Own(g.cc) \subseteq 1..Len(finfo) /\ fields[g.cc] \in Nat
      BY <1>1, OwnInside
    <2>2. src \in Own(g.cc)
      BY <1>1, <1>2, <2>1 DEF Own
    <2> QED BY <2>1, <2>2
  <1>5. finfo[src] \in FInfo
    BY <1>2, <1>4, SeqElement, Zenon
  <1>6. Width[finfo[src].ftype] \in Nat
    <2>1. finfo[src].ftype \in FType
      BY <1>5 DEF FInfo
    <2> QED BY <2>1, WidthAssumption
  <1>7. CASE g.cc = g.class
    <2> DEFINE r == [finfo[src] EXCEPT !.named = TRUE]
               s == [finfo EXCEPT ![src] = r]
               q == [r EXCEPT !.offset = g.index]
    <2>1. field.store = s /\ field.at = src
      BY <1>7 DEF ownField, FieldOf
    <2>2. r \in FInfo /\ r.named /\ r.ident = finfo[src].ident /\ r.ftype = finfo[src].ftype
      BY <1>1, <1>5, FInfoChanged
    <2> HIDE DEF r
    <2>3. /\ s \in Seq(FInfo) /\ Len(s) = Len(finfo) /\ s[src] = r
          /\ \A j \in 1..Len(finfo) : j # src => s[j] = finfo[j]
      BY <1>2, <1>4, <2>2, ChangedSeq
    <2> HIDE DEF s
    <2>4. q \in FInfo /\ q.named /\ q.ident = r.ident /\ q.ftype = r.ftype /\ q.offset = g.index
      BY <1>1, <2>2, FInfoChanged
    <2>5. finfo' = [s EXCEPT ![src] = q]
      BY <2>1, <2>3 DEF Stored
    <2> HIDE DEF q
    <2>6. /\ finfo' \in Seq(FInfo) /\ Len(finfo') = Len(finfo) /\ finfo'[src] = q
          /\ \A j \in 1..Len(finfo) : j # src => finfo'[j] = s[j]
      BY <1>4, <2>3, <2>4, <2>5, ChangedSeq
    <2>7. Len(finfo) <= Len(finfo')
      BY <1>3, <2>6
    <2> QED BY <1>4, <1>6, <1>7, <2>1, <2>2, <2>3, <2>4, <2>6, <2>7 DEF Placed
  <1>8. CASE g.cc # g.class
    <2> DEFINE s == Append(finfo, finfo[src])
               n == Len(finfo) + 1
               q == [finfo[src] EXCEPT !.offset = g.index]
    <2>1. field.store = s /\ field.at = n
      BY <1>8 DEF copyField, FieldOf
    <2>2. s \in Seq(FInfo)
      BY <1>2, <1>5, AppendSeq
    <2>3. Len(s) = n /\ s[n] = finfo[src] /\ \A j \in 1..Len(finfo) : s[j] = finfo[j]
      BY <1>2, AppendIs
    <2>4. /\ q \in FInfo /\ q.named = finfo[src].named /\ q.ident = finfo[src].ident
          /\ q.ftype = finfo[src].ftype /\ q.offset = g.index
      BY <1>1, <1>5, FInfoChanged
    <2> HIDE DEF s
    <2>5. n \in 1..Len(s)
      BY <1>3, <2>3
    <2>6. finfo' = [s EXCEPT ![n] = q]
      BY <2>1, <2>3 DEF Stored
    <2>7. \A j \in 1..Len(finfo) : j # n /\ j \in 1..Len(s)
      BY <1>3, <2>3
    <2> HIDE DEF q, n
    <2>8. /\ finfo' \in Seq(FInfo) /\ Len(finfo') = Len(s) /\ finfo'[n] = q
          /\ \A j \in 1..Len(s) : j # n => finfo'[j] = s[j]
      BY <2>2, <2>4, <2>5, <2>6, ChangedSeq
    <2>9. Len(finfo) <= Len(finfo') /\ n \in 1..Len(finfo')
      BY <1>3, <2>3, <2>5, <2>8 DEF n
    <2>10. \A j \in 1..Len(finfo) : finfo'[j] = finfo[j]
      BY <2>3, <2>7, <2>8
    <2> QED BY <1>4, <1>6, <1>8, <2>1, <2>4, <2>8, <2>9, <2>10 DEF Placed, n
  <1> QED BY <1>7, <1>8

\* One turn, taken apart: from the level l the frame f climbs n classes to g, stores
\* the record at in a slot of values that was not set, and goes on as h.
Turn(f, M, l, n, g, h, at) ==
    /\ f = Top /\ g = Climbed(f, n) /\ n \in Levels /\ Climbs(f, n) /\ Counting(f, M, l)
    /\ h = [g EXCEPT !.i = @ + 1, !.fieldNo = @ + 1,
                     !.index = @ + Width[finfo[fields[g.cc] + g.fieldNo].ftype]]
    /\ Placed(g, fields[g.cc] + g.fieldNo, at)
    /\ values' = [values EXCEPT ![g.class][g.target + g.fieldNo + 1] = at]
    /\ stack' = <<h>> \o Tail(stack)
    /\ h \in Frame

\* The frame for the next field.
LEMMA NextFrame ==
    ASSUME NEW g \in Frame, NEW w \in Nat
    PROVE  [g EXCEPT !.i = @ + 1, !.fieldNo = @ + 1, !.index = @ + w] \in Frame
  <1> DEFINE h == [g EXCEPT !.i = @ + 1, !.fieldNo = @ + 1, !.index = @ + w]
  <1>1. g.fieldNo + 1 \in Nat /\ g.i + 1 \in Nat /\ g.index + w \in Nat
    BY DEF Frame
  <1>2. PICK j \in Nat : j = g.index + w
    BY <1>1
  <1>3. h = [g EXCEPT !.i = @ + 1, !.fieldNo = @ + 1, !.index = j]
    BY <1>2
  <1>4. h = [class |-> g.class, cc |-> g.cc, target |-> g.target, fieldNo |-> g.fieldNo + 1,
             i |-> g.i + 1, index |-> j]
    <2> HIDE DEF h
    <2> QED BY <1>3 DEF Frame
  <1> HIDE DEF h
  <1>5. h \in Frame
    BY <1>1, <1>4 DEF Frame
  <1> QED BY <1>5 DEF h

\* Place is such a turn.
LEMMA PlaceIs ==
    ASSUME CInv, Place
    PROVE  \E f, M, l, n, g, h, at : Turn(f, M, l, n, g, h, at)
  <1>1. pc = "loop" /\ Top.i < tfields[Top.class]
    BY DEF Place
  <1>2. PICK M \in Levels, l \in Levels : Counting(Top, M, l)
    BY <1>1, TopCounts
  <1>3. PICK n \in Levels :
          /\ Climbs(Top, n)
          /\ LET f     == Climbed(Top, n)
                 src   == fields[f.cc] + f.fieldNo
                 field == IF f.cc = f.class THEN ownField(finfo, src)
                                            ELSE copyField(finfo, src)
             IN  /\ Dumped(f.cc)
                 /\ values' = [values EXCEPT ![f.class][f.target + f.fieldNo + 1] = field.at]
                 /\ finfo' = [field.store EXCEPT ![field.at].offset = f.index]
                 /\ stack' = <<[f EXCEPT !.i = @ + 1, !.fieldNo = @ + 1,
                                         !.index = @ + Width[finfo[src].ftype]]>>
                             \o Tail(stack)
    BY DEF Place
  <1> DEFINE g == Climbed(Top, n)
             src == fields[g.cc] + g.fieldNo
             at == FieldOf(g, src).at
             h == [g EXCEPT !.i = @ + 1, !.fieldNo = @ + 1, !.index = @ + Width[finfo[src].ftype]]
  <1>4. /\ Dumped(g.cc) /\ Stored(g, src)
        /\ values' = [values EXCEPT ![g.class][g.target + g.fieldNo + 1] = at]
        /\ stack' = <<h>> \o Tail(stack)
    BY <1>3 DEF Stored, FieldOf
  <1>5. g \in Frame /\ g.fieldNo < cfields[g.cc]
    BY <1>1, <1>2, <1>3, ClimbedLevel
  <1> HIDE DEF g
  <1>6. Placed(g, src, at) /\ Width[finfo[src].ftype] \in Nat
    BY <1>4, <1>5, PlaceStores
  <1>7. h \in Frame
    <2>1. PICK w \in Nat : w = Width[finfo[src].ftype]
      BY <1>6
    <2> HIDE DEF src
    <2> QED BY <1>5, <2>1, NextFrame
  <1>8. Turn(Top, M, l, n, g, h, at)
    BY <1>2, <1>3, <1>4, <1>6, <1>7 DEF Turn, g
  <1> QED BY <1>8

\* What h has of g.
LEMMA TurnFrame ==
    ASSUME NEW f, NEW M, NEW l, NEW n, NEW g, NEW h, NEW at, Turn(f, M, l, n, g, h, at),
           g \in Frame
    PROVE  /\ h.class = g.class /\ h.cc = g.cc /\ h.target = g.target
           /\ h.fieldNo = g.fieldNo + 1 /\ h.i = g.i + 1
           /\ h.index = g.index + Width[finfo[fields[g.cc] + g.fieldNo].ftype]
  <1>1. PICK w : w = g.index + Width[finfo[fields[g.cc] + g.fieldNo].ftype]
    OBVIOUS
  <1>2. h = [g EXCEPT !.i = @ + 1, !.fieldNo = @ + 1, !.index = w]
    BY <1>1 DEF Turn
  <1>3. h = [class |-> g.class, cc |-> g.cc, target |-> g.target, fieldNo |-> g.fieldNo + 1,
             i |-> g.i + 1, index |-> w]
    BY <1>2 DEF Frame
  <1> QED BY <1>1, <1>3

\* What a turn does to values: one slot that was not set gets the record at, which
\* is in no other class' dump.
LEMMA TurnValues ==
    ASSUME CInv, pc = "loop", Top.i < tfields[Top.class],
           NEW f, NEW M, NEW l, NEW n, NEW g, NEW h, NEW at, Turn(f, M, l, n, g, h, at),
           NEW slot, slot = g.target + g.fieldNo + 1
    PROVE  /\ g \in Frame /\ g.class = f.class /\ g.class \in Class /\ ~resolved[g.class]
           /\ slot \in 1..tfields[g.class] /\ DOMAIN values[g.class] = 1..tfields[g.class]
           /\ DOMAIN values' = Class
           /\ values'[g.class] \in Seq(0..Len(finfo')) /\ DOMAIN values'[g.class] = 1..tfields[g.class]
           /\ values'[g.class][slot] = at
           /\ \A k \in 1..tfields[g.class] : k # slot => values'[g.class][k] = values[g.class][k]
           /\ \A d \in Class : d # g.class => values'[d] = values[d]
  <1> DEFINE c == g.class
             v == values[c]
  <1>1. f = Top /\ g = Climbed(f, n) /\ n \in Levels /\ Climbs(f, n) /\ Counting(f, M, l)
        /\ Placed(g, fields[g.cc] + g.fieldNo, at)
    BY DEF Turn
  <1>2. /\ g \in Frame /\ g.class = f.class /\ g.target >= 0 /\ slot <= tfields[f.class]
    BY <1>1, ClimbedLevel
  <1>3. c \in Class /\ g.fieldNo \in Nat /\ g.target \in Int
    BY <1>2 DEF Frame
  <1>4. f = stack[1] /\ stack # <<>> /\ Looping(f)
    BY <1>1, TopCounts DEF CInv, Calls
  <1>5. ~resolved[c]
    <2>1. 1 \in 1..Len(stack)
      BY <1>4, StackRoot
    <2> QED BY <1>2, <1>4, <2>1 DEF CInv, Climbing
  <1>6. DOMAIN v = 1..tfields[c] /\ tfields[c] \in Nat
    BY <1>2, <1>3, <1>4 DEF Looping, CInv, TypeOK
  <1>7. slot \in 1..tfields[c]
    <2>1. slot >= 1 /\ slot \in Int
      BY <1>2, <1>3
    <2> QED BY <1>2, <1>6, <2>1
  <1>8. /\ finfo' \in Seq(FInfo) /\ Len(finfo) <= Len(finfo') /\ at \in 1..Len(finfo')
    BY <1>1 DEF Placed
  <1>9. Len(finfo') \in Nat
    BY <1>8
  <1>10. values \in [Class -> Seq(0..Len(finfo'))]
    BY <1>8, <1>9, ValuesWider
  <1>11. at \in 0..Len(finfo')
    BY <1>8, <1>9
  <1>12. v \in Seq(0..Len(finfo'))
    BY <1>3, <1>10
  <1>13. slot \in 1..Len(v)
    BY <1>6, <1>7, <1>12
  <1> DEFINE w == [v EXCEPT ![slot] = at]
  <1>14. values' = [values EXCEPT ![c] = w]
    BY DEF Turn
  <1>15. /\ w \in Seq(0..Len(finfo')) /\ Len(w) = Len(v) /\ w[slot] = at
         /\ \A j \in 1..Len(v) : j # slot => w[j] = v[j]
    <2> HIDE DEF v, c
    <2> QED BY <1>11, <1>12, <1>13, ChangedSeq
  <1>16. 1..Len(v) = 1..tfields[c] /\ DOMAIN w = 1..Len(w)
    BY <1>6, <1>12, <1>15
  <1>17. values'[c] = w /\ DOMAIN values' = Class /\ \A d \in Class : d # c => values'[d] = values[d]
    <2> HIDE DEF w, v, c
    <2> QED BY <1>3, <1>10, <1>14
  <1> HIDE DEF w
  <1> QED BY <1>2, <1>3, <1>5, <1>6, <1>7, <1>15, <1>16, <1>17

\* The record stored is a field of the class itself or a new record, and so in no
\* other class' dump.
LEMMA TurnPrivate ==
    ASSUME CInv, NEW g \in Frame, NEW src, NEW at, Placed(g, src, at),
           NEW d \in Class, d # g.class, Dumped(d)
    PROVE  at \notin Own(d)
  <1>1. g.class \in Class /\ g.cc \in Class
    BY DEF Frame
  <1>2. CASE g.cc = g.class
    <2>1. at \in Own(g.class) /\ Dumped(g.class)
      BY <1>2 DEF Placed
    <2>2. Own(g.class) \cap Own(d) = {}
      BY <1>1, <2>1 DEF CInv, Read
    <2> QED BY <2>1, <2>2
  <1>3. CASE g.cc # g.class
    <2>1. at = Len(finfo) + 1
      BY <1>3 DEF Placed
    <2>2. fields[d] + cfields[d] <= Len(finfo) + 1
      BY DEF CInv, Read
    <2>3. Len(finfo) \in Nat /\ fields[d] \in Nat /\ cfields[d] \in Nat
      <3>1. finfo \in Seq(FInfo) /\ fields[d] \in 0..(Len(finfo) + 1) /\ cfields[d] \in Nat
        BY DEF CInv, TypeOK
      <3> QED BY <3>1
    <2> QED BY <2>1, <2>2, <2>3 DEF Own
  <1> QED BY <1>2, <1>3

\* After the turn the frame is where AtLevel says, at the same class.
LEMMA TurnLevel ==
    ASSUME CInv, NEW g \in Frame, NEW h, NEW k \in Levels, AtLevel(g, k), g.fieldNo < cfields[g.cc],
           h.class = g.class, h.cc = g.cc, h.target = g.target,
           h.fieldNo = g.fieldNo + 1, h.i = g.i + 1
    PROVE  AtLevel(h, k)
  <1>1. g.fieldNo \in Nat /\ cfields[g.cc] \in Nat /\ g.class \in Nat
    BY ClassNat DEF Frame, CInv, TypeOK
  <1>2. h.fieldNo <= cfields[h.cc]
    BY <1>1
  <1>3. FieldSum(g.class)[k] \in Nat
    BY <1>1, LevelsAre, SumIs DEF CInv, TypeOK
  <1>4. h.i = FieldSum(h.class)[k] + h.fieldNo
    BY <1>1, <1>3 DEF AtLevel
  <1> QED BY <1>2, <1>4 DEF AtLevel

\* The slots that are not set after the turn.
LEMMA TurnSlots ==
    ASSUME NEW ft \in Int, NEW gt \in Int, NEW fn \in Nat, NEW gn \in Nat, NEW fc \in Nat,
           NEW gc \in Nat, NEW k \in Nat, gn < gc,
           (ft = gt /\ fn = gn /\ fc = gc) \/ (gn = 0 /\ gt + gc = ft /\ fn = fc),
           NEW U \in BOOLEAN, U <=> (k <= ft \/ (ft + fn < k /\ k <= ft + fc)),
           k # gt + gn + 1
    PROVE  U <=> (k <= gt \/ (gt + (gn + 1) < k /\ k <= gt + gc))
  OBVIOUS

\* The frame counts on in its loop.
LEMMA TurnLoops ==
    ASSUME CInv, pc = "loop", Top.i < tfields[Top.class],
           UNCHANGED <<superId, cfields, tfields>>,
           NEW f, NEW M, NEW l, NEW n, NEW g, NEW h, NEW at, Turn(f, M, l, n, g, h, at),
           stack'[1] = h
    PROVE  Looping(stack[1])'
  <1> DEFINE c == g.class
             slot == g.target + g.fieldNo + 1
  <1>1. f = Top /\ g = Climbed(f, n) /\ n \in Levels /\ Climbs(f, n) /\ Counting(f, M, l)
        /\ Placed(g, fields[g.cc] + g.fieldNo, at)
    BY DEF Turn
  <1>2. /\ l + n \in Levels /\ AtLevel(g, l + n) /\ g \in Frame /\ g.class = f.class
        /\ g.fieldNo < cfields[g.cc] /\ cfields[g.cc] \in Nat
        /\ n = 0 => g = f
        /\ n # 0 => g.fieldNo = 0 /\ g.target + cfields[g.cc] = f.target
                    /\ f.fieldNo = cfields[f.cc]
    BY <1>1, ClimbedLevel
  <1>3. /\ h.class = g.class /\ h.cc = g.cc /\ h.target = g.target
        /\ h.fieldNo = g.fieldNo + 1 /\ h.i = g.i + 1
    BY <1>2, TurnFrame
  <1>4. AtLevel(h, l + n)
    BY <1>2, <1>3, TurnLevel
  <1>5. Looping(f) /\ Len(finfo') \in Nat /\ at # 0
    BY <1>1, TopCounts DEF CInv, Calls, Placed
  <1>6. /\ DOMAIN values'[c] = 1..tfields[c] /\ values'[c][slot] = at
        /\ \A k \in 1..tfields[c] : k # slot => values'[c][k] = values[c][k]
    <2> HIDE DEF c
    <2> QED BY TurnValues DEF c
  <1>7. /\ c \in Class /\ f.target \in Int /\ g.target \in Int /\ f.fieldNo \in Nat
        /\ g.fieldNo \in Nat /\ cfields[f.cc] \in Nat /\ tfields[c] \in Nat
    BY <1>1, <1>2 DEF Frame, Counting, CInv, TypeOK
  <1>8. tfields[c] = resolveSClassSize(c)
    BY <1>2, <1>5 DEF Looping
  <1>9. ASSUME NEW k \in 1..tfields[c]
        PROVE  values'[c][k] = Unset <=>
                  k <= g.target \/ (g.target + (g.fieldNo + 1) < k /\ k <= g.target + cfields[g.cc])
    <2>1. CASE k = slot
      <3>1. values'[c][k] # Unset
        BY <1>5, <1>6, <2>1 DEF Unset
      <3> QED BY <1>7, <2>1, <3>1
    <2>2. CASE k # slot
      <3>1. values'[c][k] = values[c][k]
        BY <1>6, <2>2
      <3>2. values[c][k] = Unset <=>
               k <= f.target \/ (f.target + f.fieldNo < k /\ k <= f.target + cfields[f.cc])
        BY <1>2, <1>5 DEF Looping
      <3>3. (f.target = g.target /\ f.fieldNo = g.fieldNo /\ cfields[f.cc] = cfields[g.cc])
            \/ (g.fieldNo = 0 /\ g.target + cfields[g.cc] = f.target /\ f.fieldNo = cfields[f.cc])
        BY <1>2
      <3>4. PICK U \in BOOLEAN : U <=> values[c][k] = Unset
        OBVIOUS
      <3>5. k \in Nat /\ k # g.target + g.fieldNo + 1
        BY <1>7, <2>2
      <3>6. U <=> (k <= f.target \/ (f.target + f.fieldNo < k /\ k <= f.target + cfields[f.cc]))
        BY <3>2, <3>4
      <3>7. U <=> (k <= g.target \/ (g.target + (g.fieldNo + 1) < k /\ k <= g.target + cfields[g.cc]))
        BY <1>2, <1>7, <3>3, <3>5, <3>6, TurnSlots
      <3> QED BY <3>1, <3>4, <3>7
    <2> QED BY <2>1, <2>2
  <1>10. /\ \A d : Up(d)' = Up(d) /\ FieldSum(d)' = FieldSum(d)
         /\ \A d : resolveSClassSize(d)' = resolveSClassSize(d) /\ Levels' = Levels
    BY SameClasses DEF Levels
  <1>11. AtLevel(stack[1], l + n)'
    BY <1>4, <1>10 DEF AtLevel
  <1>12. (\E k \in Levels : AtLevel(stack[1], k))'
    BY <1>2, <1>10, <1>11
  <1> QED BY <1>3, <1>6, <1>8, <1>9, <1>10, <1>12 DEF Looping, Unset

\* One turn of the loop keeps the invariant.
LEMMA PlaceKeeps ==
    ASSUME CInv, Place
    PROVE  CInv'
  <1>1. PICK f, M, l, n, g, h, at : Turn(f, M, l, n, g, h, at)
    BY PlaceIs
  <1>2. /\ pc = "loop" /\ pc' = "loop" /\ Top.i < tfields[Top.class]
        /\ UNCHANGED <<dump, file, left, superId, cfields, tfields, size, resolved, fields,
                       arg, known, reread>>
    BY DEF Place, input
  <1> DEFINE c == g.class
             slot == g.target + g.fieldNo + 1
  <1>3. /\ g \in Frame /\ c = f.class /\ c \in Class /\ ~resolved[c]
        /\ DOMAIN values[c] = 1..tfields[c] /\ DOMAIN values' = Class
        /\ values'[c] \in Seq(0..Len(finfo')) /\ DOMAIN values'[c] = 1..tfields[c]
        /\ values'[c][slot] = at
        /\ \A k \in 1..tfields[c] : k # slot => values'[c][k] = values[c][k]
        /\ \A d \in Class : d # c => values'[d] = values[d]
    BY <1>1, <1>2, TurnValues
  <1>4. /\ f = Top /\ h \in Frame /\ stack' = <<h>> \o Tail(stack)
        /\ Placed(g, fields[g.cc] + g.fieldNo, at)
    BY <1>1 DEF Turn
  <1>5. h.class = c
    BY <1>1, <1>3, TurnFrame
  <1>6. /\ finfo \in Seq(FInfo) /\ stack \in Seq(Frame) /\ values \in [Class -> Seq(0..Len(finfo))]
        /\ fields \in [Class -> 0..(Len(finfo) + 1)] /\ cfields \in [Class -> Nat]
    BY DEF CInv, TypeOK
  <1>7. /\ finfo' \in Seq(FInfo) /\ Len(finfo) <= Len(finfo') /\ at \in 1..Len(finfo')
    BY <1>4 DEF Placed
  <1>8. Len(finfo) \in Nat /\ Len(finfo') \in Nat
    BY <1>6, <1>7
  <1>9. stack # <<>> /\ Top = stack[1]
    BY <1>2, TopCounts
  <1>10. /\ stack' \in Seq(Frame) /\ Len(stack') = Len(stack) /\ stack'[1] = h
         /\ \A k \in 2..Len(stack) : stack'[k] = stack[k]
    BY <1>4, <1>6, <1>9, SetTopSeq
  <1>11. TypeOK'
    <2>1. values' \in [Class -> Seq(0..Len(finfo'))]
      <3>1. values \in [Class -> Seq(0..Len(finfo'))]
        BY <1>7, <1>8, ValuesWider
      <3>2. \A d \in Class : values'[d] \in Seq(0..Len(finfo'))
        <4> HIDE DEF c
        <4> QED BY <1>3, <3>1
      <3>3. values' = [d \in Class |-> values'[d]]
        <4>1. c \in Class
          BY <1>3
        <4>2. values' = [values EXCEPT ![c] = [values[c] EXCEPT ![slot] = at]]
          BY <1>1 DEF Turn
        <4> HIDE DEF c, slot
        <4> QED BY <1>6, <4>1, <4>2
      <3> QED BY <3>2, <3>3
    <2>2. fields' \in [Class -> 0..(Len(finfo') + 1)]
      <3>1. 0..(Len(finfo) + 1) \subseteq 0..(Len(finfo') + 1)
        BY <1>7, <1>8
      <3> QED BY <1>2, <1>6, <3>1
    <2> QED BY <1>2, <1>7, <1>10, <2>1, <2>2 DEF CInv, TypeOK
  <1>12. \A d : (Dumped(d)' <=> Dumped(d)) /\ Own(d)' = Own(d)
    BY <1>2 DEF Dumped, Own
  <1>13. Read'
    <2>1. \A d \in Class : fields[d] + cfields[d] <= Len(finfo) + 1 => fields[d] + cfields[d] <= Len(finfo') + 1
      <3>1. \A d \in Class : fields[d] \in Nat /\ cfields[d] \in Nat
        BY <1>6, <1>8
      <3> QED BY <1>7, <1>8, <3>1
    <2> QED BY <1>2, <1>12, <2>1 DEF CInv, Read
  <1>14. Private'
    <2> SUFFICES ASSUME NEW d \in Class, NEW k \in DOMAIN values'[d], values'[d][k] # Unset,
                        NEW e \in Class \ {d}, Dumped(e)
                 PROVE  values'[d][k] \notin Own(e)
      BY <1>12 DEF Private, Unset
    <2>1. CASE d = c /\ k = slot
      <3>1. values'[d][k] = at
        BY <1>3, <2>1
      <3> QED BY <1>3, <1>4, <2>1, <3>1, TurnPrivate
    <2>2. CASE d = c /\ k # slot
      <3>1. k \in DOMAIN values[d] /\ values'[d][k] = values[d][k]
        BY <1>3, <2>2
      <3> QED BY <3>1 DEF CInv, Private
    <2>3. CASE d # c
      <3>1. values'[d] = values[d]
        BY <1>3, <2>3
      <3> QED BY <3>1 DEF CInv, Private
    <2> QED BY <2>1, <2>2, <2>3
  <1>15. Filled'
    <2>1. \A d \in Class : resolved[d] => d # c
      BY <1>3
    <2> QED BY <1>2, <1>3, <2>1 DEF CInv, Filled, Unset
  <1>16. \A k \in 1..Len(stack) : stack'[k].class = stack[k].class
    <2>1. \A k \in 1..Len(stack) : k = 1 \/ k \in 2..Len(stack)
      BY <1>6
    <2>2. stack'[1].class = stack[1].class
      BY <1>3, <1>4, <1>5, <1>9, <1>10
    <2> QED BY <1>10, <2>1, <2>2
  <1>17. Climbing'
    <2>1. Outer' = Outer /\ Levels' = Levels
      <3>1. Len(stack) \in 1..Len(stack) /\ stack' # <<>>
        BY <1>6, <1>9, <1>10
      <3> QED BY <1>9, <1>10, <1>16, <3>1 DEF Outer, Levels
    <2>2. /\ \A d : Up(d)' = Up(d)
          /\ \A d, m : RootAt(d, m)' <=> RootAt(d, m)
      BY <1>2, SameClasses
    <2> QED BY <1>2, <1>9, <1>10, <1>16, <2>1, <2>2 DEF CInv, Climbing
  <1>18. Calls'
    <2>1. Looping(stack[1])'
      BY <1>1, <1>2, <1>10, TurnLoops
    <2>2. \A x : Fresh(x)' <=> Fresh(x)
      BY <1>2, SameClasses DEF Fresh
    <2>3. \A k \in 2..Len(stack') : Fresh(stack'[k])
      BY <1>2, <1>10 DEF CInv, Calls
    <2>4. \A k \in 2..Len(stack') : Fresh(stack[k])'
      BY <2>2, <2>3
    <2> QED BY <1>2, <2>1, <2>4 DEF Calls
  <1>19. Control' /\ SegvOnlyUndumped'
    <2>1. stack' # <<>>
      BY <1>6, <1>9, <1>10
    <2> QED BY <1>2, <2>1 DEF Control, SegvOnlyUndumped
  <1>20. dump' \in Dumps /\ file' \in Seq(SUBSET Class)
    BY <1>2 DEF CInv
  <1> QED BY <1>11, <1>13, <1>14, <1>15, <1>17, <1>18, <1>19, <1>20 DEF CInv

-----------------------------------------------------------------------------
(* The invariant and what follows from it.                                 *)

\* Before anything is read.
LEMMA InitKeeps ==
    ASSUME Init
    PROVE  CInv
  <1>1. PICK g \in Garbage : superId = [c \in Class |-> g.super] /\ cfields = [c \in Class |-> g.cfields]
    BY DEF Init
  <1>2. g.super \in Nat /\ g.cfields \in Nat
    BY GarbageAssumption
  <1>3. superId \in [Class -> Nat] /\ cfields \in [Class -> Nat]
    BY <1>1, <1>2
  <1>4. finfo = <<>> /\ Len(finfo) = 0 /\ finfo \in Seq(FInfo) /\ stack = <<>> /\ stack \in Seq(Frame)
    BY DEF Init
  <1>5. values \in [Class -> Seq(0..Len(finfo))]
    <2>1. <<>> \in Seq(0..0)
      OBVIOUS
    <2> QED BY <1>4, <2>1 DEF Init
  <1>6. fields \in [Class -> 0..(Len(finfo) + 1)]
    <2>1. 0 \in 0..(Len(finfo) + 1)
      BY <1>4
    <2> QED BY <2>1 DEF Init
  <1>7. TypeOK
    BY <1>3, <1>4, <1>5, <1>6 DEF Init, TypeOK
  <1>8. Control /\ Climbing /\ SegvOnlyUndumped
    BY DEF Init, Control, Climbing, SegvOnlyUndumped
  <1>9. \A c \in Class : ~Dumped(c) /\ ~resolved[c] /\ values[c] = <<>>
    BY DEF Init, Dumped
  <1>10. Read /\ Filled
    BY <1>9 DEF Read, Filled
  <1>11. Private
    BY <1>9 DEF Private
  <1>12. Calls
    BY DEF Init, Calls
  <1>13. dump \in Dumps /\ file \in Seq(SUBSET Class)
    BY FilesAssumption DEF Init
  <1> QED BY <1>7, <1>8, <1>10, <1>11, <1>12, <1>13 DEF CInv

\* Every step keeps the invariant.
LEMMA NextKeeps ==
    ASSUME CInv, [Next]_vars
    PROVE  CInv'
  <1>1. CASE NextRecord
    BY <1>1, NextRecordKeeps
  <1>2. CASE StartResolving \/ DriveEnd \/ (\E c \in Class : Drive(c)) \/ ReturnToDriver
    BY <1>2, DriverKeeps
  <1>3. CASE \E c \in Class : ReadClass(c)
    BY <1>3, ReadClassKeeps
  <1>4. CASE CallResolved
    BY <1>4, CallResolvedKeeps
  <1>5. CASE Enter
    BY <1>5, EnterKeeps
  <1>6. CASE EnterSegv
    BY <1>6, EnterSegvKeeps
  <1>7. CASE Begin
    BY <1>7, BeginKeeps
  <1>8. CASE Place
    BY <1>8, PlaceKeeps
  <1>9. CASE PlaceSegv
    BY <1>9, PlaceSegvKeeps
  <1>10. CASE Finish
    BY <1>10, FinishKeeps
  <1>11. CASE Terminated \/ UNCHANGED vars
    BY <1>11, StutterKeeps DEF Terminated
  <1> QED BY <1>1, <1>2, <1>3, <1>4, <1>5, <1>6, <1>7, <1>8, <1>9, <1>10, <1>11 DEF Next

\* The class layouts and the calls of resolveClassNode are always as CInv says:
\* readClass, resolveSClassSize and the loop keep it, whatever the classes, their
\* fields and the order in which dumps and objects arrive.
THEOREM LayoutInvariance == Spec => []CInv
  <1>1. Init => CInv
    BY InitKeeps
  <1>2. CInv /\ [Next]_vars => CInv'
    BY NextKeeps
  <1> QED BY <1>1, <1>2, PTL DEF Spec

\* The slot of the next field is free.
LEMMA SlotFree ==
    ASSUME CInv
    PROVE  SlotInside
  <1> SUFFICES ASSUME pc = "loop", Top.i < tfields[Top.class], NEW n \in Levels, Climbs(Top, n),
                      NEW g, g = Climbed(Top, n), NEW k, k = g.target + g.fieldNo + 1
               PROVE  k \in DOMAIN values[g.class] /\ values[g.class][k] = Unset
    BY DEF SlotInside
  <1> DEFINE f == Top
  <1>1. PICK M \in Levels, l \in Levels : Counting(f, M, l)
    BY TopCounts
  <1>2. /\ g \in Frame /\ g.class = f.class /\ g.fieldNo < cfields[g.cc] /\ cfields[g.cc] \in Nat
        /\ g.target >= 0 /\ k <= tfields[f.class]
        /\ n = 0 => g = f
        /\ n # 0 => g.fieldNo = 0 /\ g.target + cfields[g.cc] = f.target
                    /\ f.fieldNo = cfields[f.cc]
    BY <1>1, ClimbedLevel
  <1>3. Looping(f) /\ f \in Frame
    BY TopCounts DEF CInv, Calls
  <1>4. tfields[f.class] \in Nat /\ f.target \in Int /\ f.fieldNo \in Nat
    BY <1>3 DEF Frame, CInv, TypeOK
  <1>5. g.target \in Int /\ g.fieldNo \in Nat
    BY <1>2 DEF Frame
  <1> HIDE DEF f
  <1>6. k \in 1..tfields[f.class]
    BY <1>2, <1>4, <1>5
  <1>7. k <= f.target \/ (f.target + f.fieldNo < k /\ k <= f.target + cfields[f.cc])
    BY <1>2, <1>4, <1>5
  <1> QED BY <1>2, <1>3, <1>6, <1>7 DEF Looping

\* WithinMemory: resolveClassNode stays within the memory it has.  Every field it
\* places has a free slot of the array that tfields sized, and only a superclass
\* whose dump was not read makes it follow a pointer that is not there.
THEOREM StaysWithinMemory == Spec => []WithinMemory
  <1>1. CInv => WithinMemory
    BY SlotFree DEF CInv, WithinMemory
  <1> QED BY <1>1, LayoutInvariance, PTL

\* A class keeps its layout in a step.
Keeps(c) ==
    /\ values'[c] = values[c] /\ tfields'[c] = tfields[c] /\ resolved'[c]
    /\ \A k \in DOMAIN values[c] : finfo'[values[c][k]] = finfo[values[c][k]]

\* Every record of a resolved class is there.
LEMMA ResolvedRecords ==
    ASSUME CInv, NEW c \in Class, resolved[c], NEW k \in DOMAIN values[c]
    PROVE  values[c][k] \in 1..Len(finfo)
  <1>1. values[c] \in Seq(0..Len(finfo)) /\ finfo \in Seq(FInfo)
    BY DEF CInv, TypeOK
  <1>2. k \in 1..Len(values[c])
    BY <1>1
  <1>3. values[c][k] \in 0..Len(finfo)
    BY <1>1, <1>2, SeqElement, Zenon
  <1>4. values[c][k] # 0
    BY DEF CInv, Filled, Unset
  <1> QED BY <1>1, <1>3, <1>4

\* readClass adds the records of the dump and changes none.
LEMMA ReadClassAdds ==
    ASSUME CInv, NEW d \in Class, ReadClass(d)
    PROVE  /\ \A i \in 1..Len(finfo) : finfo'[i] = finfo[i]
           /\ \A k \in 1..Len(dump.fields[d]) :
                 /\ finfo'[Len(finfo) + k].ident = <<d, k>>
                 /\ finfo'[Len(finfo) + k].ftype = dump.fields[d][k]
  <1> DEFINE new == [k \in 1..Len(dump.fields[d]) |->
                       [ident |-> <<d, k>>, ftype |-> dump.fields[d][k],
                        named |-> FALSE, offset |-> 0]]
  <1>1. finfo' = finfo \o new
    BY DEF ReadClass
  <1>2. finfo \in Seq(FInfo) /\ dump.fields[d] \in Seq(FType)
    BY DumpsAssumption DEF CInv, TypeOK
  <1>3. Len(dump.fields[d]) \in Nat /\ Len(finfo) \in Nat
    BY <1>2
  <1>4. /\ new \in Seq({new[k] : k \in 1..Len(dump.fields[d])}) /\ Len(new) = Len(dump.fields[d])
    <2>1. new \in [1..Len(dump.fields[d]) -> {new[k] : k \in 1..Len(dump.fields[d])}]
      OBVIOUS
    <2> HIDE DEF new
    <2> QED BY <1>3, <2>1, FunctionSeq
  <1>5. \A k \in 1..Len(dump.fields[d]) : new[k].ident = <<d, k>> /\ new[k].ftype = dump.fields[d][k]
    OBVIOUS
  <1> HIDE DEF new
  <1> QED
    <2> DEFINE S == {new[k] : k \in 1..Len(dump.fields[d])} \cup FInfo
    <2>1. finfo \in Seq(S) /\ new \in Seq(S)
      BY <1>2, <1>4
    <2> HIDE DEF S
    <2>2. /\ Len(finfo \o new) = Len(finfo) + Len(new) /\ Len(new) \in Nat
          /\ \A i \in 1..Len(finfo \o new) :
                (finfo \o new)[i] = IF i <= Len(finfo) THEN finfo[i] ELSE new[i - Len(finfo)]
      BY <2>1, ConcatSeq
    <2>3. \A i \in 1..Len(finfo) : i \in 1..Len(finfo \o new) /\ i <= Len(finfo)
      BY <1>3, <2>2
    <2>4. \A i \in 1..Len(finfo) : finfo'[i] = finfo[i]
      BY <1>1, <2>2, <2>3
    <2>5. ASSUME NEW k \in 1..Len(dump.fields[d]) PROVE finfo'[Len(finfo) + k] = new[k]
      <3>1. PICK i \in Nat : i = Len(finfo) + k /\ i \in 1..Len(finfo \o new) /\ ~(i <= Len(finfo))
                             /\ i - Len(finfo) = k
        <4>1. PICK a \in Nat, b \in Nat : a = Len(finfo) /\ b = Len(dump.fields[d])
          BY <1>3
        <4>2. Len(finfo \o new) = a + b
          BY <1>4, <2>2, <4>1
        <4>3. k \in 1..b
          BY <4>1
        <4>4. a + k \in Nat /\ a + k \in 1..(a + b) /\ ~(a + k <= a) /\ (a + k) - a = k
          BY <4>3
        <4> QED BY <4>1, <4>2, <4>4
      <3>2. (finfo \o new)[i] = new[i - Len(finfo)]
        BY <2>2, <3>1
      <3> QED BY <1>1, <3>1, <3>2
    <2> QED BY <1>5, <2>4, <2>5

\* A resolved class has records that were there before.
LEMMA ReadClassKeepsLayout ==
    ASSUME CInv, NEW d \in Class, ReadClass(d), NEW c \in Class, resolved[c]
    PROVE  Keeps(c)
  <1>1. UNCHANGED <<values, tfields, resolved>>
    BY DEF ReadClass
  <1> QED BY <1>1, ReadClassAdds, ResolvedRecords DEF Keeps

\* A turn of the loop changes one record, and no resolved class has it.
LEMMA PlaceKeepsLayout ==
    ASSUME CInv, Place, NEW c \in Class, resolved[c]
    PROVE  Keeps(c)
  <1>1. PICK f, M, l, n, g, h, at : Turn(f, M, l, n, g, h, at)
    BY PlaceIs
  <1>2. /\ pc = "loop" /\ Top.i < tfields[Top.class] /\ UNCHANGED <<tfields, resolved>>
    BY DEF Place
  <1>3. g \in Frame /\ g.class \in Class /\ c # g.class /\ values'[c] = values[c]
    BY <1>1, <1>2, TurnValues
  <1>4. Placed(g, fields[g.cc] + g.fieldNo, at)
    BY <1>1 DEF Turn
  <1>5. ASSUME NEW k \in DOMAIN values[c]
        PROVE  finfo'[values[c][k]] = finfo[values[c][k]]
    <2>1. values[c][k] \in 1..Len(finfo) /\ values[c][k] # Unset
      BY ResolvedRecords DEF Unset
    <2>2. values[c][k] # at
      <3>1. CASE g.cc = g.class
        <4>1. at \in Own(g.class) /\ Dumped(g.class)
          BY <1>4, <3>1 DEF Placed
        <4>2. values[c][k] \notin Own(g.class)
          BY <1>3, <2>1, <4>1 DEF CInv, Private
        <4> QED BY <4>1, <4>2
      <3>2. CASE g.cc # g.class
        <4>1. at = Len(finfo) + 1 /\ finfo \in Seq(FInfo)
          BY <1>4, <3>2 DEF Placed, CInv, TypeOK
        <4> QED BY <2>1, <4>1
      <3> QED BY <3>1, <3>2
    <2> QED BY <1>4, <2>1, <2>2 DEF Placed
  <1> QED BY <1>2, <1>3, <1>5 DEF Keeps

\* Only calls for classes that are not resolved write to a class.
LEMMA CallsKeepLayout ==
    ASSUME CInv, Enter \/ Begin \/ Finish, NEW c \in Class, resolved[c]
    PROVE  Keeps(c)
  <1>1. finfo' = finfo
    BY DEF Enter, Begin, Finish
  <1>2. /\ tfields \in [Class -> Nat] /\ values \in [Class -> Seq(0..Len(finfo))]
        /\ resolved \in [Class -> BOOLEAN] /\ stack \in Seq(Frame)
    BY DEF CInv, TypeOK
  <1>3. CASE Enter
    <2>1. c # arg
      BY <1>3 DEF Enter
    <2>2. UNCHANGED <<values, resolved>> /\ \E t : tfields' = [tfields EXCEPT ![arg] = t]
      BY <1>3 DEF Enter
    <2> QED BY <1>1, <1>2, <2>1, <2>2 DEF Keeps
  <1>4. ASSUME stack # <<>> PROVE Top.class \in Class /\ c # Top.class
    <2>1. Top = stack[1] /\ 1 \in 1..Len(stack)
      BY <1>2, <1>4, PopSeq DEF Top
    <2> QED BY <1>4, <2>1, StackRoot DEF CInv, Climbing
  <1>5. CASE Begin
    <2>1. stack # <<>> /\ UNCHANGED <<tfields, resolved>>
          /\ \E v : values' = [values EXCEPT ![Top.class] = v]
      BY <1>5 DEF Begin
    <2> QED BY <1>1, <1>2, <1>4, <2>1 DEF Keeps
  <1>6. CASE Finish
    <2>1. stack # <<>>
      BY <1>6 DEF Finish, CInv, Control
    <2>2. UNCHANGED <<tfields, values>> /\ resolved' = [resolved EXCEPT ![Top.class] = TRUE]
      BY <1>6 DEF Finish
    <2> QED BY <1>1, <1>2, <1>4, <2>1, <2>2 DEF Keeps
  <1> QED BY <1>3, <1>5, <1>6

\* No step changes the layout of a resolved class.
LEMMA NextKeepsLayout ==
    ASSUME CInv, [Next]_vars, NEW c \in Class, resolved[c]
    PROVE  Keeps(c)
  <1>1. CASE \E d \in Class : ReadClass(d)
    BY <1>1, ReadClassKeepsLayout
  <1>2. CASE Place
    BY <1>2, PlaceKeepsLayout
  <1>3. CASE Enter \/ Begin \/ Finish
    BY <1>3, CallsKeepLayout
  <1>4. CASE \/ NextRecord \/ StartResolving \/ DriveEnd \/ (\E d \in Class : Drive(d))
             \/ CallResolved \/ EnterSegv \/ ReturnToDriver \/ PlaceSegv \/ Terminated
             \/ UNCHANGED vars
    <2>1. UNCHANGED <<finfo, values, tfields, resolved>>
      BY <1>4 DEF NextRecord, StartResolving, DriveEnd, Drive, CallResolved, EnterSegv,
                  ReturnToDriver, PlaceSegv, Terminated, vars, cinfo
    <2> QED BY <2>1 DEF Keeps
  <1> QED BY <1>1, <1>2, <1>3, <1>4 DEF Next

\* LayoutKept: the layout of a resolved class never changes, neither when a
\* subclass copies its fields (copyField) nor when readClass reads its dump again.
THEOREM LayoutsKept == Spec => LayoutKept
  <1>1. CInv /\ [Next]_vars =>
           [\A c \in Class : resolved[c] =>
              /\ values'[c] = values[c] /\ tfields'[c] = tfields[c] /\ resolved'[c]
              /\ \A k \in DOMAIN values[c] : finfo'[values[c][k]] = finfo[values[c][k]]]_vars
    BY NextKeepsLayout DEF Keeps
  <1> QED BY <1>1, LayoutInvariance, PTL DEF Spec, LayoutKept

-----------------------------------------------------------------------------
(* Names.                                                                  *)

\* The class or a superclass of it was dumped after it was resolved.
RereadAbove(c) == \E n \in Levels : Up(c)[n] \in reread

\* The superclass of a class is resolved before the class is.
SupersFirst ==
    /\ \A c \in Class : resolved[c] /\ c \notin reread /\ superId[c] \in Class => resolved[superId[c]]
    /\ pc \in {"ret", "loop"} /\ stack # <<>> /\ superId[Top.class] \in Class
          => resolved[superId[Top.class]]

\* The loop gives a name to each field of the class' dump, unless the class is the
\* topmost one.
OwnNamed ==
    \A c \in Class : resolved[c] /\ c \notin reread /\ superId[c] # 0 /\ Dumped(c) =>
       \A j \in Own(c) : finfo[j].named

\* What the loop has named so far, of the fields of the dump and of all fields.
NamedSoFar ==
    pc = "loop" =>
       /\ Dumped(Top.class) =>
             \A j \in Own(Top.class) :
                (Top.cc = Top.class => j < fields[Top.class] + Top.fieldNo) => finfo[j].named
       /\ RereadAbove(Top.class) \/
             \A k \in DOMAIN values[Top.class] :
                values[Top.class][k] # Unset => finfo[values[Top.class][k]].named

NInv == CInv /\ SupersFirst /\ OwnNamed /\ NamedSoFar /\ NamesLostOnlyByRereading

\* Below a class there are only classes.
LEMMA ClassesBelow ==
    ASSUME superId \in [Class -> Nat], NEW c \in Nat, NEW n \in Nat, Up(c)[n] \in Class,
           NEW m \in 0..n
    PROVE  Up(c)[m] \in Class
  <1> DEFINE R == {k \in Nat : k <= n /\ Up(c)[n - k] \notin Class}
  <1>1. ASSUME R # {} PROVE FALSE
    <2>1. R \subseteq Nat
      OBVIOUS
    <2>2. PICK k \in R : \A j \in R : k <= j
      <3> HIDE DEF R
      <3> QED BY <1>1, <2>1, Smallest
    <2>3. k \in Nat /\ k <= n /\ Up(c)[n - k] \notin Class
      BY <2>2
    <2>4. k # 0
      <3>1. n - 0 = n
        OBVIOUS
      <3> QED BY <2>3, <3>1
    <2>5. k - 1 \in Nat /\ k - 1 <= n /\ n - (k - 1) = (n - k) + 1 /\ n - k \in Nat
      BY <2>3, <2>4
    <2>6. Up(c)[n - (k - 1)] \in Class
      <3>1. k - 1 \notin R
        <4>1. ~(k <= k - 1)
          BY <2>3
        <4> QED BY <2>2, <4>1
      <3> QED BY <2>5, <3>1
    <2>7. Up(c)[(n - k) + 1] = 0
      BY <2>3, <2>5, UpIs
    <2> QED BY <2>5, <2>6, <2>7, ClassNat
  <1>2. n - m \in Nat /\ n - m <= n /\ n - (n - m) = m
    OBVIOUS
  <1> QED BY <1>1, <1>2

\* The first n classes from c up are not d.
Avoids(sup, c, n, d) == \A m \in 0..(n - 1) : Lineage(sup, c)[m] # d

\* One step of the lineage.
GoesUp(sup, c, n) ==
    Lineage(sup, c)[n + 1] = IF Lineage(sup, c)[n] \in Class THEN sup[Lineage(sup, c)[n]] ELSE 0

\* Lineage takes it.
LEMMA LineageStep ==
    ASSUME NEW sup \in [Class -> Nat], NEW c \in Nat, NEW n \in Nat
    PROVE  GoesUp(sup, c, n)
  <1>1. /\ Lineage(sup, c) \in [Nat -> Nat]
        /\ Lineage(sup, c)[0] = c
        /\ \A m \in Nat : Lineage(sup, c)[m + 1] =
              IF Lineage(sup, c)[m] \in Class THEN sup[Lineage(sup, c)[m]] ELSE 0
    BY LineageIs
  <1> QED BY <1>1 DEF GoesUp

\* Of two maps that differ at d, both go the same way as far as d.
LEMMA SamePath ==
    ASSUME NEW s \in [Class -> Nat], NEW t \in [Class -> Nat], NEW d, NEW c \in Nat, NEW n \in Nat,
           \A e \in Class : e # d => t[e] = s[e],
           Avoids(s, c, n, d)
    PROVE  Lineage(t, c)[n] = Lineage(s, c)[n]
  <1> DEFINE R == {k \in Nat : k <= n /\ Lineage(t, c)[k] # Lineage(s, c)[k]}
  <1>1. ASSUME R # {} PROVE FALSE
    <2>1. R \subseteq Nat
      OBVIOUS
    <2>2. PICK k \in R : \A j \in R : k <= j
      <3> HIDE DEF R
      <3> QED BY <1>1, <2>1, Smallest
    <2>3. k \in Nat /\ k <= n /\ Lineage(t, c)[k] # Lineage(s, c)[k]
      BY <2>2
    <2>4. Lineage(t, c)[0] = c /\ Lineage(s, c)[0] = c
      BY LineageIs
    <2>5. PICK j \in Nat : k = j + 1
      <3>1. k # 0
        BY <2>3, <2>4
      <3>2. k - 1 \in Nat /\ k = (k - 1) + 1
        BY <2>3, <3>1
      <3> QED BY <3>2
    <2>6. Lineage(t, c)[j] = Lineage(s, c)[j]
      <3>1. j <= n /\ ~(k <= j)
        BY <2>3, <2>5
      <3> QED BY <2>2, <3>1
    <2>7. Lineage(s, c)[j] # d
      <3>1. j \in 0..(n - 1)
        BY <2>3, <2>5
      <3> QED BY <3>1 DEF Avoids
    <2>8. GoesUp(s, c, j) /\ GoesUp(t, c, j)
      BY LineageStep
    <2> QED BY <2>3, <2>5, <2>6, <2>7, <2>8 DEF GoesUp
  <1> QED BY <1>1

\* From a resolved class up to the first that was dumped again, all are resolved.
LEMMA ResolvedAbove ==
    ASSUME CInv, SupersFirst, NEW c \in Class, resolved[c], NEW n \in Nat, Up(c)[n] \in Class,
           \A m \in 0..(n - 1) : Up(c)[m] \notin reread
    PROVE  resolved[Up(c)[n]]
  <1> DEFINE R == {k \in Nat : k <= n /\ ~resolved[Up(c)[k]]}
  <1>1. superId \in [Class -> Nat] /\ c \in Nat
    BY ClassNat DEF CInv, TypeOK
  <1>2. ASSUME R # {} PROVE FALSE
    <2>1. R \subseteq Nat
      OBVIOUS
    <2>2. PICK k \in R : \A j \in R : k <= j
      <3> HIDE DEF R
      <3> QED BY <1>2, <2>1, Smallest
    <2>3. k \in Nat /\ k <= n /\ ~resolved[Up(c)[k]]
      BY <2>2
    <2>4. Up(c)[0] = c
      BY <1>1, UpIs
    <2>5. PICK j \in Nat : k = j + 1
      <3>1. k # 0
        BY <2>3, <2>4
      <3>2. k - 1 \in Nat /\ k = (k - 1) + 1
        BY <2>3, <3>1
      <3> QED BY <3>2
    <2>6. resolved[Up(c)[j]]
      <3>1. j <= n /\ ~(k <= j)
        BY <2>3, <2>5
      <3> QED BY <2>2, <3>1
    <2>7. j \in 0..n /\ k \in 0..n /\ j \in 0..(n - 1)
      BY <2>3, <2>5
    <2>8. Up(c)[j] \in Class /\ Up(c)[k] \in Class /\ Up(c)[j] \notin reread
      BY <1>1, <2>7, ClassesBelow
    <2>9. Up(c)[k] = superId[Up(c)[j]]
      BY <1>1, <2>5, <2>8, UpIs
    <2> QED BY <2>3, <2>6, <2>8, <2>9 DEF SupersFirst
  <1> QED BY <1>2

\* A class below one that was dumped again stays below one: readClass can give
\* another superclass only to a class that then is dumped again too.
LEMMA RereadStays ==
    ASSUME CInv, SupersFirst, NEW d \in Class, ReadClass(d), NEW c \in Class, resolved[c],
           RereadAbove(c)
    PROVE  RereadAbove(c)'
  <1> DEFINE R == {k \in Levels : Up(c)[k] \in reread \cup {d}}
  <1>1. superId \in [Class -> Nat] /\ c \in Nat /\ reread \subseteq Class
    BY ClassNat DEF CInv, TypeOK
  <1>2. /\ superId' = [superId EXCEPT ![d] = dump.super[d]]
        /\ reread' = reread \cup (IF resolved[d] THEN {d} ELSE {})
    BY DEF ReadClass
  <1>3. superId' \in [Class -> Nat] /\ \A e \in Class : e # d => superId'[e] = superId[e]
    <2>1. dump.super[d] \in Class \cup {0}
      BY DumpsAssumption DEF CInv
    <2>2. \A x \in Class \cup {0} : x \in Nat
      BY ClassNat
    <2>3. dump.super[d] \in Nat
      BY <2>1, <2>2, Zenon
    <2> QED BY <1>1, <1>2, <2>3
  <1>4. R # {} /\ R \subseteq Nat
    BY LevelsAre DEF RereadAbove
  <1>5. PICK n \in R : \A m \in R : n <= m
    <2> HIDE DEF R
    <2> QED BY <1>4, Smallest
  <1>6. n \in Nat /\ n \in Levels /\ Up(c)[n] \in reread \cup {d}
    BY <1>5, LevelsAre
  <1>7. \A m \in 0..(n - 1) : Up(c)[m] \notin reread \cup {d}
    <2>1. \A m \in 0..(n - 1) : m \in 0..n /\ ~(n <= m)
      BY <1>6
    <2>2. \A m \in 0..(n - 1) : m \in Levels
      BY <1>6, <2>1, LevelsAre
    <2> QED BY <1>5, <2>1, <2>2
  <1>8. Lineage(superId', c)[n] = Lineage(superId, c)[n]
    <2>1. Avoids(superId, c, n, d)
      BY <1>7 DEF Avoids, Up
    <2>2. PICK s \in [Class -> Nat], t \in [Class -> Nat] : s = superId /\ t = superId'
      BY <1>1, <1>3
    <2>3. Lineage(t, c)[n] = Lineage(s, c)[n]
      BY <1>1, <1>3, <1>6, <2>1, <2>2, SamePath
    <2> QED BY <2>2, <2>3
  <1>9. Up(c)[n] \in reread'
    <2>1. CASE Up(c)[n] \in reread
      BY <1>2, <2>1
    <2>2. CASE Up(c)[n] = d
      <3>1. resolved[Up(c)[n]]
        BY <1>6, <1>7, <2>2, ResolvedAbove
      <3> QED BY <1>2, <2>2, <3>1
    <2> QED BY <1>6, <2>1, <2>2
  <1>10. (Up(c)')[n] = Up(c)[n] /\ Levels' = Levels
    BY <1>8 DEF Up, Levels
  <1> QED BY <1>6, <1>9, <1>10 DEF RereadAbove

\* Steps that neither read a dump nor come to a class' end.
LEMMA StillNames ==
    ASSUME NInv, Still, stack' = stack, pc' = "loop" => pc = "loop",
           pc' \in {"ret", "loop"} /\ stack # <<>> /\ superId[Top.class] \in Class
              => resolved[superId[Top.class]]
    PROVE  SupersFirst' /\ OwnNamed' /\ NamedSoFar' /\ NamesLostOnlyByRereading'
  <1>1. UNCHANGED <<finfo, superId, cfields, tfields, values, size, resolved, fields, reread, stack>>
    BY DEF Still, cinfo
  <1>2. \A c : (Dumped(c)' <=> Dumped(c)) /\ Own(c)' = Own(c)
    BY <1>1 DEF Dumped, Own
  <1>3. Top' = Top /\ Levels' = Levels /\ \A c : Up(c)' = Up(c)
    BY <1>1, SameClasses DEF Top, Levels
  <1>4. \A c : RereadAbove(c)' <=> RereadAbove(c)
    BY <1>1, <1>3 DEF RereadAbove
  <1>5. SupersFirst'
    BY <1>1, <1>3 DEF NInv, SupersFirst
  <1>6. OwnNamed'
    BY <1>1, <1>2 DEF NInv, OwnNamed
  <1>7. NamedSoFar'
    <2> SUFFICES ASSUME pc' = "loop" PROVE NamedSoFar'
      BY DEF NamedSoFar
    <2> QED BY <1>1, <1>2, <1>3, <1>4 DEF NInv, NamedSoFar, Unset, RereadAbove
  <1>8. NamesLostOnlyByRereading'
    BY <1>1, <1>3 DEF NInv, NamesLostOnlyByRereading
  <1> QED BY <1>5, <1>6, <1>7, <1>8

\* The call returns at once: the superclass of the frame is the class called for.
LEMMA CallResolvedNames ==
    ASSUME NInv, CallResolved
    PROVE  SupersFirst' /\ OwnNamed' /\ NamedSoFar' /\ NamesLostOnlyByRereading'
  <1>1. Still /\ stack' = stack /\ pc = "call" /\ pc' = "ret" /\ resolved[arg]
    BY DEF CallResolved, Still, input
  <1>2. ASSUME stack # <<>> PROVE superId[Top.class] = arg
    <2>1. /\ stack \in Seq(Frame) /\ superId \in [Class -> Nat] /\ CInv
      BY DEF NInv, CInv, TypeOK
    <2>2. Top = stack[1] /\ Len(stack) \in Nat \ {0} /\ 1 \in 1..Len(stack)
      BY <1>2, <2>1, PopSeq DEF Top
    <2>3. Top.class = Up(Outer)[Len(stack) - 1] /\ Top.class \in Class /\ Outer \in Class
      BY <1>2, <2>1, <2>2, StackRoot
    <2>4. arg = Up(Outer)[Len(stack)]
      BY <1>1, <1>2, <2>1 DEF CInv, Climbing
    <2>5. PICK p \in Nat : p = Len(stack) - 1 /\ p + 1 = Len(stack)
      <3>1. Len(stack) - 1 \in Nat /\ (Len(stack) - 1) + 1 = Len(stack)
        BY <2>2
      <3> QED BY <3>1
    <2>6. PICK o \in Nat : o = Outer
      BY <2>3, ClassNat
    <2>7. Up(o)[p + 1] = IF Up(o)[p] \in Class THEN superId[Up(o)[p]] ELSE 0
      BY <2>1, UpIs
    <2> QED BY <2>3, <2>4, <2>5, <2>6, <2>7
  <1> QED BY <1>1, <1>2, StillNames

\* The steps of the driver.
LEMMA DriverNames ==
    ASSUME NInv,
           \/ NextRecord \/ StartResolving \/ DriveEnd \/ (\E c \in Class : Drive(c))
           \/ EnterSegv \/ ReturnToDriver \/ PlaceSegv \/ Terminated \/ UNCHANGED vars
    PROVE  SupersFirst' /\ OwnNamed' /\ NamedSoFar' /\ NamesLostOnlyByRereading'
  <1>1. Still /\ stack' = stack
    BY DEF NextRecord, StartResolving, DriveEnd, Drive, EnterSegv, ReturnToDriver, PlaceSegv,
           Terminated, vars, Still, input
  <1>2. pc' = pc \/ pc' \notin {"ret", "loop"}
    BY DEF NextRecord, StartResolving, DriveEnd, Drive, EnterSegv, ReturnToDriver, PlaceSegv,
           Terminated, vars
  <1> QED BY <1>1, <1>2, StillNames DEF NInv, SupersFirst

\* readClass makes records without names, of a class that then counts as dumped again
\* if it was resolved.
LEMMA ReadClassNames ==
    ASSUME NInv, NEW d \in Class, ReadClass(d)
    PROVE  SupersFirst' /\ OwnNamed' /\ NamedSoFar' /\ NamesLostOnlyByRereading'
  <1> DEFINE new == [k \in 1..Len(dump.fields[d]) |->
                       [ident |-> <<d, k>>, ftype |-> dump.fields[d][k],
                        named |-> FALSE, offset |-> 0]]
  <1>1. /\ pc = "read" /\ pc' = "read"
        /\ superId' = [superId EXCEPT ![d] = dump.super[d]]
        /\ cfields' = [cfields EXCEPT ![d] = Len(dump.fields[d])]
        /\ fields' = [fields EXCEPT ![d] = Len(finfo) + 1]
        /\ reread' = reread \cup (IF resolved[d] THEN {d} ELSE {})
        /\ UNCHANGED <<values, tfields, resolved>> /\ finfo' = finfo \o new
    BY DEF ReadClass
  <1> HIDE DEF new
  <1>2. /\ CInv /\ superId \in [Class -> Nat] /\ cfields \in [Class -> Nat]
        /\ fields \in [Class -> 0..(Len(finfo) + 1)] /\ finfo \in Seq(FInfo)
    BY DEF NInv, CInv, TypeOK
  <1>3. ASSUME NEW c \in Class, resolved[c], c \notin reread'
        PROVE  c # d /\ c \notin reread
    BY <1>1, <1>3
  <1>4. \A c \in Class : c # d => superId'[c] = superId[c] /\ cfields'[c] = cfields[c] /\ fields'[c] = fields[c]
    BY <1>1, <1>2
  <1>5. SupersFirst'
    <2>1. \A c \in Class : resolved[c] /\ c \notin reread' /\ superId'[c] \in Class => resolved[superId'[c]]
      BY <1>3, <1>4 DEF NInv, SupersFirst
    <2> QED BY <1>1, <2>1 DEF SupersFirst
  <1>6. OwnNamed'
    <2>1. ASSUME NEW c \in Class, resolved[c], c \notin reread', superId'[c] # 0, fields'[c] # 0,
                 NEW j \in fields'[c]..(fields'[c] + cfields'[c] - 1)
          PROVE  finfo'[j].named
      <3>1. c # d /\ c \notin reread
        BY <1>3, <2>1
      <3>2. superId[c] # 0 /\ Dumped(c) /\ j \in Own(c)
        BY <1>4, <2>1, <3>1 DEF Dumped, Own
      <3>3. finfo[j].named
        BY <2>1, <3>1, <3>2 DEF NInv, OwnNamed
      <3>4. j \in 1..Len(finfo)
        <4>1. fields[c] + cfields[c] <= Len(finfo) + 1
          BY <1>2, <3>2 DEF CInv, Read
        <4>2. Len(finfo) \in Nat
          BY <1>2
        <4>3. fields[c] \in Nat \ {0} /\ cfields[c] \in Nat
          BY <1>2, <3>2, <4>2 DEF Dumped
        <4> QED BY <3>2, <4>1, <4>2, <4>3 DEF Own
      <3> QED BY <1>2, <3>3, <3>4, ReadClassAdds
    <2> QED BY <1>1, <2>1 DEF OwnNamed, Dumped, Own
  <1>7. NamedSoFar'
    BY <1>1 DEF NamedSoFar
  <1>8. NamesLostOnlyByRereading'
    <2>1. ASSUME NEW c \in Class, resolved[c], NEW k \in DOMAIN values[c]
          PROVE  finfo'[values[c][k]].named \/ RereadAbove(c)'
      <3>1. finfo[values[c][k]].named \/ RereadAbove(c)
        BY <2>1 DEF NInv, NamesLostOnlyByRereading, RereadAbove
      <3>2. finfo'[values[c][k]] = finfo[values[c][k]]
        BY <1>2, <2>1, ReadClassKeepsLayout DEF Keeps
      <3>3. RereadAbove(c) => RereadAbove(c)'
        BY <1>2, <2>1, RereadStays DEF NInv
      <3> QED BY <3>1, <3>2, <3>3
    <2>2. \A c : RereadAbove(c)' <=> \E n \in Levels' : (Up(c)')[n] \in reread'
      BY DEF RereadAbove
    <2> QED BY <1>1, <2>1, <2>2 DEF NamesLostOnlyByRereading
  <1> QED BY <1>5, <1>6, <1>7, <1>8

\* While no dump is read, names are only added to the resolved classes.
LEMMA LayoutNames ==
    ASSUME NInv, UNCHANGED <<superId, reread>>,
           \A c \in Class : resolved[c] => Keeps(c),
           NEW c \in Class, resolved[c]
    PROVE  \A k \in DOMAIN values'[c] :
              finfo'[values'[c][k]].named \/ \E n \in Levels' : (Up(c)')[n] \in reread'
  <1>1. Keeps(c)
    OBVIOUS
  <1>2. Levels' = Levels /\ Up(c)' = Up(c)
    BY DEF Levels, Up
  <1>3. \A k \in DOMAIN values[c] : finfo[values[c][k]].named \/ \E n \in Levels : Up(c)[n] \in reread
    BY DEF NInv, NamesLostOnlyByRereading
  <1>4. /\ values'[c] = values[c]
        /\ \A k \in DOMAIN values[c] : finfo'[values[c][k]] = finfo[values[c][k]]
    BY <1>1 DEF Keeps
  <1> QED BY <1>2, <1>3, <1>4

\* A call begins: no name is looked up yet.
LEMMA EnterNames ==
    ASSUME NInv, Enter
    PROVE  SupersFirst' /\ OwnNamed' /\ NamedSoFar' /\ NamesLostOnlyByRereading'
  <1>1. /\ pc' \in {"call", "ret"} /\ (pc' = "ret" => superId[arg] \notin Class)
        /\ UNCHANGED <<finfo, superId, cfields, values, resolved, fields, reread>>
    BY DEF Enter
  <1>2. Top'.class = arg
    <2> DEFINE f == [class |-> arg, cc |-> arg, target |-> resolveSClassSize(arg) - cfields[arg],
                     fieldNo |-> 0, i |-> 0, index |-> 0]
    <2>1. stack' = <<f>> \o stack /\ f.class = arg
      BY DEF Enter
    <2>2. stack \in Seq(Frame)
      BY DEF NInv, CInv, TypeOK
    <2> HIDE DEF f
    <2>3. Head(<<f>> \o stack) = f
      BY <2>2
    <2> QED BY <2>1, <2>3 DEF Top
  <1>3. SupersFirst'
    BY <1>1, <1>2 DEF NInv, SupersFirst
  <1>4. OwnNamed'
    BY <1>1 DEF NInv, OwnNamed, Dumped, Own
  <1>5. NamedSoFar'
    BY <1>1 DEF NamedSoFar
  <1>6. NamesLostOnlyByRereading'
    <2>1. Levels' = Levels /\ \A c : Up(c)' = Up(c)
      BY <1>1, SameClasses DEF Levels
    <2> QED BY <1>1, <2>1 DEF NInv, NamesLostOnlyByRereading
  <1> QED BY <1>3, <1>4, <1>5, <1>6

\* The loop begins, with the superclass resolved.
LEMMA BeginNames ==
    ASSUME NInv, Begin
    PROVE  SupersFirst' /\ OwnNamed' /\ NamedSoFar' /\ NamesLostOnlyByRereading'
  <1> DEFINE c == Top.class
  <1>1. /\ pc = "ret" /\ pc' = "loop" /\ stack # <<>>
        /\ values' = [values EXCEPT ![c] = [k \in 1..tfields[c] |-> Unset]]
        /\ UNCHANGED <<finfo, superId, cfields, tfields, resolved, fields, stack, reread>>
    BY DEF Begin
  <1>2. /\ CInv /\ stack \in Seq(Frame) /\ values \in [Class -> Seq(0..Len(finfo))]
        /\ fields \in [Class -> 0..(Len(finfo) + 1)] /\ finfo \in Seq(FInfo)
    BY DEF NInv, CInv, TypeOK
  <1>3. Top = stack[1] /\ c \in Class /\ Fresh(Top) /\ Top' = Top
    <2>1. Top = stack[1] /\ 1 \in 1..Len(stack)
      BY <1>1, <1>2, PopSeq DEF Top
    <2> QED BY <1>1, <1>2, <2>1, StackRoot DEF CInv, Calls, Top
  <1>4. SupersFirst'
    BY <1>1, <1>3 DEF NInv, SupersFirst
  <1>5. OwnNamed'
    BY <1>1 DEF NInv, OwnNamed, Dumped, Own
  <1>6. NamedSoFar'
    <2>1. \A k \in DOMAIN values'[c] : values'[c][k] = Unset
      <3> HIDE DEF c
      <3> QED BY <1>1, <1>2, <1>3
    <2>2. Top.fieldNo = 0 /\ Top.cc = c
      BY <1>3 DEF Fresh
    <2>3. \A j \in Own(c) : ~(j < fields[c] + Top.fieldNo)
      <3>1. Len(finfo) \in Nat
        BY <1>2
      <3>2. fields[c] \in Nat /\ cfields[c] \in Nat
        BY <1>2, <1>3, <3>1 DEF CInv, TypeOK
      <3> HIDE DEF c
      <3> QED BY <2>2, <3>2 DEF Own
    <2> QED BY <1>1, <1>3, <2>1, <2>2, <2>3 DEF NamedSoFar, Own, Unset
  <1>7. NamesLostOnlyByRereading'
    <2>1. \A d \in Class : resolved[d] => Keeps(d)
      BY <1>2, CallsKeepLayout
    <2>2. \A d \in Class : resolved[d] => \A k \in DOMAIN values'[d] :
             finfo'[values'[d][k]].named \/ \E n \in Levels' : (Up(d)')[n] \in reread'
      BY <1>1, <2>1, LayoutNames
    <2> QED BY <1>1, <2>2 DEF NamesLostOnlyByRereading
  <1> QED BY <1>4, <1>5, <1>6, <1>7

\* The loop ends: every field of the dump, and every slot, has been named.
LEMMA FinishNames ==
    ASSUME NInv, Finish
    PROVE  SupersFirst' /\ OwnNamed' /\ NamedSoFar' /\ NamesLostOnlyByRereading'
  <1> DEFINE c == Top.class
  <1>1. /\ pc = "loop" /\ pc' = "ret" /\ Top.i >= tfields[c]
        /\ resolved' = [resolved EXCEPT ![c] = TRUE]
        /\ stack' = Tail(stack)
        /\ UNCHANGED <<finfo, superId, cfields, tfields, values, fields, reread>>
    BY DEF Finish
  <1>2. /\ CInv /\ stack \in Seq(Frame) /\ resolved \in [Class -> BOOLEAN]
        /\ superId \in [Class -> Nat] /\ cfields \in [Class -> Nat]
        /\ fields \in [Class -> 0..(Len(finfo) + 1)] /\ finfo \in Seq(FInfo)
    BY DEF NInv, CInv, TypeOK
  <1>3. stack # <<>> /\ Top = stack[1] /\ Top \in Frame /\ c \in Class
    <2>1. stack # <<>> /\ Top = stack[1] /\ Top \in Frame
      BY <1>1, <1>2, TopCounts
    <2>2. Top.class \in Class
      BY <2>1 DEF Frame
    <2> QED BY <2>1, <2>2
  <1>4. resolved'[c] /\ \A d \in Class : (resolved[d] => resolved'[d]) /\ (resolved'[d] /\ d # c => resolved[d])
    <2> HIDE DEF c
    <2> QED BY <1>1, <1>2, <1>3
  <1>5. ASSUME stack' # <<>> PROVE superId[Top'.class] = c
    <2>1. Len(stack) \in Nat \ {0} /\ Len(Tail(stack)) = Len(stack) - 1 /\ Tail(stack) \in Seq(Frame)
          /\ \A k \in 1..(Len(stack) - 1) : Tail(stack)[k] = stack[k + 1]
      BY <1>2, <1>3, PopSeq
    <2>2. Len(Tail(stack)) \in Nat \ {0} /\ Head(Tail(stack)) = Tail(stack)[1]
      BY <1>1, <1>5, <2>1, PopSeq
    <2>3. 1 \in 1..(Len(stack) - 1) /\ 1 \in 1..Len(stack) /\ 2 \in 1..Len(stack) /\ 1 + 1 = 2
      BY <2>1, <2>2
    <2>4. Top' = stack[2]
      BY <1>1, <2>1, <2>2, <2>3 DEF Top
    <2>5. /\ Top.class = Up(Outer)[Len(stack) - 1] /\ stack[2].class = Up(Outer)[Len(stack) - 2]
          /\ stack[2].class \in Class /\ Outer \in Class
      BY <1>2, <1>3, <2>3, StackRoot
    <2>6. PICK p \in Nat : p = Len(stack) - 2 /\ p + 1 = Len(stack) - 1
      <3>1. Len(stack) - 2 \in Nat /\ (Len(stack) - 2) + 1 = Len(stack) - 1
        BY <2>1, <2>2
      <3> QED BY <3>1
    <2>7. PICK o \in Nat : o = Outer
      BY <2>5, ClassNat
    <2>8. Up(o)[p + 1] = IF Up(o)[p] \in Class THEN superId[Up(o)[p]] ELSE 0
      BY <1>2, UpIs
    <2> QED BY <2>4, <2>5, <2>6, <2>7, <2>8
  <1>6. SupersFirst'
    <2>1. \A d \in Class : resolved'[d] /\ d \notin reread /\ superId[d] \in Class => resolved'[superId[d]]
      <3>1. superId[c] \in Class => resolved[superId[c]]
        BY <1>1, <1>3 DEF NInv, SupersFirst
      <3> HIDE DEF c
      <3> QED BY <1>4, <3>1 DEF NInv, SupersFirst
    <2>2. stack' # <<>> => resolved'[superId[Top'.class]]
      BY <1>4, <1>5
    <2> QED BY <1>1, <2>1, <2>2 DEF SupersFirst
  <1>7. OwnNamed'
    <2>1. ASSUME superId[c] # 0, Dumped(c), NEW j \in Own(c) PROVE finfo[j].named
      <3>1. Top.fieldNo = cfields[Top.cc]
        BY <1>1, <1>2, <2>1, LoopFills
      <3>2. Len(finfo) \in Nat
        BY <1>2
      <3>3. fields[c] \in Nat /\ cfields[c] \in Nat
        BY <1>2, <1>3, <3>2
      <3>4. j < fields[c] + cfields[c]
        <4> HIDE DEF c
        <4> QED BY <2>1, <3>3 DEF Own
      <3>5. Top.cc = Top.class => j < fields[c] + Top.fieldNo
        BY <3>1, <3>4
      <3> QED BY <1>1, <2>1, <3>5 DEF NInv, NamedSoFar
    <2>2. ASSUME NEW d \in Class, resolved'[d], d \notin reread, superId[d] # 0, Dumped(d)
          PROVE  \A j \in Own(d) : finfo[j].named
      <3>1. CASE d = c
        BY <2>1, <2>2, <3>1
      <3>2. CASE d # c
        BY <1>4, <2>2, <3>2 DEF NInv, OwnNamed
      <3> QED BY <3>1, <3>2
    <2>3. \A d : (Dumped(d)' <=> Dumped(d)) /\ Own(d)' = Own(d)
      BY <1>1 DEF Dumped, Own
    <2> QED BY <1>1, <2>2, <2>3 DEF OwnNamed
  <1>8. NamedSoFar'
    BY <1>1 DEF NamedSoFar
  <1>9. NamesLostOnlyByRereading'
    <2>1. \A k \in DOMAIN values[c] : finfo[values[c][k]].named \/ RereadAbove(c)
      <3>1. \A k \in DOMAIN values[c] : values[c][k] # Unset
        BY <1>1, <1>2, LoopFills
      <3> QED BY <1>1, <3>1 DEF NInv, NamedSoFar
    <2>2. \A d \in Class : resolved'[d] => \A k \in DOMAIN values[d] :
             finfo[values[d][k]].named \/ RereadAbove(d)
      <3> HIDE DEF c
      <3> QED BY <1>4, <2>1 DEF NInv, NamesLostOnlyByRereading, RereadAbove
    <2>3. Levels' = Levels /\ \A d : Up(d)' = Up(d)
      BY <1>1, SameClasses DEF Levels
    <2> QED BY <1>1, <2>2, <2>3 DEF NamesLostOnlyByRereading, RereadAbove
  <1> QED BY <1>6, <1>7, <1>8, <1>9

\* A turn takes no name away.
LEMMA NamesStay ==
    ASSUME NEW g, NEW src, NEW at, Placed(g, src, at), NEW j \in 1..Len(finfo), finfo[j].named
    PROVE  finfo'[j].named
  <1>1. CASE j = at
    <2>1. finfo \in Seq(FInfo) => j # Len(finfo) + 1
      OBVIOUS
    <2> QED BY <1>1, <2>1 DEF Placed
  <1>2. CASE j # at
    BY <1>2 DEF Placed
  <1> QED BY <1>1, <1>2

\* An inherited field has its name by then, unless a class on the way up to it was
\* dumped again.
LEMMA InheritedNamed ==
    ASSUME NInv, pc = "loop", ~RereadAbove(Top.class),
           NEW m \in Levels, m # 0, \A j \in 0..m : Up(Top.class)[j] \in Class,
           superId[Up(Top.class)[m]] # 0, Dumped(Up(Top.class)[m])
    PROVE  \A j \in Own(Up(Top.class)[m]) : finfo[j].named
  <1>1. CInv /\ superId \in [Class -> Nat] /\ stack # <<>> /\ Top \in Frame
    BY TopCounts DEF NInv, CInv, TypeOK
  <1>2. PICK c \in Class : c = Top.class
    BY <1>1 DEF Frame
  <1>3. c \in Nat /\ m \in Nat
    BY ClassNat, LevelsAre
  <1>4. PICK p \in Nat : m = 1 + p
    <2>1. m - 1 \in Nat /\ m = 1 + (m - 1)
      BY <1>3
    <2> QED BY <2>1
  <1>5. \A j \in 0..m : Up(c)[j] \notin reread
    BY <1>2, LevelsAre DEF RereadAbove
  <1>6. PICK s \in Class : s = superId[c] /\ s = Up(c)[1]
    <2>1. 1 \in 0..m /\ 0 + 1 = 1
      BY <1>3, <1>4
    <2>2. Up(c)[1] \in Class
      BY <1>2, <2>1
    <2>3. Up(c)[0] = c /\ Up(c)[0 + 1] = IF Up(c)[0] \in Class THEN superId[Up(c)[0]] ELSE 0
      BY <1>1, <1>3, UpIs
    <2> QED BY <2>1, <2>2, <2>3
  <1>7. resolved[s]
    BY <1>1, <1>2, <1>6 DEF NInv, SupersFirst
  <1>8. ASSUME NEW j \in 0..p PROVE Up(s)[j] = Up(c)[1 + j] /\ 1 + j \in 0..m
    <2>1. j \in Nat /\ 1 \in Nat /\ 1 + j \in 0..m
      BY <1>4
    <2>2. Up(Up(c)[1])[j] = Up(c)[1 + j]
      BY <1>1, <1>3, <2>1, UpShift
    <2> QED BY <1>6, <2>1, <2>2
  <1>9. p \in 0..p /\ \A j \in 0..(p - 1) : j \in 0..p
    OBVIOUS
  <1>10. Up(s)[p] = Up(c)[m] /\ Up(c)[m] \in Class /\ Up(c)[m] \notin reread
    BY <1>2, <1>4, <1>5, <1>8, <1>9
  <1>11. \A j \in 0..(p - 1) : Up(s)[j] \notin reread
    BY <1>5, <1>8, <1>9
  <1>12. resolved[Up(s)[p]]
    BY <1>1, <1>7, <1>10, <1>11, ResolvedAbove DEF NInv
  <1> QED BY <1>2, <1>10, <1>12 DEF NInv, OwnNamed

\* What the loop has named after the turn, of the fields of the dump.
LEMMA TurnNamesOwn ==
    ASSUME NInv, pc = "loop", Top.i < tfields[Top.class], fields' = fields, cfields' = cfields,
           NEW f, NEW M, NEW l, NEW n, NEW g, NEW h, NEW at, Turn(f, M, l, n, g, h, at),
           Dumped(Top.class), NEW j \in Own(Top.class),
           h.cc = h.class => j < fields[Top.class] + h.fieldNo
    PROVE  finfo'[j].named
  <1>1. /\ f = Top /\ g = Climbed(f, n) /\ n \in Levels /\ Climbs(f, n) /\ Counting(f, M, l)
        /\ Placed(g, fields[g.cc] + g.fieldNo, at) /\ CInv
    BY DEF Turn, NInv
  <1>2. /\ g \in Frame /\ g.class = f.class
        /\ l + n < M /\ AtLevel(g, l + n) /\ l + n \in Levels
        /\ n = 0 => g = f
        /\ n # 0 => f.fieldNo = cfields[f.cc]
    BY <1>1, ClimbedLevel
  <1>3. h.class = g.class /\ h.cc = g.cc /\ h.fieldNo = g.fieldNo + 1
    BY <1>2, TurnFrame
  <1>4. PICK c \in Class : c = f.class
    BY <1>1 DEF Counting, Frame
  <1>5. /\ j \in 1..Len(finfo) /\ fields[c] \in Nat /\ cfields[c] \in Nat
        /\ j \in Int /\ j < fields[c] + cfields[c] /\ j >= fields[c]
    <2>1. Dumped(c) /\ j \in Own(c)
      BY <1>1, <1>4
    <2>2. Own(c) \subseteq 1..Len(finfo) /\ fields[c] \in Nat /\ cfields[c] \in Nat
      BY <1>1, <2>1, OwnInside
    <2> QED BY <2>1, <2>2 DEF Own
  <1>6. (f.cc = c => j < fields[c] + f.fieldNo) => finfo[j].named
    BY <1>1, <1>4 DEF NInv, NamedSoFar
  <1>7. finfo[j].named => finfo'[j].named
    BY <1>1, <1>5, NamesStay
  <1>8. CASE g.cc = c
    <2>1. l + n = 0
      <3>1. superId \in [Class -> Nat] /\ RootAt(c, M) /\ M \in Nat /\ l \in Nat /\ n \in Nat /\ c \in Nat
        BY <1>1, <1>4, LevelsAre, ClassNat DEF Counting
      <3>2. Up(c)[0] = c /\ Up(c)[l + n] = c
        BY <1>2, <1>4, <1>8, <3>1, UpIs DEF AtLevel
      <3>3. 0 \in 0..M /\ l + n \in 0..M
        BY <1>2, <3>1
      <3> QED BY <3>1, <3>2, <3>3, UpDistinct
    <2>2. n = 0
      <3>1. l \in Nat /\ n \in Nat
        BY <1>1, LevelsAre DEF Counting
      <3> QED BY <2>1, <3>1
    <2>3. g = f /\ f.fieldNo \in Nat
      BY <1>2, <2>2 DEF Frame
    <2>4. j < fields[c] + (f.fieldNo + 1)
      BY <1>1, <1>2, <1>3, <1>4, <1>8, <2>3
    <2>5. CASE j < fields[c] + f.fieldNo
      BY <1>6, <1>7, <2>5
    <2>6. CASE j = fields[c] + f.fieldNo
      <3>1. g.cc = g.class /\ at = fields[g.cc] + g.fieldNo /\ finfo'[at].named
        BY <1>1, <1>2, <1>4, <1>8 DEF Placed
      <3> QED BY <1>8, <2>3, <2>6, <3>1
    <2> QED BY <1>5, <2>3, <2>4, <2>5, <2>6
  <1>9. CASE g.cc # c
    <2>1. f.cc = c => j < fields[c] + f.fieldNo
      BY <1>2, <1>5, <1>9
    <2> QED BY <1>6, <1>7, <2>1
  <1> QED BY <1>8, <1>9

\* And of all fields.
LEMMA TurnNamesValues ==
    ASSUME NInv, pc = "loop", Top.i < tfields[Top.class],
           NEW f, NEW M, NEW l, NEW n, NEW g, NEW h, NEW at, Turn(f, M, l, n, g, h, at),
           ~RereadAbove(Top.class), NEW k \in DOMAIN values'[Top.class],
           values'[Top.class][k] # Unset
    PROVE  finfo'[values'[Top.class][k]].named
  <1>1. /\ f = Top /\ g = Climbed(f, n) /\ n \in Levels /\ Climbs(f, n) /\ Counting(f, M, l)
        /\ Placed(g, fields[g.cc] + g.fieldNo, at) /\ CInv
    BY DEF Turn, NInv
  <1>2. g \in Frame /\ g.class = f.class /\ AtLevel(g, l + n) /\ l + n \in Levels
    BY <1>1, ClimbedLevel
  <1>3. PICK c \in Class : c = Top.class /\ c = g.class
    BY <1>1, <1>2 DEF Frame
  <1>4. PICK slot : slot = g.target + g.fieldNo + 1
    OBVIOUS
  <1>5. /\ DOMAIN values[c] = 1..tfields[c] /\ DOMAIN values'[c] = 1..tfields[c]
        /\ values'[c][slot] = at
        /\ \A i \in 1..tfields[c] : i # slot => values'[c][i] = values[c][i]
    <2>1. /\ DOMAIN values[g.class] = 1..tfields[g.class]
          /\ DOMAIN values'[g.class] = 1..tfields[g.class]
          /\ values'[g.class][slot] = at
          /\ \A i \in 1..tfields[g.class] : i # slot => values'[g.class][i] = values[g.class][i]
      BY <1>1, <1>4, TurnValues
    <2> QED BY <1>3, <2>1
  <1>6. CASE k # slot
    <2>1. k \in DOMAIN values[c] /\ values'[c][k] = values[c][k] /\ values[c][k] # Unset
      BY <1>3, <1>5, <1>6
    <2>2. finfo[values[c][k]].named
      BY <1>3, <2>1 DEF NInv, NamedSoFar
    <2>3. values[c] \in Seq(0..Len(finfo)) /\ finfo \in Seq(FInfo)
      BY <1>1 DEF CInv, TypeOK
    <2>4. k \in 1..Len(values[c])
      BY <2>1, <2>3
    <2>5. values[c][k] \in 0..Len(finfo)
      BY <2>3, <2>4, SeqElement, Zenon
    <2>6. values[c][k] \in 1..Len(finfo)
      BY <2>1, <2>3, <2>5 DEF Unset
    <2> QED BY <1>1, <1>3, <2>1, <2>2, <2>6, NamesStay
  <1>7. CASE k = slot
    <2>1. values'[c][k] = at
      BY <1>5, <1>7
    <2>2. CASE g.cc = g.class
      BY <1>1, <1>3, <2>1, <2>2 DEF Placed
    <2>3. CASE g.cc # g.class
      <3>1. /\ fields[g.cc] + g.fieldNo \in Own(g.cc) /\ Dumped(g.cc)
            /\ finfo'[at].named = finfo[fields[g.cc] + g.fieldNo].named
        BY <1>1, <2>3 DEF Placed
      <3>2. /\ \A m \in 0..(l + n) : Up(c)[m] \in Class
            /\ l + n = 0 \/ superId[Up(c)[l + n]] # 0
            /\ g.cc = Up(c)[l + n]
        BY <1>2, <1>3 DEF AtLevel
      <3>3. l + n # 0
        <4>1. Up(c)[0] = c
          BY <1>1, ClassNat, UpIs DEF CInv, TypeOK
        <4> QED BY <1>3, <2>3, <3>2, <4>1
      <3>4. \A j \in Own(g.cc) : finfo[j].named
        BY <1>2, <1>3, <3>1, <3>2, <3>3, InheritedNamed
      <3> QED BY <1>3, <2>1, <3>1, <3>4
    <2> QED BY <2>2, <2>3
  <1> QED BY <1>6, <1>7

\* One turn keeps the invariant.
LEMMA PlaceNames ==
    ASSUME NInv, Place
    PROVE  SupersFirst' /\ OwnNamed' /\ NamedSoFar' /\ NamesLostOnlyByRereading'
  <1>1. CInv /\ stack \in Seq(Frame)
    BY DEF NInv, CInv, TypeOK
  <1>2. PICK f, M, l, n, g, h, at : Turn(f, M, l, n, g, h, at)
    BY <1>1, PlaceIs
  <1>3. /\ pc = "loop" /\ pc' = "loop" /\ Top.i < tfields[Top.class]
        /\ UNCHANGED <<superId, cfields, tfields, resolved, fields, reread>>
    BY DEF Place
  <1>4. /\ f = Top /\ h \in Frame /\ stack' = <<h>> \o Tail(stack)
        /\ Placed(g, fields[g.cc] + g.fieldNo, at)
    BY <1>2 DEF Turn
  <1>5. stack # <<>> /\ stack' # <<>> /\ Top' = h
    <2>1. stack # <<>>
      BY <1>1, <1>3, TopCounts
    <2>2. /\ stack' \in Seq(Frame) /\ Len(stack') = Len(stack) /\ stack'[1] = h
      BY <1>1, <1>4, <2>1, SetTopSeq
    <2>3. stack' # <<>>
      BY <1>1, <2>1, <2>2
    <2>4. Head(stack') = stack'[1]
      BY <2>2, <2>3, PopSeq
    <2> QED BY <2>1, <2>2, <2>3, <2>4 DEF Top
  <1>6. h.class = Top.class
    <2>1. g \in Frame /\ g.class = f.class
      BY <1>1, <1>2, <1>3, TurnValues
    <2> QED BY <1>2, <1>4, <2>1, TurnFrame
  <1>7. \A d : (Dumped(d)' <=> Dumped(d)) /\ Own(d)' = Own(d)
    BY <1>3 DEF Dumped, Own
  <1>8. Levels' = Levels /\ \A d : Up(d)' = Up(d)
    BY <1>3, SameClasses DEF Levels
  <1>9. SupersFirst'
    BY <1>3, <1>5, <1>6 DEF NInv, SupersFirst
  <1>10. OwnNamed'
    <2>1. ASSUME NEW d \in Class, resolved[d], d \notin reread, superId[d] # 0, Dumped(d),
                 NEW j \in Own(d)
          PROVE  finfo'[j].named
      <3>1. finfo[j].named
        BY <2>1 DEF NInv, OwnNamed
      <3>2. j \in 1..Len(finfo)
        BY <1>1, <2>1, OwnInside
      <3> QED BY <1>4, <3>1, <3>2, NamesStay
    <2> QED BY <1>3, <1>7, <2>1 DEF OwnNamed
  <1>11. NamedSoFar'
    <2>1. PICK c : c = Top.class /\ c = h.class
      BY <1>6
    <2>2. Dumped(c) => \A j \in Own(c) : (h.cc = c => j < fields[c] + h.fieldNo) => finfo'[j].named
      BY <1>2, <1>3, <2>1, TurnNamesOwn
    <2>3. RereadAbove(c) \/ \A k \in DOMAIN values'[c] :
             values'[c][k] # Unset => finfo'[values'[c][k]].named
      BY <1>2, <1>3, <2>1, TurnNamesValues
    <2>4. RereadAbove(c) => \E m \in Levels' : (Up(c)')[m] \in reread'
      BY <1>3, <1>8 DEF RereadAbove
    <2> QED BY <1>3, <1>5, <1>7, <2>1, <2>2, <2>3, <2>4 DEF NamedSoFar, RereadAbove, Unset
  <1>12. NamesLostOnlyByRereading'
    <2>1. \A d \in Class : resolved[d] => Keeps(d)
      BY <1>1, PlaceKeepsLayout
    <2>2. \A d \in Class : resolved[d] => \A k \in DOMAIN values'[d] :
             finfo'[values'[d][k]].named \/ \E m \in Levels' : (Up(d)')[m] \in reread'
      BY <1>3, <2>1, LayoutNames
    <2> QED BY <1>3, <2>2 DEF NamesLostOnlyByRereading
  <1> QED BY <1>9, <1>10, <1>11, <1>12

\* The names of the fields are always as NInv says: a class gets its names in its own
\* loop, after its superclass has got them.
THEOREM NamesInvariance == Spec => []NInv
  <1>1. Init => NInv
    <2> SUFFICES ASSUME Init PROVE NInv
      OBVIOUS
    <2>1. \A c \in Class : ~resolved[c]
      BY DEF Init
    <2>2. pc = "record"
      BY DEF Init
    <2> QED BY <2>1, <2>2, InitKeeps
        DEF NInv, SupersFirst, OwnNamed, NamedSoFar, NamesLostOnlyByRereading
  <1>2. NInv /\ [Next]_vars => NInv'
    <2> SUFFICES ASSUME NInv, [Next]_vars PROVE NInv'
      OBVIOUS
    <2>1. CInv'
      BY NextKeeps DEF NInv
    <2>2. CASE \/ NextRecord \/ StartResolving \/ DriveEnd \/ (\E c \in Class : Drive(c))
               \/ EnterSegv \/ ReturnToDriver \/ PlaceSegv \/ Terminated \/ UNCHANGED vars
      BY <2>1, <2>2, DriverNames DEF NInv
    <2>3. CASE \E c \in Class : ReadClass(c)
      BY <2>1, <2>3, ReadClassNames DEF NInv
    <2>4. CASE CallResolved
      BY <2>1, <2>4, CallResolvedNames DEF NInv
    <2>5. CASE Enter
      BY <2>1, <2>5, EnterNames DEF NInv
    <2>6. CASE Begin
      BY <2>1, <2>6, BeginNames DEF NInv
    <2>7. CASE Place
      BY <2>1, <2>7, PlaceNames DEF NInv
    <2>8. CASE Finish
      BY <2>1, <2>8, FinishNames DEF NInv
    <2> QED BY <2>2, <2>3, <2>4, <2>5, <2>6, <2>7, <2>8 DEF Next
  <1> QED BY <1>1, <1>2, PTL DEF Spec

\* NamesLostOnlyByRereading: a field of a resolved class has its name, to be printed
\* by printInstance, unless readClass read the dump of the class or of a superclass
\* again after resolveClassNode had resolved it.
THEOREM NamesReach == Spec => []NamesLostOnlyByRereading
  <1>1. NInv => NamesLostOnlyByRereading
    BY DEF NInv
  <1> QED BY <1>1, NamesInvariance, PTL

-----------------------------------------------------------------------------
(* Sums over finite sets, as the folds of the community modules compute    *)
(* them: an element is chosen, and the rest is summed.                     *)

\* g gives every subset of S the sum of the weights of its elements.
IsSum(g, w, S) ==
    g = [s \in SUBSET S |-> IF s = {} THEN 0
                            ELSE w[CHOOSE x \in s : TRUE] + g[s \ {CHOOSE x \in s : TRUE}]]

\* Such a function, step by step.
LEMMA SumStep ==
    ASSUME NEW S, NEW w, NEW g, IsSum(g, w, S), NEW s \in SUBSET S
    PROVE  /\ s = {} => g[s] = 0
           /\ s # {} => \E x \in s : /\ x = CHOOSE y \in s : TRUE
                                     /\ g[s] = w[x] + g[s \ {x}]
  <1>1. g[s] = IF s = {} THEN 0
               ELSE w[CHOOSE x \in s : TRUE] + g[s \ {CHOOSE x \in s : TRUE}]
    BY DEF IsSum
  <1>2. ASSUME s # {} PROVE \E x \in s : x = CHOOSE y \in s : TRUE
    BY <1>2
  <1> QED BY <1>1, <1>2

\* There is one for every finite set: the sums of the sets with n elements follow
\* from those with n - 1.
LEMMA SumExists ==
    ASSUME NEW S, IsFiniteSet(S), NEW w \in [S -> Nat]
    PROVE  \E g : IsSum(g, w, S)
  <1> DEFINE ch(s) == CHOOSE x \in s : TRUE
             V == [SUBSET S -> Nat]
             zero == [s \in SUBSET S |-> 0]
             on(h) == [s \in SUBSET S |-> IF s = {} THEN 0 ELSE w[ch(s)] + h[s \ {ch(s)}]]
             G == [p \in Nat \X V |-> on(p[2])]
  <1>1. zero \in V
    OBVIOUS
  <1>2. ASSUME NEW s \in SUBSET S, s # {}
        PROVE  ch(s) \in s /\ ch(s) \in S /\ s \ {ch(s)} \in SUBSET S /\ w[ch(s)] \in Nat
    BY <1>2
  <1> HIDE DEF ch
  <1>3. ASSUME NEW h \in V PROVE on(h) \in V
    <2>1. ASSUME NEW s \in SUBSET S
          PROVE  (IF s = {} THEN 0 ELSE w[ch(s)] + h[s \ {ch(s)}]) \in Nat
      <3>1. CASE s = {}
        BY <3>1
      <3>2. CASE s # {}
        <4>1. h[s \ {ch(s)}] \in Nat /\ w[ch(s)] \in Nat
          BY <1>2, <3>2
        <4> QED BY <3>2, <4>1
      <3> QED BY <3>1, <3>2
    <2> QED BY <2>1
  <1> HIDE DEF on
  <1>4. G \in [Nat \X V -> V]
    BY <1>3
  <1>5. \A n \in Nat, h \in V : G[<<n, h>>] = on(h)
    OBVIOUS
  <1> HIDE DEF G
  <1>6. PICK f : f \in [Nat -> V] /\ f[0] = zero /\ \A n \in Nat : f[n + 1] = G[<<n, f[n]>>]
    <2>1. \E f : GoesOn(f, V, zero, G)
      <3> HIDE DEF V, zero
      <3> QED BY <1>1, <1>4, NatRecursion
    <2> QED BY <2>1 DEF GoesOn
  <1>7. \A n \in Nat : f[n] \in V /\ f[n + 1] = on(f[n])
    <2> HIDE DEF V
    <2> QED BY <1>5, <1>6
  <1> DEFINE g == [s \in SUBSET S |-> f[Cardinality(s)][s]]
  <1>8. ASSUME NEW s \in SUBSET S
        PROVE  g[s] = IF s = {} THEN 0 ELSE w[ch(s)] + g[s \ {ch(s)}]
    <2>1. CASE s = {}
      BY <1>6, <2>1, FS_EmptySet
    <2>2. CASE s # {}
      <3> DEFINE t == s \ {ch(s)}
      <3>1. ch(s) \in s /\ t \in SUBSET S
        BY <1>2, <2>2
      <3>2. IsFiniteSet(s)
        BY FS_Subset
      <3>3. Cardinality(s) \in Nat /\ IsFiniteSet(t) /\ Cardinality(t) = Cardinality(s) - 1
        BY <3>1, <3>2, FS_CardinalityType, FS_RemoveElement
      <3>4. Cardinality(t) \in Nat
        BY <3>3, FS_CardinalityType
      <3>5. PICK n \in Nat : n = Cardinality(t) /\ Cardinality(s) = n + 1
        BY <3>3, <3>4
      <3>6. g[s] = f[n + 1][s] /\ g[t] = f[n][t]
        BY <3>1, <3>5
      <3>7. f[n + 1] = on(f[n])
        BY <1>7
      <3>8. on(f[n])[s] = w[ch(s)] + f[n][t]
        BY <2>2 DEF on
      <3> HIDE DEF g
      <3> QED BY <2>2, <3>6, <3>7, <3>8
    <2> QED BY <2>1, <2>2
  <1>9. g = [s \in SUBSET S |-> g[s]]
    OBVIOUS
  <1> HIDE DEF g
  <1>10. IsSum(g, w, S)
    BY <1>8, <1>9 DEF IsSum, ch
  <1> QED BY <1>10

\* Two weighings of the same set that agree on it give the same sum.
LEMMA SumAgrees ==
    ASSUME NEW S, NEW T, NEW w, NEW v, NEW g, NEW h, IsSum(g, w, S), IsSum(h, v, T),
           NEW s \in SUBSET S, s \in SUBSET T, IsFiniteSet(s), \A x \in s : w[x] = v[x]
    PROVE  g[s] = h[s]
  <1> DEFINE R == {n \in Nat : \E t \in SUBSET s : n = Cardinality(t) /\ g[t] # h[t]}
  <1>1. ASSUME R # {} PROVE FALSE
    <2>1. PICK n \in R : \A m \in R : n <= m
      <3>1. R \subseteq Nat
        OBVIOUS
      <3> HIDE DEF R
      <3> QED BY <1>1, <3>1, Smallest
    <2>2. PICK t \in SUBSET s : n = Cardinality(t) /\ g[t] # h[t]
      BY <2>1
    <2>3. t \in SUBSET S /\ t \in SUBSET T /\ IsFiniteSet(t)
      BY FS_Subset
    <2>4. t # {}
      BY <2>2, <2>3, SumStep
    <2>5. PICK x \in t : x = (CHOOSE y \in t : TRUE) /\ g[t] = w[x] + g[t \ {x}]
      BY <2>3, <2>4, SumStep
    <2>6. h[t] = v[x] + h[t \ {x}]
      <3>1. PICK z \in t : z = (CHOOSE y \in t : TRUE) /\ h[t] = v[z] + h[t \ {z}]
        BY <2>3, <2>4, SumStep
      <3> QED BY <2>5, <3>1
    <2>7. g[t \ {x}] # h[t \ {x}] /\ t \ {x} \in SUBSET s
      BY <2>2, <2>5, <2>6
    <2>8. Cardinality(t \ {x}) = n - 1 /\ IsFiniteSet(t \ {x})
      BY <2>2, <2>3, FS_RemoveElement
    <2>9. Cardinality(t \ {x}) \in Nat
      BY <2>8, FS_CardinalityType
    <2>10. Cardinality(t \ {x}) \in R
      BY <2>7, <2>9
    <2>11. n <= n - 1
      BY <2>1, <2>8, <2>10
    <2>12. n \in Nat
      BY <2>1
    <2> QED BY <2>11, <2>12
  <1>2. Cardinality(s) \in Nat
    BY FS_CardinalityType
  <1> QED BY <1>1, <1>2

\* Whichever element is taken away first: the sum is its weight and that of the rest.
LEMMA SumTakes ==
    ASSUME NEW S, IsFiniteSet(S), NEW w \in [S -> Nat], NEW g, IsSum(g, w, S),
           NEW s \in SUBSET S, NEW x \in s
    PROVE  g[s] \in Nat /\ g[s \ {x}] \in Nat /\ g[s] = w[x] + g[s \ {x}]
  <1> DEFINE R == {n \in Nat : \E t \in SUBSET S : n = Cardinality(t) /\ g[t] \notin Nat}
             Q == {n \in Nat : \E t \in SUBSET S : /\ n = Cardinality(t)
                                                   /\ \E y \in t : g[t] # w[y] + g[t \ {y}]}
  <1>1. \A t \in SUBSET S : IsFiniteSet(t) /\ Cardinality(t) \in Nat
    BY FS_Subset, FS_CardinalityType
  <1>2. ASSUME NEW t \in SUBSET S, NEW y \in t
        PROVE  t \ {y} \in SUBSET S /\ Cardinality(t \ {y}) = Cardinality(t) - 1
               /\ Cardinality(t \ {y}) \in Nat /\ w[y] \in Nat
    BY <1>1, FS_RemoveElement
  <1>3. ASSUME R # {} PROVE FALSE
    <2>1. PICK n \in R : \A m \in R : n <= m
      <3>1. R \subseteq Nat
        OBVIOUS
      <3> HIDE DEF R
      <3> QED BY <1>3, <3>1, Smallest
    <2>2. PICK t \in SUBSET S : n = Cardinality(t) /\ g[t] \notin Nat
      BY <2>1
    <2>3. t # {}
      BY <2>2, SumStep
    <2>4. PICK y \in t : g[t] = w[y] + g[t \ {y}]
      BY <2>3, SumStep
    <2>5. t \ {y} \in SUBSET S /\ Cardinality(t \ {y}) = n - 1 /\ Cardinality(t \ {y}) \in Nat
          /\ w[y] \in Nat
      BY <1>2, <2>2
    <2>6. g[t \ {y}] \notin Nat
      BY <2>2, <2>4, <2>5
    <2>7. Cardinality(t \ {y}) \in R
      BY <2>5, <2>6
    <2>8. n <= n - 1 /\ n \in Nat
      BY <2>1, <2>5, <2>7
    <2> QED BY <2>8
  <1>4. \A t \in SUBSET S : g[t] \in Nat
    BY <1>1, <1>3
  <1>5. ASSUME Q # {} PROVE FALSE
    <2>1. PICK n \in Q : \A m \in Q : n <= m
      <3>1. Q \subseteq Nat
        OBVIOUS
      <3> HIDE DEF Q
      <3> QED BY <1>5, <3>1, Smallest
    <2>2. PICK t \in SUBSET S : n = Cardinality(t) /\ \E y \in t : g[t] # w[y] + g[t \ {y}]
      BY <2>1
    <2>3. PICK y \in t : g[t] # w[y] + g[t \ {y}]
      BY <2>2
    <2>4. PICK z \in t : g[t] = w[z] + g[t \ {z}]
      BY <2>2, SumStep
    <2>5. y # z
      BY <2>3, <2>4
    <2>6. ASSUME NEW u \in SUBSET S, NEW p \in u, Cardinality(u) = n - 1
          PROVE  g[u] = w[p] + g[u \ {p}]
      <3>1. Cardinality(u) \in Nat /\ n \in Nat
        BY <1>1, <2>1
      <3>2. Cardinality(u) \notin Q
        <4>1. ~(n <= n - 1)
          BY <3>1
        <4> HIDE DEF Q
        <4> QED BY <2>1, <2>6, <4>1
      <3> QED BY <3>1, <3>2
    <2>7. /\ t \ {y} \in SUBSET S /\ z \in t \ {y} /\ Cardinality(t \ {y}) = n - 1
          /\ t \ {z} \in SUBSET S /\ y \in t \ {z} /\ Cardinality(t \ {z}) = n - 1
      BY <1>2, <2>2, <2>5
    <2>8. g[t \ {y}] = w[z] + g[(t \ {y}) \ {z}] /\ g[t \ {z}] = w[y] + g[(t \ {z}) \ {y}]
      BY <2>6, <2>7
    <2>9. (t \ {y}) \ {z} = (t \ {z}) \ {y} /\ (t \ {y}) \ {z} \in SUBSET S
      OBVIOUS
    <2>10. w[y] \in Nat /\ w[z] \in Nat /\ g[(t \ {y}) \ {z}] \in Nat
      BY <1>4, <2>2, <2>4, <2>9
    <2>11. PICK a \in Nat, b \in Nat, r \in Nat :
              a = w[y] /\ b = w[z] /\ r = g[(t \ {y}) \ {z}]
      BY <2>10
    <2>12. g[t \ {y}] = b + r /\ g[t \ {z}] = a + r
      BY <2>8, <2>9, <2>11
    <2>13. g[t] = b + (a + r) /\ g[t] # a + (b + r)
      BY <2>3, <2>4, <2>11, <2>12
    <2> QED BY <2>13
  <1>6. g[s] = w[x] + g[s \ {x}]
    BY <1>1, <1>5
  <1> QED BY <1>4, <1>6

-----------------------------------------------------------------------------
(* The layout of a class.                                                  *)

\* The superclasses that the dumps give.
Anc(c) == Lineage(dump.super, c)

\* The topmost class is the R-th of them.
Tops(c, R) ==
    /\ \A m \in 0..R : Anc(c)[m] \in Class
    /\ dump.super[Anc(c)[R]] = 0

\* The first n fields of class d, and the fields of the first l classes from c up.
FieldsOf(d, n) == {<<d, k>> : k \in 1..n}

AllOf(d) == FieldsOf(d, Len(dump.fields[d]))

Below(c, l) == UNION {AllOf(Anc(c)[j]) : j \in 0..(l - 1)}

\* The fields that a frame at level l has laid out.
Done(f, l) == Below(f.class, l) \cup FieldsOf(f.cc, f.fieldNo)

\* The field m of c is where the dumps say, with its type and its offset.
SlotOf(c, m) == Cardinality(ValuesBefore(c, m)) + 1

RightFor(c, m) ==
    /\ SlotOf(c, m) \in DOMAIN values[c]
    /\ values[c][SlotOf(c, m)] # Unset
    /\ finfo[values[c][SlotOf(c, m)]].ident = m
    /\ finfo[values[c][SlotOf(c, m)]].ftype = dump.fields[m[1]][m[2]]
    /\ finfo[values[c][SlotOf(c, m)]].offset = Bytes(BytesBefore(c, m))

\* The records that readClass makes are those of the dump.
RecordsOf(c) ==
    /\ cfields[c] = Len(dump.fields[c])
    /\ \A k \in 1..cfields[c] : /\ finfo[fields[c] + k - 1].ident = <<c, k>>
                                /\ finfo[fields[c] + k - 1].ftype = dump.fields[c][k]

DumpsRead == \A c \in Class : Dumped(c) => RecordsOf(c)

\* The dumps of a known class and of all its superclasses have been read.
KnownDumped ==
    \A c \in known : \E R \in Levels : /\ Tops(c, R)
                                       /\ \A m \in 0..R : Dumped(Anc(c)[m])

\* Calls that have not come to their loop stand at the first byte, and a class has
\* no size before it is resolved.
AtFirstByte ==
    /\ pc \in {"call", "ret"} => \A k \in 1..Len(stack) : stack[k].index = 0
    /\ pc = "loop" => \A k \in 2..Len(stack) : stack[k].index = 0
    /\ \A c \in Class : ~resolved[c] => size[c] = 0

\* The loop has laid out the fields it has come past.
LaidSoFar ==
    pc = "loop" /\ Top.class \in known =>
       \A l \in Levels : AtLevel(Top, l) =>
          /\ Top.index = Bytes(Done(Top, l))
          /\ \A m \in Done(Top, l) : RightFor(Top.class, m)

\* And of a resolved class all fields.
LaidOut(c) ==
    /\ tfields[c] = Cardinality(Members(c))
    /\ size[c] = Bytes(Members(c))
    /\ \A m \in Members(c) : RightFor(c, m)

AllLaidOut == \A c \in known : resolved[c] => LaidOut(c)

\* What is true of the layouts throughout, and with it the inductive invariant.
Laid == DumpsRead /\ KnownDumped /\ AtFirstByte /\ LaidSoFar /\ AllLaidOut

LInv == CInv /\ DumpsRead /\ KnownDumped /\ AtFirstByte /\ LaidSoFar /\ AllLaidOut

\* What a dump is made of.
LEMMA DumpIs ==
    ASSUME dump \in Dumps
    PROVE  /\ dump.super \in [Class -> Nat]
           /\ \A d \in Class : dump.fields[d] \in Seq(FType) /\ Len(dump.fields[d]) \in Nat
  <1>1. dump.super \in [Class -> Class \cup {0}] /\ dump.fields \in [Class -> Seq(FType)]
    BY DumpsAssumption
  <1>2. \A d \in Class : dump.fields[d] \in Seq(FType)
    BY <1>1
  <1>3. \A d \in Class : Len(dump.fields[d]) \in Nat
    BY <1>2
  <1>4. dump.super \in [Class -> Nat]
    <2>1. PICK s : s = dump.super
      OBVIOUS
    <2>2. \A c \in Class : s[c] \in Class \cup {0}
      BY <1>1, <2>1
    <2>3. \A c \in Class : s[c] \in Nat
      <3>1. Class \cup {0} \subseteq Nat
        BY ClassNat
      <3> QED BY <2>2, <3>1
    <2>4. s \in [Class -> Nat]
      BY <1>1, <2>1, <2>3
    <2> QED BY <2>1, <2>4
  <1> QED BY <1>2, <1>3, <1>4

\* The n-th superclass of the m-th superclass is the (m + n)-th, whatever gives them.
LEMMA LineageShift ==
    ASSUME NEW sup \in [Class -> Nat], NEW c \in Nat, NEW m \in Nat, NEW n \in Nat
    PROVE  Lineage(sup, Lineage(sup, c)[m])[n] = Lineage(sup, c)[m + n]
  <1> DEFINE L == Lineage(sup, c)
             d == L[m]
             K == Lineage(sup, d)
             R == {k \in Nat : K[k] # L[m + k]}
  <1>1. /\ L \in [Nat -> Nat]
        /\ \A k \in Nat : L[k + 1] = IF L[k] \in Class THEN sup[L[k]] ELSE 0
    BY LineageIs
  <1>2. d \in Nat
    <2> HIDE DEF L
    <2> QED BY <1>1
  <1>3. /\ K[0] = d
        /\ \A k \in Nat : K[k + 1] = IF K[k] \in Class THEN sup[K[k]] ELSE 0
    <2> HIDE DEF d
    <2> QED BY <1>2, LineageIs
  <1>4. R \subseteq Nat /\ m + 0 = m
    OBVIOUS
  <1> HIDE DEF L, K
  <1>5. ASSUME R # {} PROVE FALSE
    <2>1. PICK k \in R : \A j \in R : k <= j
      <3> HIDE DEF R
      <3> QED BY <1>4, <1>5, Smallest
    <2>2. k # 0 /\ k \in Nat /\ K[k] # L[m + k]
      BY <1>3, <1>4, <2>1
    <2>3. PICK j \in Nat : k = j + 1
      <3>1. k - 1 \in Nat /\ k = (k - 1) + 1
        BY <2>2
      <3> QED BY <3>1
    <2>4. K[j] = L[m + j]
      BY <2>1, <2>3
    <2>5. m + j \in Nat /\ m + k = (m + j) + 1
      BY <2>3
    <2>6. /\ K[j + 1] = IF K[j] \in Class THEN sup[K[j]] ELSE 0
          /\ L[(m + j) + 1] = IF L[m + j] \in Class THEN sup[L[m + j]] ELSE 0
      BY <1>1, <1>3, <2>5
    <2> QED BY <2>2, <2>3, <2>4, <2>5, <2>6
  <1> QED BY <1>5 DEF K, L

\* The way up, as the dumps give it: it leaves the classes above the topmost one,
\* and no class is met twice.
LEMMA AncIs ==
    ASSUME dump \in Dumps, NEW c \in Class
    PROVE  /\ \A n \in Nat : Anc(c)[n] \in Nat
           /\ Anc(c)[0] = c
           /\ \A n \in Nat : Anc(c)[n + 1] = IF Anc(c)[n] \in Class THEN dump.super[Anc(c)[n]] ELSE 0
  <1>1. dump.super \in [Class -> Nat] /\ c \in Nat
    BY DumpIs, ClassNat
  <1>2. /\ Lineage(dump.super, c) \in [Nat -> Nat]
        /\ Lineage(dump.super, c)[0] = c
        /\ \A n \in Nat : Lineage(dump.super, c)[n + 1] =
              IF Lineage(dump.super, c)[n] \in Class THEN dump.super[Lineage(dump.super, c)[n]] ELSE 0
    BY <1>1, LineageIs
  <1> QED BY <1>2 DEF Anc

\* From a superclass on, the superclasses are those of the class.
LEMMA AncShift ==
    ASSUME dump \in Dumps, NEW c \in Class, NEW m \in Nat, NEW n \in Nat, NEW d, d = Anc(c)[m]
    PROVE  Anc(d)[n] = Anc(c)[m + n]
  <1>1. dump.super \in [Class -> Nat] /\ c \in Nat
    BY DumpIs, ClassNat
  <1>2. Lineage(dump.super, Lineage(dump.super, c)[m])[n] = Lineage(dump.super, c)[m + n]
    BY <1>1, LineageShift
  <1> QED BY <1>2 DEF Anc

\* There is none above the topmost class.
LEMMA AncAbove ==
    ASSUME dump \in Dumps, NEW c \in Class, NEW R \in Nat, Tops(c, R), NEW n \in Nat, R < n
    PROVE  Anc(c)[n] = 0
  <1> DEFINE B == {k \in Nat : R < k /\ Anc(c)[k] # 0}
  <1>1. B \subseteq Nat
    OBVIOUS
  <1>2. ASSUME B # {} PROVE FALSE
    <2>1. PICK k \in B : \A j \in B : k <= j
      <3> HIDE DEF B
      <3> QED BY <1>1, <1>2, Smallest
    <2>2. PICK j \in Nat : k = j + 1
      <3>1. k - 1 \in Nat /\ k = (k - 1) + 1
        BY <2>1
      <3> QED BY <3>1
    <2>3. Anc(c)[j + 1] = IF Anc(c)[j] \in Class THEN dump.super[Anc(c)[j]] ELSE 0
      BY AncIs
    <2>4. CASE j = R
      BY <2>1, <2>2, <2>3, <2>4 DEF Tops
    <2>5. CASE j # R
      <3>1. j \in Nat /\ R < j /\ ~(k <= j)
        BY <2>1, <2>2, <2>5
      <3>2. Anc(c)[j] = 0
        BY <2>1, <3>1
      <3> QED BY <2>1, <2>2, <2>3, <3>2, ClassNat
    <2> QED BY <2>4, <2>5
  <1> QED BY <1>2

\* No class is its own superclass, at any distance.
LEMMA AncDistinct ==
    ASSUME dump \in Dumps, NEW c \in Class, NEW R \in Nat, Tops(c, R),
           NEW i \in 0..R, NEW j \in 0..R, Anc(c)[i] = Anc(c)[j]
    PROVE  i = j
  <1>1. ASSUME NEW p \in 0..R, NEW q \in 0..R, Anc(c)[p] = Anc(c)[q], p < q PROVE FALSE
    <2>1. PICK t \in Nat : q + t = R /\ p + t \in 0..R /\ (p + t) + 1 \in 0..R
      <3>1. R - q \in Nat /\ q + (R - q) = R /\ p + (R - q) \in 0..R /\ (p + (R - q)) + 1 \in 0..R
        BY <1>1
      <3> QED BY <3>1
    <2>2. Anc(c)[p] \in Class /\ p \in Nat /\ q \in Nat
      BY DEF Tops
    <2>3. Anc(c)[p + t] = Anc(c)[q + t]
      <3>1. PICK d : d = Anc(c)[p]
        OBVIOUS
      <3>2. d = Anc(c)[q]
        BY <1>1, <3>1
      <3>3. Anc(d)[t] = Anc(c)[p + t]
        BY <2>2, <3>1, AncShift
      <3>4. Anc(d)[t] = Anc(c)[q + t]
        BY <2>2, <3>2, AncShift
      <3> QED BY <3>3, <3>4
    <2>4. Anc(c)[p + t] \in Class /\ dump.super[Anc(c)[p + t]] = 0 /\ Anc(c)[(p + t) + 1] \in Class
      BY <2>1, <2>3 DEF Tops
    <2>5. Anc(c)[(p + t) + 1] = 0
      <3>1. p + t \in Nat
        BY <2>1
      <3> QED BY <2>4, <3>1, AncIs
    <2> QED BY <2>4, <2>5, ClassNat
  <1> QED BY <1>1

\* The classes that the i-th superclass inherits from are those further up.
LEMMA InheritsIs ==
    ASSUME dump \in Dumps, NEW c \in Class, NEW R \in Levels, Tops(c, R),
           NEW i \in 0..R, NEW j \in 0..R
    PROVE  Inherits(Anc(c)[i], Anc(c)[j]) <=> i <= j
  <1>1. R \in Nat /\ i \in Nat /\ j \in Nat /\ Anc(c)[i] \in Class /\ Anc(c)[j] \in Class
    BY LevelsAre DEF Tops
  <1>2. ASSUME i <= j PROVE Inherits(Anc(c)[i], Anc(c)[j])
    <2>1. j - i \in 0..R /\ i + (j - i) = j /\ j - i \in Nat
      BY <1>1, <1>2
    <2>2. j - i \in Levels
      BY <2>1, LevelsAre
    <2>3. Anc(Anc(c)[i])[j - i] = Anc(c)[j]
      <3>1. PICK d : d = Anc(c)[i]
        OBVIOUS
      <3>2. PICK n \in Nat : d = Anc(c)[i] /\ n = j - i
        BY <2>1, <3>1
      <3>3. Anc(d)[n] = Anc(c)[i + n]
        BY <1>1, <3>2, AncShift
      <3> QED BY <2>1, <3>2, <3>3
    <2> QED BY <2>2, <2>3 DEF Inherits, Anc
  <1>3. ASSUME Inherits(Anc(c)[i], Anc(c)[j]) PROVE i <= j
    <2>1. PICK n \in Levels : Anc(Anc(c)[i])[n] = Anc(c)[j]
      BY <1>3 DEF Inherits, Anc
    <2>2. n \in Nat /\ Anc(c)[i + n] = Anc(c)[j] /\ i + n \in Nat
      <3>1. PICK d : d = Anc(c)[i]
        OBVIOUS
      <3>2. n \in Nat /\ i + n \in Nat
        BY <1>1, LevelsAre
      <3>3. Anc(d)[n] = Anc(c)[i + n]
        BY <1>1, <3>1, <3>2, AncShift
      <3> QED BY <2>1, <3>1, <3>2, <3>3
    <2>3. ~(R < i + n)
      BY <1>1, <2>2, AncAbove, ClassNat
    <2>4. i + n \in 0..R
      BY <1>1, <2>2, <2>3
    <2>5. i + n = j
      BY <1>1, <2>2, <2>4, AncDistinct
    <2> QED BY <1>1, <2>2, <2>5
  <1> QED BY <1>2, <1>3

\* What is in these sets.
LEMMA BelowIs ==
    ASSUME NEW c, NEW l, NEW p
    PROVE  p \in Below(c, l) <=>
              \E j \in 0..(l - 1) : \E k \in 1..Len(dump.fields[Anc(c)[j]]) : p = <<Anc(c)[j], k>>
  BY DEF Below, AllOf, FieldsOf

\* The fields of an instance are those of the classes below the topmost one.
LEMMA MembersAre ==
    ASSUME dump \in Dumps, NEW c \in Class, NEW R \in Levels, Tops(c, R)
    PROVE  Members(c) = Below(c, R)
  <1> DEFINE E == {e \in Class : Inherits(c, e) /\ dump.super[e] # 0}
             A == {Anc(c)[j] : j \in 0..(R - 1)}
  <1>1. R \in Nat /\ Anc(c)[0] = c /\ \A m \in 0..R : Anc(c)[m] \in Class
    BY LevelsAre, AncIs DEF Tops
  <1>2. ASSUME NEW e \in E PROVE e \in A
    <2>1. PICK n \in Levels : Anc(c)[n] = e
      BY DEF Inherits, Anc
    <2>2. n \in Nat /\ ~(R < n)
      BY <1>1, <2>1, LevelsAre, AncAbove, ClassNat
    <2>3. n # R
      BY <2>1 DEF Tops
    <2>4. n \in 0..(R - 1)
      BY <1>1, <2>2, <2>3
    <2> QED BY <2>1, <2>4
  <1>3. ASSUME NEW j \in 0..(R - 1) PROVE Anc(c)[j] \in E
    <2>1. j \in Nat /\ j \in 0..R /\ j + 1 \in 0..R
      BY <1>1
    <2>2. Anc(c)[j] \in Class /\ Anc(c)[j + 1] \in Class
      BY <1>1, <2>1
    <2>3. Anc(c)[j + 1] = dump.super[Anc(c)[j]]
      BY <2>1, <2>2, AncIs
    <2>4. dump.super[Anc(c)[j]] # 0
      BY <2>2, <2>3, ClassNat
    <2>5. j \in Levels
      BY <2>1, LevelsAre
    <2>6. Inherits(c, Anc(c)[j])
      BY <2>5 DEF Inherits, Anc
    <2> QED BY <2>2, <2>4, <2>6
  <1>4. E = A
    BY <1>2, <1>3
  <1>5. Members(c) = UNION {AllOf(d) : d \in E}
    BY DEF Members, AllOf, FieldsOf
  <1>6. Below(c, R) = UNION {AllOf(d) : d \in A}
    <2> HIDE DEF E
    <2>1. {AllOf(d) : d \in A} = {AllOf(Anc(c)[j]) : j \in 0..(R - 1)}
      OBVIOUS
    <2> QED BY <2>1 DEF Below
  <1> HIDE DEF E, A
  <1> QED BY <1>4, <1>5, <1>6

\* Where the k-th field of the l-th class stands among the bytes, and in values.
Stands(c, R, l, k) ==
    LET p == <<Anc(c)[l], k>>
    IN  /\ BytesBefore(c, p) = Below(c, l) \cup FieldsOf(Anc(c)[l], k - 1)
        /\ ValuesBefore(c, p) = (Below(c, R) \ Below(c, l + 1)) \cup FieldsOf(Anc(c)[l], k - 1)

\* The fields before the k-th field of the l-th superclass.
LEMMA BeforeIs ==
    ASSUME dump \in Dumps, NEW c \in Class, NEW R \in Levels, Tops(c, R),
           NEW l \in 0..(R - 1), NEW k \in 1..Len(dump.fields[Anc(c)[l]])
    PROVE  Stands(c, R, l, k)
  <1>1. PICK p : p = <<Anc(c)[l], k>>
    OBVIOUS
  <1> DEFINE n(d) == Len(dump.fields[d])
  <1>2. /\ R \in Nat /\ l \in Nat /\ l \in 0..R
        /\ \A j \in 0..(R - 1) : j \in 0..R /\ j \in Nat
        /\ \A j \in 0..R : Anc(c)[j] \in Class /\ n(Anc(c)[j]) \in Nat
    BY LevelsAre, DumpIs DEF Tops
  <1>3. Members(c) = Below(c, R)
    BY MembersAre
  <1>4. ASSUME NEW j \in 0..(R - 1), NEW i \in 1..n(Anc(c)[j]), NEW m, m = <<Anc(c)[j], i>>
        PROVE  /\ Lower(m, p) <=> j < l
               /\ Lower(p, m) <=> l < j
               /\ Earlier(m, p) <=> j = l /\ i < k
               /\ m \in Below(c, R) /\ (m \in Below(c, l) <=> j < l)
               /\ m \in Below(c, l + 1) <=> j <= l
               /\ m \in FieldsOf(Anc(c)[l], k - 1) <=> j = l /\ i < k
    <2>1. j \in 0..R /\ j \in Nat
      BY <1>2
    <2>2. (Anc(c)[j] = Anc(c)[l]) <=> j = l
      BY <1>2, <2>1, AncDistinct
    <2>3. (Inherits(Anc(c)[j], Anc(c)[l]) <=> j <= l) /\ (Inherits(Anc(c)[l], Anc(c)[j]) <=> l <= j)
      BY <1>2, <2>1, InheritsIs
    <2>4. m[1] = Anc(c)[j] /\ m[2] = i /\ p[1] = Anc(c)[l] /\ p[2] = k
      BY <1>1, <1>4
    <2>5. (Lower(m, p) <=> j < l) /\ (Lower(p, m) <=> l < j)
      BY <1>2, <2>1, <2>2, <2>3, <2>4 DEF Lower
    <2>6. Earlier(m, p) <=> j = l /\ i < k
      BY <2>2, <2>4 DEF Earlier
    <2>7. ASSUME NEW b \in 0..R PROVE m \in Below(c, b) <=> j < b
      <3>1. ASSUME j < b PROVE m \in Below(c, b)
        <4>1. j \in 0..(b - 1)
          BY <2>1, <3>1
        <4> QED BY <1>4, <4>1, BelowIs
      <3>2. ASSUME m \in Below(c, b) PROVE j < b
        <4>1. PICK a \in 0..(b - 1) : \E q \in 1..Len(dump.fields[Anc(c)[a]]) : m = <<Anc(c)[a], q>>
          BY <3>2, BelowIs
        <4>2. Anc(c)[a] = Anc(c)[j] /\ a \in 0..R
          BY <1>2, <1>4, <4>1
        <4>3. a = j
          BY <1>2, <2>1, <4>2, AncDistinct
        <4> QED BY <4>1, <4>3
      <3> QED BY <3>1, <3>2
    <2>8. R \in 0..R /\ l + 1 \in 0..R /\ (j < l + 1 <=> j <= l) /\ j < R
      BY <1>2, <2>1
    <2>9. m \in FieldsOf(Anc(c)[l], k - 1) <=> j = l /\ i < k
      <3>1. k \in Nat /\ i \in Nat \ {0}
        BY <1>2, <2>1
      <3>2. ASSUME m \in FieldsOf(Anc(c)[l], k - 1) PROVE j = l /\ i < k
        <4>1. PICK q \in 1..(k - 1) : m = <<Anc(c)[l], q>>
          BY <3>2 DEF FieldsOf
        <4>2. Anc(c)[j] = Anc(c)[l] /\ i = q
          BY <1>4, <4>1
        <4> QED BY <2>2, <3>1, <4>1, <4>2
      <3>3. ASSUME j = l, i < k PROVE m \in FieldsOf(Anc(c)[l], k - 1)
        <4>1. i \in 1..(k - 1)
          BY <3>1, <3>3
        <4> QED BY <1>4, <3>3, <4>1 DEF FieldsOf
      <3> QED BY <3>2, <3>3
    <2> QED BY <1>2, <2>5, <2>6, <2>7, <2>8, <2>9
  <1>5. ASSUME NEW m, m \in Members(c) \/ m \in Below(c, l) \/ m \in FieldsOf(Anc(c)[l], k - 1)
        PROVE  \E j \in 0..(R - 1) : \E i \in 1..n(Anc(c)[j]) : m = <<Anc(c)[j], i>>
    <2>1. CASE m \in Members(c)
      BY <1>3, <2>1, BelowIs
    <2>2. CASE m \in Below(c, l)
      <3>1. PICK a \in 0..(l - 1) : \E q \in 1..Len(dump.fields[Anc(c)[a]]) : m = <<Anc(c)[a], q>>
        BY <2>2, BelowIs
      <3>2. a \in 0..(R - 1)
        BY <1>2
      <3> QED BY <3>1, <3>2
    <2>3. CASE m \in FieldsOf(Anc(c)[l], k - 1)
      <3>1. PICK q \in 1..(k - 1) : m = <<Anc(c)[l], q>>
        BY <2>3 DEF FieldsOf
      <3>2. q \in 1..n(Anc(c)[l])
        BY <1>2
      <3> QED BY <3>1, <3>2
    <2> QED BY <1>5, <2>1, <2>2, <2>3
  <1> DEFINE F == FieldsOf(Anc(c)[l], k - 1)
  <1>6. ASSUME NEW m
        PROVE  /\ m \in BytesBefore(c, p) <=> m \in Below(c, l) \cup F
               /\ m \in ValuesBefore(c, p) <=> m \in (Below(c, R) \ Below(c, l + 1)) \cup F
    <2>1. CASE m \in Members(c) \/ m \in Below(c, l) \/ m \in F
      <3>1. PICK j \in 0..(R - 1) : \E i \in 1..n(Anc(c)[j]) : m = <<Anc(c)[j], i>>
        BY <1>5, <2>1
      <3>2. PICK i \in 1..n(Anc(c)[j]) : m = <<Anc(c)[j], i>>
        BY <3>1
      <3>3. /\ Lower(m, p) <=> j < l
            /\ Lower(p, m) <=> l < j
            /\ Earlier(m, p) <=> j = l /\ i < k
            /\ m \in Below(c, R) /\ (m \in Below(c, l) <=> j < l)
            /\ m \in Below(c, l + 1) <=> j <= l
            /\ m \in F <=> j = l /\ i < k
        BY <1>4, <3>2
      <3>4. j \in Nat
        BY <1>2
      <3> HIDE DEF F
      <3> QED BY <1>2, <1>3, <3>3, <3>4 DEF BytesBefore, ValuesBefore
    <2>2. CASE ~(m \in Members(c) \/ m \in Below(c, l) \/ m \in F)
      BY <1>3, <2>2 DEF BytesBefore, ValuesBefore
    <2> QED BY <2>1, <2>2
  <1>7. /\ BytesBefore(c, p) = Below(c, l) \cup F
        /\ ValuesBefore(c, p) = (Below(c, R) \ Below(c, l + 1)) \cup F
    BY <1>6
  <1> QED BY <1>1, <1>7 DEF Stands

\* How many fields there are.
LEMMA FieldsOfCount ==
    ASSUME NEW d, NEW n \in Nat
    PROVE  IsFiniteSet(FieldsOf(d, n)) /\ Cardinality(FieldsOf(d, n)) = n
  <1> DEFINE Is(k) == IsFiniteSet(FieldsOf(d, k)) /\ Cardinality(FieldsOf(d, k)) = k
             B == {k \in Nat : ~Is(k)}
  <1>1. ASSUME B # {} PROVE FALSE
    <2>1. B \subseteq Nat
      OBVIOUS
    <2>2. PICK k \in B : \A j \in B : k <= j
      <3> HIDE DEF B
      <3> QED BY <1>1, <2>1, Smallest
    <2>3. Is(0)
      <3>1. FieldsOf(d, 0) = {}
        BY DEF FieldsOf
      <3> QED BY <3>1, FS_EmptySet
    <2>4. PICK j \in Nat : k = j + 1
      <3>1. k # 0 /\ k \in Nat
        BY <2>2, <2>3
      <3>2. k - 1 \in Nat /\ k = (k - 1) + 1
        BY <3>1
      <3> QED BY <3>2
    <2>5. Is(j)
      BY <2>2, <2>4
    <2>6. FieldsOf(d, k) = FieldsOf(d, j) \cup {<<d, k>>} /\ <<d, k>> \notin FieldsOf(d, j)
      <3>1. \A q : q \in 1..k <=> q \in 1..j \/ q = k
        BY <2>4
      <3>2. k \notin 1..j
        BY <2>4
      <3> QED BY <3>1, <3>2 DEF FieldsOf
    <2>7. Is(k)
      BY <2>4, <2>5, <2>6, FS_AddElement
    <2> QED BY <2>2, <2>7
  <1> QED BY <1>1

\* The fields of the first l + 1 classes are those of the first l and of the next.
LEMMA BelowNext ==
    ASSUME dump \in Dumps, NEW c \in Class, NEW R \in Levels, Tops(c, R), NEW l \in 0..(R - 1)
    PROVE  /\ Below(c, l + 1) = Below(c, l) \cup AllOf(Anc(c)[l])
           /\ Below(c, l) \cap AllOf(Anc(c)[l]) = {}
  <1>1. R \in Nat /\ l \in Nat /\ l \in 0..R
    BY LevelsAre
  <1>2. \A j : j \in 0..((l + 1) - 1) <=> j \in 0..(l - 1) \/ j = l
    BY <1>1
  <1>3. Below(c, l + 1) = Below(c, l) \cup AllOf(Anc(c)[l])
    BY <1>2 DEF Below
  <1>4. ASSUME NEW p \in Below(c, l), p \in AllOf(Anc(c)[l]) PROVE FALSE
    <2>1. PICK a \in 0..(l - 1) : \E q \in 1..Len(dump.fields[Anc(c)[a]]) : p = <<Anc(c)[a], q>>
      BY BelowIs
    <2>2. p[1] = Anc(c)[a] /\ p[1] = Anc(c)[l]
      BY <1>4, <2>1 DEF AllOf, FieldsOf
    <2>3. a \in 0..R /\ a # l
      BY <1>1
    <2> QED BY <1>1, <2>2, <2>3, AncDistinct
  <1> QED BY <1>3, <1>4

\* The bytes of a field.
Weight(m) == Width[dump.fields[m[1]][m[2]]]

\* g gives every subset of S its bytes.
IsBytes(g, S) ==
    g = [s \in SUBSET S |-> IF s = {} THEN 0
                            ELSE Weight(CHOOSE x \in s : TRUE) + g[s \ {CHOOSE x \in s : TRUE}]]

\* Bytes is a sum.
LEMMA BytesIs ==
    ASSUME NEW S, IsFiniteSet(S), \A m \in S : Weight(m) \in Nat
    PROVE  \E g, w : /\ w \in [S -> Nat] /\ IsSum(g, w, S) /\ Bytes(S) = g[S]
                     /\ \A m \in S : w[m] = Weight(m)
  <1> DEFINE w == [m \in S |-> Weight(m)]
  <1>1. w \in [S -> Nat] /\ \A m \in S : w[m] = Weight(m)
    OBVIOUS
  <1> HIDE DEF w
  <1>2. ASSUME NEW g PROVE IsSum(g, w, S) <=> IsBytes(g, S)
    <2>1. ASSUME NEW s \in SUBSET S, s # {}
          PROVE  w[CHOOSE x \in s : TRUE] = Weight(CHOOSE x \in s : TRUE)
      <3>1. (CHOOSE x \in s : TRUE) \in S
        BY <2>1
      <3> QED BY <1>1, <3>1
    <2> DEFINE A == [s \in SUBSET S |-> IF s = {} THEN 0
                       ELSE w[CHOOSE x \in s : TRUE] + g[s \ {CHOOSE x \in s : TRUE}]]
               B == [s \in SUBSET S |-> IF s = {} THEN 0
                       ELSE Weight(CHOOSE x \in s : TRUE) + g[s \ {CHOOSE x \in s : TRUE}]]
    <2>2. ASSUME NEW s \in SUBSET S PROVE A[s] = B[s]
      BY <2>1
    <2>3. A = B
      BY <2>2
    <2> QED BY <2>3 DEF IsSum, IsBytes
  <1>3. \E g : IsBytes(g, S)
    BY <1>1, <1>2, SumExists
  <1> DEFINE b == CHOOSE g : IsBytes(g, S)
  <1>4. Bytes(S) = b[S]
    BY DEF Bytes, MapThenSumSet, MapThenFoldSet, IsBytes, Weight
  <1>5. IsSum(b, w, S)
    BY <1>2, <1>3
  <1> HIDE DEF b
  <1> QED BY <1>1, <1>4, <1>5

\* It is nothing for no field, and grows by the bytes of a field added.
LEMMA BytesAdds ==
    ASSUME NEW S, IsFiniteSet(S), NEW x, x \notin S, NEW T, T = S \cup {x},
           \A m \in T : Weight(m) \in Nat
    PROVE  Bytes(T) = Bytes(S) + Weight(x)
  <1>1. IsFiniteSet(T)
    BY FS_AddElement
  <1>2. PICK g, w : /\ w \in [S -> Nat] /\ IsSum(g, w, S) /\ Bytes(S) = g[S]
                    /\ \A m \in S : w[m] = Weight(m)
    BY BytesIs
  <1>3. PICK h, v : /\ v \in [T -> Nat] /\ IsSum(h, v, T) /\ Bytes(T) = h[T]
                    /\ \A m \in T : v[m] = Weight(m)
    BY <1>1, BytesIs
  <1>4. T \in SUBSET T /\ x \in T /\ T \ {x} = S /\ S \in SUBSET T /\ S \in SUBSET S
    OBVIOUS
  <1>5. h[T] \in Nat /\ h[T \ {x}] \in Nat /\ h[T] = v[x] + h[T \ {x}]
    <2>1. v \in [T -> Nat] /\ IsSum(h, v, T)
      BY <1>3
    <2> QED BY <1>1, <1>4, <2>1, SumTakes
  <1>6. g[S] = h[S]
    <2>1. \A m \in S : w[m] = v[m]
      BY <1>2, <1>3
    <2> QED BY <1>2, <1>3, <1>4, <2>1, SumAgrees
  <1>7. PICK a \in Nat, r \in Nat : a = Weight(x) /\ r = h[S]
    BY <1>4, <1>5
  <1>8. Bytes(T) = a + r /\ Bytes(S) = r
    BY <1>2, <1>3, <1>4, <1>5, <1>6, <1>7
  <1> QED BY <1>7, <1>8

\* No field, no byte.
LEMMA BytesNone == Bytes({}) = 0
  <1>1. IsFiniteSet({}) /\ \A m \in {} : Weight(m) \in Nat
    BY FS_EmptySet
  <1>2. PICK g, w : IsSum(g, w, {}) /\ Bytes({}) = g[{}]
    BY <1>1, BytesIs
  <1>3. {} \in SUBSET {}
    OBVIOUS
  <1> QED BY <1>2, <1>3, SumStep

\* A field of a dump has a width.
LEMMA WeightIs ==
    ASSUME dump \in Dumps, NEW d \in Class, NEW k \in 1..Len(dump.fields[d]), NEW m, m = <<d, k>>
    PROVE  Weight(m) \in Nat
  <1>1. dump.fields[d] \in Seq(FType)
    BY DumpIs
  <1>2. dump.fields[d][k] \in FType
    BY <1>1, SeqElement, Zenon
  <1>3. m[1] = d /\ m[2] = k
    OBVIOUS
  <1> QED BY <1>2, <1>3, WidthAssumption DEF Weight

\* A class whose dump and those of its superclasses have been read.
KnownPath(c, R) ==
    /\ c \in Class /\ R \in Levels /\ Tops(c, R)
    /\ \A m \in 0..R : Dumped(Anc(c)[m])

\* For such a class superId and cfields are what the dumps say.
LEMMA KnownIs ==
    ASSUME CInv, DumpsRead, NEW c, NEW R, KnownPath(c, R)
    PROVE  /\ \A m \in 0..R : Up(c)[m] = Anc(c)[m]
           /\ RootAt(c, R)
           /\ \A m \in 0..R : /\ Anc(c)[m] \in Class
                              /\ cfields[Anc(c)[m]] = Len(dump.fields[Anc(c)[m]])
  <1>1. /\ superId \in [Class -> Nat] /\ dump \in Dumps /\ c \in Class /\ c \in Nat /\ R \in Nat
        /\ Tops(c, R) /\ \A m \in 0..R : Anc(c)[m] \in Class
    BY LevelsAre, ClassNat DEF CInv, TypeOK, KnownPath, Tops
  <1>2. ASSUME NEW m \in 0..R
        PROVE  /\ superId[Anc(c)[m]] = dump.super[Anc(c)[m]]
               /\ cfields[Anc(c)[m]] = Len(dump.fields[Anc(c)[m]])
    <2>1. Anc(c)[m] \in Class /\ Dumped(Anc(c)[m])
      BY <1>1 DEF KnownPath
    <2> QED BY <2>1 DEF CInv, Read, DumpsRead, RecordsOf
  <1> DEFINE B == {m \in 0..R : Up(c)[m] # Anc(c)[m]}
  <1>3. ASSUME B # {} PROVE FALSE
    <2>1. B \subseteq Nat
      OBVIOUS
    <2>2. PICK m \in B : \A j \in B : m <= j
      <3> HIDE DEF B
      <3> QED BY <1>3, <2>1, Smallest
    <2>3. m # 0
      BY <1>1, <2>2, UpIs, AncIs
    <2>4. PICK j \in Nat : m = j + 1 /\ j \in 0..R
      <3>1. m - 1 \in Nat /\ m = (m - 1) + 1 /\ m - 1 \in 0..R
        BY <1>1, <2>2, <2>3
      <3> QED BY <3>1
    <2>5. Up(c)[j] = Anc(c)[j]
      BY <2>2, <2>4
    <2>6. Up(c)[j + 1] = IF Up(c)[j] \in Class THEN superId[Up(c)[j]] ELSE 0
      BY <1>1, UpIs
    <2>7. Anc(c)[j + 1] = IF Anc(c)[j] \in Class THEN dump.super[Anc(c)[j]] ELSE 0
      BY <1>1, AncIs
    <2> QED BY <1>2, <2>2, <2>4, <2>5, <2>6, <2>7
  <1>4. \A m \in 0..R : Up(c)[m] = Anc(c)[m]
    BY <1>3
  <1>5. R \in 0..R
    BY <1>1
  <1>6. RootAt(c, R)
    BY <1>1, <1>2, <1>4, <1>5 DEF RootAt, Tops
  <1> QED BY <1>1, <1>2, <1>4, <1>6

\* There are as many fields below level l as FieldSum counts.
LEMMA BelowCount ==
    ASSUME CInv, DumpsRead, NEW c, NEW R, KnownPath(c, R), NEW l \in 0..R
    PROVE  IsFiniteSet(Below(c, l)) /\ Cardinality(Below(c, l)) = FieldSum(c)[l]
  <1>1. /\ dump \in Dumps /\ superId \in [Class -> Nat] /\ cfields \in [Class -> Nat]
        /\ c \in Class /\ c \in Nat /\ R \in Levels /\ R \in Nat /\ Tops(c, R)
    BY LevelsAre, ClassNat DEF CInv, TypeOK, KnownPath
  <1> DEFINE Is(k) == IsFiniteSet(Below(c, k)) /\ Cardinality(Below(c, k)) = FieldSum(c)[k]
             B == {k \in 0..R : ~Is(k)}
  <1>2. ASSUME B # {} PROVE FALSE
    <2>1. B \subseteq Nat
      OBVIOUS
    <2>2. PICK k \in B : \A j \in B : k <= j
      <3> HIDE DEF B
      <3> QED BY <1>2, <2>1, Smallest
    <2>3. Is(0)
      <3>1. Below(c, 0) = {}
        BY DEF Below
      <3>2. FieldSum(c)[0] = 0
        BY <1>1, SumIs
      <3> QED BY <3>1, <3>2, FS_EmptySet
    <2>4. k # 0
      BY <2>2, <2>3
    <2>5. PICK j \in Nat : k = j + 1 /\ j \in 0..R /\ j \in 0..(R - 1)
      <3>1. k - 1 \in Nat /\ k = (k - 1) + 1 /\ k - 1 \in 0..R /\ k - 1 \in 0..(R - 1)
        BY <1>1, <2>2, <2>4
      <3> QED BY <3>1
    <2>6. IsFiniteSet(Below(c, j)) /\ Cardinality(Below(c, j)) = FieldSum(c)[j]
      BY <2>2, <2>5
    <2>7. PICK d \in Class : /\ d = Anc(c)[j] /\ d = Up(c)[j] /\ cfields[d] = Len(dump.fields[d])
                             /\ cfields[d] \in Nat
      <3>1. Anc(c)[j] \in Class /\ Up(c)[j] = Anc(c)[j]
            /\ cfields[Anc(c)[j]] = Len(dump.fields[Anc(c)[j]])
        BY <2>5, KnownIs
      <3>2. cfields[Anc(c)[j]] \in Nat
        BY <1>1, <3>1
      <3> QED BY <3>1, <3>2
    <2>8. IsFiniteSet(AllOf(d)) /\ Cardinality(AllOf(d)) = cfields[d]
      BY <2>7, FieldsOfCount DEF AllOf
    <2>9. Below(c, k) = Below(c, j) \cup AllOf(d) /\ Below(c, j) \cap AllOf(d) = {}
      BY <1>1, <2>5, <2>7, BelowNext
    <2>10. IsFiniteSet(Below(c, k))
           /\ Cardinality(Below(c, k)) = Cardinality(Below(c, j)) + Cardinality(AllOf(d))
      <3>1. Cardinality({}) = 0 /\ Cardinality(Below(c, j)) \in Nat
        BY <2>6, FS_EmptySet, FS_CardinalityType
      <3>2. PICK X, Y : X = Below(c, j) /\ Y = AllOf(d) /\ IsFiniteSet(X) /\ IsFiniteSet(Y)
        BY <2>6, <2>8
      <3>3. IsFiniteSet(X \cup Y)
            /\ Cardinality(X \cup Y) = Cardinality(X) + Cardinality(Y) - Cardinality(X \cap Y)
        BY <3>2, FS_Union
      <3>4. X \cup Y = Below(c, k) /\ Cardinality(X \cap Y) = 0
        BY <2>9, <3>1, <3>2
      <3>5. Cardinality(X) \in Nat /\ Cardinality(Y) \in Nat
        BY <3>2, FS_CardinalityType
      <3>6. IsFiniteSet(X \cup Y) /\ Cardinality(X \cup Y) = Cardinality(X) + Cardinality(Y)
        BY <3>3, <3>4, <3>5
      <3> QED BY <3>2, <3>4, <3>6
    <2>11. FieldSum(c)[j + 1] = FieldSum(c)[j] + cfields[d]
      <3>1. Up(c)[j] \in Class => FieldSum(c)[j + 1] = FieldSum(c)[j] + cfields[Up(c)[j]]
        BY <1>1, <2>5, SumIs
      <3> QED BY <2>7, <3>1
    <2>12. Is(k)
      BY <2>5, <2>6, <2>8, <2>10, <2>11
    <2> QED BY <2>2, <2>12
  <1> QED BY <1>2

\* The fields further down are among those further up.
LEMMA BelowGrows ==
    ASSUME NEW c, NEW l \in Nat, NEW b \in Nat, l <= b
    PROVE  Below(c, l) \subseteq Below(c, b)
  <1>1. \A j : j \in 0..(l - 1) => j \in 0..(b - 1)
    OBVIOUS
  <1> QED BY <1>1 DEF Below

\* The slot of a field, in terms of the numbers that the code has.
SlotFrom(c, R, l, k) ==
    SlotOf(c, <<Anc(c)[l], k>>) = FieldSum(c)[R] - FieldSum(c)[l + 1] + k

\* Every field of a known class has the slot the loop computes.
LEMMA SlotIs ==
    ASSUME CInv, DumpsRead, NEW c, NEW R, KnownPath(c, R), NEW l \in 0..(R - 1),
           NEW k \in 1..Len(dump.fields[Anc(c)[l]])
    PROVE  SlotFrom(c, R, l, k)
  <1>1. PICK p : p = <<Anc(c)[l], k>>
    OBVIOUS
  <1>2. /\ dump \in Dumps /\ superId \in [Class -> Nat] /\ cfields \in [Class -> Nat]
        /\ c \in Class /\ c \in Nat /\ R \in Levels /\ R \in Nat /\ Tops(c, R)
    BY LevelsAre, ClassNat DEF CInv, TypeOK, KnownPath
  <1>3. l \in Nat /\ l \in 0..R /\ l + 1 \in 0..R /\ R \in 0..R /\ l + 1 \in Nat /\ l + 1 <= R
    BY <1>2
  <1>4. Anc(c)[l] \in Class /\ Len(dump.fields[Anc(c)[l]]) \in Nat
    BY <1>2, <1>3, DumpIs DEF Tops
  <1>5. k - 1 \in Nat /\ k \in Nat /\ \A i \in 1..(k - 1) : i \in 1..Len(dump.fields[Anc(c)[l]])
    BY <1>4
  <1>6. PICK A, B, F : A = Below(c, R) /\ B = Below(c, l + 1) /\ F = FieldsOf(Anc(c)[l], k - 1)
    OBVIOUS
  <1>7. ValuesBefore(c, p) = (A \ B) \cup F
    <2>1. ValuesBefore(c, p) = (Below(c, R) \ Below(c, l + 1)) \cup FieldsOf(Anc(c)[l], k - 1)
      <3>1. Stands(c, R, l, k)
        BY <1>2, BeforeIs
      <3> QED BY <1>1, <3>1 DEF Stands
    <2> QED BY <1>6, <2>1
  <1>8. /\ IsFiniteSet(A) /\ Cardinality(A) = FieldSum(c)[R]
        /\ IsFiniteSet(B) /\ Cardinality(B) = FieldSum(c)[l + 1]
        /\ IsFiniteSet(F) /\ Cardinality(F) = k - 1
    BY <1>3, <1>5, <1>6, BelowCount, FieldsOfCount
  <1>9. A \cap B = B
    BY <1>2, <1>3, <1>6, BelowGrows
  <1>10. (A \ B) \cap F = {}
    <2>1. F \subseteq AllOf(Anc(c)[l])
      BY <1>5, <1>6 DEF FieldsOf, AllOf
    <2>2. AllOf(Anc(c)[l]) \subseteq B
      BY <1>2, <1>6, BelowNext
    <2> QED BY <2>1, <2>2
  <1>11. IsFiniteSet(A \ B) /\ Cardinality(A \ B) = Cardinality(A) - Cardinality(A \cap B)
    BY <1>8, FS_Difference
  <1>12. PICK D : D = A \ B
    OBVIOUS
  <1>13. Cardinality(D \cup F) = Cardinality(D) + Cardinality(F) - Cardinality(D \cap F)
    BY <1>8, <1>11, <1>12, FS_Union
  <1>14. Cardinality(D \cap F) = 0
    BY <1>10, <1>12, FS_EmptySet
  <1>15. FieldSum(c)[R] \in Nat /\ FieldSum(c)[l + 1] \in Nat
    BY <1>2, <1>3, SumIs
  <1>16. PICK a \in Nat, b \in Nat : a = FieldSum(c)[R] /\ b = FieldSum(c)[l + 1]
    BY <1>15
  <1>17. Cardinality(D) = a - b
    BY <1>8, <1>9, <1>11, <1>12, <1>16
  <1>18. Cardinality(D \cup F) = (a - b) + (k - 1)
    BY <1>5, <1>8, <1>13, <1>14, <1>17
  <1>19. Cardinality(ValuesBefore(c, p)) = (a - b) + (k - 1)
    BY <1>7, <1>12, <1>18
  <1>20. SlotOf(c, p) = (a - b) + (k - 1) + 1
    BY <1>19 DEF SlotOf
  <1>21. SlotOf(c, p) = (a - b) + k
    BY <1>5, <1>20
  <1> QED BY <1>1, <1>16, <1>21 DEF SlotFrom

\* The fields laid out by a frame at level l: as many as i counts, all of them
\* fields of an instance.
LEMMA DoneIs ==
    ASSUME CInv, DumpsRead, NEW f \in Frame, NEW R, KnownPath(f.class, R),
           NEW l \in Levels, AtLevel(f, l)
    PROVE  /\ IsFiniteSet(Done(f, l)) /\ Cardinality(Done(f, l)) = f.i
           /\ (l = 0 /\ R = 0) \/ (l < R /\ Done(f, l) \subseteq Below(f.class, R))
  <1>1. PICK c \in Class, n \in Nat, d \in Class : c = f.class /\ n = f.fieldNo /\ d = f.cc
    BY DEF Frame
  <1>2. /\ dump \in Dumps /\ superId \in [Class -> Nat] /\ cfields \in [Class -> Nat]
        /\ c \in Nat /\ R \in Levels /\ R \in Nat /\ Tops(c, R) /\ l \in Nat /\ KnownPath(c, R)
    BY <1>1, LevelsAre, ClassNat DEF CInv, TypeOK, KnownPath
  <1>3. /\ \A m \in 0..l : Up(c)[m] \in Class
        /\ l = 0 \/ superId[Up(c)[l]] # 0
        /\ d = Up(c)[l] /\ n <= cfields[d]
        /\ f.i = FieldSum(c)[l] + n
    BY <1>1 DEF AtLevel
  <1>4. /\ \A m \in 0..R : Up(c)[m] = Anc(c)[m]
        /\ RootAt(c, R)
        /\ \A m \in 0..R : cfields[Anc(c)[m]] = Len(dump.fields[Anc(c)[m]])
    BY <1>2, KnownIs
  <1>5. l <= R
    BY <1>2, <1>3, <1>4, NoneAbove
  <1>6. l \in 0..R /\ d = Anc(c)[l]
    BY <1>2, <1>3, <1>4, <1>5
  <1>7. (l = 0 /\ R = 0) \/ l < R
    <2>1. CASE l = R
      BY <1>2, <1>3, <1>4, <2>1 DEF RootAt
    <2> QED BY <1>2, <1>5, <2>1
  <1>8. IsFiniteSet(Below(c, l)) /\ Cardinality(Below(c, l)) = FieldSum(c)[l]
    BY <1>2, <1>6, BelowCount
  <1>9. IsFiniteSet(FieldsOf(d, n)) /\ Cardinality(FieldsOf(d, n)) = n
    BY FieldsOfCount
  <1>10. FieldsOf(d, n) \subseteq AllOf(d)
    <2>1. cfields[d] \in Nat /\ cfields[d] = Len(dump.fields[d])
      BY <1>2, <1>4, <1>6
    <2>2. \A k \in 1..n : k \in 1..Len(dump.fields[d])
      BY <1>3, <2>1
    <2> QED BY <2>2 DEF AllOf, FieldsOf
  <1>11. Below(c, l) \cap FieldsOf(d, n) = {}
    <2>1. CASE l = 0
      BY <2>1 DEF Below
    <2>2. CASE l < R
      <3>1. l \in 0..(R - 1)
        BY <1>2, <2>2
      <3> QED BY <1>2, <1>6, <1>10, <3>1, BelowNext
    <2> QED BY <1>7, <2>1, <2>2
  <1>12. Done(f, l) = Below(c, l) \cup FieldsOf(d, n)
    BY <1>1 DEF Done
  <1>13. IsFiniteSet(Done(f, l)) /\ Cardinality(Done(f, l)) = f.i
    <2>1. PICK X, Y : X = Below(c, l) /\ Y = FieldsOf(d, n)
      OBVIOUS
    <2>2. IsFiniteSet(X \cup Y)
          /\ Cardinality(X \cup Y) = Cardinality(X) + Cardinality(Y) - Cardinality(X \cap Y)
      BY <1>8, <1>9, <2>1, FS_Union
    <2>3. Cardinality(X \cap Y) = 0
      BY <1>11, <2>1, FS_EmptySet
    <2>4. FieldSum(c)[l] \in Nat
      BY <1>2, SumIs
    <2> QED BY <1>3, <1>8, <1>9, <1>12, <2>1, <2>2, <2>3, <2>4
  <1>14. ASSUME l < R PROVE Done(f, l) \subseteq Below(c, R)
    <2>1. l \in 0..(R - 1) /\ l + 1 \in Nat /\ l + 1 <= R
      BY <1>2, <1>14
    <2>2. Below(c, l + 1) = Below(c, l) \cup AllOf(d)
      BY <1>2, <1>6, <2>1, BelowNext
    <2>3. Below(c, l + 1) \subseteq Below(c, R)
      BY <1>2, <2>1, BelowGrows
    <2> QED BY <1>10, <1>12, <2>2, <2>3
  <1> QED BY <1>1, <1>7, <1>13, <1>14

-----------------------------------------------------------------------------
(* The steps.                                                              *)

\* What depends on the dumps alone stays as it is.
LEMMA SameDump ==
    ASSUME dump' = dump
    PROVE  /\ \A c : Anc(c)' = Anc(c) /\ Members(c)' = Members(c)
           /\ \A c, R : Tops(c, R)' <=> Tops(c, R)
           /\ \A c, m : SlotOf(c, m)' = SlotOf(c, m) /\ BytesBefore(c, m)' = BytesBefore(c, m)
           /\ \A S : Bytes(S)' = Bytes(S)
           /\ \A f, l : Done(f, l)' = Done(f, l)
  <1>1. \A c : Anc(c)' = Anc(c)
    BY DEF Anc
  <1>2. \A c, e : Inherits(c, e)' <=> Inherits(c, e)
    BY DEF Inherits, Levels
  <1>3. \A c : Members(c)' = Members(c)
    BY <1>2 DEF Members
  <1>4. \A c, R : Tops(c, R)' <=> Tops(c, R)
    BY <1>1 DEF Tops
  <1>5. \A p, q : Lower(p, q)' <=> Lower(p, q)
    BY <1>2 DEF Lower
  <1>6. \A c, m : BytesBefore(c, m)' = BytesBefore(c, m) /\ ValuesBefore(c, m)' = ValuesBefore(c, m)
    BY <1>3, <1>5 DEF BytesBefore, ValuesBefore, Earlier
  <1>7. \A c, m : SlotOf(c, m)' = SlotOf(c, m)
    BY <1>6 DEF SlotOf
  <1>8. ASSUME NEW S PROVE Bytes(S)' = Bytes(S)
    <2>1. \A m : Weight(m)' = Weight(m)
      BY DEF Weight
    <2>2. \A g : IsBytes(g, S)' <=> IsBytes(g, S)
      BY <2>1 DEF IsBytes
    <2>3. Bytes(S) = (CHOOSE g : IsBytes(g, S))[S]
      BY DEF Bytes, MapThenSumSet, MapThenFoldSet, IsBytes, Weight
    <2>4. Bytes(S)' = (CHOOSE g : IsBytes(g, S)')[S]
      BY DEF Bytes, MapThenSumSet, MapThenFoldSet, IsBytes, Weight
    <2> QED BY <2>2, <2>3, <2>4
  <1>9. \A f, l : Done(f, l)' = Done(f, l)
    BY <1>1 DEF Done, Below, AllOf
  <1> QED BY <1>1, <1>3, <1>4, <1>6, <1>7, <1>8, <1>9

\* A field keeps its place when its slot and its record do.
LEMMA RightStays ==
    ASSUME dump' = dump, NEW c, NEW m, RightFor(c, m),
           SlotOf(c, m) \in DOMAIN values'[c],
           values'[c][SlotOf(c, m)] = values[c][SlotOf(c, m)],
           finfo'[values[c][SlotOf(c, m)]] = finfo[values[c][SlotOf(c, m)]]
    PROVE  RightFor(c, m)'
  <1>1. SlotOf(c, m)' = SlotOf(c, m) /\ BytesBefore(c, m)' = BytesBefore(c, m)
    BY SameDump
  <1>2. Bytes(BytesBefore(c, m))' = Bytes(BytesBefore(c, m))
    <2>1. PICK S : S = BytesBefore(c, m)
      OBVIOUS
    <2>2. Bytes(S)' = Bytes(S)
      BY SameDump
    <2> QED BY <1>1, <2>1, <2>2 DEF Bytes
  <1>3. PICK s, v : s = SlotOf(c, m) /\ v = values[c][s]
    OBVIOUS
  <1>4. /\ s \in DOMAIN values'[c] /\ values'[c][s] = v /\ v # Unset
        /\ finfo'[v].ident = m /\ finfo'[v].ftype = dump.fields[m[1]][m[2]]
        /\ finfo'[v].offset = Bytes(BytesBefore(c, m))
    BY <1>3 DEF RightFor
  <1> QED BY <1>1, <1>2, <1>3, <1>4 DEF RightFor, Unset

\* A resolved class keeps its layout.
LEMMA LaidStays ==
    ASSUME dump' = dump, NEW c \in Class, resolved[c], LaidOut(c), Keeps(c), size'[c] = size[c]
    PROVE  LaidOut(c)'
  <1>1. Members(c)' = Members(c)
    BY SameDump
  <1>2. ASSUME NEW m \in Members(c) PROVE RightFor(c, m)'
    <2>1. RightFor(c, m)
      BY DEF LaidOut
    <2>2. SlotOf(c, m) \in DOMAIN values[c]
      BY <2>1 DEF RightFor
    <2> QED BY <2>1, <2>2, RightStays DEF Keeps
  <1>3. Bytes(Members(c))' = Bytes(Members(c))
    <2>1. PICK S : S = Members(c)
      OBVIOUS
    <2>2. Bytes(S)' = Bytes(S)
      BY SameDump
    <2> QED BY <1>1, <2>1, <2>2 DEF Bytes
  <1> QED BY <1>1, <1>2, <1>3 DEF LaidOut, Keeps

\* The dumps that have been read stay read.
LEMMA KnownStays ==
    ASSUME LInv, dump' = dump, \A c : Dumped(c) => Dumped(c)', NEW c \in known
    PROVE  \E R \in Levels : Tops(c, R)' /\ \A m \in 0..R : fields'[Anc(c)'[m]] # 0
  <1>1. PICK R \in Levels : Tops(c, R) /\ \A m \in 0..R : Dumped(Anc(c)[m])
    BY DEF LInv, KnownDumped
  <1>2. Tops(c, R)' /\ Anc(c)' = Anc(c)
    BY <1>1, SameDump
  <1>3. ASSUME NEW m \in 0..R PROVE fields'[Anc(c)'[m]] # 0
    <2>1. PICK a : a = Anc(c)[m] /\ Dumped(a)
      BY <1>1
    <2>2. Dumped(a)' /\ Anc(c)'[m] = a
      BY <1>2, <2>1
    <2> QED BY <2>2 DEF Dumped
  <1> QED BY <1>2, <1>3

\* Steps that touch neither classes nor records, and start no loop.
LEMMA StillLaid ==
    ASSUME LInv, Still, known' = known, stack' = stack, pc' = "loop" => pc = "loop",
           pc' \in {"call", "ret"} => stack = <<>> \/ pc \in {"call", "ret"}
    PROVE  Laid'
  <1>1. UNCHANGED <<dump, finfo, superId, cfields, tfields, values, size, resolved, fields, reread>>
    BY DEF Still, cinfo
  <1>2. \A c : Dumped(c)' <=> Dumped(c)
    BY <1>1 DEF Dumped
  <1>3. DumpsRead'
    BY <1>1, <1>2 DEF LInv, DumpsRead, RecordsOf
  <1>4. KnownDumped'
    <2>1. \A c \in known : \E R \in Levels : Tops(c, R)' /\ \A m \in 0..R : fields'[Anc(c)'[m]] # 0
      BY <1>1, <1>2, KnownStays
    <2> QED BY <2>1 DEF KnownDumped, Levels, Dumped
  <1>5. AtFirstByte'
    <2>1. pc' \in {"call", "ret"} => \A k \in 1..Len(stack) : stack[k].index = 0
      BY DEF LInv, AtFirstByte
    <2> QED BY <1>1, <2>1 DEF LInv, AtFirstByte
  <1>6. \A c, m : RightFor(c, m) => RightFor(c, m)'
    <2>1. ASSUME NEW c, NEW m, RightFor(c, m) PROVE RightFor(c, m)'
      <3>1. SlotOf(c, m) \in DOMAIN values'[c]
        BY <1>1, <2>1 DEF RightFor
      <3> QED BY <1>1, <2>1, <3>1, RightStays
    <2> QED BY <2>1
  <1>7. LaidSoFar'
    <2> SUFFICES ASSUME pc' = "loop", Top'.class \in known', NEW l \in Levels, AtLevel(Top, l)'
                 PROVE  Top'.index = Bytes(Done(Top, l))' /\ \A m \in Done(Top, l)' : RightFor(Top.class, m)'
      BY DEF LaidSoFar, Levels
    <2>1. PICK f : f = Top /\ f = Top'
      BY DEF Top
    <2>2. AtLevel(f, l)
      <3>1. AtLevel(f, l)'
        BY <2>1 DEF AtLevel
      <3> QED BY <1>1, <3>1, SameClasses DEF AtLevel
    <2>3. f.index = Bytes(Done(f, l)) /\ \A m \in Done(f, l) : RightFor(f.class, m)
      BY <2>1, <2>2 DEF LInv, LaidSoFar
    <2>4. PICK S : S = Done(f, l) /\ S = Done(f, l)'
      BY <1>1, SameDump
    <2>5. Bytes(S)' = Bytes(S)
      BY <1>1, SameDump
    <2>6. Done(Top, l)' = S
      BY <2>1, <2>4 DEF Done
    <2>7. Bytes(Done(Top, l))' = Bytes(S)'
      BY <2>6 DEF Bytes
    <2>8. \A m \in S : RightFor(f.class, m)'
      BY <1>6, <2>3, <2>4
    <2>9. \A m : RightFor(Top.class, m)' <=> RightFor(f.class, m)'
      BY <2>1 DEF RightFor, SlotOf, ValuesBefore, BytesBefore, Members
    <2> QED BY <2>1, <2>3, <2>4, <2>5, <2>6, <2>7, <2>8, <2>9
  <1>8. AllLaidOut'
    <2>1. ASSUME NEW c \in known, resolved[c] PROVE LaidOut(c)'
      <3>1. c \in Class /\ LaidOut(c)
        BY <2>1 DEF LInv, CInv, TypeOK, AllLaidOut
      <3>2. Keeps(c)
        BY <1>1, <2>1 DEF Keeps
      <3> QED BY <1>1, <2>1, <3>1, <3>2, LaidStays
    <2> QED BY <1>1, <2>1 DEF AllLaidOut
  <1> QED BY <1>3, <1>4, <1>5, <1>7, <1>8 DEF Laid

\* readClass: the class has the records of its dump.
LEMMA ReadClassLaid ==
    ASSUME LInv, NEW d \in Class, ReadClass(d)
    PROVE  Laid'
  <1>1. /\ pc = "read" /\ pc' = "read" /\ cfields' = [cfields EXCEPT ![d] = Len(dump.fields[d])]
        /\ fields' = [fields EXCEPT ![d] = Len(finfo) + 1]
        /\ UNCHANGED <<dump, tfields, values, size, resolved, stack, known>>
    BY DEF ReadClass, input
  <1>2. /\ CInv /\ stack = <<>> /\ finfo \in Seq(FInfo) /\ cfields \in [Class -> Nat]
        /\ fields \in [Class -> 0..(Len(finfo) + 1)] /\ dump \in Dumps
    BY <1>1 DEF LInv, CInv, TypeOK, Control
  <1>3. Len(finfo) \in Nat /\ Len(dump.fields[d]) \in Nat
    BY <1>2, DumpIs
  <1>4. ASSUME NEW c, Dumped(c) PROVE Dumped(c)'
    BY <1>1, <1>2, <1>3, <1>4 DEF Dumped
  <1>5. DumpsRead'
    <2>1. ASSUME NEW c \in Class, Dumped(c)' PROVE RecordsOf(c)'
      <3>1. CASE c = d
        <4>1. cfields'[d] = Len(dump.fields[d]) /\ fields'[d] = Len(finfo) + 1
          BY <1>1, <1>2
        <4>2. ASSUME NEW k \in 1..Len(dump.fields[d])
              PROVE  /\ finfo'[fields'[d] + k - 1].ident = <<d, k>>
                     /\ finfo'[fields'[d] + k - 1].ftype = dump.fields[d][k]
          <5>1. fields'[d] + k - 1 = Len(finfo) + k
            BY <1>3, <4>1
          <5> QED BY <1>2, <5>1, ReadClassAdds
        <4> QED BY <1>1, <3>1, <4>1, <4>2 DEF RecordsOf
      <3>2. CASE c # d
        <4>1. cfields'[c] = cfields[c] /\ fields'[c] = fields[c] /\ Dumped(c)
          BY <1>1, <1>2, <2>1, <3>2 DEF Dumped
        <4>2. RecordsOf(c) /\ Own(c) \subseteq 1..Len(finfo) /\ fields[c] \in Nat /\ cfields[c] \in Nat
          BY <1>2, <4>1, OwnInside DEF LInv, DumpsRead
        <4>3. ASSUME NEW k \in 1..cfields[c]
              PROVE  finfo'[fields[c] + k - 1] = finfo[fields[c] + k - 1]
          <5>1. fields[c] + k - 1 \in Own(c)
            BY <4>2 DEF Own
          <5> QED BY <1>2, <4>2, <5>1, ReadClassAdds
        <4> QED BY <1>1, <4>1, <4>2, <4>3 DEF RecordsOf
      <3> QED BY <3>1, <3>2
    <2> QED BY <2>1 DEF DumpsRead
  <1>6. KnownDumped'
    <2>1. \A c \in known : \E R \in Levels : Tops(c, R)' /\ \A m \in 0..R : fields'[Anc(c)'[m]] # 0
      BY <1>1, <1>4, KnownStays
    <2> QED BY <1>1, <2>1 DEF KnownDumped, Levels, Dumped
  <1>7. AtFirstByte'
    BY <1>1 DEF LInv, AtFirstByte
  <1>8. LaidSoFar'
    BY <1>1 DEF LaidSoFar
  <1>9. AllLaidOut'
    <2>1. ASSUME NEW c \in known, resolved[c] PROVE LaidOut(c)'
      <3>1. c \in Class /\ LaidOut(c)
        BY <2>1 DEF LInv, CInv, TypeOK, AllLaidOut
      <3>2. Keeps(c)
        BY <1>2, <2>1, <3>1, ReadClassKeepsLayout
      <3> QED BY <1>1, <2>1, <3>1, <3>2, LaidStays
    <2> QED BY <1>1, <2>1 DEF AllLaidOut
  <1> QED BY <1>5, <1>6, <1>7, <1>8, <1>9 DEF Laid

\* A class found to be known on entry: the dumps of its superclasses have been read.
LEMMA EnterKnown ==
    ASSUME CInv, NEW c \in Class, \A n \in Levels : Up(c)[n] \in Class => Dumped(Up(c)[n])
    PROVE  \E R \in Levels : Tops(c, R) /\ \A m \in 0..R : Dumped(Anc(c)[m])
  <1>1. PICK R \in Levels : RootAt(c, R)
    BY RootWhenDumped
  <1>2. /\ superId \in [Class -> Nat] /\ dump \in Dumps /\ c \in Nat /\ R \in Nat
        /\ \A m \in 0..R : m \in Levels
    BY LevelsAre, ClassNat DEF CInv, TypeOK
  <1>3. ASSUME NEW m \in 0..R
        PROVE  /\ Up(c)[m] \in Class /\ Dumped(Up(c)[m])
               /\ superId[Up(c)[m]] = dump.super[Up(c)[m]]
    <2>1. Up(c)[m] \in Class
      BY <1>1 DEF RootAt
    <2>2. Dumped(Up(c)[m])
      BY <1>2, <2>1
    <2> QED BY <2>1, <2>2 DEF CInv, Read
  <1> DEFINE B == {m \in 0..R : Up(c)[m] # Anc(c)[m]}
  <1>4. ASSUME B # {} PROVE FALSE
    <2>1. B \subseteq Nat
      OBVIOUS
    <2>2. PICK m \in B : \A j \in B : m <= j
      <3> HIDE DEF B
      <3> QED BY <1>4, <2>1, Smallest
    <2>3. m # 0
      BY <1>2, <2>2, UpIs, AncIs
    <2>4. PICK j \in Nat : m = j + 1 /\ j \in 0..R
      <3>1. m - 1 \in Nat /\ m = (m - 1) + 1 /\ m - 1 \in 0..R
        BY <1>2, <2>2, <2>3
      <3> QED BY <3>1
    <2>5. Up(c)[j] = Anc(c)[j]
      BY <2>2, <2>4
    <2>6. Up(c)[j + 1] = IF Up(c)[j] \in Class THEN superId[Up(c)[j]] ELSE 0
      BY <1>2, UpIs
    <2>7. Anc(c)[j + 1] = IF Anc(c)[j] \in Class THEN dump.super[Anc(c)[j]] ELSE 0
      BY <1>2, AncIs
    <2> QED BY <1>3, <2>2, <2>4, <2>5, <2>6, <2>7
  <1>5. \A m \in 0..R : Up(c)[m] = Anc(c)[m]
    BY <1>4
  <1>6. R \in 0..R /\ superId[Up(c)[R]] = 0
    BY <1>1, <1>2 DEF RootAt
  <1>7. Tops(c, R)
    BY <1>3, <1>5, <1>6 DEF Tops
  <1> QED BY <1>3, <1>5, <1>7

\* A call begins, at the first byte.
LEMMA EnterLaid ==
    ASSUME LInv, Enter
    PROVE  Laid'
  <1>1. /\ pc = "call" /\ pc' \in {"call", "ret"} /\ ~resolved[arg]
        /\ UNCHANGED <<dump, finfo, superId, cfields, values, size, resolved, fields>>
    BY DEF Enter, input
  <1>2. CInv /\ arg \in Class /\ stack \in Seq(Frame) /\ known \subseteq Class
    BY <1>1 DEF LInv, CInv, TypeOK, Control
  <1>3. \A c : Dumped(c)' <=> Dumped(c)
    BY <1>1 DEF Dumped
  <1>4. DumpsRead'
    BY <1>1, <1>3 DEF LInv, DumpsRead, RecordsOf
  <1>5. KnownDumped'
    <2>1. \A c \in known : \E R \in Levels : Tops(c, R)' /\ \A m \in 0..R : fields'[Anc(c)'[m]] # 0
      BY <1>1, <1>3, KnownStays
    <2>2. ASSUME NEW c \in known', c \notin known
          PROVE  \E R \in Levels : Tops(c, R)' /\ \A m \in 0..R : fields'[Anc(c)'[m]] # 0
      <3>1. c = arg /\ \A n \in Levels : Up(arg)[n] \in Class => Dumped(Up(arg)[n])
        BY <2>2 DEF Enter
      <3>2. PICK R \in Levels : Tops(c, R) /\ \A m \in 0..R : Dumped(Anc(c)[m])
        BY <1>2, <3>1, EnterKnown
      <3>3. Tops(c, R)' /\ Anc(c)' = Anc(c)
        BY <1>1, <3>2, SameDump
      <3> QED BY <1>1, <3>2, <3>3 DEF Dumped
    <2> QED BY <2>1, <2>2 DEF KnownDumped, Levels, Dumped
  <1>6. AtFirstByte'
    <2> DEFINE f == [class |-> arg, cc |-> arg, target |-> resolveSClassSize(arg) - cfields[arg],
                     fieldNo |-> 0, i |-> 0, index |-> 0]
    <2>1. stack' = <<f>> \o stack /\ f.index = 0
      BY DEF Enter
    <2>2. stack \in Seq(Frame \cup {f}) /\ f \in Frame \cup {f}
      BY <1>2
    <2> HIDE DEF f
    <2>3. \A k \in 1..Len(stack') : k = 1 \/ (k - 1 \in 1..Len(stack) /\ stack'[k] = stack[k - 1])
      BY <2>1, <2>2, PushIndex
    <2>4. stack'[1] = f
      BY <2>1, <2>2, PushSeq
    <2>5. \A k \in 1..Len(stack) : stack[k].index = 0
      BY <1>1 DEF LInv, AtFirstByte
    <2>6. \A k \in 1..Len(stack') : stack'[k].index = 0
      BY <2>1, <2>3, <2>4, <2>5
    <2> QED BY <1>1, <2>6 DEF LInv, AtFirstByte
  <1>7. LaidSoFar'
    BY <1>1 DEF LaidSoFar
  <1>8. AllLaidOut'
    <2>1. ASSUME NEW c \in known', resolved[c] PROVE LaidOut(c)'
      <3>1. c \in known
        BY <1>1, <2>1 DEF Enter
      <3>2. c \in Class /\ LaidOut(c)
        BY <1>2, <2>1, <3>1 DEF LInv, AllLaidOut
      <3>3. Keeps(c)
        BY <1>2, <2>1, <3>2, CallsKeepLayout
      <3> QED BY <1>1, <2>1, <3>2, <3>3, LaidStays
    <2> QED BY <1>1, <2>1 DEF AllLaidOut
  <1> QED BY <1>4, <1>5, <1>6, <1>7, <1>8 DEF Laid

\* A frame is at one level only.
LEMMA LevelUnique ==
    ASSUME NEW f, NEW M \in Levels, RootAt(f.class, M), superId \in [Class -> Nat], f.class \in Class,
           NEW l \in Levels, AtLevel(f, l), NEW k \in Levels, AtLevel(f, k)
    PROVE  l = k
  <1>1. PICK c \in Class : c = f.class
    OBVIOUS
  <1>2. /\ c \in Nat /\ M \in Nat /\ l \in Nat /\ k \in Nat /\ RootAt(c, M)
        /\ \A m \in 0..l : Up(c)[m] \in Class
        /\ \A m \in 0..k : Up(c)[m] \in Class
        /\ Up(c)[l] = Up(c)[k]
    BY <1>1, ClassNat, LevelsAre DEF AtLevel
  <1>3. l <= M /\ k <= M
    BY <1>2, NoneAbove
  <1>4. l \in 0..M /\ k \in 0..M
    BY <1>2, <1>3
  <1> QED BY <1>2, <1>4, UpDistinct

\* The loop begins: nothing is laid out, and it stands at the first byte.
LEMMA BeginLaid ==
    ASSUME LInv, Begin
    PROVE  Laid'
  <1>1. /\ pc = "ret" /\ pc' = "loop" /\ stack # <<>>
        /\ UNCHANGED <<dump, finfo, superId, cfields, tfields, size, resolved, fields, stack, known>>
    BY DEF Begin, input
  <1>2. CInv /\ stack \in Seq(Frame) /\ superId \in [Class -> Nat] /\ known \subseteq Class
    BY DEF LInv, CInv, TypeOK
  <1>3. \A c : Dumped(c)' <=> Dumped(c)
    BY <1>1 DEF Dumped
  <1>4. DumpsRead'
    BY <1>1, <1>3 DEF LInv, DumpsRead, RecordsOf
  <1>5. KnownDumped'
    <2>1. \A c \in known : \E R \in Levels : Tops(c, R)' /\ \A m \in 0..R : fields'[Anc(c)'[m]] # 0
      BY <1>1, <1>3, KnownStays
    <2> QED BY <1>1, <2>1 DEF KnownDumped, Levels, Dumped
  <1>6. \A k \in 1..Len(stack) : stack[k].index = 0
    BY <1>1 DEF LInv, AtFirstByte
  <1>7. AtFirstByte'
    <2>1. \A k \in 2..Len(stack) : k \in 1..Len(stack)
      BY <1>2
    <2> QED BY <1>1, <1>6, <2>1 DEF LInv, AtFirstByte
  <1>8. LaidSoFar'
    <2>1. PICK f \in Frame : f = Top /\ f = Top' /\ f = stack[1] /\ 1 \in 1..Len(stack)
      BY <1>1, <1>2, PopSeq DEF Top
    <2>2. f.index = 0 /\ Fresh(f) /\ f.class \in Class
      BY <1>1, <1>2, <1>6, <2>1 DEF CInv, Calls, Frame
    <2>3. PICK M \in Levels : RootAt(f.class, M)
      BY <1>1, <1>2, <2>1, StackRoot
    <2>4. ASSUME NEW l \in Levels, AtLevel(Top, l)'
          PROVE  Top'.index = Bytes(Done(Top, l))' /\ \A m \in Done(Top, l)' : RightFor(Top.class, m)'
      <3>1. AtLevel(f, l)
        <4>1. AtLevel(f, l)'
          BY <2>1, <2>4 DEF AtLevel
        <4> QED BY <1>1, <4>1, SameClasses DEF AtLevel
      <3>2. PICK c \in Class : c = f.class /\ c = f.cc /\ f.fieldNo = 0
        BY <2>2 DEF Fresh
      <3>3. l = 0
        <4>1. c \in Nat /\ M \in Nat /\ l \in Nat
          BY ClassNat, LevelsAre
        <4>2. Up(c)[0] = c
          BY <1>2, <4>1, UpIs
        <4>3. Up(c)[l] = c /\ \A m \in 0..l : Up(c)[m] \in Class
          BY <3>1, <3>2 DEF AtLevel
        <4>4. l <= M
          BY <1>2, <2>3, <3>2, <4>1, <4>3, NoneAbove
        <4>5. l \in 0..M /\ 0 \in 0..M
          BY <4>1, <4>4
        <4> QED BY <1>2, <2>3, <3>2, <4>1, <4>2, <4>3, <4>5, UpDistinct
      <3>4. Done(f, l) = {}
        <4>1. \A d : FieldsOf(d, 0) = {} /\ Below(d, 0) = {}
          BY DEF FieldsOf, Below
        <4> QED BY <3>2, <3>3, <4>1 DEF Done
      <3>5. Done(Top, l)' = {}
        <4>1. Done(f, l)' = {}
          BY <1>1, <3>4, SameDump
        <4> QED BY <2>1, <4>1 DEF Done
      <3>6. Bytes({})' = 0
        BY <1>1, BytesNone, SameDump
      <3>7. Bytes(Done(Top, l))' = Bytes({})'
        BY <3>5 DEF Bytes
      <3> QED BY <2>1, <2>2, <3>5, <3>6, <3>7
    <2> QED BY <2>4 DEF LaidSoFar, Levels
  <1>9. AllLaidOut'
    <2>1. ASSUME NEW c \in known, resolved[c] PROVE LaidOut(c)'
      <3>1. c \in Class /\ LaidOut(c)
        BY <1>2, <2>1 DEF LInv, AllLaidOut
      <3>2. Keeps(c)
        BY <1>2, <2>1, <3>1, CallsKeepLayout
      <3> QED BY <1>1, <2>1, <3>1, <3>2, LaidStays
    <2> QED BY <1>1, <2>1 DEF AllLaidOut
  <1> QED BY <1>4, <1>5, <1>7, <1>8, <1>9 DEF Laid

\* The known class in its loop, with its level.
LEMMA LoopKnown ==
    ASSUME LInv, pc = "loop", Top.class \in known
    PROVE  \E R \in Levels, l \in Levels :
              /\ KnownPath(Top.class, R) /\ Counting(Top, R, l) /\ RootAt(Top.class, R)
              /\ Top.index = Bytes(Done(Top, l))
              /\ \A m \in Done(Top, l) : RightFor(Top.class, m)
  <1>1. CInv /\ DumpsRead /\ Top.class \in Class /\ superId \in [Class -> Nat]
    BY DEF LInv, CInv, TypeOK
  <1>2. PICK R \in Levels : KnownPath(Top.class, R)
    BY <1>1 DEF LInv, KnownDumped, KnownPath
  <1>3. RootAt(Top.class, R)
    BY <1>1, <1>2, KnownIs
  <1>4. PICK M \in Levels, l \in Levels : Counting(Top, M, l)
    BY <1>1, TopCounts
  <1>5. M = R
    <2>1. Top.class \in Nat /\ M \in Nat /\ R \in Nat /\ RootAt(Top.class, M)
      BY <1>1, <1>4, ClassNat, LevelsAre DEF Counting
    <2> QED BY <1>1, <1>3, <2>1, RootUnique
  <1>6. AtLevel(Top, l)
    BY <1>4 DEF Counting
  <1>7. /\ Top.index = Bytes(Done(Top, l))
        /\ \A m \in Done(Top, l) : RightFor(Top.class, m)
    BY <1>6 DEF LInv, LaidSoFar
  <1> QED BY <1>2, <1>3, <1>4, <1>5, <1>7

\* The loop ends: every field of the class is laid out, and it stands at its last byte.
LEMMA FinishLaysOut ==
    ASSUME LInv, Finish, NEW c \in known, c = Top.class
    PROVE  LaidOut(c)'
  <1>1. /\ pc = "loop" /\ Top.i >= tfields[Top.class]
        /\ size' = IF tfields[Top.class] > 0 THEN [size EXCEPT ![Top.class] = Top.index] ELSE size
        /\ UNCHANGED <<dump, finfo, tfields, values>>
    BY DEF Finish, input
  <1>2. PICK R \in Levels, l \in Levels :
          /\ KnownPath(Top.class, R) /\ Counting(Top, R, l)
          /\ Top.index = Bytes(Done(Top, l))
          /\ \A m \in Done(Top, l) : RightFor(Top.class, m)
    BY <1>1, LoopKnown
  <1>3. PICK f \in Frame : f = Top
    BY <1>2 DEF Counting
  <1>4. c \in Class /\ c = f.class
    BY <1>3 DEF Frame
  <1>5. /\ CInv /\ DumpsRead /\ dump \in Dumps /\ size \in [Class -> Nat] /\ tfields \in [Class -> Nat]
        /\ R \in Nat /\ l \in Nat /\ Tops(c, R) /\ KnownPath(c, R)
    BY <1>2, <1>4, LevelsAre DEF LInv, CInv, TypeOK, KnownPath
  <1>6. Members(c) = Below(c, R)
    BY <1>4, <1>5, MembersAre
  <1>7. IsFiniteSet(Members(c)) /\ Cardinality(Members(c)) = tfields[c]
    <2>1. R \in 0..R
      BY <1>5
    <2>2. tfields[c] = FieldSum(c)[R]
      BY <1>2, <1>4 DEF Counting
    <2> QED BY <1>5, <1>6, <2>1, <2>2, BelowCount
  <1>8. /\ IsFiniteSet(Done(f, l)) /\ Cardinality(Done(f, l)) = f.i
        /\ (l = 0 /\ R = 0) \/ (l < R /\ Done(f, l) \subseteq Members(c))
    <2>1. AtLevel(f, l) /\ KnownPath(f.class, R)
      BY <1>2, <1>3 DEF Counting
    <2> QED BY <1>4, <1>5, <1>6, <2>1, DoneIs
  <1>9. /\ \A m \in Members(c) : RightFor(c, m)
        /\ (tfields[c] > 0 => Top.index = Bytes(Members(c)))
        /\ (tfields[c] = 0 => Members(c) = {})
    <2>1. tfields[c] = 0 => Members(c) = {}
      BY <1>7, FS_EmptySet
    <2>2. CASE R = 0
      <3>1. Below(c, 0) = {}
        BY DEF Below
      <3>2. Members(c) = {} /\ tfields[c] = 0
        BY <1>6, <1>7, <2>2, <3>1, FS_EmptySet
      <3> QED BY <3>2
    <2>3. CASE Done(f, l) \subseteq Members(c)
      <3>1. Cardinality(Done(f, l)) <= Cardinality(Members(c))
            /\ (Cardinality(Members(c)) = Cardinality(Done(f, l)) => Members(c) = Done(f, l))
        BY <1>7, <2>3, FS_Subset
      <3>2. f.i \in Nat /\ tfields[c] \in Nat /\ f.i >= tfields[c]
        BY <1>1, <1>3, <1>4, <1>5 DEF Frame
      <3>3. Done(f, l) = Members(c)
        BY <1>7, <1>8, <3>1, <3>2
      <3> QED BY <1>2, <1>3, <1>4, <2>1, <3>3
    <2> QED BY <1>8, <2>2, <2>3
  <1>10. size'[c] = Bytes(Members(c))
    <2>1. CASE tfields[c] > 0
      <3>1. size' = [size EXCEPT ![c] = Top.index]
        BY <1>1, <1>4, <2>1
      <3> QED BY <1>4, <1>5, <1>9, <2>1, <3>1
    <2>2. CASE tfields[c] = 0
      <3>1. ~resolved[c]
        <4>1. stack # <<>> /\ Top = stack[1]
          BY <1>1, <1>5, TopCounts
        <4>2. 1 \in 1..Len(stack)
          BY <1>5, <4>1, StackRoot
        <4> QED BY <1>4, <1>5, <4>1, <4>2 DEF CInv, Climbing
      <3>2. size'[c] = 0
        BY <1>1, <1>4, <2>2, <3>1 DEF LInv, AtFirstByte
      <3> QED BY <1>9, <2>2, <3>2, BytesNone
    <2>3. tfields[c] \in Nat
      BY <1>4, <1>5
    <2> QED BY <2>1, <2>2, <2>3
  <1>11. ASSUME NEW m \in Members(c) PROVE RightFor(c, m)'
    <2>1. RightFor(c, m)
      BY <1>9
    <2>2. SlotOf(c, m) \in DOMAIN values'[c]
      BY <1>1, <2>1 DEF RightFor
    <2> QED BY <1>1, <2>1, <2>2, RightStays
  <1>12. Members(c)' = Members(c)
    BY <1>1, SameDump
  <1>13. Bytes(Members(c))' = Bytes(Members(c))
    <2>1. PICK S : S = Members(c)
      OBVIOUS
    <2>2. Bytes(S)' = Bytes(S)
      BY <1>1, SameDump
    <2> QED BY <1>12, <2>1, <2>2 DEF Bytes
  <1> QED BY <1>1, <1>7, <1>10, <1>11, <1>12, <1>13 DEF LaidOut

\* The other classes stay as they are.
LEMMA FinishLaid ==
    ASSUME LInv, Finish
    PROVE  Laid'
  <1>1. /\ pc = "loop" /\ pc' = "ret" /\ stack' = Tail(stack)
        /\ resolved' = [resolved EXCEPT ![Top.class] = TRUE]
        /\ size' = IF tfields[Top.class] > 0 THEN [size EXCEPT ![Top.class] = Top.index] ELSE size
        /\ UNCHANGED <<dump, finfo, superId, cfields, tfields, values, fields, known>>
    BY DEF Finish, input
  <1>2. /\ CInv /\ stack \in Seq(Frame) /\ known \subseteq Class
        /\ size \in [Class -> Nat] /\ resolved \in [Class -> BOOLEAN]
    BY DEF LInv, CInv, TypeOK
  <1>3. stack # <<>> /\ Top \in Frame
    BY <1>1, <1>2, TopCounts
  <1>4. PICK t \in Class : t = Top.class
    BY <1>3 DEF Frame
  <1>5. /\ resolved'[t] /\ \A c \in Class : c # t => resolved'[c] = resolved[c] /\ size'[c] = size[c]
    <2>1. \A c \in Class : c # t => resolved'[c] = resolved[c]
      BY <1>1, <1>2, <1>4
    <2>2. \A c \in Class : c # t => size'[c] = size[c]
      BY <1>1, <1>2, <1>4
    <2>3. resolved'[t]
      BY <1>1, <1>2, <1>4
    <2> QED BY <2>1, <2>2, <2>3
  <1>6. \A c : Dumped(c)' <=> Dumped(c)
    BY <1>1 DEF Dumped
  <1>7. DumpsRead'
    BY <1>1, <1>6 DEF LInv, DumpsRead, RecordsOf
  <1>8. KnownDumped'
    <2>1. \A c \in known : \E R \in Levels : Tops(c, R)' /\ \A m \in 0..R : fields'[Anc(c)'[m]] # 0
      BY <1>1, <1>6, KnownStays
    <2> QED BY <1>1, <2>1 DEF KnownDumped, Levels, Dumped
  <1>9. AtFirstByte'
    <2>1. /\ Len(Tail(stack)) = Len(stack) - 1 /\ Len(stack) \in Nat \ {0}
          /\ \A k \in 1..(Len(stack) - 1) : Tail(stack)[k] = stack[k + 1]
      BY <1>2, <1>3, PopSeq
    <2>2. \A k \in 2..Len(stack) : stack[k].index = 0
      BY <1>1 DEF LInv, AtFirstByte
    <2>3. ASSUME NEW k \in 1..Len(stack') PROVE stack'[k].index = 0
      <3>1. k \in 1..(Len(stack) - 1) /\ k + 1 \in 2..Len(stack)
        BY <1>1, <2>1
      <3> QED BY <1>1, <2>1, <2>2, <3>1
    <2>4. \A c \in Class : ~resolved'[c] => size'[c] = 0
      BY <1>5 DEF LInv, AtFirstByte
    <2> QED BY <1>1, <2>3, <2>4 DEF AtFirstByte
  <1>10. LaidSoFar'
    BY <1>1 DEF LaidSoFar
  <1>11. AllLaidOut'
    <2>1. ASSUME NEW c \in known, resolved'[c] PROVE LaidOut(c)'
      <3>1. CASE c = t
        BY <1>4, <3>1, FinishLaysOut
      <3>2. CASE c # t
        <4>1. c \in Class /\ resolved[c] /\ size'[c] = size[c]
          BY <1>2, <1>5, <2>1, <3>2
        <4>2. LaidOut(c)
          BY <4>1 DEF LInv, AllLaidOut
        <4>3. Keeps(c)
          BY <1>2, <4>1, CallsKeepLayout
        <4> QED BY <1>1, <4>1, <4>2, <4>3, LaidStays
      <3> QED BY <3>1, <3>2
    <2> QED BY <1>1, <2>1 DEF AllLaidOut
  <1> QED BY <1>7, <1>8, <1>9, <1>10, <1>11 DEF Laid

\* What a turn adds to the fields laid out: the next one of the class climbed to, at
\* the slot and with the bytes before it that the dumps give it.
Adds(f, l, g, h, b, p) ==
    /\ p = <<g.cc, g.fieldNo + 1>> /\ b \in Levels /\ AtLevel(h, b)
    /\ IsFiniteSet(Done(g, b)) /\ Done(f, l) = Done(g, b)
    /\ p \notin Done(g, b) /\ Done(h, b) = Done(g, b) \cup {p}
    /\ \A m \in Done(h, b) : Weight(m) \in Nat
    /\ BytesBefore(g.class, p) = Done(g, b)
    /\ SlotOf(g.class, p) = g.target + g.fieldNo + 1
    /\ finfo[fields[g.cc] + g.fieldNo].ident = p
    /\ finfo[fields[g.cc] + g.fieldNo].ftype = dump.fields[p[1]][p[2]]

\* A turn of the loop lays out one more field.
LEMMA TurnAdds ==
    ASSUME CInv, DumpsRead, pc = "loop", Top.i < tfields[Top.class],
           NEW f, NEW M, NEW l, NEW n, NEW g, NEW h, NEW at, Turn(f, M, l, n, g, h, at),
           NEW R, KnownPath(f.class, R)
    PROVE  \E p : Adds(f, l, g, h, l + n, p)
  <1>1. /\ f = Top /\ g = Climbed(f, n) /\ n \in Levels /\ Climbs(f, n) /\ Counting(f, M, l)
        /\ Placed(g, fields[g.cc] + g.fieldNo, at)
    BY DEF Turn
  <1>2. /\ f \in Frame /\ M \in Levels /\ l \in Levels /\ RootAt(f.class, M)
        /\ tfields[f.class] = FieldSum(f.class)[M] /\ AtLevel(f, l)
        /\ superId \in [Class -> Nat] /\ cfields \in [Class -> Nat] /\ dump \in Dumps
    BY <1>1 DEF Counting, CInv
  <1>3. PICK c \in Class : c = f.class
    BY <1>2 DEF Frame
  <1>4. /\ R \in Levels /\ R \in Nat /\ M \in Nat /\ l \in Nat /\ n \in Nat /\ c \in Nat
        /\ Tops(c, R) /\ KnownPath(c, R)
    BY <1>1, <1>2, <1>3, LevelsAre, ClassNat DEF KnownPath
  <1>5. /\ \A m \in 0..R : Up(c)[m] = Anc(c)[m]
        /\ RootAt(c, R)
        /\ \A m \in 0..R : Anc(c)[m] \in Class /\ cfields[Anc(c)[m]] = Len(dump.fields[Anc(c)[m]])
    BY <1>4, KnownIs
  <1>6. M = R
    BY <1>2, <1>3, <1>4, <1>5, RootUnique
  <1>7. /\ l + n < M /\ l + n \in Levels /\ AtLevel(g, l + n)
        /\ g \in Frame /\ g.class = f.class /\ g.i = f.i
        /\ g.fieldNo < cfields[g.cc] /\ cfields[g.cc] \in Nat
        /\ n = 0 => g = f
        /\ n # 0 => f.fieldNo = cfields[f.cc]
    BY <1>1, ClimbedLevel
  <1>8. PICK b \in Nat : b = l + n /\ b \in Levels /\ b \in 0..(R - 1) /\ b \in 0..R /\ b + 1 \in 0..R
    <2>1. l + n \in Nat /\ l + n \in 0..(R - 1) /\ l + n \in 0..R /\ (l + n) + 1 \in 0..R
      BY <1>4, <1>6, <1>7
    <2> QED BY <1>7, <2>1
  <1>9. PICK d \in Class, j \in Nat : d = g.cc /\ j = g.fieldNo
    BY <1>7 DEF Frame
  <1>10. d = Anc(c)[b] /\ d = Up(c)[b] /\ cfields[d] = Len(dump.fields[d]) /\ cfields[d] \in Nat
    <2>1. d = Up(c)[b]
      BY <1>3, <1>7, <1>8, <1>9 DEF AtLevel
    <2> QED BY <1>2, <1>5, <1>8, <2>1
  <1>11. j + 1 \in 1..Len(dump.fields[d]) /\ (j + 1) - 1 = j /\ j + 1 \in Nat
    BY <1>7, <1>9, <1>10
  <1> DEFINE p == <<d, j + 1>>
  <1>12. KnownPath(g.class, R) /\ AtLevel(g, b)
    BY <1>7, <1>8
  <1>13. /\ IsFiniteSet(Done(f, l)) /\ Cardinality(Done(f, l)) = f.i
         /\ (l = 0 /\ R = 0) \/ (l < R /\ Done(f, l) \subseteq Below(c, R))
    BY <1>2, <1>3, DoneIs
  <1>14. IsFiniteSet(Done(g, b)) /\ Cardinality(Done(g, b)) = g.i
    BY <1>7, <1>8, <1>12, DoneIs
  <1>15. Done(f, l) \subseteq Done(g, b)
    <2>1. CASE n = 0
      <3>1. b = l
        BY <1>4, <1>8, <2>1
      <3> QED BY <1>7, <2>1, <3>1
    <2>2. CASE n # 0
      <3>1. l \in 0..R /\ l \in 0..(R - 1) /\ l + 1 \in Nat /\ l + 1 <= b
        BY <1>4, <1>8, <2>2
      <3>2. PICK e \in Class : e = f.cc /\ e = Anc(c)[l]
        BY <1>2, <1>3, <1>5, <3>1 DEF AtLevel
      <3>3. f.fieldNo = Len(dump.fields[e])
        BY <1>5, <1>7, <2>2, <3>1, <3>2
      <3>4. Done(f, l) = Below(c, l) \cup AllOf(e)
        BY <1>3, <3>2, <3>3 DEF Done, AllOf
      <3>5. Below(c, l + 1) = Below(c, l) \cup AllOf(e)
        BY <1>2, <1>4, <3>1, <3>2, BelowNext
      <3>6. Below(c, l + 1) \subseteq Below(c, b)
        BY <3>1, BelowGrows
      <3> QED BY <1>3, <1>7, <3>4, <3>5, <3>6 DEF Done
    <2> QED BY <2>1, <2>2
  <1>16. Done(f, l) = Done(g, b)
    <2>1. Cardinality(Done(f, l)) = Cardinality(Done(g, b))
      BY <1>7, <1>13, <1>14
    <2> QED BY <1>14, <1>15, <2>1, FS_Subset
  <1>17. Done(g, b) = Below(c, b) \cup FieldsOf(d, j)
    BY <1>3, <1>7, <1>9 DEF Done
  <1>18. h.class = c /\ h.cc = d /\ h.fieldNo = j + 1 /\ h.target = g.target /\ h.i = g.i + 1
    BY <1>3, <1>7, <1>9, TurnFrame
  <1>19. FieldsOf(d, j + 1) = FieldsOf(d, j) \cup {p} /\ p \notin FieldsOf(d, j)
    <2>1. \A q : q \in 1..(j + 1) <=> q \in 1..j \/ q = j + 1
      OBVIOUS
    <2>2. j + 1 \notin 1..j
      OBVIOUS
    <2> QED BY <2>1, <2>2 DEF FieldsOf
  <1>20. Done(h, b) = Done(g, b) \cup {p}
    <2>1. Done(h, b) = Below(c, b) \cup FieldsOf(d, j + 1)
      BY <1>18 DEF Done
    <2> QED BY <1>17, <1>19, <2>1
  <1>21. Below(c, b + 1) = Below(c, b) \cup AllOf(d) /\ Below(c, b) \cap AllOf(d) = {}
    <2>1. /\ Below(c, b + 1) = Below(c, b) \cup AllOf(Anc(c)[b])
          /\ Below(c, b) \cap AllOf(Anc(c)[b]) = {}
      BY <1>2, <1>4, <1>8, BelowNext
    <2> QED BY <1>10, <2>1
  <1>22. p \notin Done(g, b)
    <2>1. p \in AllOf(d)
      BY <1>11 DEF AllOf, FieldsOf
    <2> QED BY <1>17, <1>19, <1>21, <2>1
  <1>23. Stands(c, R, b, j + 1)
    BY <1>2, <1>4, <1>8, <1>10, <1>11, BeforeIs
  <1>24. BytesBefore(c, p) = Done(g, b)
    BY <1>10, <1>11, <1>17, <1>23 DEF Stands
  <1>25. SlotOf(c, p) = g.target + j + 1
    <2>1. SlotOf(c, p) = FieldSum(c)[R] - FieldSum(c)[b + 1] + (j + 1)
      <3>1. PICK k : k = j + 1 /\ k \in 1..Len(dump.fields[Anc(c)[b]])
        BY <1>10, <1>11
      <3>2. SlotFrom(c, R, b, k)
        BY <1>4, <1>8, <3>1, SlotIs
      <3> QED BY <1>10, <3>1, <3>2 DEF SlotFrom
    <2>2. FieldSum(c)[R] \in Nat /\ FieldSum(c)[b + 1] \in Nat
      BY <1>2, <1>4, SumIs
    <2>3. g.target = FieldSum(c)[R] - FieldSum(c)[b + 1]
      BY <1>2, <1>3, <1>6, <1>7, <1>12 DEF AtLevel
    <2> QED BY <2>1, <2>2, <2>3
  <1>26. AtLevel(h, b)
    BY <1>3, <1>7, <1>8, <1>9, <1>12, <1>18, TurnLevel
  <1>27. finfo[fields[d] + j].ident = p /\ finfo[fields[d] + j].ftype = dump.fields[d][j + 1]
    <2>1. Dumped(d) /\ fields[d] \in Nat
      BY <1>1, <1>9, OwnInside DEF Placed
    <2>2. fields[d] + (j + 1) - 1 = fields[d] + j
      BY <2>1
    <2>3. /\ cfields[d] = Len(dump.fields[d])
          /\ \A k \in 1..cfields[d] : /\ finfo[fields[d] + k - 1].ident = <<d, k>>
                                      /\ finfo[fields[d] + k - 1].ftype = dump.fields[d][k]
      BY <2>1 DEF DumpsRead, RecordsOf
    <2>4. PICK k : k = j + 1 /\ k \in 1..cfields[d]
      BY <1>11, <2>3
    <2>5. fields[d] + k - 1 = fields[d] + j
      BY <2>2, <2>4
    <2>6. finfo[fields[d] + k - 1].ident = <<d, k>> /\ finfo[fields[d] + k - 1].ftype = dump.fields[d][k]
      BY <2>3, <2>4
    <2> QED BY <2>4, <2>5, <2>6
  <1>28. ASSUME NEW m \in Done(h, b) PROVE Weight(m) \in Nat
    <2>1. m \in Below(c, b + 1)
      <3>1. FieldsOf(d, j + 1) \subseteq AllOf(d)
        <4>1. \A q \in 1..(j + 1) : q \in 1..Len(dump.fields[d])
          BY <1>10, <1>11
        <4> QED BY <4>1 DEF FieldsOf, AllOf
      <3> QED BY <1>18, <1>21, <3>1 DEF Done
    <2>2. PICK a \in 0..((b + 1) - 1) : \E q \in 1..Len(dump.fields[Anc(c)[a]]) : m = <<Anc(c)[a], q>>
      BY <2>1, BelowIs
    <2>3. a \in 0..R
      BY <1>4, <1>8
    <2> QED BY <1>2, <1>5, <2>2, <2>3, WeightIs
  <1>29. p[1] = d /\ p[2] = j + 1
    OBVIOUS
  <1>30. Adds(f, l, g, h, b, p)
    <2> HIDE DEF p
    <2>1. p = <<g.cc, g.fieldNo + 1>> /\ g.class = c
      BY <1>3, <1>7, <1>9 DEF p
    <2> QED BY <1>8, <1>9, <1>14, <1>16, <1>20, <1>22, <1>24, <1>25, <1>26, <1>27, <1>28, <1>29, <2>1
        DEF Adds
  <1> QED BY <1>8, <1>30

\* The records of the dumps, after a turn: an own field is given its name and its
\* offset, which leaves the field and the type.
LEMMA PlaceDumps ==
    ASSUME LInv, Place
    PROVE  DumpsRead'
  <1>1. CInv /\ finfo \in Seq(FInfo)
    BY DEF LInv, CInv, TypeOK
  <1>2. PICK f, M, l, n, g, h, at : Turn(f, M, l, n, g, h, at)
    BY <1>1, PlaceIs
  <1>3. Placed(g, fields[g.cc] + g.fieldNo, at)
    BY <1>2 DEF Turn
  <1>4. UNCHANGED <<dump, fields, cfields>>
    BY DEF Place, input
  <1>5. ASSUME NEW i \in 1..Len(finfo)
        PROVE  finfo'[i].ident = finfo[i].ident /\ finfo'[i].ftype = finfo[i].ftype
    <2>1. CASE i # at
      BY <1>3, <2>1 DEF Placed
    <2>2. CASE i = at
      <3>1. at # Len(finfo) + 1
        BY <1>1, <2>2
      <3> QED BY <1>3, <2>2, <3>1 DEF Placed
    <2> QED BY <2>1, <2>2
  <1>6. ASSUME NEW c \in Class, Dumped(c) PROVE RecordsOf(c)'
    <2>1. RecordsOf(c) /\ Own(c) \subseteq 1..Len(finfo) /\ fields[c] \in Nat /\ cfields[c] \in Nat
      BY <1>1, <1>6, OwnInside DEF LInv, DumpsRead
    <2>2. ASSUME NEW k \in 1..cfields[c] PROVE fields[c] + k - 1 \in 1..Len(finfo)
      <3>1. fields[c] + k - 1 \in Own(c)
        BY <2>1 DEF Own
      <3> QED BY <2>1, <3>1
    <2> QED BY <1>4, <1>5, <2>1, <2>2 DEF RecordsOf
  <1> QED BY <1>4, <1>6 DEF DumpsRead, Dumped

\* The fields that frame f has laid out are where they should be, and after a step
\* that goes on with h.
LaidBy(f, l, c) == f.index = Bytes(Done(f, l)) /\ \A m \in Done(f, l) : RightFor(c, m)

LaidNext(h, b, c) == h.index = Bytes(Done(h, b)) /\ \A m \in Done(h, b) : RightFor(c, m)'

\* A turn leaves the fields laid out before where they are, and lays out the next.
LEMMA TurnRight ==
    ASSUME LInv, pc = "loop", Top.i < tfields[Top.class], dump' = dump,
           NEW f, NEW M, NEW l, NEW n, NEW g, NEW h, NEW at, Turn(f, M, l, n, g, h, at),
           NEW b, NEW p, Adds(f, l, g, h, b, p), NEW c, c = f.class, LaidBy(f, l, c)
    PROVE  LaidNext(h, b, c)
  <1>1. /\ CInv /\ f = Top /\ g = Climbed(f, n) /\ n \in Levels /\ Climbs(f, n) /\ Counting(f, M, l)
        /\ Placed(g, fields[g.cc] + g.fieldNo, at)
    BY DEF Turn, LInv
  <1>2. PICK slot : slot = g.target + g.fieldNo + 1
    OBVIOUS
  <1>3. /\ g \in Frame /\ g.class = c /\ c \in Class
        /\ slot \in 1..tfields[c] /\ DOMAIN values[c] = 1..tfields[c]
        /\ DOMAIN values'[c] = 1..tfields[c]
        /\ values'[c][slot] = at
        /\ \A k \in 1..tfields[c] : k # slot => values'[c][k] = values[c][k]
    <2>1. /\ g \in Frame /\ g.class = f.class /\ g.class \in Class
          /\ slot \in 1..tfields[g.class] /\ DOMAIN values[g.class] = 1..tfields[g.class]
          /\ DOMAIN values'[g.class] = 1..tfields[g.class]
          /\ values'[g.class][slot] = at
          /\ \A k \in 1..tfields[g.class] : k # slot => values'[g.class][k] = values[g.class][k]
      BY <1>1, <1>2, TurnValues
    <2> QED BY <2>1
  <1>4. values[c][slot] = Unset
    <2>1. SlotInside
      BY <1>1, SlotFree
    <2> QED BY <1>1, <1>2, <1>3, <2>1 DEF SlotInside
  <1>5. finfo \in Seq(FInfo) /\ values[c] \in Seq(0..Len(finfo)) /\ Len(finfo) \in Nat
    <2>1. finfo \in Seq(FInfo) /\ values[c] \in Seq(0..Len(finfo))
      BY <1>1, <1>3 DEF CInv, TypeOK
    <2> QED BY <2>1
  <1>6. g.index = f.index /\ g.index = Bytes(Done(g, b))
    <2>1. g.index = f.index
      BY <1>1, ClimbedLevel
    <2> QED BY <2>1 DEF Adds, LaidBy
  <1>7. PICK src : src = fields[g.cc] + g.fieldNo
    OBVIOUS
  <1>8. /\ finfo[src].ident = p /\ finfo[src].ftype = dump.fields[p[1]][p[2]]
        /\ p \notin Done(g, b) /\ Done(f, l) = Done(g, b) /\ Done(h, b) = Done(g, b) \cup {p}
        /\ IsFiniteSet(Done(g, b)) /\ SlotOf(c, p) = slot /\ BytesBefore(c, p) = Done(g, b)
        /\ \A m \in Done(h, b) : Weight(m) \in Nat
    BY <1>2, <1>3, <1>7 DEF Adds
  <1>9. ASSUME NEW m \in Done(f, l) PROVE RightFor(c, m)'
    <2>1. RightFor(c, m)
      BY DEF LaidBy
    <2>2. PICK s, v : s = SlotOf(c, m) /\ v = values[c][s]
      OBVIOUS
    <2>3. s \in 1..tfields[c] /\ v # Unset /\ finfo[v].ident = m
      BY <1>3, <2>1, <2>2 DEF RightFor
    <2>4. s # slot
      BY <1>4, <2>2, <2>3
    <2>5. values'[c][s] = v /\ s \in DOMAIN values'[c]
      BY <1>3, <2>2, <2>3, <2>4
    <2>6. v \in 1..Len(finfo)
      <3>1. s \in DOMAIN values[c]
        BY <1>3, <2>3
      <3>2. s \in 1..Len(values[c])
        BY <1>5, <3>1
      <3>3. v \in 0..Len(finfo)
        BY <1>5, <2>2, <3>2, SeqElement, Zenon
      <3> QED BY <1>5, <2>3, <3>3 DEF Unset
    <2>7. v # at
      <3>1. m # p
        BY <1>8
      <3>2. v # src
        BY <1>8, <2>3, <3>1
      <3>3. v # Len(finfo) + 1
        BY <1>5, <2>6
      <3> QED BY <1>1, <1>7, <3>2, <3>3 DEF Placed
    <2>8. finfo'[v] = finfo[v]
      BY <1>1, <2>6, <2>7 DEF Placed
    <2> QED BY <2>1, <2>2, <2>5, <2>8, RightStays
  <1>10. RightFor(c, p)'
    <2>1. SlotOf(c, p)' = slot /\ BytesBefore(c, p)' = Done(g, b)
      BY <1>8, SameDump
    <2>2. Bytes(BytesBefore(c, p))' = Bytes(Done(g, b))
      <3>1. PICK S : S = Done(g, b)
        OBVIOUS
      <3>2. Bytes(S)' = Bytes(S)
        BY SameDump
      <3>3. Bytes(BytesBefore(c, p))' = Bytes(S)'
        BY <2>1, <3>1 DEF Bytes
      <3> QED BY <3>1, <3>2, <3>3
    <2>3. /\ finfo'[at].ident = p /\ finfo'[at].ftype = dump.fields[p[1]][p[2]]
          /\ finfo'[at].offset = Bytes(Done(g, b))
      BY <1>1, <1>6, <1>7, <1>8 DEF Placed
    <2>4. at # Unset
      <3>1. finfo' \in Seq(FInfo) /\ at \in 1..Len(finfo')
        BY <1>1 DEF Placed
      <3> QED BY <3>1 DEF Unset
    <2>5. slot \in DOMAIN values'[c] /\ values'[c][slot] = at
      BY <1>3
    <2> QED BY <2>1, <2>2, <2>3, <2>4, <2>5 DEF RightFor, Unset
  <1>11. h.index = Bytes(Done(h, b))
    <2>1. h.index = g.index + Width[finfo[src].ftype]
      BY <1>3, <1>7, TurnFrame
    <2>2. Weight(p) = Width[finfo[src].ftype]
      BY <1>8 DEF Weight
    <2>3. Bytes(Done(h, b)) = Bytes(Done(g, b)) + Weight(p)
      BY <1>8, BytesAdds
    <2> QED BY <1>6, <2>1, <2>2, <2>3
  <1>12. \A m \in Done(h, b) : RightFor(c, m)'
    <2>1. ASSUME NEW m \in Done(h, b) PROVE m \in Done(f, l) \/ m = p
      BY <1>8
    <2> QED BY <1>9, <1>10, <2>1
  <1> QED BY <1>11, <1>12 DEF LaidNext

\* One turn keeps the invariant.
LEMMA PlaceLaid ==
    ASSUME LInv, Place
    PROVE  Laid'
  <1>1. CInv /\ DumpsRead /\ stack \in Seq(Frame) /\ superId \in [Class -> Nat] /\ known \subseteq Class
    BY DEF LInv, CInv, TypeOK
  <1>2. PICK f, M, l, n, g, h, at : Turn(f, M, l, n, g, h, at)
    BY <1>1, PlaceIs
  <1>3. /\ pc = "loop" /\ pc' = "loop" /\ Top.i < tfields[Top.class]
        /\ UNCHANGED <<dump, superId, cfields, tfields, size, resolved, fields, known>>
    BY DEF Place, input
  <1>4. f = Top /\ h \in Frame /\ stack' = <<h>> \o Tail(stack) /\ Counting(f, M, l)
    BY <1>2 DEF Turn
  <1>5. stack # <<>> /\ Top' = h /\ Len(stack') = Len(stack) /\ \A k \in 2..Len(stack) : stack'[k] = stack[k]
    <2>1. stack # <<>>
      BY <1>1, <1>3, TopCounts
    <2>2. /\ stack' \in Seq(Frame) /\ Len(stack') = Len(stack) /\ stack'[1] = h
          /\ \A k \in 2..Len(stack) : stack'[k] = stack[k]
      BY <1>1, <1>4, <2>1, SetTopSeq
    <2>3. stack' # <<>>
      BY <1>1, <2>1, <2>2
    <2>4. Head(stack') = stack'[1]
      BY <2>2, <2>3, PopSeq
    <2> QED BY <2>1, <2>2, <2>4 DEF Top
  <1>6. PICK c \in Class : c = f.class /\ c = h.class /\ c = Top.class
    <2>1. g \in Frame /\ g.class = f.class
      BY <1>1, <1>2, <1>3, TurnValues
    <2>2. h.class = g.class
      BY <1>2, <2>1, TurnFrame
    <2> QED BY <1>4, <2>1, <2>2 DEF Frame
  <1>7. DumpsRead'
    BY PlaceDumps
  <1>8. KnownDumped'
    <2>1. \A d : Dumped(d)' <=> Dumped(d)
      BY <1>3 DEF Dumped
    <2>2. \A d \in known : \E R \in Levels : Tops(d, R)' /\ \A m \in 0..R : fields'[Anc(d)'[m]] # 0
      BY <1>3, <2>1, KnownStays
    <2> QED BY <1>3, <2>2 DEF KnownDumped, Levels, Dumped
  <1>9. AtFirstByte'
    BY <1>3, <1>5 DEF LInv, AtFirstByte
  <1>10. LaidSoFar'
    <2>1. ASSUME c \in known, NEW k \in Levels, AtLevel(Top, k)'
          PROVE  Top'.index = Bytes(Done(Top, k))' /\ \A m \in Done(Top, k)' : RightFor(Top.class, m)'
      <3>1. PICK R \in Levels : KnownPath(f.class, R)
        BY <1>1, <1>6, <2>1 DEF LInv, KnownDumped, KnownPath
      <3>2. PICK b, p : b = l + n /\ Adds(f, l, g, h, b, p)
        BY <1>1, <1>2, <1>3, <3>1, TurnAdds
      <3>3. AtLevel(f, l) /\ l \in Levels /\ M \in Levels /\ RootAt(f.class, M)
        BY <1>4 DEF Counting
      <3>4. LaidBy(f, l, c)
        BY <1>3, <1>4, <1>6, <2>1, <3>3 DEF LInv, LaidSoFar, LaidBy
      <3>5. /\ h.index = Bytes(Done(h, b))
            /\ \A m \in Done(h, b) : RightFor(c, m)'
        <4>1. LaidNext(h, b, c)
          BY <1>2, <1>3, <1>6, <3>2, <3>4, TurnRight
        <4> QED BY <4>1 DEF LaidNext
      <3>6. AtLevel(h, k)
        <4>1. AtLevel(h, k)'
          BY <1>5, <2>1 DEF AtLevel
        <4> QED BY <1>3, <4>1, SameClasses DEF AtLevel
      <3>7. k = b
        <4>1. b \in Levels /\ AtLevel(h, b)
          BY <3>2 DEF Adds
        <4>2. RootAt(h.class, M) /\ h.class \in Class
          BY <1>6, <3>3
        <4> QED BY <1>1, <3>3, <3>6, <4>1, <4>2, LevelUnique
      <3>8. PICK S : S = Done(h, b) /\ S = Done(h, b)'
        BY <1>3, SameDump
      <3>9. Bytes(S)' = Bytes(S)
        BY <1>3, SameDump
      <3>10. Done(Top, k)' = S
        BY <1>5, <3>7, <3>8 DEF Done
      <3>11. Bytes(Done(Top, k))' = Bytes(S)'
        BY <3>10 DEF Bytes
      <3>12. \A m : RightFor(Top.class, m)' <=> RightFor(c, m)'
        BY <1>5, <1>6 DEF RightFor, SlotOf, ValuesBefore, BytesBefore, Members
      <3> QED BY <1>5, <3>5, <3>8, <3>9, <3>10, <3>11, <3>12
    <2>2. Top'.class = c /\ known' = known
      BY <1>3, <1>5, <1>6
    <2> QED BY <2>1, <2>2 DEF LaidSoFar, Levels
  <1>11. AllLaidOut'
    <2>1. ASSUME NEW d \in known, resolved[d] PROVE LaidOut(d)'
      <3>1. d \in Class /\ LaidOut(d)
        BY <1>1, <2>1 DEF LInv, AllLaidOut
      <3>2. Keeps(d)
        BY <1>1, <2>1, <3>1, PlaceKeepsLayout
      <3> QED BY <1>3, <2>1, <3>1, <3>2, LaidStays
    <2> QED BY <1>3, <2>1 DEF AllLaidOut
  <1> QED BY <1>7, <1>8, <1>9, <1>10, <1>11 DEF Laid

\* The invariant of the layout.
THEOREM LaidInvariance == Spec => []LInv
  <1>1. Init => LInv
    <2> SUFFICES ASSUME Init PROVE LInv
      OBVIOUS
    <2>1. \A c \in Class : ~resolved[c] /\ size[c] = 0 /\ ~Dumped(c)
      BY DEF Init, Dumped
    <2>2. pc = "record" /\ known = {}
      BY DEF Init
    <2> QED BY <2>1, <2>2, InitKeeps
        DEF LInv, DumpsRead, KnownDumped, AtFirstByte, LaidSoFar, AllLaidOut
  <1>2. LInv /\ [Next]_vars => LInv'
    <2> SUFFICES ASSUME LInv, [Next]_vars PROVE LInv'
      OBVIOUS
    <2>1. CInv' /\ CInv
      BY NextKeeps DEF LInv
    <2>2. Laid' => LInv'
      BY <2>1 DEF LInv, Laid
    <2>3. CASE \/ NextRecord \/ StartResolving \/ DriveEnd \/ (\E c \in Class : Drive(c))
               \/ CallResolved \/ EnterSegv \/ ReturnToDriver \/ PlaceSegv \/ Terminated
               \/ UNCHANGED vars
      <3>1. Still /\ known' = known /\ stack' = stack
        BY <2>3 DEF NextRecord, StartResolving, DriveEnd, Drive, CallResolved, EnterSegv,
                    ReturnToDriver, PlaceSegv, Terminated, Still, vars, input, cinfo
      <3>2. pc' = "loop" => pc = "loop"
        BY <2>3 DEF NextRecord, StartResolving, DriveEnd, Drive, CallResolved, EnterSegv,
                    ReturnToDriver, PlaceSegv, Terminated, vars
      <3>3. pc' \in {"call", "ret"} => stack = <<>> \/ pc \in {"call", "ret"}
        BY <2>1, <2>3 DEF NextRecord, StartResolving, DriveEnd, Drive, CallResolved, EnterSegv,
                    ReturnToDriver, PlaceSegv, Terminated, vars, CInv, Control
      <3> QED BY <2>2, <3>1, <3>2, <3>3, StillLaid
    <2>4. CASE \E c \in Class : ReadClass(c)
      BY <2>2, <2>4, ReadClassLaid
    <2>5. CASE Enter
      BY <2>2, <2>5, EnterLaid
    <2>6. CASE Begin
      BY <2>2, <2>6, BeginLaid
    <2>7. CASE Place
      BY <2>2, <2>7, PlaceLaid
    <2>8. CASE Finish
      BY <2>2, <2>8, FinishLaid
    <2> QED BY <2>3, <2>4, <2>5, <2>6, <2>7, <2>8 DEF Next
  <1> QED BY <1>1, <1>2, PTL DEF Spec

\* LayoutCorrect: a class that resolveClassNode resolved after readClass had read its
\* dump and those of its superclasses has every field in values in order, with its
\* type and the offset of its bytes, and the size of all of them.
THEOREM LayoutsCorrect == Spec => []LayoutCorrect
  <1>1. LInv => LayoutCorrect
    BY DEF LInv, AllLaidOut, LaidOut, RightFor, SlotOf, LayoutCorrect
  <1> QED BY <1>1, LaidInvariance, PTL
====
