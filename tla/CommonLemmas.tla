---------------------------- MODULE CommonLemmas ----------------------------
(***************************************************************************)
(* What the proofs of several components need: of sequences, in particular *)
(* of those that stand for the C stack (the frames of a recursive function,*)
(* innermost first), of unsigned arithmetic, and of the natural numbers.   *)
(***************************************************************************)
EXTENDS Integers, Sequences, TLAPS, WellFoundedInduction

-----------------------------------------------------------------------------
(* Sequences and stacks.                                                   *)

\* An element of a sequence over S is in S.
LEMMA SeqElement ==
    ASSUME NEW S, NEW s \in Seq(S), NEW i \in 1..Len(s)
    PROVE  s[i] \in S
  OBVIOUS

\* A function on 1..n is a sequence of length n.
LEMMA FunctionSeq ==
    ASSUME NEW S, NEW n \in Nat, NEW f \in [1..n -> S]
    PROVE  f \in Seq(S) /\ Len(f) = n
  OBVIOUS

\* What Append makes of a sequence.
LEMMA AppendSeq ==
    ASSUME NEW S, NEW s \in Seq(S), NEW e \in S
    PROVE  Append(s, e) \in Seq(S)
  OBVIOUS

\* What Append does to the length and to the elements.
LEMMA AppendIs ==
    ASSUME NEW S, NEW s \in Seq(S), NEW e
    PROVE  /\ Len(Append(s, e)) = Len(s) + 1 /\ Append(s, e)[Len(s) + 1] = e
           /\ \A i \in 1..Len(s) : Append(s, e)[i] = s[i]
  OBVIOUS

\* What a concatenation holds.
LEMMA ConcatSeq ==
    ASSUME NEW S, NEW s \in Seq(S), NEW t \in Seq(S)
    PROVE  /\ s \o t \in Seq(S) /\ Len(s \o t) = Len(s) + Len(t)
           /\ \A i \in 1..Len(s \o t) : (s \o t)[i] = IF i <= Len(s) THEN s[i] ELSE t[i - Len(s)]
  OBVIOUS

\* Replacing, pushing and popping the innermost frame.
LEMMA SetTopSeq ==
    ASSUME NEW S, NEW s \in Seq(S), s # <<>>, NEW f \in S
    PROVE  /\ <<f>> \o Tail(s) \in Seq(S)
           /\ Len(<<f>> \o Tail(s)) = Len(s)
           /\ (<<f>> \o Tail(s))[1] = f
           /\ \A k \in 2..Len(s) : (<<f>> \o Tail(s))[k] = s[k]
  OBVIOUS

\* The frames below a pushed one move down by one.
LEMMA PushSeq ==
    ASSUME NEW S, NEW s \in Seq(S), NEW f \in S
    PROVE  /\ <<f>> \o s \in Seq(S)
           /\ Len(<<f>> \o s) = Len(s) + 1
           /\ (<<f>> \o s)[1] = f
           /\ \A k \in 2..(Len(s) + 1) : (<<f>> \o s)[k] = s[k - 1]
  OBVIOUS

\* The frames below a popped one move up by one.
LEMMA PopSeq ==
    ASSUME NEW S, NEW s \in Seq(S), s # <<>>
    PROVE  /\ Tail(s) \in Seq(S)
           /\ Len(Tail(s)) = Len(s) - 1
           /\ \A k \in 1..(Len(s) - 1) : Tail(s)[k] = s[k + 1]
           /\ Head(s) = s[1]
           /\ s[1] \in S
           /\ Len(s) \in Nat \ {0}
  OBVIOUS

\* The indices of the three, the other way round.
LEMMA PushIndex ==
    ASSUME NEW S, NEW s \in Seq(S), NEW f \in S
    PROVE  /\ 1 \in 1..Len(<<f>> \o s)
           /\ \A k \in 1..Len(s) : k + 1 \in 1..Len(<<f>> \o s) /\ (<<f>> \o s)[k + 1] = s[k]
           /\ \A k \in 1..Len(<<f>> \o s) :
                 k = 1 \/ (k - 1 \in 1..Len(s) /\ (<<f>> \o s)[k] = s[k - 1])
  <1>1. /\ <<f>> \o s \in Seq(S) /\ Len(s) \in Nat
        /\ Len(<<f>> \o s) = Len(s) + 1
        /\ \A k \in 2..(Len(s) + 1) : (<<f>> \o s)[k] = s[k - 1]
    BY PushSeq
  <1>2. ASSUME NEW k \in 1..Len(s)
        PROVE  k + 1 \in 1..Len(<<f>> \o s) /\ (<<f>> \o s)[k + 1] = s[k]
    <2>1. k + 1 \in 2..(Len(s) + 1) /\ (k + 1) - 1 = k
      BY <1>1
    <2>2. (<<f>> \o s)[k + 1] = s[(k + 1) - 1]
      BY <1>1, <2>1
    <2> QED BY <1>1, <2>1, <2>2
  <1>3. ASSUME NEW k \in 1..Len(<<f>> \o s), k # 1
        PROVE  k - 1 \in 1..Len(s) /\ (<<f>> \o s)[k] = s[k - 1]
    <2>1. k \in 2..(Len(s) + 1)
      BY <1>1, <1>3
    <2> QED BY <1>1, <2>1
  <1> QED BY <1>1, <1>2, <1>3

\* Popping leaves the frames below.
LEMMA PopIndex ==
    ASSUME NEW S, NEW s \in Seq(S), s # <<>>
    PROVE  /\ \A k \in 1..Len(Tail(s)) : k + 1 \in 1..Len(s) /\ Tail(s)[k] = s[k + 1]
           /\ \A k \in 1..Len(s) :
                 k = 1 \/ (k - 1 \in 1..Len(Tail(s)) /\ Tail(s)[k - 1] = s[k])
  <1>1. /\ Len(Tail(s)) = Len(s) - 1 /\ Len(s) \in Nat \ {0}
        /\ \A k \in 1..(Len(s) - 1) : Tail(s)[k] = s[k + 1]
    BY PopSeq
  <1>2. ASSUME NEW k \in 1..Len(Tail(s))
        PROVE  k + 1 \in 1..Len(s) /\ Tail(s)[k] = s[k + 1]
    BY <1>1
  <1>3. ASSUME NEW k \in 1..Len(s), k # 1
        PROVE  k - 1 \in 1..Len(Tail(s)) /\ Tail(s)[k - 1] = s[k]
    <2>1. k - 1 \in 1..(Len(s) - 1) /\ (k - 1) + 1 = k
      BY <1>1, <1>3
    <2>2. Tail(s)[k - 1] = s[(k - 1) + 1]
      BY <1>1, <2>1
    <2> QED BY <1>1, <2>1, <2>2
  <1> QED BY <1>2, <1>3

-----------------------------------------------------------------------------
(* Remainders.                                                             *)

\* Remainders are unique.
LEMMA ModUnique ==
    ASSUME NEW M \in Nat \ {0}, NEW q \in Int, NEW r \in 0..(M - 1),
           NEW p \in Int, NEW s \in 0..(M - 1), M * q + r = M * p + s
    PROVE  r = s
  <1>1. M * (q - p) = s - r
    OBVIOUS
  <1>2. CASE q - p >= 1
    <2>1. M * (q - p) >= M
      BY <1>2
    <2> QED BY <1>1, <2>1
  <1>3. CASE q - p <= -1
    <2>1. M * (q - p) <= -M
      BY <1>3
    <2> QED BY <1>1, <2>1
  <1>4. CASE q = p
    BY <1>4
  <1> QED BY <1>2, <1>3, <1>4

\* The remainder is in range, and differs by a multiple of the modulus.
LEMMA ModDef ==
    ASSUME NEW M \in Nat \ {0}, NEW a \in Int
    PROVE  /\ a % M \in 0..(M - 1)
           /\ a \div M \in Int
           /\ a = M * (a \div M) + (a % M)
  OBVIOUS

\* Reducing before or after a subtraction makes no difference.
LEMMA ModMinus ==
    ASSUME NEW M \in Nat \ {0}, NEW a \in Int, NEW b \in Int
    PROVE  ((a % M) - b) % M = (a - b) % M
  <1> DEFINE c == (a % M) - b
  <1>1. a % M \in Int /\ c \in Int /\ a - b \in Int
    BY ModDef
  <1>2. PICK q \in Int : a = M * q + (a % M)
    BY ModDef
  <1>3. PICK p \in Int : c = M * p + (c % M)
    BY <1>1, ModDef
  <1>4. PICK t \in Int : a - b = M * t + ((a - b) % M)
    BY <1>1, ModDef
  <1>5. c % M \in 0..(M - 1) /\ (a - b) % M \in 0..(M - 1)
    BY <1>1, ModDef
  <1>6. a - b = M * q + c
    BY <1>1, <1>2
  <1>7. a - b = M * (q + p) + (c % M)
    <2>1. M * q + M * p = M * (q + p)
      OBVIOUS
    <2> QED BY <1>3, <1>5, <1>6, <2>1
  <1>8. c % M = (a - b) % M
    <2> HIDE DEF c
    <2>1. PICK u \in Int : u = q + p
      OBVIOUS
    <2>2. M * u + (c % M) = M * t + ((a - b) % M)
      BY <1>4, <1>7, <2>1
    <2> QED BY <1>5, <2>2, ModUnique
  <1> QED BY <1>8

\* A multiple of the modulus does not change the remainder.
LEMMA ModShift ==
    ASSUME NEW M \in Nat \ {0}, NEW t \in Int, NEW c \in Int
    PROVE  (M * t + c) % M = c % M
  <1>1. PICK a \in Int : a = M * t + c
    OBVIOUS
  <1>2. PICK p \in Int : a = M * p + (a % M)
    BY ModDef
  <1>3. PICK q \in Int : c = M * q + (c % M)
    BY ModDef
  <1>4. a % M \in 0..(M - 1) /\ c % M \in 0..(M - 1)
    BY ModDef
  <1>5. M * t + M * q = M * (t + q)
    OBVIOUS
  <1>6. PICK u \in Int : u = t + q
    OBVIOUS
  <1>7. M * p + (a % M) = M * u + (c % M)
    BY <1>1, <1>2, <1>3, <1>4, <1>5, <1>6
  <1>8. a % M = c % M
    BY <1>4, <1>7, ModUnique
  <1> QED BY <1>1, <1>8

\* A number below the modulus is its own remainder.
LEMMA ModSmall ==
    ASSUME NEW M \in Nat \ {0}, NEW c \in 0..(M - 1)
    PROVE  c % M = c
  OBVIOUS

\* Reducing a factor first makes no difference.
FactorReduced(M, a, k, b) == ((a % M) * k + b) % M = (a * k + b) % M

LEMMA ModFactor ==
    ASSUME NEW M \in Nat \ {0}, NEW a \in Int, NEW k \in Int, NEW b \in Int
    PROVE  FactorReduced(M, a, k, b)
  <1>1. PICK q \in Int : a = M * q + (a % M)
    BY ModDef
  <1>2. PICK r \in Int : r = a % M
    BY ModDef
  <1>3. a * k + b = M * (q * k) + (r * k + b)
    BY <1>1, <1>2
  <1>4. q * k \in Int /\ r * k + b \in Int
    OBVIOUS
  <1>5. PICK t \in Int, c \in Int : t = q * k /\ c = r * k + b
    BY <1>4
  <1>6. (M * t + c) % M = c % M
    BY ModShift
  <1> QED BY <1>2, <1>3, <1>5, <1>6 DEF FactorReduced

\* A digit and what precedes it stay within the next power of the base ...
LEMMA DigitBound ==
    ASSUME NEW B \in Nat, NEW M \in Nat, NEW v \in 0..(M - 1), NEW b \in 0..(B - 1)
    PROVE  v * B + b \in 0..(M * B - 1)
  <1>1. v * B <= (M - 1) * B
    OBVIOUS
  <1>2. (M - 1) * B = M * B - B
    OBVIOUS
  <1>3. v * B \in Nat /\ M * B \in Nat
    OBVIOUS
  <1> QED BY <1>1, <1>2, <1>3

\* ... and both can be told from the number.
LEMMA DigitUnique ==
    ASSUME NEW B \in Nat \ {0}, NEW v \in Int, NEW w \in Int,
           NEW b \in 0..(B - 1), NEW c \in 0..(B - 1), v * B + b = w * B + c
    PROVE  v = w /\ b = c
  <1>1. B * v + b = B * w + c
    OBVIOUS
  <1>2. b = c
    BY <1>1, ModUnique
  <1>3. B * (v - w) = 0
    BY <1>1, <1>2
  <1>4. v - w = 0
    <2>1. CASE v - w >= 1
      <3>1. B * (v - w) >= B
        BY <2>1
      <3> QED BY <1>3, <3>1
    <2>2. CASE v - w <= -1
      <3>1. B * (v - w) <= -B
        BY <2>2
      <3> QED BY <1>3, <3>1
    <2> QED BY <2>1, <2>2
  <1> QED BY <1>2, <1>4

-----------------------------------------------------------------------------
(* The natural numbers.                                                    *)

\* A set of numbers has a smallest one.
LEMMA Smallest ==
    ASSUME NEW T, T \subseteq Nat, T # {}
    PROVE  \E n \in T : \A m \in T : n <= m
  <1> DEFINE R == {ss \in Nat \X Nat : ss[1] < ss[2]}
  <1>1. IsWellFoundedOn(R, Nat)
    BY NatLessThanWellFounded, Zenon DEF OpToRel
  <1> HIDE DEF R
  <1>2. PICK n \in T : \A m \in T : ~(<<m, n>> \in R)
    BY <1>1, WFMin
  <1>3. ASSUME NEW m \in T PROVE n <= m
    <2>1. m \in Nat /\ n \in Nat /\ ~(<<m, n>> \in R)
      BY <1>2
    <2>2. ~(m < n)
      BY <2>1 DEF R
    <2> QED BY <2>1, <2>2
  <1> QED BY <1>3

\* g is the beginning, up to n, of the function that starts with a and goes on by G.
PartialRun(g, n, S, a, G) ==
    /\ g \in [0..n -> S] /\ g[0] = a
    /\ \A k \in 0..(n - 1) : g[k + 1] = G[<<k, g[k]>>]

\* Two functions agree as far as m.
AgreeUpTo(f, g, m) == \A k \in 0..m : f[k] = g[k]

\* Two beginnings agree.
LEMMA PartialAgree ==
    ASSUME NEW S, NEW a \in S, NEW G \in [Nat \X S -> S], NEW m \in Nat, NEW n \in Nat,
           m <= n, NEW f, NEW g, PartialRun(f, m, S, a, G), PartialRun(g, n, S, a, G)
    PROVE  AgreeUpTo(f, g, m)
  <1> DEFINE T == {k \in 0..m : f[k] # g[k]}
  <1>1. SUFFICES ASSUME T # {} PROVE FALSE
    BY DEF AgreeUpTo
  <1>0. T \subseteq Nat
    OBVIOUS
  <1>2. PICK k \in T : \A j \in T : k <= j
    <2> HIDE DEF T
    <2> QED BY <1>0, <1>1, Smallest
  <1>3. k # 0
    BY <1>2 DEF PartialRun
  <1>4. k - 1 \in 0..(m - 1) /\ k - 1 \in 0..(n - 1) /\ k - 1 \in 0..m /\ (k - 1) + 1 = k
    BY <1>2, <1>3
  <1>5. f[k - 1] = g[k - 1]
    BY <1>2, <1>4
  <1>6. f[(k - 1) + 1] = G[<<k - 1, f[k - 1]>>] /\ g[(k - 1) + 1] = G[<<k - 1, g[k - 1]>>]
    BY <1>4 DEF PartialRun
  <1> QED BY <1>2, <1>4, <1>5, <1>6

\* Every beginning exists.
LEMMA PartialExists ==
    ASSUME NEW S, NEW a \in S, NEW G \in [Nat \X S -> S], NEW n \in Nat
    PROVE  \E g : PartialRun(g, n, S, a, G)
  <1> DEFINE T == {k \in Nat : ~\E g : PartialRun(g, k, S, a, G)}
  <1>1. SUFFICES ASSUME T # {} PROVE FALSE
    OBVIOUS
  <1>2. PICK k \in T : \A j \in T : k <= j
    BY <1>1, Smallest
  <1>3. PartialRun([i \in 0..0 |-> a], 0, S, a, G)
    BY DEF PartialRun
  <1>4. k # 0
    BY <1>2, <1>3
  <1>5. PICK g : PartialRun(g, k - 1, S, a, G)
    BY <1>2, <1>4
  <1> DEFINE h == [i \in 0..k |-> IF i = k THEN G[<<k - 1, g[k - 1]>>] ELSE g[i]]
  <1>6. g \in [0..(k - 1) -> S] /\ g[0] = a /\ \A j \in 0..((k - 1) - 1) : g[j + 1] = G[<<j, g[j]>>]
    BY <1>5 DEF PartialRun
  <1>7. k \in Nat /\ k - 1 \in Nat /\ g[k - 1] \in S /\ G[<<k - 1, g[k - 1]>>] \in S
    BY <1>2, <1>4, <1>6
  <1>8. h \in [0..k -> S] /\ h[0] = a
    BY <1>4, <1>6, <1>7
  <1>9. ASSUME NEW j \in 0..(k - 1) PROVE h[j + 1] = G[<<j, h[j]>>]
    <2>1. CASE j = k - 1
      <3>1. j + 1 = k /\ j \in 0..k /\ j # k
        BY <1>7, <2>1
      <3>2. h[j] = g[k - 1] /\ h[j + 1] = G[<<k - 1, g[k - 1]>>]
        BY <1>7, <2>1, <3>1
      <3> QED BY <2>1, <3>2
    <2>2. CASE j # k - 1
      <3>1. j \in 0..((k - 1) - 1) /\ j + 1 \in 0..k /\ j + 1 # k /\ j # k
        BY <1>7, <2>2
      <3> QED BY <1>6, <3>1
    <2> QED BY <2>1, <2>2
  <1>10. PartialRun(h, k, S, a, G)
    BY <1>8, <1>9 DEF PartialRun
  <1> QED BY <1>2, <1>10

\* f starts with a and goes on by G.
GoesOn(f, S, a, G) ==
    f \in [Nat -> S] /\ f[0] = a /\ \A n \in Nat : f[n + 1] = G[<<n, f[n]>>]

\* A function on the naturals may be given by its first value and by how each
\* value follows from the last.
LEMMA NatRecursion ==
    ASSUME NEW S, NEW a \in S, NEW G \in [Nat \X S -> S]
    PROVE  \E f : GoesOn(f, S, a, G)
  <1> DEFINE B(n) == CHOOSE g : PartialRun(g, n, S, a, G)
             f == [n \in Nat |-> B(n)[n]]
  <1>1. \A n \in Nat : PartialRun(B(n), n, S, a, G)
    BY PartialExists
  <1> HIDE DEF B
  <1>2. f \in [Nat -> S] /\ f[0] = a
    <2>1. \A n \in Nat : B(n)[n] \in S
      BY <1>1 DEF PartialRun
    <2>2. B(0)[0] = a
      BY <1>1 DEF PartialRun
    <2> QED BY <2>1, <2>2
  <1>3. ASSUME NEW n \in Nat PROVE f[n + 1] = G[<<n, f[n]>>]
    <2>1. n + 1 \in Nat /\ n <= n + 1 /\ n \in 0..n /\ n \in 0..((n + 1) - 1)
      OBVIOUS
    <2>2. B(n)[n] = B(n + 1)[n]
      <3>1. PICK m \in Nat : m = n + 1 /\ n <= m
        BY <2>1
      <3>2. PICK p, q : /\ p = B(n) /\ q = B(n + 1)
                        /\ PartialRun(p, n, S, a, G) /\ PartialRun(q, m, S, a, G)
        <4>1. PartialRun(B(n), n, S, a, G) /\ PartialRun(B(m), m, S, a, G)
          BY <1>1
        <4> QED BY <3>1, <4>1
      <3>3. AgreeUpTo(p, q, n)
        <4> HIDE DEF f
        <4> QED BY <3>1, <3>2, PartialAgree
      <3> QED BY <2>1, <3>2, <3>3 DEF AgreeUpTo
    <2>3. B(n + 1)[n + 1] = G[<<n, B(n + 1)[n]>>]
      BY <1>1, <2>1 DEF PartialRun
    <2> QED BY <2>1, <2>2, <2>3
  <1>4. GoesOn(f, S, a, G)
    BY <1>2, <1>3 DEF GoesOn
  <1> QED BY <1>4
=============================================================================
