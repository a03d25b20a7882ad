--------------------------- MODULE ByteReaderProof ---------------------------
(***************************************************************************)
(* Decoding, for every base, every file and every size of the buffers:     *)
(* what readUint and readUlong return, which files pass the header, when   *)
(* readVersion writes past its buffer and when a string does.              *)
(***************************************************************************)
EXTENDS ByteReader, CommonLemmas

Byte == 0 .. Base - 1

\* A byte is a number.
LEMMA ByteInt == Byte \subseteq Int
  BY BaseAssumption DEF Byte

\* The bytes of a file are bytes.
LEMMA ByteAt ==
    ASSUME NEW f \in Seq(Byte), NEW p \in Nat, NEW n \in Nat, There(f, p, n),
           NEW i \in 1 .. n
    PROVE  f[p + i] \in Byte
  <1>1. p + i \in 1 .. Len(f)
    BY DEF There
  <1> QED BY <1>1

\* The four bytes of a word, in the order of readUint.
LEMMA WordRange ==
    ASSUME NEW f \in Seq(Byte), NEW p \in Nat, There(f, p, 4)
    PROVE  /\ readUint(f, p) \in 0 .. Word - 1
           /\ readUint(f, p) = BigEndian4(f, p)
  <1>1. /\ f[p + 1] \in Byte /\ f[p + 2] \in Byte /\ f[p + 3] \in Byte
        /\ f[p + 4] \in Byte
    BY ByteAt
  <1>2. PICK a, b, c, d : /\ a \in Byte /\ b \in Byte /\ c \in Byte /\ d \in Byte
                          /\ a = f[p + 1] /\ b = f[p + 2] /\ c = f[p + 3] /\ d = f[p + 4]
    BY <1>1
  <1>3. Base \in Nat \ {0}
    BY BaseAssumption
  <1>4. a * Base + b \in 0 .. Base * Base - 1
    BY <1>2, <1>3, DigitBound DEF Byte
  <1>5. PICK v : v \in 0 .. Base * Base - 1 /\ v = a * Base + b
    BY <1>4
  <1>6. Base * Base \in Nat
    BY <1>3
  <1>7. v * Base + c \in 0 .. (Base * Base) * Base - 1
    BY <1>2, <1>3, <1>5, <1>6, DigitBound DEF Byte
  <1>8. PICK w : w \in 0 .. (Base * Base) * Base - 1 /\ w = v * Base + c
    BY <1>7
  <1>9. (Base * Base) * Base \in Nat
    BY <1>3
  <1>10. w * Base + d \in 0 .. ((Base * Base) * Base) * Base - 1
    BY <1>2, <1>3, <1>8, <1>9, DigitBound DEF Byte
  <1>11. readUint(f, p) = w * Base + d
    BY <1>2, <1>5, <1>8 DEF readUint, Shift
  <1>12. w * Base + d = a * (Base * Base * Base) + b * (Base * Base) + c * Base + d
    <2>1. a \in Int /\ b \in Int /\ c \in Int /\ d \in Int /\ Base \in Int
      <3>1. a \in Byte /\ b \in Byte /\ c \in Byte /\ d \in Byte
        BY <1>2
      <3>2. Base \in Int
        BY <1>3
      <3> QED BY <3>1, <3>2, ByteInt
    <2>2. w = (a * Base + b) * Base + c
      BY <1>5, <1>8
    <2>3. ((a * Base + b) * Base + c) * Base + d
          = a * (Base * Base * Base) + b * (Base * Base) + c * Base + d
      <3>1. PICK B \in Int : B = Base
        BY <2>1
      <3>2. (a * B + b) * B = a * (B * B) + b * B
        BY <2>1
      <3>3. (a * (B * B) + b * B + c) * B = a * (B * B * B) + b * (B * B) + c * B
        BY <2>1
      <3> QED BY <3>1, <3>2, <3>3
    <2> QED BY <2>2, <2>3
  <1> QED BY <1>2, <1>10, <1>11, <1>12 DEF Word, BigEndian4

\* Two words are equal only if their bytes are.
LEMMA WordBytes ==
    ASSUME NEW f \in Seq(Byte), NEW g \in Seq(Byte), NEW p \in Nat, NEW q \in Nat,
           There(f, p, 4), There(g, q, 4), readUint(f, p) = readUint(g, q)
    PROVE  \A i \in 1 .. 4 : f[p + i] = g[q + i]
  <1>1. /\ f[p + 1] \in Byte /\ f[p + 2] \in Byte /\ f[p + 3] \in Byte
        /\ f[p + 4] \in Byte /\ g[q + 1] \in Byte /\ g[q + 2] \in Byte
        /\ g[q + 3] \in Byte /\ g[q + 4] \in Byte
    BY ByteAt
  <1>2. Base \in Nat \ {0}
    BY BaseAssumption
  <1>3. ASSUME NEW v \in Int, NEW w \in Int, NEW b \in Byte, NEW c \in Byte,
               Shift(v, b) = Shift(w, c)
        PROVE  v = w /\ b = c
    <2>1. b \in 0 .. (Base - 1) /\ c \in 0 .. (Base - 1) /\ v * Base + b = w * Base + c
      BY <1>3 DEF Shift, Byte
    <2> HIDE DEF Byte
    <2> QED BY <1>2, <2>1, DigitUnique, SMT
  <1>4. ASSUME NEW v \in Int, NEW b \in Byte
        PROVE  Shift(v, b) \in Int
    BY <1>2 DEF Shift, Byte
  <1>5. Byte \subseteq Int
    BY ByteInt
  <1> DEFINE f2 == Shift(f[p + 1], f[p + 2])
             g2 == Shift(g[q + 1], g[q + 2])
             f3 == Shift(f2, f[p + 3])
             g3 == Shift(g2, g[q + 3])
  <1>6. f2 \in Int /\ g2 \in Int
    BY <1>1, <1>4, <1>5
  <1>7. f3 \in Int /\ g3 \in Int
    <2> HIDE DEF f2, g2
    <2> QED BY <1>1, <1>4, <1>6
  <1>8. f3 = g3 /\ f[p + 4] = g[q + 4]
    <2>1. Shift(f3, f[p + 4]) = Shift(g3, g[q + 4])
      BY DEF readUint
    <2> HIDE DEF f3, g3
    <2> QED BY <1>1, <1>3, <1>7, <2>1, SMTT(30)
  <1>9. f2 = g2 /\ f[p + 3] = g[q + 3]
    <2>1. Shift(f2, f[p + 3]) = Shift(g2, g[q + 3])
      BY <1>8
    <2> HIDE DEF f2, g2, f3, g3
    <2> QED BY <1>1, <1>3, <1>6, <2>1, SMTT(30)
  <1>10. f[p + 1] = g[q + 1] /\ f[p + 2] = g[q + 2]
    <2>1. Shift(f[p + 1], f[p + 2]) = Shift(g[q + 1], g[q + 2])
      BY <1>9
    <2> HIDE DEF f2, g2, f3, g3
    <2>2. f[p + 1] \in Int /\ g[q + 1] \in Int
      BY <1>1, <1>5, Zenon
    <2>3. PICK v, b, w, c : /\ v = f[p + 1] /\ b = f[p + 2] /\ w = g[q + 1] /\ c = g[q + 2]
      OBVIOUS
    <2>4. v \in Int /\ w \in Int /\ b \in Byte /\ c \in Byte /\ Shift(v, b) = Shift(w, c)
      BY <1>1, <2>1, <2>2, <2>3
    <2>5. v = w /\ b = c
      BY <1>3, <2>4
    <2> QED BY <2>3, <2>5
  <1>11. ASSUME NEW i \in 1 .. 4 PROVE i = 1 \/ i = 2 \/ i = 3 \/ i = 4
    OBVIOUS
  <1> QED BY <1>8, <1>9, <1>10, <1>11

\* What U must be, with H and L the upper and the lower half of a long.
LongOfHalves(W, H, L, B, U) == U = (H * W * B + L) % (W * W)
RightIfSmall(W, H, L, U) == U % W = L /\ ((U = H * W + L) <=> H = 0)

\* W is the range of a word, H its upper and L its lower half: what readUlong
\* computes is right modulo W, and right altogether only if H is zero.
LEMMA HalvesRight ==
    ASSUME NEW B \in Nat, B > 2, NEW W \in Nat, W = B * B * B * B,
           NEW H \in 0 .. W - 1, NEW L \in 0 .. W - 1,
           NEW U \in Int, LongOfHalves(W, H, L, B, U)
    PROVE  RightIfSmall(W, H, L, U)
  <1>1. W * W \in Nat \ {0} /\ W \in Nat \ {0}
    <2>1. B * B \in Nat \ {0}
      OBVIOUS
    <2>2. PICK C \in Nat \ {0} : C = B * B
      BY <2>1
    <2>3. W = C * C
      BY <2>2
    <2>4. W \in Nat \ {0}
      BY <2>3
    <2> QED BY <2>4
  <1>2. H * W * B + L \in Int
    OBVIOUS
  <1>3. PICK M, a : M \in Nat \ {0} /\ M = W * W /\ a \in Int /\ a = H * W * B + L
    BY <1>1, <1>2
  <1>4. PICK q \in Int : a = M * q + U
    <2>1. U = a % M
      BY <1>3 DEF LongOfHalves
    <2>2. PICK q \in Int : a = M * q + (a % M)
      BY <1>3, ModDef
    <2> QED BY <2>1, <2>2
  <1>5. U % W = L
    <2>1. U = W * (H * B - W * q) + L
      BY <1>3, <1>4
    <2>2. PICK t \in Int : t = H * B - W * q
      OBVIOUS
    <2>3. (W * t + L) % W = L % W
      <3>1. L \in Int
        OBVIOUS
      <3> QED BY <1>1, <3>1, ModShift, Zenon
    <2>4. L % W = L
      BY <1>1, ModSmall
    <2> QED BY <2>1, <2>2, <2>3, <2>4
  <1>6. ASSUME H = 0 PROVE U = H * W + L
    <2>1. H * W = 0 /\ H * W * B = 0
      BY <1>6
    <2>2. U = L % M
      BY <1>3, <2>1 DEF LongOfHalves
    <2>3. L <= W - 1 /\ W <= W * W
      BY <1>1
    <2>4. L \in 0 .. M - 1
      BY <1>3, <2>3
    <2>5. L % M = L
      BY <1>3, <2>4, ModSmall
    <2> QED BY <2>1, <2>2, <2>5
  <1>7. ASSUME U = H * W + L PROVE H = 0
    <2>1. H * W * B + L = W * W * q + H * W + L
      BY <1>3, <1>4, <1>7
    <2>2. W * (H * (B - 1) - W * q) = 0
      BY <2>1
    <2>3. PICK e \in Int : e = H * (B - 1) - W * q
      OBVIOUS
    <2>4. e = 0
      <3>1. W * e = 0 * W
        BY <2>2, <2>3
      <3>2. e * W + 0 = 0 * W + 0
        BY <3>1
      <3>3. 0 \in 0 .. W - 1
        BY <1>1
      <3> QED BY <1>1, <3>2, <3>3, DigitUnique
    <2>5. H * (B - 1) = W * q
      BY <2>3, <2>4
    <2>6. PICK s \in Int : s = B * B * B + B * B + B + 1
      OBVIOUS
    <2>7. (B - 1) * s = W - 1
      BY <2>6
    <2>8. H * (B - 1) * s = W * q * s
      BY <2>5
    <2>9. H * ((B - 1) * s) = H * (B - 1) * s
      OBVIOUS
    <2>10. H * (W - 1) = W * q * s
      BY <2>7, <2>8, <2>9
    <2>11. H = W * (H - q * s)
      BY <2>10
    <2>12. PICK t \in Int : t = H - q * s
      OBVIOUS
    <2>13. t * W + 0 = 0 * W + H
      BY <2>11, <2>12
    <2>14. 0 \in 0 .. W - 1
      BY <1>1
    <2> QED BY <1>1, <2>13, <2>14, DigitUnique
  <1> QED BY <1>5, <1>6, <1>7 DEF RightIfSmall

\* The expression of readUlong, and what it amounts to.
Joined(W, H, L, B, b, x) ==
    (((x * W + L) % (W * W)) * B + b) % (W * W) = (H * W * B + (L * B + b)) % (W * W)

\* The upper half H, whose sign was extended t times to x, joined with the lower
\* half L * B + b: the last shift moves H too, and the sign is shifted out.
LEMMA LongSum ==
    ASSUME NEW W \in Nat \ {0}, NEW H \in Int, NEW L \in Int, NEW b \in Int, NEW B \in Int,
           NEW t \in Int, NEW x \in Int, x = H + t * (W * W - W)
    PROVE  Joined(W, H, L, B, b, x)
  <1>1. PICK M \in Nat \ {0} : M = W * W
    <2>1. W * W \in Nat \ {0}
      OBVIOUS
    <2> QED BY <2>1
  <1>2. PICK a \in Int : a = x * W + L
    OBVIOUS
  <1>3. ((a % M) * B + b) % M = (a * B + b) % M
    <2>1. FactorReduced(M, a, B, b)
      BY ModFactor
    <2> QED BY <2>1 DEF FactorReduced
  <1>4. PICK u \in Int : u = t * (W - 1) * B
    OBVIOUS
  <1>5. PICK v \in Int : v = H * W * B + (L * B + b)
    OBVIOUS
  <1>6. a * B + b = M * u + v
    <2>1. PICK e \in Int : e = t * (W - 1)
      OBVIOUS
    <2>2. t * (W * W - W) = e * W
      BY <2>1
    <2>3. a = H * W + e * (W * W) + L
      BY <1>2, <2>2
    <2>4. a * B = H * W * B + (W * W) * (e * B) + L * B
      BY <2>3
    <2>5. M * u = (W * W) * (e * B)
      BY <1>1, <1>4, <2>1
    <2> QED BY <1>5, <2>4, <2>5
  <1>7. (M * u + v) % M = v % M
    BY ModShift
  <1> QED BY <1>1, <1>2, <1>3, <1>5, <1>6, <1>7 DEF Joined

\* The base and the range of a word.
LEMMA WordNat == Base \in Nat \ {0} /\ Word \in Nat \ {0}
  <1>1. PICK B \in Nat \ {0} : B = Base
    BY BaseAssumption
  <1>2. PICK C \in Nat \ {0} : C = B * B
    OBVIOUS
  <1>3. B * B * B * B = C * C
    BY <1>2
  <1>4. C * C \in Nat \ {0}
    OBVIOUS
  <1> QED BY <1>1, <1>3, <1>4 DEF Word

\* What readUlong returns: the upper half is shifted by one byte too much, and
\* its sign has no effect.
LEMMA LongValue ==
    ASSUME NEW f \in Seq(Byte), NEW p \in Nat, There(f, p, 8)
    PROVE  /\ readUlong(f, p) \in 0 .. Word * Word - 1
           /\ readUlong(f, p) = (readUint(f, p) * Word * Base + readUint(f, p + 4)) % (Word * Word)
  <1>1. There(f, p, 4)
    BY DEF There
  <1>2. There(f, p + 4, 4) /\ p + 4 \in Nat
    BY DEF There
  <1>3. readUint(f, p) \in Int /\ readUint(f, p + 4) \in Int
    <2>1. readUint(f, p) \in 0 .. Word - 1 /\ readUint(f, p + 4) \in 0 .. Word - 1
      BY <1>1, <1>2, WordRange
    <2> QED BY <2>1
  <1> DEFINE l == Shift(Shift(f[p + 5], f[p + 6]), f[p + 7])
             h == SignExtended(readUint(f, p))
  <1>5. /\ f[p + 5] \in Int /\ f[p + 6] \in Int /\ f[p + 7] \in Int
        /\ f[p + 8] \in Int
    <2>1. /\ f[p + 5] \in Byte /\ f[p + 6] \in Byte /\ f[p + 7] \in Byte
          /\ f[p + 8] \in Byte
      BY ByteAt
    <2> QED BY <2>1, ByteInt
  <1>6. l \in Int
    <2>1. ASSUME NEW a \in Int, NEW c \in Int PROVE Shift(a, c) \in Int
      BY WordNat DEF Shift
    <2>2. Shift(f[p + 5], f[p + 6]) \in Int
      BY <1>5, <2>1
    <2> QED BY <1>5, <2>1, <2>2
  <1>7. readUint(f, p + 4) = l * Base + f[p + 8]
    <2>1. /\ (p + 4) + 1 = p + 5 /\ (p + 4) + 2 = p + 6
          /\ (p + 4) + 3 = p + 7 /\ (p + 4) + 4 = p + 8
      OBVIOUS
    <2> QED BY <2>1 DEF readUint, Shift
  <1>8. readUlong(f, p) = (((h * Word + l) % (Word * Word)) * Base + f[p + 8]) % (Word * Word)
    BY DEF readUlong, Shift
  <1>9. h = IF 2 * readUint(f, p) >= Word THEN readUint(f, p) + Word * Word - Word
            ELSE readUint(f, p)
    BY DEF SignExtended
  <1> HIDE DEF l, h
  <1>10. PICK W \in Nat \ {0} : W = Word
    BY WordNat
  <1>11. PICK B \in Int : B = Base
    BY WordNat
  <1>12. PICK H \in Int : H = readUint(f, p)
    BY <1>3
  <1>13. PICK L \in Int : L = l
    BY <1>6
  <1>14. PICK b \in Int : b = f[p + 8]
    BY <1>5
  <1>15. PICK t \in Int : h = H + t * (W * W - W)
    <2>1. CASE 2 * H >= W
      <3>1. h = H + W * W - W
        BY <1>9, <1>10, <1>12, <2>1
      <3>2. h = H + 1 * (W * W - W)
        BY <3>1
      <3> QED BY <3>2
    <2>2. CASE ~(2 * H >= W)
      <3>1. h = H
        BY <1>9, <1>10, <1>12, <2>2
      <3>2. h = H + 0 * (W * W - W)
        BY <3>1
      <3> QED BY <3>2
    <2> QED BY <2>1, <2>2
  <1>16. PICK x \in Int : x = h
    BY <1>15
  <1>17. (((x * W + L) % (W * W)) * B + b) % (W * W) = (H * W * B + (L * B + b)) % (W * W)
    <2>1. Joined(W, H, L, B, b, x)
      BY <1>15, <1>16, LongSum
    <2> QED BY <2>1 DEF Joined
  <1>18. readUlong(f, p) = (H * W * B + (L * B + b)) % (W * W)
    <2>1. readUlong(f, p) = (((x * W + L) % (W * W)) * B + b) % (W * W)
      BY <1>8, <1>10, <1>11, <1>13, <1>14, <1>16, Zenon
    <2> QED BY <1>17, <2>1, Zenon
  <1>19. readUlong(f, p) \in 0 .. W * W - 1
    <2>1. PICK M \in Nat \ {0} : M = W * W
      OBVIOUS
    <2>2. PICK v \in Int : v = H * W * B + (L * B + b)
      OBVIOUS
    <2>3. v % M \in 0 .. (M - 1)
      BY ModDef
    <2> QED BY <1>18, <2>1, <2>2, <2>3
  <1>20. readUint(f, p + 4) = L * B + b
    BY <1>7, <1>11, <1>13, <1>14
  <1> QED BY <1>10, <1>11, <1>12, <1>18, <1>19, <1>20

\* What the decoders return, at any place of any file.
LEMMA Decoded ==
    ASSUME file \in Seq(Byte), pos \in Nat
    PROVE  WordsRight /\ LongRightIfSmall /\ IdentKeyRight
  <1>1. WordsRight
    BY WordRange DEF WordsRight, readUshort, Shift, BigEndian2
  <1>2. ASSUME There(file, pos, 8)
        PROVE  /\ BigEndian4(file, pos) = 0 => readUlong(file, pos) = BigEndian8(file, pos)
               /\ readUlong(file, pos) % Word = BigEndian4(file, pos + 4)
    <2>1. /\ There(file, pos, 4) /\ There(file, pos + 4, 4) /\ pos + 4 \in Nat
      BY <1>2 DEF There
    <2>2. PICK H, L : /\ H \in 0 .. Word - 1 /\ H = readUint(file, pos) /\ H = BigEndian4(file, pos)
                      /\ L \in 0 .. Word - 1 /\ L = readUint(file, pos + 4)
                      /\ L = BigEndian4(file, pos + 4)
      BY <2>1, WordRange
    <2>3. PICK U : /\ U \in 0 .. Word * Word - 1 /\ U = readUlong(file, pos)
                   /\ U = (H * Word * Base + L) % (Word * Word)
      BY <1>2, <2>2, LongValue
    <2>4. PICK B, W : /\ B \in Nat /\ B > 2 /\ B = Base
                      /\ W \in Nat /\ W = Word /\ W = B * B * B * B
      BY BaseAssumption DEF Word
    <2>5. /\ H \in 0 .. W - 1 /\ L \in 0 .. W - 1 /\ U \in 0 .. W * W - 1
          /\ U = (H * W * B + L) % (W * W)
      BY <2>2, <2>3, <2>4
    <2>6. /\ U % W = L
          /\ (U = H * W + L) <=> H = 0
      <3>1. LongOfHalves(W, H, L, B, U)
        BY <2>5 DEF LongOfHalves
      <3>2. U \in Int
        BY <2>5
      <3>3. RightIfSmall(W, H, L, U)
        BY <2>4, <2>5, <3>1, <3>2, HalvesRight
      <3> QED BY <3>3 DEF RightIfSmall
    <2>7. H * W + L = BigEndian8(file, pos)
      BY <2>2, <2>4 DEF BigEndian8
    <2> QED BY <2>2, <2>3, <2>4, <2>6, <2>7
  <1> QED BY <1>1, <1>2 DEF LongRightIfSmall, IdentKeyRight

-----------------------------------------------------------------------------
(* The header.                                                             *)

\* f begins with the magic number, the version v and its NUL.
Begins(f, v) ==
    /\ Len(f) >= 4 + Len(Versions[v]) + 1
    /\ \A i \in 1 .. 4 : f[i] = Magic[i]
    /\ \A i \in 1 .. Len(Versions[v]) : f[4 + i] = Versions[v][i]
    /\ f[4 + Len(Versions[v]) + 1] = 0

\* The version that readVersion has taken is what follows the magic number: no NUL
\* but the last.
Taken ==
    /\ pos = 4 + Len(sb) /\ pos <= Len(file)
    /\ \A i \in 1 .. 4 : file[i] = Magic[i]
    /\ \A i \in 1 .. Len(sb) : sb[i] = file[4 + i]
    /\ \A i \in 1 .. Len(sb) - 1 : sb[i] # 0

\* Why readVersion stopped.
Ends == \/ sb # <<>> /\ sb[Len(sb)] = 0
        \/ Len(sb) = SbSize - 1
        \/ pos = Len(file)

\* The version and, past it, the size of an identifier and the date have been read.
PastVersion(n) ==
    /\ fVersion \in DOMAIN Versions /\ Begins(file, fVersion)
    /\ Len(file) >= 4 + Len(Versions[fVersion]) + 1 + n
    /\ identsz = BigEndian4(file, 4 + Len(Versions[fVersion]) + 1) /\ identsz \in {4, 8}

\* What is known at each point of readDump.
Stage ==
    /\ pc = "magic" => pos = 0 /\ sb = <<>> /\ over = FALSE
    /\ pc \in {"version", "decide", "identsz"} => Taken
    /\ pc = "version" => /\ over = FALSE /\ Len(sb) < SbSize - 1
                         /\ \A i \in 1 .. Len(sb) : sb[i] # 0
    /\ pc \in {"decide", "identsz"} => Ends /\ Len(sb) <= SbSize - 1
    /\ pc = "identsz" => fVersion \in DOMAIN Versions /\ sb # <<>> /\ Matches(fVersion)
    /\ pc = "date" => PastVersion(4) /\ pos = 4 + Len(Versions[fVersion]) + 1 + 4
    /\ InRecords => PastVersion(12) /\ pos >= HeaderLength(fVersion)

\* The inductive invariant of the header and the records.
RInv ==
    /\ TypeOK /\ sb \in Seq(Byte)
    /\ Stage
    /\ HeaderDecided /\ OverrunOnlyLongVersion /\ StringInBounds

\* A version has no NUL, and room in sb.
LEMMA VersionType ==
    ASSUME NEW v \in DOMAIN Versions
    PROVE  /\ Versions[v] \in Seq(1 .. Base - 1) /\ Len(Versions[v]) \in Nat
           /\ Len(Versions[v]) < SbSize - 1
           /\ \A i \in 1 .. Len(Versions[v]) : Versions[v][i] # 0 /\ Versions[v][i] \in Byte
  <1>1. Versions[v] \in Seq(1 .. Base - 1)
    BY HeaderAssumption
  <1>2. Len(Versions[v]) < SbSize - 1
    BY BufferAssumption
  <1>3. ASSUME NEW i \in 1 .. Len(Versions[v])
        PROVE  Versions[v][i] # 0 /\ Versions[v][i] \in Byte
    <2>1. Versions[v][i] \in 1 .. Base - 1
      BY <1>1, SeqElement, Zenon
    <2> QED BY <2>1, BaseAssumption DEF Byte
  <1> QED BY <1>1, <1>2, <1>3

\* A header, byte by byte.
LEMMA HeaderBytes ==
    ASSUME NEW f \in Seq(Byte), NEW v \in DOMAIN Versions
    PROVE  HasHeader(f, v) <=> /\ Begins(f, v) /\ Len(f) >= HeaderLength(v)
                               /\ BigEndian4(f, 4 + Len(Versions[v]) + 1) \in {4, 8}
  <1> DEFINE V == Versions[v]
             n == 4 + Len(V) + 1
             s == SubSeq(f, 1, n)
             t == Magic \o Append(V, 0)
  <1>1. V \in Seq(Byte) /\ Len(V) \in Nat /\ 0 \in Byte
    <2>1. V \in Seq(1 .. Base - 1) /\ Len(V) \in Nat
      BY VersionType
    <2>2. ASSUME NEW i \in 1 .. Len(V) PROVE V[i] \in Byte
      BY VersionType
    <2>3. 0 \in Byte
      BY BaseAssumption DEF Byte
    <2> QED BY <2>1, <2>2, <2>3
  <1>2. Magic \in Seq(Byte) /\ Len(Magic) = 4
    BY HeaderAssumption DEF Byte
  <1>3. n \in Nat
    BY <1>1
  <1> HIDE DEF V
  <1>4. /\ t \in Seq(Byte) /\ Len(t) = n
        /\ \A i \in 1 .. 4 : t[i] = Magic[i]
        /\ \A i \in 1 .. Len(V) : t[4 + i] = V[i]
        /\ t[4 + Len(V) + 1] = 0
    <2>1. PICK a : a = Append(V, 0)
      OBVIOUS
    <2>2. /\ a \in Seq(Byte) /\ Len(a) = Len(V) + 1 /\ a[Len(V) + 1] = 0
          /\ \A i \in 1 .. Len(V) : a[i] = V[i]
      BY <1>1, <2>1
    <2>3. /\ t = Magic \o a /\ t \in Seq(Byte) /\ Len(t) = 4 + (Len(V) + 1)
      <3>1. t = Magic \o a
        BY <2>1
      <3> HIDE DEF t
      <3>2. Magic \o a \in Seq(Byte) /\ Len(Magic \o a) = 4 + Len(a)
        <4>1. Len(Magic \o a) = Len(Magic) + Len(a) /\ Magic \o a \in Seq(Byte)
          BY <1>2, <2>2, ConcatSeq, Zenon
        <4> QED BY <1>2, <4>1
      <3> QED BY <2>2, <3>1, <3>2
    <2>4. ASSUME NEW i \in 1 .. Len(t)
          PROVE  t[i] = IF i <= 4 THEN Magic[i] ELSE a[i - 4]
      BY <1>2, <2>2, <2>3
    <2>5. \A i \in 1 .. 4 : t[i] = Magic[i]
      BY <1>1, <2>3, <2>4
    <2>6. ASSUME NEW i \in 1 .. Len(V) + 1 PROVE t[4 + i] = a[i]
      <3>1. 4 + i \in 1 .. Len(t) /\ ~(4 + i <= 4) /\ (4 + i) - 4 = i
        BY <1>1, <2>3
      <3> QED BY <2>4, <3>1
    <2>7. Len(V) + 1 \in 1 .. Len(V) + 1 /\ 4 + (Len(V) + 1) = 4 + Len(V) + 1
      BY <1>1
    <2>8. ASSUME NEW i \in 1 .. Len(V) PROVE t[4 + i] = V[i]
      <3>1. i \in 1 .. Len(V) + 1
        BY <1>1
      <3>2. t[4 + i] = a[i]
        BY <2>6, <3>1
      <3> QED BY <2>2, <3>2
    <2> QED BY <2>2, <2>3, <2>5, <2>6, <2>7, <2>8
  <1> HIDE DEF t
  <1>5. ASSUME Len(f) >= n
        PROVE  s = t <=> \A i \in 1 .. n : f[i] = t[i]
    <2>1. s \in Seq(Byte) /\ Len(s) = n /\ \A i \in 1 .. n : s[i] = f[i]
      BY <1>3, <1>5
    <2> HIDE DEF s, n
    <2>2. s = [i \in 1 .. n |-> s[i]] /\ t = [i \in 1 .. n |-> t[i]]
      BY <1>4, <2>1
    <2> QED BY <2>1, <2>2
  <1>6. (\A i \in 1 .. n : f[i] = t[i]) <=> /\ \A i \in 1 .. 4 : f[i] = Magic[i]
                                            /\ \A i \in 1 .. Len(V) : f[4 + i] = V[i]
                                            /\ f[4 + Len(V) + 1] = 0
    <2>1. ASSUME \A i \in 1 .. n : f[i] = t[i]
          PROVE  /\ \A i \in 1 .. 4 : f[i] = Magic[i]
                 /\ \A i \in 1 .. Len(V) : f[4 + i] = V[i]
                 /\ f[4 + Len(V) + 1] = 0
      <3>1. \A i \in 1 .. 4 : i \in 1 .. n
        BY <1>1
      <3>2. \A i \in 1 .. Len(V) : 4 + i \in 1 .. n
        BY <1>1
      <3>3. 4 + Len(V) + 1 \in 1 .. n
        BY <1>1
      <3> HIDE DEF n
      <3> QED BY <1>4, <2>1, <3>1, <3>2, <3>3
    <2>2. ASSUME \A i \in 1 .. 4 : f[i] = Magic[i],
                 \A i \in 1 .. Len(V) : f[4 + i] = V[i],
                 f[4 + Len(V) + 1] = 0,
                 NEW i \in 1 .. n
          PROVE  f[i] = t[i]
      <3>1. CASE i \in 1 .. 4
        BY <1>4, <2>2, <3>1
      <3>2. CASE i \in 5 .. 4 + Len(V)
        <4>1. i - 4 \in 1 .. Len(V) /\ 4 + (i - 4) = i
          BY <1>1, <3>2
        <4>2. f[4 + (i - 4)] = V[i - 4] /\ t[4 + (i - 4)] = V[i - 4]
          BY <1>4, <2>2, <4>1
        <4> QED BY <4>1, <4>2
      <3>3. CASE i = 4 + Len(V) + 1
        BY <1>4, <2>2, <3>3
      <3> QED BY <1>1, <3>1, <3>2, <3>3
    <2> QED BY <2>1, <2>2
  <1>7. HeaderLength(v) >= n
    BY <1>1 DEF HeaderLength, V
  <1>8. HasHeader(f, v) <=> /\ Len(f) >= HeaderLength(v) /\ s = t
                            /\ BigEndian4(f, n) \in {4, 8}
    BY DEF HasHeader, V, t
  <1>9. Begins(f, v) <=> /\ Len(f) >= n
                         /\ \A i \in 1 .. 4 : f[i] = Magic[i]
                         /\ \A i \in 1 .. Len(V) : f[4 + i] = V[i]
                         /\ f[4 + Len(V) + 1] = 0
    BY DEF Begins, V
  <1>10. Len(f) >= HeaderLength(v) => Len(f) >= n
    <2>1. Len(f) \in Nat /\ HeaderLength(v) \in Int
      BY <1>1 DEF HeaderLength, V
    <2> QED BY <1>3, <1>7, <2>1
  <1>11. n = 4 + Len(Versions[v]) + 1
    BY DEF V
  <1> HIDE DEF s, n
  <1> QED BY <1>5, <1>6, <1>8, <1>9, <1>10, <1>11

\* A file begins with versions of one length only.
LEMMA SameVersion ==
    ASSUME NEW f, NEW v \in DOMAIN Versions, NEW w \in DOMAIN Versions,
           Begins(f, v), Begins(f, w)
    PROVE  Len(Versions[v]) = Len(Versions[w])
  <1>1. ASSUME NEW x \in DOMAIN Versions, NEW y \in DOMAIN Versions,
               Begins(f, x), Begins(f, y), Len(Versions[x]) < Len(Versions[y])
        PROVE  FALSE
    <2>1. Len(Versions[x]) \in Nat /\ Len(Versions[y]) \in Nat
      BY VersionType
    <2>2. Len(Versions[x]) + 1 \in 1 .. Len(Versions[y])
      BY <1>1, <2>1
    <2>3. f[4 + (Len(Versions[x]) + 1)] = Versions[y][Len(Versions[x]) + 1]
      BY <1>1, <2>2 DEF Begins
    <2>4. 4 + (Len(Versions[x]) + 1) = 4 + Len(Versions[x]) + 1
      BY <2>1
    <2>5. f[4 + Len(Versions[x]) + 1] = 0
      BY <1>1 DEF Begins
    <2> QED BY <2>2, <2>3, <2>4, <2>5, VersionType
  <1>2. Len(Versions[v]) \in Nat /\ Len(Versions[w]) \in Nat
    BY VersionType
  <1> QED BY <1>1, <1>2

\* Where the file has a version with its NUL, that is what readVersion takes.
LEMMA TakesVersion ==
    ASSUME sb \in Seq(Byte), file \in Seq(Byte), Taken, Ends, NEW v \in DOMAIN Versions,
           Begins(file, v)
    PROVE  sb = Append(Versions[v], 0) /\ pos = 4 + Len(Versions[v]) + 1
  <1> DEFINE V == Versions[v]
             k == Len(V) + 1
  <1>1. V \in Seq(1 .. Base - 1) /\ Len(V) \in Nat /\ Len(V) < SbSize - 1 /\ SbSize \in Nat
    BY VersionType, BufferAssumption
  <1>2. \A i \in 1 .. Len(V) : V[i] # 0 /\ file[4 + i] = V[i]
    BY VersionType DEF Begins
  <1>3. file[4 + k] = 0 /\ Len(file) >= 4 + k
    <2>1. 4 + k = 4 + Len(V) + 1
      BY <1>1
    <2> QED BY <2>1 DEF Begins
  <1>4. /\ pos = 4 + Len(sb) /\ Len(sb) \in Nat /\ Len(file) \in Nat
        /\ \A i \in 1 .. Len(sb) : sb[i] = file[4 + i]
        /\ \A i \in 1 .. Len(sb) - 1 : sb[i] # 0
    BY DEF Taken
  <1> HIDE DEF V
  <1>5. ~(k < Len(sb))
    <2> SUFFICES ASSUME k < Len(sb) PROVE FALSE
      OBVIOUS
    <2>1. k \in 1 .. Len(sb) /\ k \in 1 .. Len(sb) - 1
      BY <1>1, <1>4
    <2> QED BY <1>3, <1>4, <2>1
  <1>6. ~(Len(sb) < k)
    <2> SUFFICES ASSUME Len(sb) < k PROVE FALSE
      OBVIOUS
    <2>1. CASE sb # <<>> /\ sb[Len(sb)] = 0
      <3>1. Len(sb) \in 1 .. Len(sb)
        BY <1>4, <2>1
      <3>2. Len(sb) \in 1 .. Len(V)
        BY <1>1, <1>4, <3>1
      <3>3. file[4 + Len(sb)] = 0
        BY <1>4, <2>1, <3>1
      <3> QED BY <1>2, <3>2, <3>3
    <2>2. CASE Len(sb) = SbSize - 1
      BY <1>1, <1>4, <2>2
    <2>3. CASE pos = Len(file)
      BY <1>1, <1>3, <1>4, <2>3
    <2> QED BY <2>1, <2>2, <2>3 DEF Ends
  <1>7. Len(sb) = k
    BY <1>1, <1>4, <1>5, <1>6
  <1>8. ASSUME NEW i \in 1 .. k PROVE sb[i] = IF i = k THEN 0 ELSE V[i]
    <2>1. sb[i] = file[4 + i]
      BY <1>4, <1>7
    <2>2. i # k => i \in 1 .. Len(V)
      BY <1>1
    <2> QED BY <1>2, <1>3, <2>1, <2>2
  <1>9. sb = Append(V, 0)
    <2>1. PICK a : a = Append(V, 0)
      OBVIOUS
    <2>2. /\ a \in Seq(0 .. Base - 1) /\ Len(a) = k
          /\ \A i \in 1 .. k : a[i] = IF i = k THEN 0 ELSE V[i]
      <3>1. V \in Seq(0 .. Base - 1) /\ 0 \in 0 .. Base - 1
        BY <1>1, BaseAssumption
      <3> QED BY <1>1, <2>1, <3>1
    <2> HIDE DEF k
    <2>3. a = [i \in 1 .. k |-> a[i]] /\ sb = [i \in 1 .. k |-> sb[i]]
      BY <1>7, <2>2
    <2> QED BY <1>8, <2>1, <2>2, <2>3
  <1> QED BY <1>1, <1>4, <1>7, <1>9 DEF V

\* And where readVersion has taken a version with a NUL, the file has it.
LEMMA TakenVersion ==
    ASSUME sb \in Seq(Byte), file \in Seq(Byte), Taken, NEW v \in DOMAIN Versions,
           sb = Append(Versions[v], 0)
    PROVE  Begins(file, v) /\ pos = 4 + Len(Versions[v]) + 1
  <1> DEFINE V == Versions[v]
  <1>1. V \in Seq(1 .. Base - 1) /\ Len(V) \in Nat
    BY VersionType
  <1>2. /\ Len(sb) = Len(V) + 1 /\ sb[Len(V) + 1] = 0
        /\ \A i \in 1 .. Len(V) : sb[i] = V[i]
    <2> HIDE DEF V
    <2>1. sb = Append(V, 0)
      BY DEF V
    <2>2. /\ Len(Append(V, 0)) = Len(V) + 1 /\ Append(V, 0)[Len(V) + 1] = 0
          /\ \A i \in 1 .. Len(V) : Append(V, 0)[i] = V[i]
      BY <1>1, AppendIs
    <2> QED BY <2>1, <2>2
  <1>3. /\ pos = 4 + Len(sb) /\ pos <= Len(file) /\ \A i \in 1 .. 4 : file[i] = Magic[i]
        /\ \A i \in 1 .. Len(sb) : sb[i] = file[4 + i]
    BY DEF Taken
  <1> HIDE DEF V
  <1>4. pos = 4 + Len(V) + 1
    BY <1>1, <1>2, <1>3
  <1>5. \A i \in 1 .. Len(V) : file[4 + i] = V[i]
    BY <1>1, <1>2, <1>3
  <1>6. file[4 + Len(V) + 1] = 0
    <2>1. Len(V) + 1 \in 1 .. Len(sb) /\ 4 + (Len(V) + 1) = 4 + Len(V) + 1
      BY <1>1, <1>2
    <2> QED BY <1>2, <1>3, <2>1
  <1>7. Len(file) >= 4 + Len(V) + 1
    BY <1>1, <1>3, <1>4
  <1> QED BY <1>3, <1>4, <1>5, <1>6, <1>7 DEF V, Begins

\* The magic number, byte by byte.
LEMMA MagicBytes ==
    ASSUME NEW f \in Seq(Byte), Len(f) >= 4
    PROVE  SubSeq(f, 1, 4) = Magic <=> \A i \in 1 .. 4 : f[i] = Magic[i]
  <1>1. Magic \in Seq(Byte) /\ Len(Magic) = 4
    BY HeaderAssumption DEF Byte
  <1>2. PICK s : s = SubSeq(f, 1, 4)
    OBVIOUS
  <1>3. s \in Seq(Byte) /\ Len(s) = 4 /\ \A i \in 1 .. 4 : s[i] = f[i]
    BY <1>2
  <1>4. s = [i \in 1 .. 4 |-> s[i]] /\ Magic = [i \in 1 .. 4 |-> Magic[i]]
    BY <1>1, <1>3
  <1> QED BY <1>2, <1>3, <1>4

\* The comparison of readDump tells whether the magic number is there.
LEMMA MagicCompared ==
    ASSUME NEW f \in Seq(Byte), There(f, 0, 4)
    PROVE  readUint(f, 0) = readUint(Magic, 0) <=> \A i \in 1 .. 4 : f[i] = Magic[i]
  <1>1. Magic \in Seq(Byte) /\ There(Magic, 0, 4) /\ 0 \in Nat
    BY HeaderAssumption DEF Byte, There
  <1>2. ASSUME readUint(f, 0) = readUint(Magic, 0), NEW i \in 1 .. 4
        PROVE  f[i] = Magic[i]
    <2>1. f[0 + i] = Magic[0 + i]
      BY <1>1, <1>2, WordBytes
    <2>2. 0 + i = i
      OBVIOUS
    <2> QED BY <2>1, <2>2
  <1>3. ASSUME \A i \in 1 .. 4 : f[i] = Magic[i]
        PROVE  readUint(f, 0) = readUint(Magic, 0)
    <2>1. 0 + 1 = 1 /\ 0 + 2 = 2 /\ 0 + 3 = 3 /\ 0 + 4 = 4
      OBVIOUS
    <2>2. f[1] = Magic[1] /\ f[2] = Magic[2] /\ f[3] = Magic[3] /\ f[4] = Magic[4]
      BY <1>3
    <2> QED BY <2>1, <2>2 DEF readUint
  <1> QED BY <1>2, <1>3

\* Reading never moves the cursor back.
LEMMA PastForward ==
    ASSUME file \in Seq(Byte), pos \in Nat, NEW n \in Nat
    PROVE  /\ Past(n) \in Nat /\ Past(n) >= pos
           /\ There(file, pos, n) => Past(n) = pos + n
  BY DEF Past, There

\* What PastVersion says of the whole header.
LEMMA HeaderRead ==
    ASSUME file \in Seq(Byte), PastVersion(12)
    PROVE  /\ fVersion \in DOMAIN Versions /\ HasHeader(file, fVersion)
           /\ identsz = BigEndian4(file, HeaderLength(fVersion) - 12)
           /\ \A v \in DOMAIN Versions : HasHeader(file, v) => HeaderLength(v) = HeaderLength(fVersion)
  <1>1. /\ fVersion \in DOMAIN Versions /\ Begins(file, fVersion)
        /\ Len(file) >= 4 + Len(Versions[fVersion]) + 1 + 12
        /\ identsz = BigEndian4(file, 4 + Len(Versions[fVersion]) + 1) /\ identsz \in {4, 8}
    BY DEF PastVersion
  <1>2. Len(Versions[fVersion]) \in Nat
    BY <1>1, VersionType
  <1>3. /\ HeaderLength(fVersion) = 4 + Len(Versions[fVersion]) + 1 + 12
        /\ HeaderLength(fVersion) - 12 = 4 + Len(Versions[fVersion]) + 1
    BY <1>2 DEF HeaderLength
  <1>4. HasHeader(file, fVersion)
    BY <1>1, <1>3, HeaderBytes
  <1>5. ASSUME NEW v \in DOMAIN Versions, HasHeader(file, v)
        PROVE  HeaderLength(v) = HeaderLength(fVersion)
    <2>1. Begins(file, v)
      BY <1>5, HeaderBytes
    <2>2. Len(Versions[v]) = Len(Versions[fVersion])
      BY <1>1, <2>1, SameVersion
    <2> QED BY <2>2 DEF HeaderLength
  <1> QED BY <1>1, <1>3, <1>4, <1>5
-----------------------------------------------------------------------------
(* The steps.                                                              *)

\* Types of the variables that most steps read.
LEMMA RTypes ==
    ASSUME RInv
    PROVE  /\ file \in Seq(Byte) /\ pos \in Nat /\ sb \in Seq(Byte) /\ Len(sb) \in Nat
           /\ Len(file) \in Nat /\ SbSize \in Nat /\ SbSize > 1
  BY BufferAssumption DEF RInv, TypeOK, Byte

\* The magic number is compared.
LEMMA MagicStep ==
    ASSUME RInv, ReadMagic
    PROVE  RInv'
  <1>1. /\ pc = "magic" /\ pos = 0 /\ sb = <<>> /\ over = FALSE
        /\ UNCHANGED <<file, sb, over, fVersion, identsz, date, rlen, ident>>
        /\ pos' = Past(4)
    BY DEF ReadMagic, RInv, Stage
  <1>2. file \in Seq(Byte) /\ Len(file) \in Nat /\ SbSize \in Nat /\ SbSize > 1
    BY RTypes
  <1>3. Past(4) \in Nat /\ (There(file, pos, 4) => Past(4) = pos + 4)
    BY <1>1, <1>2, PastForward
  <1>4. CASE There(file, 0, 4) /\ readUint(file, 0) = readUint(Magic, 0)
    <2>1. pc' = "version"
      BY <1>1, <1>4 DEF ReadMagic
    <2>2. \A i \in 1 .. 4 : file[i] = Magic[i]
      BY <1>2, <1>4, MagicCompared
    <2>3. pos' = 4 /\ 4 <= Len(file) /\ Len(sb) = 0
      BY <1>1, <1>3, <1>4 DEF There
    <2>4. Taken'
      BY <1>1, <2>2, <2>3 DEF Taken
    <2>5. Stage'
      BY <1>1, <1>2, <2>1, <2>3, <2>4 DEF Stage, InRecords
    <2>6. TypeOK' /\ sb' \in Seq(Byte)
      BY <1>1, <2>1, <2>3 DEF RInv, TypeOK
    <2>7. HeaderDecided' /\ OverrunOnlyLongVersion' /\ StringInBounds'
      BY <2>1 DEF HeaderDecided, OverrunOnlyLongVersion, StringInBounds, InRecords
    <2> QED BY <2>5, <2>6, <2>7 DEF RInv
  <1>5. CASE ~(There(file, 0, 4) /\ readUint(file, 0) = readUint(Magic, 0))
    <2>1. pc' = "exit"
      BY <1>1, <1>5 DEF ReadMagic
    <2>2. ~(Len(file) >= 4 /\ \A i \in 1 .. 4 : file[i] = Magic[i])
      <3>1. Len(file) >= 4 => There(file, 0, 4)
        BY <1>2 DEF There
      <3> QED BY <1>2, <1>5, <3>1, MagicCompared
    <2>3. ASSUME NEW v \in DOMAIN Versions PROVE ~HasHeader(file, v)
      <3> SUFFICES ASSUME HasHeader(file, v) PROVE FALSE
        OBVIOUS
      <3>1. Begins(file, v) /\ Len(Versions[v]) \in Nat
        BY <1>2, HeaderBytes, VersionType
      <3>2. Len(file) >= 4
        BY <1>2, <3>1 DEF Begins
      <3> QED BY <2>2, <3>1, <3>2 DEF Begins
    <2>4. ~(Len(file) >= 4 + SbSize - 1 /\ SubSeq(file, 1, 4) = Magic)
      <3> SUFFICES ASSUME Len(file) >= 4 + SbSize - 1, SubSeq(file, 1, 4) = Magic PROVE FALSE
        OBVIOUS
      <3>1. Len(file) >= 4
        BY <1>2
      <3> QED BY <1>2, <2>2, <3>1, MagicBytes
    <2>5. HeaderDecided' /\ OverrunOnlyLongVersion' /\ StringInBounds'
      BY <1>1, <2>1, <2>3, <2>4
         DEF HeaderDecided, OverrunOnlyLongVersion, StringInBounds, InRecords
    <2>6. TypeOK' /\ sb' \in Seq(Byte)
      BY <1>1, <1>3, <2>1 DEF RInv, TypeOK
    <2> QED BY <2>1, <2>5, <2>6 DEF RInv, Stage, InRecords
  <1> QED BY <1>4, <1>5

\* readVersion takes one more character.
LEMMA VersionCharStep ==
    ASSUME RInv, ReadVersionChar
    PROVE  RInv'
  <1> DEFINE ch == file[pos + 1]
             len == Len(sb) + 1
  <1>1. /\ pc = "version" /\ pos < Len(file) /\ sb' = Append(sb, ch)
        /\ over' = (over \/ len > SbSize \/ (ch # 0 /\ Full(len) /\ 1 + len >= SbSize))
        /\ pc' = IF ch = 0 \/ Full(len) THEN "decide" ELSE "version"
        /\ pos' = pos + 1
        /\ UNCHANGED <<file, fVersion, identsz, date, rlen, ident>>
    BY DEF ReadVersionChar
  <1>2. /\ file \in Seq(Byte) /\ pos \in Nat /\ sb \in Seq(Byte) /\ Len(sb) \in Nat
        /\ Len(file) \in Nat /\ SbSize \in Nat /\ SbSize > 1
    BY RTypes
  <1>3. /\ Taken /\ over = FALSE /\ Len(sb) < SbSize - 1
        /\ \A i \in 1 .. Len(sb) : sb[i] # 0
    BY <1>1 DEF RInv, Stage
  <1>4. ch \in Byte
    <2>1. pos + 1 \in 1 .. Len(file)
      BY <1>1, <1>2
    <2> QED BY <1>2, <2>1
  <1>5. /\ pos = 4 + Len(sb) /\ pos + 1 = 4 + len
    BY <1>2, <1>3 DEF Taken
  <1>6. ch = file[4 + len]
    BY <1>5
  <1> HIDE DEF ch
  <1>7. /\ sb' \in Seq(Byte) /\ Len(sb') = len /\ sb'[len] = ch
        /\ \A i \in 1 .. Len(sb) : sb'[i] = sb[i]
    BY <1>1, <1>2, <1>4
  <1>8. Taken'
    <2>1. ASSUME NEW i \in 1 .. len PROVE sb'[i] = file[4 + i]
      <3>1. i = len \/ i \in 1 .. Len(sb)
        BY <1>2
      <3> QED BY <1>3, <1>6, <1>7, <3>1 DEF Taken
    <2>2. len - 1 = Len(sb)
      BY <1>2
    <2>3. \A i \in 1 .. len - 1 : sb'[i] # 0
      BY <1>3, <1>7, <2>2
    <2>4. pos' = 4 + len /\ pos' <= Len(file)
      BY <1>1, <1>2, <1>5
    <2> QED BY <1>1, <1>3, <1>7, <2>1, <2>3, <2>4 DEF Taken
  <1>9. Full(len) <=> len = SbSize - 1
    BY <1>2, <1>3 DEF Full
  <1>10. over' = (ch # 0 /\ len = SbSize - 1)
    BY <1>1, <1>2, <1>3, <1>9
  <1>11. TypeOK'
    BY <1>1, <1>2, <1>3, <1>7, <1>10 DEF RInv, TypeOK
  <1>12. Stage'
    <2>1. CASE ch = 0 \/ len = SbSize - 1
      <3>1. pc' = "decide"
        BY <1>1, <1>9, <2>1
      <3>2. sb' # <<>> /\ len <= SbSize - 1
        BY <1>2, <1>3, <1>7
      <3>3. Ends'
        BY <1>7, <2>1, <3>2 DEF Ends
      <3> QED BY <1>7, <1>8, <3>1, <3>2, <3>3 DEF Stage, InRecords
    <2>2. CASE ~(ch = 0 \/ len = SbSize - 1)
      <3>1. pc' = "version"
        BY <1>1, <1>9, <2>2
      <3>2. over' = FALSE /\ len < SbSize - 1
        <4>1. len < SbSize - 1
          BY <1>2, <1>3, <2>2
        <4>2. over' = FALSE
          BY <1>10, <2>2, Zenon
        <4> QED BY <4>1, <4>2
      <3>3. ASSUME NEW i \in 1 .. len PROVE sb'[i] # 0
        <4>1. i = len \/ i \in 1 .. Len(sb)
          BY <1>2
        <4> QED BY <1>3, <1>7, <2>2, <4>1
      <3> QED BY <1>7, <1>8, <3>1, <3>2, <3>3 DEF Stage, InRecords
    <2> QED BY <2>1, <2>2
  <1>13. OverrunOnlyLongVersion'
    <2> SUFFICES ASSUME pc' \notin {"magic", "version"}
                 PROVE  over' <=> /\ Len(file) >= 4 + SbSize - 1 /\ SubSeq(file, 1, 4) = Magic
                                  /\ \A i \in 1 .. SbSize - 1 : file[4 + i] # 0
      BY <1>1 DEF OverrunOnlyLongVersion
    <2>1. ch = 0 \/ len = SbSize - 1
      BY <1>1, <1>9
    <2>2. Len(file) >= 4 /\ (\A i \in 1 .. 4 : file[i] = Magic[i])
      BY <1>2, <1>3, <1>5 DEF Taken
    <2>3. SubSeq(file, 1, 4) = Magic
      BY <1>2, <2>2, MagicBytes
    <2>4. CASE ch = 0
      <3>1. len \in 1 .. SbSize - 1
        BY <1>2, <1>3
      <3> QED BY <1>6, <1>10, <2>4, <3>1
    <2>5. CASE ch # 0 /\ len = SbSize - 1
      <3>1. ASSUME NEW i \in 1 .. SbSize - 1 PROVE file[4 + i] # 0
        <4>1. i = len \/ i \in 1 .. Len(sb)
          BY <1>2, <2>5
        <4> QED BY <1>3, <1>6, <2>5, <4>1 DEF Taken
      <3>2. Len(file) >= 4 + SbSize - 1
        BY <1>1, <1>2, <1>5, <2>5
      <3> QED BY <1>10, <2>3, <2>5, <3>1, <3>2
    <2> QED BY <2>1, <2>4, <2>5
  <1>14. HeaderDecided' /\ StringInBounds'
    BY <1>1 DEF HeaderDecided, StringInBounds, InRecords
  <1> QED BY <1>7, <1>11, <1>12, <1>13, <1>14 DEF RInv

\* readVersion comes to the end of the file.
LEMMA VersionEofStep ==
    ASSUME RInv, ReadVersionEof
    PROVE  RInv'
  <1>1. /\ pc = "version" /\ pos >= Len(file) /\ pc' = "decide"
        /\ UNCHANGED <<file, pos, sb, over, fVersion, identsz, date, rlen, ident>>
    BY DEF ReadVersionEof
  <1>2. /\ file \in Seq(Byte) /\ pos \in Nat /\ sb \in Seq(Byte) /\ Len(sb) \in Nat
        /\ Len(file) \in Nat /\ SbSize \in Nat /\ SbSize > 1
    BY RTypes
  <1>3. Taken /\ over = FALSE /\ Len(sb) < SbSize - 1
    BY <1>1 DEF RInv, Stage
  <1>4. pos = Len(file) /\ Len(file) = 4 + Len(sb)
    BY <1>1, <1>2, <1>3 DEF Taken
  <1>5. Taken' /\ Ends'
    BY <1>1, <1>3, <1>4 DEF Taken, Ends
  <1>6. Stage'
    BY <1>1, <1>2, <1>3, <1>5 DEF Stage, InRecords
  <1>7. ~(Len(file) >= 4 + SbSize - 1)
    BY <1>2, <1>3, <1>4
  <1>8. HeaderDecided' /\ OverrunOnlyLongVersion' /\ StringInBounds'
    BY <1>1, <1>3, <1>7 DEF HeaderDecided, OverrunOnlyLongVersion, StringInBounds, InRecords
  <1>9. TypeOK' /\ sb' \in Seq(Byte)
    BY <1>1 DEF RInv, TypeOK
  <1> QED BY <1>6, <1>8, <1>9 DEF RInv

\* The version is looked up; a file with a header passes.
LEMMA DecideStep ==
    ASSUME RInv, DecideVersion
    PROVE  RInv'
  <1>1. /\ pc = "decide"
        /\ fVersion' \in {v \in DOMAIN Versions : sb # <<>> /\ Matches(v)}
                           \cup (IF sb # <<>> /\ sb[Len(sb)] = 0
                                    /\ \E v \in DOMAIN Versions : Matches(v) THEN {} ELSE {-1})
        /\ pc' = IF fVersion' = -1 THEN "exit" ELSE "identsz"
        /\ UNCHANGED <<file, pos, sb, over, identsz, date, rlen, ident>>
    BY DEF DecideVersion
  <1>2. /\ file \in Seq(Byte) /\ pos \in Nat /\ sb \in Seq(Byte) /\ Len(sb) \in Nat
    BY RTypes
  <1>3. Taken /\ Ends /\ Len(sb) <= SbSize - 1
    BY <1>1 DEF RInv, Stage
  <1>4. Taken' /\ Ends'
    BY <1>1, <1>3 DEF Taken, Ends
  <1>5. -1 \notin DOMAIN Versions
    <2>1. DOMAIN Versions = 1 .. Len(Versions) /\ Len(Versions) \in Nat
      BY HeaderAssumption
    <2> QED BY <2>1
  <1>6. fVersion' \in DOMAIN Versions \cup {-1}
    BY <1>1
  <1>7. \/ fVersion' = -1 /\ ~(sb # <<>> /\ sb[Len(sb)] = 0 /\ \E v \in DOMAIN Versions : Matches(v))
        \/ fVersion' # -1 /\ fVersion' \in DOMAIN Versions /\ sb # <<>> /\ Matches(fVersion')
    BY <1>1, <1>5
  <1>8. TypeOK' /\ sb' \in Seq(Byte)
    BY <1>1, <1>6 DEF RInv, TypeOK
  <1>9. OverrunOnlyLongVersion' /\ StringInBounds'
    BY <1>1 DEF RInv, OverrunOnlyLongVersion, StringInBounds
  <1>10. CASE fVersion' = -1
    <2>1. pc' = "exit"
      BY <1>1, <1>10
    <2>2. ASSUME NEW v \in DOMAIN Versions PROVE ~HasHeader(file, v)
      <3> SUFFICES ASSUME HasHeader(file, v) PROVE FALSE
        OBVIOUS
      <3>1. Begins(file, v)
        BY <1>2, HeaderBytes
      <3>2. sb = Append(Versions[v], 0)
        BY <1>2, <1>3, <3>1, TakesVersion
      <3>3. Versions[v] \in Seq(1 .. Base - 1) /\ Len(Versions[v]) \in Nat
        BY VersionType
      <3>4. sb # <<>> /\ sb[Len(sb)] = 0
        <4>1. PICK V \in Seq(1 .. Base - 1) : V = Versions[v]
          BY <3>3
        <4>2. sb = Append(V, 0)
          BY <3>2, <4>1
        <4> QED BY <4>2
      <3>5. Matches(v)
        BY <3>2, <3>4 DEF Matches
      <3> QED BY <1>7, <1>10, <3>4, <3>5
    <2>3. HeaderDecided'
      BY <1>1, <2>1, <2>2 DEF HeaderDecided, InRecords
    <2> QED BY <1>8, <1>9, <2>1, <2>3 DEF RInv, Stage, InRecords
  <1>11. CASE fVersion' # -1
    <2>1. pc' = "identsz"
      BY <1>1, <1>11
    <2>2. fVersion' \in DOMAIN Versions /\ sb # <<>> /\ Matches(fVersion')
      BY <1>7, <1>11
    <2>3. Matches(fVersion)'
      BY <1>1, <2>2 DEF Matches, Prefix
    <2>4. Stage'
      BY <1>1, <1>3, <1>4, <2>1, <2>2, <2>3 DEF Stage, InRecords
    <2>5. HeaderDecided'
      BY <2>1 DEF HeaderDecided, InRecords
    <2> QED BY <1>8, <1>9, <2>4, <2>5 DEF RInv
  <1> QED BY <1>10, <1>11

\* The size of an identifier is read where the header has it.
LEMMA IdentSizeStep ==
    ASSUME RInv, ReadIdentSize
    PROVE  RInv'
  <1>1. /\ pc = "identsz" /\ pos' = Past(4)
        /\ UNCHANGED <<file, sb, over, fVersion, date, rlen, ident>>
        /\ There(file, pos, 4) => /\ identsz' = readUint(file, pos)
                                  /\ pc' = IF identsz' \in {4, 8} THEN "date" ELSE "exit"
        /\ ~There(file, pos, 4) => pc' = "exit" /\ identsz' = identsz
    BY DEF ReadIdentSize
  <1>2. /\ file \in Seq(Byte) /\ pos \in Nat /\ sb \in Seq(Byte) /\ Len(sb) \in Nat
        /\ Len(file) \in Nat /\ SbSize \in Nat
    BY RTypes
  <1>3. Taken /\ Ends /\ fVersion \in DOMAIN Versions /\ sb # <<>> /\ Matches(fVersion)
    BY <1>1 DEF RInv, Stage
  <1>4. Past(4) \in Nat /\ (There(file, pos, 4) => Past(4) = pos + 4)
    BY <1>2, PastForward
  <1>5. There(file, pos, 4) => /\ readUint(file, pos) \in 0 .. Word - 1
                               /\ readUint(file, pos) = BigEndian4(file, pos)
    BY <1>2, WordRange
  <1>6. TypeOK' /\ sb' \in Seq(Byte)
    BY <1>1, <1>4, <1>5 DEF RInv, TypeOK
  <1>7. OverrunOnlyLongVersion' /\ StringInBounds'
    BY <1>1 DEF RInv, OverrunOnlyLongVersion, StringInBounds
  <1>8. CASE There(file, pos, 4) /\ readUint(file, pos) \in {4, 8}
    <2>1. pc' = "date" /\ identsz' = readUint(file, pos) /\ pos' = pos + 4
      BY <1>1, <1>4, <1>8
    <2>2. sb[Len(sb)] = 0
      <3> SUFFICES ASSUME sb[Len(sb)] # 0 PROVE FALSE
        OBVIOUS
      <3>1. Prefix(sb, Versions[fVersion])
        BY <1>3 DEF Matches
      <3>2. Len(sb) < SbSize - 1
        BY <1>2, <1>3, <3>1, VersionType DEF Prefix
      <3>3. pos = Len(file)
        BY <1>2, <1>3, <3>2 DEF Ends
      <3> QED BY <1>2, <1>8, <3>3 DEF There
    <2>3. sb = Append(Versions[fVersion], 0)
      BY <1>3, <2>2 DEF Matches
    <2>4. Begins(file, fVersion) /\ pos = 4 + Len(Versions[fVersion]) + 1
      BY <1>2, <1>3, <2>3, TakenVersion
    <2>5. Len(file) >= 4 + Len(Versions[fVersion]) + 1 + 4
      BY <1>8, <2>4 DEF There
    <2>6. identsz' = BigEndian4(file, 4 + Len(Versions[fVersion]) + 1) /\ identsz' \in {4, 8}
      BY <1>5, <1>8, <2>1, <2>4
    <2>7. PastVersion(4)'
      BY <1>1, <1>3, <2>4, <2>5, <2>6 DEF PastVersion
    <2>8. Stage'
      BY <1>1, <2>1, <2>4, <2>7 DEF Stage, InRecords
    <2>9. HeaderDecided'
      BY <2>1 DEF HeaderDecided, InRecords
    <2> QED BY <1>6, <1>7, <2>8, <2>9 DEF RInv
  <1>9. CASE ~(There(file, pos, 4) /\ readUint(file, pos) \in {4, 8})
    <2>1. pc' = "exit"
      BY <1>1, <1>9
    <2>2. ASSUME NEW v \in DOMAIN Versions PROVE ~HasHeader(file, v)
      <3> SUFFICES ASSUME HasHeader(file, v) PROVE FALSE
        OBVIOUS
      <3>1. /\ Begins(file, v) /\ Len(file) >= HeaderLength(v)
            /\ BigEndian4(file, 4 + Len(Versions[v]) + 1) \in {4, 8}
        BY <1>2, HeaderBytes
      <3>2. pos = 4 + Len(Versions[v]) + 1 /\ Len(Versions[v]) \in Nat
        BY <1>2, <1>3, <3>1, TakesVersion, VersionType
      <3>3. There(file, pos, 4)
        BY <1>2, <3>1, <3>2 DEF HeaderLength, There
      <3> QED BY <1>5, <1>9, <3>1, <3>2, <3>3
    <2>3. HeaderDecided'
      BY <1>1, <2>1, <2>2 DEF HeaderDecided, InRecords
    <2> QED BY <1>6, <1>7, <2>1, <2>3 DEF RInv, Stage, InRecords
  <1> QED BY <1>8, <1>9

\* The date is the last part of the header.
LEMMA DateStep ==
    ASSUME RInv, ReadDate
    PROVE  RInv'
  <1>1. /\ pc = "date" /\ pos' = Past(8)
        /\ UNCHANGED <<file, sb, over, fVersion, identsz, rlen, ident>>
        /\ There(file, pos, 8) => date' = readUlong(file, pos) /\ pc' = "records"
        /\ ~There(file, pos, 8) => pc' = "exit" /\ date' = date
    BY DEF ReadDate
  <1>2. file \in Seq(Byte) /\ pos \in Nat /\ Len(file) \in Nat
    BY RTypes
  <1>3. PastVersion(4) /\ pos = 4 + Len(Versions[fVersion]) + 1 + 4
    BY <1>1 DEF RInv, Stage
  <1>4. /\ fVersion \in DOMAIN Versions /\ Begins(file, fVersion)
        /\ Len(Versions[fVersion]) \in Nat
    BY <1>3, VersionType DEF PastVersion
  <1>5. Past(8) \in Nat /\ (There(file, pos, 8) => Past(8) = pos + 8)
    BY <1>2, PastForward
  <1>6. There(file, pos, 8) => readUlong(file, pos) \in 0 .. Word * Word - 1
    BY <1>2, LongValue
  <1>7. TypeOK' /\ sb' \in Seq(Byte)
    BY <1>1, <1>5, <1>6 DEF RInv, TypeOK
  <1>8. OverrunOnlyLongVersion' /\ StringInBounds'
    BY <1>1 DEF RInv, OverrunOnlyLongVersion, StringInBounds
  <1>9. CASE There(file, pos, 8)
    <2>1. pc' = "records" /\ pos' = HeaderLength(fVersion)
      BY <1>1, <1>3, <1>4, <1>5, <1>9 DEF HeaderLength
    <2>2. Len(file) >= 4 + Len(Versions[fVersion]) + 1 + 12
      BY <1>2, <1>3, <1>4, <1>9 DEF There
    <2>3. PastVersion(12)
      BY <1>3, <2>2 DEF PastVersion
    <2>4. PastVersion(12)'
      BY <1>1, <2>3 DEF PastVersion
    <2>5. Stage'
      <3>1. HeaderLength(fVersion) \in Int
        BY <1>4 DEF HeaderLength
      <3>2. pos' >= HeaderLength(fVersion')
        BY <1>1, <2>1, <3>1
      <3> QED BY <2>1, <2>4, <3>2 DEF Stage, InRecords
    <2>6. HeaderDecided'
      BY <1>1, <1>2, <2>1, <2>3, HeaderRead DEF HeaderDecided
    <2> QED BY <1>7, <1>8, <2>5, <2>6 DEF RInv
  <1>10. CASE ~There(file, pos, 8)
    <2>1. pc' = "exit"
      BY <1>1, <1>10
    <2>2. ASSUME NEW v \in DOMAIN Versions PROVE ~HasHeader(file, v)
      <3> SUFFICES ASSUME HasHeader(file, v) PROVE FALSE
        OBVIOUS
      <3>1. Begins(file, v) /\ Len(file) >= HeaderLength(v)
        BY <1>2, HeaderBytes
      <3>2. Len(Versions[v]) = Len(Versions[fVersion])
        BY <1>4, <3>1, SameVersion
      <3>3. Len(file) >= pos + 8
        BY <1>2, <1>3, <1>4, <3>1, <3>2 DEF HeaderLength
      <3> QED BY <1>2, <1>10, <3>3 DEF There
    <2>3. HeaderDecided'
      BY <1>1, <2>1, <2>2 DEF HeaderDecided, InRecords
    <2> QED BY <1>7, <1>8, <2>1, <2>3 DEF RInv, Stage, InRecords
  <1> QED BY <1>9, <1>10

\* What the loop over the records knows, and keeps while it moves forward.
LEMMA RecordsKept ==
    ASSUME RInv, InRecords, InRecords', UNCHANGED <<file, sb, over, fVersion, identsz, date>>,
           pos' \in Nat, pos' >= pos, rlen' \in 0 .. Word - 1,
           ident' \in Garbage \cup 0 .. Word * Word - 1, StringInBounds'
    PROVE  RInv'
  <1>1. file \in Seq(Byte) /\ pos \in Nat
    BY RTypes
  <1>2. PastVersion(12) /\ pos >= HeaderLength(fVersion)
    BY DEF RInv, Stage
  <1>3. PastVersion(12)'
    BY <1>2 DEF PastVersion
  <1>4. HeaderLength(fVersion) \in Int
    <2>1. fVersion \in DOMAIN Versions
      BY <1>2 DEF PastVersion
    <2>2. Len(Versions[fVersion]) \in Nat
      BY <2>1, VersionType
    <2> QED BY <2>2 DEF HeaderLength
  <1>5. pos' >= HeaderLength(fVersion')
    BY <1>1, <1>2, <1>4
  <1>6. pc' \notin {"magic", "version", "decide", "identsz", "date", "exit"}
    BY DEF InRecords
  <1>7. Stage'
    BY <1>3, <1>5, <1>6 DEF Stage
  <1>8. HeaderDecided'
    <2>1. pc' # "exit"
      BY <1>6
    <2> QED BY <1>1, <1>2, <2>1, HeaderRead DEF HeaderDecided
  <1>9. OverrunOnlyLongVersion'
    <2>1. pc \notin {"magic", "version"}
      BY DEF InRecords
    <2> QED BY <2>1 DEF RInv, OverrunOnlyLongVersion
  <1>10. pc' \in {"records", "utf8", "done", "crash", "overflow"}
    BY DEF InRecords
  <1>11. TypeOK' /\ sb' \in Seq(Byte)
    BY <1>10 DEF RInv, TypeOK
  <1> QED BY <1>7, <1>8, <1>9, <1>11 DEF RInv

\* The loop over the records ends.
LEMMA EndStep ==
    ASSUME RInv, EndOfRecords
    PROVE  RInv'
  <1>1. /\ pc = "records" /\ pc' = "done" /\ pos' = Past(1)
        /\ UNCHANGED <<file, sb, over, fVersion, identsz, date, rlen, ident>>
    BY DEF EndOfRecords
  <1>2. Past(1) \in Nat /\ Past(1) >= pos
    BY RTypes, PastForward
  <1>3. InRecords /\ InRecords' /\ StringInBounds'
    BY <1>1 DEF InRecords, StringInBounds
  <1>4. rlen' \in 0 .. Word - 1 /\ ident' \in Garbage \cup 0 .. Word * Word - 1
    BY <1>1 DEF RInv, TypeOK
  <1> QED BY <1>1, <1>2, <1>3, <1>4, RecordsKept

\* The tag, the time and the length of a record are read.
LEMMA RecordStep ==
    ASSUME RInv, ReadRecord
    PROVE  RInv'
  <1>1. /\ pc = "records" /\ ~IsEof(Tag)
        /\ UNCHANGED <<file, sb, over, fVersion, identsz, date, ident>>
        /\ There(file, pos, 9) => /\ rlen' = readUint(file, pos + 5)
                                  /\ pc' = IF Tag = 1 THEN "utf8" ELSE "records"
                                  /\ pos' = IF Tag = 1 THEN pos + 9 ELSE pos + 9 + rlen'
        /\ ~There(file, pos, 9) => pc' = "exit" /\ pos' = Past(9) /\ rlen' = rlen
    BY DEF ReadRecord
  <1>2. file \in Seq(Byte) /\ pos \in Nat /\ Len(file) \in Nat
    BY RTypes
  <1>3. CASE There(file, pos, 9)
    <2>1. There(file, pos + 5, 4) /\ pos + 5 \in Nat
      BY <1>2, <1>3 DEF There
    <2>2. rlen' \in 0 .. Word - 1
      BY <1>1, <1>2, <1>3, <2>1, WordRange
    <2>3. pos' \in Nat /\ pos' >= pos
      <3>1. rlen' \in Nat
        BY <2>2
      <3> QED BY <1>1, <1>2, <1>3, <3>1
    <2>4. InRecords /\ InRecords' /\ StringInBounds'
      BY <1>1, <1>3 DEF InRecords, StringInBounds
    <2>5. ident' \in Garbage \cup 0 .. Word * Word - 1
      BY <1>1 DEF RInv, TypeOK
    <2> QED BY <1>1, <2>2, <2>3, <2>4, <2>5, RecordsKept
  <1>4. CASE ~There(file, pos, 9)
    <2>1. pc' = "exit" /\ rlen' = rlen /\ pos' = Past(9)
      BY <1>1, <1>4
    <2>2. pos < Len(file)
      <3> SUFFICES ASSUME ~(pos < Len(file)) PROVE FALSE
        OBVIOUS
      <3>1. Tag = -1
        BY DEF Tag
      <3> QED BY <1>1, <3>1 DEF IsEof
    <2>3. pos' = Len(file)
      BY <1>4, <2>1, <2>2 DEF Past
    <2>4. PastVersion(12) /\ pos >= HeaderLength(fVersion)
      BY <1>1 DEF RInv, Stage, InRecords
    <2>5. ASSUME NEW v \in DOMAIN Versions, HasHeader(file, v) PROVE pos' > HeaderLength(v)
      <3>1. HeaderLength(v) = HeaderLength(fVersion)
        BY <1>2, <2>4, <2>5, HeaderRead
      <3>2. HeaderLength(v) \in Int
        BY VersionType DEF HeaderLength
      <3> QED BY <1>2, <2>2, <2>3, <2>4, <3>1, <3>2
    <2>6. HeaderDecided'
      BY <1>1, <2>1, <2>5 DEF HeaderDecided, InRecords
    <2>7. TypeOK' /\ sb' \in Seq(Byte)
      BY <1>1, <1>2, <2>1, <2>3 DEF RInv, TypeOK
    <2>8. OverrunOnlyLongVersion' /\ StringInBounds'
      BY <1>1, <2>1 DEF RInv, OverrunOnlyLongVersion, StringInBounds
    <2> QED BY <2>1, <2>6, <2>7, <2>8 DEF RInv, Stage, InRecords
  <1> QED BY <1>3, <1>4

\* A string of a record that is long enough, and not too long, fits its buffer.
LEMMA StringFits ==
    ASSUME NEW n \in Int, NEW r \in 0 .. Word - 1, n \in {4, 8}, n <= r
    PROVE  (1 + r - n) % Word = 1 + r - n
  <1>1. Word \in Nat \ {0} /\ 1 + r - n \in 0 .. Word - 1
    BY WordNat
  <1> QED BY <1>1, ModSmall

\* A string is read.
LEMMA Utf8Step ==
    ASSUME RInv, ReadUtf8
    PROVE  RInv'
  <1> DEFINE from  == Past(identsz)
             rest  == IF from < Len(file) THEN Len(file) - from ELSE 0
             slen  == rlen - identsz
             count == IF slen < 0 \/ slen > rest THEN rest ELSE slen
  <1>1. /\ pc = "utf8" /\ ident' \in readIdent(pos) /\ pos' = from + count
        /\ pc' = CASE Capacity >= MaxAlloc -> "crash"
                   [] Capacity < MaxAlloc /\ (count > Capacity \/ ~hideSpecials(from, count)) -> "overflow"
                   [] OTHER -> "records"
        /\ UNCHANGED <<file, sb, over, fVersion, identsz, date, rlen>>
    BY DEF ReadUtf8
  <1>2. file \in Seq(Byte) /\ pos \in Nat /\ Len(file) \in Nat
    BY RTypes
  <1>3. identsz \in {4, 8} /\ identsz \in Nat
    BY <1>1 DEF RInv, Stage, InRecords, PastVersion
  <1>4. rlen \in 0 .. Word - 1 /\ rlen \in Nat
    BY DEF RInv, TypeOK
  <1>5. from \in Nat /\ from >= pos
    BY <1>2, <1>3, PastForward
  <1> HIDE DEF from
  <1>6. rest \in Nat /\ slen \in Int
    BY <1>2, <1>3, <1>4, <1>5
  <1>7. count \in Nat /\ (slen >= 0 => count <= slen)
    BY <1>6
  <1>8. pos' \in Nat /\ pos' >= pos
    BY <1>1, <1>2, <1>5, <1>7
  <1>9. InRecords /\ InRecords'
    BY <1>1 DEF InRecords
  <1>10. ident' \in Garbage \cup 0 .. Word * Word - 1
    <2>1. CASE ~There(file, pos, identsz)
      BY <1>1, <2>1 DEF readIdent
    <2>2. CASE There(file, pos, identsz) /\ identsz = 4
      <3>1. ident' = readUint(file, pos) /\ readUint(file, pos) \in 0 .. Word - 1
        BY <1>1, <1>2, <2>2, WordRange DEF readIdent
      <3>2. 0 .. Word - 1 \subseteq 0 .. Word * Word - 1
        <4>1. PICK W \in Nat \ {0} : W = Word
          BY WordNat
        <4>2. W <= W * W
          OBVIOUS
        <4> QED BY <4>1, <4>2
      <3> QED BY <3>1, <3>2
    <2>3. CASE There(file, pos, identsz) /\ identsz = 8
      BY <1>1, <1>2, <2>3, LongValue DEF readIdent
    <2> QED BY <1>3, <2>1, <2>2, <2>3
  <1>11. StringInBounds'
    <2> SUFFICES ASSUME ~(rlen < identsz), ~(1 + rlen - identsz >= MaxAlloc)
                 PROVE  pc' \notin {"crash", "overflow"}
      BY <1>1 DEF StringInBounds
    <2>1. identsz <= rlen /\ slen >= 0 /\ 1 + rlen - identsz = slen + 1
      BY <1>3, <1>4
    <2>2. Capacity = slen + 1
      BY <1>3, <1>4, <2>1, StringFits DEF Capacity
    <2> HIDE DEF slen, count
    <2>3. Capacity < MaxAlloc /\ count < Capacity
      BY <1>6, <1>7, <2>1, <2>2, BufferAssumption
    <2>4. ~(Capacity >= MaxAlloc) /\ ~(count > Capacity)
      BY <1>6, <1>7, <2>2, <2>3, BufferAssumption
    <2>5. hideSpecials(from, count)
      BY <2>3 DEF hideSpecials
    <2>6. pc' = "records"
      BY <1>1, <2>4, <2>5
    <2> QED BY <2>6
  <1>12. rlen' \in 0 .. Word - 1
    BY <1>1, <1>4
  <1> QED BY <1>1, <1>8, <1>9, <1>10, <1>11, <1>12, RecordsKept
-----------------------------------------------------------------------------
\* Every step of readDump keeps the invariant.
LEMMA NextRInv == RInv /\ [Next]_vars => RInv'
  <1> SUFFICES ASSUME RInv, [Next]_vars PROVE RInv'
    OBVIOUS
  <1>1. CASE UNCHANGED vars
    <2>1. UNCHANGED <<file, pos, pc, sb, over, fVersion, identsz, date, rlen, ident>>
      BY <1>1 DEF vars
    <2>2. TypeOK' /\ sb' \in Seq(Byte)
      BY <2>1 DEF RInv, TypeOK
    <2>3. Stage'
      <3>1. Stage
        BY DEF RInv
      <3>2. Taken' = Taken /\ Ends' = Ends /\ InRecords' = InRecords
        BY <2>1 DEF Taken, Ends, InRecords
      <3>3. Matches(fVersion)' = Matches(fVersion)
        BY <2>1 DEF Matches, Prefix
      <3>4. PastVersion(4)' = PastVersion(4) /\ PastVersion(12)' = PastVersion(12)
        BY <2>1 DEF PastVersion
      <3> QED BY <2>1, <3>1, <3>2, <3>3, <3>4 DEF Stage
    <2>4. HeaderDecided' /\ OverrunOnlyLongVersion' /\ StringInBounds'
      BY <2>1 DEF RInv, HeaderDecided, InRecords, OverrunOnlyLongVersion, StringInBounds
    <2> QED BY <2>2, <2>3, <2>4 DEF RInv
  <1>2. CASE Terminated
    BY <1>1, <1>2 DEF Terminated
  <1> QED
    BY <1>1, <1>2, MagicStep, VersionCharStep, VersionEofStep, DecideStep, IdentSizeStep,
       DateStep, EndStep, RecordStep, Utf8Step DEF Next

\* For every file, every base and every size of the buffers, the invariant of the
\* header and the records holds whenever readDump runs.
THEOREM ReaderInvariance == Spec => []RInv
  <1>1. Init => RInv
    <2> SUFFICES ASSUME Init PROVE RInv
      OBVIOUS
    <2>1. file \in Seq(0 .. Base - 1)
      BY FilesAssumption DEF Init
    <2>2. Word \in Nat \ {0} /\ Word * Word \in Nat \ {0} /\ SbSize \in Nat
      <3>1. PICK W \in Nat \ {0} : W = Word
        BY WordNat
      <3>2. W * W \in Nat \ {0}
        OBVIOUS
      <3> QED BY <3>1, <3>2, BufferAssumption
    <2>3. 0 \in 0 .. Word - 1 /\ 0 \in 0 .. Word * Word - 1
      BY <2>2
    <2>4. TypeOK /\ sb \in Seq(Byte)
      <3>1. sb \in Seq(Byte) /\ Len(sb) <= SbSize /\ pos \in Nat
        BY <2>2 DEF Init
      <3>2. over \in BOOLEAN /\ fVersion \in DOMAIN Versions \cup {-1}
        BY DEF Init
      <3>3. identsz = 0 /\ date = 0 /\ rlen = 0 /\ ident = 0 /\ pc = "magic"
        BY DEF Init
      <3> QED BY <2>1, <2>3, <3>1, <3>2, <3>3, Zenon DEF TypeOK
    <2>5. Stage
      BY DEF Init, Stage, InRecords
    <2>6. HeaderDecided /\ OverrunOnlyLongVersion /\ StringInBounds
      BY DEF Init, HeaderDecided, OverrunOnlyLongVersion, StringInBounds, InRecords
    <2> QED BY <2>4, <2>5, <2>6 DEF RInv
  <1> QED BY <1>1, NextRInv, PTL DEF Spec

\* readUshort and readUint return the big-endian value of the bytes at the cursor;
\* readUlong is right in its lower half always and in all if the upper half is zero,
\* for every base.
THEOREM DecodesRight == Spec => []DecodedRight
  <1>1. RInv => DecodedRight
    <2> SUFFICES ASSUME RInv PROVE DecodedRight
      OBVIOUS
    <2>1. file \in Seq(Byte) /\ pos \in Nat
      BY RTypes
    <2> QED BY <2>1, Decoded DEF DecodedRight, RInv
  <1> QED BY <1>1, ReaderInvariance, PTL

\* readDump comes to the records of a file if and only if the file begins with a
\* whole header, and reads the size of an identifier from where the header has it.
THEOREM DecidesHeader == Spec => []HeaderDecided
  <1>1. RInv => HeaderDecided
    BY DEF RInv
  <1> QED BY <1>1, ReaderInvariance, PTL

\* readVersion stores past its buffer exactly for a version that has no NUL among
\* its first SbSize - 1 characters, whatever the size of the buffer.
THEOREM OverrunsOnLongVersion == Spec => []OverrunOnlyLongVersion
  <1>1. RInv => OverrunOnlyLongVersion
    BY DEF RInv
  <1> QED BY <1>1, ReaderInvariance, PTL

\* A string stays within its buffer unless its record is shorter than an identifier
\* or too long to be allocated.
THEOREM StringsInBounds == Spec => []StringInBounds
  <1>1. RInv => StringInBounds
    BY DEF RInv
  <1> QED BY <1>1, ReaderInvariance, PTL

-----------------------------------------------------------------------------
(* The records.  RecordStarts is defined by recursion towards the end of   *)
(* the file; that there is such a function is shown by the smallest sets   *)
(* that hold with a record the one after it.                               *)

\* A record begins at q, and where the one after it does.
More(f, q) == q + 9 <= Len(f) /\ f[q + 1] # Base - 1
After(f, q) == q + 9 + BigEndian4(f, q + 5)

\* S has with a record all that follow it.
GoesOnIn(f, S) == \A q \in S : More(f, q) => After(f, q) \in S

\* g solves the equation of RecordStarts.
IsStarts(g, f) ==
    g = [q \in Nat |-> {q} \cup IF q + 9 <= Len(f) /\ f[q + 1] # Base - 1
                                THEN g[q + 9 + BigEndian4(f, q + 5)] ELSE {}]

\* The next record begins further on.
LEMMA AfterIsFurther ==
    ASSUME NEW f \in Seq(Byte), NEW q \in Nat, More(f, q)
    PROVE  /\ After(f, q) \in Nat /\ After(f, q) >= q + 9
           /\ readUint(f, q + 5) = BigEndian4(f, q + 5)
           /\ BigEndian4(f, q + 5) \in 0 .. Word - 1
  <1>1. There(f, q + 5, 4) /\ q + 5 \in Nat
    BY DEF There, More
  <1>2. readUint(f, q + 5) = BigEndian4(f, q + 5) /\ readUint(f, q + 5) \in 0 .. Word - 1
    BY <1>1, WordRange
  <1>3. BigEndian4(f, q + 5) \in Nat
    BY <1>2
  <1> QED BY <1>2, <1>3 DEF After

\* The equation of RecordStarts has a solution.
LEMMA StartsExist ==
    ASSUME NEW f \in Seq(Byte)
    PROVE  \E g : IsStarts(g, f)
  <1> DEFINE R(q) == {n \in Nat : \A S \in SUBSET Nat : q \in S /\ GoesOnIn(f, S) => n \in S}
             g == [q \in Nat |-> R(q)]
  <1>1. ASSUME NEW q \in Nat PROVE q \in R(q) /\ R(q) \in SUBSET Nat
    OBVIOUS
  <1>2. ASSUME NEW q \in Nat PROVE GoesOnIn(f, R(q))
    <2> SUFFICES ASSUME NEW n \in R(q), More(f, n) PROVE After(f, n) \in R(q)
      BY DEF GoesOnIn
    <2>1. n \in Nat /\ After(f, n) \in Nat
      BY AfterIsFurther
    <2>2. ASSUME NEW S \in SUBSET Nat, q \in S, GoesOnIn(f, S) PROVE After(f, n) \in S
      <3>1. n \in S
        BY <2>2
      <3> QED BY <2>2, <3>1 DEF GoesOnIn
    <2> QED BY <2>1, <2>2
  <1>3. ASSUME NEW q \in Nat, More(f, q) PROVE R(q) = {q} \cup R(After(f, q))
    <2>1. After(f, q) \in Nat
      BY <1>3, AfterIsFurther
    <2> DEFINE T == {q} \cup R(After(f, q))
    <2>2. T \in SUBSET Nat /\ q \in T
      BY <1>1, <2>1
    <2>3. GoesOnIn(f, T)
      <3>1. After(f, q) \in R(After(f, q)) /\ GoesOnIn(f, R(After(f, q)))
        BY <1>1, <1>2, <2>1
      <3> HIDE DEF R
      <3> QED BY <3>1 DEF GoesOnIn
    <2>4. R(q) \subseteq T
      <3> HIDE DEF T
      <3> QED BY <2>2, <2>3
    <2>5. R(After(f, q)) \subseteq R(q)
      <3>1. R(q) \in SUBSET Nat /\ After(f, q) \in R(q) /\ GoesOnIn(f, R(q))
        BY <1>1, <1>2, <1>3 DEF GoesOnIn
      <3>2. PICK Q : Q = R(q)
        OBVIOUS
      <3>3. R(After(f, q)) \subseteq Q
        BY <3>1, <3>2
      <3> QED BY <3>2, <3>3
    <2> HIDE DEF R
    <2> QED BY <1>1, <2>4, <2>5
  <1>4. ASSUME NEW q \in Nat, ~More(f, q) PROVE R(q) = {q}
    <2>1. GoesOnIn(f, {q}) /\ {q} \in SUBSET Nat /\ q \in {q}
      BY <1>4 DEF GoesOnIn
    <2>2. R(q) \subseteq {q}
      BY <2>1
    <2> HIDE DEF R
    <2> QED BY <1>1, <2>2
  <1>5. ASSUME NEW q \in Nat
        PROVE  g[q] = {q} \cup IF q + 9 <= Len(f) /\ f[q + 1] # Base - 1
                               THEN g[q + 9 + BigEndian4(f, q + 5)] ELSE {}
    <2>1. g[q] = R(q)
      OBVIOUS
    <2>2. CASE More(f, q)
      <3>1. After(f, q) \in Nat
        BY <2>2, AfterIsFurther
      <3>2. g[After(f, q)] = R(After(f, q))
        BY <3>1
      <3> HIDE DEF g, R
      <3>3. g[q] = {q} \cup g[After(f, q)]
        BY <1>3, <2>1, <2>2, <3>2
      <3> QED BY <2>2, <3>3 DEF More, After
    <2>3. CASE ~More(f, q)
      <3> HIDE DEF g, R
      <3>1. g[q] = {q}
        BY <1>4, <2>1, <2>3
      <3> QED BY <2>3, <3>1 DEF More
    <2> QED BY <2>2, <2>3
  <1>6. g = [q \in Nat |-> g[q]]
    OBVIOUS
  <1> HIDE DEF g
  <1>7. IsStarts(g, f)
    BY <1>5, <1>6 DEF IsStarts
  <1> QED BY <1>7

\* Where the records of a file begin: at p, and after every record the next.
LEMMA StartsGoOn ==
    ASSUME NEW f \in Seq(Byte), NEW p \in Nat
    PROVE  /\ p \in RecordStarts(f, p) /\ RecordStarts(f, p) \subseteq Nat
           /\ GoesOnIn(f, RecordStarts(f, p))
  <1>1. PICK g : IsStarts(g, f) /\ RecordStarts(f, p) = g[p]
    <2>1. IsStarts(CHOOSE h : IsStarts(h, f), f)
      BY StartsExist
    <2>2. RecordStarts(f, p) = (CHOOSE h : IsStarts(h, f))[p]
      BY DEF RecordStarts, IsStarts
    <2> QED BY <2>1, <2>2
  <1>2. ASSUME NEW q \in Nat
        PROVE  /\ More(f, q) => g[q] = {q} \cup g[After(f, q)]
               /\ ~More(f, q) => g[q] = {q}
    <2>1. g[q] = {q} \cup IF q + 9 <= Len(f) /\ f[q + 1] # Base - 1
                          THEN g[q + 9 + BigEndian4(f, q + 5)] ELSE {}
      BY <1>1 DEF IsStarts
    <2> QED BY <2>1 DEF More, After
  <1> DEFINE Good(q) == g[q] \subseteq Nat /\ GoesOnIn(f, g[q])
             Rest(q) == IF q <= Len(f) THEN Len(f) - q ELSE 0
             T == {n \in Nat : \E q \in Nat : n = Rest(q) /\ ~Good(q)}
  <1>3. \A q \in Nat : Rest(q) \in Nat
    OBVIOUS
  <1>4. ASSUME NEW q \in Nat, More(f, q), Good(After(f, q)) PROVE Good(q)
    <2>1. After(f, q) \in Nat /\ g[q] = {q} \cup g[After(f, q)]
      BY <1>2, <1>4, AfterIsFurther
    <2>2. After(f, q) \in g[After(f, q)]
      BY <1>2, <2>1
    <2> QED BY <1>4, <2>1, <2>2 DEF GoesOnIn
  <1>5. ASSUME NEW q \in Nat, ~More(f, q) PROVE Good(q)
    BY <1>2, <1>5 DEF GoesOnIn
  <1>6. ASSUME NEW q \in Nat, More(f, q) PROVE Rest(After(f, q)) < Rest(q)
    <2>1. After(f, q) \in Nat /\ After(f, q) >= q + 9 /\ q + 9 <= Len(f)
      BY <1>6, AfterIsFurther DEF More
    <2> QED BY <2>1
  <1> HIDE DEF Good, Rest
  <1>7. T = {}
    <2> SUFFICES ASSUME T # {} PROVE FALSE
      OBVIOUS
    <2>1. PICK n \in T : \A m \in T : n <= m
      <3>1. T \subseteq Nat
        OBVIOUS
      <3> QED BY <3>1, Smallest
    <2>2. PICK q \in Nat : n = Rest(q) /\ ~Good(q)
      BY <2>1
    <2>3. More(f, q)
      BY <1>5, <2>2
    <2>4. After(f, q) \in Nat /\ ~Good(After(f, q))
      BY <1>4, <2>2, <2>3, AfterIsFurther
    <2>5. Rest(After(f, q)) \in T
      BY <1>3, <2>4
    <2>6. n <= Rest(After(f, q))
      BY <2>1, <2>5
    <2> QED BY <1>3, <1>6, <2>2, <2>3, <2>4, <2>6
  <1>8. Good(p)
    BY <1>3, <1>7
  <1>9. p \in g[p]
    BY <1>2
  <1> QED BY <1>1, <1>8, <1>9 DEF Good

\* Where the records of this file begin, and that the last of them is cut off.
Starts == RecordStarts(file, HeaderLength(fVersion))
Cut == pos = Len(file) /\ \E q \in Starts : q > pos

\* A string is read in a record that begins at one of these places.
OfRecord ==
    pc = "utf8" => \E q \in Starts : /\ More(file, q) /\ pos = q + 9
                                     /\ rlen = BigEndian4(file, q + 5)

\* The inductive invariant of the loop over the records, on top of RInv.
SInv == InStepToTheEnd /\ OfRecord

\* Starts in a file with a header.
LEMMA StartsOfFile ==
    ASSUME RInv, InRecords \/ pc = "date"
    PROVE  /\ HeaderLength(fVersion) \in Starts /\ Starts \subseteq Nat
           /\ GoesOnIn(file, Starts)
  <1>1. fVersion \in DOMAIN Versions
    BY DEF RInv, Stage, PastVersion
  <1>2. HeaderLength(fVersion) \in Nat
    BY <1>1, VersionType DEF HeaderLength
  <1> QED BY <1>2, RTypes, StartsGoOn DEF Starts

\* The first record begins after the date.
LEMMA DateInStep ==
    ASSUME RInv, ReadDate
    PROVE  SInv'
  <1>1. /\ pc = "date" /\ pos' = Past(8) /\ UNCHANGED <<file, fVersion>>
        /\ IF There(file, pos, 8) THEN pc' = "records" ELSE pc' = "exit"
    BY DEF ReadDate
  <1>2. CASE There(file, pos, 8)
    <2>1. /\ fVersion \in DOMAIN Versions /\ pos = 4 + Len(Versions[fVersion]) + 1 + 4
      BY <1>1 DEF RInv, Stage, PastVersion
    <2>2. pos' = HeaderLength(fVersion)
      BY <1>1, <1>2, <2>1, RTypes, PastForward, VersionType DEF HeaderLength
    <2>3. pos' \in Starts
      BY <1>1, <2>2, StartsOfFile
    <2> QED BY <1>1, <1>2, <2>3 DEF SInv, InStepToTheEnd, OfRecord, Starts
  <1>3. CASE ~There(file, pos, 8)
    BY <1>1, <1>3 DEF SInv, InStepToTheEnd, OfRecord
  <1> QED BY <1>2, <1>3

\* The loop ends at the end of the file or on a tag of all ones.
LEMMA EndInStep ==
    ASSUME RInv, SInv, EndOfRecords
    PROVE  SInv'
  <1>1. /\ pc = "records" /\ IsEof(Tag) /\ pc' = "done" /\ pos' = Past(1)
        /\ UNCHANGED <<file, fVersion>>
    BY DEF EndOfRecords
  <1>2. file \in Seq(Byte) /\ pos \in Nat /\ Len(file) \in Nat
    BY RTypes
  <1>3. pos \in Starts \/ Cut
    BY <1>1 DEF SInv, InStepToTheEnd, Starts, Cut
  <1>4. CASE pos < Len(file)
    <2>1. pos \in Starts /\ file[pos + 1] = Base - 1
      <3>1. Tag = file[pos + 1] /\ file[pos + 1] \in Byte
        BY <1>2, <1>4 DEF Tag
      <3>2. file[pos + 1] # -1
        BY <3>1, BaseAssumption DEF Byte
      <3> QED BY <1>1, <1>2, <1>3, <1>4, <3>1, <3>2 DEF IsEof, Cut
    <2>2. pos' = pos + 1
      BY <1>1, <1>2, <1>4 DEF Past, There
    <2>3. pos' - 1 \in Starts /\ file[pos'] = Base - 1
      BY <1>2, <2>1, <2>2
    <2> QED BY <1>1, <2>3 DEF SInv, InStepToTheEnd, OfRecord, Starts
  <1>5. CASE ~(pos < Len(file))
    <2>1. pos' = pos /\ pos >= Len(file)
      BY <1>1, <1>2, <1>5 DEF Past, There
    <2> QED BY <1>1, <1>3, <2>1 DEF SInv, InStepToTheEnd, OfRecord, Starts, Cut
  <1> QED BY <1>4, <1>5

\* A record is skipped up to the next, or its string is read.
LEMMA RecordInStep ==
    ASSUME RInv, SInv, ReadRecord
    PROVE  SInv'
  <1>1. /\ pc = "records" /\ ~IsEof(Tag) /\ UNCHANGED <<file, fVersion>>
        /\ There(file, pos, 9) => /\ rlen' = readUint(file, pos + 5)
                                  /\ pc' = IF Tag = 1 THEN "utf8" ELSE "records"
                                  /\ pos' = IF Tag = 1 THEN pos + 9 ELSE pos + 9 + rlen'
        /\ ~There(file, pos, 9) => pc' = "exit"
    BY DEF ReadRecord
  <1>2. file \in Seq(Byte) /\ pos \in Nat /\ Len(file) \in Nat
    BY RTypes
  <1>3. pos \in Starts \/ Cut
    BY <1>1 DEF SInv, InStepToTheEnd, Starts, Cut
  <1>4. CASE There(file, pos, 9)
    <2>1. pos + 9 <= Len(file)
      BY <1>4 DEF There
    <2>2. pos \in Starts
      BY <1>2, <1>3, <2>1 DEF Cut
    <2>3. More(file, pos)
      BY <1>1, <1>2, <2>1 DEF More, Tag, IsEof
    <2>4. After(file, pos) \in Starts
      BY <1>1, <2>2, <2>3, StartsOfFile DEF GoesOnIn, InRecords
    <2>5. rlen' = BigEndian4(file, pos + 5)
      BY <1>1, <1>2, <1>4, <2>3, AfterIsFurther
    <2>6. CASE Tag = 1
      <3>1. pc' = "utf8" /\ pos' = pos + 9
        BY <1>1, <1>4, <2>6
      <3> QED BY <1>1, <2>2, <2>3, <2>5, <3>1 DEF SInv, InStepToTheEnd, OfRecord, Starts
    <2>7. CASE Tag # 1
      <3>1. pc' = "records" /\ pos' = After(file, pos)
        BY <1>1, <1>4, <2>5, <2>7 DEF After
      <3> QED BY <1>1, <2>4, <3>1 DEF SInv, InStepToTheEnd, OfRecord, Starts
    <2> QED BY <2>6, <2>7
  <1>5. CASE ~There(file, pos, 9)
    BY <1>1, <1>5 DEF SInv, InStepToTheEnd, OfRecord
  <1> QED BY <1>4, <1>5

\* A record shorter than its identifier is not survived: talloc_zero_array is asked
\* for none or for too many bytes.
LEMMA ShortRecord ==
    ASSUME NEW n \in {4, 8}, NEW r \in 0 .. Word - 1, r < n
    PROVE  (1 + r - n) % Word = 0 \/ (1 + r - n) % Word >= MaxAlloc
  <1>1. PICK W \in Nat \ {0} : W = Word /\ W >= 81
    <2>1. PICK B \in Nat : B = Base /\ B >= 3
      BY BaseAssumption
    <2>2. B * B >= 9
      BY <2>1
    <2>3. PICK C \in Nat : C = B * B /\ C >= 9
      BY <2>2
    <2>4. C * C >= 81
      BY <2>3
    <2>5. Word = C * C
      BY <2>1, <2>3 DEF Word
    <2> QED BY <2>3, <2>4, <2>5
  <1>2. PICK k \in Int : k = 1 + r - n /\ k <= 0 /\ k >= -7
    OBVIOUS
  <1>3. CASE k = 0
    <2>1. 0 \in 0 .. W - 1
      BY <1>1
    <2>2. 0 % W = 0
      BY <1>1, <2>1, ModSmall
    <2> QED BY <1>1, <1>2, <1>3, <2>2
  <1>4. CASE k < 0
    <2>1. W + k \in 0 .. W - 1
      BY <1>1, <1>2, <1>4
    <2>2. k = W * (-1) + (W + k)
      BY <1>1, <1>2
    <2>3. (W * (-1) + (W + k)) % W = (W + k) % W
      <3>1. PICK v \in Int : v = W + k
        BY <1>1, <1>2
      <3>2. PICK m \in Int : m = -1
        OBVIOUS
      <3>3. (W * m + v) % W = v % W
        BY <1>1, ModShift
      <3> QED BY <3>1, <3>2, <3>3
    <2>4. k % W = W + k
      <3>1. (W + k) % W = W + k
        BY <1>1, <2>1, ModSmall
      <3> QED BY <2>2, <2>3, <3>1
    <2>5. W + k >= MaxAlloc
      BY <1>1, <1>2, AllocAssumption, BufferAssumption
    <2> QED BY <1>1, <1>2, <2>4, <2>5
  <1> QED BY <1>2, <1>3, <1>4

\* A string takes the cursor to the next record, or to the end of the file if it is
\* cut off.
LEMMA Utf8InStep ==
    ASSUME RInv, SInv, ReadUtf8
    PROVE  SInv'
  <1> DEFINE from  == Past(identsz)
             rest  == IF from < Len(file) THEN Len(file) - from ELSE 0
             slen  == rlen - identsz
             count == IF slen < 0 \/ slen > rest THEN rest ELSE slen
  <1>1. /\ pc = "utf8" /\ pos' = from + count
        /\ pc' = CASE Capacity >= MaxAlloc -> "crash"
                   [] Capacity < MaxAlloc /\ (count > Capacity \/ ~hideSpecials(from, count)) -> "overflow"
                   [] OTHER -> "records"
        /\ UNCHANGED <<file, fVersion>>
    BY DEF ReadUtf8
  <1>2. file \in Seq(Byte) /\ pos \in Nat /\ Len(file) \in Nat
    BY RTypes
  <1>3. identsz \in {4, 8} /\ identsz \in Nat
    BY <1>1 DEF RInv, Stage, InRecords, PastVersion
  <1>4. rlen \in 0 .. Word - 1 /\ rlen \in Nat
    BY DEF RInv, TypeOK
  <1>5. from \in Nat /\ from >= pos
    BY <1>2, <1>3, PastForward
  <1>6. PICK q \in Starts : /\ More(file, q) /\ pos = q + 9 /\ rlen = BigEndian4(file, q + 5)
    BY <1>1 DEF SInv, OfRecord
  <1>7. Starts \subseteq Nat /\ After(file, q) \in Starts
    BY <1>1, <1>6, StartsOfFile DEF GoesOnIn, InRecords
  <1>8. After(file, q) = pos + rlen /\ pos <= Len(file)
    BY <1>6 DEF After, More
  <1>9. CASE rlen < identsz
    <2>1. Capacity = 0 \/ Capacity >= MaxAlloc
      BY <1>3, <1>4, <1>9, ShortRecord DEF Capacity
    <2>2. rest \in Nat /\ slen < 0 /\ count = rest
      <3> HIDE DEF from
      <3> QED BY <1>2, <1>3, <1>4, <1>5, <1>9
    <2> HIDE DEF from, rest, slen, count
    <2>3. pc' # "records"
      <3>1. CASE Capacity >= MaxAlloc
        BY <1>1, <3>1
      <3>2. CASE Capacity = 0 /\ ~(Capacity >= MaxAlloc)
        <4>1. Capacity < MaxAlloc
          BY <3>2, BufferAssumption
        <4>2. count > Capacity \/ ~hideSpecials(from, count)
          BY <2>2, <3>2 DEF hideSpecials
        <4> QED BY <1>1, <3>2, <4>1, <4>2
      <3> QED BY <2>1, <3>1, <3>2
    <2>4. pc' \in {"crash", "overflow", "records"}
      BY <1>1
    <2> QED BY <2>3, <2>4 DEF SInv, InStepToTheEnd, OfRecord
  <1>10. CASE ~(rlen < identsz)
    <2>1. pos' = After(file, q) \/ (pos' = Len(file) /\ After(file, q) > pos')
      <3>1. CASE There(file, pos, identsz)
        <4>1. from = pos + identsz /\ from <= Len(file)
          BY <1>2, <1>3, <3>1, PastForward DEF There
        <4>2. from + count = pos + rlen \/ (from + count = Len(file) /\ pos + rlen > Len(file))
          <5> HIDE DEF from
          <5>1. rest = Len(file) - from /\ slen >= 0
            BY <1>2, <1>3, <1>4, <1>5, <1>10, <4>1
          <5>2. slen = rlen - identsz
            OBVIOUS
          <5> HIDE DEF rest, slen
          <5>3. count = IF slen > rest THEN rest ELSE slen
            BY <1>2, <1>3, <1>4, <1>5, <5>1, <5>2
          <5> HIDE DEF count
          <5>4. PICK L, f, r, n, p \in Int :
                    L = Len(file) /\ f = from /\ r = rlen /\ n = identsz /\ p = pos
            BY <1>2, <1>3, <1>4, <1>5
          <5>5. f = p + n
            BY <4>1, <5>4
          <5>6. count = IF r - n > L - f THEN L - f ELSE r - n
            BY <5>1, <5>2, <5>3, <5>4
          <5>7. f + count = p + r \/ (f + count = L /\ p + r > L)
            BY <5>5, <5>6
          <5> QED BY <5>4, <5>7
        <4> HIDE DEF from, count
        <4> QED BY <1>1, <1>8, <4>2
      <3>2. CASE ~There(file, pos, identsz)
        <4>1. from = Len(file) /\ pos + identsz > Len(file)
          BY <1>2, <1>3, <1>8, <3>2 DEF There, Past
        <4> HIDE DEF from
        <4> QED BY <1>1, <1>2, <1>3, <1>4, <1>8, <1>10, <4>1
      <3> QED BY <3>1, <3>2
    <2>2. pc' \in {"crash", "overflow", "records"}
      <3> HIDE DEF from, count
      <3> QED BY <1>1
    <2>3. Starts' = Starts /\ file' = file
      BY <1>1 DEF Starts
    <2>4. pc' = "records" => pos' \in Starts' \/ Cut'
      BY <1>7, <2>1, <2>3 DEF Cut
    <2> QED BY <2>2, <2>4 DEF SInv, InStepToTheEnd, OfRecord, Starts, Cut
  <1> QED BY <1>9, <1>10

\* For every file, every base and every size of the buffers: the loop over the
\* records stands where a record begins, or at the end of a file whose last record
\* is cut off, and it ends there or on the first tag of all ones.
THEOREM StepsOverRecords == Spec => []InStepToTheEnd
  <1>1. Init => SInv
    BY DEF Init, SInv, InStepToTheEnd, OfRecord
  <1>2. RInv /\ SInv /\ [Next]_vars => SInv'
    <2> SUFFICES ASSUME RInv, SInv, [Next]_vars PROVE SInv'
      OBVIOUS
    <2>1. CASE UNCHANGED vars
      <3>1. UNCHANGED <<file, pos, pc, fVersion, rlen>>
        BY <2>1 DEF vars
      <3> QED BY <3>1 DEF SInv, InStepToTheEnd, OfRecord, Starts, Cut
    <2>2. CASE Terminated
      BY <2>1, <2>2 DEF Terminated
    <2>3. CASE ReadMagic \/ ReadVersionChar \/ ReadVersionEof \/ DecideVersion \/ ReadIdentSize
      <3>1. pc' \notin {"records", "utf8", "done"}
        BY <2>3 DEF ReadMagic, ReadVersionChar, ReadVersionEof, DecideVersion, ReadIdentSize
      <3> QED BY <3>1 DEF SInv, InStepToTheEnd, OfRecord
    <2> QED
      BY <2>1, <2>2, <2>3, DateInStep, EndInStep, RecordInStep, Utf8InStep DEF Next
  <1>3. SInv => InStepToTheEnd
    BY DEF SInv
  <1> QED BY <1>1, <1>2, <1>3, ReaderInvariance, PTL DEF Spec
=============================================================================
