----------------------------- MODULE ByteReader -----------------------------
(***************************************************************************)
(* The bytes under HprofReader: readUshort, readUint, readUlong, readIdent *)
(* and readVersion, and the part of readDump that works on bytes: the      *)
(* header, the loop over record tags, and the strings (HPROF_UTF8), which  *)
(* are read into a buffer sized by the record length.  Every other record  *)
(* is skipped as by the default case.  A byte has Base values (256 in C),  *)
(* unsigned int Base^4 and unsigned long long Base^8; the highest byte is  *)
(* what a signed char confuses with EOF.                                   *)
(***************************************************************************)
EXTENDS Integers, Sequences

CONSTANTS Base,      \* values of a byte
          Files,     \* files, as sequences of bytes
          Magic,     \* the four bytes of MAGIC_HEADER
          Versions,  \* the sequence of version strings, without their NUL
          SbSize,    \* sizeof(sb) in readVersion
          MaxAlloc,  \* MAX_TALLOC_SIZE
          Garbage    \* values of variables that were not set

ASSUME BaseAssumption == Base \in Nat /\ Base > 2
ASSUME FilesAssumption == Files \subseteq Seq(0 .. Base - 1)
ASSUME HeaderAssumption == /\ Magic \in Seq(0 .. Base - 1) /\ Len(Magic) = 4
                           /\ Versions \in Seq(Seq(1 .. Base - 1))
ASSUME BufferAssumption == /\ SbSize \in Nat /\ SbSize > 1 /\ MaxAlloc \in Nat
                           /\ \A v \in DOMAIN Versions : Len(Versions[v]) < SbSize - 1

VARIABLES
    file, pos,  \* the file and the offset of the cursor
    pc,         \* "magic", "version", "decide", "identsz", "date", "records", "utf8",
                \* and the ends "done", "exit", "crash" (NULL), "overflow" (of a buffer)
    sb, over,   \* the characters readVersion has stored, and whether it stored past sb
    fVersion, identsz, date,
    rlen,       \* length of the record
    ident       \* identifier of the last string

vars == <<file, pos, pc, sb, over, fVersion, identsz, date, rlen, ident>>

Word == Base * Base * Base * Base

\* MAX_TALLOC_SIZE is 0x7fffffff, below half of the range of unsigned int.
ASSUME AllocAssumption == 2 * MaxAlloc <= Word

-----------------------------------------------------------------------------
(* Decoding the bytes of f from offset p on.                               *)

There(f, p, n) == p + n <= Len(f)
Shift(v, b) == v * Base + b

readUshort(f, p) == Shift(f[p + 1], f[p + 2])

readUint(f, p) == Shift(Shift(Shift(f[p + 1], f[p + 2]), f[p + 3]), f[p + 4])

\* The upper four bytes are joined in an int, whose sign is extended.
SignExtended(v) == IF 2 * v >= Word THEN v + Word * Word - Word ELSE v

\* Mutant of readUlong: the sum is made before the upper half is shifted.
UlongUnshifted(f, p) ==
    LET low3 == Shift(Shift(f[p + 5], f[p + 6]), f[p + 7])
    IN  Shift(SignExtended(readUint(f, p)) + low3, f[p + 8]) % (Word * Word)

\* (val << 32) + (sb[4] << 8 | sb[5]) << 8 | sb[6]) << 8 | sb[7]: the last shift
\* applies to the sum, so that an upper half other than zero is shifted once too often.
readUlong(f, p) ==
    LET low3 == Shift(Shift(f[p + 5], f[p + 6]), f[p + 7])
    IN  Shift((SignExtended(readUint(f, p)) * Word + low3) % (Word * Word), f[p + 8]) % (Word * Word)

\* What fread leaves the cursor at.
Past(n) == IF There(file, pos, n) THEN pos + n ELSE IF pos < Len(file) THEN Len(file) ELSE pos

\* The values readIdent may return; it does not ask whether the bytes were there.
readIdent(p) ==
    IF ~There(file, p, identsz) THEN Garbage
    ELSE {IF identsz = 4 THEN readUint(file, p) ELSE readUlong(file, p)}

-----------------------------------------------------------------------------
Init ==
    /\ file \in Files /\ pos = 0 /\ pc = "magic" /\ sb = <<>> /\ over = FALSE
    /\ fVersion = -1 /\ identsz = 0 /\ date = 0 /\ rlen = 0 /\ ident = 0

ReadMagic ==
    /\ pc = "magic"
    /\ pc' = IF There(file, pos, 4) /\ readUint(file, pos) = readUint(Magic, 0)
             THEN "version" ELSE "exit"
    /\ pos' = Past(4)
    /\ UNCHANGED <<file, sb, over, fVersion, identsz, date, rlen, ident>>

\* Mutant of Full: room for one character more.
FullLater(len) == SbSize < len + 1

\* When readVersion gives up, after it has stored len characters.
Full(len) == SbSize < len + 2

\* One turn of the loop of readVersion.  When it gives up it stores a NUL, not
\* after the last character but one further.
ReadVersionChar ==
    /\ pc = "version" /\ pos < Len(file)
    /\ LET ch == file[pos + 1]
           len == Len(sb) + 1
       IN  /\ sb' = Append(sb, ch)
           /\ over' = (over \/ len > SbSize \/ (ch # 0 /\ Full(len) /\ 1 + len >= SbSize))
           /\ pc' = IF ch = 0 \/ Full(len) THEN "decide" ELSE "version"
    /\ pos' = pos + 1
    /\ UNCHANGED <<file, fVersion, identsz, date, rlen, ident>>

\* Mutant of ReadVersionEof: the end of the file is not looked for.
ReadVersionForever == pc = "version" /\ pos >= Len(file) /\ UNCHANGED vars

ReadVersionEof ==
    /\ pc = "version" /\ pos >= Len(file)
    /\ pc' = "decide"
    /\ UNCHANGED <<file, pos, sb, over, fVersion, identsz, date, rlen, ident>>

Prefix(s, t) == Len(s) <= Len(t) /\ \A i \in DOMAIN s : s[i] = t[i]

\* Mutant of Matches: strncmp with what was read.
MatchesPrefix(v) == Prefix(Versions[v], sb)

\* strcmp(sb, ...) = 0; without a NUL, what follows in sb may happen to fit.
Matches(v) == IF sb # <<>> /\ sb[Len(sb)] = 0
              THEN sb = Append(Versions[v], 0) ELSE Prefix(sb, Versions[v])

DecideVersion ==
    /\ pc = "decide"
    /\ fVersion' \in {v \in DOMAIN Versions : sb # <<>> /\ Matches(v)}
                       \cup (IF sb # <<>> /\ sb[Len(sb)] = 0
                                /\ \E v \in DOMAIN Versions : Matches(v) THEN {} ELSE {-1})
    /\ pc' = IF fVersion' = -1 THEN "exit" ELSE "identsz"
    /\ UNCHANGED <<file, pos, sb, over, identsz, date, rlen, ident>>

ReadIdentSize ==
    /\ pc = "identsz"
    /\ IF There(file, pos, 4)
       THEN /\ identsz' = readUint(file, pos)
            /\ pc' = IF identsz' \in {4, 8} THEN "date" ELSE "exit"
       ELSE pc' = "exit" /\ UNCHANGED identsz
    /\ pos' = Past(4)
    /\ UNCHANGED <<file, sb, over, fVersion, date, rlen, ident>>

ReadDate ==
    /\ pc = "date"
    /\ IF There(file, pos, 8)
       THEN date' = readUlong(file, pos) /\ pc' = "records"
       ELSE pc' = "exit" /\ UNCHANGED date
    /\ pos' = Past(8)
    /\ UNCHANGED <<file, sb, over, fVersion, identsz, rlen, ident>>

\* Mutant of IsEof: the tag is compared before it is a char.
IsEofInt(tag) == tag = -1

\* EOF != (rtype = getc(...)), where rtype is a signed char; -1 is no byte.
IsEof(tag) == tag \in {-1, Base - 1}

Tag == IF pos < Len(file) THEN file[pos + 1] ELSE -1

EndOfRecords ==
    /\ pc = "records" /\ IsEof(Tag)
    /\ pc' = "done"
    /\ pos' = Past(1)
    /\ UNCHANGED <<file, sb, over, fVersion, identsz, date, rlen, ident>>

\* Tag, timestamp and length of a record; a record that is no string is skipped,
\* even past the end of the file.
ReadRecord ==
    /\ pc = "records" /\ ~IsEof(Tag)
    /\ IF There(file, pos, 9)
       THEN /\ rlen' = readUint(file, pos + 5)
            /\ pc' = IF Tag = 1 THEN "utf8" ELSE "records"
            /\ pos' = IF Tag = 1 THEN pos + 9 ELSE pos + 9 + rlen'
       ELSE pc' = "exit" /\ pos' = Past(9) /\ UNCHANGED rlen
    /\ UNCHANGED <<file, sb, over, fVersion, identsz, date, ident>>

\* Mutant of Capacity: no room for the NUL.
CapacityWithoutNul == (rlen - identsz) % Word

\* Bytes asked for: the argument of talloc_zero_array is unsigned.
Capacity == (1 + rlen - identsz) % Word

\* hideSpecials runs up to the first zero: whether that is in the buffer, after
\* count characters read from offset `from' on.
hideSpecials(from, count) == count < Capacity \/ \E i \in 1 .. count : file[from + i] = 0

\* The identifier, and rlen - identsz characters into a buffer of zeroes with one
\* byte more.
ReadUtf8 ==
    /\ pc = "utf8"
    /\ ident' \in readIdent(pos)
    /\ LET from  == Past(identsz)
           rest  == IF from < Len(file) THEN Len(file) - from ELSE 0
           slen  == rlen - identsz
           count == IF slen < 0 \/ slen > rest THEN rest ELSE slen
       IN  /\ pos' = from + count
           /\ pc' = CASE Capacity >= MaxAlloc -> "crash"
                      [] Capacity < MaxAlloc /\ (count > Capacity \/ ~hideSpecials(from, count)) -> "overflow"
                      [] OTHER -> "records"
    /\ UNCHANGED <<file, sb, over, fVersion, identsz, date, rlen>>

Ended == pc \in {"done", "exit", "crash", "overflow"}

Terminated == Ended /\ UNCHANGED vars

Next ==
    \/ ReadMagic \/ ReadVersionChar \/ ReadVersionEof \/ DecideVersion
    \/ ReadIdentSize \/ ReadDate \/ EndOfRecords \/ ReadRecord \/ ReadUtf8
    \/ Terminated

Spec == Init /\ [][Next]_vars
FairSpec == Spec /\ WF_vars(Next)
-----------------------------------------------------------------------------
(* What the bytes mean, by the HPROF format.                               *)

BigEndian2(f, p) == f[p + 1] * Base + f[p + 2]
BigEndian4(f, p) == f[p + 1] * (Base * Base * Base) + f[p + 2] * (Base * Base)
                    + f[p + 3] * Base + f[p + 4]
BigEndian8(f, p) == BigEndian4(f, p) * Word + BigEndian4(f, p + 4)

\* Length of the header, up to the first record, of a file of version v.
HeaderLength(v) == 4 + Len(Versions[v]) + 1 + 4 + 8

\* f begins with a whole header of version v.
HasHeader(f, v) ==
    LET n == 4 + Len(Versions[v]) + 1
    IN  /\ Len(f) >= HeaderLength(v)
        /\ SubSeq(f, 1, n) = Magic \o Append(Versions[v], 0)
        /\ BigEndian4(f, n) \in {4, 8}

\* Where the records of f begin, from p on; a tag of all ones is not passed.
RecordStarts(f, p) ==
    LET from[q \in Nat] == {q} \cup IF q + 9 <= Len(f) /\ f[q + 1] # Base - 1
                                    THEN from[q + 9 + BigEndian4(f, q + 5)] ELSE {}
    IN  from[p]

InRecords == pc \in {"records", "utf8", "done", "crash", "overflow"}

-----------------------------------------------------------------------------
(* What every state must satisfy.                                          *)

\* The variables of readDump and readVersion keep their types, the version is a
\* known one or -1, and readVersion never keeps more characters than sb holds.
TypeOK ==
    /\ file \in Seq(0 .. Base - 1) /\ pos \in Nat
    /\ pc \in {"magic", "version", "decide", "identsz", "date", "records", "utf8",
               "done", "exit", "crash", "overflow"}
    /\ Len(sb) <= SbSize /\ over \in BOOLEAN
    /\ fVersion \in DOMAIN Versions \cup {-1} /\ identsz \in 0 .. Word - 1
    /\ date \in 0 .. Word * Word - 1 /\ rlen \in 0 .. Word - 1
    /\ ident \in Garbage \cup 0 .. Word * Word - 1

\* readUshort and readUint return the big-endian value of the bytes at the cursor,
\* wherever the cursor comes to stand.
WordsRight ==
    /\ There(file, pos, 2) => readUshort(file, pos) = BigEndian2(file, pos)
    /\ There(file, pos, 4) => readUint(file, pos) = BigEndian4(file, pos)

\* readUlong is right when the upper half of the eight bytes is zero.
LongRightIfSmall ==
    There(file, pos, 8) /\ BigEndian4(file, pos) = 0 => readUlong(file, pos) = BigEndian8(file, pos)

\* All tables are keyed by the lower 32 bits of an identifier (trbt_insert32), and
\* these are right in every identifier that readIdent found in the file.
IdentKeyRight ==
    There(file, pos, 8) => readUlong(file, pos) % Word = BigEndian4(file, pos + 4)

\* What the decoders get right, wherever the cursor comes to stand: words, the lower
\* half of longs, which is the key in all tables, and longs without an upper half.
DecodedRight == TypeOK /\ WordsRight /\ LongRightIfSmall /\ IdentKeyRight

\* "Dump file created": what is printed is the creation date that the header holds.
DateRight == InRecords => date = BigEndian8(file, HeaderLength(fVersion) - 8)

\* readDump comes to the records if and only if the file begins with a whole header:
\* the magic number, a version with its NUL, a size of 4 or 8, a date.
HeaderDecided ==
    /\ InRecords => /\ fVersion \in DOMAIN Versions /\ HasHeader(file, fVersion)
                    /\ identsz = BigEndian4(file, HeaderLength(fVersion) - 12)
    /\ pc = "exit" => \A v \in DOMAIN Versions :
                          HasHeader(file, v) => pos > HeaderLength(v)

\* The NUL that readVersion stores when it gives up is past the end of sb, and that
\* happens exactly when the version has no NUL among its first SbSize - 1 characters.
OverrunOnlyLongVersion ==
    pc \notin {"magic", "version"} =>
        (over <=> /\ Len(file) >= 4 + SbSize - 1 /\ SubSeq(file, 1, 4) = Magic
                  /\ \A i \in 1 .. SbSize - 1 : file[4 + i] # 0)

\* The loop over the records stands where a record begins, or at the end of a file
\* whose last record is cut off; it ends there or on the first tag of all ones.
InStepToTheEnd ==
    LET starts == RecordStarts(file, HeaderLength(fVersion))
        cut    == pos = Len(file) /\ \E q \in starts : q > pos
    IN  /\ pc = "records" => pos \in starts \/ cut
        /\ pc = "done" => \/ pos >= Len(file) /\ (pos \in starts \/ cut)
                          \/ pos - 1 \in starts /\ file[pos] = Base - 1

\* A string is read and cleaned within its buffer, unless its record is shorter
\* than the identifier it begins with, or too long to be allocated.
StringInBounds ==
    pc \in {"crash", "overflow"} => rlen < identsz \/ 1 + rlen - identsz >= MaxAlloc

\* readDump comes to an end on every file: a short read ends it, and every record
\* that is read or skipped moves the cursor.
Termination == <>Ended
=============================================================================
