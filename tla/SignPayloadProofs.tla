--------------------------- MODULE SignPayloadProofs ---------------------------
(*****************************************************************************)
(* Proofs about SignPayload, for any names, code, arguments and method       *)
(* names, any bytes in the fields, and any payload that a client encodes of  *)
(* them, whole or cut short anywhere.                                        *)
(*                                                                           *)
(* The argument: a buffer that holds a field where it stands (Reads) is      *)
(* walked past that field, or the buffer ends before the field does and the  *)
(* walk goes nowhere else (GetsPast). That is so of numbers, texts, keys and *)
(* fields of a known length, it carries over to one field behind another     *)
(* (PastBoth) and to a list of them, whatever their number (PastAll), and so *)
(* to every action (ActionIsSkipped), to the actions and to the parts of a   *)
(* payload (PartiesAreSkipped). What is cut short is a buffer that holds the *)
(* payload as far as it goes. What is left is that the discriminant is no    *)
(* length: neither reading takes a payload of the other kind for its own     *)
(* (OnlyTaggedIsNep366, TaggedIsNotUntagged).                                *)
(*                                                                           *)
(* The loops of SkipTimes and FlattenSeq are functions chosen by their       *)
(* recursive equations; that there are such functions is shown first         *)
(* (LoopExists, JoinsExist).                                                 *)
(*****************************************************************************)
EXTENDS Algorithms, CountingLemmas, SequenceTheorems

(* buf holds enc from offset o on, as far as it reaches; and a walk from o    *)
(* gets past enc, unless buf ends before that.                                *)
Reads(buf, o, enc) == \A i \in 1 .. Len(enc) : o + i <= Len(buf) => buf[o + i] = enc[i]
GetsPast(buf, o, enc, r) ==
    r \in {Off, o + Len(enc)} /\ (o + Len(enc) <= Len(buf) => r = o + Len(enc))

(* Off is no offset. *)
LEMMA OffIsNone == Off = -1 /\ Off \notin Nat
  BY DEF Off

(* What holds two fields holds each where it begins. *)
LEMMA ReadsBoth ==
  ASSUME NEW buf, NEW o \in Nat, NEW a \in Seq(Byte), NEW b \in Seq(Byte), Reads(buf, o, a \o b)
  PROVE  /\ Reads(buf, o, a) /\ Reads(buf, o + Len(a), b) /\ o + Len(a) \in Nat
         /\ Len(a \o b) = Len(a) + Len(b) /\ a \o b \in Seq(Byte)
<1>1. /\ Len(a) \in Nat /\ Len(b) \in Nat /\ Len(a \o b) = Len(a) + Len(b)
      /\ a \o b \in Seq(Byte)
      /\ \A i \in 1 .. Len(a) : (a \o b)[i] = a[i] /\ i \in 1 .. Len(a \o b)
      /\ \A i \in 1 .. Len(b) : (a \o b)[Len(a) + i] = b[i] /\ Len(a) + i \in 1 .. Len(a \o b)
  OBVIOUS
<1>2. Reads(buf, o, a)
  BY <1>1 DEF Reads
<1>3. ASSUME NEW i \in 1 .. Len(b), (o + Len(a)) + i <= Len(buf)
      PROVE  buf[(o + Len(a)) + i] = b[i]
  <2>1. (o + Len(a)) + i = o + (Len(a) + i)
    BY <1>1
  <2>2. buf[o + (Len(a) + i)] = (a \o b)[Len(a) + i]
    BY <1>1, <1>3, <2>1 DEF Reads
  <2> QED BY <1>1, <2>1, <2>2
<1>4. Reads(buf, o + Len(a), b)
  BY <1>3 DEF Reads
<1> QED BY <1>1, <1>2, <1>4

(* A walk past one field and then past the next gets past both. *)
LEMMA PastBoth ==
  ASSUME NEW buf, Len(buf) \in Nat, NEW o \in Nat, NEW a \in Seq(Byte), NEW b \in Seq(Byte), NEW r, NEW q,
         GetsPast(buf, o, a, r), GetsPast(buf, o + Len(a), b, q)
  PROVE  GetsPast(buf, o, a \o b, IF r = Off THEN Off ELSE q)
<1>1. Len(a) \in Nat /\ Len(b) \in Nat /\ Len(a \o b) = Len(a) + Len(b)
  OBVIOUS
<1>2. o + Len(a) # Off /\ o + Len(a) \in Nat /\ (o + Len(a)) + Len(b) = o + Len(a \o b)
  BY <1>1, OffIsNone
<1>3. o + Len(a \o b) <= Len(buf) => o + Len(a) <= Len(buf)
  BY <1>1
<1> QED BY <1>2, <1>3 DEF GetsPast

(* The four bytes of a number give the number back. *)
LEMMA BytesOfNumber ==
  ASSUME NEW n \in Nat, n < 256 * (256 * 256 * 256)
  PROVE  /\ U32(n) \in Seq(Byte) /\ Len(U32(n)) = 4
         /\ U32(n)[1] + 256 * (U32(n)[2] + 256 * (U32(n)[3] + 256 * U32(n)[4])) = n
<1> DEFINE a == n % 256
           b == (n \div 256) % 256
           c == (n \div (256 * 256)) % 256
           d == n \div (256 * 256 * 256)
<1>1. a \in Byte /\ b \in Byte /\ c \in Byte /\ d \in Byte
  BY DEF Byte
<1>2. a + 256 * (b + 256 * (c + 256 * d)) = n
  OBVIOUS
<1> HIDE DEF a, b, c, d
<1>3. <<a, b, c, d>> \in Seq(Byte) /\ Len(<<a, b, c, d>>) = 4
  BY <1>1
<1>4. U32(n) = <<a, b, c, d>>
  BY DEF U32, a, b, c, d
<1> QED BY <1>2, <1>3, <1>4

(* readU32LE reads the number that is there, if its four bytes are. *)
LEMMA NumberIsRead ==
  ASSUME NEW buf, Len(buf) \in Nat, NEW o \in Nat, NEW n \in Nat, n < 256 * (256 * 256 * 256), Reads(buf, o, U32(n))
  PROVE  ReadU32LE(buf, o) = IF o + 4 <= Len(buf) THEN n ELSE Off
<1>1. CASE o + 4 <= Len(buf)
  <2>0. Len(U32(n)) = 4
    BY BytesOfNumber
  <2>1. \A i \in 1 .. 4 : o + i <= Len(buf) /\ buf[o + i] = U32(n)[i]
    BY <1>1, <2>0 DEF Reads
  <2>2. /\ buf[o + 1] = U32(n)[1] /\ buf[o + 2] = U32(n)[2]
        /\ buf[o + 3] = U32(n)[3] /\ buf[o + 4] = U32(n)[4]
    BY <2>1
  <2> QED BY <1>1, <2>2, BytesOfNumber DEF ReadU32LE
<1>2. CASE ~(o + 4 <= Len(buf))
  BY <1>2 DEF ReadU32LE
<1> QED BY <1>1, <1>2

(* skipLengthPrefixed gets past the text that is there. *)
LEMMA TextIsSkipped ==
  ASSUME NEW buf, Len(buf) \in Nat, NEW o \in Nat, NEW t \in Seq(Byte), Len(t) < MaxBytes,
         Reads(buf, o, Text(t))
  PROVE  /\ GetsPast(buf, o, Text(t), SkipLengthPrefixed(buf, o))
         /\ Text(t) \in Seq(Byte) /\ Len(Text(t)) = 4 + Len(t)
<1>1. Len(t) \in Nat /\ Len(t) < 256 * (256 * 256 * 256)
  BY DEF MaxBytes
<1> DEFINE n == Len(t)
<1>2. U32(n) \in Seq(Byte) /\ Len(U32(n)) = 4
  BY <1>1, BytesOfNumber
<1>3. Reads(buf, o, U32(n)) /\ Len(Text(t)) = 4 + n /\ Text(t) \in Seq(Byte)
  <2> DEFINE u == U32(n)
  <2>1. Text(t) = u \o t
    BY DEF Text
  <2>2. u \in Seq(Byte)
    BY <1>2
  <2>3. Len(u) = 4
    BY <1>2
  <2> HIDE DEF u
  <2>4. Reads(buf, o, u \o t)
    BY <2>1
  <2>5. Reads(buf, o, u) /\ Len(u \o t) = Len(u) + Len(t) /\ u \o t \in Seq(Byte)
    BY <2>2, <2>4, ReadsBoth
  <2>6. Reads(buf, o, u) /\ Len(Text(t)) = Len(u) + Len(t) /\ Text(t) \in Seq(Byte)
    BY <2>1, <2>5
  <2> QED BY <2>3, <2>6 DEF u
<1>4. ReadU32LE(buf, o) = IF o + 4 <= Len(buf) THEN n ELSE Off
  BY <1>1, <1>3, NumberIsRead
<1>5. n # Off
  BY <1>1, OffIsNone
<1> HIDE DEF n
<1>6. CASE o + 4 <= Len(buf)
  <2>1. SkipLengthPrefixed(buf, o) = Within(buf, o + 4 + n)
    BY <1>4, <1>5, <1>6 DEF SkipLengthPrefixed
  <2> QED BY <1>1, <1>3, <2>1 DEF Within, GetsPast, n
<1>7. CASE ~(o + 4 <= Len(buf))
  <2>1. SkipLengthPrefixed(buf, o) = Off
    BY <1>4, <1>7 DEF SkipLengthPrefixed
  <2> QED BY <1>1, <1>3, <1>7, <2>1 DEF GetsPast, n
<1> QED BY <1>3, <1>6, <1>7

(* What is tagged begins with its tag. *)
LEMMA TagFirst ==
  ASSUME NEW x \in Byte, NEW f \in Seq(Byte)
  PROVE  Tag(x, f) \in Seq(Byte) /\ Len(Tag(x, f)) = 1 + Len(f) /\ Tag(x, f)[1] = x
<1> DEFINE e == <<x>>
<1>1. e \in Seq(Byte)
  OBVIOUS
<1>2. Len(e) = 1 /\ e[1] = x
  OBVIOUS
<1> DEFINE c == e \o f
<1> HIDE DEF e
<1>3. /\ c \in Seq(Byte) /\ Len(c) = Len(e) + Len(f)
      /\ \A i \in 1 .. Len(e) : c[i] = e[i]
  BY <1>1
<1>4. Tag(x, f) = c
  BY DEF Tag, e
<1> HIDE DEF c
<1> QED BY <1>2, <1>3, <1>4

(* A key is its variant and the bytes that the variant says. *)
LEMMA KeysAre ==
  ASSUME NEW k \in PublicKeys
  PROVE  /\ k \in Seq(Byte) /\ Len(k) > 0 /\ k[1] \in {0, 1}
         /\ KeyLength(k[1]) \in Nat /\ Len(k) = 1 + KeyLength(k[1])
<1>1. CASE \E f \in Fill(32) : k = Tag(0, f)
  <2>1. PICK f \in Fill(32) : k = Tag(0, f)
    BY <1>1
  <2>2. f \in Seq(Byte)
    BY PayloadAssumption
  <2>3. Len(f) = 32
    BY PayloadAssumption
  <2>4. 0 \in Byte
    BY DEF Byte
  <2>5. k \in Seq(Byte) /\ Len(k) = 1 + Len(f) /\ k[1] = 0
    BY <2>1, <2>2, <2>4, TagFirst
  <2>6. KeyLength(k[1]) = 32 /\ KeyLength(k[1]) \in Nat /\ k[1] \in {0, 1}
    BY <2>5 DEF KeyLength
  <2>7. KeyLength(k[1]) = Len(f)
    BY <2>3, <2>6
  <2> QED BY <2>5, <2>6, <2>7
<1>2. CASE \E f \in Fill(64) : k = Tag(1, f)
  <2>1. PICK f \in Fill(64) : k = Tag(1, f)
    BY <1>2
  <2>2. f \in Seq(Byte)
    BY PayloadAssumption
  <2>3. Len(f) = 64
    BY PayloadAssumption
  <2>4. 1 \in Byte
    BY DEF Byte
  <2>5. k \in Seq(Byte) /\ Len(k) = 1 + Len(f) /\ k[1] = 1
    BY <2>1, <2>2, <2>4, TagFirst
  <2>6. KeyLength(k[1]) = 64 /\ KeyLength(k[1]) \in Nat /\ k[1] \in {0, 1}
    BY <2>5 DEF KeyLength
  <2>7. KeyLength(k[1]) = Len(f)
    BY <2>3, <2>6
  <2> QED BY <2>5, <2>6, <2>7
<1> QED BY <1>1, <1>2 DEF PublicKeys

(* skipPublicKey gets past the key that is there, if it is there whole. *)
LEMMA KeyIsSkipped ==
  ASSUME NEW buf, Len(buf) \in Nat, NEW o \in Nat, NEW k \in PublicKeys, Reads(buf, o, k)
  PROVE  /\ GetsPast(buf, o, k, SkipPublicKey(buf, o))
         /\ SkipPublicKey(buf, o) # Off => o + Len(k) <= Len(buf)
<1> DEFINE l == KeyLength(k[1])
<1>1. Len(k) \in Nat /\ Len(k) > 0 /\ l \in Nat /\ l # Off /\ Len(k) = 1 + l
  BY KeysAre, OffIsNone
<1>2. CASE o + 1 > Len(buf)
  <2>1. SkipPublicKey(buf, o) = Off
    BY <1>2 DEF SkipPublicKey
  <2> QED BY <1>1, <1>2, <2>1 DEF GetsPast
<1>3. CASE ~(o + 1 > Len(buf))
  <2>1. buf[o + 1] = k[1]
    BY <1>1, <1>3 DEF Reads
  <2>2. SkipPublicKey(buf, o) = Within(buf, o + 1 + l)
    BY <1>1, <1>3, <2>1 DEF SkipPublicKey
  <2> HIDE DEF l
  <2> QED BY <1>1, <2>2 DEF Within, GetsPast
<1> QED BY <1>2, <1>3

-------------------------------------------------------------------------------
(* Lists. *)

(* What the first items hold, one after another: their flattening. *)
Joins(S, items, f) ==
    /\ f \in [Nat -> Seq(S)] /\ f[0] = <<>>
    /\ \A k \in 1 .. Len(items) : f[k] = f[k - 1] \o items[k]

(* There is a function of what the first items hold. *)
LEMMA JoinsExist ==
  ASSUME NEW S, NEW items \in Seq(Seq(S))
  PROVE  \E f : Joins(S, items, f)
<1> DEFINE V == Seq(S)
           D == 1 .. Len(items)
           step == [x \in V \X Nat |-> IF x[2] \in D THEN x[1] \o items[x[2]] ELSE x[1]]
<1>1. \A i \in D : items[i] \in V
  OBVIOUS
<1>2. \A v \in V, n \in Nat : step[<<v, n>>] = IF n \in D THEN v \o items[n] ELSE v
  OBVIOUS
<1>3. \A v \in V, n \in Nat : step[<<v, n>>] \in V
  <2> SUFFICES ASSUME NEW v \in V, NEW n \in Nat PROVE (IF n \in D THEN v \o items[n] ELSE v) \in V
    BY <1>2
  <2>1. CASE n \in D
    <3> DEFINE a == items[n]
    <3>1. a \in V
      BY <1>1, <2>1
    <3> HIDE DEF a, D
    <3>2. v \o a \in V
      BY <3>1
    <3> QED BY <2>1, <3>2 DEF a
  <2> QED BY <2>1
<1>4. step \in [V \X Nat -> V] /\ <<>> \in V
  <2>1. \A x \in V \X Nat : x = <<x[1], x[2]>> /\ x[1] \in V /\ x[2] \in Nat
    OBVIOUS
  <2>2. \A x \in V \X Nat : step[x] \in V
    BY <1>3, <2>1
  <2>3. step = [x \in V \X Nat |-> step[x]]
    OBVIOUS
  <2> HIDE DEF step
  <2> QED BY <2>2, <2>3
<1> HIDE DEF step, V
<1>5. PICK f : IsRecursion(V, <<>>, step, f)
  BY <1>4, RecursionExists
<1>6. ASSUME NEW k \in D PROVE f[k] = f[k - 1] \o items[k]
  <2>1. k - 1 \in Nat /\ (k - 1) + 1 = k /\ k \in Nat
    OBVIOUS
  <2>2. f[k] = step[<<f[k - 1], k>>] /\ f[k - 1] \in V
    BY <1>5, <2>1 DEF IsRecursion
  <2> QED BY <1>2, <2>1, <2>2
<1> QED BY <1>5, <1>6 DEF IsRecursion, Joins, V

(* The flattening by its own recursion. *)
FlatStep(items, g, i) == IF i = 1 THEN items[i] ELSE g[i - 1] \o items[i]
IsFlattening(items, g) == g = [i \in 1 .. Len(items) |-> FlatStep(items, g, i)]

(* FlattenSeq chooses such a function. *)
LEMMA FlattenSeqIs ==
  ASSUME NEW items, Len(items) # 0
  PROVE  FlattenSeq(items) = (CHOOSE g : IsFlattening(items, g))[Len(items)]
  BY DEF FlattenSeq, FlatStep, IsFlattening

(* What the community module flattens is what the items hold in turn. *)
LEMMA FlattenJoins ==
  ASSUME NEW S, NEW items \in Seq(Seq(S)), NEW f, Joins(S, items, f)
  PROVE  FlattenSeq(items) = f[Len(items)]
<1> DEFINE n == Len(items)
<1>1. n \in Nat
  OBVIOUS
<1>2. CASE n = 0
  <2>1. items = <<>>
    BY <1>2
  <2>2. FlattenSeq(items) = items
    BY <1>2 DEF FlattenSeq
  <2> QED BY <1>2, <2>1, <2>2 DEF Joins
<1>3. CASE n # 0
  <2> DEFINE D == 1 .. n
             F(g, i) == FlatStep(items, g, i)
             g0 == [i \in D |-> f[i]]
  <2>1. ASSUME NEW i \in D PROVE f[i] = FlatStep(items, f, i)
    <3>1. CASE i = 1
      <4>0. 1 \in D /\ 1 - 1 = 0
        BY <3>1
      <4>1. f[1] = f[0] \o items[1] /\ f[0] = <<>>
        <5> DEFINE E(k) == f[k - 1] \o items[k]
        <5>1. \A k \in D : f[k] = E(k)
          BY DEF Joins
        <5>2. E(1) = f[0] \o items[1]
          BY <4>0
        <5> HIDE DEF E, D
        <5>3. f[1] = E(1)
          BY <4>0, <5>1
        <5>4. f[0] = <<>>
          BY DEF Joins
        <5> QED BY <5>2, <5>3, <5>4
      <4> DEFINE a == items[1]
      <4>2. a \in Seq(S)
        BY <3>1, <2>1
      <4> HIDE DEF a
      <4>3. <<>> \o a = a
        BY <4>2
      <4> QED BY <3>1, <4>1, <4>3 DEF FlatStep, a
    <3>2. CASE i # 1
      BY <3>2 DEF Joins, FlatStep
    <3> QED BY <3>1, <3>2
  <2>2. \A i \in D : g0[i] = F(g0, i)
    <3> SUFFICES ASSUME NEW i \in D PROVE f[i] = F(g0, i)
      OBVIOUS
    <3>1. i # 1 => i - 1 \in D
      BY <1>1
    <3>2. i # 1 => g0[i - 1] = f[i - 1]
      BY <3>1
    <3> QED BY <2>1, <3>2 DEF FlatStep
  <2>3. IsFlattening(items, g0)
    <3>1. g0 = [i \in D |-> g0[i]]
      OBVIOUS
    <3> HIDE DEF g0, F
    <3>2. g0 = [i \in D |-> F(g0, i)]
      BY <2>2, <3>1
    <3> QED BY <3>2 DEF IsFlattening, F
  <2> DEFINE c == CHOOSE g : IsFlattening(items, g)
  <2>4. IsFlattening(items, c)
    BY <2>3
  <2>5. FlattenSeq(items) = c[n]
    BY <1>3, FlattenSeqIs
  <2> HIDE DEF c, g0
  <2>6. \A i \in D : c[i] = F(c, i)
    <3> HIDE DEF F
    <3>1. c = [i \in D |-> F(c, i)]
      BY <2>4 DEF IsFlattening, F
    <3> QED BY <3>1
  <2>7. \A i \in Nat : i \in D => c[i] = f[i]
    <3> DEFINE Good == {i \in Nat : i \in D => c[i] = f[i]}
    <3>1. 0 \in Good
      OBVIOUS
    <3>2. ASSUME NEW i \in Nat, i \in Good PROVE i + 1 \in Good
      <4> SUFFICES ASSUME i + 1 \in D PROVE c[i + 1] = f[i + 1]
        OBVIOUS
      <4>1. i + 1 # 1 => i \in D /\ (i + 1) - 1 = i
        BY <1>1
      <4>2. FlatStep(items, c, i + 1) = FlatStep(items, f, i + 1)
        BY <3>2, <4>1 DEF FlatStep
      <4> QED BY <2>1, <2>6, <4>2
    <3> HIDE DEF Good
    <3>3. \A i \in Nat : i \in Good
      BY <3>1, <3>2, StepInduction
    <3> QED BY <3>3 DEF Good
  <2>8. n \in D
    BY <1>1, <1>3
  <2> QED BY <1>1, <2>5, <2>7, <2>8
<1> QED BY <1>2, <1>3

(* An offset, or none. *)
Offsets == Nat \union {Off}

(* What is read and skipped is an offset, whatever the bytes. *)
LEMMA SkippedIsOffset ==
  ASSUME NEW buf \in Seq(Byte), NEW o \in Nat
  PROVE  ReadU32LE(buf, o) \in Offsets /\ SkipLengthPrefixed(buf, o) \in Offsets /\ SkipPublicKey(buf, o) \in Offsets
<1>1. ReadU32LE(buf, o) \in Offsets
  <2>1. CASE o + 4 > Len(buf)
    BY <2>1 DEF ReadU32LE, Offsets
  <2>2. CASE ~(o + 4 > Len(buf))
    <3> DEFINE b1 == buf[o + 1]
               b2 == buf[o + 2]
               b3 == buf[o + 3]
               b4 == buf[o + 4]
    <3>1. \A i \in 1 .. Len(buf) : buf[i] \in Byte
      OBVIOUS
    <3>2. o + 1 \in 1 .. Len(buf) /\ o + 2 \in 1 .. Len(buf) /\ o + 3 \in 1 .. Len(buf) /\ o + 4 \in 1 .. Len(buf)
      BY <2>2
    <3>3. b1 \in Byte /\ b2 \in Byte /\ b3 \in Byte /\ b4 \in Byte
      BY <3>1, <3>2
    <3>4. ReadU32LE(buf, o) = b1 + 256 * (b2 + 256 * (b3 + 256 * b4))
      BY <2>2 DEF ReadU32LE
    <3> HIDE DEF b1, b2, b3, b4
    <3>5. b1 \in Nat /\ b2 \in Nat /\ b3 \in Nat /\ b4 \in Nat
      BY <3>3 DEF Byte
    <3>6. b1 + 256 * (b2 + 256 * (b3 + 256 * b4)) \in Nat
      BY <3>5
    <3> QED BY <3>4, <3>6 DEF Offsets
  <2> QED BY <2>1, <2>2
<1>2. SkipLengthPrefixed(buf, o) \in Offsets
  <2> DEFINE n == ReadU32LE(buf, o)
  <2>1. n \in Offsets
    BY <1>1
  <2>2. SkipLengthPrefixed(buf, o) = IF n = Off THEN Off ELSE Within(buf, o + 4 + n)
    BY DEF SkipLengthPrefixed
  <2> HIDE DEF n
  <2> QED BY <2>1, <2>2 DEF Offsets, Within
<1>3. SkipPublicKey(buf, o) \in Offsets
  <2> DEFINE l == KeyLength(buf[o + 1])
  <2>1. l = 32 \/ l = 64 \/ l = Off
    BY DEF KeyLength
  <2>2. SkipPublicKey(buf, o) = IF o + 1 > Len(buf) \/ l = Off THEN Off ELSE Within(buf, o + 1 + l)
    BY DEF SkipPublicKey
  <2> HIDE DEF l
  <2> QED BY <2>1, <2>2 DEF Offsets, Within
<1> QED BY <1>1, <1>2, <1>3

(* A loop of skips. *)
LoopStep(skip, c, from, k) ==
    IF k = 0 THEN from ELSE IF c[k - 1] = Off THEN Off ELSE skip[c[k - 1]]

(* A loop over a buffer has a function of its positions. *)
LEMMA LoopExists ==
  ASSUME NEW skip \in [Nat -> Offsets], NEW from \in Nat
  PROVE  \E c \in [Nat -> Offsets] : \A k \in Nat : c[k] = LoopStep(skip, c, from, k)
<1> DEFINE step == [x \in Offsets \X Nat |-> IF x[1] = Off THEN Off ELSE skip[x[1]]]
<1>1. step \in [Offsets \X Nat -> Offsets] /\ from \in Offsets
  <2>1. \A x \in Offsets \X Nat : x[1] \in Offsets
    OBVIOUS
  <2>2. \A v \in Offsets : v # Off => v \in Nat
    BY DEF Offsets
  <2>3. Off \in Offsets /\ from \in Offsets
    BY DEF Offsets
  <2>4. \A x \in Offsets \X Nat : (IF x[1] = Off THEN Off ELSE skip[x[1]]) \in Offsets
    BY <2>1, <2>2, <2>3
  <2> QED BY <2>3, <2>4
<1>2. \A v \in Offsets, n \in Nat : step[<<v, n>>] = IF v = Off THEN Off ELSE skip[v]
  OBVIOUS
<1> HIDE DEF step
<1>3. PICK c : IsRecursion(Offsets, from, step, c)
  BY <1>1, RecursionExists
<1>4. ASSUME NEW k \in Nat PROVE c[k] = LoopStep(skip, c, from, k)
  <2>1. CASE k = 0
    BY <1>3, <2>1 DEF IsRecursion, LoopStep
  <2>2. CASE k # 0
    <3>1. k - 1 \in Nat /\ (k - 1) + 1 = k
      BY <2>2
    <3>2. c[k] = step[<<c[k - 1], k>>] /\ c[k - 1] \in Offsets
      BY <1>3, <3>1 DEF IsRecursion
    <3> QED BY <1>2, <2>2, <3>2 DEF LoopStep
  <2> QED BY <2>1, <2>2
<1> QED BY <1>3, <1>4 DEF IsRecursion

(* The loop over texts (the method names of skipAccessKey), and the one over  *)
(* actions (tryDecodeDelegateAction), as functions of how many were skipped.  *)
TextStep(buf, from, c, k) ==
    IF k = 0 THEN from ELSE IF c[k - 1] = Off THEN Off ELSE SkipLengthPrefixed(buf, c[k - 1])
IsTextLoop(buf, from, c) == c = [k \in Nat |-> TextStep(buf, from, c, k)]
ActionStep(buf, from, c, k) ==
    IF k = 0 THEN from ELSE IF c[k - 1] = Off THEN Off ELSE SkipAction(buf, c[k - 1])
IsActionLoop(buf, from, c) == c = [k \in Nat |-> ActionStep(buf, from, c, k)]

(* SkipTimes chooses such a function. *)
LEMMA TextLoopIs ==
  ASSUME NEW buf, NEW from, NEW n
  PROVE  SkipTimes(n, from, LAMBDA o : SkipLengthPrefixed(buf, o)) =
            (CHOOSE c : IsTextLoop(buf, from, c))[n]
  BY DEF SkipTimes, Then, IsTextLoop, TextStep

(* SkipTimes chooses one for actions too. *)
LEMMA ActionLoopIs ==
  ASSUME NEW buf, NEW from, NEW n
  PROVE  SkipTimes(n, from, LAMBDA o : SkipAction(buf, o)) =
            (CHOOSE c : IsActionLoop(buf, from, c))[n]
  BY DEF SkipTimes, Then, IsActionLoop, ActionStep

(* The function of the loop over texts: each position follows from the last. *)
LEMMA TextLoop ==
  ASSUME NEW buf \in Seq(Byte), NEW from \in Nat
  PROVE  \E c : /\ \A n \in Nat : SkipTimes(n, from, LAMBDA o : SkipLengthPrefixed(buf, o)) = c[n]
                /\ \A k \in Nat : c[k] \in Offsets /\ c[k] = TextStep(buf, from, c, k)
<1> DEFINE skip == [o \in Nat |-> SkipLengthPrefixed(buf, o)]
<1>1. skip \in [Nat -> Offsets] /\ \A o \in Nat : skip[o] = SkipLengthPrefixed(buf, o)
  BY SkippedIsOffset
<1> HIDE DEF skip
<1>2. PICK d \in [Nat -> Offsets] : \A k \in Nat : d[k] = LoopStep(skip, d, from, k)
  BY <1>1, LoopExists
<1>3. ASSUME NEW k \in Nat PROVE d[k] = TextStep(buf, from, d, k)
  <2>1. k # 0 => k - 1 \in Nat
    OBVIOUS
  <2>2. k # 0 /\ d[k - 1] # Off => d[k - 1] \in Nat
    BY <2>1, <1>2 DEF Offsets
  <2> QED BY <1>1, <1>2, <2>2 DEF LoopStep, TextStep
<1>4. IsTextLoop(buf, from, d)
  <2> DEFINE F(k) == TextStep(buf, from, d, k)
  <2>1. \A k \in Nat : d[k] = F(k)
    BY <1>3
  <2> HIDE DEF F
  <2>2. d = [k \in Nat |-> F(k)]
    BY <1>2, <2>1
  <2> QED BY <2>2 DEF IsTextLoop, F
<1> DEFINE c == CHOOSE h : IsTextLoop(buf, from, h)
<1>5. IsTextLoop(buf, from, c) /\ \A n \in Nat : SkipTimes(n, from, LAMBDA o : SkipLengthPrefixed(buf, o)) = c[n]
  BY <1>4, TextLoopIs
<1> HIDE DEF c
<1>6. \A k \in Nat : c[k] = TextStep(buf, from, c, k)
  <2> DEFINE F(k) == TextStep(buf, from, c, k)
  <2> HIDE DEF F
  <2>1. c = [k \in Nat |-> F(k)]
    BY <1>5 DEF IsTextLoop, F
  <2>2. \A k \in Nat : c[k] = F(k)
    BY <2>1
  <2> QED BY <2>2 DEF F
<1>7. \A k \in Nat : c[k] \in Offsets
  <2> DEFINE Good == {k \in Nat : c[k] \in Offsets}
  <2>1. 0 \in Good
    BY <1>6 DEF TextStep, Offsets
  <2>2. ASSUME NEW k \in Nat, k \in Good PROVE k + 1 \in Good
    <3>1. c[k + 1] = IF c[k] = Off THEN Off ELSE SkipLengthPrefixed(buf, c[k])
      BY <1>6 DEF TextStep
    <3>2. c[k] = Off \/ c[k] \in Nat
      BY <2>2 DEF Offsets
    <3> QED BY <3>1, <3>2, SkippedIsOffset DEF Offsets
  <2> HIDE DEF Good
  <2>3. \A k \in Nat : k \in Good
    BY <2>1, <2>2, StepInduction
  <2> QED BY <2>3 DEF Good
<1> QED BY <1>5, <1>6, <1>7

(* Each step of c gets past the item that is there, and stays at a failure. *)
Walks(buf, items, c) ==
    \A k \in 1 .. Len(items) :
       IF c[k - 1] = Off THEN c[k] = Off
       ELSE c[k - 1] \in Nat /\ Reads(buf, c[k - 1], items[k]) => GetsPast(buf, c[k - 1], items[k], c[k])

(* What gets past each item gets past them all. *)
LEMMA PastAll ==
  ASSUME NEW buf, Len(buf) \in Nat, NEW o \in Nat, NEW items \in Seq(Seq(Byte)), NEW f, Joins(Byte, items, f),
         NEW c, c[0] = o, Walks(buf, items, c), Reads(buf, o, f[Len(items)])
  PROVE  GetsPast(buf, o, f[Len(items)], c[Len(items)])
<1> DEFINE n == Len(items)
           Good == {k \in Nat : k <= n /\ Reads(buf, o, f[k]) => GetsPast(buf, o, f[k], c[k])}
<1>1. n \in Nat /\ \A k \in 1 .. n : items[k] \in Seq(Byte)
  OBVIOUS
<1>2. \A k \in Nat : f[k] \in Seq(Byte)
  BY DEF Joins
<1>3. 0 \in Good
  <2>1. f[0] = <<>>
    BY DEF Joins
  <2>2. Len(f[0]) = 0
    BY <2>1
  <2>3. o + Len(f[0]) = o
    BY <2>2
  <2>4. GetsPast(buf, o, f[0], c[0])
    BY <2>3 DEF GetsPast
  <2> QED BY <2>4
<1>4. ASSUME NEW k \in Nat, k \in Good PROVE k + 1 \in Good
  <2> SUFFICES ASSUME k + 1 <= n, Reads(buf, o, f[k + 1])
               PROVE  GetsPast(buf, o, f[k + 1], c[k + 1])
    OBVIOUS
  <2> DEFINE a == f[k]
             b == items[k + 1]
             p == o + Len(a)
  <2>1. k + 1 \in 1 .. n /\ (k + 1) - 1 = k
    BY <1>1
  <2>2. f[k + 1] = a \o b
    <3> DEFINE E(i) == f[i - 1] \o items[i]
    <3>1. \A i \in 1 .. n : f[i] = E(i)
      BY DEF Joins
    <3>2. E(k + 1) = a \o b
      BY <2>1
    <3> HIDE DEF E, n, a, b
    <3> QED BY <2>1, <3>1, <3>2
  <2>3. a \in Seq(Byte) /\ b \in Seq(Byte)
    BY <1>1, <1>2, <2>1
  <2>4. IF c[k] = Off THEN c[k + 1] = Off
        ELSE c[k] \in Nat /\ Reads(buf, c[k], b) => GetsPast(buf, c[k], b, c[k + 1])
    <3> DEFINE W(i) == IF c[i - 1] = Off THEN c[i] = Off
                       ELSE c[i - 1] \in Nat /\ Reads(buf, c[i - 1], items[i])
                               => GetsPast(buf, c[i - 1], items[i], c[i])
    <3>1. \A i \in 1 .. n : W(i)
      BY DEF Walks
    <3>2. W(k + 1)
      <4> HIDE DEF W, n
      <4> QED BY <2>1, <3>1
    <3> QED BY <2>1, <3>2
  <2> HIDE DEF a, b
  <2>5. Reads(buf, o, a \o b)
    BY <2>2
  <2>6. /\ Reads(buf, o, a) /\ Reads(buf, p, b) /\ p \in Nat
        /\ Len(a \o b) = Len(a) + Len(b)
    BY <2>3, <2>5, ReadsBoth
  <2>7. GetsPast(buf, o, a, c[k])
    BY <1>4, <2>1, <2>6 DEF a
  <2>8. CASE c[k] = Off
    <3>1. c[k + 1] = Off /\ ~(p <= Len(buf))
      BY <2>4, <2>6, <2>7, <2>8, OffIsNone DEF GetsPast
    <3>2. o + Len(f[k + 1]) = p + Len(b)
      BY <2>2, <2>3, <2>6
    <3>3. ~(p + Len(b) <= Len(buf))
      BY <2>3, <2>6, <3>1
    <3> QED BY <3>1, <3>2, <3>3 DEF GetsPast
  <2>9. CASE c[k] # Off
    <3>1. c[k] = p
      BY <2>7, <2>9 DEF GetsPast
    <3>2. GetsPast(buf, p, b, c[k + 1])
      BY <2>4, <2>6, <2>9, <3>1
    <3>3. GetsPast(buf, o, a \o b, IF c[k] = Off THEN Off ELSE c[k + 1])
      BY <2>3, <2>7, <3>2, PastBoth
    <3> QED BY <2>2, <2>9, <3>3
  <2> QED BY <2>8, <2>9
<1>5. \A k \in Nat : k \in Good
  <2> HIDE DEF Good
  <2> QED BY <1>3, <1>4, StepInduction
<1> QED BY <1>1, <1>5

(* A list is skipped: its number is read, then as many items are skipped. *)
LEMMA ListIsSkipped ==
  ASSUME NEW buf, Len(buf) \in Nat, NEW o \in Nat, NEW items \in Seq(Seq(Byte)), Len(items) < MaxBytes,
         Reads(buf, o, List(items)), NEW c, c[0] = o + 4, Walks(buf, items, c)
  PROVE  /\ GetsPast(buf, o, List(items), IF ReadU32LE(buf, o) = Off THEN Off ELSE c[Len(items)])
         /\ List(items) \in Seq(Byte)
         /\ ReadU32LE(buf, o) = IF o + 4 <= Len(buf) THEN Len(items) ELSE Off
<1> DEFINE n == Len(items)
           u == U32(n)
<1>1. n \in Nat
  OBVIOUS
<1>2. n < 256 * (256 * 256 * 256)
  BY <1>1 DEF MaxBytes
<1>3. PICK f : Joins(Byte, items, f)
  BY JoinsExist
<1>4. f[n] \in Seq(Byte)
  BY <1>1, <1>3 DEF Joins
<1>5. u \in Seq(Byte)
  BY <1>1, <1>2, BytesOfNumber
<1>6. o + Len(u) = o + 4
  <2>1. Len(u) = 4
    BY <1>1, <1>2, BytesOfNumber
  <2> HIDE DEF u
  <2> QED BY <2>1
<1>7. List(items) = u \o f[n]
  BY <1>3, FlattenJoins DEF List
<1> HIDE DEF u, n
<1>8. /\ Reads(buf, o, u) /\ Reads(buf, o + Len(u), f[n]) /\ u \o f[n] \in Seq(Byte)
  BY <1>4, <1>5, <1>7, ReadsBoth
<1>9. ReadU32LE(buf, o) = IF o + 4 <= Len(buf) THEN n ELSE Off
  BY <1>1, <1>2, <1>8, NumberIsRead DEF u
<1> DEFINE r == IF o + 4 <= Len(buf) THEN o + 4 ELSE Off
<1>10. GetsPast(buf, o, u, r)
  BY <1>6 DEF GetsPast
<1>11. GetsPast(buf, o + Len(u), f[n], c[n])
  <2>1. Reads(buf, o + 4, f[n]) /\ o + 4 \in Nat
    BY <1>6, <1>8
  <2>2. GetsPast(buf, o + 4, f[n], c[n])
    BY <2>1, <1>3, PastAll DEF n
  <2> QED BY <1>6, <2>2
<1>12. GetsPast(buf, o, u \o f[n], IF r = Off THEN Off ELSE c[n])
  <2> HIDE DEF r
  <2> QED BY <1>4, <1>5, <1>10, <1>11, PastBoth
<1>13. (r = Off) <=> (ReadU32LE(buf, o) = Off)
  BY <1>1, <1>9, OffIsNone
<1> QED BY <1>7, <1>8, <1>9, <1>12, <1>13 DEF n

-------------------------------------------------------------------------------
(* Actions. *)

(* A tag is read, and what follows it is skipped. *)
LEMMA TagIsSkipped ==
  ASSUME NEW buf, Len(buf) \in Nat, NEW o \in Nat, NEW x \in Byte, NEW f \in Seq(Byte), Reads(buf, o, Tag(x, f))
  PROVE  /\ Reads(buf, o + 1, f) /\ Tag(x, f) \in Seq(Byte) /\ Tag(x, f)[1] = x /\ Len(Tag(x, f)) > 0
         /\ o + 1 <= Len(buf) => buf[o + 1] = x
         /\ \A q : GetsPast(buf, o + 1, f, q)
               => GetsPast(buf, o, Tag(x, f), IF o + 1 > Len(buf) THEN Off ELSE q)
<1> DEFINE e == Tag(x, f)
<1>1. e \in Seq(Byte) /\ Len(e) = 1 + Len(f) /\ e[1] = x /\ Len(f) \in Nat
  BY TagFirst
<1>2. Reads(buf, o + 1, f)
  <2> DEFINE a == <<x>>
  <2>1. a \in Seq(Byte)
    OBVIOUS
  <2>2. Len(a) = 1
    OBVIOUS
  <2>3. e = a \o f
    BY DEF Tag
  <2> HIDE DEF a, e
  <2>4. Reads(buf, o, a \o f)
    BY <2>3 DEF e
  <2>5. Reads(buf, o + Len(a), f)
    BY <2>1, <2>4, ReadsBoth
  <2> QED BY <2>2, <2>5
<1> HIDE DEF e
<1>3. o + 1 <= Len(buf) => buf[o + 1] = x
  BY <1>1 DEF Reads, e
<1>4. ASSUME NEW q, GetsPast(buf, o + 1, f, q)
      PROVE  GetsPast(buf, o, e, IF o + 1 > Len(buf) THEN Off ELSE q)
  BY <1>1, <1>4 DEF GetsPast
<1> QED BY <1>1, <1>2, <1>3, <1>4 DEF e

(* A field of a known length: the walk goes on behind it, checked or not. *)
LEMMA FillIsSkipped ==
  ASSUME NEW buf, Len(buf) \in Nat, NEW o \in Nat, NEW n \in {8, 16, 24, 32, 64}, NEW f \in Fill(n)
  PROVE  /\ f \in Seq(Byte) /\ o + Len(f) = o + n
         /\ GetsPast(buf, o, f, o + n) /\ GetsPast(buf, o, f, Within(buf, o + n))
<1>1. f \in Seq(Byte) /\ Len(f) = n
  BY Zenon, PayloadAssumption
<1>2. n \in Nat
  OBVIOUS
<1> QED BY <1>1, <1>2 DEF GetsPast, Within

(* A name or a piece of code is bytes, and so is its encoding. *)
LEMMA TextsAre ==
  ASSUME NEW t \in Texts
  PROVE  t \in Seq(Byte) /\ Len(t) < MaxBytes /\ Text(t) \in Seq(Byte)
<1>1. t \in Seq(Byte) /\ Len(t) < MaxBytes
  BY PayloadAssumption
<1> DEFINE n == Len(t)
           u == U32(n)
<1>2. n \in Nat /\ n < 256 * (256 * 256 * 256)
  BY <1>1 DEF MaxBytes
<1>3. u \in Seq(Byte)
  BY <1>2, BytesOfNumber
<1> HIDE DEF u
<1>4. u \o t \in Seq(Byte)
  BY <1>1, <1>3
<1> QED BY <1>1, <1>4 DEF Text, u

(* The method names of an access key are skipped. *)
LEMMA MethodsAreSkipped ==
  ASSUME NEW buf \in Seq(Byte), NEW o \in Nat, NEW ts \in TextLists
  PROVE  /\ SkipMethods(buf, o) \in Offsets
         /\ EncodedTexts(ts) \in Seq(Seq(Byte)) /\ Len(EncodedTexts(ts)) < MaxBytes
         /\ Reads(buf, o, List(EncodedTexts(ts)))
               => GetsPast(buf, o, List(EncodedTexts(ts)), SkipMethods(buf, o))
<1> DEFINE items == EncodedTexts(ts)
           n == Len(ts)
           count == ReadU32LE(buf, o)
<1>1. n \in Nat /\ n < MaxBytes /\ \A i \in 1 .. n : ts[i] \in Texts
  <2>1. ts \in Seq(Texts) /\ Len(ts) < MaxBytes
    BY PayloadAssumption
  <2> QED BY <2>1
<1>2. \A i \in 1 .. n : Text(ts[i]) \in Seq(Byte)
  BY <1>1, TextsAre
<1>3. items \in Seq(Seq(Byte)) /\ Len(items) = n /\ \A i \in 1 .. n : items[i] = Text(ts[i])
  <2> DEFINE g(i) == Text(ts[i])
  <2>1. \A i \in 1 .. n : g(i) \in Seq(Byte)
    BY <1>2
  <2> HIDE DEF g, n
  <2>2. /\ [i \in 1 .. n |-> g(i)] \in Seq(Seq(Byte)) /\ Len([i \in 1 .. n |-> g(i)]) = n
        /\ \A i \in 1 .. n : [j \in 1 .. n |-> g(j)][i] = g(i)
    BY <1>1, <2>1
  <2> QED BY <2>2 DEF EncodedTexts, g, n
<1>4. Len(buf) \in Nat /\ o + 4 \in Nat
  OBVIOUS
<1>5. PICK c : /\ \A m \in Nat : SkipTimes(m, o + 4, LAMBDA p : SkipLengthPrefixed(buf, p)) = c[m]
               /\ \A k \in Nat : c[k] \in Offsets /\ c[k] = TextStep(buf, o + 4, c, k)
  BY <1>4, TextLoop
<1> HIDE DEF items, n
<1>6. c[0] = o + 4
  BY <1>5 DEF TextStep
<1>7. Walks(buf, items, c)
  <2> SUFFICES ASSUME NEW k \in 1 .. n
               PROVE  IF c[k - 1] = Off THEN c[k] = Off
                      ELSE c[k - 1] \in Nat /\ Reads(buf, c[k - 1], items[k])
                              => GetsPast(buf, c[k - 1], items[k], c[k])
    BY <1>3 DEF Walks
  <2>1. k \in Nat /\ k # 0
    BY <1>1
  <2>2. c[k] = IF c[k - 1] = Off THEN Off ELSE SkipLengthPrefixed(buf, c[k - 1])
    BY <1>5, <2>1 DEF TextStep
  <2> DEFINE t == ts[k]
  <2>3. items[k] = Text(t) /\ t \in Seq(Byte) /\ Len(t) < MaxBytes
    BY <1>1, <1>3, TextsAre
  <2> HIDE DEF t
  <2>4. c[k - 1] \in Nat /\ Reads(buf, c[k - 1], Text(t))
          => GetsPast(buf, c[k - 1], Text(t), SkipLengthPrefixed(buf, c[k - 1]))
    BY <1>4, <2>3, TextIsSkipped
  <2> QED BY <2>2, <2>3, <2>4
<1>8. count \in Offsets
  BY SkippedIsOffset
<1>9. SkipMethods(buf, o) = IF count = Off THEN Off ELSE c[count]
  <2>1. count # Off => SkipTimes(count, o + 4, LAMBDA p : SkipLengthPrefixed(buf, p)) = c[count]
    BY <1>5, <1>8 DEF Offsets
  <2> QED BY <2>1 DEF SkipMethods
<1>10. SkipMethods(buf, o) \in Offsets
  BY <1>5, <1>8, <1>9 DEF Offsets
<1>11. ASSUME Reads(buf, o, List(items)) PROVE GetsPast(buf, o, List(items), SkipMethods(buf, o))
  <2>1. Len(items) < MaxBytes
    BY <1>1, <1>3
  <2>2. /\ GetsPast(buf, o, List(items), IF count = Off THEN Off ELSE c[Len(items)])
        /\ count = IF o + 4 <= Len(buf) THEN Len(items) ELSE Off
    BY <1>3, <1>4, <1>6, <1>7, <1>11, <2>1, ListIsSkipped
  <2>3. count # Off => c[count] = c[Len(items)]
    BY <2>2
  <2> QED BY <1>9, <2>2, <2>3
<1> QED BY <1>1, <1>3, <1>10, <1>11 DEF items, n

(* A field of no bytes is skipped by staying where it is. *)
LEMMA NothingIsSkipped ==
  ASSUME NEW buf, NEW o \in Nat
  PROVE  GetsPast(buf, o, <<>>, o)
<1>1. o + Len(<<>>) = o
  OBVIOUS
<1> QED BY <1>1 DEF GetsPast

(* The allowance of a restricted access key: its tag alone, or with an amount. *)
LEMMA AllowanceIsSkipped ==
  ASSUME NEW buf, Len(buf) \in Nat, NEW o \in Nat, NEW e \in Allowances
  PROVE  /\ e \in Seq(Byte) /\ SkipAllowance(buf, o) \in Offsets
         /\ Reads(buf, o, e) => GetsPast(buf, o, e, SkipAllowance(buf, o))
<1>1. SkipAllowance(buf, o) \in Offsets
  BY DEF SkipAllowance, Offsets
<1>2. 0 \in Byte /\ 1 \in Byte
  BY DEF Byte
<1>3. CASE e = Tag(0, <<>>)
  <2>1. <<>> \in Seq(Byte)
    OBVIOUS
  <2>3. e \in Seq(Byte)
    BY <1>2, <1>3, <2>1, TagFirst
  <2>2. ASSUME Reads(buf, o, e) PROVE GetsPast(buf, o, e, SkipAllowance(buf, o))
    <3>1. GetsPast(buf, o + 1, <<>>, o + 1)
      BY NothingIsSkipped
    <3>2. /\ o + 1 <= Len(buf) => buf[o + 1] = 0
          /\ GetsPast(buf, o, e, IF o + 1 > Len(buf) THEN Off ELSE o + 1)
      BY <1>2, <1>3, <2>1, <2>2, <3>1, TagIsSkipped
    <3>3. SkipAllowance(buf, o) = IF o + 1 > Len(buf) THEN Off ELSE o + 1
      BY <3>2 DEF SkipAllowance
    <3> QED BY <3>2, <3>3
  <2> QED BY <1>1, <2>2, <2>3
<1>4. CASE \E a \in Fill(16) : e = Tag(1, a)
  <2>1. PICK a \in Fill(16) : e = Tag(1, a)
    BY <1>4
  <2>2. a \in Seq(Byte) /\ GetsPast(buf, o + 1, a, (o + 1) + 16)
    BY FillIsSkipped
  <2>3. e \in Seq(Byte)
    BY <1>2, <2>1, <2>2, TagFirst
  <2>4. ASSUME Reads(buf, o, e) PROVE GetsPast(buf, o, e, SkipAllowance(buf, o))
    <3>1. /\ o + 1 <= Len(buf) => buf[o + 1] = 1
          /\ GetsPast(buf, o, e, IF o + 1 > Len(buf) THEN Off ELSE (o + 1) + 16)
      BY <1>2, <2>1, <2>2, <2>4, TagIsSkipped
    <3>2. SkipAllowance(buf, o) = IF o + 1 > Len(buf) THEN Off ELSE (o + 1) + 16
      BY <3>1 DEF SkipAllowance
    <3> QED BY <3>1, <3>2
  <2> QED BY <1>1, <2>3, <2>4
<1> QED BY <1>3, <1>4 DEF Allowances

(* A list is a sequence of bytes, like its items. *)
LEMMA ListIsBytes ==
  ASSUME NEW items \in Seq(Seq(Byte)), Len(items) < MaxBytes
  PROVE  List(items) \in Seq(Byte)
<1> DEFINE n == Len(items)
           u == U32(n)
<1>1. PICK f : Joins(Byte, items, f)
  BY JoinsExist
<1>2. n \in Nat /\ n < 256 * (256 * 256 * 256)
  BY DEF MaxBytes
<1>3. u \in Seq(Byte)
  BY <1>2, BytesOfNumber
<1>4. f[n] \in Seq(Byte)
  BY <1>1, <1>2 DEF Joins
<1>5. List(items) = u \o f[n]
  <2>1. FlattenSeq(items) = f[n]
    BY <1>1, FlattenJoins
  <2> QED BY <2>1 DEF List
<1> HIDE DEF u, n
<1>6. u \o f[n] \in Seq(Byte)
  BY <1>3, <1>4
<1> QED BY <1>5, <1>6

(* What a restricted key's permission holds behind its tag. *)
SkipRestricted(buf, o) ==
    Then(Then(SkipAllowance(buf, o), LAMBDA p : SkipLengthPrefixed(buf, p)),
         LAMBDA p : SkipMethods(buf, p))

(* The allowance, the receiver and the method names are skipped in turn. *)
LEMMA RestrictedIsSkipped ==
  ASSUME NEW buf \in Seq(Byte), NEW o \in Nat, NEW e \in Allowances, NEW t \in Texts, NEW ts \in TextLists
  PROVE  LET body == e \o Text(t) \o List(EncodedTexts(ts))
         IN  /\ body \in Seq(Byte) /\ SkipRestricted(buf, o) \in Offsets
             /\ Reads(buf, o, body) => GetsPast(buf, o, body, SkipRestricted(buf, o))
<1> DEFINE a == Text(t)
           l == List(EncodedTexts(ts))
           r1 == SkipAllowance(buf, o)
           r2 == IF r1 = Off THEN Off ELSE SkipLengthPrefixed(buf, r1)
           r3 == IF r2 = Off THEN Off ELSE SkipMethods(buf, r2)
<1>1. Len(buf) \in Nat
  OBVIOUS
<1>2. e \in Seq(Byte) /\ r1 \in Offsets /\ a \in Seq(Byte) /\ t \in Seq(Byte) /\ Len(t) < MaxBytes
  BY <1>1, AllowanceIsSkipped, TextsAre
<1>3. l \in Seq(Byte)
  BY MethodsAreSkipped, ListIsBytes
<1>4. SkipRestricted(buf, o) = r3
  BY DEF SkipRestricted, Then
<1>5. r2 \in Offsets
  <2>1. r1 = Off \/ r1 \in Nat
    BY <1>2 DEF Offsets
  <2> HIDE DEF r1
  <2> QED BY <1>2, <2>1, SkippedIsOffset DEF Offsets
<1>6. r3 \in Offsets
  <2>1. r2 = Off \/ r2 \in Nat
    BY <1>5 DEF Offsets
  <2> HIDE DEF r2
  <2> QED BY <1>5, <2>1, MethodsAreSkipped
<1> HIDE DEF a, l
<1>7. e \o a \in Seq(Byte) /\ (e \o a) \o l \in Seq(Byte)
  <2>1. e \o a \in Seq(Byte)
    BY <1>2
  <2> DEFINE b == e \o a
  <2> HIDE DEF b
  <2>2. b \o l \in Seq(Byte)
    BY <1>3, <2>1 DEF b
  <2> QED BY <2>1, <2>2 DEF b
<1>8. ASSUME Reads(buf, o, (e \o a) \o l) PROVE GetsPast(buf, o, (e \o a) \o l, r3)
  <2> DEFINE b == e \o a
             p == o + Len(e)
             q == o + Len(b)
  <2> HIDE DEF r1, r2, r3, b
  <2>1. b \in Seq(Byte) /\ Reads(buf, o, b \o l)
    BY <1>7, <1>8 DEF b
  <2>2. Reads(buf, o, b) /\ Reads(buf, q, l) /\ q \in Nat
    BY <1>3, <2>1, ReadsBoth
  <2>3. Reads(buf, o, e \o a)
    BY <2>2 DEF b
  <2>4. Reads(buf, o, e) /\ Reads(buf, p, a) /\ p \in Nat
    BY <1>2, <2>3, ReadsBoth
  <2>5. GetsPast(buf, o, e, r1)
    BY <1>1, <2>4, AllowanceIsSkipped DEF r1
  <2>6. GetsPast(buf, p, a, SkipLengthPrefixed(buf, p))
    BY <1>1, <1>2, <2>4, TextIsSkipped DEF a
  <2>7. GetsPast(buf, o, e \o a, IF r1 = Off THEN Off ELSE SkipLengthPrefixed(buf, p))
    BY <1>1, <1>2, <2>5, <2>6, PastBoth
  <2>8. r1 # Off => r1 = p
    BY <2>5 DEF GetsPast
  <2>9. GetsPast(buf, o, b, r2)
    BY <2>7, <2>8 DEF r2, b
  <2>10. GetsPast(buf, q, l, SkipMethods(buf, q))
    BY <2>2, MethodsAreSkipped DEF l
  <2>11. GetsPast(buf, o, b \o l, IF r2 = Off THEN Off ELSE SkipMethods(buf, q))
    BY <1>1, <1>3, <2>1, <2>9, <2>10, PastBoth
  <2>12. r2 # Off => r2 = q
    BY <2>9 DEF GetsPast
  <2> QED BY <2>11, <2>12 DEF r3, b
<1> QED BY <1>4, <1>6, <1>7, <1>8 DEF a, l

(* A permission, full or restricted, is skipped (skipAccessKey). *)
LEMMA PermissionIsSkipped ==
  ASSUME NEW buf \in Seq(Byte), NEW o \in Nat, NEW p \in Permissions
  PROVE  /\ p \in Seq(Byte)
         /\ Reads(buf, o, p) => GetsPast(buf, o, p, SkipPermission(buf, o))
<1>1. Len(buf) \in Nat /\ 0 \in Byte /\ 1 \in Byte /\ o + 1 \in Nat
  BY DEF Byte
<1>2. CASE p = Tag(1, <<>>)
  <2>1. <<>> \in Seq(Byte)
    OBVIOUS
  <2>3. p \in Seq(Byte)
    BY <1>1, <1>2, <2>1, TagFirst
  <2>2. ASSUME Reads(buf, o, p) PROVE GetsPast(buf, o, p, SkipPermission(buf, o))
    <3>1. GetsPast(buf, o + 1, <<>>, o + 1)
      BY NothingIsSkipped
    <3>2. /\ o + 1 <= Len(buf) => buf[o + 1] = 1
          /\ GetsPast(buf, o, p, IF o + 1 > Len(buf) THEN Off ELSE o + 1)
      BY <1>1, <1>2, <2>1, <2>2, <3>1, TagIsSkipped
    <3>3. SkipPermission(buf, o) = IF o + 1 > Len(buf) THEN Off ELSE o + 1
      BY <1>1, <3>2 DEF SkipPermission
    <3> QED BY <3>2, <3>3
  <2> QED BY <2>2, <2>3
<1>3. CASE \E e \in Allowances, t \in Texts, ts \in TextLists : p = Restricted(e, t, ts)
  <2>1. PICK e \in Allowances, t \in Texts, ts \in TextLists : p = Restricted(e, t, ts)
    BY <1>3
  <2> DEFINE body == e \o Text(t) \o List(EncodedTexts(ts))
             q == SkipRestricted(buf, o + 1)
  <2>2. body \in Seq(Byte) /\ (Reads(buf, o + 1, body) => GetsPast(buf, o + 1, body, q))
    BY <1>1, RestrictedIsSkipped
  <2>3. p = Tag(0, body)
    BY <2>1 DEF Restricted
  <2> HIDE DEF body, q
  <2>4. p \in Seq(Byte)
    BY <1>1, <2>2, <2>3, TagFirst
  <2>5. ASSUME Reads(buf, o, p) PROVE GetsPast(buf, o, p, SkipPermission(buf, o))
    <3>1. Reads(buf, o + 1, body) /\ (o + 1 <= Len(buf) => buf[o + 1] = 0)
      BY <1>1, <2>2, <2>3, <2>5, TagIsSkipped
    <3>2. GetsPast(buf, o, p, IF o + 1 > Len(buf) THEN Off ELSE q)
      BY <1>1, <2>2, <2>3, <2>5, <3>1, TagIsSkipped
    <3>3. SkipPermission(buf, o) = IF o + 1 > Len(buf) THEN Off ELSE q
      BY <1>1, <3>1 DEF SkipPermission, SkipRestricted, q
    <3> QED BY <3>2, <3>3
  <2> QED BY <2>4, <2>5
<1> QED BY <1>2, <1>3 DEF Permissions

(* The fields of a FunctionCall: its name, its arguments, gas and deposit. *)
LEMMA CallIsSkipped ==
  ASSUME NEW buf \in Seq(Byte), NEW o \in Nat, NEW t \in Texts, NEW u \in Texts, NEW f \in Fill(24)
  PROVE  LET e == Text(t) \o Text(u) \o f
             r == Then(Then(SkipLengthPrefixed(buf, o), LAMBDA p : SkipLengthPrefixed(buf, p)),
                       LAMBDA p : Within(buf, p + 24))
         IN  e \in Seq(Byte) /\ (Reads(buf, o, e) => GetsPast(buf, o, e, r))
<1> DEFINE a == Text(t)
           b == Text(u)
           r1 == SkipLengthPrefixed(buf, o)
           r2 == IF r1 = Off THEN Off ELSE SkipLengthPrefixed(buf, r1)
           r3 == IF r2 = Off THEN Off ELSE Within(buf, r2 + 24)
           r == Then(Then(SkipLengthPrefixed(buf, o), LAMBDA p : SkipLengthPrefixed(buf, p)),
                     LAMBDA p : Within(buf, p + 24))
<1>1. Len(buf) \in Nat
  OBVIOUS
<1>2. /\ a \in Seq(Byte) /\ b \in Seq(Byte) /\ f \in Seq(Byte)
      /\ t \in Seq(Byte) /\ Len(t) < MaxBytes /\ u \in Seq(Byte) /\ Len(u) < MaxBytes
  BY <1>1, TextsAre, FillIsSkipped
<1>3. r = r3
  BY DEF Then
<1> HIDE DEF a, b, r
<1>4. a \o b \in Seq(Byte) /\ (a \o b) \o f \in Seq(Byte)
  <2>1. a \o b \in Seq(Byte)
    BY <1>2
  <2> DEFINE c == a \o b
  <2> HIDE DEF c
  <2>2. c \o f \in Seq(Byte)
    BY <1>2, <2>1 DEF c
  <2> QED BY <2>1, <2>2 DEF c
<1>5. ASSUME Reads(buf, o, (a \o b) \o f) PROVE GetsPast(buf, o, (a \o b) \o f, r3)
  <2> DEFINE c == a \o b
             p == o + Len(a)
             q == o + Len(c)
  <2> HIDE DEF r1, r2, r3, c
  <2>1. c \in Seq(Byte) /\ Reads(buf, o, c \o f)
    BY <1>4, <1>5 DEF c
  <2>2. Reads(buf, o, c) /\ q \in Nat
    BY <1>2, <2>1, ReadsBoth
  <2>3. Reads(buf, o, a \o b)
    BY <2>2 DEF c
  <2>4. Reads(buf, o, a) /\ Reads(buf, p, b) /\ p \in Nat
    BY <1>2, <2>3, ReadsBoth
  <2>5. GetsPast(buf, o, a, r1)
    BY <1>1, <1>2, <2>4, TextIsSkipped DEF r1, a
  <2>6. GetsPast(buf, p, b, SkipLengthPrefixed(buf, p))
    BY <1>1, <1>2, <2>4, TextIsSkipped DEF b
  <2>7. GetsPast(buf, o, a \o b, IF r1 = Off THEN Off ELSE SkipLengthPrefixed(buf, p))
    BY <1>1, <1>2, <2>5, <2>6, PastBoth
  <2>8. r1 # Off => r1 = p
    BY <2>5 DEF GetsPast
  <2>9. GetsPast(buf, o, c, r2)
    BY <2>7, <2>8 DEF r2, c
  <2>10. GetsPast(buf, q, f, Within(buf, q + 24))
    BY <1>1, <2>2, FillIsSkipped
  <2>11. GetsPast(buf, o, c \o f, IF r2 = Off THEN Off ELSE Within(buf, q + 24))
    BY <1>1, <1>2, <2>1, <2>9, <2>10, PastBoth
  <2>12. r2 # Off => r2 = q
    BY <2>9 DEF GetsPast
  <2> QED BY <2>11, <2>12 DEF r3, c
<1> QED BY <1>3, <1>4, <1>5 DEF a, b, r

(* The fields of a Stake: the amount and the key. *)
LEMMA StakeIsSkipped ==
  ASSUME NEW buf \in Seq(Byte), NEW o \in Nat, NEW f \in Fill(16), NEW k \in PublicKeys
  PROVE  f \o k \in Seq(Byte) /\ (Reads(buf, o, f \o k) => GetsPast(buf, o, f \o k, SkipPublicKey(buf, o + 16)))
<1>1. Len(buf) \in Nat /\ o + 16 # Off /\ o + 16 \in Nat
  BY OffIsNone
<1>2. f \in Seq(Byte) /\ o + Len(f) = o + 16 /\ GetsPast(buf, o, f, o + 16)
  BY <1>1, FillIsSkipped
<1>3. k \in Seq(Byte)
  BY KeysAre
<1>4. f \o k \in Seq(Byte)
  BY <1>2, <1>3
<1>5. ASSUME Reads(buf, o, f \o k) PROVE GetsPast(buf, o, f \o k, SkipPublicKey(buf, o + 16))
  <2>1. Reads(buf, o + Len(f), k)
    BY <1>2, <1>3, <1>5, ReadsBoth
  <2>2. GetsPast(buf, o + Len(f), k, SkipPublicKey(buf, o + 16))
    BY <1>1, <1>2, <2>1, KeyIsSkipped
  <2>3. GetsPast(buf, o, f \o k, IF o + 16 = Off THEN Off ELSE SkipPublicKey(buf, o + 16))
    BY <1>1, <1>2, <1>3, <2>2, PastBoth
  <2> QED BY <1>1, <2>3
<1> QED BY <1>4, <1>5

(* The fields of an AddKey: the key, the nonce and the permission. *)
LEMMA AddKeyIsSkipped ==
  ASSUME NEW buf \in Seq(Byte), NEW o \in Nat, NEW k \in PublicKeys, NEW f \in Fill(8), NEW p \in Permissions
  PROVE  LET e == k \o f \o p
             r == Then(SkipPublicKey(buf, o), LAMBDA q : SkipAccessKey(buf, q))
         IN  e \in Seq(Byte) /\ (Reads(buf, o, e) => GetsPast(buf, o, e, r))
<1> DEFINE r1 == SkipPublicKey(buf, o)
           r2 == IF r1 = Off THEN Off ELSE SkipPermission(buf, r1 + 8)
           r == Then(SkipPublicKey(buf, o), LAMBDA q : SkipAccessKey(buf, q))
<1>1. Len(buf) \in Nat
  OBVIOUS
<1>2. k \in Seq(Byte) /\ f \in Seq(Byte) /\ p \in Seq(Byte)
  BY <1>1, KeysAre, FillIsSkipped, PermissionIsSkipped
<1>3. r = r2
  BY DEF Then, SkipAccessKey
<1> HIDE DEF r
<1>4. k \o f \in Seq(Byte) /\ (k \o f) \o p \in Seq(Byte)
  <2>1. k \o f \in Seq(Byte)
    BY <1>2
  <2> DEFINE c == k \o f
  <2> HIDE DEF c
  <2>2. c \o p \in Seq(Byte)
    BY <1>2, <2>1 DEF c
  <2> QED BY <2>1, <2>2 DEF c
<1>5. ASSUME Reads(buf, o, (k \o f) \o p) PROVE GetsPast(buf, o, (k \o f) \o p, r2)
  <2> DEFINE c == k \o f
             s == o + Len(k)
             q == o + Len(c)
             m == IF r1 = Off THEN Off ELSE s + 8
  <2> HIDE DEF r1, r2, c
  <2>1. c \in Seq(Byte) /\ Reads(buf, o, c \o p)
    BY <1>4, <1>5 DEF c
  <2>2. Reads(buf, o, c) /\ Reads(buf, q, p) /\ q \in Nat
    BY <1>2, <2>1, ReadsBoth
  <2>3. Reads(buf, o, k \o f)
    BY <2>2 DEF c
  <2>4. Reads(buf, o, k) /\ s \in Nat /\ Len(k \o f) = Len(k) + Len(f)
    BY <1>2, <2>3, ReadsBoth
  <2>5. GetsPast(buf, o, k, r1)
    BY <1>1, <2>4, KeyIsSkipped DEF r1
  <2>6. GetsPast(buf, s, f, s + 8) /\ s + Len(f) = s + 8
    BY <1>1, <2>4, FillIsSkipped
  <2>7. GetsPast(buf, o, k \o f, m)
    BY <1>1, <1>2, <2>5, <2>6, PastBoth
  <2>8. r1 # Off => r1 = s
    BY <2>5 DEF GetsPast
  <2>9. q = s + 8
    <3>1. Len(c) = Len(k) + Len(f) /\ Len(k) \in Nat /\ Len(f) \in Nat
      BY <1>2, <2>4 DEF c
    <3> QED BY <2>6, <3>1
  <2>10. GetsPast(buf, q, p, SkipPermission(buf, q))
    BY <2>2, PermissionIsSkipped
  <2>11. GetsPast(buf, o, c \o p, IF m = Off THEN Off ELSE SkipPermission(buf, q))
    <3>1. GetsPast(buf, o, c, m)
      BY <2>7 DEF c
    <3> HIDE DEF m
    <3> QED BY <1>1, <1>2, <2>1, <2>10, <3>1, PastBoth
  <2>12. m = Off <=> r1 = Off
    BY <2>4, OffIsNone
  <2>13. r2 = IF m = Off THEN Off ELSE SkipPermission(buf, q)
    BY <2>8, <2>9, <2>12 DEF r2
  <2> QED BY <2>11, <2>13 DEF c
<1> QED BY <1>3, <1>4, <1>5 DEF r

(* Whatever the bytes, the method names are skipped to an offset or not at all. *)
LEMMA MethodsAreOffset ==
  ASSUME NEW buf \in Seq(Byte), NEW o \in Nat
  PROVE  SkipMethods(buf, o) \in Offsets
<1> DEFINE count == ReadU32LE(buf, o)
<1>0. o + 4 \in Nat
  OBVIOUS
<1>1. PICK c : /\ \A m \in Nat : SkipTimes(m, o + 4, LAMBDA p : SkipLengthPrefixed(buf, p)) = c[m]
               /\ \A k \in Nat : c[k] \in Offsets /\ c[k] = TextStep(buf, o + 4, c, k)
  BY <1>0, TextLoop
<1>2. count \in Offsets
  BY SkippedIsOffset
<1>3. count # Off => SkipTimes(count, o + 4, LAMBDA p : SkipLengthPrefixed(buf, p)) = c[count] /\ c[count] \in Offsets
  BY <1>1, <1>2 DEF Offsets
<1> QED BY <1>3 DEF SkipMethods, Offsets

(* Whatever the bytes, so is a permission. *)
LEMMA PermissionIsOffset ==
  ASSUME NEW buf \in Seq(Byte), NEW o \in Nat
  PROVE  SkipPermission(buf, o) \in Offsets /\ SkipAccessKey(buf, o) \in Offsets
<1>1. ASSUME NEW q \in Nat PROVE SkipRestricted(buf, q) \in Offsets
  <2> DEFINE r1 == SkipAllowance(buf, q)
             r2 == IF r1 = Off THEN Off ELSE SkipLengthPrefixed(buf, r1)
             r3 == IF r2 = Off THEN Off ELSE SkipMethods(buf, r2)
  <2>1. r1 \in Nat \/ r1 = Off
    BY DEF SkipAllowance
  <2>2. SkipRestricted(buf, q) = r3
    BY DEF SkipRestricted, Then
  <2>3. r2 \in Nat \/ r2 = Off
    <3> HIDE DEF r1
    <3> QED BY <2>1, SkippedIsOffset DEF Offsets
  <2>4. r3 \in Offsets
    <3> HIDE DEF r2
    <3> QED BY <2>3, MethodsAreOffset DEF Offsets
  <2> QED BY <2>2, <2>4
<1>2. ASSUME NEW q \in Nat PROVE SkipPermission(buf, q) \in Offsets
  <2>1. q + 1 \in Nat
    OBVIOUS
  <2>2. SkipRestricted(buf, q + 1) \in Offsets
    BY <1>1, <2>1
  <2> DEFINE b == buf[q + 1]
             R == SkipRestricted(buf, q + 1)
  <2>3. SkipPermission(buf, q) = CASE q + 1 > Len(buf) -> Off
                                   [] q + 1 <= Len(buf) /\ b = 1 -> q + 1
                                   [] q + 1 <= Len(buf) /\ b = 0 -> R
                                   [] OTHER -> Off
    BY DEF SkipPermission, SkipRestricted
  <2> HIDE DEF b, R
  <2>4. R \in Offsets /\ q + 1 \in Offsets /\ Off \in Offsets
    BY <2>1, <2>2 DEF R, Offsets
  <2> QED BY <2>3, <2>4
<1> QED BY <1>2 DEF SkipAccessKey

(* What an action's fields are skipped to, by the tag. *)
SkipCall(buf, o) ==
    Then(Then(SkipLengthPrefixed(buf, o), LAMBDA p : SkipLengthPrefixed(buf, p)), LAMBDA p : Within(buf, p + 24))
SkipAddKey(buf, o) == Then(SkipPublicKey(buf, o), LAMBDA q : SkipAccessKey(buf, q))
SkipFields(buf, o, tag) ==
    CASE tag = 0 -> o
      [] tag \in {1, 7} -> SkipLengthPrefixed(buf, o)
      [] tag = 2 -> SkipCall(buf, o)
      [] tag = 3 -> Within(buf, o + 16)
      [] tag = 4 -> SkipPublicKey(buf, o + 16)
      [] tag = 5 -> SkipAddKey(buf, o)
      [] tag = 6 -> SkipPublicKey(buf, o)
      [] OTHER -> Off

(* skipAction reads the tag and skips the fields of that tag. *)
LEMMA ActionIsFields ==
  ASSUME NEW buf, NEW o
  PROVE  SkipAction(buf, o) = IF o + 1 > Len(buf) THEN Off ELSE SkipFields(buf, o + 1, buf[o + 1])
  BY DEF SkipAction, SkipFields, SkipCall, SkipAddKey

(* Whatever the bytes, an action is skipped to an offset or not at all. *)
LEMMA ActionIsOffset ==
  ASSUME NEW buf \in Seq(Byte), NEW o \in Nat
  PROVE  SkipAction(buf, o) \in Offsets
<1> SUFFICES ASSUME NEW q \in Nat, NEW tag PROVE SkipFields(buf, q, tag) \in Offsets
  BY ActionIsFields DEF Offsets
<1>1. SkipCall(buf, q) \in Offsets
  <2> DEFINE r1 == SkipLengthPrefixed(buf, q)
             r2 == IF r1 = Off THEN Off ELSE SkipLengthPrefixed(buf, r1)
  <2>1. r1 \in Nat \/ r1 = Off
    BY SkippedIsOffset DEF Offsets
  <2>2. SkipCall(buf, q) = IF r2 = Off THEN Off ELSE Within(buf, r2 + 24)
    BY DEF SkipCall, Then
  <2>3. r2 \in Nat \/ r2 = Off
    <3> HIDE DEF r1
    <3> QED BY <2>1, SkippedIsOffset DEF Offsets
  <2> HIDE DEF r2
  <2> QED BY <2>2, <2>3 DEF Within, Offsets
<1>2. SkipAddKey(buf, q) \in Offsets
  <2> DEFINE r1 == SkipPublicKey(buf, q)
  <2>1. r1 \in Nat \/ r1 = Off
    BY SkippedIsOffset DEF Offsets
  <2>2. SkipAddKey(buf, q) = IF r1 = Off THEN Off ELSE SkipAccessKey(buf, r1)
    BY DEF SkipAddKey, Then
  <2> HIDE DEF r1
  <2> QED BY <2>1, <2>2, PermissionIsOffset DEF Offsets
<1>3. /\ q \in Offsets /\ Off \in Offsets /\ Within(buf, q + 16) \in Offsets
      /\ SkipLengthPrefixed(buf, q) \in Offsets /\ SkipPublicKey(buf, q) \in Offsets
  BY SkippedIsOffset DEF Offsets, Within
<1>4. SkipPublicKey(buf, q + 16) \in Offsets
  BY SkippedIsOffset
<1> QED BY <1>1, <1>2, <1>3, <1>4 DEF SkipFields

(* What follows the tag is skipped by the rule for the tag. *)
Skipped(buf, o, tag, e) ==
    e \in Seq(Byte) /\ (Reads(buf, o, e) => GetsPast(buf, o, e, SkipFields(buf, o, tag)))

(* Every action is a tag of 0 to 7 and the fields of that tag. *)
LEMMA ActionHasFields ==
  ASSUME NEW a \in EncodedActions
  PROVE  \E tag \in 0 .. 7 : \E e :
            /\ a = Tag(tag, e)
            /\ \A buf \in Seq(Byte), o \in Nat : Skipped(buf, o, tag, e)
<1> DEFINE Is(tag, e) == a = Tag(tag, e) /\ \A buf \in Seq(Byte), o \in Nat : Skipped(buf, o, tag, e)
<1>1. CASE a = Tag(0, <<>>)
  <2>1. ASSUME NEW buf \in Seq(Byte), NEW o \in Nat PROVE Skipped(buf, o, 0, <<>>)
    <3>1. <<>> \in Seq(Byte) /\ GetsPast(buf, o, <<>>, o)
      BY NothingIsSkipped
    <3>2. SkipFields(buf, o, 0) = o
      BY DEF SkipFields
    <3> QED BY <3>1, <3>2 DEF Skipped
  <2>2. Is(0, <<>>)
    BY <1>1, <2>1
  <2> HIDE DEF Is
  <2>3. \E tag \in 0 .. 7 : \E e : Is(tag, e)
    BY <2>2
  <2> QED BY <2>3 DEF Is
<1>2. CASE \E tag \in {1, 7}, t \in Texts : a = Tag(tag, Text(t))
  <2>1. PICK tag \in {1, 7}, t \in Texts : a = Tag(tag, Text(t))
    BY <1>2
  <2>2. ASSUME NEW buf \in Seq(Byte), NEW o \in Nat PROVE Skipped(buf, o, tag, Text(t))
    <3>1. Len(buf) \in Nat /\ t \in Seq(Byte) /\ Len(t) < MaxBytes /\ Text(t) \in Seq(Byte)
      BY TextsAre
    <3>2. Reads(buf, o, Text(t)) => GetsPast(buf, o, Text(t), SkipLengthPrefixed(buf, o))
      BY <3>1, TextIsSkipped
    <3>3. SkipFields(buf, o, tag) = SkipLengthPrefixed(buf, o)
      BY DEF SkipFields
    <3> QED BY <3>1, <3>2, <3>3 DEF Skipped
  <2>3. Is(tag, Text(t)) /\ tag \in 0 .. 7
    BY <2>1, <2>2
  <2> HIDE DEF Is
  <2>4. \E x \in 0 .. 7 : \E e : Is(x, e)
    BY <2>3
  <2> QED BY <2>4 DEF Is
<1>3. CASE \E t \in Texts, u \in Texts, f \in Fill(24) : a = Call(t, u, f)
  <2>1. PICK t \in Texts, u \in Texts, f \in Fill(24) : a = Call(t, u, f)
    BY <1>3
  <2> DEFINE e == Text(t) \o Text(u) \o f
  <2>2. ASSUME NEW buf \in Seq(Byte), NEW o \in Nat PROVE Skipped(buf, o, 2, e)
    <3>1. e \in Seq(Byte) /\ (Reads(buf, o, e) => GetsPast(buf, o, e, SkipCall(buf, o)))
      BY CallIsSkipped DEF SkipCall
    <3> HIDE DEF e
    <3>2. SkipFields(buf, o, 2) = SkipCall(buf, o)
      BY DEF SkipFields
    <3> QED BY <3>1, <3>2 DEF Skipped
  <2>3. a = Tag(2, e)
    BY <2>1 DEF Call
  <2> HIDE DEF e
  <2>4. Is(2, e)
    BY <2>2, <2>3
  <2> HIDE DEF Is
  <2>5. \E x \in 0 .. 7 : \E d : Is(x, d)
    BY <2>4
  <2> QED BY <2>5 DEF Is
<1>4. CASE \E f \in Fill(16) : a = Tag(3, f)
  <2>1. PICK f \in Fill(16) : a = Tag(3, f)
    BY <1>4
  <2>2. ASSUME NEW buf \in Seq(Byte), NEW o \in Nat PROVE Skipped(buf, o, 3, f)
    <3>1. f \in Seq(Byte) /\ GetsPast(buf, o, f, Within(buf, o + 16))
      <4>1. Len(buf) \in Nat
        OBVIOUS
      <4> QED BY <4>1, FillIsSkipped
    <3>2. SkipFields(buf, o, 3) = Within(buf, o + 16)
      BY DEF SkipFields
    <3> QED BY <3>1, <3>2 DEF Skipped
  <2>3. Is(3, f)
    BY <2>1, <2>2
  <2> HIDE DEF Is
  <2>4. \E x \in 0 .. 7 : \E e : Is(x, e)
    BY <2>3
  <2> QED BY <2>4 DEF Is
<1>5. CASE \E f \in Fill(16), k \in PublicKeys : a = Stake(f, k)
  <2>1. PICK f \in Fill(16), k \in PublicKeys : a = Stake(f, k)
    BY <1>5
  <2> DEFINE e == f \o k
  <2>2. ASSUME NEW buf \in Seq(Byte), NEW o \in Nat PROVE Skipped(buf, o, 4, e)
    <3>1. e \in Seq(Byte) /\ (Reads(buf, o, e) => GetsPast(buf, o, e, SkipPublicKey(buf, o + 16)))
      BY StakeIsSkipped
    <3> HIDE DEF e
    <3>2. SkipFields(buf, o, 4) = SkipPublicKey(buf, o + 16)
      BY DEF SkipFields
    <3> QED BY <3>1, <3>2 DEF Skipped
  <2>3. a = Tag(4, e)
    BY <2>1 DEF Stake
  <2> HIDE DEF e
  <2>4. Is(4, e)
    BY <2>2, <2>3
  <2> HIDE DEF Is
  <2>5. \E x \in 0 .. 7 : \E d : Is(x, d)
    BY <2>4
  <2> QED BY <2>5 DEF Is
<1>6. CASE \E k \in PublicKeys, f \in Fill(8), p \in Permissions : a = AddKey(k, f, p)
  <2>1. PICK k \in PublicKeys, f \in Fill(8), p \in Permissions : a = AddKey(k, f, p)
    BY <1>6
  <2> DEFINE e == k \o f \o p
  <2>2. ASSUME NEW buf \in Seq(Byte), NEW o \in Nat PROVE Skipped(buf, o, 5, e)
    <3>1. e \in Seq(Byte) /\ (Reads(buf, o, e) => GetsPast(buf, o, e, SkipAddKey(buf, o)))
      BY AddKeyIsSkipped DEF SkipAddKey
    <3> HIDE DEF e
    <3>2. SkipFields(buf, o, 5) = SkipAddKey(buf, o)
      BY DEF SkipFields
    <3> QED BY <3>1, <3>2 DEF Skipped
  <2>3. a = Tag(5, e)
    BY <2>1 DEF AddKey
  <2> HIDE DEF e
  <2>4. Is(5, e)
    BY <2>2, <2>3
  <2> HIDE DEF Is
  <2>5. \E x \in 0 .. 7 : \E d : Is(x, d)
    BY <2>4
  <2> QED BY <2>5 DEF Is
<1>7. CASE \E k \in PublicKeys : a = Tag(6, k)
  <2>1. PICK k \in PublicKeys : a = Tag(6, k)
    BY <1>7
  <2>2. ASSUME NEW buf \in Seq(Byte), NEW o \in Nat PROVE Skipped(buf, o, 6, k)
    <3>1. k \in Seq(Byte) /\ (Reads(buf, o, k) => GetsPast(buf, o, k, SkipPublicKey(buf, o)))
      <4>1. Len(buf) \in Nat
        OBVIOUS
      <4> QED BY <4>1, KeysAre, KeyIsSkipped
    <3>2. SkipFields(buf, o, 6) = SkipPublicKey(buf, o)
      BY DEF SkipFields
    <3> QED BY <3>1, <3>2 DEF Skipped
  <2>3. Is(6, k)
    BY <2>1, <2>2
  <2> HIDE DEF Is
  <2>4. \E x \in 0 .. 7 : \E e : Is(x, e)
    BY <2>3
  <2> QED BY <2>4 DEF Is
<1> QED BY <1>1, <1>2, <1>3, <1>4, <1>5, <1>6, <1>7 DEF EncodedActions

(* skipAction gets past any action that is there. *)
LEMMA ActionIsSkipped ==
  ASSUME NEW a \in EncodedActions
  PROVE  /\ a \in Seq(Byte) /\ Len(a) > 0 /\ a[1] \in 0 .. 7
         /\ \A buf \in Seq(Byte), o \in Nat :
               Reads(buf, o, a) => GetsPast(buf, o, a, SkipAction(buf, o))
<1>1. PICK tag \in 0 .. 7 : \E e : a = Tag(tag, e) /\ \A buf \in Seq(Byte), o \in Nat : Skipped(buf, o, tag, e)
  BY ActionHasFields
<1>2. PICK e : a = Tag(tag, e) /\ \A buf \in Seq(Byte), o \in Nat : Skipped(buf, o, tag, e)
  BY <1>1
<1>3. tag \in Byte
  BY DEF Byte
<1>4. e \in Seq(Byte)
  <2>1. <<>> \in Seq(Byte) /\ 0 \in Nat
    OBVIOUS
  <2> QED BY <1>2, <2>1 DEF Skipped
<1>5. a \in Seq(Byte) /\ Len(a) = 1 + Len(e) /\ a[1] = tag /\ Len(e) \in Nat
  BY <1>2, <1>3, <1>4, TagFirst
<1>6. ASSUME NEW buf \in Seq(Byte), NEW o \in Nat, Reads(buf, o, a)
      PROVE  GetsPast(buf, o, a, SkipAction(buf, o))
  <2>1. Len(buf) \in Nat /\ o + 1 \in Nat
    OBVIOUS
  <2>2. Reads(buf, o + 1, e) /\ (o + 1 <= Len(buf) => buf[o + 1] = tag)
    BY <1>2, <1>3, <1>4, <1>6, <2>1, TagIsSkipped
  <2>3. GetsPast(buf, o + 1, e, SkipFields(buf, o + 1, tag))
    BY <1>2, <2>1, <2>2 DEF Skipped
  <2>4. GetsPast(buf, o, a, IF o + 1 > Len(buf) THEN Off ELSE SkipFields(buf, o + 1, tag))
    BY <1>2, <1>3, <1>4, <1>6, <2>1, <2>3, TagIsSkipped
  <2>5. SkipAction(buf, o) = IF o + 1 > Len(buf) THEN Off ELSE SkipFields(buf, o + 1, tag)
    BY <2>1, <2>2, ActionIsFields
  <2> QED BY <2>4, <2>5
<1> QED BY <1>5, <1>6

(* The function of the loop over actions. *)
LEMMA ActionLoop ==
  ASSUME NEW buf \in Seq(Byte), NEW from \in Nat
  PROVE  \E c : /\ \A n \in Nat : SkipTimes(n, from, LAMBDA o : SkipAction(buf, o)) = c[n]
                /\ \A k \in Nat : c[k] \in Offsets /\ c[k] = ActionStep(buf, from, c, k)
<1> DEFINE skip == [o \in Nat |-> SkipAction(buf, o)]
<1>1. skip \in [Nat -> Offsets] /\ \A o \in Nat : skip[o] = SkipAction(buf, o)
  BY ActionIsOffset
<1> HIDE DEF skip
<1>2. PICK d \in [Nat -> Offsets] : \A k \in Nat : d[k] = LoopStep(skip, d, from, k)
  BY <1>1, LoopExists
<1>3. ASSUME NEW k \in Nat PROVE d[k] = ActionStep(buf, from, d, k)
  <2>1. k # 0 => k - 1 \in Nat
    OBVIOUS
  <2>2. k # 0 /\ d[k - 1] # Off => d[k - 1] \in Nat
    BY <2>1, <1>2 DEF Offsets
  <2> QED BY <1>1, <1>2, <2>2 DEF LoopStep, ActionStep
<1>4. IsActionLoop(buf, from, d)
  <2> DEFINE F(k) == ActionStep(buf, from, d, k)
  <2>1. \A k \in Nat : d[k] = F(k)
    BY <1>3
  <2> HIDE DEF F
  <2>2. d = [k \in Nat |-> F(k)]
    BY <1>2, <2>1
  <2> QED BY <2>2 DEF IsActionLoop, F
<1> DEFINE c == CHOOSE h : IsActionLoop(buf, from, h)
<1>5. IsActionLoop(buf, from, c) /\ \A n \in Nat : SkipTimes(n, from, LAMBDA o : SkipAction(buf, o)) = c[n]
  BY <1>4, ActionLoopIs
<1> HIDE DEF c
<1>6. \A k \in Nat : c[k] = ActionStep(buf, from, c, k)
  <2> DEFINE F(k) == ActionStep(buf, from, c, k)
  <2> HIDE DEF F
  <2>1. c = [k \in Nat |-> F(k)]
    BY <1>5 DEF IsActionLoop, F
  <2>2. \A k \in Nat : c[k] = F(k)
    BY <2>1
  <2> QED BY <2>2 DEF F
<1>7. \A k \in Nat : c[k] \in Offsets
  <2> DEFINE Good == {k \in Nat : c[k] \in Offsets}
  <2>1. 0 \in Good
    BY <1>6 DEF ActionStep, Offsets
  <2>2. ASSUME NEW k \in Nat, k \in Good PROVE k + 1 \in Good
    <3>1. c[k + 1] = IF c[k] = Off THEN Off ELSE SkipAction(buf, c[k])
      BY <1>6 DEF ActionStep
    <3>2. c[k] = Off \/ c[k] \in Nat
      BY <2>2 DEF Offsets
    <3> QED BY <3>1, <3>2, ActionIsOffset DEF Offsets
  <2> HIDE DEF Good
  <2>3. \A k \in Nat : k \in Good
    BY <2>1, <2>2, StepInduction
  <2> QED BY <2>3 DEF Good
<1> QED BY <1>5, <1>6, <1>7

(* Whatever the bytes, so are the actions. *)
LEMMA ActionsAreOffset ==
  ASSUME NEW buf \in Seq(Byte), NEW o \in Nat
  PROVE  SkipActions(buf, o) \in Offsets
<1> DEFINE count == ReadU32LE(buf, o)
<1>1. o + 4 \in Nat
  OBVIOUS
<1>2. PICK c : /\ \A m \in Nat : SkipTimes(m, o + 4, LAMBDA p : SkipAction(buf, p)) = c[m]
               /\ \A k \in Nat : c[k] \in Offsets /\ c[k] = ActionStep(buf, o + 4, c, k)
  BY <1>1, ActionLoop
<1>3. count \in Offsets
  BY SkippedIsOffset
<1>4. count # Off => SkipTimes(count, o + 4, LAMBDA p : SkipAction(buf, p)) = c[count] /\ c[count] \in Offsets
  BY <1>2, <1>3 DEF Offsets
<1> QED BY <1>4 DEF SkipActions, Offsets

(* A list of actions is a list of sequences of bytes. *)
LEMMA ActionsAreBytes ==
  ASSUME NEW as \in Seq(EncodedActions)
  PROVE  as \in Seq(Seq(Byte)) /\ Len(as) \in Nat /\ \A i \in 1 .. Len(as) : as[i] \in EncodedActions
<1>1. EncodedActions \subseteq Seq(Byte)
  BY ActionIsSkipped
<1>2. as \in Seq(Seq(Byte))
  <2> DEFINE A == EncodedActions
             B == Seq(Byte)
  <2>1. as \in Seq(A) /\ A \subseteq B
    BY <1>1
  <2> HIDE DEF A, B
  <2>2. as \in Seq(B)
    BY <2>1, SeqMonotonic
  <2> QED BY <2>2 DEF B
<1>3. Len(as) \in Nat /\ \A i \in 1 .. Len(as) : as[i] \in EncodedActions
  BY LenProperties, ElementOfSeq
<1> QED BY <1>2, <1>3

(* Any list of actions that is there is skipped (tryDecodeDelegateAction). *)
LEMMA ActionsAreSkipped ==
  ASSUME NEW buf \in Seq(Byte), NEW o \in Nat, NEW items \in Seq(EncodedActions), Len(items) < MaxBytes,
         Reads(buf, o, List(items))
  PROVE  /\ GetsPast(buf, o, List(items), SkipActions(buf, o))
         /\ ReadU32LE(buf, o) = IF o + 4 <= Len(buf) THEN Len(items) ELSE Off
<1> DEFINE count == ReadU32LE(buf, o)
           n == Len(items)
<1>1. n \in Nat /\ items \in Seq(Seq(Byte)) /\ \A i \in 1 .. n : items[i] \in EncodedActions
  BY ActionsAreBytes
<1>2. Len(buf) \in Nat /\ o + 4 \in Nat
  OBVIOUS
<1>3. PICK c : /\ \A m \in Nat : SkipTimes(m, o + 4, LAMBDA p : SkipAction(buf, p)) = c[m]
               /\ \A k \in Nat : c[k] \in Offsets /\ c[k] = ActionStep(buf, o + 4, c, k)
  BY <1>2, ActionLoop
<1>4. c[0] = o + 4
  BY <1>3 DEF ActionStep
<1>5. Walks(buf, items, c)
  <2> SUFFICES ASSUME NEW k \in 1 .. n
               PROVE  IF c[k - 1] = Off THEN c[k] = Off
                      ELSE c[k - 1] \in Nat /\ Reads(buf, c[k - 1], items[k])
                              => GetsPast(buf, c[k - 1], items[k], c[k])
    BY DEF Walks
  <2>1. k \in Nat /\ k # 0 /\ items[k] \in EncodedActions
    BY <1>1
  <2>2. c[k] = IF c[k - 1] = Off THEN Off ELSE SkipAction(buf, c[k - 1])
    BY <1>3, <2>1 DEF ActionStep
  <2>3. c[k - 1] \in Nat /\ Reads(buf, c[k - 1], items[k])
          => GetsPast(buf, c[k - 1], items[k], SkipAction(buf, c[k - 1]))
    BY <2>1, ActionIsSkipped
  <2> QED BY <2>2, <2>3
<1>6. /\ GetsPast(buf, o, List(items), IF count = Off THEN Off ELSE c[n])
      /\ count = IF o + 4 <= Len(buf) THEN n ELSE Off
  BY <1>1, <1>2, <1>4, <1>5, ListIsSkipped
<1>7. SkipActions(buf, o) = IF count = Off THEN Off ELSE c[n]
  <2>1. count # Off => SkipTimes(count, o + 4, LAMBDA p : SkipAction(buf, p)) = c[n]
    BY <1>1, <1>3, <1>6
  <2> QED BY <2>1 DEF SkipActions
<1> QED BY <1>6, <1>7

-------------------------------------------------------------------------------
(* Payloads. *)

(* The payloads a client may sign: any names, any actions in any number, with  *)
(* the discriminant or without. Their bytes are fewer than the discriminant    *)
(* says, so that it is no length.                                              *)
Payloads ==
    {m \in [tagged : BOOLEAN, sender : Texts, receiver : Texts, actions : Seq(EncodedActions),
            bounds : Fill(16), key : PublicKeys] :
       Len(m.actions) < MaxBytes /\ Len(Encode(m)) < MaxBytes}

(* The parts of a payload, one behind the other. *)
Discriminant(m) == IF m.tagged THEN U32(Nep366Discriminant) ELSE <<>>
Start(m) == IF m.tagged THEN 4 ELSE 0
ToParties(m) == Discriminant(m) \o Text(m.sender) \o Text(m.receiver)
ToActions(m) == ToParties(m) \o List(m.actions)
ToKey(m) == ToActions(m) \o m.bounds

(* The discriminant fits in four bytes, and is above any length. *)
LEMMA DiscriminantIs ==
  /\ Nep366Discriminant \in Nat /\ Nep366Discriminant < 256 * (256 * 256 * 256)
  /\ MaxBytes < Nep366Discriminant /\ MaxBytes \in Nat
  BY DEF Nep366Discriminant, MaxBytes

(* The fields of a payload. *)
LEMMA PayloadIs ==
  ASSUME NEW m \in Payloads
  PROVE  /\ m.tagged \in BOOLEAN /\ m.sender \in Texts /\ m.receiver \in Texts
         /\ m.actions \in Seq(EncodedActions) /\ Len(m.actions) < MaxBytes
         /\ m.bounds \in Fill(16) /\ m.key \in PublicKeys /\ Len(Encode(m)) < MaxBytes
  BY DEF Payloads

(* Two fields, one behind the other. *)
LEMMA Joined ==
  ASSUME NEW a \in Seq(Byte), NEW b \in Seq(Byte)
  PROVE  a \o b \in Seq(Byte) /\ Len(a \o b) = Len(a) + Len(b) /\ Len(a) \in Nat /\ Len(b) \in Nat
  OBVIOUS

(* Each part of a payload is a sequence of bytes. *)
LEMMA PartsAre ==
  ASSUME NEW m \in Payloads
  PROVE  /\ Discriminant(m) \in Seq(Byte) /\ Start(m) \in {0, 4} /\ Len(Discriminant(m)) = Start(m)
         /\ Text(m.sender) \in Seq(Byte) /\ Text(m.receiver) \in Seq(Byte)
         /\ Discriminant(m) \o Text(m.sender) \in Seq(Byte)
         /\ ToParties(m) \in Seq(Byte) /\ List(m.actions) \in Seq(Byte)
         /\ ToActions(m) \in Seq(Byte) /\ m.bounds \in Seq(Byte)
         /\ ToKey(m) \in Seq(Byte) /\ m.key \in Seq(Byte)
<1>1. Discriminant(m) \in Seq(Byte) /\ Start(m) \in {0, 4} /\ Len(Discriminant(m)) = Start(m)
  <2> DEFINE u == U32(Nep366Discriminant)
  <2>1. u \in Seq(Byte) /\ Len(u) = 4
    BY DiscriminantIs, BytesOfNumber
  <2> HIDE DEF u
  <2>2. <<>> \in Seq(Byte) /\ Len(<<>>) = 0
    OBVIOUS
  <2>3. CASE m.tagged
    BY <2>1, <2>3 DEF Discriminant, Start, u
  <2>4. CASE ~m.tagged
    BY <2>2, <2>4 DEF Discriminant, Start
  <2> QED BY <2>3, <2>4
<1>2. Text(m.sender) \in Seq(Byte) /\ Text(m.receiver) \in Seq(Byte)
  BY PayloadIs, TextsAre
<1>3. List(m.actions) \in Seq(Byte)
  <2>1. m.actions \in Seq(EncodedActions) /\ Len(m.actions) < MaxBytes
    BY PayloadIs
  <2>2. m.actions \in Seq(Seq(Byte))
    BY <2>1, ActionsAreBytes
  <2> QED BY <2>1, <2>2, ListIsBytes
<1>4. m.bounds \in Seq(Byte)
  <2>1. m.bounds \in Fill(16)
    BY PayloadIs
  <2> QED BY <2>1, PayloadAssumption
<1>5. m.key \in Seq(Byte)
  BY PayloadIs, KeysAre
<1>6. Discriminant(m) \o Text(m.sender) \in Seq(Byte)
  BY <1>1, <1>2, Joined
<1>7. ToParties(m) \in Seq(Byte)
  <2> DEFINE a == Discriminant(m) \o Text(m.sender)
  <2>1. a \in Seq(Byte)
    BY <1>6
  <2> HIDE DEF a
  <2>2. a \o Text(m.receiver) \in Seq(Byte)
    BY <1>2, <2>1, Joined
  <2> QED BY <2>2 DEF ToParties, a
<1>8. ToActions(m) \in Seq(Byte)
  BY <1>3, <1>7, Joined DEF ToActions
<1>9. ToKey(m) \in Seq(Byte)
  BY <1>4, <1>8, Joined DEF ToKey
<1> QED BY <1>1, <1>2, <1>3, <1>4, <1>5, <1>6, <1>7, <1>8, <1>9

(* Where each part begins and ends. *)
LEMMA LengthsAre ==
  ASSUME NEW m \in Payloads
  PROVE  /\ Encode(m) = ToKey(m) \o m.key /\ Encode(m) \in Seq(Byte)
         /\ Len(Encode(m)) = Len(ToKey(m)) + Len(m.key)
         /\ Len(m.key) \in Nat /\ Len(m.key) > 0
         /\ Len(ToActions(m)) \in Nat /\ Len(ToKey(m)) = Len(ToActions(m)) + 16
         /\ Len(ToParties(m)) \in Nat /\ Len(ToParties(m)) + 4 <= Len(ToActions(m))
<1>1. Encode(m) = ToKey(m) \o m.key
  BY DEF Encode, ToKey, ToActions, ToParties, Discriminant
<1>2. /\ Encode(m) \in Seq(Byte) /\ Len(Encode(m)) = Len(ToKey(m)) + Len(m.key)
      /\ Len(m.key) \in Nat
  BY <1>1, PartsAre, Joined
<1>3. Len(m.key) > 0
  BY PayloadIs, KeysAre
<1>4. Len(ToActions(m)) \in Nat /\ Len(ToKey(m)) = Len(ToActions(m)) + Len(m.bounds)
  BY PartsAre, Joined DEF ToKey
<1>5. Len(m.bounds) = 16
  <2>1. m.bounds \in Fill(16)
    BY PayloadIs
  <2> QED BY <2>1, PayloadAssumption
<1>6. Len(ToParties(m)) \in Nat /\ Len(ToActions(m)) = Len(ToParties(m)) + Len(List(m.actions))
  BY PartsAre, Joined DEF ToActions
<1>7. Len(List(m.actions)) >= 4
  <2> DEFINE items == m.actions
             u == U32(Len(items))
             e == FlattenSeq(items)
  <2>1. items \in Seq(EncodedActions) /\ Len(items) < MaxBytes
    BY PayloadIs
  <2>2. items \in Seq(Seq(Byte)) /\ Len(items) \in Nat
    BY <2>1, ActionsAreBytes
  <2>3. PICK f : Joins(Byte, items, f)
    BY <2>2, JoinsExist
  <2>4. e \in Seq(Byte)
    <3>1. e = f[Len(items)]
      BY <2>2, <2>3, FlattenJoins
    <3> QED BY <2>2, <2>3, <3>1 DEF Joins
  <2>5. u \in Seq(Byte) /\ Len(u) = 4
    BY <2>1, <2>2, BytesOfNumber DEF MaxBytes
  <2>6. List(items) = u \o e
    BY DEF List
  <2> HIDE DEF u, e
  <2>7. Len(List(items)) = Len(u) + Len(e) /\ Len(e) \in Nat
    BY <2>4, <2>5, <2>6, Joined
  <2> QED BY <2>5, <2>7
<1> QED BY <1>1, <1>2, <1>3, <1>4, <1>5, <1>6, <1>7

(* What holds a payload from its first byte holds each part at its place. *)
LEMMA PartsAreRead ==
  ASSUME NEW m \in Payloads, NEW buf \in Seq(Byte), Reads(buf, 0, Encode(m))
  PROVE  /\ Reads(buf, 0, Discriminant(m)) /\ Reads(buf, Start(m), Text(m.sender))
         /\ Reads(buf, Len(Discriminant(m) \o Text(m.sender)), Text(m.receiver))
         /\ Len(Discriminant(m) \o Text(m.sender)) \in Nat
         /\ Reads(buf, Len(ToParties(m)), List(m.actions))
         /\ Reads(buf, Len(ToKey(m)), m.key)
<1> DEFINE h == Discriminant(m)
           a == h \o Text(m.sender)
<1>1. 0 \in Nat /\ \A i \in Nat : 0 + i = i
  OBVIOUS
<1>2. Reads(buf, 0, ToKey(m)) /\ Reads(buf, Len(ToKey(m)), m.key)
  <2>1. Reads(buf, 0, ToKey(m) \o m.key)
    BY LengthsAre
  <2>2. Reads(buf, 0, ToKey(m)) /\ Reads(buf, 0 + Len(ToKey(m)), m.key)
    BY <1>1, <2>1, PartsAre, ReadsBoth
  <2> QED BY <1>1, <2>2, LengthsAre
<1>3. Reads(buf, 0, ToActions(m))
  <2>1. Reads(buf, 0, ToActions(m) \o m.bounds)
    BY <1>2 DEF ToKey
  <2> QED BY <1>1, <2>1, PartsAre, ReadsBoth
<1>4. Reads(buf, 0, ToParties(m)) /\ Reads(buf, Len(ToParties(m)), List(m.actions))
  <2>1. Reads(buf, 0, ToParties(m) \o List(m.actions))
    BY <1>3 DEF ToActions
  <2>2. Reads(buf, 0, ToParties(m)) /\ Reads(buf, 0 + Len(ToParties(m)), List(m.actions))
    BY <1>1, <2>1, PartsAre, ReadsBoth
  <2> QED BY <1>1, <2>2, LengthsAre
<1>5. a \in Seq(Byte) /\ h \in Seq(Byte) /\ Len(h) = Start(m)
  BY PartsAre
<1>6. Reads(buf, 0, a) /\ Reads(buf, Len(a), Text(m.receiver)) /\ Len(a) \in Nat
  <2>1. Reads(buf, 0, a \o Text(m.receiver))
    BY <1>4 DEF ToParties
  <2> HIDE DEF a
  <2>2. Reads(buf, 0, a) /\ Reads(buf, 0 + Len(a), Text(m.receiver)) /\ 0 + Len(a) \in Nat
    BY <1>1, <1>5, <2>1, PartsAre, ReadsBoth
  <2>3. Len(a) \in Nat
    BY <1>5
  <2> QED BY <1>1, <2>2, <2>3
<1>7. Reads(buf, 0, h) /\ Reads(buf, Start(m), Text(m.sender))
  <2> HIDE DEF h
  <2>1. Reads(buf, 0, h) /\ Reads(buf, 0 + Len(h), Text(m.sender))
    BY <1>1, <1>5, <1>6, PartsAre, ReadsBoth DEF a
  <2>2. 0 + Len(h) = Start(m)
    BY <1>5, PartsAre
  <2> QED BY <2>1, <2>2
<1> QED BY <1>2, <1>4, <1>6, <1>7

(* The sender, the receiver and the actions are skipped. *)
Behind(buf, o) == Then(SkipParties(buf, o), LAMBDA p : SkipActions(buf, p))

(* From where the payload starts, its names and its actions are skipped. *)
LEMMA PartiesAreSkipped ==
  ASSUME NEW m \in Payloads, NEW buf \in Seq(Byte), Reads(buf, 0, Encode(m))
  PROVE  /\ GetsPast(buf, 0, ToParties(m), SkipParties(buf, Start(m)))
         /\ GetsPast(buf, 0, ToActions(m), Behind(buf, Start(m)))
<1> DEFINE h == Discriminant(m)
           s == Text(m.sender)
           r == Text(m.receiver)
           a == h \o s
           o == Start(m)
           r1 == SkipLengthPrefixed(buf, o)
           r2 == IF r1 = Off THEN Off ELSE SkipLengthPrefixed(buf, Len(a))
           b == ToParties(m)
           r3 == IF r2 = Off THEN Off ELSE SkipActions(buf, Len(b))
<1>1. Len(buf) \in Nat /\ 0 \in Nat /\ \A i \in Nat : 0 + i = i
  OBVIOUS
<1>2. /\ h \in Seq(Byte) /\ s \in Seq(Byte) /\ r \in Seq(Byte) /\ a \in Seq(Byte) /\ b \in Seq(Byte)
      /\ Len(h) = o /\ o \in Nat /\ Len(a) \in Nat /\ Len(b) \in Nat /\ o # Off
      /\ List(m.actions) \in Seq(Byte)
  <2>1. o \in {0, 4}
    BY PartsAre
  <2> QED BY <2>1, PartsAre, LengthsAre, PartsAreRead, OffIsNone
<1>3. GetsPast(buf, 0, h, o)
  <2>1. 0 + Len(h) = o
    BY <1>1, <1>2
  <2> QED BY <2>1 DEF GetsPast
<1>4. GetsPast(buf, o, s, r1)
  <2>1. m.sender \in Seq(Byte) /\ Len(m.sender) < MaxBytes
    BY PayloadIs, TextsAre
  <2> QED BY <1>1, <1>2, <2>1, PartsAreRead, TextIsSkipped
<1>5. GetsPast(buf, Len(a), r, SkipLengthPrefixed(buf, Len(a)))
  <2>1. m.receiver \in Seq(Byte) /\ Len(m.receiver) < MaxBytes
    BY PayloadIs, TextsAre
  <2> QED BY <1>1, <1>2, <2>1, PartsAreRead, TextIsSkipped
<1>6. GetsPast(buf, Len(b), List(m.actions), SkipActions(buf, Len(b)))
  <2>1. m.actions \in Seq(EncodedActions) /\ Len(m.actions) < MaxBytes
    BY PayloadIs
  <2> QED BY <1>2, <2>1, PartsAreRead, ActionsAreSkipped
<1>7. b = a \o r /\ ToActions(m) = b \o List(m.actions)
  BY DEF ToParties, ToActions
<1> HIDE DEF b
<1>8. GetsPast(buf, 0, a, r1)
  <2> HIDE DEF h, s, o, r1
  <2>1. 0 + Len(h) = o
    BY <1>1, <1>2
  <2>2. GetsPast(buf, 0, h \o s, IF o = Off THEN Off ELSE r1)
    BY <1>1, <1>2, <1>3, <1>4, <2>1, PastBoth
  <2> QED BY <1>2, <2>2
<1>9. GetsPast(buf, 0, b, r2)
  <2> HIDE DEF a, r, r1
  <2>1. 0 + Len(a) = Len(a)
    BY <1>1, <1>2
  <2>2. GetsPast(buf, 0, a \o r, r2)
    BY <1>1, <1>2, <1>5, <1>8, <2>1, PastBoth
  <2> QED BY <1>7, <2>2
<1>10. GetsPast(buf, 0, ToActions(m), r3)
  <2> HIDE DEF r2
  <2>1. 0 + Len(b) = Len(b)
    BY <1>1, <1>2
  <2>2. GetsPast(buf, 0, b \o List(m.actions), r3)
    BY <1>1, <1>2, <1>6, <1>9, <2>1, PastBoth
  <2> QED BY <1>7, <2>2
<1>11. SkipParties(buf, o) = r2
  <2>1. SkipParties(buf, o) = IF r1 = Off THEN Off ELSE SkipLengthPrefixed(buf, r1)
    BY DEF SkipParties, Then
  <2>2. r1 # Off => r1 = Len(a)
    <3> HIDE DEF a, r1
    <3> QED BY <1>1, <1>2, <1>8 DEF GetsPast
  <2> HIDE DEF a, r1
  <2> QED BY <2>1, <2>2
<1>12. Behind(buf, o) = r3
  <2>1. Behind(buf, o) = IF r2 = Off THEN Off ELSE SkipActions(buf, r2)
    BY <1>11 DEF Behind, Then
  <2>2. r2 # Off => r2 = Len(b)
    <3> HIDE DEF r2
    <3> QED BY <1>1, <1>2, <1>9 DEF GetsPast
  <2> HIDE DEF r2
  <2> QED BY <2>1, <2>2
<1> HIDE DEF r2, r3
<1> QED BY <1>9, <1>10, <1>11, <1>12 DEF b

(* From where the payload starts, its key is found, if it is all there. *)
LEMMA StartDecodes ==
  ASSUME NEW m \in Payloads, NEW buf \in Seq(Byte), Reads(buf, 0, Encode(m)), Len(buf) <= Len(Encode(m))
  PROVE  TryDecodeDelegateAction(buf, Start(m)) = IF Len(buf) = Len(Encode(m)) THEN m.key ELSE NoKey
<1> DEFINE p == Len(ToActions(m))
           o == Len(ToKey(m))
           l == Len(m.key)
           behind == Behind(buf, Start(m))
           skip == SkipPublicKey(buf, o)
<1>1. /\ p \in Nat /\ o = p + 16 /\ l \in Nat /\ Len(Encode(m)) = o + l /\ Len(buf) \in Nat /\ 0 + p = p
      /\ o \in Nat
  BY LengthsAre
<1>2. behind \in {Off, p} /\ (p <= Len(buf) => behind = p)
  <2>1. GetsPast(buf, 0, ToActions(m), behind)
    BY PartiesAreSkipped
  <2> QED BY <1>1, <2>1 DEF GetsPast
<1>3. TryDecodeDelegateAction(buf, Start(m)) = IF behind = Off THEN NoKey ELSE KeyAt(buf, behind + 16)
  BY DEF TryDecodeDelegateAction, Behind
<1>4. GetsPast(buf, o, m.key, skip) /\ (skip # Off => o + l <= Len(buf))
  BY <1>1, PayloadIs, PartsAreRead, KeyIsSkipped
<1>5. KeyAt(buf, o) = IF skip = Off THEN NoKey ELSE SubSeq(buf, o + 1, skip)
  BY DEF KeyAt
<1>6. SubSeq(buf, o + 1, o + l) = m.key \/ Len(buf) # o + l
  <2> SUFFICES ASSUME Len(buf) = o + l PROVE SubSeq(buf, o + 1, o + l) = m.key
    OBVIOUS
  <2> DEFINE k == m.key
             c == SubSeq(buf, o + 1, o + l)
  <2> HIDE DEF o
  <2>1. k \in Seq(Byte) /\ Len(k) = l /\ Reads(buf, o, k) /\ l \in Nat /\ o \in Nat /\ l > 0
    BY <1>1, PartsAre, PartsAreRead, LengthsAre DEF o
  <2> HIDE DEF l, k
  <2>2. \A i \in o + 1 .. o + l : buf[i] \in Byte
    BY <2>1
  <2>3. /\ c \in Seq(Byte)
        /\ Len(c) = IF o + 1 <= o + l THEN (o + l) - (o + 1) + 1 ELSE 0
        /\ \A i \in 1 .. (o + l) - (o + 1) + 1 : c[i] = buf[(o + 1) + i - 1]
    <3>1. o + 1 \in Int /\ o + l \in Int
      BY <2>1
    <3> QED BY <2>2, <3>1, SubSeqProperties
  <2> HIDE DEF c
  <2>4. Len(c) = l /\ \A i \in 1 .. l : c[i] = buf[o + i]
    BY <2>1, <2>3
  <2>5. \A i \in 1 .. l : c[i] = k[i]
    BY <2>1, <2>4 DEF Reads
  <2>6. c = k
    BY <2>1, <2>3, <2>4, <2>5, SeqEqual
  <2> QED BY <2>6 DEF c, k
<1>7. skip = Off \/ skip = o + l
  BY <1>4 DEF GetsPast
<1>8. Len(buf) = o + l => skip = o + l
  BY <1>4 DEF GetsPast
<1> HIDE DEF o, p, l, behind, skip
<1>9. o + l # Off
  BY <1>1, OffIsNone
<1>10. CASE Len(buf) = o + l
  <2>1. behind = p /\ behind # Off
    BY <1>1, <1>2, <1>10, OffIsNone
  <2>2. KeyAt(buf, o) = m.key
    BY <1>5, <1>6, <1>8, <1>9, <1>10
  <2> QED BY <1>1, <1>3, <1>10, <2>1, <2>2
<1>11. CASE Len(buf) # o + l
  <2>1. ~(o + l <= Len(buf))
    BY <1>1, <1>11
  <2>3. skip = Off
    BY <1>4, <2>1
  <2>2. KeyAt(buf, o) = NoKey
    BY <1>5, <2>3
  <2> QED BY <1>1, <1>2, <1>3, <1>11, <2>2
<1> QED BY <1>10, <1>11

(* Only a payload with the discriminant is taken for one. *)
LEMMA OnlyTaggedIsNep366 ==
  ASSUME NEW m \in Payloads, NEW buf \in Seq(Byte), Reads(buf, 0, Encode(m)), Len(buf) >= 16
  PROVE  IsNep366(buf) <=> m.tagged
<1>1. Len(buf) \in Nat /\ 0 \in Nat /\ 0 + 4 <= Len(buf)
  OBVIOUS
<1>2. CASE m.tagged
  <2>1. Reads(buf, 0, U32(Nep366Discriminant))
    BY <1>2, PartsAreRead DEF Discriminant
  <2>2. ReadU32LE(buf, 0) = Nep366Discriminant
    BY <1>1, <2>1, DiscriminantIs, NumberIsRead
  <2> QED BY <1>2, <2>2 DEF IsNep366
<1>3. CASE ~m.tagged
  <2> DEFINE t == m.sender
             n == Len(t)
             u == U32(n)
  <2>1. Reads(buf, 0, Text(t)) /\ t \in Seq(Byte) /\ n < MaxBytes
    BY <1>3, PartsAreRead, PayloadIs, TextsAre DEF Start
  <2>2. n \in Nat /\ n < 256 * (256 * 256 * 256) /\ n # Nep366Discriminant
    BY <2>1, DiscriminantIs DEF MaxBytes
  <2>3. u \in Seq(Byte)
    BY <2>2, BytesOfNumber
  <2>4. Reads(buf, 0, u)
    <3>1. Text(t) = u \o t
      BY DEF Text
    <3> HIDE DEF u, t
    <3> QED BY <1>1, <2>1, <2>3, <3>1, ReadsBoth
  <2>5. ReadU32LE(buf, 0) = n
    BY <1>1, <2>2, <2>4, NumberIsRead
  <2> QED BY <1>3, <2>2, <2>5 DEF IsNep366
<1> QED BY <1>2, <1>3

(* Read without a discriminant, one that has it gives no key: its first four  *)
(* bytes are then the length of a name that no payload can hold.              *)
LEMMA TaggedIsNotUntagged ==
  ASSUME NEW m \in Payloads, m.tagged, NEW buf \in Seq(Byte), Reads(buf, 0, Encode(m)),
         Len(buf) <= Len(Encode(m))
  PROVE  TryDecodeDelegateAction(buf, 0) = NoKey
<1> DEFINE N == Nep366Discriminant
           n == ReadU32LE(buf, 0)
<1>1. Len(buf) \in Nat /\ Len(Encode(m)) \in Nat /\ N \in Nat /\ ~(0 + 4 + N <= Len(buf))
  BY PayloadIs, LengthsAre, DiscriminantIs
<1>2. n = N \/ n = Off
  <2>1. Reads(buf, 0, U32(N))
    BY PartsAreRead DEF Discriminant
  <2>2. 0 \in Nat /\ N < 256 * (256 * 256 * 256)
    BY DiscriminantIs
  <2> HIDE DEF N
  <2> QED BY <1>1, <2>1, <2>2, NumberIsRead
<1>3. SkipLengthPrefixed(buf, 0) = Off
  <2>1. SkipLengthPrefixed(buf, 0) = IF n = Off THEN Off ELSE Within(buf, 0 + 4 + n)
    BY DEF SkipLengthPrefixed
  <2> HIDE DEF n, N
  <2> QED BY <1>1, <1>2, <2>1 DEF Within
<1> QED BY <1>3 DEF TryDecodeDelegateAction, SkipParties, Then

(* decodeSignDelegatePublicKey gives a whole payload's key, and none of a cut one. *)
LEMMA KeyDecodes ==
  ASSUME NEW m \in Payloads, NEW buf \in Seq(Byte), Reads(buf, 0, Encode(m)), Len(buf) <= Len(Encode(m))
  PROVE  DecodeSignDelegatePublicKey(buf) = IF Len(buf) = Len(Encode(m)) THEN m.key ELSE NoKey
<1> DEFINE full == Len(buf) = Len(Encode(m))
           key == IF full THEN m.key ELSE NoKey
<1>1. Len(Encode(m)) >= 16 /\ Len(buf) \in Nat /\ m.key # NoKey
  BY LengthsAre DEF NoKey
<1>2. TryDecodeDelegateAction(buf, Start(m)) = key
  BY StartDecodes
<1>3. CASE Len(buf) < 16
  BY <1>1, <1>3 DEF DecodeSignDelegatePublicKey, MinLength
<1>4. CASE ~(Len(buf) < 16)
  <2>1. IsNep366(buf) <=> m.tagged
    BY <1>1, <1>4, OnlyTaggedIsNep366
  <2>2. DecodeSignDelegatePublicKey(buf) =
          IF IsNep366(buf) /\ TryDecodeDelegateAction(buf, 4) # NoKey
          THEN TryDecodeDelegateAction(buf, 4) ELSE TryDecodeDelegateAction(buf, 0)
    BY <1>4 DEF DecodeSignDelegatePublicKey, MinLength
  <2>3. CASE m.tagged
    <3>1. TryDecodeDelegateAction(buf, 4) = key /\ TryDecodeDelegateAction(buf, 0) = NoKey
      BY <1>2, <2>3, TaggedIsNotUntagged DEF Start
    <3> HIDE DEF full
    <3> QED BY <2>1, <2>2, <2>3, <3>1 DEF full
  <2>4. CASE ~m.tagged
    <3>1. TryDecodeDelegateAction(buf, 0) = key
      BY <1>2, <2>4 DEF Start
    <3> HIDE DEF key
    <3> QED BY <2>1, <2>2, <2>4, <3>1 DEF key
  <2> QED BY <2>3, <2>4
<1> QED BY <1>3, <1>4

(* A list of actions begins, behind its number, with its first action's tag. *)
LEMMA FirstOfActions ==
  ASSUME NEW items \in Seq(EncodedActions), Len(items) > 0, Len(items) < MaxBytes,
         NEW buf \in Seq(Byte), NEW o \in Nat, Reads(buf, o, List(items)), o + 5 <= Len(buf)
  PROVE  buf[o + 5] = items[1][1]
<1> DEFINE n == Len(items)
           x == items[1][1]
           u == U32(n)
<1>1. items \in Seq(Seq(Byte)) /\ n \in Nat /\ \A i \in 1 .. n : items[i] \in Seq(Byte) /\ Len(items[i]) > 0
  BY ActionsAreBytes, ActionIsSkipped
<1>2. PICK f : Joins(Byte, items, f)
  BY <1>1, JoinsExist
<1> DEFINE Good == {k \in Nat : k + 1 <= n => Len(f[k + 1]) > 0 /\ f[k + 1][1] = x}
<1>3. ASSUME NEW k \in 1 .. n PROVE f[k] = f[k - 1] \o items[k] /\ f[k] \in Seq(Byte) /\ f[k - 1] \in Seq(Byte)
  <2> DEFINE E(i) == f[i - 1] \o items[i]
  <2>1. \A i \in 1 .. n : f[i] = E(i)
    BY <1>2 DEF Joins
  <2>2. f[k] = E(k)
    <3> HIDE DEF E
    <3> QED BY <2>1
  <2>3. k \in Nat /\ k - 1 \in Nat
    BY <1>1
  <2> QED BY <1>2, <2>2, <2>3 DEF Joins
<1>4. 0 \in Good
  <2>1. 1 \in 1 .. n
    BY <1>1
  <2> DEFINE a == f[0]
             b == items[1]
  <2>2. f[1] = a \o b /\ a \in Seq(Byte) /\ b \in Seq(Byte) /\ Len(b) > 0
    <3> DEFINE S(k) == f[k] = f[k - 1] \o items[k] /\ f[k] \in Seq(Byte) /\ f[k - 1] \in Seq(Byte)
    <3>1. S(1)
      <4>1. \A k \in 1 .. n : S(k)
        BY <1>3
      <4> HIDE DEF S
      <4> QED BY <2>1, <4>1
    <3>2. f[1 - 1] = a
      OBVIOUS
    <3>3. f[1] = a \o b /\ a \in Seq(Byte)
      <4> HIDE DEF a, b
      <4> QED BY <3>1, <3>2 DEF b
    <3>4. b \in Seq(Byte) /\ Len(b) > 0
      BY <1>1, <2>1
    <3> QED BY <3>3, <3>4
  <2>3. a = <<>>
    BY <1>2 DEF Joins
  <2> HIDE DEF b
  <2>4. f[1] = b
    BY <2>2, <2>3
  <2> QED BY <2>2, <2>4 DEF b
<1>5. ASSUME NEW k \in Nat, k \in Good PROVE k + 1 \in Good
  <2> SUFFICES ASSUME k + 2 <= n PROVE Len(f[k + 2]) > 0 /\ f[k + 2][1] = x
    OBVIOUS
  <2>1. k + 2 \in 1 .. n /\ (k + 2) - 1 = k + 1 /\ k + 1 <= n
    BY <1>1
  <2> DEFINE a == f[k + 1]
             b == items[k + 2]
  <2>2. f[k + 2] = a \o b /\ a \in Seq(Byte) /\ b \in Seq(Byte)
    BY <1>1, <1>3, <2>1
  <2>3. Len(a) > 0 /\ a[1] = x
    BY <1>5, <2>1
  <2> HIDE DEF a, b, x
  <2>4. Len(a \o b) > 0 /\ (a \o b)[1] = a[1]
    BY <2>2, <2>3
  <2> QED BY <2>2, <2>3, <2>4
<1>6. \A k \in Nat : k \in Good
  <2> HIDE DEF Good
  <2> QED BY <1>4, <1>5, StepInduction
<1>7. Len(f[n]) > 0 /\ f[n][1] = x /\ f[n] \in Seq(Byte)
  <2>1. n - 1 \in Nat /\ (n - 1) + 1 = n /\ n \in 1 .. n
    BY <1>1
  <2>2. n - 1 \in Good
    BY <1>6, <2>1
  <2> QED BY <1>3, <2>1, <2>2
<1> DEFINE e == f[n]
<1>8. List(items) = u \o e /\ u \in Seq(Byte) /\ Len(u) = 4
  <2>1. FlattenSeq(items) = e
    BY <1>1, <1>2, FlattenJoins
  <2>2. u \in Seq(Byte) /\ Len(u) = 4
    BY <1>1, BytesOfNumber DEF MaxBytes
  <2> QED BY <2>1, <2>2 DEF List
<1> HIDE DEF u, e
<1>9. Reads(buf, o + Len(u), e) /\ o + Len(u) = o + 4
  <2>1. Reads(buf, o, u \o e) /\ e \in Seq(Byte)
    BY <1>7, <1>8 DEF e
  <2>2. Reads(buf, o + Len(u), e)
    BY <1>8, <2>1, ReadsBoth
  <2> QED BY <1>8, <2>2
<1>10. Reads(buf, o + 4, e) /\ Len(e) > 0 /\ e[1] = x /\ e \in Seq(Byte)
  BY <1>7, <1>9 DEF e
<1> HIDE DEF x
<1>11. buf[(o + 4) + 1] = e[1]
  <2>1. 1 \in 1 .. Len(e) /\ (o + 4) + 1 <= Len(buf)
    BY <1>10
  <2> QED BY <1>10, <2>1 DEF Reads
<1>12. (o + 4) + 1 = o + 5
  OBVIOUS
<1> QED BY <1>10, <1>11, <1>12 DEF x

(* What the decoder calls a message that it can read in full. *)
ActionOf(m) ==
    CASE ~m.tagged -> "Raw"
      [] m.tagged /\ m.actions = <<>> -> "Empty"
      [] OTHER -> NameOf(m.actions[1][1])

(* decodeSignActionType names the first action of a whole payload; of a cut    *)
(* one it names none, or the same.                                             *)
LEMMA NameDecodes ==
  ASSUME NEW m \in Payloads, NEW buf \in Seq(Byte), Reads(buf, 0, Encode(m)), Len(buf) <= Len(Encode(m))
  PROVE  /\ DecodeSignActionType(buf) \in {NoName, ActionOf(m)}
         /\ Len(buf) = Len(Encode(m)) => DecodeSignActionType(buf) = ActionOf(m)
<1> DEFINE o == Len(ToParties(m))
           items == m.actions
           n == Len(items)
           count == ReadU32LE(buf, o)
           x == items[1][1]
           name == ActionOf(m)
<1>1. /\ Len(Encode(m)) \in Nat /\ Len(Encode(m)) >= 16 /\ Len(buf) \in Nat /\ o \in Nat
      /\ o + 20 <= Len(Encode(m)) /\ 0 + o = o
  BY LengthsAre
<1>2. CASE Len(buf) < 16
  BY <1>1, <1>2 DEF DecodeSignActionType, MinLength
<1>3. CASE ~(Len(buf) < 16) /\ ~m.tagged
  <2>1. ~IsNep366(buf)
    BY <1>1, <1>3, OnlyTaggedIsNep366
  <2>2. DecodeSignActionType(buf) = "Raw"
    BY <1>3, <2>1 DEF DecodeSignActionType, MinLength
  <2>3. name = "Raw"
    BY <1>3 DEF ActionOf
  <2> QED BY <2>2, <2>3
<1>4. CASE ~(Len(buf) < 16) /\ m.tagged
  <2>1. IsNep366(buf)
    BY <1>1, <1>4, OnlyTaggedIsNep366
  <2> DEFINE p == SkipParties(buf, 4)
  <2>2. DecodeSignActionType(buf) = IF p = Off THEN NoName ELSE FirstAction(buf, p)
    BY <1>4, <2>1 DEF DecodeSignActionType, MinLength
  <2>3. p \in {Off, o} /\ (o <= Len(buf) => p = o)
    <3>1. GetsPast(buf, 0, ToParties(m), p)
      BY <1>4, PartiesAreSkipped DEF Start
    <3> QED BY <1>1, <3>1 DEF GetsPast
  <2>4. items \in Seq(EncodedActions) /\ n < MaxBytes /\ n \in Nat
    BY PayloadIs, ActionsAreBytes
  <2>5. Reads(buf, o, List(items))
    BY PartsAreRead
  <2>6. count = IF o + 4 <= Len(buf) THEN n ELSE Off
    BY <1>1, <2>4, <2>5, ActionsAreSkipped
  <2>7. n = 0 <=> items = <<>>
    <3> HIDE DEF items
    <3> QED BY <2>4, EmptySeq
  <2>8. name = IF n = 0 THEN "Empty" ELSE NameOf(x)
    BY <1>4, <2>7 DEF ActionOf
  <2>9. n > 0 /\ o + 5 <= Len(buf) => buf[o + 5] = x
    BY <1>1, <2>4, <2>5, FirstOfActions
  <2>10. FirstAction(buf, o) = CASE count = Off -> NoName
                                 [] count = 0 -> "Empty"
                                 [] count > 0 /\ o + 4 >= Len(buf) -> NoName
                                 [] OTHER -> NameOf(buf[o + 5])
    BY DEF FirstAction
  <2> HIDE DEF o, n, count, x, name, p, items
  <2>11. FirstAction(buf, o) \in {NoName, name} /\ (o + 5 <= Len(buf) => FirstAction(buf, o) = name)
    <3>1. CASE count = Off
      BY <1>1, <2>4, <2>6, <2>10, <3>1, OffIsNone
    <3>2. CASE count # Off /\ n = 0
      BY <1>1, <2>6, <2>8, <2>10, <3>2, OffIsNone
    <3>3. CASE count # Off /\ n # 0 /\ o + 4 >= Len(buf)
      BY <1>1, <2>4, <2>6, <2>10, <3>3, OffIsNone
    <3>4. CASE count # Off /\ n # 0 /\ ~(o + 4 >= Len(buf))
      <4>1. o + 5 <= Len(buf) /\ n > 0 /\ count = n
        BY <1>1, <2>4, <2>6, <3>4
      <4>2. FirstAction(buf, o) = NameOf(buf[o + 5])
        BY <2>10, <3>4, <4>1
      <4> QED BY <2>8, <2>9, <3>4, <4>1, <4>2
    <3> QED BY <3>1, <3>2, <3>3, <3>4
  <2>12. Len(buf) = Len(Encode(m)) => o <= Len(buf) /\ o + 5 <= Len(buf)
    BY <1>1
  <2>13. o # Off
    BY <1>1, OffIsNone
  <2>14. DecodeSignActionType(buf) \in {NoName, name}
    BY <2>2, <2>3, <2>11
  <2>15. Len(buf) = Len(Encode(m)) => DecodeSignActionType(buf) = name
    BY <2>2, <2>3, <2>11, <2>12, <2>13
  <2> QED BY <2>14, <2>15 DEF name
<1> QED BY <1>2, <1>3, <1>4

(* What is encoded is decoded. *)
LEMMA MessageDecodes ==
  ASSUME NEW m \in Payloads
  PROVE  DecodesWhatIsEncoded(m)
<1> DEFINE buf == Encode(m)
           name == ActionOf(m)
<1>1. buf \in Seq(Byte) /\ Len(buf) \in Nat
  BY LengthsAre
<1>2. /\ DecodeSignDelegatePublicKey(buf) = m.key
      /\ DecodeSignActionType(buf) = name
  <2>1. Reads(buf, 0, buf) /\ Len(buf) <= Len(buf)
    BY <1>1 DEF Reads
  <2> QED BY <1>1, <2>1, KeyDecodes, NameDecodes
<1>3. ASSUME NEW n \in 0 .. Len(buf) - 1
      PROVE  LET cut == SubSeq(buf, 1, n)
             IN  /\ DecodeSignDelegatePublicKey(cut) = NoKey
                 /\ DecodeSignActionType(cut) \in {NoName, name}
  <2> DEFINE cut == SubSeq(buf, 1, n)
  <2>1. n \in Nat /\ 1 \in Int /\ n \in Int /\ n < Len(buf)
    BY <1>1
  <2> HIDE DEF buf
  <2>2. \A i \in 1 .. n : buf[i] \in Byte
    BY <1>1, <2>1
  <2>3. /\ cut \in Seq(Byte) /\ Len(cut) = IF 1 <= n THEN n - 1 + 1 ELSE 0
        /\ \A i \in 1 .. n - 1 + 1 : cut[i] = buf[1 + i - 1]
    BY <2>1, <2>2, SubSeqProperties
  <2> HIDE DEF cut
  <2>4. Len(cut) = n
    BY <2>1, <2>3
  <2>5. Reads(cut, 0, buf)
    BY <1>1, <2>1, <2>3, <2>4 DEF Reads
  <2>6. Len(cut) <= Len(buf) /\ Len(cut) # Len(buf)
    BY <1>1, <2>1, <2>4
  <2>7. DecodeSignDelegatePublicKey(cut) = NoKey
    BY <2>3, <2>5, <2>6, KeyDecodes DEF buf
  <2>8. DecodeSignActionType(cut) \in {NoName, name}
    BY <2>3, <2>5, <2>6, NameDecodes DEF buf
  <2> QED BY <2>7, <2>8 DEF cut
<1> HIDE DEF buf
<1> QED BY <1>2, <1>3 DEF DecodesWhatIsEncoded, ActionOf, buf

(* For any payload of any names and actions, tagged or not: the key behind the *)
(* actions is found, the first action is named, and a payload that is cut      *)
(* short gives no key and no wrong name (decodeSignDelegatePublicKey,          *)
(* decodeSignActionType).                                                      *)
THEOREM PayloadsAlwaysDecode == Evaluates("payload", Payloads) => []PayloadsDecode
<1>1. focus = "payload" /\ input \in Payloads => PayloadsDecode
  BY MessageDecodes DEF PayloadsDecode
<1>2. PayloadsDecode /\ [FALSE]_<<focus, input>> => PayloadsDecode'
  BY DEF PayloadsDecode
<1> QED BY <1>1, <1>2, PTL DEF Evaluates
===============================================================================
