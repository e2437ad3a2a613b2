--------------------------- MODULE HeapFileProofs ---------------------------
(***************************************************************************)
(* What the file of the heap keeps, for every memory and every history.    *)
(***************************************************************************)
EXTENDS HeapFileInv, FiniteSetTheorems, SequenceTheorems, WellFoundedInduction, TLAPS

(***************************************************************************)
(* Numbers and sequences                                                   *)
(***************************************************************************)
LEMMA Least ==
  ASSUME NEW T, T \subseteq Nat, T # {}
  PROVE  \E x \in T : \A y \in T : x <= y
<1>1. \E x \in T : \A y \in T : ~(<<y, x>> \in OpToRel(<, Nat))
  BY NatLessThanWellFounded, WFMin
<1>2. \A x, y \in Nat : <<y, x>> \in OpToRel(<, Nat) <=> y < x
  BY DEF OpToRel
<1>3. PICK x \in T : \A y \in T : ~(<<y, x>> \in OpToRel(<, Nat))
  BY <1>1
<1>4. \A y \in T : ~(y < x) /\ y \in Nat /\ x \in Nat
  BY <1>2, <1>3
<1> QED BY <1>4

LEMMA Induction ==
  ASSUME NEW S, S \subseteq Nat, 0 \in S, \A n \in S : n + 1 \in S
  PROVE  S = Nat
<1> DEFINE T == Nat \ S
<1>1. SUFFICES ASSUME T # {} PROVE FALSE
  OBVIOUS
<1>2. PICK x \in T : \A y \in T : x <= y
  BY <1>1, Least
<1>3. x \in Nat /\ x # 0 /\ x - 1 \in Nat /\ x - 1 < x
  BY <1>2
<1>4. x - 1 \in S /\ (x - 1) + 1 = x
  BY <1>2, <1>3
<1> QED BY <1>2, <1>4

LEMMA FrontLastAppend ==
  ASSUME NEW S, NEW s \in Seq(S), NEW e \in S
  PROVE  Front(Append(s, e)) = s /\ Last(Append(s, e)) = e /\ Append(s, e) # <<>>
<1>1. Len(Append(s, e)) = Len(s) + 1 /\ Len(s) \in Nat
  OBVIOUS
<1>2. Front(Append(s, e)) = SubSeq(Append(s, e), 1, Len(s))
  BY <1>1 DEF Front
<1>3. Last(Append(s, e)) = e
  BY <1>1 DEF Last
<1>4. SubSeq(Append(s, e), 1, Len(s)) = s
  BY <1>1
<1> QED BY <1>1, <1>2, <1>3, <1>4

LEMMA FrontLast ==
  ASSUME NEW S, NEW s \in Seq(S), s # <<>>
  PROVE  Front(s) \in Seq(S) /\ Last(s) \in S /\ Append(Front(s), Last(s)) = s
<1>1. PICK t \in Seq(S), e \in S : s = Append(t, e)
  BY SequenceEmptyOrAppend
<1>2. Front(s) = t /\ Last(s) = e
  BY <1>1, FrontLastAppend
<1> QED BY <1>1, <1>2

(***************************************************************************)
(* Blocks and rows of blocks                                               *)
(***************************************************************************)
LEMMA BlockFacts ==
  ASSUME NEW b \in BlockType
  PROVE  /\ b.offset \in Nat /\ b.npages \in Nat \ {0} /\ b.pgstart \in Nat \ {0}
         /\ NextOffset(b) = b.offset + 2 + b.npages /\ NextOffset(b) \in Nat
         /\ \A p : p \in PagesOf(b) <=> p \in Int /\ b.pgstart <= p /\ p < b.pgstart + b.npages
         /\ \A p \in PagesOf(b) : /\ pgoffset(b, p) \in Nat
                                  /\ pgoffset(b, p) = b.offset + 2 + (p - b.pgstart)
                                  /\ b.offset + 2 <= pgoffset(b, p) /\ pgoffset(b, p) < NextOffset(b)
<1>1. b.offset \in Nat /\ b.npages \in 1 .. Top /\ b.pgstart \in 1 .. Top /\ Top \in Nat
  BY HeapFileAssumption DEF BlockType, Addresses
<1>2. b.offset \in Nat /\ b.npages \in Nat \ {0} /\ b.pgstart \in Nat \ {0}
  BY <1>1
<1>3. NextOffset(b) = b.offset + 2 + b.npages /\ NextOffset(b) \in Nat
  BY <1>2 DEF NextOffset, nvfsize, Header
<1>4. \A p : p \in PagesOf(b) <=> p \in Int /\ b.pgstart <= p /\ p < b.pgstart + b.npages
  BY <1>2 DEF PagesOf
<1>5. \A p \in PagesOf(b) : /\ pgoffset(b, p) \in Nat
                            /\ pgoffset(b, p) = b.offset + 2 + (p - b.pgstart)
                            /\ b.offset + 2 <= pgoffset(b, p) /\ pgoffset(b, p) < NextOffset(b)
  BY <1>2, <1>3, <1>4 DEF pgoffset, Header
<1> QED BY <1>2, <1>3, <1>4, <1>5

LEMMA RowFacts ==
  ASSUME NEW bs, Row(bs)
  PROVE  /\ bs \in Seq(BlockType) /\ Len(bs) \in Nat /\ DOMAIN bs = 1 .. Len(bs)
         /\ \A i \in 1 .. Len(bs) : bs[i] \in BlockType
<1>1. bs \in Seq(BlockType)
  BY DEF Row
<1> QED BY <1>1, LenProperties, ElementOfSeq

LEMMA RowOrder ==
  ASSUME NEW bs, Row(bs)
  PROVE  \A i, j \in DOMAIN bs : i < j => NextOffset(bs[i]) <= bs[j].offset
<1>1. bs \in Seq(BlockType) /\ Len(bs) \in Nat /\ DOMAIN bs = 1 .. Len(bs)
  BY RowFacts
<1>2. \A i \in 1 .. Len(bs) : /\ bs[i].offset \in Nat /\ NextOffset(bs[i]) \in Nat
                              /\ bs[i].offset <= NextOffset(bs[i])
  BY RowFacts, BlockFacts
<1>3. \A i \in 1 .. Len(bs) : i # 1 => bs[i].offset = NextOffset(bs[i - 1])
  BY <1>1 DEF Row
<1> SUFFICES ASSUME NEW i \in 1 .. Len(bs)
             PROVE  \A j \in 1 .. Len(bs) : i < j => NextOffset(bs[i]) <= bs[j].offset
  BY <1>1
<1> DEFINE S == {k \in Nat : i + 1 + k <= Len(bs) => NextOffset(bs[i]) <= bs[i + 1 + k].offset}
<1>4. 0 \in S
  <2>1. SUFFICES ASSUME i + 1 <= Len(bs) PROVE NextOffset(bs[i]) <= bs[i + 1].offset
    BY <1>1
  <2>2. i + 1 \in 1 .. Len(bs) /\ i + 1 # 1 /\ (i + 1) - 1 = i
    BY <1>1, <2>1
  <2>3. bs[i + 1].offset = NextOffset(bs[i])
    BY <1>3, <2>2
  <2> QED BY <1>2, <2>3
<1>5. ASSUME NEW k \in S PROVE k + 1 \in S
  <2>0. k \in Nat
    OBVIOUS
  <2>1. SUFFICES ASSUME i + 1 + (k + 1) <= Len(bs)
                 PROVE  NextOffset(bs[i]) <= bs[i + 1 + (k + 1)].offset
    BY <1>1
  <2>2. /\ i + 1 + (k + 1) \in 1 .. Len(bs) /\ i + 1 + (k + 1) # 1
        /\ (i + 1 + (k + 1)) - 1 = i + 1 + k /\ i + 1 + k \in 1 .. Len(bs)
    BY <1>1, <2>0, <2>1
  <2>3. bs[i + 1 + (k + 1)].offset = NextOffset(bs[i + 1 + k])
    BY <1>3, <2>2
  <2>4. NextOffset(bs[i]) <= bs[i + 1 + k].offset
    BY <2>2
  <2> QED BY <1>2, <2>2, <2>3, <2>4
<1> HIDE DEF S
<1>6. S = Nat
  <2>1. S \subseteq Nat
    BY DEF S
  <2> QED BY <1>4, <1>5, <2>1, Induction
<1>7. ASSUME NEW j \in 1 .. Len(bs), i < j PROVE NextOffset(bs[i]) <= bs[j].offset
  <2>1. PICK k \in Nat : i + 1 + k = j
    <3>1. j - i - 1 \in Nat /\ i + 1 + (j - i - 1) = j
      BY <1>1, <1>7
    <3> QED BY <3>1
  <2>2. i + 1 + k <= Len(bs) => NextOffset(bs[i]) <= bs[i + 1 + k].offset
    BY <1>6 DEF S
  <2> QED BY <1>1, <2>1, <2>2
<1> QED BY <1>7

LEMMA RowEnd ==
  ASSUME NEW bs, Row(bs)
  PROVE  /\ EndOf(bs) \in Nat
         /\ \A i \in DOMAIN bs : NextOffset(bs[i]) <= EndOf(bs)
<1>1. bs \in Seq(BlockType) /\ Len(bs) \in Nat /\ DOMAIN bs = 1 .. Len(bs)
  BY RowFacts
<1>2. \A i \in 1 .. Len(bs) : /\ bs[i].offset \in Nat /\ NextOffset(bs[i]) \in Nat
                              /\ bs[i].offset <= NextOffset(bs[i])
  BY RowFacts, BlockFacts
<1>3. CASE bs = <<>>
  BY <1>3 DEF EndOf
<1>4. CASE bs # <<>>
  <2>1. Len(bs) \in 1 .. Len(bs) /\ EndOf(bs) = NextOffset(bs[Len(bs)])
    BY <1>1, <1>4, EmptySeq DEF EndOf
  <2>2. ASSUME NEW i \in 1 .. Len(bs) PROVE NextOffset(bs[i]) <= EndOf(bs)
    <3>1. CASE i = Len(bs)
      BY <1>2, <2>1, <3>1
    <3>2. CASE i # Len(bs)
      <4>1. NextOffset(bs[i]) <= bs[Len(bs)].offset
        <5>1. i < Len(bs)
          <6>1. Len(bs) \in Nat
            BY <1>1
          <6> QED BY <3>2, <6>1
        <5>2. i \in DOMAIN bs /\ Len(bs) \in DOMAIN bs
          BY <1>1, <2>1
        <5> QED BY <5>1, <5>2, RowOrder
      <4> QED BY <1>2, <2>1, <4>1
    <3> QED BY <3>1, <3>2
  <2> QED BY <1>1, <1>2, <2>1, <2>2
<1> QED BY <1>3, <1>4

LEMMA RowAppend ==
  ASSUME NEW bs \in Seq(BlockType), NEW b \in BlockType
  PROVE  /\ Row(Append(bs, b)) <=> /\ Row(bs) /\ b.offset = EndOf(bs) /\ PagesOf(b) \subseteq Addresses
                                   /\ \A i \in DOMAIN bs : PagesOf(bs[i]) \cap PagesOf(b) = {}
         /\ EndOf(Append(bs, b)) = NextOffset(b)
<1> DEFINE cs == Append(bs, b)
           n == Len(bs)
<1>1. /\ cs \in Seq(BlockType) /\ cs # <<>> /\ Len(cs) = n + 1 /\ n \in Nat
      /\ \A i \in 1 .. n : cs[i] = bs[i]
      /\ cs[n + 1] = b
  BY AppendProperties, LenProperties
<1>2. DOMAIN cs = 1 .. (n + 1) /\ DOMAIN bs = 1 .. n
  BY <1>1, LenProperties
<1>3. EndOf(cs) = NextOffset(b)
  BY <1>1 DEF EndOf
<1>4. EndOf(bs) = IF n = 0 THEN 0 ELSE NextOffset(bs[n])
  BY EmptySeq DEF EndOf
<1> HIDE DEF cs, n
<1>5. ASSUME Row(cs)
      PROVE  /\ Row(bs) /\ b.offset = EndOf(bs) /\ PagesOf(b) \subseteq Addresses
             /\ \A i \in DOMAIN bs : PagesOf(bs[i]) \cap PagesOf(b) = {}
  <2>1. \A i \in 1 .. (n + 1) : cs[i].offset = IF i = 1 THEN 0 ELSE NextOffset(cs[i - 1])
    BY <1>2, <1>5 DEF Row
  <2>2. \A i \in 1 .. (n + 1) : PagesOf(cs[i]) \subseteq Addresses
    BY <1>2, <1>5 DEF Row
  <2>3. \A i, j \in 1 .. (n + 1) : i # j => PagesOf(cs[i]) \cap PagesOf(cs[j]) = {}
    BY <1>2, <1>5 DEF Row
  <2>4. n + 1 \in 1 .. (n + 1) /\ \A i \in 1 .. n : i \in 1 .. (n + 1) /\ i # n + 1
    BY <1>1
  <2>5. \A i \in 1 .. n : i # 1 => i - 1 \in 1 .. n
    BY <1>1
  <2>6. Row(bs)
    <3>1. \A i \in 1 .. n : bs[i].offset = IF i = 1 THEN 0 ELSE NextOffset(bs[i - 1])
      BY <1>1, <2>1, <2>4, <2>5
    <3>2. \A i \in 1 .. n : PagesOf(bs[i]) \subseteq Addresses
      BY <1>1, <2>2, <2>4
    <3>3. \A i, j \in 1 .. n : i # j => PagesOf(bs[i]) \cap PagesOf(bs[j]) = {}
      BY <1>1, <2>3, <2>4
    <3> QED BY <1>2, <3>1, <3>2, <3>3 DEF Row
  <2>7. b.offset = EndOf(bs)
    <3>1. CASE n = 0
      BY <1>1, <1>4, <2>1, <2>4, <3>1
    <3>2. CASE n # 0
      <4>1. n + 1 # 1 /\ (n + 1) - 1 = n /\ n \in 1 .. n
        BY <1>1, <3>2
      <4>2. cs[n + 1].offset = NextOffset(cs[n])
        BY <2>1, <2>4, <4>1
      <4> QED BY <1>1, <1>4, <3>2, <4>1, <4>2
    <3> QED BY <3>1, <3>2
  <2>8. PagesOf(b) \subseteq Addresses /\ \A i \in DOMAIN bs : PagesOf(bs[i]) \cap PagesOf(b) = {}
    BY <1>1, <1>2, <2>2, <2>3, <2>4
  <2> QED BY <2>6, <2>7, <2>8
<1>6. ASSUME Row(bs), b.offset = EndOf(bs), PagesOf(b) \subseteq Addresses,
             \A i \in DOMAIN bs : PagesOf(bs[i]) \cap PagesOf(b) = {}
      PROVE  Row(cs)
  <2>1. \A i \in 1 .. n : bs[i].offset = IF i = 1 THEN 0 ELSE NextOffset(bs[i - 1])
    BY <1>2, <1>6 DEF Row
  <2>2. \A i \in 1 .. n : PagesOf(bs[i]) \subseteq Addresses
    BY <1>2, <1>6 DEF Row
  <2>3. \A i, j \in 1 .. n : i # j => PagesOf(bs[i]) \cap PagesOf(bs[j]) = {}
    BY <1>2, <1>6 DEF Row
  <2>4. ASSUME NEW i \in 1 .. (n + 1) PROVE cs[i].offset = IF i = 1 THEN 0 ELSE NextOffset(cs[i - 1])
    <3>1. CASE i = n + 1
      <4>1. CASE n = 0
        BY <1>1, <1>4, <1>6, <3>1, <4>1
      <4>2. CASE n # 0
        <5>1. n \in 1 .. n /\ i # 1 /\ i - 1 = n
          BY <1>1, <3>1, <4>2
        <5> QED BY <1>1, <1>4, <1>6, <3>1, <4>2, <5>1
      <4> QED BY <4>1, <4>2
    <3>2. CASE i # n + 1
      <4>1. i \in 1 .. n /\ (i # 1 => i - 1 \in 1 .. n)
        BY <1>1, <3>2
      <4> QED BY <1>1, <2>1, <4>1
    <3> QED BY <3>1, <3>2
  <2>5. ASSUME NEW i \in 1 .. (n + 1) PROVE PagesOf(cs[i]) \subseteq Addresses
    <3>1. i = n + 1 \/ i \in 1 .. n
      BY <1>1
    <3> QED BY <1>1, <1>6, <2>2, <3>1
  <2>6. ASSUME NEW i \in 1 .. (n + 1), NEW j \in 1 .. (n + 1), i # j
        PROVE  PagesOf(cs[i]) \cap PagesOf(cs[j]) = {}
    <3>1. (i = n + 1 \/ i \in 1 .. n) /\ (j = n + 1 \/ j \in 1 .. n)
      BY <1>1
    <3>2. \A k \in 1 .. n : PagesOf(cs[k]) \cap PagesOf(b) = {}
      BY <1>1, <1>2, <1>6
    <3>3. CASE i = n + 1
      BY <1>1, <2>6, <3>1, <3>2, <3>3
    <3>4. CASE j = n + 1
      BY <1>1, <2>6, <3>1, <3>2, <3>4
    <3>5. CASE i # n + 1 /\ j # n + 1
      BY <1>1, <2>3, <2>6, <3>1, <3>5
    <3> QED BY <3>3, <3>4, <3>5
  <2> QED BY <1>1, <1>2, <2>4, <2>5, <2>6 DEF Row
<1> QED BY <1>3, <1>5, <1>6 DEF cs

LEMMA RowPrefix ==
  ASSUME NEW bs, Row(bs), NEW k \in 0 .. Len(bs)
  PROVE  /\ Row(SubSeq(bs, 1, k)) /\ Len(SubSeq(bs, 1, k)) = k
         /\ \A i \in 1 .. k : SubSeq(bs, 1, k)[i] = bs[i]
         /\ k < Len(bs) => /\ Append(SubSeq(bs, 1, k), bs[k + 1]) = SubSeq(bs, 1, k + 1)
                           /\ EndOf(SubSeq(bs, 1, k)) = bs[k + 1].offset
<1>1. /\ bs \in Seq(BlockType) /\ Len(bs) \in Nat /\ DOMAIN bs = 1 .. Len(bs)
      /\ \A i \in 1 .. Len(bs) : bs[i] \in BlockType
  BY RowFacts
<1> DEFINE n == Len(bs)
<1>2. n \in Nat /\ k \in Nat /\ k <= n /\ \A i \in 1 .. n : bs[i] \in BlockType
  BY <1>1
<1>3. /\ \A i \in 1 .. n : bs[i].offset = IF i = 1 THEN 0 ELSE NextOffset(bs[i - 1])
      /\ \A i \in 1 .. n : PagesOf(bs[i]) \subseteq Addresses
      /\ \A i, j \in 1 .. n : i # j => PagesOf(bs[i]) \cap PagesOf(bs[j]) = {}
  BY <1>1 DEF Row
<1> HIDE DEF n
<1>4. ASSUME NEW m \in Nat, m <= n
      PROVE  /\ SubSeq(bs, 1, m) \in Seq(BlockType) /\ Len(SubSeq(bs, 1, m)) = m
             /\ \A i \in 1 .. m : SubSeq(bs, 1, m)[i] = bs[i]
  <2>1. \A i \in 1 .. m : i \in 1 .. n
    BY <1>2, <1>4
  <2>2. 1 \in Int /\ m \in Int /\ \A i \in 1 .. m : bs[i] \in BlockType
    BY <1>2, <2>1
  <2>3. /\ SubSeq(bs, 1, m) \in Seq(BlockType)
        /\ Len(SubSeq(bs, 1, m)) = IF 1 <= m THEN m - 1 + 1 ELSE 0
        /\ \A i \in 1 .. m - 1 + 1 : SubSeq(bs, 1, m)[i] = bs[1 + i - 1]
    BY <2>2, SubSeqProperties
  <2>4. (IF 1 <= m THEN m - 1 + 1 ELSE 0) = m /\ m - 1 + 1 = m
    BY <1>4
  <2>5. \A i \in 1 .. m : 1 + i - 1 = i
    OBVIOUS
  <2> QED BY <2>3, <2>4, <2>5
<1> DEFINE cs == SubSeq(bs, 1, k)
<1>5. cs \in Seq(BlockType) /\ Len(cs) = k /\ (\A i \in 1 .. k : cs[i] = bs[i]) /\ DOMAIN cs = 1 .. k
  <2>1. cs \in Seq(BlockType) /\ Len(cs) = k /\ (\A i \in 1 .. k : cs[i] = bs[i])
    BY <1>2, <1>4
  <2> HIDE DEF cs
  <2> QED BY <2>1, LenProperties
<1>6. Row(cs)
  <2> HIDE DEF cs
  <2>1. \A i \in 1 .. k : i \in 1 .. n /\ (i # 1 => i - 1 \in 1 .. k)
    BY <1>2
  <2>2. \A i \in 1 .. k : cs[i].offset = IF i = 1 THEN 0 ELSE NextOffset(cs[i - 1])
    BY <1>3, <1>5, <2>1
  <2>3. \A i \in 1 .. k : PagesOf(cs[i]) \subseteq Addresses
    BY <1>3, <1>5, <2>1
  <2>4. \A i, j \in 1 .. k : i # j => PagesOf(cs[i]) \cap PagesOf(cs[j]) = {}
    BY <1>3, <1>5, <2>1
  <2> QED BY <1>5, <2>2, <2>3, <2>4 DEF Row
<1>7. ASSUME k < n
      PROVE  Append(cs, bs[k + 1]) = SubSeq(bs, 1, k + 1) /\ EndOf(cs) = bs[k + 1].offset
  <2>1. k + 1 \in Nat /\ k + 1 <= n /\ k + 1 \in 1 .. n
    BY <1>2, <1>7
  <2> DEFINE ds == SubSeq(bs, 1, k + 1)
             es == Append(cs, bs[k + 1])
  <2>2. ds \in Seq(BlockType) /\ Len(ds) = k + 1 /\ \A i \in 1 .. (k + 1) : ds[i] = bs[i]
    BY <1>4, <2>1
  <2>3. bs[k + 1] \in BlockType
    BY <1>2, <2>1
  <2>4. /\ es \in Seq(BlockType) /\ Len(es) = k + 1
        /\ \A i \in 1 .. k : es[i] = cs[i]
        /\ es[k + 1] = bs[k + 1]
    <3> HIDE DEF cs
    <3> QED BY <1>5, <2>3, AppendProperties
  <2>5. ds = es
    <3> HIDE DEF ds, es, cs
    <3>1. \A i \in 1 .. (k + 1) : i \in 1 .. k \/ i = k + 1
      BY <1>2
    <3>2. \A i \in 1 .. (k + 1) : ds[i] = es[i]
      BY <1>5, <2>2, <2>4, <3>1
    <3> QED BY <2>2, <2>4, <3>2, SeqEqual
  <2>6. EndOf(cs) = bs[k + 1].offset
    <3> HIDE DEF cs
    <3>1. CASE k = 0
      <4>1. cs = <<>>
        BY <1>5, <3>1, EmptySeq
      <4> QED BY <1>3, <2>1, <3>1, <4>1 DEF EndOf
    <3>2. CASE k # 0
      <4>1. cs # <<>> /\ k \in 1 .. k /\ k + 1 # 1 /\ (k + 1) - 1 = k
        BY <1>2, <1>5, <3>2
      <4>2. EndOf(cs) = NextOffset(bs[k])
        BY <1>5, <4>1 DEF EndOf
      <4>3. bs[k + 1].offset = NextOffset(bs[k])
        BY <1>3, <2>1, <4>1
      <4> QED BY <4>2, <4>3
    <3> QED BY <3>1, <3>2
  <2> QED BY <2>5, <2>6
<1> QED BY <1>5, <1>6, <1>7 DEF n

(***************************************************************************)
(* Writing one cell                                                        *)
(***************************************************************************)
LEMMA PutCell ==
  ASSUME NEW f \in Seq(Nat), NEW o \in Nat, NEW c \in Nat, o <= Len(f)
  PROVE  /\ Put(f, o, c) \in Seq(Nat)
         /\ Len(Put(f, o, c)) = IF o < Len(f) THEN Len(f) ELSE o + 1
         /\ Len(f) <= Len(Put(f, o, c)) /\ o < Len(Put(f, o, c))
         /\ Put(f, o, c)[o + 1] = c
         /\ \A i \in 1 .. Len(f) : i # o + 1 => Put(f, o, c)[i] = f[i]
         /\ \A i \in 1 .. Len(Put(f, o, c)) : i \in 1 .. Len(f) \/ i = o + 1
<1> DEFINE n == IF o < Len(f) THEN Len(f) ELSE o + 1
           g == [i \in 1 .. n |-> IF i = o + 1 THEN c ELSE IF i <= Len(f) THEN f[i] ELSE 0]
<1>1. Len(f) \in Nat /\ \A i \in 1 .. Len(f) : f[i] \in Nat
  BY LenProperties, ElementOfSeq
<1>2. n \in Nat /\ Len(f) <= n /\ o < n
  BY <1>1
<1>3. Put(f, o, c) = g
  BY DEF Put
<1>4. \A i \in 1 .. n : i \in 1 .. Len(f) \/ i = o + 1
  BY <1>1
<1>5. g \in [1 .. n -> Nat]
  BY <1>1
<1>6. g \in Seq(Nat) /\ Len(g) = n
  <2> HIDE DEF n, g
  <2>1. g \in Seq(Nat)
    BY <1>2, <1>5, SeqDef
  <2> QED BY <1>2, <1>5, <2>1, LenProperties
<1>7. g[o + 1] = c /\ \A i \in 1 .. Len(f) : i # o + 1 => g[i] = f[i]
  BY <1>1, <1>2
<1> HIDE DEF g
<1> QED BY <1>1, <1>2, <1>3, <1>4, <1>6, <1>7

(***************************************************************************)
(* What a start reads                                                      *)
(***************************************************************************)
Reads(f, r, D) ==
  r = [o \in D |-> IF Complete(f, o) THEN <<BlockAt(f, o)>> \o r[o + nvfsize(BlockAt(f, o))]
                                     ELSE <<>>]

LEMMA ReadableIs ==
  ASSUME NEW f
  PROVE  Readable(f) = (CHOOSE r : Reads(f, r, 0 .. Len(f)))[0]
BY DEF Readable, Reads

LEMMA CompleteStep ==
  ASSUME NEW f \in Seq(Nat), NEW o \in Nat, Complete(f, o)
  PROVE  /\ o + nvfsize(BlockAt(f, o)) \in Nat
         /\ o < o + nvfsize(BlockAt(f, o)) /\ o + nvfsize(BlockAt(f, o)) <= Len(f)
<1>1. Len(f) \in Nat /\ \A i \in 1 .. Len(f) : f[i] \in Nat
  BY LenProperties, ElementOfSeq
<1>2. o + 2 <= Len(f) /\ o + 2 + f[o + 2] <= Len(f)
  BY DEF Complete, Header
<1>3. o + 2 \in 1 .. Len(f)
  BY <1>1, <1>2
<1>4. f[o + 2] \in Nat
  BY <1>1, <1>3
<1>5. nvfsize(BlockAt(f, o)) = 2 + f[o + 2]
  BY DEF nvfsize, BlockAt, Header
<1> QED BY <1>1, <1>2, <1>4, <1>5

LEMMA ReadsExist ==
  ASSUME NEW f \in Seq(Nat)
  PROVE  \E r : Reads(f, r, 0 .. Len(f))
<1> DEFINE n == Len(f)
           D(k) == {o \in 0 .. n : n <= o + k}
           S == {k \in Nat : \E r : Reads(f, r, D(k))}
<1>0. n \in Nat
  BY LenProperties
<1>1. 0 \in S
  <2>1. \A o \in D(0) : ~Complete(f, o)
    BY <1>0 DEF Complete, Header
  <2> DEFINE r == [o \in D(0) |-> <<>>]
  <2>2. Reads(f, r, D(0))
    BY <2>1 DEF Reads
  <2> QED BY <2>2
<1>2. ASSUME NEW k \in S PROVE k + 1 \in S
  <2>1. PICK r : Reads(f, r, D(k))
    OBVIOUS
  <2>2. k \in Nat /\ \A o \in D(k) : o \in D(k + 1)
    BY <1>0
  <2> DEFINE e(q, o) == IF Complete(f, o) THEN <<BlockAt(f, o)>> \o q[o + nvfsize(BlockAt(f, o))]
                                          ELSE <<>>
             s == [o \in D(k + 1) |-> e(r, o)]
  <2>3. r = [o \in D(k) |-> e(r, o)]
    BY <2>1 DEF Reads
  <2>4. \A o \in D(k) : s[o] = r[o]
    <3> HIDE DEF e, D
    <3> QED BY <2>2, <2>3
  <2>5. ASSUME NEW o \in D(k + 1) PROVE e(s, o) = e(r, o)
    <3>1. CASE ~Complete(f, o)
      BY <3>1
    <3>2. CASE Complete(f, o)
      <4>1. o \in Nat /\ n <= o + (k + 1)
        BY <1>0, <2>2
      <4>2. PICK x : x = o + nvfsize(BlockAt(f, o))
        OBVIOUS
      <4>3. x \in Nat /\ o < x /\ x <= n
        BY <3>2, <4>1, <4>2, CompleteStep
      <4>4. x \in D(k)
        BY <1>0, <2>2, <4>1, <4>3
      <4>5. s[x] = r[x]
        BY <2>4, <4>4
      <4>6. s[o + nvfsize(BlockAt(f, o))] = r[o + nvfsize(BlockAt(f, o))]
        <5> HIDE DEF s
        <5> QED BY <4>2, <4>5
      <4> HIDE DEF s
      <4> QED BY <3>2, <4>6
    <3> QED BY <3>1, <3>2
  <2>6. s = [o \in D(k + 1) |-> e(s, o)]
    <3> HIDE DEF e, D
    <3> QED BY <2>5
  <2>7. Reads(f, s, D(k + 1))
    <3> HIDE DEF s
    <3> QED BY <2>6 DEF Reads
  <2>8. k + 1 \in Nat /\ \E q : Reads(f, q, D(k + 1))
    <3> HIDE DEF s, D, e
    <3> QED BY <2>2, <2>7
  <2> HIDE DEF D
  <2> QED BY <2>8
<1> HIDE DEF S
<1>3. S = Nat
  <2>1. S \subseteq Nat
    BY DEF S
  <2> QED BY <1>1, <1>2, <2>1, Induction
<1>4. n \in S
  BY <1>0, <1>3
<1>5. D(n) = 0 .. n
  BY <1>0
<1>6. \E r : Reads(f, r, D(n))
  BY <1>4 DEF S
<1> QED BY <1>5, <1>6

LEMMA WholeComplete ==
  ASSUME NEW f, NEW b \in BlockType, Whole(f, b), Len(f) \in Nat
  PROVE  /\ Complete(f, b.offset) /\ BlockAt(f, b.offset) = b
         /\ b.offset + nvfsize(b) = NextOffset(b)
<1>1. f[b.offset + 1] = b.pgstart /\ f[b.offset + 2] = b.npages /\ NextOffset(b) <= Len(f)
  BY DEF Whole, Headed
<1>2. /\ b.offset \in Nat /\ b.npages \in Nat \ {0} /\ b.pgstart \in Nat \ {0}
      /\ NextOffset(b) = b.offset + 2 + b.npages
  BY BlockFacts
<1>3. Complete(f, b.offset)
  BY <1>1, <1>2 DEF Complete, Header
<1>4. BlockAt(f, b.offset) = b
  BY <1>1 DEF BlockAt, BlockType
<1> QED BY <1>3, <1>4 DEF NextOffset

LEMMA HasEnd ==
  ASSUME NEW f, NEW bs, Has(f, bs)
  PROVE  /\ ~Complete(f, EndOf(bs)) /\ f \in Seq(Nat) /\ Row(bs)
         /\ EndOf(bs) \in Nat /\ EndOf(bs) <= Len(f) /\ Len(f) \in Nat
         /\ \A i \in DOMAIN bs : Whole(f, bs[i])
<1>1. f \in Seq(Nat) /\ Row(bs) /\ EndOf(bs) <= Len(f) /\ \A i \in DOMAIN bs : Whole(f, bs[i])
  BY DEF Has
<1>2. EndOf(bs) + Header <= Len(f) =>
        f[EndOf(bs) + 2] = 0 \/ Len(f) < EndOf(bs) + Header + f[EndOf(bs) + 2]
  BY DEF Has
<1>3. EndOf(bs) \in Nat /\ Len(f) \in Nat
  BY <1>1, RowEnd, LenProperties
<1>4. ~Complete(f, EndOf(bs))
  <2>1. SUFFICES ASSUME Complete(f, EndOf(bs)) PROVE FALSE
    OBVIOUS
  <2>2. /\ EndOf(bs) + Header <= Len(f) /\ f[EndOf(bs) + 2] # 0
        /\ EndOf(bs) + Header + f[EndOf(bs) + 2] <= Len(f)
    BY <2>1 DEF Complete
  <2>3. f[EndOf(bs) + 2] \in Nat
    <3>1. EndOf(bs) + 2 \in 1 .. Len(f)
      BY <1>3, <2>2 DEF Header
    <3> QED BY <1>1, <3>1, ElementOfSeq
  <2> QED BY <1>2, <1>3, <2>2, <2>3 DEF Header
<1> QED BY <1>1, <1>3, <1>4

LEMMA ReadableHas ==
  ASSUME NEW f, NEW bs, Has(f, bs)
  PROVE  Readable(f) = bs
<1> DEFINE n == Len(bs)
           L == Len(f)
<1>1. /\ f \in Seq(Nat) /\ L \in Nat /\ Row(bs) /\ EndOf(bs) \in Nat /\ EndOf(bs) <= L
      /\ ~Complete(f, EndOf(bs)) /\ \A i \in DOMAIN bs : Whole(f, bs[i])
  BY HasEnd
<1>2. /\ bs \in Seq(BlockType) /\ n \in Nat /\ DOMAIN bs = 1 .. n
      /\ \A i \in 1 .. n : bs[i] \in BlockType
  BY <1>1, RowFacts
<1>3. PICK r : Reads(f, r, 0 .. L) /\ Readable(f) = r[0]
  <2>1. Reads(f, CHOOSE q : Reads(f, q, 0 .. L), 0 .. L)
    BY <1>1, ReadsExist
  <2> QED BY <2>1, ReadableIs
<1>4. \A o \in 0 .. L : r[o] = IF Complete(f, o) THEN <<BlockAt(f, o)>> \o r[o + nvfsize(BlockAt(f, o))]
                                                 ELSE <<>>
  BY <1>3 DEF Reads
<1>5. \A i \in 1 .. n : /\ Complete(f, bs[i].offset) /\ BlockAt(f, bs[i].offset) = bs[i]
                        /\ bs[i].offset + nvfsize(bs[i]) = NextOffset(bs[i])
                        /\ bs[i].offset \in Nat /\ bs[i].offset < NextOffset(bs[i])
                        /\ NextOffset(bs[i]) \in Nat /\ NextOffset(bs[i]) <= EndOf(bs)
  <2> SUFFICES ASSUME NEW i \in 1 .. n
               PROVE  /\ Complete(f, bs[i].offset) /\ BlockAt(f, bs[i].offset) = bs[i]
                      /\ bs[i].offset + nvfsize(bs[i]) = NextOffset(bs[i])
                      /\ bs[i].offset \in Nat /\ bs[i].offset < NextOffset(bs[i])
                      /\ NextOffset(bs[i]) \in Nat /\ NextOffset(bs[i]) <= EndOf(bs)
    OBVIOUS
  <2>1. bs[i] \in BlockType /\ Whole(f, bs[i]) /\ i \in DOMAIN bs
    BY <1>1, <1>2
  <2>2. /\ Complete(f, bs[i].offset) /\ BlockAt(f, bs[i].offset) = bs[i]
        /\ bs[i].offset + nvfsize(bs[i]) = NextOffset(bs[i])
    BY <1>1, <2>1, WholeComplete
  <2>3. bs[i].offset \in Nat /\ bs[i].offset < NextOffset(bs[i]) /\ NextOffset(bs[i]) \in Nat
    BY <2>1, BlockFacts
  <2>4. NextOffset(bs[i]) <= EndOf(bs)
    BY <1>1, <2>1, RowEnd
  <2> QED BY <2>2, <2>3, <2>4
<1>6. \A i \in 1 .. n : bs[i].offset = IF i = 1 THEN 0 ELSE NextOffset(bs[i - 1])
  BY <1>1, <1>2 DEF Row
<1>7. EndOf(bs) = IF n = 0 THEN 0 ELSE NextOffset(bs[n])
  BY <1>2, EmptySeq DEF EndOf
<1> HIDE DEF n, L
<1> DEFINE O(i) == IF i = n + 1 THEN EndOf(bs) ELSE bs[i].offset
           S == {j \in Nat : j <= n => r[O(n + 1 - j)] = SubSeq(bs, n + 1 - j, n)}
<1>8. 0 \in S
  <2>1. n + 1 - 0 = n + 1 /\ n + 1 \in Int /\ n \in Int /\ n < n + 1
    BY <1>2
  <2>2. SubSeq(bs, n + 1, n) = <<>>
    BY <2>1, SubSeqEmpty
  <2>3. EndOf(bs) \in 0 .. L
    BY <1>1
  <2>4. r[EndOf(bs)] = <<>>
    BY <1>1, <1>4, <2>3
  <2>5. r[O(n + 1)] = SubSeq(bs, n + 1, n)
    BY <2>2, <2>4
  <2> HIDE DEF O
  <2> QED BY <2>1, <2>5
<1>9. ASSUME NEW j \in S PROVE j + 1 \in S
  <2>0. j \in Nat /\ (j <= n => r[O(n + 1 - j)] = SubSeq(bs, n + 1 - j, n))
    OBVIOUS
  <2>1. SUFFICES ASSUME j + 1 <= n
                 PROVE  r[O(n + 1 - (j + 1))] = SubSeq(bs, n + 1 - (j + 1), n)
    BY <2>0
  <2>2. PICK i : i = n - j
    OBVIOUS
  <2>3. /\ i \in 1 .. n /\ n + 1 - (j + 1) = i /\ n + 1 - j = i + 1 /\ j <= n /\ i # n + 1
        /\ i + 1 # 1 /\ (i + 1) - 1 = i
    BY <1>2, <2>0, <2>1, <2>2
  <2>4. r[O(i + 1)] = SubSeq(bs, i + 1, n)
    <3> HIDE DEF O
    <3> QED BY <2>0, <2>3
  <2>5. O(i + 1) = NextOffset(bs[i])
    <3>1. CASE i = n
      BY <1>2, <1>7, <2>3, <3>1
    <3>2. CASE i # n
      <4>1. i + 1 \in 1 .. n /\ i + 1 # n + 1
        BY <1>2, <2>3, <3>2
      <4> QED BY <1>6, <2>3, <4>1
    <3> QED BY <3>1, <3>2
  <2>6. O(i) = bs[i].offset
    BY <2>3
  <2>7. bs[i].offset \in 0 .. L
    BY <1>1, <1>5, <2>3
  <2>8. r[bs[i].offset] = <<bs[i]>> \o r[NextOffset(bs[i])]
    BY <1>4, <1>5, <2>3, <2>7
  <2>9. <<bs[i]>> \o SubSeq(bs, i + 1, n) = SubSeq(bs, i, n)
    <3>1. i \in 1 .. Len(bs) /\ n \in i .. Len(bs)
      BY <1>2, <2>3 DEF n
    <3> QED BY <1>2, <3>1, SubSeqRecursiveFirst
  <2>10. r[O(i)] = SubSeq(bs, i, n)
    <3> HIDE DEF O
    <3> QED BY <2>4, <2>5, <2>6, <2>8, <2>9
  <2> HIDE DEF O
  <2> QED BY <2>3, <2>10
<1> HIDE DEF S, O
<1>10. S = Nat
  <2>1. S \subseteq Nat
    BY DEF S
  <2> QED BY <1>8, <1>9, <2>1, Induction
<1>11. r[O(n + 1 - n)] = SubSeq(bs, n + 1 - n, n)
  <2>1. n \in Nat /\ n <= n
    BY <1>2
  <2>2. \A j \in Nat : j <= n => r[O(n + 1 - j)] = SubSeq(bs, n + 1 - j, n)
    BY <1>10 DEF S
  <2> QED BY <2>1, <2>2
<1>12. n + 1 - n = 1
  BY <1>2
<1>13. O(1) = 0
  <2>1. CASE n = 0
    BY <1>7, <2>1 DEF O
  <2>2. CASE n # 0
    <3>1. 1 \in 1 .. n /\ 1 # n + 1
      BY <1>2, <2>2
    <3> QED BY <1>6, <3>1 DEF O
  <2> QED BY <2>1, <2>2
<1>14. SubSeq(bs, 1, n) = bs
  BY <1>2, SubSeqFull DEF n
<1> QED BY <1>3, <1>11, <1>12, <1>13, <1>14

(***************************************************************************)
(* What is saved in a file                                                 *)
(***************************************************************************)
LEMMA PagesIs ==
  ASSUME NEW bs, Row(bs)
  PROVE  /\ \A p : p \in Pages(bs) <=> \E i \in DOMAIN bs : p \in PagesOf(bs[i])
         /\ Pages(bs) \subseteq Addresses
<1>1. \A i \in DOMAIN bs : PagesOf(bs[i]) \subseteq Addresses
  BY DEF Row
<1> QED BY <1>1 DEF Pages

LEMMA SavedIs ==
  ASSUME NEW f, NEW bs, Has(f, bs)
  PROVE  /\ DOMAIN Saved(f) = Pages(bs)
         /\ Saved(f) = [p \in Pages(bs) |-> Saved(f)[p]]
         /\ \A i \in DOMAIN bs : \A p \in PagesOf(bs[i]) : Saved(f)[p] = f[pgoffset(bs[i], p) + 1]
<1>1. Readable(f) = bs /\ Row(bs)
  BY ReadableHas, HasEnd
<1> DEFINE home(p) == CHOOSE i \in DOMAIN bs : p \in PagesOf(bs[i])
           s == [p \in Pages(bs) |-> f[pgoffset(bs[home(p)], p) + 1]]
<1>2. Saved(f) = s
  BY <1>1 DEF Saved
<1>3. ASSUME NEW i \in DOMAIN bs, NEW p \in PagesOf(bs[i])
      PROVE  p \in Pages(bs) /\ home(p) = i
  <2>1. home(p) \in DOMAIN bs /\ p \in PagesOf(bs[home(p)])
    BY <1>3
  <2> HIDE DEF home
  <2>2. \A k, j \in DOMAIN bs : k # j => PagesOf(bs[k]) \cap PagesOf(bs[j]) = {}
    BY <1>1 DEF Row
  <2>3. home(p) = i
    BY <2>1, <2>2
  <2>4. p \in Pages(bs)
    BY <1>1, PagesIs
  <2> QED BY <2>3, <2>4
<1>4. \A i \in DOMAIN bs : \A p \in PagesOf(bs[i]) : s[p] = f[pgoffset(bs[i], p) + 1]
  <2> HIDE DEF home
  <2> QED BY <1>3
<1>5. DOMAIN s = Pages(bs) /\ s = [p \in Pages(bs) |-> s[p]]
  <2> HIDE DEF home
  <2> QED OBVIOUS
<1> HIDE DEF s
<1> QED BY <1>2, <1>4, <1>5

LEMMA SavedExtends ==
  ASSUME NEW f, NEW bs, Has(f, bs), NEW g, NEW cs, Has(g, cs),
         Len(bs) <= Len(cs), \A i \in DOMAIN bs : cs[i] = bs[i],
         \A i \in DOMAIN bs : \A p \in PagesOf(bs[i]) :
            g[pgoffset(bs[i], p) + 1] = f[pgoffset(bs[i], p) + 1],
         \A i \in DOMAIN cs : i \notin DOMAIN bs =>
            \A p \in PagesOf(cs[i]) : g[pgoffset(cs[i], p) + 1] = 0
  PROVE  H!Extends(Saved(g), Saved(f))
<1> DEFINE s == Saved(f)
           t == Saved(g)
<1>1. Row(bs) /\ Row(cs)
  BY HasEnd
<1>2. DOMAIN s = Pages(bs) /\ \A i \in DOMAIN bs : \A p \in PagesOf(bs[i]) : s[p] = f[pgoffset(bs[i], p) + 1]
  BY SavedIs
<1>3. /\ DOMAIN t = Pages(cs) /\ t = [p \in Pages(cs) |-> t[p]]
      /\ \A i \in DOMAIN cs : \A p \in PagesOf(cs[i]) : t[p] = g[pgoffset(cs[i], p) + 1]
  BY SavedIs
<1>4. \A i \in DOMAIN bs : i \in DOMAIN cs
  <2>1. Len(bs) \in Nat /\ Len(cs) \in Nat /\ DOMAIN bs = 1 .. Len(bs) /\ DOMAIN cs = 1 .. Len(cs)
    BY <1>1, RowFacts
  <2> QED BY <2>1
<1> HIDE DEF s, t
<1>5. \A p : p \in Pages(bs) <=> \E i \in DOMAIN bs : p \in PagesOf(bs[i])
  BY <1>1, PagesIs
<1>6. (\A p : p \in Pages(cs) <=> \E i \in DOMAIN cs : p \in PagesOf(cs[i])) /\ Pages(cs) \subseteq Addresses
  BY <1>1, PagesIs
<1>7. Pages(bs) \subseteq Pages(cs)
  BY <1>4, <1>5, <1>6
<1>8. ASSUME NEW p \in Pages(cs) PROVE t[p] = IF p \in Pages(bs) THEN s[p] ELSE 0
  <2>1. CASE p \in Pages(bs)
    <3>1. PICK i \in DOMAIN bs : p \in PagesOf(bs[i])
      BY <1>5, <2>1
    <3>2. s[p] = f[pgoffset(bs[i], p) + 1]
      BY <1>2, <3>1
    <3>3. i \in DOMAIN cs /\ cs[i] = bs[i]
      BY <1>4
    <3>4. t[p] = g[pgoffset(bs[i], p) + 1]
      BY <1>3, <3>1, <3>3
    <3> QED BY <2>1, <3>1, <3>2, <3>4
  <2>2. CASE p \notin Pages(bs)
    <3>1. PICK i \in DOMAIN cs : p \in PagesOf(cs[i])
      BY <1>6
    <3>2. i \notin DOMAIN bs
      BY <1>5, <2>2, <3>1
    <3>3. g[pgoffset(cs[i], p) + 1] = 0
      BY <3>1, <3>2
    <3> QED BY <1>3, <2>2, <3>1, <3>3
  <2> QED BY <2>1, <2>2
<1>9. t = [p \in Pages(cs) |-> IF p \in Pages(bs) THEN s[p] ELSE 0]
  BY <1>3, <1>8
<1>10. H!Extends(t, s)
  BY <1>2, <1>3, <1>6, <1>7, <1>9 DEF H!Extends
<1> QED BY <1>10 DEF s, t

(***************************************************************************)
(* Files that agree up to an offset                                        *)
(***************************************************************************)
Alike(f, g, o) ==
  /\ f \in Seq(Nat) /\ g \in Seq(Nat)
  /\ o <= Len(f) /\ o <= Len(g) /\ \A i \in 1 .. o : g[i] = f[i]

LEMMA PutAlike ==
  ASSUME NEW f \in Seq(Nat), NEW o \in Nat, NEW c \in Nat, o <= Len(f), NEW m \in Nat, m <= o
  PROVE  Alike(f, Put(f, o, c), m)
<1>1. Len(f) \in Nat
  BY LenProperties
<1>2. /\ Put(f, o, c) \in Seq(Nat) /\ Len(f) <= Len(Put(f, o, c))
      /\ \A i \in 1 .. Len(f) : i # o + 1 => Put(f, o, c)[i] = f[i]
  BY PutCell
<1>3. Len(Put(f, o, c)) \in Nat
  BY <1>2, LenProperties
<1>4. \A i \in 1 .. m : i \in 1 .. Len(f) /\ i # o + 1
  BY <1>1
<1> QED BY <1>1, <1>2, <1>3, <1>4 DEF Alike

LEMMA AlikeTrans ==
  ASSUME NEW f, NEW g, NEW h, NEW o, Alike(f, g, o), Alike(g, h, o)
  PROVE  Alike(f, h, o)
BY DEF Alike

LEMMA WholeAlike ==
  ASSUME NEW f, NEW g, NEW o \in Nat, Alike(f, g, o), NEW b \in BlockType, Whole(f, b), NextOffset(b) <= o
  PROVE  /\ Whole(g, b)
         /\ \A p \in PagesOf(b) : g[pgoffset(b, p) + 1] = f[pgoffset(b, p) + 1]
<1>1. Len(f) \in Nat /\ Len(g) \in Nat /\ o <= Len(f) /\ o <= Len(g) /\ \A i \in 1 .. o : g[i] = f[i]
  BY LenProperties DEF Alike
<1>2. /\ b.offset \in Nat /\ b.npages \in Nat \ {0}
      /\ NextOffset(b) = b.offset + 2 + b.npages /\ NextOffset(b) \in Nat
      /\ \A p \in PagesOf(b) : /\ pgoffset(b, p) \in Nat /\ pgoffset(b, p) < NextOffset(b)
  BY BlockFacts
<1>3. \A p \in PagesOf(b) : g[pgoffset(b, p) + 1] = f[pgoffset(b, p) + 1]
  <2> SUFFICES ASSUME NEW p \in PagesOf(b) PROVE g[pgoffset(b, p) + 1] = f[pgoffset(b, p) + 1]
    OBVIOUS
  <2>1. pgoffset(b, p) + 1 \in 1 .. o
    BY <1>2
  <2> QED BY <1>1, <2>1
<1>4. Headed(g, b)
  <2>1. b.offset + 1 \in 1 .. o /\ b.offset + 2 \in 1 .. o
    BY <1>2
  <2> QED BY <1>1, <2>1 DEF Whole, Headed
<1>5. NextOffset(b) <= Len(g)
  BY <1>1, <1>2
<1> QED BY <1>3, <1>4, <1>5 DEF Whole

(* The blocks of a row in a file are the same in a file like it.           *)
Kept(f, g, bs) ==
  /\ \A i \in DOMAIN bs : Whole(g, bs[i])
  /\ \A i \in DOMAIN bs : \A p \in PagesOf(bs[i]) :
       g[pgoffset(bs[i], p) + 1] = f[pgoffset(bs[i], p) + 1]

LEMMA RowAlike ==
  ASSUME NEW f, NEW g, NEW bs, Row(bs), \A i \in DOMAIN bs : Whole(f, bs[i]),
         Alike(f, g, EndOf(bs))
  PROVE  Kept(f, g, bs)
<1> SUFFICES ASSUME NEW i \in DOMAIN bs
             PROVE  /\ Whole(g, bs[i])
                    /\ \A p \in PagesOf(bs[i]) : g[pgoffset(bs[i], p) + 1] = f[pgoffset(bs[i], p) + 1]
  BY DEF Kept
<1>1. bs[i] \in BlockType
  BY RowFacts
<1>2. EndOf(bs) \in Nat /\ NextOffset(bs[i]) <= EndOf(bs)
  BY RowEnd
<1> QED BY <1>1, <1>2, WholeAlike

(***************************************************************************)
(* A new block comes into the file                                         *)
(***************************************************************************)
LEMMA HasIs ==
  ASSUME NEW f \in Seq(Nat), NEW bs, Row(bs), \A i \in DOMAIN bs : Whole(f, bs[i]),
         NEW o, o = EndOf(bs), o <= Len(f), Blank(f, o),
         o + 2 <= Len(f) => f[o + 2] = 0 \/ Len(f) < o + 2 + f[o + 2]
  PROVE  Has(f, bs)
BY DEF Has, Header

LEMMA HasParts ==
  ASSUME NEW f, NEW bs, Has(f, bs), NEW o, o = EndOf(bs)
  PROVE  /\ f \in Seq(Nat) /\ Row(bs) /\ o \in Nat /\ Len(f) \in Nat /\ o <= Len(f) /\ Blank(f, o)
         /\ \A i \in DOMAIN bs : Whole(f, bs[i])
         /\ o + 2 <= Len(f) => f[o + 2] = 0 \/ Len(f) < o + 2 + f[o + 2]
BY HasEnd DEF Has, Header

LEMMA PutBlank ==
  ASSUME NEW f \in Seq(Nat), NEW o \in Nat, NEW c \in Nat, o <= Len(f),
         NEW m \in Nat, Blank(f, m), o + 1 <= m + 2 \/ c = 0
  PROVE  Blank(Put(f, o, c), m)
<1> DEFINE g == Put(f, o, c)
<1>1. /\ g \in Seq(Nat) /\ g[o + 1] = c
      /\ \A i \in 1 .. Len(f) : i # o + 1 => g[i] = f[i]
      /\ \A i \in 1 .. Len(g) : i \in 1 .. Len(f) \/ i = o + 1
  BY PutCell
<1> HIDE DEF g
<1>2. DOMAIN g = 1 .. Len(g) /\ DOMAIN f = 1 .. Len(f) /\ Len(g) \in Nat
  BY <1>1, LenProperties
<1>3. ASSUME NEW i \in 1 .. Len(g), i > m + 2 PROVE g[i] = 0
  <2>1. CASE i = o + 1
    BY <1>1, <1>2, <1>3, <2>1
  <2>2. CASE i # o + 1
    BY <1>1, <1>2, <1>3, <2>2 DEF Blank, Header
  <2> QED BY <2>1, <2>2
<1>4. Blank(g, m)
  BY <1>2, <1>3 DEF Blank, Header
<1> QED BY <1>4 DEF g

(* The address of a block behind the others.                               *)
LEMMA PutAddress ==
  ASSUME NEW f, NEW bs, Has(f, bs), NEW o, o = EndOf(bs), NEW c \in Nat
  PROVE  /\ Has(Put(f, o, c), bs) /\ Kept(f, Put(f, o, c), bs)
         /\ o < Len(Put(f, o, c)) /\ Put(f, o, c)[o + 1] = c
<1> DEFINE g == Put(f, o, c)
<1>1. /\ f \in Seq(Nat) /\ Row(bs) /\ o \in Nat /\ Len(f) \in Nat /\ o <= Len(f) /\ Blank(f, o)
      /\ \A i \in DOMAIN bs : Whole(f, bs[i])
  BY HasParts
<1>2. o + 2 <= Len(f) => f[o + 2] = 0 \/ Len(f) < o + 2 + f[o + 2]
  BY HasParts
<1>3. /\ g \in Seq(Nat) /\ g[o + 1] = c /\ o < Len(g)
      /\ Len(g) = IF o < Len(f) THEN Len(f) ELSE o + 1
      /\ \A i \in 1 .. Len(f) : i # o + 1 => g[i] = f[i]
  BY <1>1, PutCell
<1>4. Alike(f, g, o)
  BY <1>1, PutAlike
<1>5. Blank(g, o)
  BY <1>1, PutBlank
<1> HIDE DEF g
<1>6. Kept(f, g, bs)
  BY <1>1, <1>4, RowAlike
<1>7. ASSUME o + 2 <= Len(g) PROVE g[o + 2] = 0 \/ Len(g) < o + 2 + g[o + 2]
  <2>1. Len(g) = Len(f) /\ o + 2 \in 1 .. Len(f) /\ o + 2 # o + 1
    BY <1>1, <1>3, <1>7
  <2>2. g[o + 2] = f[o + 2]
    BY <1>3, <2>1
  <2> QED BY <1>2, <1>7, <2>1, <2>2
<1>8. \A i \in DOMAIN bs : Whole(g, bs[i])
  BY <1>6 DEF Kept
<1>9. o <= Len(g)
  BY <1>1, <1>3
<1>10. Has(g, bs)
  BY <1>1, <1>3, <1>5, <1>7, <1>8, <1>9, HasIs
<1> QED BY <1>3, <1>6, <1>10 DEF g

LEMMA RowLast ==
  ASSUME NEW bs, NEW b, Row(bs), Row(Append(bs, b))
  PROVE  b \in BlockType
<1>1. bs \in Seq(BlockType) /\ Len(bs) \in Nat /\ Append(bs, b) \in Seq(BlockType)
  BY RowFacts
<1>2. Len(Append(bs, b)) = Len(bs) + 1 /\ Append(bs, b)[Len(bs) + 1] = b
  BY <1>1
<1>3. Len(bs) + 1 \in 1 .. Len(Append(bs, b))
  BY <1>1, <1>2
<1> QED BY <1>1, <1>2, <1>3, ElementOfSeq

LEMMA BegunParts ==
  ASSUME NEW f, NEW bs, NEW b, Begun(f, bs, b)
  PROVE  /\ f \in Seq(Nat) /\ Len(f) \in Nat /\ Row(bs) /\ Row(Append(bs, b)) /\ bs \in Seq(BlockType)
         /\ b \in BlockType /\ b.offset = EndOf(bs) /\ EndOf(Append(bs, b)) = NextOffset(b)
         /\ \A i \in DOMAIN bs : Whole(f, bs[i])
         /\ b.offset + 2 <= Len(f) /\ Blank(f, b.offset)
         /\ f[b.offset + 1] = b.pgstart /\ f[b.offset + 2] = b.npages
<1>1. Row(bs) /\ Row(Append(bs, b)) /\ f \in Seq(Nat)
  BY DEF Begun
<1>2. Len(f) \in Nat
  BY <1>1, LenProperties
<1>3. bs \in Seq(BlockType) /\ b \in BlockType
  BY <1>1, RowFacts, RowLast
<1>4. b.offset = EndOf(bs) /\ EndOf(Append(bs, b)) = NextOffset(b)
  BY <1>1, <1>3, RowAppend
<1> QED BY <1>1, <1>2, <1>3, <1>4 DEF Begun, Headed, Header

(* The number of its pages.                                                *)
LEMMA PutSize ==
  ASSUME NEW f, NEW bs, Has(f, bs), NEW b, Row(Append(bs, b)), NEW o, o = b.offset + 1,
         b.offset < Len(f), f[b.offset + 1] = b.pgstart
  PROVE  Begun(Put(f, o, b.npages), bs, b) /\ Kept(f, Put(f, o, b.npages), bs)
<1> DEFINE g == Put(f, o, b.npages)
<1>1. /\ f \in Seq(Nat) /\ Row(bs) /\ Len(f) \in Nat /\ EndOf(bs) \in Nat /\ Blank(f, EndOf(bs))
      /\ \A i \in DOMAIN bs : Whole(f, bs[i])
  BY HasParts
<1>2. b \in BlockType /\ bs \in Seq(BlockType)
  BY <1>1, RowFacts, RowLast
<1>3. b.offset = EndOf(bs) /\ b.offset \in Nat /\ b.npages \in Nat /\ o \in Nat /\ o <= Len(f)
  BY <1>1, <1>2, RowAppend, BlockFacts
<1>4. /\ g \in Seq(Nat) /\ Len(f) <= Len(g) /\ o < Len(g) /\ g[o + 1] = b.npages
      /\ \A i \in 1 .. Len(f) : i # o + 1 => g[i] = f[i]
  <2>1. f \in Seq(Nat) /\ Len(f) \in Nat /\ o \in Nat /\ o <= Len(f) /\ b.npages \in Nat
    BY ONLY <1>1, <1>3
  <2> QED BY ONLY <2>1, PutCell
<1>5. Alike(f, g, b.offset)
  <2>1. b.offset <= o
    BY <1>3
  <2> QED BY <1>1, <1>3, <2>1, PutAlike
<1>6. Blank(g, b.offset)
  <2>1. o + 1 <= b.offset + 2
    BY <1>3
  <2> QED BY <1>1, <1>3, <2>1, PutBlank
<1> HIDE DEF g
<1>7. Kept(f, g, bs)
  BY <1>1, <1>3, <1>5, RowAlike
<1>8. Len(g) \in Nat
  BY <1>4, LenProperties
<1>9. Headed(g, b)
  <2>1. b.offset + 1 \in 1 .. Len(f) /\ b.offset + 1 # o + 1 /\ b.offset + 2 = o + 1
    BY <1>1, <1>3
  <2> QED BY <1>4, <2>1 DEF Headed
<1>10. b.offset + 2 <= Len(g)
  BY <1>3, <1>4, <1>8
<1>11. Begun(g, bs, b)
  BY <1>1, <1>4, <1>6, <1>7, <1>9, <1>10 DEF Begun, Kept, Header
<1> QED BY <1>7, <1>11 DEF g

(* One of its pages.                                                       *)
LEMMA PutZero ==
  ASSUME NEW f, NEW bs, NEW b, Begun(f, bs, b),
         NEW q \in Nat, b.offset + 2 <= q, q <= Len(f)
  PROVE  /\ Begun(Put(f, q, 0), bs, b) /\ Kept(f, Put(f, q, 0), bs)
         /\ Len(f) <= Len(Put(f, q, 0)) /\ q < Len(Put(f, q, 0))
<1> DEFINE g == Put(f, q, 0)
<1>1. /\ f \in Seq(Nat) /\ Len(f) \in Nat /\ Row(bs) /\ Row(Append(bs, b)) /\ b \in BlockType
      /\ b.offset = EndOf(bs) /\ (\A i \in DOMAIN bs : Whole(f, bs[i]))
      /\ b.offset + 2 <= Len(f) /\ Blank(f, b.offset)
      /\ f[b.offset + 1] = b.pgstart /\ f[b.offset + 2] = b.npages
  BY BegunParts
<1>2. b.offset \in Nat
  BY <1>1, BlockFacts
<1>3. /\ g \in Seq(Nat) /\ Len(f) <= Len(g) /\ q < Len(g)
      /\ \A i \in 1 .. Len(f) : i # q + 1 => g[i] = f[i]
  BY <1>1, PutCell
<1>4. Alike(f, g, b.offset)
  <2>1. b.offset <= q
    BY <1>2
  <2> QED BY <1>1, <1>2, <2>1, PutAlike
<1>5. Blank(g, b.offset)
  BY <1>1, <1>2, PutBlank
<1> HIDE DEF g
<1>6. Kept(f, g, bs)
  BY <1>1, <1>4, RowAlike
<1>7. Len(g) \in Nat
  BY <1>3, LenProperties
<1>8. Headed(g, b)
  <2>1. /\ b.offset + 1 \in 1 .. Len(f) /\ b.offset + 1 # q + 1
        /\ b.offset + 2 \in 1 .. Len(f) /\ b.offset + 2 # q + 1
    BY <1>1, <1>2
  <2> QED BY <1>1, <1>3, <2>1 DEF Headed
<1>9. b.offset + 2 <= Len(g)
  BY <1>1, <1>2, <1>3, <1>7
<1>10. Begun(g, bs, b)
  BY <1>1, <1>3, <1>5, <1>6, <1>8, <1>9 DEF Begun, Kept, Header
<1> QED BY <1>3, <1>6, <1>10 DEF g

(* A block is found when the last of its pages is there.                   *)
LEMMA BegunHas ==
  ASSUME NEW f, NEW bs, NEW b, Begun(f, bs, b)
  PROVE  IF NextOffset(b) <= Len(f) THEN Has(f, Append(bs, b)) ELSE Has(f, bs)
<1>1. /\ f \in Seq(Nat) /\ Len(f) \in Nat /\ Row(bs) /\ Row(Append(bs, b)) /\ bs \in Seq(BlockType)
      /\ b \in BlockType /\ b.offset = EndOf(bs) /\ EndOf(Append(bs, b)) = NextOffset(b)
      /\ (\A i \in DOMAIN bs : Whole(f, bs[i]))
      /\ b.offset + 2 <= Len(f) /\ Blank(f, b.offset)
      /\ f[b.offset + 1] = b.pgstart /\ f[b.offset + 2] = b.npages
  BY BegunParts
<1>2. /\ b.offset \in Nat /\ b.npages \in Nat \ {0}
      /\ NextOffset(b) = b.offset + 2 + b.npages /\ NextOffset(b) \in Nat
      /\ \A p \in PagesOf(b) : /\ pgoffset(b, p) \in Nat /\ b.offset + 2 <= pgoffset(b, p)
                               /\ pgoffset(b, p) < NextOffset(b)
  BY <1>1, BlockFacts
<1>3. CASE NextOffset(b) <= Len(f)
  <2> DEFINE cs == Append(bs, b)
             e == NextOffset(b)
  <2>1. \A i \in 1 .. Len(f) : i > b.offset + 2 => f[i] = 0
    BY <1>1, LenProperties DEF Blank, Header
  <2>2. Blank(f, e)
    <3>1. \A i \in 1 .. Len(f) : i > e + 2 => i > b.offset + 2
      <4>1. b.offset \in Nat /\ e \in Nat /\ b.offset <= e /\ Len(f) \in Nat
        <5>1. b.offset \in Nat /\ b.npages \in Nat /\ e = b.offset + 2 + b.npages
          BY ONLY <1>2
        <5> QED BY ONLY <1>1, <5>1
      <4> HIDE DEF e
      <4> QED BY ONLY <4>1
    <3> HIDE DEF e
    <3> QED BY <1>1, <2>1, <3>1, LenProperties DEF Blank, Header
  <2>3. Whole(f, b)
    <3>1. \A p \in PagesOf(b) : f[pgoffset(b, p) + 1] = 0
      <4> SUFFICES ASSUME NEW p \in PagesOf(b) PROVE f[pgoffset(b, p) + 1] = 0
        OBVIOUS
      <4>1. pgoffset(b, p) + 1 \in 1 .. Len(f) /\ pgoffset(b, p) + 1 > b.offset + 2
        <5>1. /\ pgoffset(b, p) \in Nat /\ b.offset + 2 <= pgoffset(b, p)
              /\ pgoffset(b, p) < NextOffset(b) /\ b.offset \in Nat /\ NextOffset(b) \in Nat
          BY <1>2
        <5>2. Len(f) \in Nat
          BY <1>1
        <5> QED BY <1>3, <5>1, <5>2
      <4> QED BY <2>1, <4>1
    <3> QED BY <1>1, <1>3, <3>1, HeapFileAssumption DEF Whole, Headed
  <2>4. \A i \in DOMAIN cs : Whole(f, cs[i])
    <3>1. /\ DOMAIN bs = 1 .. Len(bs) /\ DOMAIN cs = 1 .. (Len(bs) + 1) /\ Len(bs) \in Nat
          /\ \A i \in 1 .. Len(bs) : cs[i] = bs[i]
          /\ cs[Len(bs) + 1] = b
      BY <1>1, AppendProperties, LenProperties
    <3>2. \A i \in 1 .. (Len(bs) + 1) : i \in 1 .. Len(bs) \/ i = Len(bs) + 1
      BY <3>1
    <3> HIDE DEF cs
    <3> QED BY <1>1, <2>3, <3>1, <3>2
  <2>5. ASSUME e + 2 <= Len(f) PROVE f[e + 2] = 0
    <3>1. e + 2 \in 1 .. Len(f) /\ e + 2 > b.offset + 2
      <4>1. e \in Nat /\ b.offset < e /\ b.offset \in Nat
        BY <1>2
      <4>2. Len(f) \in Nat
        BY <1>1
      <4> HIDE DEF e
      <4> QED BY <2>5, <4>1, <4>2
    <3> HIDE DEF e
    <3> QED BY <2>1, <3>1
  <2>6. Row(cs) /\ e = EndOf(cs) /\ e <= Len(f)
    BY <1>1, <1>3
  <2> HIDE DEF cs, e
  <2>7. Has(f, cs)
    BY <1>1, <2>2, <2>4, <2>5, <2>6, HasIs
  <2> QED BY <1>3, <2>7 DEF cs
<1>4. CASE ~(NextOffset(b) <= Len(f))
  <2> DEFINE o == b.offset
  <2>1. Len(f) < o + 2 + f[o + 2] /\ o <= Len(f)
    BY <1>1, <1>2, <1>4
  <2>2. o = EndOf(bs) /\ Blank(f, o)
    BY <1>1
  <2> HIDE DEF o
  <2>3. Has(f, bs)
    BY <1>1, <2>1, <2>2, HasIs
  <2> QED BY <1>4, <2>3
<1> QED BY <1>3, <1>4

LEMMA BlankPages ==
  ASSUME NEW f \in Seq(Nat), NEW b \in BlockType, NEW o \in Nat, o <= b.offset, Blank(f, o),
         NextOffset(b) <= Len(f)
  PROVE  \A p \in PagesOf(b) : f[pgoffset(b, p) + 1] = 0
<1>1. Len(f) \in Nat /\ \A i \in 1 .. Len(f) : i > o + 2 => f[i] = 0
  BY LenProperties DEF Blank, Header
<1> SUFFICES ASSUME NEW p \in PagesOf(b) PROVE f[pgoffset(b, p) + 1] = 0
  OBVIOUS
<1>2. /\ b.offset \in Nat /\ pgoffset(b, p) \in Nat /\ b.offset + 2 <= pgoffset(b, p)
      /\ pgoffset(b, p) < NextOffset(b) /\ NextOffset(b) \in Nat
  BY BlockFacts
<1>3. pgoffset(b, p) + 1 \in 1 .. Len(f) /\ pgoffset(b, p) + 1 > o + 2
  <2>1. Len(f) \in Nat
    BY <1>1
  <2> QED BY <1>2, <2>1
<1> QED BY <1>1, <1>3

LEMMA KeptSelf ==
  ASSUME NEW f, NEW bs, \A i \in DOMAIN bs : Whole(f, bs[i])
  PROVE  Kept(f, f, bs)
BY DEF Kept

LEMMA KeptTrans ==
  ASSUME NEW f, NEW g, NEW h, NEW bs, Kept(f, g, bs), Kept(g, h, bs)
  PROVE  Kept(f, h, bs)
BY DEF Kept

LEMMA HasHasExtends ==
  ASSUME NEW f, NEW g, NEW bs, Has(f, bs), Has(g, bs), Kept(f, g, bs)
  PROVE  H!Extends(Saved(g), Saved(f))
<1>1. Len(bs) \in Nat
  BY HasEnd, RowFacts
<1>2. Len(bs) <= Len(bs)
  BY <1>1
<1>3. \A i \in DOMAIN bs : \A p \in PagesOf(bs[i]) :
         g[pgoffset(bs[i], p) + 1] = f[pgoffset(bs[i], p) + 1]
  BY DEF Kept
<1> QED BY <1>2, <1>3, SavedExtends

LEMMA HasMoreExtends ==
  ASSUME NEW f, NEW g, NEW bs, NEW b, Has(f, bs), Kept(f, g, bs), Begun(g, bs, b),
         NextOffset(b) <= Len(g)
  PROVE  H!Extends(Saved(g), Saved(f))
<1> DEFINE cs == Append(bs, b)
<1>1. /\ bs \in Seq(BlockType) /\ b \in BlockType /\ Blank(g, b.offset) /\ g \in Seq(Nat)
  BY BegunParts
<1>2. /\ DOMAIN bs = 1 .. Len(bs) /\ DOMAIN cs = 1 .. (Len(bs) + 1) /\ Len(bs) \in Nat
      /\ Len(cs) = Len(bs) + 1 /\ \A i \in 1 .. Len(bs) : cs[i] = bs[i]
      /\ cs[Len(bs) + 1] = b
  BY <1>1, AppendProperties, LenProperties
<1>3. Has(g, cs)
  BY BegunHas
<1>4. \A p \in PagesOf(b) : g[pgoffset(b, p) + 1] = 0
  <2>1. b.offset \in Nat /\ b.offset <= b.offset
    BY <1>1, BlockFacts
  <2> QED BY <1>1, <2>1, BlankPages
<1> HIDE DEF cs
<1>5. \A i \in DOMAIN cs : i \notin DOMAIN bs => \A p \in PagesOf(cs[i]) : g[pgoffset(cs[i], p) + 1] = 0
  <2>1. \A i \in DOMAIN cs : i \notin DOMAIN bs => i = Len(bs) + 1
    BY <1>2
  <2> QED BY <1>2, <1>4, <2>1
<1>6. \A i \in DOMAIN bs : \A p \in PagesOf(bs[i]) :
         g[pgoffset(bs[i], p) + 1] = f[pgoffset(bs[i], p) + 1]
  BY DEF Kept
<1>7. Len(bs) <= Len(cs) /\ \A i \in DOMAIN bs : cs[i] = bs[i]
  BY <1>2
<1> QED BY <1>3, <1>5, <1>6, <1>7, SavedExtends

LEMMA HasBegunExtends ==
  ASSUME NEW f, NEW g, NEW bs, NEW b, Has(f, bs), Begun(g, bs, b), Kept(f, g, bs)
  PROVE  H!Extends(Saved(g), Saved(f))
<1>1. CASE NextOffset(b) <= Len(g)
  BY <1>1, HasMoreExtends
<1>2. CASE ~(NextOffset(b) <= Len(g))
  <2>1. Has(g, bs)
    BY <1>2, BegunHas
  <2> QED BY <2>1, HasHasExtends
<1> QED BY <1>1, <1>2

LEMMA BegunExtends ==
  ASSUME NEW f, NEW g, NEW bs, NEW b, Begun(f, bs, b), Begun(g, bs, b), Kept(f, g, bs),
         Len(f) <= Len(g)
  PROVE  H!Extends(Saved(g), Saved(f))
<1>1. CASE ~(NextOffset(b) <= Len(f))
  <2>1. Has(f, bs)
    BY <1>1, BegunHas
  <2> QED BY <2>1, HasBegunExtends
<1>2. CASE NextOffset(b) <= Len(f)
  <2> DEFINE cs == Append(bs, b)
  <2>1. /\ bs \in Seq(BlockType) /\ b \in BlockType /\ Blank(g, b.offset) /\ g \in Seq(Nat)
        /\ Blank(f, b.offset) /\ f \in Seq(Nat) /\ Len(f) \in Nat /\ Len(g) \in Nat
    BY BegunParts
  <2>2. b.offset \in Nat /\ b.offset <= b.offset /\ NextOffset(b) \in Nat
    BY <2>1, BlockFacts
  <2>3. NextOffset(b) <= Len(g)
    BY <1>2, <2>1, <2>2
  <2>4. Has(f, cs) /\ Has(g, cs)
    BY <1>2, <2>3, BegunHas
  <2>5. (\A p \in PagesOf(b) : g[pgoffset(b, p) + 1] = 0) /\ (\A p \in PagesOf(b) : f[pgoffset(b, p) + 1] = 0)
    BY <1>2, <2>1, <2>2, <2>3, BlankPages
  <2>6. /\ DOMAIN bs = 1 .. Len(bs) /\ DOMAIN cs = 1 .. (Len(bs) + 1) /\ Len(bs) \in Nat
        /\ \A i \in 1 .. Len(bs) : cs[i] = bs[i]
        /\ cs[Len(bs) + 1] = b
    BY <2>1, AppendProperties, LenProperties
  <2>7. \A i \in DOMAIN cs : Whole(g, cs[i])
    BY <2>4, HasEnd
  <2> HIDE DEF cs
  <2>8. \A i \in DOMAIN cs : \A p \in PagesOf(cs[i]) : g[pgoffset(cs[i], p) + 1] = f[pgoffset(cs[i], p) + 1]
    <3>1. \A i \in DOMAIN cs : i \in DOMAIN bs \/ i = Len(bs) + 1
      BY <2>6
    <3> QED BY <2>5, <2>6, <3>1 DEF Kept
  <2>9. Kept(f, g, cs)
    BY <2>7, <2>8 DEF Kept
  <2> QED BY <2>4, <2>9, HasHasExtends
<1> QED BY <1>1, <1>2

(***************************************************************************)
(* Writing what is pending                                                 *)
(***************************************************************************)
Writes(f, w, a, D) == a = [n \in D |-> IF n = 0 THEN f ELSE Put(a[n - 1], w[n][1], w[n][2])]

LEMMA WritesExist ==
  ASSUME NEW f, NEW w
  PROVE  \A k \in Nat : \E a : Writes(f, w, a, 0 .. k)
<1> DEFINE S == {k \in Nat : \E a : Writes(f, w, a, 0 .. k)}
<1>1. 0 \in S
  <2> DEFINE a == [n \in 0 .. 0 |-> f]
  <2>1. Writes(f, w, a, 0 .. 0)
    BY DEF Writes
  <2> QED BY <2>1
<1>2. ASSUME NEW k \in S PROVE k + 1 \in S
  <2>1. PICK a : Writes(f, w, a, 0 .. k)
    OBVIOUS
  <2>2. k \in Nat
    OBVIOUS
  <2> DEFINE e(q, n) == IF n = 0 THEN f ELSE Put(q[n - 1], w[n][1], w[n][2])
             c == [n \in 0 .. (k + 1) |-> e(a, n)]
  <2>3. a = [n \in 0 .. k |-> e(a, n)]
    BY <2>1 DEF Writes
  <2>4. \A n \in 0 .. k : c[n] = a[n]
    <3>1. \A n \in 0 .. k : n \in 0 .. (k + 1)
      BY <2>2
    <3> HIDE DEF e
    <3> QED BY <2>3, <3>1
  <2>5. ASSUME NEW n \in 0 .. (k + 1) PROVE e(c, n) = e(a, n)
    <3>1. CASE n = 0
      BY <3>1
    <3>2. CASE n # 0
      <4>1. n - 1 \in 0 .. k
        BY <2>2, <3>2
      <4>2. c[n - 1] = a[n - 1]
        BY <2>4, <4>1
      <4> HIDE DEF c
      <4> QED BY <3>2, <4>2
    <3> QED BY <3>1, <3>2
  <2>6. c = [n \in 0 .. (k + 1) |-> e(c, n)]
    <3> HIDE DEF e
    <3> QED BY <2>5
  <2>7. Writes(f, w, c, 0 .. (k + 1))
    <3> HIDE DEF c
    <3> QED BY <2>6 DEF Writes
  <2> HIDE DEF c
  <2> QED BY <2>2, <2>7
<1> HIDE DEF S
<1>3. S = Nat
  <2>1. S \subseteq Nat
    BY DEF S
  <2> QED BY <1>1, <1>2, <2>1, Induction
<1> QED BY <1>3 DEF S

LEMMA WrittenIs ==
  ASSUME NEW f, NEW w, Len(w) \in Nat
  PROVE  \E a : /\ a[0] = f /\ Written(f, w) = a[Len(w)]
                /\ \A n \in 1 .. Len(w) : a[n] = Put(a[n - 1], w[n][1], w[n][2])
<1> DEFINE a == CHOOSE a : Writes(f, w, a, 0 .. Len(w))
<1>1. Writes(f, w, a, 0 .. Len(w))
  BY WritesExist
<1>2. Written(f, w) = a[Len(w)]
  BY DEF Written, Writes
<1> HIDE DEF a
<1>3. \A n \in 0 .. Len(w) : a[n] = IF n = 0 THEN f ELSE Put(a[n - 1], w[n][1], w[n][2])
  BY <1>1 DEF Writes
<1>4. \A n \in 1 .. Len(w) : n \in 0 .. Len(w) /\ n # 0
  OBVIOUS
<1> QED BY <1>2, <1>3, <1>4

LEMMA WrittenNothing ==
  ASSUME NEW f
  PROVE  Written(f, <<>>) = f
<1>1. Len(<<>>) = 0
  OBVIOUS
<1> DEFINE w == <<>>
<1>2. Len(w) \in Nat /\ Len(w) = 0
  BY <1>1
<1> HIDE DEF w
<1>3. PICK a : a[0] = f /\ Written(f, w) = a[Len(w)]
  BY <1>2, WrittenIs
<1>4. Written(f, w) = f
  BY <1>2, <1>3
<1> QED BY <1>4 DEF w

LEMMA WrittenOne ==
  ASSUME NEW f, NEW o, NEW c
  PROVE  Written(f, <<<<o, c>>>>) = Put(f, o, c)
<1> DEFINE w == <<<<o, c>>>>
<1>1. Len(w) = 1 /\ w[1][1] = o /\ w[1][2] = c
  OBVIOUS
<1> HIDE DEF w
<1>2. Len(w) \in Nat
  BY <1>1
<1>3. PICK a : /\ a[0] = f /\ Written(f, w) = a[Len(w)]
               /\ \A n \in 1 .. Len(w) : a[n] = Put(a[n - 1], w[n][1], w[n][2])
  BY <1>2, WrittenIs
<1>4. 1 \in 1 .. Len(w) /\ 1 - 1 = 0
  BY <1>1
<1>5. Written(f, w) = Put(f, o, c)
  BY <1>1, <1>3, <1>4
<1> QED BY <1>5 DEF w

LEMMA RestPut ==
  ASSUME NEW f, NEW bs, NEW b, Begun(f, bs, b), NEW w \in Seq(Nat \X Nat), w # <<>>, RestOf(f, w, b)
  PROVE  \E q \in Nat : /\ b.offset + 2 <= q /\ q <= Len(f) /\ q + Len(w) = NextOffset(b)
                        /\ \A i \in 1 .. Len(w) : w[i] = <<q + i - 1, 0>>
<1>1. Len(f) \in Nat /\ b.offset \in Nat
  BY BegunParts, BlockFacts
<1>2. PICK q \in (b.offset + 2) .. Len(f) :
        q + Len(w) = NextOffset(b) /\ \A i \in DOMAIN w : w[i] = <<q + i - 1, 0>>
  BY DEF RestOf, Header
<1>3. q \in Nat /\ b.offset + 2 <= q /\ q <= Len(f)
  BY <1>1, <1>2
<1>4. DOMAIN w = 1 .. Len(w)
  BY LenProperties
<1> QED BY <1>2, <1>3, <1>4

(* The first of the pages w of b goes from what is pending to the file.    *)
Rested(f, w, g, bs, b) ==
  /\ Begun(g, bs, b) /\ H!Extends(Saved(g), Saved(f))
  /\ Tail(w) = <<>> => Has(g, Append(bs, b))
  /\ RestOf(g, Tail(w), b)
  /\ \A m \in Nat : Blank(f, m) => Blank(g, m)

LEMMA RestStep ==
  ASSUME NEW f, NEW bs, NEW b, Begun(f, bs, b), NEW w \in Seq(Nat \X Nat), w # <<>>, RestOf(f, w, b),
         NEW g, g = Put(f, Head(w)[1], Head(w)[2])
  PROVE  Rested(f, w, g, bs, b)
<1>1. PICK q \in Nat : /\ b.offset + 2 <= q /\ q <= Len(f) /\ q + Len(w) = NextOffset(b)
                       /\ \A i \in 1 .. Len(w) : w[i] = <<q + i - 1, 0>>
  BY RestPut
<1>2. /\ Len(w) \in Nat /\ Len(w) >= 1 /\ 1 \in 1 .. Len(w)
      /\ Head(w) = w[1] /\ Tail(w) \in Seq(Nat \X Nat) /\ Len(Tail(w)) = Len(w) - 1
      /\ \A i \in 1 .. Len(Tail(w)) : Tail(w)[i] = w[i + 1]
  BY EmptySeq, LenProperties, HeadTailProperties
<1>3. g = Put(f, q, 0)
  <2>1. w[1] = <<q + 1 - 1, 0>> /\ q + 1 - 1 = q
    BY <1>1, <1>2
  <2> QED BY <1>2, <2>1
<1>4. /\ f \in Seq(Nat) /\ Len(f) \in Nat /\ b \in BlockType
  BY BegunParts
<1>5. Begun(g, bs, b) /\ Kept(f, g, bs) /\ Len(f) <= Len(g) /\ q < Len(g)
  BY <1>1, <1>3, PutZero
<1>6. H!Extends(Saved(g), Saved(f))
  BY <1>5, BegunExtends
<1>7. b.offset \in Nat /\ NextOffset(b) \in Nat
  BY <1>4, BlockFacts
<1>8. ASSUME Tail(w) = <<>> PROVE Has(g, Append(bs, b))
  <2>1. Len(w) = 1
    <3> DEFINE t == Tail(w)
    <3>1. t = <<>> /\ Len(t) = Len(w) - 1
      BY <1>2, <1>8
    <3> HIDE DEF t
    <3>2. Len(t) = 0
      BY <3>1
    <3> QED BY <1>2, <3>1, <3>2
  <2>2. Len(g) \in Nat
    BY <1>5, BegunParts
  <2>3. NextOffset(b) <= Len(g)
    BY <1>1, <1>5, <1>7, <2>1, <2>2
  <2> QED BY <1>5, <2>3, BegunHas
<1>9. RestOf(g, Tail(w), b)
  <2> DEFINE t == Tail(w)
             r == q + 1
  <2>1. Len(g) \in Nat
    BY <1>5, BegunParts
  <2>2. r \in (b.offset + 2) .. Len(g)
    BY <1>1, <1>5, <1>7, <2>1
  <2>3. r + Len(t) = NextOffset(b)
    BY <1>1, <1>2
  <2>4. DOMAIN t = 1 .. Len(t)
    BY <1>2, LenProperties
  <2>5. ASSUME NEW i \in 1 .. Len(t) PROVE t[i] = <<r + i - 1, 0>>
    <3>1. i + 1 \in 1 .. Len(w) /\ q + (i + 1) - 1 = r + i - 1
      BY <1>1, <1>2
    <3> QED BY <1>1, <1>2, <3>1
  <2> HIDE DEF t, r
  <2>6. RestOf(g, t, b)
    BY <2>2, <2>3, <2>4, <2>5 DEF RestOf, Header
  <2> QED BY <2>6 DEF t
<1>10. \A m \in Nat : Blank(f, m) => Blank(g, m)
  BY <1>1, <1>3, <1>4, PutBlank
<1> QED BY <1>5, <1>6, <1>8, <1>9, <1>10 DEF Rested

LEMMA RestWritten ==
  ASSUME NEW f, NEW bs, NEW b, Begun(f, bs, b), NEW w \in Seq(Nat \X Nat), w # <<>>, RestOf(f, w, b),
         NEW g, g = Written(f, w)
  PROVE  /\ Has(g, Append(bs, b)) /\ H!Extends(Saved(g), Saved(f))
         /\ \A m \in Nat : Blank(f, m) => Blank(g, m)
<1>1. PICK q \in Nat : /\ b.offset + 2 <= q /\ q <= Len(f) /\ q + Len(w) = NextOffset(b)
                       /\ \A i \in 1 .. Len(w) : w[i] = <<q + i - 1, 0>>
  BY RestPut
<1>2. Len(w) \in Nat
  BY LenProperties
<1>3. PICK a : /\ a[0] = f /\ g = a[Len(w)]
               /\ \A n \in 1 .. Len(w) : a[n] = Put(a[n - 1], w[n][1], w[n][2])
  BY <1>2, WrittenIs
<1>4. /\ f \in Seq(Nat) /\ Len(f) \in Nat /\ b \in BlockType /\ \A i \in DOMAIN bs : Whole(f, bs[i])
  BY BegunParts
<1> DEFINE S == {n \in Nat : n <= Len(w) =>
                   /\ Begun(a[n], bs, b) /\ Kept(f, a[n], bs)
                   /\ Len(f) <= Len(a[n]) /\ q + n <= Len(a[n])
                   /\ \A m \in Nat : Blank(f, m) => Blank(a[n], m)}
<1>5. 0 \in S
  <2>1. Kept(f, f, bs)
    BY <1>4, KeptSelf
  <2>2. Len(f) <= Len(f) /\ q + 0 <= Len(f)
    BY <1>1, <1>4
  <2> QED BY <1>3, <2>1, <2>2
<1>6. ASSUME NEW n \in S PROVE n + 1 \in S
  <2>0. n \in Nat /\ (n <= Len(w) =>
                   /\ Begun(a[n], bs, b) /\ Kept(f, a[n], bs)
                   /\ Len(f) <= Len(a[n]) /\ q + n <= Len(a[n])
                   /\ \A m \in Nat : Blank(f, m) => Blank(a[n], m))
    OBVIOUS
  <2> HIDE DEF S
  <2>1. SUFFICES ASSUME n + 1 <= Len(w)
                 PROVE  /\ Begun(a[n + 1], bs, b) /\ Kept(f, a[n + 1], bs)
                        /\ Len(f) <= Len(a[n + 1]) /\ q + (n + 1) <= Len(a[n + 1])
                        /\ \A m \in Nat : Blank(f, m) => Blank(a[n + 1], m)
    BY <2>0 DEF S
  <2>2. n <= Len(w) /\ n + 1 \in 1 .. Len(w) /\ (n + 1) - 1 = n /\ q + (n + 1) - 1 = q + n /\ q + n \in Nat
    BY <1>1, <1>2, <2>0, <2>1
  <2> DEFINE x == a[n]
             y == a[n + 1]
             k == q + n
  <2>3. /\ Begun(x, bs, b) /\ Kept(f, x, bs)
        /\ Len(f) <= Len(x) /\ k <= Len(x)
        /\ \A m \in Nat : Blank(f, m) => Blank(x, m)
    BY <2>0, <2>2
  <2>4. y = Put(x, k, 0)
    <3>1. w[n + 1] = <<q + (n + 1) - 1, 0>>
      BY <1>1, <2>2
    <3>2. w[n + 1][1] = k /\ w[n + 1][2] = 0
      BY <2>2, <3>1
    <3>3. a[n + 1] = Put(a[(n + 1) - 1], w[n + 1][1], w[n + 1][2])
      BY <1>3, <2>2
    <3> QED BY <2>2, <3>2, <3>3
  <2>5. k \in Nat /\ b.offset + 2 <= k
    <3>1. b.offset \in Nat
      BY <1>4, BlockFacts
    <3> QED BY <1>1, <2>0, <3>1
  <2>6. x \in Seq(Nat) /\ Len(x) \in Nat
    BY <2>3, BegunParts
  <2>7. k + 1 = q + (n + 1)
    BY <1>1, <2>0
  <2> HIDE DEF x, y, k
  <2>8. Begun(y, bs, b) /\ Kept(x, y, bs) /\ Len(x) <= Len(y) /\ k < Len(y)
    BY <2>3, <2>4, <2>5, PutZero
  <2>9. \A m \in Nat : Blank(x, m) => Blank(y, m)
    BY <2>3, <2>4, <2>5, <2>6, PutBlank
  <2>10. Len(y) \in Nat
    BY <2>8, BegunParts
  <2>11. Kept(f, y, bs)
    BY <2>3, <2>8, KeptTrans
  <2>12. Len(f) <= Len(y) /\ k + 1 <= Len(y)
    BY <1>4, <2>3, <2>5, <2>6, <2>8, <2>10
  <2>13. \A m \in Nat : Blank(f, m) => Blank(y, m)
    BY <2>3, <2>9
  <2> QED BY <2>7, <2>8, <2>11, <2>12, <2>13 DEF y
<1> HIDE DEF S
<1>7. S = Nat
  <2>1. S \subseteq Nat
    BY DEF S
  <2> QED BY <1>5, <1>6, <2>1, Induction
<1>8. /\ Begun(g, bs, b) /\ Kept(f, g, bs)
      /\ Len(f) <= Len(g) /\ q + Len(w) <= Len(g)
      /\ \A m \in Nat : Blank(f, m) => Blank(g, m)
  <2>1. Len(w) \in S /\ Len(w) <= Len(w)
    BY <1>2, <1>7
  <2> QED BY <1>3, <2>1 DEF S
<1>9. Has(g, Append(bs, b))
  BY <1>1, <1>8, BegunHas
<1>10. H!Extends(Saved(g), Saved(f))
  BY <1>8, BegunExtends
<1> QED BY <1>8, <1>9, <1>10

(***************************************************************************)
(* The stages of an allocation                                             *)
(***************************************************************************)

(* g is a file that may follow f.                                          *)
Onward(f, g) ==
  H!Extends(Saved(g), Saved(f)) /\ \A m \in Nat : Blank(f, m) => Blank(g, m)

LEMMA OnwardSame ==
  ASSUME NEW f, NEW bs, Has(f, bs)
  PROVE  Onward(f, f)
<1>1. \A i \in DOMAIN bs : Whole(f, bs[i])
  BY HasEnd
<1> QED BY <1>1, KeptSelf, HasHasExtends DEF Onward

LEMMA SettledHas ==
  ASSUME NEW f, NEW w, NEW bs, Row(bs), Settled(f, w, bs)
  PROVE  \/ Has(f, bs)
         \/ bs # <<>> /\ Has(f, Front(bs)) /\ w # <<>>
<1>1. CASE w = <<>> /\ Has(f, bs)
  BY <1>1
<1>2. CASE w # <<>> /\ bs # <<>> /\ Begun(f, Front(bs), Last(bs)) /\ RestOf(f, w, Last(bs))
  <2>1. Append(Front(bs), Last(bs)) = bs
    BY <1>2, FrontLast DEF Row
  <2>2. Has(f, bs) \/ Has(f, Front(bs))
    BY <1>2, <2>1, BegunHas
  <2> QED BY <1>2, <2>2
<1> QED BY <1>1, <1>2 DEF Settled

LEMMA SettledStep ==
  ASSUME NEW f, NEW w \in Seq(Nat \X Nat), w # <<>>, NEW bs, Row(bs), Settled(f, w, bs),
         NEW g, g = Put(f, Head(w)[1], Head(w)[2])
  PROVE  Settled(g, Tail(w), bs) /\ Onward(f, g) /\ g \in Seq(Nat)
<1>1. bs # <<>> /\ Begun(f, Front(bs), Last(bs)) /\ RestOf(f, w, Last(bs))
  BY DEF Settled
<1>2. Append(Front(bs), Last(bs)) = bs
  BY <1>1, FrontLast DEF Row
<1>3. /\ Begun(g, Front(bs), Last(bs)) /\ H!Extends(Saved(g), Saved(f))
      /\ Tail(w) = <<>> => Has(g, bs)
      /\ RestOf(g, Tail(w), Last(bs))
      /\ \A m \in Nat : Blank(f, m) => Blank(g, m)
  <2> DEFINE cs == Front(bs)
             b == Last(bs)
  <2>1. Begun(f, cs, b) /\ RestOf(f, w, b) /\ Append(cs, b) = bs
    BY <1>1, <1>2
  <2> HIDE DEF cs, b
  <2>2. Rested(f, w, g, cs, b)
    BY <2>1, RestStep
  <2> QED BY <2>1, <2>2 DEF cs, b, Rested
<1>4. g \in Seq(Nat)
  BY <1>3, BegunParts
<1> QED BY <1>1, <1>3, <1>4 DEF Settled, Onward

LEMMA SettledWritten ==
  ASSUME NEW f, NEW w \in Seq(Nat \X Nat), NEW bs, Row(bs), Settled(f, w, bs),
         NEW g, g = Written(f, w)
  PROVE  Has(g, bs) /\ Onward(f, g) /\ g \in Seq(Nat)
<1>1. CASE w = <<>> /\ Has(f, bs)
  <2>1. g = f
    BY <1>1, WrittenNothing
  <2> QED BY <1>1, <2>1, OnwardSame, HasEnd
<1>2. CASE w # <<>> /\ bs # <<>> /\ Begun(f, Front(bs), Last(bs)) /\ RestOf(f, w, Last(bs))
  <2>1. Append(Front(bs), Last(bs)) = bs
    BY <1>2, FrontLast DEF Row
  <2>2. Has(g, bs) /\ H!Extends(Saved(g), Saved(f)) /\ \A m \in Nat : Blank(f, m) => Blank(g, m)
    <3> DEFINE cs == Front(bs)
               b == Last(bs)
    <3>1. Begun(f, cs, b) /\ RestOf(f, w, b) /\ Append(cs, b) = bs
      BY <1>2, <2>1
    <3> HIDE DEF cs, b
    <3>2. /\ Has(g, Append(cs, b)) /\ H!Extends(Saved(g), Saved(f))
          /\ \A m \in Nat : Blank(f, m) => Blank(g, m)
      BY <1>2, <3>1, RestWritten
    <3> QED BY <3>1, <3>2
  <2> QED BY <2>2, HasEnd DEF Onward
<1> QED BY <1>1, <1>2 DEF Settled

LEMMA HasBlank ==
  ASSUME NEW f, NEW bs, Has(f, bs), bs = <<>>
  PROVE  Blank(f, 0)
<1>1. EndOf(bs) = 0
  BY DEF EndOf
<1> QED BY <1>1, HasParts

LEMMA BegunBlank ==
  ASSUME NEW f, NEW bs, NEW b, Begun(f, bs, b), bs = <<>>
  PROVE  Blank(f, 0)
<1>1. EndOf(bs) = 0
  BY DEF EndOf
<1> QED BY <1>1, BegunParts

(* The first and the second cell of b come into the file.                  *)
LEMMA AddressedPut ==
  ASSUME NEW f, NEW bs, NEW b, Has(f, bs), Row(Append(bs, b)),
         NEW g, g = Put(f, b.offset, b.pgstart)
  PROVE  /\ Addressed(g, <<>>, bs, b) /\ H!Extends(Saved(g), Saved(f)) /\ g \in Seq(Nat)
         /\ bs = <<>> => Blank(g, 0)
<1>1. Row(bs)
  BY HasEnd
<1>2. b \in BlockType /\ bs \in Seq(BlockType)
  BY <1>1, RowFacts, RowLast
<1>3. b.offset = EndOf(bs) /\ b.pgstart \in Nat
  BY <1>2, RowAppend, BlockFacts
<1>4. Has(g, bs) /\ Kept(f, g, bs) /\ b.offset < Len(g) /\ g[b.offset + 1] = b.pgstart
  BY <1>3, PutAddress
<1> QED BY <1>4, HasHasExtends, HasBlank, HasEnd DEF Addressed

LEMMA SizedPut ==
  ASSUME NEW f, NEW bs, NEW b, Has(f, bs), Row(Append(bs, b)),
         b.offset < Len(f), f[b.offset + 1] = b.pgstart,
         NEW g, g = Put(f, b.offset + 1, b.npages)
  PROVE  /\ Sized(g, <<>>, bs, b) /\ H!Extends(Saved(g), Saved(f)) /\ g \in Seq(Nat)
         /\ bs = <<>> => Blank(g, 0)
<1>1. Begun(g, bs, b) /\ Kept(f, g, bs)
  BY PutSize
<1> QED BY <1>1, HasBegunExtends, BegunBlank, BegunParts DEF Sized

(***************************************************************************)
(* A page is committed                                                     *)
(***************************************************************************)
LEMMA PutPage ==
  ASSUME NEW f, NEW bs, Has(f, bs), NEW i \in DOMAIN bs, NEW p \in PagesOf(bs[i]),
         NEW v \in Values, NEW g, g = Put(f, pgoffset(bs[i], p), v)
  PROVE  /\ Has(g, bs) /\ g[pgoffset(bs[i], p) + 1] = v
         /\ p \in DOMAIN Saved(f) /\ Saved(g) = [Saved(f) EXCEPT ![p] = v]
<1> DEFINE o == pgoffset(bs[i], p)
           e == EndOf(bs)
<1>1. /\ f \in Seq(Nat) /\ Row(bs) /\ e \in Nat /\ Len(f) \in Nat /\ e <= Len(f) /\ Blank(f, e)
      /\ (\A j \in DOMAIN bs : Whole(f, bs[j]))
      /\ e + 2 <= Len(f) => f[e + 2] = 0 \/ Len(f) < e + 2 + f[e + 2]
  BY HasParts
<1>2. bs[i] \in BlockType /\ DOMAIN bs = 1 .. Len(bs) /\ \A j \in DOMAIN bs : bs[j] \in BlockType
  BY <1>1, RowFacts
<1>3. /\ bs[i].offset \in Nat /\ NextOffset(bs[i]) \in Nat
      /\ o \in Nat /\ bs[i].offset + 2 <= o /\ o < NextOffset(bs[i])
      /\ o = bs[i].offset + 2 + (p - bs[i].pgstart)
  BY <1>2, BlockFacts
<1>4. NextOffset(bs[i]) <= e
  BY <1>1, RowEnd
<1>5. o < e /\ o < Len(f) /\ v \in Nat
  BY <1>1, <1>3, <1>4, HeapFileAssumption
<1> HIDE DEF o, e
<1>6. /\ g \in Seq(Nat) /\ Len(g) = Len(f) /\ g[o + 1] = v
      /\ \A k \in 1 .. Len(f) : k # o + 1 => g[k] = f[k]
  <2>1. g = Put(f, o, v)
    BY DEF o
  <2>2. o <= Len(f) /\ o \in Nat /\ v \in Nat /\ f \in Seq(Nat)
    <3>1. Len(f) \in Nat /\ f \in Seq(Nat)
      BY <1>1
    <3> QED BY <1>3, <1>5, <3>1
  <2>3. /\ g \in Seq(Nat) /\ Len(g) = (IF o < Len(f) THEN Len(f) ELSE o + 1) /\ g[o + 1] = v
        /\ \A k \in 1 .. Len(f) : k # o + 1 => g[k] = f[k]
    BY <2>1, <2>2, PutCell
  <2> QED BY <1>5, <2>3
<1>7. ASSUME NEW j \in DOMAIN bs, NEW r \in PagesOf(bs[j])
      PROVE  /\ pgoffset(bs[j], r) + 1 \in 1 .. Len(f)
             /\ pgoffset(bs[j], r) + 1 = o + 1 <=> r = p
  <2>1. bs[j] \in BlockType
    BY <1>2
  <2>2. /\ bs[j].offset \in Nat /\ NextOffset(bs[j]) \in Nat
        /\ pgoffset(bs[j], r) \in Nat /\ pgoffset(bs[j], r) < NextOffset(bs[j])
        /\ bs[j].offset + 2 <= pgoffset(bs[j], r)
        /\ pgoffset(bs[j], r) = bs[j].offset + 2 + (r - bs[j].pgstart)
        /\ bs[j].pgstart \in Nat /\ r \in Int
    BY <2>1, BlockFacts
  <2>3. NextOffset(bs[j]) <= Len(f)
    BY <1>1 DEF Whole
  <2>4. pgoffset(bs[j], r) + 1 \in 1 .. Len(f)
    <3>1. /\ Len(f) \in Nat /\ NextOffset(bs[j]) \in Nat /\ pgoffset(bs[j], r) \in Nat
          /\ pgoffset(bs[j], r) < NextOffset(bs[j])
      BY ONLY <1>1, <2>2
    <3> QED BY ONLY <2>3, <3>1
  <2>5. CASE j = i
    <3>1. p \in Int
      BY <1>2, BlockFacts
    <3>2. /\ pgoffset(bs[j], r) = bs[i].offset + 2 + (r - bs[i].pgstart)
          /\ bs[i].offset \in Nat /\ bs[i].pgstart \in Nat /\ r \in Int
      BY <2>2, <2>5
    <3>3. pgoffset(bs[j], r) = o <=> r = p
      BY ONLY <1>3, <3>1, <3>2
    <3>4. pgoffset(bs[j], r) \in Nat /\ o \in Nat
      BY ONLY <1>3, <2>2
    <3>5. pgoffset(bs[j], r) + 1 = o + 1 <=> pgoffset(bs[j], r) = o
      BY ONLY <3>4
    <3> QED BY ONLY <2>4, <3>3, <3>5
  <2>6. CASE j # i
    <3>1. r # p
      <4>1. PagesOf(bs[j]) \cap PagesOf(bs[i]) = {}
        BY <1>1, <2>6 DEF Row
      <4> QED BY <4>1
    <3>2. i < j \/ j < i
      <4>1. i \in Int /\ j \in Int
        BY <1>2
      <4> QED BY <2>6, <4>1
    <3>3. NextOffset(bs[i]) <= bs[j].offset \/ NextOffset(bs[j]) <= bs[i].offset
      BY <1>1, <3>2, RowOrder
    <3>4. pgoffset(bs[j], r) # o
      BY <1>3, <2>2, <3>3
    <3> QED BY <1>3, <2>2, <2>4, <3>1, <3>4
  <2> QED BY <2>5, <2>6
<1>8. \A j \in DOMAIN bs : \A r \in PagesOf(bs[j]) :
        g[pgoffset(bs[j], r) + 1] = IF r = p THEN v ELSE f[pgoffset(bs[j], r) + 1]
  BY <1>6, <1>7
<1>9. ASSUME NEW j \in DOMAIN bs PROVE Whole(g, bs[j])
  <2>1. bs[j] \in BlockType
    BY <1>2
  <2>2. /\ bs[j].offset \in Nat /\ NextOffset(bs[j]) \in Nat /\ bs[j].offset + 2 <= NextOffset(bs[j])
    BY <2>1, BlockFacts
  <2>3. NextOffset(bs[j]) <= Len(f) /\ Headed(f, bs[j]) /\ \A r \in PagesOf(bs[j]) : f[pgoffset(bs[j], r) + 1] \in Values
    BY <1>1 DEF Whole
  <2>4. /\ bs[j].offset + 1 \in 1 .. Len(f) /\ bs[j].offset + 2 \in 1 .. Len(f)
    <3>1. Len(f) \in Nat
      BY <1>1
    <3> QED BY <2>2, <2>3, <3>1
  <2>5. bs[j].offset + 1 # o + 1 /\ bs[j].offset + 2 # o + 1
    <3>1. CASE j = i
      BY <1>3, <3>1
    <3>2. CASE j # i
      <4>1. i < j \/ j < i
        <5>1. i \in Int /\ j \in Int
          BY <1>2
        <5> QED BY <3>2, <5>1
      <4>2. NextOffset(bs[i]) <= bs[j].offset \/ NextOffset(bs[j]) <= bs[i].offset
        BY <1>1, <4>1, RowOrder
      <4> QED BY <1>3, <2>2, <4>2
    <3> QED BY <3>1, <3>2
  <2>6. Headed(g, bs[j])
    BY <1>6, <2>3, <2>4, <2>5 DEF Headed
  <2>7. \A r \in PagesOf(bs[j]) : g[pgoffset(bs[j], r) + 1] \in Values
    BY <1>8, <2>3
  <2> QED BY <1>6, <2>3, <2>6, <2>7 DEF Whole
<1>10. Has(g, bs)
  <2>1. Blank(g, e)
    <3>1. DOMAIN g = 1 .. Len(f) /\ DOMAIN f = 1 .. Len(f)
      BY <1>1, <1>6, LenProperties
    <3>2. ASSUME NEW k \in 1 .. Len(f), k > e + 2 PROVE g[k] = 0
      <4>1. k # o + 1
        BY <1>1, <1>3, <1>5, <3>2
      <4> QED BY <1>1, <1>6, <3>1, <3>2, <4>1 DEF Blank, Header
    <3> QED BY <3>1, <3>2 DEF Blank, Header
  <2>2. ASSUME e + 2 <= Len(g) PROVE g[e + 2] = 0 \/ Len(g) < e + 2 + g[e + 2]
    <3>1. e + 2 \in 1 .. Len(f) /\ e + 2 # o + 1
      BY <1>1, <1>3, <1>5, <1>6, <2>2
    <3>2. g[e + 2] = f[e + 2]
      BY <1>6, <3>1
    <3> QED BY <1>1, <1>6, <2>2, <3>2
  <2>3. e = EndOf(bs)
    BY DEF e
  <2> QED BY <1>1, <1>6, <1>9, <2>1, <2>2, <2>3, HasIs
<1>11. p \in DOMAIN Saved(f) /\ Saved(g) = [Saved(f) EXCEPT ![p] = v]
  <2> DEFINE s == Saved(f)
             t == Saved(g)
  <2>1. /\ DOMAIN s = Pages(bs) /\ s = [r \in Pages(bs) |-> s[r]]
        /\ \A j \in DOMAIN bs : \A r \in PagesOf(bs[j]) : s[r] = f[pgoffset(bs[j], r) + 1]
    BY SavedIs
  <2>2. /\ DOMAIN t = Pages(bs) /\ t = [r \in Pages(bs) |-> t[r]]
        /\ \A j \in DOMAIN bs : \A r \in PagesOf(bs[j]) : t[r] = g[pgoffset(bs[j], r) + 1]
    BY <1>10, SavedIs
  <2> HIDE DEF s, t
  <2>3. \A r : r \in Pages(bs) <=> \E j \in DOMAIN bs : r \in PagesOf(bs[j])
    BY <1>1, PagesIs
  <2>4. p \in DOMAIN s
    BY <2>1, <2>3
  <2>5. \A r \in Pages(bs) : t[r] = IF r = p THEN v ELSE s[r]
    BY <1>8, <2>1, <2>2, <2>3
  <2>6. t = [s EXCEPT ![p] = v]
    BY <2>1, <2>2, <2>5
  <2> QED BY <2>4, <2>6 DEF s, t
<1> QED BY <1>6, <1>10, <1>11 DEF o

(***************************************************************************)
(* The writes of one cell                                                  *)
(***************************************************************************)
LEMMA OnlyOne ==
  ASSUME NEW w, NEW o, NEW c, w = <<<<o, c>>>>
  PROVE  /\ w # <<>> /\ Head(w)[1] = o /\ Head(w)[2] = c /\ Tail(w) = <<>>
         /\ \A f : Written(f, w) = Put(f, o, c)
<1>1. Len(w) = 1 /\ w[1] = <<o, c>>
  OBVIOUS
<1>2. w # <<>> /\ Head(w) = <<o, c>>
  BY <1>1
<1>3. Tail(w) = <<>>
  OBVIOUS
<1> QED BY <1>2, <1>3, WrittenOne

LEMMA AddressedMoves ==
  ASSUME NEW f, NEW w, NEW bs, NEW b, Addressed(f, w, bs, b), Row(Append(bs, b)), NEW g,
         g = Written(f, w) \/ (w # <<>> /\ g = Put(f, Head(w)[1], Head(w)[2]))
  PROVE  /\ Addressed(g, <<>>, bs, b) /\ H!Extends(Saved(g), Saved(f)) /\ g \in Seq(Nat)
         /\ w # <<>> => Tail(w) = <<>>
         /\ bs = <<>> => Blank(g, 0)
<1>1. Has(f, bs)
  BY DEF Addressed
<1>2. CASE w = <<>>
  <2>1. g = f
    BY <1>2, WrittenNothing
  <2>2. Addressed(g, <<>>, bs, b)
    BY <1>2, <2>1
  <2> QED BY <1>1, <1>2, <2>1, <2>2, OnwardSame, HasEnd, HasBlank DEF Onward
<1>3. CASE w # <<>>
  <2>1. w = <<<<b.offset, b.pgstart>>>>
    BY <1>3 DEF Addressed
  <2>2. g = Put(f, b.offset, b.pgstart) /\ Tail(w) = <<>>
    BY <2>1, OnlyOne
  <2> QED BY <1>1, <2>2, AddressedPut
<1> QED BY <1>2, <1>3

LEMMA SizedMoves ==
  ASSUME NEW f, NEW w, NEW bs, NEW b, Sized(f, w, bs, b), Row(Append(bs, b)), NEW g,
         g = Written(f, w) \/ (w # <<>> /\ g = Put(f, Head(w)[1], Head(w)[2]))
  PROVE  /\ Sized(g, <<>>, bs, b) /\ H!Extends(Saved(g), Saved(f)) /\ g \in Seq(Nat)
         /\ w # <<>> => Tail(w) = <<>>
         /\ bs = <<>> => Blank(g, 0)
<1>1. CASE w = <<>>
  <2>1. g = f
    BY <1>1, WrittenNothing
  <2>2. Begun(f, bs, b)
    BY <1>1 DEF Sized
  <2>3. Len(f) \in Nat /\ (\A i \in DOMAIN bs : Whole(f, bs[i])) /\ f \in Seq(Nat)
    BY <2>2, BegunParts
  <2>4. H!Extends(Saved(f), Saved(f))
    BY <2>2, <2>3, KeptSelf, BegunExtends
  <2> QED BY <1>1, <2>1, <2>2, <2>3, <2>4, BegunBlank DEF Sized
<1>2. CASE w # <<>>
  <2>1. /\ w = <<<<b.offset + 1, b.npages>>>>
        /\ Has(f, bs) /\ b.offset < Len(f) /\ f[b.offset + 1] = b.pgstart
    BY <1>2 DEF Sized
  <2>2. g = Put(f, b.offset + 1, b.npages) /\ Tail(w) = <<>>
    BY <2>1, OnlyOne
  <2> QED BY <2>1, <2>2, SizedPut
<1> QED BY <1>1, <1>2

LEMMA PagedMoves ==
  ASSUME NEW f, NEW w, NEW bs, NEW p, NEW v \in Values, Paged(f, w, bs, p, v), NEW g,
         g = Written(f, w) \/ (w # <<>> /\ g = Put(f, Head(w)[1], Head(w)[2]))
  PROVE  /\ Paged(g, <<>>, bs, p, v) /\ Has(g, bs) /\ g \in Seq(Nat)
         /\ w # <<>> => Tail(w) = <<>>
         /\ p \in DOMAIN Saved(f) /\ Saved(f) = [r \in DOMAIN Saved(f) |-> Saved(f)[r]]
         /\ Saved(g) = [Saved(f) EXCEPT ![p] = v]
<1>1. Has(f, bs)
  BY DEF Paged
<1>2. PICK i \in DOMAIN bs :
        /\ p \in PagesOf(bs[i])
        /\ \/ w = <<>> /\ f[pgoffset(bs[i], p) + 1] = v
           \/ w = <<<<pgoffset(bs[i], p), v>>>>
  BY DEF Paged
<1> DEFINE s == Saved(f)
<1>3. /\ DOMAIN s = Pages(bs) /\ s = [r \in Pages(bs) |-> s[r]]
      /\ s[p] = f[pgoffset(bs[i], p) + 1]
  BY <1>1, <1>2, SavedIs
<1>4. p \in DOMAIN s /\ s = [r \in DOMAIN s |-> s[r]]
  <2>1. p \in Pages(bs)
    BY <1>1, <1>2, PagesIs, HasEnd
  <2> HIDE DEF s
  <2> QED BY <1>3, <2>1
<1>5. CASE w = <<>>
  <2>1. g = f
    BY <1>5, WrittenNothing
  <2>2. f[pgoffset(bs[i], p) + 1] = v
    <3>1. w # <<<<pgoffset(bs[i], p), v>>>>
      BY <1>5, OnlyOne
    <3> QED BY <1>2, <3>1
  <2>3. Paged(g, <<>>, bs, p, v)
    BY <1>1, <1>2, <2>1, <2>2 DEF Paged
  <2>4. s = [s EXCEPT ![p] = v]
    <3> HIDE DEF s
    <3> QED BY <1>3, <1>4, <2>2
  <2> QED BY <1>1, <1>4, <1>5, <2>1, <2>3, <2>4, HasEnd
<1>6. CASE w # <<>>
  <2>1. w = <<<<pgoffset(bs[i], p), v>>>>
    BY <1>2, <1>6
  <2>2. g = Put(f, pgoffset(bs[i], p), v) /\ Tail(w) = <<>>
    BY <2>1, OnlyOne
  <2>3. Has(g, bs) /\ g[pgoffset(bs[i], p) + 1] = v /\ Saved(g) = [Saved(f) EXCEPT ![p] = v]
    BY <1>1, <1>2, <2>2, PutPage
  <2>4. Paged(g, <<>>, bs, p, v)
    BY <1>2, <2>3 DEF Paged
  <2> QED BY <1>4, <2>2, <2>3, <2>4, HasEnd
<1> QED BY <1>5, <1>6

(***************************************************************************)
(* The steps                                                               *)
(***************************************************************************)

(* The file loses nothing and gets new blocks at most, or it gets the page *)
(* that the worker dumps.                                                  *)
Grows == H!Extends(Saved(file'), Saved(file))
Saves ==
  /\ mode = "run" /\ worker.page \in Mapped \cap DOMAIN Saved(file)
  /\ Saved(file') = [Saved(file) EXCEPT ![worker.page] = mem[worker.page]]

LEMMA Types ==
  ASSUME Inv
  PROVE  /\ file \in Seq(Nat) /\ pending \in Seq(Nat \X Nat)
         /\ pos \in Nat /\ filesize \in Nat
         /\ blocks \in Seq(BlockType)
         /\ mem \in [Addresses -> Values] /\ tmppage \in Addresses
         /\ main \in [block : BlockType \cup {NoBlock}, part : 0..4, sought : BOOLEAN]
         /\ worker \in [page : Addresses \cup {0}, step : {"asleep", "write", "flush"}]
         /\ mode \in {"boot", "first", "run"}
BY DEF Inv, TypeOK

LEMMA Parts ==
  ASSUME Inv
  PROVE  /\ TypeOK
         /\ Row(blocks) /\ filesize = EndOf(blocks) /\ tmppage \notin Mapped
         /\ mode = "boot" => Booting
         /\ mode = "first" => FirstRunning
         /\ main # Idle => Dumping
         /\ worker # Asleep => worker.step \in {"write", "flush"} /\ Committing
         /\ mode # "boot" /\ main = Idle /\ worker = Asleep => Settled(file, pending, blocks)
BY DEF Inv

(* Every file has the blocks of some row.                                  *)
LEMMA FileHas ==
  ASSUME Inv
  PROVE  \E bs : Has(file, bs)
<1>1. Row(blocks)
  BY Parts
<1>2. CASE mode = "boot"
  BY <1>2, Parts DEF Booting
<1>3. CASE mode # "boot" /\ main = Idle /\ worker = Asleep
  BY <1>1, <1>3, Parts, SettledHas
<1>4. CASE worker # Asleep
  <2>1. worker.step \in {"write", "flush"} /\ Committing
    BY <1>4, Parts
  <2> QED BY <2>1 DEF Committing, Paged
<1>5. CASE main # Idle
  <2>1. Dumping
    BY <1>5, Parts
  <2> DEFINE b == main.block
  <2>2. /\ Row(Append(blocks, b)) /\ main.part \in 1 .. 4
        /\ main.part = 1 => Settled(file, pending, blocks)
        /\ main.part = 2 => Addressed(file, pending, blocks, b)
        /\ main.part = 3 => Sized(file, pending, blocks, b)
        /\ main.part = 4 => Settled(file, pending, Append(blocks, b))
    BY <2>1 DEF Dumping
  <2> HIDE DEF b
  <2>3. CASE main.part = 1
    BY <1>1, <2>2, <2>3, SettledHas
  <2>4. CASE main.part = 2
    BY <2>2, <2>4 DEF Addressed
  <2>5. CASE main.part = 3
    <3>1. Begun(file, blocks, b) \/ Has(file, blocks)
      BY <2>2, <2>5 DEF Sized
    <3> QED BY <3>1, BegunHas
  <2>6. CASE main.part = 4
    BY <2>2, <2>6, SettledHas
  <2>7. main.part = 1 \/ main.part = 2 \/ main.part = 3 \/ main.part = 4
    BY <2>2
  <2> QED BY <2>3, <2>4, <2>5, <2>6, <2>7
<1> QED BY <1>2, <1>3, <1>4, <1>5

LEMMA SameFile ==
  ASSUME Inv, file' = file
  PROVE  Grows
<1>1. PICK bs : Has(file, bs)
  BY FileHas
<1> QED BY <1>1, OnwardSame DEF Onward, Grows

LEMMA TrickleHolds ==
  ASSUME Inv, Trickle
  PROVE  Inv' /\ (Grows \/ Saves)
<1>1. /\ pending # <<>> /\ file' = Put(file, Head(pending)[1], Head(pending)[2])
      /\ pending' = Tail(pending)
      /\ UNCHANGED <<pos, filesize, blocks, mem, tmppage, main, worker, mode>>
  BY DEF Trickle, heap
<1>2. pending \in Seq(Nat \X Nat) /\ Row(blocks)
  BY Types, Parts
<1>3. pending' \in Seq(Nat \X Nat)
  BY <1>1, <1>2, HeadTailProperties
<1>4. mode # "boot"
  BY <1>1, Parts DEF Booting
<1>5. ASSUME file' \in Seq(Nat) PROVE TypeOK'
  BY <1>1, <1>3, <1>5, Parts DEF TypeOK
<1>6. /\ Row(blocks)' /\ (filesize = EndOf(blocks))' /\ (tmppage \notin Mapped)'
      /\ (mode = "boot" => Booting)'
  BY <1>1, <1>4, Parts DEF Mapped
<1>7. ASSUME file' \in Seq(Nat), mode = "first" => Blank(file', 0),
             main # Idle => Dumping', worker # Asleep => Committing',
             main = Idle /\ worker = Asleep => Settled(file', pending', blocks)
      PROVE  Inv'
  <2>1. (mode = "first" => FirstRunning)'
    BY <1>1, <1>7, Parts DEF FirstRunning
  <2>2. (worker # Asleep => worker.step \in {"write", "flush"} /\ Committing)'
    BY <1>1, <1>7, Parts
  <2>3. (mode # "boot" /\ main = Idle /\ worker = Asleep => Settled(file, pending, blocks))'
    BY <1>1, <1>7
  <2>4. (main # Idle => Dumping)'
    BY <1>1, <1>7
  <2> QED BY <1>5, <1>6, <1>7, <2>1, <2>2, <2>3, <2>4 DEF Inv
<1>8. mode = "first" => Blank(file, 0)
  BY Parts DEF FirstRunning
<1>9. 0 \in Nat
  OBVIOUS
<1>10. CASE main = Idle /\ worker = Asleep
  <2>1. Settled(file, pending, blocks)
    BY <1>4, <1>10, Parts
  <2>2. Settled(file', pending', blocks) /\ Onward(file, file') /\ file' \in Seq(Nat)
    BY <1>1, <1>2, <2>1, SettledStep
  <2>3. mode = "first" => Blank(file', 0)
    BY <1>8, <1>9, <2>2 DEF Onward
  <2> QED BY <1>7, <1>10, <2>2, <2>3 DEF Onward, Grows
<1>11. CASE worker # Asleep
  <2>1. worker.step \in {"write", "flush"} /\ Committing
    BY <1>11, Parts
  <2>2. /\ mode = "run" /\ main = Idle /\ worker.step # "write" /\ worker.step = "flush"
        /\ Paged(file, pending, blocks, worker.page, mem[worker.page])
    BY <1>1, <2>1 DEF Committing
  <2>3. mem[worker.page] \in Values /\ worker.page \in Mapped
    <3>1. worker.page \in Mapped /\ Mapped \subseteq Addresses
      BY <1>2, <2>2, PagesIs DEF Paged, Mapped
    <3> QED BY <3>1, Types
  <2> DEFINE p == worker.page
             v == mem[worker.page]
  <2>4. v \in Values /\ Paged(file, pending, blocks, p, v)
    BY <2>2, <2>3
  <2> HIDE DEF p, v
  <2>5. /\ Paged(file', <<>>, blocks, p, v) /\ file' \in Seq(Nat) /\ Tail(pending) = <<>>
        /\ p \in DOMAIN Saved(file)
        /\ Saved(file') = [Saved(file) EXCEPT ![p] = v]
    BY <1>1, <2>4, PagedMoves
  <2>6. Saves
    BY <2>2, <2>3, <2>5 DEF Saves, p, v
  <2>7. Committing'
    <3>1. Paged(file', pending', blocks', worker'.page, mem'[worker'.page])
      BY <1>1, <2>5 DEF p, v
    <3> QED BY <1>1, <2>2, <3>1 DEF Committing
  <2> QED BY <1>7, <1>11, <2>2, <2>5, <2>6, <2>7
<1>12. CASE main # Idle
  <2>1. Dumping
    BY <1>12, Parts
  <2> DEFINE b == main.block
  <2>2. /\ worker = Asleep /\ main.part \in 1 .. 4 /\ ~main.sought
        /\ Row(Append(blocks, b)) /\ tmppage \notin PagesOf(b)
        /\ \A p \in PagesOf(b) : mem[p] = 0
        /\ main.part = 1 => Settled(file, pending, blocks)
        /\ main.part = 2 => Addressed(file, pending, blocks, b)
        /\ main.part = 3 => Sized(file, pending, blocks, b)
        /\ main.part = 4 => Settled(file, pending, Append(blocks, b))
    BY <1>1, <2>1, Types DEF Dumping
  <2>3. mode = "first" => blocks = <<>>
    BY <1>12, Parts DEF FirstRunning
  <2> DEFINE w == pending'
  <2>4. ASSUME main.part = 1 => Settled(file', w, blocks),
               main.part = 2 => Addressed(file', w, blocks, b),
               main.part = 3 => Sized(file', w, blocks, b),
               main.part = 4 => Settled(file', w, Append(blocks, b)),
               file' \in Seq(Nat), mode = "first" => Blank(file', 0)
        PROVE  Inv'
    <3>1. Dumping'
      BY <1>1, <1>4, <2>2, <2>4 DEF Dumping
    <3> QED BY <1>7, <1>12, <2>2, <2>4, <3>1
  <2> HIDE DEF b
  <2>5. CASE main.part = 1
    <3>1. Settled(file', w, blocks) /\ Onward(file, file') /\ file' \in Seq(Nat)
      BY <1>1, <1>2, <2>2, <2>5, SettledStep
    <3>2. mode = "first" => Blank(file', 0)
      BY <1>8, <1>9, <3>1 DEF Onward
    <3> QED BY <2>4, <2>5, <3>1, <3>2 DEF Onward, Grows
  <2>6. CASE main.part = 4
    <3>1. Settled(file', w, Append(blocks, b)) /\ Onward(file, file') /\ file' \in Seq(Nat)
      BY <1>1, <1>2, <2>2, <2>6, SettledStep
    <3>2. mode = "first" => Blank(file', 0)
      BY <1>8, <1>9, <3>1 DEF Onward
    <3> QED BY <2>4, <2>6, <3>1, <3>2 DEF Onward, Grows
  <2>7. CASE main.part = 2
    <3>1. /\ Addressed(file', <<>>, blocks, b) /\ H!Extends(Saved(file'), Saved(file))
          /\ file' \in Seq(Nat) /\ Tail(pending) = <<>>
          /\ blocks = <<>> => Blank(file', 0)
      BY <1>1, <2>2, <2>7, AddressedMoves
    <3>2. w = <<>>
      BY <1>1, <3>1
    <3>3. main.part # 1 /\ main.part # 3 /\ main.part # 4
      BY <2>7
    <3>4. mode = "first" => Blank(file', 0)
      BY <2>3, <3>1
    <3>5. Addressed(file', w, blocks, b)
      BY <3>1, <3>2
    <3> HIDE DEF w
    <3>6. Inv'
      BY <2>4, <3>1, <3>3, <3>4, <3>5
    <3> QED BY <3>1, <3>6 DEF Grows
  <2>8. CASE main.part = 3
    <3>1. /\ Sized(file', <<>>, blocks, b) /\ H!Extends(Saved(file'), Saved(file))
          /\ file' \in Seq(Nat) /\ Tail(pending) = <<>>
          /\ blocks = <<>> => Blank(file', 0)
      BY <1>1, <2>2, <2>8, SizedMoves
    <3>2. w = <<>>
      BY <1>1, <3>1
    <3>3. main.part # 1 /\ main.part # 2 /\ main.part # 4
      BY <2>8
    <3>4. mode = "first" => Blank(file', 0)
      BY <2>3, <3>1
    <3>5. Sized(file', w, blocks, b)
      BY <3>1, <3>2
    <3> HIDE DEF w
    <3>6. Inv'
      BY <2>4, <3>1, <3>3, <3>4, <3>5
    <3> QED BY <3>1, <3>6 DEF Grows
  <2>9. main.part = 1 \/ main.part = 2 \/ main.part = 3 \/ main.part = 4
    BY <2>2
  <2> QED BY <2>5, <2>6, <2>7, <2>8, <2>9
<1> QED BY <1>10, <1>11, <1>12

LEMMA MapHolds ==
  ASSUME Inv, NEW n \in Nat \ {0}, Map(n)
  PROVE  /\ \E x \in BlockType : main' = [block |-> x, part |-> 1, sought |-> FALSE]
         /\ Row(Append(blocks, main'.block)) /\ tmppage \notin PagesOf(main'.block)
         /\ \A p \in PagesOf(main'.block) : mem'[p] = 0
         /\ mem' \in [Addresses -> Values]
         /\ \A p \in Mapped : mem'[p] = mem[p]
         /\ (\A p \in Addresses : mem[p] = 0) => \A p \in Addresses : mem'[p] = 0
<1>1. PICK a \in Holes(n) :
        /\ main' = [block |-> [pgstart |-> a, npages |-> n, offset |-> filesize],
                    part |-> 1, sought |-> FALSE]
        /\ mem' = [p \in Addresses |-> IF p \in a .. (a + n - 1) THEN 0 ELSE mem[p]]
  BY DEF Map
<1> DEFINE b == [pgstart |-> a, npages |-> n, offset |-> filesize]
<1>2. a \in Addresses /\ a + n - 1 <= Top /\ (a .. (a + n - 1)) \cap (Mapped \cup {tmppage}) = {}
  BY DEF Holes
<1>3. /\ blocks \in Seq(BlockType) /\ filesize \in Nat /\ mem \in [Addresses -> Values]
      /\ Row(blocks) /\ filesize = EndOf(blocks) /\ tmppage \notin Mapped
  BY Types, Parts
<1>4. b \in BlockType
  <2>1. n \in 1 .. Top
    BY <1>2, HeapFileAssumption DEF Addresses
  <2> QED BY <1>2, <1>3, <2>1 DEF BlockType
<1>5. PagesOf(b) = a .. (a + n - 1) /\ b.offset = filesize
  BY DEF PagesOf
<1>6. PagesOf(b) \subseteq Addresses
  <2>1. \A p \in a .. (a + n - 1) : p \in Addresses
    BY <1>2, HeapFileAssumption DEF Addresses
  <2> QED BY <1>5, <2>1
<1>7. main' = [block |-> b, part |-> 1, sought |-> FALSE]
  BY <1>1
<1> HIDE DEF b
<1>8. main'.block = b /\ \E x \in BlockType : main' = [block |-> x, part |-> 1, sought |-> FALSE]
  BY <1>4, <1>7
<1>9. \A i \in DOMAIN blocks : PagesOf(blocks[i]) \cap PagesOf(b) = {}
  <2>1. \A i \in DOMAIN blocks : PagesOf(blocks[i]) \subseteq Mapped
    BY DEF Mapped, Pages
  <2> QED BY <1>2, <1>5, <2>1
<1>10. Row(Append(blocks, b))
  BY <1>3, <1>4, <1>5, <1>6, <1>9, RowAppend
<1>11. tmppage \notin PagesOf(b)
  BY <1>2, <1>5
<1>12. mem' = [p \in Addresses |-> IF p \in PagesOf(b) THEN 0 ELSE mem[p]]
  BY <1>1, <1>5
<1>13. mem' \in [Addresses -> Values] /\ \A p \in PagesOf(b) : mem'[p] = 0
  BY <1>3, <1>6, <1>12, HeapFileAssumption
<1>14. \A p \in Mapped : mem'[p] = mem[p]
  <2>1. Mapped \subseteq Addresses
    BY <1>3, PagesIs DEF Mapped
  <2>2. \A p \in Mapped : p \notin PagesOf(b)
    BY <1>2, <1>5
  <2> QED BY <1>12, <2>1, <2>2
<1>15. (\A p \in Addresses : mem[p] = 0) => \A p \in Addresses : mem'[p] = 0
  BY <1>12
<1> QED BY <1>8, <1>10, <1>11, <1>13, <1>14, <1>15

(* The start of an allocation.                                             *)
LEMMA MapInv ==
  ASSUME Inv, NEW n \in Nat \ {0}, Map(n), Settled(file, pending, blocks), worker = Asleep,
         UNCHANGED <<file, pending, pos, filesize, blocks, tmppage, worker>>,
         mode' \in {"first", "run"},
         mode' = "first" => /\ blocks = <<>> /\ Blank(file, 0)
                            /\ \A p \in Addresses : mem[p] = 0
  PROVE  Inv'
<1>1. /\ \E x \in BlockType : main' = [block |-> x, part |-> 1, sought |-> FALSE]
      /\ Row(Append(blocks, main'.block)) /\ tmppage \notin PagesOf(main'.block)
      /\ \A p \in PagesOf(main'.block) : mem'[p] = 0
      /\ mem' \in [Addresses -> Values]
      /\ (\A p \in Addresses : mem[p] = 0) => \A p \in Addresses : mem'[p] = 0
  BY MapHolds
<1>2. TypeOK'
  <2>1. main' \in [block : BlockType \cup {NoBlock}, part : 0..4, sought : BOOLEAN]
    <3>1. PICK b \in BlockType : main' = [block |-> b, part |-> 1, sought |-> FALSE]
      BY <1>1
    <3> QED BY <3>1
  <2> QED BY <1>1, <2>1, Types DEF TypeOK
<1>3. /\ Row(blocks)' /\ (filesize = EndOf(blocks))' /\ (tmppage \notin Mapped)'
      /\ mode' # "boot" /\ (worker = Asleep)'
  BY Parts DEF Mapped
<1>4. main'.part = 1 /\ main'.sought = FALSE
  BY <1>1
<1>5. Dumping'
  BY <1>1, <1>3, <1>4 DEF Dumping
<1>6. (main # Idle)'
  BY <1>4 DEF Idle
<1>7. (mode = "first" => FirstRunning)'
  BY <1>1 DEF FirstRunning
<1> QED BY <1>2, <1>3, <1>5, <1>6, <1>7 DEF Inv

LEMMA AllocPageHolds ==
  ASSUME Inv, Serial, NEW n \in Sizes, AllocPage(n)
  PROVE  Inv' /\ Grows /\ \A p \in Mapped : mem'[p] = mem[p]
<1>1. /\ mode = "run" /\ main = Idle /\ worker = Asleep /\ Map(n) /\ n \in Nat \ {0}
      /\ UNCHANGED <<file, pending, pos, filesize, blocks, tmppage, worker, mode>>
  BY HeapFileAssumption DEF AllocPage, stream
<1>2. Settled(file, pending, blocks)
  BY <1>1, Parts
<1>3. Inv'
  BY <1>1, <1>2, MapInv
<1>4. \A p \in Mapped : mem'[p] = mem[p]
  BY <1>1, MapHolds
<1> QED BY <1>1, <1>3, <1>4, SameFile

LEMMA FirstRunHolds ==
  ASSUME Inv, FirstRun
  PROVE  Inv' /\ Grows
<1>1. /\ mode = "boot" /\ ~Complete(file, filesize) /\ blocks = <<>> /\ Map(1) /\ mode' = "first"
      /\ UNCHANGED <<file, pending, pos, filesize, blocks, tmppage, worker>>
  BY DEF FirstRun, stream
<1>2. Booting /\ filesize = EndOf(blocks) /\ Row(blocks)
  BY <1>1, Parts
<1> DEFINE bs == Readable(file)
<1>3. /\ pending = <<>> /\ worker = Asleep /\ Has(file, bs)
      /\ \A p \in Addresses : mem[p] = 0
  BY <1>1, <1>2 DEF Booting
<1>4. filesize = 0
  BY <1>1, <1>2 DEF EndOf
<1>5. bs = <<>>
  <2> HIDE DEF bs
  <2>1. SUFFICES ASSUME bs # <<>> PROVE FALSE
    OBVIOUS
  <2>2. Row(bs) /\ Len(file) \in Nat /\ \A i \in DOMAIN bs : Whole(file, bs[i])
    BY <1>3, HasEnd
  <2>3. bs \in Seq(BlockType) /\ DOMAIN bs = 1 .. Len(bs)
    BY <2>2, RowFacts
  <2>4. 1 \in DOMAIN bs
    BY <2>1, <2>3, EmptySeq
  <2>5. bs[1] \in BlockType /\ bs[1].offset = 0 /\ Whole(file, bs[1])
    BY <2>2, <2>3, <2>4, RowFacts DEF Row
  <2>6. Complete(file, bs[1].offset)
    BY <2>2, <2>5, WholeComplete
  <2> QED BY <1>1, <1>4, <2>5, <2>6
<1>6. Settled(file, pending, blocks) /\ Blank(file, 0)
  <2>1. Has(file, blocks)
    BY <1>1, <1>3, <1>5
  <2> QED BY <1>1, <1>3, <2>1, HasBlank DEF Settled
<1>7. Inv'
  <2>1. 1 \in Nat \ {0} /\ mode' \in {"first", "run"}
    BY <1>1
  <2> QED BY <1>1, <1>3, <1>6, <2>1, MapInv
<1> QED BY <1>1, <1>7, SameFile

LEMMA DumpSeekHolds ==
  ASSUME Inv, DumpSeek
  PROVE  Inv' /\ Grows
<1> DEFINE b == main.block
<1>1. /\ main.part \in 1..3 /\ ~main.sought
      /\ file' = Written(file, pending) /\ pending' = <<>> /\ pos' = PartOffset(b, main.part)
      /\ main' = [main EXCEPT !.sought = TRUE]
      /\ UNCHANGED <<filesize, blocks, mem, tmppage, worker, mode>>
  BY DEF DumpSeek, fseek, Drain, heap
<1>2. main # Idle
  BY <1>1 DEF Idle
<1>3. Dumping
  BY <1>2, Parts
<1>4. /\ mode # "boot" /\ worker = Asleep /\ Row(Append(blocks, b)) /\ tmppage \notin PagesOf(b)
      /\ \A p \in PagesOf(b) : mem[p] = 0
      /\ main.part = 1 => Settled(file, pending, blocks)
      /\ main.part = 2 => Addressed(file, pending, blocks, b)
      /\ main.part = 3 => Sized(file, pending, blocks, b)
  BY <1>3 DEF Dumping
<1>5. main' \in [block : BlockType \cup {NoBlock}, part : 0..4, sought : BOOLEAN]
      /\ main'.block = b /\ main'.part = main.part /\ main'.sought = TRUE
  BY <1>1, Types
<1>6. pending \in Seq(Nat \X Nat) /\ Row(blocks) /\ pending' \in Seq(Nat \X Nat)
  BY <1>1, Types, Parts, EmptySeq
<1>7. b \in BlockType /\ pos' \in Nat
  <2>1. b \in BlockType
    BY <1>4, <1>6, RowLast
  <2> HIDE DEF b
  <2>2. b.offset \in Nat
    BY <2>1, BlockFacts
  <2> QED BY <1>1, <2>1, <2>2 DEF PartOffset
<1>8. ASSUME file' \in Seq(Nat), mode = "first" => Blank(file', 0),
             main.part = 1 => Settled(file', <<>>, blocks),
             main.part = 2 => Addressed(file', <<>>, blocks, b),
             main.part = 3 => Sized(file', <<>>, blocks, b)
      PROVE  Inv'
  <2>1. TypeOK'
    BY <1>1, <1>5, <1>6, <1>7, <1>8, Types DEF TypeOK
  <2>2. /\ Row(blocks)' /\ (filesize = EndOf(blocks))' /\ (tmppage \notin Mapped)'
        /\ mode' # "boot" /\ (worker = Asleep)'
    BY <1>1, <1>4, Parts DEF Mapped
  <2>3. Dumping'
    <3>1. main'.part \in 1 .. 4 /\ main'.part # 4 /\ main'.part <= 3
      BY <1>1, <1>5
    <3>2. pos' = PartOffset(main'.block, main'.part)
      BY <1>1, <1>5
    <3> HIDE DEF b
    <3> QED BY <1>1, <1>4, <1>5, <1>8, <2>2, <3>1, <3>2 DEF Dumping
  <2>4. (main # Idle)'
    BY <1>5 DEF Idle
  <2>5. (mode = "first" => FirstRunning)'
    <3>1. mode = "first" => blocks = <<>> /\ \A p \in Addresses : mem[p] = 0
      BY <1>2, Parts DEF FirstRunning
    <3> QED BY <1>1, <1>8, <3>1 DEF FirstRunning
  <2> QED BY <2>1, <2>2, <2>3, <2>4, <2>5 DEF Inv
<1> HIDE DEF b
<1>9. mode = "first" => blocks = <<>> /\ Blank(file, 0)
  BY <1>2, Parts DEF FirstRunning
<1>10. 0 \in Nat
  OBVIOUS
<1>11. CASE main.part = 1
  <2>1. Has(file', blocks) /\ Onward(file, file') /\ file' \in Seq(Nat)
    BY <1>1, <1>4, <1>6, <1>11, SettledWritten
  <2>2. Settled(file', <<>>, blocks)
    BY <2>1 DEF Settled
  <2>3. mode = "first" => Blank(file', 0)
    BY <1>9, <1>10, <2>1 DEF Onward
  <2> QED BY <1>8, <1>11, <2>1, <2>2, <2>3 DEF Onward, Grows
<1>12. CASE main.part = 2
  <2>1. /\ Addressed(file', <<>>, blocks, b) /\ H!Extends(Saved(file'), Saved(file))
        /\ file' \in Seq(Nat)
        /\ blocks = <<>> => Blank(file', 0)
    BY <1>1, <1>4, <1>12, AddressedMoves
  <2> QED BY <1>8, <1>9, <1>12, <2>1 DEF Grows
<1>13. CASE main.part = 3
  <2>1. /\ Sized(file', <<>>, blocks, b) /\ H!Extends(Saved(file'), Saved(file))
        /\ file' \in Seq(Nat)
        /\ blocks = <<>> => Blank(file', 0)
    BY <1>1, <1>4, <1>13, SizedMoves
  <2> QED BY <1>8, <1>9, <1>13, <2>1 DEF Grows
<1> QED BY <1>1, <1>11, <1>12, <1>13

LEMMA WriteOne ==
  ASSUME NEW w, w = <<>>, NEW k \in Nat, NEW c
  PROVE  w \o [i \in DOMAIN <<c>> |-> <<k + i - 1, <<c>>[i]>>] = <<<<k, c>>>>
<1> DEFINE s == [i \in DOMAIN <<c>> |-> <<k + i - 1, <<c>>[i]>>]
<1>1. DOMAIN <<c>> = 1 .. 1 /\ <<c>>[1] = c
  OBVIOUS
<1>2. s = [i \in 1 .. 1 |-> <<k, c>>]
  BY <1>1
<1>3. s = <<<<k, c>>>>
  <2> DEFINE d == <<k, c>>
  <2> HIDE DEF d, s
  <2>1. s = [i \in 1 .. 1 |-> d]
    BY <1>2 DEF d
  <2>2. s = <<d>>
    BY <2>1
  <2> QED BY <2>2 DEF d
<1> DEFINE d == <<k, c>>
<1>4. w \o <<d>> = <<d>>
  <2> HIDE DEF d
  <2>1. <<d>> \in Seq({d})
    OBVIOUS
  <2> QED BY <2>1, ConcatEmptySeq
<1> HIDE DEF s
<1>5. w \o s = <<<<k, c>>>>
  BY <1>3, <1>4
<1> QED BY <1>5 DEF s

(* n zeros, written from k on.                                             *)
Zeros(cells, n) == cells = [i \in 1 .. n |-> 0]
Placed(x, w, k, cells) == x = w \o [i \in DOMAIN cells |-> <<k + i - 1, cells[i]>>]

LEMMA WriteZeros ==
  ASSUME NEW w, w = <<>>, NEW k \in Nat, NEW n \in Nat \ {0},
         NEW cells, Zeros(cells, n), NEW x, Placed(x, w, k, cells)
  PROVE  /\ x \in Seq(Nat \X Nat) /\ x # <<>> /\ Len(x) = n /\ Len(cells) = n
         /\ \A i \in DOMAIN x : x[i] = <<k + i - 1, 0>>
<1> DEFINE s == [i \in 1 .. n |-> <<k + i - 1, 0>>]
<1>1. DOMAIN cells = 1 .. n /\ \A i \in 1 .. n : cells[i] = 0
  BY DEF Zeros
<1>2. [i \in DOMAIN cells |-> <<k + i - 1, cells[i]>>] = s
  BY <1>1
<1>3. s \in [1 .. n -> Nat \X Nat]
  <2>1. \A i \in 1 .. n : k + i - 1 \in Nat
    OBVIOUS
  <2> QED BY <2>1
<1>4. DOMAIN s = 1 .. n /\ \A i \in 1 .. n : s[i] = <<k + i - 1, 0>>
  OBVIOUS
<1> HIDE DEF s
<1>5. s \in Seq(Nat \X Nat) /\ Len(s) = n
  <2>1. s \in Seq(Nat \X Nat)
    BY <1>3, SeqDef
  <2> QED BY <1>4, <2>1, LenProperties
<1>6. x = s
  BY <1>2, <1>5, ConcatEmptySeq DEF Placed
<1>7. Len(cells) = n
  <2>1. cells \in [1 .. n -> {0}]
    BY DEF Zeros
  <2>2. cells \in Seq({0})
    BY <2>1, SeqDef
  <2> QED BY <1>1, <2>2, LenProperties
<1>8. s # <<>>
  BY <1>5, EmptySeq
<1> QED BY <1>4, <1>5, <1>6, <1>7, <1>8

LEMMA DumpWriteHolds ==
  ASSUME Inv, DumpWrite
  PROVE  Inv' /\ Grows
<1> DEFINE b == main.block
           c == PartCells(b, main.part)
<1>1. /\ main.part \in 1..3 /\ main.sought
      /\ pending' = pending \o [i \in DOMAIN c |-> <<pos + i - 1, c[i]>>]
      /\ pos' = pos + Len(c)
      /\ main' = [main EXCEPT !.part = @ + 1, !.sought = FALSE]
      /\ UNCHANGED <<file, filesize, blocks, mem, tmppage, worker, mode>>
  BY DEF DumpWrite, fwrite, heap
<1>2. main # Idle
  BY <1>1 DEF Idle
<1>3. Dumping
  BY <1>2, Parts
<1>4. /\ mode # "boot" /\ worker = Asleep /\ Row(Append(blocks, b)) /\ tmppage \notin PagesOf(b)
      /\ (\A p \in PagesOf(b) : mem[p] = 0)
      /\ pending = <<>> /\ pos = PartOffset(b, main.part)
      /\ main.part = 1 => Settled(file, pending, blocks)
      /\ main.part = 2 => Addressed(file, pending, blocks, b)
      /\ main.part = 3 => Sized(file, pending, blocks, b)
  BY <1>1, <1>3 DEF Dumping
<1>5. main' \in [block : BlockType \cup {NoBlock}, part : 0..4, sought : BOOLEAN]
      /\ main'.block = b /\ main'.part = main.part + 1 /\ main'.sought = FALSE
  <2>1. main \in [block : BlockType \cup {NoBlock}, part : 0..4, sought : BOOLEAN]
    BY Types
  <2>2. main.part + 1 \in 0..4
    BY <1>1
  <2>3. main' = [main EXCEPT !.part = main.part + 1, !.sought = FALSE]
    BY <1>1
  <2> QED BY <2>1, <2>2, <2>3
<1>6. Row(blocks) /\ blocks \in Seq(BlockType) /\ pos \in Nat
  BY Types, Parts
<1>7. b \in BlockType
  BY <1>4, <1>6, RowLast
<1> DEFINE w == pending'
<1>8. ASSUME w \in Seq(Nat \X Nat), pos' \in Nat,
             main.part = 1 => Addressed(file, w, blocks, b),
             main.part = 2 => Sized(file, w, blocks, b),
             main.part = 3 => Settled(file, w, Append(blocks, b))
      PROVE  Inv' /\ Grows
  <2>1. TypeOK'
    BY <1>1, <1>5, <1>8, Types DEF TypeOK
  <2>2. /\ Row(blocks)' /\ (filesize = EndOf(blocks))' /\ (tmppage \notin Mapped)'
        /\ mode' # "boot" /\ (worker = Asleep)'
    BY <1>1, <1>4, Parts DEF Mapped
  <2>3. Dumping'
    <3>1. /\ main'.part \in 1 .. 4 /\ main'.part # 1
          /\ main'.part = 2 => main.part = 1
          /\ main'.part = 3 => main.part = 2
          /\ main'.part = 4 => main.part = 3
      BY <1>1, <1>5
    <3> HIDE DEF b
    <3> QED BY <1>1, <1>4, <1>5, <1>8, <2>2, <3>1 DEF Dumping
  <2>4. (main # Idle)'
    <3>1. main'.part # 0
      BY <1>1, <1>5
    <3> QED BY <3>1 DEF Idle
  <2>5. (mode = "first" => FirstRunning)'
    <3>1. mode = "first" => blocks = <<>> /\ Blank(file, 0) /\ \A p \in Addresses : mem[p] = 0
      BY <1>2, Parts DEF FirstRunning
    <3> QED BY <1>1, <3>1 DEF FirstRunning
  <2>6. Inv'
    BY <2>1, <2>2, <2>3, <2>4, <2>5 DEF Inv
  <2> QED BY <1>1, <2>6, SameFile
<1>9. b.offset \in Nat /\ b.pgstart \in Nat /\ b.npages \in Nat \ {0} /\ NextOffset(b) = b.offset + 2 + b.npages
      /\ \A p : p \in PagesOf(b) <=> p \in Int /\ b.pgstart <= p /\ p < b.pgstart + b.npages
  BY <1>7, BlockFacts
<1>10. ASSUME NEW k \in Nat, NEW d \in Nat, w = <<<<k, d>>>>
       PROVE  w \in Seq(Nat \X Nat)
  <2> DEFINE e == <<k, d>>
  <2>1. e \in Nat \X Nat
    OBVIOUS
  <2> HIDE DEF e
  <2>2. <<e>> \in Seq(Nat \X Nat)
    BY <2>1
  <2> QED BY <1>10, <2>2 DEF e
<1>11. CASE main.part = 1
  <2>1. c = <<b.pgstart>> /\ Len(c) = 1 /\ pos = b.offset
    BY <1>4, <1>9, <1>11 DEF PartCells, PartOffset
  <2>2. w = <<<<b.offset, b.pgstart>>>>
    <3> HIDE DEF b
    <3> QED BY <1>1, <1>4, <1>9, <2>1, WriteOne
  <2>3. w \in Seq(Nat \X Nat) /\ pos' \in Nat
    <3>1. w \in Seq(Nat \X Nat)
      BY <1>9, <1>10, <2>2
    <3> HIDE DEF c
    <3> QED BY <1>1, <1>6, <2>1, <3>1
  <2>4. Has(file, blocks)
    BY <1>4, <1>11 DEF Settled
  <2>5. Addressed(file, w, blocks, b)
    BY <2>2, <2>4 DEF Addressed
  <2> HIDE DEF w, b
  <2> QED BY <1>8, <1>11, <2>3, <2>5
<1>12. CASE main.part = 2
  <2>1. c = <<b.npages>> /\ Len(c) = 1 /\ pos = b.offset + 1
    BY <1>4, <1>9, <1>12 DEF PartCells, PartOffset
  <2>2. w = <<<<b.offset + 1, b.npages>>>>
    <3> DEFINE k == b.offset + 1
    <3>1. k \in Nat /\ pos = k
      BY <1>9, <2>1
    <3> HIDE DEF b, k
    <3>2. w = <<<<k, b.npages>>>>
      BY <1>1, <1>4, <1>9, <2>1, <3>1, WriteOne
    <3> QED BY <3>2 DEF k
  <2>3. w \in Seq(Nat \X Nat) /\ pos' \in Nat
    <3>1. b.offset + 1 \in Nat /\ b.npages \in Nat
      BY <1>9
    <3>2. w \in Seq(Nat \X Nat)
      BY <1>10, <2>2, <3>1
    <3> QED BY <1>1, <1>6, <2>1, <3>2
  <2>4. Has(file, blocks) /\ b.offset < Len(file) /\ file[b.offset + 1] = b.pgstart
    <3>1. pending # <<<<b.offset, b.pgstart>>>>
      BY <1>4, OnlyOne
    <3> QED BY <1>4, <1>12, <3>1 DEF Addressed
  <2>5. Sized(file, w, blocks, b)
    BY <2>2, <2>4 DEF Sized
  <2> HIDE DEF w, b
  <2> QED BY <1>8, <1>12, <2>3, <2>5
<1>13. CASE main.part = 3
  <2> DEFINE n == b.npages
  <2>1. c = [i \in 1 .. n |-> mem[b.pgstart + i - 1]] /\ pos = b.offset + 2
    BY <1>4, <1>9, <1>13 DEF PartCells, PartOffset
  <2>2. c = [i \in 1 .. n |-> 0]
    <3>1. \A i \in 1 .. n : b.pgstart + i - 1 \in PagesOf(b)
      BY <1>9
    <3> QED BY <1>4, <2>1, <3>1
  <2>3. /\ w \in Seq(Nat \X Nat) /\ w # <<>> /\ Len(w) = n /\ Len(c) = n
        /\ \A i \in DOMAIN w : w[i] = <<pos + i - 1, 0>>
    <3>1. n \in Nat \ {0} /\ pos \in Nat
      BY <1>6, <1>9
    <3>2. pending = <<>> /\ Placed(w, pending, pos, c) /\ Zeros(c, n)
      BY <1>1, <1>4, <2>2 DEF Placed, Zeros
    <3> HIDE DEF n, c, w
    <3> QED BY <3>1, <3>2, WriteZeros
  <2>4. pos' \in Nat
    <3>1. pos' = pos + Len(c) /\ pos \in Nat
      BY <1>1, <1>6
    <3>2. Len(c) = n /\ n \in Nat
      BY <1>9, <2>3
    <3> HIDE DEF c, n
    <3> QED BY <3>1, <3>2
  <2>5. Begun(file, blocks, b)
    <3>1. pending # <<<<b.offset + 1, b.npages>>>>
      BY <1>4, OnlyOne
    <3> QED BY <1>4, <1>13, <3>1 DEF Sized
  <2>6. RestOf(file, w, b)
    <3>1. pos \in (b.offset + 2) .. Len(file)
      <4>1. Len(file) \in Nat /\ b.offset + 2 <= Len(file)
        BY <2>5, BegunParts
      <4> QED BY <1>9, <2>1, <4>1
    <3>2. pos + Len(w) = NextOffset(b)
      BY <1>9, <2>1, <2>3
    <3> HIDE DEF w, b
    <3> QED BY <2>3, <3>1, <3>2 DEF RestOf, Header
  <2>7. Settled(file, w, Append(blocks, b))
    <3> HIDE DEF w, b
    <3>1. Front(Append(blocks, b)) = blocks /\ Last(Append(blocks, b)) = b /\ Append(blocks, b) # <<>>
      BY <1>6, <1>7, FrontLastAppend
    <3> QED BY <2>3, <2>5, <2>6, <3>1 DEF Settled
  <2> HIDE DEF w, b
  <2> QED BY <1>8, <1>13, <2>3, <2>4, <2>7
<1> QED BY <1>1, <1>11, <1>12, <1>13

LEMMA AllocEndHolds ==
  ASSUME Inv, AllocEnd
  PROVE  Inv' /\ Grows /\ \A p \in PagesOf(main.block) : mem[p] = 0
<1> DEFINE b == main.block
<1>1. /\ main.part = 4 /\ filesize' = filesize + nvfsize(b)
      /\ blocks' = Append(blocks, b) /\ main' = Idle
      /\ UNCHANGED <<file, pending, pos, mem, tmppage, worker, mode>>
  BY DEF AllocEnd, stream
<1>2. main # Idle
  BY <1>1 DEF Idle
<1>3. Dumping
  BY <1>2, Parts
<1>4. /\ mode # "boot" /\ worker = Asleep /\ Row(Append(blocks, b)) /\ tmppage \notin PagesOf(b)
      /\ (\A p \in PagesOf(b) : mem[p] = 0)
      /\ Settled(file, pending, Append(blocks, b))
  BY <1>1, <1>3 DEF Dumping
<1>5. Row(blocks) /\ blocks \in Seq(BlockType) /\ filesize = EndOf(blocks) /\ tmppage \notin Mapped
  BY Types, Parts
<1>6. b \in BlockType
  BY <1>4, <1>5, RowLast
<1>7. b.offset = EndOf(blocks) /\ EndOf(Append(blocks, b)) = NextOffset(b)
  BY <1>4, <1>5, <1>6, RowAppend
<1>8. blocks' \in Seq(BlockType) /\ Row(blocks') /\ filesize' = EndOf(blocks') /\ filesize' \in Nat
  <2>1. NextOffset(b) = filesize + nvfsize(b)
    BY <1>5, <1>7 DEF NextOffset
  <2>2. NextOffset(b) \in Nat
    BY <1>6, BlockFacts
  <2> QED BY <1>1, <1>4, <1>5, <1>6, <1>7, <2>1, <2>2
<1>9. tmppage \notin Pages(blocks')
  <2>1. \A i \in DOMAIN blocks' : (i \in DOMAIN blocks /\ blocks'[i] = blocks[i]) \/ blocks'[i] = b
    <3>1. /\ DOMAIN blocks = 1 .. Len(blocks) /\ Len(blocks) \in Nat /\ Len(blocks') = Len(blocks) + 1
          /\ (\A i \in 1 .. Len(blocks) : blocks'[i] = blocks[i]) /\ blocks'[Len(blocks) + 1] = b
      BY <1>1, <1>5, <1>6, AppendProperties, LenProperties
    <3>2. DOMAIN blocks' = 1 .. (Len(blocks) + 1)
      BY <1>8, <3>1, LenProperties
    <3>3. \A i \in 1 .. (Len(blocks) + 1) : i \in 1 .. Len(blocks) \/ i = Len(blocks) + 1
      BY <3>1
    <3> QED BY <3>1, <3>2, <3>3
  <2> QED BY <1>4, <1>5, <2>1 DEF Mapped, Pages
<1>10. TypeOK'
  BY <1>1, <1>8, Types DEF TypeOK, Idle
<1>11. (mode = "first" => FirstRunning)'
  <2>1. mode = "first" => Blank(file, 0) /\ \A p \in Addresses : mem[p] = 0
    BY Parts DEF FirstRunning
  <2> QED BY <1>1, <2>1 DEF FirstRunning
<1>12. Inv'
  <2>1. (mode # "boot" /\ main = Idle /\ worker = Asleep)' /\ Settled(file, pending, blocks)'
    BY <1>1, <1>4
  <2>2. (tmppage \notin Mapped)' /\ (mode = "boot" => Booting)'
    BY <1>1, <1>4, <1>9 DEF Mapped
  <2> QED BY <1>8, <1>10, <1>11, <2>1, <2>2 DEF Inv
<1> QED BY <1>1, <1>4, <1>12, SameFile

LEMMA StoreHolds ==
  ASSUME Inv, NEW p \in Addresses, NEW v \in Values, Store(p, v)
  PROVE  Inv' /\ Grows
<1>1. /\ mode = "run" /\ p \in Mapped /\ worker.page # p /\ mem' = [mem EXCEPT ![p] = v]
      /\ UNCHANGED <<file, pending, pos, filesize, blocks, tmppage, main, worker, mode>>
  BY DEF Store, stream
<1>2. mem \in [Addresses -> Values]
  BY Types
<1>3. mem' \in [Addresses -> Values] /\ \A r : r # p => mem'[r] = mem[r]
  BY <1>1, <1>2
<1>4. TypeOK'
  BY <1>1, <1>3, Types DEF TypeOK
<1>5. /\ Row(blocks)' /\ (filesize = EndOf(blocks))' /\ (tmppage \notin Mapped)'
      /\ (mode = "boot" => Booting)' /\ (mode = "first" => FirstRunning)'
      /\ (mode # "boot" /\ main = Idle /\ worker = Asleep => Settled(file, pending, blocks))'
  BY <1>1, Parts DEF Mapped
<1>6. ASSUME main # Idle PROVE Dumping'
  <2> DEFINE b == main.block
  <2>1. Dumping /\ Row(blocks)
    BY <1>6, Parts
  <2>2. Row(Append(blocks, b)) /\ b \in BlockType /\ blocks \in Seq(BlockType)
    BY <2>1, RowLast, RowFacts DEF Dumping
  <2>3. p \notin PagesOf(b)
    <3>1. \A i \in DOMAIN blocks : PagesOf(blocks[i]) \cap PagesOf(b) = {}
      BY <2>2, RowAppend
    <3> QED BY <1>1, <3>1 DEF Mapped, Pages
  <2>4. \A r \in PagesOf(b) : mem'[r] = 0
    BY <1>3, <2>1, <2>3 DEF Dumping
  <2> QED BY <1>1, <2>1, <2>4 DEF Dumping
<1>7. ASSUME worker # Asleep PROVE worker.step \in {"write", "flush"} /\ Committing'
  <2>1. worker.step \in {"write", "flush"} /\ Committing
    BY <1>7, Parts
  <2>2. mem'[worker.page] = mem[worker.page]
    BY <1>1, <1>3
  <2> QED BY <1>1, <2>1, <2>2 DEF Committing
<1>8. Inv'
  BY <1>1, <1>4, <1>5, <1>6, <1>7 DEF Inv
<1> QED BY <1>1, <1>8, SameFile

LEMMA CommitSeekHolds ==
  ASSUME Inv, Serial, NEW p \in Addresses, CommitSeek(p)
  PROVE  Inv' /\ Grows
<1>1. /\ mode = "run" /\ worker = Asleep /\ main = Idle
      /\ file' = Written(file, pending) /\ pending' = <<>>
      /\ worker' = [page |-> p, step |-> "write"]
      /\ UNCHANGED <<filesize, blocks, mem, tmppage, main, mode>>
  BY DEF CommitSeek, fseek, Drain, heap
<1>2. PICK i \in DOMAIN blocks : p \in PagesOf(blocks[i]) /\ pos' = pgoffset(blocks[i], p)
  BY DEF CommitSeek, fseek
<1>3. Row(blocks) /\ pending \in Seq(Nat \X Nat) /\ Settled(file, pending, blocks)
  BY <1>1, Types, Parts
<1>4. Has(file', blocks) /\ Onward(file, file') /\ file' \in Seq(Nat)
  BY <1>1, <1>3, SettledWritten
<1>5. pos' \in Nat
  <2>1. blocks[i] \in BlockType
    BY <1>3, RowFacts
  <2> QED BY <1>2, <2>1, BlockFacts
<1>6. worker'.page = p /\ worker'.step = "write" /\ worker' # Asleep
      /\ worker' \in [page : Addresses \cup {0}, step : {"asleep", "write", "flush"}]
  BY <1>1 DEF Asleep
<1>7. TypeOK'
  <2>1. pending' \in Seq(Nat \X Nat)
    BY <1>1, EmptySeq
  <2> QED BY <1>1, <1>4, <1>5, <1>6, <2>1, Types DEF TypeOK
<1>8. Committing'
  BY <1>1, <1>2, <1>4, <1>6 DEF Committing
<1>9. Inv'
  <2>1. /\ Row(blocks)' /\ (filesize = EndOf(blocks))' /\ (tmppage \notin Mapped)'
        /\ mode' = "run" /\ main' = Idle
    BY <1>1, Parts DEF Mapped
  <2> QED BY <1>6, <1>7, <1>8, <2>1 DEF Inv
<1> QED BY <1>4, <1>9 DEF Onward, Grows

LEMMA CommitWriteHolds ==
  ASSUME Inv, CommitWrite
  PROVE  Inv' /\ Grows
<1> DEFINE p == worker.page
           c == <<mem[p]>>
<1>1. /\ worker.step = "write"
      /\ pending' = pending \o [i \in DOMAIN c |-> <<pos + i - 1, c[i]>>]
      /\ pos' = pos + Len(c)
      /\ worker' = [worker EXCEPT !.step = "flush"]
      /\ UNCHANGED <<file, filesize, blocks, mem, tmppage, main, mode>>
  BY DEF CommitWrite, fwrite, heap
<1>2. worker # Asleep
  BY <1>1 DEF Asleep
<1>3. Committing
  BY <1>2, Parts
<1>4. mode = "run" /\ main = Idle /\ pending = <<>> /\ Has(file, blocks)
  BY <1>1, <1>3 DEF Committing
<1>5. PICK i \in DOMAIN blocks : p \in PagesOf(blocks[i]) /\ pos = pgoffset(blocks[i], p)
  BY <1>1, <1>3 DEF Committing
<1>6. /\ worker' \in [page : Addresses \cup {0}, step : {"asleep", "write", "flush"}]
      /\ worker'.page = p /\ worker'.step = "flush" /\ worker' # Asleep
  BY <1>1, Types DEF Asleep
<1>7. mem[p] \in Values /\ mem[p] \in Nat /\ pos \in Nat
  <2>1. Row(blocks)
    BY Parts
  <2>2. p \in Addresses
    BY <1>5, <2>1 DEF Row
  <2> QED BY <2>2, Types, HeapFileAssumption
<1>8. pending' = <<<<pos, mem[p]>>>>
  <2> HIDE DEF p
  <2> QED BY <1>1, <1>4, <1>7, WriteOne
<1>9. pending' \in Seq(Nat \X Nat) /\ pos' \in Nat
  <2> DEFINE e == <<pos, mem[p]>>
  <2>1. e \in Nat \X Nat
    BY <1>7
  <2>2. Len(c) = 1
    OBVIOUS
  <2> HIDE DEF e, c
  <2>3. <<e>> \in Seq(Nat \X Nat)
    BY <2>1
  <2>4. pos' \in Nat
    BY <1>1, <1>7, <2>2
  <2> QED BY <1>8, <2>3, <2>4 DEF e
<1>10. TypeOK'
  BY <1>1, <1>6, <1>9, Types DEF TypeOK
<1>11. Committing'
  <2>1. Paged(file, pending', blocks, p, mem[p])
    BY <1>4, <1>5, <1>8 DEF Paged
  <2> QED BY <1>1, <1>4, <1>6, <2>1 DEF Committing
<1>12. Inv'
  <2>1. /\ Row(blocks)' /\ (filesize = EndOf(blocks))' /\ (tmppage \notin Mapped)'
        /\ mode' = "run" /\ main' = Idle
    BY <1>1, <1>4, Parts DEF Mapped
  <2> QED BY <1>6, <1>10, <1>11, <2>1 DEF Inv
<1> QED BY <1>1, <1>12, SameFile

LEMMA CommitFlushHolds ==
  ASSUME Inv, CommitFlush
  PROVE  /\ Inv' /\ Saves /\ worker.page \in DOMAIN Saved(file')
         /\ Saved(file')[worker.page] = mem[worker.page]
<1> DEFINE p == worker.page
           v == mem[p]
<1>1. /\ worker.step = "flush" /\ file' = Written(file, pending) /\ pending' = <<>> /\ worker' = Asleep
      /\ UNCHANGED <<pos, filesize, blocks, mem, tmppage, main, mode>>
  BY DEF CommitFlush, fflush, Drain, heap
<1>2. worker # Asleep
  BY <1>1 DEF Asleep
<1>3. Committing
  BY <1>2, Parts
<1>4. mode = "run" /\ main = Idle /\ Paged(file, pending, blocks, p, v)
  BY <1>1, <1>3 DEF Committing
<1>5. p \in Mapped /\ v \in Values
  <2>1. Row(blocks)
    BY Parts
  <2>2. p \in Mapped
    BY <1>4, <2>1, PagesIs DEF Paged, Mapped
  <2>3. p \in Addresses
    BY <2>1, <2>2, PagesIs DEF Mapped
  <2> QED BY <2>2, <2>3, Types
<1> HIDE DEF p, v
<1>6. /\ Has(file', blocks) /\ file' \in Seq(Nat) /\ p \in DOMAIN Saved(file)
      /\ Saved(file) = [r \in DOMAIN Saved(file) |-> Saved(file)[r]]
      /\ Saved(file') = [Saved(file) EXCEPT ![p] = v]
  BY <1>1, <1>4, <1>5, PagedMoves
<1>7. Saves
  BY <1>4, <1>5, <1>6 DEF Saves, p, v
<1>8. p \in DOMAIN Saved(file') /\ Saved(file')[p] = v
  <2> DEFINE s == Saved(file)
             t == Saved(file')
  <2>1. p \in DOMAIN s /\ s = [r \in DOMAIN s |-> s[r]] /\ t = [s EXCEPT ![p] = v]
    BY <1>6
  <2> HIDE DEF s, t
  <2>2. p \in DOMAIN t /\ t[p] = v
    BY <2>1
  <2> QED BY <2>2 DEF t
<1>9. TypeOK'
  <2>1. pending' \in Seq(Nat \X Nat)
    BY <1>1, EmptySeq
  <2>2. worker' \in [page : Addresses \cup {0}, step : {"asleep", "write", "flush"}]
    BY <1>1 DEF Asleep
  <2> QED BY <1>1, <1>6, <2>1, <2>2, Types DEF TypeOK
<1>10. Inv'
  <2>1. /\ Row(blocks)' /\ (filesize = EndOf(blocks))' /\ (tmppage \notin Mapped)'
        /\ mode' = "run" /\ main' = Idle
    BY <1>1, <1>4, Parts DEF Mapped
  <2>2. Settled(file, pending, blocks)'
    BY <1>1, <1>6 DEF Settled
  <2> QED BY <1>1, <1>9, <2>1, <2>2 DEF Inv
<1> QED BY <1>7, <1>8, <1>10 DEF p, v

(* The start of a process, with a file that has some blocks.               *)
LEMMA ForgetHolds ==
  ASSUME NEW bs, Has(file', bs), Forget
  PROVE  Inv'
<1>1. /\ pending' = <<>> /\ pos' = 0
      /\ filesize' = 0 /\ blocks' = <<>> /\ mem' = [p \in Addresses |-> 0]
      /\ tmppage' \in Addresses /\ main' = Idle /\ worker' = Asleep /\ mode' = "boot"
  BY DEF Forget
<1>2. file' \in Seq(Nat) /\ Readable(file') = bs /\ Row(bs)
  BY HasEnd, ReadableHas
<1>3. TypeOK'
  <2>1. pending' \in Seq(Nat \X Nat) /\ blocks' \in Seq(BlockType)
    BY <1>1, EmptySeq
  <2>2. mem' \in [Addresses -> Values]
    BY <1>1, HeapFileAssumption
  <2>3. worker' \in [page : Addresses \cup {0}, step : {"asleep", "write", "flush"}]
    BY <1>1 DEF Asleep
  <2>4. main' \in [block : BlockType \cup {NoBlock}, part : 0..4, sought : BOOLEAN]
    BY <1>1 DEF Idle
  <2> QED BY <1>1, <1>2, <2>1, <2>2, <2>3, <2>4 DEF TypeOK
<1>4. DOMAIN blocks' = {} /\ Len(blocks') = 0
  <2>1. blocks' \in Seq(BlockType) /\ Len(blocks') = 0
    BY <1>1, EmptySeq
  <2>2. DOMAIN blocks' = 1 .. 0
    BY <2>1, LenProperties
  <2> QED BY <2>1, <2>2
<1>5. /\ Row(blocks') /\ EndOf(blocks') = 0 /\ Pages(blocks') = {}
  <2>1. Row(blocks')
    <3>1. blocks' \in Seq(BlockType)
      BY <1>1, EmptySeq
    <3> QED BY <1>4, <3>1 DEF Row
  <2> QED BY <1>1, <1>4, <2>1 DEF EndOf, Pages
<1>6. Booting'
  <2>1. blocks' = SubSeq(bs, 1, Len(blocks'))
    <3>1. SubSeq(bs, 1, 0) = <<>>
      BY SubSeqEmpty
    <3> QED BY <1>1, <1>4, <3>1
  <2>2. Len(blocks') <= Len(bs)
    BY <1>2, <1>4, RowFacts
  <2> QED BY <1>1, <1>2, <1>4, <2>1, <2>2 DEF Booting
<1> QED BY <1>1, <1>3, <1>5, <1>6 DEF Inv, Mapped

LEMMA KillHolds ==
  ASSUME Inv, Kill
  PROVE  Inv' /\ Grows
<1>1. file' = file /\ Forget
  BY DEF Kill
<1>2. PICK bs : Has(file, bs)
  BY FileHas
<1>3. Has(file', bs)
  BY <1>1, <1>2
<1> QED BY <1>1, <1>3, ForgetHolds, SameFile

LEMMA ShutdownHolds ==
  ASSUME Inv, Shutdown
  PROVE  Inv' /\ Grows
<1>1. /\ mode = "run" /\ main = Idle /\ worker = Asleep
      /\ Forget /\ file' = Written(file, pending)
  BY DEF Shutdown, Drain
<1>2. Settled(file, pending, blocks) /\ Row(blocks) /\ pending \in Seq(Nat \X Nat)
  BY <1>1, Parts, Types
<1>3. Has(file', blocks) /\ Onward(file, file')
  BY <1>1, <1>2, SettledWritten
<1> QED BY <1>1, <1>3, ForgetHolds DEF Onward, Grows

(* A start is at the end of the blocks of the file, or at the next one.    *)
LEMMA BootingAt ==
  ASSUME Inv, mode = "boot", NEW bs, bs = Readable(file), NEW k, k = Len(blocks)
  PROVE  /\ pending = <<>> /\ main = Idle /\ worker = Asleep /\ Has(file, bs) /\ Row(bs)
         /\ blocks = SubSeq(bs, 1, k) /\ k \in 0 .. Len(bs) /\ Len(bs) \in Nat
         /\ ~Complete(file, filesize) => blocks = bs
         /\ Complete(file, filesize) =>
              k < Len(bs) /\ k + 1 \in DOMAIN bs /\ BlockAt(file, filesize) = bs[k + 1]
<1>1. Booting /\ filesize = EndOf(blocks) /\ Row(blocks)
  BY Parts
<1>2. /\ pending = <<>> /\ main = Idle /\ worker = Asleep /\ Has(file, bs)
      /\ blocks = SubSeq(bs, 1, k) /\ k <= Len(bs)
  BY <1>1 DEF Booting
<1>3. /\ Row(bs) /\ ~Complete(file, EndOf(bs)) /\ Len(file) \in Nat
      /\ \A i \in DOMAIN bs : Whole(file, bs[i])
  BY <1>2, HasEnd
<1>4. /\ bs \in Seq(BlockType) /\ Len(bs) \in Nat /\ DOMAIN bs = 1 .. Len(bs)
      /\ \A i \in 1 .. Len(bs) : bs[i] \in BlockType
  BY <1>3, RowFacts
<1>5. k \in Nat
  BY <1>1, RowFacts
<1>6. k \in 0 .. Len(bs)
  BY <1>2, <1>4, <1>5
<1>7. CASE k = Len(bs)
  <2>1. blocks = bs
    BY <1>2, <1>4, <1>7, SubSeqFull
  <2> QED BY <1>1, <1>2, <1>3, <1>4, <1>6, <2>1
<1>8. CASE k # Len(bs)
  <2>1. k < Len(bs)
    <3>1. Len(bs) \in Nat
      BY <1>4
    <3> QED BY <1>5, <1>6, <1>8, <3>1
  <2>2. k + 1 \in 1 .. Len(bs)
    <3>1. Len(bs) \in Nat
      BY <1>4
    <3> QED BY <1>5, <2>1, <3>1
  <2>3. filesize = bs[k + 1].offset
    BY <1>1, <1>2, <1>3, <1>6, <2>1, RowPrefix
  <2>4. bs[k + 1] \in BlockType /\ Whole(file, bs[k + 1])
    BY <1>3, <1>4, <2>2
  <2>5. Complete(file, filesize) /\ BlockAt(file, filesize) = bs[k + 1]
    BY <1>3, <2>3, <2>4, WholeComplete
  <2> QED BY <1>2, <1>3, <1>4, <1>6, <2>1, <2>2, <2>5
<1> QED BY <1>7, <1>8

LEMMA FetchHolds ==
  ASSUME Inv, Fetch
  PROVE  Inv' /\ Grows
<1> DEFINE b == BlockAt(file, filesize)
           bs == Readable(file)
           k == Len(blocks)
<1>1. /\ mode = "boot" /\ Complete(file, filesize) /\ Placeable(b)
      /\ blocks' = Append(blocks, b) /\ filesize' = filesize + nvfsize(b)
      /\ mem' = [p \in Addresses |->
                   IF p \in PagesOf(b) THEN file[pgoffset(b, p) + 1] ELSE mem[p]]
      /\ UNCHANGED <<file, pending, pos, tmppage, main, worker, mode>>
  BY DEF Fetch, stream
<1> HIDE DEF b, bs, k
<1>2. /\ pending = <<>> /\ main = Idle /\ worker = Asleep /\ Has(file, bs) /\ Row(bs)
      /\ blocks = SubSeq(bs, 1, k) /\ k \in 0 .. Len(bs) /\ Len(bs) \in Nat
      /\ k < Len(bs) /\ k + 1 \in DOMAIN bs /\ b = bs[k + 1]
  BY <1>1, BootingAt DEF b, bs, k
<1>3. /\ Row(blocks) /\ filesize = EndOf(blocks) /\ tmppage \notin Mapped /\ Booting
      /\ blocks \in Seq(BlockType) /\ mem \in [Addresses -> Values]
  BY <1>1, Parts, Types
<1>4. b \in BlockType /\ Whole(file, b)
  BY <1>2, RowFacts, HasEnd
<1>5. k + 1 \in 0 .. Len(bs)
  BY <1>2
<1>6. blocks' = SubSeq(bs, 1, k + 1)
  <2>1. Append(SubSeq(bs, 1, k), bs[k + 1]) = SubSeq(bs, 1, k + 1)
    BY <1>2, RowPrefix
  <2> QED BY <1>1, <1>2, <2>1
<1>7. Row(blocks') /\ Len(blocks') = k + 1 /\ \A i \in 1 .. (k + 1) : blocks'[i] = bs[i]
  BY <1>2, <1>5, <1>6, RowPrefix
<1>8. Len(blocks) = k /\ \A i \in 1 .. k : blocks[i] = bs[i]
  BY <1>2, RowPrefix
<1>9. b.offset = filesize
  BY DEF b, BlockAt
<1>10. filesize' = EndOf(blocks') /\ filesize' \in Nat
  <2>1. EndOf(Append(blocks, b)) = NextOffset(b) /\ NextOffset(b) \in Nat
    BY <1>3, <1>4, RowAppend, BlockFacts
  <2>2. NextOffset(b) = filesize + nvfsize(b)
    BY <1>9 DEF NextOffset
  <2> QED BY <1>1, <2>1, <2>2
<1>11. DOMAIN blocks' = 1 .. (k + 1) /\ DOMAIN blocks = 1 .. k /\ blocks' \in Seq(BlockType)
  BY <1>3, <1>7, <1>8, RowFacts
<1>12. \A i \in 1 .. (k + 1) : i \in 1 .. k \/ i = k + 1
  BY <1>2
<1>13. tmppage \notin Pages(blocks')
  <2>1. tmppage \notin PagesOf(b)
    BY <1>1 DEF Placeable
  <2>2. \A i \in 1 .. k : tmppage \notin PagesOf(bs[i])
    BY <1>3, <1>8, <1>11 DEF Mapped, Pages
  <2>3. \A i \in 1 .. (k + 1) : tmppage \notin PagesOf(bs[i])
    BY <1>2, <1>12, <2>1, <2>2
  <2> QED BY <1>7, <1>11, <2>3 DEF Pages
<1>14. mem' \in [Addresses -> Values]
  <2>1. \A p \in PagesOf(b) : file[pgoffset(b, p) + 1] \in Values
    BY <1>4 DEF Whole
  <2> QED BY <1>1, <1>3, <2>1
<1>15. TypeOK'
  BY <1>1, <1>10, <1>11, <1>14, Types DEF TypeOK
<1>16. ASSUME NEW i \in 1 .. (k + 1), NEW p \in PagesOf(bs[i])
       PROVE  mem'[p] = file[pgoffset(bs[i], p) + 1]
  <2>1. i \in DOMAIN bs /\ p \in Addresses
    <3>1. i \in DOMAIN bs
      BY <1>2, <1>12, RowFacts
    <3> QED BY <1>2, <3>1 DEF Row
  <2>2. CASE i = k + 1
    BY <1>1, <1>2, <1>16, <2>1, <2>2
  <2>3. CASE i # k + 1
    <3>1. i \in 1 .. k
      BY <1>12, <2>3
    <3>2. p \notin PagesOf(b)
      <4>1. PagesOf(bs[i]) \cap PagesOf(bs[k + 1]) = {}
        BY <1>2, <2>1, <2>3 DEF Row
      <4> QED BY <1>2, <4>1
    <3>3. mem[p] = file[pgoffset(bs[i], p) + 1]
      <4>1. i \in DOMAIN blocks /\ blocks[i] = bs[i]
        BY <1>8, <1>11, <3>1
      <4>2. \A j \in DOMAIN blocks : \A r \in PagesOf(blocks[j]) :
              mem[r] = file[pgoffset(blocks[j], r) + 1]
        BY <1>3 DEF Booting
      <4> QED BY <4>1, <4>2
    <3> QED BY <1>1, <2>1, <3>2, <3>3
  <2> QED BY <2>2, <2>3
<1>17. Booting'
  <2>1. blocks' # <<>>
    BY <1>2, <1>7
  <2>2. \A i \in DOMAIN blocks' : \A p \in PagesOf(blocks'[i]) : mem'[p] = file[pgoffset(blocks'[i], p) + 1]
    BY <1>7, <1>11, <1>16
  <2>3. Len(blocks') <= Len(bs) /\ blocks' = SubSeq(bs, 1, Len(blocks'))
    BY <1>2, <1>6, <1>7
  <2>4. Readable(file') = bs /\ Has(file', bs)
    BY <1>1, <1>2 DEF bs
  <2> DEFINE cs == Readable(file')
  <2>5. /\ Has(file', cs) /\ Len(blocks') <= Len(cs) /\ blocks' = SubSeq(cs, 1, Len(blocks'))
    BY <2>3, <2>4
  <2>6. pending' = <<>> /\ main' = Idle /\ worker' = Asleep
    BY <1>1, <1>2
  <2>7. \A i \in DOMAIN blocks' : \A p \in PagesOf(blocks'[i]) : mem'[p] = file'[pgoffset(blocks'[i], p) + 1]
    <3>1. file' = file
      BY <1>1
    <3> QED BY <2>2, <3>1
  <2> QED BY <2>1, <2>5, <2>6, <2>7 DEF Booting
<1>18. Inv'
  BY <1>1, <1>2, <1>7, <1>10, <1>13, <1>15, <1>17 DEF Inv, Mapped
<1> QED BY <1>1, <1>18, SameFile

LEMMA FetchEndHolds ==
  ASSUME Inv, FetchEnd
  PROVE  Inv' /\ Grows /\ Has(file, blocks) /\ \A p \in Mapped : mem[p] = Saved(file)[p]
<1> DEFINE bs == Readable(file)
           k == Len(blocks)
<1>1. /\ mode = "boot" /\ ~Complete(file, filesize) /\ mode' = "run"
      /\ UNCHANGED <<file, pending, pos, filesize, blocks, mem, tmppage, main, worker>>
  BY DEF FetchEnd, stream, heap
<1>2. pending = <<>> /\ main = Idle /\ worker = Asleep /\ Has(file, blocks)
  <2> HIDE DEF bs, k
  <2>1. bs = Readable(file) /\ k = Len(blocks)
    BY DEF bs, k
  <2> QED BY <1>1, <2>1, BootingAt
<1>3. Inv'
  <2>1. TypeOK'
    BY <1>1, Types DEF TypeOK
  <2>2. /\ Row(blocks)' /\ (filesize = EndOf(blocks))' /\ (tmppage \notin Mapped)'
        /\ mode' = "run" /\ main' = Idle /\ worker' = Asleep
    BY <1>1, <1>2, Parts DEF Mapped
  <2>3. Settled(file, pending, blocks)'
    BY <1>1, <1>2 DEF Settled
  <2> QED BY <2>1, <2>2, <2>3 DEF Inv
<1>4. \A p \in Mapped : mem[p] = Saved(file)[p]
  <2>1. Booting /\ Row(blocks)
    BY <1>1, Parts
  <2>2. \A i \in DOMAIN blocks : \A p \in PagesOf(blocks[i]) : mem[p] = file[pgoffset(blocks[i], p) + 1]
    BY <2>1 DEF Booting
  <2>3. \A i \in DOMAIN blocks : \A p \in PagesOf(blocks[i]) : Saved(file)[p] = file[pgoffset(blocks[i], p) + 1]
    BY <1>2, SavedIs
  <2>4. \A p \in Mapped : \E i \in DOMAIN blocks : p \in PagesOf(blocks[i])
    BY <2>1, PagesIs DEF Mapped
  <2> QED BY <2>2, <2>3, <2>4
<1> QED BY <1>1, <1>2, <1>3, <1>4, SameFile

LEMMA FirstRunEndHolds ==
  ASSUME Inv, FirstRunEnd
  PROVE  Inv' /\ Grows /\ Has(file', blocks) /\ \A p \in Mapped : mem[p] = Saved(file')[p]
<1>1. /\ mode = "first" /\ main = Idle /\ file' = Written(file, pending) /\ pending' = <<>> /\ mode' = "run"
      /\ UNCHANGED <<pos, filesize, blocks, mem, tmppage, main, worker>>
  BY DEF FirstRunEnd, fflush, Drain, heap
<1>2. worker = Asleep
  BY <1>1, Parts DEF Committing
<1>3. /\ Settled(file, pending, blocks) /\ Row(blocks) /\ pending \in Seq(Nat \X Nat)
      /\ Blank(file, 0) /\ \A p \in Addresses : mem[p] = 0
  BY <1>1, <1>2, Parts, Types DEF FirstRunning
<1>4. Has(file', blocks) /\ Onward(file, file') /\ file' \in Seq(Nat)
  BY <1>1, <1>3, SettledWritten
<1>5. Blank(file', 0)
  <2>1. 0 \in Nat
    OBVIOUS
  <2> QED BY <1>3, <1>4, <2>1 DEF Onward
<1>6. Inv'
  <2>1. TypeOK'
    <3>1. pending' \in Seq(Nat \X Nat)
      BY <1>1, EmptySeq
    <3> QED BY <1>1, <1>4, <3>1, Types DEF TypeOK
  <2>2. /\ Row(blocks)' /\ (filesize = EndOf(blocks))' /\ (tmppage \notin Mapped)'
        /\ mode' = "run" /\ main' = Idle /\ worker' = Asleep
    BY <1>1, <1>2, Parts DEF Mapped
  <2>3. Settled(file, pending, blocks)'
    BY <1>1, <1>4 DEF Settled
  <2> QED BY <2>1, <2>2, <2>3 DEF Inv
<1>7. ASSUME NEW p \in Mapped PROVE mem[p] = Saved(file')[p]
  <2>1. PICK i \in DOMAIN blocks : p \in PagesOf(blocks[i])
    BY <1>3, PagesIs DEF Mapped
  <2>2. Saved(file')[p] = file'[pgoffset(blocks[i], p) + 1]
    BY <1>4, <2>1, SavedIs
  <2>3. blocks[i] \in BlockType /\ Whole(file', blocks[i])
    BY <1>3, <1>4, RowFacts, HasEnd
  <2> DEFINE b == blocks[i]
             f == file'
  <2>4. b \in BlockType /\ f \in Seq(Nat) /\ Blank(f, 0) /\ NextOffset(b) <= Len(f) /\ 0 \in Nat
    BY <1>4, <1>5, <2>3 DEF Whole
  <2> HIDE DEF b, f
  <2>5. 0 <= b.offset
    BY <2>4, BlockFacts
  <2>6. \A r \in PagesOf(b) : f[pgoffset(b, r) + 1] = 0
    BY <2>4, <2>5, BlankPages
  <2>7. Saved(file')[p] = 0
    BY <2>1, <2>2, <2>6 DEF b, f
  <2>8. mem[p] = 0
    BY <1>3, PagesIs DEF Mapped
  <2> QED BY <2>7, <2>8
<1> QED BY <1>4, <1>6, <1>7 DEF Onward, Grows

LEMMA InitInv ==
  ASSUME Init
  PROVE  Inv /\ Has(file, <<>>)
<1>1. /\ file = <<>> /\ pending = <<>> /\ pos = 0
      /\ filesize = 0 /\ blocks = <<>> /\ mem = [p \in Addresses |-> 0]
      /\ tmppage \in Addresses
      /\ main = Idle /\ worker = Asleep /\ mode = "boot"
  BY DEF Init
<1> DEFINE bs == <<>>
           o == EndOf(bs)
<1>2. bs \in Seq(BlockType) /\ Len(bs) = 0 /\ o = 0 /\ file \in Seq(Nat) /\ Len(file) = 0
  BY <1>1, EmptySeq DEF EndOf
<1>3. DOMAIN bs = {} /\ DOMAIN file = {}
  <2> HIDE DEF bs
  <2>1. DOMAIN bs = 1 .. 0 /\ DOMAIN file = 1 .. 0
    BY <1>2, LenProperties
  <2> QED BY <2>1
<1>4. Row(bs)
  <2> HIDE DEF bs
  <2> QED BY <1>2, <1>3 DEF Row
<1>5. Has(file, bs)
  <2>1. Blank(file, o) /\ o <= Len(file) /\ o = EndOf(bs)
    BY <1>2, <1>3 DEF Blank
  <2>2. ~(o + 2 <= Len(file))
    BY <1>2
  <2> HIDE DEF bs, o
  <2> QED BY <1>2, <1>3, <1>4, <2>1, <2>2, HasIs
<1>6. Readable(file) = bs
  <2> HIDE DEF bs
  <2> QED BY <1>5, ReadableHas
<1>7. TypeOK
  <2>1. pending \in Seq(Nat \X Nat) /\ blocks \in Seq(BlockType)
    BY <1>1, EmptySeq
  <2>2. mem \in [Addresses -> Values]
    BY <1>1, HeapFileAssumption
  <2>3. worker \in [page : Addresses \cup {0}, step : {"asleep", "write", "flush"}]
    BY <1>1 DEF Asleep
  <2>4. main \in [block : BlockType \cup {NoBlock}, part : 0..4, sought : BOOLEAN]
    BY <1>1 DEF Idle
  <2> QED BY <1>1, <1>2, <2>1, <2>2, <2>3, <2>4 DEF TypeOK
<1>8. Booting
  <2>1. blocks = SubSeq(bs, 1, Len(blocks)) /\ Len(blocks) <= Len(bs)
    <3>1. SubSeq(bs, 1, 0) = <<>>
      BY SubSeqEmpty
    <3> QED BY <1>1, <1>2, <3>1
  <2>2. blocks = bs
    BY <1>1
  <2> HIDE DEF bs
  <2> QED BY <1>1, <1>3, <1>5, <1>6, <2>1, <2>2 DEF Booting
<1>9. /\ Row(blocks) /\ filesize = EndOf(blocks) /\ tmppage \notin Mapped
  <2>1. blocks = bs
    BY <1>1
  <2> HIDE DEF bs
  <2> QED BY <1>1, <1>2, <1>3, <1>4, <2>1 DEF Mapped, Pages
<1> QED BY <1>1, <1>5, <1>7, <1>8, <1>9 DEF Inv

LEMMA StutterInv ==
  ASSUME Inv, UNCHANGED vars
  PROVE  Inv'
BY DEF Inv, vars, stream, heap, TypeOK, Mapped, Booting, FirstRunning, Dumping, Committing

LEMMA NextInv ==
  ASSUME Inv, Serial, Next
  PROVE  Inv'
<1>1. ASSUME NEW n \in Sizes, AllocPage(n) PROVE Inv'
  BY <1>1, AllocPageHolds
<1>2. CASE DumpSeek
  BY <1>2, DumpSeekHolds
<1>3. CASE DumpWrite
  BY <1>3, DumpWriteHolds
<1>4. CASE AllocEnd
  BY <1>4, AllocEndHolds
<1>5. CASE Trickle
  BY <1>5, TrickleHolds
<1>6. ASSUME NEW p \in Addresses, NEW v \in Values, Store(p, v) PROVE Inv'
  BY <1>6, StoreHolds
<1>7. ASSUME NEW p \in Addresses, CommitSeek(p) PROVE Inv'
  BY <1>7, CommitSeekHolds
<1>8. CASE CommitWrite
  BY <1>8, CommitWriteHolds
<1>9. CASE CommitFlush
  BY <1>9, CommitFlushHolds
<1>10. CASE Kill
  BY <1>10, KillHolds
<1>11. CASE Shutdown
  BY <1>11, ShutdownHolds
<1>12. CASE Fetch
  BY <1>12, FetchHolds
<1>13. CASE FetchFails
  BY <1>13, KillHolds DEF FetchFails
<1>14. CASE FetchEnd
  BY <1>14, FetchEndHolds
<1>15. CASE FirstRun
  BY <1>15, FirstRunHolds
<1>16. CASE FirstRunEnd
  BY <1>16, FirstRunEndHolds
<1> QED BY <1>1, <1>2, <1>3, <1>4, <1>5, <1>6, <1>7, <1>8, <1>9, <1>10, <1>11, <1>12, <1>13, <1>14,
           <1>15, <1>16 DEF Next

(* When allocations and commits exclude each other, the blocks of the      *)
(* store are those of the file and what is pending.                        *)
THEOREM InvHolds == Serial => (Spec => []Inv)
<1> SUFFICES ASSUME Serial PROVE Spec => []Inv
  OBVIOUS
<1>1. Init => Inv
  BY InitInv
<1>2. Inv /\ [Next]_vars => Inv'
  BY NextInv, StutterInv
<1> QED BY <1>1, <1>2, PTL DEF Spec

(***************************************************************************)
(* The blocks on file                                                      *)
(***************************************************************************)
LEMMA FoundDrained ==
  ASSUME Inv, mode = "run", main = Idle
  PROVE  /\ Has(Drain, blocks)
         /\ Has(file, blocks) \/ (blocks # <<>> /\ Has(file, Front(blocks)))
<1>1. Row(blocks) /\ pending \in Seq(Nat \X Nat)
  BY Parts, Types
<1>2. CASE worker = Asleep
  <2>1. Settled(file, pending, blocks)
    BY <1>2, Parts
  <2>2. Has(Drain, blocks)
    BY <1>1, <2>1, SettledWritten DEF Drain
  <2>3. Has(file, blocks) \/ (blocks # <<>> /\ Has(file, Front(blocks)))
    BY <1>1, <2>1, SettledHas
  <2> QED BY <2>2, <2>3
<1>3. CASE worker # Asleep
  <2>1. worker.step \in {"write", "flush"} /\ Committing
    BY <1>3, Parts
  <2>2. CASE worker.step = "write"
    <3>1. pending = <<>> /\ Has(file, blocks)
      BY <2>1, <2>2 DEF Committing
    <3>2. Drain = file
      BY <3>1, WrittenNothing DEF Drain
    <3> QED BY <3>1, <3>2
  <2>3. CASE worker.step = "flush"
    <3> DEFINE p == worker.page
               v == mem[worker.page]
    <3>1. Paged(file, pending, blocks, p, v)
      BY <2>1, <2>3 DEF Committing
    <3>2. v \in Values
      <4>1. p \in Addresses
        BY <1>1, <3>1, PagesIs DEF Paged
      <4> QED BY <4>1, Types
    <3> HIDE DEF p, v
    <3>3. Has(Drain, blocks)
      BY <3>1, <3>2, PagedMoves DEF Drain
    <3> QED BY <3>1, <3>3 DEF Paged
  <2> QED BY <2>1, <2>2, <2>3
<1> QED BY <1>2, <1>3

(* Whatever the store has mapped is in the file or on its way there, and a *)
(* start would miss the last block at most.                                *)
THEOREM BlocksOnFileHolds == Serial => (Spec => []BlocksOnFile)
<1> SUFFICES ASSUME Serial PROVE Spec => []BlocksOnFile
  OBVIOUS
<1>1. Inv => BlocksOnFile
  <2> SUFFICES ASSUME Inv PROVE BlocksOnFile
    OBVIOUS
  <2>1. TypeOK
    BY Parts
  <2>2. ASSUME mode = "run", main = Idle
        PROVE  /\ Readable(Drain) = blocks
               /\ IsPrefix(Readable(file), blocks) /\ Len(blocks) - Len(Readable(file)) <= 1
    <3>1. /\ Has(Drain, blocks)
          /\ Has(file, blocks) \/ (blocks # <<>> /\ Has(file, Front(blocks)))
      BY <2>2, FoundDrained
    <3>2. Readable(Drain) = blocks
      BY <3>1, ReadableHas
    <3>3. blocks \in Seq(BlockType) /\ Len(blocks) \in Nat
      BY Types, LenProperties
    <3>4. CASE Has(file, blocks)
      <4>1. Readable(file) = blocks
        BY <3>4, ReadableHas
      <4>2. Len(blocks) <= Len(blocks) /\ Len(blocks) - Len(blocks) <= 1
        BY <3>3
      <4> QED BY <3>2, <4>1, <4>2 DEF IsPrefix
    <3>5. CASE blocks # <<>> /\ Has(file, Front(blocks))
      <4> DEFINE fs == Front(blocks)
                 n == Len(fs)
      <4>1. Readable(file) = fs
        BY <3>5, ReadableHas
      <4>2. fs = SubSeq(blocks, 1, Len(blocks) - 1) /\ fs \in Seq(BlockType)
        BY <3>3, <3>5, FrontLast DEF Front
      <4>3. Len(blocks) # 0
        BY <3>3, <3>5, EmptySeq
      <4>4. n = Len(blocks) - 1 /\ n \in Nat
        <5> DEFINE m == Len(blocks) - 1
        <5>1. m \in Nat /\ \A i \in 1 .. m : i \in 1 .. Len(blocks)
          BY <3>3, <4>3
        <5>2. \A i \in 1 .. m : blocks[i] \in BlockType
          BY <3>3, <5>1, ElementOfSeq
        <5> HIDE DEF m
        <5>3. Len(SubSeq(blocks, 1, m)) = IF 1 <= m THEN m - 1 + 1 ELSE 0
          <6>1. 1 \in Int /\ m \in Int
            BY <5>1
          <6> QED BY <5>2, <6>1, SubSeqProperties
        <5>4. Len(SubSeq(blocks, 1, m)) = m
          BY <5>1, <5>3
        <5> QED BY <4>2, <5>1, <5>4 DEF m
      <4>5. SubSeq(fs, 1, n) = fs
        BY <4>2, SubSeqFull
      <4>6. SubSeq(blocks, 1, n) = fs
        BY <4>2, <4>4
      <4>7. n <= Len(blocks) /\ Len(blocks) - n <= 1
        BY <3>3, <4>4
      <4> HIDE DEF fs
      <4> QED BY <3>2, <4>1, <4>5, <4>6, <4>7 DEF IsPrefix
    <3> QED BY <3>1, <3>4, <3>5
  <2> QED BY <2>1, <2>2 DEF BlocksOnFile
<1> QED BY <1>1, InvHolds, PTL

(* A page that the worker is done with is found by the next start, as it   *)
(* is.                                                                     *)
THEOREM CommitFoundHolds == Serial => (Spec => CommitFound)
<1> SUFFICES ASSUME Serial PROVE Spec => CommitFound
  OBVIOUS
<1> DEFINE Done == worker.step = "flush" /\ worker' = Asleep /\ mode' = "run"
<1>1. ASSUME Inv, [Next]_vars, Done
      PROVE  worker.page \in DOMAIN OnFile' /\ OnFile'[worker.page] = mem[worker.page]
  <2>1. worker' # worker /\ worker # Asleep /\ worker.step # "write" /\ mode' # "boot"
    BY <1>1 DEF Asleep
  <2>2. CommitFlush
    <3>1. Next
      BY <1>1, <2>1 DEF vars
    <3>2. ~Kill /\ ~Shutdown /\ ~FetchFails
      BY <2>1 DEF Kill, Shutdown, FetchFails, Forget
    <3>3. ~DumpSeek /\ ~DumpWrite /\ ~AllocEnd /\ ~Trickle /\ ~CommitWrite
      BY <2>1 DEF DumpSeek, DumpWrite, AllocEnd, Trickle, CommitWrite
    <3>4. ~Fetch /\ ~FetchEnd /\ ~FirstRun /\ ~FirstRunEnd
      BY <2>1 DEF Fetch, FetchEnd, FirstRun, FirstRunEnd
    <3>5. /\ \A n \in Sizes : ~AllocPage(n)
          /\ \A p \in Addresses, v \in Values : ~Store(p, v)
          /\ \A p \in Addresses : ~CommitSeek(p)
      BY <2>1 DEF AllocPage, Store, CommitSeek
    <3> QED BY <3>1, <3>2, <3>3, <3>4, <3>5 DEF Next
  <2> QED BY <1>1, <2>2, CommitFlushHolds DEF OnFile
<1>2. Inv /\ [Next]_vars =>
        [Done => worker.page \in DOMAIN OnFile' /\ OnFile'[worker.page] = mem[worker.page]]_vars
  BY <1>1
<1> QED BY <1>2, InvHolds, PTL DEF Spec, CommitFound

(***************************************************************************)
(* The abstract specification                                              *)
(***************************************************************************)
LEMMA PresentIs ==
  /\ mode = "run" => Present = [p \in Mapped |-> mem[p]]
  /\ mode # "run" => Present = H!None
<1>1. CASE mode = "run"
  BY <1>1 DEF Present
<1>2. CASE mode # "run"
  <2>1. Present = [p \in {} |-> mem[p]]
    BY <1>2 DEF Present
  <2>2. [p \in {} |-> mem[p]] = [p \in {} |-> 0]
    OBVIOUS
  <2> QED BY <1>2, <2>1, <2>2 DEF H!None
<1> QED BY <1>1, <1>2

LEMMA PresentWillBe ==
  /\ mode' = "run" => Present' = [p \in Mapped' |-> mem'[p]]
  /\ mode' # "run" => Present' = H!None
<1>1. CASE mode' = "run"
  BY <1>1 DEF Present
<1>2. CASE mode' # "run"
  <2>1. Present' = [p \in {} |-> mem'[p]]
    BY <1>2 DEF Present
  <2>2. [p \in {} |-> mem'[p]] = [p \in {} |-> 0]
    OBVIOUS
  <2> QED BY <1>2, <2>1, <2>2 DEF H!None
<1> QED BY <1>1, <1>2

(* The program keeps its pages and goes on.                                *)
Stays == Present' = Present /\ (mode = "run") = (mode' = "run")

LEMMA StaysIf ==
  ASSUME UNCHANGED <<mode, blocks>>, \A p \in Mapped : mem'[p] = mem[p]
  PROVE  Stays
<1>1. Mapped' = Mapped
  BY DEF Mapped
<1>2. [p \in Mapped |-> mem'[p]] = [p \in Mapped |-> mem[p]]
  OBVIOUS
<1> QED BY <1>1, <1>2, PresentIs, PresentWillBe DEF Stays

LEMMA StaysOut ==
  ASSUME mode # "run", mode' # "run"
  PROVE  Stays
BY PresentIs, PresentWillBe DEF Stays

LEMMA GrowStep ==
  ASSUME Stays, Grows
  PROVE  H!Next
BY DEF Stays, Grows, OnFile, H!Next, H!Extend

LEMMA SaveStep ==
  ASSUME Stays, Saves
  PROVE  H!Next
<1> DEFINE p == worker.page
<1>1. Present = [q \in Mapped |-> mem[q]] /\ mode = "run"
  BY PresentIs DEF Saves
<1>2. p \in DOMAIN Present /\ p \in DOMAIN OnFile /\ Present[p] = mem[p]
  BY <1>1 DEF Saves, OnFile
<1>3. OnFile' = [OnFile EXCEPT ![p] = Present[p]]
  BY <1>2 DEF Saves, OnFile
<1> HIDE DEF p
<1>4. \E q \in DOMAIN Present \cap DOMAIN OnFile : OnFile' = [OnFile EXCEPT ![q] = Present[q]]
  BY <1>2, <1>3
<1> QED BY <1>1, <1>4 DEF Stays, H!Next, H!Save

LEMMA StopStep ==
  ASSUME Forget, Grows
  PROVE  H!Next
<1>1. mode' # "run"
  BY DEF Forget
<1> QED BY <1>1, PresentWillBe DEF Grows, OnFile, H!Next, H!Stop, H!Extend

LEMMA BootStep ==
  ASSUME mode # "run", mode' = "run", Grows, UNCHANGED <<blocks, mem>>,
         Has(file', blocks), \A p \in Mapped : mem[p] = Saved(file')[p]
  PROVE  H!Next
<1>1. /\ DOMAIN Saved(file') = Pages(blocks)
      /\ Saved(file') = [p \in Pages(blocks) |-> Saved(file')[p]]
  BY SavedIs
<1>2. Mapped' = Mapped /\ Mapped = Pages(blocks)
  BY DEF Mapped
<1>3. Present' = [p \in Mapped |-> mem[p]]
  BY <1>2, PresentWillBe
<1> DEFINE s == Saved(file')
<1>4. OnFile' = s
  BY DEF OnFile
<1> HIDE DEF s
<1>5. [p \in Mapped |-> mem[p]] = [p \in Mapped |-> s[p]]
  BY DEF s
<1>6. Present' = OnFile'
  BY <1>1, <1>2, <1>3, <1>4, <1>5 DEF s
<1> QED BY <1>6 DEF Grows, OnFile, H!Next, H!Boot, H!Extend

LEMMA PagesAppend ==
  ASSUME NEW bs \in Seq(BlockType), NEW b \in BlockType
  PROVE  Pages(Append(bs, b)) = Pages(bs) \cup PagesOf(b)
<1> DEFINE n == Len(bs)
           cs == Append(bs, b)
<1>1. /\ n \in Nat /\ DOMAIN bs = 1 .. n /\ DOMAIN cs = 1 .. (n + 1)
      /\ \A i \in 1 .. n : cs[i] = bs[i]
      /\ cs[n + 1] = b
  OBVIOUS
<1> HIDE DEF n, cs
<1>2. ASSUME NEW p \in Pages(cs) PROVE p \in Pages(bs) \cup PagesOf(b)
  <2>1. PICK i \in 1 .. (n + 1) : p \in PagesOf(cs[i])
    BY <1>1, <1>2 DEF Pages
  <2>2. i \in 1 .. n \/ i = n + 1
    BY <1>1
  <2> QED BY <1>1, <2>1, <2>2 DEF Pages
<1>3. ASSUME NEW p \in Pages(bs) PROVE p \in Pages(cs)
  <2>1. PICK i \in 1 .. n : p \in PagesOf(bs[i])
    BY <1>1, <1>3 DEF Pages
  <2>2. i \in 1 .. (n + 1)
    BY <1>1
  <2> QED BY <1>1, <2>1, <2>2 DEF Pages
<1>4. ASSUME NEW p \in PagesOf(b) PROVE p \in Pages(cs)
  <2>1. n + 1 \in 1 .. (n + 1)
    BY <1>1
  <2> QED BY <1>1, <1>4, <2>1 DEF Pages
<1> QED BY <1>2, <1>3, <1>4 DEF cs

LEMMA AllocEndStep ==
  ASSUME Inv, AllocEnd
  PROVE  H!Next
<1> DEFINE b == main.block
<1>1. /\ blocks' = Append(blocks, b)
      /\ UNCHANGED <<file, mem, mode>> /\ main # Idle
  BY DEF AllocEnd, stream, Idle
<1>2. Inv' /\ Grows /\ \A p \in PagesOf(b) : mem[p] = 0
  BY AllocEndHolds
<1>3. CASE mode # "run"
  BY <1>1, <1>2, <1>3, StaysOut, GrowStep
<1>4. CASE mode = "run"
  <2>1. Row(blocks) /\ Row(Append(blocks, b))
    BY <1>1, Parts DEF Dumping
  <2>2. blocks \in Seq(BlockType) /\ b \in BlockType
    BY <2>1, RowLast DEF Row
  <2> HIDE DEF b
  <2>3. Mapped' = Mapped \cup PagesOf(b)
    BY <1>1, <2>2, PagesAppend DEF Mapped
  <2>4. Mapped' \subseteq Addresses
    BY <1>1, <2>1, PagesIs DEF Mapped
  <2>5. Present = [p \in Mapped |-> mem[p]] /\ Present' = [p \in Mapped' |-> mem[p]]
    BY <1>1, <1>4, PresentIs, PresentWillBe
  <2> DEFINE M == Mapped
             N == Mapped'
             f == Present
             g == Present'
  <2>6. \A p \in N : p \notin M => mem[p] = 0
    BY <1>2, <2>3
  <2>7. f = [p \in M |-> mem[p]] /\ g = [p \in N |-> mem[p]] /\ M \subseteq N /\ N \subseteq Addresses
    BY <2>3, <2>4, <2>5
  <2> HIDE DEF M, N, f, g
  <2>8. DOMAIN f = M /\ DOMAIN g = N
    BY <2>7
  <2>9. g = [p \in N |-> IF p \in M THEN f[p] ELSE 0]
    BY <2>6, <2>7
  <2>10. H!Extends(g, f)
    BY <2>7, <2>8, <2>9 DEF H!Extends
  <2> QED BY <1>1, <1>4, <2>10 DEF f, g, OnFile, H!Next, H!Allocate
<1> QED BY <1>3, <1>4

LEMMA StoreStep ==
  ASSUME Inv, NEW p \in Addresses, NEW v \in Values, Store(p, v)
  PROVE  H!Next
<1>1. /\ mode = "run" /\ p \in Mapped /\ mem' = [mem EXCEPT ![p] = v]
      /\ UNCHANGED <<file, blocks, mode>>
  BY DEF Store, stream
<1>2. mem \in [Addresses -> Values] /\ Mapped' = Mapped /\ Mapped \subseteq Addresses
  BY <1>1, Types, Parts, PagesIs DEF Mapped
<1>3. Present = [q \in Mapped |-> mem[q]] /\ Present' = [q \in Mapped |-> mem'[q]]
  BY <1>1, <1>2, PresentIs, PresentWillBe
<1> DEFINE M == Mapped
           f == Present
           g == Present'
           n == mem'
<1>4. /\ f = [q \in M |-> mem[q]] /\ g = [q \in M |-> n[q]] /\ M \subseteq Addresses /\ p \in M
      /\ n = [mem EXCEPT ![p] = v]
  BY <1>1, <1>2, <1>3
<1> HIDE DEF M, f, g, n
<1>5. p \in DOMAIN f /\ g = [f EXCEPT ![p] = v]
  BY <1>2, <1>4
<1>6. \E q \in DOMAIN Present, x \in Values : Present' = [Present EXCEPT ![q] = x]
  BY <1>5 DEF f, g
<1> QED BY <1>1, <1>6 DEF OnFile, H!Next, H!Store

LEMMA AbstractInit ==
  ASSUME Init
  PROVE  H!Init
<1>1. Has(file, <<>>) /\ mode # "run"
  BY InitInv DEF Init
<1>2. Pages(<<>>) = {}
  BY DEF Pages
<1>3. Saved(file) = [p \in Pages(<<>>) |-> Saved(file)[p]]
  BY <1>1, SavedIs
<1> DEFINE s == Saved(file)
<1>4. s = [p \in {} |-> s[p]]
  BY <1>2, <1>3
<1> HIDE DEF s
<1>5. s = H!None
  BY <1>4 DEF H!None
<1> QED BY <1>1, <1>5, PresentIs DEF s, OnFile, H!Init

LEMMA AbstractNext ==
  ASSUME Inv, Serial, Next
  PROVE  H!Next
<1>1. ASSUME NEW n \in Sizes, AllocPage(n) PROVE H!Next
  <2>1. UNCHANGED <<mode, blocks>>
    BY <1>1 DEF AllocPage
  <2> QED BY <1>1, <2>1, AllocPageHolds, StaysIf, GrowStep
<1>2. CASE DumpSeek
  BY <1>2, DumpSeekHolds, StaysIf, GrowStep DEF DumpSeek, heap
<1>3. CASE DumpWrite
  BY <1>3, DumpWriteHolds, StaysIf, GrowStep DEF DumpWrite, heap
<1>4. CASE AllocEnd
  BY <1>4, AllocEndStep
<1>5. CASE Trickle
  BY <1>5, TrickleHolds, StaysIf, GrowStep, SaveStep DEF Trickle, heap
<1>6. ASSUME NEW p \in Addresses, NEW v \in Values, Store(p, v) PROVE H!Next
  BY <1>6, StoreStep
<1>7. ASSUME NEW p \in Addresses, CommitSeek(p) PROVE H!Next
  BY <1>7, CommitSeekHolds, StaysIf, GrowStep DEF CommitSeek, heap
<1>8. CASE CommitWrite
  BY <1>8, CommitWriteHolds, StaysIf, GrowStep DEF CommitWrite, heap
<1>9. CASE CommitFlush
  BY <1>9, CommitFlushHolds, StaysIf, SaveStep DEF CommitFlush, heap
<1>10. CASE Kill
  BY <1>10, KillHolds, StopStep DEF Kill
<1>11. CASE Shutdown
  BY <1>11, ShutdownHolds, StopStep DEF Shutdown
<1>12. CASE Fetch
  <2>1. mode # "run" /\ mode' # "run"
    BY <1>12 DEF Fetch
  <2> QED BY <1>12, <2>1, FetchHolds, StaysOut, GrowStep
<1>13. CASE FetchFails
  BY <1>13, KillHolds, StopStep DEF FetchFails, Kill
<1>14. CASE FetchEnd
  <2>1. mode # "run" /\ mode' = "run" /\ UNCHANGED <<file, blocks, mem>>
    BY <1>14 DEF FetchEnd, stream, heap
  <2> QED BY <1>14, <2>1, FetchEndHolds, BootStep
<1>15. CASE FirstRun
  <2>1. mode # "run" /\ mode' # "run"
    BY <1>15 DEF FirstRun
  <2> QED BY <1>15, <2>1, FirstRunHolds, StaysOut, GrowStep
<1>16. CASE FirstRunEnd
  <2>1. mode # "run" /\ mode' = "run" /\ UNCHANGED <<blocks, mem>>
    BY <1>16 DEF FirstRunEnd, heap
  <2> QED BY <1>16, <2>1, FirstRunEndHolds, BootStep
<1> QED BY <1>1, <1>2, <1>3, <1>4, <1>5, <1>6, <1>7, <1>8, <1>9, <1>10, <1>11, <1>12, <1>13, <1>14,
           <1>15, <1>16 DEF Next

(* The file is a persistent heap: every process starts with the pages the  *)
(* file has, no file loses one, and a page in the file changes by a commit *)
(* of it.                                                                  *)
THEOREM PersistentHeapImplemented == Serial => (Spec => ImplementsPersistentHeap)
<1> SUFFICES ASSUME Serial PROVE Spec => ImplementsPersistentHeap
  OBVIOUS
<1>1. Init => H!Init
  BY AbstractInit
<1>2. Inv /\ [Next]_vars => [H!Next]_<<Present, OnFile, mode = "run">>
  <2> SUFFICES ASSUME Inv, [Next]_vars PROVE [H!Next]_<<Present, OnFile, mode = "run">>
    OBVIOUS
  <2>1. CASE Next
    BY <2>1, AbstractNext
  <2>2. CASE UNCHANGED vars
    BY <2>2 DEF vars, stream, heap, Present, OnFile, Mapped
  <2> QED BY <2>1, <2>2
<1> QED BY <1>1, <1>2, InvHolds, PTL DEF Spec, ImplementsPersistentHeap, H!Spec
=============================================================================
