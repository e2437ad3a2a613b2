------------------------- MODULE CommitObjectsProofs -------------------------
(***************************************************************************)
(* Theorems about CommitObjects, for any threads, any memory of whole      *)
(* pages, any blocks, any hash and any length of the first array.          *)
(***************************************************************************)
EXTENDS CommitObjectsInv, FiniteSetTheorems, SequenceTheorems, WellFoundedInduction, TLAPS

(***************************************************************************)
(* Sets and sequences                                                      *)
(***************************************************************************)
LEMMA Least ==
  ASSUME NEW T, T \subseteq Nat, T # {}
  PROVE  Min(T) \in T /\ \A y \in T : Min(T) <= y
<1>1. \E x \in T : \A y \in T : ~(<<y, x>> \in OpToRel(<, Nat))
  BY NatLessThanWellFounded, WFMin
<1>2. \A x, y \in Nat : <<y, x>> \in OpToRel(<, Nat) <=> y < x
  BY DEF OpToRel
<1>3. PICK x \in T : \A y \in T : ~(<<y, x>> \in OpToRel(<, Nat))
  BY <1>1
<1>4. \A y \in T : ~(y < x) /\ y \in Nat /\ x \in Nat
  BY <1>2, <1>3
<1>5. x \in T /\ \A y \in T : x <= y
  BY <1>4
<1> QED BY <1>5 DEF Min

LEMMA OneMore ==
  ASSUME NEW S, IsFiniteSet(S), NEW x, x \notin S, NEW T, T = S \cup {x}
  PROVE  IsFiniteSet(T) /\ Cardinality(T) = Cardinality(S) + 1
BY FS_AddElement

LEMMA OneLess ==
  ASSUME NEW S, IsFiniteSet(S), NEW x, x \in S, NEW T, T = S \ {x}
  PROVE  IsFiniteSet(T) /\ Cardinality(T) = Cardinality(S) - 1
BY FS_RemoveElement

(* A chain without its place i.                                            *)
LEMMA RemovedAt ==
  ASSUME NEW S, NEW s \in Seq(S), NEW i \in 1 .. Len(s), NEW t, t = RemoveAt(s, i)
  PROVE  /\ t \in Seq(S) /\ Len(t) = Len(s) - 1
         /\ \A k \in 1 .. Len(t) : t[k] = IF k < i THEN s[k] ELSE s[k + 1]
<1> DEFINE u == SubSeq(s, 1, i - 1)
           v == SubSeq(s, i + 1, Len(s))
<1>0. Len(s) \in Nat /\ i \in Nat /\ 1 <= i /\ i <= Len(s) /\ \A k \in 1 .. Len(s) : s[k] \in S
  OBVIOUS
<1>1. u \in Seq(S) /\ Len(u) = i - 1 /\ \A k \in 1 .. (i - 1) : u[k] = s[k]
  <2>1. \A k \in 1 .. (i - 1) : s[k] \in S
    BY <1>0
  <2>2. /\ u \in Seq(S) /\ Len(u) = IF 1 <= i - 1 THEN i - 1 - 1 + 1 ELSE 0
        /\ \A k \in 1 .. i - 1 - 1 + 1 : u[k] = s[1 + k - 1]
    <3> HIDE DEF u
    <3> QED BY <1>0, <2>1, SubSeqProperties DEF u
  <2>3. Len(u) = i - 1
    BY <1>0, <2>2
  <2>4. ASSUME NEW k \in 1 .. (i - 1) PROVE u[k] = s[k]
    <3>1. k \in 1 .. i - 1 - 1 + 1 /\ 1 + k - 1 = k
      BY <1>0
    <3> QED BY <2>2, <3>1
  <2> QED BY <2>2, <2>3, <2>4
<1>2. v \in Seq(S) /\ Len(v) = Len(s) - i /\ \A k \in 1 .. (Len(s) - i) : v[k] = s[i + k]
  <2>1. \A k \in (i + 1) .. Len(s) : s[k] \in S
    BY <1>0
  <2>2. /\ v \in Seq(S) /\ Len(v) = IF i + 1 <= Len(s) THEN Len(s) - (i + 1) + 1 ELSE 0
        /\ \A k \in 1 .. Len(s) - (i + 1) + 1 : v[k] = s[(i + 1) + k - 1]
    <3> HIDE DEF v
    <3> QED BY <1>0, <2>1, SubSeqProperties DEF v
  <2>3. Len(v) = Len(s) - i
    BY <1>0, <2>2
  <2>4. ASSUME NEW k \in 1 .. (Len(s) - i) PROVE v[k] = s[i + k]
    <3>1. k \in 1 .. Len(s) - (i + 1) + 1 /\ (i + 1) + k - 1 = i + k
      BY <1>0
    <3> QED BY <2>2, <3>1
  <2> QED BY <2>2, <2>3, <2>4
<1>3. t = u \o v
  BY DEF RemoveAt
<1> HIDE DEF u, v
<1>4. /\ t \in Seq(S) /\ Len(t) = Len(u) + Len(v)
      /\ \A k \in 1 .. Len(u) + Len(v) : t[k] = IF k <= Len(u) THEN u[k] ELSE v[k - Len(u)]
  <2>1. u \in Seq(S) /\ v \in Seq(S)
    BY <1>1, <1>2
  <2> QED BY <1>3, <2>1, ConcatProperties
<1>5. Len(t) = Len(s) - 1
  BY <1>0, <1>1, <1>2, <1>4
<1>6. ASSUME NEW k \in 1 .. Len(t) PROVE t[k] = IF k < i THEN s[k] ELSE s[k + 1]
  <2>0. k \in 1 .. Len(u) + Len(v) /\ k \in Nat /\ 1 <= k /\ k <= Len(s) - 1
    BY <1>0, <1>4, <1>5
  <2>1. CASE k < i
    <3>1. k <= Len(u) /\ k \in 1 .. (i - 1)
      BY <1>0, <1>1, <2>0, <2>1
    <3> QED BY <1>1, <1>4, <2>0, <2>1, <3>1
  <2>2. CASE ~(k < i)
    <3>1. ~(k <= Len(u)) /\ k - Len(u) \in 1 .. (Len(s) - i) /\ i + (k - Len(u)) = k + 1
      BY <1>0, <1>1, <2>0, <2>2
    <3>2. t[k] = v[k - Len(u)]
      BY <1>4, <2>0, <3>1
    <3>3. v[k - Len(u)] = s[i + (k - Len(u))]
      BY <1>2, <3>1
    <3> QED BY <2>2, <3>1, <3>2, <3>3
  <2> QED BY <2>1, <2>2
<1> QED BY <1>4, <1>5, <1>6

LEMMA PutFirst ==
  ASSUME NEW S, NEW s \in Seq(S), NEW b \in S, NEW t, t = <<b>> \o s
  PROVE  /\ t \in Seq(S) /\ Len(t) = Len(s) + 1 /\ t[1] = b
         /\ \A k \in 1 .. Len(s) : t[k + 1] = s[k]
<1>1. <<b>> \in Seq(S) /\ Len(<<b>>) = 1 /\ <<b>>[1] = b
  OBVIOUS
<1> DEFINE u == <<b>>
<1> HIDE DEF u
<1>2. u \in Seq(S) /\ Len(u) = 1 /\ u[1] = b /\ t = u \o s
  BY <1>1 DEF u
<1>3. /\ t \in Seq(S) /\ Len(t) = Len(u) + Len(s)
      /\ \A k \in 1 .. Len(u) + Len(s) : t[k] = IF k <= Len(u) THEN u[k] ELSE s[k - Len(u)]
  BY <1>2, ConcatProperties
<1>4. Len(s) \in Nat
  OBVIOUS
<1>5. t[1] = b
  BY <1>2, <1>3, <1>4
<1>6. ASSUME NEW k \in 1 .. Len(s) PROVE t[k + 1] = s[k]
  <2>1. k + 1 \in 1 .. Len(u) + Len(s) /\ ~(k + 1 <= Len(u)) /\ (k + 1) - Len(u) = k
    BY <1>2, <1>4
  <2> QED BY <1>3, <2>1
<1>7. Len(t) = Len(s) + 1
  BY <1>2, <1>3, <1>4
<1> QED BY <1>3, <1>5, <1>6, <1>7

(***************************************************************************)
(* The table of memcheck                                                   *)
(***************************************************************************)
Good(tb) ==
  tb.data \in [Hashes -> Seq(Blocks)] /\ Chained(tb) /\ tb.nelem = Cardinality(In(tb))

LEMMA InChain ==
  ASSUME NEW tb, tb.data \in [Hashes -> Seq(Blocks)], Chained(tb), NEW b \in Blocks
  PROVE  /\ Hash[b] \in Hashes /\ tb.data[Hash[b]] \in Seq(Blocks)
         /\ DOMAIN tb.data[Hash[b]] = 1 .. Len(tb.data[Hash[b]])
         /\ b \in In(tb) <=> \E i \in 1 .. Len(tb.data[Hash[b]]) : tb.data[Hash[b]][i] = b
         /\ b \in In(tb) <=> Registered(tb, b)
<1>1. Hash[b] \in Hashes
  BY DEF Hashes
<1>2. tb.data[Hash[b]] \in Seq(Blocks)
  BY <1>1
<1>3. DOMAIN tb.data[Hash[b]] = 1 .. Len(tb.data[Hash[b]])
  BY <1>2
<1>4. Registered(tb, b) <=> \E i \in DOMAIN tb.data[Hash[b]] : tb.data[Hash[b]][i] = b
  BY DEF Registered, Places
<1> QED BY <1>1, <1>2, <1>3, <1>4 DEF In

LEMMA InFinite ==
  ASSUME NEW tb
  PROVE  IsFiniteSet(In(tb)) /\ Cardinality(In(tb)) \in Nat
<1>1. In(tb) \in SUBSET Blocks
  BY DEF In
<1>2. IsFiniteSet(Blocks)
  BY BlocksAssumption
<1>3. IsFiniteSet(In(tb))
  BY <1>1, <1>2, FS_Subset
<1> QED BY <1>3, FS_CardinalityType

(* mc_table_del                                                            *)
LEMMA DelGood ==
  ASSUME NEW tb, Good(tb), NEW b \in Blocks, NEW t, t = mc_table_del(tb, b)
  PROVE  Good(t) /\ In(t) = In(tb) \ {b} /\ t.nelem \in Nat
<1>0. tb.data \in [Hashes -> Seq(Blocks)] /\ Chained(tb) /\ tb.nelem = Cardinality(In(tb))
  BY DEF Good
<1> DEFINE g == Hash[b]
           s == tb.data[g]
<1>1. g \in Hashes /\ s \in Seq(Blocks) /\ DOMAIN s = 1 .. Len(s) /\ Len(s) \in Nat
  BY <1>0, InChain
<1>2. CASE ~Registered(tb, b)
  <2>1. t = tb
    BY <1>2 DEF mc_table_del
  <2>2. b \notin In(tb)
    BY <1>0, <1>2, InChain
  <2>3. In(tb) = In(tb) \ {b}
    BY <2>2
  <2> QED BY <1>0, <2>1, <2>3, InFinite
<1>3. CASE Registered(tb, b)
  <2> DEFINE T == Places(tb, b)
             m == Min(T)
             r == RemoveAt(s, m)
  <2>1. T \subseteq Nat /\ T # {} /\ T \subseteq 1 .. Len(s) /\ \A i \in T : s[i] = b
    BY <1>1, <1>3 DEF Registered, Places
  <2>2. m \in T
    <3> HIDE DEF T
    <3> QED BY <2>1, Least
  <2>3. m \in 1 .. Len(s) /\ s[m] = b
    BY <2>1, <2>2
  <2> HIDE DEF T
  <2>4. t = [data |-> [tb.data EXCEPT ![g] = r], nelem |-> tb.nelem - 1]
    BY <1>3 DEF mc_table_del, T
  <2> HIDE DEF m, r
  <2>5. t.data = [tb.data EXCEPT ![g] = r] /\ t.nelem = tb.nelem - 1
    BY <2>4
  <2> DEFINE n == Len(s)
  <2>6. /\ r \in Seq(Blocks) /\ Len(r) = n - 1
        /\ \A k \in 1 .. Len(r) : r[k] = IF k < m THEN s[k] ELSE s[k + 1]
    <3> HIDE DEF s, n
    <3>1. s \in Seq(Blocks) /\ m \in 1 .. Len(s) /\ r = RemoveAt(s, m)
      BY <1>1, <2>3 DEF r
    <3>2. /\ r \in Seq(Blocks) /\ Len(r) = Len(s) - 1
          /\ \A k \in 1 .. Len(r) : r[k] = IF k < m THEN s[k] ELSE s[k + 1]
      BY <3>1, RemovedAt
    <3> QED BY <3>2 DEF n
  <2>7. t.data \in [Hashes -> Seq(Blocks)] /\ t.data[g] = r
    BY <1>0, <1>1, <2>5, <2>6
  <2>8. \A h \in Hashes : h # g => t.data[h] = tb.data[h]
    BY <1>0, <2>5
  <2>9. /\ \A i \in 1 .. n : Hash[s[i]] = g
        /\ \A i, j \in 1 .. n : s[i] = s[j] => i = j
    BY <1>0, <1>1 DEF Chained
  <2>10. DOMAIN r = 1 .. Len(r) /\ n \in Nat /\ m \in Nat /\ 1 <= m /\ m <= n
    BY <1>1, <2>3, <2>6
  <2> HIDE DEF s, g, n
  <2>11. ASSUME NEW k \in 1 .. Len(r)
         PROVE  /\ r[k] = s[IF k < m THEN k ELSE k + 1] /\ (IF k < m THEN k ELSE k + 1) \in 1 .. n
                /\ (IF k < m THEN k ELSE k + 1) # m
    <3>1. k \in Nat /\ 1 <= k /\ k <= n - 1
      BY <2>6, <2>10
    <3>2. CASE k < m
      BY <2>6, <2>10, <3>1, <3>2
    <3>3. CASE ~(k < m)
      BY <2>6, <2>10, <3>1, <3>3
    <3> QED BY <3>2, <3>3
  <2>12. Chained(t)
    <3> SUFFICES ASSUME NEW h \in Hashes
                 PROVE  /\ \A i \in DOMAIN t.data[h] : Hash[t.data[h][i]] = h
                        /\ \A i, j \in DOMAIN t.data[h] : t.data[h][i] = t.data[h][j] => i = j
      BY DEF Chained
    <3>1. CASE h # g
      BY <1>0, <2>8, <3>1 DEF Chained
    <3>2. CASE h = g
      <4>1. \A i \in DOMAIN r : Hash[r[i]] = g
        BY <2>9, <2>10, <2>11
      <4>2. ASSUME NEW i \in DOMAIN r, NEW j \in DOMAIN r, r[i] = r[j] PROVE i = j
        <5>1. (IF i < m THEN i ELSE i + 1) = (IF j < m THEN j ELSE j + 1)
          BY <2>9, <2>10, <2>11, <4>2
        <5>2. i \in Nat /\ j \in Nat
          BY <2>10
        <5> QED BY <2>10, <5>1, <5>2
      <4> QED BY <2>7, <3>2, <4>1, <4>2
    <3> QED BY <3>1, <3>2
  <2>13. ASSUME NEW c \in Blocks PROVE c \in In(t) <=> c \in In(tb) \ {b}
    <3>1. /\ c \in In(t) <=> \E i \in 1 .. Len(t.data[Hash[c]]) : t.data[Hash[c]][i] = c
          /\ c \in In(tb) <=> \E i \in 1 .. Len(tb.data[Hash[c]]) : tb.data[Hash[c]][i] = c
          /\ Hash[c] \in Hashes
      BY <1>0, <2>7, <2>12, InChain
    <3>2. CASE Hash[c] # g
      <4>1. c # b
        BY <3>2 DEF g
      <4> QED BY <2>8, <3>1, <3>2, <4>1
    <3>3. CASE Hash[c] = g
      <4>1. c \in In(tb) <=> \E i \in 1 .. n : s[i] = c
        BY <3>1, <3>3 DEF s, n
      <4>2. c \in In(t) <=> \E i \in 1 .. Len(r) : r[i] = c
        BY <2>7, <3>1, <3>3
      <4>3. ASSUME NEW i \in 1 .. Len(r), r[i] = c PROVE c # b /\ \E j \in 1 .. n : s[j] = c
        BY <2>3, <2>9, <2>10, <2>11, <4>3 DEF n
      <4>4. ASSUME NEW j \in 1 .. n, s[j] = c, c # b PROVE \E i \in 1 .. Len(r) : r[i] = c
        <5>0. j \in Nat /\ 1 <= j /\ j <= n /\ j # m
          BY <2>3, <2>10, <4>4
        <5>1. CASE j < m
          <6>1. j \in 1 .. Len(r)
            BY <2>6, <2>10, <5>0, <5>1
          <6> QED BY <2>11, <4>4, <5>1, <6>1
        <5>2. CASE ~(j < m)
          <6>1. j - 1 \in 1 .. Len(r) /\ ~(j - 1 < m) /\ (j - 1) + 1 = j
            BY <2>6, <2>10, <5>0, <5>2
          <6> QED BY <2>11, <4>4, <6>1
        <5> QED BY <5>1, <5>2
      <4> QED BY <4>1, <4>2, <4>3, <4>4
    <3> QED BY <3>2, <3>3
  <2>14. In(t) = In(tb) \ {b}
    BY <2>13 DEF In
  <2>15. b \in In(tb)
    BY <1>0, <1>3, InChain
  <2>16. Cardinality(In(t)) = Cardinality(In(tb)) - 1
    BY <2>14, <2>15, OneLess, InFinite
  <2>17. t.nelem = Cardinality(In(t)) /\ t.nelem \in Nat
    BY <1>0, <2>5, <2>16, InFinite
  <2> QED BY <2>7, <2>12, <2>14, <2>17 DEF Good
<1> QED BY <1>2, <1>3

(* mc_table_insert: one node for the address, whether it had one or not.   *)
LEMMA InsertGood ==
  ASSUME NEW tb, Good(tb), NEW b \in Blocks, NEW t, t = mc_table_insert(tb, b)
  PROVE  Good(t) /\ In(t) = In(tb) \cup {b} /\ t.nelem \in Nat
<1> DEFINE o == mc_table_del(tb, b)
           g == Hash[b]
           s == o.data[g]
           r == <<b>> \o s
<1>1. Good(o) /\ In(o) = In(tb) \ {b}
  BY DelGood
<1>2. t = [data |-> [o.data EXCEPT ![g] = r], nelem |-> o.nelem + 1]
  BY DEF mc_table_insert
<1> HIDE DEF o
<1>0. o.data \in [Hashes -> Seq(Blocks)] /\ Chained(o) /\ o.nelem = Cardinality(In(o))
  BY <1>1 DEF Good
<1>3. g \in Hashes /\ s \in Seq(Blocks) /\ DOMAIN s = 1 .. Len(s) /\ Len(s) \in Nat
  BY <1>0, InChain
<1> HIDE DEF r
<1>4. t.data = [o.data EXCEPT ![g] = r] /\ t.nelem = o.nelem + 1
  BY <1>2
<1>5. \A i \in 1 .. Len(s) : Hash[s[i]] = g /\ s[i] # b
  <2>1. b \notin In(o)
    BY <1>1
  <2>2. \A i \in 1 .. Len(s) : s[i] # b
    BY <1>0, <2>1, InChain
  <2> QED BY <1>0, <1>3, <2>2 DEF Chained
<1>6. \A i, j \in 1 .. Len(s) : s[i] = s[j] => i = j
  BY <1>0, <1>3 DEF Chained
<1> HIDE DEF s
<1>7. /\ r \in Seq(Blocks) /\ Len(r) = Len(s) + 1 /\ r[1] = b
      /\ \A k \in 1 .. Len(s) : r[k + 1] = s[k]
  BY <1>3, PutFirst DEF r
<1>8. t.data \in [Hashes -> Seq(Blocks)] /\ t.data[g] = r
  BY <1>0, <1>3, <1>4, <1>7
<1>9. \A h \in Hashes : h # g => t.data[h] = o.data[h]
  BY <1>0, <1>4
<1>10. DOMAIN r = 1 .. Len(r)
  BY <1>7
<1>11. ASSUME NEW k \in 1 .. Len(r)
       PROVE  (k = 1 /\ r[k] = b) \/ (k # 1 /\ k - 1 \in 1 .. Len(s) /\ r[k] = s[k - 1])
  <2>1. CASE k = 1
    BY <1>7, <2>1
  <2>2. CASE k # 1
    <3>1. k - 1 \in 1 .. Len(s) /\ (k - 1) + 1 = k
      BY <1>3, <1>7, <2>2
    <3> QED BY <1>7, <2>2, <3>1
  <2> QED BY <2>1, <2>2
<1>g. Hash[b] = g
  OBVIOUS
<1> HIDE DEF g
<1>12. Chained(t)
  <2> SUFFICES ASSUME NEW h \in Hashes
               PROVE  /\ \A i \in DOMAIN t.data[h] : Hash[t.data[h][i]] = h
                      /\ \A i, j \in DOMAIN t.data[h] : t.data[h][i] = t.data[h][j] => i = j
    BY DEF Chained
  <2>1. CASE h # g
    BY <1>0, <1>9, <2>1 DEF Chained
  <2>2. CASE h = g
    <3>1. \A i \in DOMAIN r : Hash[r[i]] = g
      BY <1>5, <1>10, <1>11, <1>g
    <3>2. ASSUME NEW i \in DOMAIN r, NEW j \in DOMAIN r, r[i] = r[j] PROVE i = j
      <4>1. /\ (i = 1 /\ r[i] = b) \/ (i # 1 /\ i - 1 \in 1 .. Len(s) /\ r[i] = s[i - 1])
            /\ (j = 1 /\ r[j] = b) \/ (j # 1 /\ j - 1 \in 1 .. Len(s) /\ r[j] = s[j - 1])
        BY <1>10, <1>11
      <4>2. (i = 1 /\ j = 1) \/ (i - 1 \in 1 .. Len(s) /\ j - 1 \in 1 .. Len(s)
            /\ s[i - 1] = s[j - 1])
        BY <1>5, <3>2, <4>1
      <4>3. i = j \/ i - 1 = j - 1
        BY <1>6, <4>2
      <4> QED BY <1>10, <4>3
    <3> QED BY <1>8, <2>2, <3>1, <3>2
  <2> QED BY <2>1, <2>2
<1>13. ASSUME NEW c \in Blocks PROVE c \in In(t) <=> c \in In(o) \cup {b}
  <2>1. /\ c \in In(t) <=> \E i \in 1 .. Len(t.data[Hash[c]]) : t.data[Hash[c]][i] = c
        /\ c \in In(o) <=> \E i \in 1 .. Len(o.data[Hash[c]]) : o.data[Hash[c]][i] = c
        /\ Hash[c] \in Hashes
    BY <1>0, <1>8, <1>12, InChain
  <2>2. CASE Hash[c] # g
    BY <1>9, <1>g, <2>1, <2>2
  <2>3. CASE Hash[c] = g
    <3>1. c \in In(o) <=> \E i \in 1 .. Len(s) : s[i] = c
      BY <2>1, <2>3 DEF s
    <3>2. c \in In(t) <=> \E i \in 1 .. Len(r) : r[i] = c
      BY <1>8, <2>1, <2>3
    <3>3. ASSUME NEW i \in 1 .. Len(s) PROVE i + 1 \in 1 .. Len(r) /\ r[i + 1] = s[i]
      BY <1>3, <1>7
    <3>4. 1 \in 1 .. Len(r) /\ r[1] = b
      BY <1>3, <1>7
    <3> QED BY <1>11, <3>1, <3>2, <3>3, <3>4
  <2> QED BY <2>2, <2>3
<1>14. In(t) = In(o) \cup {b} /\ In(t) = In(tb) \cup {b} /\ b \notin In(o)
  BY <1>1, <1>13 DEF In
<1>15. Cardinality(In(t)) = Cardinality(In(o)) + 1
  BY <1>14, OneMore, InFinite
<1> QED BY <1>0, <1>4, <1>8, <1>12, <1>14, <1>15, InFinite DEF Good

LEMMA SameTable ==
  ASSUME NEW t, NEW u, Good(t), u.data = t.data, u.nelem = t.nelem
  PROVE  Good(u) /\ In(u) = In(t)
<1>1. In(u) = In(t)
  BY DEF In, Registered, Places
<1>2. Chained(u)
  BY DEF Good, Chained
<1> QED BY <1>1, <1>2 DEF Good

(* What a call leaves: a table of the blocks I.                            *)
Holding(I) ==
  /\ InTable' = I /\ Chained(Table') /\ nelem' = Cardinality(InTable')
  /\ data' \in [Hashes -> Seq(Blocks)] /\ nelem' \in Nat

LEMMA TableGood ==
  ASSUME Inv
  PROVE  Good(Table) /\ In(Table) = InTable /\ InTable \subseteq Blocks
<1>1. In(Table) = InTable
  BY DEF In, InTable
<1>2. Table.data = data /\ Table.nelem = nelem
  BY DEF Table
<1>3. InTable \subseteq Blocks
  BY DEF InTable
<1> QED BY <1>1, <1>2, <1>3 DEF Inv, Exact, TypeOK, MemCheckTypeOK, Good

LEMMA TableBecame ==
  ASSUME NEW t, Good(t), t.nelem \in Nat, TableBecomes(t)
  PROVE  Holding(In(t))
<1>1. data' = t.data /\ nelem' = t.nelem
  BY DEF TableBecomes
<1> DEFINE u == [data |-> data', nelem |-> nelem']
<1>2. u.data = t.data /\ u.nelem = t.nelem /\ Table' = u
  BY <1>1 DEF Table
<1> HIDE DEF u
<1>3. Good(u) /\ In(u) = In(t)
  BY <1>2, SameTable
<1>4. InTable' = In(t)
  <2>1. InTable' = In(Table')
    BY DEF InTable, In
  <2> QED BY <1>2, <1>3, <2>1
<1>5. Chained(Table') /\ nelem' = Cardinality(InTable') /\ data' \in [Hashes -> Seq(Blocks)]
  BY <1>1, <1>2, <1>3, <1>4 DEF Good
<1> QED BY <1>1, <1>4, <1>5 DEF Holding

LEMMA TableLeft ==
  ASSUME Inv, UNCHANGED <<data, nelem>>
  PROVE  Holding(InTable)
<1>1. Table.nelem = nelem /\ nelem \in Nat /\ Table.data = data
  BY DEF Table, Inv, TypeOK, MemCheckTypeOK
<1>2. TableBecomes(Table)
  BY <1>1 DEF TableBecomes
<1>3. Holding(In(Table))
  <2> DEFINE t == Table
  <2>1. Good(t) /\ t.nelem \in Nat /\ TableBecomes(t)
    BY <1>1, <1>2, TableGood
  <2> HIDE DEF t
  <2>2. Holding(In(t))
    BY <2>1, TableBecame
  <2> QED BY <2>2 DEF t
<1> QED BY <1>3, TableGood

LEMMA RegistersHolds ==
  ASSUME Inv, NEW b \in Blocks, Registers(b)
  PROVE  Holding(InTable \cup {b}) /\ UNCHANGED <<given, aborted>>
<1> DEFINE s == Table
           t == mc_table_insert(s, b)
<1>1. Good(s) /\ In(s) = InTable
  BY TableGood
<1>2. TableBecomes(t) /\ UNCHANGED <<given, aborted>>
  BY DEF Registers
<1> HIDE DEF s
<1>3. t = mc_table_insert(s, b)
  OBVIOUS
<1> HIDE DEF t
<1>4. Good(t) /\ In(t) = In(s) \cup {b} /\ t.nelem \in Nat
  BY <1>1, <1>3, InsertGood
<1>5. Holding(In(t))
  BY <1>2, <1>4, TableBecame
<1> QED BY <1>1, <1>2, <1>4, <1>5

LEMMA ReregistersHolds ==
  ASSUME Inv, NEW p \in Blocks, NEW b \in Blocks, Reregisters(p, b)
  PROVE  Holding((InTable \ {p}) \cup {b}) /\ UNCHANGED <<given, aborted>>
<1> DEFINE s == Table
           d == mc_table_del(s, p)
           t == mc_table_insert(d, b)
<1>1. Good(s) /\ In(s) = InTable
  BY TableGood
<1>2. TableBecomes(t) /\ UNCHANGED <<given, aborted>>
  BY DEF Reregisters
<1> HIDE DEF s
<1>3. d = mc_table_del(s, p)
  OBVIOUS
<1> HIDE DEF d
<1>4. t = mc_table_insert(d, b)
  OBVIOUS
<1> HIDE DEF t
<1>5. Good(d) /\ In(d) = In(s) \ {p}
  BY <1>1, <1>3, DelGood
<1>6. Good(t) /\ In(t) = In(d) \cup {b} /\ t.nelem \in Nat
  BY <1>4, <1>5, InsertGood
<1>7. Holding(In(t))
  BY <1>2, <1>6, TableBecame
<1> QED BY <1>1, <1>2, <1>5, <1>6, <1>7

LEMMA DelHolds ==
  ASSUME Inv, NEW b \in Blocks, TableBecomes(mc_table_del(Table, b))
  PROVE  Holding(InTable \ {b})
<1> DEFINE s == Table
           t == mc_table_del(s, b)
<1>1. Good(s) /\ In(s) = InTable
  BY TableGood
<1>2. TableBecomes(t)
  OBVIOUS
<1> HIDE DEF s
<1>3. t = mc_table_del(s, b)
  OBVIOUS
<1> HIDE DEF t
<1>4. Good(t) /\ In(t) = In(s) \ {b} /\ t.nelem \in Nat
  BY <1>1, <1>3, DelGood
<1>5. Holding(In(t))
  BY <1>2, <1>4, TableBecame
<1> QED BY <1>1, <1>4, <1>5

LEMMA FreeHolds ==
  ASSUME Inv, NEW b \in Blocks, mcfree(b)
  PROVE  \/ b \in InTable /\ Holding(InTable \ {b}) /\ given' = given \ {b} /\ aborted' = aborted
         \/ b \notin InTable /\ Holding(InTable) /\ given' = given /\ aborted' = TRUE
<1>1. CASE Registered(Table, b)
  <2>1. TableBecomes(mc_table_del(Table, b)) /\ given' = given \ {b} /\ aborted' = aborted
    BY <1>1 DEF mcfree
  <2>2. b \in InTable
    BY <1>1 DEF InTable
  <2> QED BY <2>1, <2>2, DelHolds
<1>2. CASE ~Registered(Table, b)
  <2>1. aborted' = TRUE /\ UNCHANGED <<given, data, nelem>>
    BY <1>2 DEF mcfree
  <2>2. b \notin InTable
    BY <1>2 DEF InTable
  <2> QED BY <2>1, <2>2, TableLeft
<1> QED BY <1>1, <1>2

LEMMA FreeBlock ==
  ASSUME given \subseteq Blocks, given # Blocks
  PROVE  FirstFree \in Blocks /\ FirstFree \notin given
<1> DEFINE T == Blocks \ given
<1>1. T \subseteq Nat /\ T # {}
  BY BlocksAssumption
<1> HIDE DEF T
<1>2. Min(T) \in T
  BY <1>1, Least
<1> QED BY <1>2 DEF T, FirstFree

(***************************************************************************)
(* Types                                                                   *)
(***************************************************************************)
Object == [obj : Blocks \cup {Null}, list : Blocks \cup {Null}, arr : Blocks \cup {Null},
           cap : Nat, addrs : Seq(Pages)]

LEMMA MemTypes ==
  ASSUME NEW I, Holding(I), given' \subseteq Blocks, aborted' \in BOOLEAN
  PROVE  MemCheckTypeOK'
BY DEF Holding, MemCheckTypeOK

LEMMA ObjectFields ==
  ASSUME NEW c \in Object
  PROVE  /\ c.obj \in Blocks \cup {Null} /\ c.list \in Blocks \cup {Null}
         /\ c.arr \in Blocks \cup {Null} /\ c.cap \in Nat /\ c.addrs \in Seq(Pages)
         /\ c["obj"] = c.obj /\ c["list"] = c.list /\ c["arr"] = c.arr
         /\ \A f \in Parts : c[f] \in Blocks \cup {Null}
BY DEF Object, Parts

LEMMA NullApart ==
  Null \notin Blocks /\ Null \notin Users /\ Null \notin Pages /\ Kill \notin Users /\ Kill # Null
  /\ Main \in Users
BY ConstantsAssumption DEF Pages

LEMMA NoObjectTypes ==
  /\ NoObject \in Object /\ NoObject.obj = Null /\ NoObject.list = Null /\ NoObject.arr = Null
  /\ NoObject.cap = 0 /\ NoObject.addrs = <<>>
BY DEF NoObject, Object

(* The object of u, field by field, when all others stay.                  *)
Becomes(u, obj, list, arr, n, s) ==
  /\ ckpt' \in [Users -> Object]
  /\ ckpt'[u].obj = obj /\ ckpt'[u].list = list /\ ckpt'[u].arr = arr
  /\ ckpt'[u].cap = n /\ ckpt'[u].addrs = s
  /\ \A v \in Users \ {u} : ckpt'[v] = ckpt[v]

LEMMA Objects ==
  ASSUME TypeOK
  PROVE  ckpt \in [Users -> Object] /\ \A u \in Users : ckpt[u] \in Object
BY DEF TypeOK, Object

LEMMA ObjectBecomes ==
  ASSUME TypeOK, NEW u \in Users, NEW c \in Object, ckpt' = [ckpt EXCEPT ![u] = c]
  PROVE  Becomes(u, c.obj, c.list, c.arr, c.cap, c.addrs)
BY Objects DEF Becomes

LEMMA WithCap ==
  ASSUME NEW c \in Object, NEW n \in Nat, NEW d, d = [c EXCEPT !.cap = n]
  PROVE  /\ d \in Object /\ d.obj = c.obj /\ d.list = c.list /\ d.arr = c.arr
         /\ d.cap = n /\ d.addrs = c.addrs
BY DEF Object

LEMMA WithAddrs ==
  ASSUME NEW c \in Object, NEW s \in Seq(Pages), NEW d, d = [c EXCEPT !.addrs = s]
  PROVE  /\ d \in Object /\ d.obj = c.obj /\ d.list = c.list /\ d.arr = c.arr
         /\ d.cap = c.cap /\ d.addrs = s
BY DEF Object

LEMMA ArrayLength ==
  2 ^ Power \in Nat
<1> DEFINE S == 1 .. Power
<1>1. Power \in Nat
  BY ConstantsAssumption
<1>2. IsFiniteSet(S) /\ Cardinality(S) = Power
  BY <1>1, FS_Interval
<1> HIDE DEF S
<1>3. IsFiniteSet(SUBSET S) /\ Cardinality(SUBSET S) = 2 ^ Power
  BY <1>2, FS_SUBSET
<1> QED BY <1>3, FS_CardinalityType

LEMMA RegisteredObject ==
  ASSUME TypeOK, NEW u \in Users, NEW b \in Blocks, b = flight[u],
         ckpt' = [ckpt EXCEPT ![u][pc[u]] = flight[u],
                              ![u].cap = IF pc[u] = "arr" THEN 2 ^ Power ELSE @]
  PROVE  LET c == ckpt[u] IN
         /\ pc[u] = "obj"  => Becomes(u, b, c.list, c.arr, c.cap, c.addrs)
         /\ pc[u] = "list" => Becomes(u, c.obj, b, c.arr, c.cap, c.addrs)
         /\ pc[u] = "arr"  => Becomes(u, c.obj, c.list, b, 2 ^ Power, c.addrs)
<1> DEFINE c == ckpt[u]
<1>0. c \in Object /\ c.cap \in Nat /\ ckpt \in [Users -> Object]
  BY Objects, ObjectFields
<1>b. b \in Blocks \cup {Null}
  OBVIOUS
<1>1. ASSUME pc[u] = "obj" PROVE Becomes(u, b, c.list, c.arr, c.cap, c.addrs)
  <2> DEFINE d == [c EXCEPT !["obj"] = b]
             e == [d EXCEPT !.cap = c.cap]
  <2>d. d = [c EXCEPT !["obj"] = b]
    OBVIOUS
  <2>2. ckpt' = [ckpt EXCEPT ![u] = e]
    BY <1>0, <1>1
  <2> HIDE DEF d, c
  <2>1. d \in Object /\ d.obj = b /\ d.list = c.list /\ d.arr = c.arr /\ d.cap = c.cap
        /\ d.addrs = c.addrs
    BY <1>0, <1>b, <2>d DEF Object
  <2>3. e \in Object /\ e.obj = b /\ e.list = c.list /\ e.arr = c.arr /\ e.cap = c.cap
        /\ e.addrs = c.addrs
    BY <1>0, <2>1, WithCap
  <2> HIDE DEF e
  <2>4. Becomes(u, e.obj, e.list, e.arr, e.cap, e.addrs)
    BY <2>2, <2>3, ObjectBecomes
  <2> QED BY <2>3, <2>4
<1>2. ASSUME pc[u] = "list" PROVE Becomes(u, c.obj, b, c.arr, c.cap, c.addrs)
  <2> DEFINE d == [c EXCEPT !["list"] = b]
             e == [d EXCEPT !.cap = c.cap]
  <2>d. d = [c EXCEPT !["list"] = b]
    OBVIOUS
  <2>2. ckpt' = [ckpt EXCEPT ![u] = e]
    BY <1>0, <1>2
  <2> HIDE DEF d, c
  <2>1. d \in Object /\ d.obj = c.obj /\ d.list = b /\ d.arr = c.arr /\ d.cap = c.cap
        /\ d.addrs = c.addrs
    BY <1>0, <1>b, <2>d DEF Object
  <2>3. e \in Object /\ e.obj = c.obj /\ e.list = b /\ e.arr = c.arr /\ e.cap = c.cap
        /\ e.addrs = c.addrs
    BY <1>0, <2>1, WithCap
  <2> HIDE DEF e
  <2>4. Becomes(u, e.obj, e.list, e.arr, e.cap, e.addrs)
    BY <2>2, <2>3, ObjectBecomes
  <2> QED BY <2>3, <2>4
<1>3. ASSUME pc[u] = "arr" PROVE Becomes(u, c.obj, c.list, b, 2 ^ Power, c.addrs)
  <2> DEFINE n == 2 ^ Power
             d == [c EXCEPT !["arr"] = b]
             e == [d EXCEPT !.cap = n]
  <2>d. d = [c EXCEPT !["arr"] = b]
    OBVIOUS
  <2>0. n \in Nat
    BY ArrayLength
  <2>2. ckpt' = [ckpt EXCEPT ![u] = e]
    BY <1>0, <1>3
  <2> HIDE DEF d, c, n
  <2>1. d \in Object /\ d.obj = c.obj /\ d.list = c.list /\ d.arr = b /\ d.addrs = c.addrs
    BY <1>0, <1>b, <2>d DEF Object
  <2>3. e \in Object /\ e.obj = c.obj /\ e.list = c.list /\ e.arr = b /\ e.cap = n
        /\ e.addrs = c.addrs
    BY <2>0, <2>1, WithCap
  <2> HIDE DEF e
  <2>4. Becomes(u, e.obj, e.list, e.arr, e.cap, e.addrs)
    BY <2>2, <2>3, ObjectBecomes
  <2> QED BY <2>3, <2>4 DEF n
<1> QED BY <1>1, <1>2, <1>3

LEMMA FreedObject ==
  ASSUME TypeOK, NEW u \in Users, NEW f \in Parts,
         ckpt' = [ckpt EXCEPT ![u] = IF f = "obj" THEN NoObject ELSE [@ EXCEPT ![f] = Null]]
  PROVE  LET c == ckpt[u] IN
         /\ f = "obj"  => Becomes(u, Null, Null, Null, 0, <<>>)
         /\ f = "list" => Becomes(u, c.obj, Null, c.arr, c.cap, c.addrs)
         /\ f = "arr"  => Becomes(u, c.obj, c.list, Null, c.cap, c.addrs)
<1> DEFINE c == ckpt[u]
<1>0. c \in Object /\ ckpt \in [Users -> Object]
  BY Objects
<1>b. Null \in Blocks \cup {Null}
  OBVIOUS
<1>1. ASSUME f = "obj" PROVE Becomes(u, Null, Null, Null, 0, <<>>)
  <2>1. ckpt' = [ckpt EXCEPT ![u] = NoObject]
    BY <1>1
  <2>2. Becomes(u, NoObject.obj, NoObject.list, NoObject.arr, NoObject.cap, NoObject.addrs)
    BY <2>1, NoObjectTypes, ObjectBecomes
  <2> QED BY <2>2, NoObjectTypes
<1>2. ASSUME f = "list" PROVE Becomes(u, c.obj, Null, c.arr, c.cap, c.addrs)
  <2> DEFINE d == [c EXCEPT !["list"] = Null]
  <2>d. d = [c EXCEPT !["list"] = Null]
    OBVIOUS
  <2>2. ckpt' = [ckpt EXCEPT ![u] = d]
    BY <1>0, <1>2
  <2> HIDE DEF d, c
  <2>1. d \in Object /\ d.obj = c.obj /\ d.list = Null /\ d.arr = c.arr /\ d.cap = c.cap
        /\ d.addrs = c.addrs
    BY <1>0, <1>b, <2>d DEF Object
  <2>3. Becomes(u, d.obj, d.list, d.arr, d.cap, d.addrs)
    BY <2>1, <2>2, ObjectBecomes
  <2> QED BY <2>1, <2>3
<1>3. ASSUME f = "arr" PROVE Becomes(u, c.obj, c.list, Null, c.cap, c.addrs)
  <2> DEFINE d == [c EXCEPT !["arr"] = Null]
  <2>d. d = [c EXCEPT !["arr"] = Null]
    OBVIOUS
  <2>2. ckpt' = [ckpt EXCEPT ![u] = d]
    BY <1>0, <1>3
  <2> HIDE DEF d, c
  <2>1. d \in Object /\ d.obj = c.obj /\ d.list = c.list /\ d.arr = Null /\ d.cap = c.cap
        /\ d.addrs = c.addrs
    BY <1>0, <1>b, <2>d DEF Object
  <2>3. Becomes(u, d.obj, d.list, d.arr, d.cap, d.addrs)
    BY <2>1, <2>2, ObjectBecomes
  <2> QED BY <2>1, <2>3
<1> QED BY <1>1, <1>2, <1>3

(***************************************************************************)
(* What each action does                                                   *)
(***************************************************************************)
Doing == Parts \cup {"idle", "ready", "adding", "growing", "wait", "dellist", "delobj", "submit",
                     "joins", "delkill", "sweep", "down"}

Turns(u, to) ==
  pc' \in [Users -> Doing] /\ pc'[u] = to /\ \A v \in Users \ {u} : pc'[v] = pc[v]

LEMMA Going ==
  ASSUME TypeOK, NEW u \in Users, NEW from, NEW to \in Doing, Goes(u, from, to)
  PROVE  ~aborted /\ pc[u] = from /\ Turns(u, to)
<1>1. pc \in [Users -> Doing]
  BY DEF TypeOK, Doing, Parts
<1> QED BY <1>1 DEF Goes, Turns

(* The types, with the sets named.                                         *)
UserTypes ==
  /\ pc \in [Users -> Doing] /\ ckpt \in [Users -> Object] /\ made \in [Users -> 0 .. Rounds]
  /\ flight \in [Users -> Blocks \cup {Null}] /\ todo \in [Users -> [iter : Nat, high : Nat]]
  /\ added \in [Users -> SUBSET Regions]
QueueTypes ==
  /\ crinput \in Seq(Users \cup {Kill}) /\ serving \in Users \cup {Null} /\ at \in Nat \ {0}
  /\ finished \in [Users -> Nat]
WorkTypes ==
  /\ entry \in [Pages -> Blocks \cup {Null}]
  /\ logging \in Pages \cup {Null} /\ logblock \in Blocks \cup {Null}
  /\ killfd \in BOOLEAN /\ workers \subseteq {"uffd", "cr"}

LEMMA TypeParts ==
  /\ TypeOK => MemCheckTypeOK /\ UserTypes /\ QueueTypes /\ WorkTypes /\ struck \subseteq Blocks
  /\ MemCheckTypeOK /\ UserTypes /\ QueueTypes /\ WorkTypes /\ struck \subseteq Blocks => TypeOK
BY DEF TypeOK, UserTypes, QueueTypes, WorkTypes, Object, Doing, Parts

LEMMA TypePartsNext ==
  MemCheckTypeOK' /\ UserTypes' /\ QueueTypes' /\ WorkTypes' /\ (struck \subseteq Blocks)' =>
        TypeOK'
BY DEF TypeOK, UserTypes, QueueTypes, WorkTypes, Object, Doing, Parts

LEMMA Kept ==
  ASSUME TypeOK
  PROVE  /\ UNCHANGED memcheckvars => MemCheckTypeOK'
         /\ UNCHANGED uservars => UserTypes'
         /\ UNCHANGED queuevars => QueueTypes'
         /\ UNCHANGED <<faultvars, killfd, workers>> => WorkTypes'
         /\ UNCHANGED workvars => QueueTypes' /\ WorkTypes'
         /\ UNCHANGED struck => struck' \subseteq Blocks
<1>0. MemCheckTypeOK /\ UserTypes /\ QueueTypes /\ WorkTypes /\ struck \subseteq Blocks
  BY TypeParts
<1>1. UNCHANGED memcheckvars => MemCheckTypeOK'
  BY <1>0 DEF memcheckvars, MemCheckTypeOK
<1>2. UNCHANGED uservars => UserTypes'
  BY <1>0 DEF uservars, UserTypes
<1>3. UNCHANGED queuevars => QueueTypes'
  BY <1>0 DEF queuevars, QueueTypes
<1>4. UNCHANGED <<faultvars, killfd, workers>> => WorkTypes'
  BY <1>0 DEF faultvars, WorkTypes
<1> QED BY <1>0, <1>1, <1>2, <1>3, <1>4 DEF workvars

(* A thread is given a block, or has registered it; its place in a region. *)
Takes(u, b) ==
  /\ flight' \in [Users -> Blocks \cup {Null}] /\ flight'[u] = b
  /\ \A v \in Users \ {u} : flight'[v] = flight[v]

Steps(u, t) ==
  /\ todo' \in [Users -> [iter : Nat, high : Nat]] /\ todo'[u] = t
  /\ \A v \in Users \ {u} : todo'[v] = todo[v]

LEMMA NewBeginsDoes ==
  ASSUME Inv, NEW u \in Users, NewBegins(u)
  PROVE  /\ TypeOK' /\ ~killfd /\ pc[u] = "idle" /\ Turns(u, "obj")
         /\ UNCHANGED <<memcheckvars, ckpt, flight, todo, added, workvars, struck>>
<1>1. UNCHANGED <<memcheckvars, ckpt, flight, todo, added, workvars, struck>> /\ ~killfd
  BY DEF NewBegins
<1>2. pc[u] = "idle" /\ Turns(u, "obj")
  BY Going DEF NewBegins, Doing, Parts, Inv
<1>3. TypeOK /\ UserTypes
  BY TypeParts DEF Inv
<1>4. made' \in [Users -> 0 .. Rounds]
  <2>1. made \in [Users -> 0 .. Rounds] /\ Rounds \in Nat
    BY <1>3, ConstantsAssumption DEF UserTypes
  <2>2. made[u] \in 0 .. Rounds /\ made[u] < Rounds /\ made' = [made EXCEPT ![u] = @ + 1]
    BY <2>1 DEF NewBegins
  <2>3. made[u] + 1 \in 0 .. Rounds
    BY <2>1, <2>2
  <2> QED BY <2>1, <2>2, <2>3
<1>5. UserTypes'
  BY <1>1, <1>2, <1>3, <1>4 DEF UserTypes, Turns
<1>6. TypeOK'
  BY <1>1, <1>3, <1>5, Kept, TypePartsNext
<1> QED BY <1>1, <1>2, <1>6

LEMMA GivesDoes ==
  ASSUME Inv, Gives
  PROVE  /\ MemCheckTypeOK' /\ FirstFree \in Blocks /\ FirstFree \notin given
         /\ given' = given \cup {FirstFree} /\ UNCHANGED <<data, nelem, aborted>>
<1>1. MemCheckTypeOK
  BY TypeParts DEF Inv
<1>2. given # Blocks /\ given' = given \cup {FirstFree} /\ UNCHANGED <<data, nelem, aborted>>
  BY DEF Gives
<1>3. FirstFree \in Blocks /\ FirstFree \notin given
  BY <1>1, <1>2, FreeBlock DEF MemCheckTypeOK
<1> QED BY <1>1, <1>2, <1>3 DEF MemCheckTypeOK

LEMMA NewGivesDoes ==
  ASSUME Inv, NEW u \in Users, NewGives(u)
  PROVE  /\ TypeOK' /\ FirstFree \in Blocks /\ FirstFree \notin given
         /\ given' = given \cup {FirstFree} /\ Takes(u, FirstFree)
         /\ pc[u] \in Parts /\ flight[u] = Null
         /\ UNCHANGED <<data, nelem, aborted, made, pc, ckpt, todo, added, workvars, struck>>
<1>1. /\ UNCHANGED <<made, pc, ckpt, todo, added, workvars, struck>> /\ Gives
      /\ flight' = [flight EXCEPT ![u] = FirstFree] /\ pc[u] \in Parts /\ flight[u] = Null
  BY DEF NewGives
<1>2. /\ MemCheckTypeOK' /\ FirstFree \in Blocks /\ FirstFree \notin given
      /\ given' = given \cup {FirstFree} /\ UNCHANGED <<data, nelem, aborted>>
  BY <1>1, GivesDoes
<1>3. TypeOK /\ UserTypes
  BY TypeParts DEF Inv
<1>4. Takes(u, FirstFree)
  BY <1>1, <1>2, <1>3 DEF Takes, UserTypes
<1>5. UserTypes'
  BY <1>1, <1>3, <1>4 DEF UserTypes, Takes
<1>6. TypeOK'
  BY <1>1, <1>2, <1>3, <1>5, Kept, TypePartsNext
<1> QED BY <1>1, <1>2, <1>4, <1>6

LEMMA NewRegistersDoes ==
  ASSUME Inv, NEW u \in Users, NewRegisters(u)
  PROVE  LET b == flight[u] c == ckpt[u] IN
         /\ TypeOK' /\ b \in Blocks /\ Holding(InTable \cup {b}) /\ Takes(u, Null)
         /\ \/ pc[u] = "obj" /\ Turns(u, "list") /\ Becomes(u, b, c.list, c.arr, c.cap, c.addrs)
            \/ pc[u] = "list" /\ Turns(u, "arr") /\ Becomes(u, c.obj, b, c.arr, c.cap, c.addrs)
            \/ pc[u] = "arr" /\ Turns(u, IF killfd THEN "submit" ELSE "ready")
               /\ Becomes(u, c.obj, c.list, b, 2 ^ Power, c.addrs)
         /\ struck' = struck \ {b}
         /\ UNCHANGED <<given, aborted, made, todo, added, workvars>>
<1> DEFINE b == flight[u]
           c == ckpt[u]
           to == IF killfd THEN "submit" ELSE "ready"
<1>1. /\ UNCHANGED <<made, todo, added, workvars>> /\ Registers(b) /\ b # Null
      /\ struck' = struck \ {b} /\ flight' = [flight EXCEPT ![u] = Null]
      /\ ckpt' = [ckpt EXCEPT ![u][pc[u]] = flight[u],
                              ![u].cap = IF pc[u] = "arr" THEN 2 ^ Power ELSE @]
      /\ Goes(u, "obj", "list") \/ Goes(u, "list", "arr") \/ Goes(u, "arr", to)
  BY DEF NewRegisters
<1>2. TypeOK /\ UserTypes /\ MemCheckTypeOK /\ struck \subseteq Blocks
  BY TypeParts DEF Inv
<1>3. b \in Blocks /\ b = flight[u] /\ Takes(u, Null)
  BY <1>1, <1>2 DEF UserTypes, Takes
<1> HIDE DEF b
<1>4. Holding(InTable \cup {b}) /\ UNCHANGED <<given, aborted>>
  BY <1>1, <1>3, RegistersHolds
<1>5. /\ pc[u] = "obj"  => Becomes(u, b, c.list, c.arr, c.cap, c.addrs)
      /\ pc[u] = "list" => Becomes(u, c.obj, b, c.arr, c.cap, c.addrs)
      /\ pc[u] = "arr"  => Becomes(u, c.obj, c.list, b, 2 ^ Power, c.addrs)
  BY <1>1, <1>2, <1>3, RegisteredObject
<1>6. "list" \in Doing /\ "arr" \in Doing /\ to \in Doing
  BY DEF Doing, Parts
<1> HIDE DEF to
<1>7. \/ pc[u] = "obj" /\ Turns(u, "list")
      \/ pc[u] = "list" /\ Turns(u, "arr")
      \/ pc[u] = "arr" /\ Turns(u, to)
  BY <1>1, <1>2, <1>6, Going
<1>8. UserTypes'
  <2>1. pc' \in [Users -> Doing] /\ ckpt' \in [Users -> Object]
    BY <1>5, <1>7 DEF Turns, Becomes
  <2> QED BY <1>1, <1>2, <1>3, <2>1 DEF UserTypes, Takes
<1>9. MemCheckTypeOK' /\ struck' \subseteq Blocks
  <2>1. given' \subseteq Blocks /\ aborted' \in BOOLEAN
    BY <1>2, <1>4 DEF MemCheckTypeOK
  <2> QED BY <1>1, <1>2, <1>4, <2>1, MemTypes
<1>10. TypeOK'
  BY <1>1, <1>2, <1>8, <1>9, Kept, TypePartsNext
<1>11. \/ pc[u] = "obj" /\ Turns(u, "list") /\ Becomes(u, b, c.list, c.arr, c.cap, c.addrs)
       \/ pc[u] = "list" /\ Turns(u, "arr") /\ Becomes(u, c.obj, b, c.arr, c.cap, c.addrs)
       \/ pc[u] = "arr" /\ Turns(u, to) /\ Becomes(u, c.obj, c.list, b, 2 ^ Power, c.addrs)
  BY <1>5, <1>7
<1> QED BY <1>1, <1>3, <1>4, <1>10, <1>11 DEF b, to

(***************************************************************************)
(* Pages                                                                   *)
(***************************************************************************)
LEMMA Division ==
  ASSUME NEW a \in Nat, NEW n \in Nat \ {0}
  PROVE  a \div n \in Nat /\ a % n \in 0 .. (n - 1) /\ a = n * (a \div n) + (a % n)
<1>1. a \div n \in Nat
  OBVIOUS
<1>2. a % n \in 0 .. (n - 1)
  OBVIOUS
<1>3. a = n * (a \div n) + (a % n)
  <2> DEFINE d == a \div n
             m == a % n
  <2>1. d \in Nat /\ m \in 0 .. (n - 1) /\ a = n * d + m
    OBVIOUS
  <2> QED BY <2>1
<1> QED BY <1>1, <1>2, <1>3

LEMMA Whole ==
  ASSUME NEW a \in Nat, a % PageSize = 0
  PROVE  \E d \in Nat : a = PageSize * d
<1>1. PageSize \in Nat \ {0}
  BY ConstantsAssumption
<1>2. a \div PageSize \in Nat /\ a = PageSize * (a \div PageSize) + (a % PageSize)
  BY <1>1, Division
<1> DEFINE d == a \div PageSize
           n == PageSize
<1>3. d \in Nat /\ a = n * d + 0 /\ n \in Nat
  BY <1>1, <1>2
<1> HIDE DEF d, n
<1>4. a = n * d
  BY <1>3
<1> QED BY <1>3, <1>4 DEF n

LEMMA InPage ==
  ASSUME NEW a \in Nat
  PROVE  /\ PageOf(a) \in Nat /\ PageOf(a) % PageSize = 0
         /\ PageOf(a) <= a /\ a < PageOf(a) + PageSize
<1> DEFINE n == PageSize
           d == a \div n
           m == a % n
<1>1. n \in Nat \ {0}
  BY ConstantsAssumption
<1>2. d \in Nat /\ m \in 0 .. (n - 1) /\ a = n * d + m
  <2> HIDE DEF n
  <2> QED BY <1>1
<1>3. PageOf(a) = a - m
  BY DEF PageOf
<1>4. (n * d) % n = 0 /\ n * d \in Nat
  <2> HIDE DEF n, d, m
  <2> QED BY <1>1, <1>2
<1> HIDE DEF n, d, m
<1>5. PageOf(a) = n * d
  BY <1>1, <1>2, <1>3, <1>4
<1>6. PageOf(a) \in Nat /\ PageOf(a) % n = 0 /\ PageOf(a) <= a /\ a < PageOf(a) + n
  BY <1>1, <1>2, <1>3, <1>4, <1>5
<1> QED BY <1>6 DEF n

(* Two pages are a page apart at least.                                    *)
LEMMA PagesApart ==
  ASSUME NEW p \in Nat, NEW q \in Nat, p % PageSize = 0, q % PageSize = 0, p < q
  PROVE  p + PageSize <= q
<1> DEFINE n == PageSize
<1>1. n \in Nat \ {0}
  BY ConstantsAssumption
<1>2. PICK d \in Nat, e \in Nat : p = n * d /\ q = n * e
  BY Whole
<1> HIDE DEF n
<1>3. ASSUME e <= d PROVE FALSE
  <2>1. n * e <= n * d
    BY <1>1, <1>2, <1>3
  <2> QED BY <1>2, <2>1
<1>4. d + 1 <= e
  BY <1>2, <1>3
<1>5. n * (d + 1) <= n * e /\ n * (d + 1) = n * d + n
  BY <1>1, <1>2, <1>4
<1>6. p + n <= q
  BY <1>1, <1>2, <1>5
<1> QED BY <1>6 DEF n

LEMMA NextPage ==
  ASSUME NEW p \in Nat, p % PageSize = 0
  PROVE  p + PageSize \in Nat /\ (p + PageSize) % PageSize = 0
<1> DEFINE n == PageSize
<1>1. n \in Nat \ {0}
  BY ConstantsAssumption
<1>2. PICK d \in Nat : p = n * d
  BY Whole
<1> HIDE DEF n
<1>3. p + n = n * (d + 1) /\ d + 1 \in Nat /\ (n * (d + 1)) % n = 0
  BY <1>1, <1>2
<1>4. p + n \in Nat /\ (p + n) % n = 0
  BY <1>1, <1>3
<1> QED BY <1>4 DEF n

(***************************************************************************)
(* Adding a region                                                         *)
(***************************************************************************)
LEMMA Fields ==
  ASSUME Inv, NEW u \in Users
  PROVE  /\ ckpt[u] \in Object /\ flight[u] \in Blocks \cup {Null} /\ pc[u] \in Doing
         /\ todo[u] \in [iter : Nat, high : Nat] /\ added[u] \subseteq Regions
         /\ finished[u] \in Nat /\ todo[u].iter \in Nat /\ todo[u].high \in Nat
<1>1. UserTypes /\ QueueTypes
  BY TypeParts DEF Inv
<1> QED BY <1>1 DEF UserTypes, QueueTypes

LEMMA AddBeginsDoes ==
  ASSUME Inv, NEW u \in Users, NEW r \in Regions, AddBegins(u, r)
  PROVE  /\ TypeOK' /\ pc[u] = "ready" /\ Turns(u, "adding")
         /\ Steps(u, [iter |-> PageOf(r.addr), high |-> r.addr + r.len])
         /\ added' = [added EXCEPT ![u] = @ \cup {r}]
         /\ UNCHANGED <<made, memcheckvars, ckpt, flight, workvars, struck>>
<1>1. /\ UNCHANGED <<made, memcheckvars, ckpt, flight, workvars, struck>>
      /\ todo' = [todo EXCEPT ![u] = [iter |-> PageOf(r.addr), high |-> r.addr + r.len]]
      /\ added' = [added EXCEPT ![u] = @ \cup {r}]
  BY DEF AddBegins
<1>2. pc[u] = "ready" /\ Turns(u, "adding")
  BY Going DEF AddBegins, Doing, Parts, Inv
<1>3. TypeOK /\ UserTypes
  BY TypeParts DEF Inv
<1>4. Steps(u, [iter |-> PageOf(r.addr), high |-> r.addr + r.len])
  <2>1. r.addr \in Nat /\ r.len \in Nat
    BY ConstantsAssumption
  <2>2. PageOf(r.addr) \in Nat /\ r.addr + r.len \in Nat
    BY <2>1, InPage
  <2> QED BY <1>1, <1>3, <2>2 DEF UserTypes, Steps
<1>5. UserTypes'
  BY <1>1, <1>2, <1>3, <1>4 DEF UserTypes, Turns, Steps
<1>6. TypeOK'
  BY <1>1, <1>3, <1>5, Kept, TypePartsNext
<1> QED BY <1>1, <1>2, <1>4, <1>6

LEMMA AddPageDoes ==
  ASSUME Inv, NEW u \in Users, AddPage(u)
  PROVE  LET c == ckpt[u] t == todo[u] IN
         /\ TypeOK' /\ pc[u] = "adding" /\ Turns(u, "adding")
         /\ t.iter < t.high /\ Len(c.addrs) # c.cap /\ t.iter \in Pages
         /\ Becomes(u, c.obj, c.list, c.arr, c.cap, Append(c.addrs, t.iter))
         /\ Steps(u, [iter |-> t.iter + PageSize, high |-> t.high])
         /\ UNCHANGED <<made, memcheckvars, flight, added, workvars, struck>>
<1> DEFINE c == ckpt[u]
           t == todo[u]
           s == Append(c.addrs, t.iter)
<1>1. /\ UNCHANGED <<made, memcheckvars, flight, added, workvars, struck>>
      /\ t.iter < t.high /\ Len(c.addrs) # c.cap
      /\ ckpt' = [ckpt EXCEPT ![u].addrs = Append(@, todo[u].iter)]
      /\ todo' = [todo EXCEPT ![u].iter = @ + PageSize]
  BY DEF AddPage, Full
<1>2. pc[u] = "adding" /\ Turns(u, "adding")
  BY Going DEF AddPage, Doing, Parts, Inv
<1>3. TypeOK /\ UserTypes
  BY TypeParts DEF Inv
<1>4. c \in Object /\ c.addrs \in Seq(Pages) /\ t.iter \in Nat /\ t.high \in Nat
  BY Fields, ObjectFields
<1>5. t.iter \in Pages
  <2>1. t.iter % PageSize = 0 /\ t.iter .. (t.high - 1) \subseteq Memory
    BY DEF Inv, Listing
  <2> QED BY <1>1, <1>4, <2>1 DEF Pages
<1>6. s \in Seq(Pages)
  BY <1>4, <1>5
<1>7. Becomes(u, c.obj, c.list, c.arr, c.cap, s)
  <2> DEFINE d == [c EXCEPT !.addrs = s]
  <2>1. ckpt' = [ckpt EXCEPT ![u] = d]
    BY <1>1, <1>3 DEF UserTypes
  <2> HIDE DEF c, s
  <2>2. /\ d \in Object /\ d.obj = c.obj /\ d.list = c.list /\ d.arr = c.arr
        /\ d.cap = c.cap /\ d.addrs = s
    BY <1>4, <1>6, WithAddrs
  <2> HIDE DEF d
  <2>3. Becomes(u, d.obj, d.list, d.arr, d.cap, d.addrs)
    BY <1>3, <2>1, <2>2, ObjectBecomes
  <2> QED BY <2>2, <2>3
<1>8. Steps(u, [iter |-> t.iter + PageSize, high |-> t.high])
  <2>1. PageSize \in Nat /\ t \in [iter : Nat, high : Nat]
    BY ConstantsAssumption, Fields
  <2>2. todo' = [todo EXCEPT ![u] = [iter |-> t.iter + PageSize, high |-> t.high]]
    <3> DEFINE m == t.iter + PageSize
               d == [t EXCEPT !.iter = m]
    <3>1. todo' = [todo EXCEPT ![u] = d]
      BY <1>1, <1>3 DEF UserTypes
    <3> HIDE DEF t, m
    <3>2. d = [iter |-> m, high |-> t.high]
      BY <2>1
    <3> HIDE DEF d
    <3> QED BY <3>1, <3>2 DEF m, t
  <2>3. [iter |-> t.iter + PageSize, high |-> t.high] \in [iter : Nat, high : Nat]
    BY <1>4, <2>1
  <2> QED BY <1>3, <2>2, <2>3 DEF UserTypes, Steps
<1>9. UserTypes'
  BY <1>1, <1>2, <1>3, <1>7, <1>8 DEF UserTypes, Turns, Steps, Becomes
<1>10. TypeOK'
  BY <1>1, <1>3, <1>9, Kept, TypePartsNext
<1> QED BY <1>1, <1>2, <1>5, <1>7, <1>8, <1>10

LEMMA AddEndsDoes ==
  ASSUME Inv, NEW u \in Users, AddEnds(u)
  PROVE  /\ TypeOK' /\ pc[u] = "adding" /\ Turns(u, "ready") /\ todo[u].iter >= todo[u].high
         /\ Steps(u, NoTodo)
         /\ UNCHANGED <<made, memcheckvars, ckpt, flight, added, workvars, struck>>
<1>1. /\ UNCHANGED <<made, memcheckvars, ckpt, flight, added, workvars, struck>>
      /\ todo[u].iter >= todo[u].high /\ todo' = [todo EXCEPT ![u] = NoTodo]
  BY DEF AddEnds
<1>2. pc[u] = "adding" /\ Turns(u, "ready")
  BY Going DEF AddEnds, Doing, Parts, Inv
<1>3. TypeOK /\ UserTypes
  BY TypeParts DEF Inv
<1>4. Steps(u, NoTodo)
  BY <1>1, <1>3 DEF UserTypes, Steps, NoTodo
<1>5. UserTypes'
  BY <1>1, <1>2, <1>3, <1>4 DEF UserTypes, Turns, Steps
<1>6. TypeOK'
  BY <1>1, <1>3, <1>5, Kept, TypePartsNext
<1> QED BY <1>1, <1>2, <1>4, <1>6

LEMMA GrowMovesDoes ==
  ASSUME Inv, NEW u \in Users, NEW b \in Blocks, GrowMoves(u, b)
  PROVE  LET c == ckpt[u] IN
         /\ TypeOK' /\ pc[u] = "adding" /\ Turns(u, "growing") /\ Len(c.addrs) = c.cap
         /\ c.arr \in Blocks /\ (b = c.arr \/ b \notin given)
         /\ given' = (given \ {c.arr}) \cup {b}
         /\ Becomes(u, c.obj, c.list, c.arr, 2 * c.cap, c.addrs) /\ Takes(u, b)
         /\ UNCHANGED <<data, nelem, aborted, made, todo, added, workvars, struck>>
<1> DEFINE c == ckpt[u]
           n == 2 * c.cap
<1>1. /\ UNCHANGED <<data, nelem, aborted, made, todo, added, workvars, struck>>
      /\ Len(c.addrs) = c.cap /\ given' = (given \ {c.arr}) \cup {b}
      /\ b = c.arr \/ (given # Blocks /\ b = FirstFree)
      /\ ckpt' = [ckpt EXCEPT ![u].cap = 2 * @] /\ flight' = [flight EXCEPT ![u] = b]
  BY DEF GrowMoves, Full, Moves
<1>2. pc[u] = "adding" /\ Turns(u, "growing")
  BY Going DEF GrowMoves, Doing, Parts, Inv
<1>3. TypeOK /\ UserTypes /\ MemCheckTypeOK
  BY TypeParts DEF Inv
<1>4. c \in Object /\ c.cap \in Nat /\ c.arr \in Blocks \cup {Null} /\ n \in Nat
  BY Fields, ObjectFields
<1>5. c.arr \in Blocks
  BY <1>2, <1>4 DEF Inv, Shapes, Shape
<1>6. b = c.arr \/ b \notin given
  BY <1>1, <1>3, FreeBlock DEF MemCheckTypeOK
<1>7. Becomes(u, c.obj, c.list, c.arr, n, c.addrs)
  <2> DEFINE d == [c EXCEPT !.cap = n]
  <2>1. ckpt' = [ckpt EXCEPT ![u] = d]
    BY <1>1, <1>3 DEF UserTypes
  <2> HIDE DEF c, n
  <2>2. /\ d \in Object /\ d.obj = c.obj /\ d.list = c.list /\ d.arr = c.arr
        /\ d.cap = n /\ d.addrs = c.addrs
    BY <1>4, WithCap
  <2> HIDE DEF d
  <2>3. Becomes(u, d.obj, d.list, d.arr, d.cap, d.addrs)
    BY <1>3, <2>1, <2>2, ObjectBecomes
  <2> QED BY <2>2, <2>3
<1>8. Takes(u, b)
  BY <1>1, <1>3 DEF UserTypes, Takes
<1>9. UserTypes'
  BY <1>1, <1>2, <1>3, <1>7, <1>8 DEF UserTypes, Turns, Takes, Becomes
<1>10. MemCheckTypeOK'
  BY <1>1, <1>3, <1>5 DEF MemCheckTypeOK
<1>11. TypeOK'
  BY <1>1, <1>3, <1>9, <1>10, Kept, TypePartsNext
<1> QED BY <1>1, <1>2, <1>5, <1>6, <1>7, <1>8, <1>11

LEMMA GrowRegistersDoes ==
  ASSUME Inv, NEW u \in Users, GrowRegisters(u)
  PROVE  LET c == ckpt[u] b == flight[u] IN
         /\ TypeOK' /\ pc[u] = "growing" /\ Turns(u, "adding") /\ b \in Blocks /\ c.arr \in Blocks
         /\ Holding((InTable \ {c.arr}) \cup {b})
         /\ struck' = (struck \ {c.arr, b}) \cup {x \in Held : x = c.arr /\ x # b}
         /\ Becomes(u, c.obj, c.list, b, c.cap, c.addrs) /\ Takes(u, Null)
         /\ UNCHANGED <<given, aborted, made, todo, added, workvars>>
<1> DEFINE c == ckpt[u]
           b == flight[u]
<1>1. /\ UNCHANGED <<made, todo, added, workvars>> /\ Reregisters(c.arr, b)
      /\ struck' = (struck \ {c.arr, b}) \cup {x \in Held : x = c.arr /\ x # b}
      /\ ckpt' = [ckpt EXCEPT ![u].arr = flight[u]] /\ flight' = [flight EXCEPT ![u] = Null]
  BY DEF GrowRegisters
<1>2. pc[u] = "growing" /\ Turns(u, "adding")
  BY Going DEF GrowRegisters, Doing, Parts, Inv
<1>3. TypeOK /\ UserTypes /\ MemCheckTypeOK /\ struck \subseteq Blocks
  BY TypeParts DEF Inv
<1>4. c \in Object /\ c.arr \in Blocks \cup {Null} /\ b \in Blocks \cup {Null}
  BY Fields, ObjectFields
<1>5. c.arr \in Blocks /\ b \in Blocks
  BY <1>2, <1>4 DEF Inv, Shapes, Shape
<1>6. Holding((InTable \ {c.arr}) \cup {b}) /\ UNCHANGED <<given, aborted>>
  <2> HIDE DEF c, b
  <2> QED BY <1>1, <1>5, ReregistersHolds
<1>7. Becomes(u, c.obj, c.list, b, c.cap, c.addrs)
  <2> DEFINE d == [c EXCEPT !.arr = b]
  <2>1. ckpt' = [ckpt EXCEPT ![u] = d]
    BY <1>1, <1>3 DEF UserTypes
  <2> HIDE DEF c, b
  <2>2. /\ d \in Object /\ d.obj = c.obj /\ d.list = c.list /\ d.arr = b
        /\ d.cap = c.cap /\ d.addrs = c.addrs
    BY <1>4 DEF Object
  <2> HIDE DEF d
  <2>3. Becomes(u, d.obj, d.list, d.arr, d.cap, d.addrs)
    BY <1>3, <2>1, <2>2, ObjectBecomes
  <2> QED BY <2>2, <2>3
<1>8. Takes(u, Null)
  BY <1>1, <1>3 DEF UserTypes, Takes
<1>9. UserTypes'
  BY <1>1, <1>2, <1>3, <1>7, <1>8 DEF UserTypes, Turns, Takes, Becomes
<1>10. MemCheckTypeOK'
  <2>1. given' \subseteq Blocks /\ aborted' \in BOOLEAN
    BY <1>3, <1>6 DEF MemCheckTypeOK
  <2> QED BY <1>6, <2>1, MemTypes
<1>11. struck' \subseteq Blocks
  BY <1>1, <1>3, <1>5
<1>12. TypeOK'
  BY <1>1, <1>3, <1>9, <1>10, <1>11, Kept, TypePartsNext
<1> QED BY <1>1, <1>2, <1>5, <1>6, <1>7, <1>8, <1>12

(***************************************************************************)
(* Commits, deletions and the shutdown                                     *)
(***************************************************************************)
LEMMA CommitDoes ==
  ASSUME Inv, NEW u \in Users, Commit(u)
  PROVE  /\ TypeOK' /\ pc[u] = "ready" /\ Turns(u, "wait")
         /\ crinput \in Seq(Users \cup {Kill}) /\ crinput' = Append(crinput, u)
         /\ UNCHANGED <<made, memcheckvars, ckpt, flight, todo, added, serving, at,
                        finished, faultvars, killfd, workers, struck>>
<1>1. /\ crinput' = Append(crinput, u)
      /\ UNCHANGED <<made, memcheckvars, ckpt, flight, todo, added, serving, at,
                     finished, faultvars, killfd, workers, struck>>
  BY DEF Commit
<1>2. pc[u] = "ready" /\ Turns(u, "wait")
  BY Going DEF Commit, Doing, Parts, Inv
<1>3. TypeOK /\ UserTypes /\ QueueTypes
  BY TypeParts DEF Inv
<1>4. UserTypes'
  BY <1>1, <1>2, <1>3 DEF UserTypes, Turns
<1>5. QueueTypes'
  BY <1>1, <1>3 DEF QueueTypes
<1>6. TypeOK'
  BY <1>1, <1>3, <1>4, <1>5, Kept, TypePartsNext
<1> QED BY <1>1, <1>2, <1>3, <1>6 DEF QueueTypes

LEMMA CommitReturnsDoes ==
  ASSUME Inv, NEW u \in Users, CommitReturns(u)
  PROVE  /\ TypeOK' /\ pc[u] = "wait" /\ Turns(u, "ready") /\ finished[u] > 0
         /\ finished' = [finished EXCEPT ![u] = @ - 1]
         /\ UNCHANGED <<made, memcheckvars, ckpt, flight, todo, added, crinput,
                        serving, at, faultvars, killfd, workers, struck>>
<1>1. /\ finished' = [finished EXCEPT ![u] = @ - 1] /\ finished[u] > 0
      /\ UNCHANGED <<made, memcheckvars, ckpt, flight, todo, added, crinput,
                     serving, at, faultvars, killfd, workers, struck>>
  BY DEF CommitReturns, SemWait
<1>2. pc[u] = "wait" /\ Turns(u, "ready")
  BY Going DEF CommitReturns, Doing, Parts, Inv
<1>3. TypeOK /\ UserTypes /\ QueueTypes
  BY TypeParts DEF Inv
<1>4. UserTypes'
  BY <1>1, <1>2, <1>3 DEF UserTypes, Turns
<1>5. QueueTypes'
  BY <1>1, <1>3 DEF QueueTypes
<1>6. TypeOK'
  BY <1>1, <1>3, <1>4, <1>5, Kept, TypePartsNext
<1> QED BY <1>1, <1>2, <1>6

(* mcfree of a block that the table has, or that a late mcrealloc struck.  *)
Freed(b) ==
  \/ b \in InTable /\ Holding(InTable \ {b}) /\ given' = given \ {b} /\ aborted' = aborted
  \/ b \notin InTable /\ Holding(InTable) /\ given' = given /\ aborted' = TRUE

LEMMA FreedTypes ==
  ASSUME Inv, NEW b \in Blocks, mcfree(b)
  PROVE  Freed(b) /\ MemCheckTypeOK'
<1>1. Freed(b)
  BY FreeHolds DEF Freed
<1>2. MemCheckTypeOK
  BY TypeParts DEF Inv
<1>3. given' \subseteq Blocks /\ aborted' \in BOOLEAN
  BY <1>1, <1>2 DEF Freed, MemCheckTypeOK
<1>4. Holding(InTable \ {b}) \/ Holding(InTable)
  BY <1>1 DEF Freed
<1> QED BY <1>1, <1>3, <1>4, MemTypes

LEMMA FreesPartDoes ==
  ASSUME Inv, NEW u \in Users, NEW f \in Parts, FreesPart(u, f), ckpt[u][f] # Null
  PROVE  LET c == ckpt[u] IN
         /\ MemCheckTypeOK' /\ c[f] \in Blocks /\ Freed(c[f])
         /\ UNCHANGED <<made, flight, todo, workvars, struck>>
         /\ f = "obj"  => Becomes(u, Null, Null, Null, 0, <<>>)
         /\ f = "list" => Becomes(u, c.obj, Null, c.arr, c.cap, c.addrs)
         /\ f = "arr"  => Becomes(u, c.obj, c.list, Null, c.cap, c.addrs)
<1>1. /\ mcfree(ckpt[u][f]) /\ UNCHANGED <<made, flight, todo, workvars, struck>>
      /\ ckpt' = [ckpt EXCEPT ![u] = IF f = "obj" THEN NoObject ELSE [@ EXCEPT ![f] = Null]]
  BY DEF FreesPart
<1>2. ckpt[u][f] \in Blocks
  BY Fields, ObjectFields
<1>3. Freed(ckpt[u][f]) /\ MemCheckTypeOK'
  BY <1>1, <1>2, FreedTypes
<1>4. TypeOK
  BY DEF Inv
<1> QED BY <1>1, <1>2, <1>3, <1>4, FreedObject

LEMMA DeleteArrDoes ==
  ASSUME Inv, NEW u \in Users, DeleteArr(u)
  PROVE  LET c == ckpt[u] IN
         /\ TypeOK' /\ pc[u] \in {"ready", "delkill"} /\ Turns(u, "dellist")
         /\ c.arr \in Blocks /\ Freed(c.arr)
         /\ Becomes(u, c.obj, c.list, Null, c.cap, c.addrs)
         /\ UNCHANGED <<made, flight, todo, added, workvars, struck>>
<1>0. TypeOK /\ UserTypes
  BY TypeParts DEF Inv
<1>1. pc[u] \in {"ready", "delkill"} /\ Turns(u, "dellist")
  BY <1>0, Going DEF DeleteArr, Doing
<1>2. ckpt[u].arr # Null /\ ckpt[u]["arr"] # Null /\ ckpt[u]["arr"] = ckpt[u].arr
  BY <1>1, Fields, ObjectFields DEF Inv, Shapes, Shape
<1>3. "arr" \in Parts /\ FreesPart(u, "arr") /\ added' = added
  BY DEF DeleteArr, Parts
<1>4. /\ MemCheckTypeOK' /\ ckpt[u].arr \in Blocks /\ Freed(ckpt[u].arr)
      /\ UNCHANGED <<made, flight, todo, workvars, struck>>
      /\ Becomes(u, ckpt[u].obj, ckpt[u].list, Null, ckpt[u].cap, ckpt[u].addrs)
  BY <1>2, <1>3, FreesPartDoes
<1>5. UserTypes'
  BY <1>0, <1>1, <1>3, <1>4 DEF UserTypes, Turns, Becomes
<1>6. TypeOK'
  BY <1>0, <1>4, <1>5, Kept, TypePartsNext
<1> QED BY <1>1, <1>3, <1>4, <1>6

LEMMA DeleteListDoes ==
  ASSUME Inv, NEW u \in Users, DeleteList(u)
  PROVE  LET c == ckpt[u] IN
         /\ TypeOK' /\ pc[u] = "dellist" /\ Turns(u, "delobj")
         /\ c.list \in Blocks /\ Freed(c.list)
         /\ Becomes(u, c.obj, Null, c.arr, c.cap, c.addrs)
         /\ UNCHANGED <<made, flight, todo, added, workvars, struck>>
<1>0. TypeOK /\ UserTypes
  BY TypeParts DEF Inv
<1>1. pc[u] = "dellist" /\ Turns(u, "delobj")
  BY <1>0, Going DEF DeleteList, Doing
<1>2. ckpt[u].list # Null /\ ckpt[u]["list"] # Null /\ ckpt[u]["list"] = ckpt[u].list
  BY <1>1, Fields, ObjectFields DEF Inv, Shapes, Shape
<1>3. "list" \in Parts /\ FreesPart(u, "list") /\ added' = added
  BY DEF DeleteList, Parts
<1>4. /\ MemCheckTypeOK' /\ ckpt[u].list \in Blocks /\ Freed(ckpt[u].list)
      /\ UNCHANGED <<made, flight, todo, workvars, struck>>
      /\ Becomes(u, ckpt[u].obj, Null, ckpt[u].arr, ckpt[u].cap, ckpt[u].addrs)
  BY <1>2, <1>3, FreesPartDoes
<1>5. UserTypes'
  BY <1>0, <1>1, <1>3, <1>4 DEF UserTypes, Turns, Becomes
<1>6. TypeOK'
  BY <1>0, <1>4, <1>5, Kept, TypePartsNext
<1> QED BY <1>1, <1>3, <1>4, <1>6

LEMMA DeleteObjDoes ==
  ASSUME Inv, NEW u \in Users, DeleteObj(u)
  PROVE  LET c == ckpt[u] IN
         /\ TypeOK' /\ pc[u] = "delobj" /\ Turns(u, IF killfd THEN "sweep" ELSE "idle")
         /\ c.obj \in Blocks /\ Freed(c.obj)
         /\ Becomes(u, Null, Null, Null, 0, <<>>)
         /\ added' = [added EXCEPT ![u] = {}]
         /\ UNCHANGED <<made, flight, todo, workvars, struck>>
<1> DEFINE to == IF killfd THEN "sweep" ELSE "idle"
<1>0. TypeOK /\ UserTypes
  BY TypeParts DEF Inv
<1>t. to \in Doing
  BY DEF Doing
<1>g. Goes(u, "delobj", to)
  BY DEF DeleteObj
<1> HIDE DEF to
<1>1. pc[u] = "delobj" /\ Turns(u, to)
  BY <1>0, <1>t, <1>g, Going
<1>2. ckpt[u].obj # Null /\ ckpt[u]["obj"] # Null /\ ckpt[u]["obj"] = ckpt[u].obj
  BY <1>1, Fields, ObjectFields DEF Inv, Shapes, Shape
<1>3. "obj" \in Parts /\ FreesPart(u, "obj") /\ added' = [added EXCEPT ![u] = {}]
  BY DEF DeleteObj, Parts
<1>4. /\ MemCheckTypeOK' /\ ckpt[u].obj \in Blocks /\ Freed(ckpt[u].obj)
      /\ UNCHANGED <<made, flight, todo, workvars, struck>>
      /\ Becomes(u, Null, Null, Null, 0, <<>>)
  BY <1>2, <1>3, FreesPartDoes
<1>5. UserTypes'
  BY <1>0, <1>1, <1>3, <1>4 DEF UserTypes, Turns, Becomes
<1>6. TypeOK'
  BY <1>0, <1>4, <1>5, Kept, TypePartsNext
<1> QED BY <1>1, <1>3, <1>4, <1>6 DEF to

LEMMA ShutdownDoes ==
  ASSUME Inv, NEW u \in Users, Shutdown(u)
  PROVE  /\ TypeOK' /\ u = Main /\ pc[u] = "idle" /\ Turns(u, "obj") /\ ~killfd /\ killfd' = TRUE
         /\ \A v \in Users \ {u} : pc[v] = "idle"
         /\ UNCHANGED <<made, memcheckvars, ckpt, flight, todo, added, queuevars, faultvars,
                        workers, struck>>
<1>1. /\ u = Main /\ ~killfd /\ killfd' = TRUE /\ \A v \in Users \ {u} : pc[v] = "idle"
      /\ UNCHANGED <<made, memcheckvars, ckpt, flight, todo, added, queuevars, faultvars,
                     workers, struck>>
  BY DEF Shutdown
<1>2. pc[u] = "idle" /\ Turns(u, "obj")
  BY Going DEF Shutdown, Doing, Parts, Inv
<1>3. TypeOK /\ UserTypes /\ WorkTypes
  BY TypeParts DEF Inv
<1>4. UserTypes'
  BY <1>1, <1>2, <1>3 DEF UserTypes, Turns
<1>5. WorkTypes'
  BY <1>1, <1>3 DEF WorkTypes, faultvars
<1>6. TypeOK'
  BY <1>1, <1>3, <1>4, <1>5, Kept, TypePartsNext
<1> QED BY <1>1, <1>2, <1>6

LEMMA SubmitKillDoes ==
  ASSUME Inv, NEW u \in Users, SubmitKill(u)
  PROVE  /\ TypeOK' /\ pc[u] = "submit" /\ Turns(u, "joins")
         /\ crinput \in Seq(Users \cup {Kill}) /\ crinput' = Append(crinput, Kill)
         /\ UNCHANGED <<made, memcheckvars, ckpt, flight, todo, added, serving, at,
                        finished, faultvars, killfd, workers, struck>>
<1>1. /\ crinput' = Append(crinput, Kill)
      /\ UNCHANGED <<made, memcheckvars, ckpt, flight, todo, added, serving, at,
                     finished, faultvars, killfd, workers, struck>>
  BY DEF SubmitKill
<1>2. pc[u] = "submit" /\ Turns(u, "joins")
  BY Going DEF SubmitKill, Doing, Parts, Inv
<1>3. TypeOK /\ UserTypes /\ QueueTypes
  BY TypeParts DEF Inv
<1>4. UserTypes'
  BY <1>1, <1>2, <1>3 DEF UserTypes, Turns
<1>5. QueueTypes'
  BY <1>1, <1>3 DEF QueueTypes
<1>6. TypeOK'
  BY <1>1, <1>3, <1>4, <1>5, Kept, TypePartsNext
<1> QED BY <1>1, <1>2, <1>3, <1>6 DEF QueueTypes

LEMMA JoinsDoes ==
  ASSUME Inv, NEW u \in Users, Joins(u)
  PROVE  /\ TypeOK' /\ pc[u] = "joins" /\ Turns(u, "delkill") /\ workers = {}
         /\ UNCHANGED <<made, memcheckvars, ckpt, flight, todo, added, workvars, struck>>
<1>1. UNCHANGED <<made, memcheckvars, ckpt, flight, todo, added, workvars, struck>> /\ workers = {}
  BY DEF Joins
<1>2. pc[u] = "joins" /\ Turns(u, "delkill")
  BY Going DEF Joins, Doing, Parts, Inv
<1>3. TypeOK /\ UserTypes
  BY TypeParts DEF Inv
<1>4. UserTypes'
  BY <1>1, <1>2, <1>3 DEF UserTypes, Turns
<1>5. TypeOK'
  BY <1>1, <1>3, <1>4, Kept, TypePartsNext
<1> QED BY <1>1, <1>2, <1>5

(* The entry of a page becomes b.                                          *)
Logs(p, b) ==
  /\ entry' \in [Pages -> Blocks \cup {Null}] /\ entry'[p] = b
  /\ \A q \in Pages \ {p} : entry'[q] = entry[q]

LEMMA EntryFreed ==
  ASSUME Inv, NEW p \in Pages, entry[p] # Null, mcfree(entry[p]),
         entry' = [entry EXCEPT ![p] = Null]
  PROVE  MemCheckTypeOK' /\ entry[p] \in Blocks /\ Freed(entry[p]) /\ Logs(p, Null)
<1>1. entry \in [Pages -> Blocks \cup {Null}]
  BY TypeParts DEF Inv, WorkTypes
<1>2. entry[p] \in Blocks /\ Logs(p, Null)
  BY <1>1 DEF Logs
<1> QED BY <1>2, FreedTypes

LEMMA SweepsDoes ==
  ASSUME Inv, NEW u \in Users, Sweeps(u)
  PROVE  /\ TypeOK' /\ pc[u] = "sweep" /\ Turns(u, "sweep")
         /\ \E p \in Pages : entry[p] \in Blocks /\ Freed(entry[p]) /\ Logs(p, Null)
         /\ UNCHANGED <<made, ckpt, flight, todo, added, queuevars, logging, logblock,
                        killfd, workers, struck>>
<1>1. UNCHANGED <<made, ckpt, flight, todo, added, queuevars, logging, logblock,
                  killfd, workers, struck>>
  BY DEF Sweeps
<1>2. pc[u] = "sweep" /\ Turns(u, "sweep")
  BY Going DEF Sweeps, Doing, Parts, Inv
<1>3. TypeOK /\ UserTypes /\ WorkTypes
  BY TypeParts DEF Inv
<1>4. PICK p \in Pages : /\ entry[p] # Null /\ mcfree(entry[p])
                         /\ entry' = [entry EXCEPT ![p] = Null]
  BY DEF Sweeps
<1>5. MemCheckTypeOK' /\ entry[p] \in Blocks /\ Freed(entry[p]) /\ Logs(p, Null)
  BY <1>4, EntryFreed
<1>6. UserTypes'
  BY <1>1, <1>2, <1>3 DEF UserTypes, Turns
<1>7. WorkTypes'
  BY <1>1, <1>3, <1>5 DEF WorkTypes, Logs
<1>8. TypeOK'
  BY <1>1, <1>3, <1>5, <1>6, <1>7, Kept, TypePartsNext
<1> QED BY <1>1, <1>2, <1>5, <1>8

LEMMA TmpPageBlock ==
  TmpPage \in Blocks
<1>1. Blocks \subseteq Nat /\ Blocks # {}
  BY BlocksAssumption
<1> QED BY <1>1, Least DEF TmpPage

LEMMA DownDoes ==
  ASSUME Inv, NEW u \in Users, Down(u)
  PROVE  /\ TypeOK' /\ pc[u] = "sweep" /\ Turns(u, "down") /\ \A p \in Pages : entry[p] = Null
         /\ Holding(InTable \ {TmpPage}) /\ given' = given \ {TmpPage} /\ aborted' = aborted
         /\ UNCHANGED <<made, ckpt, flight, todo, added, workvars, struck>>
<1>1. /\ UNCHANGED <<made, ckpt, flight, todo, added, workvars, struck>>
      /\ \A p \in Pages : entry[p] = Null
      /\ TableBecomes(mc_table_del(Table, TmpPage)) /\ given' = given \ {TmpPage}
      /\ aborted' = aborted
  BY DEF Down, mcmunmap
<1>2. pc[u] = "sweep" /\ Turns(u, "down")
  BY Going DEF Down, Doing, Parts, Inv
<1>3. TypeOK /\ UserTypes /\ MemCheckTypeOK
  BY TypeParts DEF Inv
<1>4. Holding(InTable \ {TmpPage})
  BY <1>1, TmpPageBlock, DelHolds
<1>5. MemCheckTypeOK'
  <2>1. given' \subseteq Blocks /\ aborted' \in BOOLEAN
    BY <1>1, <1>3 DEF MemCheckTypeOK
  <2> QED BY <1>4, <2>1, MemTypes
<1>6. UserTypes'
  BY <1>1, <1>2, <1>3 DEF UserTypes, Turns
<1>7. TypeOK'
  BY <1>1, <1>3, <1>5, <1>6, Kept, TypePartsNext
<1> QED BY <1>1, <1>2, <1>4, <1>7

(***************************************************************************)
(* The workers                                                             *)
(***************************************************************************)
LEMMA CrPopDoes ==
  ASSUME Inv, CrPop
  PROVE  /\ TypeOK' /\ "cr" \in workers /\ serving = Null /\ crinput # <<>>
         /\ crinput \in Seq(Users \cup {Kill}) /\ crinput' = Tail(crinput)
         /\ Head(crinput) \in Users \cup {Kill}
         /\ \/ Head(crinput) = Kill /\ workers' = workers \ {"cr"} /\ UNCHANGED <<serving, at>>
            \/ Head(crinput) \in Users /\ serving' = Head(crinput) /\ at' = 1 /\ workers' = workers
         /\ UNCHANGED <<memcheckvars, uservars, finished, faultvars, killfd, struck>>
<1>1. /\ "cr" \in workers /\ serving = Null /\ crinput # <<>> /\ crinput' = Tail(crinput)
      /\ UNCHANGED <<memcheckvars, uservars, finished, faultvars, killfd, struck>>
  BY DEF CrPop
<1>2. TypeOK /\ QueueTypes /\ WorkTypes
  BY TypeParts DEF Inv
<1>3. crinput \in Seq(Users \cup {Kill}) /\ Head(crinput) \in Users \cup {Kill}
      /\ Tail(crinput) \in Seq(Users \cup {Kill})
  BY <1>1, <1>2 DEF QueueTypes
<1>4. \/ Head(crinput) = Kill /\ workers' = workers \ {"cr"} /\ UNCHANGED <<serving, at>>
      \/ Head(crinput) \in Users /\ serving' = Head(crinput) /\ at' = 1 /\ workers' = workers
  BY <1>3 DEF CrPop
<1>5. QueueTypes'
  BY <1>1, <1>2, <1>3, <1>4 DEF QueueTypes
<1>6. WorkTypes'
  BY <1>1, <1>2, <1>4 DEF WorkTypes, faultvars
<1>7. TypeOK'
  BY <1>1, <1>2, <1>5, <1>6, Kept, TypePartsNext
<1> QED BY <1>1, <1>3, <1>4, <1>7

LEMMA CrNextDoes ==
  ASSUME Inv, CrNext
  PROVE  /\ TypeOK' /\ serving \in Users /\ at <= Len(ckpt[serving].addrs) /\ at' = at + 1
         /\ \/ UNCHANGED <<memcheckvars, entry>>
            \/ \E p \in Pages : entry[p] \in Blocks /\ Freed(entry[p]) /\ Logs(p, Null)
         /\ UNCHANGED <<uservars, crinput, serving, finished, logging, logblock, killfd, workers,
                        struck>>
<1> DEFINE p == ckpt[serving].addrs[at]
<1>1. /\ serving # Null /\ at <= Len(ckpt[serving].addrs) /\ at' = at + 1
      /\ UNCHANGED <<uservars, crinput, serving, finished, logging, logblock, killfd, workers,
                     struck>>
      /\ \/ UNCHANGED <<memcheckvars, entry>>
         \/ entry[p] # Null /\ mcfree(entry[p]) /\ entry' = [entry EXCEPT ![p] = Null]
  BY DEF CrNext
<1>2. TypeOK /\ QueueTypes /\ WorkTypes /\ serving \in Users /\ at \in Nat \ {0}
  BY <1>1, TypeParts DEF Inv, QueueTypes
<1>3. p \in Pages
  <2> DEFINE s == ckpt[serving].addrs
  <2>1. s \in Seq(Pages)
    BY <1>2, Fields, ObjectFields
  <2>2. at \in 1 .. Len(s)
    <3>1. Len(s) \in Nat /\ at <= Len(s)
      BY <1>1, <2>1
    <3> QED BY <1>2, <3>1
  <2> HIDE DEF s
  <2>3. s[at] \in Pages
    BY <2>1, <2>2
  <2> QED BY <2>3 DEF s
<1> HIDE DEF p
<1>4. \/ UNCHANGED <<memcheckvars, entry>>
      \/ MemCheckTypeOK' /\ entry[p] \in Blocks /\ Freed(entry[p]) /\ Logs(p, Null)
  BY <1>1, <1>3, EntryFreed
<1>5. MemCheckTypeOK'
  BY <1>2, <1>4, Kept
<1>6. QueueTypes'
  BY <1>1, <1>2 DEF QueueTypes
<1>7. WorkTypes'
  <2>1. entry' \in [Pages -> Blocks \cup {Null}]
    BY <1>2, <1>4 DEF WorkTypes, Logs
  <2> QED BY <1>1, <1>2, <2>1 DEF WorkTypes
<1>8. TypeOK'
  BY <1>1, <1>2, <1>5, <1>6, <1>7, Kept, TypePartsNext
<1> QED BY <1>1, <1>2, <1>3, <1>4, <1>8

LEMMA CrPostDoes ==
  ASSUME Inv, CrPost
  PROVE  /\ TypeOK' /\ serving \in Users /\ finished' = [finished EXCEPT ![serving] = @ + 1]
         /\ serving' = Null /\ at' = 1
         /\ UNCHANGED <<memcheckvars, uservars, crinput, faultvars, killfd, workers, struck>>
<1>1. /\ serving # Null /\ finished' = [finished EXCEPT ![serving] = @ + 1]
      /\ serving' = Null /\ at' = 1
      /\ UNCHANGED <<memcheckvars, uservars, crinput, faultvars, killfd, workers, struck>>
  BY DEF CrPost
<1>2. TypeOK /\ QueueTypes /\ serving \in Users
  BY <1>1, TypeParts DEF Inv, QueueTypes
<1>3. QueueTypes'
  BY <1>1, <1>2 DEF QueueTypes
<1>4. TypeOK'
  BY <1>1, <1>2, <1>3, Kept, TypePartsNext
<1> QED BY <1>1, <1>2, <1>4

LEMMA LogGivesDoes ==
  ASSUME Inv, NEW p \in Touched, LogGives(p)
  PROVE  /\ TypeOK' /\ p \in Pages /\ "uffd" \in workers /\ logging = Null /\ entry[p] = Null
         /\ FirstFree \in Blocks /\ FirstFree \notin given
         /\ given' = given \cup {FirstFree} /\ logging' = p /\ logblock' = FirstFree
         /\ UNCHANGED <<data, nelem, aborted, uservars, queuevars, entry, killfd, workers, struck>>
<1>1. /\ "uffd" \in workers /\ logging = Null /\ entry[p] = Null /\ Gives
      /\ logging' = p /\ logblock' = FirstFree
      /\ UNCHANGED <<uservars, queuevars, entry, killfd, workers, struck>>
  BY DEF LogGives
<1>2. p \in Pages
  BY MemoryAssumption
<1>3. /\ MemCheckTypeOK' /\ FirstFree \in Blocks /\ FirstFree \notin given
      /\ given' = given \cup {FirstFree} /\ UNCHANGED <<data, nelem, aborted>>
  BY <1>1, GivesDoes
<1>4. TypeOK /\ WorkTypes
  BY TypeParts DEF Inv
<1>5. WorkTypes'
  BY <1>1, <1>2, <1>3, <1>4 DEF WorkTypes
<1>6. TypeOK'
  BY <1>1, <1>3, <1>4, <1>5, Kept, TypePartsNext
<1> QED BY <1>1, <1>2, <1>3, <1>6

LEMMA LogRegistersDoes ==
  ASSUME Inv, LogRegisters
  PROVE  /\ TypeOK' /\ logging \in Pages /\ logblock \in Blocks /\ Logs(logging, logblock)
         /\ Holding(InTable \cup {logblock}) /\ logging' = Null /\ logblock' = Null
         /\ struck' = struck \ {logblock}
         /\ UNCHANGED <<given, aborted, uservars, queuevars, killfd, workers>>
<1>1. /\ logging # Null /\ Registers(logblock) /\ entry' = [entry EXCEPT ![logging] = logblock]
      /\ logging' = Null /\ logblock' = Null /\ struck' = struck \ {logblock}
      /\ UNCHANGED <<uservars, queuevars, killfd, workers>>
  BY DEF LogRegisters
<1>2. TypeOK /\ WorkTypes /\ MemCheckTypeOK /\ struck \subseteq Blocks
  BY TypeParts DEF Inv
<1>3. logging \in Pages /\ logblock \in Blocks
  BY <1>1, <1>2 DEF WorkTypes, Inv, Shapes
<1>4. Holding(InTable \cup {logblock}) /\ UNCHANGED <<given, aborted>>
  BY <1>1, <1>3, RegistersHolds
<1>5. Logs(logging, logblock)
  BY <1>1, <1>2, <1>3 DEF WorkTypes, Logs
<1>6. MemCheckTypeOK'
  <2>1. given' \subseteq Blocks /\ aborted' \in BOOLEAN
    BY <1>2, <1>4 DEF MemCheckTypeOK
  <2> QED BY <1>4, <2>1, MemTypes
<1>7. WorkTypes'
  BY <1>1, <1>2, <1>5 DEF WorkTypes, Logs
<1>8. struck' \subseteq Blocks
  BY <1>1, <1>2
<1>9. TypeOK'
  BY <1>1, <1>2, <1>6, <1>7, <1>8, Kept, TypePartsNext
<1> QED BY <1>1, <1>3, <1>4, <1>5, <1>9

LEMMA UffdExitsDoes ==
  ASSUME Inv, UffdExits
  PROVE  /\ TypeOK' /\ killfd /\ logging = Null /\ workers' = workers \ {"uffd"}
         /\ UNCHANGED <<memcheckvars, uservars, queuevars, faultvars, killfd, struck>>
<1>1. /\ killfd /\ logging = Null /\ workers' = workers \ {"uffd"}
      /\ UNCHANGED <<memcheckvars, uservars, queuevars, faultvars, killfd, struck>>
  BY DEF UffdExits
<1>2. TypeOK /\ WorkTypes
  BY TypeParts DEF Inv
<1>3. WorkTypes'
  BY <1>1, <1>2 DEF WorkTypes, faultvars
<1>4. TypeOK'
  BY <1>1, <1>2, <1>3, Kept, TypePartsNext
<1> QED BY <1>1, <1>4

LEMMA Stutters ==
  ASSUME Inv, UNCHANGED vars
  PROVE  TypeOK' /\ UNCHANGED <<memcheckvars, uservars, workvars, struck>>
<1>1. UNCHANGED <<memcheckvars, uservars, workvars, struck>> /\ TypeOK
  BY DEF vars, Inv
<1> QED BY <1>1, Kept, TypePartsNext

(***************************************************************************)
(* The queue                                                               *)
(***************************************************************************)
Within(s, x) == \E i \in DOMAIN s : s[i] = x
Once(s)      == \A i, j \in DOMAIN s : s[i] = s[j] => i = j
KillLast(s)  == \A i \in DOMAIN s : s[i] = Kill => i = Len(s)

LEMMA Appended ==
  ASSUME NEW S, NEW s \in Seq(S), NEW x \in S, NEW t, t = Append(s, x)
  PROVE  /\ \A y : Within(t, y) <=> Within(s, y) \/ y = x
         /\ Once(s) /\ ~Within(s, x) => Once(t)
         /\ ~Within(s, Kill) => KillLast(t)
<1>1. /\ Len(s) \in Nat /\ DOMAIN s = 1 .. Len(s) /\ DOMAIN t = 1 .. (Len(s) + 1)
      /\ Len(t) = Len(s) + 1 /\ t[Len(s) + 1] = x /\ \A i \in 1 .. Len(s) : t[i] = s[i]
  BY AppendProperties
<1> DEFINE n == Len(s)
<1> HIDE DEF n
<1>2. /\ n \in Nat /\ DOMAIN s = 1 .. n /\ DOMAIN t = 1 .. (n + 1)
      /\ Len(t) = n + 1 /\ t[n + 1] = x /\ \A i \in 1 .. n : t[i] = s[i]
  BY <1>1 DEF n
<1>3. ASSUME NEW i \in DOMAIN t PROVE (i \in DOMAIN s /\ t[i] = s[i]) \/ (i = n + 1 /\ t[i] = x)
  BY <1>2
<1>4. \A i \in DOMAIN s : i \in DOMAIN t /\ i # n + 1
  BY <1>2
<1>5. n + 1 \in DOMAIN t
  BY <1>2
<1>6. ASSUME NEW y PROVE Within(t, y) <=> Within(s, y) \/ y = x
  BY <1>2, <1>3, <1>4, <1>5 DEF Within
<1>7. ASSUME Once(s), ~Within(s, x) PROVE Once(t)
  BY <1>3, <1>7 DEF Once, Within
<1>8. ASSUME ~Within(s, Kill) PROVE KillLast(t)
  BY <1>2, <1>3, <1>8 DEF KillLast, Within
<1> QED BY <1>6, <1>7, <1>8

LEMMA Dequeued ==
  ASSUME NEW S, NEW s \in Seq(S), s # <<>>, NEW t, t = Tail(s)
  PROVE  /\ Within(s, Head(s))
         /\ \A y : Within(s, y) <=> Within(t, y) \/ y = Head(s)
         /\ Once(s) => Once(t) /\ ~Within(t, Head(s))
         /\ KillLast(s) => KillLast(t) /\ (Head(s) = Kill => t = <<>>)
<1>1. /\ Len(s) \in Nat /\ Len(s) >= 1 /\ DOMAIN s = 1 .. Len(s) /\ Head(s) = s[1]
      /\ Len(t) = Len(s) - 1 /\ DOMAIN t = 1 .. (Len(s) - 1) /\ t \in Seq(S)
      /\ \A i \in 1 .. (Len(s) - 1) : t[i] = s[i + 1]
  BY HeadTailProperties
<1> DEFINE n == Len(s)
           h == Head(s)
<1> HIDE DEF n, h
<1>2. /\ n \in Nat /\ n >= 1 /\ DOMAIN s = 1 .. n /\ h = s[1]
      /\ Len(t) = n - 1 /\ DOMAIN t = 1 .. (n - 1)
      /\ \A i \in 1 .. (n - 1) : t[i] = s[i + 1]
  BY <1>1 DEF n, h
<1>3. ASSUME NEW i \in DOMAIN t
      PROVE  i \in Nat /\ i + 1 \in DOMAIN s /\ t[i] = s[i + 1] /\ i + 1 # 1
  BY <1>2
<1>4. ASSUME NEW i \in DOMAIN s, i # 1 PROVE i - 1 \in DOMAIN t /\ s[i] = t[i - 1]
  <2>1. i - 1 \in 1 .. (n - 1) /\ (i - 1) + 1 = i
    BY <1>2, <1>4
  <2> QED BY <1>2, <2>1
<1>5. 1 \in DOMAIN s
  BY <1>2
<1>6. Within(s, h)
  BY <1>2, <1>5 DEF Within
<1>7. ASSUME NEW y PROVE Within(s, y) <=> Within(t, y) \/ y = h
  <2>1. ASSUME Within(t, y) PROVE Within(s, y)
    BY <1>3, <2>1 DEF Within
  <2>2. ASSUME Within(s, y), y # h PROVE Within(t, y)
    <3>1. PICK i \in DOMAIN s : s[i] = y
      BY <2>2 DEF Within
    <3> QED BY <1>2, <1>4, <2>2, <3>1 DEF Within
  <2> QED BY <1>6, <2>1, <2>2
<1>8. ASSUME Once(s) PROVE Once(t) /\ ~Within(t, h)
  <2>1. ASSUME NEW i \in DOMAIN t, NEW j \in DOMAIN t, t[i] = t[j] PROVE i = j
    <3>1. i + 1 = j + 1
      BY <1>3, <1>8, <2>1 DEF Once
    <3> QED BY <1>3, <3>1
  <2>2. ASSUME NEW i \in DOMAIN t, t[i] = h PROVE FALSE
    BY <1>2, <1>3, <1>5, <1>8, <2>2 DEF Once
  <2> QED BY <2>1, <2>2 DEF Once, Within
<1>9. ASSUME KillLast(s) PROVE KillLast(t) /\ (h = Kill => t = <<>>)
  <2>1. ASSUME NEW i \in DOMAIN t, t[i] = Kill PROVE i = Len(t)
    <3>1. i + 1 = n
      BY <1>3, <1>9, <2>1 DEF KillLast, n
    <3> QED BY <1>2, <1>3, <3>1
  <2>2. ASSUME h = Kill PROVE t = <<>>
    <3>1. n = 1
      BY <1>2, <1>5, <1>9, <2>2 DEF KillLast, n
    <3>2. Len(t) = 0
      BY <1>2, <3>1
    <3> QED BY <1>1, <3>2
  <2> QED BY <2>1, <2>2 DEF KillLast
<1> QED BY <1>6, <1>7, <1>8, <1>9 DEF h

LEMMA QueueNow ==
  ASSUME Inv
  PROVE  /\ crinput \in Seq(Users \cup {Kill}) /\ Once(crinput) /\ KillLast(crinput)
         /\ \A x : Queued(x) <=> Within(crinput, x)
<1>1. QueueTypes
  BY TypeParts DEF Inv
<1> QED BY <1>1 DEF QueueTypes, Inv, Sending, Once, KillLast, Queued, Within

LEMMA QueueNext ==
  /\ \A x : Queued(x)' <=> Within(crinput', x)
  /\ UNCHANGED crinput => \A x : Queued(x)' <=> Queued(x)
BY DEF Queued, Within

(* A thread, or the kill message, goes to the end of the queue.            *)
LEMMA Enqueues ==
  ASSUME Inv, NEW x \in Users \cup {Kill}, crinput' = Append(crinput, x)
  PROVE  /\ \A y : Queued(y)' <=> Queued(y) \/ y = x
         /\ ~Queued(x) => Once(crinput') /\ (~Queued(Kill) => KillLast(crinput'))
<1> DEFINE S == Users \cup {Kill}
           s == crinput
           t == crinput'
<1>1. s \in Seq(S) /\ Once(s) /\ \A y : Queued(y) <=> Within(s, y)
  BY QueueNow
<1>2. x \in S /\ t = Append(s, x)
  OBVIOUS
<1>3. \A y : Queued(y)' <=> Within(t, y)
  BY QueueNext
<1> HIDE DEF S, s, t
<1>4. /\ \A y : Within(t, y) <=> Within(s, y) \/ y = x
      /\ Once(s) /\ ~Within(s, x) => Once(t)
      /\ ~Within(s, Kill) => KillLast(t)
  BY <1>1, <1>2, Appended, Zenon
<1>5. Once(s) /\ ~Queued(x) => Once(t)
  BY <1>1, <1>4
<1>6. ~Queued(Kill) => KillLast(t)
  BY <1>1, <1>4
<1>7. \A y : Queued(y)' <=> Queued(y) \/ y = x
  BY <1>1, <1>3, <1>4
<1> QED BY <1>1, <1>5, <1>6, <1>7 DEF t

LEMMA Dequeues ==
  ASSUME Inv, crinput # <<>>, crinput' = Tail(crinput), NEW h, h = Head(crinput)
  PROVE  /\ Queued(h) /\ ~Queued(h)' /\ \A y : Queued(y) <=> Queued(y)' \/ y = h
         /\ Once(crinput') /\ KillLast(crinput')
<1> DEFINE S == Users \cup {Kill}
           t == crinput'
<1>1. /\ crinput \in Seq(S) /\ Once(crinput) /\ KillLast(crinput)
      /\ \A y : Queued(y) <=> Within(crinput, y)
  BY QueueNow
<1>2. t = Tail(crinput)
  OBVIOUS
<1>3. \A y : Queued(y)' <=> Within(t, y)
  BY QueueNext
<1> HIDE DEF S, t
<1>4. /\ Within(crinput, h) /\ \A y : Within(crinput, y) <=> Within(t, y) \/ y = h
      /\ Once(crinput) => Once(t) /\ ~Within(t, h)
      /\ KillLast(crinput) => KillLast(t)
  BY <1>1, <1>2, Dequeued
<1>5. Queued(h) /\ ~Queued(h)' /\ (\A y : Queued(y) <=> Queued(y)' \/ y = h)
  BY <1>1, <1>3, <1>4
<1> QED BY <1>1, <1>4, <1>5 DEF t

(***************************************************************************)
(* Who does what                                                           *)
(***************************************************************************)
LEMMA FlowNow ==
  ASSUME Inv
  PROVE  Flow /\ pc \in [Users -> Doing] /\ Main \in Users /\ killfd \in BOOLEAN
         /\ workers \subseteq {"uffd", "cr"}
BY TypeParts, NullApart DEF Inv, UserTypes, WorkTypes

LEMMA FlowTurns ==
  ASSUME Inv, NEW u \in Users, NEW to, Turns(u, to), UNCHANGED <<killfd, workers, logging>>,
         Queued(Kill)' <=> Queued(Kill),
         ~killfd => to \notin KillOnly, killfd => pc[u] # "idle" /\ to \in Killing,
         killfd /\ to \in Stopped => workers = {},
         killfd /\ "cr" \notin workers => to \in Stopped \cup {"joins"},
         Queued(Kill) => to = "joins" \/ u # Main
  PROVE  Flow'
<1>1. Flow /\ Main \in Users
  BY FlowNow
<1>2. \A v \in Users \ {u} : pc'[v] = pc[v]
  BY DEF Turns
<1>3. pc'[u] = to
  BY DEF Turns
<1>4. CASE ~killfd
  <2>1. "uffd" \in workers /\ "cr" \in workers
    BY <1>1, <1>4 DEF Flow
  <2>2. \A v \in Users : pc'[v] \notin KillOnly
    BY <1>1, <1>2, <1>3, <1>4 DEF Flow
  <2>3. ~Queued(Kill)
    BY <1>1, <1>4 DEF Flow, KillOnly
  <2> QED BY <1>4, <2>1, <2>2, <2>3 DEF Flow
<1>5. CASE killfd
  <2>1. u = Main
    BY <1>1, <1>5 DEF Flow
  <2> QED BY <1>1, <1>2, <1>3, <1>5, <2>1 DEF Flow
<1> QED BY <1>4, <1>5

(* Steps that only a thread makes before the shutdown.                     *)
LEMMA FlowWorks ==
  ASSUME Inv, NEW u \in Users, NEW to, Turns(u, to), UNCHANGED <<killfd, workers, logging>>,
         Queued(Kill)' <=> Queued(Kill), to \notin KillOnly,
         pc[u] \notin {"idle"} \cup Killing \/ ~killfd
  PROVE  Flow'
<1>1. Flow /\ pc[u] \in Doing
  BY FlowNow
<1>2. ~killfd
  BY <1>1 DEF Flow
<1>3. Queued(Kill) => u # Main
  BY <1>1, <1>2 DEF Flow, KillOnly
<1> QED BY <1>2, <1>3, FlowTurns

LEMMA FlowKept ==
  ASSUME Inv, UNCHANGED <<pc, killfd, workers, logging>>, Queued(Kill)' => Queued(Kill)
  PROVE  Flow'
BY FlowNow DEF Flow

LEMMA FlowStep ==
  ASSUME Inv, [Next]_vars
  PROVE  Flow'
<1>0. Flow /\ pc \in [Users -> Doing] /\ Main \in Users /\ workers \subseteq {"uffd", "cr"}
  BY FlowNow
<1>q. UNCHANGED crinput => (Queued(Kill)' <=> Queued(Kill))
  BY QueueNext
<1>1. ASSUME NEW u \in Users, NewBegins(u) PROVE Flow'
  BY <1>1, <1>q, NewBeginsDoes, FlowWorks DEF workvars, queuevars, faultvars, Parts, KillOnly
<1>2. ASSUME NEW u \in Users, NewGives(u) PROVE Flow'
  BY <1>2, <1>q, NewGivesDoes, FlowKept DEF workvars, queuevars, faultvars
<1>3. ASSUME NEW u \in Users, NewRegisters(u) PROVE Flow'
  <2>1. /\ pc[u] \in Parts /\ UNCHANGED workvars
        /\ Turns(u, "list") \/ Turns(u, "arr") \/ Turns(u, IF killfd THEN "submit" ELSE "ready")
    BY <1>3, NewRegistersDoes DEF Parts
  <2>2. PICK to \in {"list", "arr", IF killfd THEN "submit" ELSE "ready"} : Turns(u, to)
    BY <2>1
  <2>3. ~killfd => to \notin KillOnly
    BY DEF KillOnly
  <2>4. killfd => to \in Killing /\ to \notin Stopped
    BY DEF Killing, Parts, Stopped
  <2>5. killfd => u = Main /\ "cr" \in workers
    BY <1>0, <2>1 DEF Flow, Parts, Stopped
  <2>6. Queued(Kill) => u # Main
    BY <1>0, <2>1 DEF Flow, Parts
  <2>7. UNCHANGED <<killfd, workers, logging>> /\ (Queued(Kill)' <=> Queued(Kill))
    BY <1>q, <2>1 DEF workvars, queuevars, faultvars
  <2>8. pc[u] # "idle"
    BY <2>1 DEF Parts
  <2> HIDE DEF Flow
  <2> QED BY <2>2, <2>3, <2>4, <2>5, <2>6, <2>7, <2>8, FlowTurns
<1>4. ASSUME NEW u \in Users, NEW r \in Regions, AddBegins(u, r) PROVE Flow'
  BY <1>4, <1>q, AddBeginsDoes, FlowWorks
     DEF workvars, queuevars, faultvars, Parts, KillOnly, Killing, Stopped
<1>5. ASSUME NEW u \in Users, AddPage(u) PROVE Flow'
  BY <1>5, <1>q, AddPageDoes, FlowWorks
     DEF workvars, queuevars, faultvars, Parts, KillOnly, Killing, Stopped
<1>6. ASSUME NEW u \in Users, AddEnds(u) PROVE Flow'
  BY <1>6, <1>q, AddEndsDoes, FlowWorks
     DEF workvars, queuevars, faultvars, Parts, KillOnly, Killing, Stopped
<1>7. ASSUME NEW u \in Users, NEW b \in Blocks, GrowMoves(u, b) PROVE Flow'
  BY <1>7, <1>q, GrowMovesDoes, FlowWorks
     DEF workvars, queuevars, faultvars, Parts, KillOnly, Killing, Stopped
<1>8. ASSUME NEW u \in Users, GrowRegisters(u) PROVE Flow'
  BY <1>8, <1>q, GrowRegistersDoes, FlowWorks
     DEF workvars, queuevars, faultvars, Parts, KillOnly, Killing, Stopped
<1>9. ASSUME NEW u \in Users, Commit(u) PROVE Flow'
  <2>1. /\ pc[u] = "ready" /\ Turns(u, "wait") /\ crinput' = Append(crinput, u)
        /\ UNCHANGED <<faultvars, killfd, workers>>
    BY <1>9, CommitDoes
  <2>2. Queued(Kill)' <=> Queued(Kill)
    BY <2>1, Enqueues, NullApart
  <2> QED BY <2>1, <2>2, FlowWorks DEF faultvars, Parts, KillOnly, Killing, Stopped
<1>10. ASSUME NEW u \in Users, CommitReturns(u) PROVE Flow'
  BY <1>10, <1>q, CommitReturnsDoes, FlowWorks
     DEF workvars, queuevars, faultvars, Parts, KillOnly, Killing, Stopped
<1>11. ASSUME NEW u \in Users, DeleteArr(u) PROVE Flow'
  <2>1. /\ pc[u] \in {"ready", "delkill"} /\ Turns(u, "dellist") /\ UNCHANGED workvars
    BY <1>11, DeleteArrDoes
  <2>2. UNCHANGED <<killfd, workers, logging>> /\ (Queued(Kill)' <=> Queued(Kill))
    BY <1>q, <2>1 DEF workvars, queuevars, faultvars
  <2>3. killfd => u = Main /\ workers = {} /\ ~Queued(Kill)
    BY <1>0, <2>1 DEF Flow, Stopped, Killing, Parts
  <2>4. "dellist" \notin KillOnly /\ "dellist" \in Killing /\ "dellist" \in Stopped
    BY DEF KillOnly, Killing, Stopped
  <2>5. Queued(Kill) => u # Main
    BY <1>0, <2>1 DEF Flow
  <2> QED BY <2>1, <2>2, <2>3, <2>4, <2>5, FlowTurns
<1>12. ASSUME NEW u \in Users, DeleteList(u) PROVE Flow'
  <2>1. /\ pc[u] = "dellist" /\ Turns(u, "delobj") /\ UNCHANGED workvars
    BY <1>12, DeleteListDoes
  <2>2. UNCHANGED <<killfd, workers, logging>> /\ (Queued(Kill)' <=> Queued(Kill))
    BY <1>q, <2>1 DEF workvars, queuevars, faultvars
  <2>3. killfd => u = Main /\ workers = {} /\ ~Queued(Kill)
    BY <1>0, <2>1 DEF Flow, Stopped, Killing, Parts
  <2>4. "delobj" \notin KillOnly /\ "delobj" \in Killing /\ "delobj" \in Stopped
    BY DEF KillOnly, Killing, Stopped
  <2>5. Queued(Kill) => u # Main
    BY <1>0, <2>1 DEF Flow
  <2> QED BY <2>1, <2>2, <2>3, <2>4, <2>5, FlowTurns
<1>13. ASSUME NEW u \in Users, DeleteObj(u) PROVE Flow'
  <2>1. /\ pc[u] = "delobj" /\ Turns(u, IF killfd THEN "sweep" ELSE "idle") /\ UNCHANGED workvars
    BY <1>13, DeleteObjDoes
  <2>2. UNCHANGED <<killfd, workers, logging>> /\ (Queued(Kill)' <=> Queued(Kill))
    BY <1>q, <2>1 DEF workvars, queuevars, faultvars
  <2>3. killfd => u = Main /\ workers = {} /\ ~Queued(Kill)
    BY <1>0, <2>1 DEF Flow, Stopped, Killing, Parts
  <2>4. PICK to \in {IF killfd THEN "sweep" ELSE "idle"} : Turns(u, to)
    BY <2>1
  <2>5. (~killfd => to \notin KillOnly) /\ (killfd => to \in Killing /\ to \in Stopped)
    BY DEF KillOnly, Killing, Stopped
  <2>6. Queued(Kill) => u # Main
    BY <1>0, <2>1 DEF Flow
  <2> QED BY <2>1, <2>2, <2>3, <2>4, <2>5, <2>6, FlowTurns
<1>14. ASSUME NEW u \in Users, Shutdown(u) PROVE Flow'
  <2>1. /\ u = Main /\ Turns(u, "obj") /\ ~killfd /\ killfd' = TRUE
        /\ \A v \in Users \ {u} : pc[v] = "idle"
        /\ UNCHANGED <<queuevars, faultvars, workers>>
    BY <1>14, ShutdownDoes
  <2>2. "uffd" \in workers /\ "cr" \in workers /\ ~Queued(Kill)
    BY <1>0, <2>1 DEF Flow, KillOnly
  <2>3. pc'[Main] = "obj" /\ \A v \in Users \ {Main} : pc'[v] = "idle"
    BY <2>1 DEF Turns
  <2>4. ~Queued(Kill)' /\ workers' = workers
    BY <1>q, <2>1, <2>2 DEF queuevars
  <2>5. "obj" \in Killing /\ "obj" \notin Stopped
    BY DEF Killing, Stopped, Parts
  <2> QED BY <2>1, <2>2, <2>3, <2>4, <2>5 DEF Flow
<1>15. ASSUME NEW u \in Users, SubmitKill(u) PROVE Flow'
  <2>1. /\ pc[u] = "submit" /\ Turns(u, "joins") /\ crinput' = Append(crinput, Kill)
        /\ UNCHANGED <<faultvars, killfd, workers>>
    BY <1>15, SubmitKillDoes
  <2>2. killfd /\ u = Main /\ "cr" \in workers
    BY <1>0, <2>1 DEF Flow, KillOnly, Stopped
  <2>3. pc'[Main] = "joins" /\ \A v \in Users \ {Main} : pc'[v] = pc[v]
    BY <2>1, <2>2 DEF Turns
  <2>4. "joins" \in Killing /\ "joins" \notin Stopped
    BY DEF Killing, Stopped
  <2> QED BY <1>0, <2>1, <2>2, <2>3, <2>4 DEF Flow, faultvars
<1>16. ASSUME NEW u \in Users, Joins(u) PROVE Flow'
  <2>1. pc[u] = "joins" /\ Turns(u, "delkill") /\ workers = {} /\ UNCHANGED workvars
    BY <1>16, JoinsDoes
  <2>2. UNCHANGED <<killfd, workers, logging>> /\ (Queued(Kill)' <=> Queued(Kill))
    BY <1>q, <2>1 DEF workvars, queuevars, faultvars
  <2>3. killfd /\ u = Main /\ ~Queued(Kill)
    BY <1>0, <2>1 DEF Flow, KillOnly
  <2>4. "delkill" \in Killing /\ "delkill" \in Stopped
    BY DEF Killing, Stopped
  <2> QED BY <2>1, <2>2, <2>3, <2>4, FlowTurns
<1>17. ASSUME NEW u \in Users, Sweeps(u) PROVE Flow'
  <2>1. pc[u] = "sweep" /\ Turns(u, "sweep") /\ UNCHANGED <<queuevars, logging, killfd, workers>>
    BY <1>17, SweepsDoes
  <2>2. UNCHANGED <<killfd, workers, logging>> /\ (Queued(Kill)' <=> Queued(Kill))
    BY <1>q, <2>1 DEF queuevars
  <2>3. killfd /\ u = Main /\ ~Queued(Kill) /\ workers = {}
    BY <1>0, <2>1 DEF Flow, KillOnly, Stopped
  <2>4. "sweep" \in Killing /\ "sweep" \in Stopped
    BY DEF Killing, Stopped
  <2> QED BY <2>1, <2>2, <2>3, <2>4, FlowTurns
<1>18. ASSUME NEW u \in Users, Down(u) PROVE Flow'
  <2>1. pc[u] = "sweep" /\ Turns(u, "down") /\ UNCHANGED workvars
    BY <1>18, DownDoes
  <2>2. UNCHANGED <<killfd, workers, logging>> /\ (Queued(Kill)' <=> Queued(Kill))
    BY <1>q, <2>1 DEF workvars, queuevars, faultvars
  <2>3. killfd /\ u = Main /\ ~Queued(Kill) /\ workers = {}
    BY <1>0, <2>1 DEF Flow, KillOnly, Stopped
  <2>4. "down" \in Killing /\ "down" \in Stopped
    BY DEF Killing, Stopped
  <2> QED BY <2>1, <2>2, <2>3, <2>4, FlowTurns
<1>19. ASSUME CrPop PROVE Flow'
  <2>1. /\ crinput # <<>> /\ crinput' = Tail(crinput) /\ UNCHANGED <<uservars, faultvars, killfd>>
        /\ (Head(crinput) = Kill /\ workers' = workers \ {"cr"}) \/ workers' = workers
    BY <1>19, CrPopDoes
  <2>2. PICK h : h = Head(crinput)
    OBVIOUS
  <2>3. Queued(h) /\ ~Queued(h)' /\ (\A y : Queued(y) <=> Queued(y)' \/ y = h)
    BY <2>1, <2>2, Dequeues
  <2>4. UNCHANGED <<pc, logging, killfd>>
    BY <2>1 DEF uservars, faultvars
  <2>5. CASE workers' = workers
    BY <2>3, <2>4, <2>5, FlowKept
  <2>6. CASE h = Kill /\ workers' = workers \ {"cr"}
    <3>1. pc[Main] = "joins" /\ killfd
      BY <1>0, <2>3, <2>6 DEF Flow, KillOnly
    <3> QED BY <1>0, <2>3, <2>4, <2>6, <3>1 DEF Flow
  <2> QED BY <2>1, <2>2, <2>5, <2>6
<1>20. ASSUME CrNext PROVE Flow'
  BY <1>20, <1>q, CrNextDoes, FlowKept DEF uservars
<1>21. ASSUME CrPost PROVE Flow'
  BY <1>21, <1>q, CrPostDoes, FlowKept DEF uservars, faultvars
<1>22. ASSUME NEW p \in Touched, LogGives(p) PROVE Flow'
  <2>1. "uffd" \in workers /\ UNCHANGED <<uservars, queuevars, killfd, workers>>
    BY <1>22, LogGivesDoes
  <2> QED BY <1>0, <1>q, <2>1 DEF Flow, uservars, queuevars
<1>23. ASSUME LogRegisters PROVE Flow'
  <2>1. logging' = Null /\ UNCHANGED <<uservars, queuevars, killfd, workers>>
    BY <1>23, LogRegistersDoes
  <2> QED BY <1>0, <1>q, <2>1 DEF Flow, uservars, queuevars
<1>24. ASSUME UffdExits PROVE Flow'
  <2>1. /\ killfd /\ logging = Null /\ workers' = workers \ {"uffd"}
        /\ UNCHANGED <<uservars, queuevars, faultvars, killfd>>
    BY <1>24, UffdExitsDoes
  <2>2. UNCHANGED <<pc, logging>> /\ (Queued(Kill)' <=> Queued(Kill))
    BY <1>q, <2>1 DEF uservars, queuevars, faultvars
  <2> QED BY <1>0, <2>1, <2>2 DEF Flow
<1>25. ASSUME UNCHANGED vars PROVE Flow'
  BY <1>25, <1>q, Stutters, FlowKept DEF uservars, workvars, queuevars, faultvars
<1> HIDE DEF Flow
<1> QED
  BY <1>1, <1>2, <1>3, <1>4, <1>5, <1>6, <1>7, <1>8, <1>9, <1>10, <1>11, <1>12, <1>13, <1>14,
     <1>15, <1>16, <1>17, <1>18, <1>19, <1>20, <1>21, <1>22, <1>23, <1>24, <1>25
     DEF Next, Ended

(***************************************************************************)
(* The commits                                                             *)
(***************************************************************************)
LEMMA SendingNow ==
  ASSUME Inv
  PROVE  /\ Sending /\ serving \in Users \cup {Null} /\ at \in Nat \ {0}
         /\ finished \in [Users -> Nat] /\ Null \notin Users
         /\ serving # Null => /\ serving \in Users /\ pc[serving] = "wait"
                              /\ ckpt[serving].addrs \in Seq(Pages)
                              /\ Len(ckpt[serving].addrs) \in Nat
<1>1. QueueTypes /\ Sending
  BY TypeParts DEF Inv
<1>2. Null \notin Users
  BY NullApart
<1>3. ASSUME serving # Null PROVE serving \in Users /\ pc[serving] = "wait"
  BY <1>1, <1>3 DEF Sending, Waits, QueueTypes
<1>4. ASSUME serving # Null
      PROVE  ckpt[serving].addrs \in Seq(Pages) /\ Len(ckpt[serving].addrs) \in Nat
  <2>1. ckpt[serving].addrs \in Seq(Pages)
    BY <1>3, <1>4, Fields, ObjectFields
  <2> QED BY <2>1
<1> QED BY <1>1, <1>2, <1>3, <1>4 DEF QueueTypes

LEMMA SendingNext ==
  ASSUME Once(crinput'), KillLast(crinput'), \A v \in Users : Waits(v)',
         serving' # Null => at' <= Len(ckpt'[serving'].addrs) + 1
  PROVE  Sending'
BY DEF Sending, Once, KillLast

LEMMA SendTurns ==
  ASSUME Inv, NEW u \in Users, NEW to, Turns(u, to), pc[u] # "wait", to # "wait",
         UNCHANGED queuevars, \A v \in Users \ {u} : ckpt'[v] = ckpt[v]
  PROVE  Sending'
<1>1. Sending /\ UNCHANGED <<crinput, serving, at, finished>>
  BY SendingNow DEF queuevars
<1>2. Once(crinput') /\ KillLast(crinput') /\ \A x : Queued(x)' <=> Queued(x)
  BY <1>1, QueueNow, QueueNext
<1>3. ASSUME NEW v \in Users PROVE Waits(v)'
  <2>1. Waits(v) /\ (Queued(v)' <=> Queued(v))
    BY <1>1, <1>2 DEF Sending
  <2>2. pc'[v] = "wait" <=> pc[v] = "wait"
    BY DEF Turns
  <2> QED BY <1>1, <2>1, <2>2 DEF Waits
<1>4. serving' # Null => at' <= Len(ckpt'[serving'].addrs) + 1
  <2>1. serving # Null => serving \in Users \ {u}
    BY SendingNow
  <2> QED BY <1>1, <2>1 DEF Sending
<1> QED BY <1>2, <1>3, <1>4, SendingNext

LEMMA SendKept ==
  ASSUME Inv, UNCHANGED <<pc, ckpt>>, UNCHANGED queuevars
  PROVE  Sending'
<1>1. Sending /\ UNCHANGED <<crinput, serving, at, finished>>
  BY SendingNow DEF queuevars
<1>2. Once(crinput') /\ KillLast(crinput') /\ \A x : Queued(x)' <=> Queued(x)
  BY <1>1, QueueNow, QueueNext
<1>3. \A v \in Users : Waits(v)'
  BY <1>1, <1>2 DEF Sending, Waits
<1> QED BY <1>1, <1>2, <1>3, SendingNext DEF Sending

LEMMA SendStep ==
  ASSUME Inv, [Next]_vars
  PROVE  Sending'
<1>0. /\ Sending /\ serving \in Users \cup {Null} /\ at \in Nat \ {0}
      /\ finished \in [Users -> Nat] /\ Null \notin Users
      /\ Once(crinput) /\ KillLast(crinput)
  BY SendingNow, QueueNow
<1>1. ASSUME NEW u \in Users, NewBegins(u) PROVE Sending'
  BY <1>1, NewBeginsDoes, SendTurns DEF workvars
<1>2. ASSUME NEW u \in Users, NewGives(u) PROVE Sending'
  BY <1>2, NewGivesDoes, SendKept DEF workvars
<1>3. ASSUME NEW u \in Users, NewRegisters(u) PROVE Sending'
  <2>1. /\ pc[u] # "wait" /\ UNCHANGED workvars /\ \A v \in Users \ {u} : ckpt'[v] = ckpt[v]
        /\ Turns(u, "list") \/ Turns(u, "arr") \/ Turns(u, IF killfd THEN "submit" ELSE "ready")
    BY <1>3, NewRegistersDoes DEF Becomes
  <2>2. PICK to \in {"list", "arr", IF killfd THEN "submit" ELSE "ready"} : Turns(u, to)
    BY <2>1
  <2> QED BY <2>1, <2>2, SendTurns DEF workvars
<1>4. ASSUME NEW u \in Users, NEW r \in Regions, AddBegins(u, r) PROVE Sending'
  BY <1>4, AddBeginsDoes, SendTurns DEF workvars
<1>5. ASSUME NEW u \in Users, AddPage(u) PROVE Sending'
  BY <1>5, AddPageDoes, SendTurns DEF workvars, Becomes
<1>6. ASSUME NEW u \in Users, AddEnds(u) PROVE Sending'
  BY <1>6, AddEndsDoes, SendTurns DEF workvars
<1>7. ASSUME NEW u \in Users, NEW b \in Blocks, GrowMoves(u, b) PROVE Sending'
  BY <1>7, GrowMovesDoes, SendTurns DEF workvars, Becomes
<1>8. ASSUME NEW u \in Users, GrowRegisters(u) PROVE Sending'
  BY <1>8, GrowRegistersDoes, SendTurns DEF workvars, Becomes
<1>9. ASSUME NEW u \in Users, Commit(u) PROVE Sending'
  <2>1. /\ pc[u] = "ready" /\ Turns(u, "wait") /\ crinput' = Append(crinput, u)
        /\ UNCHANGED <<ckpt, serving, at, finished>>
    BY <1>9, CommitDoes
  <2>2. ~Queued(u) /\ serving # u /\ finished[u] = 0
    BY <1>0, <2>1 DEF Sending, Waits
  <2>3. ~Queued(Kill)
    BY <2>1, FlowNow DEF Flow, KillOnly
  <2>4. /\ Once(crinput') /\ KillLast(crinput')
        /\ \A y : Queued(y)' <=> Queued(y) \/ y = u
    BY <2>1, <2>2, <2>3, Enqueues
  <2>5. ASSUME NEW v \in Users PROVE Waits(v)'
    <3>1. Waits(v) /\ (Queued(v)' <=> Queued(v) \/ v = u)
      BY <1>0, <2>4 DEF Sending
    <3>2. pc'[v] = IF v = u THEN "wait" ELSE pc[v]
      BY <2>1 DEF Turns
    <3> QED BY <2>1, <2>2, <3>1, <3>2 DEF Waits
  <2> QED BY <1>0, <2>1, <2>4, <2>5, SendingNext DEF Sending
<1>10. ASSUME NEW u \in Users, CommitReturns(u) PROVE Sending'
  <2>1. /\ pc[u] = "wait" /\ Turns(u, "ready") /\ finished[u] > 0
        /\ finished' = [finished EXCEPT ![u] = @ - 1]
        /\ UNCHANGED <<ckpt, crinput, serving, at>>
    BY <1>10, CommitReturnsDoes
  <2>2. Once(crinput') /\ KillLast(crinput') /\ \A x : Queued(x)' <=> Queued(x)
    BY <1>0, <2>1, QueueNext
  <2>3. ASSUME NEW v \in Users PROVE Waits(v)'
    <3>1. Waits(v) /\ (Queued(v)' <=> Queued(v))
      BY <1>0, <2>2 DEF Sending
    <3>2. pc'[v] = IF v = u THEN "ready" ELSE pc[v]
      BY <2>1 DEF Turns
    <3>3. finished'[v] = IF v = u THEN finished[u] - 1 ELSE finished[v]
      BY <1>0, <2>1
    <3>4. finished[u] = 1 => finished[u] - 1 = 0
      OBVIOUS
    <3>5. CASE v = u
      <4>1. finished[u] = 1 /\ ~Queued(u) /\ serving # u
        BY <2>1, <3>1, <3>5 DEF Waits
      <4> QED BY <2>1, <3>1, <3>2, <3>3, <3>5, <4>1 DEF Waits
    <3>6. CASE v # u
      BY <2>1, <3>1, <3>2, <3>3, <3>6 DEF Waits
    <3> QED BY <3>5, <3>6
  <2> QED BY <1>0, <2>1, <2>2, <2>3, SendingNext DEF Sending
<1>11. ASSUME NEW u \in Users, DeleteArr(u) PROVE Sending'
  BY <1>11, DeleteArrDoes, SendTurns DEF workvars, Becomes
<1>12. ASSUME NEW u \in Users, DeleteList(u) PROVE Sending'
  BY <1>12, DeleteListDoes, SendTurns DEF workvars, Becomes
<1>13. ASSUME NEW u \in Users, DeleteObj(u) PROVE Sending'
  <2>1. /\ pc[u] # "wait" /\ UNCHANGED workvars /\ \A v \in Users \ {u} : ckpt'[v] = ckpt[v]
        /\ Turns(u, IF killfd THEN "sweep" ELSE "idle")
    BY <1>13, DeleteObjDoes DEF Becomes
  <2>2. PICK to \in {IF killfd THEN "sweep" ELSE "idle"} : Turns(u, to)
    BY <2>1
  <2> QED BY <2>1, <2>2, SendTurns DEF workvars
<1>14. ASSUME NEW u \in Users, Shutdown(u) PROVE Sending'
  BY <1>14, ShutdownDoes, SendTurns
<1>15. ASSUME NEW u \in Users, SubmitKill(u) PROVE Sending'
  <2>1. /\ pc[u] = "submit" /\ Turns(u, "joins") /\ crinput' = Append(crinput, Kill)
        /\ UNCHANGED <<ckpt, serving, at, finished>>
    BY <1>15, SubmitKillDoes
  <2>2. ~Queued(Kill)
    BY <2>1, FlowNow DEF Flow, KillOnly
  <2>3. /\ Once(crinput') /\ KillLast(crinput')
        /\ \A y : Queued(y)' <=> Queued(y) \/ y = Kill
    BY <2>1, <2>2, Enqueues
  <2>4. ASSUME NEW v \in Users PROVE Waits(v)'
    <3>1. Waits(v) /\ (Queued(v)' <=> Queued(v))
      BY <1>0, <2>3, NullApart DEF Sending
    <3>2. pc'[v] = "wait" <=> pc[v] = "wait"
      BY <2>1 DEF Turns
    <3> QED BY <2>1, <3>1, <3>2 DEF Waits
  <2> QED BY <1>0, <2>1, <2>3, <2>4, SendingNext DEF Sending
<1>16. ASSUME NEW u \in Users, Joins(u) PROVE Sending'
  BY <1>16, JoinsDoes, SendTurns DEF workvars
<1>17. ASSUME NEW u \in Users, Sweeps(u) PROVE Sending'
  BY <1>17, SweepsDoes, SendTurns
<1>18. ASSUME NEW u \in Users, Down(u) PROVE Sending'
  BY <1>18, DownDoes, SendTurns DEF workvars
<1>19. ASSUME CrPop PROVE Sending'
  <2>1. /\ serving = Null /\ crinput # <<>> /\ crinput' = Tail(crinput)
        /\ UNCHANGED <<pc, ckpt, finished>>
    BY <1>19, CrPopDoes DEF uservars
  <2>2. PICK h : h = Head(crinput)
    OBVIOUS
  <2>3. /\ \/ h = Kill /\ UNCHANGED <<serving, at>>
           \/ h \in Users /\ serving' = h /\ at' = 1
    BY <1>19, <2>2, CrPopDoes
  <2>4. /\ Queued(h) /\ ~Queued(h)' /\ (\A y : Queued(y) <=> Queued(y)' \/ y = h)
        /\ Once(crinput') /\ KillLast(crinput')
    BY <2>1, <2>2, Dequeues
  <2>5. CASE h = Kill /\ UNCHANGED <<serving, at>>
    <3>1. ASSUME NEW v \in Users PROVE Waits(v)'
      <4>1. Waits(v) /\ (Queued(v)' <=> Queued(v))
        BY <1>0, <2>4, <2>5, NullApart DEF Sending
      <4> QED BY <2>1, <2>5, <4>1 DEF Waits
    <3> QED BY <2>1, <2>4, <2>5, <3>1, SendingNext
  <2>6. CASE h \in Users /\ serving' = h /\ at' = 1
    <3>1. ASSUME NEW v \in Users PROVE Waits(v)'
      <4>1. Waits(v) /\ (Queued(v) <=> Queued(v)' \/ v = h) /\ Waits(h)
        BY <1>0, <2>4, <2>6 DEF Sending
      <4>2. v # h => (Queued(v)' <=> Queued(v))
        BY <4>1
      <4>3. v = h => ~Queued(v)' /\ pc[v] = "wait" /\ finished[v] = 0
        BY <2>4, <4>1 DEF Waits
      <4>4. CASE v = h
        BY <2>1, <2>6, <4>1, <4>3, <4>4 DEF Waits
      <4>5. CASE v # h
        BY <1>0, <2>1, <2>6, <4>1, <4>2, <4>5 DEF Waits
      <4> QED BY <4>4, <4>5
    <3>2. 1 <= Len(ckpt'[h].addrs) + 1
      <4>1. ckpt[h].addrs \in Seq(Pages)
        BY <2>6, Fields, ObjectFields
      <4>2. Len(ckpt[h].addrs) \in Nat
        BY <4>1
      <4> QED BY <2>1, <4>2
    <3> QED BY <2>4, <2>6, <3>1, <3>2, SendingNext
  <2> QED BY <2>3, <2>5, <2>6
<1>20. ASSUME CrNext PROVE Sending'
  <2>1. /\ serving \in Users /\ at <= Len(ckpt[serving].addrs) /\ at' = at + 1
        /\ UNCHANGED <<pc, ckpt, crinput, serving, finished>>
    BY <1>20, CrNextDoes DEF uservars
  <2>2. Once(crinput') /\ KillLast(crinput') /\ \A x : Queued(x)' <=> Queued(x)
    BY <1>0, <2>1, QueueNext
  <2>3. \A v \in Users : Waits(v)'
    BY <1>0, <2>1, <2>2 DEF Sending, Waits
  <2>4. at' <= Len(ckpt'[serving'].addrs) + 1
    <3>1. Len(ckpt[serving].addrs) \in Nat
      BY <1>0, <2>1, SendingNow
    <3> QED BY <1>0, <2>1, <3>1
  <2> QED BY <2>2, <2>3, <2>4, SendingNext
<1>21. ASSUME CrPost PROVE Sending'
  <2>1. /\ serving \in Users /\ finished' = [finished EXCEPT ![serving] = @ + 1]
        /\ serving' = Null /\ at' = 1 /\ UNCHANGED <<pc, crinput>>
    BY <1>21, CrPostDoes DEF uservars
  <2>2. Once(crinput') /\ KillLast(crinput') /\ \A x : Queued(x)' <=> Queued(x)
    BY <1>0, <2>1, QueueNext
  <2>3. ASSUME NEW v \in Users PROVE Waits(v)'
    <3>1. Waits(v) /\ (Queued(v)' <=> Queued(v)) /\ serving' # v
      BY <1>0, <2>1, <2>2 DEF Sending
    <3>2. CASE v = serving
      <4>1. pc[v] = "wait" /\ finished[v] = 0 /\ ~Queued(v)
        BY <3>1, <3>2 DEF Waits
      <4>2. finished'[v] = 1
        BY <1>0, <2>1, <3>2, <4>1
      <4> QED BY <2>1, <3>1, <4>1, <4>2 DEF Waits
    <3>3. CASE v # serving
      <4>1. finished'[v] = finished[v]
        BY <1>0, <2>1, <3>3
      <4> QED BY <2>1, <3>1, <3>3, <4>1 DEF Waits
    <3> QED BY <3>2, <3>3
  <2> QED BY <2>1, <2>2, <2>3, SendingNext
<1>22. ASSUME NEW p \in Touched, LogGives(p) PROVE Sending'
  BY <1>22, LogGivesDoes, SendKept DEF uservars
<1>23. ASSUME LogRegisters PROVE Sending'
  BY <1>23, LogRegistersDoes, SendKept DEF uservars
<1>24. ASSUME UffdExits PROVE Sending'
  BY <1>24, UffdExitsDoes, SendKept DEF uservars
<1>25. ASSUME UNCHANGED vars PROVE Sending'
  BY <1>25, Stutters, SendKept DEF uservars, workvars
<1> HIDE DEF Sending
<1> QED
  BY <1>1, <1>2, <1>3, <1>4, <1>5, <1>6, <1>7, <1>8, <1>9, <1>10, <1>11, <1>12, <1>13, <1>14,
     <1>15, <1>16, <1>17, <1>18, <1>19, <1>20, <1>21, <1>22, <1>23, <1>24, <1>25
     DEF Next, Ended

(***************************************************************************)
(* The list of an object                                                   *)
(***************************************************************************)
LEMMA PageIn ==
  ASSUME NEW a \in Memory
  PROVE  /\ a \in Nat /\ PageOf(a) \in Pages /\ PageOf(a) \in Nat /\ PageOf(a) % PageSize = 0
         /\ PageOf(a) <= a /\ a < PageOf(a) + PageSize /\ PageSize \in Nat
         /\ PageOf(a) .. (PageOf(a) + PageSize - 1) \subseteq Memory
<1>1. a \in Nat /\ PageSize \in Nat \ {0}
  BY MemoryAssumption, ConstantsAssumption
<1>2. /\ PageOf(a) \in Nat /\ PageOf(a) % PageSize = 0
      /\ PageOf(a) <= a /\ a < PageOf(a) + PageSize
  BY <1>1, InPage
<1>3. PageOf(a) .. (PageOf(a) + PageSize - 1) \subseteq Memory
  BY MemoryAssumption DEF PageOf
<1>4. PageOf(a) \in PageOf(a) .. (PageOf(a) + PageSize - 1)
  BY <1>1, <1>2
<1> QED BY <1>1, <1>2, <1>3, <1>4 DEF Pages

LEMMA PageNat ==
  ASSUME NEW p \in Pages
  PROVE  p \in Memory /\ p \in Nat /\ p % PageSize = 0
BY MemoryAssumption DEF Pages

(* The page of a byte is the only one that begins less than a page before. *)
LEMMA OnlyPage ==
  ASSUME NEW a \in Memory, NEW p \in Pages, p <= a, a < p + PageSize
  PROVE  p = PageOf(a)
<1>1. p \in Nat /\ p % PageSize = 0 /\ a \in Nat /\ PageSize \in Nat
  BY PageNat, PageIn
<1> DEFINE q == PageOf(a)
<1>2. q \in Nat /\ q % PageSize = 0 /\ q <= a /\ a < q + PageSize
  BY PageIn
<1> HIDE DEF q
<1>3. p < q => p + PageSize <= q
  BY <1>1, <1>2, PagesApart
<1>4. q < p => q + PageSize <= p
  BY <1>1, <1>2, PagesApart
<1>5. p = q
  BY <1>1, <1>2, <1>3, <1>4
<1> QED BY <1>5 DEF q

LEMMA PageAtIs ==
  ASSUME NEW a \in Memory
  PROVE  PageAt(a) = PageOf(a)
<1> DEFINE T == {p \in Pages : p <= a}
           q == PageOf(a)
<1>1. q \in T /\ q \in Nat /\ a < q + PageSize /\ a \in Nat /\ PageSize \in Nat
  BY PageIn
<1>2. ASSUME NEW p \in T PROVE q >= p /\ p \in Nat
  <2>1. p \in Pages /\ p <= a /\ p \in Nat /\ p % PageSize = 0 /\ q % PageSize = 0
    BY PageNat, PageIn
  <2> HIDE DEF q, T
  <2>2. q < p => q + PageSize <= p
    BY <1>1, <2>1, PagesApart
  <2> QED BY <1>1, <2>1, <2>2
<1> HIDE DEF T, q
<1>3. \E x \in T : \A y \in T : x >= y
  BY <1>1, <1>2
<1>4. Max(T) \in T /\ \A y \in T : Max(T) >= y
  BY <1>3 DEF Max
<1>5. Max(T) >= q /\ q >= Max(T) /\ Max(T) \in Nat
  BY <1>1, <1>2, <1>4
<1>6. Max(T) = q
  BY <1>1, <1>5
<1> QED BY <1>6 DEF PageAt, T, q

ListOf(u) ==
  /\ Len(ckpt[u].addrs) <= ckpt[u].cap
  /\ pc[u] \in Parts \cup {"idle"} => ckpt[u].addrs = <<>>
  /\ todo[u].iter % PageSize = 0
  /\ todo[u].iter .. (todo[u].high - 1) \subseteq Memory
  /\ pc[u] \notin {"adding", "growing"} => todo[u] = NoTodo
  /\ Covers(ToSet(ckpt[u].addrs) \cup Ahead(todo[u]), added[u])

LEMMA ListNow ==
  ASSUME Inv, NEW u \in Users
  PROVE  ListOf(u) /\ Len(ckpt[u].addrs) \in Nat /\ ckpt[u].cap \in Nat
         /\ ckpt[u].addrs \in Seq(Pages)
<1>1. ckpt[u].addrs \in Seq(Pages) /\ ckpt[u].cap \in Nat
  BY Fields, ObjectFields
<1>2. Len(ckpt[u].addrs) \in Nat
  BY <1>1
<1> QED BY <1>1, <1>2 DEF Inv, Listing, ListOf

LEMMA ListOthers ==
  ASSUME Inv, NEW u \in Users, ListOf(u)',
         \A v \in Users \ {u} : /\ ckpt'[v] = ckpt[v] /\ todo'[v] = todo[v]
                                /\ added'[v] = added[v] /\ pc'[v] = pc[v]
  PROVE  Listing'
<1>1. ASSUME NEW v \in Users \ {u} PROVE ListOf(v)'
  <2>1. ListOf(v)
    BY ListNow
  <2>2. ckpt'[v] = ckpt[v] /\ todo'[v] = todo[v] /\ added'[v] = added[v] /\ pc'[v] = pc[v]
    OBVIOUS
  <2> QED BY <2>1, <2>2 DEF ListOf
<1>2. \A v \in Users : ListOf(v)'
  BY <1>1
<1> QED BY <1>2 DEF ListOf, Listing

(* Steps that leave the list and the region alone.                         *)
LEMMA ListTurns ==
  ASSUME Inv, NEW u \in Users, NEW to, Turns(u, to), UNCHANGED <<todo, added>>,
         \A v \in Users \ {u} : ckpt'[v] = ckpt[v],
         ckpt'[u].addrs = ckpt[u].addrs, Len(ckpt[u].addrs) <= ckpt'[u].cap,
         to \in Parts \cup {"idle"} => ckpt[u].addrs = <<>>,
         to \notin {"adding", "growing"} => pc[u] \notin {"adding", "growing"}
  PROVE  Listing'
<1>1. ListOf(u)'
  BY ListNow DEF ListOf, Turns
<1> QED BY <1>1, ListOthers DEF Turns

LEMMA ListKept ==
  ASSUME Inv, UNCHANGED <<pc, ckpt, todo, added>>
  PROVE  Listing'
<1>1. ASSUME NEW v \in Users PROVE ListOf(v)'
  <2>1. ListOf(v)
    BY ListNow
  <2> QED BY <2>1 DEF ListOf
<1> QED BY <1>1 DEF ListOf, Listing

LEMMA NothingAhead ==
  ASSUME NEW t \in [iter : Nat, high : Nat], t.iter >= t.high
  PROVE  Ahead(t) = {}
BY PageNat DEF Ahead

LEMMA NoTodoIs ==
  /\ NoTodo \in [iter : Nat, high : Nat] /\ NoTodo.iter % PageSize = 0
  /\ NoTodo.iter .. (NoTodo.high - 1) = {} /\ Ahead(NoTodo) = {}
<1>1. NoTodo \in [iter : Nat, high : Nat] /\ NoTodo.iter = 0 /\ NoTodo.high = 0
  BY DEF NoTodo
<1>2. 0 % PageSize = 0
  BY ConstantsAssumption
<1>3. 0 .. (0 - 1) = {}
  OBVIOUS
<1> QED BY <1>1, <1>2, <1>3, NothingAhead

LEMMA RegionPages ==
  ASSUME NEW r \in Regions, NEW t, t = [iter |-> PageOf(r.addr), high |-> r.addr + r.len]
  PROVE  /\ Covers(Ahead(t), {r}) /\ t.iter .. (t.high - 1) \subseteq Memory
         /\ t.iter % PageSize = 0 /\ t \in [iter : Nat, high : Nat]
<1> DEFINE a == r.addr
           n == r.len
           q == PageOf(a)
<1>1. /\ a \in Memory /\ a \in Nat /\ n \in Nat /\ a .. (a + n - 1) \subseteq Memory
      /\ t.iter = q /\ t.high = a + n
  BY MemoryAssumption, ConstantsAssumption
<1>2. /\ q \in Pages /\ q \in Nat /\ q % PageSize = 0 /\ q <= a /\ a < q + PageSize
      /\ PageSize \in Nat /\ q .. (q + PageSize - 1) \subseteq Memory
  BY <1>1, PageIn
<1>3. t.iter .. (t.high - 1) \subseteq Memory
  <2> HIDE DEF q, a, n
  <2> SUFFICES ASSUME NEW x \in q .. (a + n - 1) PROVE x \in Memory
    BY <1>1
  <2>1. CASE x < a
    <3>1. x \in q .. (q + PageSize - 1)
      BY <1>1, <1>2, <2>1
    <3> QED BY <1>2, <3>1
  <2>2. CASE x >= a
    <3>1. x \in a .. (a + n - 1)
      BY <1>1, <1>2, <2>2
    <3> QED BY <1>1, <3>1
  <2> QED BY <1>1, <1>2, <2>1, <2>2
<1>4. /\ TouchedBy({r}) = {PageAt(b) : b \in a .. (a + n - 1)}
      /\ EmptyIn({r}) = IF n = 0 THEN {PageAt(a)} ELSE {}
  BY DEF TouchedBy, EmptyIn
<1>t. t \in [iter : Nat, high : Nat]
  BY <1>1, <1>2
<1>5. ASSUME NEW b \in a .. (a + n - 1) PROVE PageAt(b) \in Ahead(t)
  <2> DEFINE p == PageOf(b)
  <2>1. b \in Memory /\ b \in Nat /\ a <= b /\ b < a + n
    BY <1>1
  <2>2. p \in Pages /\ p \in Nat /\ p % PageSize = 0 /\ p <= b /\ b < p + PageSize /\ PageAt(b) = p
    BY <2>1, PageIn, PageAtIs
  <2> HIDE DEF p, q
  <2>3. p < q => p + PageSize <= q
    BY <1>2, <2>2, PagesApart
  <2>4. q <= p /\ p < a + n
    BY <1>1, <1>2, <2>1, <2>2, <2>3
  <2> QED BY <1>1, <2>2, <2>4 DEF Ahead
<1>6. ASSUME NEW p \in Ahead(t) PROVE p \in TouchedBy({r}) \cup EmptyIn({r})
  <2>1. p \in Pages /\ q <= p /\ p < a + n /\ p \in Nat /\ p % PageSize = 0 /\ p \in Memory
    BY <1>1, <1>6, PageNat DEF Ahead
  <2>2. CASE p <= a
    <3>1. q < p => q + PageSize <= p
      BY <1>2, <2>1, PagesApart
    <3>2. p = q /\ PageAt(a) = q
      BY <1>1, <1>2, <2>1, <2>2, <3>1, PageAtIs
    <3>3. n # 0 => a \in a .. (a + n - 1)
      BY <1>1
    <3> QED BY <1>4, <3>2, <3>3
  <2>3. CASE p > a
    <3>1. p \in a .. (a + n - 1)
      BY <1>1, <2>1, <2>3
    <3>2. PageAt(p) = PageOf(p)
      BY <2>1, PageAtIs
    <3>3. p <= p /\ p < p + PageSize
      BY <2>1, ConstantsAssumption
    <3>4. p = PageOf(p)
      BY <2>1, <3>3, OnlyPage
    <3> QED BY <1>4, <3>1, <3>2, <3>4
  <2> QED BY <1>1, <2>1, <2>2, <2>3
<1>7. Covers(Ahead(t), {r})
  BY <1>4, <1>5, <1>6 DEF Covers
<1> QED BY <1>1, <1>2, <1>3, <1>7, <1>t

LEMMA CoversBoth ==
  ASSUME NEW S, NEW R, NEW T, NEW r, Covers(S, R), Covers(T, {r})
  PROVE  Covers(S \cup T, R \cup {r})
<1>1. TouchedBy(R \cup {r}) = TouchedBy(R) \cup TouchedBy({r})
  BY DEF TouchedBy
<1>2. EmptyIn(R \cup {r}) = EmptyIn(R) \cup EmptyIn({r})
  BY DEF EmptyIn
<1> QED BY <1>1, <1>2 DEF Covers

LEMMA StepAhead ==
  ASSUME NEW t \in [iter : Nat, high : Nat], t.iter \in Pages, t.iter < t.high,
         NEW d, d = [iter |-> t.iter + PageSize, high |-> t.high]
  PROVE  /\ Ahead(t) = Ahead(d) \cup {t.iter}
         /\ d.iter % PageSize = 0 /\ d.iter .. (d.high - 1) \subseteq t.iter .. (t.high - 1)
<1>1. PageSize \in Nat \ {0} /\ t.iter \in Nat /\ t.iter % PageSize = 0 /\ t.high \in Nat
  BY PageNat, ConstantsAssumption
<1>2. d.iter = t.iter + PageSize /\ d.high = t.high
  OBVIOUS
<1>3. d.iter % PageSize = 0
  BY <1>1, <1>2, NextPage
<1>4. d.iter .. (d.high - 1) \subseteq t.iter .. (t.high - 1)
  BY <1>1, <1>2
<1>5. ASSUME NEW q \in Pages
      PROVE  t.iter <= q /\ q < t.high <=> (d.iter <= q /\ q < d.high) \/ q = t.iter
  <2>1. q \in Nat /\ q % PageSize = 0
    BY PageNat
  <2>2. t.iter < q => t.iter + PageSize <= q
    BY <1>1, <2>1, PagesApart
  <2> QED BY <1>1, <1>2, <2>1, <2>2
<1>6. Ahead(t) = Ahead(d) \cup {t.iter}
  BY <1>5 DEF Ahead
<1> QED BY <1>3, <1>4, <1>6

LEMMA SetAppended ==
  ASSUME NEW S, NEW s \in Seq(S), NEW x \in S
  PROVE  /\ ToSet(Append(s, x)) = ToSet(s) \cup {x} /\ Append(s, x) \in Seq(S)
         /\ Len(Append(s, x)) = Len(s) + 1
<1> DEFINE t == Append(s, x)
<1>0. t = Append(s, x)
  OBVIOUS
<1> HIDE DEF t
<1>1. \A y : Within(t, y) <=> Within(s, y) \/ y = x
  BY <1>0, Appended
<1>2. ToSet(t) = ToSet(s) \cup {x}
  BY <1>1 DEF ToSet, Within
<1> QED BY <1>0, <1>2, AppendProperties

LEMMA ListStep ==
  ASSUME Inv, [Next]_vars
  PROVE  Listing'
<1>0. \A v \in Users : ListOf(v) /\ Len(ckpt[v].addrs) \in Nat /\ ckpt[v].cap \in Nat
  BY ListNow
<1>1. ASSUME NEW u \in Users, NewBegins(u) PROVE Listing'
  <2>1. ckpt[u].addrs = <<>>
    BY <1>0, <1>1, NewBeginsDoes DEF ListOf
  <2> QED BY <1>0, <1>1, <2>1, NewBeginsDoes, ListTurns DEF ListOf
<1>2. ASSUME NEW u \in Users, NewGives(u) PROVE Listing'
  BY <1>2, NewGivesDoes, ListKept
<1>3. ASSUME NEW u \in Users, NewRegisters(u) PROVE Listing'
  <2> DEFINE to == IF killfd THEN "submit" ELSE "ready"
  <2>1. /\ UNCHANGED <<todo, added>> /\ \A v \in Users \ {u} : ckpt'[v] = ckpt[v]
        /\ ckpt'[u].addrs = ckpt[u].addrs /\ pc[u] \in Parts
        /\ ckpt'[u].cap = ckpt[u].cap \/ ckpt'[u].cap = 2 ^ Power
        /\ Turns(u, "list") \/ Turns(u, "arr") \/ Turns(u, to)
    BY <1>3, NewRegistersDoes DEF Becomes, Parts
  <2>2. ckpt[u].addrs = <<>> /\ Len(ckpt[u].addrs) = 0
    <3>1. ckpt[u].addrs = <<>>
      BY <1>0, <2>1 DEF ListOf
    <3>2. Len(<<>>) = 0
      OBVIOUS
    <3> QED BY <3>1, <3>2
  <2>3. Len(ckpt[u].addrs) <= ckpt'[u].cap
    BY <1>0, <2>1, <2>2, ArrayLength
  <2>4. PICK x \in {"list", "arr", to} : Turns(u, x)
    BY <2>1
  <2>5. pc[u] \notin {"adding", "growing"}
    BY <2>1 DEF Parts
  <2> QED BY <2>1, <2>2, <2>3, <2>4, <2>5, ListTurns
<1>4. ASSUME NEW u \in Users, NEW r \in Regions, AddBegins(u, r) PROVE Listing'
  <2> DEFINE t == [iter |-> PageOf(r.addr), high |-> r.addr + r.len]
  <2>1. /\ pc[u] = "ready" /\ Turns(u, "adding") /\ Steps(u, t) /\ ckpt' = ckpt
        /\ added' = [added EXCEPT ![u] = @ \cup {r}]
    BY <1>4, AddBeginsDoes
  <2>t. t = [iter |-> PageOf(r.addr), high |-> r.addr + r.len]
    OBVIOUS
  <2> HIDE DEF t
  <2>2. /\ Covers(Ahead(t), {r}) /\ t.iter .. (t.high - 1) \subseteq Memory
        /\ t.iter % PageSize = 0
    BY <2>t, RegionPages
  <2>3. todo[u] = NoTodo /\ Covers(ToSet(ckpt[u].addrs) \cup Ahead(todo[u]), added[u])
    BY <1>0, <2>1 DEF ListOf
  <2>4. Covers(ToSet(ckpt[u].addrs), added[u])
    <3>1. ToSet(ckpt[u].addrs) \cup {} = ToSet(ckpt[u].addrs)
      OBVIOUS
    <3> QED BY <2>3, <3>1, NoTodoIs
  <2>5. Covers(ToSet(ckpt[u].addrs) \cup Ahead(t), added[u] \cup {r})
    BY <2>2, <2>4, CoversBoth
  <2>6. /\ added'[u] = added[u] \cup {r} /\ \A v \in Users \ {u} : added'[v] = added[v]
    BY <2>1, TypeParts DEF Inv, UserTypes
  <2>7. ListOf(u)'
    <3>1. todo'[u] = t /\ pc'[u] = "adding"
      BY <2>1 DEF Steps, Turns
    <3> QED BY <1>0, <2>1, <2>2, <2>5, <2>6, <3>1 DEF ListOf, Parts
  <2> QED BY <2>1, <2>6, <2>7, ListOthers DEF Steps, Turns
<1>5. ASSUME NEW u \in Users, AddPage(u) PROVE Listing'
  <2> DEFINE c == ckpt[u]
             t == todo[u]
             d == [iter |-> t.iter + PageSize, high |-> t.high]
             s == Append(c.addrs, t.iter)
  <2>1. /\ pc[u] = "adding" /\ Turns(u, "adding") /\ Steps(u, d) /\ added' = added
        /\ t.iter < t.high /\ Len(c.addrs) # c.cap /\ t.iter \in Pages
        /\ Becomes(u, c.obj, c.list, c.arr, c.cap, s)
    BY <1>5, AddPageDoes
  <2>2. /\ ToSet(s) = ToSet(c.addrs) \cup {t.iter} /\ Len(s) = Len(c.addrs) + 1
    BY <2>1, ListNow, SetAppended
  <2>3. /\ Ahead(t) = Ahead(d) \cup {t.iter}
        /\ d.iter % PageSize = 0 /\ d.iter .. (d.high - 1) \subseteq t.iter .. (t.high - 1)
    <3>1. t \in [iter : Nat, high : Nat] /\ d = [iter |-> t.iter + PageSize, high |-> t.high]
      BY Fields
    <3> HIDE DEF t, d
    <3> QED BY <2>1, <3>1, StepAhead
  <2>4. ListOf(u)
    BY <1>0
  <2>5. /\ ckpt'[u].addrs = s /\ ckpt'[u].cap = c.cap /\ todo'[u] = d /\ pc'[u] = "adding"
        /\ added'[u] = added[u]
    BY <2>1 DEF Becomes, Steps, Turns
  <2> HIDE DEF s, d
  <2>6. ToSet(s) \cup Ahead(d) = ToSet(c.addrs) \cup Ahead(t)
    BY <2>2, <2>3
  <2>7. Len(s) <= c.cap
    <3> DEFINE n == Len(c.addrs)
               m == c.cap
    <3>1. n \in Nat /\ m \in Nat /\ n # m /\ n <= m /\ Len(s) = n + 1
      BY <1>0, <2>1, <2>2, <2>4 DEF ListOf
    <3> HIDE DEF n, m
    <3>2. Len(s) <= m
      BY <3>1
    <3> QED BY <3>2 DEF m
  <2>8. ListOf(u)'
    BY <2>3, <2>4, <2>5, <2>6, <2>7 DEF ListOf, Parts
  <2> QED BY <2>1, <2>8, ListOthers DEF Becomes, Steps, Turns
<1>6. ASSUME NEW u \in Users, AddEnds(u) PROVE Listing'
  <2>1. /\ pc[u] = "adding" /\ Turns(u, "ready") /\ todo[u].iter >= todo[u].high
        /\ Steps(u, NoTodo) /\ UNCHANGED <<ckpt, added>>
    BY <1>6, AddEndsDoes
  <2>2. Ahead(todo[u]) = {}
    BY <2>1, Fields, NothingAhead
  <2>3. ListOf(u)
    BY <1>0
  <2>4. todo'[u] = NoTodo /\ pc'[u] = "ready" /\ ckpt'[u] = ckpt[u] /\ added'[u] = added[u]
    BY <2>1 DEF Steps, Turns
  <2>5. ListOf(u)'
    BY <2>2, <2>3, <2>4, NoTodoIs DEF ListOf, Parts
  <2> QED BY <2>1, <2>5, ListOthers DEF Steps, Turns
<1>7. ASSUME NEW u \in Users, NEW b \in Blocks, GrowMoves(u, b) PROVE Listing'
  <2>1. /\ pc[u] = "adding" /\ Turns(u, "growing") /\ UNCHANGED <<todo, added>>
        /\ \A v \in Users \ {u} : ckpt'[v] = ckpt[v]
        /\ ckpt'[u].addrs = ckpt[u].addrs /\ ckpt'[u].cap = 2 * ckpt[u].cap
    BY <1>7, GrowMovesDoes DEF Becomes
  <2>2. Len(ckpt[u].addrs) <= ckpt'[u].cap
    <3> DEFINE n == Len(ckpt[u].addrs)
               m == ckpt[u].cap
    <3>1. n \in Nat /\ m \in Nat /\ n <= m
      BY <1>0 DEF ListOf
    <3> HIDE DEF n, m
    <3>2. n <= 2 * m
      BY <3>1
    <3> QED BY <2>1, <3>2 DEF n, m
  <2> QED BY <2>1, <2>2, ListTurns DEF Parts
<1>8. ASSUME NEW u \in Users, GrowRegisters(u) PROVE Listing'
  <2>1. /\ pc[u] = "growing" /\ Turns(u, "adding") /\ UNCHANGED <<todo, added>>
        /\ \A v \in Users \ {u} : ckpt'[v] = ckpt[v]
        /\ ckpt'[u].addrs = ckpt[u].addrs /\ ckpt'[u].cap = ckpt[u].cap
    BY <1>8, GrowRegistersDoes DEF Becomes
  <2>2. Len(ckpt[u].addrs) <= ckpt'[u].cap
    BY <1>0, <2>1 DEF ListOf
  <2> QED BY <2>1, <2>2, ListTurns DEF Parts
<1>9. ASSUME NEW u \in Users, Commit(u) PROVE Listing'
  <2>1. pc[u] = "ready" /\ Turns(u, "wait") /\ UNCHANGED <<ckpt, todo, added>>
    BY <1>9, CommitDoes
  <2> QED BY <1>0, <2>1, ListTurns DEF ListOf, Parts
<1>10. ASSUME NEW u \in Users, CommitReturns(u) PROVE Listing'
  <2>1. pc[u] = "wait" /\ Turns(u, "ready") /\ UNCHANGED <<ckpt, todo, added>>
    BY <1>10, CommitReturnsDoes
  <2> QED BY <1>0, <2>1, ListTurns DEF ListOf, Parts
<1>11. ASSUME NEW u \in Users, DeleteArr(u) PROVE Listing'
  <2>1. /\ pc[u] \in {"ready", "delkill"} /\ Turns(u, "dellist") /\ UNCHANGED <<todo, added>>
        /\ \A v \in Users \ {u} : ckpt'[v] = ckpt[v]
        /\ ckpt'[u].addrs = ckpt[u].addrs /\ ckpt'[u].cap = ckpt[u].cap
    BY <1>11, DeleteArrDoes DEF Becomes
  <2> QED BY <1>0, <2>1, ListTurns DEF ListOf, Parts
<1>12. ASSUME NEW u \in Users, DeleteList(u) PROVE Listing'
  <2>1. /\ pc[u] = "dellist" /\ Turns(u, "delobj") /\ UNCHANGED <<todo, added>>
        /\ \A v \in Users \ {u} : ckpt'[v] = ckpt[v]
        /\ ckpt'[u].addrs = ckpt[u].addrs /\ ckpt'[u].cap = ckpt[u].cap
    BY <1>12, DeleteListDoes DEF Becomes
  <2> QED BY <1>0, <2>1, ListTurns DEF ListOf, Parts
<1>13. ASSUME NEW u \in Users, DeleteObj(u) PROVE Listing'
  <2>1. /\ pc[u] = "delobj" /\ Turns(u, IF killfd THEN "sweep" ELSE "idle") /\ todo' = todo
        /\ Becomes(u, Null, Null, Null, 0, <<>>) /\ added' = [added EXCEPT ![u] = {}]
    BY <1>13, DeleteObjDoes
  <2>2. /\ added'[u] = {} /\ \A v \in Users \ {u} : added'[v] = added[v]
    BY <2>1, TypeParts DEF Inv, UserTypes
  <2>3. todo[u] = NoTodo
    BY <1>0, <2>1 DEF ListOf
  <2>4. Covers(ToSet(<<>>) \cup {}, {}) /\ Len(<<>>) <= 0
    BY DEF Covers, TouchedBy, EmptyIn, ToSet
  <2>5. /\ ckpt'[u].addrs = <<>> /\ ckpt'[u].cap = 0 /\ todo'[u] = NoTodo
        /\ pc'[u] \notin {"adding", "growing"}
    BY <2>1, <2>3 DEF Becomes, Turns
  <2>6. ListOf(u)'
    BY <2>2, <2>4, <2>5, NoTodoIs DEF ListOf
  <2> QED BY <2>1, <2>2, <2>6, ListOthers DEF Becomes, Turns
<1>14. ASSUME NEW u \in Users, Shutdown(u) PROVE Listing'
  <2>1. pc[u] = "idle" /\ Turns(u, "obj") /\ UNCHANGED <<ckpt, todo, added>>
    BY <1>14, ShutdownDoes
  <2> QED BY <1>0, <2>1, ListTurns DEF ListOf
<1>15. ASSUME NEW u \in Users, SubmitKill(u) PROVE Listing'
  <2>1. pc[u] = "submit" /\ Turns(u, "joins") /\ UNCHANGED <<ckpt, todo, added>>
    BY <1>15, SubmitKillDoes
  <2> QED BY <1>0, <2>1, ListTurns DEF ListOf, Parts
<1>16. ASSUME NEW u \in Users, Joins(u) PROVE Listing'
  <2>1. pc[u] = "joins" /\ Turns(u, "delkill") /\ UNCHANGED <<ckpt, todo, added>>
    BY <1>16, JoinsDoes
  <2> QED BY <1>0, <2>1, ListTurns DEF ListOf, Parts
<1>17. ASSUME NEW u \in Users, Sweeps(u) PROVE Listing'
  <2>1. pc[u] = "sweep" /\ Turns(u, "sweep") /\ UNCHANGED <<ckpt, todo, added>>
    BY <1>17, SweepsDoes
  <2> QED BY <1>0, <2>1, ListTurns DEF ListOf, Parts
<1>18. ASSUME NEW u \in Users, Down(u) PROVE Listing'
  <2>1. pc[u] = "sweep" /\ Turns(u, "down") /\ UNCHANGED <<ckpt, todo, added>>
    BY <1>18, DownDoes
  <2> QED BY <1>0, <2>1, ListTurns DEF ListOf, Parts
<1>19. ASSUME CrPop PROVE Listing'
  BY <1>19, CrPopDoes, ListKept DEF uservars
<1>20. ASSUME CrNext PROVE Listing'
  BY <1>20, CrNextDoes, ListKept DEF uservars
<1>21. ASSUME CrPost PROVE Listing'
  BY <1>21, CrPostDoes, ListKept DEF uservars
<1>22. ASSUME NEW p \in Touched, LogGives(p) PROVE Listing'
  BY <1>22, LogGivesDoes, ListKept DEF uservars
<1>23. ASSUME LogRegisters PROVE Listing'
  BY <1>23, LogRegistersDoes, ListKept DEF uservars
<1>24. ASSUME UffdExits PROVE Listing'
  BY <1>24, UffdExitsDoes, ListKept DEF uservars
<1>25. ASSUME UNCHANGED vars PROVE Listing'
  BY <1>25, Stutters, ListKept DEF uservars
<1> QED
  BY <1>1, <1>2, <1>3, <1>4, <1>5, <1>6, <1>7, <1>8, <1>9, <1>10, <1>11, <1>12, <1>13, <1>14,
     <1>15, <1>16, <1>17, <1>18, <1>19, <1>20, <1>21, <1>22, <1>23, <1>24, <1>25
     DEF Next, Ended

(***************************************************************************)
(* What each thread has                                                    *)
(***************************************************************************)
LEMMA ShapesNow ==
  ASSUME Inv
  PROVE  /\ Shapes /\ entry \in [Pages -> Blocks \cup {Null}] /\ Null \notin Blocks
         /\ pc[Main] = "down" => workers = {} /\ logging = Null
BY FlowNow, NullApart, TypeParts DEF Inv, WorkTypes, Flow, KillOnly, Stopped

LEMMA ShapesTurns ==
  ASSUME Inv, NEW u \in Users, NEW to, Turns(u, to), to # "down", Shape(u)',
         UNCHANGED <<entry, logging, logblock>>,
         \A v \in Users \ {u} : ckpt'[v] = ckpt[v] /\ flight'[v] = flight[v]
  PROVE  Shapes'
<1>1. ASSUME NEW v \in Users \ {u} PROVE Shape(v)'
  <2>1. Shape(v)
    BY ShapesNow DEF Shapes
  <2>2. ckpt'[v] = ckpt[v] /\ flight'[v] = flight[v] /\ pc'[v] = pc[v]
    BY DEF Turns
  <2> QED BY <2>1, <2>2 DEF Shape
<1>2. pc'[Main] = "down" => pc[Main] = "down"
  BY NullApart DEF Turns
<1> QED BY <1>1, <1>2, ShapesNow DEF Shapes

LEMMA ShapesKept ==
  ASSUME Inv, UNCHANGED uservars, (logging = Null <=> logblock = Null)',
         (logging # Null => entry[logging] = Null)',
         pc[Main] = "down" => \A p \in Pages : entry'[p] = Null
  PROVE  Shapes'
BY ShapesNow DEF Shapes, Shape, uservars

LEMMA ShapesStep ==
  ASSUME Inv, [Next]_vars
  PROVE  Shapes'
<1>0. Shapes /\ Null \notin Blocks
  BY ShapesNow
<1>s. \A v \in Users : Shape(v)
  BY <1>0 DEF Shapes
<1>1. ASSUME NEW u \in Users, NewBegins(u) PROVE Shapes'
  <2>1. /\ pc[u] = "idle" /\ Turns(u, "obj") /\ UNCHANGED <<ckpt, flight, faultvars>>
    BY <1>1, NewBeginsDoes DEF workvars
  <2>2. Shape(u)'
    BY <1>s, <2>1 DEF Shape, Turns, Parts
  <2> QED BY <2>1, <2>2, ShapesTurns DEF faultvars
<1>2. ASSUME NEW u \in Users, NewGives(u) PROVE Shapes'
  <2>1. /\ Takes(u, FirstFree) /\ pc[u] \in Parts /\ FirstFree \in Blocks
        /\ UNCHANGED <<pc, ckpt, faultvars>>
    BY <1>2, NewGivesDoes DEF workvars
  <2>2. ASSUME NEW v \in Users PROVE Shape(v)'
    <3>1. CASE v = u
      BY <1>0, <1>s, <2>1, <3>1 DEF Shape, Takes
    <3>2. CASE v # u
      BY <1>s, <2>1, <3>2 DEF Shape, Takes
    <3> QED BY <3>1, <3>2
  <2> QED BY <1>0, <2>1, <2>2 DEF Shapes, faultvars
<1>3. ASSUME NEW u \in Users, NewRegisters(u) PROVE Shapes'
  <2> DEFINE c == ckpt[u]
             b == flight[u]
             to == IF killfd THEN "submit" ELSE "ready"
  <2>1. /\ b \in Blocks /\ Takes(u, Null) /\ UNCHANGED faultvars
        /\ \/ pc[u] = "obj" /\ Turns(u, "list") /\ Becomes(u, b, c.list, c.arr, c.cap, c.addrs)
           \/ pc[u] = "list" /\ Turns(u, "arr") /\ Becomes(u, c.obj, b, c.arr, c.cap, c.addrs)
           \/ pc[u] = "arr" /\ Turns(u, to) /\ Becomes(u, c.obj, c.list, b, 2 ^ Power, c.addrs)
    BY <1>3, NewRegistersDoes DEF workvars
  <2>2. Shape(u)
    BY <1>s
  <2>3. to \in {"submit", "ready"}
    OBVIOUS
  <2>4. /\ \A v \in Users \ {u} : ckpt'[v] = ckpt[v] /\ flight'[v] = flight[v]
        /\ UNCHANGED <<entry, logging, logblock>> /\ flight'[u] = Null
    BY <2>1 DEF Becomes, Takes, faultvars
  <2> HIDE DEF to, b
  <2>5. CASE pc[u] = "obj"
    <3>1. Turns(u, "list") /\ Becomes(u, b, c.list, c.arr, c.cap, c.addrs)
      BY <2>1, <2>5
    <3>2. Shape(u)'
      BY <1>0, <2>1, <2>2, <2>4, <2>5, <3>1 DEF Shape, Becomes, Turns, Parts
    <3> QED BY <2>4, <3>1, <3>2, ShapesTurns
  <2>6. CASE pc[u] = "list"
    <3>1. Turns(u, "arr") /\ Becomes(u, c.obj, b, c.arr, c.cap, c.addrs)
      BY <2>1, <2>6
    <3>2. Shape(u)'
      BY <1>0, <2>1, <2>2, <2>4, <2>6, <3>1 DEF Shape, Becomes, Turns, Parts
    <3> QED BY <2>4, <3>1, <3>2, ShapesTurns
  <2>7. CASE pc[u] = "arr"
    <3>1. Turns(u, to) /\ Becomes(u, c.obj, c.list, b, 2 ^ Power, c.addrs)
      BY <2>1, <2>7
    <3>2. Shape(u)'
      BY <1>0, <2>1, <2>2, <2>3, <2>4, <2>7, <3>1 DEF Shape, Becomes, Turns, Parts
    <3> QED BY <2>3, <2>4, <3>1, <3>2, ShapesTurns
  <2> QED BY <2>1, <2>5, <2>6, <2>7
<1>4. ASSUME NEW u \in Users, NEW r \in Regions, AddBegins(u, r) PROVE Shapes'
  <2>1. /\ pc[u] = "ready" /\ Turns(u, "adding") /\ UNCHANGED <<ckpt, flight, faultvars>>
    BY <1>4, AddBeginsDoes DEF workvars
  <2>2. Shape(u)'
    BY <1>s, <2>1 DEF Shape, Turns, Parts
  <2> QED BY <2>1, <2>2, ShapesTurns DEF faultvars
<1>5. ASSUME NEW u \in Users, AddPage(u) PROVE Shapes'
  <2>1. /\ pc[u] = "adding" /\ Turns(u, "adding") /\ UNCHANGED <<flight, faultvars>>
        /\ ckpt'[u].obj = ckpt[u].obj /\ ckpt'[u].list = ckpt[u].list /\ ckpt'[u].arr = ckpt[u].arr
        /\ \A v \in Users \ {u} : ckpt'[v] = ckpt[v]
    BY <1>5, AddPageDoes DEF workvars, Becomes
  <2>2. Shape(u)'
    BY <1>s, <2>1 DEF Shape, Turns, Parts
  <2> QED BY <2>1, <2>2, ShapesTurns DEF faultvars
<1>6. ASSUME NEW u \in Users, AddEnds(u) PROVE Shapes'
  <2>1. /\ pc[u] = "adding" /\ Turns(u, "ready") /\ UNCHANGED <<ckpt, flight, faultvars>>
    BY <1>6, AddEndsDoes DEF workvars
  <2>2. Shape(u)'
    BY <1>s, <2>1 DEF Shape, Turns, Parts
  <2> QED BY <2>1, <2>2, ShapesTurns DEF faultvars
<1>7. ASSUME NEW u \in Users, NEW b \in Blocks, GrowMoves(u, b) PROVE Shapes'
  <2>1. /\ pc[u] = "adding" /\ Turns(u, "growing") /\ Takes(u, b) /\ UNCHANGED faultvars
        /\ ckpt'[u].obj = ckpt[u].obj /\ ckpt'[u].list = ckpt[u].list /\ ckpt'[u].arr = ckpt[u].arr
        /\ \A v \in Users \ {u} : ckpt'[v] = ckpt[v]
    BY <1>7, GrowMovesDoes DEF workvars, Becomes
  <2>2. Shape(u)'
    BY <1>0, <1>s, <2>1 DEF Shape, Turns, Parts, Takes
  <2> QED BY <2>1, <2>2, ShapesTurns DEF faultvars, Takes
<1>8. ASSUME NEW u \in Users, GrowRegisters(u) PROVE Shapes'
  <2>1. /\ pc[u] = "growing" /\ Turns(u, "adding") /\ Takes(u, Null) /\ UNCHANGED faultvars
        /\ ckpt'[u].obj = ckpt[u].obj /\ ckpt'[u].list = ckpt[u].list /\ ckpt'[u].arr \in Blocks
        /\ \A v \in Users \ {u} : ckpt'[v] = ckpt[v]
    BY <1>8, GrowRegistersDoes DEF workvars, Becomes
  <2>2. Shape(u)'
    BY <1>0, <1>s, <2>1 DEF Shape, Turns, Parts, Takes
  <2> QED BY <2>1, <2>2, ShapesTurns DEF faultvars, Takes
<1>9. ASSUME NEW u \in Users, Commit(u) PROVE Shapes'
  <2>1. /\ pc[u] = "ready" /\ Turns(u, "wait") /\ UNCHANGED <<ckpt, flight, faultvars>>
    BY <1>9, CommitDoes
  <2>2. Shape(u)'
    BY <1>s, <2>1 DEF Shape, Turns, Parts
  <2> QED BY <2>1, <2>2, ShapesTurns DEF faultvars
<1>10. ASSUME NEW u \in Users, CommitReturns(u) PROVE Shapes'
  <2>1. /\ pc[u] = "wait" /\ Turns(u, "ready") /\ UNCHANGED <<ckpt, flight, faultvars>>
    BY <1>10, CommitReturnsDoes
  <2>2. Shape(u)'
    BY <1>s, <2>1 DEF Shape, Turns, Parts
  <2> QED BY <2>1, <2>2, ShapesTurns DEF faultvars
<1>11. ASSUME NEW u \in Users, DeleteArr(u) PROVE Shapes'
  <2>1. /\ pc[u] \in {"ready", "delkill"} /\ Turns(u, "dellist") /\ UNCHANGED <<flight, faultvars>>
        /\ ckpt'[u].obj = ckpt[u].obj /\ ckpt'[u].list = ckpt[u].list /\ ckpt'[u].arr = Null
        /\ \A v \in Users \ {u} : ckpt'[v] = ckpt[v]
    BY <1>11, DeleteArrDoes DEF workvars, Becomes
  <2>2. Shape(u)'
    BY <1>s, <2>1 DEF Shape, Turns, Parts
  <2> QED BY <2>1, <2>2, ShapesTurns DEF faultvars
<1>12. ASSUME NEW u \in Users, DeleteList(u) PROVE Shapes'
  <2>1. /\ pc[u] = "dellist" /\ Turns(u, "delobj") /\ UNCHANGED <<flight, faultvars>>
        /\ ckpt'[u].obj = ckpt[u].obj /\ ckpt'[u].list = Null /\ ckpt'[u].arr = ckpt[u].arr
        /\ \A v \in Users \ {u} : ckpt'[v] = ckpt[v]
    BY <1>12, DeleteListDoes DEF workvars, Becomes
  <2>2. Shape(u)'
    BY <1>s, <2>1 DEF Shape, Turns, Parts
  <2> QED BY <2>1, <2>2, ShapesTurns DEF faultvars
<1>13. ASSUME NEW u \in Users, DeleteObj(u) PROVE Shapes'
  <2>1. /\ pc[u] = "delobj" /\ Turns(u, IF killfd THEN "sweep" ELSE "idle")
        /\ UNCHANGED <<flight, faultvars>>
        /\ ckpt'[u].obj = Null /\ ckpt'[u].list = Null /\ ckpt'[u].arr = Null
        /\ \A v \in Users \ {u} : ckpt'[v] = ckpt[v]
    BY <1>13, DeleteObjDoes DEF workvars, Becomes
  <2>2. PICK to \in {"sweep", "idle"} : Turns(u, to)
    BY <2>1
  <2>3. Shape(u)'
    BY <1>s, <2>1, <2>2 DEF Shape, Turns, Parts
  <2> QED BY <2>1, <2>2, <2>3, ShapesTurns DEF faultvars
<1>14. ASSUME NEW u \in Users, Shutdown(u) PROVE Shapes'
  <2>1. /\ pc[u] = "idle" /\ Turns(u, "obj") /\ UNCHANGED <<ckpt, flight, faultvars>>
    BY <1>14, ShutdownDoes
  <2>2. Shape(u)'
    BY <1>s, <2>1 DEF Shape, Turns, Parts
  <2> QED BY <2>1, <2>2, ShapesTurns DEF faultvars
<1>15. ASSUME NEW u \in Users, SubmitKill(u) PROVE Shapes'
  <2>1. /\ pc[u] = "submit" /\ Turns(u, "joins") /\ UNCHANGED <<ckpt, flight, faultvars>>
    BY <1>15, SubmitKillDoes
  <2>2. Shape(u)'
    BY <1>s, <2>1 DEF Shape, Turns, Parts
  <2> QED BY <2>1, <2>2, ShapesTurns DEF faultvars
<1>16. ASSUME NEW u \in Users, Joins(u) PROVE Shapes'
  <2>1. /\ pc[u] = "joins" /\ Turns(u, "delkill") /\ UNCHANGED <<ckpt, flight, faultvars>>
    BY <1>16, JoinsDoes DEF workvars
  <2>2. Shape(u)'
    BY <1>s, <2>1 DEF Shape, Turns, Parts
  <2> QED BY <2>1, <2>2, ShapesTurns DEF faultvars
<1>17. ASSUME NEW u \in Users, Sweeps(u) PROVE Shapes'
  <2>1. /\ pc[u] = "sweep" /\ Turns(u, "sweep") /\ UNCHANGED <<ckpt, flight, logging, logblock>>
    BY <1>17, SweepsDoes
  <2>2. u = Main
    BY <2>1, FlowNow DEF Flow, KillOnly
  <2>3. pc' = pc
    BY <2>1, FlowNow DEF Turns
  <2>4. logging = Null
    BY <2>1, <2>2, FlowNow DEF Flow, KillOnly, Stopped
  <2> QED BY <1>0, <1>s, <2>1, <2>2, <2>3, <2>4 DEF Shapes, Shape
<1>18. ASSUME NEW u \in Users, Down(u) PROVE Shapes'
  <2>1. /\ pc[u] = "sweep" /\ Turns(u, "down") /\ UNCHANGED <<ckpt, flight, faultvars>>
        /\ \A p \in Pages : entry[p] = Null
    BY <1>18, DownDoes DEF workvars
  <2>2. ASSUME NEW v \in Users PROVE Shape(v)'
    <3>1. CASE v = u
      BY <1>s, <2>1, <3>1 DEF Shape, Turns, Parts
    <3>2. CASE v # u
      BY <1>s, <2>1, <3>2 DEF Shape, Turns
    <3> QED BY <3>1, <3>2
  <2> QED BY <1>0, <2>1, <2>2 DEF Shapes, faultvars
<1>19. ASSUME CrPop PROVE Shapes'
  BY <1>0, <1>19, CrPopDoes, ShapesKept DEF faultvars, Shapes
<1>20. ASSUME CrNext PROVE Shapes'
  <2>1. UNCHANGED <<uservars, logging, logblock>>
        /\ (entry' = entry \/ \E p \in Pages : Logs(p, Null))
    BY <1>20, CrNextDoes
  <2>2. \A p \in Pages : entry'[p] = entry[p] \/ entry'[p] = Null
    BY <2>1 DEF Logs
  <2>3. logging # Null => logging \in Pages /\ entry'[logging] = Null
    BY <1>0, <2>2, TypeParts DEF Shapes, Inv, WorkTypes
  <2> QED BY <1>0, <2>1, <2>2, <2>3, ShapesKept DEF Shapes
<1>21. ASSUME CrPost PROVE Shapes'
  BY <1>0, <1>21, CrPostDoes, ShapesKept DEF faultvars, Shapes
<1>22. ASSUME NEW p \in Touched, LogGives(p) PROVE Shapes'
  <2>1. /\ p \in Pages /\ FirstFree \in Blocks /\ logging' = p /\ logblock' = FirstFree
        /\ entry[p] = Null /\ UNCHANGED <<uservars, entry>>
    BY <1>22, LogGivesDoes
  <2>2. logging' # Null /\ logblock' # Null
    BY <2>1, NullApart
  <2> QED BY <1>0, <2>1, <2>2, ShapesKept DEF Shapes
<1>23. ASSUME LogRegisters PROVE Shapes'
  <2>1. logging \in Pages /\ logging' = Null /\ logblock' = Null /\ UNCHANGED uservars
    BY <1>23, LogRegistersDoes
  <2>2. pc[Main] # "down"
    BY <2>1, ShapesNow, NullApart
  <2> QED BY <2>1, <2>2, ShapesKept
<1>24. ASSUME UffdExits PROVE Shapes'
  BY <1>0, <1>24, UffdExitsDoes, ShapesKept DEF faultvars, Shapes
<1>25. ASSUME UNCHANGED vars PROVE Shapes'
  BY <1>0, <1>25, Stutters, ShapesKept DEF workvars, faultvars, Shapes
<1> QED
  BY <1>1, <1>2, <1>3, <1>4, <1>5, <1>6, <1>7, <1>8, <1>9, <1>10, <1>11, <1>12, <1>13, <1>14,
     <1>15, <1>16, <1>17, <1>18, <1>19, <1>20, <1>21, <1>22, <1>23, <1>24, <1>25
     DEF Next, Ended

(***************************************************************************)
(* Whose each block is                                                     *)
(***************************************************************************)
LEMMA OwnerKinds ==
  ASSUME NEW o \in Owners
  PROVE  \/ \E u \in Users : o \in {<<u, "obj">>, <<u, "list">>, <<u, "arr">>, <<u, "flight">>}
         \/ \E p \in Pages : o = <<p, "entry">>
         \/ o = <<Main, "tmppage">> \/ o = <<Main, "log">>
BY DEF Owners, Holders, Parts

LEMMA OwnerNames ==
  /\ \A u \in Users : /\ <<u, "obj">> \in Holders /\ <<u, "list">> \in Holders
                      /\ <<u, "arr">> \in Holders /\ <<u, "flight">> \in Owners
                      /\ <<u, "flight">> \notin Holders
  /\ \A p \in Pages : <<p, "entry">> \in Holders
  /\ <<Main, "tmppage">> \in Holders /\ <<Main, "log">> \in Owners
  /\ <<Main, "log">> \notin Holders /\ Holders \subseteq Owners
BY DEF Owners, Holders, Parts

ClaimsAre ==
  /\ \A u \in Users : /\ claim[<<u, "obj">>] = ckpt[u].obj /\ claim[<<u, "list">>] = ckpt[u].list
                      /\ claim[<<u, "arr">>] = IF pc[u] = "growing" THEN Null ELSE ckpt[u].arr
                      /\ claim[<<u, "flight">>] = flight[u]
  /\ \A p \in Pages : claim[<<p, "entry">>] = entry[p]
  /\ claim[<<Main, "tmppage">>] = IF pc[Main] = "down" THEN Null ELSE TmpPage
  /\ claim[<<Main, "log">>] = logblock

LEMMA ClaimsNow == ClaimsAre
<1>1. ASSUME NEW o \in Owners PROVE claim[o] = Claim(o)
  BY DEF claim
<1>2. ASSUME NEW u \in Users
      PROVE  /\ claim[<<u, "obj">>] = ckpt[u].obj /\ claim[<<u, "list">>] = ckpt[u].list
             /\ claim[<<u, "arr">>] = IF pc[u] = "growing" THEN Null ELSE ckpt[u].arr
             /\ claim[<<u, "flight">>] = flight[u]
  BY <1>1, OwnerNames DEF Claim, Parts
<1>3. ASSUME NEW p \in Pages PROVE claim[<<p, "entry">>] = entry[p]
  BY <1>1, OwnerNames DEF Claim, Parts
<1>4. /\ claim[<<Main, "tmppage">>] = IF pc[Main] = "down" THEN Null ELSE TmpPage
      /\ claim[<<Main, "log">>] = logblock
  BY <1>1, OwnerNames DEF Claim, Parts
<1> QED BY <1>2, <1>3, <1>4 DEF ClaimsAre

LEMMA ClaimsNext == ClaimsAre'
<1>1. ASSUME NEW o \in Owners PROVE claim'[o] = Claim(o)'
  BY DEF claim
<1>2. ASSUME NEW u \in Users
      PROVE  /\ claim'[<<u, "obj">>] = ckpt'[u].obj /\ claim'[<<u, "list">>] = ckpt'[u].list
             /\ claim'[<<u, "arr">>] = IF pc'[u] = "growing" THEN Null ELSE ckpt'[u].arr
             /\ claim'[<<u, "flight">>] = flight'[u]
  BY <1>1, OwnerNames DEF Claim, Parts
<1>3. ASSUME NEW p \in Pages PROVE claim'[<<p, "entry">>] = entry'[p]
  BY <1>1, OwnerNames DEF Claim, Parts
<1>4. /\ claim'[<<Main, "tmppage">>] = IF pc'[Main] = "down" THEN Null ELSE TmpPage
      /\ claim'[<<Main, "log">>] = logblock'
  BY <1>1, OwnerNames DEF Claim, Parts
<1> QED BY <1>2, <1>3, <1>4 DEF ClaimsAre

(* All owners but those of T have what they had.                           *)
SameBut(T) == \A o \in Owners \ T : claim'[o] = claim[o]

UserOwners(u) == {<<u, "obj">>, <<u, "list">>, <<u, "arr">>, <<u, "flight">>}

LEMMA UserHas ==
  ASSUME NEW u \in Users
  PROVE  /\ claim[<<u, "obj">>] = ckpt[u].obj /\ claim'[<<u, "obj">>] = ckpt'[u].obj
         /\ claim[<<u, "list">>] = ckpt[u].list /\ claim'[<<u, "list">>] = ckpt'[u].list
         /\ pc[u] # "growing" => claim[<<u, "arr">>] = ckpt[u].arr
         /\ pc'[u] # "growing" => claim'[<<u, "arr">>] = ckpt'[u].arr
         /\ pc[u] = "growing" => claim[<<u, "arr">>] = Null
         /\ pc'[u] = "growing" => claim'[<<u, "arr">>] = Null
         /\ claim[<<u, "flight">>] = flight[u] /\ claim'[<<u, "flight">>] = flight'[u]
<1>1. /\ claim[<<u, "obj">>] = ckpt[u].obj /\ claim[<<u, "list">>] = ckpt[u].list
      /\ claim[<<u, "arr">>] = IF pc[u] = "growing" THEN Null ELSE ckpt[u].arr
      /\ claim[<<u, "flight">>] = flight[u]
  BY ClaimsNow DEF ClaimsAre
<1>2. /\ claim'[<<u, "obj">>] = ckpt'[u].obj /\ claim'[<<u, "list">>] = ckpt'[u].list
      /\ claim'[<<u, "arr">>] = IF pc'[u] = "growing" THEN Null ELSE ckpt'[u].arr
      /\ claim'[<<u, "flight">>] = flight'[u]
  BY ClaimsNext DEF ClaimsAre
<1> QED BY <1>1, <1>2

LEMMA UserClaims ==
  ASSUME NEW u \in Users, UNCHANGED <<entry, logblock>>,
         \A v \in Users \ {u} : ckpt'[v] = ckpt[v] /\ flight'[v] = flight[v] /\ pc'[v] = pc[v],
         pc'[Main] = "down" <=> pc[Main] = "down"
  PROVE  SameBut(UserOwners(u))
<1> SUFFICES ASSUME NEW o \in Owners \ UserOwners(u) PROVE claim'[o] = claim[o]
  BY DEF SameBut
<1>n. ClaimsAre /\ ClaimsAre'
  BY ClaimsNow, ClaimsNext
<1>1. ASSUME NEW v \in Users, o \in {<<v, "obj">>, <<v, "list">>, <<v, "arr">>, <<v, "flight">>}
      PROVE  claim'[o] = claim[o]
  <2>1. v # u
    BY <1>1 DEF UserOwners
  <2>2. ckpt'[v] = ckpt[v] /\ flight'[v] = flight[v] /\ pc'[v] = pc[v]
    BY <2>1
  <2>p. /\ ckpt'[v].obj = ckpt[v].obj /\ ckpt'[v].list = ckpt[v].list
        /\ ckpt'[v].arr = ckpt[v].arr
    BY <2>2
  <2>3. ASSUME o = <<v, "obj">> PROVE claim'[o] = claim[o]
    <3>1. claim'[<<v, "obj">>] = claim[<<v, "obj">>]
      BY <1>n, <2>2, <2>p DEF ClaimsAre
    <3> QED BY <2>3, <3>1
  <2>4. ASSUME o = <<v, "list">> PROVE claim'[o] = claim[o]
    <3>1. claim'[<<v, "list">>] = claim[<<v, "list">>]
      BY <1>n, <2>2, <2>p DEF ClaimsAre
    <3> QED BY <2>4, <3>1
  <2>5. ASSUME o = <<v, "arr">> PROVE claim'[o] = claim[o]
    <3>1. claim'[<<v, "arr">>] = claim[<<v, "arr">>]
      BY <2>2, <2>p, UserHas
    <3> QED BY <2>5, <3>1
  <2>6. ASSUME o = <<v, "flight">> PROVE claim'[o] = claim[o]
    BY <1>n, <2>2, <2>6 DEF ClaimsAre
  <2> QED BY <1>1, <2>3, <2>4, <2>5, <2>6
<1>2. ASSUME NEW p \in Pages, o = <<p, "entry">> PROVE claim'[o] = claim[o]
  BY <1>n, <1>2 DEF ClaimsAre
<1>3. ASSUME o = <<Main, "tmppage">> PROVE claim'[o] = claim[o]
  BY <1>n, <1>3 DEF ClaimsAre
<1>4. ASSUME o = <<Main, "log">> PROVE claim'[o] = claim[o]
  BY <1>n, <1>4 DEF ClaimsAre
<1> QED BY <1>1, <1>2, <1>3, <1>4, OwnerKinds

LEMMA WorkerClaims ==
  ASSUME UNCHANGED <<pc, ckpt, flight>>,
         NEW T, \A p \in Pages : <<p, "entry">> \in T \/ entry'[p] = entry[p],
         <<Main, "log">> \in T \/ logblock' = logblock
  PROVE  SameBut(T)
<1> SUFFICES ASSUME NEW o \in Owners \ T PROVE claim'[o] = claim[o]
  BY DEF SameBut
<1>n. ClaimsAre /\ ClaimsAre'
  BY ClaimsNow, ClaimsNext
<1>1. ASSUME NEW v \in Users, o \in {<<v, "obj">>, <<v, "list">>, <<v, "arr">>, <<v, "flight">>}
      PROVE  claim'[o] = claim[o]
  <2>3. ASSUME o = <<v, "obj">> PROVE claim'[o] = claim[o]
    BY <1>n, <2>3 DEF ClaimsAre
  <2>4. ASSUME o = <<v, "list">> PROVE claim'[o] = claim[o]
    BY <1>n, <2>4 DEF ClaimsAre
  <2>5. ASSUME o = <<v, "arr">> PROVE claim'[o] = claim[o]
    <3>1. claim'[<<v, "arr">>] = claim[<<v, "arr">>]
      BY UserHas
    <3> QED BY <2>5, <3>1
  <2>6. ASSUME o = <<v, "flight">> PROVE claim'[o] = claim[o]
    BY <1>n, <2>6 DEF ClaimsAre
  <2> QED BY <1>1, <2>3, <2>4, <2>5, <2>6
<1>2. ASSUME NEW p \in Pages, o = <<p, "entry">> PROVE claim'[o] = claim[o]
  <2>1. entry'[p] = entry[p]
    BY <1>2
  <2> QED BY <1>n, <1>2, <2>1 DEF ClaimsAre
<1>3. ASSUME o = <<Main, "tmppage">> PROVE claim'[o] = claim[o]
  BY <1>n, <1>3 DEF ClaimsAre
<1>4. ASSUME o = <<Main, "log">> PROVE claim'[o] = claim[o]
  BY <1>n, <1>4 DEF ClaimsAre
<1> QED BY <1>1, <1>2, <1>3, <1>4, OwnerKinds

(* A block goes from x to y, or is given to y, or x gives it back.         *)
LEMMA Passes ==
  ASSUME NEW c, NEW d, NEW g, NEW h, Exclusive(c, g), NEW x \in Owners, NEW y \in Owners, NEW b,
         \A o \in Owners \ {x, y} : d[o] = c[o], x # y => d[x] = Null, d[y] = b,
         b = Null \/ b = c[x] \/ b \notin g, g \ {c[x]} \subseteq h, b # Null => b \in h
  PROVE  Exclusive(d, h)
<1>1. /\ \A o \in Owners : c[o] # Null => c[o] \in g
      /\ \A o, p \in Owners : c[o] = c[p] /\ c[o] # Null => o = p
  BY DEF Exclusive
<1>2. ASSUME NEW o \in Owners \ {x, y}, d[o] # Null PROVE d[o] \in h /\ d[o] # b
  <2>1. d[o] = c[o] /\ c[o] \in g /\ c[o] # c[x]
    BY <1>1, <1>2
  <2>2. d[o] \in g \ {c[x]}
    BY <2>1
  <2>3. d[o] \in h
    BY <2>2
  <2>4. d[o] # b
    BY <1>2, <2>1
  <2> QED BY <2>3, <2>4
<1>3. ASSUME NEW o \in Owners, d[o] # Null PROVE d[o] \in h
  BY <1>2, <1>3
<1>4. ASSUME NEW o \in Owners, NEW p \in Owners, d[o] = d[p], d[o] # Null PROVE o = p
  <2>1. CASE o \in Owners \ {x, y} /\ p \in Owners \ {x, y}
    BY <1>1, <1>4, <2>1
  <2>2. CASE o \in {x, y} \/ p \in {x, y}
    BY <1>2, <1>4, <2>2
  <2> QED BY <2>1, <2>2
<1> QED BY <1>3, <1>4 DEF Exclusive

LEMMA HeldNow ==
  ASSUME NEW b
  PROVE  b \in Held <=> b # Null /\ \E o \in Holders : claim[o] = b
<1>n. ClaimsAre
  BY ClaimsNow
<1>1. ASSUME b # Null, NEW o \in Holders, claim[o] = b PROVE b \in Held
  <2> DEFINE h == <<o[1], o[2], b>>
  <2>1. h \in Holdings
    <3>1. ASSUME NEW u \in Users, NEW f \in Parts, o = <<u, f>> PROVE h \in Holdings
      <4>1. claim[<<u, f>>] = b /\ h = <<u, f, b>>
        BY <1>1, <3>1
      <4>2. b = ckpt[u][f] /\ ~(f = "arr" /\ pc[u] = "growing")
        BY <1>n, <1>1, <4>1 DEF ClaimsAre, Parts
      <4>3. h \in Holds
        BY <4>1, <4>2 DEF Holds
      <4>4. h[1] = u /\ h[2] = f /\ h[3] = b
        BY <4>1
      <4> HIDE DEF h
      <4> QED BY <1>1, <4>2, <4>3, <4>4 DEF Holdings
    <3>2. ASSUME NEW p \in Pages, o = <<p, "entry">> PROVE h \in Holdings
      BY <1>n, <1>1, <3>2 DEF ClaimsAre, Holdings, Holds
    <3>3. ASSUME o = <<Main, "tmppage">> PROVE h \in Holdings
      BY <1>n, <1>1, <3>3 DEF ClaimsAre, Holdings, Holds
    <3> QED BY <3>1, <3>2, <3>3 DEF Holders
  <2>2. h[3] = b
    OBVIOUS
  <2> HIDE DEF h
  <2> QED BY <2>1, <2>2 DEF Held
<1>2. ASSUME b \in Held PROVE b # Null /\ \E o \in Holders : claim[o] = b
  <2>1. PICK h \in Holdings : h[3] = b
    BY <1>2 DEF Held
  <2>2. h \in Holds /\ h[3] # Null /\ ~(h[2] = "arr" /\ pc[h[1]] = "growing")
    BY <2>1 DEF Holdings
  <2>3. ASSUME NEW u \in Users, NEW f \in Parts, h = <<u, f, ckpt[u][f]>>
        PROVE  \E o \in Holders : claim[o] = b
    <3>1. <<u, f>> \in Holders
      BY DEF Holders
    <3>2. h[1] = u /\ h[2] = f /\ h[3] = ckpt[u][f]
      BY <2>3
    <3>3. claim[<<u, f>>] = ckpt[u][f]
      BY <1>n, <2>2, <3>2 DEF ClaimsAre, Parts
    <3> QED BY <2>1, <3>1, <3>2, <3>3
  <2>4. ASSUME NEW p \in Pages, h = <<p, "entry", entry[p]>>
        PROVE  \E o \in Holders : claim[o] = b
    BY <1>n, <2>1, <2>4, OwnerNames DEF ClaimsAre
  <2>5. ASSUME h = <<Main, "tmppage", IF pc[Main] = "down" THEN Null ELSE TmpPage>>
        PROVE  \E o \in Holders : claim[o] = b
    BY <1>n, <2>1, <2>5, OwnerNames DEF ClaimsAre
  <2> QED BY <2>1, <2>2, <2>3, <2>4, <2>5 DEF Holds
<1> QED BY <1>1, <1>2

LEMMA HeldNext ==
  ASSUME NEW b
  PROVE  b \in Held' <=> b # Null /\ \E o \in Holders : claim'[o] = b
<1>n. ClaimsAre'
  BY ClaimsNext
<1>1. ASSUME b # Null, NEW o \in Holders, claim'[o] = b PROVE b \in Held'
  <2> DEFINE h == <<o[1], o[2], b>>
  <2>1. h \in Holdings'
    <3>1. ASSUME NEW u \in Users, NEW f \in Parts, o = <<u, f>> PROVE h \in Holdings'
      <4>1. claim'[<<u, f>>] = b /\ h = <<u, f, b>>
        BY <1>1, <3>1
      <4>2. b = ckpt'[u][f] /\ ~(f = "arr" /\ pc'[u] = "growing")
        BY <1>n, <1>1, <4>1 DEF ClaimsAre, Parts
      <4>3. h \in Holds'
        BY <4>1, <4>2 DEF Holds
      <4>4. h[1] = u /\ h[2] = f /\ h[3] = b
        BY <4>1
      <4> HIDE DEF h
      <4> QED BY <1>1, <4>2, <4>3, <4>4 DEF Holdings
    <3>2. ASSUME NEW p \in Pages, o = <<p, "entry">> PROVE h \in Holdings'
      BY <1>n, <1>1, <3>2 DEF ClaimsAre, Holdings, Holds
    <3>3. ASSUME o = <<Main, "tmppage">> PROVE h \in Holdings'
      BY <1>n, <1>1, <3>3 DEF ClaimsAre, Holdings, Holds
    <3> QED BY <3>1, <3>2, <3>3 DEF Holders
  <2>2. h[3] = b
    OBVIOUS
  <2> HIDE DEF h
  <2> QED BY <2>1, <2>2 DEF Held
<1>2. ASSUME b \in Held' PROVE b # Null /\ \E o \in Holders : claim'[o] = b
  <2>1. PICK h \in Holdings' : h[3] = b
    BY <1>2 DEF Held
  <2>2. h \in Holds' /\ h[3] # Null /\ ~(h[2] = "arr" /\ pc'[h[1]] = "growing")
    BY <2>1 DEF Holdings
  <2>3. ASSUME NEW u \in Users, NEW f \in Parts, h = <<u, f, ckpt'[u][f]>>
        PROVE  \E o \in Holders : claim'[o] = b
    <3>1. <<u, f>> \in Holders
      BY DEF Holders
    <3>2. h[1] = u /\ h[2] = f /\ h[3] = ckpt'[u][f]
      BY <2>3
    <3>3. claim'[<<u, f>>] = ckpt'[u][f]
      BY <1>n, <2>2, <3>2 DEF ClaimsAre, Parts
    <3> QED BY <2>1, <3>1, <3>2, <3>3
  <2>4. ASSUME NEW p \in Pages, h = <<p, "entry", entry'[p]>>
        PROVE  \E o \in Holders : claim'[o] = b
    BY <1>n, <2>1, <2>4, OwnerNames DEF ClaimsAre
  <2>5. ASSUME h = <<Main, "tmppage", IF pc'[Main] = "down" THEN Null ELSE TmpPage>>
        PROVE  \E o \in Holders : claim'[o] = b
    BY <1>n, <2>1, <2>5, OwnerNames DEF ClaimsAre
  <2> QED BY <2>1, <2>2, <2>3, <2>4, <2>5 DEF Holds
<1> QED BY <1>1, <1>2

(* What is held when no place, or one, changes.                            *)
LEMMA HeldSame ==
  ASSUME NEW T, SameBut(T), \A o \in Holders : o \notin T \/ claim'[o] = claim[o]
  PROVE  Held' = Held
<1>1. \A o \in Holders : claim'[o] = claim[o]
  BY OwnerNames DEF SameBut
<1>2. \A b : b \in Held' <=> b \in Held
  BY <1>1, HeldNow, HeldNext
<1> QED BY <1>2

LEMMA HeldGains ==
  ASSUME NEW T, SameBut(T), NEW y \in Holders, NEW b, b # Null, claim[y] = Null, claim'[y] = b,
         \A o \in Holders \ {y} : o \notin T \/ claim'[o] = claim[o]
  PROVE  Held' = Held \cup {b}
<1>1. \A o \in Holders \ {y} : claim'[o] = claim[o]
  BY OwnerNames DEF SameBut
<1>2. \A x : x \in Held' <=> x \in Held \cup {b}
  BY <1>1, HeldNow, HeldNext
<1> QED BY <1>2

LEMMA HeldLoses ==
  ASSUME Inv, NEW T, SameBut(T), NEW y \in Holders, NEW b, b # Null, claim[y] = b, claim'[y] = Null,
         \A o \in Holders \ {y} : o \notin T \/ claim'[o] = claim[o]
  PROVE  Held' = Held \ {b} /\ b \in Held
<1>1. \A o \in Holders \ {y} : claim'[o] = claim[o]
  BY OwnerNames DEF SameBut
<1>2. \A o \in Holders \ {y} : claim[o] # b
  BY OwnerNames DEF Inv, Exclusive
<1>3. \A x : x \in Held' <=> x \in Held \ {b}
  BY <1>1, <1>2, HeldNow, HeldNext
<1>4. b \in Held
  BY HeldNow
<1> QED BY <1>3, <1>4

LEMMA ExactNow ==
  ASSUME Inv
  PROVE  /\ Exclusive(claim, given) /\ Held \subseteq InTable \cup struck
         /\ InTable \subseteq Held \cup Moving
         /\ aborted => struck # {}
         /\ pc[Main] = "down" => InTable = {}
BY DEF Inv, Exact

LEMMA ExactNext ==
  ASSUME NEW I, Holding(I), Held' \subseteq I \cup struck', I \subseteq Held' \cup Moving',
         aborted' => struck' # {}, pc'[Main] = "down" => I = {}
  PROVE  Exact'
BY DEF Holding, Exact

LEMMA MovingSame ==
  ASSUME NEW u \in Users, \A v \in Users \ {u} : ckpt'[v] = ckpt[v] /\ pc'[v] = pc[v],
         pc[u] # "growing", pc'[u] # "growing"
  PROVE  Moving' = Moving
<1>1. {v \in Users : pc'[v] = "growing"} = {v \in Users : pc[v] = "growing"}
  OBVIOUS
<1>2. \A v \in {w \in Users : pc[w] = "growing"} : ckpt'[v] = ckpt[v]
  OBVIOUS
<1> QED BY <1>1, <1>2 DEF Moving

LEMMA MovingKept ==
  ASSUME UNCHANGED <<pc, ckpt>>
  PROVE  Moving' = Moving
BY DEF Moving

Owned == Exclusive(claim, given) /\ Exact

(* Nothing changes hands.                                                  *)
LEMMA QuietSteps ==
  ASSUME Inv, NEW T, SameBut(T), \A o \in Owners : o \notin T \/ claim'[o] = claim[o],
         UNCHANGED memcheckvars, UNCHANGED struck, Moving' = Moving,
         pc'[Main] = "down" => pc[Main] = "down"
  PROVE  Owned'
<1>1. \A o \in Owners : claim'[o] = claim[o]
  BY DEF SameBut
<1>2. Held' = Held
  BY <1>1, OwnerNames, HeldSame
<1>3. Holding(InTable)
  BY TableLeft DEF memcheckvars
<1>4. Exclusive(claim', given')
  BY <1>1, ExactNow DEF Exclusive, memcheckvars
<1>5. Exact'
  <2>1. /\ Held' \subseteq InTable \cup struck' /\ InTable \subseteq Held' \cup Moving'
        /\ aborted' => struck' # {}
    BY <1>2, ExactNow DEF memcheckvars
  <2>2. pc'[Main] = "down" => InTable = {}
    BY ExactNow
  <2> QED BY <1>3, <2>1, <2>2, ExactNext
<1> QED BY <1>4, <1>5 DEF Owned

(* A thread goes on and keeps what it has.                                 *)
LEMMA QuietTurns ==
  ASSUME Inv, NEW u \in Users, NEW to, Turns(u, to), pc[u] \notin {"growing", "down"},
         to \notin {"growing", "down"}, UNCHANGED memcheckvars,
         UNCHANGED <<flight, entry, logblock, struck>>,
         \A v \in Users \ {u} : ckpt'[v] = ckpt[v], ckpt'[u].obj = ckpt[u].obj,
         ckpt'[u].list = ckpt[u].list, ckpt'[u].arr = ckpt[u].arr
  PROVE  Owned'
<1>1. /\ \A v \in Users \ {u} : ckpt'[v] = ckpt[v] /\ flight'[v] = flight[v] /\ pc'[v] = pc[v]
      /\ pc'[u] = to /\ (pc'[Main] = "down" <=> pc[Main] = "down")
  BY NullApart DEF Turns
<1>2. SameBut(UserOwners(u))
  BY <1>1, UserClaims
<1>3. ASSUME NEW o \in UserOwners(u) PROVE claim'[o] = claim[o]
  <2>1. claim'[<<u, "obj">>] = claim[<<u, "obj">>] /\ claim'[<<u, "list">>] = claim[<<u, "list">>]
    BY ClaimsNow, ClaimsNext DEF ClaimsAre
  <2>2. claim'[<<u, "arr">>] = claim[<<u, "arr">>]
        /\ claim'[<<u, "flight">>] = claim[<<u, "flight">>]
    BY <1>1, ClaimsNow, ClaimsNext DEF ClaimsAre
  <2> QED BY <2>1, <2>2 DEF UserOwners
<1>4. Moving' = Moving
  BY <1>1, MovingSame
<1> QED BY <1>1, <1>2, <1>3, <1>4, QuietSteps

LEMMA QuietWorks ==
  ASSUME Inv, UNCHANGED uservars, UNCHANGED memcheckvars, UNCHANGED <<entry, logblock, struck>>
  PROVE  Owned'
<1>1. UNCHANGED <<pc, ckpt, flight>>
  BY DEF uservars
<1>2. SameBut({})
  BY <1>1, WorkerClaims
<1> QED BY <1>1, <1>2, MovingKept, QuietSteps

(* A place gives its block back.                                           *)
LEMMA GivesBack ==
  ASSUME Inv, NEW x \in Holders, NEW b \in Blocks, claim[x] = b, claim'[x] = Null,
         \A o \in Owners \ {x} : claim'[o] = claim[o], Freed(b), Moving' = Moving,
         struck' = struck, pc'[Main] = "down" => pc[Main] = "down"
  PROVE  Owned'
<1>1. b # Null /\ x \in Owners
  BY NullApart, OwnerNames
<1>2. Held' = Held \ {b} /\ b \in Held
  <2>1. SameBut({x})
    BY DEF SameBut
  <2> QED BY <1>1, <2>1, HeldLoses
<1>3. /\ Exclusive(claim, given) /\ Held \subseteq InTable \cup struck
      /\ InTable \subseteq Held \cup Moving
      /\ aborted => struck # {}
      /\ pc[Main] = "down" => InTable = {}
  BY ExactNow
<1>4. given' = given \/ given' = given \ {b}
  BY DEF Freed
<1>5. Exclusive(claim', given')
  <2> DEFINE c == claim
             d == claim'
             g == given
             h == given'
             n == Null
  <2>1. /\ Exclusive(c, g) /\ \A o \in Owners \ {x, x} : d[o] = c[o]
        /\ d[x] = n /\ n = Null /\ g \ {c[x]} \subseteq h
    BY <1>3, <1>4
  <2> HIDE DEF c, d, g, h, n
  <2>2. Exclusive(d, h)
    BY <1>1, <2>1, Passes
  <2> QED BY <2>2 DEF d, h
<1>6. Exact'
  <2>1. CASE b \in InTable /\ Holding(InTable \ {b}) /\ aborted' = aborted
    <3>1. /\ Held' \subseteq (InTable \ {b}) \cup struck'
          /\ InTable \ {b} \subseteq Held' \cup Moving'
          /\ aborted' => struck' # {}
      BY <1>2, <1>3, <2>1
    <3>2. pc'[Main] = "down" => InTable \ {b} = {}
      BY <1>3
    <3> QED BY <2>1, <3>1, <3>2, ExactNext
  <2>2. CASE b \notin InTable /\ Holding(InTable) /\ aborted' = TRUE
    <3>1. /\ Held' \subseteq InTable \cup struck' /\ InTable \subseteq Held' \cup Moving'
          /\ aborted' => struck' # {}
      BY <1>2, <1>3, <2>2
    <3>2. pc'[Main] = "down" => InTable = {}
      BY <1>3
    <3> QED BY <2>2, <3>1, <3>2, ExactNext
  <2> QED BY <2>1, <2>2 DEF Freed
<1> QED BY <1>5, <1>6 DEF Owned

(* The C library gives b, and x has it before anything is registered.      *)
LEMMA Given ==
  ASSUME Inv, NEW x \in Owners \ Holders, NEW b \in Blocks \ given, claim[x] = Null, claim'[x] = b,
         \A o \in Owners \ {x} : claim'[o] = claim[o], given' = given \cup {b}, Moving' = Moving,
         UNCHANGED <<data, nelem, aborted, struck>>, pc'[Main] = "down" => pc[Main] = "down"
  PROVE  Owned'
<1>1. Held' = Held
  <2>1. SameBut({x})
    BY DEF SameBut
  <2> QED BY <2>1, HeldSame
<1>2. Exclusive(claim', given')
  <2> DEFINE c == claim
             d == claim'
             g == given
             h == given'
  <2>1. /\ Exclusive(c, g) /\ \A o \in Owners \ {x, x} : d[o] = c[o]
        /\ d[x] = b /\ b \notin g /\ g \ {c[x]} \subseteq h /\ b \in h /\ x \in Owners
    BY ExactNow
  <2> HIDE DEF c, d, g, h
  <2>2. Exclusive(d, h)
    BY <2>1, Passes
  <2> QED BY <2>2 DEF d, h
<1>3. Holding(InTable)
  BY TableLeft
<1>4. Exact'
  <2>1. /\ Held' \subseteq InTable \cup struck' /\ InTable \subseteq Held' \cup Moving'
        /\ aborted' => struck' # {}
    BY <1>1, ExactNow
  <2>2. pc'[Main] = "down" => InTable = {}
    BY ExactNow
  <2> QED BY <1>3, <2>1, <2>2, ExactNext
<1> QED BY <1>2, <1>4 DEF Owned

(* A block is registered and put in its place.                             *)
LEMMA Handover ==
  ASSUME Inv, NEW x \in Owners \ Holders, NEW y \in Holders, NEW b \in Blocks,
         claim[x] = b, claim[y] = Null, claim'[x] = Null, claim'[y] = b,
         \A o \in Owners \ {x, y} : claim'[o] = claim[o], given' = given,
         Holding(InTable \cup {b}), struck' = struck \ {b}, ~aborted, aborted' = aborted,
         Moving' = Moving, pc'[Main] # "down"
  PROVE  Owned'
<1>1. b # Null /\ y \in Owners /\ x # y
  BY NullApart, OwnerNames
<1>2. Held' = Held \cup {b}
  <2>1. SameBut({x, y})
    BY DEF SameBut
  <2> QED BY <1>1, <2>1, HeldGains
<1>3. Exclusive(claim', given')
  <2> DEFINE c == claim
             d == claim'
             g == given
             h == given'
  <2>1. /\ Exclusive(c, g) /\ \A o \in Owners \ {x, y} : d[o] = c[o]
        /\ d[y] = b /\ d[x] = Null /\ b = c[x] /\ g \ {c[x]} \subseteq h /\ x \in Owners
    BY ExactNow
  <2>2. b \in h
    BY <1>1, ExactNow DEF Exclusive
  <2> HIDE DEF c, d, g, h
  <2>3. Exclusive(d, h)
    BY <1>1, <2>1, <2>2, Passes
  <2> QED BY <2>3 DEF d, h
<1>4. Exact'
  <2>1. /\ Held' \subseteq (InTable \cup {b}) \cup struck'
        /\ InTable \cup {b} \subseteq Held' \cup Moving' /\ ~aborted'
    BY <1>2, ExactNow
  <2> QED BY <2>1, ExactNext
<1> QED BY <1>3, <1>4 DEF Owned

(* A thread's step changes what its own places X have.                     *)
LEMMA UserChanges ==
  ASSUME NEW u \in Users, NEW to, Turns(u, to), UNCHANGED <<entry, logblock>>,
         pc[u] # "down", to # "down",
         \A v \in Users \ {u} : ckpt'[v] = ckpt[v] /\ flight'[v] = flight[v],
         NEW X, \A o \in UserOwners(u) \ X : claim'[o] = claim[o]
  PROVE  /\ \A o \in Owners \ X : claim'[o] = claim[o]
         /\ \A v \in Users \ {u} : ckpt'[v] = ckpt[v] /\ pc'[v] = pc[v]
         /\ pc'[Main] = "down" => pc[Main] = "down"
<1>1. /\ \A v \in Users \ {u} : ckpt'[v] = ckpt[v] /\ flight'[v] = flight[v] /\ pc'[v] = pc[v]
      /\ (pc'[Main] = "down" <=> pc[Main] = "down")
  BY NullApart DEF Turns
<1>2. SameBut(UserOwners(u))
  BY <1>1, UserClaims
<1> QED BY <1>1, <1>2 DEF SameBut

LEMMA NewGivesOwned ==
  ASSUME Inv, NEW u \in Users, NewGives(u)
  PROVE  Owned'
<1> DEFINE x == <<u, "flight">>
<1>1. /\ FirstFree \in Blocks \ given /\ given' = given \cup {FirstFree} /\ Takes(u, FirstFree)
      /\ flight[u] = Null
      /\ UNCHANGED <<data, nelem, aborted, pc, ckpt, workvars, struck>>
  BY NewGivesDoes
<1>2. /\ \A v \in Users \ {u} : ckpt'[v] = ckpt[v] /\ flight'[v] = flight[v] /\ pc'[v] = pc[v]
      /\ UNCHANGED <<entry, logblock>> /\ flight'[u] = FirstFree
  BY <1>1 DEF Takes, workvars, faultvars
<1>3. SameBut(UserOwners(u))
  BY <1>1, <1>2, UserClaims
<1>4. claim[x] = Null /\ claim'[x] = FirstFree
  BY <1>1, <1>2, UserHas
<1>5. ASSUME NEW o \in Owners \ {x} PROVE claim'[o] = claim[o]
  <2>1. CASE o \notin UserOwners(u)
    BY <1>3, <2>1 DEF SameBut
  <2>2. /\ claim'[<<u, "obj">>] = claim[<<u, "obj">>]
        /\ claim'[<<u, "list">>] = claim[<<u, "list">>]
        /\ claim'[<<u, "arr">>] = claim[<<u, "arr">>]
    BY <1>1, UserHas
  <2> QED BY <2>1, <2>2 DEF UserOwners
<1>6. x \in Owners \ Holders
  BY OwnerNames
<1> HIDE DEF x
<1>7. Moving' = Moving
  BY <1>1, MovingKept
<1> QED BY <1>1, <1>4, <1>5, <1>6, <1>7, Given

LEMMA NewRegistersOwned ==
  ASSUME Inv, NEW u \in Users, NewRegisters(u)
  PROVE  Owned'
<1> DEFINE c == ckpt[u]
           b == flight[u]
           to == IF killfd THEN "submit" ELSE "ready"
           x == <<u, "flight">>
<1>1. /\ b \in Blocks /\ Takes(u, Null) /\ Holding(InTable \cup {b}) /\ struck' = struck \ {b}
      /\ UNCHANGED <<given, aborted, workvars>>
      /\ \/ pc[u] = "obj" /\ Turns(u, "list") /\ Becomes(u, b, c.list, c.arr, c.cap, c.addrs)
         \/ pc[u] = "list" /\ Turns(u, "arr") /\ Becomes(u, c.obj, b, c.arr, c.cap, c.addrs)
         \/ pc[u] = "arr" /\ Turns(u, to) /\ Becomes(u, c.obj, c.list, b, 2 ^ Power, c.addrs)
  BY NewRegistersDoes
<1>2. ~aborted
  BY DEF NewRegisters, Goes
<1>3. Shape(u)
  BY ShapesNow DEF Shapes
<1>4. /\ \A v \in Users \ {u} : ckpt'[v] = ckpt[v] /\ flight'[v] = flight[v]
      /\ UNCHANGED <<entry, logblock>> /\ flight'[u] = Null
  BY <1>1 DEF Becomes, Takes, workvars, faultvars
<1>5. claim[x] = b /\ claim'[x] = Null /\ x \in Owners \ Holders
  BY <1>4, UserHas, OwnerNames
<1>6. pc[Main] # "down"
  BY <1>1, FlowNow DEF Flow, KillOnly, Parts
<1>7. to \in Doing /\ to \notin {"growing", "down"}
  BY DEF Doing
<1> HIDE DEF to, b, x
<1>8. ASSUME NEW y \in Holders, NEW t, Turns(u, t), t \notin {"growing", "down"},
             pc[u] \notin {"growing", "down"}, claim[y] = Null, claim'[y] = b,
             \A o \in UserOwners(u) \ {x, y} : claim'[o] = claim[o]
      PROVE  Owned'
  <2>1. /\ \A o \in Owners \ {x, y} : claim'[o] = claim[o]
        /\ \A v \in Users \ {u} : ckpt'[v] = ckpt[v] /\ pc'[v] = pc[v]
        /\ pc'[Main] = "down" => pc[Main] = "down"
    BY <1>4, <1>8, UserChanges
  <2>2. pc'[u] # "growing"
    BY <1>8 DEF Turns
  <2>3. Moving' = Moving
    BY <1>8, <2>1, <2>2, MovingSame
  <2>4. given' = given /\ aborted' = aborted /\ pc'[Main] # "down"
    BY <1>1, <1>6, <2>1
  <2> QED BY <1>1, <1>2, <1>5, <1>8, <2>1, <2>3, <2>4, Handover
<1>9. CASE pc[u] = "obj"
  <2> DEFINE y == <<u, "obj">>
  <2>1. Turns(u, "list") /\ Becomes(u, b, c.list, c.arr, c.cap, c.addrs)
    BY <1>1, <1>9
  <2>2. /\ ckpt'[u].obj = b /\ ckpt'[u].list = ckpt[u].list /\ ckpt'[u].arr = ckpt[u].arr
        /\ ckpt[u].obj = Null /\ pc'[u] = "list"
    BY <1>3, <1>9, <2>1 DEF Becomes, Turns, Shape
  <2>3. claim[y] = Null /\ claim'[y] = b /\ y \in Holders
    BY <2>2, UserHas, OwnerNames
  <2>4. claim'[<<u, "list">>] = claim[<<u, "list">>] /\ claim'[<<u, "arr">>] = claim[<<u, "arr">>]
    BY <1>9, <2>2, UserHas
  <2>5. \A o \in UserOwners(u) \ {x, y} : claim'[o] = claim[o]
    BY <2>4 DEF UserOwners, x
  <2> HIDE DEF y
  <2> QED BY <1>8, <1>9, <2>1, <2>3, <2>5
<1>10. CASE pc[u] = "list"
  <2> DEFINE y == <<u, "list">>
  <2>1. Turns(u, "arr") /\ Becomes(u, c.obj, b, c.arr, c.cap, c.addrs)
    BY <1>1, <1>10
  <2>2. /\ ckpt'[u].obj = ckpt[u].obj /\ ckpt'[u].list = b /\ ckpt'[u].arr = ckpt[u].arr
        /\ ckpt[u].list = Null /\ pc'[u] = "arr"
    BY <1>3, <1>10, <2>1 DEF Becomes, Turns, Shape
  <2>3. claim[y] = Null /\ claim'[y] = b /\ y \in Holders
    BY <2>2, UserHas, OwnerNames
  <2>4. claim'[<<u, "obj">>] = claim[<<u, "obj">>] /\ claim'[<<u, "arr">>] = claim[<<u, "arr">>]
    BY <1>10, <2>2, UserHas
  <2>5. \A o \in UserOwners(u) \ {x, y} : claim'[o] = claim[o]
    BY <2>4 DEF UserOwners, x
  <2> HIDE DEF y
  <2> QED BY <1>8, <1>10, <2>1, <2>3, <2>5
<1>11. CASE pc[u] = "arr"
  <2> DEFINE y == <<u, "arr">>
  <2>1. Turns(u, to) /\ Becomes(u, c.obj, c.list, b, 2 ^ Power, c.addrs)
    BY <1>1, <1>11
  <2>2. /\ ckpt'[u].obj = ckpt[u].obj /\ ckpt'[u].list = ckpt[u].list /\ ckpt'[u].arr = b
        /\ ckpt[u].arr = Null /\ pc'[u] = to
    BY <1>3, <1>11, <2>1 DEF Becomes, Turns, Shape
  <2>3. claim[y] = Null /\ claim'[y] = b /\ y \in Holders
    BY <1>7, <1>11, <2>2, UserHas, OwnerNames
  <2>4. claim'[<<u, "obj">>] = claim[<<u, "obj">>] /\ claim'[<<u, "list">>] = claim[<<u, "list">>]
    BY <2>2, UserHas
  <2>5. \A o \in UserOwners(u) \ {x, y} : claim'[o] = claim[o]
    BY <2>4 DEF UserOwners, x
  <2> HIDE DEF y
  <2> QED BY <1>7, <1>8, <1>11, <2>1, <2>3, <2>5
<1> QED BY <1>1, <1>9, <1>10, <1>11

LEMMA DeletesOwned ==
  ASSUME Inv, NEW u \in Users, NEW x \in UserOwners(u), x # <<u, "flight">>, NEW to \in Doing,
         Turns(u, to), pc[u] \notin {"growing", "down"}, to \notin {"growing", "down"},
         NEW b \in Blocks, claim[x] = b, claim'[x] = Null, Freed(b),
         UNCHANGED <<flight, workvars, struck>>,
         \A v \in Users \ {u} : ckpt'[v] = ckpt[v],
         \A o \in UserOwners(u) \ {x} : claim'[o] = claim[o]
  PROVE  Owned'
<1>1. x \in Holders
  BY OwnerNames DEF UserOwners
<1>2. /\ \A o \in Owners \ {x} : claim'[o] = claim[o]
      /\ \A v \in Users \ {u} : ckpt'[v] = ckpt[v] /\ pc'[v] = pc[v]
      /\ pc'[Main] = "down" => pc[Main] = "down"
  <2>1. UNCHANGED <<entry, logblock>> /\ \A v \in Users \ {u} : flight'[v] = flight[v]
    BY DEF workvars, faultvars
  <2> QED BY <2>1, UserChanges
<1>3. Moving' = Moving
  <2>1. pc'[u] # "growing"
    BY DEF Turns
  <2> QED BY <1>2, <2>1, MovingSame
<1> QED BY <1>1, <1>2, <1>3, GivesBack

LEMMA DeleteArrOwned ==
  ASSUME Inv, NEW u \in Users, DeleteArr(u)
  PROVE  Owned'
<1> DEFINE b == ckpt[u].arr
           x == <<u, "arr">>
<1>1. /\ pc[u] \in {"ready", "delkill"} /\ Turns(u, "dellist") /\ b \in Blocks /\ Freed(b)
      /\ UNCHANGED <<flight, workvars, struck>>
      /\ ckpt'[u].obj = ckpt[u].obj /\ ckpt'[u].list = ckpt[u].list /\ ckpt'[u].arr = Null
      /\ \A v \in Users \ {u} : ckpt'[v] = ckpt[v]
  BY DeleteArrDoes DEF Becomes
<1>2. pc'[u] = "dellist" /\ flight'[u] = flight[u] /\ "dellist" \in Doing
  BY <1>1 DEF Turns, Doing
<1>3. claim[x] = b /\ claim'[x] = Null
  BY <1>1, <1>2, UserHas
<1>4. /\ claim'[<<u, "obj">>] = claim[<<u, "obj">>] /\ claim'[<<u, "list">>] = claim[<<u, "list">>]
      /\ claim'[<<u, "flight">>] = claim[<<u, "flight">>]
  BY <1>1, <1>2, UserHas
<1>5. x \in UserOwners(u) /\ x # <<u, "flight">>
      /\ \A o \in UserOwners(u) \ {x} : claim'[o] = claim[o]
  BY <1>4 DEF UserOwners
<1> HIDE DEF b, x
<1> QED BY <1>1, <1>2, <1>3, <1>5, DeletesOwned

LEMMA DeleteListOwned ==
  ASSUME Inv, NEW u \in Users, DeleteList(u)
  PROVE  Owned'
<1> DEFINE b == ckpt[u].list
           x == <<u, "list">>
<1>1. /\ pc[u] = "dellist" /\ Turns(u, "delobj") /\ b \in Blocks /\ Freed(b)
      /\ UNCHANGED <<flight, workvars, struck>>
      /\ ckpt'[u].obj = ckpt[u].obj /\ ckpt'[u].list = Null /\ ckpt'[u].arr = ckpt[u].arr
      /\ \A v \in Users \ {u} : ckpt'[v] = ckpt[v]
  BY DeleteListDoes DEF Becomes
<1>2. pc'[u] = "delobj" /\ flight'[u] = flight[u] /\ "delobj" \in Doing
  BY <1>1 DEF Turns, Doing
<1>3. claim[x] = b /\ claim'[x] = Null
  BY <1>1, <1>2, UserHas
<1>4. /\ claim'[<<u, "obj">>] = claim[<<u, "obj">>] /\ claim'[<<u, "arr">>] = claim[<<u, "arr">>]
      /\ claim'[<<u, "flight">>] = claim[<<u, "flight">>]
  BY <1>1, <1>2, UserHas
<1>5. x \in UserOwners(u) /\ x # <<u, "flight">>
      /\ \A o \in UserOwners(u) \ {x} : claim'[o] = claim[o]
  BY <1>4 DEF UserOwners
<1> HIDE DEF b, x
<1> QED BY <1>1, <1>2, <1>3, <1>5, DeletesOwned

LEMMA DeleteObjOwned ==
  ASSUME Inv, NEW u \in Users, DeleteObj(u)
  PROVE  Owned'
<1> DEFINE b == ckpt[u].obj
           x == <<u, "obj">>
<1>1. /\ pc[u] = "delobj" /\ Turns(u, IF killfd THEN "sweep" ELSE "idle")
      /\ b \in Blocks /\ Freed(b)
      /\ UNCHANGED <<flight, workvars, struck>>
      /\ ckpt'[u].obj = Null /\ ckpt'[u].list = Null /\ ckpt'[u].arr = Null
      /\ \A v \in Users \ {u} : ckpt'[v] = ckpt[v]
  BY DeleteObjDoes DEF Becomes
<1>2. PICK to \in {"sweep", "idle"} : Turns(u, to)
  BY <1>1
<1>3. pc'[u] = to /\ flight'[u] = flight[u] /\ to \in Doing
  BY <1>1, <1>2 DEF Turns, Doing
<1>4. claim[x] = b /\ claim'[x] = Null
  BY <1>1, UserHas
<1>5. /\ claim'[<<u, "list">>] = claim[<<u, "list">>] /\ claim'[<<u, "arr">>] = claim[<<u, "arr">>]
      /\ claim'[<<u, "flight">>] = claim[<<u, "flight">>]
  <2>1. Shape(u)
    BY ShapesNow DEF Shapes
  <2>2. ckpt[u].list = Null /\ ckpt[u].arr = Null
    BY <1>1, <2>1 DEF Shape
  <2> QED BY <1>1, <1>2, <1>3, <2>2, UserHas
<1>6. x \in UserOwners(u) /\ x # <<u, "flight">>
      /\ \A o \in UserOwners(u) \ {x} : claim'[o] = claim[o]
  BY <1>5 DEF UserOwners
<1> HIDE DEF b, x
<1> QED BY <1>1, <1>2, <1>3, <1>4, <1>6, DeletesOwned

(* The page's entry is freed, by the checkpoint worker or at the end.      *)
LEMMA EntryOwned ==
  ASSUME Inv, UNCHANGED <<pc, ckpt, flight, logblock, struck>>, NEW p \in Pages,
         entry[p] \in Blocks, Freed(entry[p]), Logs(p, Null)
  PROVE  Owned'
<1> DEFINE b == entry[p]
           x == <<p, "entry">>
<1>1. b \in Blocks /\ Freed(b)
  OBVIOUS
<1>2. claim[x] = b /\ claim'[x] = Null /\ x \in Holders
  BY ClaimsNow, ClaimsNext, OwnerNames DEF ClaimsAre, Logs
<1>3. \A q \in Pages : <<q, "entry">> \in {x} \/ entry'[q] = entry[q]
  BY DEF Logs
<1> HIDE DEF b, x
<1>4. SameBut({x})
  BY <1>3, WorkerClaims
<1>5. \A o \in Owners \ {x} : claim'[o] = claim[o]
  BY <1>4 DEF SameBut
<1>6. Moving' = Moving
  BY MovingKept
<1> QED BY <1>1, <1>2, <1>5, <1>6, GivesBack

LEMMA SweepsOwned ==
  ASSUME Inv, NEW u \in Users, Sweeps(u)
  PROVE  Owned'
<1>1. /\ pc[u] = "sweep" /\ Turns(u, "sweep")
      /\ \E p \in Pages : entry[p] \in Blocks /\ Freed(entry[p]) /\ Logs(p, Null)
      /\ UNCHANGED <<ckpt, flight, logblock, struck>>
  BY SweepsDoes
<1>2. pc' = pc
  BY <1>1, FlowNow DEF Turns
<1> QED BY <1>1, <1>2, EntryOwned

LEMMA CrNextOwned ==
  ASSUME Inv, CrNext
  PROVE  Owned'
<1>1. /\ \/ UNCHANGED <<memcheckvars, entry>>
         \/ \E p \in Pages : entry[p] \in Blocks /\ Freed(entry[p]) /\ Logs(p, Null)
      /\ UNCHANGED <<uservars, logblock, struck>>
  BY CrNextDoes
<1>2. CASE UNCHANGED <<memcheckvars, entry>>
  BY <1>1, <1>2, QuietWorks
<1>3. CASE \E p \in Pages : entry[p] \in Blocks /\ Freed(entry[p]) /\ Logs(p, Null)
  <2>1. UNCHANGED <<pc, ckpt, flight, logblock, struck>>
    BY <1>1 DEF uservars
  <2> QED BY <1>3, <2>1, EntryOwned
<1> QED BY <1>1, <1>2, <1>3

LEMMA LogGivesOwned ==
  ASSUME Inv, NEW p \in Touched, LogGives(p)
  PROVE  Owned'
<1> DEFINE x == <<Main, "log">>
<1>1. /\ FirstFree \in Blocks \ given /\ given' = given \cup {FirstFree}
      /\ logging = Null /\ logblock' = FirstFree
      /\ UNCHANGED <<data, nelem, aborted, struck, entry, uservars>>
  BY LogGivesDoes
<1>2. logblock = Null
  BY <1>1, ShapesNow DEF Shapes
<1>3. claim[x] = Null /\ claim'[x] = FirstFree /\ x \in Owners \ Holders
  BY <1>1, <1>2, ClaimsNow, ClaimsNext, OwnerNames DEF ClaimsAre
<1> HIDE DEF x
<1>4. UNCHANGED <<pc, ckpt, flight>>
  BY <1>1 DEF uservars
<1>5. \A o \in Owners \ {x} : claim'[o] = claim[o]
  <2>1. <<Main, "log">> \in {x}
    BY DEF x
  <2>2. SameBut({x})
    BY <1>1, <1>4, <2>1, WorkerClaims
  <2> QED BY <2>2 DEF SameBut
<1>6. Moving' = Moving
  BY <1>4, MovingKept
<1> QED BY <1>1, <1>3, <1>4, <1>5, <1>6, Given

LEMMA LogRegistersOwned ==
  ASSUME Inv, LogRegisters
  PROVE  Owned'
<1> DEFINE x == <<Main, "log">>
           y == <<logging, "entry">>
           b == logblock
<1>1. /\ logging \in Pages /\ b \in Blocks /\ Logs(logging, b) /\ Holding(InTable \cup {b})
      /\ logblock' = Null /\ struck' = struck \ {b} /\ given' = given /\ aborted' = aborted
      /\ UNCHANGED uservars
  BY LogRegistersDoes
<1>2. ~aborted
  BY DEF LogRegisters
<1>3. entry[logging] = Null /\ logging # Null /\ pc[Main] # "down"
  BY <1>1, ShapesNow, NullApart DEF Shapes
<1>4. claim[x] = b /\ claim'[x] = Null /\ x \in Owners \ Holders
  BY <1>1, ClaimsNow, ClaimsNext, OwnerNames DEF ClaimsAre
<1>5. claim[y] = Null /\ claim'[y] = b /\ y \in Holders
  BY <1>1, <1>3, ClaimsNow, ClaimsNext, OwnerNames DEF ClaimsAre, Logs
<1>6. /\ \A q \in Pages : <<q, "entry">> \in {x, y} \/ entry'[q] = entry[q]
      /\ <<Main, "log">> \in {x, y}
  BY <1>1 DEF Logs
<1>7. UNCHANGED <<pc, ckpt, flight>> /\ pc'[Main] # "down"
  BY <1>1, <1>3 DEF uservars
<1> HIDE DEF x, y, b
<1>8. \A o \in Owners \ {x, y} : claim'[o] = claim[o]
  <2>1. SameBut({x, y})
    BY <1>6, <1>7, WorkerClaims
  <2> QED BY <2>1 DEF SameBut
<1>9. Moving' = Moving
  BY <1>7, MovingKept
<1> QED BY <1>1, <1>2, <1>4, <1>5, <1>7, <1>8, <1>9, Handover

(* The array that is moved is the old owner's no more, and the call has    *)
(* the block it was moved to.                                              *)
LEMMA GrowMovesOwned ==
  ASSUME Inv, NEW u \in Users, NEW b \in Blocks, GrowMoves(u, b)
  PROVE  Owned'
<1> DEFINE p == ckpt[u].arr
           x == <<u, "arr">>
           y == <<u, "flight">>
<1>1. /\ pc[u] = "adding" /\ Turns(u, "growing") /\ p \in Blocks /\ (b = p \/ b \notin given)
      /\ given' = (given \ {p}) \cup {b} /\ flight'[u] = b
      /\ ckpt'[u].obj = ckpt[u].obj /\ ckpt'[u].list = ckpt[u].list /\ ckpt'[u].arr = p
      /\ \A v \in Users \ {u} : ckpt'[v] = ckpt[v] /\ flight'[v] = flight[v]
      /\ UNCHANGED <<data, nelem, aborted, struck>> /\ UNCHANGED workvars
  BY GrowMovesDoes DEF Becomes, Takes
<1>2. /\ pc'[u] = "growing" /\ \A v \in Users \ {u} : pc'[v] = pc[v]
      /\ UNCHANGED <<entry, logblock>>
  BY <1>1 DEF Turns, workvars, faultvars
<1>3. claim[x] = p /\ claim'[x] = Null /\ claim'[y] = b
  BY <1>1, <1>2, UserHas
<1>4. claim'[<<u, "obj">>] = claim[<<u, "obj">>] /\ claim'[<<u, "list">>] = claim[<<u, "list">>]
  BY <1>1, UserHas
<1>5. x \in Holders /\ y \in Owners \ Holders
      /\ \A o \in UserOwners(u) \ {x, y} : claim'[o] = claim[o]
  BY <1>4, OwnerNames DEF UserOwners
<1>6. Moving' = Moving \cup {p}
  <2>1. {v \in Users : pc'[v] = "growing"} = {v \in Users : pc[v] = "growing"} \cup {u}
    BY <1>2
  <2>2. \A v \in {w \in Users : pc[w] = "growing"} : ckpt'[v].arr = ckpt[v].arr
    BY <1>1
  <2> QED BY <1>1, <2>1, <2>2 DEF Moving
<1> HIDE DEF p, x, y
<1>7. /\ \A o \in Owners \ {x, y} : claim'[o] = claim[o]
      /\ pc'[Main] = "down" => pc[Main] = "down"
  BY <1>1, <1>2, <1>5, UserChanges
<1>8. Held' = Held \ {p} /\ p \in Held
  <2>1. SameBut({x, y})
    BY <1>7 DEF SameBut
  <2>2. \A o \in Holders \ {x} : o \notin {x, y}
    BY <1>5
  <2> QED BY <1>1, <1>3, <1>5, <2>1, <2>2, HeldLoses, NullApart
<1>9. Exclusive(claim', given')
  <2> DEFINE c == claim
             d == claim'
             g == given
             h == given'
  <2>1. /\ Exclusive(c, g) /\ \A o \in Owners \ {x, y} : d[o] = c[o]
        /\ d[x] = Null /\ d[y] = b /\ (b = c[x] \/ b \notin g) /\ g \ {c[x]} \subseteq h /\ b \in h
        /\ x \in Owners /\ y \in Owners
    BY <1>1, <1>3, <1>5, <1>7, ExactNow, OwnerNames
  <2> HIDE DEF c, d, g, h
  <2>2. Exclusive(d, h)
    BY <2>1, Passes
  <2> QED BY <2>2 DEF d, h
<1>10. Exact'
  <2>1. Holding(InTable)
    BY <1>1, TableLeft
  <2>2. /\ Held' \subseteq InTable \cup struck' /\ InTable \subseteq Held' \cup Moving'
        /\ aborted' => struck' # {}
    BY <1>1, <1>6, <1>8, ExactNow
  <2>3. pc'[Main] = "down" => InTable = {}
    BY <1>7, ExactNow
  <2> QED BY <2>1, <2>2, <2>3, ExactNext
<1> QED BY <1>9, <1>10 DEF Owned

(* The late mcrealloc deletes the node of the old address, which another   *)
(* may have by now, and puts the new one in.                               *)
LEMMA GrowRegistersOwned ==
  ASSUME Inv, NEW u \in Users, GrowRegisters(u)
  PROVE  Owned'
<1> DEFINE p == ckpt[u].arr
           b == flight[u]
           x == <<u, "flight">>
           y == <<u, "arr">>
           I == (InTable \ {p}) \cup {b}
<1>1. /\ pc[u] = "growing" /\ Turns(u, "adding") /\ p \in Blocks /\ b \in Blocks /\ Holding(I)
      /\ struck' = (struck \ {p, b}) \cup {h \in Held : h = p /\ h # b}
      /\ flight'[u] = Null
      /\ ckpt'[u].obj = ckpt[u].obj /\ ckpt'[u].list = ckpt[u].list /\ ckpt'[u].arr = b
      /\ \A v \in Users \ {u} : ckpt'[v] = ckpt[v] /\ flight'[v] = flight[v]
      /\ given' = given /\ aborted' = aborted /\ UNCHANGED workvars
  BY GrowRegistersDoes DEF Becomes, Takes
<1>2. /\ pc'[u] = "adding" /\ \A v \in Users \ {u} : pc'[v] = pc[v]
      /\ UNCHANGED <<entry, logblock>>
  BY <1>1 DEF Turns, workvars, faultvars
<1>3. /\ claim[x] = b /\ claim[y] = Null /\ claim'[x] = Null /\ claim'[y] = b
  BY <1>1, <1>2, UserHas
<1>4. claim'[<<u, "obj">>] = claim[<<u, "obj">>] /\ claim'[<<u, "list">>] = claim[<<u, "list">>]
  BY <1>1, UserHas
<1>5. y \in Holders /\ x \in Owners \ Holders
      /\ \A o \in UserOwners(u) \ {x, y} : claim'[o] = claim[o]
  BY <1>4, OwnerNames DEF UserOwners
<1>6. Moving \subseteq Moving' \cup {p}
  <2> SUFFICES ASSUME NEW v \in Users, pc[v] = "growing", v # u PROVE ckpt[v].arr \in Moving'
    BY DEF Moving
  <2>1. pc'[v] = "growing" /\ ckpt'[v].arr = ckpt[v].arr
    BY <1>1, <1>2
  <2> QED BY <2>1 DEF Moving
<1>7. ~aborted
  BY DEF GrowRegisters, Goes
<1> HIDE DEF p, b, x, y, I
<1>8. \A o \in Owners \ {x, y} : claim'[o] = claim[o]
  BY <1>1, <1>2, <1>5, UserChanges
<1>9. Held' = Held \cup {b}
  <2>1. SameBut({x, y})
    BY <1>8 DEF SameBut
  <2>2. \A o \in Holders \ {y} : o \notin {x, y}
    BY <1>5
  <2> QED BY <1>1, <1>3, <1>5, <2>1, <2>2, HeldGains, NullApart
<1>10. Exclusive(claim', given')
  <2> DEFINE c == claim
             d == claim'
             g == given
             h == given'
  <2>1. /\ Exclusive(c, g) /\ \A o \in Owners \ {x, y} : d[o] = c[o]
        /\ d[x] = Null /\ d[y] = b /\ b = c[x] /\ g \ {c[x]} \subseteq h
        /\ x \in Owners /\ y \in Owners
    BY <1>1, <1>3, <1>5, <1>8, ExactNow, OwnerNames
  <2>2. b \in h
    BY <1>1, <1>3, <2>1, NullApart DEF Exclusive
  <2> HIDE DEF c, d, g, h
  <2>3. Exclusive(d, h)
    BY <2>1, <2>2, Passes
  <2> QED BY <2>3 DEF d, h
<1>11. Exact'
  <2>1. pc'[Main] # "down"
    BY <1>1, <1>2, FlowNow, NullApart DEF Flow, KillOnly
  <2>2. I \subseteq Held' \cup Moving'
    BY <1>6, <1>9, ExactNow DEF I
  <2>3. ASSUME NEW h \in Held' PROVE h \in I \cup struck'
    <3>1. CASE h = b
      BY <3>1 DEF I
    <3>2. CASE h # b
      <4>1. h \in Held /\ h \in InTable \cup struck
        BY <1>9, <3>2, ExactNow
      <4> QED BY <1>1, <3>2, <4>1 DEF I
    <3> QED BY <3>1, <3>2
  <2>4. Held' \subseteq I \cup struck' /\ (aborted' => struck' # {})
    BY <1>1, <1>7, <2>3
  <2> QED BY <1>1, <2>1, <2>2, <2>4, ExactNext
<1> QED BY <1>10, <1>11 DEF Owned

(* At the end of nvstore_shutdown nobody has anything.                     *)
LEMMA DownOwned ==
  ASSUME Inv, NEW u \in Users, Down(u)
  PROVE  Owned'
<1> DEFINE x == <<Main, "tmppage">>
           I == InTable \ {TmpPage}
<1>1. /\ pc[u] = "sweep" /\ Turns(u, "down") /\ \A p \in Pages : entry[p] = Null
      /\ Holding(I) /\ given' = given \ {TmpPage} /\ aborted' = aborted
      /\ UNCHANGED <<ckpt, flight, struck>> /\ UNCHANGED workvars
  BY DownDoes
<1>2. /\ u = Main /\ pc'[Main] = "down"
      /\ \A v \in Users \ {Main} : pc'[v] = pc[v] /\ pc[v] = "idle"
      /\ UNCHANGED <<entry, logblock>>
  BY <1>1, FlowNow, NullApart DEF Flow, KillOnly, Turns, workvars, faultvars
<1>3. \A v \in Users : ckpt[v].obj = Null /\ ckpt[v].list = Null /\ ckpt[v].arr = Null
  BY <1>1, <1>2, ShapesNow DEF Shapes, Shape
<1>4. ASSUME NEW o \in Owners \ {x} PROVE claim'[o] = claim[o]
  <2>n. ClaimsAre /\ ClaimsAre'
    BY ClaimsNow, ClaimsNext
  <2>1. ASSUME NEW v \in Users, o \in UserOwners(v) PROVE claim'[o] = claim[o]
    <3>1. pc[v] # "growing" /\ pc'[v] # "growing"
      BY <1>1, <1>2
    <3>2. /\ claim'[<<v, "obj">>] = claim[<<v, "obj">>]
          /\ claim'[<<v, "list">>] = claim[<<v, "list">>]
          /\ claim'[<<v, "arr">>] = claim[<<v, "arr">>]
          /\ claim'[<<v, "flight">>] = claim[<<v, "flight">>]
      BY <1>1, <3>1, UserHas
    <3> QED BY <2>1, <3>2 DEF UserOwners
  <2>2. ASSUME NEW p \in Pages, o = <<p, "entry">> PROVE claim'[o] = claim[o]
    BY <1>2, <2>n, <2>2 DEF ClaimsAre
  <2>3. ASSUME o = <<Main, "log">> PROVE claim'[o] = claim[o]
    BY <1>2, <2>n, <2>3 DEF ClaimsAre
  <2> QED BY <2>1, <2>2, <2>3, OwnerKinds DEF UserOwners
<1>5. claim[x] = TmpPage /\ claim'[x] = Null /\ x \in Holders /\ x \in Owners
  BY <1>1, <1>2, ClaimsNow, ClaimsNext, OwnerNames DEF ClaimsAre
<1> HIDE DEF x, I
<1>6. ASSUME NEW o \in Holders PROVE claim'[o] = Null
  <2>n. ClaimsAre'
    BY ClaimsNext
  <2>1. ASSUME NEW v \in Users, o \in {<<v, "obj">>, <<v, "list">>, <<v, "arr">>}
        PROVE claim'[o] = Null
    <3>1. pc'[v] # "growing"
      BY <1>2
    <3>2. ckpt'[v].obj = Null /\ ckpt'[v].list = Null /\ ckpt'[v].arr = Null
      BY <1>1, <1>3
    <3>3. /\ claim'[<<v, "obj">>] = Null /\ claim'[<<v, "list">>] = Null
          /\ claim'[<<v, "arr">>] = Null
      BY <3>1, <3>2, UserHas
    <3> QED BY <2>1, <3>3
  <2>2. ASSUME NEW p \in Pages, o = <<p, "entry">> PROVE claim'[o] = Null
    BY <1>1, <1>2, <2>n, <2>2 DEF ClaimsAre
  <2>3. ASSUME o = <<Main, "tmppage">> PROVE claim'[o] = Null
    BY <1>5, <2>3 DEF x
  <2> QED BY <2>1, <2>2, <2>3 DEF Holders, Parts
<1>7. Held' = Held \ {TmpPage} /\ Held' = {}
  <2>1. SameBut({x})
    BY <1>4 DEF SameBut
  <2>2. Held' = Held \ {TmpPage}
    BY <1>5, <2>1, HeldLoses, NullApart, TmpPageBlock
  <2>3. \A b : b \notin Held'
    BY <1>6, HeldNext
  <2> QED BY <2>2, <2>3
<1>8. Exclusive(claim', given')
  <2> DEFINE c == claim
             d == claim'
             g == given
             h == given'
             n == Null
  <2>1. /\ Exclusive(c, g) /\ \A o \in Owners \ {x, x} : d[o] = c[o]
        /\ d[x] = n /\ n = Null /\ g \ {c[x]} \subseteq h
    BY <1>1, <1>4, <1>5, ExactNow
  <2> HIDE DEF c, d, g, h, n
  <2>2. Exclusive(d, h)
    BY <1>5, <2>1, Passes
  <2> QED BY <2>2 DEF d, h
<1>9. Exact'
  <2>1. Moving = {}
    BY <1>1, <1>2 DEF Moving
  <2>2. I = {}
    BY <1>7, <2>1, ExactNow DEF I
  <2>3. aborted' => struck' # {}
    BY <1>1, ExactNow
  <2> QED BY <1>1, <1>7, <2>2, <2>3, ExactNext
<1> QED BY <1>8, <1>9 DEF Owned

LEMMA OwnedStep ==
  ASSUME Inv, [Next]_vars
  PROVE  Owned'
<1>1. ASSUME NEW u \in Users, NewBegins(u) PROVE Owned'
  BY <1>1, NewBeginsDoes, QuietTurns DEF workvars, faultvars
<1>2. ASSUME NEW u \in Users, NEW r \in Regions, AddBegins(u, r) PROVE Owned'
  BY <1>2, AddBeginsDoes, QuietTurns DEF workvars, faultvars
<1>3. ASSUME NEW u \in Users, AddPage(u) PROVE Owned'
  <2>1. /\ pc[u] = "adding" /\ Turns(u, "adding")
        /\ UNCHANGED memcheckvars /\ UNCHANGED <<flight, workvars, struck>>
        /\ ckpt'[u].obj = ckpt[u].obj /\ ckpt'[u].list = ckpt[u].list /\ ckpt'[u].arr = ckpt[u].arr
        /\ \A v \in Users \ {u} : ckpt'[v] = ckpt[v]
    BY <1>3, AddPageDoes DEF Becomes
  <2> QED BY <2>1, QuietTurns DEF workvars, faultvars
<1>4. ASSUME NEW u \in Users, AddEnds(u) PROVE Owned'
  BY <1>4, AddEndsDoes, QuietTurns DEF workvars, faultvars
<1>5. ASSUME NEW u \in Users, Commit(u) PROVE Owned'
  BY <1>5, CommitDoes, QuietTurns DEF faultvars
<1>6. ASSUME NEW u \in Users, CommitReturns(u) PROVE Owned'
  BY <1>6, CommitReturnsDoes, QuietTurns DEF faultvars
<1>7. ASSUME NEW u \in Users, Shutdown(u) PROVE Owned'
  BY <1>7, ShutdownDoes, QuietTurns DEF faultvars
<1>8. ASSUME NEW u \in Users, SubmitKill(u) PROVE Owned'
  BY <1>8, SubmitKillDoes, QuietTurns DEF faultvars
<1>9. ASSUME NEW u \in Users, Joins(u) PROVE Owned'
  BY <1>9, JoinsDoes, QuietTurns DEF workvars, faultvars
<1>10. ASSUME CrPop PROVE Owned'
  BY <1>10, CrPopDoes, QuietWorks DEF faultvars
<1>11. ASSUME CrPost PROVE Owned'
  BY <1>11, CrPostDoes, QuietWorks DEF faultvars
<1>12. ASSUME UffdExits PROVE Owned'
  BY <1>12, UffdExitsDoes, QuietWorks DEF faultvars
<1>13. ASSUME UNCHANGED vars PROVE Owned'
  BY <1>13, Stutters, QuietWorks DEF workvars, faultvars
<1> QED
  BY <1>1, <1>2, <1>3, <1>4, <1>5, <1>6, <1>7, <1>8, <1>9, <1>10, <1>11, <1>12, <1>13,
     NewGivesOwned, NewRegistersOwned, DeleteArrOwned, DeleteListOwned, DeleteObjOwned,
     SweepsOwned, CrNextOwned, LogGivesOwned, LogRegistersOwned, GrowMovesOwned,
     GrowRegistersOwned, DownOwned
     DEF Next, Ended

LEMMA TypeStep ==
  ASSUME Inv, [Next]_vars
  PROVE  TypeOK'
BY NewBeginsDoes, NewGivesDoes, NewRegistersDoes, AddBeginsDoes, AddPageDoes, AddEndsDoes,
   GrowMovesDoes, GrowRegistersDoes, CommitDoes, CommitReturnsDoes, DeleteArrDoes,
   DeleteListDoes, DeleteObjDoes, ShutdownDoes, SubmitKillDoes, JoinsDoes, SweepsDoes, DownDoes,
   CrPopDoes, CrNextDoes, CrPostDoes, LogGivesDoes, LogRegistersDoes, UffdExitsDoes, Stutters
   DEF Next, Ended

LEMMA InvStep ==
  Inv /\ [Next]_vars => Inv'
<1> SUFFICES ASSUME Inv, [Next]_vars PROVE Inv'
  OBVIOUS
<1>1. TypeOK' /\ Flow' /\ Sending' /\ Listing' /\ Shapes' /\ Owned'
  BY TypeStep, FlowStep, SendStep, ListStep, ShapesStep, OwnedStep
<1> QED BY <1>1 DEF Inv, Owned

(***************************************************************************)
(* The first state: nobody has a block but the page of nvstore_initmmap.   *)
(***************************************************************************)
LEMMA SeqOfOne ==
  ASSUME NEW S, NEW t, S = {} \/ S = {t}
  PROVE  /\ SetToSeq(S) \in Seq(S)
         /\ S = {} => DOMAIN SetToSeq(S) = {}
         /\ S = {t} => DOMAIN SetToSeq(S) = {1} /\ SetToSeq(S)[1] = t
<1> DEFINE n == Cardinality(S)
<1>1. (S = {} => n = 0) /\ (S = {t} => n = 1)
  BY FS_EmptySet, FS_Singleton
<1>2. 1 .. 0 = {} /\ 1 .. 1 = {1}
  OBVIOUS
<1> HIDE DEF n
<1>3. \E f \in [1 .. n -> S] : IsInjective(f)
  <2>1. CASE S = {}
    <3> DEFINE f == [i \in {} |-> t]
    <3>1. f \in [1 .. n -> S] /\ DOMAIN f = {}
      BY <1>1, <1>2, <2>1
    <3> HIDE DEF f
    <3> QED BY <3>1 DEF IsInjective
  <2>2. CASE S = {t}
    <3> DEFINE f == [i \in {1} |-> t]
    <3>1. f \in [1 .. n -> S] /\ DOMAIN f = {1}
      BY <1>1, <1>2, <2>2
    <3> HIDE DEF f
    <3> QED BY <3>1 DEF IsInjective
  <2> QED BY <2>1, <2>2
<1>4. SetToSeq(S) \in [1 .. n -> S]
  BY <1>3 DEF SetToSeq, n
<1>5. SetToSeq(S) \in Seq(S)
  <2>1. n \in Nat
    BY <1>1
  <2> QED BY <1>4, <2>1
<1>6. S = {} => DOMAIN SetToSeq(S) = {}
  BY <1>1, <1>2, <1>4
<1>7. S = {t} => DOMAIN SetToSeq(S) = {1} /\ SetToSeq(S)[1] = t
  BY <1>1, <1>2, <1>4
<1> QED BY <1>5, <1>6, <1>7

LEMMA InitTable ==
  ASSUME Init
  PROVE  /\ Chained(Table) /\ InTable = {TmpPage} /\ nelem = Cardinality(InTable)
         /\ MemCheckTypeOK /\ given = {TmpPage} /\ ~aborted
<1>1. /\ given = {TmpPage} /\ nelem = Cardinality({TmpPage}) /\ aborted = FALSE
      /\ data = [h \in Hashes |-> SetToSeq({b \in {TmpPage} : Hash[b] = h})]
  BY DEF Init, MemCheckInit
<1>t. TmpPage \in Blocks
  BY TmpPageBlock
<1> DEFINE t == TmpPage
<1> HIDE DEF t
<1>2. ASSUME NEW h \in Hashes
      PROVE  /\ data[h] \in Seq(Blocks)
             /\ Hash[t] # h => DOMAIN data[h] = {}
             /\ Hash[t] = h => DOMAIN data[h] = {1} /\ data[h][1] = t
  <2> DEFINE S == {b \in {t} : Hash[b] = h}
  <2>1. data[h] = SetToSeq(S) /\ S \subseteq Blocks
    BY <1>1, <1>t DEF t
  <2>2. (Hash[t] # h => S = {}) /\ (Hash[t] = h => S = {t})
    OBVIOUS
  <2> HIDE DEF S
  <2>3. /\ SetToSeq(S) \in Seq(S)
        /\ S = {} => DOMAIN SetToSeq(S) = {}
        /\ S = {t} => DOMAIN SetToSeq(S) = {1} /\ SetToSeq(S)[1] = t
    BY <2>2, SeqOfOne
  <2>4. data[h] \in Seq(Blocks)
    <3> DEFINE s == SetToSeq(S)
    <3>1. s \in Seq(S)
      BY <2>3
    <3> HIDE DEF s
    <3>2. Len(s) \in Nat /\ s \in [1 .. Len(s) -> S]
      BY <3>1
    <3>3. s \in [1 .. Len(s) -> Blocks]
      BY <2>1, <3>2
    <3>4. s \in Seq(Blocks)
      BY <3>2, <3>3
    <3> QED BY <2>1, <3>4 DEF s
  <2> QED BY <2>1, <2>2, <2>3, <2>4
<1>3. Hash[t] \in Hashes
  BY <1>t DEF Hashes, t
<1>4. Table.data = data
  BY DEF Table
<1>5. Chained(Table)
  BY <1>2, <1>4 DEF Chained
<1>6. ASSUME NEW b \in Blocks PROVE Registered(Table, b) <=> b = t
  <2>1. Hash[b] \in Hashes
    BY DEF Hashes
  <2>2. Registered(Table, b) <=> \E i \in DOMAIN data[Hash[b]] : data[Hash[b]][i] = b
    BY <1>4 DEF Registered, Places
  <2>3. CASE Hash[t] = Hash[b]
    BY <1>2, <2>1, <2>2, <2>3
  <2>4. CASE Hash[t] # Hash[b]
    BY <1>2, <2>1, <2>2, <2>4
  <2> QED BY <2>3, <2>4
<1>7. InTable = {t}
  BY <1>6, <1>t DEF InTable, t
<1>8. nelem = Cardinality(InTable) /\ nelem \in Nat
  BY <1>1, <1>7, FS_Singleton DEF t
<1>9. data \in [Hashes -> Seq(Blocks)]
  BY <1>1, <1>2
<1> QED BY <1>1, <1>5, <1>7, <1>8, <1>9, <1>t DEF t, MemCheckTypeOK

LEMMA InitInv ==
  Init => Inv
<1> SUFFICES ASSUME Init PROVE Inv
  OBVIOUS
<1>0. /\ pc = [u \in Users |-> "idle"] /\ made = [u \in Users |-> 0]
      /\ ckpt = [u \in Users |-> NoObject] /\ flight = [u \in Users |-> Null]
      /\ todo = [u \in Users |-> NoTodo] /\ added = [u \in Users |-> {}]
      /\ crinput = <<>> /\ serving = Null /\ at = 1 /\ finished = [u \in Users |-> 0]
      /\ entry = [p \in Pages |-> Null] /\ logging = Null /\ logblock = Null
      /\ killfd = FALSE /\ workers = {"uffd", "cr"} /\ struck = {}
  BY DEF Init
<1>1. TypeOK
  <2>1. NoObject \in Object /\ NoTodo \in [iter : Nat, high : Nat] /\ Rounds \in Nat
    BY NoObjectTypes, NoTodoIs, ConstantsAssumption
  <2>2. "idle" \in Doing /\ 0 \in 0 .. Rounds
    BY <2>1 DEF Doing
  <2>3. UserTypes
    BY <1>0, <2>1, <2>2 DEF UserTypes
  <2>4. QueueTypes
    BY <1>0 DEF QueueTypes
  <2>5. WorkTypes
    BY <1>0 DEF WorkTypes
  <2> QED BY <1>0, <2>3, <2>4, <2>5, InitTable, TypeParts
<1>2. Flow
  BY <1>0 DEF Flow, KillOnly, Queued
<1>3. Sending
  <2>1. DOMAIN crinput = {}
    BY <1>0
  <2>2. ASSUME NEW u \in Users PROVE Waits(u)
    BY <1>0, <2>1, NullApart DEF Waits, Queued
  <2> QED BY <1>0, <2>1, <2>2 DEF Sending
<1>4. Listing
  <2> SUFFICES ASSUME NEW u \in Users PROVE ListOf(u)
    BY DEF Listing, ListOf
  <2>1. ckpt[u].addrs = <<>> /\ ckpt[u].cap = 0 /\ todo[u] = NoTodo /\ added[u] = {}
    BY <1>0, NoObjectTypes
  <2>2. Len(ckpt[u].addrs) = 0 /\ ToSet(ckpt[u].addrs) = {}
    BY <2>1 DEF ToSet
  <2>3. Covers(ToSet(ckpt[u].addrs) \cup Ahead(todo[u]), added[u])
    BY <2>1, <2>2, NoTodoIs DEF Covers, TouchedBy
  <2> QED BY <2>1, <2>2, <2>3, NoTodoIs DEF ListOf
<1>5. Shapes
  <2>1. ASSUME NEW u \in Users PROVE Shape(u)
    BY <1>0, NoObjectTypes DEF Shape
  <2> QED BY <1>0, <2>1, NullApart DEF Shapes
<1>6. /\ claim[<<Main, "tmppage">>] = TmpPage
      /\ \A o \in Owners \ {<<Main, "tmppage">>} : claim[o] = Null
  <2>1. claim[<<Main, "tmppage">>] = TmpPage
    BY <1>0, ClaimsNow, NullApart DEF ClaimsAre
  <2>2. ASSUME NEW u \in Users, NEW o \in UserOwners(u) PROVE claim[o] = Null
    <3>1. pc[u] = "idle" /\ ckpt[u] = NoObject /\ flight[u] = Null
      BY <1>0
    <3>2. /\ claim[<<u, "obj">>] = Null /\ claim[<<u, "list">>] = Null
          /\ claim[<<u, "arr">>] = Null /\ claim[<<u, "flight">>] = Null
      BY <3>1, ClaimsNow, NoObjectTypes DEF ClaimsAre
    <3> QED BY <3>2 DEF UserOwners
  <2>3. ASSUME NEW p \in Pages PROVE claim[<<p, "entry">>] = Null
    BY <1>0, ClaimsNow DEF ClaimsAre
  <2>4. claim[<<Main, "log">>] = Null
    BY <1>0, ClaimsNow DEF ClaimsAre
  <2>5. ASSUME NEW o \in Owners \ {<<Main, "tmppage">>} PROVE claim[o] = Null
    <3>1. ASSUME NEW u \in Users, o \in UserOwners(u) PROVE claim[o] = Null
      BY <2>2, <3>1
    <3>2. ASSUME NEW p \in Pages, o = <<p, "entry">> PROVE claim[o] = Null
      BY <2>3, <3>2
    <3>3. ASSUME o = <<Main, "log">> PROVE claim[o] = Null
      BY <2>4, <3>3
    <3> QED BY <3>1, <3>2, <3>3, OwnerKinds DEF UserOwners
  <2> QED BY <2>1, <2>5
<1>7. Exclusive(claim, given)
  BY <1>6, InitTable DEF Exclusive
<1>8. Exact
  <2>1. Held = {TmpPage}
    <3>1. TmpPage # Null
      BY TmpPageBlock, NullApart
    <3>2. \A b : b \in Held <=> b = TmpPage
      BY <1>6, <3>1, HeldNow, OwnerNames
    <3> QED BY <3>2
  <2>2. pc[Main] # "down"
    BY <1>0, NullApart
  <2> QED BY <1>0, <2>1, <2>2, InitTable DEF Exact
<1> QED BY <1>1, <1>2, <1>3, <1>4, <1>5, <1>7, <1>8 DEF Inv

(* In every state that nvstore_checkpoint, the workers and the shutdown    *)
(* can reach, each block has one owner, the table says so, and whoever     *)
(* waits is waited for.                                                    *)
THEOREM InvHolds == Spec => []Inv
<1> QED BY InitInv, InvStep, PTL DEF Spec

(***************************************************************************)
(* What the invariant says of the table                                    *)
(***************************************************************************)
LEMMA HoldingOwner ==
  ASSUME NEW h \in Holdings
  PROVE  \E o \in Owners : h = <<o[1], o[2], claim[o]>> /\ claim[o] # Null
<1>n. ClaimsAre
  BY ClaimsNow
<1>1. h \in Holds /\ h[3] # Null /\ ~(h[2] = "arr" /\ pc[h[1]] = "growing")
  BY DEF Holdings
<1>2. ASSUME NEW u \in Users, NEW f \in Parts, h = <<u, f, ckpt[u][f]>>
      PROVE  \E o \in Owners : h = <<o[1], o[2], claim[o]>> /\ claim[o] # Null
  <2> DEFINE o == <<u, f>>
  <2>1. o \in Owners /\ o[1] = u /\ o[2] = f
    BY DEF Owners, Holders
  <2>2. h[1] = u /\ h[2] = f /\ h[3] = ckpt[u][f]
    BY <1>2
  <2>3. claim[o] = ckpt[u][f]
    BY <1>n, <1>1, <2>2 DEF ClaimsAre, Parts
  <2> HIDE DEF o
  <2> QED BY <1>1, <1>2, <2>1, <2>2, <2>3
<1>3. ASSUME NEW p \in Pages, h = <<p, "entry", entry[p]>>
      PROVE  \E o \in Owners : h = <<o[1], o[2], claim[o]>> /\ claim[o] # Null
  <2> DEFINE o == <<p, "entry">>
  <2>1. o \in Owners /\ o[1] = p /\ o[2] = "entry" /\ claim[o] = entry[p] /\ h[3] = entry[p]
    BY <1>n, <1>3, OwnerNames DEF ClaimsAre
  <2> HIDE DEF o
  <2> QED BY <1>1, <1>3, <2>1
<1>4. ASSUME h = <<Main, "tmppage", IF pc[Main] = "down" THEN Null ELSE TmpPage>>
      PROVE  \E o \in Owners : h = <<o[1], o[2], claim[o]>> /\ claim[o] # Null
  <2> DEFINE o == <<Main, "tmppage">>
             b == IF pc[Main] = "down" THEN Null ELSE TmpPage
  <2>1. o \in Owners /\ o[1] = Main /\ o[2] = "tmppage" /\ claim[o] = b
    BY <1>n, OwnerNames DEF ClaimsAre
  <2>2. h = <<Main, "tmppage", b>>
    BY <1>4
  <2> HIDE DEF o, b
  <2>3. h[3] = b
    BY <2>2
  <2> QED BY <1>1, <2>1, <2>2, <2>3
<1> QED BY <1>1, <1>2, <1>3, <1>4 DEF Holds

LEMMA OneHolder ==
  ASSUME Inv
  PROVE  /\ Held \subseteq given /\ given \subseteq Blocks
         /\ Cardinality(Holdings) = Cardinality(Held)
<1>0. /\ \A o \in Owners : claim[o] # Null => claim[o] \in given
      /\ \A o, p \in Owners : claim[o] = claim[p] /\ claim[o] # Null => o = p
  BY ExactNow DEF Exclusive
<1>1. ASSUME NEW b \in Held PROVE b \in given
  <2>1. b # Null /\ \E o \in Holders : claim[o] = b
    BY HeldNow
  <2> QED BY <1>0, <2>1, OwnerNames
<1>2. given \subseteq Blocks
  BY TypeParts DEF Inv, MemCheckTypeOK
<1>3. IsFiniteSet(Held)
  <2>1. IsFiniteSet(Blocks)
    BY BlocksAssumption
  <2>2. Held \subseteq Blocks
    BY <1>1, <1>2
  <2> QED BY <2>1, <2>2, FS_Subset
<1>4. \A h \in Holdings : h[3] \in Held
  BY DEF Held
<1>5. \A b \in Held : \E h \in Holdings : h[3] = b
  BY DEF Held
<1>6. ASSUME NEW h \in Holdings, NEW k \in Holdings, h[3] = k[3] PROVE h = k
  <2>1. PICK o \in Owners : h = <<o[1], o[2], claim[o]>> /\ claim[o] # Null
    BY HoldingOwner
  <2>2. PICK p \in Owners : k = <<p[1], p[2], claim[p]>> /\ claim[p] # Null
    BY HoldingOwner
  <2>3. h[3] = claim[o] /\ k[3] = claim[p]
    BY <2>1, <2>2
  <2>4. o = p
    BY <1>0, <1>6, <2>1, <2>3
  <2> QED BY <2>1, <2>2, <2>4
<1> DEFINE S == Holdings
           T == Held
           f == [h \in S |-> h[3]]
<1>7. f \in [S -> T] /\ \A h \in S : f[h] = h[3]
  BY <1>4
<1> HIDE DEF f
<1>8. f \in Injection(S, T) /\ f \in Surjection(S, T)
  BY <1>5, <1>6, <1>7 DEF Injection, Surjection, IsInjective
<1> HIDE DEF S, T
<1>9. Cardinality(S) = Cardinality(T)
  BY <1>3, <1>8, FS_Injection DEF T
<1> QED BY <1>1, <1>2, <1>9 DEF S, T

LEMMA OnePlace ==
  ASSUME Inv, NEW b \in Blocks
  PROVE  Cardinality(Places(Table, b)) <= 1
<1> DEFINE P == Places(Table, b)
<1>1. Hash[b] \in Hashes
  BY DEF Hashes
<1>2. \A i, j \in P : i = j
  BY <1>1 DEF Inv, Exact, Chained, Places
<1> HIDE DEF P
<1>3. CASE P = {}
  <2>1. Cardinality(P) = 0
    BY <1>3, FS_EmptySet
  <2> QED BY <2>1 DEF P
<1>4. CASE P # {}
  <2>1. PICK i : P = {i}
    BY <1>2, <1>4
  <2>2. Cardinality(P) = 1
    BY <2>1, FS_Singleton
  <2> QED BY <2>2 DEF P
<1> QED BY <1>3, <1>4

(* The table of memcheck holds what the program holds, whatever the        *)
(* interleaving of the calls (memcheck.c:97-245): each block has one       *)
(* pointer and one node, a node is missing only where a late mcrealloc     *)
(* struck it out, mcfree aborts only for such a block, and nothing is left *)
(* when nvstore_shutdown ends.                                             *)
THEOREM MemCheckExactHolds == Spec => []MemCheckExact
<1>1. ASSUME Inv PROVE MemCheckExact
  <2>1. TypeOK /\ Exact
    BY <1>1 DEF Inv
  <2>2. Held \subseteq given /\ Cardinality(Holdings) = Cardinality(Held)
    BY <1>1, OneHolder
  <2>3. \A b \in Blocks : Cardinality(Places(Table, b)) <= 1
    BY <1>1, OnePlace
  <2> QED BY <2>1, <2>2, <2>3 DEF Exact, MemCheckExact
<1>2. Inv => MemCheckExact
  BY <1>1
<1> QED BY <1>2, InvHolds, PTL

(***************************************************************************)
(* What it says of the commits                                             *)
(***************************************************************************)
Sent(u) ==
  Cardinality({i \in DOMAIN crinput : crinput[i] = u}) + (IF serving = u THEN 1 ELSE 0)
    + finished[u]

LEMMA SentOnce ==
  ASSUME Inv, NEW u \in Users
  PROVE  IF pc[u] = "wait" THEN Sent(u) = 1 ELSE Sent(u) = 0
<1> DEFINE Q == {i \in DOMAIN crinput : crinput[i] = u}
<1>1. \A i, j \in Q : i = j
  BY QueueNow DEF Once
<1>2. Queued(u) <=> Q # {}
  BY DEF Queued
<1>3. Waits(u)
  BY SendingNow DEF Sending
<1> DEFINE n == Cardinality(Q)
           s == IF serving = u THEN 1 ELSE 0
<1>s. (serving = u /\ s = 1) \/ (serving # u /\ s = 0)
  OBVIOUS
<1>4. Sent(u) = n + s + finished[u]
  BY DEF Sent
<1> HIDE DEF Q, n
<1>5. (Queued(u) /\ n = 1) \/ (~Queued(u) /\ n = 0)
  <2>1. CASE Q = {}
    BY <1>2, <2>1, FS_EmptySet DEF n
  <2>2. CASE Q # {}
    <3>1. PICK i : Q = {i}
      BY <1>1, <2>2
    <3> QED BY <1>2, <3>1, FS_Singleton DEF n
  <2> QED BY <2>1, <2>2
<1> HIDE DEF s
<1> QED BY <1>s, <1>3, <1>4, <1>5 DEF Waits

LEMMA PartsLive ==
  ASSUME Inv, NEW u \in Users, pc[u] = "wait", NEW f \in Parts
  PROVE  ckpt[u][f] \in given
<1>1. ckpt[u].obj # Null /\ ckpt[u].list # Null /\ ckpt[u].arr # Null
  BY ShapesNow DEF Shapes, Shape
<1>2. /\ claim[<<u, "obj">>] = ckpt[u].obj /\ claim[<<u, "list">>] = ckpt[u].list
      /\ claim[<<u, "arr">>] = ckpt[u].arr
  BY UserHas
<1>3. ckpt[u].obj \in given /\ ckpt[u].list \in given /\ ckpt[u].arr \in given
  BY <1>1, <1>2, ExactNow, OwnerNames DEF Exclusive
<1>4. ckpt[u]["obj"] \in given /\ ckpt[u]["list"] \in given /\ ckpt[u]["arr"] \in given
  BY <1>3
<1> QED BY <1>4 DEF Parts

(* The checkpoint worker has an object by its address only                 *)
(* (nvstore.c:281-301), and from the commit to the answer it is there: its *)
(* thread waits, for one commit, and the kill message comes last.          *)
THEOREM WorkerReadsLiveHolds == Spec => []WorkerReadsLive
<1>1. ASSUME Inv PROVE WorkerReadsLive
  <2>1. ASSUME NEW u \in Users
        PROVE  IF pc[u] = "wait" THEN Sent(u) = 1 /\ \A f \in Parts : ckpt[u][f] \in given
               ELSE Sent(u) = 0
    BY <1>1, SentOnce, PartsLive
  <2>2. serving # Null => at <= Len(ckpt[serving].addrs) + 1
    BY <1>1, SendingNow DEF Sending
  <2>3. ASSUME NEW i \in DOMAIN crinput, crinput[i] = Kill
        PROVE  i = Len(crinput) /\ pc[Main] = "joins"
    BY <1>1, <2>3, SendingNow, FlowNow DEF Sending, Flow, Queued
  <2> QED BY <2>1, <2>2, <2>3 DEF WorkerReadsLive, Sent
<1>2. Inv => WorkerReadsLive
  BY <1>1
<1> QED BY <1>2, InvHolds, PTL

(* The list of an object that is ready or sent has the pages of what was   *)
(* added to it and no others (vaddrlist.c:30-53), and its array has room   *)
(* for them.                                                               *)
THEOREM CoversRegionsHolds == Spec => []CoversRegions
<1>1. ASSUME Inv, NEW u \in Users
      PROVE  /\ Len(ckpt[u].addrs) <= ckpt[u].cap
             /\ pc[u] \in {"ready", "wait"} => Covers(ToSet(ckpt[u].addrs), added[u])
  <2>1. ListOf(u)
    BY <1>1, ListNow
  <2>2. ASSUME pc[u] \in {"ready", "wait"} PROVE Covers(ToSet(ckpt[u].addrs), added[u])
    <3>1. todo[u] = NoTodo
      BY <2>1, <2>2 DEF ListOf
    <3>2. ToSet(ckpt[u].addrs) \cup Ahead(todo[u]) = ToSet(ckpt[u].addrs)
      BY <3>1, NoTodoIs
    <3> QED BY <2>1, <3>2 DEF ListOf
  <2> QED BY <2>1, <2>2 DEF ListOf
<1>2. Inv => CoversRegions
  BY <1>1 DEF CoversRegions, Covers, TouchedBy, EmptyIn
<1> QED BY <1>2, InvHolds, PTL
=============================================================================
