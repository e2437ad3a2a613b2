----------------------------- MODULE ListProofs -----------------------------
(***************************************************************************)
(* What the functions of list.c do to the elements of a list.              *)
(***************************************************************************)
EXTENDS ListShape, FiniteSetTheorems, SequenceTheorems, WellFoundedInduction, TLAPS

LEMMA Least ==
  ASSUME NEW T, T \subseteq Nat, T # {}
  PROVE  \E x \in T : \A y \in T : x <= y
<1>1. \E x \in T : \A y \in T : ~(<<y, x>> \in OpToRel(<, Nat))
  BY NatLessThanWellFounded, WFMin
<1>2. \A x, y \in Nat : <<y, x>> \in OpToRel(<, Nat) <=> y < x
  BY DEF OpToRel
<1>3. PICK x \in T : \A y \in T : ~(<<y, x>> \in OpToRel(<, Nat))
  BY <1>1
<1>4. \A y \in T : ~(y < x) /\ y \in Nat /\ x \in Nat
  BY <1>2, <1>3
<1> QED BY <1>4

LEMMA Induction ==
  ASSUME NEW S, S \subseteq Nat, 0 \in S, \A n \in S : n + 1 \in S
  PROVE  S = Nat
<1> DEFINE T == Nat \ S
<1>1. SUFFICES ASSUME T # {} PROVE FALSE
  OBVIOUS
<1>2. PICK x \in T : \A y \in T : x <= y
  BY <1>1, Least
<1>3. x \in Nat /\ x # 0 /\ x - 1 \in Nat /\ x - 1 < x
  BY <1>2
<1>4. x - 1 \in S /\ (x - 1) + 1 = x
  BY <1>2, <1>3
<1> QED BY <1>2, <1>4

(***************************************************************************)
(* The functions f on 0 .. n that start at z and go on by F                *)
(***************************************************************************)
Iterates(n, z, F, R) ==
  {f \in [0 .. n -> R] : f[0] = z /\ \A i \in 0 .. (n - 1) : f[i + 1] = F[f[i]]}

LEMMA IteratesExist ==
  ASSUME NEW R, NEW z \in R, NEW F \in [R -> R]
  PROVE  \A n \in Nat : Iterates(n, z, F, R) # {}
<1> DEFINE S == {n \in Nat : Iterates(n, z, F, R) # {}}
<1>1. 0 \in S
  <2> DEFINE f == [i \in 0 .. 0 |-> z]
  <2>1. f \in Iterates(0, z, F, R)
    BY DEF Iterates
  <2> QED BY <2>1
<1>2. ASSUME NEW n \in S PROVE n + 1 \in S
  <2>1. PICK f \in Iterates(n, z, F, R) : TRUE
    OBVIOUS
  <2>2. /\ f \in [0 .. n -> R] /\ f[0] = z
        /\ \A i \in 0 .. (n - 1) : f[i + 1] = F[f[i]]
    BY <2>1 DEF Iterates
  <2> DEFINE g == [i \in 0 .. (n + 1) |-> IF i <= n THEN f[i] ELSE F[f[n]]]
  <2>3. n \in Nat /\ F[f[n]] \in R
    BY <2>2
  <2>4. g \in [0 .. (n + 1) -> R]
    BY <2>2, <2>3
  <2>5. g[0] = z
    BY <2>2, <2>3
  <2>6. ASSUME NEW i \in 0 .. ((n + 1) - 1) PROVE g[i + 1] = F[g[i]]
    <3>1. i \in 0 .. n /\ g[i] = f[i] /\ i + 1 \in 0 .. (n + 1)
      BY <2>3
    <3>2. CASE i = n
      BY <2>3, <3>1, <3>2
    <3>3. CASE i # n
      BY <2>2, <2>3, <3>1, <3>3
    <3> QED BY <3>2, <3>3
  <2>7. g \in Iterates(n + 1, z, F, R)
    <3> HIDE DEF g
    <3> QED BY <2>4, <2>5, <2>6 DEF Iterates
  <2> QED BY <2>3, <2>7
<1> HIDE DEF S
<1>3. S = Nat
  <2>1. S \subseteq Nat
    BY DEF S
  <2> QED BY <1>1, <1>2, <2>1, Induction
<1> QED BY <1>3 DEF S

LEMMA IteratesAgree ==
  ASSUME NEW R, NEW z \in R, NEW F \in [R -> R], NEW n \in Nat, NEW k \in Nat,
         NEW f \in Iterates(n, z, F, R), NEW g \in Iterates(k, z, F, R)
  PROVE  \A i \in Nat : i <= n /\ i <= k => f[i] = g[i]
<1> DEFINE S == {i \in Nat : i <= n /\ i <= k => f[i] = g[i]}
<1>1. 0 \in S
  BY DEF Iterates
<1>2. ASSUME NEW i \in S PROVE i + 1 \in S
  <2>1. SUFFICES ASSUME i + 1 <= n, i + 1 <= k PROVE f[i + 1] = g[i + 1]
    OBVIOUS
  <2>2. i \in 0 .. (n - 1) /\ i \in 0 .. (k - 1) /\ f[i] = g[i]
    BY <2>1
  <2> QED BY <2>2 DEF Iterates
<1> HIDE DEF S
<1>3. S = Nat
  <2>1. S \subseteq Nat
    BY DEF S
  <2> QED BY <1>1, <1>2, <2>1, Induction
<1> QED BY <1>3 DEF S

Iterate(r, z, F, R) == r \in [Nat -> R] /\ r[0] = z /\ \A n \in Nat : r[n + 1] = F[r[n]]

LEMMA Iteration ==
  ASSUME NEW R, NEW z \in R, NEW F \in [R -> R]
  PROVE  \E r : Iterate(r, z, F, R)
<1> DEFINE G(n) == CHOOSE f : f \in Iterates(n, z, F, R)
           r == [n \in Nat |-> G(n)[n]]
<1>1. \A n \in Nat : G(n) \in Iterates(n, z, F, R)
  BY IteratesExist
<1> HIDE DEF G
<1>2. \A n \in Nat : G(n) \in [0 .. n -> R] /\ G(n)[0] = z
                     /\ \A i \in 0 .. (n - 1) : G(n)[i + 1] = F[G(n)[i]]
  BY <1>1 DEF Iterates
<1>3. r \in [Nat -> R]
  BY <1>2
<1>4. r[0] = z
  BY <1>2
<1>5. ASSUME NEW n \in Nat PROVE r[n + 1] = F[r[n]]
  <2>1. n \in 0 .. ((n + 1) - 1) /\ n + 1 \in Nat /\ n <= n + 1
    OBVIOUS
  <2>2. r[n + 1] = F[G(n + 1)[n]]
    BY <1>2, <2>1
  <2>3. G(n + 1)[n] = G(n)[n]
    BY <1>1, <2>1, IteratesAgree
  <2> QED BY <2>2, <2>3
<1> HIDE DEF r
<1>6. Iterate(r, z, F, R)
  BY <1>3, <1>4, <1>5 DEF Iterate
<1> QED BY <1>6

(***************************************************************************)
(* The loop over a list                                                    *)
(***************************************************************************)
Follows(nx, stop, f) ==
  f = [n \in Nat |-> [e \in DOMAIN nx \cup {Null} |->
         IF e \in {stop, Null} \/ n = 0 THEN <<>> ELSE <<e>> \o f[n - 1][nx[e]]]]

LEMMA LoopIs ==
  ASSUME NEW nx, NEW first, NEW stop
  PROVE  Loop(nx, first, stop) = (CHOOSE f : Follows(nx, stop, f))[Cardinality(DOMAIN nx)][first]
BY DEF Loop, Follows

LEMMA FollowsExists ==
  ASSUME NEW D, NEW nx \in [D -> D \cup {Null}], NEW stop
  PROVE  \E f : Follows(nx, stop, f)
<1> DEFINE E == D \cup {Null}
           R == [E -> Seq(D)]
           z == [e \in E |-> <<>>]
           Step(g, e) == IF e \in {stop, Null} THEN <<>> ELSE <<e>> \o g[nx[e]]
           F == [g \in R |-> [e \in E |-> Step(g, e)]]
<1>1. z \in R
  OBVIOUS
<1>2. ASSUME NEW g \in R, NEW e \in E
      PROVE  Step(g, e) \in Seq(D)
  <2>1. CASE e \in {stop, Null}
    BY <2>1
  <2>2. CASE e \notin {stop, Null}
    <3>1. e \in D /\ nx[e] \in E /\ g[nx[e]] \in Seq(D)
      BY <2>2
    <3>2. <<e>> \in Seq(D)
      BY <3>1
    <3>3. <<e>> \o g[nx[e]] \in Seq(D)
      BY <3>1, <3>2, ConcatProperties
    <3> QED BY <2>2, <3>3
  <2> QED BY <2>1, <2>2
<1>3. F \in [R -> R]
  <2> HIDE DEF Step
  <2> QED BY <1>2
<1>4. PICK r \in [Nat -> R] : r[0] = z /\ \A n \in Nat : r[n + 1] = F[r[n]]
  <2> HIDE DEF R, z, F
  <2>1. \E r : Iterate(r, z, F, R)
    BY <1>1, <1>3, Iteration
  <2> QED BY <2>1 DEF Iterate
<1> DEFINE Row(n) == [e \in E |-> IF e \in {stop, Null} \/ n = 0 THEN <<>>
                                 ELSE <<e>> \o r[n - 1][nx[e]]]
<1>5. ASSUME NEW n \in Nat PROVE r[n] = Row(n)
  <2>1. CASE n = 0
    <3>1. \A e \in E : Row(n)[e] = <<>>
      BY <2>1
    <3>2. Row(n) = [e \in E |-> Row(n)[e]] /\ r[n] = [e \in E |-> <<>>]
      BY <1>4, <2>1
    <3> QED BY <3>1, <3>2
  <2>2. CASE n # 0
    <3>1. n - 1 \in Nat /\ (n - 1) + 1 = n
      BY <2>2
    <3>2. r[n] = F[r[n - 1]] /\ r[n - 1] \in R
      BY <1>4, <3>1
    <3>3. r[n] = [e \in E |-> Step(r[n - 1], e)]
      BY <3>2
    <3>4. Row(n) = [e \in E |-> Step(r[n - 1], e)]
      BY <2>2
    <3> QED BY <3>3, <3>4
  <2> QED BY <2>1, <2>2
<1>6. DOMAIN nx = D
  OBVIOUS
<1>7. r = [n \in Nat |-> Row(n)]
  <2> HIDE DEF Row
  <2> QED BY <1>5
<1>8. Follows(nx, stop, r)
  BY <1>6, <1>7 DEF Follows
<1> QED BY <1>8

(* The elements s that the links nx lead through, up to stop.              *)
Leads(nx, s, stop) ==
  /\ \A i \in 1 .. Len(s) : s[i] \notin {stop, Null}
  /\ \A i \in 1 .. Len(s) : nx[s[i]] = IF i < Len(s) THEN s[i + 1] ELSE stop

LEMMA Followed ==
  ASSUME NEW D, NEW nx \in [D -> D \cup {Null}], NEW stop \in D,
         NEW f, Follows(nx, stop, f), NEW s \in Seq(D), Leads(nx, s, stop),
         NEW n \in Nat, n >= Len(s)
  PROVE  f[n][IF s = <<>> THEN stop ELSE s[1]] = s
<1> DEFINE m == Len(s)
           at(i) == IF i <= m THEN s[i] ELSE stop
           P(k) == \A a \in Nat : a >= k => f[a][at(m - k + 1)] = SubSeq(s, m - k + 1, m)
           S == {k \in Nat : k <= m => P(k)}
<1>1. m \in Nat /\ DOMAIN nx = D
  OBVIOUS
<1>2. \A a \in Nat, e \in D :
        f[a][e] = IF e \in {stop, Null} \/ a = 0 THEN <<>> ELSE <<e>> \o f[a - 1][nx[e]]
  <2> DEFINE Row(a) == [e \in D \cup {Null} |->
                          IF e \in {stop, Null} \/ a = 0 THEN <<>> ELSE <<e>> \o f[a - 1][nx[e]]]
  <2>1. f = [a \in Nat |-> Row(a)]
    BY <1>1 DEF Follows
  <2>2. ASSUME NEW a \in Nat PROVE f[a] = Row(a)
    <3> HIDE DEF Row
    <3> QED BY <2>1
  <2>3. ASSUME NEW a \in Nat, NEW e \in D
        PROVE  Row(a)[e] = IF e \in {stop, Null} \/ a = 0 THEN <<>> ELSE <<e>> \o f[a - 1][nx[e]]
    OBVIOUS
  <2> HIDE DEF Row
  <2> QED BY <2>2, <2>3
<1>3. \A i \in 1 .. m : s[i] \in D /\ s[i] \notin {stop, Null} /\ nx[s[i]] = at(i + 1)
  BY <1>1 DEF Leads
<1>4. 0 \in S
  <2>1. at(m - 0 + 1) = stop
    BY <1>1
  <2>2. SubSeq(s, m - 0 + 1, m) = <<>>
    BY <1>1, SubSeqEmpty
  <2> HIDE DEF m, at
  <2>3. P(0)
    BY <1>2, <2>1, <2>2
  <2> QED BY <2>3
<1>5. ASSUME NEW k \in S PROVE k + 1 \in S
  <2>1. SUFFICES ASSUME k + 1 <= m, NEW a \in Nat, a >= k + 1
                 PROVE  f[a][at(m - (k + 1) + 1)] = SubSeq(s, m - (k + 1) + 1, m)
    <3> HIDE DEF m, at
    <3> QED OBVIOUS
  <2> DEFINE i == m - (k + 1) + 1
  <2>2. i \in 1 .. m /\ m - k + 1 = i + 1 /\ a - 1 \in Nat /\ a - 1 >= k /\ a # 0 /\ k <= m
    BY <1>1, <2>1
  <2>3. f[a - 1][at(m - k + 1)] = SubSeq(s, m - k + 1, m)
    <3>1. P(k)
      BY <2>2
    <3> HIDE DEF m, at
    <3> QED BY <2>2, <3>1
  <2>4. f[a - 1][at(i + 1)] = SubSeq(s, i + 1, m)
    <3> HIDE DEF at, i, m
    <3> QED BY <2>2, <2>3
  <2>5. at(i) = s[i]
    BY <2>2
  <2>6. f[a][s[i]] = <<s[i]>> \o f[a - 1][nx[s[i]]]
    <3> HIDE DEF at, i, m
    <3> QED BY <1>2, <1>3, <2>2
  <2>7. <<s[i]>> \o SubSeq(s, i + 1, m) = SubSeq(s, i, m)
    <3> HIDE DEF i
    <3> QED BY <1>1, <2>2, SubSeqRecursiveFirst
  <2>8. f[a][at(i)] = SubSeq(s, i, m)
    <3> HIDE DEF at, i, m
    <3> QED BY <1>3, <2>2, <2>4, <2>5, <2>6, <2>7
  <2> QED BY <2>8
<1>6. S = Nat
  <2>1. S \subseteq Nat
    OBVIOUS
  <2> HIDE DEF S
  <2> QED BY <1>4, <1>5, <2>1, Induction
<1>7. P(m)
  <2> HIDE DEF P
  <2> QED BY <1>1, <1>6
<1>8. f[n][at(1)] = SubSeq(s, 1, m)
  <2>1. m - m + 1 = 1
    BY <1>1
  <2> HIDE DEF m, at
  <2> QED BY <1>7, <2>1 DEF m
<1>9. SubSeq(s, 1, m) = s
  BY SubSeqFull
<1>10. at(1) = IF s = <<>> THEN stop ELSE s[1]
  BY <1>1, EmptySeq
<1> QED BY <1>8, <1>9, <1>10

LEMMA LoopReads ==
  ASSUME NEW D, IsFiniteSet(D), NEW nx \in [D -> D \cup {Null}], NEW stop \in D,
         NEW s \in Seq(D), Leads(nx, s, stop), \A i, j \in 1 .. Len(s) : s[i] = s[j] => i = j
  PROVE  Loop(nx, IF s = <<>> THEN stop ELSE s[1], stop) = s
<1> DEFINE f == CHOOSE g : Follows(nx, stop, g)
           n == Cardinality(D)
<1>1. Follows(nx, stop, f)
  BY FollowsExists
<1>2. n \in Nat /\ Len(s) \in Nat /\ n >= Len(s)
  <2>1. IsFiniteSet(1 .. Len(s)) /\ Cardinality(1 .. Len(s)) = Len(s)
    <3> DEFINE k == Len(s)
    <3>1. k \in Nat /\ k \in Int /\ 1 \in Int
      OBVIOUS
    <3> HIDE DEF n, f, k
    <3>2. IsFiniteSet(1 .. k) /\ Cardinality(1 .. k) = IF 1 > k THEN 0 ELSE k - 1 + 1
      BY <3>1, FS_Interval
    <3>3. Cardinality(1 .. k) = k
      BY <3>1, <3>2
    <3> QED BY <3>2, <3>3 DEF k
  <2>2. s \in Injection(1 .. Len(s), D)
    BY DEF Injection, IsInjective
  <2>3. Cardinality(1 .. Len(s)) <= Cardinality(D)
    BY <2>2, FS_Injection
  <2> QED BY <2>1, <2>3, FS_CardinalityType
<1>3. DOMAIN nx = D
  OBVIOUS
<1> HIDE DEF f, n
<1>4. f[n][IF s = <<>> THEN stop ELSE s[1]] = s
  BY <1>1, <1>2, Followed
<1> QED BY <1>3, <1>4, LoopIs DEF f, n

(***************************************************************************)
(* The cells of a list                                                     *)
(***************************************************************************)
LEMMA CellTypes ==
  ASSUME NEW l, NEW m, NEW s, Chain(m, l, s)
  PROVE  /\ s \in Seq(DOMAIN m) /\ Len(s) \in Nat /\ DOMAIN s = 1 .. Len(s)
         /\ \A i \in 0 .. Len(s) + 1 : At(l, s, i) \in DOMAIN m /\ At(l, s, i) \in Cells(l, s)
         /\ \A i, j \in 0 .. Len(s) + 1 : At(l, s, i) = At(l, s, j) => i = j
         /\ At(l, s, 0) = head(l) /\ At(l, s, Len(s) + 1) = tail(l)
         /\ \A i \in 1 .. Len(s) : At(l, s, i) = s[i]
<1>1. s \in Seq(DOMAIN m) /\ Len(s) \in Nat /\ DOMAIN s = 1 .. Len(s)
  BY DEF Chain
<1>2. At(l, s, 0) = head(l) /\ At(l, s, Len(s) + 1) = tail(l)
      /\ \A i \in 1 .. Len(s) : At(l, s, i) = s[i]
  BY <1>1 DEF At
<1>3. \A i \in 0 .. Len(s) + 1 : i = 0 \/ i = Len(s) + 1 \/ i \in 1 .. Len(s)
  BY <1>1
<1>4. head(l) # tail(l) /\ head(l) \in DOMAIN m /\ tail(l) \in DOMAIN m
  BY DEF Chain, head, tail
<1>5. /\ \A i \in 1 .. Len(s) : s[i] \notin {head(l), tail(l)}
      /\ \A i \in 1 .. Len(s) : s[i] \in DOMAIN m
      /\ \A i, j \in 1 .. Len(s) : s[i] = s[j] => i = j
  <2>1. \A i \in 1 .. Len(s) : s[i] \in DOMAIN m
    BY <1>1
  <2>2. /\ \A i \in DOMAIN s : s[i] \notin {head(l), tail(l)}
        /\ \A i, j \in DOMAIN s : s[i] = s[j] => i = j
    BY DEF Chain
  <2> QED BY <1>1, <2>1, <2>2
<1>6. ASSUME NEW i \in 0 .. Len(s) + 1
      PROVE  At(l, s, i) \in DOMAIN m /\ At(l, s, i) \in Cells(l, s)
  BY <1>1, <1>2, <1>3, <1>4, <1>5 DEF Cells, ToSet
<1>7. ASSUME NEW i \in 0 .. Len(s) + 1, NEW j \in 0 .. Len(s) + 1, At(l, s, i) = At(l, s, j)
      PROVE  i = j
  BY <1>2, <1>3, <1>4, <1>5, <1>7
<1> QED BY <1>1, <1>2, <1>6, <1>7

LEMMA CellLinks ==
  ASSUME NEW l, NEW m, NEW s, Chain(m, l, s), NEW i \in 0 .. Len(s)
  PROVE  m[At(l, s, i)].next = At(l, s, i + 1) /\ m[At(l, s, i + 1)].prev = At(l, s, i)
BY DEF Chain

LEMMA ChainReads ==
  ASSUME NEW D, IsFiniteSet(D), Null \notin D, NEW m \in Memories(D),
         NEW l, NEW s, Chain(m, l, s)
  PROVE  Elements(m, l) = s /\ ElementsBack(m, l) = Reverse(s)
<1>1. /\ s \in Seq(D) /\ Len(s) \in Nat /\ head(l) \in D /\ tail(l) \in D /\ DOMAIN m = D
      /\ \A i, j \in 1 .. Len(s) : s[i] = s[j] => i = j
      /\ \A i \in 1 .. Len(s) : s[i] \in D /\ s[i] \notin {head(l), tail(l), Null}
  BY DEF Chain, Memories
<1>2. /\ At(l, s, 0) = head(l) /\ At(l, s, Len(s) + 1) = tail(l)
      /\ \A i \in 1 .. Len(s) : At(l, s, i) = s[i]
  BY CellTypes
<1>3. /\ \A i \in 0 .. Len(s) :
            m[At(l, s, i)].next = At(l, s, i + 1) /\ m[At(l, s, i + 1)].prev = At(l, s, i)
      /\ \A e \in D : m[e].next \in D \cup {Null} /\ m[e].prev \in D \cup {Null}
  BY DEF Chain, Memories
<1>4. Elements(m, l) = s
  <2> DEFINE nx == [e \in D |-> m[e].next]
  <2>1. nx \in [D -> D \cup {Null}]
    BY <1>3
  <2>2. Leads(nx, s, tail(l))
    <3>1. ASSUME NEW i \in 1 .. Len(s)
          PROVE  nx[s[i]] = IF i < Len(s) THEN s[i + 1] ELSE tail(l)
      <4>1. nx[s[i]] = m[s[i]].next /\ i \in 0 .. Len(s)
        BY <1>1
      <4>2. m[s[i]].next = At(l, s, i + 1)
        BY <1>2, <1>3, <4>1
      <4>3. i + 1 \in 1 .. Len(s) \/ i = Len(s)
        BY <1>1
      <4> QED BY <1>1, <1>2, <4>1, <4>2, <4>3
    <3> HIDE DEF nx
    <3> QED BY <1>1, <3>1 DEF Leads
  <2>3. m[head(l)].next = IF s = <<>> THEN tail(l) ELSE s[1]
    <3>1. m[head(l)].next = At(l, s, 1)
      BY <1>1, <1>2, <1>3
    <3>2. CASE s = <<>>
      BY <1>1, <1>2, <3>1, <3>2
    <3>3. CASE s # <<>>
      <4>1. 1 \in 1 .. Len(s)
        BY <1>1, <3>3, EmptySeq
      <4> QED BY <1>2, <3>1, <3>3, <4>1
    <3> QED BY <3>2, <3>3
  <2>4. Elements(m, l) = Loop(nx, m[head(l)].next, tail(l))
    BY <1>1 DEF Elements, list_next, list_begin, list_end
  <2> HIDE DEF nx
  <2> QED BY <1>1, <2>1, <2>2, <2>3, <2>4, LoopReads
<1>5. ElementsBack(m, l) = Reverse(s)
  <2> DEFINE nx == [e \in D |-> m[e].prev]
             r == Reverse(s)
  <2>1. nx \in [D -> D \cup {Null}]
    BY <1>3
  <2>2. r \in Seq(D) /\ Len(r) = Len(s) /\ \A i \in 1 .. Len(s) : r[i] = s[(Len(s) - i) + 1]
    <3>1. \A i \in 1 .. Len(s) : (Len(s) - i) + 1 \in 1 .. Len(s)
      BY <1>1
    <3>2. \A i \in 1 .. Len(s) : s[(Len(s) - i) + 1] \in D
      BY <1>1, <3>1
    <3>3. r = [i \in 1 .. Len(s) |-> s[(Len(s) - i) + 1]]
      BY DEF Reverse
    <3> HIDE DEF r
    <3>4. r \in [1 .. Len(s) -> D]
      BY <3>2, <3>3
    <3>5. r \in Seq(D) /\ Len(r) = Len(s)
      BY <1>1, <3>4, IsASeq, LenProperties
    <3> QED BY <3>3, <3>5
  <2> HIDE DEF r
  <2>3. Leads(nx, r, head(l))
    <3>1. ASSUME NEW i \in 1 .. Len(r)
          PROVE  /\ r[i] \notin {head(l), Null}
                 /\ nx[r[i]] = IF i < Len(r) THEN r[i + 1] ELSE head(l)
      <4> DEFINE j == (Len(s) - i) + 1
      <4>1. j \in 1 .. Len(s) /\ j - 1 \in 0 .. Len(s) /\ (j - 1) + 1 = j
        BY <1>1, <2>2
      <4>2. r[i] = s[j]
        BY <2>2
      <4>3. m[At(l, s, (j - 1) + 1)].prev = At(l, s, j - 1)
        <5> HIDE DEF j
        <5> QED BY <1>3, <4>1
      <4>4. nx[s[j]] = At(l, s, j - 1)
        <5> HIDE DEF j
        <5> QED BY <1>1, <1>2, <4>1, <4>3
      <4>5. CASE i < Len(r)
        <5>1. i + 1 \in 1 .. Len(s) /\ r[i + 1] = s[j - 1] /\ j - 1 \in 1 .. Len(s)
          BY <1>1, <2>2, <4>5
        <5> HIDE DEF j
        <5> QED BY <1>1, <1>2, <4>1, <4>2, <4>4, <4>5, <5>1
      <4>6. CASE ~(i < Len(r))
        <5>1. j - 1 = 0
          BY <1>1, <2>2, <4>6
        <5> HIDE DEF j
        <5> QED BY <1>1, <1>2, <4>1, <4>2, <4>4, <4>6, <5>1
      <4> QED BY <4>5, <4>6
    <3> HIDE DEF nx
    <3> QED BY <3>1 DEF Leads
  <2>4. m[tail(l)].prev = IF r = <<>> THEN head(l) ELSE r[1]
    <3>1. m[tail(l)].prev = At(l, s, Len(s))
      BY <1>1, <1>2, <1>3
    <3>2. CASE r = <<>>
      <4>1. Len(s) = 0
        BY <2>2, <3>2
      <4> QED BY <1>2, <3>1, <3>2, <4>1
    <3>3. CASE r # <<>>
      <4>1. Len(s) \in 1 .. Len(s) /\ 1 \in 1 .. Len(s)
        BY <1>1, <2>2, <3>3, EmptySeq
      <4>2. r[1] = s[Len(s)]
        BY <1>1, <2>2, <4>1
      <4> QED BY <1>2, <3>1, <3>3, <4>1, <4>2
    <3> QED BY <3>2, <3>3
  <2>5. ASSUME NEW i \in 1 .. Len(r), NEW j \in 1 .. Len(r), r[i] = r[j]
        PROVE  i = j
    <3>1. i \in Nat /\ j \in Nat /\ i \in 1 .. Len(s) /\ j \in 1 .. Len(s)
      BY <1>1, <2>2
    <3> DEFINE a == (Len(s) - i) + 1
               b == (Len(s) - j) + 1
    <3>2. a \in 1 .. Len(s) /\ b \in 1 .. Len(s) /\ (a = b => i = j)
      BY <1>1, <3>1
    <3>3. r[i] = s[a] /\ r[j] = s[b]
      BY <2>2, <3>1
    <3> HIDE DEF a, b
    <3>4. a = b
      BY <1>1, <2>5, <3>2, <3>3
    <3> QED BY <3>2, <3>4
  <2>6. ElementsBack(m, l) = Loop(nx, m[tail(l)].prev, head(l))
    BY <1>1 DEF ElementsBack, list_prev, list_rbegin, list_rend
  <2> HIDE DEF nx
  <2>7. Loop(nx, IF r = <<>> THEN head(l) ELSE r[1], head(l)) = r
    <3>1. head(l) \in D /\ r \in Seq(D)
      BY <1>1, <2>2
    <3> QED BY <2>1, <2>3, <2>5, <3>1, LoopReads
  <2> QED BY <2>4, <2>6, <2>7 DEF r
<1> QED BY <1>4, <1>5

(***************************************************************************)
(* list_insert and list_remove                                             *)
(***************************************************************************)
LEMMA PrevSet ==
  ASSUME NEW D, NEW m \in Memories(D), NEW x \in D, NEW e \in D,
         NEW w, w = [m EXCEPT ![x].prev = e]
  PROVE  /\ w \in Memories(D) /\ w[x].prev = e /\ w[x].next = m[x].next
         /\ \A y \in D : y # x => w[y] = m[y]
<1>1. m \in [D -> [prev : D \cup {Null}, next : D \cup {Null}]]
  BY DEF Memories
<1>2. m[x] \in [prev : D \cup {Null}, next : D \cup {Null}]
  BY <1>1
<1> DEFINE r == [m[x] EXCEPT !.prev = e]
<1>3. r \in [prev : D \cup {Null}, next : D \cup {Null}] /\ r.prev = e /\ r.next = m[x].next
  BY <1>2
<1>4. w = [m EXCEPT ![x] = r]
  OBVIOUS
<1> HIDE DEF r
<1>5. w \in [D -> [prev : D \cup {Null}, next : D \cup {Null}]] /\ w[x] = r
      /\ \A y \in D : y # x => w[y] = m[y]
  BY <1>1, <1>3, <1>4
<1> QED BY <1>3, <1>5 DEF Memories

LEMMA NextSet ==
  ASSUME NEW D, NEW m \in Memories(D), NEW x \in D, NEW e \in D,
         NEW w, w = [m EXCEPT ![x].next = e]
  PROVE  /\ w \in Memories(D) /\ w[x].next = e /\ w[x].prev = m[x].prev
         /\ \A y \in D : y # x => w[y] = m[y]
<1>1. m \in [D -> [prev : D \cup {Null}, next : D \cup {Null}]]
  BY DEF Memories
<1>2. m[x] \in [prev : D \cup {Null}, next : D \cup {Null}]
  BY <1>1
<1> DEFINE r == [m[x] EXCEPT !.next = e]
<1>3. r \in [prev : D \cup {Null}, next : D \cup {Null}] /\ r.next = e /\ r.prev = m[x].prev
  BY <1>2
<1>4. w = [m EXCEPT ![x] = r]
  OBVIOUS
<1> HIDE DEF r
<1>5. w \in [D -> [prev : D \cup {Null}, next : D \cup {Null}]] /\ w[x] = r
      /\ \A y \in D : y # x => w[y] = m[y]
  BY <1>1, <1>3, <1>4
<1> QED BY <1>3, <1>5 DEF Memories

(* What the links w are if e was put between p and b.                      *)
Inserted(D, m, w, p, e, b) ==
  /\ w \in Memories(D)
  /\ w[e].prev = p /\ w[e].next = b
  /\ w[p].next = e /\ w[p].prev = m[p].prev
  /\ w[b].prev = e /\ w[b].next = m[b].next
  /\ \A x \in D : x \notin {e, p, b} => w[x] = m[x]

LEMMA InsertLinks ==
  ASSUME NEW D, NEW m \in Memories(D), NEW e \in D, NEW b \in D, NEW p \in D, p = m[b].prev,
         e # b, e # p, p # b, NEW w, w = list_insert(m, b, e)
  PROVE  Inserted(D, m, w, p, e, b)
<1> DEFINE r == [prev |-> p, next |-> b]
           m1 == [m EXCEPT ![e] = r]
           m2 == [m1 EXCEPT ![p].next = e]
           m3 == [m2 EXCEPT ![b].prev = e]
<1>1. w = m3
  BY DEF list_insert
<1>2. m1 \in Memories(D) /\ m1[e].prev = p /\ m1[e].next = b
      /\ \A x \in D : x # e => m1[x] = m[x]
  <2>1. r \in [prev : D \cup {Null}, next : D \cup {Null}] /\ r.prev = p /\ r.next = b
    OBVIOUS
  <2> HIDE DEF r
  <2> QED BY <2>1 DEF Memories
<1> HIDE DEF m1
<1>3. /\ m2 \in Memories(D) /\ m2[p].next = e /\ m2[p].prev = m1[p].prev
      /\ \A y \in D : y # p => m2[y] = m1[y]
  BY <1>2, NextSet
<1> HIDE DEF m2
<1>4. /\ m3 \in Memories(D) /\ m3[b].prev = e /\ m3[b].next = m2[b].next
      /\ \A y \in D : y # b => m3[y] = m2[y]
  BY <1>3, PrevSet
<1> HIDE DEF m3
<1> QED BY <1>1, <1>2, <1>3, <1>4 DEF Inserted

(* What the links w are if what lay between p and q was taken out.         *)
Joined(D, m, w, p, q) ==
  /\ w \in Memories(D)
  /\ w[p].next = q /\ w[p].prev = m[p].prev
  /\ w[q].prev = p /\ w[q].next = m[q].next
  /\ \A x \in D : x \notin {p, q} => w[x] = m[x]

LEMMA RemoveLinks ==
  ASSUME NEW D, NEW m \in Memories(D), NEW e \in D, NEW p \in D, NEW q \in D,
         p = m[e].prev, q = m[e].next, p # q, NEW w, w = list_remove(m, e)
  PROVE  Joined(D, m, w, p, q)
<1> DEFINE m1 == [m EXCEPT ![p].next = q]
           m2 == [m1 EXCEPT ![q].prev = p]
<1>1. w = m2
  BY DEF list_remove
<1>2. /\ m1 \in Memories(D) /\ m1[p].next = q /\ m1[p].prev = m[p].prev
      /\ \A y \in D : y # p => m1[y] = m[y]
  BY NextSet
<1> HIDE DEF m1
<1>3. /\ m2 \in Memories(D) /\ m2[q].prev = p /\ m2[q].next = m1[q].next
      /\ \A y \in D : y # q => m2[y] = m1[y]
  BY <1>2, PrevSet
<1> HIDE DEF m2
<1> QED BY <1>1, <1>2, <1>3 DEF Joined

LEMMA InsertChain ==
  ASSUME NEW D, NEW m \in Memories(D), NEW l, NEW s, Chain(m, l, s), NEW e \in D,
         e \notin Cells(l, s), NEW j \in 0 .. Len(s), NEW t \in Seq(D), Len(t) = Len(s) + 1,
         \A i \in 1 .. Len(t) : t[i] = IF i <= j THEN s[i] ELSE IF i = j + 1 THEN e ELSE s[i - 1],
         NEW w, w = list_insert(m, At(l, s, j + 1), e)
  PROVE  /\ Chain(w, l, t) /\ w \in Memories(D)
         /\ \A x \in D : x \notin Cells(l, s) \cup {e} => w[x] = m[x]
<1> DEFINE p == At(l, s, j)
           b == At(l, s, j + 1)
<1>1. DOMAIN m = D
  BY DEF Memories
<1>2. /\ s \in Seq(D) /\ Len(s) \in Nat /\ DOMAIN s = 1 .. Len(s)
      /\ \A i \in 0 .. Len(s) + 1 : At(l, s, i) \in D /\ At(l, s, i) \in Cells(l, s)
      /\ \A i, k \in 0 .. Len(s) + 1 : At(l, s, i) = At(l, s, k) => i = k
      /\ At(l, s, 0) = head(l) /\ At(l, s, Len(s) + 1) = tail(l)
      /\ \A i \in 1 .. Len(s) : At(l, s, i) = s[i]
  BY <1>1, CellTypes
<1>3. p \in D /\ b \in D /\ p # b /\ p # e /\ b # e /\ m[b].prev = p
  <2>1. j \in 0 .. Len(s) + 1 /\ j + 1 \in 0 .. Len(s) + 1 /\ j # j + 1
    BY <1>2
  <2>2. m[b].prev = p
    BY CellLinks
  <2> HIDE DEF p, b
  <2> QED BY <1>2, <2>1, <2>2 DEF p, b
<1>4. Inserted(D, m, w, p, e, b)
  <2> HIDE DEF p, b
  <2> QED BY <1>3, InsertLinks DEF b
<1>5. /\ \A i \in 0 .. j : At(l, t, i) = At(l, s, i)
      /\ At(l, t, j + 1) = e
      /\ \A i \in (j + 2) .. Len(t) + 1 : At(l, t, i) = At(l, s, i - 1)
  <2>1. ASSUME NEW i \in 0 .. j PROVE At(l, t, i) = At(l, s, i)
    BY <1>2 DEF At
  <2>2. At(l, t, j + 1) = e
    BY <1>2 DEF At
  <2>3. ASSUME NEW i \in (j + 2) .. Len(t) + 1 PROVE At(l, t, i) = At(l, s, i - 1)
    BY <1>2 DEF At
  <2> QED BY <2>1, <2>2, <2>3
<1> HIDE DEF p, b
<1>6. DOMAIN w = D /\ DOMAIN t = 1 .. Len(t)
  BY <1>4 DEF Inserted, Memories
<1>7. ASSUME NEW i \in 0 .. Len(t)
      PROVE  w[At(l, t, i)].next = At(l, t, i + 1) /\ w[At(l, t, i + 1)].prev = At(l, t, i)
  <2>1. CASE i < j
    <3>1. i \in 0 .. Len(s) /\ i + 1 \in 0 .. j /\ i \in 0 .. j /\ i + 1 \in 0 .. Len(s) + 1
          /\ i # j + 1 /\ i # j /\ i + 1 # j + 1 /\ i \in 0 .. Len(s) + 1
          /\ j \in 0 .. Len(s) + 1 /\ j + 1 \in 0 .. Len(s) + 1
      BY <1>2, <2>1
    <3>2. m[At(l, s, i)].next = At(l, s, i + 1) /\ m[At(l, s, i + 1)].prev = At(l, s, i)
      BY <3>1, CellLinks
    <3>3. At(l, s, i) \notin {e, p, b} /\ At(l, s, i) \in D
      BY <1>2, <3>1 DEF p, b
    <3>4. w[At(l, s, i)].next = At(l, s, i + 1)
      BY <1>4, <3>2, <3>3 DEF Inserted
    <3>5. At(l, s, i + 1) \notin {e, b} /\ At(l, s, i + 1) \in D
      BY <1>2, <3>1 DEF b
    <3>6. w[At(l, s, i + 1)].prev = m[At(l, s, i + 1)].prev
      BY <1>4, <3>5 DEF Inserted
    <3> QED BY <1>5, <3>1, <3>2, <3>4, <3>6
  <2>2. CASE i = j
    <3>1. At(l, t, i) = p /\ At(l, t, i + 1) = e
      BY <1>5, <2>2 DEF p
    <3> QED BY <1>4, <3>1 DEF Inserted
  <2>3. CASE i = j + 1
    <3>1. At(l, t, i) = e
      BY <1>5, <2>3
    <3>2. At(l, t, i + 1) = b
      <4>1. i + 1 \in (j + 2) .. Len(t) + 1 /\ (i + 1) - 1 = j + 1
        BY <1>2, <2>3
      <4> QED BY <1>5, <4>1 DEF b
    <3> QED BY <1>4, <3>1, <3>2 DEF Inserted
  <2>4. CASE i > j + 1
    <3> DEFINE k == i - 1
    <3>1. k \in 0 .. Len(s) /\ k + 1 \in 0 .. Len(s) + 1 /\ k \in 0 .. Len(s) + 1
          /\ k # j /\ k + 1 # j + 1 /\ k + 1 # j
          /\ j \in 0 .. Len(s) + 1 /\ j + 1 \in 0 .. Len(s) + 1
      BY <1>2, <2>4
    <3>2. At(l, t, i) = At(l, s, k) /\ At(l, t, i + 1) = At(l, s, k + 1)
      <4>1. i \in (j + 2) .. Len(t) + 1 /\ i + 1 \in (j + 2) .. Len(t) + 1 /\ (i + 1) - 1 = k + 1
        BY <1>2, <2>4
      <4> QED BY <1>5, <4>1
    <3> HIDE DEF k
    <3>3. m[At(l, s, k)].next = At(l, s, k + 1) /\ m[At(l, s, k + 1)].prev = At(l, s, k)
      BY <3>1, CellLinks
    <3>4. At(l, s, k) \notin {e, p} /\ At(l, s, k) \in D
      BY <1>2, <3>1 DEF p
    <3>5. w[At(l, s, k)].next = m[At(l, s, k)].next
      BY <1>4, <3>4 DEF Inserted
    <3>6. At(l, s, k + 1) \notin {e, p, b} /\ At(l, s, k + 1) \in D
      BY <1>2, <3>1 DEF p, b
    <3>7. w[At(l, s, k + 1)] = m[At(l, s, k + 1)]
      BY <1>4, <3>6 DEF Inserted
    <3> QED BY <3>2, <3>3, <3>5, <3>7
  <2> QED BY <1>2, <2>1, <2>2, <2>3, <2>4
<1>8. w[head(l)].prev = Null /\ w[tail(l)].next = Null
  <2>1. m[head(l)].prev = Null /\ m[tail(l)].next = Null /\ head(l) \in D /\ tail(l) \in D
    BY <1>1 DEF Chain
  <2>2. head(l) # b /\ head(l) # e /\ tail(l) # p /\ tail(l) # e
    <3>1. 0 \in 0 .. Len(s) + 1 /\ Len(s) + 1 \in 0 .. Len(s) + 1 /\ j \in 0 .. Len(s) + 1
          /\ j + 1 \in 0 .. Len(s) + 1 /\ j + 1 # 0 /\ j # Len(s) + 1
      BY <1>2
    <3> QED BY <1>2, <3>1 DEF p, b
  <2> QED BY <1>4, <2>1, <2>2 DEF Inserted
<1>9. /\ \A i \in 1 .. Len(t) : t[i] \notin {head(l), tail(l)}
      /\ \A i, k \in 1 .. Len(t) : t[i] = t[k] => i = k
  <2>1. \A i \in 1 .. Len(s) : s[i] \in Cells(l, s) /\ s[i] \notin {head(l), tail(l)}
    BY <1>2 DEF Cells, ToSet, Chain
  <2>2. e \notin {head(l), tail(l)}
    BY DEF Cells
  <2>3. \A i, k \in 1 .. Len(s) : s[i] = s[k] => i = k
    BY <1>2 DEF Chain
  <2>4. \A i \in 1 .. Len(t) : i <= j => i \in 1 .. Len(s) /\ t[i] = s[i]
    BY <1>2
  <2>5. \A i \in 1 .. Len(t) : i > j + 1 => i - 1 \in 1 .. Len(s) /\ t[i] = s[i - 1]
    BY <1>2
  <2>6. \A i \in 1 .. Len(t) : i <= j \/ i = j + 1 \/ i > j + 1
    BY <1>2
  <2>7. t[j + 1] = e
    BY <1>2
  <2>8. ASSUME NEW i \in 1 .. Len(t) PROVE t[i] \notin {head(l), tail(l)}
    BY <2>1, <2>2, <2>4, <2>5, <2>6, <2>7
  <2>9. ASSUME NEW i \in 1 .. Len(t), NEW k \in 1 .. Len(t), t[i] = t[k] PROVE i = k
    <3>1. CASE i = j + 1
      BY <2>1, <2>4, <2>5, <2>6, <2>7, <2>9, <3>1
    <3>2. CASE k = j + 1
      BY <2>1, <2>4, <2>5, <2>6, <2>7, <2>9, <3>2
    <3>3. CASE i # j + 1 /\ k # j + 1
      BY <1>2, <2>3, <2>4, <2>5, <2>6, <2>9, <3>3
    <3> QED BY <3>1, <3>2, <3>3
  <2> QED BY <2>8, <2>9
<1>10. Chain(w, l, t)
  <2>1. head(l) \in D /\ tail(l) \in D
    BY <1>1 DEF Chain
  <2> QED BY <1>6, <1>7, <1>8, <1>9, <2>1 DEF Chain
<1>11. ASSUME NEW x \in D, x \notin Cells(l, s) \cup {e} PROVE w[x] = m[x]
  <2>1. p \in Cells(l, s) /\ b \in Cells(l, s)
    BY <1>2 DEF p, b
  <2> QED BY <1>4, <1>11, <2>1 DEF Inserted
<1> QED BY <1>4, <1>10, <1>11 DEF Inserted

LEMMA RemoveChain ==
  ASSUME NEW D, Null \notin D, NEW m \in Memories(D), NEW l, NEW s, Chain(m, l, s),
         NEW j \in 1 .. Len(s), NEW t \in Seq(D), Len(t) = Len(s) - 1,
         \A i \in 1 .. Len(t) : t[i] = IF i < j THEN s[i] ELSE s[i + 1],
         NEW w, w = list_remove(m, s[j])
  PROVE  /\ Chain(w, l, t) /\ w \in Memories(D) /\ is_interior(m, s[j])
         /\ \A x \in D : x \notin Cells(l, s) \ {s[j]} => w[x] = m[x]
<1> DEFINE e == s[j]
           p == At(l, s, j - 1)
           q == At(l, s, j + 1)
<1>1. DOMAIN m = D
  BY DEF Memories
<1>2. /\ s \in Seq(D) /\ Len(s) \in Nat /\ DOMAIN s = 1 .. Len(s)
      /\ \A i \in 0 .. Len(s) + 1 : At(l, s, i) \in D /\ At(l, s, i) \in Cells(l, s)
      /\ \A i, k \in 0 .. Len(s) + 1 : At(l, s, i) = At(l, s, k) => i = k
      /\ At(l, s, 0) = head(l) /\ At(l, s, Len(s) + 1) = tail(l)
      /\ \A i \in 1 .. Len(s) : At(l, s, i) = s[i]
  BY <1>1, CellTypes
<1>3. /\ j \in 0 .. Len(s) + 1 /\ j - 1 \in 0 .. Len(s) + 1 /\ j + 1 \in 0 .. Len(s) + 1
      /\ j \in 0 .. Len(s) /\ j - 1 \in 0 .. Len(s) /\ (j - 1) + 1 = j /\ j - 1 # j + 1
      /\ j - 1 # j /\ j + 1 # j
  BY <1>2
<1>4. p \in D /\ q \in D /\ e \in D /\ p # q /\ e # p /\ e # q /\ e = At(l, s, j)
      /\ p \in Cells(l, s) /\ q \in Cells(l, s)
  <2>1. e = At(l, s, j)
    BY <1>2
  <2> HIDE DEF e
  <2> QED BY <1>2, <1>3, <2>1
<1>5. m[e].prev = p /\ m[e].next = q
  <2>1. m[At(l, s, j)].next = At(l, s, j + 1)
    BY <1>3, CellLinks
  <2>2. m[At(l, s, (j - 1) + 1)].prev = At(l, s, j - 1)
    <3> DEFINE k == j - 1
    <3>1. k \in 0 .. Len(s)
      BY <1>3
    <3> HIDE DEF k
    <3>2. m[At(l, s, k + 1)].prev = At(l, s, k)
      BY <3>1, CellLinks
    <3> QED BY <3>2 DEF k
  <2> HIDE DEF e
  <2> QED BY <1>3, <1>4, <2>1, <2>2
<1>6. Joined(D, m, w, p, q)
  <2> HIDE DEF p, q
  <2> QED BY <1>4, <1>5, RemoveLinks DEF e
<1>7. /\ \A i \in 0 .. (j - 1) : At(l, t, i) = At(l, s, i)
      /\ \A i \in j .. Len(t) + 1 : At(l, t, i) = At(l, s, i + 1)
  <2>1. ASSUME NEW i \in 0 .. (j - 1) PROVE At(l, t, i) = At(l, s, i)
    BY <1>2 DEF At
  <2>2. ASSUME NEW i \in j .. Len(t) + 1 PROVE At(l, t, i) = At(l, s, i + 1)
    BY <1>2 DEF At
  <2> QED BY <2>1, <2>2
<1> HIDE DEF e, p, q
<1>8. DOMAIN w = D /\ DOMAIN t = 1 .. Len(t)
  BY <1>6 DEF Joined, Memories
<1>9. ASSUME NEW i \in 0 .. Len(t)
      PROVE  w[At(l, t, i)].next = At(l, t, i + 1) /\ w[At(l, t, i + 1)].prev = At(l, t, i)
  <2>1. CASE i < j - 1
    <3>1. i \in 0 .. Len(s) /\ i + 1 \in 0 .. (j - 1) /\ i \in 0 .. (j - 1)
          /\ i + 1 \in 0 .. Len(s) + 1 /\ i \in 0 .. Len(s) + 1
          /\ i # j + 1 /\ i # j - 1 /\ i + 1 # j + 1
      BY <1>2, <2>1
    <3>2. m[At(l, s, i)].next = At(l, s, i + 1) /\ m[At(l, s, i + 1)].prev = At(l, s, i)
      BY <3>1, CellLinks
    <3>3. At(l, s, i) \notin {p, q} /\ At(l, s, i) \in D
      BY <1>2, <1>3, <3>1 DEF p, q
    <3>4. At(l, s, i + 1) # q /\ At(l, s, i + 1) \in D
      BY <1>2, <1>3, <3>1 DEF q
    <3>5. w[At(l, s, i)].next = m[At(l, s, i)].next
      BY <1>6, <3>3 DEF Joined
    <3>6. w[At(l, s, i + 1)].prev = m[At(l, s, i + 1)].prev
      BY <1>6, <3>4 DEF Joined
    <3> QED BY <1>7, <3>1, <3>2, <3>5, <3>6
  <2>2. CASE i = j - 1
    <3>1. At(l, t, i) = p
      BY <1>3, <1>7, <2>2 DEF p
    <3>2. At(l, t, i + 1) = q
      <4>1. i + 1 \in j .. Len(t) + 1 /\ (i + 1) + 1 = j + 1
        BY <1>2, <2>2
      <4> QED BY <1>7, <4>1 DEF q
    <3> QED BY <1>6, <3>1, <3>2 DEF Joined
  <2>3. CASE i > j - 1
    <3> DEFINE k == i + 1
    <3>1. k \in 0 .. Len(s) /\ k + 1 \in 0 .. Len(s) + 1 /\ k \in 0 .. Len(s) + 1
          /\ k # j - 1 /\ k + 1 # j + 1 /\ k + 1 # j - 1
      BY <1>2, <2>3
    <3>2. At(l, t, i) = At(l, s, k) /\ At(l, t, i + 1) = At(l, s, k + 1)
      <4>1. i \in j .. Len(t) + 1 /\ i + 1 \in j .. Len(t) + 1
        BY <1>2, <2>3
      <4> QED BY <1>7, <4>1
    <3> HIDE DEF k
    <3>3. m[At(l, s, k)].next = At(l, s, k + 1) /\ m[At(l, s, k + 1)].prev = At(l, s, k)
      BY <3>1, CellLinks
    <3>4. At(l, s, k) # p /\ At(l, s, k) \in D
      BY <1>2, <1>3, <3>1 DEF p
    <3>5. w[At(l, s, k)].next = m[At(l, s, k)].next
      BY <1>6, <3>4 DEF Joined
    <3>6. At(l, s, k + 1) \notin {p, q} /\ At(l, s, k + 1) \in D
      BY <1>2, <1>3, <3>1 DEF p, q
    <3>7. w[At(l, s, k + 1)] = m[At(l, s, k + 1)]
      BY <1>6, <3>6 DEF Joined
    <3> QED BY <3>2, <3>3, <3>5, <3>7
  <2> QED BY <1>2, <2>1, <2>2, <2>3
<1>10. w[head(l)].prev = Null /\ w[tail(l)].next = Null
  <2>1. m[head(l)].prev = Null /\ m[tail(l)].next = Null /\ head(l) \in D /\ tail(l) \in D
    BY <1>1 DEF Chain
  <2>2. head(l) # q /\ tail(l) # p
    <3>1. 0 \in 0 .. Len(s) + 1 /\ Len(s) + 1 \in 0 .. Len(s) + 1
          /\ j + 1 # 0 /\ j - 1 # Len(s) + 1
      BY <1>2
    <3> QED BY <1>2, <1>3, <3>1 DEF p, q
  <2> QED BY <1>6, <2>1, <2>2 DEF Joined
<1>11. /\ \A i \in 1 .. Len(t) : t[i] \notin {head(l), tail(l)} /\ t[i] # e
       /\ \A i, k \in 1 .. Len(t) : t[i] = t[k] => i = k
  <2>1. \A i \in 1 .. Len(s) : s[i] \notin {head(l), tail(l)}
    BY <1>2 DEF Chain
  <2>2. \A i, k \in 1 .. Len(s) : s[i] = s[k] => i = k
    BY <1>2 DEF Chain
  <2>3. \A i \in 1 .. Len(t) : i < j => i \in 1 .. Len(s) /\ t[i] = s[i]
    BY <1>2
  <2>4. \A i \in 1 .. Len(t) : ~(i < j) => i + 1 \in 1 .. Len(s) /\ t[i] = s[i + 1]
    BY <1>2
  <2>5. ASSUME NEW i \in 1 .. Len(t) PROVE t[i] \notin {head(l), tail(l)} /\ t[i] # e
    BY <1>2, <2>1, <2>2, <2>3, <2>4 DEF e
  <2>6. ASSUME NEW i \in 1 .. Len(t), NEW k \in 1 .. Len(t), t[i] = t[k] PROVE i = k
    BY <1>2, <2>2, <2>3, <2>4, <2>6
  <2> QED BY <2>5, <2>6
<1>12. Chain(w, l, t)
  <2>1. head(l) \in D /\ tail(l) \in D
    BY <1>1 DEF Chain
  <2> QED BY <1>8, <1>9, <1>10, <1>11, <2>1 DEF Chain
<1>13. ASSUME NEW x \in D, x \notin Cells(l, s) \ {e} PROVE w[x] = m[x]
  BY <1>4, <1>6, <1>13 DEF Joined
<1>14. is_interior(m, e)
  BY <1>4, <1>5 DEF is_interior
<1> QED BY <1>6, <1>12, <1>13, <1>14 DEF Joined, e

(* A list that no link of was changed is what it was.                      *)
LEMMA SameChain ==
  ASSUME NEW D, NEW m \in Memories(D), NEW w \in Memories(D), NEW l, NEW s, Chain(m, l, s),
         \A x \in D : x \in Cells(l, s) => w[x] = m[x]
  PROVE  Chain(w, l, s)
<1>1. DOMAIN m = D /\ DOMAIN w = D
  BY DEF Memories
<1>2. /\ s \in Seq(D) /\ Len(s) \in Nat /\ DOMAIN s = 1 .. Len(s)
      /\ \A i \in 0 .. Len(s) + 1 : At(l, s, i) \in D /\ At(l, s, i) \in Cells(l, s)
  BY <1>1, CellTypes
<1>3. ASSUME NEW i \in 0 .. Len(s)
      PROVE  w[At(l, s, i)].next = At(l, s, i + 1) /\ w[At(l, s, i + 1)].prev = At(l, s, i)
  <2>1. m[At(l, s, i)].next = At(l, s, i + 1) /\ m[At(l, s, i + 1)].prev = At(l, s, i)
    BY CellLinks
  <2>2. i \in 0 .. Len(s) + 1 /\ i + 1 \in 0 .. Len(s) + 1
    BY <1>2
  <2> QED BY <1>2, <2>1, <2>2
<1>4. /\ head(l) \in D /\ tail(l) \in D
      /\ \A i \in DOMAIN s : s[i] \notin {head(l), tail(l)}
      /\ \A i, j \in DOMAIN s : s[i] = s[j] => i = j
      /\ m[head(l)].prev = Null /\ m[tail(l)].next = Null
  BY <1>1 DEF Chain
<1>5. w[head(l)] = m[head(l)] /\ w[tail(l)] = m[tail(l)]
  BY <1>4 DEF Cells
<1> QED BY <1>1, <1>2, <1>3, <1>4, <1>5 DEF Chain

LEMMA InitChain ==
  ASSUME NEW D, NEW m \in Memories(D), NEW l, head(l) \in D, tail(l) \in D,
         m[head(l)] = [prev |-> Null, next |-> tail(l)],
         m[tail(l)] = [prev |-> head(l), next |-> Null]
  PROVE  Chain(m, l, <<>>)
<1>1. /\ DOMAIN m = D /\ <<>> \in Seq(D) /\ Len(<<>>) = 0 /\ DOMAIN <<>> = {}
  BY DEF Memories
<1>2. At(l, <<>>, 0) = head(l) /\ At(l, <<>>, 0 + 1) = tail(l)
  BY <1>1 DEF At
<1>3. \A i \in 0 .. Len(<<>>) : i = 0
  BY <1>1
<1> QED BY <1>1, <1>2, <1>3 DEF Chain

(***************************************************************************)
(* The functions that take a list                                          *)
(***************************************************************************)
LEMMA EmptyList ==
  ASSUME NEW m, NEW l, NEW s, Chain(m, l, s)
  PROVE  list_empty(m, l) <=> s = <<>>
<1>1. /\ Len(s) \in Nat /\ At(l, s, 0) = head(l) /\ At(l, s, Len(s) + 1) = tail(l)
      /\ \A i, j \in 0 .. Len(s) + 1 : At(l, s, i) = At(l, s, j) => i = j
      /\ s \in Seq(DOMAIN m)
  BY CellTypes
<1>2. m[At(l, s, 0)].next = At(l, s, 0 + 1)
  BY <1>1, CellLinks
<1>3. 1 \in 0 .. Len(s) + 1 /\ Len(s) + 1 \in 0 .. Len(s) + 1 /\ 0 + 1 = 1
  BY <1>1
<1>4. m[head(l)].next = tail(l) <=> Len(s) + 1 = 1
  BY <1>1, <1>2, <1>3
<1>5. Len(s) = 0 <=> s = <<>>
  BY <1>1, EmptySeq
<1> QED BY <1>1, <1>4, <1>5 DEF list_empty, list_begin, list_end

(* The links w, in which the list l of s became that of t, and no cell but *)
(* those in C was touched.                                                 *)
Changed(D, m, w, l, t, C) ==
  Chain(w, l, t) /\ w \in Memories(D) /\ \A x \in D : x \notin C => w[x] = m[x]

LEMMA PushBack ==
  ASSUME NEW D, NEW m \in Memories(D), NEW l, NEW s, Chain(m, l, s), NEW e \in D,
         e \notin Cells(l, s)
  PROVE  Changed(D, m, list_push_back(m, l, e), l, Append(s, e), Cells(l, s) \cup {e})
<1> DEFINE t == Append(s, e)
           w == list_push_back(m, l, e)
<1>1. s \in Seq(D) /\ Len(s) \in Nat /\ At(l, s, Len(s) + 1) = tail(l) /\ Len(s) \in 0 .. Len(s)
  <2>1. DOMAIN m = D
    BY DEF Memories
  <2> QED BY <2>1, CellTypes
<1>2. t \in Seq(D) /\ Len(t) = Len(s) + 1 /\ t[Len(s) + 1] = e
      /\ \A i \in 1 .. Len(s) : t[i] = s[i]
  BY <1>1, AppendProperties
<1>3. w = list_insert(m, At(l, s, Len(s) + 1), e)
  BY <1>1 DEF list_push_back, list_end
<1> HIDE DEF t, w
<1>4. \A i \in 1 .. Len(t) :
        t[i] = IF i <= Len(s) THEN s[i] ELSE IF i = Len(s) + 1 THEN e ELSE s[i - 1]
  BY <1>1, <1>2
<1>5. /\ Chain(w, l, t) /\ w \in Memories(D)
      /\ \A x \in D : x \notin Cells(l, s) \cup {e} => w[x] = m[x]
  BY <1>1, <1>2, <1>3, <1>4, InsertChain
<1> QED BY <1>5 DEF Changed, t, w

LEMMA PushFront ==
  ASSUME NEW D, NEW m \in Memories(D), NEW l, NEW s, Chain(m, l, s), NEW e \in D,
         e \notin Cells(l, s)
  PROVE  Changed(D, m, list_push_front(m, l, e), l, <<e>> \o s, Cells(l, s) \cup {e})
<1> DEFINE t == <<e>> \o s
           w == list_push_front(m, l, e)
<1>1. s \in Seq(D) /\ Len(s) \in Nat /\ At(l, s, 0) = head(l) /\ 0 \in 0 .. Len(s)
  <2>1. DOMAIN m = D
    BY DEF Memories
  <2> QED BY <2>1, CellTypes
<1>2. t \in Seq(D) /\ Len(t) = Len(s) + 1 /\ t[1] = e /\ \A i \in 2 .. Len(s) + 1 : t[i] = s[i - 1]
  <2>1. <<e>> \in Seq(D) /\ Len(<<e>>) = 1 /\ <<e>>[1] = e
    OBVIOUS
  <2> QED BY <1>1, <2>1, ConcatProperties
<1>3. w = list_insert(m, At(l, s, 0 + 1), e)
  <2>1. m[At(l, s, 0)].next = At(l, s, 0 + 1)
    BY <1>1, CellLinks
  <2> QED BY <1>1, <2>1 DEF list_push_front, list_begin
<1> HIDE DEF t, w
<1>4. \A i \in 1 .. Len(t) :
        t[i] = IF i <= 0 THEN s[i] ELSE IF i = 0 + 1 THEN e ELSE s[i - 1]
  BY <1>1, <1>2
<1>5. /\ Chain(w, l, t) /\ w \in Memories(D)
      /\ \A x \in D : x \notin Cells(l, s) \cup {e} => w[x] = m[x]
  BY <1>1, <1>2, <1>3, <1>4, InsertChain
<1> QED BY <1>5 DEF Changed, t, w

(* t is s without e.                                                       *)
Without(t, s, e) == Len(t) = Len(s) - 1 /\ ToSet(t) = ToSet(s) \ {e}

LEMMA Removes ==
  ASSUME NEW D, Null \notin D, NEW m \in Memories(D), NEW l, NEW s, Chain(m, l, s),
         NEW j \in 1 .. Len(s), NEW e, e = s[j], NEW w, w = list_remove(m, e),
         NEW t, t = RemoveAt(s, j), NEW C, C = Cells(l, s) \ {e}
  PROVE  Changed(D, m, w, l, t, C) /\ Without(t, s, e)
<1> DEFINE n == Len(s)
           a == SubSeq(s, 1, j - 1)
           b == SubSeq(s, j + 1, n)
<1>1. s \in Seq(D) /\ n \in Nat /\ DOMAIN s = 1 .. n
      /\ \A i, k \in 1 .. n : s[i] = s[k] => i = k
  <2>1. DOMAIN m = D
    BY DEF Memories
  <2> QED BY <2>1 DEF Chain
<1>0. j \in 1 .. n
  OBVIOUS
<1>2. a \in Seq(D) /\ Len(a) = j - 1 /\ \A i \in 1 .. (j - 1) : a[i] = s[i]
  <2>1. \A i \in 1 .. (j - 1) : s[i] \in D
    BY <1>1, <1>0
  <2>2. /\ a \in Seq(D) /\ Len(a) = IF 1 <= j - 1 THEN (j - 1) - 1 + 1 ELSE 0
        /\ \A i \in 1 .. (j - 1) - 1 + 1 : a[i] = s[1 + i - 1]
    <3> HIDE DEF n
    <3> QED BY <1>1, <1>0, <2>1, SubSeqProperties
  <2> HIDE DEF a, n
  <2> QED BY <1>1, <1>0, <2>2
<1>3. b \in Seq(D) /\ Len(b) = n - j /\ \A i \in 1 .. (n - j) : b[i] = s[j + i]
  <2>1. \A i \in (j + 1) .. n : s[i] \in D
    BY <1>1, <1>0
  <2>2. /\ b \in Seq(D) /\ Len(b) = IF j + 1 <= n THEN n - (j + 1) + 1 ELSE 0
        /\ \A i \in 1 .. n - (j + 1) + 1 : b[i] = s[(j + 1) + i - 1]
    <3> HIDE DEF n
    <3> QED BY <1>1, <1>0, <2>1, SubSeqProperties
  <2> HIDE DEF b, n
  <2> QED BY <1>1, <1>0, <2>2
<1>4. t = a \o b
  BY DEF RemoveAt
<1> HIDE DEF a, b, n
<1>5. t \in Seq(D) /\ Len(t) = n - 1
      /\ \A i \in 1 .. Len(t) : t[i] = IF i < j THEN s[i] ELSE s[i + 1]
  <2>1. /\ Len(t) = Len(a) + Len(b) /\ t \in Seq(D)
        /\ \A i \in 1 .. Len(a) : t[i] = a[i]
        /\ \A i \in Len(a) + 1 .. Len(a) + Len(b) : t[i] = b[i - Len(a)]
    <3>1. a \in Seq(D) /\ b \in Seq(D)
      BY <1>2, <1>3
    <3> QED BY <1>4, <3>1, ConcatProperties
  <2>2. Len(t) = n - 1
    BY <1>1, <1>2, <1>3, <2>1 DEF n
  <2>3. ASSUME NEW i \in 1 .. Len(t), i < j PROVE t[i] = s[i]
    BY <1>1, <1>2, <2>1, <2>2, <2>3 DEF n
  <2>4. ASSUME NEW i \in 1 .. Len(t), ~(i < j) PROVE t[i] = s[i + 1]
    <3> DEFINE k == i - Len(a)
    <3>1. i \in Len(a) + 1 .. Len(a) + Len(b) /\ k \in 1 .. (n - j) /\ j + k = i + 1
      BY <1>1, <1>2, <1>3, <2>1, <2>2, <2>4 DEF n
    <3>2. t[i] = b[k]
      BY <2>1, <3>1
    <3> HIDE DEF k
    <3> QED BY <1>3, <3>1, <3>2
  <2> QED BY <2>1, <2>2, <2>3, <2>4
<1>6. /\ Chain(w, l, t) /\ w \in Memories(D)
      /\ \A x \in D : x \notin Cells(l, s) \ {s[j]} => w[x] = m[x]
  BY <1>5, RemoveChain DEF n
<1>7. ToSet(t) = ToSet(s) \ {e}
  <2>1. DOMAIN t = 1 .. Len(t) /\ j \in 1 .. n
    BY <1>5 DEF n
  <2>2. ASSUME NEW x \in ToSet(t) PROVE x \in ToSet(s) \ {s[j]}
    <3>1. PICK i \in 1 .. Len(t) : x = t[i]
      BY <2>1 DEF ToSet
    <3>2. CASE i < j
      <4>1. x = s[i] /\ i \in 1 .. n /\ i # j
        BY <1>1, <1>5, <2>1, <3>1, <3>2
      <4> QED BY <1>1, <2>1, <4>1 DEF ToSet
    <3>3. CASE ~(i < j)
      <4>1. x = s[i + 1] /\ i + 1 \in 1 .. n /\ i + 1 # j
        BY <1>1, <1>5, <2>1, <3>1, <3>3
      <4> QED BY <1>1, <2>1, <4>1 DEF ToSet
    <3> QED BY <3>2, <3>3
  <2>3. ASSUME NEW x \in ToSet(s) \ {s[j]} PROVE x \in ToSet(t)
    <3>1. PICK i \in 1 .. n : x = s[i] /\ i # j
      BY <1>1 DEF ToSet
    <3>2. CASE i < j
      <4>1. i \in 1 .. Len(t) /\ t[i] = x
        BY <1>1, <1>5, <2>1, <3>1, <3>2
      <4> QED BY <2>1, <4>1 DEF ToSet
    <3>3. CASE ~(i < j)
      <4> DEFINE k == i - 1
      <4>1. k \in 1 .. Len(t) /\ ~(k < j) /\ k + 1 = i
        BY <1>1, <1>5, <2>1, <3>1, <3>3
      <4> HIDE DEF k
      <4>2. t[k] = x
        BY <1>5, <3>1, <4>1
      <4> QED BY <2>1, <4>1, <4>2 DEF ToSet
    <3> QED BY <3>2, <3>3
  <2> QED BY <2>2, <2>3
<1>8. Changed(D, m, w, l, t, C)
  BY <1>6 DEF Changed
<1>9. Len(t) = Len(s) - 1
  BY <1>5 DEF n
<1> QED BY <1>7, <1>8, <1>9 DEF Without

LEMMA PopFront ==
  ASSUME NEW D, Null \notin D, NEW m \in Memories(D), NEW l, NEW s, Chain(m, l, s), s # <<>>
  PROVE  /\ 1 \in 1 .. Len(s) /\ list_front(m, l) = s[1] /\ RemoveAt(s, 1) = Tail(s)
         /\ list_pop_front(m, l) = list_remove(m, s[1])
<1>1. s \in Seq(DOMAIN m) /\ Len(s) \in Nat /\ At(l, s, 0) = head(l)
      /\ \A i \in 1 .. Len(s) : At(l, s, i) = s[i]
  BY CellTypes
<1>2. 1 \in 1 .. Len(s)
  BY <1>1, EmptySeq
<1>3. list_front(m, l) = s[1]
  <2>1. m[At(l, s, 0)].next = At(l, s, 0 + 1)
    BY <1>1, CellLinks
  <2> QED BY <1>1, <1>2, <2>1 DEF list_front
<1>4. RemoveAt(s, 1) = Tail(s)
  <2>1. SubSeq(s, 1, 1 - 1) = <<>>
    BY SubSeqEmpty
  <2>2. SubSeq(s, 1 + 1, Len(s)) = Tail(s)
    BY <1>1, TailIsSubSeq
  <2>3. Tail(s) \in Seq(DOMAIN m)
    BY <1>1, HeadTailProperties
  <2>4. <<>> \o Tail(s) = Tail(s)
    BY <2>3, ConcatEmptySeq
  <2> QED BY <2>1, <2>2, <2>4 DEF RemoveAt
<1> QED BY <1>2, <1>3, <1>4 DEF list_pop_front

LEMMA PopBack ==
  ASSUME NEW D, Null \notin D, NEW m \in Memories(D), NEW l, NEW s, Chain(m, l, s), s # <<>>
  PROVE  /\ Len(s) \in 1 .. Len(s) /\ list_back(m, l) = s[Len(s)]
         /\ RemoveAt(s, Len(s)) = Front(s) /\ Last(s) = s[Len(s)]
         /\ list_pop_back(m, l) = list_remove(m, s[Len(s)])
<1> DEFINE n == Len(s)
<1>1. s \in Seq(DOMAIN m) /\ n \in Nat /\ At(l, s, n + 1) = tail(l)
      /\ \A i \in 1 .. n : At(l, s, i) = s[i]
  BY CellTypes
<1>2. n \in 1 .. n /\ n \in 0 .. n
  BY <1>1, EmptySeq
<1>3. list_back(m, l) = s[n]
  <2>1. m[At(l, s, n + 1)].prev = At(l, s, n)
    BY <1>2, CellLinks
  <2> HIDE DEF n
  <2> QED BY <1>1, <1>2, <2>1 DEF list_back
<1>4. RemoveAt(s, n) = Front(s)
  <2>1. SubSeq(s, n + 1, n) = <<>>
    <3> HIDE DEF n
    <3> QED BY <1>1, SubSeqEmpty
  <2>2. SubSeq(s, 1, n - 1) \in Seq(DOMAIN m)
    <3> HIDE DEF n
    <3>1. \A i \in 1 .. (n - 1) : s[i] \in DOMAIN m
      BY <1>1 DEF n
    <3> QED BY <1>1, <3>1, SubSeqProperties
  <2>3. SubSeq(s, 1, n - 1) \o <<>> = SubSeq(s, 1, n - 1)
    BY <2>2, ConcatEmptySeq
  <2> QED BY <2>1, <2>3 DEF RemoveAt, Front
<1> QED BY <1>2, <1>3, <1>4 DEF list_pop_back, Last

LEMMA ReverseTwice ==
  ASSUME NEW D, NEW s \in Seq(D)
  PROVE  Reverse(Reverse(s)) = s
<1> DEFINE n == Len(s)
           r == Reverse(s)
<1>1. n \in Nat /\ s = [i \in 1 .. n |-> s[i]]
  OBVIOUS
<1>2. r = [i \in 1 .. n |-> s[(n - i) + 1]]
  BY DEF Reverse
<1>3. r \in [1 .. n -> D]
  <2>1. \A i \in 1 .. n : (n - i) + 1 \in 1 .. n
    BY <1>1
  <2> QED BY <1>2, <2>1
<1> HIDE DEF r
<1>4. Len(r) = n
  BY <1>1, <1>3
<1>5. \A i \in 1 .. n : r[(n - i) + 1] = s[i]
  <2>1. \A i \in 1 .. n : (n - i) + 1 \in 1 .. n /\ (n - ((n - i) + 1)) + 1 = i
    BY <1>1
  <2> QED BY <1>2, <2>1
<1>6. Reverse(r) = [i \in 1 .. n |-> r[(n - i) + 1]]
  BY <1>4 DEF Reverse
<1> QED BY <1>1, <1>5, <1>6 DEF r

(***************************************************************************)
(* The lists K that share the memory D, of the elements E                  *)
(***************************************************************************)
LEMMA ArenaCells ==
  ASSUME NEW D, NEW K, NEW E, Arena(D, K, E)
  PROVE  /\ IsFiniteSet(D) /\ Null \notin D /\ E \subseteq D
         /\ \A l \in K : /\ head(l) \in D /\ tail(l) \in D /\ head(l) # tail(l)
                        /\ head(l) \notin E /\ tail(l) \notin E
         /\ \A l, k \in K : k # l => {head(l), tail(l)} \cap {head(k), tail(k)} = {}
<1>1. \A l : head(l) # tail(l)
  BY DEF head, tail
<1>2. \A l, k : k # l => {head(l), tail(l)} \cap {head(k), tail(k)} = {}
  BY DEF head, tail
<1> QED BY <1>1, <1>2 DEF Arena

LEMMA ArenaReads ==
  ASSUME NEW D, NEW K, NEW E, Arena(D, K, E), NEW m \in Memories(D), NEW l, NEW s, Chain(m, l, s)
  PROVE  Elements(m, l) = s /\ ElementsBack(m, l) = Reverse(s)
BY ArenaCells, ChainReads

LEMMA MorePushed ==
  ASSUME NEW D, NEW s \in Seq(D), NEW e \in D
  PROVE  /\ ToSet(Append(s, e)) = ToSet(s) \cup {e} /\ Len(Append(s, e)) = Len(s) + 1
         /\ ToSet(<<e>> \o s) = ToSet(s) \cup {e} /\ Len(<<e>> \o s) = Len(s) + 1
<1> DEFINE t == Append(s, e)
           u == <<e>> \o s
<1>1. Len(s) \in Nat /\ DOMAIN s = 1 .. Len(s)
  OBVIOUS
<1>2. /\ t \in Seq(D) /\ Len(t) = Len(s) + 1 /\ t[Len(s) + 1] = e
      /\ \A i \in 1 .. Len(s) : t[i] = s[i]
  BY AppendProperties
<1>3. /\ u \in Seq(D) /\ Len(u) = Len(s) + 1 /\ u[1] = e
      /\ \A i \in 2 .. Len(s) + 1 : u[i] = s[i - 1]
  <2>1. <<e>> \in Seq(D) /\ Len(<<e>>) = 1 /\ <<e>>[1] = e
    OBVIOUS
  <2> QED BY <2>1, ConcatProperties
<1> HIDE DEF t, u
<1>4. DOMAIN t = 1 .. Len(s) + 1 /\ DOMAIN u = 1 .. Len(s) + 1
  BY <1>1, <1>2, <1>3
<1>5. ToSet(t) = ToSet(s) \cup {e}
  <2>1. ASSUME NEW x \in ToSet(t) PROVE x \in ToSet(s) \cup {e}
    <3>1. PICK i \in 1 .. Len(s) + 1 : x = t[i]
      BY <1>4 DEF ToSet
    <3>2. i = Len(s) + 1 \/ i \in 1 .. Len(s)
      BY <1>1
    <3> QED BY <1>1, <1>2, <3>1, <3>2 DEF ToSet
  <2>2. ASSUME NEW x \in ToSet(s) PROVE x \in ToSet(t)
    <3>1. PICK i \in 1 .. Len(s) : x = s[i]
      BY <1>1 DEF ToSet
    <3>2. i \in 1 .. Len(s) + 1 /\ t[i] = x
      BY <1>1, <1>2, <3>1
    <3> QED BY <1>4, <3>2 DEF ToSet
  <2>3. e \in ToSet(t)
    <3>1. Len(s) + 1 \in 1 .. Len(s) + 1
      BY <1>1
    <3> QED BY <1>2, <1>4, <3>1 DEF ToSet
  <2> QED BY <2>1, <2>2, <2>3
<1>6. ToSet(u) = ToSet(s) \cup {e}
  <2>1. ASSUME NEW x \in ToSet(u) PROVE x \in ToSet(s) \cup {e}
    <3>1. PICK i \in 1 .. Len(s) + 1 : x = u[i]
      BY <1>4 DEF ToSet
    <3>2. i = 1 \/ (i \in 2 .. Len(s) + 1 /\ i - 1 \in 1 .. Len(s))
      BY <1>1
    <3> QED BY <1>1, <1>3, <3>1, <3>2 DEF ToSet
  <2>2. ASSUME NEW x \in ToSet(s) PROVE x \in ToSet(u)
    <3>1. PICK i \in 1 .. Len(s) : x = s[i]
      BY <1>1 DEF ToSet
    <3>2. i + 1 \in 2 .. Len(s) + 1 /\ i + 1 \in 1 .. Len(s) + 1 /\ (i + 1) - 1 = i
      BY <1>1
    <3>3. u[i + 1] = x
      BY <1>3, <3>1, <3>2
    <3> QED BY <1>4, <3>2, <3>3 DEF ToSet
  <2>3. e \in ToSet(u)
    <3>1. 1 \in 1 .. Len(s) + 1
      BY <1>1
    <3> QED BY <1>3, <1>4, <3>1 DEF ToSet
  <2> QED BY <2>1, <2>2, <2>3
<1> QED BY <1>2, <1>3, <1>5, <1>6 DEF t, u

LEMMA LinkedParts ==
  ASSUME NEW D, NEW K, NEW E, Arena(D, K, E), NEW m \in Memories(D), Linked(m, K, E),
         NEW l \in K
  PROVE  /\ Chain(m, l, Elements(m, l)) /\ ToSet(Elements(m, l)) \subseteq E
         /\ Elements(m, l) \in Seq(E)
         /\ \A k \in K : k # l =>
              /\ ToSet(Elements(m, l)) \cap ToSet(Elements(m, k)) = {}
              /\ Cells(l, Elements(m, l)) \cap Cells(k, Elements(m, k)) = {}
<1>1. /\ Chain(m, l, Elements(m, l)) /\ ToSet(Elements(m, l)) \subseteq E
      /\ \A k \in K : k # l =>
           ToSet(Elements(m, l)) \cap ToSet(Elements(m, k)) = {}
           /\ ToSet(Elements(m, k)) \subseteq E
  BY DEF Linked
<1>2. ASSUME NEW k \in K, k # l
      PROVE  Cells(l, Elements(m, l)) \cap Cells(k, Elements(m, k)) = {}
  <2>1. /\ {head(l), tail(l)} \cap {head(k), tail(k)} = {}
        /\ head(l) \notin E /\ tail(l) \notin E
        /\ head(k) \notin E /\ tail(k) \notin E
    BY <1>2, ArenaCells
  <2> QED BY <1>1, <1>2, <2>1 DEF Cells
<1>3. Elements(m, l) \in Seq(E)
  <2> DEFINE s == Elements(m, l)
  <2>1. s \in Seq(DOMAIN m) /\ \A i \in 1 .. Len(s) : s[i] \in E
    <3> HIDE DEF s
    <3>1. s \in Seq(DOMAIN m) /\ DOMAIN s = 1 .. Len(s)
      BY <1>1 DEF Chain, s
    <3> QED BY <1>1, <3>1 DEF ToSet, s
  <2> HIDE DEF s
  <2>2. s = [i \in 1 .. Len(s) |-> s[i]] /\ Len(s) \in Nat
    BY <2>1
  <2>3. s \in [1 .. Len(s) -> E]
    BY <2>1, <2>2
  <2>4. s \in Seq(E)
    BY <2>2, <2>3, IsASeq
  <2> QED BY <2>4 DEF s
<1> QED BY <1>1, <1>2, <1>3

(* One list became that of t, and only cells in C were touched.            *)
LEMMA LinkedChange ==
  ASSUME NEW D, NEW K, NEW E, Arena(D, K, E), NEW m \in Memories(D), Linked(m, K, E),
         NEW l \in K, NEW w, NEW t, NEW C,
         Changed(D, m, w, l, t, C), ToSet(t) \subseteq E,
         \A k \in K : k # l =>
           /\ C \cap Cells(k, Elements(m, k)) = {}
           /\ ToSet(t) \cap ToSet(Elements(m, k)) = {}
  PROVE  /\ w \in Memories(D) /\ Linked(w, K, E) /\ Elements(w, l) = t
         /\ \A k \in K : k # l => Elements(w, k) = Elements(m, k)
<1>1. Chain(w, l, t) /\ w \in Memories(D) /\ \A x \in D : x \notin C => w[x] = m[x]
  BY DEF Changed
<1>2. Elements(w, l) = t
  BY <1>1, ArenaReads
<1>3. ASSUME NEW k \in K, k # l
      PROVE  /\ Elements(w, k) = Elements(m, k) /\ Chain(w, k, Elements(w, k))
             /\ ToSet(Elements(m, k)) \subseteq E
  <2>1. Chain(m, k, Elements(m, k)) /\ ToSet(Elements(m, k)) \subseteq E
    BY LinkedParts
  <2>2. \A x \in D : x \in Cells(k, Elements(m, k)) => w[x] = m[x]
    BY <1>1, <1>3
  <2>3. Chain(w, k, Elements(m, k))
    BY <1>1, <2>1, <2>2, SameChain
  <2>4. Elements(w, k) = Elements(m, k)
    BY <1>1, <2>3, ArenaReads
  <2> QED BY <2>1, <2>3, <2>4
<1>4. ASSUME NEW k \in K
      PROVE  Chain(w, k, Elements(w, k)) /\ ToSet(Elements(w, k)) \subseteq E
  BY <1>1, <1>2, <1>3
<1>5. ASSUME NEW k \in K, NEW j \in K, k # j
      PROVE  ToSet(Elements(w, k)) \cap ToSet(Elements(w, j)) = {}
  <2>1. CASE k = l
    BY <1>2, <1>3, <1>5, <2>1
  <2>2. CASE j = l
    BY <1>2, <1>3, <1>5, <2>2
  <2>3. CASE k # l /\ j # l
    <3>1. ToSet(Elements(m, k)) \cap ToSet(Elements(m, j)) = {}
      BY <1>5 DEF Linked
    <3> QED BY <1>3, <2>3, <3>1
  <2> QED BY <2>1, <2>2, <2>3
<1>6. Linked(w, K, E)
  BY <1>4, <1>5 DEF Linked
<1> QED BY <1>1, <1>2, <1>3, <1>6

(* The list l gained or lost e and reads t now, and the others are as they *)
(* were.                                                                   *)
ListIs(D, K, E, m, w, l, t) ==
  /\ w \in Memories(D) /\ Linked(w, K, E) /\ Elements(w, l) = t
  /\ \A k \in K : k # l => Elements(w, k) = Elements(m, k)

ListGains(D, K, E, m, w, l, e, t) ==
  /\ ListIs(D, K, E, m, w, l, t)
  /\ ToSet(t) = ToSet(Elements(m, l)) \cup {e} /\ Len(t) = Len(Elements(m, l)) + 1

ListLoses(D, K, E, m, w, l, e, t) ==
  /\ ListIs(D, K, E, m, w, l, t) /\ e \in ToSet(Elements(m, l))
  /\ ToSet(t) = ToSet(Elements(m, l)) \ {e} /\ Len(t) = Len(Elements(m, l)) - 1

(* A push of e, which lies in no list.                                     *)
LEMMA LinkedPush ==
  ASSUME NEW D, NEW K, NEW E, Arena(D, K, E), NEW m \in Memories(D), Linked(m, K, E),
         NEW l \in K, NEW e \in E,
         \A k \in K : e \notin ToSet(Elements(m, k)), NEW w, NEW t,
         \/ w = list_push_back(m, l, e) /\ t = Append(Elements(m, l), e)
         \/ w = list_push_front(m, l, e) /\ t = <<e>> \o Elements(m, l)
  PROVE  ListGains(D, K, E, m, w, l, e, t)
<1> DEFINE s == Elements(m, l)
<1>1. Chain(m, l, s) /\ ToSet(s) \subseteq E /\ s \in Seq(E)
      /\ \A k \in K : k # l =>
           ToSet(s) \cap ToSet(Elements(m, k)) = {}
           /\ Cells(l, s) \cap Cells(k, Elements(m, k)) = {}
  BY LinkedParts
<1>2. e \in D /\ \A k \in K : e \notin Cells(k, Elements(m, k))
  <2>1. E \subseteq D /\ \A k \in K : head(k) \notin E /\ tail(k) \notin E
    BY ArenaCells
  <2> QED BY <2>1 DEF Cells
<1>0. \/ w = list_push_back(m, l, e) /\ t = Append(s, e)
      \/ w = list_push_front(m, l, e) /\ t = <<e>> \o s
  OBVIOUS
<1> HIDE DEF s
<1>3. Changed(D, m, w, l, t, Cells(l, s) \cup {e})
  <2>1. e \notin Cells(l, s)
    BY <1>2 DEF s
  <2>2. CASE w = list_push_back(m, l, e) /\ t = Append(s, e)
    BY <1>1, <1>2, <2>1, <2>2, PushBack
  <2>3. CASE w = list_push_front(m, l, e) /\ t = <<e>> \o s
    BY <1>1, <1>2, <2>1, <2>3, PushFront
  <2> QED BY <1>0, <2>2, <2>3
<1>4. ToSet(t) = ToSet(s) \cup {e} /\ Len(t) = Len(s) + 1
  <2>1. /\ ToSet(Append(s, e)) = ToSet(s) \cup {e} /\ Len(Append(s, e)) = Len(s) + 1
        /\ ToSet(<<e>> \o s) = ToSet(s) \cup {e} /\ Len(<<e>> \o s) = Len(s) + 1
    BY <1>1, MorePushed, Zenon
  <2> QED BY <1>0, <2>1
<1>5. ToSet(t) \subseteq E
  BY <1>1, <1>4
<1>6. ASSUME NEW k \in K, k # l
      PROVE  /\ (Cells(l, s) \cup {e}) \cap Cells(k, Elements(m, k)) = {}
             /\ ToSet(t) \cap ToSet(Elements(m, k)) = {}
  BY <1>1, <1>2, <1>4, <1>6
<1> DEFINE C == Cells(l, s) \cup {e}
<1>7. /\ w \in Memories(D) /\ Linked(w, K, E) /\ Elements(w, l) = t
      /\ \A k \in K : k # l => Elements(w, k) = Elements(m, k)
  <2>1. /\ Changed(D, m, w, l, t, C)
        /\ \A k \in K : k # l =>
             /\ C \cap Cells(k, Elements(m, k)) = {}
             /\ ToSet(t) \cap ToSet(Elements(m, k)) = {}
    BY <1>3, <1>6
  <2> HIDE DEF C
  <2> QED BY <1>5, <2>1, LinkedChange
<1> QED BY <1>4, <1>7 DEF s, ListGains, ListIs

(* The removal of the j-th element.                                        *)
LEMMA LinkedTake ==
  ASSUME NEW D, NEW K, NEW E, Arena(D, K, E), NEW m \in Memories(D), Linked(m, K, E),
         NEW l \in K,
         NEW s, s = Elements(m, l), NEW j \in 1 .. Len(s), NEW w, w = list_remove(m, s[j])
  PROVE  ListLoses(D, K, E, m, w, l, s[j], RemoveAt(s, j))
<1> DEFINE t == RemoveAt(s, j)
           C == Cells(l, s) \ {s[j]}
<1>1. Chain(m, l, s) /\ ToSet(s) \subseteq E /\ s \in Seq(E)
      /\ \A k \in K : k # l =>
           ToSet(s) \cap ToSet(Elements(m, k)) = {}
           /\ Cells(l, s) \cap Cells(k, Elements(m, k)) = {}
  BY LinkedParts
<1>0. j \in 1 .. Len(s) /\ w = list_remove(m, s[j])
  OBVIOUS
<1>2. Changed(D, m, w, l, t, C) /\ Len(t) = Len(s) - 1 /\ ToSet(t) = ToSet(s) \ {s[j]}
  <2>1. Chain(m, l, s) /\ Null \notin D
    BY <1>1, ArenaCells
  <2> DEFINE e == s[j]
  <2>2. e = s[j] /\ w = list_remove(m, e) /\ t = RemoveAt(s, j) /\ C = Cells(l, s) \ {e}
    BY <1>0
  <2>3. j \in 1 .. Len(s)
    BY <1>0
  <2> HIDE DEF e, t, C
  <2>4. Changed(D, m, w, l, t, C) /\ Without(t, s, e)
    BY <2>1, <2>2, <2>3, Removes
  <2> QED BY <2>2, <2>4 DEF Without
<1> HIDE DEF t
<1>3. \A k \in K : k # l => /\ C \cap Cells(k, Elements(m, k)) = {}
                                /\ ToSet(t) \cap ToSet(Elements(m, k)) = {}
  BY <1>1, <1>2
<1> HIDE DEF C
<1>4. /\ w \in Memories(D) /\ Linked(w, K, E) /\ Elements(w, l) = t
      /\ \A k \in K : k # l => Elements(w, k) = Elements(m, k)
  BY <1>1, <1>2, <1>3, LinkedChange
<1>5. s[j] \in ToSet(s)
  BY <1>0, <1>1 DEF ToSet
<1> QED BY <1>2, <1>4, <1>5 DEF t, ListLoses, ListIs

(***************************************************************************)
(* list_reverse                                                            *)
(***************************************************************************)
(* The links w of the elements s in reverse order.                         *)
Turned(D, m, w, l, s) ==
  /\ w \in Memories(D)
  /\ w[head(l)].prev = Null /\ w[head(l)].next = s[Len(s)]
  /\ w[tail(l)].prev = s[1] /\ w[tail(l)].next = Null
  /\ \A i \in 1 .. Len(s) :
       /\ w[s[i]].prev = IF i = Len(s) THEN head(l) ELSE s[i + 1]
       /\ w[s[i]].next = IF i = 1 THEN tail(l) ELSE s[i - 1]
  /\ \A x \in D : x \notin Cells(l, s) => w[x] = m[x]

LEMMA ReverseLinks ==
  ASSUME NEW D, IsFiniteSet(D), Null \notin D, NEW m \in Memories(D), NEW l, NEW s,
         Chain(m, l, s), s # <<>>, NEW w, w = list_reverse(m, l)
  PROVE  Turned(D, m, w, l, s)
<1> DEFINE n == Len(s)
           a == s[1]
           z == s[n]
           f == [e \in DOMAIN m |-> IF e \notin ToSet(s) THEN m[e]
                                    ELSE [prev |-> m[e].next, next |-> m[e].prev]]
           f1 == [f EXCEPT ![head(l)].next = z]
           r == [f1 EXCEPT ![tail(l)].prev = a]
           w1 == [r EXCEPT ![z].prev = r[a].next]
           w2 == [w1 EXCEPT ![a].next = r[z].prev]
<1>1. DOMAIN m = D
  BY DEF Memories
<1>2. /\ s \in Seq(D) /\ n \in Nat /\ DOMAIN s = 1 .. n
      /\ \A i \in 0 .. n + 1 : At(l, s, i) \in D /\ At(l, s, i) \in Cells(l, s)
      /\ \A i, k \in 0 .. n + 1 : At(l, s, i) = At(l, s, k) => i = k
      /\ At(l, s, 0) = head(l) /\ At(l, s, n + 1) = tail(l)
      /\ \A i \in 1 .. n : At(l, s, i) = s[i]
  BY <1>1, CellTypes
<1>2a. n \in Nat
  BY <1>2
<1>2b. \A i \in 1 .. n : At(l, s, i) = s[i]
  BY <1>2
<1>3. n >= 1 /\ 1 \in 1 .. n /\ n \in 1 .. n
  BY <1>2, EmptySeq
<1>4. /\ head(l) \in D /\ tail(l) \in D /\ head(l) # tail(l)
      /\ \A i \in 1 .. n : s[i] \in D /\ s[i] \notin {head(l), tail(l)}
      /\ \A i, k \in 1 .. n : s[i] = s[k] => i = k
      /\ m[head(l)].prev = Null /\ m[tail(l)].next = Null
  <2>1. head(l) # tail(l)
    BY DEF head, tail
  <2>2. \A i \in 1 .. n : s[i] \in D
    BY <1>2
  <2> QED BY <1>1, <1>2, <2>1, <2>2 DEF Chain
<1>5. \A i \in 1 .. n : m[s[i]].next = At(l, s, i + 1) /\ m[s[i]].prev = At(l, s, i - 1)
  <2> SUFFICES ASSUME NEW i \in 1 .. n
               PROVE  m[s[i]].next = At(l, s, i + 1) /\ m[s[i]].prev = At(l, s, i - 1)
    OBVIOUS
  <2>1. i \in 0 .. n /\ i - 1 \in 0 .. n /\ (i - 1) + 1 = i
    BY <1>2
  <2> QED BY <1>2, <2>1, CellLinks
<1>6. list_front(m, l) = a /\ list_back(m, l) = z /\ ~list_empty(m, l)
  <2>1. 0 \in 0 .. n /\ n \in 0 .. n /\ 0 + 1 = 1
    BY <1>2
  <2>2. m[head(l)].next = a /\ m[tail(l)].prev = z
    <3>1. m[At(l, s, 0)].next = At(l, s, 0 + 1) /\ m[At(l, s, n + 1)].prev = At(l, s, n)
      BY <2>1, CellLinks
    <3> QED BY <1>2, <1>3, <2>1, <3>1
  <2> QED BY <2>2, EmptyList DEF list_front, list_back
<1>7. ToSet(s) \subseteq D /\ head(l) \notin ToSet(s) /\ tail(l) \notin ToSet(s)
      /\ \A i \in 1 .. n : s[i] \in ToSet(s)
  BY <1>2, <1>4 DEF ToSet
<1>8. Elements(m, l) = s
  BY ChainReads
<1>9. w = w2
  <2> DEFINE o == list_reverse_outer(m, l)
  <2>1. o = r
    BY <1>6, <1>8 DEF list_reverse_outer
  <2>2. o[head(l)].next = z /\ o[tail(l)].prev = a
    <3>1. f \in [D -> [prev : D \cup {Null}, next : D \cup {Null}]]
      <4>1. m \in [D -> [prev : D \cup {Null}, next : D \cup {Null}]]
        BY DEF Memories
      <4> QED BY <1>1, <4>1
    <3> HIDE DEF f, o, a, z
    <3>2. f \in Memories(D)
      BY <3>1 DEF Memories
    <3>3. z \in D /\ a \in D
      BY <1>3, <1>4 DEF z, a
    <3>4. f1 \in Memories(D) /\ f1[head(l)].next = z
      BY <1>4, <3>2, <3>3, NextSet
    <3> HIDE DEF f1
    <3>5. r \in Memories(D) /\ r[tail(l)].prev = a /\ r[head(l)] = f1[head(l)]
      BY <1>4, <3>3, <3>4, PrevSet
    <3> HIDE DEF r
    <3> QED BY <2>1, <3>4, <3>5
  <2>3. list_reverse(m, l) = [o EXCEPT ![z].prev = o[a].next, ![a].next = o[z].prev]
    <3> HIDE DEF o, a, z
    <3> QED BY <1>6, <2>2 DEF list_reverse, list_front, list_back, o
  <2> HIDE DEF o, r, a, z
  <2> QED BY <2>1, <2>3
<1>10. /\ f \in Memories(D) /\ \A x \in D : x \notin ToSet(s) => f[x] = m[x]
       /\ \A i \in 1 .. n : f[s[i]].prev = At(l, s, i + 1) /\ f[s[i]].next = At(l, s, i - 1)
  <2>1. m \in [D -> [prev : D \cup {Null}, next : D \cup {Null}]]
    BY DEF Memories
  <2>2. f \in Memories(D)
    BY <1>1, <2>1 DEF Memories
  <2>3. \A x \in D : x \notin ToSet(s) => f[x] = m[x]
    BY <1>1
  <2>4. \A x \in ToSet(s) : f[x].prev = m[x].next /\ f[x].next = m[x].prev
    <3> SUFFICES ASSUME NEW x \in ToSet(s) PROVE f[x].prev = m[x].next /\ f[x].next = m[x].prev
      OBVIOUS
    <3>1. f[x] = [prev |-> m[x].next, next |-> m[x].prev]
      BY <1>1, <1>7
    <3> HIDE DEF f
    <3> QED BY <3>1
  <2> HIDE DEF f
  <2>5. \A i \in 1 .. n : f[s[i]].prev = m[s[i]].next /\ f[s[i]].next = m[s[i]].prev
    BY <1>7, <2>4
  <2> QED BY <1>5, <2>2, <2>3, <2>5
<1>11. a \in D /\ z \in D /\ a \notin {head(l), tail(l)} /\ z \notin {head(l), tail(l)}
  BY <1>3, <1>4
<1> HIDE DEF f
<1>12. /\ f1 \in Memories(D) /\ f1[head(l)].next = z /\ f1[head(l)].prev = f[head(l)].prev
       /\ \A x \in D : x # head(l) => f1[x] = f[x]
  BY <1>4, <1>10, <1>11, NextSet
<1> HIDE DEF f1
<1>13. /\ r \in Memories(D) /\ r[tail(l)].prev = a /\ r[tail(l)].next = f1[tail(l)].next
       /\ \A x \in D : x # tail(l) => r[x] = f1[x]
  BY <1>4, <1>11, <1>12, PrevSet
<1> HIDE DEF r
<1>14. r[a].next = head(l) /\ r[z].prev = tail(l)
  <2>1. r[a] = f[a] /\ r[z] = f[z]
    BY <1>11, <1>12, <1>13
  <2>2. f[a].next = At(l, s, 1 - 1) /\ f[z].prev = At(l, s, n + 1)
    BY <1>3, <1>10
  <2> QED BY <1>2, <2>1, <2>2
<1>15. /\ w1 \in Memories(D) /\ w1[z].prev = head(l) /\ w1[z].next = r[z].next
       /\ \A x \in D : x # z => w1[x] = r[x]
  <2> HIDE DEF z, a
  <2> QED BY <1>4, <1>11, <1>13, <1>14, PrevSet
<1> HIDE DEF w1
<1>16. /\ w2 \in Memories(D) /\ w2[a].next = tail(l) /\ w2[a].prev = w1[a].prev
       /\ \A x \in D : x # a => w2[x] = w1[x]
  <2> HIDE DEF z, a
  <2> QED BY <1>4, <1>11, <1>14, <1>15, NextSet
<1> HIDE DEF w2
<1>17. w[head(l)].prev = Null /\ w[head(l)].next = z /\ w[tail(l)].prev = a /\ w[tail(l)].next = Null
  BY <1>4, <1>7, <1>9, <1>10, <1>11, <1>12, <1>13, <1>15, <1>16
<1>18. ASSUME NEW i \in 1 .. n
       PROVE  /\ w[s[i]].prev = IF i = n THEN head(l) ELSE s[i + 1]
              /\ w[s[i]].next = IF i = 1 THEN tail(l) ELSE s[i - 1]
  <2>1. /\ s[i] \in D /\ s[i] \notin {head(l), tail(l)}
        /\ (s[i] = a <=> i = 1) /\ (s[i] = z <=> i = n)
    BY <1>3, <1>4
  <2>2. r[s[i]] = f[s[i]] /\ f[s[i]].prev = At(l, s, i + 1) /\ f[s[i]].next = At(l, s, i - 1)
    BY <1>10, <1>12, <1>13, <2>1
  <2>3. w[s[i]].prev = IF i = n THEN head(l) ELSE At(l, s, i + 1)
    BY <1>9, <1>15, <1>16, <2>1, <2>2
  <2>4. w[s[i]].next = IF i = 1 THEN tail(l) ELSE At(l, s, i - 1)
    BY <1>9, <1>15, <1>16, <2>1, <2>2
  <2>5. i # n => At(l, s, i + 1) = s[i + 1]
    BY <1>2a, <1>2b
  <2>6. i # 1 => At(l, s, i - 1) = s[i - 1]
    BY <1>2a, <1>2b
  <2> HIDE DEF n, a, z, w1, w2, r, f
  <2> QED BY <2>3, <2>4, <2>5, <2>6
<1>19. ASSUME NEW x \in D, x \notin Cells(l, s) PROVE w[x] = m[x]
  <2>1. x \notin ToSet(s) /\ x # head(l) /\ x # tail(l) /\ x # a /\ x # z
    BY <1>3, <1>7, <1>19 DEF Cells
  <2> QED BY <1>9, <1>10, <1>12, <1>13, <1>15, <1>16, <2>1
<1> QED BY <1>9, <1>16, <1>17, <1>18, <1>19 DEF Turned

(* list_reverse turns a list round, whatever its length.                   *)
THEOREM ReverseChain ==
  ASSUME NEW D, IsFiniteSet(D), Null \notin D, NEW m \in Memories(D), NEW l, NEW s,
         Chain(m, l, s)
  PROVE  Changed(D, m, list_reverse(m, l), l, Reverse(s), Cells(l, s))
<1> DEFINE n == Len(s)
           t == Reverse(s)
           w == list_reverse(m, l)
<1>1. DOMAIN m = D
  BY DEF Memories
<1>2. /\ s \in Seq(D) /\ n \in Nat /\ DOMAIN s = 1 .. n
      /\ \A i \in 1 .. n : s[i] \in D /\ s[i] \notin {head(l), tail(l)}
      /\ \A i, k \in 1 .. n : s[i] = s[k] => i = k
      /\ head(l) \in D /\ tail(l) \in D
  BY <1>1 DEF Chain
<1>3. CASE s = <<>>
  <2>1. w = m
    BY <1>3, EmptyList DEF list_reverse
  <2>2. t = <<>>
    BY <1>3 DEF Reverse
  <2>3. Chain(m, l, t)
    BY <1>3, <2>2
  <2> HIDE DEF w, t
  <2>4. Changed(D, m, w, l, t, Cells(l, s))
    BY <2>1, <2>3 DEF Changed
  <2> QED BY <2>4 DEF w, t
<1>4. CASE s # <<>>
  <2>1. Turned(D, m, w, l, s)
    BY <1>4, ReverseLinks
  <2>2. t = [i \in 1 .. n |-> s[(n - i) + 1]]
    BY DEF Reverse
  <2>3. \A i \in 1 .. n : (n - i) + 1 \in 1 .. n
    BY <1>2
  <2>4. t \in [1 .. n -> D]
    BY <1>2, <2>2, <2>3
  <2> HIDE DEF t, w
  <2>5. t \in Seq(D) /\ Len(t) = n /\ DOMAIN t = 1 .. n /\ \A i \in 1 .. n : t[i] = s[(n - i) + 1]
    BY <1>2, <2>2, <2>4
  <2>6. w \in Memories(D) /\ DOMAIN w = D
    BY <2>1 DEF Turned, Memories
  <2>7. n >= 1
    BY <1>2, <1>4, EmptySeq
  <2>8. /\ \A i \in DOMAIN t : t[i] \notin {head(l), tail(l)}
        /\ \A i, k \in DOMAIN t : t[i] = t[k] => i = k
    <3>1. ASSUME NEW i \in 1 .. n, NEW k \in 1 .. n, t[i] = t[k] PROVE i = k
      <4>1. (n - i) + 1 = (n - k) + 1
        BY <1>2, <2>3, <2>5, <3>1
      <4> QED BY <1>2, <4>1
    <3> QED BY <1>2, <2>3, <2>5, <3>1
  <2>9. ASSUME NEW i \in 0 .. Len(t)
        PROVE  w[At(l, t, i)].next = At(l, t, i + 1) /\ w[At(l, t, i + 1)].prev = At(l, t, i)
    <3>1. i \in 0 .. n
      BY <2>5
    <3>2. CASE i = 0
      <4>1. At(l, t, i) = head(l) /\ At(l, t, i + 1) = s[n]
        BY <1>2, <2>5, <2>7, <3>2 DEF At
      <4>2. w[s[n]].prev = head(l) /\ w[head(l)].next = s[n]
        <5>1. n \in 1 .. n
          BY <1>2, <2>7
        <5> QED BY <2>1, <5>1 DEF Turned
      <4> QED BY <4>1, <4>2
    <3>3. CASE i = n
      <4>1. At(l, t, i) = s[1] /\ At(l, t, i + 1) = tail(l)
        BY <1>2, <2>5, <2>7, <3>3 DEF At
      <4>2. w[s[1]].next = tail(l) /\ w[tail(l)].prev = s[1]
        <5>1. 1 \in 1 .. n
          BY <1>2, <2>7
        <5> QED BY <2>1, <5>1 DEF Turned
      <4> QED BY <4>1, <4>2
    <3>4. CASE i # 0 /\ i # n
      <4> DEFINE k == (n - i) + 1
      <4>1. k \in 1 .. n /\ k - 1 \in 1 .. n /\ k # 1 /\ k - 1 # n /\ (k - 1) + 1 = k
            /\ (n - (i + 1)) + 1 = k - 1 /\ i \in 1 .. n /\ i + 1 \in 1 .. n
        <5>1. n \in Nat
          BY <1>2
        <5> HIDE DEF n
        <5> QED BY <3>1, <3>4, <5>1
      <4>2. At(l, t, i) = t[i] /\ At(l, t, i + 1) = t[i + 1]
        BY <2>5, <4>1 DEF At
      <4>3. t[i] = s[k] /\ t[i + 1] = s[k - 1]
        BY <2>5, <4>1
      <4> HIDE DEF k
      <4>4. w[s[k]].next = s[k - 1] /\ w[s[k - 1]].prev = s[(k - 1) + 1]
        BY <2>1, <4>1 DEF Turned
      <4> QED BY <4>1, <4>2, <4>3, <4>4
    <3> QED BY <3>1, <3>2, <3>3, <3>4
  <2>10. w[head(l)].prev = Null /\ w[tail(l)].next = Null
    BY <2>1 DEF Turned
  <2>11. Chain(w, l, t)
    BY <1>2, <2>5, <2>6, <2>8, <2>9, <2>10 DEF Chain
  <2>12. \A x \in D : x \notin Cells(l, s) => w[x] = m[x]
    BY <2>1 DEF Turned
  <2>13. Changed(D, m, w, l, t, Cells(l, s))
    BY <2>6, <2>11, <2>12 DEF Changed
  <2> QED BY <2>13 DEF t, w
<1> QED BY <1>3, <1>4

(***************************************************************************)
(* list_splice: a range is cut out of a list, and put into a list          *)
(***************************************************************************)
(* Cut c elements out of q behind the first a.                             *)
CutFrom(t, q, a, c) ==
  /\ a \in Nat /\ c \in Nat \ {0} /\ a <= Len(t) /\ Len(q) = Len(t) + c
  /\ \A i \in 1 .. Len(t) : t[i] = IF i <= a THEN q[i] ELSE q[i + c]

Cut(m, first, last) ==
  [m EXCEPT ![m[first].prev].next = m[last].next, ![m[last].next].prev = m[first].prev]

Places(l, t, q, a, c) ==
  /\ \A i \in 0 .. a : At(l, t, i) = At(l, q, i)
  /\ \A i \in (a + 1) .. (Len(t) + 1) : At(l, t, i) = At(l, q, i + c)
  /\ Cells(l, t) \subseteq Cells(l, q)

LEMMA CutPlaces ==
  ASSUME NEW D, NEW l, NEW q \in Seq(D), NEW t \in Seq(D), NEW a, NEW c, CutFrom(t, q, a, c)
  PROVE  Places(l, t, q, a, c)
<1>1. /\ Len(q) \in Nat /\ Len(t) \in Nat /\ a \in Nat /\ c \in Nat \ {0} /\ a <= Len(t)
      /\ Len(q) = Len(t) + c /\ DOMAIN t = 1 .. Len(t) /\ DOMAIN q = 1 .. Len(q)
      /\ \A i \in 1 .. Len(t) : t[i] = IF i <= a THEN q[i] ELSE q[i + c]
  BY DEF CutFrom
<1> DEFINE n == Len(t)
           h == Len(q)
<1>2. /\ At(l, q, 0) = head(l) /\ At(l, q, h + 1) = tail(l)
      /\ \A i \in 1 .. h : At(l, q, i) = q[i]
      /\ \A i \in 0 .. h + 1 : At(l, q, i) \in Cells(l, q)
  <2>1. /\ At(l, q, 0) = head(l) /\ At(l, q, h + 1) = tail(l)
        /\ \A i \in 1 .. h : At(l, q, i) = q[i]
    BY <1>1 DEF At
  <2>2. \A i \in 1 .. h : q[i] \in ToSet(q)
    BY <1>1 DEF ToSet
  <2>3. \A i \in 0 .. h + 1 : i = 0 \/ i = h + 1 \/ i \in 1 .. h
    BY <1>1
  <2> HIDE DEF h
  <2> QED BY <2>1, <2>2, <2>3 DEF Cells
<1>3. ASSUME NEW i \in 0 .. a PROVE At(l, t, i) = At(l, q, i)
  <2>1. CASE i = 0
    BY <1>2, <2>1 DEF At
  <2>2. CASE i # 0
    <3>1. i \in 1 .. n /\ i \in 1 .. h /\ i <= n /\ i <= h
      BY <1>1, <2>2
    <3>2. t[i] = q[i]
      BY <1>1, <3>1
    <3> QED BY <1>2, <2>2, <3>1, <3>2 DEF At
  <2> QED BY <2>1, <2>2
<1>4. ASSUME NEW i \in (a + 1) .. (Len(t) + 1) PROVE At(l, t, i) = At(l, q, i + c)
  <2>1. CASE i = n + 1
    <3>1. i + c = h + 1 /\ i # 0 /\ ~(i <= n)
      BY <1>1, <2>1
    <3> QED BY <1>2, <3>1 DEF At
  <2>2. CASE i # n + 1
    <3>1. i \in 1 .. n /\ i + c \in 1 .. h /\ i # 0 /\ i <= n /\ ~(i <= a)
      BY <1>1, <2>2
    <3>2. t[i] = q[i + c]
      BY <1>1, <3>1
    <3> QED BY <1>2, <3>1, <3>2 DEF At
  <2> QED BY <2>1, <2>2
<1>5. ASSUME NEW x \in Cells(l, t) PROVE x \in Cells(l, q)
  <2>1. CASE x \in {head(l), tail(l)}
    BY <2>1 DEF Cells
  <2>2. CASE x \in ToSet(t)
    <3>1. PICK i \in 1 .. n : x = t[i]
      BY <1>1, <2>2 DEF ToSet
    <3>2. i \in 0 .. a \/ i \in (a + 1) .. (n + 1)
      BY <1>1
    <3>3. x = At(l, t, i)
      <4>1. i # 0 /\ i <= n
        BY <1>1
      <4> QED BY <3>1, <4>1 DEF At
    <3>4. CASE i \in 0 .. a
      <4>1. i \in 0 .. h + 1
        BY <1>1, <3>4
      <4>2. At(l, q, i) \in Cells(l, q)
        BY <1>2, <4>1
      <4>3. At(l, t, i) = At(l, q, i)
        BY <1>3, <3>4
      <4> QED BY <3>3, <4>2, <4>3
    <3>5. CASE i \in (a + 1) .. (n + 1)
      <4>1. i + c \in 0 .. h + 1
        BY <1>1, <3>5
      <4>2. At(l, q, i + c) \in Cells(l, q)
        BY <1>2, <4>1
      <4>3. At(l, t, i) = At(l, q, i + c)
        BY <1>4, <3>5
      <4> QED BY <3>3, <4>2, <4>3
    <3> QED BY <3>2, <3>4, <3>5
  <2> QED BY <2>1, <2>2 DEF Cells
<1> QED BY <1>3, <1>4, <1>5 DEF Places

(* Elements that lead to each other and back.                              *)
Row(m, r) == \A i \in 1 .. Len(r) - 1 : m[r[i]].next = r[i + 1] /\ m[r[i + 1]].prev = r[i]

LEMMA CutChain ==
  ASSUME NEW D, NEW m \in Memories(D), NEW l, NEW q, Chain(m, l, q), NEW t \in Seq(D),
         NEW a, NEW c, CutFrom(t, q, a, c), NEW w, w = Cut(m, q[a + 1], q[a + c])
  PROVE  /\ Chain(w, l, t) /\ w \in Memories(D)
         /\ \A x \in D : x \notin Cells(l, t) => w[x] = m[x]
<1> DEFINE p == At(l, q, a)
           e == At(l, q, a + c + 1)
           n == Len(t)
           h == Len(q)
<1>1. DOMAIN m = D
  BY DEF Memories
<1>2. /\ n \in Nat /\ h \in Nat /\ a \in Nat /\ c \in Nat \ {0} /\ a <= n /\ h = n + c
      /\ DOMAIN t = 1 .. n /\ DOMAIN q = 1 .. h
      /\ \A i \in 1 .. n : t[i] = IF i <= a THEN q[i] ELSE q[i + c]
  <2>1. t \in Seq(D) /\ q \in Seq(D)
    BY <1>1, CellTypes
  <2>2. Len(t) \in Nat /\ Len(q) \in Nat /\ DOMAIN t = 1 .. Len(t) /\ DOMAIN q = 1 .. Len(q)
    BY ONLY <2>1
  <2>3. /\ a \in Nat /\ c \in Nat \ {0} /\ a <= Len(t) /\ Len(q) = Len(t) + c
        /\ \A i \in 1 .. Len(t) : t[i] = IF i <= a THEN q[i] ELSE q[i + c]
    BY ONLY CutFrom(t, q, a, c) DEF CutFrom
  <2> QED BY <2>2, <2>3
<1>3. /\ \A i \in 0 .. h + 1 : At(l, q, i) \in D
      /\ \A i, k \in 0 .. h + 1 : At(l, q, i) = At(l, q, k) => i = k
      /\ At(l, q, 0) = head(l) /\ At(l, q, h + 1) = tail(l)
      /\ \A i \in 1 .. h : At(l, q, i) = q[i]
  BY <1>1, CellTypes
<1>4. \A i \in 0 .. h : m[At(l, q, i)].next = At(l, q, i + 1) /\ m[At(l, q, i + 1)].prev = At(l, q, i)
  BY CellLinks
<1>5. /\ \A i \in 0 .. a : At(l, t, i) = At(l, q, i)
      /\ \A i \in (a + 1) .. (n + 1) : At(l, t, i) = At(l, q, i + c)
  <2>1. q \in Seq(D)
    BY <1>1, CellTypes
  <2>2. Places(l, t, q, a, c)
    BY <2>1, CutPlaces
  <2> QED BY <2>2 DEF Places
<1> HIDE DEF n, h
<1>6. /\ a \in 0 .. h /\ a \in 0 .. h + 1 /\ a + c \in 0 .. h /\ a + c + 1 \in 0 .. h + 1
      /\ a # a + c + 1 /\ a + 1 \in 1 .. h /\ a + c \in 1 .. h
      /\ a + 1 \in (a + 1) .. (n + 1) /\ a \in 0 .. a
  BY <1>2
<1>7. p \in D /\ e \in D /\ p # e /\ m[q[a + 1]].prev = p /\ m[q[a + c]].next = e
  BY <1>3, <1>4, <1>6
<1> HIDE DEF p, e
<1>8. /\ w \in Memories(D) /\ w[p].next = e /\ w[p].prev = m[p].prev
      /\ w[e].prev = p /\ w[e].next = m[e].next
      /\ \A x \in D : x \notin {p, e} => w[x] = m[x]
  <2> DEFINE m1 == [m EXCEPT ![p].next = e]
             m2 == [m1 EXCEPT ![e].prev = p]
  <2>1. w = m2
    BY <1>7 DEF Cut
  <2>2. /\ m1 \in Memories(D) /\ m1[p].next = e /\ m1[p].prev = m[p].prev
        /\ \A y \in D : y # p => m1[y] = m[y]
    BY <1>7, NextSet
  <2> HIDE DEF m1
  <2>3. /\ m2 \in Memories(D) /\ m2[e].prev = p /\ m2[e].next = m1[e].next
        /\ \A y \in D : y # e => m2[y] = m1[y]
    BY <1>7, <2>2, PrevSet
  <2> HIDE DEF m2
  <2> QED BY <1>7, <2>1, <2>2, <2>3
<1>9. DOMAIN w = D
  BY <1>8 DEF Memories
<1>10. At(l, t, a) = p /\ At(l, t, a + 1) = e
  <2>1. At(l, t, a + 1) = At(l, q, (a + 1) + c) /\ (a + 1) + c = a + c + 1
    BY <1>2, <1>5, <1>6
  <2> QED BY <1>5, <1>6, <2>1 DEF p, e
<1>11. ASSUME NEW i \in 0 .. n
       PROVE  w[At(l, t, i)].next = At(l, t, i + 1) /\ w[At(l, t, i + 1)].prev = At(l, t, i)
  <2>1. CASE i = a
    BY <1>8, <1>10, <2>1
  <2>2. CASE i < a
    <3>1. /\ i \in 0 .. a /\ i + 1 \in 0 .. a /\ i \in 0 .. h /\ i \in 0 .. h + 1
          /\ i + 1 \in 0 .. h + 1 /\ i # a /\ i + 1 # a + c + 1 /\ i # a + c + 1
      BY <1>2, <2>2
    <3>2. At(l, q, i) \notin {p, e} /\ At(l, q, i + 1) # e /\ At(l, q, i) \in D /\ At(l, q, i + 1) \in D
      BY <1>3, <1>6, <3>1 DEF p, e
    <3>3. w[At(l, q, i)] = m[At(l, q, i)] /\ w[At(l, q, i + 1)].prev = m[At(l, q, i + 1)].prev
      BY <1>8, <3>2
    <3> QED BY <1>4, <1>5, <3>1, <3>3
  <2>3. CASE i > a
    <3> DEFINE k == i + c
    <3>1. /\ i \in (a + 1) .. (n + 1) /\ i + 1 \in (a + 1) .. (n + 1) /\ (i + 1) + c = k + 1
          /\ k \in 0 .. h /\ k \in 0 .. h + 1 /\ k + 1 \in 0 .. h + 1
          /\ k # a /\ k + 1 # a + c + 1 /\ k + 1 # a
      <4>1. /\ n \in Nat /\ h \in Nat /\ a \in Nat /\ c \in Nat \ {0} /\ h = n + c
            /\ i \in Nat /\ i > a /\ i <= n
        BY <1>2, <2>3
      <4> QED BY ONLY <4>1
    <3>2. At(l, t, i) = At(l, q, k) /\ At(l, t, i + 1) = At(l, q, k + 1)
      BY <1>5, <3>1
    <3> HIDE DEF k
    <3>3. At(l, q, k) # p /\ At(l, q, k + 1) \notin {p, e} /\ At(l, q, k) \in D /\ At(l, q, k + 1) \in D
      BY <1>3, <1>6, <3>1 DEF p, e
    <3>4. w[At(l, q, k)].next = m[At(l, q, k)].next /\ w[At(l, q, k + 1)] = m[At(l, q, k + 1)]
      BY <1>8, <3>3
    <3> QED BY <1>4, <3>1, <3>2, <3>4
  <2>4. i = a \/ i < a \/ i > a
    BY <1>2
  <2> QED BY <2>1, <2>2, <2>3, <2>4
<1>12. head(l) \in D /\ tail(l) \in D /\ w[head(l)].prev = Null /\ w[tail(l)].next = Null
  <2>1. m[head(l)].prev = Null /\ m[tail(l)].next = Null /\ head(l) \in D /\ tail(l) \in D
    BY <1>1 DEF Chain
  <2>2. 0 \in 0 .. h + 1 /\ h + 1 \in 0 .. h + 1 /\ a + c + 1 # 0 /\ a # h + 1
    BY <1>2
  <2>3. head(l) # e /\ tail(l) # p
    BY <1>3, <1>6, <2>2 DEF p, e
  <2> QED BY <1>8, <2>1, <2>3
<1>13. /\ \A i \in 1 .. n : t[i] \notin {head(l), tail(l)}
       /\ \A i, k \in 1 .. n : t[i] = t[k] => i = k
  <2>1. /\ \A i \in 1 .. h : q[i] \notin {head(l), tail(l)}
        /\ \A i, k \in 1 .. h : q[i] = q[k] => i = k
    BY <1>2 DEF Chain
  <2> DEFINE g(x) == IF x <= a THEN x ELSE x + c
  <2>2. \A i \in 1 .. n : g(i) \in 1 .. h /\ t[i] = q[g(i)]
    BY <1>2
  <2>3. \A i, k \in 1 .. n : g(i) = g(k) => i = k
    BY <1>2
  <2> HIDE DEF g
  <2> QED BY <2>1, <2>2, <2>3
<1>14. Chain(w, l, t)
  BY <1>2, <1>9, <1>11, <1>12, <1>13 DEF Chain, n
<1>15. p \in Cells(l, t) /\ e \in Cells(l, t)
  <2>1. a \in 0 .. Len(t) + 1 /\ a + 1 \in 0 .. Len(t) + 1
    BY <1>2 DEF n
  <2> QED BY <1>10, <1>14, <2>1, CellTypes
<1> QED BY <1>8, <1>14, <1>15

Paste(m, b, first, last) ==
  [m EXCEPT ![first].prev = m[b].prev, ![last].next = b,
            ![m[b].prev].next = first, ![b].prev = last]

(* The elements of q between its first a and the next c, which the list of *)
(* t does not have, are in a row.                                          *)
Loose(m, l, t, q, a, c) ==
  /\ \A i \in (a + 1) .. (a + c) : q[i] \notin Cells(l, t)
  /\ \A i, k \in (a + 1) .. (a + c) : q[i] = q[k] => i = k
  /\ \A i \in (a + 1) .. (a + c - 1) : m[q[i]].next = q[i + 1] /\ m[q[i + 1]].prev = q[i]

Pasted(D, m, w, p, b, x, y) ==
  /\ w \in Memories(D)
  /\ w[x].prev = p /\ w[y].next = b
  /\ w[p].next = x /\ w[p].prev = m[p].prev
  /\ w[b].prev = y /\ w[b].next = m[b].next
  /\ x # y => w[x].next = m[x].next /\ w[y].prev = m[y].prev
  /\ \A e \in D : e \notin {x, y, p, b} => w[e] = m[e]

LEMMA PasteLinks ==
  ASSUME NEW D, NEW m \in Memories(D), NEW p \in D, NEW b \in D, NEW x \in D, NEW y \in D,
         p # b, x \notin {p, b}, y \notin {p, b}, m[b].prev = p, NEW w, w = Paste(m, b, x, y)
  PROVE  Pasted(D, m, w, p, b, x, y)
<1> DEFINE m1 == [m EXCEPT ![x].prev = p]
           m2 == [m1 EXCEPT ![y].next = b]
           m3 == [m2 EXCEPT ![p].next = x]
           m4 == [m3 EXCEPT ![b].prev = y]
<1>1. w = m4
  BY DEF Paste
<1>2. /\ m1 \in Memories(D) /\ m1[x].prev = p /\ m1[x].next = m[x].next
      /\ \A e \in D : e # x => m1[e] = m[e]
  BY PrevSet
<1> HIDE DEF m1
<1>3. /\ m2 \in Memories(D) /\ m2[y].next = b /\ m2[y].prev = m1[y].prev
      /\ \A e \in D : e # y => m2[e] = m1[e]
  BY <1>2, NextSet
<1> HIDE DEF m2
<1>4. /\ m3 \in Memories(D) /\ m3[p].next = x /\ m3[p].prev = m2[p].prev
      /\ \A e \in D : e # p => m3[e] = m2[e]
  BY <1>3, NextSet
<1> HIDE DEF m3
<1>5. /\ m4 \in Memories(D) /\ m4[b].prev = y /\ m4[b].next = m3[b].next
      /\ \A e \in D : e # b => m4[e] = m3[e]
  BY <1>4, PrevSet
<1> HIDE DEF m4
<1>6. w[x].prev = p /\ w[y].next = b
  BY <1>1, <1>2, <1>3, <1>4, <1>5
<1>7. /\ w[p].next = x /\ w[p].prev = m[p].prev
      /\ w[b].prev = y /\ w[b].next = m[b].next
  BY <1>1, <1>2, <1>3, <1>4, <1>5
<1>8. x # y => w[x].next = m[x].next /\ w[y].prev = m[y].prev
  BY <1>1, <1>2, <1>3, <1>4, <1>5
<1>9. \A e \in D : e \notin {x, y, p, b} => w[e] = m[e]
  BY <1>1, <1>2, <1>3, <1>4, <1>5
<1> QED BY <1>1, <1>5, <1>6, <1>7, <1>8, <1>9 DEF Pasted

LEMMA PasteChain ==
  ASSUME NEW D, NEW m \in Memories(D), NEW l, NEW t, Chain(m, l, t), NEW q \in Seq(D),
         NEW a, NEW c, CutFrom(t, q, a, c), Loose(m, l, t, q, a, c),
         NEW w, w = Paste(m, At(l, t, a + 1), q[a + 1], q[a + c])
  PROVE  /\ Chain(w, l, q) /\ w \in Memories(D)
         /\ \A e \in D : e \notin Cells(l, q) => w[e] = m[e]
<1> DEFINE p == At(l, t, a)
           b == At(l, t, a + 1)
           x == q[a + 1]
           y == q[a + c]
           n == Len(t)
           h == Len(q)
<1>1. DOMAIN m = D /\ t \in Seq(D)
  <2>1. DOMAIN m = D
    BY DEF Memories
  <2> QED BY <2>1, CellTypes
<1>2. /\ n \in Nat /\ h \in Nat /\ a \in Nat /\ c \in Nat \ {0} /\ a <= n /\ h = n + c
      /\ DOMAIN t = 1 .. n /\ DOMAIN q = 1 .. h
      /\ \A i \in 1 .. n : t[i] = IF i <= a THEN q[i] ELSE q[i + c]
  <2>1. n \in Nat /\ h \in Nat /\ DOMAIN t = 1 .. n /\ DOMAIN q = 1 .. h
    BY <1>1
  <2> QED BY <2>1 DEF CutFrom
<1>3. /\ \A i \in 0 .. n + 1 : At(l, t, i) \in D /\ At(l, t, i) \in Cells(l, t)
      /\ \A i, k \in 0 .. n + 1 : At(l, t, i) = At(l, t, k) => i = k
      /\ At(l, t, 0) = head(l) /\ At(l, t, n + 1) = tail(l)
      /\ \A i \in 1 .. n : At(l, t, i) = t[i]
  BY <1>1, CellTypes
<1>4. \A i \in 0 .. n : m[At(l, t, i)].next = At(l, t, i + 1) /\ m[At(l, t, i + 1)].prev = At(l, t, i)
  BY CellLinks
<1>5. /\ \A i \in 0 .. a : At(l, q, i) = At(l, t, i)
      /\ \A i \in (a + 1) .. (n + 1) : At(l, q, i + c) = At(l, t, i)
      /\ Cells(l, t) \subseteq Cells(l, q)
  <2>1. Places(l, t, q, a, c)
    BY <1>1, CutPlaces
  <2> QED BY <2>1 DEF Places
<1>6. \A i \in (a + 1) .. (a + c) : /\ i \in 1 .. h /\ At(l, q, i) = q[i] /\ q[i] \in D
                                   /\ q[i] \notin Cells(l, t) /\ q[i] \in Cells(l, q)
  <2> SUFFICES ASSUME NEW i \in (a + 1) .. (a + c)
               PROVE  /\ i \in 1 .. h /\ At(l, q, i) = q[i] /\ q[i] \in D
                      /\ q[i] \notin Cells(l, t) /\ q[i] \in Cells(l, q)
    OBVIOUS
  <2>1. i \in 1 .. h /\ i # 0 /\ i <= h
    BY <1>2
  <2>2. q[i] \in D /\ q[i] \in ToSet(q)
    BY <1>2, <2>1 DEF ToSet
  <2>3. At(l, q, i) = q[i]
    BY <2>1 DEF At
  <2> QED BY <2>1, <2>2, <2>3 DEF Loose, Cells
<1> HIDE DEF n, h
<1>7. /\ a + 1 \in (a + 1) .. (a + c) /\ a + c \in (a + 1) .. (a + c)
      /\ a \in 0 .. n + 1 /\ a + 1 \in 0 .. n + 1 /\ a # a + 1 /\ a \in 0 .. n
  BY <1>2
<1>8. /\ p \in D /\ b \in D /\ x \in D /\ y \in D /\ p # b /\ m[b].prev = p
      /\ x \notin {p, b} /\ y \notin {p, b}
      /\ p \in Cells(l, t) /\ b \in Cells(l, t)
  BY <1>3, <1>4, <1>6, <1>7
<1>9. x = y <=> c = 1
  <2>1. a + 1 = a + c <=> c = 1
    BY <1>2
  <2> QED BY <1>7, <2>1 DEF Loose
<1> HIDE DEF p, b, x, y
<1>10. /\ w \in Memories(D)
       /\ w[x].prev = p /\ w[y].next = b
       /\ w[p].next = x /\ w[p].prev = m[p].prev
       /\ w[b].prev = y /\ w[b].next = m[b].next
       /\ x # y => w[x].next = m[x].next /\ w[y].prev = m[y].prev
       /\ \A e \in D : e \notin {x, y, p, b} => w[e] = m[e]
  <2>1. w = Paste(m, b, x, y)
    BY DEF b, x, y
  <2>2. Pasted(D, m, w, p, b, x, y)
    BY <1>8, <2>1, PasteLinks
  <2> QED BY <2>2 DEF Pasted
<1>11. DOMAIN w = D
  BY <1>10 DEF Memories
<1>12. At(l, q, a) = p /\ At(l, q, a + 1) = x /\ At(l, q, a + c) = y /\ At(l, q, a + c + 1) = b
  <2>1. At(l, q, (a + 1) + c) = b /\ (a + 1) + c = a + c + 1 /\ a \in 0 .. a
    <3>1. a + 1 \in (a + 1) .. (n + 1) /\ a \in 0 .. a /\ (a + 1) + c = a + c + 1
      BY <1>2
    <3> QED BY <1>5, <3>1 DEF b
  <2> QED BY <1>5, <1>6, <1>7, <2>1 DEF p, x, y
<1>13. ASSUME NEW i \in 0 .. h
       PROVE  w[At(l, q, i)].next = At(l, q, i + 1) /\ w[At(l, q, i + 1)].prev = At(l, q, i)
  <2>1. CASE i = a
    BY <1>10, <1>12, <2>1
  <2>2. CASE i = a + c
    BY <1>10, <1>12, <2>2
  <2>3. CASE i < a
    <3>1. /\ i \in 0 .. a /\ i + 1 \in 0 .. a /\ i \in 0 .. n /\ i \in 0 .. n + 1
          /\ i + 1 \in 0 .. n + 1 /\ i # a /\ i + 1 # a + 1 /\ i # a + 1
      BY <1>2, <2>3
    <3>2. /\ At(l, t, i) \notin {p, b} /\ At(l, t, i + 1) # b
          /\ At(l, t, i) \in D /\ At(l, t, i + 1) \in D
          /\ At(l, t, i) \notin {x, y} /\ At(l, t, i + 1) \notin {x, y}
      BY <1>3, <1>6, <1>7, <3>1 DEF p, b, x, y
    <3>3. w[At(l, t, i)] = m[At(l, t, i)] /\ w[At(l, t, i + 1)].prev = m[At(l, t, i + 1)].prev
      BY <1>10, <3>2
    <3> QED BY <1>4, <1>5, <3>1, <3>3
  <2>4. CASE a < i /\ i < a + c
    <3>1. /\ i \in (a + 1) .. (a + c - 1) /\ i \in (a + 1) .. (a + c) /\ i + 1 \in (a + 1) .. (a + c)
          /\ i # a + c /\ i + 1 # a + 1 /\ c # 1
      BY <1>2, <2>4
    <3>2. m[q[i]].next = q[i + 1] /\ m[q[i + 1]].prev = q[i]
      BY <3>1 DEF Loose
    <3>3. q[i] # y /\ q[i + 1] # x /\ x # y
      BY <1>7, <1>9, <3>1 DEF Loose, x, y
    <3>4. /\ q[i] \in D /\ q[i + 1] \in D /\ q[i] \notin {p, b} /\ q[i + 1] \notin {p, b}
      BY <1>6, <1>8, <3>1
    <3>5. w[q[i]].next = m[q[i]].next
      BY <1>10, <3>3, <3>4
    <3>6. w[q[i + 1]].prev = m[q[i + 1]].prev
      BY <1>10, <3>3, <3>4
    <3> QED BY <1>6, <3>1, <3>2, <3>5, <3>6
  <2>5. CASE i > a + c
    <3> DEFINE k == i - c
    <3>1. /\ k \in (a + 1) .. (n + 1) /\ k + 1 \in (a + 1) .. (n + 1) /\ (k + 1) + c = i + 1 /\ k + c = i
          /\ k \in 0 .. n /\ k \in 0 .. n + 1 /\ k + 1 \in 0 .. n + 1
          /\ k # a /\ k + 1 # a + 1 /\ k + 1 # a
      BY <1>2, <2>5
    <3>2. At(l, q, i) = At(l, t, k) /\ At(l, q, i + 1) = At(l, t, k + 1)
      BY <1>5, <3>1
    <3> HIDE DEF k
    <3>3. /\ At(l, t, k) # p /\ At(l, t, k + 1) \notin {p, b}
          /\ At(l, t, k) \in D /\ At(l, t, k + 1) \in D
          /\ At(l, t, k) \notin {x, y} /\ At(l, t, k + 1) \notin {x, y}
      BY <1>3, <1>6, <1>7, <3>1 DEF p, b, x, y
    <3>4. w[At(l, t, k)].next = m[At(l, t, k)].next /\ w[At(l, t, k + 1)] = m[At(l, t, k + 1)]
      BY <1>10, <3>3
    <3> QED BY <1>4, <3>1, <3>2, <3>4
  <2>6. i = a \/ i = a + c \/ i < a \/ (a < i /\ i < a + c) \/ i > a + c
    BY <1>2
  <2> QED BY <2>1, <2>2, <2>3, <2>4, <2>5, <2>6
<1>14. head(l) \in D /\ tail(l) \in D /\ w[head(l)].prev = Null /\ w[tail(l)].next = Null
  <2>1. m[head(l)].prev = Null /\ m[tail(l)].next = Null /\ head(l) \in D /\ tail(l) \in D
    BY <1>1 DEF Chain
  <2>2. 0 \in 0 .. n + 1 /\ n + 1 \in 0 .. n + 1 /\ a + 1 # 0 /\ a # n + 1
    BY <1>2
  <2>3. head(l) # b /\ tail(l) # p /\ head(l) \notin {x, y} /\ tail(l) \notin {x, y}
    BY <1>3, <1>6, <1>7, <2>2 DEF p, b, x, y
  <2> QED BY <1>10, <2>1, <2>3
<1>15. /\ \A i \in 1 .. h : q[i] \notin {head(l), tail(l)}
       /\ \A i, k \in 1 .. h : q[i] = q[k] => i = k
  <2>1. \A i, k \in (a + 1) .. (a + c) : q[i] = q[k] => i = k
    BY DEF Loose
  <2>2. \A i \in 1 .. h : i \in (a + 1) .. (a + c) \/ \E k \in 1 .. n : q[i] = t[k] /\ i = IF k <= a THEN k ELSE k + c
    <3> SUFFICES ASSUME NEW i \in 1 .. h, i \notin (a + 1) .. (a + c)
                 PROVE  \E k \in 1 .. n : q[i] = t[k] /\ i = IF k <= a THEN k ELSE k + c
      OBVIOUS
    <3>1. CASE i <= a
      <4>1. i \in 1 .. n /\ q[i] = t[i]
        BY <1>2, <3>1
      <4> QED BY <3>1, <4>1
    <3>2. CASE i > a + c
      <4> DEFINE k == i - c
      <4>1. k \in 1 .. n /\ ~(k <= a) /\ k + c = i
        BY <1>2, <3>2
      <4> HIDE DEF k
      <4>2. q[i] = t[k]
        BY <1>2, <4>1
      <4> QED BY <4>1, <4>2
    <3> QED BY <1>2, <3>1, <3>2
  <2>3. \A k \in 1 .. n : t[k] \in Cells(l, t) /\ t[k] \notin {head(l), tail(l)}
    BY <1>2 DEF Chain, Cells, ToSet
  <2>4. \A i, k \in 1 .. n : t[i] = t[k] => i = k
    BY <1>2 DEF Chain
  <2>5. ASSUME NEW i \in 1 .. h PROVE q[i] \notin {head(l), tail(l)}
    <3>1. CASE i \in (a + 1) .. (a + c)
      BY <1>6, <3>1 DEF Cells
    <3> QED BY <2>2, <2>3, <3>1
  <2>6. ASSUME NEW i \in 1 .. h, NEW k \in 1 .. h, q[i] = q[k] PROVE i = k
    <3>1. CASE i \in (a + 1) .. (a + c) /\ k \in (a + 1) .. (a + c)
      BY <2>1, <2>6, <3>1
    <3>2. CASE i \in (a + 1) .. (a + c) /\ k \notin (a + 1) .. (a + c)
      BY <1>6, <2>2, <2>3, <2>6, <3>2
    <3>3. CASE i \notin (a + 1) .. (a + c) /\ k \in (a + 1) .. (a + c)
      BY <1>6, <2>2, <2>3, <2>6, <3>3
    <3>4. CASE i \notin (a + 1) .. (a + c) /\ k \notin (a + 1) .. (a + c)
      <4>1. PICK g \in 1 .. n : q[i] = t[g] /\ i = IF g <= a THEN g ELSE g + c
        BY <2>2, <3>4
      <4>2. PICK j \in 1 .. n : q[k] = t[j] /\ k = IF j <= a THEN j ELSE j + c
        BY <2>2, <3>4
      <4>3. g = j
        BY <2>4, <2>6, <4>1, <4>2
      <4> QED BY <4>1, <4>2, <4>3
    <3> QED BY <3>1, <3>2, <3>3, <3>4
  <2> QED BY <2>5, <2>6
<1>16. Chain(w, l, q)
  BY <1>2, <1>11, <1>13, <1>14, <1>15 DEF Chain, h
<1>17. ASSUME NEW e \in D, e \notin Cells(l, q) PROVE w[e] = m[e]
  <2>1. x \in Cells(l, q) /\ y \in Cells(l, q)
    BY <1>6, <1>7 DEF x, y
  <2> QED BY <1>5, <1>8, <1>10, <1>17, <2>1
<1> QED BY <1>10, <1>16, <1>17

LEMMA Middle ==
  ASSUME NEW D, NEW u \in Seq(D), NEW r \in Seq(D), NEW v \in Seq(D), r # <<>>
  PROVE  /\ u \o v \in Seq(D) /\ u \o r \o v \in Seq(D)
         /\ CutFrom(u \o v, u \o r \o v, Len(u), Len(r))
         /\ \A i \in 1 .. Len(r) : (u \o r \o v)[Len(u) + i] = r[i]
<1> DEFINE t == u \o v
           s == u \o r
           q == s \o v
           a == Len(u)
           c == Len(r)
           d == Len(v)
<1>1. a \in Nat /\ c \in Nat \ {0} /\ d \in Nat
  BY EmptySeq
<1>2. /\ t \in Seq(D) /\ Len(t) = a + d
      /\ \A i \in 1 .. a + d : t[i] = IF i <= a THEN u[i] ELSE v[i - a]
  BY ConcatProperties
<1>3. /\ s \in Seq(D) /\ Len(s) = a + c
      /\ \A i \in 1 .. a + c : s[i] = IF i <= a THEN u[i] ELSE r[i - a]
  BY ConcatProperties
<1> HIDE DEF t, s
<1>4. /\ q \in Seq(D) /\ Len(q) = (a + c) + d
      /\ \A i \in 1 .. (a + c) + d : q[i] = IF i <= a + c THEN s[i] ELSE v[i - (a + c)]
  <2>1. /\ q \in Seq(D) /\ Len(q) = Len(s) + d
        /\ \A i \in 1 .. Len(s) + d : q[i] = IF i <= Len(s) THEN s[i] ELSE v[i - Len(s)]
    <3>1. s \in Seq(D)
      BY <1>3
    <3> QED BY <3>1, ConcatProperties
  <2> QED BY <1>3, <2>1
<1> HIDE DEF q, a, c, d
<1>5. ASSUME NEW i \in 1 .. a + d PROVE t[i] = IF i <= a THEN q[i] ELSE q[i + c]
  <2>1. CASE i <= a
    <3>1. i \in 1 .. (a + c) + d /\ i <= a + c /\ i \in 1 .. a + c
      BY <1>1, <2>1
    <3> QED BY <1>2, <1>3, <1>4, <2>1, <3>1
  <2>2. CASE ~(i <= a)
    <3> DEFINE j == i + c
    <3>1. j \in 1 .. (a + c) + d /\ ~(j <= a + c) /\ j - (a + c) = i - a
      BY <1>1, <2>2
    <3> HIDE DEF j
    <3>2. q[j] = v[i - a]
      BY <1>4, <3>1
    <3> QED BY <1>2, <2>2, <3>2 DEF j
  <2> QED BY <2>1, <2>2
<1>6. ASSUME NEW i \in 1 .. c PROVE q[a + i] = r[i]
  <2> DEFINE j == a + i
  <2>1. j \in 1 .. (a + c) + d /\ j <= a + c /\ j \in 1 .. a + c /\ ~(j <= a) /\ j - a = i
    BY <1>1
  <2> HIDE DEF j
  <2>2. q[j] = r[i]
    BY <1>3, <1>4, <2>1
  <2> QED BY <2>2 DEF j
<1>7. CutFrom(t, q, a, c)
  <2>1. a <= a + d /\ (a + c) + d = (a + d) + c
    BY <1>1
  <2> QED BY <1>1, <1>2, <1>4, <1>5, <2>1 DEF CutFrom
<1> QED BY <1>2, <1>4, <1>6, <1>7 DEF t, q, s, a, c

(* The elements r, in a row that is in no list.                            *)
Detached(m, r, l, t) ==
  /\ Row(m, r) /\ ToSet(r) \cap Cells(l, t) = {}
  /\ \A i, k \in 1 .. Len(r) : r[i] = r[k] => i = k

(* The links c after r was cut out of the list k.                          *)
TakenOut(D, m, c, k, x, r, y) ==
  /\ Chain(c, k, x \o y) /\ c \in Memories(D) /\ Detached(c, r, k, x \o y)
  /\ ToSet(r) \subseteq Cells(k, x \o r \o y) /\ Cells(k, x \o y) \subseteq Cells(k, x \o r \o y)
  /\ \A e \in D : e \notin Cells(k, x \o y) => c[e] = m[e]

LEMMA TakesOut ==
  ASSUME NEW D, NEW m \in Memories(D), NEW k, NEW x \in Seq(D), NEW r \in Seq(D), NEW y \in Seq(D),
         r # <<>>, Chain(m, k, x \o r \o y), NEW w, w = Cut(m, r[1], r[Len(r)])
  PROVE  TakenOut(D, m, w, k, x, r, y)
<1> DEFINE q == x \o r \o y
           t == x \o y
           a == Len(x)
           c == Len(r)
<1>1. /\ t \in Seq(D) /\ q \in Seq(D) /\ CutFrom(t, q, a, c)
      /\ \A i \in 1 .. c : q[a + i] = r[i]
  BY Middle
<1>2. a \in Nat /\ c \in Nat \ {0} /\ DOMAIN m = D /\ DOMAIN r = 1 .. c
  BY EmptySeq DEF Memories
<1>3. Chain(m, k, q)
  OBVIOUS
<1> HIDE DEF q, t, a
<1>4. w = Cut(m, q[a + 1], q[a + c])
  <2>1. 1 \in 1 .. c /\ c \in 1 .. c
    BY <1>2
  <2> QED BY <1>1, <2>1
<1>5. /\ Chain(w, k, t) /\ w \in Memories(D)
      /\ \A e \in D : e \notin Cells(k, t) => w[e] = m[e]
  BY <1>1, <1>3, <1>4, CutChain
<1>6. Places(k, t, q, a, c)
  BY <1>1, CutPlaces
<1> DEFINE n == Len(t)
           h == Len(q)
<1>7. /\ n \in Nat /\ h \in Nat /\ a <= n /\ h = n + c /\ DOMAIN q = 1 .. h
      /\ \A i \in 0 .. h + 1 : At(k, q, i) \in D /\ At(k, q, i) \in Cells(k, q)
      /\ \A i, j \in 0 .. h + 1 : At(k, q, i) = At(k, q, j) => i = j
      /\ \A i \in 1 .. h : At(k, q, i) = q[i]
  <2>1. n \in Nat /\ h \in Nat /\ DOMAIN q = 1 .. h
    BY <1>1
  <2>2. a <= n /\ h = n + c
    BY <1>1 DEF CutFrom
  <2> QED BY <1>2, <1>3, <2>1, <2>2, CellTypes
<1>8. /\ \A i \in 0 .. n + 1 : At(k, t, i) = At(k, q, IF i <= a THEN i ELSE i + c)
      /\ Cells(k, t) \subseteq Cells(k, q)
  <2>1. ASSUME NEW i \in 0 .. n + 1
        PROVE  At(k, t, i) = At(k, q, IF i <= a THEN i ELSE i + c)
    <3> HIDE DEF n
    <3>1. i \in 0 .. a \/ (~(i <= a) /\ i \in (a + 1) .. (n + 1))
      BY <1>2, <1>7
    <3>2. i \in 0 .. a => i <= a
      BY <1>2
    <3>3. \A j \in (a + 1) .. (n + 1) : At(k, t, j) = At(k, q, j + c)
      BY <1>6 DEF Places, n
    <3> QED BY <1>6, <3>1, <3>2, <3>3 DEF Places
  <2> QED BY <1>6, <2>1 DEF Places
<1>9. \A i \in 1 .. c : a + i \in 1 .. h /\ a + i \in 0 .. h + 1 /\ r[i] = At(k, q, a + i)
  <2> SUFFICES ASSUME NEW i \in 1 .. c
               PROVE  a + i \in 1 .. h /\ a + i \in 0 .. h + 1 /\ r[i] = At(k, q, a + i)
    OBVIOUS
  <2>1. a + i \in 1 .. h /\ a + i \in 0 .. h + 1
    <3> HIDE DEF h, n, c
    <3> QED BY <1>2, <1>7
  <2> QED BY <1>1, <1>7, <2>1
<1> HIDE DEF n, h, c
<1>10. \A i, j \in 1 .. c : r[i] = r[j] => i = j
  <2> SUFFICES ASSUME NEW i \in 1 .. c, NEW j \in 1 .. c, r[i] = r[j] PROVE i = j
    OBVIOUS
  <2>1. a + i = a + j
    BY <1>7, <1>9
  <2> QED BY <1>2, <2>1
<1>11. ASSUME NEW i \in 1 .. c, NEW j \in 0 .. n + 1 PROVE r[i] # At(k, t, j)
  <2> DEFINE g == IF j <= a THEN j ELSE j + c
  <2>1. g \in 0 .. h + 1 /\ g # a + i
    BY <1>2, <1>7
  <2>2. At(k, t, j) = At(k, q, g)
    BY <1>8
  <2> HIDE DEF g
  <2> QED BY <1>7, <1>9, <2>1, <2>2
<1>12. \A e \in Cells(k, t) : \E j \in 0 .. n + 1 : e = At(k, t, j)
  <2> SUFFICES ASSUME NEW e \in Cells(k, t) PROVE \E j \in 0 .. n + 1 : e = At(k, t, j)
    OBVIOUS
  <2>1. At(k, t, 0) = head(k) /\ At(k, t, n + 1) = tail(k) /\ \A i \in 1 .. n : At(k, t, i) = t[i]
    BY <1>5, CellTypes DEF n
  <2>2. DOMAIN t = 1 .. n
    BY <1>1 DEF n
  <2>3. e = head(k) \/ e = tail(k) \/ \E i \in 1 .. n : e = t[i]
    BY <2>2 DEF Cells, ToSet
  <2>4. 0 \in 0 .. n + 1 /\ n + 1 \in 0 .. n + 1 /\ \A i \in 1 .. n : i \in 0 .. n + 1
    BY <1>7
  <2> QED BY <2>1, <2>3, <2>4
<1>13. \A i \in 1 .. c : r[i] \in D /\ r[i] \notin Cells(k, t) /\ r[i] \in Cells(k, q)
  BY <1>7, <1>9, <1>11, <1>12
<1>14. ToSet(r) \cap Cells(k, t) = {} /\ ToSet(r) \subseteq Cells(k, q)
  BY <1>2, <1>13 DEF ToSet
<1>15. Row(w, r)
  <2> SUFFICES ASSUME NEW i \in 1 .. c - 1
               PROVE  w[r[i]].next = r[i + 1] /\ w[r[i + 1]].prev = r[i]
    BY DEF Row, c
  <2>1. i \in 1 .. c /\ i + 1 \in 1 .. c /\ a + i \in 0 .. h /\ a + (i + 1) = (a + i) + 1
    BY <1>2, <1>7
  <2>2. w[r[i]] = m[r[i]] /\ w[r[i + 1]] = m[r[i + 1]]
    BY <1>5, <1>13, <2>1
  <2>3. m[At(k, q, a + i)].next = At(k, q, (a + i) + 1) /\ m[At(k, q, (a + i) + 1)].prev = At(k, q, a + i)
    BY <1>3, <2>1, CellLinks DEF h
  <2> QED BY <1>9, <2>1, <2>2, <2>3
<1>16. Detached(w, r, k, t)
  BY <1>10, <1>14, <1>15 DEF Detached, c
<1> QED BY <1>5, <1>8, <1>14, <1>16 DEF TakenOut, q, t

LEMMA PutsIn ==
  ASSUME NEW D, NEW m \in Memories(D), NEW l, NEW u \in Seq(D), NEW r \in Seq(D), NEW v \in Seq(D),
         r # <<>>, Chain(m, l, u \o v), Detached(m, r, l, u \o v),
         NEW w, w = Paste(m, At(l, u \o v, Len(u) + 1), r[1], r[Len(r)])
  PROVE  Changed(D, m, w, l, u \o r \o v, Cells(l, u \o v) \cup ToSet(r))
<1> DEFINE q == u \o r \o v
           t == u \o v
           a == Len(u)
           c == Len(r)
<1>1. /\ t \in Seq(D) /\ q \in Seq(D) /\ CutFrom(t, q, a, c)
      /\ \A i \in 1 .. c : q[a + i] = r[i]
  BY Middle
<1>2. a \in Nat /\ c \in Nat \ {0} /\ DOMAIN r = 1 .. c
  BY EmptySeq
<1>3. Chain(m, l, t) /\ Detached(m, r, l, t) /\ w = Paste(m, At(l, t, a + 1), r[1], r[c])
  OBVIOUS
<1> HIDE DEF q, t, a
<1>4. \A i \in (a + 1) .. (a + c) : i - a \in 1 .. c /\ q[i] = r[i - a]
  <2> SUFFICES ASSUME NEW i \in (a + 1) .. (a + c) PROVE i - a \in 1 .. c /\ q[i] = r[i - a]
    OBVIOUS
  <2> DEFINE j == i - a
  <2>1. j \in 1 .. c /\ a + j = i
    <3> HIDE DEF c
    <3> QED BY <1>2
  <2> HIDE DEF j
  <2>2. q[i] = r[j]
    BY <1>1, <2>1
  <2> QED BY <2>1, <2>2 DEF j
<1>5. w = Paste(m, At(l, t, a + 1), q[a + 1], q[a + c])
  <2>1. 1 \in 1 .. c /\ c \in 1 .. c
    BY <1>2
  <2> QED BY <1>1, <1>3, <2>1
<1> HIDE DEF c
<1>6. Loose(m, l, t, q, a, c)
  <2>1. ASSUME NEW i \in (a + 1) .. (a + c) PROVE q[i] \notin Cells(l, t)
    <3>1. r[i - a] \in ToSet(r)
      BY <1>2, <1>4 DEF ToSet
    <3> QED BY <1>3, <1>4, <3>1 DEF Detached
  <2>2. ASSUME NEW i \in (a + 1) .. (a + c), NEW k \in (a + 1) .. (a + c), q[i] = q[k] PROVE i = k
    <3>1. i - a = k - a
      BY <1>3, <1>4, <2>2 DEF Detached, c
    <3> QED BY <1>2, <3>1
  <2>3. ASSUME NEW i \in (a + 1) .. (a + c - 1)
        PROVE  m[q[i]].next = q[i + 1] /\ m[q[i + 1]].prev = q[i]
    <3> DEFINE j == i - a
    <3>1. i \in (a + 1) .. (a + c) /\ i + 1 \in (a + 1) .. (a + c) /\ j \in 1 .. c - 1
          /\ (i + 1) - a = j + 1
      BY <1>2
    <3>2. q[i] = r[j] /\ q[i + 1] = r[j + 1]
      BY <1>4, <3>1
    <3> HIDE DEF j
    <3> QED BY <1>3, <3>1, <3>2 DEF Detached, Row, c
  <2> QED BY <2>1, <2>2, <2>3 DEF Loose
<1>7. /\ Chain(w, l, q) /\ w \in Memories(D)
      /\ \A e \in D : e \notin Cells(l, q) => w[e] = m[e]
  BY <1>1, <1>3, <1>5, <1>6, PasteChain
<1>8. Cells(l, q) \subseteq Cells(l, t) \cup ToSet(r)
  <2> DEFINE n == Len(t)
             h == Len(q)
  <2>1. n \in Nat /\ h \in Nat /\ DOMAIN t = 1 .. n /\ DOMAIN q = 1 .. h
    BY <1>1
  <2>2. h = n + c /\ a <= n /\ \A i \in 1 .. n : t[i] = IF i <= a THEN q[i] ELSE q[i + c]
    BY <1>1 DEF CutFrom
  <2> HIDE DEF n, h
  <2>3. ASSUME NEW i \in 1 .. h PROVE q[i] \in ToSet(t) \cup ToSet(r)
    <3>1. CASE i <= a
      <4>1. i \in 1 .. n /\ q[i] = t[i]
        BY <1>2, <2>1, <2>2, <3>1
      <4> QED BY <2>1, <4>1 DEF ToSet
    <3>2. CASE a < i /\ i <= a + c
      <4>1. i \in (a + 1) .. (a + c)
        BY <1>2, <3>2
      <4> QED BY <1>2, <1>4, <4>1 DEF ToSet
    <3>3. CASE i > a + c
      <4> DEFINE j == i - c
      <4>1. j \in 1 .. n /\ ~(j <= a) /\ j + c = i
        BY <1>2, <2>1, <2>2, <3>3
      <4> HIDE DEF j
      <4>2. q[i] = t[j]
        BY <2>2, <4>1
      <4> QED BY <2>1, <4>1, <4>2 DEF ToSet
    <3> QED BY <1>2, <2>1, <3>1, <3>2, <3>3
  <2> QED BY <2>1, <2>3 DEF Cells, ToSet
<1> QED BY <1>7, <1>8 DEF Changed, q, t

LEMMA SpliceNothing ==
  ASSUME NEW m, NEW b, NEW first
  PROVE  list_splice(m, b, first, first) = m
BY DEF list_splice

LEMMA SpliceMoves ==
  ASSUME NEW m, NEW b, NEW first, NEW end, first # end, NEW last, last = m[end].prev
  PROVE  list_splice(m, b, first, end) = Paste(Cut(m, first, last), b, first, last)
<1>1. list_prev(m, end) = last
  BY DEF list_prev
<1> QED BY <1>1 DEF list_splice, Cut, Paste

(* What list_splice does to the links: it cuts r out and puts it before b. *)
Spliced(m, w, b, r) ==
  /\ r = <<>> => w = m
  /\ r # <<>> => w = Paste(Cut(m, r[1], r[Len(r)]), b, r[1], r[Len(r)])

LEMMA SpliceIs ==
  ASSUME NEW D, NEW m \in Memories(D), NEW k, NEW x \in Seq(D), NEW r \in Seq(D), NEW y \in Seq(D),
         NEW q, q = x \o r \o y, Chain(m, k, q), NEW b,
         NEW w, w = list_splice(m, b, At(k, q, Len(x) + 1), At(k, q, Len(x) + Len(r) + 1))
  PROVE  Spliced(m, w, b, r)
<1> DEFINE a == Len(x)
           c == Len(r)
           first == At(k, q, a + 1)
           end == At(k, q, a + c + 1)
<1>1. a \in Nat /\ c \in Nat
  OBVIOUS
<1>2. CASE r = <<>>
  <2>1. c = 0
    BY <1>2
  <2>2. first = end
    <3> HIDE DEF a, c
    <3>1. a + c + 1 = a + 1
      BY <1>1, <2>1
    <3> QED BY <3>1
  <2>3. w = m
    <3> HIDE DEF first, end
    <3>1. w = list_splice(m, b, first, end)
      BY DEF first, end
    <3> QED BY <2>2, <3>1, SpliceNothing
  <2> QED BY <1>2, <2>3 DEF Spliced
<1>3. CASE r # <<>>
  <2>1. c \in Nat \ {0}
    BY <1>3, EmptySeq
  <2>2. /\ x \o y \in Seq(D) /\ q \in Seq(D) /\ CutFrom(x \o y, q, a, c)
        /\ \A i \in 1 .. c : q[a + i] = r[i]
    BY <1>3, Middle
  <2>3. Len(q) \in Nat /\ a + c <= Len(q)
    <3>1. Len(q) \in Nat /\ Len(x \o y) \in Nat
      BY <2>2
    <3>2. a <= Len(x \o y) /\ Len(q) = Len(x \o y) + c
      BY <2>2 DEF CutFrom
    <3> DEFINE h == Len(q)
               n == Len(x \o y)
    <3> HIDE DEF h, n, a, c
    <3>3. h \in Nat /\ n \in Nat /\ a <= n /\ h = n + c
      BY <3>1, <3>2 DEF h, n
    <3>4. a + c <= h
      BY <1>1, <3>3
    <3> QED BY <3>3, <3>4 DEF h
  <2> DEFINE h == Len(q)
  <2>4. /\ \A i \in 1 .. h : At(k, q, i) = q[i]
        /\ \A i, j \in 0 .. h + 1 : At(k, q, i) = At(k, q, j) => i = j
    <3> HIDE DEF a, c, first, end
    <3>1. /\ \A i \in 1 .. Len(q) : At(k, q, i) = q[i]
          /\ \A i, j \in 0 .. Len(q) + 1 : At(k, q, i) = At(k, q, j) => i = j
      <4>1. Chain(m, k, q)
        OBVIOUS
      <4> QED BY ONLY <4>1, CellTypes
    <3> QED BY <3>1
  <2>5. q[a + 1] = r[1] /\ q[a + c] = r[c]
    BY <2>1, <2>2
  <2> HIDE DEF h, a, c
  <2>6. /\ a + 1 \in 1 .. h /\ a + c \in 1 .. h /\ a + 1 \in 0 .. h + 1 /\ a + c + 1 \in 0 .. h + 1
        /\ a + 1 # a + c + 1 /\ a + c \in 0 .. h
    BY <1>1, <2>1, <2>3 DEF h
  <2>7. first = r[1] /\ first # end
    BY <2>4, <2>5, <2>6
  <2>8. m[end].prev = r[c]
    <3>1. \A i \in 0 .. Len(q) : m[At(k, q, i + 1)].prev = At(k, q, i)
      <4>1. Chain(m, k, q)
        OBVIOUS
      <4> QED BY ONLY <4>1, CellLinks
    <3>2. m[At(k, q, a + c + 1)].prev = At(k, q, a + c)
      BY <2>6, <3>1 DEF h
    <3> QED BY <2>4, <2>5, <2>6, <3>2
  <2>9. w = list_splice(m, b, first, end)
    BY DEF a, c
  <2> HIDE DEF first, end
  <2>10. w = Paste(Cut(m, r[1], r[c]), b, r[1], r[c])
    BY <2>7, <2>8, <2>9, SpliceMoves
  <2> QED BY <1>3, <2>10 DEF Spliced, c
<1> QED BY <1>2, <1>3

(* list_splice moves the range r of the list k into the list l, whatever   *)
(* their lengths.                                                          *)
THEOREM SpliceChain ==
  ASSUME NEW D, NEW m \in Memories(D), NEW l, NEW k,
         NEW u \in Seq(D), NEW v \in Seq(D), Chain(m, l, u \o v),
         NEW x \in Seq(D), NEW r \in Seq(D), NEW y \in Seq(D), NEW q, q = x \o r \o y, Chain(m, k, q),
         Cells(l, u \o v) \cap Cells(k, q) = {},
         NEW w, w = list_splice(m, At(l, u \o v, Len(u) + 1),
                                At(k, q, Len(x) + 1), At(k, q, Len(x) + Len(r) + 1))
  PROVE  /\ Chain(w, l, u \o r \o v) /\ Chain(w, k, x \o y) /\ w \in Memories(D)
         /\ \A e \in D : e \notin Cells(l, u \o v) \cup Cells(k, q) => w[e] = m[e]
<1> DEFINE t == u \o v
           b == At(l, t, Len(u) + 1)
<1>1. /\ r = <<>> => w = m
      /\ r # <<>> => w = Paste(Cut(m, r[1], r[Len(r)]), b, r[1], r[Len(r)])
  <2>1. Spliced(m, w, b, r)
    BY SpliceIs
  <2> QED BY <2>1 DEF Spliced
<1>2. CASE r = <<>>
  <2>1. u \o r = u /\ x \o r = x
    BY <1>2, ConcatEmptySeq
  <2> QED BY <1>1, <1>2, <2>1
<1>3. CASE r # <<>>
  <2> DEFINE c == Cut(m, r[1], r[Len(r)])
             o == x \o y
  <2>1. TakenOut(D, m, c, k, x, r, y)
    BY <1>3, TakesOut
  <2>2. /\ Chain(c, k, o) /\ c \in Memories(D) /\ Detached(c, r, k, o)
        /\ ToSet(r) \subseteq Cells(k, q) /\ Cells(k, o) \subseteq Cells(k, q)
        /\ \A e \in D : e \notin Cells(k, o) => c[e] = m[e]
    BY <2>1 DEF TakenOut
  <2>3. w = Paste(c, b, r[1], r[Len(r)])
    BY <1>1, <1>3
  <2> HIDE DEF c, b
  <2>4. Chain(c, l, t)
    <3>1. \A e \in D : e \in Cells(l, t) => c[e] = m[e]
      BY <2>2
    <3> QED BY <2>2, <3>1, SameChain
  <2>5. Detached(c, r, l, t)
    BY <2>2 DEF Detached
  <2>6. Changed(D, c, w, l, u \o r \o v, Cells(l, t) \cup ToSet(r))
    BY <1>3, <2>2, <2>3, <2>4, <2>5, PutsIn DEF b
  <2>7. /\ Chain(w, l, u \o r \o v) /\ w \in Memories(D)
        /\ \A e \in D : e \notin Cells(l, t) \cup ToSet(r) => w[e] = c[e]
    BY <2>6 DEF Changed
  <2>8. Chain(w, k, o)
    <3>1. \A e \in D : e \in Cells(k, o) => w[e] = c[e]
      BY <2>2, <2>7 DEF Detached
    <3> QED BY <2>2, <2>7, <3>1, SameChain
  <2>9. ASSUME NEW e \in D, e \notin Cells(l, t) \cup Cells(k, q) PROVE w[e] = m[e]
    BY <2>2, <2>7, <2>9
  <2> QED BY <2>7, <2>8, <2>9
<1> QED BY <1>2, <1>3

(* list_splice within one list: b is an element that stays, or the tail.   *)
THEOREM SpliceWithin ==
  ASSUME NEW D, NEW m \in Memories(D), NEW l,
         NEW x \in Seq(D), NEW r \in Seq(D), NEW y \in Seq(D), NEW q, q = x \o r \o y, Chain(m, l, q),
         NEW u \in Seq(D), NEW v \in Seq(D), u \o v = x \o y,
         NEW w, w = list_splice(m, At(l, u \o v, Len(u) + 1),
                                At(l, q, Len(x) + 1), At(l, q, Len(x) + Len(r) + 1))
  PROVE  Changed(D, m, w, l, u \o r \o v, Cells(l, q))
<1> DEFINE t == u \o v
           b == At(l, t, Len(u) + 1)
<1>1. /\ r = <<>> => w = m
      /\ r # <<>> => w = Paste(Cut(m, r[1], r[Len(r)]), b, r[1], r[Len(r)])
  <2>1. Spliced(m, w, b, r)
    BY SpliceIs
  <2> QED BY <2>1 DEF Spliced
<1>2. CASE r = <<>>
  <2>1. u \o r = u /\ x \o r = x
    BY <1>2, ConcatEmptySeq
  <2>2. u \o r \o v = q
    BY <2>1
  <2> QED BY <1>1, <1>2, <2>2 DEF Changed
<1>3. CASE r # <<>>
  <2> DEFINE c == Cut(m, r[1], r[Len(r)])
  <2>1. TakenOut(D, m, c, l, x, r, y)
    BY <1>3, TakesOut
  <2>2. /\ Chain(c, l, t) /\ c \in Memories(D) /\ Detached(c, r, l, t)
        /\ ToSet(r) \subseteq Cells(l, q) /\ Cells(l, t) \subseteq Cells(l, q)
        /\ \A e \in D : e \notin Cells(l, t) => c[e] = m[e]
    BY <2>1 DEF TakenOut
  <2>3. w = Paste(c, b, r[1], r[Len(r)])
    BY <1>1, <1>3
  <2> HIDE DEF c, b
  <2>4. Changed(D, c, w, l, u \o r \o v, Cells(l, t) \cup ToSet(r))
    BY <1>3, <2>2, <2>3, PutsIn DEF b
  <2> QED BY <2>2, <2>4 DEF Changed
<1> QED BY <1>2, <1>3
=============================================================================
