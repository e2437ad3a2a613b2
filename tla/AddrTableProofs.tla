-------------------------- MODULE AddrTableProofs ---------------------------
(***************************************************************************)
(* Theorems about AddrTable, for any disjoint blocks, any length of the    *)
(* first array and any number of threads.                                  *)
(***************************************************************************)
EXTENDS AddrTableInv, FiniteSetTheorems, SequenceTheorems, WellFoundedInduction, TLAPS

(***************************************************************************)
(* Blocks, pages and numbers                                               *)
(***************************************************************************)
LEMMA OneMore ==
  ASSUME NEW S, IsFiniteSet(S), NEW x, x \notin S, NEW T, T = S \cup {x}
  PROVE  IsFiniteSet(T) /\ Cardinality(T) = Cardinality(S) + 1
BY FS_AddElement

LEMMA BlockPages ==
  ASSUME NEW b \in Blocks
  PROVE  /\ b.pgstart \in Nat \ {0} /\ b.npages \in Nat \ {0} /\ b # NoBlock
         /\ PagesOf(b) \subseteq Nat \ {0} /\ b.pgstart \in PagesOf(b)
         /\ \A p : p \in PagesOf(b) <=> p \in Nat /\ b.pgstart <= p /\ p < b.pgstart + b.npages
<1>1. b \in [pgstart : Nat \ {0}, npages : Nat \ {0}]
  BY AddrTableAssumption
<1>2. b.pgstart \in Nat \ {0} /\ b.npages \in Nat \ {0}
  BY <1>1
<1>3. b # NoBlock
  BY <1>2 DEF NoBlock
<1>4. \A p : p \in PagesOf(b) <=> p \in Nat /\ b.pgstart <= p /\ p < b.pgstart + b.npages
  BY <1>2 DEF PagesOf
<1> QED BY <1>2, <1>3, <1>4

LEMMA OneBlock ==
  ASSUME NEW b \in Blocks, NEW c \in Blocks, NEW p, p \in PagesOf(b), p \in PagesOf(c)
  PROVE  b = c
BY AddrTableAssumption

LEMMA EntryFields ==
  ASSUME NEW p, NEW b
  PROVE  Entry(p, b).key = p /\ Entry(p, b).value = b /\ Empty.key = 0 /\ Empty.value = NoBlock
BY DEF Entry, Empty

LEMMA Least ==
  ASSUME NEW T, T \subseteq Nat, T # {}
  PROVE  \E x \in T : \A y \in T : x <= y
<1>1. \E x \in T : \A y \in T : ~(<<y, x>> \in OpToRel(<, Nat))
  BY NatLessThanWellFounded, WFMin
<1>2. \A x, y \in Nat : <<y, x>> \in OpToRel(<, Nat) <=> y < x
  BY DEF OpToRel
<1>3. PICK x \in T : \A y \in T : ~(<<y, x>> \in OpToRel(<, Nat))
  BY <1>1
<1>4. \A y \in T : ~(y < x) /\ y \in Nat /\ x \in Nat
  BY <1>2, <1>3
<1> QED BY <1>4

(***************************************************************************)
(* Powers of two                                                           *)
(***************************************************************************)
LEMMA Induction ==
  ASSUME NEW S, S \subseteq Nat, 0 \in S, \A n \in S : n + 1 \in S
  PROVE  S = Nat
<1> DEFINE T == Nat \ S
<1>1. SUFFICES ASSUME T # {} PROVE FALSE
  OBVIOUS
<1>2. PICK x \in T : \A y \in T : x <= y
  BY <1>1, Least
<1>3. x \in Nat /\ x # 0 /\ x - 1 \in Nat /\ x - 1 < x
  BY <1>2
<1>4. x - 1 \in S /\ (x - 1) + 1 = x
  BY <1>2, <1>3
<1> QED BY <1>2, <1>4

LEMMA Subsets ==
  ASSUME NEW n \in Nat
  PROVE  /\ IsFiniteSet(SUBSET (1 .. n)) /\ Cardinality(SUBSET (1 .. n)) = 2^n
         /\ 2^n \in Nat \ {0}
<1> DEFINE S == 1 .. n
<1>1. IsFiniteSet(S) /\ Cardinality(S) = n
  BY FS_Interval
<1>2. IsFiniteSet(SUBSET S) /\ Cardinality(SUBSET S) = 2^n
  <2> HIDE DEF S
  <2> QED BY <1>1, FS_SUBSET
<1>3. Cardinality(SUBSET S) \in Nat /\ Cardinality(SUBSET S) # 0
  <2>1. SUBSET S # {}
    OBVIOUS
  <2> DEFINE P == SUBSET S
  <2>2. IsFiniteSet(P) /\ P # {}
    BY <1>2, <2>1
  <2> HIDE DEF P
  <2>3. Cardinality(P) \in Nat /\ Cardinality(P) # 0
    BY <2>2, FS_CardinalityType, FS_EmptySet
  <2> QED BY <2>3 DEF P
<1> QED BY <1>2, <1>3

(* The subsets of 1 .. n + 1 are those of 1 .. n, and these with n + 1.    *)
LEMMA Doubling ==
  ASSUME NEW n \in Nat
  PROVE  2^(n + 1) = 2 * 2^n
<1> DEFINE P == SUBSET (1 .. n)
           Q == SUBSET (1 .. (n + 1))
           R == Q \ P
           f == [T \in P |-> T \cup {n + 1}]
<1>1. IsFiniteSet(P) /\ Cardinality(P) = 2^n /\ 2^n \in Nat
  BY Subsets
<1>2. n + 1 \in Nat
  OBVIOUS
<1>3. Cardinality(Q) = 2^(n + 1)
  BY <1>2, Subsets
<1>4. P \subseteq Q
  OBVIOUS
<1>5. \A T \in Q : T \in P <=> n + 1 \notin T
  OBVIOUS
<1>6. f \in Bijection(P, R)
  <2>1. f \in [P -> R]
    <3> SUFFICES ASSUME NEW T \in P PROVE T \cup {n + 1} \in R
      OBVIOUS
    <3>1. T \cup {n + 1} \in Q
      OBVIOUS
    <3> QED BY <1>5, <3>1
  <2>2. \A T, U \in P : f[T] = f[U] => T = U
    <3> SUFFICES ASSUME NEW T \in P, NEW U \in P, T \cup {n + 1} = U \cup {n + 1} PROVE T = U
      OBVIOUS
    <3>1. n + 1 \notin T /\ n + 1 \notin U
      OBVIOUS
    <3> QED BY <3>1
  <2>3. \A V \in R : \E T \in P : f[T] = V
    <3> SUFFICES ASSUME NEW V \in R PROVE \E T \in P : f[T] = V
      OBVIOUS
    <3>1. n + 1 \in V
      BY <1>5
    <3>2. V \ {n + 1} \in P
      OBVIOUS
    <3>3. (V \ {n + 1}) \cup {n + 1} = V
      BY <3>1
    <3>4. f[V \ {n + 1}] = V
      BY <3>2, <3>3
    <3> QED BY <3>2, <3>4
  <2> HIDE DEF f, P, R
  <2>4. f \in Injection(P, R)
    BY <2>1, <2>2 DEF Injection, IsInjective
  <2>5. f \in Surjection(P, R)
    BY <2>1, <2>3 DEF Surjection
  <2> QED BY <2>4, <2>5 DEF Bijection
<1>7. P \cup R = Q /\ P \cap R = {}
  BY <1>4
<1> HIDE DEF f, P, Q, R
<1>8. IsFiniteSet(R) /\ Cardinality(R) = Cardinality(P)
  BY <1>1, <1>6, FS_Bijection DEF ExistsBijection
<1>9. Cardinality(P \cup R) = Cardinality(P) + Cardinality(R) - Cardinality(P \cap R)
  BY <1>1, <1>8, FS_Union
<1>10. Cardinality(P \cap R) = 0
  BY <1>7, FS_EmptySet
<1>11. Cardinality(Q) = 2^n + 2^n - 0
  BY <1>1, <1>7, <1>8, <1>9, <1>10
<1> DEFINE x == 2^n
           y == 2^(n + 1)
<1>12. x \in Nat /\ y = x + x - 0
  BY <1>1, <1>3, <1>11
<1>13. y = 2 * x
  <2> HIDE DEF x, y
  <2> QED BY <1>12
<1> QED BY <1>13

IsMultiple(z, c) == \E r \in Nat : z = c * r
IsOdd(d) == \E e \in Nat : d = 2 * e + 1

LEMMA OddCofactor ==
  ASSUME NEW d \in Nat, NEW z \in Nat, NEW f \in Nat, IsOdd(d), d * z = 2 * f
  PROVE  \E w \in Nat : z = 2 * w
<1>1. PICK e \in Nat : d = 2 * e + 1
  BY DEF IsOdd
<1>2. z = 2 * (f - e * z)
  BY <1>1
<1>3. f - e * z \in Int
  OBVIOUS
<1>4. f - e * z >= 0
  BY <1>2, <1>3
<1> QED BY <1>2, <1>3, <1>4

(* Who divides a product and has only the divisor 2, and one factor is     *)
(* odd, divides the other.                                                 *)
Divides(c) == \A d, z \in Nat : IsOdd(d) /\ IsMultiple(d * z, c) => IsMultiple(z, c)

LEMMA OddFactor ==
  ASSUME NEW n \in Nat
  PROVE  Divides(2^n)
<1> DEFINE S == {m \in Nat : Divides(2^m)}
<1>1. 0 \in S
  <2>1. 2^0 = 1
    OBVIOUS
  <2>2. Divides(1)
    BY DEF Divides, IsMultiple
  <2> QED BY <2>1, <2>2
<1>2. ASSUME NEW m \in S PROVE m + 1 \in S
  <2> DEFINE c == 2^m
             g == 2^(m + 1)
  <2>1. m \in Nat /\ c \in Nat /\ g = 2 * c /\ Divides(c)
    BY Subsets, Doubling
  <2>2. Divides(g)
    <3> HIDE DEF c, g
    <3> SUFFICES ASSUME NEW d \in Nat, NEW z \in Nat, IsOdd(d), IsMultiple(d * z, g)
                 PROVE  IsMultiple(z, g)
      BY DEF Divides
    <3>1. PICK q \in Nat : d * z = g * q
      BY DEF IsMultiple
    <3>2. d * z = 2 * (c * q) /\ c * q \in Nat
      BY <2>1, <3>1
    <3>3. PICK w \in Nat : z = 2 * w
      BY <3>2, OddCofactor
    <3>4. d * w = c * q
      BY <2>1, <3>2, <3>3
    <3>5. PICK r \in Nat : w = c * r
      <4>1. IsMultiple(d * w, c)
        BY <3>4 DEF IsMultiple
      <4>2. IsMultiple(w, c)
        BY <2>1, <4>1 DEF Divides
      <4> QED BY <4>2 DEF IsMultiple
    <3>6. z = g * r
      BY <2>1, <3>3, <3>5
    <3> QED BY <3>6 DEF IsMultiple
  <2> QED BY <2>1, <2>2
<1>3. S = Nat
  <2>1. S \subseteq Nat
    OBVIOUS
  <2> HIDE DEF S
  <2> QED BY <1>1, <1>2, <2>1, Induction
<1> QED BY <1>3

LEMMA FirstLength == 2^Power \in Nat /\ 2^Power >= 4
<1> DEFINE n == Power - 2
<1>1. n \in Nat /\ Power = (n + 1) + 1
  BY AddrTableAssumption
<1> HIDE DEF n
<1>2. 2^n \in Nat \ {0} /\ 2^(n + 1) = 2 * 2^n
  BY <1>1, Subsets, Doubling
<1>3. 2^((n + 1) + 1) = 2 * 2^(n + 1)
  <2>1. n + 1 \in Nat
    BY <1>1
  <2> QED BY <2>1, Doubling
<1> DEFINE x == 2^n
           y == 2^(n + 1)
           z == 2^((n + 1) + 1)
<1>4. x \in Nat \ {0} /\ y = 2 * x /\ z = 2 * y
  BY <1>2, <1>3
<1>5. z \in Nat /\ z >= 4
  <2> HIDE DEF x, y, z
  <2> QED BY <1>4
<1> QED BY <1>1, <1>5

(***************************************************************************)
(* The stack                                                               *)
(***************************************************************************)
Replaced(s, t, f) ==
  /\ t \in Seq(FrameType) /\ DOMAIN t = DOMAIN s /\ t[Len(s)] = f /\ Len(t) = Len(s)
  /\ \A k \in DOMAIN s : k # Len(s) => t[k] = s[k]

Pushed(s, t, f, e) ==
  /\ t \in Seq(FrameType) /\ DOMAIN t = DOMAIN s \cup {Len(s) + 1} /\ Len(t) = Len(s) + 1
  /\ t[Len(s) + 1] = e /\ t[Len(s)] = f
  /\ \A k \in DOMAIN s : k # Len(s) => t[k] = s[k]

Popped(s, t) ==
  /\ t \in Seq(FrameType) /\ DOMAIN t = DOMAIN s \ {Len(s)}
  /\ \A k \in DOMAIN t : t[k] = s[k]

LEMMA StackTop ==
  ASSUME stack \in Seq(FrameType), stack # <<>>
  PROVE  /\ DOMAIN stack = 1 .. Len(stack) /\ Len(stack) \in Nat \ {0}
         /\ Len(stack) \in DOMAIN stack
         /\ Top = stack[Len(stack)] /\ Top \in FrameType
BY DEF Top

LEMMA FrameFields ==
  ASSUME NEW f \in FrameType
  PROVE  /\ f.op \in {"insert", "expand"}
         /\ f.op = "insert" => f.block \in Blocks /\ f.pgidx \in Nat /\ f.checked \in BOOLEAN
         /\ f.op = "expand" => f.old \in Nat /\ f.i \in Nat
BY DEF FrameType

LEMMA TopReplaced ==
  ASSUME stack \in Seq(FrameType), stack # <<>>, NEW f \in FrameType, NEW t, t = WithTop(f)
  PROVE  Replaced(stack, t, f)
<1>1. DOMAIN stack = 1 .. Len(stack) /\ Len(stack) \in DOMAIN stack
  BY StackTop
<1>2. t = [stack EXCEPT ![Len(stack)] = f]
  BY DEF WithTop
<1>3. t \in Seq(FrameType) /\ Len(t) = Len(stack)
  BY <1>1, <1>2
<1> QED BY <1>1, <1>2, <1>3 DEF Replaced

LEMMA TopPushed ==
  ASSUME stack \in Seq(FrameType), stack # <<>>, NEW f \in FrameType, NEW e \in FrameType,
         NEW t, t = Append(WithTop(f), e)
  PROVE  Pushed(stack, t, f, e)
<1> DEFINE s == WithTop(f)
<1>1. Replaced(stack, s, f)
  BY TopReplaced
<1>2. DOMAIN stack = 1 .. Len(stack) /\ Len(stack) \in Nat \ {0}
  BY StackTop
<1> HIDE DEF s
<1>3. t = Append(s, e) /\ s \in Seq(FrameType) /\ Len(s) = Len(stack) /\ DOMAIN s = DOMAIN stack
  BY <1>1 DEF Replaced, s
<1>4. /\ t \in Seq(FrameType) /\ Len(t) = Len(stack) + 1 /\ t[Len(stack) + 1] = e
      /\ \A k \in 1 .. Len(stack) : t[k] = s[k]
  BY <1>3
<1>5. DOMAIN t = DOMAIN stack \cup {Len(stack) + 1}
  BY <1>2, <1>4
<1>6. ASSUME NEW k \in DOMAIN stack PROVE k # Len(stack) => t[k] = stack[k]
  <2>1. t[k] = s[k]
    BY <1>2, <1>4
  <2> QED BY <1>1, <2>1 DEF Replaced
<1>7. t[Len(stack)] = f
  <2>0. Len(stack) \in 1 .. Len(stack)
    BY <1>2
  <2>1. t[Len(stack)] = s[Len(stack)]
    BY <1>4, <2>0
  <2> QED BY <1>1, <2>1 DEF Replaced
<1> QED BY <1>4, <1>5, <1>6, <1>7 DEF Pushed

LEMMA TopPopped ==
  ASSUME stack \in Seq(FrameType), stack # <<>>, NEW t, t = Front(stack)
  PROVE  Popped(stack, t)
<1>1. DOMAIN stack = 1 .. Len(stack) /\ Len(stack) \in Nat \ {0}
  BY StackTop
<1>2. t = SubSeq(stack, 1, Len(stack) - 1)
  BY DEF Front
<1>3. /\ t \in Seq(FrameType) /\ Len(t) = Len(stack) - 1
      /\ \A k \in 1 .. (Len(stack) - 1) : t[k] = stack[k]
  BY <1>1, <1>2
<1>0. DOMAIN t = 1 .. (Len(stack) - 1)
  BY <1>1, <1>3
<1>4. DOMAIN t = DOMAIN stack \ {Len(stack)}
  BY <1>0, <1>1
<1>5. \A k \in DOMAIN t : t[k] = stack[k]
  BY <1>0, <1>3
<1> QED BY <1>3, <1>4, <1>5 DEF Popped

(***************************************************************************)
(* Probing                                                                 *)
(***************************************************************************)
LEMMA AtRange ==
  ASSUME NEW c \in Nat \ {0}, NEW p \in Nat, NEW k \in Nat
  PROVE  At(c, p, k) \in Slots(c)
<1>1. (k * k + k) \div 2 \in Nat
  OBVIOUS
<1> DEFINE n == p + ((k * k + k) \div 2)
<1>2. n \in Nat
  BY <1>1
<1> HIDE DEF n
<1>3. n % c \in 0 .. (c - 1)
  BY <1>2
<1> QED BY <1>3 DEF At, Slots, n

(***************************************************************************)
(* Where probes lead in an array whose length is a power of two            *)
(***************************************************************************)
Triangle(k) == (k * k + k) \div 2

LEMMA Triangles ==
  ASSUME NEW k \in Nat
  PROVE  Triangle(k) \in Nat /\ 2 * Triangle(k) = k * k + k
<1> DEFINE S == {m \in Nat : \E t \in Nat : m * m + m = 2 * t}
<1>1. 0 \in S
  OBVIOUS
<1>2. ASSUME NEW m \in S PROVE m + 1 \in S
  <2>1. PICK t \in Nat : m * m + m = 2 * t
    OBVIOUS
  <2>2. (m + 1) * (m + 1) + (m + 1) = 2 * (t + m + 1)
    BY <2>1
  <2>3. t + m + 1 \in Nat /\ m + 1 \in Nat
    OBVIOUS
  <2> QED BY <2>2, <2>3
<1>3. S = Nat
  <2>1. S \subseteq Nat
    OBVIOUS
  <2> HIDE DEF S
  <2> QED BY <1>1, <1>2, <2>1, Induction
<1>4. PICK t \in Nat : k * k + k = 2 * t
  BY <1>3
<1> DEFINE n == k * k + k
<1>5. n \in Nat /\ n = 2 * t
  BY <1>4
<1> HIDE DEF n
<1>6. n \div 2 = t
  BY <1>5
<1> QED BY <1>4, <1>6 DEF Triangle, n

(* Numbers with the same remainder differ by a multiple.                   *)
LEMMA SameRemainder ==
  ASSUME NEW c \in Nat \ {0}, NEW a \in Nat, NEW b \in Nat, a < b, a % c = b % c
  PROVE  IsMultiple(b - a, c)
<1> DEFINE u == a \div c
           v == b \div c
<1>1. u \in Int /\ v \in Int /\ a = c * u + (a % c) /\ b = c * v + (b % c)
  OBVIOUS
<1>2. a % c \in Int
  OBVIOUS
<1> HIDE DEF u, v
<1>3. b - a = c * (v - u)
  BY <1>1, <1>2
<1>4. v - u \in Int /\ b - a > 0
  BY <1>1
<1>5. v - u > 0
  <2> DEFINE w == v - u
  <2>1. w \in Int /\ c * w > 0
    BY <1>3, <1>4
  <2> HIDE DEF w
  <2>2. w > 0
    BY <2>1
  <2> QED BY <2>2 DEF w
<1> QED BY <1>3, <1>4, <1>5 DEF IsMultiple

(* Two probes for a page lead to different slots: were they alike, twice   *)
(* the length would divide (k - j)(k + j + 1), of whose factors one is odd *)
(* and both are smaller.                                                   *)
LEMMA ProbesDiffer ==
  ASSUME NEW n \in Nat, NEW p \in Nat, NEW j \in Slots(2^n), NEW k \in Slots(2^n), j < k
  PROVE  At(2^n, p, j) # At(2^n, p, k)
<1> DEFINE c == 2^n
           g == 2^(n + 1)
           a == Triangle(j)
           b == Triangle(k)
<1>0. n + 1 \in Nat
  OBVIOUS
<1>1. c \in Nat \ {0} /\ g = 2 * c /\ Divides(g)
  <2>1. Divides(g)
    BY <1>0, OddFactor
  <2>2. c \in Nat \ {0} /\ g = 2 * c
    BY Subsets, Doubling
  <2> QED BY <2>1, <2>2
<1>2. j \in Nat /\ k \in Nat /\ k < c
  BY <1>1 DEF Slots
<1>3. a \in Nat /\ b \in Nat /\ 2 * a = j * j + j /\ 2 * b = k * k + k
  BY <1>2, Triangles
<1>4. At(c, p, j) = (p + a) % c /\ At(c, p, k) = (p + b) % c
  BY DEF At, Triangle
<1> HIDE DEF c, g, a, b
<1> DEFINE x == k - j
           y == k + j + 1
<1>5. x \in Nat /\ y \in Nat /\ 0 < x /\ 0 < y /\ x < g /\ y < g
  BY <1>1, <1>2
<1>6. 2 * (b - a) = x * y
  BY <1>2, <1>3
<1>7. a < b
  <2>1. 0 < x * y
    BY <1>5
  <2> HIDE DEF x, y
  <2> QED BY <1>3, <1>5, <1>6, <2>1
<1>8. IsOdd(x) \/ IsOdd(y)
  <2>1. y = x + 2 * j + 1
    BY <1>2
  <2>2. \E e \in Nat : x = 2 * e \/ x = 2 * e + 1
    <3> DEFINE e == x \div 2
    <3>1. e \in Nat /\ (x = 2 * e \/ x = 2 * e + 1)
      <4> HIDE DEF x
      <4> QED BY <1>5
    <3> QED BY <3>1
  <2>3. PICK e \in Nat : x = 2 * e \/ x = 2 * e + 1
    BY <2>2
  <2>4. CASE x = 2 * e + 1
    BY <2>4 DEF IsOdd
  <2>5. CASE x = 2 * e
    <3>1. e + j \in Nat /\ y = 2 * (e + j) + 1
      BY <1>2, <2>1, <2>5
    <3> QED BY <3>1 DEF IsOdd
  <2> QED BY <2>3, <2>4, <2>5
<1> HIDE DEF x, y
<1>9. SUFFICES ASSUME (p + a) % c = (p + b) % c PROVE FALSE
  BY <1>4 DEF c
<1>10. IsMultiple((p + b) - (p + a), c)
  <2> DEFINE v == p + a
             w == p + b
  <2>1. v \in Nat /\ w \in Nat /\ v < w /\ v % c = w % c
    BY <1>3, <1>7, <1>9
  <2>2. IsMultiple(w - v, c)
    <3> HIDE DEF v, w
    <3> QED BY <1>1, <2>1, SameRemainder
  <2> QED BY <2>2
<1>11. PICK r \in Nat : (p + b) - (p + a) = c * r
  BY <1>10 DEF IsMultiple
<1>12. x * y = g * r /\ y * x = g * r
  BY <1>1, <1>3, <1>5, <1>6, <1>11
<1>13. IsMultiple(x, g) \/ IsMultiple(y, g)
  BY <1>1, <1>5, <1>8, <1>12 DEF Divides, IsMultiple
<1>14. ASSUME NEW z \in Nat, 0 < z, z < g PROVE ~IsMultiple(z, g)
  <2> SUFFICES ASSUME NEW s \in Nat, z = g * s PROVE FALSE
    BY DEF IsMultiple
  <2>1. g \in Nat
    BY <1>1
  <2>2. CASE s = 0
    BY <1>14, <2>1, <2>2
  <2>3. CASE s >= 1
    <3>1. g * s >= g
      BY <2>1, <2>3
    <3> QED BY <1>14, <2>1, <3>1
  <2> QED BY <2>2, <2>3
<1> QED BY <1>5, <1>13, <1>14

(* As many different slots as there are: every one is reached.             *)
LEMMA ProbesReach ==
  ASSUME NEW n \in Nat, NEW p \in Nat, NEW h \in Slots(2^n)
  PROVE  \E k \in Slots(2^n) : At(2^n, p, k) = h
<1> DEFINE S == Slots(2^n)
           f == [k \in S |-> At(2^n, p, k)]
<1>1. 2^n \in Nat \ {0}
  BY Subsets
<1>2. IsFiniteSet(S)
  <2> DEFINE c == 2^n
  <2>1. c \in Nat /\ 0 \in Int /\ c - 1 \in Int
    BY <1>1
  <2>2. IsFiniteSet(0 .. (c - 1))
    <3> HIDE DEF c
    <3> QED BY <2>1, FS_Interval
  <2> QED BY <2>2 DEF Slots
<1>3. S \subseteq Nat
  BY <1>1 DEF Slots
<1>4. f \in [S -> S]
  BY <1>1, <1>3, AtRange
<1>5. \A j, k \in S : f[j] = f[k] => j = k
  <2> SUFFICES ASSUME NEW j \in S, NEW k \in S, j # k PROVE f[j] # f[k]
    OBVIOUS
  <2>1. j \in Nat /\ k \in Nat
    BY <1>3
  <2>2. CASE j < k
    BY <2>2, ProbesDiffer
  <2>3. CASE k < j
    BY <2>3, ProbesDiffer
  <2> QED BY <2>1, <2>2, <2>3
<1>6. f \in Surjection(S, S)
  <2> HIDE DEF f, S
  <2>1. f \in Injection(S, S)
    BY <1>4, <1>5 DEF Injection, IsInjective
  <2> QED BY <1>2, <2>1, FS_Injection
<1>7. \A t \in S : \E k \in S : f[k] = t
  <2> HIDE DEF f, S
  <2> QED BY <1>6 DEF Surjection
<1>8. PICK k \in S : f[k] = h
  BY <1>7
<1> QED BY <1>8

(***************************************************************************)
(* Searches                                                                *)
(***************************************************************************)
LEMMA Arrays ==
  ASSUME TypeOK, NEW c \in DOMAIN arrays, NEW h \in Slots(c)
  PROVE  arrays[c][h] \in EntryType /\ arrays[c][h].key \in Nat
BY DEF TypeOK, Slots, EntryType

(* The slot that is chosen for a page: the first that has it or is empty.  *)
LEMMA SlotFound ==
  ASSUME TypeOK, NEW p \in Nat, HasSlot(p)
  PROVE  /\ SlotOf(p) \in Slots(cap) /\ entries[SlotOf(p)].key \in {p, 0}
         /\ Reaches(entries, cap, p, SlotOf(p))
<1>0. cap \in Nat \ {0}
  BY DEF TypeOK
<1> DEFINE T == {k \in Slots(cap) : Hit(p, k)}
<1>1. T \subseteq Nat /\ T # {}
  BY <1>0 DEF HasSlot, Slots
<1>2. PICK k \in T : \A y \in T : k <= y
  <2> HIDE DEF T
  <2> QED BY <1>1, Least
<1>3. k \in 0 .. (cap - 1) /\ Hit(p, k) /\ \A j \in 0 .. (k - 1) : ~Hit(p, j)
  BY <1>0, <1>2 DEF Slots
<1> DEFINE w == CHOOSE x \in 0 .. (cap - 1) : Hit(p, x) /\ \A j \in 0 .. (x - 1) : ~Hit(p, j)
<1>4. w \in 0 .. (cap - 1) /\ Hit(p, w) /\ \A j \in 0 .. (w - 1) : ~Hit(p, j)
  BY <1>3
<1>5. SlotOf(p) = Probe(p, w)
  BY DEF SlotOf
<1> HIDE DEF w
<1>6. \A j : Probe(p, j) = At(cap, p, j)
  BY DEF Probe, At
<1>7. w \in Nat /\ w \in Slots(cap)
  BY <1>0, <1>4 DEF Slots
<1>8. SlotOf(p) = At(cap, p, w) /\ SlotOf(p) \in Slots(cap)
  BY <1>0, <1>5, <1>6, <1>7, AtRange
<1>9. entries[SlotOf(p)].key \in {p, 0}
  BY <1>4, <1>5 DEF Hit
<1>10. \A j \in 0 .. (w - 1) : entries[At(cap, p, j)].key \notin {p, 0}
  BY <1>4, <1>6 DEF Hit
<1> QED BY <1>7, <1>8, <1>9, <1>10 DEF Reaches

(* Two searches for a page end at the same slot.                           *)
LEMMA OneSlot ==
  ASSUME NEW A, NEW c \in Nat, NEW p, NEW g, NEW h, Reaches(A, c, p, g), Reaches(A, c, p, h),
         A[g].key \in {p, 0}, A[h].key \in {p, 0}
  PROVE  g = h
<1>1. PICK j \in Slots(c) : At(c, p, j) = g
      /\ \A i \in 0 .. (j - 1) : A[At(c, p, i)].key \notin {p, 0}
  BY DEF Reaches
<1>2. PICK k \in Slots(c) : At(c, p, k) = h
      /\ \A i \in 0 .. (k - 1) : A[At(c, p, i)].key \notin {p, 0}
  BY DEF Reaches
<1>3. j \in Nat /\ k \in Nat
  BY DEF Slots
<1>4. ~(j < k)
  <2> SUFFICES ASSUME j < k PROVE FALSE
    OBVIOUS
  <2>1. j \in 0 .. (k - 1)
    BY <1>3
  <2> QED BY <1>1, <1>2, <2>1
<1>5. ~(k < j)
  <2> SUFFICES ASSUME k < j PROVE FALSE
    OBVIOUS
  <2>1. k \in 0 .. (j - 1)
    BY <1>3
  <2> QED BY <1>1, <1>2, <2>1
<1>6. j = k
  BY <1>3, <1>4, <1>5
<1> QED BY <1>1, <1>2, <1>6

(* A page that is in the array is found where it is.                       *)
LEMMA Finding ==
  ASSUME TypeOK, Probed, NEW p \in Nat \ {0}, NEW h \in Slots(cap), entries[h].key = p
  PROVE  HasSlot(p) /\ SlotOf(p) = h
<1>0. cap \in Nat \ {0}
  BY DEF TypeOK
<1>1. Reaches(entries, cap, p, h)
  BY DEF Probed
<1>2. HasSlot(p)
  <2>1. PICK k \in Slots(cap) : At(cap, p, k) = h
    BY <1>1 DEF Reaches
  <2>2. Probe(p, k) = h
    BY <2>1 DEF Probe, At
  <2>3. Hit(p, k)
    BY <2>2 DEF Hit
  <2> QED BY <2>3 DEF HasSlot, Slots
<1>3. entries[SlotOf(p)].key \in {p, 0} /\ Reaches(entries, cap, p, SlotOf(p))
  BY <1>2, SlotFound
<1>4. entries[h].key \in {p, 0}
  OBVIOUS
<1> DEFINE g == SlotOf(p)
           A == entries
<1>5. g = SlotOf(p) /\ A = entries
  OBVIOUS
<1> HIDE DEF g, A
<1>6. g = h
  BY <1>0, <1>1, <1>3, <1>4, <1>5, OneSlot
<1> QED BY <1>2, <1>5, <1>6

(* What is in a slot, and that it is a page of a block.                    *)
LEMMA Contents ==
  ASSUME TypeOK, Sound, NEW c \in DOMAIN arrays, NEW h \in Slots(c), arrays[c][h] # Empty
  PROVE  \E b \in stored : \E p \in PagesOf(b) :
           /\ b \in Blocks /\ b # NoBlock /\ p \in Nat \ {0} /\ arrays[c][h] = Entry(p, b)
           /\ arrays[c][h].key = p /\ arrays[c][h].value = b
<1>1. PICK b \in stored : \E p \in PagesOf(b) : arrays[c][h] = Entry(p, b)
  BY DEF Sound
<1>2. PICK p \in PagesOf(b) : arrays[c][h] = Entry(p, b)
  BY <1>1
<1>3. b \in Blocks
  BY DEF TypeOK
<1>4. p \in Nat \ {0} /\ b # NoBlock
  BY <1>3, BlockPages
<1>5. arrays[c][h].key = p /\ arrays[c][h].value = b
  BY <1>2, EntryFields
<1> QED BY <1>2, <1>3, <1>4, <1>5

(***************************************************************************)
(* What the inductive invariant says of the table                          *)
(***************************************************************************)

(* With no call under way, what is stored is in the array.                 *)
LEMMA StoredPlaced ==
  ASSUME Inv, stack = <<>>, NEW b \in stored, NEW p \in PagesOf(b)
  PROVE  \E h \in Slots(cap) : entries[h] = Entry(p, b) /\ HasSlot(p) /\ SlotOf(p) = h
<1>1. Placed(p, b) \/ Pending(p, b)
  BY DEF Inv, Complete
<1>2. ~Pending(p, b)
  BY DEF Pending
<1>3. PICK h \in Slots(cap) : entries[h] = Entry(p, b)
  BY <1>1, <1>2 DEF Placed
<1>4. p \in Nat \ {0}
  BY BlockPages DEF Inv, TypeOK
<1>5. entries[h].key = p
  BY <1>3, EntryFields
<1>6. HasSlot(p) /\ SlotOf(p) = h
  BY <1>4, <1>5, Finding DEF Inv
<1> QED BY <1>3, <1>6

LEMMA SlotsFinite ==
  ASSUME TypeOK
  PROVE  /\ IsFiniteSet(Slots(cap)) /\ IsFiniteSet(Occupied) /\ Cardinality(Occupied) \in Nat
         /\ Occupied \subseteq Slots(cap)
<1>1. cap \in Nat \ {0}
  BY DEF TypeOK
<1>2. IsFiniteSet(0 .. (cap - 1))
  BY <1>1, FS_Interval
<1>3. Occupied \in SUBSET Slots(cap)
  BY DEF Occupied, Slots
<1>4. IsFiniteSet(Slots(cap))
  BY <1>2 DEF Slots
<1>5. IsFiniteSet(Occupied)
  BY <1>3, <1>4, FS_Subset
<1> QED BY <1>3, <1>4, <1>5, FS_CardinalityType

LEMMA CheckedFinite ==
  ASSUME TypeOK
  PROVE  IsFiniteSet(Checked) /\ Cardinality(Checked) \in Nat
<1>1. DOMAIN stack = 1 .. Len(stack) /\ Len(stack) \in Nat
  BY DEF TypeOK
<1>2. IsFiniteSet(1 .. Len(stack))
  BY <1>1, FS_Interval
<1>3. Checked \in SUBSET (1 .. Len(stack))
  BY <1>1 DEF Checked
<1>4. IsFiniteSet(Checked)
  BY <1>2, <1>3, FS_Subset
<1> QED BY <1>4, FS_CardinalityType

LEMMA OccupiedPages ==
  ASSUME Inv, stack = <<>>
  PROVE  Cardinality(Occupied) = Cardinality(UNION {PagesOf(b) : b \in stored})
<1> DEFINE U == UNION {PagesOf(b) : b \in stored}
           f == [h \in Occupied |-> entries[h].key]
<1>0. TypeOK /\ Sound /\ Probed /\ cap \in DOMAIN arrays
      /\ \A h : h \in Occupied <=> h \in Slots(cap) /\ entries[h] # Empty
  BY DEF Inv, TypeOK, Occupied, Slots
<1>1. ASSUME NEW h \in Occupied
      PROVE  entries[h].key \in U /\ entries[h].key \in Nat \ {0} /\ SlotOf(entries[h].key) = h
  <2>0. h \in Slots(cap) /\ entries[h] # Empty
    BY <1>0
  <2>1. PICK b \in stored : \E p \in PagesOf(b) : p \in Nat \ {0} /\ entries[h].key = p
    BY <1>0, <2>0, Contents DEF entries
  <2>2. entries[h].key \in PagesOf(b) /\ entries[h].key \in Nat \ {0}
    BY <2>1
  <2>3. SlotOf(entries[h].key) = h
    BY <1>0, <2>0, <2>2, Finding
  <2> QED BY <2>2, <2>3
<1>2. ASSUME NEW p \in U PROVE \E h \in Occupied : entries[h].key = p
  <2>1. PICK b \in stored : p \in PagesOf(b)
    OBVIOUS
  <2>2. PICK h \in Slots(cap) : entries[h] = Entry(p, b)
    BY <2>1, StoredPlaced
  <2>3. p \in Nat \ {0}
    BY <1>0, <2>1, BlockPages DEF TypeOK
  <2>4. entries[h].key = p /\ entries[h] # Empty
    BY <2>2, <2>3, EntryFields
  <2> QED BY <1>0, <2>4
<1>3. f \in [Occupied -> U]
  BY <1>1
<1>4. \A g, h \in Occupied : f[g] = f[h] => g = h
  <2> SUFFICES ASSUME NEW g \in Occupied, NEW h \in Occupied, f[g] = f[h] PROVE g = h
    OBVIOUS
  <2>1. entries[g].key = entries[h].key
    OBVIOUS
  <2> QED BY <1>1, <2>1
<1>5. \A p \in U : \E h \in Occupied : f[h] = p
  BY <1>2
<1> HIDE DEF f, U
<1>6. f \in Bijection(Occupied, U)
  BY <1>3, <1>4, <1>5 DEF Bijection, Injection, Surjection, IsInjective
<1>7. ExistsBijection(Occupied, U)
  BY <1>6 DEF ExistsBijection
<1>8. Cardinality(U) = Cardinality(Occupied)
  BY <1>0, <1>7, SlotsFinite, FS_Bijection
<1> QED BY <1>8 DEF U

LEMMA InvFound ==
  ASSUME Inv
  PROVE  Found
<1> SUFFICES ASSUME stack = <<>> PROVE Found
  BY DEF Found
<1>1. ASSUME NEW b \in stored, NEW p \in PagesOf(b)
      PROVE  HasSlot(p) /\ entries[SlotOf(p)] = [key |-> p, value |-> b]
  <2>1. PICK h \in Slots(cap) : entries[h] = Entry(p, b) /\ HasSlot(p) /\ SlotOf(p) = h
    BY StoredPlaced
  <2> QED BY <2>1 DEF Entry
<1> QED BY <1>1, OccupiedPages DEF Found

(* The probes of a page reach every slot, and one of them is empty.        *)
LEMMA ProbeEnds ==
  ASSUME TypeOK, PowerOfTwo, Cardinality(Occupied) < cap, NEW p \in Nat
  PROVE  HasSlot(p)
<1>1. cap \in Nat \ {0} /\ Cardinality(Slots(cap)) = cap /\ Occupied \subseteq Slots(cap)
  <2>1. cap \in Nat \ {0}
    BY DEF TypeOK
  <2>2. 0 \in Int /\ cap - 1 \in Int /\ cap - 1 >= 0
    BY <2>1
  <2>3. Cardinality(0 .. (cap - 1)) = (cap - 1) - 0 + 1
    BY <2>2, FS_Interval
  <2> QED BY <2>1, <2>3, SlotsFinite DEF Slots
<1>2. PICK h \in Slots(cap) : entries[h] = Empty
  <2>1. Occupied # Slots(cap)
    BY <1>1
  <2> QED BY <2>1 DEF Occupied, Slots
<1>3. \E k \in Slots(cap) : At(cap, p, k) = h
  BY ProbesReach DEF PowerOfTwo
<1>4. PICK k \in Slots(cap) : At(cap, p, k) = h
  BY <1>3
<1>5. Hit(p, k)
  BY <1>2, <1>4 DEF Hit, Probe, At, Empty
<1> QED BY <1>5 DEF HasSlot, Slots

LEMMA InvRoomLeft ==
  ASSUME Inv, PowerOfTwo
  PROVE  RoomLeft
<1> DEFINE o == Cardinality(Occupied)
           c == Cardinality(Checked)
           l == 2^Power
<1>0. TypeOK /\ Counts
  BY DEF Inv
<1>1. o \in Nat /\ c \in Nat /\ cap \in Nat /\ nelem \in Nat /\ l \in Nat /\ l >= 4
  BY <1>0, SlotsFinite, CheckedFinite, FirstLength DEF TypeOK
<1>2. /\ 20 * (nelem + c) <= 19 * cap /\ o <= nelem
      /\ \/ cap = l /\ 10 * (nelem - 1) <= 7 * cap
         \/ 20 * (nelem - o) > 7 * cap
  BY <1>0 DEF Counts
<1> HIDE DEF o, c, l
<1>3. 10 * (o - 1) <= 7 * cap /\ o < cap
  BY <1>1, <1>2
<1>4. Cardinality(Occupied) < cap
  BY <1>3 DEF o
<1>5. \A b \in Blocks : \A p \in PagesOf(b) : HasSlot(p)
  <2> SUFFICES ASSUME NEW b \in Blocks, NEW p \in PagesOf(b) PROVE HasSlot(p)
    OBVIOUS
  <2>1. p \in Nat
    BY BlockPages
  <2> QED BY <1>0, <1>4, <2>1, ProbeEnds
<1> QED BY <1>3, <1>5 DEF RoomLeft, o

LEMMA InvRehashSafe ==
  ASSUME Inv
  PROVE  RehashSafe
BY DEF Inv, Frames, RehashSafe

(***************************************************************************)
(* The first state                                                         *)
(***************************************************************************)
LEMMA InitHolds ==
  ASSUME Init
  PROVE  Inv
<1> DEFINE l == 2^Power
<1>1. l \in Nat /\ l >= 4
  BY FirstLength
<1>2. /\ nelem = 0 /\ cap = l /\ arrays = [c \in {l} |-> Fresh(c)]
      /\ stack = <<>> /\ stored = {} /\ finder = [f \in Finders |-> Away]
  BY DEF Init
<1>3. DOMAIN stack = {} /\ stack \in Seq(FrameType)
  BY <1>2
<1> HIDE DEF l
<1>4. DOMAIN arrays = {l} /\ arrays[l] = Fresh(l) /\ entries = Fresh(l)
  BY <1>2 DEF entries
<1>5. Fresh(l) \in [Slots(l) -> EntryType] /\ \A h \in Slots(l) : Fresh(l)[h] = Empty
  BY DEF Fresh, Slots, EntryType, Empty
<1>6. TypeOK
  <2>1. nelem \in Nat /\ cap \in Nat \ {0} /\ cap \in DOMAIN arrays
    BY <1>1, <1>2, <1>4
  <2>2. \A c \in DOMAIN arrays : arrays[c] \in [0 .. (c - 1) -> EntryType]
    BY <1>4, <1>5 DEF Slots
  <2>3. stack \in Seq(FrameType) /\ stored \subseteq Blocks /\ \A f \in Finders : finder[f] = Away
    BY <1>2, <1>3
  <2> QED BY <2>1, <2>2, <2>3 DEF TypeOK
<1>7. Sound
  BY <1>4, <1>5 DEF Sound
<1>8. Probed
  BY <1>2, <1>4, <1>5, EntryFields DEF Probed
<1>9. Frames /\ Complete
  BY <1>2, <1>3 DEF Frames, Complete
<1>10. Counts
  <2>1. Checked = {} /\ Cardinality(Checked) = 0
    BY <1>3, FS_EmptySet DEF Checked
  <2>2. Occupied = {} /\ Cardinality(Occupied) = 0
    <3>1. Occupied = {}
      BY <1>2, <1>4, <1>5 DEF Occupied, Slots
    <3> QED BY <3>1, FS_EmptySet
  <2> QED BY <1>1, <1>2, <2>1, <2>2 DEF Counts, l
<1>11. DOMAIN finder = Finders
  BY <1>2
<1> QED BY <1>6, <1>7, <1>8, <1>9, <1>10, <1>11 DEF Inv

(***************************************************************************)
(* The steps that write no array                                           *)
(***************************************************************************)
LEMMA SameArrays ==
  ASSUME UNCHANGED <<cap, arrays>>
  PROVE  /\ entries' = entries /\ Occupied' = Occupied /\ (Probed => Probed')
         /\ \A p, b : Placed(p, b) => Placed(p, b)'
<1>1. entries' = entries
  BY DEF entries
<1> QED BY <1>1 DEF Occupied, Probed, Placed

LEMMA SameTypes ==
  ASSUME TypeOK, UNCHANGED <<nelem, cap, arrays, finder>>,
         stack' \in Seq(FrameType), stored' \subseteq Blocks
  PROVE  TypeOK'
BY DEF TypeOK

LEMMA FrameTypes ==
  /\ \A b \in Blocks : Inserting(b) \in FrameType
  /\ \A n \in Nat : Growing(n) \in FrameType
BY DEF Inserting, Growing, FrameType

(* The counts need the set of the calls that have checked not to grow.     *)
LEMMA FewerChecked ==
  ASSUME TypeOK, Counts, UNCHANGED <<nelem, cap>>, Occupied' = Occupied, Checked' \subseteq Checked
  PROVE  Counts'
<1> DEFINE c == Cardinality(Checked)
           d == Cardinality(Checked')
           l == 2^Power
           o == Cardinality(Occupied)
<1>1. c \in Nat /\ o \in Nat /\ IsFiniteSet(Checked)
  BY CheckedFinite, SlotsFinite
<1>2. IsFiniteSet(Checked') /\ d <= c
  BY <1>1, FS_Subset
<1>3. d \in Nat
  BY <1>2, FS_CardinalityType
<1>4. Occupied' = Occupied /\ Cardinality(Occupied') = o /\ nelem' = nelem /\ cap' = cap
      /\ nelem \in Nat /\ cap \in Nat
  BY DEF TypeOK
<1>5. /\ 4 * (c + 1) <= cap /\ 20 * (nelem + c) <= 19 * cap /\ o <= nelem
      /\ \/ cap = l /\ Checked = {} /\ 10 * (nelem - 1) <= 7 * cap
         \/ 20 * (nelem - o) > 7 * cap
  BY DEF Counts
<1>6. Counts' <=> /\ 4 * (d + 1) <= cap /\ 20 * (nelem + d) <= 19 * cap /\ o <= nelem
                  /\ \/ cap = l /\ Checked' = {} /\ 10 * (nelem - 1) <= 7 * cap
                     \/ 20 * (nelem - o) > 7 * cap
  BY <1>4 DEF Counts
<1> HIDE DEF c, d, o, l
<1>7. 4 * (d + 1) <= cap /\ 20 * (nelem + d) <= 19 * cap
  BY <1>1, <1>2, <1>3, <1>4, <1>5
<1>8. Checked = {} => Checked' = {}
  OBVIOUS
<1> QED BY <1>5, <1>6, <1>7, <1>8

LEMMA SameCounts ==
  ASSUME TypeOK, Counts, UNCHANGED <<nelem, cap, arrays>>, Checked' \subseteq Checked
  PROVE  Counts'
BY SameArrays, FewerChecked

LEMMA InsertHolds ==
  ASSUME Inv, NEW b \in Blocks, Insert(b)
  PROVE  Inv'
<1>1. /\ stack = <<>> /\ stack' = <<Inserting(b)>> /\ stored' = stored \cup {b}
      /\ UNCHANGED <<nelem, cap, arrays, finder>>
  BY DEF Insert
<1>2. DOMAIN stack = {} /\ DOMAIN stack' = {1} /\ stack'[1] = Inserting(b)
  BY <1>1
<1>3. /\ Inserting(b).op = "insert" /\ Inserting(b).block = b /\ Inserting(b).pgidx = 0
      /\ Inserting(b).checked = FALSE
  BY DEF Inserting
<1>4. TypeOK'
  <2>1. stack' \in Seq(FrameType) /\ stored' \subseteq Blocks
    BY <1>1, FrameTypes DEF Inv, TypeOK
  <2> QED BY <1>1, <2>1, SameTypes DEF Inv
<1>5. Sound'
  BY <1>1 DEF Inv, Sound
<1>6. Probed'
  BY <1>1, SameArrays DEF Inv
<1>7. Frames'
  BY <1>1, <1>2, <1>3 DEF Frames
<1>8. Complete'
  <2> SUFFICES ASSUME NEW c \in stored', NEW p \in PagesOf(c) PROVE Placed(p, c)' \/ Pending(p, c)'
    BY DEF Complete
  <2>1. CASE c = b
    <3>1. b.pgstart + Inserting(b).pgidx <= p
      BY <1>3, <2>1, BlockPages
    <3>2. Brings(arrays', stack'[1], p, c)
      BY <1>2, <1>3, <2>1, <3>1 DEF Brings
    <3> QED BY <1>2, <3>2 DEF Pending
  <2>2. CASE c # b
    <3>1. c \in stored
      BY <1>1, <2>2
    <3>2. Placed(p, c)
      BY <1>2, <3>1 DEF Inv, Complete, Pending
    <3> QED BY <1>1, <3>2, SameArrays
  <2> QED BY <2>1, <2>2
<1>9. Counts'
  <2>1. Checked' \subseteq Checked
    BY <1>2, <1>3 DEF Checked
  <2> QED BY <1>1, <2>1, SameCounts DEF Inv
<1> QED BY <1>1, <1>4, <1>5, <1>6, <1>7, <1>8, <1>9 DEF Inv

LEMMA InsertReturnHolds ==
  ASSUME Inv, InsertReturn
  PROVE  Inv'
<1>1. /\ stack # <<>> /\ Top.op = "insert" /\ Top.pgidx = Top.block.npages /\ stack' = Front(stack)
      /\ UNCHANGED <<nelem, cap, arrays, stored, finder>> /\ stack \in Seq(FrameType)
  BY DEF InsertReturn, Inv, TypeOK
<1>2. Popped(stack, stack')
  BY <1>1, TopPopped
<1>3. /\ DOMAIN stack' \subseteq DOMAIN stack /\ stack' \in Seq(FrameType)
      /\ \A k \in DOMAIN stack' : stack'[k] = stack[k]
      /\ \A k \in DOMAIN stack : k # Len(stack) => k \in DOMAIN stack'
  BY <1>2 DEF Popped
<1>4. TypeOK'
  BY <1>1, <1>3, SameTypes DEF Inv, TypeOK
<1>5. Sound' /\ Probed'
  BY <1>1, SameArrays DEF Inv, Sound
<1>6. Frames'
  BY <1>1, <1>3 DEF Inv, Frames
<1>7. Complete'
  <2> SUFFICES ASSUME NEW c \in stored', NEW p \in PagesOf(c) PROVE Placed(p, c)' \/ Pending(p, c)'
    BY DEF Complete
  <2>0. c \in stored /\ c \in Blocks
    BY <1>1 DEF Inv, TypeOK
  <2>1. CASE Placed(p, c)
    BY <1>1, <2>1, SameArrays
  <2>2. CASE Pending(p, c)
    <3>1. PICK k \in DOMAIN stack : Brings(arrays, stack[k], p, c)
      BY <2>2 DEF Pending
    <3>2. k # Len(stack)
      <4>1. ~(stack[Len(stack)].op = "expand")
        BY <1>1 DEF Top
      <4>2. Top.block = c => ~(c.pgstart + Top.pgidx <= p)
        BY <1>1, <2>0, BlockPages
      <4> QED BY <3>1, <4>1, <4>2 DEF Brings, Top
    <3>3. k \in DOMAIN stack' /\ Brings(arrays', stack'[k], p, c)
      BY <1>1, <1>3, <3>1, <3>2
    <3> QED BY <3>3 DEF Pending
  <2> QED BY <2>0, <2>1, <2>2 DEF Inv, Complete
<1>8. Counts'
  <2>1. Checked' \subseteq Checked
    BY <1>3 DEF Checked
  <2> QED BY <1>1, <2>1, SameCounts DEF Inv
<1> QED BY <1>1, <1>4, <1>5, <1>6, <1>7, <1>8 DEF Inv

LEMMA FindHolds ==
  ASSUME Inv, NEW f \in Finders, NEW b \in stored, NEW p \in PagesOf(b), Find(f, p)
  PROVE  Inv'
<1>1. /\ HasSlot(p)
      /\ finder' = [finder EXCEPT ![f] = [page |-> p, array |-> cap, slot |-> SlotOf(p)]]
      /\ UNCHANGED <<nelem, cap, arrays, stack, stored>>
  BY DEF Find
<1>2. p \in Nat /\ SlotOf(p) \in 0 .. (cap - 1)
  BY <1>1, BlockPages, SlotFound DEF Inv, TypeOK, Slots
<1>3. TypeOK'
  <2>1. \A g \in Finders : finder'[g] # Away =>
        finder'[g].page \in Nat /\ finder'[g].slot \in 0 .. (finder'[g].array - 1)
    <3> SUFFICES ASSUME NEW g \in Finders, finder'[g] # Away
                 PROVE  finder'[g].page \in Nat /\ finder'[g].slot \in 0 .. (finder'[g].array - 1)
      OBVIOUS
    <3>1. CASE g = f
      BY <1>1, <1>2, <3>1 DEF Inv
    <3>2. CASE g # f
      <4>1. finder'[g] = finder[g]
        BY <1>1, <3>2 DEF Inv
      <4> QED BY <4>1 DEF Inv, TypeOK
    <3> QED BY <3>1, <3>2
  <2> QED BY <1>1, <2>1 DEF Inv, TypeOK
<1>4. Sound' /\ Probed' /\ Frames' /\ Complete'
  BY <1>1, SameArrays DEF Inv, Sound, Frames, Complete, Pending
<1>5. Counts'
  <2>1. Checked' \subseteq Checked
    BY <1>1 DEF Checked
  <2> QED BY <1>1, <2>1, SameCounts DEF Inv
<1>6. DOMAIN finder' = Finders
  BY <1>1 DEF Inv
<1> QED BY <1>3, <1>4, <1>5, <1>6 DEF Inv

LEMMA ReadEntryHolds ==
  ASSUME Inv, NEW f \in Finders, ReadEntry(f)
  PROVE  Inv'
<1>1. finder' = [finder EXCEPT ![f] = Away] /\ UNCHANGED <<nelem, cap, arrays, stack, stored>>
  BY DEF ReadEntry
<1>2. TypeOK'
  <2>1. \A g \in Finders : finder'[g] \in {finder[g], Away}
    BY <1>1 DEF Inv
  <2> QED BY <1>1, <2>1 DEF Inv, TypeOK
<1>3. Sound' /\ Probed' /\ Frames' /\ Complete'
  BY <1>1, SameArrays DEF Inv, Sound, Frames, Complete, Pending
<1>4. Counts'
  <2>1. Checked' \subseteq Checked
    BY <1>1 DEF Checked
  <2> QED BY <1>1, <2>1, SameCounts DEF Inv
<1>5. DOMAIN finder' = Finders
  BY <1>1 DEF Inv
<1> QED BY <1>2, <1>3, <1>4, <1>5 DEF Inv

LEMMA RehashHolds ==
  ASSUME Inv, Rehash
  PROVE  Inv'
<1> DEFINE n == Len(stack)
           e == [Top EXCEPT !.i = @ + 1]
           b == arrays[Top.old][Top.i].value
<1>1. /\ stack # <<>> /\ Top.op = "expand" /\ Top.i < Top.old
      /\ UNCHANGED <<nelem, cap, arrays, stored, finder>> /\ stack \in Seq(FrameType)
      /\ stack' = IF b = NoBlock THEN WithTop(e) ELSE Append(WithTop(e), Inserting(b))
  BY DEF Rehash, Skip, Inv, TypeOK
<1>2. /\ n \in Nat \ {0} /\ n \in DOMAIN stack /\ Top = stack[n] /\ Top \in FrameType
      /\ DOMAIN stack = 1 .. n
  BY <1>1, StackTop
<1>3. Top \in [op : {"expand"}, old : Nat, i : Nat]
  BY <1>1, <1>2 DEF FrameType
<1>4. e \in FrameType /\ e.op = "expand" /\ e.old = Top.old /\ e.i = Top.i + 1
  <2>1. e \in [op : {"expand"}, old : Nat, i : Nat] /\ e.old = Top.old /\ e.i = Top.i + 1
    BY <1>3
  <2> QED BY <2>1 DEF FrameType
<1>5. Top.old \in DOMAIN arrays /\ Top.i \in Slots(Top.old) /\ Top.old \in Nat /\ Top.i \in Nat
  BY <1>1, <1>2, <1>3 DEF Inv, Frames, Slots
<1>6. b # NoBlock => b \in stored /\ b \in Blocks
  <2>1. ASSUME arrays[Top.old][Top.i] = Empty PROVE b = NoBlock
    BY <2>1, EntryFields
  <2>2. ASSUME arrays[Top.old][Top.i] # Empty PROVE b \in stored
    BY <1>5, <2>2, Contents DEF Inv
  <2> QED BY <2>1, <2>2 DEF Inv, TypeOK
<1> HIDE DEF e, b
(* The frames that there were, and perhaps one more.                       *)
<1>7. /\ stack' \in Seq(FrameType) /\ DOMAIN stack \subseteq DOMAIN stack' /\ stack'[n] = e
      /\ \A k \in DOMAIN stack : k # n => stack'[k] = stack[k]
      /\ \/ b = NoBlock /\ DOMAIN stack' = DOMAIN stack
         \/ b # NoBlock /\ DOMAIN stack' = DOMAIN stack \cup {n + 1} /\ stack'[n + 1] = Inserting(b)
  <2>1. CASE b = NoBlock
    <3>1. Replaced(stack, stack', e)
      BY <1>1, <1>4, <2>1, TopReplaced
    <3> QED BY <2>1, <3>1 DEF Replaced
  <2>2. CASE b # NoBlock
    <3>1. Pushed(stack, stack', e, Inserting(b))
      BY <1>1, <1>4, <1>6, <2>2, TopPushed, FrameTypes
    <3> QED BY <2>2, <3>1 DEF Pushed
  <2> QED BY <2>1, <2>2
<1>8. /\ Inserting(b).op = "insert" /\ Inserting(b).block = b /\ Inserting(b).pgidx = 0
      /\ Inserting(b).checked = FALSE
  BY DEF Inserting
<1> HIDE DEF n
<1>9. TypeOK'
  BY <1>1, <1>7, SameTypes DEF Inv, TypeOK
<1>10. Sound' /\ Probed'
  BY <1>1, SameArrays DEF Inv, Sound
<1>11. Frames'
  <2>1. ASSUME NEW k \in DOMAIN stack', stack'[k].op = "expand"
        PROVE  k \in DOMAIN stack /\ stack[k].op = "expand" /\ stack'[k].old = stack[k].old
    <3>1. k \in DOMAIN stack
      BY <1>7, <1>8, <2>1
    <3>2. CASE k = n
      BY <1>1, <1>2, <1>4, <1>7, <3>2
    <3>3. CASE k # n
      BY <1>7, <2>1, <3>1, <3>3
    <3> QED BY <3>1, <3>2, <3>3
  <2>2. ASSUME NEW k \in DOMAIN stack', stack'[k].op = "insert" PROVE stack'[k].block \in stored
    <3>1. CASE k \in DOMAIN stack /\ k # n
      BY <1>7, <2>2, <3>1 DEF Inv, Frames
    <3>2. CASE k = n
      BY <1>4, <1>7, <2>2, <3>2
    <3>3. CASE k \notin DOMAIN stack
      BY <1>6, <1>7, <1>8, <3>3
    <3> QED BY <3>1, <3>2, <3>3
  <2>3. \A k \in DOMAIN stack' : /\ stack'[k].op = "insert" => stack'[k].block \in stored'
                                 /\ stack'[k].op = "expand" =>
                                       stack'[k].old \in DOMAIN arrays' /\ stack'[k].old < cap'
    BY <1>1, <2>1, <2>2 DEF Inv, Frames
  <2>4. \A j, k \in DOMAIN stack' : j < k /\ stack'[j].op = "expand" /\ stack'[k].op = "expand" =>
        stack'[j].old < stack'[k].old
    BY <2>1 DEF Inv, Frames
  <2> QED BY <2>3, <2>4 DEF Frames
<1>12. Complete'
  <2> SUFFICES ASSUME NEW c \in stored', NEW p \in PagesOf(c) PROVE Placed(p, c)' \/ Pending(p, c)'
    BY DEF Complete
  <2>0. c \in stored /\ c \in Blocks
    BY <1>1 DEF Inv, TypeOK
  <2>1. CASE Placed(p, c)
    BY <1>1, <2>1, SameArrays
  <2>2. CASE Pending(p, c)
    <3>1. PICK k \in DOMAIN stack : Brings(arrays, stack[k], p, c)
      BY <2>2 DEF Pending
    <3>2. CASE k # n
      <4>1. k \in DOMAIN stack' /\ Brings(arrays', stack'[k], p, c)
        BY <1>1, <1>7, <3>1, <3>2
      <4> QED BY <4>1 DEF Pending
    <3>3. CASE k = n
      <4>1. PICK h \in Slots(Top.old) : Top.i <= h /\ arrays[Top.old][h] = Entry(p, c)
        BY <1>1, <1>2, <3>1, <3>3 DEF Brings
      <4>2. CASE h = Top.i
        <5>1. b = c /\ c # NoBlock
          BY <2>0, <4>1, <4>2, EntryFields, BlockPages DEF b
        <5>2. n + 1 \in DOMAIN stack' /\ stack'[n + 1] = Inserting(b)
          BY <1>7, <5>1
        <5>3. c.pgstart + Inserting(b).pgidx <= p
          BY <1>8, <2>0, BlockPages
        <5>4. Brings(arrays', stack'[n + 1], p, c)
          BY <1>8, <5>1, <5>2, <5>3 DEF Brings
        <5> QED BY <5>2, <5>4 DEF Pending
      <4>3. CASE h # Top.i
        <5>1. h \in Slots(e.old) /\ e.i <= h
          BY <1>4, <1>5, <4>1, <4>3 DEF Slots
        <5>2. arrays'[e.old][h] = Entry(p, c)
          BY <1>1, <1>4, <4>1
        <5>3. Brings(arrays', e, p, c)
          BY <1>4, <5>1, <5>2 DEF Brings
        <5> QED BY <1>2, <1>7, <5>3 DEF Pending
      <4> QED BY <4>2, <4>3
    <3> QED BY <3>2, <3>3
  <2> QED BY <2>0, <2>1, <2>2 DEF Inv, Complete
<1>13. Counts'
  <2>1. Checked' \subseteq Checked
    <3> SUFFICES ASSUME NEW k \in DOMAIN stack', stack'[k].op = "insert", stack'[k].checked
                 PROVE  k \in Checked
      BY DEF Checked
    <3>1. k # n
      BY <1>4, <1>7
    <3>2. k \in DOMAIN stack
      BY <1>7, <1>8
    <3>3. stack'[k] = stack[k]
      BY <1>7, <3>1, <3>2
    <3> QED BY <3>2, <3>3 DEF Checked
  <2> QED BY <1>1, <2>1, SameCounts DEF Inv
<1> QED BY <1>1, <1>9, <1>10, <1>11, <1>12, <1>13 DEF Inv

(***************************************************************************)
(* The old array is freed                                                  *)
(***************************************************************************)
LEMMA ExpandReturnHolds ==
  ASSUME Inv, ExpandReturn
  PROVE  Inv'
<1> DEFINE n == Len(stack)
           D == DOMAIN arrays \ {Top.old}
<1>1. /\ stack # <<>> /\ Top.op = "expand" /\ Top.i = Top.old /\ stack' = Front(stack)
      /\ arrays' = [c \in D |-> arrays[c]]
      /\ UNCHANGED <<nelem, cap, stored, finder>> /\ stack \in Seq(FrameType)
  BY DEF ExpandReturn, OldArray, Inv, TypeOK
<1>2. /\ n \in Nat \ {0} /\ n \in DOMAIN stack /\ Top = stack[n] /\ Top \in FrameType
      /\ DOMAIN stack = 1 .. n
  BY <1>1, StackTop
<1>3. Popped(stack, stack')
  BY <1>1, TopPopped
<1>4. /\ stack' \in Seq(FrameType) /\ DOMAIN stack' = DOMAIN stack \ {n}
      /\ \A k \in DOMAIN stack' : stack'[k] = stack[k]
  BY <1>3 DEF Popped
<1>5. Top.old \in Nat /\ Top.old < cap /\ cap \in DOMAIN arrays /\ cap \in Nat \ {0}
  BY <1>1, <1>2, FrameFields DEF Inv, Frames, TypeOK
<1>6. /\ DOMAIN arrays' = D /\ D \subseteq DOMAIN arrays /\ cap \in D
      /\ \A c \in D : arrays'[c] = arrays[c]
  BY <1>1, <1>5
<1>7. entries' = entries /\ Occupied' = Occupied
  <2>1. entries' = entries
    BY <1>1, <1>6 DEF entries
  <2> QED BY <1>1, <2>1 DEF Occupied
<1> HIDE DEF n, D
<1>8. ASSUME NEW k \in DOMAIN stack', stack'[k].op = "expand" PROVE stack[k].old \in D
  <2>1. k \in DOMAIN stack /\ k < n /\ stack[k].op = "expand"
    BY <1>2, <1>4, <1>8
  <2>2. stack[k].old < Top.old
    BY <1>1, <1>2, <2>1 DEF Inv, Frames
  <2>3. stack[k].old \in DOMAIN arrays /\ stack[k].old # Top.old
    BY <1>5, <2>1, <2>2 DEF Inv, Frames
  <2> QED BY <2>3 DEF D
<1>9. TypeOK'
  <2>1. \A c \in DOMAIN arrays' : arrays'[c] \in [0 .. (c - 1) -> EntryType]
    BY <1>6 DEF Inv, TypeOK
  <2> QED BY <1>1, <1>4, <1>6, <2>1 DEF Inv, TypeOK
<1>10. Sound'
  BY <1>1, <1>6 DEF Inv, Sound
<1>11. Probed'
  BY <1>1, <1>7 DEF Inv, Probed
<1>12. Frames'
  <2>1. \A k \in DOMAIN stack' : /\ stack'[k].op = "insert" => stack'[k].block \in stored'
                                 /\ stack'[k].op = "expand" =>
                                       stack'[k].old \in DOMAIN arrays' /\ stack'[k].old < cap'
    BY <1>1, <1>4, <1>6, <1>8 DEF Inv, Frames
  <2>2. \A j, k \in DOMAIN stack' : j < k /\ stack'[j].op = "expand" /\ stack'[k].op = "expand" =>
        stack'[j].old < stack'[k].old
    BY <1>4 DEF Inv, Frames
  <2> QED BY <2>1, <2>2 DEF Frames
<1>13. Complete'
  <2> SUFFICES ASSUME NEW c \in stored', NEW p \in PagesOf(c) PROVE Placed(p, c)' \/ Pending(p, c)'
    BY DEF Complete
  <2>0. c \in stored
    BY <1>1
  <2>1. CASE Placed(p, c)
    BY <1>1, <1>7, <2>1 DEF Placed
  <2>2. CASE Pending(p, c)
    <3>1. PICK k \in DOMAIN stack : Brings(arrays, stack[k], p, c)
      BY <2>2 DEF Pending
    <3>2. k # n
      <4>1. ~(\E h \in Slots(Top.old) : Top.i <= h)
        BY <1>1, <1>5 DEF Slots
      <4> QED BY <1>1, <1>2, <3>1, <4>1 DEF Brings
    <3>3. k \in DOMAIN stack' /\ stack'[k] = stack[k]
      BY <1>4, <3>2
    <3>4. stack[k].op = "expand" => arrays'[stack[k].old] = arrays[stack[k].old]
      BY <1>6, <1>8, <3>3
    <3>5. Brings(arrays', stack'[k], p, c)
      BY <3>1, <3>3, <3>4 DEF Brings
    <3> QED BY <3>3, <3>5 DEF Pending
  <2> QED BY <2>0, <2>1, <2>2 DEF Inv, Complete
<1>14. Counts'
  <2>1. Checked' \subseteq Checked
    BY <1>4 DEF Checked
  <2> QED BY <1>1, <1>7, <2>1, FewerChecked DEF Inv
<1> QED BY <1>1, <1>9, <1>10, <1>11, <1>12, <1>13, <1>14 DEF Inv

(***************************************************************************)
(* The array grows                                                         *)
(***************************************************************************)
LEMMA InsertTop ==
  ASSUME Inv, AtPage
  PROVE  /\ stack \in Seq(FrameType) /\ stack # <<>>
         /\ Top \in [op : {"insert"}, block : Blocks, pgidx : Nat, checked : BOOLEAN]
         /\ Top \in FrameType /\ Top.block \in stored /\ Top.block \in Blocks
         /\ Top.pgidx \in Nat /\ Top.checked \in BOOLEAN
         /\ Top.block.pgstart + Top.pgidx \in PagesOf(Top.block)
<1>1. stack # <<>> /\ stack \in Seq(FrameType) /\ Top.op = "insert" /\ Top.pgidx < Top.block.npages
  BY DEF AtPage, Inv, TypeOK
<1>2. Top \in FrameType /\ Top = stack[Len(stack)] /\ Len(stack) \in DOMAIN stack
  BY <1>1, StackTop
<1>3. Top \in [op : {"insert"}, block : Blocks, pgidx : Nat, checked : BOOLEAN]
  BY <1>1, <1>2 DEF FrameType
<1>4. Top.block \in stored
  BY <1>1, <1>2 DEF Inv, Frames
<1>5. Top.block \in Blocks /\ Top.pgidx \in Nat /\ Top.checked \in BOOLEAN
  BY <1>3
<1>6. Top.block.pgstart + Top.pgidx \in PagesOf(Top.block)
  BY <1>1, <1>5, BlockPages
<1> QED BY <1>1, <1>2, <1>3, <1>4, <1>5, <1>6

LEMMA ExpandHolds ==
  ASSUME Inv, Expand
  PROVE  Inv'
<1> DEFINE n == Len(stack)
           D == DOMAIN arrays \cup {2 * cap}
           e == [Top EXCEPT !.checked = TRUE]
           g == Growing(cap)
<1>1. /\ AtPage /\ ~Top.checked /\ Crowded /\ cap' = 2 * cap
      /\ arrays' = [c \in D |-> IF c = 2 * cap THEN Fresh(c) ELSE arrays[c]]
      /\ stack' = Append(WithTop(e), g)
      /\ UNCHANGED <<nelem, stored, finder>>
  BY DEF Expand
<1>2. /\ n \in Nat \ {0} /\ n \in DOMAIN stack /\ Top = stack[n] /\ DOMAIN stack = 1 .. n
      /\ stack \in Seq(FrameType)
  BY <1>1, InsertTop, StackTop
<1>3. e \in FrameType /\ e.op = "insert" /\ e.block = Top.block /\ e.pgidx = Top.pgidx /\ e.checked
  <2>1. Top \in [op : {"insert"}, block : Blocks, pgidx : Nat, checked : BOOLEAN]
    BY <1>1, InsertTop
  <2>2. /\ e \in [op : {"insert"}, block : Blocks, pgidx : Nat, checked : BOOLEAN]
        /\ e.block = Top.block /\ e.pgidx = Top.pgidx /\ e.checked = TRUE
    BY <2>1
  <2> QED BY <2>2 DEF FrameType
<1>4. cap \in Nat \ {0} /\ cap \in DOMAIN arrays /\ nelem \in Nat
  BY DEF Inv, TypeOK
<1>5. g \in FrameType /\ g.op = "expand" /\ g.old = cap /\ g.i = 0
  <2>1. g.op = "expand" /\ g.old = cap /\ g.i = 0
    BY DEF Growing
  <2> QED BY <1>4, <2>1, FrameTypes
<1> HIDE DEF e, g
<1>6. /\ stack' \in Seq(FrameType) /\ DOMAIN stack' = DOMAIN stack \cup {n + 1}
      /\ stack'[n] = e /\ stack'[n + 1] = g
      /\ \A k \in DOMAIN stack : k # n => stack'[k] = stack[k]
  <2>1. Pushed(stack, stack', e, g)
    BY <1>1, <1>2, <1>3, <1>5, InsertTop, TopPushed
  <2> QED BY <2>1 DEF Pushed
<1>7. /\ DOMAIN arrays' = D /\ D = DOMAIN arrays \cup {2 * cap}
      /\ arrays'[2 * cap] = Fresh(2 * cap)
      /\ \A c \in DOMAIN arrays : c # 2 * cap => arrays'[c] = arrays[c]
  BY <1>1
<1> HIDE DEF n, D
<1>8. /\ Fresh(2 * cap) \in [Slots(2 * cap) -> EntryType]
      /\ \A h \in Slots(2 * cap) : Fresh(2 * cap)[h] = Empty
  BY <1>4 DEF Fresh, Slots, EntryType, Empty
<1>9. ASSUME NEW k \in DOMAIN stack', stack'[k].op = "expand", k # n + 1
      PROVE  /\ k \in DOMAIN stack /\ stack'[k] = stack[k] /\ k # n
             /\ stack[k].old \in DOMAIN arrays
             /\ stack[k].old < cap /\ stack[k].old # 2 * cap /\ stack[k].old \in Nat
  <2>1. k # n
    BY <1>3, <1>6, <1>9
  <2>2. k \in DOMAIN stack /\ stack'[k] = stack[k]
    BY <1>6, <1>9, <2>1
  <2>3. stack[k] \in FrameType
    BY <1>2, <2>2
  <2>4. stack[k].old \in Nat
    BY <1>9, <2>2, <2>3, FrameFields
  <2>5. stack[k].old \in DOMAIN arrays /\ stack[k].old < cap
    BY <1>9, <2>2 DEF Inv, Frames
  <2>6. stack[k].old # 2 * cap
    BY <1>4, <2>4, <2>5
  <2> QED BY <2>1, <2>2, <2>4, <2>5, <2>6
<1>10. TypeOK'
  <2>1. \A c \in DOMAIN arrays' : arrays'[c] \in [0 .. (c - 1) -> EntryType]
    BY <1>7, <1>8 DEF Inv, TypeOK, Slots
  <2>2. nelem' \in Nat /\ cap' \in Nat \ {0} /\ cap' \in DOMAIN arrays'
    BY <1>1, <1>4, <1>7
  <2> QED BY <1>1, <1>6, <2>1, <2>2 DEF Inv, TypeOK
<1>11. Sound'
  <2> SUFFICES ASSUME NEW c \in DOMAIN arrays', NEW h \in Slots(c)
               PROVE  \/ arrays'[c][h] = Empty
                      \/ \E b \in stored' : \E p \in PagesOf(b) : arrays'[c][h] = Entry(p, b)
    BY DEF Sound
  <2>1. CASE c = 2 * cap
    BY <1>7, <1>8, <2>1
  <2>2. CASE c # 2 * cap
    <3>1. c \in DOMAIN arrays /\ arrays'[c] = arrays[c]
      BY <1>7, <2>2
    <3> QED BY <1>1, <3>1 DEF Inv, Sound
  <2> QED BY <2>1, <2>2
<1>12. entries' = Fresh(2 * cap) /\ \A h \in Slots(2 * cap) : entries'[h] = Empty
  BY <1>1, <1>7, <1>8 DEF entries
<1>13. Probed'
  BY <1>1, <1>12, EntryFields DEF Probed
<1>14. Frames'
  <2>1. ASSUME NEW k \in DOMAIN stack', stack'[k].op = "insert" PROVE stack'[k].block \in stored
    <3>1. k # n + 1
      BY <1>5, <1>6, <2>1
    <3>2. k \in DOMAIN stack
      BY <1>6, <3>1
    <3>3. CASE k = n
      BY <1>1, <1>3, <1>6, <3>3, InsertTop
    <3>4. CASE k # n
      BY <1>6, <2>1, <3>2, <3>4 DEF Inv, Frames
    <3> QED BY <3>3, <3>4
  <2>2. ASSUME NEW k \in DOMAIN stack', stack'[k].op = "expand"
        PROVE  stack'[k].old \in DOMAIN arrays' /\ stack'[k].old < cap'
    <3>1. CASE k = n + 1
      BY <1>1, <1>4, <1>5, <1>6, <1>7, <3>1
    <3>2. CASE k # n + 1
      <4>1. /\ stack'[k] = stack[k] /\ stack[k].old \in DOMAIN arrays /\ stack[k].old < cap
            /\ stack[k].old \in Nat
        BY <1>9, <2>2, <3>2
      <4> QED BY <1>1, <1>4, <1>7, <4>1
    <3> QED BY <3>1, <3>2
  <2>3. ASSUME NEW j \in DOMAIN stack', NEW k \in DOMAIN stack', j < k,
               stack'[j].op = "expand", stack'[k].op = "expand"
        PROVE  stack'[j].old < stack'[k].old
    <3>1. j # n + 1
      <4>1. k \in 1 .. (n + 1) /\ j \in 1 .. (n + 1)
        BY <1>2, <1>6
      <4> QED BY <1>2, <2>3, <4>1
    <3>2. stack'[j] = stack[j] /\ j \in DOMAIN stack /\ stack[j].old < cap
      BY <1>9, <2>3, <3>1
    <3>3. CASE k = n + 1
      BY <1>5, <1>6, <3>2, <3>3
    <3>4. CASE k # n + 1
      <4>1. stack'[k] = stack[k] /\ k \in DOMAIN stack
        BY <1>9, <2>3, <3>4
      <4> QED BY <2>3, <3>2, <4>1 DEF Inv, Frames
    <3> QED BY <3>3, <3>4
  <2> QED BY <1>1, <2>1, <2>2, <2>3 DEF Frames
<1>15. Complete'
  <2> SUFFICES ASSUME NEW c \in stored', NEW p \in PagesOf(c) PROVE Pending(p, c)'
    BY DEF Complete
  <2>0. c \in stored
    BY <1>1
  <2>1. CASE Placed(p, c)
    <3>1. PICK h \in Slots(cap) : arrays[cap][h] = Entry(p, c)
      BY <2>1 DEF Placed, entries
    <3>2. arrays'[cap] = arrays[cap]
      BY <1>4, <1>7
    <3>3. 0 <= h
      BY <1>4 DEF Slots
    <3>4. Brings(arrays', g, p, c)
      BY <1>5, <3>1, <3>2, <3>3 DEF Brings
    <3>5. n + 1 \in DOMAIN stack' /\ stack'[n + 1] = g
      BY <1>6
    <3> QED BY <3>4, <3>5 DEF Pending
  <2>2. CASE Pending(p, c)
    <3>1. PICK k \in DOMAIN stack : Brings(arrays, stack[k], p, c)
      BY <2>2 DEF Pending
    <3>2. CASE k = n
      <4>1. Top.op = "insert"
        BY <1>1 DEF AtPage
      <4>2. Brings(arrays', e, p, c)
        BY <1>2, <1>3, <3>1, <3>2, <4>1 DEF Brings
      <4> QED BY <1>2, <1>6, <4>2 DEF Pending
    <3>3. CASE k # n
      <4>1. k \in DOMAIN stack' /\ stack'[k] = stack[k] /\ k # n + 1
        BY <1>2, <1>6, <3>3
      <4>2. stack[k].op = "expand" => arrays'[stack[k].old] = arrays[stack[k].old]
        BY <1>7, <1>9, <4>1
      <4>3. Brings(arrays', stack'[k], p, c)
        BY <3>1, <4>1, <4>2 DEF Brings
      <4> QED BY <4>1, <4>3 DEF Pending
    <3> QED BY <3>2, <3>3
  <2> QED BY <2>0, <2>1, <2>2 DEF Inv, Complete
<1>16. Counts'
  <2> DEFINE c == Cardinality(Checked)
             o == Cardinality(Occupied)
             l == 2^Power
  <2>1. IsFiniteSet(Checked) /\ c \in Nat
    BY CheckedFinite DEF Inv
  <2>2. n \notin Checked
    BY <1>1, <1>2 DEF Checked
  <2>3. Checked' = Checked \cup {n}
    <3>1. ASSUME NEW k \in Checked' PROVE k \in Checked \cup {n}
      <4>1. k \in DOMAIN stack' /\ stack'[k].op = "insert" /\ stack'[k].checked
        BY <3>1 DEF Checked
      <4>2. k # n + 1
        BY <1>5, <1>6, <4>1
      <4>3. k # n => k \in DOMAIN stack /\ stack'[k] = stack[k]
        BY <1>6, <4>1, <4>2
      <4> QED BY <4>1, <4>3 DEF Checked
    <3>2. ASSUME NEW k \in Checked PROVE k \in Checked'
      <4>1. k \in DOMAIN stack /\ stack[k].op = "insert" /\ stack[k].checked /\ k # n
        BY <2>2, <3>2 DEF Checked
      <4>2. k \in DOMAIN stack' /\ stack'[k] = stack[k]
        BY <1>6, <4>1
      <4> QED BY <4>1, <4>2 DEF Checked
    <3>3. n \in Checked'
      BY <1>2, <1>3, <1>6 DEF Checked
    <3> QED BY <3>1, <3>2, <3>3
  <2>4. Cardinality(Checked') = c + 1
    BY <2>1, <2>2, <2>3, OneMore
  <2>5. Occupied' = {} /\ Cardinality(Occupied') = 0
    <3>1. Occupied' = {}
      BY <1>1, <1>12 DEF Occupied, Slots
    <3> QED BY <3>1, FS_EmptySet
  <2>6. 10 * nelem > 7 * cap
    BY <1>1 DEF Crowded
  <2>7. 4 * (c + 1) <= cap /\ 20 * (nelem + c) <= 19 * cap
    BY DEF Inv, Counts
  <2> HIDE DEF c, o, l
  <2>8. /\ 4 * ((c + 1) + 1) <= 2 * cap /\ 20 * (nelem + (c + 1)) <= 19 * (2 * cap) /\ 0 <= nelem
        /\ 20 * (nelem - 0) > 7 * (2 * cap)
    BY <1>4, <2>1, <2>6, <2>7
  <2> QED BY <1>1, <2>4, <2>5, <2>8 DEF Counts
<1> QED BY <1>1, <1>10, <1>11, <1>13, <1>14, <1>15, <1>16 DEF Inv

(***************************************************************************)
(* A page is put into the array                                            *)
(***************************************************************************)

(* The slot is free, or the page is there already.                         *)
LEMMA PutSlot ==
  ASSUME Inv, NEW b \in stored, NEW p \in PagesOf(b), HasSlot(p)
  PROVE  entries[SlotOf(p)] = Empty \/ entries[SlotOf(p)] = Entry(p, b)
<1> DEFINE h == SlotOf(p)
<1>1. b \in Blocks /\ TypeOK /\ Sound /\ cap \in DOMAIN arrays
  BY DEF Inv, TypeOK
<1>2. p \in Nat \ {0}
  BY <1>1, BlockPages
<1>3. h \in Slots(cap) /\ entries[h].key \in {p, 0}
  BY <1>1, <1>2, SlotFound
<1> HIDE DEF h
<1>4. CASE arrays[cap][h] # Empty
  <2>1. PICK c \in stored : \E q \in PagesOf(c) :
          c \in Blocks /\ q \in Nat \ {0} /\ arrays[cap][h] = Entry(q, c) /\ arrays[cap][h].key = q
    BY <1>1, <1>3, <1>4, Contents
  <2>2. PICK q \in PagesOf(c) :
          c \in Blocks /\ q \in Nat \ {0} /\ arrays[cap][h] = Entry(q, c) /\ arrays[cap][h].key = q
    BY <2>1
  <2>3. q = p
    BY <1>3, <2>2 DEF entries
  <2>4. c = b
    BY <1>1, <2>2, <2>3, OneBlock
  <2> QED BY <2>2, <2>3, <2>4 DEF entries, h
<1> QED BY <1>4 DEF entries, h

LEMMA PutHolds ==
  ASSUME Inv, PutPage
  PROVE  Inv'
<1> DEFINE n == Len(stack)
           b == Top.block
           p == Top.block.pgstart + Top.pgidx
           h == SlotOf(p)
           e == [Top EXCEPT !.pgidx = @ + 1, !.checked = FALSE]
<1>1. /\ AtPage /\ (Top.checked \/ ~Crowded) /\ HasSlot(p)
      /\ arrays' = [arrays EXCEPT ![cap][h] = Entry(p, b)]
      /\ nelem' = nelem + 1 /\ stack' = WithTop(e)
      /\ UNCHANGED <<cap, stored, finder>>
  BY DEF PutPage, Entry
<1>2. /\ n \in Nat \ {0} /\ n \in DOMAIN stack /\ Top = stack[n] /\ DOMAIN stack = 1 .. n
      /\ stack \in Seq(FrameType) /\ Top.op = "insert"
  BY <1>1, InsertTop, StackTop DEF AtPage
<1>3. e \in FrameType /\ e.op = "insert" /\ e.block = b /\ e.pgidx = Top.pgidx + 1
      /\ e.checked = FALSE
  <2>1. Top \in [op : {"insert"}, block : Blocks, pgidx : Nat, checked : BOOLEAN]
    BY <1>1, InsertTop
  <2> DEFINE d == [Top EXCEPT !.pgidx = @ + 1]
  <2>2. e = [d EXCEPT !.checked = FALSE]
    OBVIOUS
  <2>3. /\ d \in [op : {"insert"}, block : Blocks, pgidx : Nat, checked : BOOLEAN]
        /\ d.block = b /\ d.pgidx = Top.pgidx + 1
    BY <2>1
  <2> HIDE DEF d
  <2>4. /\ e \in [op : {"insert"}, block : Blocks, pgidx : Nat, checked : BOOLEAN]
        /\ e.block = b /\ e.pgidx = Top.pgidx + 1 /\ e.checked = FALSE
    BY <2>2, <2>3
  <2> QED BY <2>4 DEF FrameType
<1>4. /\ cap \in Nat \ {0} /\ cap \in DOMAIN arrays /\ nelem \in Nat /\ TypeOK /\ Probed
      /\ arrays[cap] \in [Slots(cap) -> EntryType]
  BY DEF Inv, TypeOK, Slots
<1>5. b \in stored /\ b \in Blocks /\ p \in PagesOf(b) /\ Top.pgidx \in Nat
      /\ Top.checked \in BOOLEAN
  BY <1>1, InsertTop
<1>6. p \in Nat \ {0} /\ b.pgstart \in Nat
  BY <1>5, BlockPages
<1>7. h \in Slots(cap) /\ entries[h].key \in {p, 0} /\ Reaches(entries, cap, p, h)
  BY <1>1, <1>4, <1>6, SlotFound
<1>8. entries[h] = Empty \/ entries[h] = Entry(p, b)
  BY <1>1, <1>5, PutSlot
<1>9. Replaced(stack, stack', e)
  BY <1>1, <1>2, <1>3, TopReplaced
<1>10. /\ stack' \in Seq(FrameType) /\ DOMAIN stack' = DOMAIN stack /\ stack'[n] = e
       /\ \A k \in DOMAIN stack : k # n => stack'[k] = stack[k]
  BY <1>9 DEF Replaced
<1>p. p = b.pgstart + Top.pgidx
  OBVIOUS
<1> HIDE DEF n, b, p, h, e
<1>11. /\ DOMAIN arrays' = DOMAIN arrays
       /\ \A c \in DOMAIN arrays : c # cap => arrays'[c] = arrays[c]
       /\ arrays'[cap] = [entries EXCEPT ![h] = Entry(p, b)]
  BY <1>1, <1>4 DEF entries
<1>12. /\ entries \in [Slots(cap) -> EntryType] /\ entries' = arrays'[cap]
       /\ entries'[h] = Entry(p, b)
       /\ \A g \in Slots(cap) : g # h => entries'[g] = entries[g]
  BY <1>1, <1>4, <1>7, <1>11 DEF entries
<1>13. Entry(p, b) \in EntryType /\ Entry(p, b).key = p /\ Entry(p, b) # Empty
  <2>1. Entry(p, b) \in EntryType
    BY <1>5, <1>6 DEF Entry, EntryType
  <2> QED BY <1>6, <2>1, EntryFields
<1>14. TypeOK'
  <2>1. ASSUME NEW c \in DOMAIN arrays' PROVE arrays'[c] \in [0 .. (c - 1) -> EntryType]
    <3>1. CASE c = cap
      <4>1. arrays'[cap] \in [Slots(cap) -> EntryType]
        BY <1>7, <1>11, <1>12, <1>13
      <4> QED BY <3>1, <4>1 DEF Slots
    <3>2. CASE c # cap
      BY <1>4, <1>11, <3>2 DEF TypeOK
    <3> QED BY <3>1, <3>2
  <2>2. nelem' \in Nat
    BY <1>1, <1>4
  <2> QED BY <1>1, <1>10, <1>11, <2>1, <2>2 DEF Inv, TypeOK
<1>15. Sound'
  <2> SUFFICES ASSUME NEW c \in DOMAIN arrays', NEW g \in Slots(c)
               PROVE  \/ arrays'[c][g] = Empty
                      \/ \E d \in stored' : \E q \in PagesOf(d) : arrays'[c][g] = Entry(q, d)
    BY DEF Sound
  <2>1. CASE c = cap /\ g = h
    BY <1>1, <1>5, <1>12, <2>1
  <2>2. CASE ~(c = cap /\ g = h)
    <3>1. c \in DOMAIN arrays /\ arrays'[c][g] = arrays[c][g]
      BY <1>11, <1>12, <2>2 DEF entries
    <3> QED BY <1>1, <3>1 DEF Inv, Sound
  <2> QED BY <2>1, <2>2
(* A search that passed the slot passes it still: the slot had the page.   *)
<1>16. ASSUME NEW q \in Nat \ {0}, NEW g, Reaches(entries, cap, q, g), q = p => g = h
       PROVE  Reaches(entries', cap, q, g)
  <2>1. PICK k \in Slots(cap) : /\ At(cap, q, k) = g
                                /\ \A j \in 0 .. (k - 1) : entries[At(cap, q, j)].key \notin {q, 0}
    BY <1>16 DEF Reaches
  <2>2. ASSUME NEW j \in 0 .. (k - 1) PROVE entries'[At(cap, q, j)].key \notin {q, 0}
    <3>1. j \in Nat
      BY <1>4, <2>1 DEF Slots
    <3>2. At(cap, q, j) \in Slots(cap)
      BY <1>4, <3>1, AtRange
    <3>3. CASE At(cap, q, j) = h
      <4>1. entries[h] = Entry(p, b)
        BY <1>8, <2>1, <2>2, <3>3, EntryFields
      <4> QED BY <1>12, <2>1, <2>2, <3>3, <4>1
    <3>4. CASE At(cap, q, j) # h
      BY <1>12, <2>1, <2>2, <3>2, <3>4
    <3> QED BY <3>3, <3>4
  <2> QED BY <2>1, <2>2 DEF Reaches
<1>17. Probed'
  <2> SUFFICES ASSUME NEW g \in Slots(cap), entries'[g].key # 0
               PROVE  Reaches(entries', cap, entries'[g].key, g)
    BY <1>1 DEF Probed
  <2>1. CASE g = h
    <3>1. entries'[g].key = p
      BY <1>12, <1>13, <2>1
    <3> QED BY <1>6, <1>7, <1>16, <2>1, <3>1
  <2>2. CASE g # h
    <3>1. entries'[g] = entries[g]
      BY <1>12, <2>2
    <3> DEFINE q == entries[g].key
    <3>2. q \in Nat \ {0}
      BY <1>12, <3>1 DEF EntryType
    <3>3. Reaches(entries, cap, q, g)
      BY <1>4, <3>1, <3>2 DEF Probed
    <3>4. q # p
      <4>1. HasSlot(q) /\ SlotOf(q) = g
        BY <1>4, <3>2, Finding
      <4> QED BY <2>2, <4>1 DEF h
    <3> HIDE DEF q
    <3>5. Reaches(entries', cap, q, g)
      BY <1>16, <3>2, <3>3, <3>4
    <3> QED BY <3>1, <3>5 DEF q
  <2> QED BY <2>1, <2>2
<1>18. ASSUME NEW k \in DOMAIN stack, k # n \/ stack[k].op = "expand"
       PROVE  /\ stack'[k] = stack[k]
              /\ stack[k].op = "expand" => arrays'[stack[k].old] = arrays[stack[k].old]
  <2>1. stack'[k] = stack[k]
    BY <1>2, <1>10, <1>18
  <2>2. ASSUME stack[k].op = "expand" PROVE stack[k].old \in DOMAIN arrays /\ stack[k].old # cap
    <3>1. stack[k] \in FrameType
      BY <1>2
    <3>2. stack[k].old \in Nat /\ stack[k].old < cap /\ stack[k].old \in DOMAIN arrays
      BY <2>2, <3>1, FrameFields DEF Inv, Frames
    <3> QED BY <1>4, <3>2
  <2> QED BY <1>11, <2>1, <2>2
<1>19. Frames'
  <2>1. ASSUME NEW k \in DOMAIN stack'
        PROVE  /\ stack'[k].op = "insert" => stack'[k].block \in stored'
               /\ stack'[k].op = "expand" =>
                     stack'[k].old \in DOMAIN arrays' /\ stack'[k].old < cap'
    <3>1. CASE k = n
      BY <1>1, <1>3, <1>5, <1>10, <3>1
    <3>2. CASE k # n
      BY <1>1, <1>10, <1>11, <3>2 DEF Inv, Frames
    <3> QED BY <3>1, <3>2
  <2>2. \A k \in DOMAIN stack' : stack'[k].op = "expand" =>
        k \in DOMAIN stack /\ stack'[k] = stack[k]
    BY <1>3, <1>10
  <2>3. \A j, k \in DOMAIN stack' : j < k /\ stack'[j].op = "expand" /\ stack'[k].op = "expand" =>
        stack'[j].old < stack'[k].old
    BY <2>2 DEF Inv, Frames
  <2> QED BY <2>1, <2>3 DEF Frames
<1>20. Complete'
  <2> SUFFICES ASSUME NEW c \in stored', NEW q \in PagesOf(c) PROVE Placed(q, c)' \/ Pending(q, c)'
    BY DEF Complete
  <2>0. c \in stored /\ c \in Blocks /\ q \in Nat \ {0}
    <3>1. c \in stored /\ c \in Blocks
      BY <1>1, <1>4 DEF TypeOK
    <3> QED BY <3>1, BlockPages
  <2>1. CASE Placed(q, c)
    <3>1. PICK g \in Slots(cap) : entries[g] = Entry(q, c)
      BY <2>1 DEF Placed
    <3>2. entries'[g] = Entry(q, c)
      <4>1. CASE g = h
        <5>1. Entry(q, c) # Empty
          BY <2>0, EntryFields
        <5> QED BY <1>8, <1>12, <3>1, <4>1, <5>1
      <4>2. CASE g # h
        BY <1>12, <3>1, <4>2
      <4> QED BY <4>1, <4>2
    <3> QED BY <1>1, <3>2 DEF Placed
  <2>2. CASE Pending(q, c)
    <3>1. PICK k \in DOMAIN stack : Brings(arrays, stack[k], q, c)
      BY <2>2 DEF Pending
    <3>2. CASE k # n
      <4>1. stack'[k] = stack[k] /\ (stack[k].op = "expand" =>
                                    arrays'[stack[k].old] = arrays[stack[k].old])
        BY <1>18, <3>2
      <4>2. Brings(arrays', stack'[k], q, c)
        BY <3>1, <4>1 DEF Brings
      <4> QED BY <1>10, <4>2 DEF Pending
    <3>3. CASE k = n
      <4>1. b = c /\ b.pgstart + Top.pgidx <= q
        BY <1>2, <3>1, <3>3 DEF Brings, b
      <4>2. CASE q = p
        BY <1>1, <1>7, <1>12, <4>1, <4>2 DEF Placed
      <4>3. CASE q # p
        <5>1. b.pgstart + e.pgidx <= q
          BY <1>3, <1>5, <1>6, <1>p, <2>0, <4>1, <4>3
        <5>2. Brings(arrays', e, q, c)
          BY <1>3, <4>1, <5>1 DEF Brings
        <5> QED BY <1>2, <1>10, <5>2 DEF Pending
      <4> QED BY <4>2, <4>3
    <3> QED BY <3>2, <3>3
  <2> QED BY <2>0, <2>1, <2>2 DEF Inv, Complete
<1>21. Counts'
  <2> DEFINE c == Cardinality(Checked)
             d == Cardinality(Checked')
             o == Cardinality(Occupied)
             u == Cardinality(Occupied')
             l == 2^Power
  <2>1. IsFiniteSet(Checked) /\ c \in Nat /\ IsFiniteSet(Occupied) /\ o \in Nat
    BY <1>4, CheckedFinite, SlotsFinite
  <2>3. Checked' = Checked \ {n}
    <3>1. n \notin Checked'
      BY <1>3, <1>10 DEF Checked
    <3>2. \A k \in DOMAIN stack : k # n => (k \in Checked <=> k \in Checked')
      BY <1>10 DEF Checked
    <3>3. Checked \subseteq DOMAIN stack /\ Checked' \subseteq DOMAIN stack
      BY <1>10 DEF Checked
    <3> QED BY <3>1, <3>2, <3>3
  <2>4. \/ Top.checked /\ n \in Checked /\ d = c - 1
        \/ ~Crowded /\ d = c /\ Checked' = Checked
    <3>1. CASE Top.checked
      <4>1. n \in Checked
        BY <1>2, <3>1 DEF Checked
      <4>2. d = c - 1
        BY <2>1, <2>3, <4>1, FS_RemoveElement
      <4> QED BY <3>1, <4>1, <4>2
    <3>2. CASE ~Top.checked
      <4>1. n \notin Checked
        BY <1>2, <3>2 DEF Checked
      <4>2. Checked' = Checked
        BY <2>3, <4>1
      <4> QED BY <1>1, <3>2, <4>2
    <3> QED BY <3>1, <3>2
  <2>2. d \in Nat
    <3>1. IsFiniteSet(Checked')
      BY <2>1, <2>3, FS_RemoveElement
    <3> QED BY <3>1, FS_CardinalityType
  <2>5. u \in Nat /\ o <= u /\ u <= o + 1
    <3>1. h \notin Occupied => Occupied' = Occupied \cup {h}
      BY <1>1, <1>4, <1>7, <1>12, <1>13 DEF Occupied, Slots
    <3>2. h \in Occupied => Occupied' = Occupied
      BY <1>1, <1>4, <1>7, <1>12, <1>13 DEF Occupied, Slots
    <3>3. CASE h \in Occupied
      BY <2>1, <3>2, <3>3
    <3>4. CASE h \notin Occupied
      <4>1. u = o + 1
        BY <2>1, <3>1, <3>4, OneMore
      <4> QED BY <2>1, <4>1
    <3> QED BY <3>3, <3>4
  <2>6. /\ 4 * (c + 1) <= cap /\ 20 * (nelem + c) <= 19 * cap /\ o <= nelem
        /\ \/ cap = l /\ Checked = {} /\ 10 * (nelem - 1) <= 7 * cap
           \/ 20 * (nelem - o) > 7 * cap
    BY DEF Inv, Counts
  <2>7. ~Crowded => 10 * nelem <= 7 * cap
    BY <1>4 DEF Crowded
  <2> HIDE DEF c, d, o, u, l
  <2>8. 4 * (d + 1) <= cap /\ u <= nelem + 1
    BY <1>4, <2>1, <2>2, <2>4, <2>5, <2>6
  <2>9. 20 * ((nelem + 1) + d) <= 19 * cap
    BY <1>4, <2>1, <2>2, <2>4, <2>6, <2>7
  <2>10. \/ cap = l /\ Checked' = {} /\ 10 * ((nelem + 1) - 1) <= 7 * cap
         \/ 20 * ((nelem + 1) - u) > 7 * cap
    <3>1. CASE 20 * (nelem - o) > 7 * cap
      BY <1>4, <2>1, <2>2, <2>5, <3>1
    <3>2. CASE cap = l /\ Checked = {} /\ 10 * (nelem - 1) <= 7 * cap
      <4>1. ~Crowded /\ Checked' = {}
        BY <2>4, <3>2
      <4>2. 10 * ((nelem + 1) - 1) <= 7 * cap
        BY <1>4, <2>7, <4>1
      <4> QED BY <3>2, <4>1, <4>2
    <3> QED BY <2>6, <3>1, <3>2
  <2> QED BY <1>1, <2>8, <2>9, <2>10 DEF Counts, d, u, l
<1> QED BY <1>1, <1>14, <1>15, <1>17, <1>19, <1>20, <1>21 DEF Inv

(***************************************************************************)
(* Theorems                                                                *)
(***************************************************************************)
(* Every step keeps the inductive invariant.                               *)
LEMMA StepHolds ==
  Inv /\ [Next]_vars => Inv'
<1> SUFFICES ASSUME Inv, [Next]_vars PROVE Inv'
  OBVIOUS
<1>1. ASSUME NEW b \in Blocks, Insert(b) PROVE Inv'
  BY <1>1, InsertHolds
<1>2. ASSUME Expand PROVE Inv'
  BY <1>2, ExpandHolds
<1>3. ASSUME PutPage PROVE Inv'
  BY <1>3, PutHolds
<1>4. ASSUME InsertReturn PROVE Inv'
  BY <1>4, InsertReturnHolds
<1>5. ASSUME Rehash PROVE Inv'
  BY <1>5, RehashHolds
<1>6. ASSUME ExpandReturn PROVE Inv'
  BY <1>6, ExpandReturnHolds
<1>7. ASSUME NEW f \in Finders, NEW b \in stored, NEW p \in PagesOf(b), Find(f, p) PROVE Inv'
  BY <1>7, FindHolds
<1>8. ASSUME NEW f \in Finders, ReadEntry(f) PROVE Inv'
  BY <1>8, ReadEntryHolds
<1>9. ASSUME UNCHANGED vars PROVE Inv'
  <2>1. UNCHANGED <<nelem, cap, arrays, stack, stored, finder>>
    BY <1>9 DEF vars
  <2>2. TypeOK' /\ Sound' /\ Probed' /\ Frames' /\ Complete' /\ DOMAIN finder' = Finders
    BY <2>1, SameArrays DEF Inv, TypeOK, Sound, Frames, Complete, Pending
  <2>3. Checked' \subseteq Checked
    BY <2>1 DEF Checked
  <2>4. Counts'
    BY <2>1, <2>3, SameCounts DEF Inv
  <2> QED BY <2>2, <2>4 DEF Inv
<1> QED BY <1>1, <1>2, <1>3, <1>4, <1>5, <1>6, <1>7, <1>8, <1>9 DEF Next

(* What is in the arrays, the calls that will put the rest there, and the  *)
(* load agree after every step of an insertion.                            *)
THEOREM InvHolds ==
  Spec => []Inv
<1>1. Init => Inv
  BY InitHolds
<1>2. Inv /\ [Next]_vars => Inv'
  BY StepHolds
<1> QED BY <1>1, <1>2, PTL DEF Spec

(* When vtsaddrtable_insert has returned, vtsaddrtable_find finds each     *)
(* page of each block that was inserted, under its block, whatever growing *)
(* moved in between; the table holds nothing else.                         *)
THEOREM FoundHolds ==
  Spec => []Found
<1>1. Inv => Found
  BY InvFound
<1> QED BY <1>1, InvHolds, PTL

(* vtsaddrtable_new makes an array of 1 << power entries, and growing       *)
(* shifts its length: the length stays a power of two, which triangular    *)
(* probing needs to reach every slot.                                      *)
THEOREM LengthHolds ==
  Spec => []PowerOfTwo
<1>1. Init => PowerOfTwo
  BY AddrTableAssumption DEF Init, PowerOfTwo
<1>2. ASSUME PowerOfTwo, [Next]_vars PROVE PowerOfTwo'
  <2>1. PICK n \in Nat : cap = 2^n
    BY <1>2 DEF PowerOfTwo
  <2>2. CASE cap' = cap
    BY <2>1, <2>2 DEF PowerOfTwo
  <2>3. CASE cap' = 2 * cap
    <3>1. n + 1 \in Nat /\ cap' = 2^(n + 1)
      BY <2>1, <2>3, Doubling
    <3> QED BY <3>1 DEF PowerOfTwo
  <2>4. cap' = cap \/ cap' = 2 * cap
    <3>1. CASE UNCHANGED vars
      BY <3>1 DEF vars
    <3>2. CASE Next
      BY <3>2 DEF Next, Insert, Expand, PutPage, InsertReturn, Rehash, ExpandReturn,
                  Find, ReadEntry
    <3> QED BY <1>2, <3>1, <3>2
  <2> QED BY <2>2, <2>3, <2>4
<1> QED BY <1>1, <1>2, PTL DEF Spec

(* A free slot is always left, at 70 % and one entry more, though a page   *)
(* of a call that has grown the array is put without the load being looked *)
(* at again; and the probes for a page end at one: __vtsaddrtable_find     *)
(* never returns NULL, which its callers would read.                       *)
THEOREM RoomLeftHolds ==
  Spec => []RoomLeft
<1>1. Inv /\ PowerOfTwo => RoomLeft
  BY InvRoomLeft
<1> QED BY <1>1, InvHolds, LengthHolds, PTL

(* vtsaddrtable_expand reads an array that is allocated and is not the one *)
(* insertions write, also when growing has begun again inside.             *)
THEOREM RehashSafeHolds ==
  Spec => []RehashSafe
<1>1. Inv => RehashSafe
  BY InvRehashSafe
<1> QED BY <1>1, InvHolds, PTL
=============================================================================
