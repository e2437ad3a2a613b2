--------------------------- MODULE CrMallocProofs ---------------------------
(***************************************************************************)
(* Theorems about CrMalloc, for any sizes of headers, tags, pages and      *)
(* requests.                                                               *)
(***************************************************************************)
EXTENDS CrMallocInv, SequenceTheorems, WellFoundedInduction, TLAPS

(***************************************************************************)
(* The free list                                                           *)
(***************************************************************************)
LEMMA RemoveAtElements ==
  ASSUME NEW s \in Seq(Nat), NEW i \in 1..Len(s)
  PROVE  /\ RemoveAt(s, i) \in Seq(Nat)
         /\ Len(RemoveAt(s, i)) = Len(s) - 1
         /\ \A j \in 1..(Len(s) - 1) : RemoveAt(s, i)[j] = IF j < i THEN s[j] ELSE s[j + 1]
<1> DEFINE a == SubSeq(s, 1, i - 1)
           b == SubSeq(s, i + 1, Len(s))
<1>1. Len(s) \in Nat /\ i \in Nat /\ 1 <= i /\ i <= Len(s)
  OBVIOUS
<1>2. a \in Seq(Nat) /\ Len(a) = i - 1 /\ \A j \in 1..(i - 1) : a[j] = s[j]
  BY <1>1
<1>3. b \in Seq(Nat) /\ Len(b) = Len(s) - i /\ \A j \in 1..(Len(s) - i) : b[j] = s[i + j]
  BY <1>1
<1> HIDE DEF a, b
<1>4. /\ a \o b \in Seq(Nat) /\ Len(a \o b) = Len(a) + Len(b)
      /\ \A j \in 1..(Len(a) + Len(b)) :
           (a \o b)[j] = IF j <= Len(a) THEN a[j] ELSE b[j - Len(a)]
  BY <1>2, <1>3, ConcatProperties
<1>5. Len(a) + Len(b) = Len(s) - 1
  BY <1>1, <1>2, <1>3
<1>6. ASSUME NEW j \in 1..(Len(s) - 1)
      PROVE  (a \o b)[j] = IF j < i THEN s[j] ELSE s[j + 1]
  <2>1. j \in Nat /\ 1 <= j /\ j <= Len(s) - 1 /\ j \in 1..(Len(a) + Len(b))
    BY <1>1, <1>5
  <2>2. (a \o b)[j] = IF j <= i - 1 THEN a[j] ELSE b[j - (i - 1)]
    BY <1>2, <1>4, <2>1
  <2>3. CASE j < i
    <3>1. j <= i - 1 /\ j \in 1..(i - 1)
      BY <1>1, <2>1, <2>3
    <3> QED BY <1>2, <2>2, <2>3, <3>1
  <2>4. CASE ~(j < i)
    <3>1. ~(j <= i - 1) /\ j - (i - 1) \in 1..(Len(s) - i) /\ i + (j - (i - 1)) = j + 1
      BY <1>1, <2>1, <2>4
    <3> QED BY <1>3, <2>2, <2>4, <3>1
  <2> QED BY <2>3, <2>4
<1>7. RemoveAt(s, i) = a \o b
  BY DEF RemoveAt, a, b
<1> QED BY <1>4, <1>5, <1>6, <1>7

(* Taking a block off the list.                                            *)
LEMMA RemovedFromList ==
  ASSUME NEW s \in Seq(Nat), NEW i \in DOMAIN s,
         \A j, k \in DOMAIN s : s[j] = s[k] => j = k
  PROVE  LET t == RemoveAt(s, i)
         IN /\ t \in Seq(Nat)
            /\ \A j, k \in DOMAIN t : t[j] = t[k] => j = k
            /\ {t[j] : j \in DOMAIN t} = {s[j] : j \in DOMAIN s} \ {s[i]}
<1> DEFINE t == RemoveAt(s, i)
<1>1. DOMAIN s = 1..Len(s) /\ Len(s) \in Nat
  OBVIOUS
<1>2. /\ Len(t) = Len(s) - 1 /\ t \in Seq(Nat)
      /\ \A j \in 1..(Len(s) - 1) : t[j] = IF j < i THEN s[j] ELSE s[j + 1]
  BY <1>1, RemoveAtElements
<1> HIDE DEF t
<1>3. DOMAIN t = 1..(Len(s) - 1) /\ i \in 1..Len(s)
  BY <1>1, <1>2
<1>4. \A j \in DOMAIN t : t[j] = IF j < i THEN s[j] ELSE s[j + 1]
  BY <1>2, <1>3
<1>5. ASSUME NEW j \in DOMAIN t
      PROVE  \E k \in DOMAIN s : k = (IF j < i THEN j ELSE j + 1) /\ t[j] = s[k] /\ k # i
  <2>1. j \in Nat /\ 1 <= j /\ j <= Len(s) - 1 /\ i \in Nat
    BY <1>1, <1>3
  <2>2. CASE j < i
    <3>1. j \in DOMAIN s /\ j # i
      BY <1>1, <2>1, <2>2
    <3> QED BY <1>4, <2>2, <3>1
  <2>3. CASE ~(j < i)
    <3>1. j + 1 \in DOMAIN s /\ j + 1 # i
      BY <1>1, <2>1, <2>3
    <3> QED BY <1>4, <2>3, <3>1
  <2> QED BY <2>2, <2>3
<1>6. ASSUME NEW j \in DOMAIN t, NEW k \in DOMAIN t, t[j] = t[k] PROVE j = k
  <2>1. (IF j < i THEN j ELSE j + 1) = (IF k < i THEN k ELSE k + 1)
    BY <1>5, <1>6
  <2>2. j \in Nat /\ k \in Nat /\ i \in Nat
    BY <1>1, <1>3
  <2> QED BY <2>1, <2>2
<1>7. ASSUME NEW k \in DOMAIN s, s[k] # s[i] PROVE \E j \in DOMAIN t : t[j] = s[k]
  <2>1. k \in Nat /\ 1 <= k /\ k <= Len(s) /\ i \in Nat /\ 1 <= i /\ i <= Len(s) /\ k # i
    BY <1>1, <1>3, <1>7
  <2>2. CASE k < i
    <3>1. k \in DOMAIN t
      BY <1>1, <1>3, <2>1, <2>2
    <3> QED BY <1>4, <2>2, <3>1
  <2>3. CASE ~(k < i)
    <3>1. k - 1 \in DOMAIN t /\ ~(k - 1 < i) /\ (k - 1) + 1 = k
      BY <1>1, <1>3, <2>1, <2>3
    <3> QED BY <1>4, <3>1
  <2> QED BY <2>2, <2>3
<1>8. \A j \in DOMAIN t : t[j] \in {s[k] : k \in DOMAIN s} \ {s[i]}
  BY <1>5
<1>9. {t[j] : j \in DOMAIN t} = {s[k] : k \in DOMAIN s} \ {s[i]}
  BY <1>7, <1>8
<1> QED BY <1>2, <1>6, <1>9 DEF t

LEMMA AppendedToList ==
  ASSUME NEW s \in Seq(Nat), NEW b \in Nat,
         \A j, k \in DOMAIN s : s[j] = s[k] => j = k,
         b \notin {s[j] : j \in DOMAIN s}
  PROVE  LET t == Append(s, b)
         IN /\ t \in Seq(Nat)
            /\ \A j, k \in DOMAIN t : t[j] = t[k] => j = k
            /\ {t[j] : j \in DOMAIN t} = {s[j] : j \in DOMAIN s} \cup {b}
<1> DEFINE t == Append(s, b)
<1>1. DOMAIN s = 1..Len(s) /\ Len(s) \in Nat
  OBVIOUS
<1>2. /\ t \in Seq(Nat) /\ DOMAIN t = 1..(Len(s) + 1)
      /\ t[Len(s) + 1] = b /\ \A j \in 1..Len(s) : t[j] = s[j]
  OBVIOUS
<1> HIDE DEF t
<1>3. \A j, k \in DOMAIN t : t[j] = t[k] => j = k
  <2> SUFFICES ASSUME NEW j \in DOMAIN t, NEW k \in DOMAIN t, t[j] = t[k] PROVE j = k
    OBVIOUS
  <2>1. DOMAIN t = DOMAIN s \cup {Len(s) + 1}
    BY <1>1, <1>2
  <2>2. \A z \in DOMAIN s : t[z] = s[z] /\ t[z] # b
    BY <1>1, <1>2
  <2> QED BY <1>2, <2>1, <2>2
<1>4. {t[j] : j \in DOMAIN t} = {s[j] : j \in DOMAIN s} \cup {b}
  <2>1. DOMAIN t = DOMAIN s \cup {Len(s) + 1}
    BY <1>1, <1>2
  <2>2. t[Len(s) + 1] = b /\ \A j \in DOMAIN s : t[j] = s[j]
    BY <1>1, <1>2
  <2> QED BY <2>1, <2>2
<1> QED BY <1>2, <1>3, <1>4 DEF t

-----------------------------------------------------------------------------
(***************************************************************************)
(* What the boundary tags find                                             *)
(***************************************************************************)
LEMMA Numbers == Header \in Nat /\ Tag \in Nat \ {0} /\ Top \in Nat /\ Metadata = Header + Tag
BY CrMallocAssumption DEF Metadata

LEMMA BlockTypes ==
  ASSUME NEW h, HeapTypes(h), NEW b \in BlocksIn(h)
  PROVE  /\ b \in Nat /\ SizeOf(h, b) \in Nat \ {0} /\ InUse(h, b) \in BOOLEAN
         /\ h.head[b].lo \in 0..Top /\ h.head[b].hi \in 0..Top
         /\ FootAt(b, SizeOf(h, b)) = b + Header + SizeOf(h, b)
         /\ EndOf(h, b) = b + Header + SizeOf(h, b) + Tag
         /\ FootAt(b, SizeOf(h, b)) \in Nat /\ EndOf(h, b) \in Nat
         /\ b < FootAt(b, SizeOf(h, b)) /\ FootAt(b, SizeOf(h, b)) < EndOf(h, b)
<1>1. h.head[b] \in [lo : 0..Top, hi : 0..Top, size : Nat \ {0}, inuse : BOOLEAN] /\ b \in Nat
  BY DEF HeapTypes, BlocksIn
<1> QED BY <1>1, Numbers DEF FootAt, EndOf, SizeOf, InUse

LEMMA HeadIs ==
  ASSUME NEW h, HeapTypes(h), NEW b \in BlocksIn(h)
  PROVE  h.head[b] = [lo |-> h.head[b].lo, hi |-> h.head[b].hi,
                      size |-> SizeOf(h, b), inuse |-> InUse(h, b)]
<1>1. h.head[b] \in [lo : 0..Top, hi : 0..Top, size : Nat \ {0}, inuse : BOOLEAN]
  BY DEF HeapTypes, BlocksIn
<1> QED BY <1>1 DEF SizeOf, InUse

LEMMA FootIs ==
  ASSUME NEW h, Feet(h), NEW b \in BlocksIn(h)
  PROVE  /\ FootAt(b, SizeOf(h, b)) \in DOMAIN h.foot
         /\ h.foot[FootAt(b, SizeOf(h, b))].size = SizeOf(h, b)
         /\ h.foot[FootAt(b, SizeOf(h, b))].inuse = InUse(h, b)
<1>1. FootAt(b, SizeOf(h, b)) \in DOMAIN h.foot
  BY DEF Feet
<1>2. h.foot[FootAt(b, SizeOf(h, b))] = [size |-> SizeOf(h, b), inuse |-> InUse(h, b)]
  BY Zenon DEF Feet
<1> QED BY <1>1, <1>2

(* A block has one left tag and one right tag; no two blocks share one.    *)
LEMMA Apart ==
  ASSUME NEW h, HeapTypes(h), Disjoint(h), NEW b \in BlocksIn(h), NEW c \in BlocksIn(h), b # c
  PROVE  /\ EndOf(h, b) <= c \/ EndOf(h, c) <= b
         /\ FootAt(b, SizeOf(h, b)) # FootAt(c, SizeOf(h, c))
         /\ EndOf(h, b) # EndOf(h, c)
<1>1. /\ b \in Nat /\ FootAt(b, SizeOf(h, b)) \in Nat /\ EndOf(h, b) \in Nat
      /\ b < FootAt(b, SizeOf(h, b)) /\ FootAt(b, SizeOf(h, b)) < EndOf(h, b)
  BY BlockTypes
<1>2. /\ c \in Nat /\ FootAt(c, SizeOf(h, c)) \in Nat /\ EndOf(h, c) \in Nat
      /\ c < FootAt(c, SizeOf(h, c)) /\ FootAt(c, SizeOf(h, c)) < EndOf(h, c)
  BY BlockTypes
<1>3. EndOf(h, b) <= c \/ EndOf(h, c) <= b
  BY <1>1, <1>2 DEF Disjoint
<1> QED BY <1>1, <1>2, <1>3

LEMMA LeftFound ==
  ASSUME NEW h, NEW R, Shape(h, R), NEW b \in BlocksIn(h), HasLeft(h, b)
  PROVE  /\ b - Tag \in DOMAIN h.foot
         /\ LeftOf(h, b) \in BlocksIn(h) /\ EndOf(h, LeftOf(h, b)) = b
         /\ LeftOf(h, b) < b
<1> HeapTypes(h) /\ Feet(h)
  BY DEF Shape
<1>1. b \in Nat /\ h.head[b].lo \in 0..Top
  BY BlockTypes
<1>2. ~(b - Tag > b)
  BY <1>1, Numbers
<1>3. PICK a \in BlocksIn(h) : EndOf(h, a) = b
  BY <1>2 DEF Shape, LeftLinked, HasLeft
<1>4. /\ a \in Nat /\ SizeOf(h, a) \in Nat /\ a < EndOf(h, a)
      /\ FootAt(a, SizeOf(h, a)) = a + Header + SizeOf(h, a)
      /\ EndOf(h, a) = a + Header + SizeOf(h, a) + Tag
  BY BlockTypes
<1>5. b - Tag = FootAt(a, SizeOf(h, a)) /\ a < b
  BY <1>3, <1>4, Numbers
<1>6. b - Tag \in DOMAIN h.foot /\ h.foot[b - Tag].size = SizeOf(h, a)
  BY <1>5, FootIs
<1>7. LeftOf(h, b) = a
  BY <1>3, <1>4, <1>6, Numbers DEF LeftOf
<1> QED BY <1>3, <1>5, <1>6, <1>7

LEMMA TagsReadable ==
  ASSUME NEW h, NEW R, Shape(h, R), NEW b \in BlocksIn(h)
  PROVE  TagsThere(h, b)
BY LeftFound DEF TagsThere, BlocksIn


-----------------------------------------------------------------------------
(***************************************************************************)
(* What the steps of a call do to the shape of the heap                    *)
(***************************************************************************)

(* Two heaps with the same blocks, of the same sizes.                      *)
SameBlocks(g, h) ==
  /\ BlocksIn(g) = BlocksIn(h)
  /\ \A b \in BlocksIn(h) : /\ g.head[b].lo = h.head[b].lo /\ g.head[b].hi = h.head[b].hi
                            /\ SizeOf(g, b) = SizeOf(h, b)

LEMMA SameFound ==
  ASSUME NEW g, NEW h, SameBlocks(g, h), NEW b \in BlocksIn(h)
  PROVE  /\ EndOf(g, b) = EndOf(h, b) /\ (HasLeft(g, b) <=> HasLeft(h, b))
         /\ (HasRight(g, b) <=> HasRight(h, b)) /\ RightOf(g, b) = RightOf(h, b)
<1>1. EndOf(g, b) = EndOf(h, b)
  BY DEF SameBlocks, EndOf
<1> QED BY <1>1 DEF SameBlocks, HasLeft, HasRight, RightOf

LEMMA ShapeSame ==
  ASSUME NEW g, NEW h, NEW R, Shape(h, R), SameBlocks(g, h), HeapTypes(g), Feet(g)
  PROVE  Shape(g, R)
<1>1. BlocksIn(g) = BlocksIn(h) /\ \A b \in BlocksIn(h) : g.head[b].lo = h.head[b].lo
  BY DEF SameBlocks
<1>2. \A b \in BlocksIn(h) : EndOf(g, b) = EndOf(h, b) /\ (HasLeft(g, b) <=> HasLeft(h, b))
  BY SameFound
<1>3. Disjoint(g)
  BY <1>1, <1>2 DEF Shape, Disjoint
<1>4. LeftLinked(g, R)
  BY <1>1, <1>2 DEF Shape, LeftLinked
<1>5. RightLinked(g, R)
  BY <1>1, <1>2 DEF Shape, RightLinked
<1>6. Covered(g, R) /\ Inside(g, R)
  BY <1>1, <1>2 DEF Shape, Covered, Inside
<1> QED BY <1>3, <1>4, <1>5, <1>6 DEF Shape

LEMMA HeadMarked ==
  ASSUME NEW h, h = [head |-> h.head, foot |-> h.foot, free |-> h.free], NEW b, NEW used
  PROVE  [h EXCEPT !.head[b].inuse = used]
           = [head |-> [h.head EXCEPT ![b].inuse = used], foot |-> h.foot, free |-> h.free]
OBVIOUS

LEMMA FootMarked ==
  ASSUME NEW H, NEW F, NEW L, NEW f, NEW used
  PROVE  [[head |-> H, foot |-> F, free |-> L] EXCEPT !.foot[f].inuse = used]
           = [head |-> H, foot |-> [F EXCEPT ![f].inuse = used], free |-> L]
OBVIOUS

LEMMA MarkedTwice ==
  ASSUME NEW h, NEW b, NEW f, NEW used, NEW r, r = [h EXCEPT !.head[b].inuse = used]
  PROVE  [h EXCEPT !.head[b].inuse = used, !.foot[f].inuse = used]
           = [r EXCEPT !.foot[f].inuse = used]
BY Zenon

LEMMA MarkFields ==
  ASSUME NEW h, HeapTypes(h), NEW b, NEW used, NEW g, g = Mark(h, b, used)
  PROVE  /\ g.head = [h.head EXCEPT ![b].inuse = used]
         /\ g.foot = [h.foot EXCEPT ![FootAt(b, SizeOf(h, b))].inuse = used]
         /\ g.free = h.free /\ g = [head |-> g.head, foot |-> g.foot, free |-> g.free]
<1> DEFINE f == FootAt(b, SizeOf(h, b))
           r == [head |-> [h.head EXCEPT ![b].inuse = used], foot |-> h.foot, free |-> h.free]
<1>1. h = [head |-> h.head, foot |-> h.foot, free |-> h.free]
  BY DEF HeapTypes
<1>2. r = [h EXCEPT !.head[b].inuse = used]
  BY <1>1, HeadMarked
<1>3. g = [r EXCEPT !.foot[f].inuse = used]
  <2> HIDE DEF r
  <2>1. g = [h EXCEPT !.head[b].inuse = used, !.foot[f].inuse = used]
    BY DEF Mark
  <2> HIDE DEF f
  <2> QED BY <1>2, <2>1, MarkedTwice
<1>4. g = [head |-> [h.head EXCEPT ![b].inuse = used],
           foot |-> [h.foot EXCEPT ![f].inuse = used], free |-> h.free]
  <2> HIDE DEF f
  <2> QED BY <1>3, FootMarked
<1> QED BY <1>4

LEMMA Marked ==
  ASSUME NEW h, NEW R, Shape(h, R), NEW b \in BlocksIn(h), NEW used \in BOOLEAN
  PROVE  LET g == Mark(h, b, used)
         IN /\ Shape(g, R) /\ SameBlocks(g, h) /\ g.free = h.free
            /\ InUse(g, b) = used
            /\ \A c \in BlocksIn(h) \ {b} : InUse(g, c) = InUse(h, c)
<1> DEFINE g == Mark(h, b, used)
           f == FootAt(b, SizeOf(h, b))
<1>1. HeapTypes(h) /\ Feet(h) /\ Disjoint(h) /\ RunTypes(R)
  BY DEF Shape
<1>3. /\ g.head = [h.head EXCEPT ![b].inuse = used] /\ g.foot = [h.foot EXCEPT ![f].inuse = used]
      /\ g.free = h.free
      /\ g = [head |-> g.head, foot |-> g.foot, free |-> g.free]
  BY <1>1, MarkFields
<1> HIDE DEF g
<1>4. f \in DOMAIN h.foot /\ h.foot \in [DOMAIN h.foot -> TagType]
  BY <1>1, FootIs DEF HeapTypes
<1>5. SameBlocks(g, h) /\ InUse(g, b) = used
      /\ \A c \in BlocksIn(h) \ {b} : InUse(g, c) = InUse(h, c)
  <2>1. DOMAIN g.head = DOMAIN h.head /\ \A c \in BlocksIn(h) \ {b} : g.head[c] = h.head[c]
    BY <1>1, <1>3 DEF HeapTypes, BlocksIn
  <2>2. g.head[b] = [h.head[b] EXCEPT !.inuse = used]
    BY <1>1, <1>3 DEF HeapTypes, BlocksIn
  <2>3. h.head[b] \in [lo : 0..Top, hi : 0..Top, size : Nat \ {0}, inuse : BOOLEAN]
    BY <1>1 DEF HeapTypes, BlocksIn
  <2>4. /\ g.head[b].lo = h.head[b].lo /\ g.head[b].hi = h.head[b].hi
        /\ g.head[b].size = h.head[b].size /\ g.head[b].inuse = used
    BY <2>2, <2>3
  <2> QED BY <2>1, <2>4 DEF SameBlocks, BlocksIn, SizeOf, InUse
<1>6. HeapTypes(g)
  <2>1. g.head \in [BlocksIn(g) -> [lo : 0..Top, hi : 0..Top, size : Nat \ {0}, inuse : BOOLEAN]]
    <3>1. DOMAIN g.head = BlocksIn(h) /\ \A c \in BlocksIn(h) \ {b} : g.head[c] = h.head[c]
      BY <1>1, <1>3 DEF HeapTypes, BlocksIn
    <3>2. h.head \in [BlocksIn(h) -> [lo : 0..Top, hi : 0..Top, size : Nat \ {0}, inuse : BOOLEAN]]
      BY <1>1 DEF HeapTypes
    <3>3. g.head[b] \in [lo : 0..Top, hi : 0..Top, size : Nat \ {0}, inuse : BOOLEAN]
      BY <1>3, <3>2 DEF BlocksIn
    <3>4. g.head = [c \in BlocksIn(h) |-> g.head[c]]
      BY <1>3 DEF BlocksIn
    <3> QED BY <3>1, <3>2, <3>3, <3>4 DEF BlocksIn
  <2>2. g.foot \in [DOMAIN g.foot -> TagType]
    BY <1>3, <1>4 DEF TagType
  <2> QED BY <1>1, <1>3, <1>5, <2>1, <2>2 DEF HeapTypes, SameBlocks
<1>7. Feet(g)
  <2>1. DOMAIN g.foot = DOMAIN h.foot
    BY <1>3
  <2>2. \A c \in BlocksIn(h) : FootAt(c, SizeOf(g, c)) = FootAt(c, SizeOf(h, c))
    BY <1>5 DEF SameBlocks
  <2>3. DOMAIN g.foot = {FootAt(c, SizeOf(g, c)) : c \in BlocksIn(g)}
    BY <1>1, <1>5, <2>1, <2>2 DEF Feet, SameBlocks
  <2>4. g.foot[f] = [size |-> SizeOf(g, b), inuse |-> InUse(g, b)]
    <3>1. h.foot[f] = [size |-> SizeOf(h, b), inuse |-> InUse(h, b)]
      BY <1>1, Zenon DEF Feet
    <3>2. g.foot[f] = [h.foot[f] EXCEPT !.inuse = used]
      BY <1>3, <1>4
    <3> QED BY <1>5, <3>1, <3>2 DEF SameBlocks
  <2>5. ASSUME NEW c \in BlocksIn(h), c # b
        PROVE  g.foot[FootAt(c, SizeOf(h, c))] = [size |-> SizeOf(h, c), inuse |-> InUse(h, c)]
    <3>1. FootAt(c, SizeOf(h, c)) # f /\ FootAt(c, SizeOf(h, c)) \in DOMAIN h.foot
      BY <1>1, <2>5, Apart, FootIs
    <3>2. g.foot[FootAt(c, SizeOf(h, c))] = h.foot[FootAt(c, SizeOf(h, c))]
      BY <1>3, <3>1
    <3> QED BY <1>1, <3>2, Zenon DEF Feet
  <2> QED BY <1>5, <2>3, <2>4, <2>5 DEF Feet, SameBlocks
<1>8. Shape(g, R)
  BY <1>5, <1>6, <1>7, ShapeSame
<1> QED BY <1>3, <1>5, <1>8 DEF g


(* Where Cut puts the remainder, and how large it is.                      *)
CutAt(b, n) == FootAt(b, n) + Tag

HeadTypes == [lo : 0..Top, hi : 0..Top, size : Nat \ {0}, inuse : BOOLEAN]

LEMMA CutNumbers ==
  ASSUME NEW h, HeapTypes(h), NEW b \in BlocksIn(h), NEW n \in Nat \ {0},
         NEW c, c = CutAt(b, n), NEW rem, rem = Remainder(SizeOf(h, b), n), rem > 0
  PROVE  /\ b \in Nat /\ c \in Nat /\ rem \in Nat \ {0} /\ c = b + Header + n + Tag
         /\ SizeOf(h, b) = rem + Header + Tag + n
         /\ EndOf(h, b) \in Nat /\ b < c /\ c < EndOf(h, b)
         /\ c + Header + rem + Tag = EndOf(h, b)
         /\ FootAt(c, rem) = FootAt(b, SizeOf(h, b))
         /\ FootAt(b, n) # FootAt(b, SizeOf(h, b))
<1>1. /\ b \in Nat /\ SizeOf(h, b) \in Nat
      /\ EndOf(h, b) = b + Header + SizeOf(h, b) + Tag
      /\ FootAt(b, SizeOf(h, b)) = b + Header + SizeOf(h, b)
  BY BlockTypes
<1>2. FootAt(b, n) = b + Header + n /\ FootAt(c, rem) = c + Header + rem
  BY DEF FootAt
<1>3. c = b + Header + n + Tag /\ rem = SizeOf(h, b) - (Header + Tag) - n
  BY <1>2, Numbers DEF CutAt, Remainder
<1> QED BY <1>1, <1>2, <1>3, Numbers

(* b was cut: it has size n now, the remainder is the block c.             *)
CutHeads(g, h, b, n, c, rem) ==
  /\ c \notin BlocksIn(h) /\ BlocksIn(g) = BlocksIn(h) \cup {c}
  /\ g.free = Append(h.free, c) /\ HeapTypes(g)
  /\ \A d \in BlocksIn(h) \ {b} : g.head[d] = h.head[d]
  /\ g.head[b].lo = h.head[b].lo /\ g.head[b].hi = h.head[b].hi
  /\ SizeOf(g, b) = n /\ InUse(g, b) = InUse(h, b)
  /\ g.head[c].lo = h.head[b].lo /\ g.head[c].hi = h.head[b].hi
  /\ SizeOf(g, c) = rem /\ InUse(g, c) = FALSE

LEMMA CutHead ==
  ASSUME NEW h, NEW R, Shape(h, R), NEW b \in BlocksIn(h), NEW n \in Nat \ {0},
         NEW g, g = Cut(h, b, n), NEW c, c = CutAt(b, n),
         NEW rem, rem = Remainder(SizeOf(h, b), n), rem > 0
  PROVE  CutHeads(g, h, b, n, c, rem)
<1> DEFINE rest == [h.head[b] EXCEPT !.size = rem, !.inuse = FALSE]
           H == [h.head EXCEPT ![b].size = n]
           far == [size |-> rem, inuse |-> FALSE]
           near == [size |-> n, inuse |-> InUse(h, b)]
<1>1. HeapTypes(h) /\ Disjoint(h) /\ DOMAIN h.head = BlocksIn(h) /\ h.head \in [BlocksIn(h) -> HeadTypes]
      /\ h.free \in Seq(Nat) /\ h.foot \in [DOMAIN h.foot -> TagType]
  BY DEF Shape, BlocksIn, HeapTypes, HeadTypes
<1>2. b \in Nat /\ c \in Nat /\ rem \in Nat \ {0} /\ b < c /\ c < EndOf(h, b) /\ EndOf(h, b) \in Nat
  BY <1>1, CutNumbers
<1>3. c \notin BlocksIn(h)
  BY <1>1, <1>2 DEF Disjoint
<1>4. g = [head |-> With(H, c, rest),
           foot |-> With(With(h.foot, FootAt(c, rem), far), FootAt(b, n), near),
           free |-> Append(h.free, c)]
  BY Zenon DEF Cut, CutAt
<1>5. h.head[b] \in HeadTypes
  BY <1>1
<1>6. /\ rest.lo = h.head[b].lo /\ rest.hi = h.head[b].hi
      /\ rest.size = rem /\ rest.inuse = FALSE /\ rest \in HeadTypes
  BY <1>2, <1>5 DEF HeadTypes
<1>7. /\ H[b].lo = h.head[b].lo /\ H[b].hi = h.head[b].hi
      /\ H[b].size = n /\ H[b].inuse = h.head[b].inuse /\ H[b] \in HeadTypes
  <2>1. H[b] = [h.head[b] EXCEPT !.size = n]
    BY <1>1
  <2> HIDE DEF H
  <2> QED BY <1>5, <2>1 DEF HeadTypes
<1>8. DOMAIN H = BlocksIn(h) /\ \A d \in BlocksIn(h) \ {b} : H[d] = h.head[d]
  BY <1>1
<1>9. H \in [BlocksIn(h) -> HeadTypes]
  <2>1. H = [d \in BlocksIn(h) |-> H[d]]
    BY <1>1
  <2> HIDE DEF H
  <2> QED BY <1>1, <1>7, <1>8, <2>1
<1>10. near \in TagType /\ far \in TagType
  BY <1>1, <1>2, BlockTypes DEF TagType
<1> HIDE DEF H, rest, near, far
<1>11. BlocksIn(g) = BlocksIn(h) \cup {c} /\ g.free = Append(h.free, c)
  <2>1. g.head = With(H, c, rest)
    BY <1>4
  <2> QED BY <1>4, <1>8, <2>1 DEF BlocksIn, With
<1>12. g.head[c] = rest /\ \A d \in BlocksIn(h) : g.head[d] = H[d]
  <2>1. g.head = With(H, c, rest)
    BY <1>4
  <2> QED BY <1>3, <1>8, <2>1 DEF With
<1>13. HeapTypes(g)
  <2>1. g.head \in [BlocksIn(g) -> HeadTypes]
    <3>1. g.head = With(H, c, rest)
      BY <1>4
    <3> QED BY <1>6, <1>8, <1>9, <1>11, <3>1 DEF With
  <2>2. g.foot \in [DOMAIN g.foot -> TagType]
    <3> DEFINE F == With(h.foot, FootAt(c, rem), far)
    <3>1. F \in [DOMAIN F -> TagType]
      BY <1>1, <1>10 DEF With
    <3>2. g.foot = With(F, FootAt(b, n), near)
      BY <1>4
    <3> HIDE DEF F
    <3> QED BY <1>10, <3>1, <3>2 DEF With
  <2>3. Append(h.free, c) \in Seq(Nat)
    BY <1>1, <1>2
  <2>4. BlocksIn(g) \subseteq Nat
    BY <1>1, <1>2, <1>11 DEF HeapTypes
  <2>5. g = [head |-> g.head, foot |-> g.foot, free |-> g.free]
    BY <1>4
  <2> QED BY <1>11, <2>1, <2>2, <2>3, <2>4, <2>5 DEF HeapTypes, HeadTypes
<1> QED BY <1>3, <1>6, <1>7, <1>8, <1>11, <1>12, <1>13 DEF CutHeads, SizeOf, InUse

CutTags(g, h, b, n, rem) ==
  /\ DOMAIN g.foot = DOMAIN h.foot \cup {FootAt(b, n)}
  /\ g.foot[FootAt(b, n)] = [size |-> n, inuse |-> InUse(h, b)]
  /\ g.foot[FootAt(b, SizeOf(h, b))] = [size |-> rem, inuse |-> FALSE]
  /\ \A z \in DOMAIN h.foot :
       z \notin {FootAt(b, n), FootAt(b, SizeOf(h, b))} => g.foot[z] = h.foot[z]

LEMMA CutFeet ==
  ASSUME NEW h, NEW R, Shape(h, R), NEW b \in BlocksIn(h), NEW n \in Nat \ {0},
         NEW g, g = Cut(h, b, n), NEW rem, rem = Remainder(SizeOf(h, b), n), rem > 0
  PROVE  CutTags(g, h, b, n, rem)
<1> DEFINE c == CutAt(b, n)
           far == [size |-> rem, inuse |-> FALSE]
           near == [size |-> n, inuse |-> InUse(h, b)]
           F == With(h.foot, FootAt(c, rem), far)
<1>1. g.foot = With(F, FootAt(b, n), near)
  BY DEF Cut, CutAt
<1>2. FootAt(c, rem) = FootAt(b, SizeOf(h, b)) /\ FootAt(b, n) # FootAt(b, SizeOf(h, b))
  BY CutNumbers DEF Shape
<1>3. FootAt(b, SizeOf(h, b)) \in DOMAIN h.foot
  BY FootIs DEF Shape
<1> HIDE DEF near, far
<1>5. /\ DOMAIN F = DOMAIN h.foot /\ F[FootAt(b, SizeOf(h, b))] = far
      /\ \A z \in DOMAIN h.foot : z # FootAt(b, SizeOf(h, b)) => F[z] = h.foot[z]
  BY <1>2, <1>3 DEF With
<1> HIDE DEF F
<1>6. /\ DOMAIN g.foot = DOMAIN h.foot \cup {FootAt(b, n)}
      /\ g.foot[FootAt(b, n)] = near /\ g.foot[FootAt(b, SizeOf(h, b))] = far
  BY <1>1, <1>2, <1>3, <1>5 DEF With
<1>7. \A z \in DOMAIN h.foot :
         z \notin {FootAt(b, n), FootAt(b, SizeOf(h, b))} => g.foot[z] = h.foot[z]
  BY <1>1, <1>5 DEF With
<1> QED BY <1>6, <1>7 DEF CutTags, near, far

LEMMA CutShape ==
  ASSUME NEW h, NEW R, Shape(h, R), NEW b \in BlocksIn(h), NEW n \in Nat \ {0},
         NEW g, g = Cut(h, b, n), NEW c, c = CutAt(b, n),
         NEW rem, rem = Remainder(SizeOf(h, b), n), rem > 0
  PROVE  Shape(g, R)
<1>1. HeapTypes(h) /\ Disjoint(h) /\ Feet(h) /\ RunTypes(R)
  BY DEF Shape
<1>0. /\ b \in Nat /\ c \in Nat /\ b < c /\ c < EndOf(h, b)
      /\ FootAt(c, rem) = FootAt(b, SizeOf(h, b)) /\ c = b + Header + n + Tag
      /\ c + Header + rem + Tag = EndOf(h, b)
  BY <1>1, CutNumbers
<1>2. /\ c \notin BlocksIn(h) /\ BlocksIn(g) = BlocksIn(h) \cup {c} /\ HeapTypes(g)
      /\ SizeOf(g, b) = n /\ SizeOf(g, c) = rem /\ InUse(g, c) = FALSE
      /\ \A d \in BlocksIn(h) : InUse(g, d) = InUse(h, d) /\ g.head[d].lo = h.head[d].lo
      /\ \A d \in BlocksIn(h) \ {b} : SizeOf(g, d) = SizeOf(h, d)
      /\ g.head[c].lo = h.head[b].lo
  <2>1. CutHeads(g, h, b, n, c, rem)
    BY CutHead
  <2> QED BY <2>1 DEF CutHeads, InUse, SizeOf
<1>3. /\ EndOf(g, b) = c /\ EndOf(g, c) = EndOf(h, b)
      /\ \A d \in BlocksIn(h) \ {b} : EndOf(g, d) = EndOf(h, d)
  <2>1. EndOf(g, b) = c /\ EndOf(g, c) = EndOf(h, b)
    BY <1>0, <1>2 DEF EndOf, FootAt
  <2> QED BY <1>2, <2>1 DEF EndOf
<1>4. \A d \in BlocksIn(h) : d \in Nat /\ EndOf(h, d) \in Nat /\ d < EndOf(h, d)
  BY <1>1, BlockTypes
<1>6. \A d \in BlocksIn(h) \ {b} : EndOf(h, b) <= d \/ EndOf(h, d) <= b
  BY <1>1, Apart
<1>5. CutTags(g, h, b, n, rem)
  BY CutFeet
<1>7. Disjoint(g)
  <2> SUFFICES ASSUME NEW x \in BlocksIn(g), NEW y \in BlocksIn(g), x < y PROVE EndOf(g, x) <= y
    BY DEF Disjoint
  <2>1. CASE x # c /\ y # c
    <3>1. EndOf(h, x) <= y
      BY <1>1, <1>2, <2>1 DEF Disjoint
    <3>2. CASE x = b
      <4>1. EndOf(g, x) = c /\ EndOf(h, b) <= y /\ y \in Nat /\ EndOf(h, b) \in Nat
        BY <1>2, <1>3, <1>4, <2>1, <3>1, <3>2
      <4> QED BY <1>0, <4>1
    <3>3. CASE x # b
      <4>1. EndOf(g, x) = EndOf(h, x)
        BY <1>2, <1>3, <2>1, <3>3
      <4> QED BY <3>1, <4>1
    <3> QED BY <3>2, <3>3
  <2>2. CASE x = c
    BY <1>2, <1>3, <1>4, <1>0, <1>6, <2>2
  <2>3. CASE y = c
    BY <1>2, <1>3, <1>4, <1>0, <1>6, <2>3
  <2> QED BY <2>1, <2>2, <2>3
<1>8. Feet(g)
  <2>1. \A d \in BlocksIn(h) \ {b} : FootAt(d, SizeOf(g, d)) = FootAt(d, SizeOf(h, d))
    BY <1>2, <1>3
  <2>2. DOMAIN g.foot = {FootAt(d, SizeOf(g, d)) : d \in BlocksIn(g)}
    BY <1>0, <1>1, <1>2, <1>3, <1>5, <2>1 DEF Feet, CutTags
  <2>3. g.foot[FootAt(b, SizeOf(g, b))] = [size |-> SizeOf(g, b), inuse |-> InUse(g, b)]
    <3>1. g.foot[FootAt(b, n)] = [size |-> n, inuse |-> InUse(h, b)]
      BY <1>5 DEF CutTags
    <3> QED BY <1>2, <3>1
  <2>4. g.foot[FootAt(c, SizeOf(g, c))] = [size |-> SizeOf(g, c), inuse |-> InUse(g, c)]
    <3>1. g.foot[FootAt(b, SizeOf(h, b))] = [size |-> rem, inuse |-> FALSE]
      BY <1>5 DEF CutTags
    <3> QED BY <1>0, <1>2, <3>1
  <2>5. ASSUME NEW d \in BlocksIn(h), d # b
        PROVE  g.foot[FootAt(d, SizeOf(g, d))] = [size |-> SizeOf(g, d), inuse |-> InUse(g, d)]
    <3>1. FootAt(d, SizeOf(h, d)) \in DOMAIN h.foot
      BY <1>1, FootIs
    <3>2. FootAt(d, SizeOf(h, d)) # FootAt(b, SizeOf(h, b))
      BY <1>1, <2>5, Apart
    <3>3. FootAt(d, SizeOf(g, d)) # FootAt(b, n)
      <4>1. Disjoint(g) /\ HeapTypes(g) /\ d \in BlocksIn(g) /\ b \in BlocksIn(g)
        BY <1>2, <1>3, <1>7
      <4> QED BY <1>2, <1>3, <2>5, <4>1, Apart
    <3>4. g.foot[FootAt(d, SizeOf(h, d))] = h.foot[FootAt(d, SizeOf(h, d))]
      BY <1>5, <3>1, <3>2, <3>3, <2>1, <2>5 DEF CutTags
    <3>5. h.foot[FootAt(d, SizeOf(h, d))] = [size |-> SizeOf(h, d), inuse |-> InUse(h, d)]
      BY <1>1, Zenon DEF Feet
    <3> QED BY <1>2, <1>3, <2>1, <2>5, <3>4, <3>5
  <2> QED BY <1>2, <1>3, <2>2, <2>3, <2>4, <2>5 DEF Feet
<1>9. LeftLinked(g, R)
  <2> SUFFICES ASSUME NEW x \in BlocksIn(g)
               PROVE  \/ g.head[x].lo = x /\ \E r \in R : r[1] = x
                      \/ HasLeft(g, x) /\ \E a \in BlocksIn(g) : EndOf(g, a) = x
    BY DEF LeftLinked
  <2>1. CASE x = c
    <3>1. h.head[b].lo \in Int /\ h.head[b].lo <= b /\ c = b + Header + n + Tag
      BY <1>0, <1>1, BlockTypes, Numbers DEF Shape, LeftLinked, HasLeft
    <3>2. HasLeft(g, c)
      BY <1>2, <1>3, <1>4, <3>1, Numbers DEF HasLeft
    <3> QED BY <1>2, <1>3, <2>1, <3>2
  <2>2. CASE x # c
    <3>1. x \in BlocksIn(h) /\ g.head[x].lo = h.head[x].lo /\ (HasLeft(g, x) <=> HasLeft(h, x))
      BY <1>2, <1>3, <2>2 DEF HasLeft
    <3>2. (\E a \in BlocksIn(h) : EndOf(h, a) = x) => \E a \in BlocksIn(g) : EndOf(g, a) = x
      BY <1>2, <1>3
    <3> QED BY <3>1, <3>2 DEF Shape, LeftLinked
  <2> QED BY <2>1, <2>2
<1>10. RightLinked(g, R)
  BY <1>2, <1>3 DEF Shape, RightLinked
<1>11. Covered(g, R)
  <2> SUFFICES ASSUME NEW r \in R, NEW a \in r[1]..(r[2] - 1)
               PROVE  \E x \in BlocksIn(g) : x <= a /\ a < EndOf(g, x)
    BY DEF Covered
  <2>1. PICK x \in BlocksIn(h) : x <= a /\ a < EndOf(h, x)
    BY DEF Shape, Covered
  <2>2. CASE x # b
    BY <1>2, <1>3, <2>1, <2>2
  <2>3. CASE x = b /\ a < c
    BY <1>2, <1>3, <2>1, <2>3
  <2>4. CASE x = b /\ ~(a < c)
    <3>1. r[1] \in 0..Top /\ r[2] \in 0..Top
      BY <1>1 DEF RunTypes
    <3>2. a \in Int /\ c <= a
      BY <1>0, <2>4, <3>1
    <3> QED BY <1>2, <1>3, <2>1, <2>4, <3>2
  <2> QED BY <2>2, <2>3, <2>4
<1>12. Inside(g, R)
  <2> SUFFICES ASSUME NEW x \in BlocksIn(g), NEW a \in x..(EndOf(g, x) - 1)
               PROVE  \E r \in R : r[1] <= a /\ a < r[2]
    BY DEF Inside
  <2>1. \E y \in BlocksIn(h) : a \in y..(EndOf(h, y) - 1)
    <3>1. CASE x = c
      <4>1. a \in c..(EndOf(h, b) - 1) /\ EndOf(h, b) \in Nat
        BY <1>3, <1>4, <3>1
      <4>2. a \in b..(EndOf(h, b) - 1)
        BY <1>0, <4>1
      <4> QED BY <4>2
    <3>2. CASE x = b
      BY <1>2, <1>3, <1>4, <1>0, <3>2
    <3>3. CASE x # c /\ x # b
      BY <1>2, <1>3, <3>3
    <3> QED BY <3>1, <3>2, <3>3
  <2> QED BY <2>1 DEF Shape, Inside
<1> QED BY <1>1, <1>2, <1>7, <1>8, <1>9, <1>10, <1>11, <1>12 DEF Shape


(* l and its right neighbour r are one free block, l.                      *)
JoinHeads(g, h, l, r) ==
  /\ BlocksIn(g) = BlocksIn(h) \ {r} /\ g.free = h.free /\ HeapTypes(g)
  /\ \A d \in BlocksIn(h) \ {l, r} : g.head[d] = h.head[d]
  /\ g.head[l].lo = h.head[l].lo /\ g.head[l].hi = h.head[l].hi
  /\ SizeOf(g, l) = JoinedSize(h, l, r) /\ InUse(g, l) = FALSE

JoinTags(g, h, l, r) ==
  /\ DOMAIN g.foot = DOMAIN h.foot \ {FootAt(l, SizeOf(h, l))}
  /\ g.foot[FootAt(r, SizeOf(h, r))] = [size |-> JoinedSize(h, l, r), inuse |-> FALSE]
  /\ \A z \in DOMAIN h.foot :
       z \notin {FootAt(l, SizeOf(h, l)), FootAt(r, SizeOf(h, r))} => g.foot[z] = h.foot[z]

LEMMA JoinFields ==
  ASSUME NEW h, NEW R, Shape(h, R), NEW l \in BlocksIn(h), NEW r \in BlocksIn(h),
         EndOf(h, l) = r, NEW g, g = Join(h, l, r)
  PROVE  JoinHeads(g, h, l, r) /\ JoinTags(g, h, l, r)
<1> DEFINE n == JoinedSize(h, l, r)
           tag == [size |-> n, inuse |-> FALSE]
           fl == FootAt(l, SizeOf(h, l))
           fr == FootAt(r, SizeOf(h, r))
<1>1. HeapTypes(h) /\ Disjoint(h) /\ DOMAIN h.head = BlocksIn(h) /\ h.head \in [BlocksIn(h) -> HeadTypes]
      /\ h.foot \in [DOMAIN h.foot -> TagType] /\ h.free \in Seq(Nat)
  BY DEF Shape, BlocksIn, HeapTypes, HeadTypes
<1>2. /\ l \in Nat /\ r \in Nat /\ l # r /\ n \in Nat \ {0}
      /\ fl \in DOMAIN h.foot /\ fr \in DOMAIN h.foot /\ fl # fr
  <2>1. l \in Nat /\ SizeOf(h, l) \in Nat \ {0} /\ EndOf(h, l) \in Nat /\ l < EndOf(h, l)
    BY <1>1, BlockTypes
  <2>2. r \in Nat /\ SizeOf(h, r) \in Nat \ {0}
    BY <1>1, BlockTypes
  <2>3. l # r
    BY <2>1
  <2>4. n \in Nat \ {0}
    BY <2>1, <2>2, Numbers DEF JoinedSize
  <2>5. fl \in DOMAIN h.foot /\ fr \in DOMAIN h.foot
    BY FootIs DEF Shape
  <2> QED BY <1>1, <2>1, <2>2, <2>3, <2>4, <2>5, Apart
<1>3. g = [head |-> [b \in BlocksIn(h) \ {r} |->
                       IF b = l THEN [h.head[l] EXCEPT !.size = n, !.inuse = FALSE] ELSE h.head[b]],
           foot |-> [a \in DOMAIN h.foot \ {fl} |-> IF a = fr THEN tag ELSE h.foot[a]],
           free |-> h.free]
  BY Zenon DEF Join, BlocksIn
<1>4. tag \in TagType
  BY <1>2 DEF TagType
<1>5. h.head[l] \in HeadTypes
  BY <1>1
<1> HIDE DEF n, tag, fl, fr
<1>6. g.head[l] = [h.head[l] EXCEPT !.size = n, !.inuse = FALSE]
  BY <1>2, <1>3
<1>7. /\ g.head[l].lo = h.head[l].lo /\ g.head[l].hi = h.head[l].hi
      /\ g.head[l].size = n /\ g.head[l].inuse = FALSE /\ g.head[l] \in HeadTypes
  BY <1>2, <1>5, <1>6 DEF HeadTypes
<1>8. BlocksIn(g) = BlocksIn(h) \ {r} /\ \A d \in BlocksIn(h) \ {l, r} : g.head[d] = h.head[d]
  BY <1>3 DEF BlocksIn
<1>9. g.free = h.free /\ g = [head |-> g.head, foot |-> g.foot, free |-> g.free]
  BY <1>3
<1>10. g.foot = [a \in DOMAIN h.foot \ {fl} |-> IF a = fr THEN tag ELSE h.foot[a]]
  BY <1>3
<1>11. HeapTypes(g)
  <2>1. g.head \in [BlocksIn(g) -> HeadTypes]
    <3>1. g.head = [d \in BlocksIn(g) |-> g.head[d]]
      BY <1>3 DEF BlocksIn
    <3>2. \A d \in BlocksIn(g) : g.head[d] \in HeadTypes
      BY <1>1, <1>7, <1>8
    <3> QED BY <3>1, <3>2
  <2>2. g.foot \in [DOMAIN g.foot -> TagType]
    BY <1>1, <1>4, <1>10
  <2> QED BY <1>1, <1>8, <1>9, <2>1, <2>2 DEF HeapTypes, HeadTypes
<1>12. JoinHeads(g, h, l, r)
  BY <1>7, <1>8, <1>9, <1>11 DEF JoinHeads, SizeOf, InUse, n
<1>13. JoinTags(g, h, l, r)
  <2>1. DOMAIN g.foot = DOMAIN h.foot \ {fl} /\ g.foot[fr] = tag
        /\ \A z \in DOMAIN h.foot : z \notin {fl, fr} => g.foot[z] = h.foot[z]
    BY <1>2, <1>10
  <2> QED BY <2>1 DEF JoinTags, n, fl, fr, tag
<1> QED BY <1>12, <1>13

LEMMA JoinShape ==
  ASSUME NEW h, NEW R, Shape(h, R), NEW l \in BlocksIn(h), NEW r \in BlocksIn(h),
         EndOf(h, l) = r, NEW g, g = Join(h, l, r)
  PROVE  Shape(g, R)
<1>1. HeapTypes(h) /\ Disjoint(h) /\ Feet(h) /\ RunTypes(R)
  BY DEF Shape
<1>2. JoinHeads(g, h, l, r) /\ JoinTags(g, h, l, r)
  BY JoinFields
<1>3. /\ BlocksIn(g) = BlocksIn(h) \ {r} /\ HeapTypes(g)
      /\ SizeOf(g, l) = JoinedSize(h, l, r) /\ InUse(g, l) = FALSE
      /\ \A d \in BlocksIn(g) : g.head[d].lo = h.head[d].lo
      /\ \A d \in BlocksIn(g) \ {l} : SizeOf(g, d) = SizeOf(h, d) /\ InUse(g, d) = InUse(h, d)
  BY <1>2 DEF JoinHeads, SizeOf, InUse
<1>4. \A d \in BlocksIn(h) : d \in Nat /\ EndOf(h, d) \in Nat /\ d < EndOf(h, d)
  BY <1>1, BlockTypes
<1>5. l < r /\ l \in BlocksIn(g) /\ r < EndOf(h, r)
  BY <1>3, <1>4
<1>6. EndOf(g, l) = EndOf(h, r) /\ FootAt(l, SizeOf(g, l)) = FootAt(r, SizeOf(h, r))
  <2>1. /\ l \in Nat /\ SizeOf(h, l) \in Nat /\ r = l + Header + SizeOf(h, l) + Tag
        /\ r \in Nat /\ SizeOf(h, r) \in Nat /\ EndOf(h, r) = r + Header + SizeOf(h, r) + Tag
        /\ FootAt(r, SizeOf(h, r)) = r + Header + SizeOf(h, r)
    BY <1>1, BlockTypes
  <2>2. SizeOf(g, l) = SizeOf(h, l) + SizeOf(h, r) + Header + Tag
    BY <1>3, <2>1, Numbers DEF JoinedSize
  <2> QED BY <2>1, <2>2, Numbers DEF EndOf, FootAt
<1>7. \A d \in BlocksIn(g) \ {l} : EndOf(g, d) = EndOf(h, d)
  BY <1>3 DEF EndOf
<1>8. \A d \in BlocksIn(h) \ {l, r} : EndOf(h, d) <= l \/ EndOf(h, r) <= d
  <2> SUFFICES ASSUME NEW d \in BlocksIn(h), d # l, d # r PROVE EndOf(h, d) <= l \/ EndOf(h, r) <= d
    OBVIOUS
  <2>1. EndOf(h, d) <= l \/ EndOf(h, l) <= d
    BY <1>1, Apart
  <2>2. EndOf(h, d) <= r \/ EndOf(h, r) <= d
    BY <1>1, Apart
  <2> QED BY <1>4, <2>1, <2>2
<1>9. Disjoint(g)
  <2> SUFFICES ASSUME NEW x \in BlocksIn(g), NEW y \in BlocksIn(g), x < y PROVE EndOf(g, x) <= y
    BY DEF Disjoint
  <2>1. CASE x = l
    BY <1>3, <1>4, <1>6, <1>8, <2>1
  <2>2. CASE x # l
    BY <1>1, <1>3, <1>7, <2>2 DEF Disjoint
  <2> QED BY <2>1, <2>2
<1>10. Feet(g)
  <2>1. \A d \in BlocksIn(g) \ {l} : FootAt(d, SizeOf(g, d)) = FootAt(d, SizeOf(h, d))
    BY <1>3
  <2>2. \A d \in BlocksIn(h) : d # l => FootAt(d, SizeOf(h, d)) # FootAt(l, SizeOf(h, l))
    BY <1>1, Apart
  <2>3. DOMAIN g.foot = {FootAt(d, SizeOf(g, d)) : d \in BlocksIn(g)}
    <3>1. DOMAIN g.foot = {FootAt(d, SizeOf(h, d)) : d \in BlocksIn(h)} \ {FootAt(l, SizeOf(h, l))}
      BY <1>1, <1>2 DEF Feet, JoinTags
    <3>2. \A z \in DOMAIN g.foot : \E d \in BlocksIn(g) : z = FootAt(d, SizeOf(g, d))
      BY <1>3, <1>5, <1>6, <2>1, <3>1
    <3>3. \A d \in BlocksIn(g) : FootAt(d, SizeOf(g, d)) \in DOMAIN g.foot
      BY <1>3, <1>5, <1>6, <2>1, <2>2, <3>1
    <3> QED BY <3>2, <3>3
  <2>4. g.foot[FootAt(l, SizeOf(g, l))] = [size |-> SizeOf(g, l), inuse |-> InUse(g, l)]
    BY <1>2, <1>3, <1>6 DEF JoinTags
  <2>5. ASSUME NEW d \in BlocksIn(g), d # l
        PROVE  g.foot[FootAt(d, SizeOf(g, d))] = [size |-> SizeOf(g, d), inuse |-> InUse(g, d)]
    <3>1. d \in BlocksIn(h) /\ d # r /\ FootAt(d, SizeOf(h, d)) \in DOMAIN h.foot
      BY <1>1, <1>3, FootIs
    <3>2. FootAt(d, SizeOf(h, d)) # FootAt(r, SizeOf(h, r))
      BY <1>1, <3>1, Apart
    <3>3. g.foot[FootAt(d, SizeOf(h, d))] = h.foot[FootAt(d, SizeOf(h, d))]
      BY <1>2, <2>2, <2>5, <3>1, <3>2 DEF JoinTags
    <3>4. h.foot[FootAt(d, SizeOf(h, d))] = [size |-> SizeOf(h, d), inuse |-> InUse(h, d)]
      BY <1>1, <3>1, Zenon DEF Feet
    <3> QED BY <1>3, <2>1, <2>5, <3>3, <3>4
  <2> QED BY <2>3, <2>4, <2>5 DEF Feet
<1>11. LeftLinked(g, R)
  <2> SUFFICES ASSUME NEW x \in BlocksIn(g)
               PROVE  \/ g.head[x].lo = x /\ \E q \in R : q[1] = x
                      \/ HasLeft(g, x) /\ \E a \in BlocksIn(g) : EndOf(g, a) = x
    BY DEF LeftLinked
  <2>1. x \in BlocksIn(h) /\ g.head[x].lo = h.head[x].lo /\ (HasLeft(g, x) <=> HasLeft(h, x))
    BY <1>3 DEF HasLeft
  <2>2. ASSUME NEW a \in BlocksIn(h), EndOf(h, a) = x PROVE \E e \in BlocksIn(g) : EndOf(g, e) = x
    <3>1. CASE a = r
      BY <1>5, <1>6, <2>2, <3>1
    <3>2. CASE a # r
      <4>1. a # l
        BY <1>3, <2>2
      <4> QED BY <1>3, <1>7, <2>2, <3>2, <4>1
    <3> QED BY <3>1, <3>2
  <2> QED BY <2>1, <2>2 DEF Shape, LeftLinked
<1>12. RightLinked(g, R)
  <2> SUFFICES ASSUME NEW x \in BlocksIn(g) PROVE EndOf(g, x) \in BlocksIn(g) \cup Ends(R)
    BY DEF RightLinked
  <2>1. PICK y \in BlocksIn(h) : EndOf(g, x) = EndOf(h, y) /\ (IF x = l THEN y = r ELSE y = x /\ y # l)
    BY <1>3, <1>6, <1>7
  <2>2. EndOf(h, y) # r
    <3>1. y # l
      BY <1>5, <2>1, <1>4
    <3> QED BY <1>1, <3>1, Apart
  <2> QED BY <1>3, <2>1, <2>2 DEF Shape, RightLinked
<1>13. Covered(g, R)
  <2> SUFFICES ASSUME NEW q \in R, NEW a \in q[1]..(q[2] - 1)
               PROVE  \E x \in BlocksIn(g) : x <= a /\ a < EndOf(g, x)
    BY DEF Covered
  <2>1. PICK x \in BlocksIn(h) : x <= a /\ a < EndOf(h, x)
    BY DEF Shape, Covered
  <2>2. q[1] \in 0..Top /\ q[2] \in 0..Top /\ a \in Int
    BY <1>1 DEF RunTypes
  <2>3. CASE x = l \/ x = r
    <3>1. l <= a /\ a < EndOf(h, r)
      BY <1>4, <1>5, <2>1, <2>2, <2>3
    <3> QED BY <1>5, <1>6, <3>1
  <2>4. CASE x # l /\ x # r
    BY <1>3, <1>7, <2>1, <2>4
  <2> QED BY <2>3, <2>4
<1>14. Inside(g, R)
  <2> SUFFICES ASSUME NEW x \in BlocksIn(g), NEW a \in x..(EndOf(g, x) - 1)
               PROVE  \E q \in R : q[1] <= a /\ a < q[2]
    BY DEF Inside
  <2>1. \E y \in BlocksIn(h) : a \in y..(EndOf(h, y) - 1)
    <3>1. CASE x = l
      <4>1. a \in l..(EndOf(h, r) - 1) /\ l \in Nat /\ r \in Nat /\ EndOf(h, r) \in Nat
        BY <1>4, <1>6, <3>1
      <4>2. a \in l..(r - 1) \/ a \in r..(EndOf(h, r) - 1)
        BY <4>1
      <4> QED BY <4>2
    <3>2. CASE x # l
      BY <1>3, <1>7, <3>2
    <3> QED BY <3>1, <3>2
  <2> QED BY <2>1 DEF Shape, Inside
<1> QED BY <1>1, <1>3, <1>9, <1>10, <1>11, <1>12, <1>13, <1>14 DEF Shape


-----------------------------------------------------------------------------
(***************************************************************************)
(* A heap between two steps of a call: U are the blocks in use, X those    *)
(* that are free and not on the list.                                      *)
(***************************************************************************)
SameSizes(g, h, D) == \A d \in D : SizeOf(g, d) = SizeOf(h, d)
SameRuns(g, h, D)  == \A d \in D : d \in BlocksIn(g) /\ g.head[d].lo = h.head[d].lo

LEMMA RemovedExact ==
  ASSUME NEW h, NEW R, NEW U, NEW X, Exact(h, R, U, X), NEW i \in DOMAIN h.free,
         NEW g, g = [h EXCEPT !.free = RemoveAt(@, i)]
  PROVE  /\ Exact(g, R, U, X \cup {h.free[i]}) /\ g.head = h.head /\ g.foot = h.foot
         /\ SameBlocks(g, h) /\ h.free[i] \in BlocksIn(h) \ (U \cup X)
<1> DEFINE b == h.free[i]
<1>1. Shape(h, R) /\ HeapTypes(h) /\ Feet(h) /\ Once(h)
  BY DEF Exact, Shape
<1>2. h = [head |-> h.head, foot |-> h.foot, free |-> h.free] /\ h.free \in Seq(Nat)
  BY <1>1 DEF HeapTypes
<1>3. g = [head |-> h.head, foot |-> h.foot, free |-> RemoveAt(h.free, i)]
  BY <1>2
<1>4. b \in BlocksIn(h) \ (U \cup X)
  BY DEF Exact, Listed
<1> HIDE DEF b
<1>5. g.free \in Seq(Nat) /\ Once(g) /\ Listed(g) = Listed(h) \ {b}
  <2>1. \A j, k \in DOMAIN h.free : h.free[j] = h.free[k] => j = k
    BY <1>1 DEF Once
  <2>2. LET t == RemoveAt(h.free, i)
        IN /\ t \in Seq(Nat)
           /\ \A j, k \in DOMAIN t : t[j] = t[k] => j = k
           /\ {t[j] : j \in DOMAIN t} = {h.free[j] : j \in DOMAIN h.free} \ {h.free[i]}
    BY <1>2, <2>1, RemovedFromList
  <2>3. Once(g)
    BY <1>3, <2>2 DEF Once
  <2>4. Listed(g) = {h.free[j] : j \in DOMAIN h.free} \ {h.free[i]}
    BY <1>3, <2>2 DEF Listed
  <2> QED BY <1>3, <2>2, <2>3, <2>4 DEF Listed, b
<1>6. g.head = h.head /\ g.foot = h.foot /\ BlocksIn(g) = BlocksIn(h)
  BY <1>3 DEF BlocksIn
<1>7. HeapTypes(g)
  BY <1>1, <1>3, <1>5, <1>6 DEF HeapTypes, BlocksIn
<1>8. SameBlocks(g, h) /\ \A d \in BlocksIn(h) : InUse(g, d) = InUse(h, d)
  BY <1>6 DEF SameBlocks, SizeOf, InUse
<1>9. Feet(g)
  BY <1>1, <1>6 DEF Feet, SizeOf, InUse
<1>10. Shape(g, R)
  BY <1>1, <1>7, <1>8, <1>9, ShapeSame
<1>11. Exact(g, R, U, X \cup {b})
  BY <1>4, <1>5, <1>6, <1>8, <1>10 DEF Exact
<1> QED BY <1>4, <1>6, <1>8, <1>11 DEF b

LEMMA UnlinkExact ==
  ASSUME NEW h, NEW R, NEW U, NEW X, Exact(h, R, U, X), NEW b \in BlocksIn(h) \ (U \cup X),
         NEW g, g = Unlink(h, b)
  PROVE  Exact(g, R, U, X \cup {b}) /\ SameBlocks(g, h) /\ g.head = h.head /\ g.foot = h.foot
<1> DEFINE i == CHOOSE i \in DOMAIN h.free : h.free[i] = b
<1>1. i \in DOMAIN h.free /\ h.free[i] = b
  BY DEF Exact, Listed
<1>2. g = [h EXCEPT !.free = RemoveAt(@, i)]
  <2>1. h = [head |-> h.head, foot |-> h.foot, free |-> h.free]
    BY DEF Exact, Shape, HeapTypes
  <2> QED BY <2>1 DEF Unlink
<1> HIDE DEF i
<1> QED BY <1>1, <1>2, RemovedExact

LEMMA AppendExact ==
  ASSUME NEW h, NEW R, NEW U, NEW X, Exact(h, R, U, X), NEW b \in X,
         NEW g, g = [h EXCEPT !.free = Append(@, b)]
  PROVE  Exact(g, R, U, X \ {b}) /\ SameBlocks(g, h)
<1>1. Shape(h, R) /\ HeapTypes(h) /\ Feet(h) /\ Once(h)
  BY DEF Exact, Shape
<1>2. h = [head |-> h.head, foot |-> h.foot, free |-> h.free] /\ h.free \in Seq(Nat)
  BY <1>1 DEF HeapTypes
<1>3. g = [head |-> h.head, foot |-> h.foot, free |-> Append(h.free, b)]
  BY <1>2
<1>4. b \in BlocksIn(h) /\ b \notin U /\ b \notin Listed(h) /\ b \in Nat
  BY <1>1 DEF Exact, HeapTypes
<1>5. g.free \in Seq(Nat) /\ Once(g) /\ Listed(g) = Listed(h) \cup {b}
  <2>1. \A j, k \in DOMAIN h.free : h.free[j] = h.free[k] => j = k
    BY <1>1 DEF Once
  <2>2. b \notin {h.free[j] : j \in DOMAIN h.free}
    BY <1>4 DEF Listed
  <2>3. LET t == Append(h.free, b)
        IN /\ t \in Seq(Nat)
           /\ \A j, k \in DOMAIN t : t[j] = t[k] => j = k
           /\ {t[j] : j \in DOMAIN t} = {h.free[j] : j \in DOMAIN h.free} \cup {b}
    BY <1>2, <1>4, <2>1, <2>2, AppendedToList
  <2>4. Once(g)
    BY <1>3, <2>3 DEF Once
  <2>5. Listed(g) = {h.free[j] : j \in DOMAIN h.free} \cup {b}
    BY <1>3, <2>3 DEF Listed
  <2> QED BY <1>3, <2>3, <2>4, <2>5 DEF Listed
<1>6. g.head = h.head /\ g.foot = h.foot /\ BlocksIn(g) = BlocksIn(h)
  BY <1>3 DEF BlocksIn
<1>7. HeapTypes(g)
  BY <1>1, <1>3, <1>5, <1>6 DEF HeapTypes, BlocksIn
<1>8. SameBlocks(g, h) /\ \A d \in BlocksIn(h) : InUse(g, d) = InUse(h, d)
  BY <1>6 DEF SameBlocks, SizeOf, InUse
<1>9. Feet(g)
  BY <1>1, <1>6 DEF Feet, SizeOf, InUse
<1>10. Shape(g, R)
  BY <1>1, <1>7, <1>8, <1>9, ShapeSame
<1>11. Exact(g, R, U, X \ {b})
  BY <1>4, <1>5, <1>6, <1>8, <1>10 DEF Exact
<1> QED BY <1>8, <1>11

LEMMA MarkExact ==
  ASSUME NEW h, NEW R, NEW U, NEW X, Exact(h, R, U, X), NEW b \in U \cup X, NEW used \in BOOLEAN,
         NEW g, g = Mark(h, b, used)
  PROVE  /\ SameBlocks(g, h)
         /\ used = TRUE => Exact(g, R, U \cup {b}, X \ {b})
         /\ used = FALSE => Exact(g, R, U \ {b}, X \cup {b})
<1>1. Shape(h, R) /\ b \in BlocksIn(h)
  BY DEF Exact
<1>2. /\ Shape(g, R) /\ SameBlocks(g, h) /\ g.free = h.free /\ InUse(g, b) = used
      /\ \A c \in BlocksIn(h) \ {b} : InUse(g, c) = InUse(h, c)
  BY <1>1, Marked
<1>3. BlocksIn(g) = BlocksIn(h)
  BY <1>2 DEF SameBlocks
<1>4. Once(g) /\ Listed(g) = Listed(h)
  BY <1>2 DEF Exact, Once, Listed
<1>5. ASSUME used = TRUE PROVE Exact(g, R, U \cup {b}, X \ {b})
  <2> DEFINE V == U \cup {b}
             Y == X \ {b}
  <2>1. V \subseteq BlocksIn(g) /\ Y \subseteq BlocksIn(g) /\ V \cap Y = {}
    BY <1>1, <1>3 DEF Exact
  <2>2. \A d \in BlocksIn(g) : InUse(g, d) <=> d \in V
    BY <1>2, <1>3, <1>5 DEF Exact
  <2>3. Listed(g) = BlocksIn(g) \ (V \cup Y)
    BY <1>1, <1>3, <1>4 DEF Exact
  <2> QED BY <1>2, <1>4, <2>1, <2>2, <2>3 DEF Exact
<1>6. ASSUME used = FALSE PROVE Exact(g, R, U \ {b}, X \cup {b})
  <2> DEFINE V == U \ {b}
             Y == X \cup {b}
  <2>1. V \subseteq BlocksIn(g) /\ Y \subseteq BlocksIn(g) /\ V \cap Y = {}
    BY <1>1, <1>3 DEF Exact
  <2>2. \A d \in BlocksIn(g) : InUse(g, d) <=> d \in V
    BY <1>2, <1>3, <1>6 DEF Exact
  <2>3. Listed(g) = BlocksIn(g) \ (V \cup Y)
    BY <1>3, <1>4 DEF Exact
  <2> QED BY <1>2, <1>4, <2>1, <2>2, <2>3 DEF Exact
<1> QED BY <1>2, <1>5, <1>6

LEMMA CutExact ==
  ASSUME NEW h, NEW R, NEW U, NEW X, Exact(h, R, U, X), NEW b \in U \cup X, NEW n \in Nat \ {0},
         Remainder(SizeOf(h, b), n) > 0, NEW g, g = Cut(h, b, n)
  PROVE  /\ Exact(g, R, U, X)
         /\ SizeOf(g, b) = n /\ SameSizes(g, h, BlocksIn(h) \ {b})
<1> DEFINE c == CutAt(b, n)
           rem == Remainder(SizeOf(h, b), n)
<1>1. Shape(h, R) /\ b \in BlocksIn(h) /\ HeapTypes(h) /\ Once(h) /\ h.free \in Seq(Nat) /\ rem > 0
  BY DEF Exact, Shape, HeapTypes
<1> HIDE DEF c, rem
<1>2. c = CutAt(b, n) /\ rem = Remainder(SizeOf(h, b), n)
  BY DEF c, rem
<1>3. Shape(g, R) /\ CutHeads(g, h, b, n, c, rem) /\ c \in Nat
  BY <1>1, <1>2, CutShape, CutHead, CutNumbers
<1>4. /\ c \notin BlocksIn(h) /\ BlocksIn(g) = BlocksIn(h) \cup {c} /\ InUse(g, c) = FALSE
      /\ g.free = Append(h.free, c) /\ SizeOf(g, b) = n
      /\ \A d \in BlocksIn(h) \ {b} : SizeOf(g, d) = SizeOf(h, d)
      /\ \A d \in BlocksIn(h) : InUse(g, d) = InUse(h, d)
  BY <1>3 DEF CutHeads, SizeOf, InUse
<1>5. Once(g) /\ Listed(g) = Listed(h) \cup {c}
  <2>1. \A j, k \in DOMAIN h.free : h.free[j] = h.free[k] => j = k
    BY <1>1 DEF Once
  <2>2. c \notin {h.free[j] : j \in DOMAIN h.free}
    BY <1>4 DEF Exact, Listed
  <2>3. LET t == Append(h.free, c)
        IN /\ t \in Seq(Nat)
           /\ \A j, k \in DOMAIN t : t[j] = t[k] => j = k
           /\ {t[j] : j \in DOMAIN t} = {h.free[j] : j \in DOMAIN h.free} \cup {c}
    BY <1>1, <1>3, <2>1, <2>2, AppendedToList
  <2>4. Once(g)
    BY <1>4, <2>3 DEF Once
  <2>5. Listed(g) = {h.free[j] : j \in DOMAIN h.free} \cup {c}
    BY <1>4, <2>3 DEF Listed
  <2> QED BY <2>4, <2>5 DEF Listed
<1>6. Exact(g, R, U, X)
  <2>1. U \subseteq BlocksIn(g) /\ X \subseteq BlocksIn(g) /\ U \cap X = {}
    BY <1>4 DEF Exact
  <2>2. \A d \in BlocksIn(g) : InUse(g, d) <=> d \in U
    BY <1>4 DEF Exact
  <2>3. Listed(g) = BlocksIn(g) \ (U \cup X)
    BY <1>4, <1>5 DEF Exact
  <2> QED BY <1>3, <1>5, <2>1, <2>2, <2>3 DEF Exact
<1> QED BY <1>4, <1>6 DEF SameSizes

LEMMA JoinExact ==
  ASSUME NEW h, NEW R, NEW U, NEW X, Exact(h, R, U, X), NEW l \in U \cup X, NEW r \in X,
         EndOf(h, l) = r, NEW g, g = Join(h, l, r)
  PROVE  /\ Exact(g, R, U \ {l}, (X \ {r}) \cup {l})
         /\ SizeOf(g, l) = JoinedSize(h, l, r) /\ SameSizes(g, h, BlocksIn(h) \ {l, r})
         /\ SameRuns(g, h, BlocksIn(h) \ {r})
<1>1. Shape(h, R) /\ l \in BlocksIn(h) /\ r \in BlocksIn(h) /\ HeapTypes(h)
  BY DEF Exact, Shape
<1>2. l # r
  <2>1. l \in Nat /\ l < EndOf(h, l) /\ EndOf(h, l) \in Nat
    BY <1>1, BlockTypes
  <2> QED BY <2>1
<1>3. Shape(g, R) /\ JoinHeads(g, h, l, r)
  BY <1>1, JoinShape, JoinFields
<1>4. /\ BlocksIn(g) = BlocksIn(h) \ {r} /\ InUse(g, l) = FALSE /\ g.free = h.free
      /\ \A d \in BlocksIn(h) \ {l, r} : SizeOf(g, d) = SizeOf(h, d) /\ InUse(g, d) = InUse(h, d)
      /\ \A d \in BlocksIn(g) : g.head[d].lo = h.head[d].lo
  BY <1>3 DEF JoinHeads, SizeOf, InUse
<1>5. Once(g) /\ Listed(g) = Listed(h)
  BY <1>4 DEF Exact, Once, Listed
<1>6. Exact(g, R, U \ {l}, (X \ {r}) \cup {l})
  <2> DEFINE V == U \ {l}
             Y == (X \ {r}) \cup {l}
  <2>1. V \subseteq BlocksIn(g) /\ Y \subseteq BlocksIn(g) /\ V \cap Y = {}
    BY <1>1, <1>2, <1>4 DEF Exact
  <2>2. \A d \in BlocksIn(g) : InUse(g, d) <=> d \in V
    BY <1>4 DEF Exact
  <2>3. Listed(g) = BlocksIn(g) \ (V \cup Y)
    BY <1>2, <1>4, <1>5 DEF Exact
  <2> QED BY <1>3, <1>5, <2>1, <2>2, <2>3 DEF Exact
<1> QED BY <1>3, <1>4, <1>6 DEF SameRuns, JoinHeads, SameSizes


(***************************************************************************)
(* Splitting, joining, and new runs                                        *)
(***************************************************************************)
LEMMA SplitExact ==
  ASSUME NEW h, NEW R, NEW U, NEW X, Exact(h, R, U, X), NEW b \in U \cup X, NEW n \in Nat \ {0},
         NEW g, g = Split(h, b, n)
  PROVE  /\ Exact(g, R, U \cup {b}, X \ {b})
         /\ SizeOf(g, b) \in {n, SizeOf(h, b)}
         /\ SameSizes(g, h, BlocksIn(h) \ {b})
<1>1. b \in BlocksIn(h)
  BY DEF Exact
<1>2. CASE Remainder(SizeOf(h, b), n) > 0
  <2> DEFINE k == Cut(h, b, n)
  <2>1. Exact(k, R, U, X) /\ SizeOf(k, b) = n /\ SameSizes(k, h, BlocksIn(h) \ {b})
    BY <1>2, CutExact
  <2>2. g = Mark(k, b, TRUE)
    BY <1>2 DEF Split
  <2>3. BlocksIn(h) \subseteq BlocksIn(k)
    <3>1. CutHeads(k, h, b, n, CutAt(b, n), Remainder(SizeOf(h, b), n))
      BY <1>1, <1>2, CutHead DEF Exact
    <3> QED BY <3>1 DEF CutHeads
  <2> HIDE DEF k
  <2>4. SameBlocks(g, k) /\ Exact(g, R, U \cup {b}, X \ {b})
    BY <2>1, <2>2, MarkExact
  <2> QED BY <1>1, <1>2, <2>1, <2>3, <2>4 DEF SameBlocks, SameSizes
<1>3. CASE ~(Remainder(SizeOf(h, b), n) > 0)
  <2>1. g = Mark(h, b, TRUE)
    BY <1>3 DEF Split
  <2>2. SameBlocks(g, h) /\ Exact(g, R, U \cup {b}, X \ {b})
    BY <2>1, MarkExact
  <2> QED BY <1>1, <1>3, <2>2 DEF SameBlocks, SameSizes
<1> QED BY <1>2, <1>3

(* The block on the left stays what it is when something on the right      *)
(* changes.                                                                *)
LEMMA LeftKept ==
  ASSUME NEW g, NEW h, NEW R, Shape(g, R), Shape(h, R),
         NEW b \in BlocksIn(h) \cap BlocksIn(g), g.head[b].lo = h.head[b].lo, HasLeft(h, b),
         LeftOf(h, b) \in BlocksIn(g), SizeOf(g, LeftOf(h, b)) = SizeOf(h, LeftOf(h, b))
  PROVE  HasLeft(g, b) /\ LeftOf(g, b) = LeftOf(h, b)
<1> DEFINE a == LeftOf(h, b)
           e == LeftOf(g, b)
<1>1. HasLeft(g, b)
  BY DEF HasLeft
<1>2. EndOf(h, a) = b
  BY LeftFound
<1>3. EndOf(g, a) = b
  BY <1>2 DEF EndOf
<1>4. e \in BlocksIn(g) /\ EndOf(g, e) = b
  BY <1>1, LeftFound
<1>5. HeapTypes(g) /\ Disjoint(g)
  BY DEF Shape
<1> HIDE DEF a, e
<1>6. a \in BlocksIn(g)
  BY DEF a
<1>7. a = e
  BY <1>3, <1>4, <1>5, <1>6, Apart
<1> QED BY <1>1, <1>7 DEF a, e

(* The two joins of crfree, for a block b that is free and not listed.     *)
LEMMA JoinRightExact ==
  ASSUME NEW h, NEW R, NEW U, NEW b, Exact(h, R, U, {b}), NEW g, g = JoinRight(h, b)
  PROVE  /\ Exact(g, R, U, {b}) /\ SameSizes(g, h, U)
         /\ g.head[b].lo = h.head[b].lo
         /\ HasLeft(h, b) => LeftOf(h, b) \in BlocksIn(g)
                             /\ SizeOf(g, LeftOf(h, b)) = SizeOf(h, LeftOf(h, b))
<1>1. b \in BlocksIn(h) /\ Shape(h, R) /\ HeapTypes(h) /\ U \subseteq BlocksIn(h) /\ b \notin U
  BY DEF Exact, Shape
<1>2. ASSUME HasLeft(h, b)
      PROVE  LeftOf(h, b) \in BlocksIn(h) /\ LeftOf(h, b) # b /\ LeftOf(h, b) # RightOf(h, b)
  <2>1. LeftOf(h, b) \in BlocksIn(h) /\ LeftOf(h, b) < b
    BY <1>1, <1>2, LeftFound
  <2>2. LeftOf(h, b) \in Nat /\ b \in Nat /\ EndOf(h, b) \in Nat /\ b < EndOf(h, b)
    BY <1>1, <2>1, BlockTypes
  <2> QED BY <2>1, <2>2 DEF RightOf
<1>3. CASE FreeRight(h, b)
  <2> DEFINE r == RightOf(h, b)
             k == Unlink(h, r)
  <2>1. r \in BlocksIn(h) /\ ~InUse(h, r) /\ r = EndOf(h, b)
    BY <1>3 DEF FreeRight, BlocksIn, RightOf
  <2>2. r # b
    <3>1. b \in Nat /\ b < EndOf(h, b) /\ EndOf(h, b) \in Nat
      BY <1>1, BlockTypes
    <3> QED BY <2>1, <3>1
  <2>3. r \in BlocksIn(h) \ (U \cup {b})
    BY <2>1, <2>2 DEF Exact
  <2>4. g = Join(k, b, r)
    BY <1>3 DEF JoinRight
  <2> HIDE DEF r
  <2>5. k = Unlink(h, r)
    OBVIOUS
  <2> HIDE DEF k
  <2>6. /\ Exact(k, R, U, {b} \cup {r}) /\ SameBlocks(k, h) /\ k.head = h.head
    BY <2>3, <2>5, UnlinkExact
  <2>7. EndOf(k, b) = r
    BY <1>1, <2>1, <2>6, SameFound
  <2>8. /\ Exact(g, R, U \ {b}, (({b} \cup {r}) \ {r}) \cup {b})
        /\ SameSizes(g, k, BlocksIn(k) \ {b, r})
        /\ SameRuns(g, k, BlocksIn(k) \ {r})
    <3> DEFINE X == {b} \cup {r}
    <3>1. b \in U \cup X /\ r \in X
      OBVIOUS
    <3>2. Exact(k, R, U, X)
      BY <2>6
    <3> HIDE DEF X
    <3>3. /\ Exact(g, R, U \ {b}, (X \ {r}) \cup {b})
          /\ SameSizes(g, k, BlocksIn(k) \ {b, r}) /\ SameRuns(g, k, BlocksIn(k) \ {r})
      BY <2>4, <2>7, <3>1, <3>2, JoinExact
    <3> QED BY <3>3 DEF X
  <2>9. U \ {b} = U /\ (({b} \cup {r}) \ {r}) \cup {b} = {b}
    BY <1>1, <2>2
  <2>10. Exact(g, R, U, {b})
    BY <2>8, <2>9
  <2>11. SameSizes(g, h, BlocksIn(h) \ {b, r})
    BY <2>6, <2>8 DEF SameSizes, SameBlocks
  <2>12. SameSizes(g, h, U)
    BY <1>1, <2>3, <2>11 DEF SameSizes
  <2>13. g.head[b].lo = h.head[b].lo
    BY <1>1, <2>2, <2>6, <2>8 DEF SameRuns, SameBlocks
  <2>14. HasLeft(h, b) => LeftOf(h, b) \in BlocksIn(g)
                             /\ SizeOf(g, LeftOf(h, b)) = SizeOf(h, LeftOf(h, b))
    BY <1>2, <2>6, <2>8, <2>11 DEF SameRuns, SameSizes, SameBlocks, r
  <2> QED BY <2>10, <2>12, <2>13, <2>14
<1>4. CASE ~FreeRight(h, b)
  BY <1>2, <1>4 DEF JoinRight, SameSizes
<1> QED BY <1>3, <1>4

LEMMA JoinLeftExact ==
  ASSUME NEW h, NEW R, NEW U, NEW b, Exact(h, R, U, {b}), NEW g, g = JoinLeft(h, b)
  PROVE  Exact(g, R, U, {Start(h, b)}) /\ SameSizes(g, h, U)
<1>1. b \in BlocksIn(h) /\ Shape(h, R) /\ U \subseteq BlocksIn(h) /\ b \notin U
  BY DEF Exact
<1>2. CASE FreeLeft(h, b)
  <2> DEFINE a == LeftOf(h, b)
             k == Unlink(h, a)
  <2>1. a \in BlocksIn(h) /\ ~InUse(h, a) /\ EndOf(h, a) = b /\ a # b
    <3>1. b \in Nat
      BY <1>1 DEF Shape, HeapTypes
    <3> QED BY <1>1, <1>2, <3>1, LeftFound DEF FreeLeft
  <2>2. g = Join(k, a, b) /\ Start(h, b) = a
    BY <1>2 DEF JoinLeft, Start
  <2> HIDE DEF a
  <2>3. a \in BlocksIn(h) \ (U \cup {b})
    BY <2>1 DEF Exact
  <2>4. k = Unlink(h, a)
    OBVIOUS
  <2> HIDE DEF k
  <2>5. Exact(k, R, U, {b} \cup {a}) /\ SameBlocks(k, h)
    BY <2>3, <2>4, UnlinkExact
  <2>6. EndOf(k, a) = b
    BY <2>1, <2>5, SameFound
  <2>7. /\ Exact(g, R, U \ {a}, (({b} \cup {a}) \ {b}) \cup {a})
        /\ SameSizes(g, k, BlocksIn(k) \ {a, b})
    <3> DEFINE X == {b} \cup {a}
    <3>1. a \in U \cup X /\ b \in X
      OBVIOUS
    <3>2. Exact(k, R, U, X)
      BY <2>5
    <3> HIDE DEF X
    <3>3. /\ Exact(g, R, U \ {a}, (X \ {b}) \cup {a})
          /\ SameSizes(g, k, BlocksIn(k) \ {a, b})
      BY <2>2, <2>6, <3>1, <3>2, JoinExact
    <3> QED BY <3>3 DEF X
  <2>8. U \ {a} = U /\ (({b} \cup {a}) \ {b}) \cup {a} = {a}
    BY <2>3
  <2>9. SameSizes(g, h, U)
    BY <1>1, <2>3, <2>5, <2>7 DEF SameSizes, SameBlocks
  <2> QED BY <2>2, <2>7, <2>8, <2>9
<1>3. CASE ~FreeLeft(h, b)
  BY <1>3 DEF JoinLeft, SameSizes, Start
<1> QED BY <1>2, <1>3

(* crfree.                                                                 *)
LEMMA FreedExact ==
  ASSUME NEW h, NEW R, NEW U, Exact(h, R, U, {}), NEW b \in U, NEW g, g = Freed(h, b)
  PROVE  Exact(g, R, U \ {b}, {}) /\ SameSizes(g, h, U \ {b})
<1> DEFINE k == Mark(h, b, FALSE)
           m == JoinRight(k, b)
           j == JoinLeft(m, b)
           V == U \ {b}
<1>1. b \in BlocksIn(h) /\ Shape(h, R) /\ U \subseteq BlocksIn(h)
  BY DEF Exact
<1>2. SameBlocks(k, h) /\ Exact(k, R, V, {b})
  <2>1. b \in U \cup {}
    OBVIOUS
  <2>2. k = Mark(h, b, FALSE)
    OBVIOUS
  <2> HIDE DEF k
  <2>3. SameBlocks(k, h) /\ Exact(k, R, U \ {b}, {} \cup {b})
    BY <2>1, <2>2, MarkExact
  <2>4. {} \cup {b} = {b}
    OBVIOUS
  <2> QED BY <2>3, <2>4
<1>3. j = Coalesce(h, b) /\ g = [j EXCEPT !.free = Append(@, Start(h, b))]
  BY DEF Coalesce, Freed
<1>4. m = JoinRight(k, b) /\ j = JoinLeft(m, b)
  OBVIOUS
<1> HIDE DEF k, m, j, V
<1>5. /\ Exact(m, R, V, {b}) /\ SameSizes(m, k, V) /\ m.head[b].lo = k.head[b].lo
      /\ HasLeft(k, b) => LeftOf(k, b) \in BlocksIn(m)
                          /\ SizeOf(m, LeftOf(k, b)) = SizeOf(k, LeftOf(k, b))
  BY <1>2, <1>4, JoinRightExact
<1>6. Exact(j, R, V, {Start(m, b)}) /\ SameSizes(j, m, V)
  BY <1>4, <1>5, JoinLeftExact
<1>7. Start(m, b) = Start(h, b)
  <2>1. /\ Shape(h, R) /\ Shape(k, R) /\ Shape(m, R) /\ b \in BlocksIn(k) /\ b \in BlocksIn(m)
        /\ BlocksIn(k) = BlocksIn(h) /\ k.head[b].lo = h.head[b].lo
    BY <1>1, <1>2, <1>5 DEF Exact, SameBlocks
  <2>2. CASE HasLeft(h, b)
    <3> DEFINE a == LeftOf(h, b)
    <3>1. a \in BlocksIn(h) /\ a < b
      BY <1>1, <2>2, LeftFound
    <3> HIDE DEF a
    <3>2. SizeOf(k, a) = SizeOf(h, a) /\ a # b
      <4>1. b \in Nat /\ a \in Nat
        BY <1>1, <3>1 DEF Shape, HeapTypes
      <4> QED BY <1>2, <3>1, <4>1 DEF SameBlocks
    <3>3. HasLeft(k, b) /\ LeftOf(k, b) = a
      BY <1>1, <2>1, <2>2, <3>1, <3>2, LeftKept DEF a
    <3>4. HasLeft(m, b) /\ LeftOf(m, b) = a
      BY <1>5, <2>1, <3>3, LeftKept
    <3>5. InUse(m, a) <=> a \in V
      BY <1>5, <3>3 DEF Exact
    <3>6. InUse(h, a) <=> a \in U
      BY <3>1 DEF Exact
    <3>7. FreeLeft(m, b) <=> FreeLeft(h, b)
      BY <2>2, <3>2, <3>4, <3>5, <3>6 DEF FreeLeft, V, a
    <3> QED BY <3>4, <3>7 DEF Start, a
  <2>3. CASE ~HasLeft(h, b)
    <3>1. ~HasLeft(m, b)
      BY <1>5, <2>1, <2>3 DEF HasLeft
    <3> QED BY <2>3, <3>1 DEF Start, FreeLeft
  <2> QED BY <2>2, <2>3
<1>8. Exact(g, R, V, {Start(h, b)} \ {Start(h, b)}) /\ SameBlocks(g, j)
  <2>1. Exact(j, R, V, {Start(h, b)})
    BY <1>6, <1>7
  <2> QED BY <1>3, <2>1, AppendExact
<1>9. Exact(g, R, V, {})
  <2>1. {Start(h, b)} \ {Start(h, b)} = {}
    OBVIOUS
  <2> QED BY <1>8, <2>1
<1>10. SameSizes(g, h, V)
  <2>1. V \subseteq BlocksIn(h) /\ V \subseteq BlocksIn(j)
    BY <1>1, <1>6 DEF Exact, V
  <2> QED BY <1>2, <1>5, <1>6, <1>8, <2>1 DEF SameSizes, SameBlocks
<1> QED BY <1>9, <1>10 DEF V

(* make_block: a run from a to e becomes one block, in use.                *)
Hole(R, a, e) == \A r \in R : e <= r[1] \/ r[2] <= a

RunHeads(g, h, a, e, size) ==
  /\ BlocksIn(g) = BlocksIn(h) \cup {a} /\ g.free = h.free /\ HeapTypes(g)
  /\ \A d \in BlocksIn(h) \ {a} : g.head[d] = h.head[d]
  /\ g.head[a].lo = a /\ g.head[a].hi = e /\ SizeOf(g, a) = size /\ InUse(g, a) = TRUE

RunTags(g, h, a, size) ==
  /\ DOMAIN g.foot = DOMAIN h.foot \cup {FootAt(a, size)}
  /\ g.foot[FootAt(a, size)] = [size |-> size, inuse |-> TRUE]
  /\ \A z \in DOMAIN h.foot \ {FootAt(a, size)} : g.foot[z] = h.foot[z]

LEMMA RunFields ==
  ASSUME NEW h, HeapTypes(h), NEW a \in 0..Top, NEW e \in 0..Top, NEW size \in Nat \ {0},
         NEW g,
         g = [head |-> With(h.head, a, [lo |-> a, hi |-> e, size |-> size, inuse |-> TRUE]),
              foot |-> With(h.foot, FootAt(a, size), [size |-> size, inuse |-> TRUE]),
              free |-> h.free]
  PROVE  RunHeads(g, h, a, e, size) /\ RunTags(g, h, a, size)
<1> DEFINE new == [lo |-> a, hi |-> e, size |-> size, inuse |-> TRUE]
           tag == [size |-> size, inuse |-> TRUE]
<1>1. /\ DOMAIN h.head = BlocksIn(h) /\ h.head \in [BlocksIn(h) -> HeadTypes]
      /\ h.free \in Seq(Nat) /\ h.foot \in [DOMAIN h.foot -> TagType] /\ BlocksIn(h) \subseteq Nat
  BY DEF BlocksIn, HeapTypes, HeadTypes
<1>2. /\ g.head = With(h.head, a, new) /\ g.foot = With(h.foot, FootAt(a, size), tag)
      /\ g.free = h.free /\ g = [head |-> g.head, foot |-> g.foot, free |-> g.free]
  OBVIOUS
<1>3. /\ new \in HeadTypes /\ tag \in TagType
      /\ new.lo = a /\ new.hi = e /\ new.size = size /\ new.inuse = TRUE
  BY DEF HeadTypes, TagType
<1>4. tag = [size |-> size, inuse |-> TRUE]
  OBVIOUS
<1> HIDE DEF new, tag
<1>5. /\ BlocksIn(g) = BlocksIn(h) \cup {a} /\ g.head[a] = new
      /\ \A d \in BlocksIn(h) \ {a} : g.head[d] = h.head[d]
  BY <1>1, <1>2 DEF BlocksIn, With
<1>6. g.head \in [BlocksIn(g) -> HeadTypes]
  <2>1. g.head = [z \in BlocksIn(g) |-> IF z = a THEN new ELSE h.head[z]]
    BY <1>1, <1>2, <1>5 DEF With
  <2>2. \A d \in BlocksIn(h) : h.head[d] \in HeadTypes
    BY <1>1
  <2>3. new \in HeadTypes
    BY <1>3
  <2>4. \A z \in BlocksIn(g) : g.head[z] \in HeadTypes
    BY <1>5, <2>2, <2>3
  <2> QED BY <2>1, <2>4
<1>7. g.foot \in [DOMAIN g.foot -> TagType]
  BY <1>1, <1>2, <1>3 DEF With
<1>8. HeapTypes(g)
  <2>1. BlocksIn(g) \subseteq Nat
    BY <1>1, <1>5, Numbers
  <2> QED BY <1>1, <1>2, <1>6, <1>7, <2>1 DEF HeapTypes, HeadTypes
<1>9. RunTags(g, h, a, size)
  BY <1>1, <1>2, <1>4 DEF With, RunTags
<1> QED BY <1>2, <1>3, <1>5, <1>8, <1>9 DEF RunHeads, SizeOf, InUse

(* No block reaches into a hole between the runs.                          *)
LEMMA HoleApart ==
  ASSUME NEW h, NEW R, Shape(h, R), NEW a \in 0..Top, NEW e \in 0..Top, a < e, Hole(R, a, e),
         NEW b \in BlocksIn(h)
  PROVE  EndOf(h, b) <= a \/ e <= b
<1>1. b \in Nat /\ EndOf(h, b) \in Nat /\ b < EndOf(h, b)
  BY BlockTypes DEF Shape
<1>2. SUFFICES ASSUME a < EndOf(h, b), b < e PROVE FALSE
  BY <1>1, Numbers
<1> DEFINE x == IF a <= b THEN b ELSE a
<1>3. x \in b..(EndOf(h, b) - 1) /\ x \in Nat /\ a <= x /\ x < e
  BY <1>1, <1>2, Numbers
<1> HIDE DEF x
<1>4. PICK r \in R : r[1] <= x /\ x < r[2]
  BY <1>3 DEF Shape, Inside
<1>5. r[1] \in 0..Top /\ r[2] \in 0..Top
  BY DEF Shape, RunTypes
<1>6. e <= r[1] \/ r[2] <= a
  BY DEF Hole
<1> QED BY <1>3, <1>4, <1>5, <1>6, Numbers

LEMMA RunShape ==
  ASSUME NEW h, NEW R, Shape(h, R), NEW a \in 0..Top, NEW e \in 0..Top, Hole(R, a, e),
         NEW size \in Nat \ {0}, e = a + Metadata + size,
         NEW g, RunHeads(g, h, a, e, size), RunTags(g, h, a, size)
  PROVE  Shape(g, R \cup {<<a, e>>}) /\ a \notin BlocksIn(h)
<1> DEFINE Q == R \cup {<<a, e>>}
<1>1. /\ HeapTypes(h) /\ Disjoint(h) /\ Feet(h) /\ RunTypes(R) /\ HeapTypes(g)
  BY DEF Shape, RunHeads
<1>2. /\ FootAt(a, size) = a + Header + size /\ EndOf(g, a) = e /\ a < e
      /\ FootAt(a, size) \in Nat /\ a < FootAt(a, size) /\ FootAt(a, size) < e
  <2>1. SizeOf(g, a) = size
    BY DEF RunHeads
  <2> QED BY <2>1, Numbers DEF FootAt, EndOf
<1>3. \A d \in BlocksIn(h) : /\ EndOf(h, d) <= a \/ e <= d
                             /\ d \in Nat /\ EndOf(h, d) \in Nat /\ d < EndOf(h, d)
  BY <1>1, <1>2, HoleApart, BlockTypes
<1>4. a \notin BlocksIn(h)
  BY <1>2, <1>3, Numbers
<1>5. /\ BlocksIn(g) = BlocksIn(h) \cup {a} /\ SizeOf(g, a) = size /\ InUse(g, a) = TRUE
      /\ g.head[a].lo = a
      /\ \A d \in BlocksIn(h) : /\ SizeOf(g, d) = SizeOf(h, d) /\ InUse(g, d) = InUse(h, d)
                                /\ g.head[d].lo = h.head[d].lo
  BY <1>4 DEF RunHeads, SizeOf, InUse
<1>6. \A d \in BlocksIn(h) : EndOf(g, d) = EndOf(h, d) /\ (HasLeft(g, d) <=> HasLeft(h, d))
  BY <1>5 DEF EndOf, HasLeft
<1>7. Disjoint(g)
  <2> SUFFICES ASSUME NEW x \in BlocksIn(g), NEW y \in BlocksIn(g), x < y PROVE EndOf(g, x) <= y
    BY DEF Disjoint
  <2>1. CASE x # a /\ y # a
    BY <1>1, <1>5, <1>6, <2>1 DEF Disjoint
  <2>2. CASE x = a
    BY <1>2, <1>3, <1>5, <2>2, Numbers
  <2>3. CASE y = a
    <3>1. x \in Nat
      BY <1>1 DEF HeapTypes
    <3>2. x \in BlocksIn(h)
      BY <1>5, <2>3, <3>1
    <3> QED BY <1>2, <1>3, <1>6, <2>3, <3>1, <3>2, Numbers
  <2> QED BY <2>1, <2>2, <2>3
<1>8. Feet(g)
  <2>1. \A d \in BlocksIn(h) : FootAt(d, SizeOf(g, d)) = FootAt(d, SizeOf(h, d))
    BY <1>5
  <2>2. DOMAIN g.foot = {FootAt(d, SizeOf(g, d)) : d \in BlocksIn(g)}
    BY <1>1, <1>5, <2>1 DEF Feet, RunTags
  <2>3. g.foot[FootAt(a, SizeOf(g, a))] = [size |-> SizeOf(g, a), inuse |-> InUse(g, a)]
    <3>1. g.foot[FootAt(a, size)] = [size |-> size, inuse |-> TRUE]
      BY DEF RunTags
    <3> QED BY <1>5, <3>1
  <2>4. ASSUME NEW d \in BlocksIn(h)
        PROVE  g.foot[FootAt(d, SizeOf(g, d))] = [size |-> SizeOf(g, d), inuse |-> InUse(g, d)]
    <3>1. FootAt(d, SizeOf(h, d)) \in DOMAIN h.foot
      BY <1>1, FootIs
    <3>2. FootAt(d, SizeOf(g, d)) # FootAt(a, size)
      <4>1. d \in BlocksIn(g) /\ a \in BlocksIn(g) /\ d # a
        BY <1>4, <1>5
      <4> QED BY <1>1, <1>5, <1>7, <4>1, Apart
    <3>3. g.foot[FootAt(d, SizeOf(h, d))] = h.foot[FootAt(d, SizeOf(h, d))]
      BY <2>1, <3>1, <3>2 DEF RunTags
    <3>4. h.foot[FootAt(d, SizeOf(h, d))] = [size |-> SizeOf(h, d), inuse |-> InUse(h, d)]
      BY <1>1, Zenon DEF Feet
    <3> QED BY <1>5, <3>3, <3>4
  <2> QED BY <1>5, <2>2, <2>3, <2>4 DEF Feet
<1>9. LeftLinked(g, Q)
  <2> SUFFICES ASSUME NEW x \in BlocksIn(g)
               PROVE  \/ g.head[x].lo = x /\ \E r \in Q : r[1] = x
                      \/ HasLeft(g, x) /\ \E d \in BlocksIn(g) : EndOf(g, d) = x
    BY DEF LeftLinked
  <2>1. CASE x = a
    <3>1. <<a, e>> \in Q /\ <<a, e>>[1] = a
      OBVIOUS
    <3> QED BY <1>5, <2>1, <3>1
  <2>2. CASE x # a
    <3>1. x \in BlocksIn(h) /\ g.head[x].lo = h.head[x].lo /\ (HasLeft(g, x) <=> HasLeft(h, x))
      BY <1>5, <1>6, <2>2
    <3>2. (\E d \in BlocksIn(h) : EndOf(h, d) = x) => \E d \in BlocksIn(g) : EndOf(g, d) = x
      BY <1>5, <1>6
    <3> QED BY <3>1, <3>2 DEF Shape, LeftLinked
  <2> QED BY <2>1, <2>2
<1>10. RightLinked(g, Q)
  <2>1. e \in Ends(Q)
    <3>1. <<a, e>> \in Q /\ <<a, e>>[2] = e
      OBVIOUS
    <3> QED BY <3>1 DEF Ends
  <2>0. Ends(R) \subseteq Ends(Q)
    BY DEF Ends
  <2> QED BY <1>2, <1>5, <1>6, <2>0, <2>1 DEF Shape, RightLinked
<1>11. Covered(g, Q)
  <2> SUFFICES ASSUME NEW r \in Q, NEW x \in r[1]..(r[2] - 1)
               PROVE  \E d \in BlocksIn(g) : d <= x /\ x < EndOf(g, d)
    BY DEF Covered
  <2>1. CASE r \in R
    BY <1>5, <1>6, <2>1 DEF Shape, Covered
  <2>2. CASE r = <<a, e>>
    <3>1. x \in a..(e - 1)
      BY <2>2
    <3>2. a <= x /\ x < e
      BY <3>1
    <3> QED BY <1>2, <1>5, <3>2
  <2> QED BY <2>1, <2>2
<1>12. Inside(g, Q)
  <2> SUFFICES ASSUME NEW d \in BlocksIn(g), NEW x \in d..(EndOf(g, d) - 1)
               PROVE  \E r \in Q : r[1] <= x /\ x < r[2]
    BY DEF Inside
  <2>1. CASE d # a
    BY <1>5, <1>6, <2>1 DEF Shape, Inside
  <2>2. CASE d = a
    <3>1. x \in a..(e - 1)
      BY <1>2, <2>2
    <3>2. a <= x /\ x < e
      BY <3>1
    <3>3. <<a, e>> \in Q /\ <<a, e>>[1] = a /\ <<a, e>>[2] = e
      OBVIOUS
    <3> QED BY <3>2, <3>3
  <2> QED BY <2>1, <2>2
<1>13. RunTypes(Q)
  BY <1>1 DEF RunTypes
<1> QED BY <1>1, <1>4, <1>7, <1>8, <1>9, <1>10, <1>11, <1>12, <1>13 DEF Shape

LEMMA RunExact ==
  ASSUME NEW h, NEW R, NEW U, Exact(h, R, U, {}), NEW a \in 0..Top, NEW e \in 0..Top, Hole(R, a, e),
         NEW size \in Nat \ {0}, e = a + Metadata + size,
         NEW g,
         g = [head |-> With(h.head, a, [lo |-> a, hi |-> e, size |-> size, inuse |-> TRUE]),
              foot |-> With(h.foot, FootAt(a, size), [size |-> size, inuse |-> TRUE]),
              free |-> h.free]
  PROVE  /\ Exact(g, R \cup {<<a, e>>}, U \cup {a}, {}) /\ a \notin BlocksIn(h)
         /\ SizeOf(g, a) = size /\ SameSizes(g, h, BlocksIn(h))
<1>1. Shape(h, R) /\ HeapTypes(h)
  BY DEF Exact, Shape
<1>2. RunHeads(g, h, a, e, size) /\ RunTags(g, h, a, size)
  BY <1>1, RunFields
<1>3. Shape(g, R \cup {<<a, e>>}) /\ a \notin BlocksIn(h)
  BY <1>1, <1>2, RunShape
<1>4. /\ BlocksIn(g) = BlocksIn(h) \cup {a} /\ SizeOf(g, a) = size /\ InUse(g, a) = TRUE
      /\ g.free = h.free
      /\ \A d \in BlocksIn(h) : SizeOf(g, d) = SizeOf(h, d) /\ InUse(g, d) = InUse(h, d)
  BY <1>2, <1>3 DEF RunHeads, SizeOf, InUse
<1>5. Once(g) /\ Listed(g) = Listed(h)
  BY <1>4 DEF Exact, Once, Listed
<1>6. Exact(g, R \cup {<<a, e>>}, U \cup {a}, {})
  <2> DEFINE V == U \cup {a}
  <2>1. V \subseteq BlocksIn(g) /\ \A d \in BlocksIn(g) : InUse(g, d) <=> d \in V
    BY <1>3, <1>4 DEF Exact
  <2>2. Listed(g) = BlocksIn(g) \ (V \cup {})
    BY <1>3, <1>4, <1>5 DEF Exact
  <2> HIDE DEF V
  <2>3. Exact(g, R \cup {<<a, e>>}, V, {})
    BY <1>3, <1>5, <2>1, <2>2 DEF Exact
  <2> QED BY <2>3 DEF V
<1> QED BY <1>3, <1>4, <1>6 DEF SameSizes

-----------------------------------------------------------------------------
(***************************************************************************)
(* crmalloc: a block of the list, or a new run                             *)
(***************************************************************************)
LEMMA Least ==
  ASSUME NEW T, T \subseteq Nat, T # {}
  PROVE  \E x \in T : \A y \in T : x <= y
<1>1. \E x \in T : \A y \in T : ~(<<y, x>> \in OpToRel(<, Nat))
  BY NatLessThanWellFounded, WFMin
<1>2. \A x, y \in Nat : <<y, x>> \in OpToRel(<, Nat) <=> y < x
  BY DEF OpToRel
<1>3. PICK x \in T : \A y \in T : ~(<<y, x>> \in OpToRel(<, Nat))
  BY <1>1
<1>4. \A y \in T : ~(y < x) /\ y \in Nat /\ x \in Nat
  BY <1>2, <1>3
<1> QED BY <1>4

LEMMA PagesEnough ==
  ASSUME NEW k \in Nat
  PROVE  Pages(k) * PageSize \in Nat /\ k <= Pages(k) * PageSize
<1>1. PageSize \in Nat \ {0}
  BY CrMallocAssumption
<1> DEFINE q == k \div PageSize
           r == k % PageSize
<1>2. q \in Nat /\ r \in 0..(PageSize - 1) /\ k = PageSize * q + r
  BY <1>1
<1>3. Pages(k) = q + (IF r # 0 THEN 1 ELSE 0)
  BY DEF Pages
<1> HIDE DEF q, r
<1>4. (q + 1) * PageSize = PageSize * q + PageSize /\ q * PageSize = PageSize * q
  BY <1>1, <1>2
<1>5. PageSize * q \in Nat
  BY <1>1, <1>2
<1>6. CASE r # 0
  BY <1>1, <1>2, <1>3, <1>4, <1>5, <1>6
<1>7. CASE r = 0
  BY <1>1, <1>2, <1>3, <1>4, <1>5, <1>7
<1> QED BY <1>6, <1>7

(* The block is new to the program, large enough, and its run too.         *)
Allocated(m, U, n) ==
  /\ Exact(m.heap, m.runs, U \cup {m.block}, {}) /\ m.block \notin U
  /\ n <= SizeOf(m.heap, m.block) /\ SameSizes(m.heap, heap, U)

LEMMA ReuseExact ==
  ASSUME NEW U, Exact(heap, runs, U, {}), NEW n \in Nat \ {0}, Fits(n) # {}, NEW m \in Reuse(n)
  PROVE  Allocated(m, U, n)
<1> DEFINE i == CHOOSE i \in Fits(n) : \A j \in Fits(n) : i <= j
           b == heap.free[i]
           h == [heap EXCEPT !.free = RemoveAt(@, i)]
<1>1. i \in Fits(n)
  <2>1. Fits(n) \subseteq Nat
    BY DEF Exact, Shape, HeapTypes, Fits
  <2>2. \E x \in Fits(n) : \A j \in Fits(n) : x <= j
    BY <2>1, Least
  <2> QED BY <2>2
<1>2. m = [block |-> b, runs |-> runs, heap |-> Split(h, b, n)]
  BY DEF Reuse
<1>3. i \in DOMAIN heap.free /\ SizeOf(heap, b) >= n
  BY <1>1 DEF Fits
<1>4. h = [heap EXCEPT !.free = RemoveAt(@, i)] /\ b = heap.free[i]
  OBVIOUS
<1> HIDE DEF h
<1>5. Exact(h, runs, U, {} \cup {b}) /\ SameBlocks(h, heap) /\ b \in BlocksIn(heap) \ (U \cup {})
  <2> HIDE DEF b, i
  <2> QED BY <1>3, <1>4, RemovedExact
<1> HIDE DEF b
<1> DEFINE g == Split(h, b, n)
           X == {} \cup {b}
<1>6. /\ Exact(g, runs, U \cup {b}, X \ {b})
      /\ SizeOf(g, b) \in {n, SizeOf(h, b)}
      /\ SameSizes(g, h, BlocksIn(h) \ {b})
  <2>1. b \in U \cup X /\ g = Split(h, b, n) /\ Exact(h, runs, U, X)
    BY <1>5
  <2> HIDE DEF g, X
  <2> QED BY <2>1, SplitExact
<1>7. Exact(g, runs, U \cup {b}, {})
  <2>1. X \ {b} = {}
    OBVIOUS
  <2> HIDE DEF g, X
  <2> QED BY <1>6, <2>1
<1>8. m.block = b /\ m.runs = runs /\ m.heap = g
  BY <1>2
<1> HIDE DEF g, X
<1>9. n <= SizeOf(g, b)
  <2>1. SizeOf(h, b) = SizeOf(heap, b) /\ SizeOf(heap, b) \in Nat
    BY <1>5, BlockTypes DEF Exact, Shape, SameBlocks
  <2> QED BY <1>3, <1>6, <2>1
<1>10. SameSizes(g, heap, U)
  <2>1. U \subseteq BlocksIn(heap) \ {b} /\ BlocksIn(h) = BlocksIn(heap)
    BY <1>5 DEF Exact, SameBlocks
  <2> QED BY <1>5, <1>6, <2>1 DEF SameSizes, SameBlocks
<1> QED BY <1>5, <1>7, <1>8, <1>9, <1>10 DEF Allocated

LEMMA MakeBlockExact ==
  ASSUME NEW U, Exact(heap, runs, U, {}), NEW n \in Nat \ {0}, NEW m \in MakeBlock(n)
  PROVE  Allocated(m, U, n)
<1> DEFINE len == Pages(n + Metadata) * PageSize
           size == len - Metadata
           h(a) == [head |-> With(heap.head, a, [lo |-> a, hi |-> a + len, size |-> size,
                                                 inuse |-> TRUE]),
                    foot |-> With(heap.foot, FootAt(a, size), [size |-> size, inuse |-> TRUE]),
                    free |-> heap.free]
<1>1. PICK a \in Holes(len) : m = [block |-> a, runs |-> runs \cup {<<a, a + len>>},
                                   heap |-> Split(h(a), a, n + Metadata)]
  BY DEF MakeBlock
<1> DEFINE k == h(a)
           e == a + len
           g == Split(k, a, n + Metadata)
           R == runs \cup {<<a, e>>}
           V == U \cup {a}
<1>2. m.block = a /\ m.runs = R /\ m.heap = g
  BY <1>1
<1>3. len \in Nat /\ n + Metadata \in Nat \ {0} /\ n <= n + Metadata /\ n + Metadata <= len
  BY PagesEnough, Numbers
<1>4. a \in 0..Top /\ e \in 0..Top /\ Hole(runs, a, e)
  BY <1>1, <1>3, Numbers DEF Holes, Space, Hole
<1>5. size \in Nat \ {0} /\ n <= size /\ e = a + Metadata + size
  BY <1>3, <1>4, Numbers
<1>6. k = [head |-> With(heap.head, a, [lo |-> a, hi |-> e, size |-> size, inuse |-> TRUE]),
           foot |-> With(heap.foot, FootAt(a, size), [size |-> size, inuse |-> TRUE]),
           free |-> heap.free]
  OBVIOUS
<1> HIDE DEF len, size, h, k, e
<1>7. /\ Exact(k, runs \cup {<<a, e>>}, U \cup {a}, {}) /\ a \notin BlocksIn(heap)
      /\ SizeOf(k, a) = size /\ SameSizes(k, heap, BlocksIn(heap))
  BY <1>4, <1>5, <1>6, RunExact
<1>8. /\ Exact(g, R, V \cup {a}, {} \ {a}) /\ SameSizes(g, k, BlocksIn(k) \ {a})
      /\ SizeOf(g, a) \in {n + Metadata, SizeOf(k, a)}
  <2>1. Exact(k, R, V, {}) /\ a \in V \cup {}
    BY <1>7
  <2>2. g = Split(k, a, n + Metadata)
    OBVIOUS
  <2> HIDE DEF g, R, V
  <2> QED BY <1>3, <2>1, <2>2, SplitExact
<1>9. Exact(g, R, V, {})
  <2>1. V \cup {a} = V /\ {} \ {a} = {}
    OBVIOUS
  <2> HIDE DEF g, R, V
  <2> QED BY <1>8, <2>1
<1>10. n <= SizeOf(g, a)
  BY <1>3, <1>5, <1>7, <1>8
<1>11. SameSizes(g, heap, U)
  <2>1. U \subseteq BlocksIn(heap) /\ U \subseteq BlocksIn(k) \ {a}
    BY <1>7 DEF Exact
  <2> HIDE DEF g
  <2> QED BY <1>7, <1>8, <2>1 DEF SameSizes
<1>12. a \notin U
  BY <1>7 DEF Exact
<1> HIDE DEF g, R
<1> QED BY <1>2, <1>9, <1>10, <1>11, <1>12 DEF Allocated, V

LEMMA AllocationsExact ==
  ASSUME NEW U, Exact(heap, runs, U, {}), NEW n \in Nat \ {0}, NEW m \in Allocations(n)
  PROVE  Allocated(m, U, n)
BY ReuseExact, MakeBlockExact DEF Allocations

(* A block that takes in the free one on its right.                        *)
Absorbed(h, b, r, n) ==
  [head |-> [c \in DOMAIN h.head \ {r} |->
               IF c = b THEN [h.head[b] EXCEPT !.size = n] ELSE h.head[c]],
   foot |-> [a \in DOMAIN h.foot \ {FootAt(b, SizeOf(h, b))} |->
               IF a = FootAt(r, SizeOf(h, r)) THEN [size |-> n, inuse |-> TRUE] ELSE h.foot[a]],
   free |-> h.free]

LEMMA GrownIsJoined ==
  ASSUME NEW h, NEW R, Shape(h, R), NEW b \in BlocksIn(h), InUse(h, b) = TRUE,
         NEW r \in BlocksIn(h), EndOf(h, b) = r, NEW n, n = JoinedSize(h, b, r),
         NEW g, g = Absorbed(h, b, r, n)
  PROVE  g = Mark(Join(h, b, r), b, TRUE)
<1> DEFINE k == Join(h, b, r)
           j == Mark(k, b, TRUE)
           fb == FootAt(b, SizeOf(h, b))
           fr == FootAt(r, SizeOf(h, r))
           tag == [size |-> n, inuse |-> FALSE]
           used == [size |-> n, inuse |-> TRUE]
<1>1. HeapTypes(h) /\ Disjoint(h) /\ h.head[b] \in HeadTypes /\ h.head[b].inuse = TRUE
  BY DEF Shape, HeapTypes, BlocksIn, HeadTypes, InUse
<1>2. /\ b \in Nat /\ b < EndOf(h, b) /\ EndOf(h, b) = b + Header + SizeOf(h, b) + Tag
      /\ SizeOf(h, b) \in Nat /\ SizeOf(h, r) \in Nat /\ b # r
      /\ fr \in DOMAIN h.foot /\ fr # fb
  <2>1. b \in Nat /\ b < EndOf(h, b) /\ EndOf(h, b) \in Nat
    BY <1>1, BlockTypes
  <2>2. b # r
    BY <2>1
  <2> QED BY <1>1, <2>2, BlockTypes, FootIs, Apart DEF Shape
<1>3. FootAt(b, n) = fr
  BY <1>2, Numbers DEF FootAt, JoinedSize
<1>4. k = [head |-> [d \in BlocksIn(h) \ {r} |->
                       IF d = b THEN [h.head[b] EXCEPT !.size = n, !.inuse = FALSE] ELSE h.head[d]],
           foot |-> [a \in DOMAIN h.foot \ {fb} |-> IF a = fr THEN tag ELSE h.foot[a]],
           free |-> h.free]
  BY Zenon DEF Join, BlocksIn
<1>5. HeapTypes(k) /\ SizeOf(k, b) = n
  <2>1. JoinHeads(k, h, b, r)
    BY JoinFields
  <2> QED BY <2>1 DEF JoinHeads
<1>6. /\ j.head = [k.head EXCEPT ![b].inuse = TRUE] /\ j.foot = [k.foot EXCEPT ![fr].inuse = TRUE]
      /\ j.free = k.free /\ j = [head |-> j.head, foot |-> j.foot, free |-> j.free]
  <2> DEFINE f == FootAt(b, SizeOf(k, b))
             t == TRUE
  <2>1. j = Mark(k, b, t)
    OBVIOUS
  <2>2. f = fr
    BY <1>3, <1>5
  <2> HIDE DEF j, k, t
  <2>3. /\ j.head = [k.head EXCEPT ![b].inuse = t] /\ j.foot = [k.foot EXCEPT ![f].inuse = t]
        /\ j.free = k.free /\ j = [head |-> j.head, foot |-> j.foot, free |-> j.free]
    BY <1>5, <2>1, MarkFields
  <2> HIDE DEF f
  <2> QED BY <2>2, <2>3 DEF t
<1> HIDE DEF j, k
<1>7. [[h.head[b] EXCEPT !.size = n, !.inuse = FALSE] EXCEPT !.inuse = TRUE]
         = [h.head[b] EXCEPT !.size = n]
  BY <1>1 DEF HeadTypes
<1>8. [tag EXCEPT !.inuse = TRUE] = used
  <2> DEFINE e == [tag EXCEPT !.inuse = TRUE]
  <2>1. n \in Nat
    BY <1>2, Numbers DEF JoinedSize
  <2>2. tag \in TagType /\ tag.size = n /\ used \in TagType /\ used.size = n /\ used.inuse = TRUE
    BY <2>1 DEF TagType
  <2> HIDE DEF tag, used
  <2>3. e \in TagType /\ e.size = n /\ e.inuse = TRUE
    BY <2>2 DEF TagType
  <2> HIDE DEF e
  <2>4. e = used
    BY <2>2, <2>3 DEF TagType
  <2> QED BY <2>4 DEF e
<1> HIDE DEF tag, used
<1>9. k.head = [d \in BlocksIn(h) \ {r} |->
                  IF d = b THEN [h.head[b] EXCEPT !.size = n, !.inuse = FALSE] ELSE h.head[d]]
  BY <1>4
<1>10. j.head = g.head
  <2>1. g.head = [c \in BlocksIn(h) \ {r} |->
                    IF c = b THEN [h.head[b] EXCEPT !.size = n] ELSE h.head[c]]
    BY DEF Absorbed, BlocksIn
  <2>2. j.head = [c \in BlocksIn(h) \ {r} |-> IF c = b THEN [k.head[b] EXCEPT !.inuse = TRUE] ELSE k.head[c]]
    BY <1>6, <1>9
  <2>3. k.head[b] = [h.head[b] EXCEPT !.size = n, !.inuse = FALSE]
    BY <1>2, <1>9
  <2>4. [k.head[b] EXCEPT !.inuse = TRUE] = [h.head[b] EXCEPT !.size = n]
    BY <1>7, <2>3
  <2>5. \A c \in BlocksIn(h) \ {b, r} : k.head[c] = h.head[c]
    BY <1>9
  <2> QED BY <2>1, <2>2, <2>4, <2>5
<1>11. k.foot = [a \in DOMAIN h.foot \ {fb} |-> IF a = fr THEN tag ELSE h.foot[a]]
  BY <1>4
<1>12. j.foot = g.foot
  <2>1. g.foot = [a \in DOMAIN h.foot \ {fb} |-> IF a = fr THEN used ELSE h.foot[a]]
    BY DEF Absorbed, used
  <2>2. j.foot = [a \in DOMAIN h.foot \ {fb} |-> IF a = fr THEN [k.foot[fr] EXCEPT !.inuse = TRUE] ELSE k.foot[a]]
    BY <1>6, <1>11
  <2>3. k.foot[fr] = tag
    BY <1>2, <1>11
  <2>4. [k.foot[fr] EXCEPT !.inuse = TRUE] = used
    BY <1>8, <2>3
  <2>5. \A a \in DOMAIN h.foot \ {fb, fr} : k.foot[a] = h.foot[a]
    BY <1>11
  <2>6. j.foot = [a \in DOMAIN h.foot \ {fb} |-> IF a = fr THEN used ELSE k.foot[a]]
    BY <2>2, <2>4
  <2>7. \A a \in DOMAIN h.foot \ {fb} : j.foot[a] = g.foot[a]
    BY <2>1, <2>5, <2>6
  <2> QED BY <2>1, <2>6, <2>7
<1>13. j.free = g.free /\ g = [head |-> g.head, foot |-> g.foot, free |-> g.free]
  BY <1>4, <1>6 DEF Absorbed
<1>14. j = g
  BY <1>6, <1>10, <1>12, <1>13
<1> QED BY <1>14 DEF j, k

-----------------------------------------------------------------------------
(***************************************************************************)
(* The allocations of the program: one comes, one goes, one changes size   *)
(***************************************************************************)
Gained(v, u, b, n) ==
  /\ UserTypes(v) /\ Used(v) = Used(u) \cup {b}
  /\ DOMAIN v = DOMAIN u \cup {Payload(b)} /\ v[Payload(b)] = n
  /\ BlockOf(Payload(b)) = b /\ Payload(b) \notin DOMAIN u
  /\ \A q \in DOMAIN u : v[q] = u[q]

LEMMA OneGained ==
  ASSUME NEW u, UserTypes(u), NEW b \in Nat, b \notin Used(u), NEW n \in Sizes,
         NEW v, v = With(u, Payload(b), n)
  PROVE  Gained(v, u, b, n)
<1> DEFINE p == Payload(b)
<1>1. BlockOf(p) = b /\ p \in Nat
  BY Numbers DEF Payload, BlockOf
<1>2. p \notin DOMAIN u
  BY <1>1 DEF Used
<1> HIDE DEF p
<1>3. v = [z \in {p} \cup DOMAIN u |-> IF z = p THEN n ELSE u[z]]
  BY DEF With, p
<1>4. DOMAIN v = DOMAIN u \cup {p} /\ v[p] = n /\ \A q \in DOMAIN u : v[q] = u[q]
  BY <1>2, <1>3
<1>5. UserTypes(v)
  <2>1. v = [z \in DOMAIN v |-> v[z]]
    BY <1>3
  <2>2. \A z \in DOMAIN v : z \in Nat /\ v[z] \in Sizes
    BY <1>1, <1>4 DEF UserTypes
  <2> QED BY <2>1, <2>2 DEF UserTypes
<1>6. Used(v) = Used(u) \cup {b}
  BY <1>1, <1>4 DEF Used
<1> QED BY <1>1, <1>2, <1>4, <1>5, <1>6 DEF Gained, p

Lost(v, u, p) ==
  /\ UserTypes(v) /\ Used(v) = Used(u) \ {BlockOf(p)}
  /\ DOMAIN v = DOMAIN u \ {p} /\ \A q \in DOMAIN v : v[q] = u[q]

LEMMA OneLost ==
  ASSUME NEW u, UserTypes(u), NEW p \in DOMAIN u, NEW v, v = [q \in DOMAIN u \ {p} |-> u[q]]
  PROVE  Lost(v, u, p)
<1>1. DOMAIN v = DOMAIN u \ {p} /\ \A q \in DOMAIN v : v[q] = u[q]
  OBVIOUS
<1>2. UserTypes(v)
  <2>1. v = [z \in DOMAIN v |-> v[z]]
    OBVIOUS
  <2> QED BY <1>1, <2>1 DEF UserTypes
<1>3. Used(v) = Used(u) \ {BlockOf(p)}
  <2>1. \A q \in DOMAIN u : q \in Nat
    BY DEF UserTypes
  <2>2. \A q \in DOMAIN u : BlockOf(q) = BlockOf(p) => q = p
    BY <2>1, Numbers DEF BlockOf
  <2> QED BY <1>1, <2>2 DEF Used
<1> QED BY <1>1, <1>2, <1>3 DEF Lost

Resized(v, u, p, n) ==
  /\ UserTypes(v) /\ Used(v) = Used(u) /\ DOMAIN v = DOMAIN u /\ v[p] = n
  /\ \A q \in DOMAIN u \ {p} : v[q] = u[q]

LEMMA OneResized ==
  ASSUME NEW u, UserTypes(u), NEW p \in DOMAIN u, NEW n \in Sizes, NEW v, v = [u EXCEPT ![p] = n]
  PROVE  Resized(v, u, p, n)
<1>1. DOMAIN v = DOMAIN u /\ v[p] = n /\ \A q \in DOMAIN u \ {p} : v[q] = u[q]
  OBVIOUS
<1>2. v = [z \in DOMAIN v |-> v[z]]
  OBVIOUS
<1>3. UserTypes(v)
  BY <1>1, <1>2 DEF UserTypes
<1> QED BY <1>1, <1>3 DEF Used, Resized

(* The block of an allocation is in use; two allocations have two blocks.  *)
LEMMA UserBlock ==
  ASSUME NEW h, NEW R, NEW u, Holding(h, R, u), NEW p \in DOMAIN u
  PROVE  /\ BlockOf(p) \in Used(u) /\ BlockOf(p) \in BlocksIn(h) /\ InUse(h, BlockOf(p)) = TRUE
         /\ p \in Nat /\ p = Payload(BlockOf(p)) /\ u[p] \in Nat \ {0}
         /\ u[p] <= SizeOf(h, BlockOf(p)) /\ SizeOf(h, BlockOf(p)) \in Nat
         /\ \A q \in DOMAIN u \ {p} : BlockOf(q) # BlockOf(p)
<1>1. p \in Nat /\ u[p] \in Sizes /\ \A q \in DOMAIN u : q \in Nat
  BY DEF Holding, UserTypes
<1>2. BlockOf(p) \in Used(u)
  BY DEF Used
<1>3. BlockOf(p) \in BlocksIn(h) /\ (InUse(h, BlockOf(p)) <=> BlockOf(p) \in Used(u)) /\ HeapTypes(h)
  BY <1>2 DEF Holding, Exact, Shape
<1>4. SizeOf(h, BlockOf(p)) \in Nat /\ InUse(h, BlockOf(p)) \in BOOLEAN
  BY <1>3, BlockTypes
<1>5. p = Payload(BlockOf(p)) /\ \A q \in DOMAIN u \ {p} : BlockOf(q) # BlockOf(p)
  BY <1>1, Numbers DEF Payload, BlockOf
<1>6. u[p] \in Nat \ {0} /\ u[p] <= SizeOf(h, BlockOf(p))
  BY <1>1, CrMallocAssumption DEF Holding, Roomy
<1> QED BY <1>1, <1>2, <1>3, <1>4, <1>5, <1>6

LEMMA MoreHolding ==
  ASSUME NEW u, Holding(heap, runs, u), NEW n \in Sizes, NEW m \in Allocations(n),
         NEW v, v = With(u, Payload(m.block), n)
  PROVE  /\ Holding(m.heap, m.runs, v) /\ Gained(v, u, m.block, n)
         /\ Allocated(m, Used(u), n) /\ m.block \in Nat
<1> DEFINE b == m.block
           U == Used(u)
<1>1. UserTypes(u) /\ Exact(heap, runs, U, {}) /\ n \in Nat \ {0}
  BY CrMallocAssumption DEF Holding
<1>2. Allocated(m, U, n)
  <2> HIDE DEF U
  <2> QED BY <1>1, AllocationsExact
<1>3. Exact(m.heap, m.runs, U \cup {b}, {}) /\ b \notin U /\ b \in Nat
  BY <1>2 DEF Allocated, Exact, Shape, HeapTypes
<1>4. v = With(u, Payload(b), n)
  OBVIOUS
<1> HIDE DEF b
<1>5. Gained(v, u, b, n)
  BY <1>1, <1>3, <1>4, OneGained
<1>6. Exact(m.heap, m.runs, Used(v), {}) /\ UserTypes(v)
  BY <1>3, <1>5 DEF Gained
<1>7. Roomy(m.heap, v)
  <2> SUFFICES ASSUME NEW q \in DOMAIN v PROVE v[q] <= SizeOf(m.heap, BlockOf(q))
    BY DEF Roomy
  <2>1. CASE q = Payload(b)
    BY <1>2, <1>5, <2>1 DEF Gained, Allocated, b
  <2>2. CASE q # Payload(b)
    <3>1. q \in DOMAIN u /\ v[q] = u[q]
      BY <1>5, <2>2 DEF Gained
    <3>2. BlockOf(q) \in U /\ u[q] <= SizeOf(heap, BlockOf(q))
      BY <3>1, UserBlock
    <3> QED BY <1>2, <3>1, <3>2 DEF Allocated, SameSizes
  <2> QED BY <2>1, <2>2
<1> QED BY <1>2, <1>3, <1>5, <1>6, <1>7 DEF Holding, b

LEMMA LessHolding ==
  ASSUME NEW h, NEW R, NEW u, Holding(h, R, u), NEW p \in DOMAIN u,
         NEW g, g = Freed(h, BlockOf(p)), NEW v, v = [q \in DOMAIN u \ {p} |-> u[q]]
  PROVE  Holding(g, R, v) /\ Lost(v, u, p)
<1> DEFINE b == BlockOf(p)
           U == Used(u)
<1>1. b \in U /\ Exact(h, R, U, {}) /\ g = Freed(h, b)
  BY UserBlock DEF Holding
<1>2. Lost(v, u, p)
  BY OneLost DEF Holding
<1> HIDE DEF b, U
<1>3. Exact(g, R, U \ {b}, {}) /\ SameSizes(g, h, U \ {b})
  BY <1>1, FreedExact
<1>4. Used(v) = U \ {b} /\ UserTypes(v)
  BY <1>2 DEF Lost, U, b
<1>5. Roomy(g, v)
  <2> SUFFICES ASSUME NEW q \in DOMAIN v PROVE v[q] <= SizeOf(g, BlockOf(q))
    BY DEF Roomy
  <2>1. q \in DOMAIN u \ {p} /\ v[q] = u[q]
    BY <1>2 DEF Lost
  <2>2. BlockOf(q) \in U /\ u[q] <= SizeOf(h, BlockOf(q)) /\ BlockOf(q) # b
    BY <2>1, UserBlock DEF U, b
  <2> QED BY <1>3, <2>1, <2>2 DEF SameSizes
<1> QED BY <1>2, <1>3, <1>4, <1>5 DEF Holding

(* Another size for the block b of p, which changes no other block in use. *)
LEMMA ResizedHolding ==
  ASSUME NEW h, NEW R, NEW u, Holding(h, R, u), NEW p \in DOMAIN u, NEW n \in Sizes,
         NEW g, Exact(g, R, Used(u), {}), n <= SizeOf(g, BlockOf(p)),
         SameSizes(g, h, Used(u) \ {BlockOf(p)}), NEW v, v = [u EXCEPT ![p] = n]
  PROVE  Holding(g, R, v) /\ Resized(v, u, p, n)
<1>0. Resized(v, u, p, n)
  BY OneResized DEF Holding
<1>1. /\ UserTypes(v) /\ Used(v) = Used(u) /\ DOMAIN v = DOMAIN u /\ v[p] = n
      /\ \A q \in DOMAIN u \ {p} : v[q] = u[q]
  BY <1>0 DEF Resized
<1>2. Roomy(g, v)
  <2> SUFFICES ASSUME NEW q \in DOMAIN u PROVE v[q] <= SizeOf(g, BlockOf(q))
    BY <1>1 DEF Roomy
  <2>1. CASE q = p
    BY <1>1, <2>1
  <2>2. CASE q # p
    <3>1. BlockOf(q) \in Used(u) \ {BlockOf(p)} /\ u[q] <= SizeOf(h, BlockOf(q))
      BY <2>2, UserBlock
    <3> QED BY <1>1, <2>2, <3>1 DEF SameSizes
  <2> QED BY <2>1, <2>2
<1> QED BY <1>0, <1>1, <1>2 DEF Holding

-----------------------------------------------------------------------------
(***************************************************************************)
(* The steps                                                               *)
(***************************************************************************)
LEMMA MallocHolds ==
  ASSUME Inv, NEW n \in Sizes, Malloc(n)
  PROVE  Inv'
<1>1. PICK m \in Allocations(n) : /\ heap' = m.heap /\ runs' = m.runs
                                  /\ user' = With(user, Payload(m.block), n)
  BY DEF Malloc
<1>2. Holding(m.heap, m.runs, user')
  BY <1>1, MoreHolding DEF Inv
<1> QED BY <1>1, <1>2 DEF Inv, Malloc

LEMMA AbortHolds ==
  ASSUME Inv, Abort
  PROVE  Inv'
BY DEF Inv, Abort

LEMMA FreeHolds ==
  ASSUME Inv, NEW p \in DOMAIN user, Free(p)
  PROVE  /\ Inv' /\ Lost(user', user, p)
<1>1. Holding(heap, runs, user)
  BY DEF Inv
<1>2. TagsThere(heap, BlockOf(p))
  BY <1>1, UserBlock, TagsReadable DEF Holding, Exact
<1>3. /\ heap' = Freed(heap, BlockOf(p)) /\ user' = [q \in DOMAIN user \ {p} |-> user[q]]
      /\ runs' = runs /\ up' = up
  BY <1>2 DEF Free, Forget
<1>4. Holding(heap', runs, user') /\ Lost(user', user, p)
  BY <1>1, <1>3, LessHolding
<1> QED BY <1>3, <1>4 DEF Inv

LEMMA ShrinkHolds ==
  ASSUME Inv, NEW p \in DOMAIN user, NEW n \in Sizes, Shrink(p, n)
  PROVE  /\ Inv' /\ Resized(user', user, p, n)
<1> DEFINE b == BlockOf(p)
           U == Used(user)
<1>1. Holding(heap, runs, user) /\ Exact(heap, runs, U, {}) /\ n \in Nat \ {0}
  BY CrMallocAssumption DEF Inv, Holding
<1>2. /\ heap' = Split(heap, b, n) /\ user' = [user EXCEPT ![p] = n] /\ n <= SizeOf(heap, b)
      /\ runs' = runs /\ up' = up
  BY DEF Shrink
<1>3. b \in U
  BY <1>1, UserBlock
<1> HIDE DEF b
<1>4. /\ Exact(heap', runs, U \cup {b}, {} \ {b}) /\ SizeOf(heap', b) \in {n, SizeOf(heap, b)}
      /\ SameSizes(heap', heap, BlocksIn(heap) \ {b})
  <2> HIDE DEF U
  <2> QED BY <1>1, <1>2, <1>3, SplitExact
<1>5. Exact(heap', runs, U, {})
  <2>1. U \cup {b} = U /\ {} \ {b} = {}
    BY <1>3
  <2> HIDE DEF U
  <2> QED BY <1>4, <2>1
<1>6. SameSizes(heap', heap, U \ {b})
  <2>1. U \subseteq BlocksIn(heap)
    BY <1>1 DEF Exact
  <2> QED BY <1>4, <2>1 DEF SameSizes
<1>7. Holding(heap', runs, user') /\ Resized(user', user, p, n)
  <2>1. n <= SizeOf(heap', b)
    BY <1>1, <1>2, <1>4
  <2> QED BY <1>1, <1>2, <1>5, <1>6, <2>1, ResizedHolding DEF b
<1> QED BY <1>2, <1>7 DEF Inv

(* With equal neighbours, the size of the block on the left is right.      *)
LEMMA GrowInPlaceHolds ==
  ASSUME ~Growing, Inv, NEW p \in DOMAIN user, NEW n \in Sizes, GrowInPlace(p, n)
  PROVE  /\ Inv' /\ Resized(user', user, p, n)
<1> DEFINE b == BlockOf(p)
           U == Used(user)
           r == RightOf(heap, b)
           size == CombinedSize(b)
           h == Unlink(heap, r)
<1>1. /\ Holding(heap, runs, user) /\ Exact(heap, runs, U, {}) /\ n \in Nat \ {0}
      /\ Shape(heap, runs) /\ HeapTypes(heap)
  BY CrMallocAssumption DEF Inv, Holding, Exact, Shape
<1>2. /\ size >= n /\ FreeRight(heap, b) /\ SizeOf(heap, LeftOf(heap, b)) = SizeOf(heap, r)
      /\ user' = [user EXCEPT ![p] = n] /\ runs' = runs /\ up' = up
      /\ heap' = Absorbed(h, b, r, size)
  BY DEF GrowInPlace, Absorbed
<1>3. b \in U /\ b \in BlocksIn(heap) /\ InUse(heap, b) = TRUE
  BY <1>1, UserBlock
<1>4. r \in BlocksIn(heap) /\ r \notin U /\ r # b /\ r = EndOf(heap, b)
  <2>1. r \in BlocksIn(heap) /\ ~InUse(heap, r) /\ r = EndOf(heap, b)
    BY <1>2 DEF FreeRight, BlocksIn, RightOf
  <2>2. r \notin U
    BY <1>1, <2>1 DEF Exact
  <2> QED BY <1>3, <2>1, <2>2
<1>5. size = JoinedSize(heap, b, r)
  <2>1. SizeOf(heap, b) \in Nat /\ SizeOf(heap, r) \in Nat
    BY <1>1, <1>3, <1>4, BlockTypes
  <2> QED BY <1>2, <2>1, Numbers DEF CombinedSize, JoinedSize
<1>6. h = Unlink(heap, r)
  OBVIOUS
<1> HIDE DEF b, r, size, h, U
<1>7. Exact(h, runs, U, {} \cup {r}) /\ SameBlocks(h, heap) /\ h.head = heap.head
  <2>1. r \in BlocksIn(heap) \ (U \cup {})
    BY <1>4
  <2> QED BY <1>1, <1>6, <2>1, UnlinkExact
<1>8. /\ Shape(h, runs) /\ b \in BlocksIn(h) /\ r \in BlocksIn(h) /\ EndOf(h, b) = r
      /\ InUse(h, b) = TRUE /\ size = JoinedSize(h, b, r)
  <2>1. EndOf(h, b) = EndOf(heap, b)
    BY <1>3, <1>7, SameFound
  <2>2. JoinedSize(h, b, r) = JoinedSize(heap, b, r)
    BY <1>3, <1>4, <1>7 DEF SameBlocks, JoinedSize
  <2> QED BY <1>3, <1>4, <1>5, <1>7, <2>1, <2>2 DEF Exact, SameBlocks, InUse
<1> DEFINE k == Join(h, b, r)
           X == {} \cup {r}
<1>9. heap' = Mark(k, b, TRUE)
  BY <1>2, <1>8, GrownIsJoined
<1>10. /\ Exact(k, runs, U \ {b}, (X \ {r}) \cup {b}) /\ SizeOf(k, b) = JoinedSize(h, b, r)
       /\ SameSizes(k, h, BlocksIn(h) \ {b, r})
  <2>1. b \in U \cup X /\ r \in X /\ Exact(h, runs, U, X) /\ k = Join(h, b, r)
    BY <1>3, <1>7
  <2> HIDE DEF k, X
  <2>2. SizeOf(k, b) = JoinedSize(h, b, r)
    BY <1>8, <2>1, JoinFields DEF JoinHeads
  <2>3. Exact(k, runs, U \ {b}, (X \ {r}) \cup {b}) /\ SameSizes(k, h, BlocksIn(h) \ {b, r})
    BY <1>8, <2>1, JoinExact
  <2> QED BY <2>2, <2>3
<1>11. Exact(k, runs, U \ {b}, {b})
  <2>1. (X \ {r}) \cup {b} = {b}
    OBVIOUS
  <2> HIDE DEF k, X
  <2> QED BY <1>10, <2>1
<1> HIDE DEF k, X
<1>12. SameBlocks(heap', k) /\ Exact(heap', runs, U, {})
  <2> DEFINE V == U \ {b}
             Y == {b}
             t == TRUE
  <2>1. b \in V \cup Y /\ Exact(k, runs, V, Y) /\ heap' = Mark(k, b, t) /\ t \in BOOLEAN
    BY <1>9, <1>11
  <2> HIDE DEF V, Y, t
  <2>2. SameBlocks(heap', k) /\ (t = TRUE => Exact(heap', runs, V \cup {b}, Y \ {b}))
    BY <2>1, MarkExact
  <2>3. V \cup {b} = U /\ Y \ {b} = {} /\ t = TRUE
    BY <1>3 DEF V, Y, t
  <2> QED BY <2>2, <2>3
<1>13. SizeOf(heap', b) = size /\ SameSizes(heap', heap, U \ {b})
  <2>1. b \in BlocksIn(k) /\ BlocksIn(heap') = BlocksIn(k) /\ U \ {b} \subseteq BlocksIn(k)
    BY <1>11, <1>12 DEF Exact, SameBlocks
  <2>2. SizeOf(heap', b) = size
    BY <1>8, <1>10, <1>12, <2>1 DEF SameBlocks
  <2>3. U \ {b} \subseteq BlocksIn(h) \ {b, r} /\ U \ {b} \subseteq BlocksIn(heap)
    BY <1>1, <1>4, <1>7 DEF Exact
  <2> QED BY <1>7, <1>10, <1>12, <2>1, <2>2, <2>3 DEF SameSizes, SameBlocks
<1>14. Holding(heap', runs, user') /\ Resized(user', user, p, n)
  <2>1. n <= SizeOf(heap', BlockOf(p))
    <3>1. size \in Nat
      BY <1>5, <1>1, <1>3, <1>4, BlockTypes, Numbers DEF JoinedSize
    <3> QED BY <1>1, <1>2, <1>13, <3>1 DEF b
  <2> QED BY <1>1, <1>2, <1>12, <1>13, <2>1, ResizedHolding DEF b, U
<1> QED BY <1>2, <1>14 DEF Inv

LEMMA GrowMovesHolds ==
  ASSUME Inv, NEW p \in DOMAIN user, NEW n \in Sizes, GrowMoves(p, n)
  PROVE  Inv'
<1> DEFINE b == BlockOf(p)
<1>1. Holding(heap, runs, user)
  BY DEF Inv
<1>2. PICK m \in Allocations(n) : /\ heap' = Freed(m.heap, b) /\ runs' = m.runs
                                  /\ user' = With(Forget(p), Payload(m.block), n)
  BY DEF GrowMoves
<1>3. up' = up
  BY DEF GrowMoves
<1> DEFINE w == With(user, Payload(m.block), n)
<1>4. Holding(m.heap, m.runs, w) /\ Gained(w, user, m.block, n)
  <2>1. w = With(user, Payload(m.block), n)
    OBVIOUS
  <2> HIDE DEF w
  <2> QED BY <1>1, <2>1, MoreHolding
<1>5. p \in DOMAIN w /\ p # Payload(m.block)
  <2> HIDE DEF w
  <2> QED BY <1>4 DEF Gained
<1>6. user' = [q \in DOMAIN w \ {p} |-> w[q]]
  BY <1>2, <1>5 DEF With, Forget
<1> HIDE DEF w
<1>7. Holding(heap', m.runs, user')
  BY <1>2, <1>4, <1>5, <1>6, LessHolding
<1> QED BY <1>2, <1>3, <1>7 DEF Inv

LEMMA InitHolds ==
  ASSUME Init
  PROVE  Inv
<1>1. heap.head = <<>> /\ heap.foot = <<>> /\ heap.free = <<>> /\ runs = {} /\ user = <<>> /\ up = TRUE
      /\ heap = [head |-> heap.head, foot |-> heap.foot, free |-> heap.free]
  BY DEF Init
<1>2. DOMAIN heap.head = {} /\ DOMAIN heap.foot = {} /\ DOMAIN heap.free = {} /\ DOMAIN user = {}
  BY <1>1
<1>3. \A S : <<>> \in [{} -> S]
  OBVIOUS
<1>4. HeapTypes(heap)
  BY <1>1, <1>2, <1>3 DEF HeapTypes, BlocksIn
<1>5. Shape(heap, runs)
  BY <1>1, <1>2, <1>4 DEF Shape, RunTypes, Disjoint, Feet, LeftLinked, RightLinked, Covered,
                          Inside, BlocksIn
<1>6. UserTypes(user) /\ Used(user) = {}
  BY <1>1, <1>2 DEF UserTypes, Used
<1>7. Once(heap) /\ Listed(heap) = {}
  BY <1>2 DEF Once, Listed
<1>8. Exact(heap, runs, Used(user), {})
  BY <1>2, <1>5, <1>6, <1>7 DEF Exact, BlocksIn
<1> QED BY <1>1, <1>2, <1>6, <1>8 DEF Inv, Holding, Roomy

LEMMA StepHolds ==
  ASSUME ~Growing, Inv, [Next]_vars
  PROVE  Inv'
<1>1. CASE UNCHANGED vars
  BY <1>1 DEF vars, Inv
<1>2. CASE \E n \in Sizes : Malloc(n)
  BY <1>2, MallocHolds
<1>3. CASE \E p \in DOMAIN user : Free(p) \/ Fault(p)
  BY <1>3, FreeHolds, AbortHolds DEF Fault
<1>4. ASSUME NEW p \in DOMAIN user, NEW n \in Sizes,
             Shrink(p, n) \/ GrowFails(p, n) \/ GrowInPlace(p, n) \/ GrowMoves(p, n)
      PROVE  Inv'
  <2>1. CASE Shrink(p, n)
    BY <2>1, ShrinkHolds
  <2>2. CASE GrowFails(p, n)
    BY <2>2, AbortHolds DEF GrowFails
  <2>3. CASE GrowInPlace(p, n)
    BY <2>3, GrowInPlaceHolds
  <2>4. CASE GrowMoves(p, n)
    BY <2>4, GrowMovesHolds
  <2> QED BY <1>4, <2>1, <2>2, <2>3, <2>4
<1> QED BY <1>1, <1>2, <1>3, <1>4 DEF Next

(* While no block grows in place between unequal neighbours, the blocks,   *)
(* the tags and the free list of crmalloc.c stay what they should be.      *)
THEOREM InvHolds ==
  ASSUME ~Growing
  PROVE  Spec => []Inv
<1>1. Init => Inv
  BY InitHolds
<1>2. Inv /\ [Next]_vars => Inv'
  BY StepHolds
<1> QED BY <1>1, <1>2, PTL DEF Spec

-----------------------------------------------------------------------------
(***************************************************************************)
(* What follows from the invariant                                         *)
(***************************************************************************)
LEMMA WithinTop ==
  ASSUME NEW h, NEW R, Shape(h, R), NEW b \in BlocksIn(h)
  PROVE  EndOf(h, b) <= Top
<1>1. b \in Nat /\ EndOf(h, b) \in Nat /\ b < EndOf(h, b)
  BY BlockTypes DEF Shape
<1>2. EndOf(h, b) - 1 \in b..(EndOf(h, b) - 1)
  BY <1>1
<1>3. PICK r \in R : r[1] <= EndOf(h, b) - 1 /\ EndOf(h, b) - 1 < r[2]
  BY <1>2 DEF Shape, Inside
<1>4. r[2] \in 0..Top
  BY DEF Shape, RunTypes
<1> QED BY <1>1, <1>3, <1>4, Numbers

LEMMA UserInSpace ==
  ASSUME NEW h, NEW R, NEW u, Holding(h, R, u)
  PROVE  DOMAIN u \subseteq Space
<1> SUFFICES ASSUME NEW p \in DOMAIN u PROVE p \in Space
  OBVIOUS
<1> DEFINE b == BlockOf(p)
<1>1. b \in BlocksIn(h) /\ p \in Nat /\ p = Payload(b)
  BY UserBlock
<1> HIDE DEF b
<1>2. Shape(h, R) /\ HeapTypes(h)
  BY DEF Holding, Exact, Shape
<1>3. EndOf(h, b) <= Top
  BY <1>1, <1>2, WithinTop
<1>4. b \in Nat /\ SizeOf(h, b) \in Nat \ {0} /\ EndOf(h, b) = b + Header + SizeOf(h, b) + Tag
  BY <1>1, <1>2, BlockTypes
<1> QED BY <1>1, <1>3, <1>4, Numbers DEF Space, Payload

LEMMA InvTypes == Inv => TypeOK
<1> SUFFICES ASSUME Inv PROVE TypeOK
  OBVIOUS
<1>1. /\ Holding(heap, runs, user) /\ Shape(heap, runs) /\ HeapTypes(heap) /\ RunTypes(runs)
      /\ Feet(heap) /\ Blocks = BlocksIn(heap) /\ Exact(heap, runs, Used(user), {})
  BY DEF Inv, Holding, Exact, Shape, Blocks, BlocksIn
<1>2. ASSUME NEW b \in Blocks
      PROVE  b \in Space /\ FootAt(b, SizeOf(heap, b)) \in Space
  <2>1. /\ b \in Nat /\ SizeOf(heap, b) \in Nat \ {0} /\ EndOf(heap, b) <= Top
        /\ EndOf(heap, b) = b + Header + SizeOf(heap, b) + Tag
        /\ FootAt(b, SizeOf(heap, b)) = b + Header + SizeOf(heap, b)
    BY <1>1, BlockTypes, WithinTop
  <2> QED BY <2>1, Numbers DEF Space
<1>3. Blocks \subseteq Space /\ DOMAIN heap.foot \subseteq Space
  BY <1>1, <1>2 DEF Feet
<1>4. heap.head \in [Blocks -> HeadType]
  <2>1. heap.head \in [Blocks -> HeadTypes]
    BY <1>1 DEF HeapTypes, HeadTypes
  <2>2. HeadTypes \subseteq HeadType
    BY DEF HeadTypes, HeadType
  <2> QED BY <2>1, <2>2
<1>5. heap.foot \in [DOMAIN heap.foot -> TagType]
  BY <1>1 DEF HeapTypes
<1>6. heap.free \in Seq(Blocks)
  <2>1. heap.free \in Seq(Nat) /\ \A i \in DOMAIN heap.free : heap.free[i] \in Blocks
    BY <1>1 DEF HeapTypes, Exact, Listed
  <2> QED BY <2>1
<1>7. DOMAIN user \subseteq Space
  BY <1>1, UserInSpace
<1>8. user \in [DOMAIN user -> Sizes]
  BY <1>1 DEF Holding, UserTypes
<1>9. runs \subseteq (0..Top) \X (0..Top) /\ up \in BOOLEAN
  BY <1>1 DEF RunTypes, Inv
<1> QED BY <1>3, <1>4, <1>5, <1>6, <1>7, <1>8, <1>9 DEF TypeOK

(* Blocks tile the runs: none overlaps another, no address is lost.        *)
THEOREM TiledHolds ==
  ASSUME ~Growing
  PROVE  Spec => []Tiled
<1>1. Inv => Tiled
  <2> SUFFICES ASSUME Inv PROVE Tiled
    OBVIOUS
  <2>1. Shape(heap, runs) /\ Blocks = BlocksIn(heap)
    BY DEF Inv, Holding, Exact, Blocks, BlocksIn
  <2> QED BY <2>1, InvTypes DEF Tiled, Shape, Disjoint, Covered, Inside
<1> QED BY <1>1, InvHolds, PTL

(* A block says the same at both ends, and no other tag is left behind.    *)
THEOREM TagsAgreeHolds ==
  ASSUME ~Growing
  PROVE  Spec => []TagsAgree
<1>1. Inv => TagsAgree
  BY DEF Inv, Holding, Exact, Shape, Feet, TagsAgree, Blocks, BlocksIn
<1> QED BY <1>1, InvHolds, PTL

(* block_on_left and block_on_right find the neighbours there are.         *)
THEOREM NeighboursFoundHolds ==
  ASSUME ~Growing
  PROVE  Spec => []NeighboursFound
<1>1. Inv => NeighboursFound
  <2> SUFFICES ASSUME Inv, NEW b \in Blocks
               PROVE  /\ HasLeft(heap, b) => LeftOf(heap, b) \in Blocks /\ EndOf(heap, LeftOf(heap, b)) = b
                      /\ ~HasLeft(heap, b) => \E r \in runs : r[1] = b
                      /\ PastEnd(heap, b) => \E r \in runs : r[2] = EndOf(heap, b)
    BY DEF NeighboursFound
  <2>1. Shape(heap, runs) /\ b \in BlocksIn(heap) /\ Blocks = BlocksIn(heap)
    BY DEF Inv, Holding, Exact, Blocks, BlocksIn
  <2>2. HasLeft(heap, b) => LeftOf(heap, b) \in Blocks /\ EndOf(heap, LeftOf(heap, b)) = b
    BY <2>1, LeftFound
  <2>3. ~HasLeft(heap, b) => \E r \in runs : r[1] = b
    BY <2>1 DEF Shape, LeftLinked
  <2>4. PastEnd(heap, b) => \E r \in runs : r[2] = EndOf(heap, b)
    BY <2>1 DEF Shape, RightLinked, Ends, PastEnd, RightOf, BlocksIn
  <2> QED BY <2>2, <2>3, <2>4
<1> QED BY <1>1, InvHolds, PTL

(* The free list is exact, and the blocks in use are the program's.        *)
THEOREM FreeListExactHolds ==
  ASSUME ~Growing
  PROVE  Spec => []FreeListExact
<1>1. Inv => FreeListExact
  <2> SUFFICES ASSUME Inv PROVE FreeListExact
    OBVIOUS
  <2>1. Exact(heap, runs, Used(user), {}) /\ Blocks = BlocksIn(heap) /\ Roomy(heap, user)
    BY DEF Inv, Holding, Blocks, BlocksIn
  <2>2. {b \in Blocks : InUse(heap, b)} = {BlockOf(p) : p \in DOMAIN user}
    <3>1. {b \in Blocks : InUse(heap, b)} = Used(user)
      BY <2>1 DEF Exact
    <3> QED BY <3>1 DEF Used
  <2>3. \A b \in Blocks : InUse(heap, b) <=> \A i \in DOMAIN heap.free : heap.free[i] # b
    BY <2>1 DEF Exact, Listed
  <2>4. \A i \in DOMAIN heap.free : heap.free[i] \in Blocks
    BY <2>1 DEF Exact, Listed
  <2> QED BY <2>1, <2>2, <2>3, <2>4 DEF FreeListExact, Roomy, Exact, Once
<1> QED BY <1>1, InvHolds, PTL

-----------------------------------------------------------------------------
(***************************************************************************)
(* The program sees an allocator                                           *)
(***************************************************************************)
LEMMA HeldApart ==
  ASSUME NEW h, NEW R, NEW u, Holding(h, R, u), NEW p \in DOMAIN u, NEW q \in DOMAIN u \ {p}
  PROVE  A!Region(p, u[p]) \cap A!Region(q, u[q]) = {}
<1> DEFINE b == BlockOf(p)
           c == BlockOf(q)
<1>1. /\ b \in BlocksIn(h) /\ p \in Nat /\ p = Payload(b) /\ u[p] \in Nat \ {0}
      /\ u[p] <= SizeOf(h, b) /\ c # b
  BY UserBlock
<1>2. /\ c \in BlocksIn(h) /\ q \in Nat /\ q = Payload(c) /\ u[q] \in Nat \ {0}
      /\ u[q] <= SizeOf(h, c)
  BY UserBlock
<1> HIDE DEF b, c
<1>3. HeapTypes(h) /\ Disjoint(h)
  BY DEF Holding, Exact, Shape
<1>4. EndOf(h, b) <= c \/ EndOf(h, c) <= b
  BY <1>1, <1>2, <1>3, Apart
<1>5. /\ b \in Nat /\ SizeOf(h, b) \in Nat /\ EndOf(h, b) = b + Header + SizeOf(h, b) + Tag
      /\ c \in Nat /\ SizeOf(h, c) \in Nat /\ EndOf(h, c) = c + Header + SizeOf(h, c) + Tag
  BY <1>1, <1>2, <1>3, BlockTypes
<1>6. b + Header <= p /\ p + u[p] - 1 < EndOf(h, b) /\ c + Header <= q /\ q + u[q] - 1 < EndOf(h, c)
  BY <1>1, <1>2, <1>5, Numbers DEF Payload
<1> SUFFICES ASSUME NEW x, x \in A!Region(p, u[p]), x \in A!Region(q, u[q]) PROVE FALSE
  OBVIOUS
<1>7. x \in p..(p + u[p] - 1) /\ x \in q..(q + u[q] - 1)
  BY DEF A!Region
<1>8. x \in Int /\ p <= x /\ x <= p + u[p] - 1 /\ q <= x /\ x <= q + u[q] - 1
  BY <1>1, <1>2, <1>7
<1> QED BY <1>1, <1>2, <1>4, <1>5, <1>6, <1>8, Numbers

LEMMA MallocAllocates ==
  ASSUME Inv, NEW n \in Sizes, Malloc(n)
  PROVE  A!Next
<1>1. PICK m \in Allocations(n) : /\ heap' = m.heap /\ runs' = m.runs
                                  /\ user' = With(user, Payload(m.block), n)
  BY DEF Malloc
<1> DEFINE p == Payload(m.block)
<1>2. Holding(m.heap, m.runs, user') /\ Gained(user', user, m.block, n)
  BY <1>1, MoreHolding DEF Inv
<1>3. /\ p \in DOMAIN user' /\ user'[p] = n /\ p \notin DOMAIN user
      /\ \A q \in DOMAIN user : q \in DOMAIN user' /\ user'[q] = user[q]
  BY <1>2 DEF Gained
<1>4. p \in Space
  BY <1>2, <1>3, UserInSpace
<1>5. user' = With(user, p, n)
  BY <1>1
<1> HIDE DEF p
<1>6. A!Apart(p, n, DOMAIN user)
  <2> SUFFICES ASSUME NEW q \in DOMAIN user PROVE A!Region(p, n) \cap A!Region(q, user[q]) = {}
    BY DEF A!Apart
  <2>1. q \in DOMAIN user' \ {p} /\ user'[q] = user[q]
    BY <1>3
  <2> QED BY <1>2, <1>3, <2>1, HeldApart
<1>7. A!Replace({}, p, n)
  BY <1>5 DEF With, A!Replace
<1>8. A!Malloc(p, n)
  BY <1>6, <1>7 DEF A!Malloc
<1> QED BY <1>4, <1>8 DEF A!Next

LEMMA ResizedAllocation ==
  ASSUME NEW h, NEW R, Holding(h, R, user'), NEW p \in DOMAIN user, NEW n \in Sizes,
         Resized(user', user, p, n), user' = [user EXCEPT ![p] = n]
  PROVE  A!Next
<1>1. /\ DOMAIN user' = DOMAIN user /\ user'[p] = n
      /\ \A q \in DOMAIN user \ {p} : user'[q] = user[q]
  BY DEF Resized
<1>2. A!Apart(p, n, DOMAIN user \ {p})
  <2> SUFFICES ASSUME NEW q \in DOMAIN user \ {p} PROVE A!Region(p, n) \cap A!Region(q, user[q]) = {}
    BY DEF A!Apart
  <2> QED BY <1>1, HeldApart
<1>3. A!Replace({p}, p, n)
  <2>1. user' = [z \in DOMAIN user |-> IF z = p THEN n ELSE user[z]]
    OBVIOUS
  <2>2. DOMAIN user = (DOMAIN user \ {p}) \cup {p}
    OBVIOUS
  <2> QED BY <2>1, <2>2 DEF A!Replace
<1>4. A!Resize(p, n)
  BY <1>2, <1>3 DEF A!Resize
<1> QED BY <1>4 DEF A!Next

LEMMA FreeReleases ==
  ASSUME Inv, NEW p \in DOMAIN user, Free(p)
  PROVE  A!Next
<1>1. TagsThere(heap, BlockOf(p))
  BY UserBlock, TagsReadable DEF Inv, Holding, Exact
<1>2. user' = [q \in DOMAIN user \ {p} |-> user[q]]
  BY <1>1 DEF Free, Forget
<1>3. A!Free(p)
  BY <1>2 DEF A!Free
<1> QED BY <1>3 DEF A!Next

LEMMA GrowMovesMoves ==
  ASSUME Inv, NEW p \in DOMAIN user, NEW n \in Sizes, GrowMoves(p, n)
  PROVE  A!Next
<1>1. PICK m \in Allocations(n) : user' = With(Forget(p), Payload(m.block), n)
  BY DEF GrowMoves
<1> DEFINE w == With(user, Payload(m.block), n)
           q == Payload(m.block)
<1>2. Holding(m.heap, m.runs, w) /\ Gained(w, user, m.block, n)
  <2>1. w = With(user, Payload(m.block), n)
    OBVIOUS
  <2> HIDE DEF w
  <2> QED BY <2>1, MoreHolding DEF Inv
<1> HIDE DEF w
<1>3. /\ q \in DOMAIN w /\ w[q] = n /\ q \notin DOMAIN user
      /\ \A z \in DOMAIN user : z \in DOMAIN w /\ w[z] = user[z]
  BY <1>2 DEF Gained
<1>4. q \in Space
  BY <1>2, <1>3, UserInSpace
<1>5. user' = With(Forget(p), q, n)
  BY <1>1
<1> HIDE DEF q
<1>6. A!Apart(q, n, DOMAIN user)
  <2> SUFFICES ASSUME NEW z \in DOMAIN user PROVE A!Region(q, n) \cap A!Region(z, user[z]) = {}
    BY DEF A!Apart
  <2>1. z \in DOMAIN w \ {q} /\ w[z] = user[z]
    BY <1>3
  <2> QED BY <1>2, <1>3, <2>1, HeldApart
<1>7. A!Replace({p}, q, n)
  <2>1. DOMAIN Forget(p) = DOMAIN user \ {p} /\ \A z \in DOMAIN user \ {p} : Forget(p)[z] = user[z]
    BY DEF Forget
  <2>2. user' = [z \in {q} \cup (DOMAIN user \ {p}) |-> IF z = q THEN n ELSE Forget(p)[z]]
    BY <1>5, <2>1 DEF With
  <2>3. user' = [z \in (DOMAIN user \ {p}) \cup {q} |-> IF z = q THEN n ELSE user[z]]
    BY <2>1, <2>2
  <2> QED BY <2>3 DEF A!Replace
<1>8. A!Move(p, q, n)
  BY <1>6, <1>7 DEF A!Move
<1> QED BY <1>4, <1>8 DEF A!Next

LEMMA StepAllocates ==
  ASSUME ~Growing, Inv, [Next]_vars
  PROVE  [A!Next]_user
<1>1. CASE UNCHANGED vars
  BY <1>1 DEF vars
<1>2. CASE \E n \in Sizes : Malloc(n)
  BY <1>2, MallocAllocates
<1>3. CASE \E p \in DOMAIN user : Free(p) \/ Fault(p)
  BY <1>3, FreeReleases DEF Fault, Abort
<1>4. ASSUME NEW p \in DOMAIN user, NEW n \in Sizes,
             Shrink(p, n) \/ GrowFails(p, n) \/ GrowInPlace(p, n) \/ GrowMoves(p, n)
      PROVE  [A!Next]_user
  <2>1. CASE Shrink(p, n)
    <3>1. Inv' /\ Resized(user', user, p, n)
      BY <2>1, ShrinkHolds
    <3>2. Holding(heap', runs', user') /\ user' = [user EXCEPT ![p] = n]
      BY <2>1, <3>1 DEF Inv, Shrink
    <3> QED BY <3>1, <3>2, ResizedAllocation
  <2>2. CASE GrowFails(p, n)
    BY <2>2 DEF GrowFails, Abort
  <2>3. CASE GrowInPlace(p, n)
    <3>1. Inv' /\ Resized(user', user, p, n)
      BY <2>3, GrowInPlaceHolds
    <3>2. Holding(heap', runs', user') /\ user' = [user EXCEPT ![p] = n]
      BY <2>3, <3>1 DEF Inv, GrowInPlace
    <3> QED BY <3>1, <3>2, ResizedAllocation
  <2>4. CASE GrowMoves(p, n)
    BY <2>4, GrowMovesMoves
  <2> QED BY <1>4, <2>1, <2>2, <2>3, <2>4
<1> QED BY <1>1, <1>2, <1>3, <1>4 DEF Next

(* crmalloc, crfree and crrealloc are malloc, free and realloc: no two     *)
(* allocations of the program ever share an address.                       *)
THEOREM AllocatorImplemented ==
  ASSUME ~Growing
  PROVE  Spec => ImplementsAllocator
<1>1. Init => A!Init
  <2> SUFFICES ASSUME Init PROVE user = [p \in {} |-> 0]
    BY DEF A!Init
  <2>1. user = <<>>
    BY DEF Init
  <2> QED BY <2>1
<1>2. Inv /\ [Next]_vars => [A!Next]_user
  BY StepAllocates
<1> QED BY <1>1, <1>2, InvHolds, PTL DEF Spec, ImplementsAllocator, A!Spec
=============================================================================
