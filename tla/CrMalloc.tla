------------------------------ MODULE CrMalloc ------------------------------
(***************************************************************************)
(* The allocator of the persistent heap, milestone2/cr/crmalloc.c.         *)
(*                                                                         *)
(* The store hands out runs of pages.  Blocks tile a run: a header, which  *)
(* holds the bounds of the run, the left tag and a link, then the payload, *)
(* then the right tag.  A tag is the size of the payload and whether it is *)
(* in use; from the tags a block finds its neighbours.  Free blocks are    *)
(* linked into one list of the metadata.                                   *)
(*                                                                         *)
(* The bytes of a header or a tag that a block has absorbed are payload,   *)
(* with whatever the program writes there: they are no part of the heap.   *)
(* One thread at a time is in the allocator, which has no lock.            *)
(***************************************************************************)
EXTENDS Integers, FiniteSets, SequencesExt

CONSTANTS
  Header,           \* sizeof(struct block)
  Tag,              \* sizeof(union boundary_tag)
  PageSize,
  Top,              \* the addresses mmap chooses from are 0..Top-1
  Sizes,            \* the sizes the program asks for, all but 0
  Growing           \* FALSE: no block grows in place between unequal neighbours

Metadata == Header + Tag
Space == 0 .. (Top - 1)

ASSUME CrMallocAssumption ==
  /\ Header \in Nat /\ Tag \in Nat \ {0} /\ PageSize \in Nat \ {0} /\ Top \in Nat
  /\ Metadata < PageSize
  /\ Sizes \subseteq Nat \ {0}
  /\ Growing \in BOOLEAN

(* The function f, with y at x.                                            *)
With(f, x, y) == [z \in {x} \cup DOMAIN f |-> IF z = x THEN y ELSE f[z]]

(* heap.head[b]: the header of the block at b: mem_lo, mem_hi, left tag.   *)
(* heap.foot[a]: the right tag at a.  heap.free: the free list, of blocks. *)
VARIABLES
  heap,
  runs,             \* the runs of pages, <<first address, end>>
  user,             \* user[p]: the size asked for the payload at p
  up                \* FALSE once the process has aborted

vars == <<heap, runs, user, up>>

Abort == up' = FALSE /\ UNCHANGED <<heap, runs, user>>

(***************************************************************************)
(* Blocks and their neighbours                                             *)
(***************************************************************************)
Payload(b) == b + Header
BlockOf(p) == p - Header

FootAt(b, n) == b + Header + n
SizeOf(h, b) == h.head[b].size
InUse(h, b) == h.head[b].inuse
EndOf(h, b) == FootAt(b, SizeOf(h, b)) + Tag

(* block_on_left: no block when b is the first of its run.                 *)
HasLeft(h, b) == b - Tag > h.head[b].lo
LeftOf(h, b) == b - Tag - h.foot[b - Tag].size - Header

(* block_on_right compares with > where mem_hi is the end of the run: the  *)
(* last block of a run has a neighbour too, the first block of the next    *)
(* run if that follows directly, or whatever is there.                     *)
HasRight(h, b) == EndOf(h, b) <= h.head[b].hi
RightOf(h, b) == EndOf(h, b)
PastEnd(h, b) == HasRight(h, b) /\ RightOf(h, b) \notin DOMAIN h.head

FreeLeft(h, b) ==
  HasLeft(h, b) /\ ~InUse(h, LeftOf(h, b))
FreeRight(h, b) ==
  HasRight(h, b) /\ RightOf(h, b) \in DOMAIN h.head /\ ~InUse(h, RightOf(h, b))

(* What is read on the left is a tag, of a block.                          *)
TagsThere(h, b) ==
  HasLeft(h, b) => b - Tag \in DOMAIN h.foot /\ LeftOf(h, b) \in DOMAIN h.head

(* Both tags of b.                                                         *)
MarkLeft(h, b, used) == [h EXCEPT !.head[b].inuse = used]
Mark(h, b, used) ==
  [h EXCEPT !.head[b].inuse = used, !.foot[FootAt(b, SizeOf(h, b))].inuse = used]

KeepLinked(h, b) == h
Unlink(h, b) ==
  [h EXCEPT !.free = RemoveAt(@, CHOOSE i \in DOMAIN @ : @[i] = b)]

(***************************************************************************)
(* split_block                                                             *)
(***************************************************************************)
RemainderUntagged(size, n) == size - n
Remainder(size, n) == size - Metadata - n

(* The block b becomes one of size n and a free one behind it.             *)
Cut(h, b, n) ==
  LET c == FootAt(b, n) + Tag
      rem == Remainder(SizeOf(h, b), n)
      rest == [h.head[b] EXCEPT !.size = rem, !.inuse = FALSE]
  IN [head |-> With([h.head EXCEPT ![b].size = n], c, rest),
      foot |-> With(With(h.foot, FootAt(c, rem), [size |-> rem, inuse |-> FALSE]),
                    FootAt(b, n), [size |-> n, inuse |-> InUse(h, b)]),
      free |-> Append(h.free, c)]

Split(h, b, n) ==
  Mark(IF Remainder(SizeOf(h, b), n) > 0 THEN Cut(h, b, n) ELSE h, b, TRUE)

(***************************************************************************)
(* crmalloc: the first block of the free list that fits, or a new run.     *)
(***************************************************************************)
FitsAny(n) == DOMAIN heap.free
Fits(n) == {i \in DOMAIN heap.free : SizeOf(heap, heap.free[i]) >= n}

Reuse(n) ==
  LET i == CHOOSE i \in Fits(n) : \A j \in Fits(n) : i <= j
      b == heap.free[i]
  IN {[block |-> b, runs |-> runs,
       heap |-> Split([heap EXCEPT !.free = RemoveAt(@, i)], b, n)]}

Pages(n) == n \div PageSize + (IF n % PageSize # 0 THEN 1 ELSE 0)

(* mmap: any hole that is large enough.                                    *)
Holes(len) ==
  {a \in Space : /\ a % PageSize = 0 /\ a + len <= Top
                 /\ \A r \in runs : a + len <= r[1] \/ r[2] <= a}

(* make_block splits at the size of the whole block, not of the payload.   *)
MakeBlock(n) ==
  LET len == Pages(n + Metadata) * PageSize
      size == len - Metadata
      New(a) == [head |-> With(heap.head, a, [lo |-> a, hi |-> a + len, size |-> size,
                                              inuse |-> TRUE]),
                 foot |-> With(heap.foot, FootAt(a, size), [size |-> size, inuse |-> TRUE]),
                 free |-> heap.free]
  IN {[block |-> a, runs |-> runs \cup {<<a, a + len>>},
       heap |-> Split(New(a), a, n + Metadata)] : a \in Holes(len)}

Allocations(n) == IF Fits(n) # {} THEN Reuse(n) ELSE MakeBlock(n)

Malloc(n) ==
  /\ up
  /\ \E m \in Allocations(n) :
       /\ heap' = m.heap /\ runs' = m.runs
       /\ user' = With(user, Payload(m.block), n)
  /\ UNCHANGED up

(***************************************************************************)
(* crfree                                                                  *)
(***************************************************************************)

(* One of two neighbours has left the free list: both become one free      *)
(* block, and the tags between them are payload.                           *)
JoinedBare(h, l, r) == SizeOf(h, l) + SizeOf(h, r)
JoinedSize(h, l, r) == SizeOf(h, l) + SizeOf(h, r) + Metadata

Join(h, l, r) ==
  LET n == JoinedSize(h, l, r)
      tag == [size |-> n, inuse |-> FALSE]
  IN [head |-> [b \in DOMAIN h.head \ {r} |->
                  IF b = l THEN [h.head[l] EXCEPT !.size = n, !.inuse = FALSE]
                           ELSE h.head[b]],
      foot |-> [a \in DOMAIN h.foot \ {FootAt(l, SizeOf(h, l))} |->
                  IF a = FootAt(r, SizeOf(h, r)) THEN tag ELSE h.foot[a]],
      free |-> h.free]

JoinRight(h, b) ==
  IF FreeRight(h, b) THEN Join(Unlink(h, RightOf(h, b)), b, RightOf(h, b)) ELSE h

(* The neighbour on the left is looked up before the right is joined.      *)
JoinLeft(h, b) ==
  IF FreeLeft(h, b) THEN Join(Unlink(h, LeftOf(h, b)), LeftOf(h, b), b) ELSE h

Start(h, b) == IF FreeLeft(h, b) THEN LeftOf(h, b) ELSE b

Coalesce(h, b) == JoinLeft(JoinRight(Mark(h, b, FALSE), b), b)

Freed(h, b) == [Coalesce(h, b) EXCEPT !.free = Append(@, Start(h, b))]

Forget(p) == [q \in DOMAIN user \ {p} |-> user[q]]

Free(p) ==
  LET b == BlockOf(p) IN
  /\ up
  /\ IF TagsThere(heap, b)
       THEN heap' = Freed(heap, b) /\ user' = Forget(p) /\ UNCHANGED <<runs, up>>
       ELSE Abort

(* The tag behind the end of a run that no run follows is read: the memory *)
(* there either is not mapped, or looks like a tag in use, or is zero and  *)
(* fails the assertion of list_remove.                                     *)
Fault(p) ==
  /\ up
  /\ PastEnd(heap, BlockOf(p))
  /\ Abort

(***************************************************************************)
(* crrealloc                                                               *)
(***************************************************************************)
Shrink(p, n) ==
  /\ up
  /\ n <= SizeOf(heap, BlockOf(p))
  /\ heap' = Split(heap, BlockOf(p), n)
  /\ user' = [user EXCEPT ![p] = n]
  /\ UNCHANGED <<runs, up>>

(* "If block on right is free and large enough": the size that is added is *)
(* that of the block on the left.                                          *)
CombinedSize(b) == Metadata + SizeOf(heap, b) + SizeOf(heap, LeftOf(heap, b))

(* With no block on the left, or none on the right, a null pointer is read.*)
GrowFails(p, n) ==
  LET b == BlockOf(p) IN
  /\ up
  /\ n > SizeOf(heap, b)
  /\ HasLeft(heap, b) => CombinedSize(b) >= n /\ ~HasRight(heap, b)
  /\ Abort

GrowInPlace(p, n) ==
  LET b == BlockOf(p)
      r == RightOf(heap, b)
      size == CombinedSize(b)
      h == Unlink(heap, r)
  IN
  /\ up
  /\ n > SizeOf(heap, b) /\ HasLeft(heap, b)
  /\ size >= n /\ FreeRight(heap, b)
  /\ Growing \/ SizeOf(heap, LeftOf(heap, b)) = SizeOf(heap, r)
  /\ heap' = [head |-> [c \in DOMAIN h.head \ {r} |->
                          IF c = b THEN [h.head[b] EXCEPT !.size = size] ELSE h.head[c]],
              foot |-> [a \in DOMAIN h.foot \ {FootAt(b, SizeOf(h, b))} |->
                          IF a = FootAt(r, SizeOf(h, r)) THEN [size |-> size, inuse |-> TRUE]
                                                         ELSE h.foot[a]],
              free |-> h.free]
  /\ user' = [user EXCEPT ![p] = n]
  /\ UNCHANGED <<runs, up>>

(* A new block, a copy of the old payload, and the old block is freed.     *)
GrowMoves(p, n) ==
  LET b == BlockOf(p) IN
  /\ up
  /\ n > SizeOf(heap, b) /\ HasLeft(heap, b) /\ TagsThere(heap, b)
  /\ CombinedSize(b) < n \/ (HasRight(heap, b) /\ ~FreeRight(heap, b))
  /\ \E m \in Allocations(n) :
       /\ heap' = Freed(m.heap, b) /\ runs' = m.runs
       /\ user' = With(Forget(p), Payload(m.block), n)
  /\ UNCHANGED up

Init ==
  /\ heap = [head |-> <<>>, foot |-> <<>>, free |-> <<>>]
  /\ runs = {} /\ user = <<>>
  /\ up = TRUE

Next ==
  \/ \E n \in Sizes : Malloc(n)
  \/ \E p \in DOMAIN user : Free(p) \/ Fault(p)
  \/ \E p \in DOMAIN user, n \in Sizes :
       Shrink(p, n) \/ GrowFails(p, n) \/ GrowInPlace(p, n) \/ GrowMoves(p, n)

Spec == Init /\ [][Next]_vars

(***************************************************************************)
(* Properties                                                              *)
(***************************************************************************)
Blocks == DOMAIN heap.head
TagType == [size : Nat, inuse : BOOLEAN]
HeadType == [lo : 0..Top, hi : 0..Top, size : Nat, inuse : BOOLEAN]

TypeOK ==
  /\ Blocks \subseteq Space /\ heap.head \in [Blocks -> HeadType]
  /\ DOMAIN heap.foot \subseteq Space /\ heap.foot \in [DOMAIN heap.foot -> TagType]
  /\ heap.free \in Seq(Blocks)
  /\ runs \subseteq (0..Top) \X (0..Top)
  /\ DOMAIN user \subseteq Space /\ user \in [DOMAIN user -> Sizes]
  /\ up \in BOOLEAN

(* Blocks cover the runs, all of them and nothing else, and never overlap: *)
(* no page of the store is lost to the allocator.                          *)
Tiled ==
  /\ TypeOK
  /\ \A b, c \in Blocks : b < c => EndOf(heap, b) <= c
  /\ \A r \in runs : \A a \in r[1]..(r[2] - 1) :
       \E b \in Blocks : b <= a /\ a < EndOf(heap, b)
  /\ \A b \in Blocks : \A a \in b..(EndOf(heap, b) - 1) :
       \E r \in runs : r[1] <= a /\ a < r[2]

(* The two tags of a block say the same, and there are no others.          *)
TagsAgree ==
  /\ DOMAIN heap.foot = {FootAt(b, SizeOf(heap, b)) : b \in Blocks}
  /\ \A b \in Blocks :
       heap.foot[FootAt(b, SizeOf(heap, b))] =
         [size |-> SizeOf(heap, b), inuse |-> InUse(heap, b)]

(* What block_on_left and block_on_right find is the neighbour, over the   *)
(* end of a run too; a block in the middle of a run has both.              *)
NeighboursFound ==
  \A b \in Blocks :
    /\ HasLeft(heap, b) => LeftOf(heap, b) \in Blocks /\ EndOf(heap, LeftOf(heap, b)) = b
    /\ ~HasLeft(heap, b) => \E r \in runs : r[1] = b
    /\ PastEnd(heap, b) => \E r \in runs : r[2] = EndOf(heap, b)

(* The free list holds the free blocks, each of them once, and the blocks  *)
(* in use are those the program holds, with room for what it asked: none   *)
(* is lost, none is given out twice.                                       *)
FreeListExact ==
  /\ {b \in Blocks : InUse(heap, b)} = {BlockOf(p) : p \in DOMAIN user}
  /\ \A p \in DOMAIN user : user[p] <= SizeOf(heap, BlockOf(p))
  /\ \A b \in Blocks : InUse(heap, b) <=> \A i \in DOMAIN heap.free : heap.free[i] # b
  /\ \A i, j \in DOMAIN heap.free : heap.free[i] = heap.free[j] => i = j
  /\ \A i \in DOMAIN heap.free : heap.free[i] \in Blocks

(* The program sees an allocator.                                          *)
A == INSTANCE Allocator WITH live <- user

ImplementsAllocator == A!Spec
=============================================================================
