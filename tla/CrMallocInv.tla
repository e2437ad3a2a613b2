---------------------------- MODULE CrMallocInv -----------------------------
(***************************************************************************)
(* The inductive invariant of CrMalloc.  It speaks of any heap h and set R *)
(* of runs, since a call passes through heaps that no state has.           *)
(***************************************************************************)
EXTENDS CrMalloc

BlocksIn(h) == DOMAIN h.head
Ends(R)     == {r[2] : r \in R}

HeapTypes(h) ==
  /\ h = [head |-> h.head, foot |-> h.foot, free |-> h.free]
  /\ h.head \in [BlocksIn(h) -> [lo : 0..Top, hi : 0..Top, size : Nat \ {0}, inuse : BOOLEAN]]
  /\ h.foot \in [DOMAIN h.foot -> TagType]
  /\ BlocksIn(h) \subseteq Nat
  /\ h.free \in Seq(Nat)

RunTypes(R) == R \subseteq (0..Top) \X (0..Top)

Disjoint(h) == \A b, c \in BlocksIn(h) : b < c => EndOf(h, b) <= c

Feet(h) ==
  /\ DOMAIN h.foot = {FootAt(b, SizeOf(h, b)) : b \in BlocksIn(h)}
  /\ \A b \in BlocksIn(h) :
       h.foot[FootAt(b, SizeOf(h, b))] = [size |-> SizeOf(h, b), inuse |-> InUse(h, b)]

(* A block is the first of its run, or follows a block.                    *)
LeftLinked(h, R) == \A b \in BlocksIn(h) :
  \/ h.head[b].lo = b /\ \E r \in R : r[1] = b
  \/ HasLeft(h, b) /\ \E a \in BlocksIn(h) : EndOf(h, a) = b

(* A block follows it, or it ends where a run does.                        *)
RightLinked(h, R) == \A b \in BlocksIn(h) : EndOf(h, b) \in BlocksIn(h) \cup Ends(R)

(* Every address of a run is in a block, every one of a block in a run.    *)
Covered(h, R) == \A r \in R : \A a \in r[1]..(r[2] - 1) :
  \E b \in BlocksIn(h) : b <= a /\ a < EndOf(h, b)
Inside(h, R) == \A b \in BlocksIn(h) : \A a \in b..(EndOf(h, b) - 1) :
  \E r \in R : r[1] <= a /\ a < r[2]

Shape(h, R) ==
  /\ HeapTypes(h) /\ RunTypes(R)
  /\ Disjoint(h) /\ Feet(h)
  /\ LeftLinked(h, R) /\ RightLinked(h, R)
  /\ Covered(h, R) /\ Inside(h, R)

(* The blocks in U are in use; the free list holds the others but those of *)
(* X, each once: during a call a block may be neither.                     *)
Listed(h) == {h.free[i] : i \in DOMAIN h.free}
Once(h)   == \A i, j \in DOMAIN h.free : h.free[i] = h.free[j] => i = j

Exact(h, R, U, X) ==
  /\ Shape(h, R) /\ Once(h)
  /\ U \subseteq BlocksIn(h) /\ X \subseteq BlocksIn(h) /\ U \cap X = {}
  /\ \A b \in BlocksIn(h) : InUse(h, b) <=> b \in U
  /\ Listed(h) = BlocksIn(h) \ (U \cup X)

(* Between calls the blocks in use are those the program holds, and have   *)
(* room for what it asked.                                                 *)
UserTypes(u) == u = [p \in DOMAIN u |-> u[p]] /\ \A p \in DOMAIN u : p \in Nat /\ u[p] \in Sizes
Used(u)      == {BlockOf(p) : p \in DOMAIN u}
Roomy(h, u)  == \A p \in DOMAIN u : u[p] <= SizeOf(h, BlockOf(p))

Holding(h, R, u) == UserTypes(u) /\ Exact(h, R, Used(u), {}) /\ Roomy(h, u)

Inv == Holding(heap, runs, user) /\ up \in BOOLEAN
=============================================================================
