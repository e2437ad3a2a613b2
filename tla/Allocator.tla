----------------------------- MODULE Allocator ------------------------------
(***************************************************************************)
(* What malloc, free and realloc promise: the allocations a program holds  *)
(* are regions of addresses that share no address; an allocation stays     *)
(* where it is until the program gives it up, or resizes it.               *)
(***************************************************************************)
EXTENDS Naturals

CONSTANTS Space, Sizes

VARIABLE live     \* live[p]: the size of the allocation at p

Region(p, n) == p .. (p + n - 1)

Apart(p, n, ps) == \A q \in ps : Region(p, n) \cap Region(q, live[q]) = {}

(* The allocations after those in gone went and (p, n) came.               *)
Replace(gone, p, n) ==
  live' = [q \in (DOMAIN live \ gone) \cup {p} |-> IF q = p THEN n ELSE live[q]]

Malloc(p, n) == Apart(p, n, DOMAIN live) /\ Replace({}, p, n)

Free(p) ==
  /\ p \in DOMAIN live
  /\ live' = [q \in DOMAIN live \ {p} |-> live[q]]

(* In place, or moved: then old and new share no address either, since the *)
(* content is copied.                                                      *)
Resize(p, n) == Apart(p, n, DOMAIN live \ {p}) /\ Replace({p}, p, n)

Move(p, q, n) == Apart(q, n, DOMAIN live) /\ Replace({p}, q, n)

Init == live = [p \in {} |-> 0]

Next ==
  \/ \E p \in Space, n \in Sizes : Malloc(p, n)
  \/ \E p \in DOMAIN live : Free(p)
  \/ \E p \in DOMAIN live, n \in Sizes : Resize(p, n)
  \/ \E p \in DOMAIN live, q \in Space, n \in Sizes : Move(p, q, n)

Spec == Init /\ [][Next]_live
=============================================================================
