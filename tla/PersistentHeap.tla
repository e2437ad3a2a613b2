--------------------------- MODULE PersistentHeap ---------------------------
(***************************************************************************)
(* What the file of the heap promises: pages that are saved on request and *)
(* found again, at their addresses and as they were saved, by the next     *)
(* process.  The file never loses a page it has; pages of a new block come *)
(* to it all at once, zero, at some time after they were asked for or, if  *)
(* the process dies first, never.                                          *)
(***************************************************************************)
EXTENDS Naturals

CONSTANTS Addresses, Values

VARIABLES
  mem,              \* mem[p]: the page at p, of the pages the program has
  disk,             \* the pages the file has
  running

None == [p \in {} |-> 0]

(* g has the pages of f, as they are, and others that are zero.            *)
Extends(g, f) ==
  /\ DOMAIN f \subseteq DOMAIN g /\ DOMAIN g \subseteq Addresses
  /\ g = [p \in DOMAIN g |-> IF p \in DOMAIN f THEN f[p] ELSE 0]

Extend == Extends(disk', disk)

Allocate == running /\ UNCHANGED <<disk, running>> /\ Extends(mem', mem)

Store ==
  /\ running /\ UNCHANGED <<disk, running>>
  /\ \E p \in DOMAIN mem, v \in Values : mem' = [mem EXCEPT ![p] = v]

Save ==
  /\ running /\ UNCHANGED <<mem, running>>
  /\ \E p \in DOMAIN mem \cap DOMAIN disk : disk' = [disk EXCEPT ![p] = mem[p]]

Stop == running' = FALSE /\ mem' = None /\ Extend

Boot == ~running /\ running' = TRUE /\ Extend /\ mem' = disk'

Init == mem = None /\ disk = None /\ running = FALSE

Next ==
  \/ Allocate \/ Store \/ Save
  \/ UNCHANGED <<mem, running>> /\ Extend
  \/ Stop \/ Boot

Spec == Init /\ [][Next]_<<mem, disk, running>>
=============================================================================
