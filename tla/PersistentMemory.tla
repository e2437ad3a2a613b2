-------------------------- MODULE PersistentMemory --------------------------
(***************************************************************************)
(* What the store promises its threads: memory of which a copy survives a  *)
(* crash.  A thread asks for some pages to be persisted and is stopped     *)
(* until each of them is on disk as it was when the thread asked; nobody   *)
(* stores to such a page meanwhile; a page that nobody asked for does not  *)
(* reach the disk; checkpointing never changes memory; after a crash the   *)
(* memory is the disk's, but for one page, where the boot makes its own    *)
(* entry.                                                                  *)
(***************************************************************************)
EXTENDS Naturals

CONSTANTS Users, Pages, Meta, Access, Vals

VARIABLES vmem, disk, req

pmvars == <<vmem, disk, req>>

Begin(u, R) ==
  /\ req[u] = {}
  /\ req' = [req EXCEPT ![u] = R]
  /\ UNCHANGED <<vmem, disk>>

Write(u, p, v) ==
  /\ p \in Access[u]
  /\ \A w \in Users : p \notin req[w]
  /\ vmem' = [vmem EXCEPT ![p] = v]
  /\ UNCHANGED <<disk, req>>

Persist(p) ==
  /\ \E u \in Users : p \in req[u]
  /\ disk' = [disk EXCEPT ![p] = vmem[p]]
  /\ UNCHANGED <<vmem, req>>

End(u) ==
  /\ \A p \in req[u] : disk[p] = vmem[p]
  /\ req' = [req EXCEPT ![u] = {}]
  /\ UNCHANGED <<vmem, disk>>

Crash ==
  /\ \E v \in Vals \cup {disk[Meta]} : vmem' = [disk EXCEPT ![Meta] = v]
  /\ req' = [u \in Users |-> {}]
  /\ UNCHANGED disk

Init == req = [u \in Users |-> {}]

Next ==
  \/ \E u \in Users, R \in SUBSET Pages : Begin(u, R)
  \/ \E u \in Users, p \in Pages, v \in Vals : Write(u, p, v)
  \/ \E p \in Pages : Persist(p)
  \/ \E u \in Users : End(u)
  \/ Crash

Spec == Init /\ [][Next]_pmvars
=============================================================================
