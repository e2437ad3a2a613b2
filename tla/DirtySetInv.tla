---------------------------- MODULE DirtySetInv -----------------------------
(***************************************************************************)
(* The inductive invariant of DirtySet, as a property of the links m, the  *)
(* entries p and the sets L that exist, so that it can be stated of what   *)
(* lies between two calls of a step.                                       *)
(***************************************************************************)
EXTENDS DirtySet, ListShape

Nodes       == {elem(x) : x \in Entries} \cup {iter(x) : x \in Entries}
AllLists(L) == UNION {ListsOf(s) : s \in L}
On(m, l)    == ToSet(Elements(m, l))

(* The entries of a set, and their keys.                                   *)
Entered(m, s)   == {x \in Entries : iter(x) \in On(m, iterlist(s))}
KeysOf(m, p, s) == {p[x] : x \in Entered(m, s)}

(* What the list of a set and those of its buckets hold.                   *)
Filed(m, p, s) ==
  /\ On(m, iterlist(s)) = {iter(x) : x \in Entered(m, s)}
  /\ \A h \in Hashes : On(m, bucket(s, h)) = {elem(x) : x \in {y \in Entered(m, s) : Hash[p[y]] = h}}
  /\ \A x, y \in Entered(m, s) : p[x] = p[y] => x = y

Sound(m, p, L) ==
  /\ m \in Memories(SetMemory) /\ p \in [Entries -> Keys \cup {Null}]
  /\ Linked(m, AllLists(L), Nodes)
  /\ \A s \in L : Filed(m, p, s)
  /\ \A x \in Entries : p[x] # Null <=> \E s \in L : x \in Entered(m, s)

DirtyInv == SetTypeOK /\ Sound(setlinks, ptr, live)
=============================================================================
