----------------------------- MODULE ListShape ------------------------------
(***************************************************************************)
(* What it means that the links of a memory make up a list.                *)
(***************************************************************************)
EXTENDS List

Memories(D) == [D -> [prev : D \cup {Null}, next : D \cup {Null}]]

(* The i-th cell of the list l of the elements s, from its head, which is  *)
(* the 0th, to its tail.                                                   *)
At(l, s, i) == IF i = 0 THEN head(l) ELSE IF i <= Len(s) THEN s[i] ELSE tail(l)

Cells(l, s) == {head(l), tail(l)} \cup ToSet(s)

(* Each cell leads to the next one and back, and no cell comes twice.      *)
Chain(m, l, s) ==
  /\ s \in Seq(DOMAIN m) /\ head(l) \in DOMAIN m /\ tail(l) \in DOMAIN m
  /\ \A i \in DOMAIN s : s[i] \notin {head(l), tail(l)}
  /\ \A i, j \in DOMAIN s : s[i] = s[j] => i = j
  /\ m[head(l)].prev = Null /\ m[tail(l)].next = Null
  /\ \A i \in 0 .. Len(s) :
       m[At(l, s, i)].next = At(l, s, i + 1) /\ m[At(l, s, i + 1)].prev = At(l, s, i)

(* D has room for the lists K and for their elements E.                    *)
Arena(D, K, E) ==
  /\ IsFiniteSet(D) /\ Null \notin D /\ E \subseteq D
  /\ \A l \in K : {head(l), tail(l)} \subseteq D \ E

(* The links m make up the lists K of elements of E, and no element lies   *)
(* in two.                                                                 *)
Linked(m, K, E) ==
  /\ \A l \in K : Chain(m, l, Elements(m, l)) /\ ToSet(Elements(m, l)) \subseteq E
  /\ \A l, k \in K : l # k => ToSet(Elements(m, l)) \cap ToSet(Elements(m, k)) = {}
=============================================================================
