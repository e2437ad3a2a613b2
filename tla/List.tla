-------------------------------- MODULE List --------------------------------
(***************************************************************************)
(* util/list.c: doubly linked lists whose links lie in the elements.       *)
(*                                                                         *)
(* A memory m gives every element its two links.  A list l has two         *)
(* elements of its own, its head and its tail, which m holds too.  A       *)
(* function of list.c that changes links is an operator from a memory to   *)
(* a memory, one that returns an element an operator to an element.        *)
(***************************************************************************)
EXTENDS Naturals, Sequences, FiniteSets, SequencesExt

CONSTANT Null

head(l) == <<l, "head">>
tail(l) == <<l, "tail">>

Unlinked == [prev |-> Null, next |-> Null]

is_head(m, e)     == m[e].prev = Null  /\ m[e].next # Null
is_interior(m, e) == m[e].prev # Null  /\ m[e].next # Null
is_tail(m, e)     == m[e].prev # Null  /\ m[e].next = Null

list_init(m, l) ==
  [m EXCEPT ![head(l)] = [prev |-> Null, next |-> tail(l)],
            ![tail(l)] = [prev |-> head(l), next |-> Null]]

list_begin(m, l)  == m[head(l)].next
list_end(l)       == tail(l)
list_next(m, e)   == m[e].next
list_rbegin(m, l) == m[tail(l)].prev
list_rend(l)      == head(l)
list_prev(m, e)   == m[e].prev
list_front(m, l)  == m[head(l)].next
list_back(m, l)   == m[tail(l)].prev
list_empty(m, l)  == list_begin(m, l) = list_end(l)

(* Puts e just before the element or tail b.                               *)
list_insert(m, b, e) ==
  [m EXCEPT ![e] = [prev |-> m[b].prev, next |-> b],
            ![m[b].prev].next = e,
            ![b].prev = e]

list_push_front(m, l, e) == list_insert(m, list_begin(m, l), e)
list_push_back(m, l, e)  == list_insert(m, list_end(l), e)

(* Unlinks e, whose own links stay as they are.                            *)
list_remove(m, e) ==
  [m EXCEPT ![m[e].prev].next = m[e].next,
            ![m[e].next].prev = m[e].prev]

list_pop_front(m, l) == list_remove(m, list_front(m, l))
list_pop_back(m, l)  == list_remove(m, list_back(m, l))

(* Moves the elements from first up to end, which stays, before b.         *)
list_splice(m, b, first, end) ==
  LET last == list_prev(m, end)
      cut  == [m EXCEPT ![m[first].prev].next = m[last].next,
                        ![m[last].next].prev = m[first].prev]
  IN IF first = end THEN m
     ELSE [cut EXCEPT ![first].prev = cut[b].prev,
                      ![last].next = b,
                      ![cut[b].prev].next = first,
                      ![b].prev = last]

(* The loop that follows the links nx from first until it meets stop; it   *)
(* ends at a link that leads nowhere, or after as many elements as there   *)
(* are.                                                                    *)
Loop(nx, first, stop) ==
  LET from[n \in Nat] == [e \in DOMAIN nx \cup {Null} |->
        IF e \in {stop, Null} \/ n = 0 THEN <<>>
        ELSE <<e>> \o from[n - 1][nx[e]]]
  IN from[Cardinality(DOMAIN nx)][first]

Elements(m, l) ==
  Loop([e \in DOMAIN m |-> list_next(m, e)], list_begin(m, l), list_end(l))
ElementsBack(m, l) ==
  Loop([e \in DOMAIN m |-> list_prev(m, e)], list_rbegin(m, l), list_rend(l))

list_size(m, l) == Len(Elements(m, l))

(* Swaps the links of every element, then the two that the list's own      *)
(* elements hold, then the two that lead back to them.                     *)
list_reverse_outer(m, l) ==
  IF list_empty(m, l) THEN m
  ELSE LET inside  == ToSet(Elements(m, l))
           flipped == [e \in DOMAIN m |-> IF e \notin inside THEN m[e]
                                          ELSE [prev |-> m[e].next, next |-> m[e].prev]]
       IN [flipped EXCEPT ![head(l)].next = list_back(m, l),
                          ![tail(l)].prev = list_front(m, l)]

list_reverse(m, l) ==
  LET r     == list_reverse_outer(m, l)
      first == list_front(r, l)
      last  == list_back(r, l)
  IN IF list_empty(m, l) THEN m
     ELSE [r EXCEPT ![first].prev = r[last].next, ![last].next = r[first].prev]
=============================================================================
