----------------------------- MODULE VtsListInv -----------------------------
(***************************************************************************)
(* The inductive invariant of VtsList.                                     *)
(***************************************************************************)
EXTENDS VtsList, ListShape

LinkedIn(m) == Linked(m, Lists, Elems)

(* An element lies in a list while nobody works with it, and while the     *)
(* thread that will remove it has not got the mutex.                       *)
Owners ==
  /\ \A l \in Lists : \A e \in In(l) : owner[e] = l
  /\ \A e \in Elems : (\E l \in Lists : e \in In(l))
                        <=> holder[e] = Nobody \/ \E t \in Threads : Removing(t, e)

(* What a thread does, it does with an element that it holds; an element   *)
(* that is to be removed lies in a bucket, which nobody pops from.         *)
Calls == \A t \in Threads :
  /\ call[t] \in PushCalls =>
       holder[call[t].elem] = t /\ owner[call[t].elem] = call[t].list
  /\ call[t] \in RemoveCalls =>
       holder[call[t].elem] = t /\ \E l \in Buckets : call[t].elem \in In(l)
  /\ call[t] \in PopCalls => call[t].list \in Queues
  /\ clearing[t] # Null => call[t] = NoCall /\ holder[clearing[t]] = t
  /\ t \in asleep \cup woken => call[t] \in PopCalls /\ call[t].op \in {"pop_front", "pop_back"}
  /\ ~(t \in asleep /\ t \in woken)

Inv == TypeOK /\ LinkedIn(links) /\ Owners /\ Calls /\ NoLostWakeup
=============================================================================
