------------------------------- MODULE Deques -------------------------------
(***************************************************************************)
(* What vtslist.h promises: lists that threads share, on which each        *)
(* operation takes effect at once, between its call and its return.        *)
(***************************************************************************)
EXTENDS Sequences, SequencesExt

CONSTANTS Threads, Lists, Elems, NoCall

VARIABLES
  deque,     \* the elements of each list, from front to back
  has,       \* the elements each thread holds
  call       \* the operation each thread is in, or NoCall

Push == {"push_front", "push_back"}
Pop  == {"pop_front", "pop_back", "try_pop_front", "try_pop_back"}

PushCalls   == [op : Push, list : Lists, elem : Elems]
PopCalls    == [op : Pop, list : Lists]
RemoveCalls == [op : {"remove"}, elem : Elems]

Init ==
  /\ deque = [l \in Lists |-> <<>>]
  /\ has \in [Threads -> SUBSET Elems]
  /\ \A e \in Elems : \E t \in Threads : \A u \in Threads : e \in has[u] <=> u = t
  /\ call = [t \in Threads |-> NoCall]

Call(t) ==
  /\ call[t] = NoCall
  /\ \E c \in PushCalls \cup PopCalls \cup RemoveCalls : call' = [call EXCEPT ![t] = c]
  /\ UNCHANGED <<deque, has>>

Returns(t) == call' = [call EXCEPT ![t] = NoCall]

Pushed(t) ==
  /\ call[t] \in PushCalls
  /\ LET e == call[t].elem
         l == call[t].list
     IN /\ has' = [has EXCEPT ![t] = @ \ {e}]
        /\ deque' = [deque EXCEPT ![l] = IF call[t].op = "push_back"
                                           THEN Append(@, e) ELSE <<e>> \o @]
  /\ Returns(t)

(* A pop that may not wait returns without an element.                     *)
Popped(t) ==
  /\ call[t] \in PopCalls
  /\ LET l == call[t].list
         s == deque[l]
         f == call[t].op \in {"pop_front", "try_pop_front"}
     IN \/ /\ s # <<>>
           /\ has' = [has EXCEPT ![t] = @ \cup {IF f THEN Head(s) ELSE Last(s)}]
           /\ deque' = [deque EXCEPT ![l] = IF f THEN Tail(s) ELSE Front(s)]
        \/ /\ s = <<>> /\ call[t].op \in {"try_pop_front", "try_pop_back"}
           /\ UNCHANGED <<has, deque>>
  /\ Returns(t)

Removed(t) ==
  /\ call[t] \in RemoveCalls
  /\ \E l \in Lists : \E i \in 1..Len(deque[l]) :
       /\ deque[l][i] = call[t].elem
       /\ deque' = [deque EXCEPT ![l] = RemoveAt(@, i)]
  /\ has' = [has EXCEPT ![t] = @ \cup {call[t].elem}]
  /\ Returns(t)

Next == \E t \in Threads : Call(t) \/ Pushed(t) \/ Popped(t) \/ Removed(t)

Spec == Init /\ [][Next]_<<deque, has, call>>
=============================================================================
