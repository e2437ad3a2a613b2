------------------------------ MODULE VtsList -------------------------------
(***************************************************************************)
(* vds/vtslist.c: a list of util/list.c under a mutex, with a condition    *)
(* variable on which a pop waits while the list is empty.                  *)
(*                                                                         *)
(* A call and what it does under the mutex are two steps.  What is outside *)
(* the mutex is in the first (push sets owner, remove reads it) or in a    *)
(* step of its own (remove clears owner after the unlock).                 *)
(*                                                                         *)
(* The program uses a list in one of two ways: as a queue of messages,     *)
(* which threads push to and pop from, or as a bucket of vtsthreadtable,   *)
(* in which an element is found and removed, each by one thread.           *)
(***************************************************************************)
EXTENDS List

CONSTANTS
  Threads, Elems,
  Queues,     \* lists used as queues
  Buckets,    \* lists used as buckets
  NoCall,     \* the thread is in no operation
  Nobody      \* the element is held by no thread

Lists == Queues \cup Buckets
Ends  == {"front", "back"}

Heads  == {head(l) : l \in Lists}
Tails  == {tail(l) : l \in Lists}
Memory == Elems \cup Heads \cup Tails

PushCalls   == [op : {"push_front", "push_back"}, list : Lists, elem : Elems]
PopCalls    == [op : {"pop_front", "pop_back", "try_pop_front", "try_pop_back"}, list : Lists]
RemoveCalls == [op : {"remove"}, elem : Elems]

ASSUME ConstantsAssumption ==
  /\ IsFiniteSet(Threads) /\ IsFiniteSet(Elems) /\ IsFiniteSet(Lists)
  /\ Queues \cap Buckets = {}
  /\ Elems \cap (Heads \cup Tails) = {}
  /\ Null \notin Memory \cup Lists
  /\ Nobody \notin Threads
  /\ NoCall \notin PushCalls \cup PopCalls \cup RemoveCalls

VARIABLES
  links,      \* the links of the elements and of the lists' own elements
  owner,      \* tselem->owner
  holder,     \* the thread that works with the element, by the rules above
  call,       \* the operation a thread is in
  asleep,     \* threads in pthread_cond_wait
  woken,      \* threads that left it and wait for the mutex again
  clearing    \* the element whose owner each thread has still to clear, or Null

vars == <<links, owner, holder, call, asleep, woken, clearing>>

In(l) == ToSet(Elements(links, l))

TypeOK ==
  /\ links \in [Memory -> [prev : Memory \cup {Null}, next : Memory \cup {Null}]]
  /\ owner \in [Elems -> Lists \cup {Null}]
  /\ holder \in [Elems -> Threads \cup {Nobody}]
  /\ call \in [Threads -> PushCalls \cup PopCalls \cup RemoveCalls \cup {NoCall}]
  /\ asleep \subseteq Threads /\ woken \subseteq Threads
  /\ clearing \in [Threads -> Elems \cup {Null}]

(* vtslist_init of every list: x[1] is the list that has the head or tail  *)
(* x.                                                                      *)
vtslist_init ==
  [x \in Memory |-> IF x \in Elems THEN Unlinked
                    ELSE list_init([y \in Memory |-> Unlinked], x[1])[x]]

Init ==
  /\ links = vtslist_init
  /\ owner = [e \in Elems |-> Null]
  /\ holder \in [Elems -> Threads]
  /\ call = [t \in Threads |-> NoCall]
  /\ asleep = {} /\ woken = {}
  /\ clearing = [t \in Threads |-> Null]

Free(t) == call[t] = NoCall /\ clearing[t] = Null

Begins(t, c) == Free(t) /\ call' = [call EXCEPT ![t] = c]
Returns(t)   == call' = [call EXCEPT ![t] = NoCall]

(***************************************************************************)
(* vtslist_push_back and vtslist_push_front                                *)
(***************************************************************************)
NoOwner(e, l) == owner
Owned(e, l) == [owner EXCEPT ![e] = l]

(* The owner is written before the lock is taken.                          *)
PushBegins(t) ==
  \E c \in PushCalls :
    /\ Begins(t, c)
    /\ holder[c.elem] = t
    /\ owner' = Owned(c.elem, c.list)
    /\ UNCHANGED <<links, holder, asleep, woken, clearing>>

(* pthread_cond_signal wakes one of the threads that sleep on the list.    *)
NoSignal(l) == UNCHANGED <<asleep, woken>>
Signal(l) ==
  LET sleepers == {w \in asleep : call[w].list = l}
  IN IF sleepers = {} THEN UNCHANGED <<asleep, woken>>
     ELSE \E w \in sleepers : asleep' = asleep \ {w} /\ woken' = woken \cup {w}

PushedBack(c) == list_push_back(links, c.list, c.elem)
Pushed(c) == IF c.op = "push_back" THEN list_push_back(links, c.list, c.elem)
                                   ELSE list_push_front(links, c.list, c.elem)

PushLocked(t) ==
  /\ call[t] \in PushCalls
  /\ links' = Pushed(call[t])
  /\ holder' = [holder EXCEPT ![call[t].elem] = Nobody]
  /\ Signal(call[t].list)
  /\ Returns(t)
  /\ UNCHANGED <<owner, clearing>>

(***************************************************************************)
(* vtslist_pop_front, vtslist_pop_back and the two that do not wait        *)
(***************************************************************************)
PopBegins(t) ==
  /\ \E c \in PopCalls : c.list \in Queues /\ Begins(t, c)
  /\ UNCHANGED <<links, owner, holder, asleep, woken, clearing>>

Runs(t) == call[t] \in PopCalls /\ t \notin asleep

PopTakes(t) ==
  /\ Runs(t) /\ ~list_empty(links, call[t].list)
  /\ LET l == call[t].list
         f == call[t].op \in {"pop_front", "try_pop_front"}
     IN /\ links' = IF f THEN list_pop_front(links, l) ELSE list_pop_back(links, l)
        /\ holder' = [holder EXCEPT ![IF f THEN list_front(links, l)
                                           ELSE list_back(links, l)] = t]
  /\ Returns(t)
  /\ woken' = woken \ {t}
  /\ UNCHANGED <<owner, asleep, clearing>>

(* pthread_cond_wait: the mutex is given up and the thread sleeps.         *)
PopSleeps(t) ==
  /\ Runs(t) /\ list_empty(links, call[t].list)
  /\ call[t].op \in {"pop_front", "pop_back"}
  /\ asleep' = asleep \cup {t} /\ woken' = woken \ {t}
  /\ UNCHANGED <<links, owner, holder, call, clearing>>

PopFails(t) ==
  /\ Runs(t) /\ list_empty(links, call[t].list)
  /\ call[t].op \in {"try_pop_front", "try_pop_back"}
  /\ Returns(t)
  /\ UNCHANGED <<links, owner, holder, asleep, woken, clearing>>

(* POSIX lets pthread_cond_wait return unasked.                            *)
WakesUp(t) ==
  /\ t \in asleep
  /\ asleep' = asleep \ {t} /\ woken' = woken \cup {t}
  /\ UNCHANGED <<links, owner, holder, call, clearing>>

(***************************************************************************)
(* vtslist_remove                                                          *)
(***************************************************************************)
RemoveBegins(t) ==
  \E c \in RemoveCalls :
    /\ \E l \in Buckets : c.elem \in In(l)
    /\ holder[c.elem] = Nobody
    /\ Begins(t, c)
    /\ holder' = [holder EXCEPT ![c.elem] = t]
    /\ UNCHANGED <<links, owner, asleep, woken, clearing>>

Removing(t, e) == call[t] = [op |-> "remove", elem |-> e]

RemoveLocked(t) ==
  /\ call[t] \in RemoveCalls
  /\ owner[call[t].elem] # Null
  /\ links' = list_remove(links, call[t].elem)
  /\ clearing' = [clearing EXCEPT ![t] = call[t].elem]
  /\ Returns(t)
  /\ UNCHANGED <<owner, holder, asleep, woken>>

RemoveClears(t) ==
  /\ clearing[t] # Null
  /\ owner' = [owner EXCEPT ![clearing[t]] = Null]
  /\ clearing' = [clearing EXCEPT ![t] = Null]
  /\ UNCHANGED <<links, holder, call, asleep, woken>>

Next ==
  \E t \in Threads :
    \/ PushBegins(t) \/ PushLocked(t)
    \/ PopBegins(t) \/ PopTakes(t) \/ PopSleeps(t) \/ PopFails(t) \/ WakesUp(t)
    \/ RemoveBegins(t) \/ RemoveLocked(t) \/ RemoveClears(t)

Spec == Init /\ [][Next]_vars
-----------------------------------------------------------------------------
(***************************************************************************)
(* Properties                                                              *)
(***************************************************************************)
(* Each list reads the same from both ends, an element lies in at most one *)
(* list, and in one exactly while nobody works with it or while its remove *)
(* has not got the mutex; the owner of an element in a list names that     *)
(* list, so that a remove takes the right mutex (vtslist.c:25, 123).  The  *)
(* assertions of list.c hold of what push and remove are about to touch.   *)
ListsSound ==
  /\ TypeOK
  /\ \A l \in Lists : is_head(links, head(l)) /\ is_tail(links, tail(l))
  /\ \A t \in Threads : call[t] \in RemoveCalls => is_interior(links, call[t].elem)
  /\ \A l \in Lists : Elements(links, l) = Reverse(ElementsBack(links, l))
  /\ \A l, k \in Lists : l # k => In(l) \cap In(k) = {}
  /\ \A e \in Elems :
       (holder[e] = Nobody \/ \E t \in Threads : Removing(t, e))
         <=> \E l \in Lists : e \in In(l) /\ owner[e] = l

(* While a list has elements, no more threads sleep on it than can: each   *)
(* element a sleeper could take has a thread awake that will look for it   *)
(* (vtslist.c:31, 54: one signal per push, each waiter looks again).       *)
NoLostWakeup ==
  \A l \in Lists :
    (\E t \in asleep : call[t].list = l)
      => Len(Elements(links, l)) <= Cardinality({t \in woken : call[t].list = l})

Contents == [l \in Lists |-> Elements(links, l)]
Held     == [t \in Threads |-> {e \in Elems : holder[e] = t /\ ~Removing(t, e)}]

(* The lists are the shared deques of vtslist.h: every operation takes     *)
(* effect at once, between its call and its return, however the calls      *)
(* interleave.                                                             *)
Abstract == INSTANCE Deques WITH deque <- Contents, has <- Held

ImplementsDeques == Abstract!Spec
=============================================================================
