------------------------------ MODULE VdsProofs ------------------------------
(***************************************************************************)
(* Theorems about the two parts of milestone2/vds that are made of the     *)
(* lists of util/list.c: first VtsList, for any threads, elements, queues  *)
(* and buckets, then DirtySet, for any keys, hash and entries.             *)
(***************************************************************************)
EXTENDS VtsListInv, DirtySetInv, ListProofs

(***************************************************************************)
(*                                VtsList                                  *)
(***************************************************************************)

(***************************************************************************)
(* The memory                                                              *)
(***************************************************************************)
LEMMA MemoryFinite == IsFiniteSet(Memory) /\ Null \notin Memory
<1>1. IsFiniteSet(Heads)
  <2> DEFINE f == [l \in Lists |-> head(l)]
  <2>1. f \in Surjection(Lists, Heads)
    BY DEF Surjection, Heads
  <2> QED BY <2>1, FS_Surjection, ConstantsAssumption
<1>2. IsFiniteSet(Tails)
  <2> DEFINE f == [l \in Lists |-> tail(l)]
  <2>1. f \in Surjection(Lists, Tails)
    BY DEF Surjection, Tails
  <2> QED BY <2>1, FS_Surjection, ConstantsAssumption
<1> QED BY <1>1, <1>2, FS_Union, ConstantsAssumption DEF Memory

LEMMA ListCells ==
  ASSUME NEW l \in Lists
  PROVE  /\ head(l) \in Memory /\ tail(l) \in Memory /\ head(l) # tail(l)
         /\ head(l) \notin Elems /\ tail(l) \notin Elems
         /\ \A k \in Lists : k # l =>
              {head(l), tail(l)} \cap {head(k), tail(k)} = {}
<1>1. head(l) \in Heads /\ tail(l) \in Tails
  BY DEF Heads, Tails
<1>2. \A k \in Lists : k # l => {head(l), tail(l)} \cap {head(k), tail(k)} = {}
  BY DEF head, tail
<1> QED BY <1>1, <1>2, ConstantsAssumption DEF Memory, head, tail

LEMMA ReadsAs ==
  ASSUME NEW m \in Memories(Memory), NEW l, NEW s, Chain(m, l, s)
  PROVE  Elements(m, l) = s /\ ElementsBack(m, l) = Reverse(s)
BY MemoryFinite, ChainReads

LEMMA VtsArena == Arena(Memory, Lists, Elems)
BY MemoryFinite, ListCells DEF Arena, Memory

LEMMA OfLinked ==
  ASSUME NEW m \in Memories(Memory), LinkedIn(m), NEW l \in Lists
  PROVE  /\ Chain(m, l, Elements(m, l)) /\ ToSet(Elements(m, l)) \subseteq Elems
         /\ Elements(m, l) \in Seq(Elems)
         /\ \A k \in Lists : k # l =>
              /\ ToSet(Elements(m, l)) \cap ToSet(Elements(m, k)) = {}
              /\ Cells(l, Elements(m, l)) \cap Cells(k, Elements(m, k)) = {}
BY VtsArena, LinkedParts DEF LinkedIn

(* The list l gained or lost e and reads t now, and the others are as they *)
(* were.                                                                   *)
Grown(m, w, l, e, t)  == ListGains(Memory, Lists, Elems, m, w, l, e, t)
Shrunk(m, w, l, e, t) == ListLoses(Memory, Lists, Elems, m, w, l, e, t)

LEMMA PushLinks ==
  ASSUME NEW m \in Memories(Memory), LinkedIn(m), NEW l \in Lists, NEW e \in Elems,
         \A k \in Lists : e \notin ToSet(Elements(m, k)), NEW w, NEW t,
         \/ w = list_push_back(m, l, e) /\ t = Append(Elements(m, l), e)
         \/ w = list_push_front(m, l, e) /\ t = <<e>> \o Elements(m, l)
  PROVE  Grown(m, w, l, e, t)
BY VtsArena, LinkedPush DEF LinkedIn, Grown

LEMMA TakeLinks ==
  ASSUME NEW m \in Memories(Memory), LinkedIn(m), NEW l \in Lists,
         NEW s, s = Elements(m, l), NEW j \in 1 .. Len(s), NEW w, w = list_remove(m, s[j])
  PROVE  Shrunk(m, w, l, s[j], RemoveAt(s, j))
BY VtsArena, LinkedTake DEF LinkedIn, Shrunk

(***************************************************************************)
(* Calls                                                                   *)
(***************************************************************************)
LEMMA CallKinds ==
  /\ \A c \in PushCalls : /\ c.elem \in Elems /\ c.list \in Lists
                          /\ c.op \in {"push_front", "push_back"}
                          /\ c \notin PopCalls /\ c \notin RemoveCalls /\ c # NoCall
  /\ \A c \in PopCalls : /\ c.list \in Lists
                         /\ c.op \in {"pop_front", "pop_back", "try_pop_front", "try_pop_back"}
                         /\ c \notin PushCalls /\ c \notin RemoveCalls /\ c # NoCall
  /\ \A c \in RemoveCalls : /\ c.elem \in Elems
                            /\ c \notin PushCalls /\ c \notin PopCalls /\ c # NoCall
  /\ NoCall \notin PushCalls /\ NoCall \notin PopCalls /\ NoCall \notin RemoveCalls
<1>1. NoCall \notin PushCalls /\ NoCall \notin PopCalls /\ NoCall \notin RemoveCalls
  BY ConstantsAssumption
<1>2. ASSUME NEW c \in PushCalls
      PROVE  /\ c.elem \in Elems /\ c.list \in Lists /\ c.op \in {"push_front", "push_back"}
             /\ c \notin PopCalls /\ c \notin RemoveCalls
  BY DEF PushCalls, PopCalls, RemoveCalls
<1>3. ASSUME NEW c \in PopCalls
      PROVE  /\ c.list \in Lists /\ c \notin PushCalls /\ c \notin RemoveCalls
             /\ c.op \in {"pop_front", "pop_back", "try_pop_front", "try_pop_back"}
  BY DEF PushCalls, PopCalls, RemoveCalls
<1>4. ASSUME NEW c \in RemoveCalls
      PROVE  c.elem \in Elems /\ c \notin PushCalls /\ c \notin PopCalls
  BY DEF PushCalls, PopCalls, RemoveCalls
<1> QED BY <1>1, <1>2, <1>3, <1>4

LEMMA RemoveIs ==
  ASSUME NEW c, NEW e \in Elems
  PROVE  c = [op |-> "remove", elem |-> e] <=> c \in RemoveCalls /\ c.elem = e
BY DEF RemoveCalls

LEMMA Removings ==
  ASSUME NEW t, NEW e \in Elems
  PROVE  /\ Removing(t, e) <=> call[t] \in RemoveCalls /\ call[t].elem = e
         /\ Removing(t, e)' <=> call'[t] \in RemoveCalls /\ call'[t].elem = e
BY RemoveIs DEF Removing

(***************************************************************************)
(* What the invariant says, now and next                                   *)
(***************************************************************************)
AllCalls == PushCalls \cup PopCalls \cup RemoveCalls \cup {NoCall}

LEMMA TypesNow ==
  Inv => /\ links \in Memories(Memory) /\ LinkedIn(links)
         /\ owner \in [Elems -> Lists \cup {Null}]
         /\ holder \in [Elems -> Threads \cup {Nobody}]
         /\ call \in [Threads -> AllCalls]
         /\ asleep \subseteq Threads /\ woken \subseteq Threads
         /\ clearing \in [Threads -> Elems \cup {Null}]
BY DEF Inv, TypeOK, Memories, AllCalls

LEMMA TypesNext ==
  ASSUME links' \in Memories(Memory), owner' \in [Elems -> Lists \cup {Null}],
         holder' \in [Elems -> Threads \cup {Nobody}], call' \in [Threads -> AllCalls],
         asleep' \subseteq Threads, woken' \subseteq Threads,
         clearing' \in [Threads -> Elems \cup {Null}]
  PROVE  TypeOK'
BY DEF TypeOK, Memories, AllCalls

Lies(m, e)  == \E l \in Lists : e \in ToSet(Elements(m, l))
Waiting(c)  == c \in PopCalls /\ c.op \in {"pop_front", "pop_back"}

LEMMA OwnersNow ==
  Inv => /\ \A l \in Lists : \A e \in ToSet(Elements(links, l)) : owner[e] = l
         /\ \A e \in Elems : Lies(links, e)
              <=> holder[e] = Nobody \/ \E t \in Threads : Removing(t, e)
BY DEF Inv, Owners, In, Lies

LEMMA OwnersNext ==
  ASSUME \A l \in Lists : \A e \in ToSet(Elements(links', l)) : owner'[e] = l,
         \A e \in Elems : Lies(links', e)
           <=> holder'[e] = Nobody \/ \E t \in Threads : Removing(t, e)'
  PROVE  Owners'
BY DEF Owners, In, Lies

CallOf(t) ==
  /\ call[t] \in PushCalls =>
       holder[call[t].elem] = t /\ owner[call[t].elem] = call[t].list
  /\ call[t] \in RemoveCalls =>
       /\ holder[call[t].elem] = t
       /\ \E l \in Buckets : call[t].elem \in ToSet(Elements(links, l))
  /\ call[t] \in PopCalls => call[t].list \in Queues
  /\ clearing[t] # Null => call[t] = NoCall /\ holder[clearing[t]] = t
  /\ t \in asleep \cup woken => Waiting(call[t])
  /\ ~(t \in asleep /\ t \in woken)

LEMMA CallsNow ==
  ASSUME Inv, NEW t \in Threads
  PROVE  CallOf(t)
BY DEF Inv, Calls, In, Waiting, CallOf

LEMMA CallsNext ==
  ASSUME \A t \in Threads : CallOf(t)'
  PROVE  Calls'
BY DEF Calls, In, Waiting, CallOf

(* An element that a thread holds, and is not about to remove, lies in no  *)
(* list.                                                                   *)
LEMMA HeldLiesNowhere ==
  ASSUME Inv, NEW t \in Threads, NEW e \in Elems, holder[e] = t, ~Removing(t, e)
  PROVE  ~Lies(links, e) /\ \A u \in Threads : ~Removing(u, e)
<1>1. ASSUME NEW u \in Threads PROVE ~Removing(u, e)
  BY CallsNow, Removings DEF CallOf
<1>2. holder[e] # Nobody
  BY ConstantsAssumption
<1> QED BY <1>1, <1>2, OwnersNow

(***************************************************************************)
(* Wakeups                                                                 *)
(***************************************************************************)
SleepersOn(l) == {t \in asleep : call[t].list = l}
WokenOn(l)    == {t \in woken : call[t].list = l}

LEMMA WakeupsNow ==
  ASSUME Inv, NEW l \in Lists, SleepersOn(l) # {}
  PROVE  Len(Elements(links, l)) <= Cardinality(WokenOn(l))
BY DEF Inv, NoLostWakeup, SleepersOn, WokenOn

LEMMA WakeupsNext ==
  ASSUME \A l \in Lists : SleepersOn(l)' # {} =>
           Len(Elements(links', l)) <= Cardinality(WokenOn(l)')
  PROVE  NoLostWakeup'
BY DEF NoLostWakeup, SleepersOn, WokenOn

LEMMA WokenFinite ==
  ASSUME Inv, NEW l
  PROVE  IsFiniteSet(WokenOn(l)) /\ Cardinality(WokenOn(l)) \in Nat
<1>1. WokenOn(l) \in SUBSET Threads /\ IsFiniteSet(Threads)
  BY TypesNow, ConstantsAssumption DEF WokenOn
<1> QED BY <1>1, FS_Subset, FS_CardinalityType

(* Nobody sleeps or wakes, and no list gets longer.                        *)
LEMMA QuietWakeups ==
  ASSUME Inv, asleep' = asleep, woken' = woken, \A u \in asleep \cup woken : call'[u] = call[u],
         LinkedIn(links'), links' \in Memories(Memory),
         \A l \in Lists : Len(Elements(links', l)) <= Len(Elements(links, l))
  PROVE  NoLostWakeup'
<1>1. ASSUME NEW l \in Lists, SleepersOn(l)' # {}
      PROVE  Len(Elements(links', l)) <= Cardinality(WokenOn(l)')
  <2>1. SleepersOn(l)' = SleepersOn(l) /\ WokenOn(l)' = WokenOn(l)
    BY DEF SleepersOn, WokenOn
  <2>2. Len(Elements(links, l)) <= Cardinality(WokenOn(l))
    BY <1>1, <2>1, WakeupsNow
  <2>3. Cardinality(WokenOn(l)) \in Nat
    BY WokenFinite
  <2>4. Len(Elements(links, l)) \in Nat /\ Len(Elements(links', l)) \in Nat
    <3>1. Elements(links, l) \in Seq(Elems) /\ Elements(links', l) \in Seq(Elems)
      BY TypesNow, OfLinked
    <3> QED BY <3>1, LenProperties
  <2> QED BY <2>1, <2>2, <2>3, <2>4
<1> QED BY <1>1, WakeupsNext

(***************************************************************************)
(* Initially                                                               *)
(***************************************************************************)
LEMMA InitHolds == Init => Inv
<1> SUFFICES ASSUME Init PROVE Inv
  OBVIOUS
<1>1. links \in Memories(Memory)
  <2> DEFINE U == [y \in Memory |-> Unlinked]
  <2>1. ASSUME NEW x \in Memory PROVE links[x] \in [prev : Memory \cup {Null}, next : Memory \cup {Null}]
    <3>1. CASE x \in Elems
      BY <3>1 DEF Init, vtslist_init, Unlinked
    <3>2. CASE x \notin Elems
      <4>1. PICK l \in Lists : x = head(l) \/ x = tail(l)
        BY <3>2 DEF Memory, Heads, Tails
      <4>2. x[1] = l
        BY <4>1 DEF head, tail
      <4>3. links[x] = list_init(U, l)[x]
        BY <3>2, <4>2 DEF Init, vtslist_init
      <4>4. head(l) \in Memory /\ tail(l) \in Memory /\ head(l) # tail(l)
        BY ListCells
      <4>5. /\ list_init(U, l)[head(l)] = [prev |-> Null, next |-> tail(l)]
            /\ list_init(U, l)[tail(l)] = [prev |-> head(l), next |-> Null]
        BY <4>4 DEF list_init
      <4> QED BY <4>1, <4>3, <4>4, <4>5
    <3> QED BY <3>1, <3>2
  <2>2. links = [x \in Memory |-> links[x]]
    BY DEF Init, vtslist_init
  <2> QED BY <2>1, <2>2 DEF Memories
<1>2. ASSUME NEW l \in Lists PROVE Chain(links, l, <<>>) /\ Elements(links, l) = <<>>
  <2>1. head(l) \in Memory /\ tail(l) \in Memory /\ head(l) # tail(l)
        /\ head(l) \notin Elems /\ tail(l) \notin Elems
    BY ListCells
  <2> DEFINE U == [y \in Memory |-> Unlinked]
  <2>2. head(l)[1] = l /\ tail(l)[1] = l
    BY DEF head, tail
  <2>3. links[head(l)] = list_init(U, l)[head(l)] /\ links[tail(l)] = list_init(U, l)[tail(l)]
    BY <2>1, <2>2 DEF Init, vtslist_init
  <2>4. /\ list_init(U, l)[head(l)] = [prev |-> Null, next |-> tail(l)]
        /\ list_init(U, l)[tail(l)] = [prev |-> head(l), next |-> Null]
    BY <2>1 DEF list_init
  <2>5. Chain(links, l, <<>>)
    BY <1>1, <2>1, <2>3, <2>4, InitChain
  <2> QED BY <1>1, <2>5, ReadsAs
<1>3. ToSet(<<>>) = {}
  BY DEF ToSet
<1>4. LinkedIn(links)
  BY <1>2, <1>3 DEF LinkedIn, Linked
<1>5. TypeOK
  <2>1. owner \in [Elems -> Lists \cup {Null}] /\ holder \in [Elems -> Threads \cup {Nobody}]
    BY DEF Init
  <2>2. call \in [Threads -> AllCalls] /\ clearing \in [Threads -> Elems \cup {Null}]
    BY DEF Init, AllCalls
  <2>3. asleep \subseteq Threads /\ woken \subseteq Threads
    BY DEF Init
  <2> QED BY <1>1, <2>1, <2>2, <2>3 DEF TypeOK, Memories, AllCalls
<1>6. \A l \in Lists : In(l) = {}
  BY <1>2, <1>3 DEF In
<1>7. Owners
  <2>1. ASSUME NEW e \in Elems
        PROVE  holder[e] # Nobody /\ \A t \in Threads : ~Removing(t, e)
    <3>1. holder[e] \in Threads /\ \A t \in Threads : call[t] = NoCall
      BY DEF Init
    <3> QED BY <3>1, CallKinds, Removings, ConstantsAssumption
  <2> QED BY <1>6, <2>1 DEF Owners
<1>8. Calls
  <2>1. \A t \in Threads : call[t] = NoCall /\ clearing[t] = Null /\ t \notin asleep \cup woken
    BY DEF Init
  <2> QED BY <2>1, CallKinds DEF Calls
<1>9. NoLostWakeup
  BY DEF NoLostWakeup, Init
<1> QED BY <1>4, <1>5, <1>7, <1>8, <1>9 DEF Inv

(***************************************************************************)
(* The beginning of a call                                                 *)
(***************************************************************************)
LEMMA SameLists ==
  ASSUME Inv, links' = links
  PROVE  /\ links' \in Memories(Memory) /\ LinkedIn(links')
         /\ \A l : Elements(links', l) = Elements(links, l)
         /\ \A l \in Lists : Len(Elements(links', l)) <= Len(Elements(links, l))
<1>1. links \in Memories(Memory) /\ LinkedIn(links)
  BY TypesNow
<1>2. \A l \in Lists : Len(Elements(links, l)) \in Nat
  BY <1>1, OfLinked, LenProperties
<1> QED BY <1>1, <1>2

LEMMA Idle ==
  ASSUME Inv, NEW t \in Threads, call[t] \notin PopCalls
  PROVE  t \notin asleep /\ t \notin woken
BY CallsNow DEF CallOf, Waiting

LEMMA PushBeginsHolds ==
  ASSUME Inv, NEW t \in Threads, PushBegins(t)
  PROVE  Inv'
<1>1. PICK c \in PushCalls :
        /\ call[t] = NoCall /\ clearing[t] = Null /\ call' = [call EXCEPT ![t] = c]
        /\ holder[c.elem] = t /\ owner' = [owner EXCEPT ![c.elem] = c.list]
        /\ UNCHANGED <<links, holder, asleep, woken, clearing>>
  BY DEF PushBegins, Begins, Free, Owned
<1>2. c.elem \in Elems /\ c.list \in Lists /\ c \notin RemoveCalls /\ c \notin PopCalls
      /\ call[t] \notin PushCalls /\ call[t] \notin RemoveCalls /\ call[t] \notin PopCalls
  BY <1>1, CallKinds
<1>3. t \notin asleep /\ t \notin woken
  BY <1>2, Idle
<1>4. /\ links' \in Memories(Memory) /\ LinkedIn(links')
      /\ \A l : Elements(links', l) = Elements(links, l)
      /\ \A l \in Lists : Len(Elements(links', l)) <= Len(Elements(links, l))
  BY <1>1, SameLists
<1>5. ~Lies(links, c.elem)
  BY <1>1, <1>2, HeldLiesNowhere, Removings
<1>6. TypeOK'
  BY <1>1, <1>2, <1>4, TypesNow, TypesNext DEF AllCalls
<1>7. call'[t] = c /\ \A u \in Threads : u # t => call'[u] = call[u]
  BY <1>1, TypesNow
<1>8. Owners'
  <2>1. ASSUME NEW l \in Lists, NEW e \in ToSet(Elements(links', l)) PROVE owner'[e] = l
    <3>1. e \in ToSet(Elements(links, l)) /\ owner[e] = l /\ e # c.elem
      BY <1>4, <1>5, <2>1, OwnersNow DEF Lies
    <3> QED BY <1>1, <3>1, TypesNow
  <2>2. ASSUME NEW e \in Elems, NEW u \in Threads PROVE Removing(u, e)' <=> Removing(u, e)
    BY <1>2, <1>7, Removings
  <2>3. ASSUME NEW e \in Elems
        PROVE  Lies(links', e) <=> holder'[e] = Nobody \/ \E u \in Threads : Removing(u, e)'
    BY <1>1, <2>2, OwnersNow
  <2> QED BY <2>1, <2>3, OwnersNext
<1>9. Calls'
  <2>1. ASSUME NEW u \in Threads PROVE CallOf(u)'
    <3>1. CASE u = t
      BY <1>1, <1>2, <1>3, <1>7, <3>1, TypesNow DEF CallOf
    <3>2. CASE u # t
      <4>1. CallOf(u) /\ call'[u] = call[u]
        BY <1>7, <3>2, CallsNow
      <4>2. call[u] \in PushCalls => owner'[call[u].elem] = owner[call[u].elem]
        <5>1. SUFFICES ASSUME call[u] \in PushCalls PROVE owner'[call[u].elem] = owner[call[u].elem]
          OBVIOUS
        <5>2. holder[call[u].elem] = u /\ call[u].elem \in Elems
          BY <4>1, <5>1, CallKinds DEF CallOf
        <5> QED BY <1>1, <3>2, <5>2, TypesNow
      <4> QED BY <1>1, <4>1, <4>2 DEF CallOf, Waiting
    <3> QED BY <3>1, <3>2
  <2> QED BY <2>1, CallsNext
<1>10. NoLostWakeup'
  <2>1. \A u \in asleep \cup woken : call'[u] = call[u]
    BY <1>3, <1>7, TypesNow
  <2> QED BY <1>1, <1>4, <2>1, QuietWakeups
<1> QED BY <1>4, <1>6, <1>8, <1>9, <1>10 DEF Inv

LEMMA PopBeginsHolds ==
  ASSUME Inv, NEW t \in Threads, PopBegins(t)
  PROVE  Inv'
<1>1. PICK c \in PopCalls :
        /\ call[t] = NoCall /\ clearing[t] = Null /\ call' = [call EXCEPT ![t] = c]
        /\ c.list \in Queues /\ UNCHANGED <<links, owner, holder, asleep, woken, clearing>>
  BY DEF PopBegins, Begins, Free
<1>2. c \notin PushCalls /\ c \notin RemoveCalls
      /\ call[t] \notin PushCalls /\ call[t] \notin RemoveCalls /\ call[t] \notin PopCalls
  BY <1>1, CallKinds
<1>3. t \notin asleep /\ t \notin woken
  BY <1>2, Idle
<1>4. /\ links' \in Memories(Memory) /\ LinkedIn(links')
      /\ \A l : Elements(links', l) = Elements(links, l)
      /\ \A l \in Lists : Len(Elements(links', l)) <= Len(Elements(links, l))
  BY <1>1, SameLists
<1>5. TypeOK'
  BY <1>1, <1>4, TypesNow, TypesNext DEF AllCalls
<1>6. call'[t] = c /\ \A u \in Threads : u # t => call'[u] = call[u]
  BY <1>1, TypesNow
<1>7. Owners'
  <2>1. ASSUME NEW e \in Elems, NEW u \in Threads PROVE Removing(u, e)' <=> Removing(u, e)
    BY <1>2, <1>6, Removings
  <2> QED BY <1>1, <2>1, OwnersNow, OwnersNext
<1>8. Calls'
  <2>1. ASSUME NEW u \in Threads PROVE CallOf(u)'
    <3>1. CASE u = t
      BY <1>1, <1>2, <1>3, <1>6, <3>1 DEF CallOf
    <3>2. CASE u # t
      <4>1. CallOf(u) /\ call'[u] = call[u]
        BY <1>6, <3>2, CallsNow
      <4> QED BY <1>1, <4>1 DEF CallOf, Waiting
    <3> QED BY <3>1, <3>2
  <2> QED BY <2>1, CallsNext
<1>9. NoLostWakeup'
  <2>1. \A u \in asleep \cup woken : call'[u] = call[u]
    BY <1>3, <1>6, TypesNow
  <2> QED BY <1>1, <1>4, <2>1, QuietWakeups
<1> QED BY <1>4, <1>5, <1>7, <1>8, <1>9 DEF Inv

LEMMA RemoveBeginsHolds ==
  ASSUME Inv, NEW t \in Threads, RemoveBegins(t)
  PROVE  Inv'
<1>1. PICK c \in RemoveCalls :
        /\ \E l \in Buckets : c.elem \in ToSet(Elements(links, l))
        /\ holder[c.elem] = Nobody
        /\ call[t] = NoCall /\ clearing[t] = Null /\ call' = [call EXCEPT ![t] = c]
        /\ holder' = [holder EXCEPT ![c.elem] = t]
        /\ UNCHANGED <<links, owner, asleep, woken, clearing>>
  BY DEF RemoveBegins, Begins, Free, In
<1>2. c.elem \in Elems /\ c \notin PushCalls /\ c \notin PopCalls
      /\ call[t] \notin PushCalls /\ call[t] \notin RemoveCalls /\ call[t] \notin PopCalls
  BY <1>1, CallKinds
<1>3. t \notin asleep /\ t \notin woken
  BY <1>2, Idle
<1>4. /\ links' \in Memories(Memory) /\ LinkedIn(links')
      /\ \A l : Elements(links', l) = Elements(links, l)
      /\ \A l \in Lists : Len(Elements(links', l)) <= Len(Elements(links, l))
  BY <1>1, SameLists
<1>5. TypeOK'
  BY <1>1, <1>2, <1>4, TypesNow, TypesNext DEF AllCalls
<1>6. call'[t] = c /\ \A u \in Threads : u # t => call'[u] = call[u]
  BY <1>1, TypesNow
<1>7. holder'[c.elem] = t /\ \A e \in Elems : e # c.elem => holder'[e] = holder[e]
  BY <1>1, <1>2, TypesNow
<1>8. Owners'
  <2>1. ASSUME NEW e \in Elems, NEW u \in Threads, e # c.elem
        PROVE  Removing(u, e)' <=> Removing(u, e)
    BY <1>2, <1>6, <2>1, Removings
  <2>2. Removing(t, c.elem)'
    BY <1>1, <1>2, <1>6, Removings
  <2>3. Lies(links, c.elem)
    BY <1>1 DEF Lies, Lists
  <2>4. ASSUME NEW e \in Elems
        PROVE  Lies(links', e) <=> holder'[e] = Nobody \/ \E u \in Threads : Removing(u, e)'
    <3>1. CASE e = c.elem
      BY <1>1, <2>2, <2>3, <3>1
    <3>2. CASE e # c.elem
      BY <1>1, <1>7, <2>1, <3>2, OwnersNow
    <3> QED BY <3>1, <3>2
  <2> QED BY <1>1, <2>4, OwnersNow, OwnersNext
<1>9. Calls'
  <2>1. ASSUME NEW u \in Threads PROVE CallOf(u)'
    <3>1. CASE u = t
      BY <1>1, <1>2, <1>3, <1>6, <1>7, <3>1 DEF CallOf
    <3>2. CASE u # t
      <4>1. CallOf(u) /\ call'[u] = call[u] /\ u # Nobody
        BY <1>6, <3>2, CallsNow, ConstantsAssumption
      <4>2. \A e \in Elems : holder[e] = u => holder'[e] = u
        BY <1>1, <1>7, <4>1
      <4>3. /\ call[u] \in PushCalls \cup RemoveCalls => call[u].elem \in Elems
            /\ clearing[u] # Null => clearing[u] \in Elems
        BY CallKinds, TypesNow
      <4> QED BY <1>1, <4>1, <4>2, <4>3 DEF CallOf, Waiting
    <3> QED BY <3>1, <3>2
  <2> QED BY <2>1, CallsNext
<1>10. NoLostWakeup'
  <2>1. \A u \in asleep \cup woken : call'[u] = call[u]
    BY <1>3, <1>6, TypesNow
  <2> QED BY <1>1, <1>4, <2>1, QuietWakeups
<1> QED BY <1>4, <1>5, <1>8, <1>9, <1>10 DEF Inv

(***************************************************************************)
(* Under the mutex                                                         *)
(***************************************************************************)

(* What a push does to the lists.                                          *)
PushDone(t) ==
  LET c == call[t]
      s == Elements(links, c.list)
  IN /\ c \in PushCalls /\ holder[c.elem] = t /\ owner[c.elem] = c.list
     /\ ~Lies(links, c.elem) /\ \A u \in Threads : ~Removing(u, c.elem)
     /\ Grown(links, links', c.list, c.elem,
              IF c.op = "push_back" THEN Append(s, c.elem) ELSE <<c.elem>> \o s)

LEMMA PushLockedDoes ==
  ASSUME Inv, NEW t \in Threads, PushLocked(t)
  PROVE  PushDone(t)
<1> DEFINE c == call[t]
           l == c.list
           e == c.elem
           w == links'
           s == Elements(links, l)
           r == IF c.op = "push_back" THEN Append(s, e) ELSE <<e>> \o s
<1>1. c \in PushCalls /\ w = Pushed(c)
  BY DEF PushLocked
<1>2. l \in Lists /\ e \in Elems /\ c \notin RemoveCalls /\ holder[e] = t /\ owner[e] = l
  BY <1>1, CallKinds, CallsNow DEF CallOf
<1>3. ~Lies(links, e) /\ \A u \in Threads : ~Removing(u, e)
  BY <1>2, Removings, HeldLiesNowhere
<1>4. \/ w = list_push_back(links, l, e) /\ r = Append(s, e)
      \/ w = list_push_front(links, l, e) /\ r = <<e>> \o s
  BY <1>1 DEF Pushed
<1>5. links \in Memories(Memory) /\ LinkedIn(links)
      /\ \A k \in Lists : e \notin ToSet(Elements(links, k))
  BY <1>3, TypesNow DEF Lies
<1> HIDE DEF w, r, l, e
<1>6. Grown(links, w, l, e, r)
  BY <1>2, <1>4, <1>5, PushLinks
<1> QED BY <1>1, <1>2, <1>3, <1>6 DEF PushDone, w, r, l, e

LEMMA PushLockedHolds ==
  ASSUME Inv, NEW t \in Threads, PushLocked(t)
  PROVE  Inv'
<1> DEFINE c == call[t]
           l == c.list
           e == c.elem
           s == Elements(links', l)
<1>1. /\ c \in PushCalls /\ l \in Lists /\ e \in Elems /\ holder[e] = t /\ owner[e] = l
      /\ links' \in Memories(Memory) /\ LinkedIn(links')
      /\ ~Lies(links, e)
      /\ \A u \in Threads : ~Removing(u, e)
      /\ ToSet(s) = ToSet(Elements(links, l)) \cup {e}
      /\ Len(s) = Len(Elements(links, l)) + 1
      /\ \A k \in Lists : k # l => Elements(links', k) = Elements(links, k)
  <2>1. PushDone(t)
    BY PushLockedDoes
  <2>2. call[t].list \in Lists /\ call[t].elem \in Elems
    BY <2>1, CallKinds DEF PushDone
  <2> QED BY <2>1, <2>2 DEF PushDone, Grown, ListGains, ListIs, LinkedIn
<1>2. /\ holder' = [holder EXCEPT ![e] = Nobody] /\ call' = [call EXCEPT ![t] = NoCall]
      /\ Signal(l) /\ UNCHANGED <<owner, clearing>>
  BY DEF PushLocked, Returns
<1>3. c \notin PopCalls /\ c \notin RemoveCalls /\ c # NoCall
  BY <1>1, CallKinds
<1>4. t \notin asleep /\ t \notin woken
  BY <1>3, Idle
<1> HIDE DEF c, l, e, s
<1>5. call'[t] = NoCall /\ \A u \in Threads : u # t => call'[u] = call[u]
  BY <1>2, TypesNow
<1>6. holder'[e] = Nobody /\ \A x \in Elems : x # e => holder'[x] = holder[x]
  BY <1>1, <1>2, TypesNow
<1>7. \/ /\ SleepersOn(l) = {} /\ asleep' = asleep /\ woken' = woken
      \/ \E w \in SleepersOn(l) : asleep' = asleep \ {w} /\ woken' = woken \cup {w}
  BY <1>2 DEF Signal, SleepersOn
<1>8. /\ asleep' \subseteq asleep /\ woken \subseteq woken' /\ asleep' \cup woken' = asleep \cup woken
      /\ \A u \in Threads : ~(u \in asleep' /\ u \in woken')
  <2>1. \A u \in Threads : ~(u \in asleep /\ u \in woken)
    BY CallsNow DEF CallOf
  <2> QED BY <1>7, <2>1, TypesNow DEF SleepersOn
<1>9. TypeOK'
  <2>1. asleep' \subseteq Threads /\ woken' \subseteq Threads
    BY <1>8, TypesNow
  <2> QED BY <1>1, <1>2, <2>1, TypesNow, TypesNext DEF AllCalls
<1>10. Owners'
  <2>1. ASSUME NEW k \in Lists, NEW x \in ToSet(Elements(links', k)) PROVE owner'[x] = k
    <3>1. CASE k = l /\ x = e
      BY <1>1, <1>2, <3>1
    <3>2. CASE ~(k = l /\ x = e)
      <4>1. x \in ToSet(Elements(links, k))
        BY <1>1, <2>1, <3>2 DEF s
      <4> QED BY <1>2, <4>1, OwnersNow
    <3> QED BY <3>1, <3>2
  <2>2. ASSUME NEW x \in Elems, NEW u \in Threads PROVE Removing(u, x)' <=> Removing(u, x)
    BY <1>3, <1>5, CallKinds, Removings DEF c
  <2>3. ASSUME NEW x \in Elems
        PROVE  Lies(links', x) <=> holder'[x] = Nobody \/ \E u \in Threads : Removing(u, x)'
    <3>1. CASE x = e
      <4>1. Lies(links', e)
        BY <1>1 DEF Lies, s
      <4> QED BY <1>6, <3>1, <4>1
    <3>2. CASE x # e
      <4>1. Lies(links', x) <=> Lies(links, x)
        BY <1>1, <3>2 DEF Lies, s
      <4> QED BY <1>6, <2>2, <3>2, <4>1, OwnersNow
    <3> QED BY <3>1, <3>2
  <2> QED BY <2>1, <2>3, OwnersNext
<1>11. Calls'
  <2>1. ASSUME NEW u \in Threads PROVE CallOf(u)'
    <3>1. CASE u = t
      <4>1. clearing[t] = Null
        BY <1>3, CallsNow DEF CallOf, c
      <4>2. t \notin asleep' \cup woken'
        BY <1>4, <1>8
      <4> QED BY <1>2, <1>5, <1>8, <3>1, <4>1, <4>2, CallKinds DEF CallOf
    <3>2. CASE u # t
      <4>1. CallOf(u) /\ call'[u] = call[u]
        BY <1>5, <3>2, CallsNow
      <4>2. \A x \in Elems : holder[x] = u => holder'[x] = u
        BY <1>1, <1>6, <3>2
      <4>3. /\ call[u] \in PushCalls \cup RemoveCalls => call[u].elem \in Elems
            /\ clearing[u] # Null => clearing[u] \in Elems
        BY CallKinds, TypesNow
      <4>4. \A k \in Buckets, x \in Elems : x \in ToSet(Elements(links, k)) =>
              x \in ToSet(Elements(links', k))
        BY <1>1 DEF s, Lists
      <4>5. u \in asleep' \cup woken' => u \in asleep \cup woken
        BY <1>8
      <4>6. ~(u \in asleep' /\ u \in woken')
        BY <1>8
      <4> QED BY <1>2, <4>1, <4>2, <4>3, <4>4, <4>5, <4>6 DEF CallOf, Waiting
    <3> QED BY <3>1, <3>2
  <2> QED BY <2>1, CallsNext
<1>12. NoLostWakeup'
  <2>1. \A u \in asleep \cup woken : call'[u] = call[u]
    BY <1>4, <1>5, TypesNow
  <2>2. ASSUME NEW k \in Lists, SleepersOn(k)' # {}
        PROVE  Len(Elements(links', k)) <= Cardinality(WokenOn(k)')
    <3>1. SleepersOn(k)' \subseteq SleepersOn(k)
      BY <1>8, <2>1 DEF SleepersOn
    <3>2. SleepersOn(k) # {}
      BY <2>2, <3>1
    <3>3. Len(Elements(links, k)) <= Cardinality(WokenOn(k))
          /\ IsFiniteSet(WokenOn(k)) /\ Cardinality(WokenOn(k)) \in Nat
      BY <3>2, WakeupsNow, WokenFinite
    <3>4. Len(Elements(links, k)) \in Nat
      BY TypesNow, OfLinked, LenProperties
    <3>5. CASE k # l
      <4>1. WokenOn(k)' = WokenOn(k)
        <5>1. ASSUME NEW w \in SleepersOn(l) PROVE call[w].list # k
          BY <3>5 DEF SleepersOn
        <5> QED BY <1>7, <2>1, <5>1 DEF WokenOn, SleepersOn
      <4> QED BY <1>1, <3>3, <3>5, <4>1
    <3>6. CASE k = l
      <4>1. PICK w \in SleepersOn(k) : woken' = woken \cup {w}
        BY <1>7, <3>2, <3>6
      <4>2. w \in asleep /\ w \in Threads /\ call[w].list = k /\ call'[w].list = k
        BY <2>1, <4>1, TypesNow DEF SleepersOn
      <4>3. w \notin WokenOn(k) /\ WokenOn(k)' = WokenOn(k) \cup {w}
        <5>1. w \notin woken
          BY <4>2, CallsNow DEF CallOf
        <5> QED BY <2>1, <4>1, <4>2, <5>1 DEF WokenOn
      <4>4. Cardinality(WokenOn(k)') = Cardinality(WokenOn(k)) + 1
        BY <3>3, <4>3, FS_AddElement
      <4>5. Len(Elements(links', k)) = Len(Elements(links, k)) + 1
        BY <1>1, <3>6 DEF s
      <4> QED BY <3>3, <3>4, <4>4, <4>5
    <3> QED BY <3>5, <3>6
  <2> QED BY <2>2, WakeupsNext
<1> QED BY <1>1, <1>9, <1>10, <1>11, <1>12 DEF Inv

(* What a pop that finds an element does to the lists.                     *)
Fore(c) == c.op \in {"pop_front", "try_pop_front"}
End(c)  == IF Fore(c) THEN 1 ELSE Len(Elements(links, c.list))

PopDone(t) ==
  LET c == call[t]
      s == Elements(links, c.list)
      j == End(c)
  IN /\ c \in PopCalls /\ c.list \in Queues /\ t \notin asleep
     /\ j \in 1 .. Len(s) /\ s[j] \in Elems
     /\ RemoveAt(s, j) = IF Fore(c) THEN Tail(s) ELSE Front(s)
     /\ Shrunk(links, links', c.list, s[j], RemoveAt(s, j))
     /\ holder[s[j]] = Nobody /\ holder' = [holder EXCEPT ![s[j]] = t]
     /\ \A u \in Threads : ~Removing(u, s[j])

LEMMA PopTakesDoes ==
  ASSUME Inv, NEW t \in Threads, PopTakes(t)
  PROVE  PopDone(t)
<1> DEFINE c == call[t]
           l == c.list
           s == Elements(links, l)
           j == End(c)
           w == links'
<1>1. c \in PopCalls /\ t \notin asleep /\ ~list_empty(links, l)
  BY DEF PopTakes, Runs
<1>2. l \in Lists /\ l \in Queues
  BY <1>1, CallKinds, CallsNow DEF CallOf
<1>3. links \in Memories(Memory) /\ LinkedIn(links) /\ Null \notin Memory
  BY TypesNow, MemoryFinite
<1>4. Chain(links, l, s) /\ s \in Seq(Elems)
  BY <1>2, <1>3, OfLinked
<1>5. s # <<>>
  BY <1>1, <1>4, EmptyList
<1>6. /\ w = IF Fore(c) THEN list_pop_front(links, l) ELSE list_pop_back(links, l)
      /\ holder' = [holder EXCEPT ![IF Fore(c) THEN list_front(links, l)
                                               ELSE list_back(links, l)] = t]
  BY DEF PopTakes, Fore
<1>7. /\ j \in 1 .. Len(s) /\ w = list_remove(links, s[j])
      /\ holder' = [holder EXCEPT ![s[j]] = t]
      /\ RemoveAt(s, j) = IF Fore(c) THEN Tail(s) ELSE Front(s)
  <2> HIDE DEF w, s
  <2>1. /\ 1 \in 1 .. Len(s) /\ list_front(links, l) = s[1] /\ RemoveAt(s, 1) = Tail(s)
        /\ list_pop_front(links, l) = list_remove(links, s[1])
    BY <1>3, <1>4, <1>5, PopFront
  <2>2. /\ Len(s) \in 1 .. Len(s) /\ list_back(links, l) = s[Len(s)]
        /\ RemoveAt(s, Len(s)) = Front(s)
        /\ list_pop_back(links, l) = list_remove(links, s[Len(s)])
    BY <1>3, <1>4, <1>5, PopBack
  <2>3. CASE Fore(c)
    <3>1. j = 1
      BY <2>3 DEF End
    <3> QED BY <1>6, <2>1, <2>3, <3>1
  <2>4. CASE ~Fore(c)
    <3>1. j = Len(s)
      BY <2>4 DEF End, s
    <3> QED BY <1>6, <2>2, <2>4, <3>1
  <2> QED BY <2>3, <2>4
<1>8. s[j] \in Elems /\ s[j] \in ToSet(s)
  BY <1>4, <1>7 DEF ToSet
<1>9. Shrunk(links, w, l, s[j], RemoveAt(s, j))
  <2> HIDE DEF w, l, j
  <2> QED BY <1>2, <1>3, <1>7, TakeLinks
<1>10. \A u \in Threads : ~Removing(u, s[j])
  <2>1. SUFFICES ASSUME NEW u \in Threads, Removing(u, s[j]) PROVE FALSE
    OBVIOUS
  <2>2. PICK k \in Buckets : s[j] \in ToSet(Elements(links, k))
    BY <1>8, <2>1, CallsNow, Removings DEF CallOf
  <2>3. k \in Lists /\ k # l
    BY <1>2, ConstantsAssumption DEF Lists
  <2>4. ToSet(s) \cap ToSet(Elements(links, k)) = {}
    BY <1>2, <1>3, <2>3 DEF LinkedIn, Linked
  <2> QED BY <1>8, <2>2, <2>4
<1>11. holder[s[j]] = Nobody
  BY <1>2, <1>8, <1>10, OwnersNow DEF Lies
<1> QED BY <1>1, <1>2, <1>7, <1>8, <1>9, <1>10, <1>11 DEF PopDone

LEMMA PopTakesHolds ==
  ASSUME Inv, NEW t \in Threads, PopTakes(t)
  PROVE  Inv'
<1> DEFINE l == call[t].list
           e == Elements(links, l)[End(call[t])]
           s == Elements(links', l)
<1>1. /\ call[t] \in PopCalls /\ l \in Queues /\ t \notin asleep /\ e \in Elems
      /\ links' \in Memories(Memory) /\ LinkedIn(links')
      /\ e \in ToSet(Elements(links, l))
      /\ ToSet(s) = ToSet(Elements(links, l)) \ {e} /\ Len(s) = Len(Elements(links, l)) - 1
      /\ holder[e] = Nobody /\ holder' = [holder EXCEPT ![e] = t]
      /\ \A k \in Lists : k # l => Elements(links', k) = Elements(links, k)
      /\ \A u \in Threads : ~Removing(u, e)
  BY PopTakesDoes DEF PopDone, Shrunk, ListLoses, ListIs, LinkedIn
<1>2. /\ call' = [call EXCEPT ![t] = NoCall] /\ woken' = woken \ {t}
      /\ UNCHANGED <<owner, asleep, clearing>>
  BY DEF PopTakes, Returns
<1>3. call[t] \notin PushCalls /\ call[t] \notin RemoveCalls /\ call[t] # NoCall
      /\ l \in Lists /\ l \notin Buckets
  BY <1>1, CallKinds, ConstantsAssumption
<1> HIDE DEF e, s
<1>4. call'[t] = NoCall /\ \A u \in Threads : u # t => call'[u] = call[u]
  BY <1>2, TypesNow
<1>5. holder'[e] = t /\ \A x \in Elems : x # e => holder'[x] = holder[x]
  BY <1>1, TypesNow
<1>6. TypeOK'
  <2>1. asleep' \subseteq Threads /\ woken' \subseteq Threads
    BY <1>2, TypesNow
  <2> QED BY <1>1, <1>2, <2>1, TypesNow, TypesNext DEF AllCalls
<1>7. \A x : ~Lies(links', e) /\ (x # e => (Lies(links', x) <=> Lies(links, x)))
  <2>1. \A k \in Lists : k # l => e \notin ToSet(Elements(links, k))
    BY <1>1, <1>3, TypesNow DEF LinkedIn, Linked
  <2>2. \A k \in Lists : e \notin ToSet(Elements(links', k))
    BY <1>1, <2>1 DEF s
  <2>3. \A x : \A k \in Lists : x # e =>
          (x \in ToSet(Elements(links', k)) <=> x \in ToSet(Elements(links, k)))
    BY <1>1 DEF s
  <2> QED BY <2>2, <2>3 DEF Lies
<1>8. Owners'
  <2>1. ASSUME NEW k \in Lists, NEW x \in ToSet(Elements(links', k)) PROVE owner'[x] = k
    <3>1. x \in ToSet(Elements(links, k))
      BY <1>1, <2>1 DEF s
    <3> QED BY <1>2, <3>1, OwnersNow
  <2>2. ASSUME NEW x \in Elems, NEW u \in Threads PROVE Removing(u, x)' <=> Removing(u, x)
    BY <1>3, <1>4, CallKinds, Removings
  <2>3. ASSUME NEW x \in Elems
        PROVE  Lies(links', x) <=> holder'[x] = Nobody \/ \E u \in Threads : Removing(u, x)'
    <3>1. CASE x = e
      BY <1>1, <1>5, <1>7, <2>2, <3>1, ConstantsAssumption
    <3>2. CASE x # e
      BY <1>5, <1>7, <2>2, <3>2, OwnersNow
    <3> QED BY <3>1, <3>2
  <2> QED BY <2>1, <2>3, OwnersNext
<1>9. Calls'
  <2>1. ASSUME NEW u \in Threads PROVE CallOf(u)'
    <3>1. CASE u = t
      <4>1. clearing[t] = Null
        BY <1>3, CallsNow DEF CallOf
      <4>2. t \notin asleep' \cup woken'
        BY <1>1, <1>2
      <4> QED BY <1>2, <1>4, <3>1, <4>1, <4>2, CallKinds DEF CallOf
    <3>2. CASE u # t
      <4>1. CallOf(u) /\ call'[u] = call[u] /\ u # Nobody
        BY <1>4, <3>2, CallsNow, ConstantsAssumption
      <4>2. \A x \in Elems : holder[x] = u => holder'[x] = u
        BY <1>1, <1>5, <4>1
      <4>3. /\ call[u] \in PushCalls \cup RemoveCalls => call[u].elem \in Elems
            /\ clearing[u] # Null => clearing[u] \in Elems
        BY CallKinds, TypesNow
      <4>4. \A k \in Buckets : Elements(links', k) = Elements(links, k)
        BY <1>1, <1>3 DEF Lists
      <4>5. u \in asleep' \cup woken' => u \in asleep \cup woken
        BY <1>2
      <4>6. ~(u \in asleep' /\ u \in woken')
        BY <1>2, <4>1 DEF CallOf
      <4> QED BY <1>2, <4>1, <4>2, <4>3, <4>4, <4>5, <4>6 DEF CallOf, Waiting
    <3> QED BY <3>1, <3>2
  <2> QED BY <2>1, CallsNext
<1>10. NoLostWakeup'
  <2>1. \A u \in asleep \cup woken : u # t => call'[u] = call[u]
    BY <1>4, TypesNow
  <2>2. ASSUME NEW k \in Lists, SleepersOn(k)' # {}
        PROVE  Len(Elements(links', k)) <= Cardinality(WokenOn(k)')
    <3>1. SleepersOn(k)' = SleepersOn(k)
      BY <1>1, <1>2, <2>1 DEF SleepersOn
    <3>2. Len(Elements(links, k)) <= Cardinality(WokenOn(k))
          /\ IsFiniteSet(WokenOn(k)) /\ Cardinality(WokenOn(k)) \in Nat
      BY <2>2, <3>1, WakeupsNow, WokenFinite
    <3>3. Len(Elements(links, k)) \in Nat
      BY TypesNow, OfLinked, LenProperties
    <3>4. CASE k # l
      <4>1. WokenOn(k)' = WokenOn(k)
        BY <1>2, <2>1, <3>4 DEF WokenOn
      <4> QED BY <1>1, <3>2, <3>4, <4>1
    <3>5. CASE k = l
      <4>1. WokenOn(k)' = WokenOn(k) \ {t}
        BY <1>2, <2>1 DEF WokenOn
      <4>2. Cardinality(WokenOn(k)') >= Cardinality(WokenOn(k)) - 1
            /\ Cardinality(WokenOn(k)') \in Nat
        <5>1. IsFiniteSet(WokenOn(k) \ {t})
              /\ Cardinality(WokenOn(k) \ {t}) =
                   IF t \in WokenOn(k) THEN Cardinality(WokenOn(k)) - 1 ELSE Cardinality(WokenOn(k))
          BY <3>2, FS_RemoveElement
        <5>2. Cardinality(WokenOn(k) \ {t}) \in Nat
          BY <5>1, FS_CardinalityType
        <5> QED BY <3>2, <4>1, <5>1, <5>2
      <4>3. Len(Elements(links', k)) = Len(Elements(links, k)) - 1
        BY <1>1, <3>5 DEF s
      <4> QED BY <3>2, <3>3, <4>2, <4>3
    <3> QED BY <3>4, <3>5
  <2> QED BY <2>2, WakeupsNext
<1> QED BY <1>1, <1>6, <1>8, <1>9, <1>10 DEF Inv

(* A pop that finds nothing.                                               *)
LEMMA FoundEmpty ==
  ASSUME Inv, NEW t \in Threads, Runs(t), list_empty(links, call[t].list)
  PROVE  /\ call[t] \in PopCalls /\ call[t].list \in Queues /\ call[t].list \in Lists
         /\ t \notin asleep
         /\ Elements(links, call[t].list) = <<>> /\ Len(Elements(links, call[t].list)) = 0
         /\ call[t] \notin PushCalls /\ call[t] \notin RemoveCalls /\ call[t] # NoCall
<1>1. /\ call[t] \in PopCalls /\ call[t].list \in Queues /\ call[t].list \in Lists
      /\ t \notin asleep /\ call[t] \notin PushCalls /\ call[t] \notin RemoveCalls
      /\ call[t] # NoCall
  BY CallKinds, CallsNow DEF CallOf, Runs
<1> DEFINE l == call[t].list
           s == Elements(links, l)
<1>2. Chain(links, l, s)
  BY <1>1, TypesNow, OfLinked
<1>3. s = <<>>
  BY <1>2, EmptyList
<1>4. Len(s) = 0
  BY <1>3
<1> QED BY <1>1, <1>3, <1>4

LEMMA PopSleepsHolds ==
  ASSUME Inv, NEW t \in Threads, PopSleeps(t)
  PROVE  Inv'
<1> DEFINE l == call[t].list
<1>1. /\ call[t] \in PopCalls /\ l \in Lists /\ t \notin asleep
      /\ Len(Elements(links, l)) = 0 /\ Waiting(call[t])
  BY FoundEmpty DEF PopSleeps, Waiting
<1>2. /\ asleep' = asleep \cup {t} /\ woken' = woken \ {t}
      /\ UNCHANGED <<links, owner, holder, call, clearing>>
  BY DEF PopSleeps
<1>3. /\ links' \in Memories(Memory) /\ LinkedIn(links')
      /\ \A k : Elements(links', k) = Elements(links, k)
  BY <1>2, SameLists
<1>4. TypeOK'
  <2>1. asleep' \subseteq Threads /\ woken' \subseteq Threads
    BY <1>2, TypesNow
  <2> QED BY <1>2, <1>3, <2>1, TypesNow, TypesNext
<1>5. Owners'
  BY <1>2, OwnersNow, OwnersNext DEF Removing
<1>6. Calls'
  <2>1. ASSUME NEW u \in Threads PROVE CallOf(u)'
    <3>1. CallOf(u)
      BY CallsNow
    <3>2. u \in asleep' \cup woken' => Waiting(call'[u])
      BY <1>1, <1>2, <3>1 DEF CallOf
    <3>3. ~(u \in asleep' /\ u \in woken')
      BY <1>2, <3>1 DEF CallOf
    <3> QED BY <1>2, <3>1, <3>2, <3>3 DEF CallOf, Waiting
  <2> QED BY <2>1, CallsNext
<1>7. NoLostWakeup'
  <2>1. ASSUME NEW k \in Lists, SleepersOn(k)' # {}
        PROVE  Len(Elements(links', k)) <= Cardinality(WokenOn(k)')
    <3>1. CASE k # l
      <4>1. SleepersOn(k)' = SleepersOn(k) /\ WokenOn(k)' = WokenOn(k)
        BY <1>2, <3>1 DEF SleepersOn, WokenOn
      <4>2. Len(Elements(links, k)) <= Cardinality(WokenOn(k))
        BY <2>1, <4>1, WakeupsNow
      <4> QED BY <1>3, <4>1, <4>2
    <3>2. CASE k = l
      <4>1. WokenOn(k)' \in SUBSET Threads /\ IsFiniteSet(Threads)
        BY <1>2, TypesNow, ConstantsAssumption DEF WokenOn
      <4>2. Cardinality(WokenOn(k)') \in Nat
        BY <4>1, FS_Subset, FS_CardinalityType
      <4>3. Len(Elements(links', k)) = 0
        BY <1>1, <1>3, <3>2
      <4> QED BY <4>2, <4>3
    <3> QED BY <3>1, <3>2
  <2> QED BY <2>1, WakeupsNext
<1> QED BY <1>3, <1>4, <1>5, <1>6, <1>7 DEF Inv

LEMMA PopFailsHolds ==
  ASSUME Inv, NEW t \in Threads, PopFails(t)
  PROVE  Inv'
<1>1. /\ call[t] \in PopCalls /\ t \notin asleep
      /\ call[t] \notin PushCalls /\ call[t] \notin RemoveCalls /\ call[t] # NoCall
  BY FoundEmpty DEF PopFails
<1>2. t \notin woken
  BY CallsNow DEF CallOf, Waiting, PopFails
<1>3. /\ call' = [call EXCEPT ![t] = NoCall]
      /\ UNCHANGED <<links, owner, holder, asleep, woken, clearing>>
  BY DEF PopFails, Returns
<1>4. /\ links' \in Memories(Memory) /\ LinkedIn(links')
      /\ \A k : Elements(links', k) = Elements(links, k)
      /\ \A k \in Lists : Len(Elements(links', k)) <= Len(Elements(links, k))
  BY <1>3, SameLists
<1>5. call'[t] = NoCall /\ \A u \in Threads : u # t => call'[u] = call[u]
  BY <1>3, TypesNow
<1>6. TypeOK'
  BY <1>3, <1>4, TypesNow, TypesNext DEF AllCalls
<1>7. Owners'
  <2>1. ASSUME NEW x \in Elems, NEW u \in Threads PROVE Removing(u, x)' <=> Removing(u, x)
    BY <1>1, <1>5, CallKinds, Removings
  <2> QED BY <1>3, <2>1, OwnersNow, OwnersNext
<1>8. Calls'
  <2>1. ASSUME NEW u \in Threads PROVE CallOf(u)'
    <3>1. CASE u = t
      <4>1. clearing[t] = Null
        BY <1>1, CallsNow DEF CallOf
      <4> QED BY <1>1, <1>2, <1>3, <1>5, <3>1, <4>1, CallKinds DEF CallOf
    <3>2. CASE u # t
      <4>1. CallOf(u) /\ call'[u] = call[u]
        BY <1>5, <3>2, CallsNow
      <4> QED BY <1>3, <4>1 DEF CallOf, Waiting
    <3> QED BY <3>1, <3>2
  <2> QED BY <2>1, CallsNext
<1>9. NoLostWakeup'
  <2>1. \A u \in asleep \cup woken : call'[u] = call[u]
    BY <1>1, <1>2, <1>5, TypesNow
  <2> QED BY <1>3, <1>4, <2>1, QuietWakeups
<1> QED BY <1>4, <1>6, <1>7, <1>8, <1>9 DEF Inv

LEMMA WakesUpHolds ==
  ASSUME Inv, NEW t \in Threads, WakesUp(t)
  PROVE  Inv'
<1>1. /\ t \in asleep /\ asleep' = asleep \ {t} /\ woken' = woken \cup {t}
      /\ UNCHANGED <<links, owner, holder, call, clearing>>
  BY DEF WakesUp
<1>2. /\ links' \in Memories(Memory) /\ LinkedIn(links')
      /\ \A k : Elements(links', k) = Elements(links, k)
  BY <1>1, SameLists
<1>3. asleep' \subseteq Threads /\ woken' \subseteq Threads
  BY <1>1, TypesNow
<1>4. TypeOK'
  BY <1>1, <1>2, <1>3, TypesNow, TypesNext
<1>5. Owners'
  BY <1>1, OwnersNow, OwnersNext DEF Removing
<1>6. Calls'
  <2>1. ASSUME NEW u \in Threads PROVE CallOf(u)'
    <3>1. CallOf(u)
      BY CallsNow
    <3>2. u \in asleep' \cup woken' => Waiting(call'[u])
      BY <1>1, <3>1 DEF CallOf
    <3>3. ~(u \in asleep' /\ u \in woken')
      BY <1>1, <3>1 DEF CallOf
    <3> QED BY <1>1, <3>1, <3>2, <3>3 DEF CallOf, Waiting
  <2> QED BY <2>1, CallsNext
<1>7. NoLostWakeup'
  <2>1. ASSUME NEW k \in Lists, SleepersOn(k)' # {}
        PROVE  Len(Elements(links', k)) <= Cardinality(WokenOn(k)')
    <3>1. SleepersOn(k)' \subseteq SleepersOn(k) /\ WokenOn(k) \subseteq WokenOn(k)'
      BY <1>1 DEF SleepersOn, WokenOn
    <3>2. SleepersOn(k) # {}
      BY <2>1, <3>1
    <3>3. Len(Elements(links, k)) <= Cardinality(WokenOn(k)) /\ Cardinality(WokenOn(k)) \in Nat
      BY <3>2, WakeupsNow, WokenFinite
    <3> DEFINE W == WokenOn(k)'
    <3>4. IsFiniteSet(W)
      <4>1. W \in SUBSET Threads /\ IsFiniteSet(Threads)
        BY <1>1, TypesNow, ConstantsAssumption DEF WokenOn
      <4> QED BY <4>1, FS_Subset
    <3> HIDE DEF W
    <3>5. WokenOn(k) \in SUBSET W
      BY <3>1 DEF W
    <3>6. Cardinality(WokenOn(k)) <= Cardinality(W) /\ Cardinality(W) \in Nat
      BY <3>4, <3>5, FS_Subset, FS_CardinalityType
    <3>7. Len(Elements(links, k)) \in Nat
      BY TypesNow, OfLinked, LenProperties
    <3> QED BY <1>2, <3>3, <3>6, <3>7 DEF W
  <2> QED BY <2>1, WakeupsNext
<1> QED BY <1>2, <1>4, <1>5, <1>6, <1>7 DEF Inv

(* What a remove does to the lists.                                        *)
RemoveDone(t, l) ==
  LET e == call[t].elem
      s == Elements(links, l)
  IN /\ call[t] \in RemoveCalls /\ l \in Buckets /\ holder[e] = t
     /\ \E j \in 1 .. Len(s) : s[j] = e /\ Shrunk(links, links', l, e, RemoveAt(s, j))

LEMMA RemoveLockedDoes ==
  ASSUME Inv, NEW t \in Threads, RemoveLocked(t)
  PROVE  \E l \in Lists : RemoveDone(t, l)
<1> DEFINE e == call[t].elem
           w == links'
<1>1. call[t] \in RemoveCalls /\ w = list_remove(links, e)
  BY DEF RemoveLocked
<1>2. e \in Elems /\ holder[e] = t
  BY <1>1, CallKinds, CallsNow DEF CallOf
<1>3. PICK l \in Buckets : e \in ToSet(Elements(links, l))
  BY <1>1, CallsNow DEF CallOf
<1>4. l \in Lists /\ links \in Memories(Memory) /\ LinkedIn(links)
  BY TypesNow DEF Lists
<1> DEFINE s == Elements(links, l)
<1>5. DOMAIN s = 1 .. Len(s)
  BY <1>4, OfLinked
<1>6. PICK j \in 1 .. Len(s) : s[j] = e
  BY <1>3, <1>5 DEF ToSet
<1>7. Shrunk(links, w, l, s[j], RemoveAt(s, j))
  <2>1. w = list_remove(links, s[j])
    BY <1>1, <1>6
  <2> HIDE DEF w, e
  <2> QED BY <1>4, <2>1, TakeLinks
<1> QED BY <1>1, <1>2, <1>4, <1>6, <1>7 DEF RemoveDone

LEMMA RemoveLockedHolds ==
  ASSUME Inv, NEW t \in Threads, RemoveLocked(t)
  PROVE  Inv'
<1>0. PICK l \in Lists : RemoveDone(t, l)
  BY RemoveLockedDoes
<1> DEFINE e == call[t].elem
           s == Elements(links', l)
<1>1. /\ call[t] \in RemoveCalls /\ l \in Buckets /\ e \in Elems /\ holder[e] = t
      /\ links' \in Memories(Memory) /\ LinkedIn(links')
      /\ e \in ToSet(Elements(links, l))
      /\ ToSet(s) = ToSet(Elements(links, l)) \ {e} /\ Len(s) = Len(Elements(links, l)) - 1
      /\ \A k \in Lists : k # l => Elements(links', k) = Elements(links, k)
  BY <1>0, CallKinds DEF RemoveDone, Shrunk, ListLoses, ListIs, LinkedIn
<1>2. /\ call' = [call EXCEPT ![t] = NoCall] /\ clearing' = [clearing EXCEPT ![t] = e]
      /\ UNCHANGED <<owner, holder, asleep, woken>>
  BY DEF RemoveLocked, Returns
<1>3. call[t] \notin PushCalls /\ call[t] \notin PopCalls /\ call[t] # NoCall
  BY <1>1, CallKinds
<1>4. t \notin asleep /\ t \notin woken
  BY <1>3, Idle
<1> HIDE DEF e, s
<1>5. call'[t] = NoCall /\ \A u \in Threads : u # t => call'[u] = call[u]
  BY <1>2, TypesNow
<1>6. clearing'[t] = e /\ \A u \in Threads : u # t => clearing'[u] = clearing[u]
  BY <1>2, TypesNow
<1>7. TypeOK'
  BY <1>1, <1>2, TypesNow, TypesNext DEF AllCalls
<1>8. \A x : ~Lies(links', e) /\ (x # e => (Lies(links', x) <=> Lies(links, x)))
  <2>1. \A k \in Lists : k # l => e \notin ToSet(Elements(links, k))
    BY <1>1, TypesNow DEF LinkedIn, Linked
  <2>2. \A k \in Lists : e \notin ToSet(Elements(links', k))
    BY <1>1, <2>1 DEF s
  <2>3. \A x : \A k \in Lists : x # e =>
          (x \in ToSet(Elements(links', k)) <=> x \in ToSet(Elements(links, k)))
    BY <1>1 DEF s
  <2> QED BY <2>2, <2>3 DEF Lies
<1>9. Owners'
  <2>1. ASSUME NEW k \in Lists, NEW x \in ToSet(Elements(links', k)) PROVE owner'[x] = k
    <3>1. x \in ToSet(Elements(links, k))
      BY <1>1, <2>1 DEF s
    <3> QED BY <1>2, <3>1, OwnersNow
  <2>2. ASSUME NEW x \in Elems, NEW u \in Threads, x # e
        PROVE  Removing(u, x)' <=> Removing(u, x)
    BY <1>5, <2>2, CallKinds, Removings DEF e
  <2>3. ASSUME NEW x \in Elems, x = e, NEW u \in Threads PROVE ~Removing(u, x)'
    <3>1. CASE u = t
      BY <1>5, <3>1, CallKinds, Removings
    <3>2. CASE u # t
      <4>1. ~Removing(u, x)
        BY <1>1, <2>3, <3>2, CallsNow, Removings DEF CallOf
      <4> QED BY <1>5, <3>2, <4>1, Removings
    <3> QED BY <3>1, <3>2
  <2>4. ASSUME NEW x \in Elems
        PROVE  Lies(links', x) <=> holder'[x] = Nobody \/ \E u \in Threads : Removing(u, x)'
    <3>1. CASE x = e
      BY <1>1, <1>2, <1>8, <2>3, <3>1, ConstantsAssumption
    <3>2. CASE x # e
      BY <1>2, <1>8, <2>2, <3>2, OwnersNow
    <3> QED BY <3>1, <3>2
  <2> QED BY <2>1, <2>4, OwnersNext
<1>10. Calls'
  <2>1. ASSUME NEW u \in Threads PROVE CallOf(u)'
    <3>1. CASE u = t
      BY <1>1, <1>2, <1>4, <1>5, <1>6, <3>1, CallKinds DEF CallOf
    <3>2. CASE u # t
      <4>1. CallOf(u) /\ call'[u] = call[u] /\ clearing'[u] = clearing[u]
        BY <1>5, <1>6, <3>2, CallsNow
      <4>2. \A k \in Buckets : \A x \in Elems :
              x # e /\ x \in ToSet(Elements(links, k)) => x \in ToSet(Elements(links', k))
        BY <1>1 DEF s, Lists
      <4>3. call[u] \in RemoveCalls => call[u].elem # e /\ call[u].elem \in Elems
        BY <1>1, <3>2, <4>1, CallKinds DEF CallOf
      <4> QED BY <1>2, <4>1, <4>2, <4>3 DEF CallOf, Waiting
    <3> QED BY <3>1, <3>2
  <2> QED BY <2>1, CallsNext
<1>11. NoLostWakeup'
  <2>1. \A u \in asleep \cup woken : call'[u] = call[u]
    BY <1>4, <1>5, TypesNow
  <2>2. \A k \in Lists : Len(Elements(links', k)) <= Len(Elements(links, k))
    <3>1. \A k \in Lists : Len(Elements(links, k)) \in Nat
      BY TypesNow, OfLinked, LenProperties
    <3> QED BY <1>1, <3>1 DEF s
  <2> QED BY <1>1, <1>2, <2>1, <2>2, QuietWakeups
<1> QED BY <1>1, <1>7, <1>9, <1>10, <1>11 DEF Inv

LEMMA RemoveClearsHolds ==
  ASSUME Inv, NEW t \in Threads, RemoveClears(t)
  PROVE  Inv'
<1> DEFINE e == clearing[t]
<1>1. /\ e # Null /\ e \in Elems /\ call[t] = NoCall /\ holder[e] = t
      /\ owner' = [owner EXCEPT ![e] = Null] /\ clearing' = [clearing EXCEPT ![t] = Null]
      /\ UNCHANGED <<links, holder, call, asleep, woken>>
  BY CallsNow, TypesNow DEF RemoveClears, CallOf
<1>2. ~Lies(links, e)
  <2>1. ~Removing(t, e)
    BY <1>1, CallKinds, Removings
  <2> QED BY <1>1, <2>1, HeldLiesNowhere
<1>3. /\ links' \in Memories(Memory) /\ LinkedIn(links')
      /\ \A k : Elements(links', k) = Elements(links, k)
      /\ \A k \in Lists : Len(Elements(links', k)) <= Len(Elements(links, k))
  BY <1>1, SameLists
<1> HIDE DEF e
<1>4. TypeOK'
  BY <1>1, <1>3, TypesNow, TypesNext
<1>5. \A x \in Elems : x # e => owner'[x] = owner[x]
  BY <1>1, TypesNow
<1>6. Owners'
  <2>1. ASSUME NEW k \in Lists, NEW x \in ToSet(Elements(links', k)) PROVE owner'[x] = k
    <3>1. x \in ToSet(Elements(links, k)) /\ x # e /\ x \in Elems
      BY <1>2, <1>3, <2>1, TypesNow DEF Lies, LinkedIn, Linked
    <3> QED BY <1>5, <3>1, OwnersNow
  <2> QED BY <1>1, <2>1, OwnersNow, OwnersNext DEF Removing
<1>7. Calls'
  <2>1. ASSUME NEW u \in Threads PROVE CallOf(u)'
    <3>1. CallOf(u)
      BY CallsNow
    <3>2. call[u] \in PushCalls => call[u].elem # e /\ call[u].elem \in Elems
      BY <1>1, <3>1, CallKinds DEF CallOf
    <3>3. clearing'[u] = clearing[u] \/ clearing'[u] = Null
      BY <1>1, TypesNow
    <3> QED BY <1>1, <1>5, <3>1, <3>2, <3>3 DEF CallOf, Waiting
  <2> QED BY <2>1, CallsNext
<1>8. NoLostWakeup'
  BY <1>1, <1>3, QuietWakeups
<1> QED BY <1>3, <1>4, <1>6, <1>7, <1>8 DEF Inv

LEMMA StepHolds ==
  ASSUME Inv, [Next]_vars
  PROVE  Inv'
<1>1. CASE Next
  <2>1. PICK t \in Threads :
          \/ PushBegins(t) \/ PushLocked(t)
          \/ PopBegins(t) \/ PopTakes(t) \/ PopSleeps(t) \/ PopFails(t) \/ WakesUp(t)
          \/ RemoveBegins(t) \/ RemoveLocked(t) \/ RemoveClears(t)
    BY <1>1 DEF Next
  <2> QED BY <2>1, PushBeginsHolds, PushLockedHolds, PopBeginsHolds, PopTakesHolds,
             PopSleepsHolds, PopFailsHolds, WakesUpHolds, RemoveBeginsHolds,
             RemoveLockedHolds, RemoveClearsHolds
<1>2. CASE UNCHANGED vars
  BY <1>2 DEF vars, Inv, TypeOK, LinkedIn, Linked, Owners, Calls, NoLostWakeup, In, Removing
<1> QED BY <1>1, <1>2

(***************************************************************************)
(* Theorems                                                                *)
(***************************************************************************)
(* The invariant: the links always make up the lists, no element lies in   *)
(* two, what a thread works with is where its operation expects it, and    *)
(* sleepers are covered by threads that are awake.                         *)
THEOREM InvHolds == Spec => []Inv
<1>1. Init => Inv
  BY InitHolds
<1>2. Inv /\ [Next]_vars => Inv'
  BY StepHolds
<1> QED BY <1>1, <1>2, PTL DEF Spec

(* A pop never sleeps while its list has an element that no thread awake   *)
(* will look for (vtslist.c:31, 54, 66, 90).                               *)
THEOREM NoLostWakeupHolds == Spec => []NoLostWakeup
<1>1. Inv => NoLostWakeup
  BY DEF Inv
<1> QED BY <1>1, InvHolds, PTL

LEMMA ChainEnds ==
  ASSUME NEW m \in Memories(Memory), NEW l, NEW s, Chain(m, l, s)
  PROVE  /\ is_head(m, head(l)) /\ is_tail(m, tail(l))
         /\ \A j \in 1 .. Len(s) : is_interior(m, s[j])
<1>1. /\ Len(s) \in Nat /\ At(l, s, 0) = head(l) /\ At(l, s, Len(s) + 1) = tail(l)
      /\ \A i \in 0 .. Len(s) + 1 : At(l, s, i) \in Memory
      /\ \A i \in 1 .. Len(s) : At(l, s, i) = s[i]
  <2>1. DOMAIN m = Memory
    BY DEF Memories
  <2> QED BY <2>1, CellTypes
<1>2. \A i \in 0 .. Len(s) :
        m[At(l, s, i)].next = At(l, s, i + 1) /\ m[At(l, s, i + 1)].prev = At(l, s, i)
  BY CellLinks
<1>3. m[head(l)].prev = Null /\ m[tail(l)].next = Null
  BY DEF Chain
<1>4. Null \notin Memory
  BY MemoryFinite
<1>5. \A i \in 0 .. Len(s) : m[At(l, s, i)].next # Null /\ m[At(l, s, i + 1)].prev # Null
  <2>1. ASSUME NEW i \in 0 .. Len(s)
        PROVE  m[At(l, s, i)].next # Null /\ m[At(l, s, i + 1)].prev # Null
    <3>1. i \in 0 .. Len(s) + 1 /\ i + 1 \in 0 .. Len(s) + 1
      BY <1>1
    <3>2. At(l, s, i) \in Memory /\ At(l, s, i + 1) \in Memory
      BY <1>1, <3>1
    <3> QED BY <1>2, <1>4, <3>2
  <2> QED BY <2>1
<1>6. 0 \in 0 .. Len(s) /\ Len(s) \in 0 .. Len(s)
  BY <1>1
<1>7. m[head(l)].next # Null /\ m[tail(l)].prev # Null
  BY <1>1, <1>5, <1>6
<1>8. ASSUME NEW j \in 1 .. Len(s) PROVE m[s[j]].next # Null /\ m[s[j]].prev # Null
  <2>1. j \in 0 .. Len(s) /\ j - 1 \in 0 .. Len(s) /\ (j - 1) + 1 = j
    BY <1>1
  <2>2. m[At(l, s, j)].next # Null /\ m[At(l, s, (j - 1) + 1)].prev # Null
    BY <1>5, <2>1
  <2> QED BY <1>1, <2>1, <2>2
<1> QED BY <1>3, <1>7, <1>8 DEF is_head, is_tail, is_interior

(* Every list reads the same from both ends, and the owner of an element   *)
(* names the list that it lies in (vtslist.c:25, 123).                     *)
THEOREM ListsSoundHolds == Spec => []ListsSound
<1>1. Inv => ListsSound
  <2> SUFFICES ASSUME Inv PROVE ListsSound
    OBVIOUS
  <2>1. links \in Memories(Memory) /\ LinkedIn(links)
    BY TypesNow
  <2>2. ASSUME NEW l \in Lists
        PROVE  /\ is_head(links, head(l)) /\ is_tail(links, tail(l))
               /\ \A e \in In(l) : is_interior(links, e)
               /\ Elements(links, l) = Reverse(ElementsBack(links, l))
    <3> DEFINE s == Elements(links, l)
    <3>1. Chain(links, l, s) /\ s \in Seq(Elems)
      BY <2>1, OfLinked
    <3>2. /\ is_head(links, head(l)) /\ is_tail(links, tail(l))
          /\ \A j \in 1 .. Len(s) : is_interior(links, s[j])
      BY <2>1, <3>1, ChainEnds
    <3>3. \A e \in ToSet(s) : \E j \in 1 .. Len(s) : s[j] = e
      BY <3>1 DEF ToSet
    <3>4. ElementsBack(links, l) = Reverse(s) /\ Reverse(Reverse(s)) = s
      BY <2>1, <3>1, ReadsAs, ReverseTwice
    <3> QED BY <3>2, <3>3, <3>4 DEF In
  <2>3. \A t \in Threads : call[t] \in RemoveCalls => is_interior(links, call[t].elem)
    BY <2>2, CallsNow DEF CallOf, In, Lists
  <2>4. \A l, k \in Lists : l # k => In(l) \cap In(k) = {}
    BY <2>1 DEF LinkedIn, Linked, In
  <2>5. ASSUME NEW e \in Elems
        PROVE  (holder[e] = Nobody \/ \E t \in Threads : Removing(t, e))
                 <=> \E l \in Lists : e \in In(l) /\ owner[e] = l
    BY OwnersNow DEF Lies, In
  <2>6. TypeOK
    BY DEF Inv
  <2> QED BY <2>2, <2>3, <2>4, <2>5, <2>6 DEF ListsSound
<1> QED BY <1>1, InvHolds, PTL

(***************************************************************************)
(* The lists are shared deques                                             *)
(***************************************************************************)
LEMMA HeldNow ==
  /\ Held \in [Threads -> SUBSET Elems]
  /\ \A t \in Threads : \A e \in Elems : e \in Held[t] <=> holder[e] = t /\ ~Removing(t, e)
BY DEF Held

LEMMA HeldNext ==
  ASSUME NEW X \in [Threads -> SUBSET Elems],
         \A t \in Threads : \A e \in Elems : e \in X[t] <=> holder'[e] = t /\ ~(Removing(t, e)')
  PROVE  Held' = X
<1>1. /\ Held' \in [Threads -> SUBSET Elems]
      /\ \A t \in Threads : \A e \in Elems :
           e \in Held'[t] <=> holder'[e] = t /\ ~(Removing(t, e)')
  BY DEF Held
<1> DEFINE Y == Held'
<1> HIDE DEF Y
<1>2. Y \in [Threads -> SUBSET Elems] /\ \A t \in Threads : Y[t] = X[t]
  <2>1. Y \in [Threads -> SUBSET Elems]
    BY <1>1 DEF Y
  <2>2. ASSUME NEW t \in Threads PROVE Y[t] = X[t]
    <3>1. Y[t] \subseteq Elems /\ X[t] \subseteq Elems
      BY <2>1
    <3>2. \A e \in Elems : e \in Y[t] <=> e \in X[t]
      BY <1>1 DEF Y
    <3> QED BY <3>1, <3>2
  <2> QED BY <2>1, <2>2
<1>3. Y = X
  BY <1>2
<1> QED BY <1>3 DEF Y

LEMMA ContentsNow ==
  /\ Contents = [l \in Lists |-> Contents[l]]
  /\ \A l \in Lists : Contents[l] = Elements(links, l)
BY DEF Contents

LEMMA ContentsNext ==
  ASSUME NEW l \in Lists, NEW s, Elements(links', l) = s,
         \A k \in Lists : k # l => Elements(links', k) = Elements(links, k)
  PROVE  Contents' = [Contents EXCEPT ![l] = s]
BY DEF Contents

LEMMA SameContents ==
  ASSUME links' = links
  PROVE  Contents' = Contents
BY DEF Contents

(* Nobody takes an element or gives one away.                              *)
LEMMA SameHeld ==
  ASSUME \A t \in Threads : \A e \in Elems :
           (holder'[e] = t /\ ~(Removing(t, e)')) <=> (holder[e] = t /\ ~Removing(t, e))
  PROVE  Held' = Held
BY HeldNow, HeldNext

LEMMA AbstractInit == Init => Abstract!Init
<1> SUFFICES ASSUME Init PROVE Abstract!Init
  OBVIOUS
<1>1. Inv
  BY InitHolds
<1>2. ASSUME NEW l \in Lists PROVE Elements(links, l) = <<>>
  <2>1. \A e \in Elems : holder[e] # Nobody /\ \A t \in Threads : ~Removing(t, e)
    BY CallKinds, Removings, ConstantsAssumption DEF Init
  <2>2. ToSet(Elements(links, l)) = {}
    BY <1>1, <2>1, OwnersNow, TypesNow DEF Lies, LinkedIn, Linked
  <2>3. Elements(links, l) \in Seq(Elems)
    BY <1>1, TypesNow, OfLinked
  <2> DEFINE s == Elements(links, l)
  <2> HIDE DEF s
  <2>4. s \in Seq(Elems) /\ DOMAIN s = 1 .. Len(s) /\ Len(s) \in Nat
    BY <2>3 DEF s
  <2>5. Len(s) = 0
    <3>1. SUFFICES ASSUME Len(s) # 0 PROVE FALSE
      OBVIOUS
    <3>2. 1 \in DOMAIN s
      BY <2>4, <3>1
    <3>3. s[1] \in ToSet(s)
      BY <3>2 DEF ToSet
    <3> QED BY <2>2, <3>3 DEF s
  <2> QED BY <2>4, <2>5, EmptySeq DEF s
<1>3. Contents = [l \in Lists |-> <<>>]
  BY <1>2 DEF Contents
<1>4. \A e \in Elems, u \in Threads : e \in Held[u] <=> holder[e] = u
  BY HeldNow, CallKinds, Removings DEF Init
<1>5. \A e \in Elems : \E t \in Threads : \A u \in Threads : e \in Held[u] <=> u = t
  BY <1>4 DEF Init
<1>6. call = [t \in Threads |-> NoCall]
  BY DEF Init
<1> QED BY <1>3, <1>5, <1>6, HeldNow DEF Abstract!Init

LEMMA CallIsCall ==
  ASSUME Inv, NEW t \in Threads, PushBegins(t) \/ PopBegins(t) \/ RemoveBegins(t)
  PROVE  Abstract!Call(t)
<1>1. PICK c \in PushCalls \cup PopCalls \cup RemoveCalls :
        /\ call[t] = NoCall /\ call' = [call EXCEPT ![t] = c] /\ links' = links
        /\ IF c \in RemoveCalls THEN holder[c.elem] = Nobody /\ holder' = [holder EXCEPT ![c.elem] = t]
           ELSE holder' = holder
  BY CallKinds DEF PushBegins, PopBegins, RemoveBegins, Begins, Free
<1>2. Contents' = Contents
  BY <1>1, SameContents
<1>3. call'[t] = c /\ call[t] \notin RemoveCalls /\ \A u \in Threads : u # t => call'[u] = call[u]
  BY <1>1, CallKinds, TypesNow
<1>4. Held' = Held
  <2>1. ASSUME NEW u \in Threads, NEW e \in Elems
        PROVE  (holder'[e] = u /\ ~(Removing(u, e)')) <=> (holder[e] = u /\ ~Removing(u, e))
    <3>1. CASE c \in RemoveCalls /\ c.elem = e
      <4>1. holder'[e] = t /\ holder[e] = Nobody /\ u # Nobody
        BY <1>1, <3>1, TypesNow, ConstantsAssumption
      <4>2. Removing(t, e)'
        BY <1>3, <3>1, Removings
      <4> QED BY <4>1, <4>2
    <3>2. CASE ~(c \in RemoveCalls /\ c.elem = e)
      <4>1. holder'[e] = holder[e]
        BY <1>1, <3>2, CallKinds, TypesNow
      <4>2. Removing(u, e)' <=> Removing(u, e)
        BY <1>3, <3>2, Removings
      <4> QED BY <4>1, <4>2
    <3> QED BY <3>1, <3>2
  <2> QED BY <2>1, SameHeld
<1>5. c \in Abstract!PushCalls \cup Abstract!PopCalls \cup Abstract!RemoveCalls
  BY DEF PushCalls, PopCalls, RemoveCalls, Abstract!PushCalls, Abstract!PopCalls,
         Abstract!RemoveCalls, Abstract!Push, Abstract!Pop
<1> QED BY <1>1, <1>2, <1>4, <1>5 DEF Abstract!Call

LEMMA PushIsPushed ==
  ASSUME Inv, NEW t \in Threads, PushLocked(t)
  PROVE  Abstract!Pushed(t)
<1> DEFINE c == call[t]
           l == c.list
           e == c.elem
           s == Elements(links, l)
           r == IF c.op = "push_back" THEN Append(s, e) ELSE <<e>> \o s
<1>1. /\ c \in PushCalls /\ holder[e] = t
      /\ \A u \in Threads : ~Removing(u, e)
      /\ Elements(links', l) = r
      /\ \A k \in Lists : k # l => Elements(links', k) = Elements(links, k)
  BY PushLockedDoes DEF PushDone, Grown, ListGains, ListIs, LinkedIn
<1>2. /\ holder' = [holder EXCEPT ![e] = Nobody] /\ call' = [call EXCEPT ![t] = NoCall]
  BY DEF PushLocked, Returns
<1>3. l \in Lists /\ e \in Elems /\ c \notin RemoveCalls
  BY <1>1, CallKinds
<1>4. Contents' = [Contents EXCEPT ![l] = r] /\ Contents[l] = s
  <2> HIDE DEF l, r
  <2> QED BY <1>1, <1>3, ContentsNow, ContentsNext
<1>5. Held' = [Held EXCEPT ![t] = @ \ {e}]
  <2> DEFINE X == [Held EXCEPT ![t] = @ \ {e}]
  <2>1. /\ X \in [Threads -> SUBSET Elems] /\ X[t] = Held[t] \ {e}
        /\ \A u \in Threads : u # t => X[u] = Held[u]
    BY HeldNow
  <2>2. ASSUME NEW u \in Threads, NEW x \in Elems
        PROVE  x \in X[u] <=> holder'[x] = u /\ ~(Removing(u, x)')
    <3>1. Removing(u, x)' <=> Removing(u, x)
      BY <1>2, <1>3, CallKinds, Removings, TypesNow
    <3>2. CASE x = e
      <4>1. holder'[x] # u
        BY <1>2, <3>2, TypesNow, ConstantsAssumption
      <4>2. x \notin X[u]
        BY <1>1, <1>3, <2>1, <3>2, HeldNow
      <4> QED BY <4>1, <4>2
    <3>3. CASE x # e
      <4>1. holder'[x] = holder[x] /\ (x \in X[u] <=> x \in Held[u])
        BY <1>2, <2>1, <3>3, TypesNow
      <4> QED BY <3>1, <4>1, HeldNow
    <3> QED BY <3>2, <3>3
  <2> HIDE DEF X
  <2>3. Held' = X
    BY <2>1, <2>2, HeldNext
  <2> QED BY <2>3 DEF X
<1>6. c \in Abstract!PushCalls
  BY <1>1 DEF PushCalls, Abstract!PushCalls, Abstract!Push
<1> QED BY <1>2, <1>4, <1>5, <1>6 DEF Abstract!Pushed, Abstract!Returns

LEMMA PopIsPopped ==
  ASSUME Inv, NEW t \in Threads, PopTakes(t)
  PROVE  Abstract!Popped(t)
<1> DEFINE c == call[t]
           l == c.list
           s == Elements(links, l)
           j == End(c)
           e == s[j]
           r == RemoveAt(s, j)
<1>1. /\ c \in PopCalls /\ j \in 1 .. Len(s) /\ e \in Elems
      /\ r = IF Fore(c) THEN Tail(s) ELSE Front(s)
      /\ Elements(links', l) = r
      /\ \A k \in Lists : k # l => Elements(links', k) = Elements(links, k)
      /\ holder[e] = Nobody /\ holder' = [holder EXCEPT ![e] = t]
      /\ \A u \in Threads : ~Removing(u, e)
  BY PopTakesDoes DEF PopDone, Shrunk, ListLoses, ListIs, LinkedIn
<1>2. call' = [call EXCEPT ![t] = NoCall]
  BY DEF PopTakes, Returns
<1>3. l \in Lists /\ c \notin RemoveCalls /\ s # <<>>
  BY <1>1, CallKinds
<1>4. e = IF Fore(c) THEN Head(s) ELSE Last(s)
  <2>1. s \in Seq(Elems)
    BY <1>3, TypesNow, OfLinked
  <2> QED BY <1>1, <2>1 DEF End, Last
<1>5. Contents' = [Contents EXCEPT ![l] = r] /\ Contents[l] = s
  <2> HIDE DEF l, r
  <2> QED BY <1>1, <1>3, ContentsNow, ContentsNext
<1>6. Held' = [Held EXCEPT ![t] = @ \cup {e}]
  <2> HIDE DEF e
  <2> DEFINE X == [Held EXCEPT ![t] = @ \cup {e}]
  <2>1. /\ X \in [Threads -> SUBSET Elems] /\ X[t] = Held[t] \cup {e}
        /\ \A u \in Threads : u # t => X[u] = Held[u]
    BY <1>1, HeldNow
  <2>2. ASSUME NEW u \in Threads, NEW x \in Elems
        PROVE  x \in X[u] <=> holder'[x] = u /\ ~(Removing(u, x)')
    <3>1. Removing(u, x)' <=> Removing(u, x)
      BY <1>2, <1>3, CallKinds, Removings, TypesNow
    <3>2. CASE x = e
      <4>1. holder'[x] = t /\ ~Removing(u, x) /\ u # Nobody
        BY <1>1, <3>2, TypesNow, ConstantsAssumption
      <4>2. x \in X[u] <=> u = t
        BY <1>1, <2>1, <3>2, <4>1, HeldNow
      <4> QED BY <3>1, <4>1, <4>2
    <3>3. CASE x # e
      <4>1. holder'[x] = holder[x] /\ (x \in X[u] <=> x \in Held[u])
        BY <1>1, <2>1, <3>3, TypesNow
      <4> QED BY <3>1, <4>1, HeldNow
    <3> QED BY <3>2, <3>3
  <2> HIDE DEF X
  <2>3. Held' = X
    BY <2>1, <2>2, HeldNext
  <2> QED BY <2>3 DEF X
<1>7. c \in Abstract!PopCalls
  BY <1>1 DEF PopCalls, Abstract!PopCalls, Abstract!Pop
<1> DEFINE f == Fore(c)
<1>8. /\ Contents[l] # <<>>
      /\ Held' = [Held EXCEPT ![t] =
                    @ \cup {IF f THEN Head(Contents[l]) ELSE Abstract!Last(Contents[l])}]
      /\ Contents' = [Contents EXCEPT ![l] =
                        IF f THEN Tail(Contents[l]) ELSE Abstract!Front(Contents[l])]
  <2>1. Last(s) = Abstract!Last(s) /\ Front(s) = Abstract!Front(s)
    BY DEF Last, Front, Abstract!Last, Abstract!Front
  <2> HIDE DEF s, e, r, f
  <2> QED BY <1>1, <1>3, <1>4, <1>5, <1>6, <2>1 DEF f
<1> QED BY <1>2, <1>7, <1>8 DEF Fore, Abstract!Popped, Abstract!Returns

LEMMA FailIsPopped ==
  ASSUME Inv, NEW t \in Threads, PopFails(t)
  PROVE  Abstract!Popped(t)
<1>1. /\ call[t] \in PopCalls /\ call[t].list \in Lists /\ call[t] \notin RemoveCalls
      /\ Elements(links, call[t].list) = <<>>
  BY FoundEmpty DEF PopFails
<1>2. /\ call[t].op \in {"try_pop_front", "try_pop_back"}
      /\ links' = links /\ holder' = holder /\ call' = [call EXCEPT ![t] = NoCall]
  BY DEF PopFails, Returns
<1>3. Contents' = Contents /\ Contents[call[t].list] = <<>>
  BY <1>1, <1>2, SameContents, ContentsNow
<1>4. Held' = Held
  <2>1. ASSUME NEW u \in Threads, NEW e \in Elems PROVE Removing(u, e)' <=> Removing(u, e)
    BY <1>1, <1>2, CallKinds, Removings, TypesNow
  <2> QED BY <1>2, <2>1, SameHeld
<1>5. call[t] \in Abstract!PopCalls
  BY <1>1 DEF PopCalls, Abstract!PopCalls, Abstract!Pop
<1> QED BY <1>2, <1>3, <1>4, <1>5 DEF Abstract!Popped, Abstract!Returns

LEMMA RemoveIsRemoved ==
  ASSUME Inv, NEW t \in Threads, RemoveLocked(t)
  PROVE  Abstract!Removed(t)
<1>0. PICK l \in Lists : RemoveDone(t, l)
  BY RemoveLockedDoes
<1> DEFINE c == call[t]
           e == c.elem
           s == Elements(links, l)
<1>1. PICK j \in 1 .. Len(s) : s[j] = e /\ Elements(links', l) = RemoveAt(s, j)
  BY <1>0 DEF RemoveDone, Shrunk, ListLoses, ListIs, LinkedIn
<1>2. /\ c \in RemoveCalls /\ holder[e] = t
      /\ \A k \in Lists : k # l => Elements(links', k) = Elements(links, k)
  BY <1>0 DEF RemoveDone, Shrunk, ListLoses, ListIs, LinkedIn
<1>3. call' = [call EXCEPT ![t] = NoCall] /\ holder' = holder
  BY DEF RemoveLocked, Returns
<1>4. e \in Elems
  BY <1>2, CallKinds
<1> DEFINE r == RemoveAt(s, j)
<1>5. Contents' = [Contents EXCEPT ![l] = r] /\ Contents[l] = s
  <2> HIDE DEF r
  <2> QED BY <1>1, <1>2, ContentsNow, ContentsNext DEF r
<1>6. Held' = [Held EXCEPT ![t] = @ \cup {e}]
  <2> DEFINE X == [Held EXCEPT ![t] = @ \cup {e}]
  <2>1. /\ X \in [Threads -> SUBSET Elems] /\ X[t] = Held[t] \cup {e}
        /\ \A u \in Threads : u # t => X[u] = Held[u]
    BY <1>4, HeldNow
  <2>2. ASSUME NEW u \in Threads, NEW x \in Elems
        PROVE  x \in X[u] <=> holder'[x] = u /\ ~(Removing(u, x)')
    <3>1. CASE x = e
      <4>1. ~(Removing(t, x)')
        BY <1>3, CallKinds, Removings, TypesNow
      <4>2. x \in X[u] <=> u = t
        BY <1>2, <1>4, <2>1, <3>1, HeldNow
      <4> QED BY <1>2, <1>3, <3>1, <4>1, <4>2
    <3>2. CASE x # e
      <4>1. Removing(u, x)' <=> Removing(u, x)
        BY <1>2, <1>3, <3>2, CallKinds, Removings, TypesNow
      <4>2. x \in X[u] <=> x \in Held[u]
        BY <2>1, <3>2
      <4> QED BY <1>3, <4>1, <4>2, HeldNow
    <3> QED BY <3>1, <3>2
  <2> HIDE DEF X
  <2>3. Held' = X
    BY <2>1, <2>2, HeldNext
  <2> QED BY <2>3 DEF X
<1>7. c \in Abstract!RemoveCalls
  BY <1>2 DEF RemoveCalls, Abstract!RemoveCalls
<1>8. \E k \in Lists : \E i \in 1 .. Len(Contents[k]) :
        /\ Contents[k][i] = e
        /\ Contents' = [Contents EXCEPT ![k] = Abstract!RemoveAt(Contents[k], i)]
  <2>1. RemoveAt(s, j) = Abstract!RemoveAt(s, j)
    BY DEF RemoveAt, Abstract!RemoveAt
  <2> HIDE DEF s
  <2>2. j \in 1 .. Len(Contents[l]) /\ Contents[l][j] = e
        /\ Contents' = [Contents EXCEPT ![l] = Abstract!RemoveAt(Contents[l], j)]
    BY <1>1, <1>5, <2>1
  <2> QED BY <2>2
<1> QED BY <1>3, <1>6, <1>7, <1>8 DEF Abstract!Removed, Abstract!Returns

LEMMA QuietIsStutter ==
  ASSUME Inv, NEW t \in Threads, PopSleeps(t) \/ WakesUp(t) \/ RemoveClears(t)
  PROVE  UNCHANGED <<Contents, Held, call>>
<1>1. links' = links /\ holder' = holder /\ call' = call
  BY DEF PopSleeps, WakesUp, RemoveClears
<1> QED BY <1>1 DEF Contents, Held, Removing

(* Every operation takes effect at once, between its call and its return:  *)
(* the lists are the shared deques of vtslist.h, however calls interleave. *)
THEOREM DequesImplemented == Spec => ImplementsDeques
<1>1. Init => Abstract!Init
  BY AbstractInit
<1>2. Inv /\ [Next]_vars => [Abstract!Next]_<<Contents, Held, call>>
  <2> SUFFICES ASSUME Inv, [Next]_vars PROVE [Abstract!Next]_<<Contents, Held, call>>
    OBVIOUS
  <2>1. CASE Next
    <3>1. PICK t \in Threads :
            \/ PushBegins(t) \/ PushLocked(t)
            \/ PopBegins(t) \/ PopTakes(t) \/ PopSleeps(t) \/ PopFails(t) \/ WakesUp(t)
            \/ RemoveBegins(t) \/ RemoveLocked(t) \/ RemoveClears(t)
      BY <2>1 DEF Next
    <3>2. \/ Abstract!Call(t) \/ Abstract!Pushed(t) \/ Abstract!Popped(t) \/ Abstract!Removed(t)
          \/ UNCHANGED <<Contents, Held, call>>
      BY <3>1, CallIsCall, PushIsPushed, PopIsPopped, FailIsPopped, RemoveIsRemoved,
         QuietIsStutter
    <3> QED BY <3>2 DEF Abstract!Next
  <2>2. CASE UNCHANGED vars
    BY <2>2 DEF vars, Contents, Held, Removing
  <2> QED BY <2>1, <2>2
<1> QED BY <1>1, <1>2, InvHolds, PTL DEF Spec, ImplementsDeques, Abstract!Spec

(***************************************************************************)
(*                                DirtySet                                 *)
(***************************************************************************)

(***************************************************************************)
(* The memory of the sets                                                  *)
(***************************************************************************)
LEMMA DirtyNames ==
  /\ \A x, y : elem(x) # iter(y)
  /\ \A x, y : elem(x) = elem(y) => x = y
  /\ \A x, y : iter(x) = iter(y) => x = y
  /\ \A x : list_entry(elem(x)) = x /\ list_entry(iter(x)) = x
  /\ \A s, z, h, k : bucket(s, h) = bucket(z, k) => s = z /\ h = k
  /\ \A s, z : iterlist(s) = iterlist(z) => s = z
  /\ \A s, z : \A h \in Hashes : bucket(s, h) # iterlist(z)
  /\ \A k \in Keys : Hash[k] \in Hashes
  /\ \A x, l : elem(x) \notin {head(l), tail(l)} /\ iter(x) \notin {head(l), tail(l)}
<1>1. /\ \A x, y : elem(x) # iter(y)
      /\ \A x, y : elem(x) = elem(y) => x = y
      /\ \A x, y : iter(x) = iter(y) => x = y
      /\ \A x : list_entry(elem(x)) = x /\ list_entry(iter(x)) = x
  BY DEF elem, iter, list_entry
<1>2. /\ \A s, z, h, k : bucket(s, h) = bucket(z, k) => s = z /\ h = k
      /\ \A s, z : iterlist(s) = iterlist(z) => s = z
      /\ \A s, z : \A h \in Hashes : bucket(s, h) # iterlist(z)
  BY DirtySetAssumption DEF bucket, iterlist
<1>3. \A k \in Keys : Hash[k] \in Hashes
  BY DEF Hashes
<1>4. \A x, l : elem(x) \notin {head(l), tail(l)} /\ iter(x) \notin {head(l), tail(l)}
  BY DEF elem, iter, head, tail
<1> QED BY <1>1, <1>2, <1>3, <1>4

LEMMA ListsAre ==
  ASSUME NEW L, L \subseteq Sets
  PROVE  /\ \A s \in L : iterlist(s) \in AllLists(L) /\ \A h \in Hashes : bucket(s, h) \in AllLists(L)
         /\ \A l \in AllLists(L) : \E s \in L : l = iterlist(s) \/ \E h \in Hashes : l = bucket(s, h)
         /\ AllLists(L) \subseteq SetLists
         /\ \A s \in L : ListsOf(s) \subseteq AllLists(L)
BY DEF AllLists, ListsOf, SetLists, Sets

LEMMA HashesFinite == IsFiniteSet(Hashes)
<1> DEFINE f == [k \in Keys |-> Hash[k]]
<1>1. f \in Surjection(Keys, Hashes)
  BY DEF Surjection, Hashes
<1> QED BY <1>1, FS_Surjection, DirtySetAssumption

LEMMA SetListsFinite == IsFiniteSet(SetLists)
<1>1. ASSUME NEW s PROVE IsFiniteSet(ListsOf(s))
  <2> DEFINE f == [h \in Hashes |-> bucket(s, h)]
             B == {bucket(s, h) : h \in Hashes}
  <2>1. f \in Surjection(Hashes, B)
    BY DEF Surjection
  <2>2. IsFiniteSet(B)
    BY <2>1, FS_Surjection, HashesFinite
  <2>3. IsFiniteSet({iterlist(s)})
    BY FS_Singleton
  <2> QED BY <2>2, <2>3, FS_Union DEF ListsOf
<1> QED BY <1>1, FS_Union DEF SetLists

LEMMA SetMemoryFinite == IsFiniteSet(SetMemory) /\ Null \notin SetMemory
<1>1. IsFiniteSet({elem(x) : x \in Entries})
  <2> DEFINE f == [x \in Entries |-> elem(x)]
  <2>1. f \in Surjection(Entries, {elem(x) : x \in Entries})
    BY DEF Surjection
  <2> QED BY <2>1, FS_Surjection, DirtySetAssumption
<1>2. IsFiniteSet({iter(x) : x \in Entries})
  <2> DEFINE f == [x \in Entries |-> iter(x)]
  <2>1. f \in Surjection(Entries, {iter(x) : x \in Entries})
    BY DEF Surjection
  <2> QED BY <2>1, FS_Surjection, DirtySetAssumption
<1>3. IsFiniteSet({head(l) : l \in SetLists})
  <2> DEFINE f == [l \in SetLists |-> head(l)]
  <2>1. f \in Surjection(SetLists, {head(l) : l \in SetLists})
    BY DEF Surjection
  <2> QED BY <2>1, FS_Surjection, SetListsFinite
<1>4. IsFiniteSet({tail(l) : l \in SetLists})
  <2> DEFINE f == [l \in SetLists |-> tail(l)]
  <2>1. f \in Surjection(SetLists, {tail(l) : l \in SetLists})
    BY DEF Surjection
  <2> QED BY <2>1, FS_Surjection, SetListsFinite
<1>5. IsFiniteSet(SetMemory)
  BY <1>1, <1>2, <1>3, <1>4, FS_Union DEF SetMemory
<1> QED BY <1>5, DirtySetAssumption

LEMMA DirtyArena ==
  ASSUME NEW L, L \subseteq Sets
  PROVE  Arena(SetMemory, AllLists(L), Nodes)
<1>1. Nodes \subseteq SetMemory
  BY DEF Nodes, SetMemory
<1>2. ASSUME NEW l \in AllLists(L) PROVE {head(l), tail(l)} \subseteq SetMemory \ Nodes
  <2>1. l \in SetLists
    BY ListsAre
  <2>2. head(l) \in SetMemory /\ tail(l) \in SetMemory
    BY <2>1 DEF SetMemory
  <2>3. head(l) \notin Nodes /\ tail(l) \notin Nodes
    BY DirtyNames DEF Nodes
  <2> QED BY <2>2, <2>3
<1> QED BY <1>1, <1>2, SetMemoryFinite DEF Arena

(***************************************************************************)
(* What the invariant says of a set                                        *)
(***************************************************************************)
LEMMA OfSet ==
  ASSUME NEW m, NEW p, NEW L, L \subseteq Sets, Sound(m, p, L), NEW s \in L
  PROVE  /\ On(m, iterlist(s)) = {iter(x) : x \in Entered(m, s)}
         /\ \A h \in Hashes : \A e : e \in On(m, bucket(s, h)) <=>
              \E x \in Entered(m, s) : e = elem(x) /\ Hash[p[x]] = h
         /\ \A x, y \in Entered(m, s) : p[x] = p[y] => x = y
         /\ \A x \in Entered(m, s) : x \in Entries /\ p[x] \in Keys /\ p[x] # Null
         /\ \A z \in L : z # s => Entered(m, s) \cap Entered(m, z) = {}
<1>1. /\ On(m, iterlist(s)) = {iter(x) : x \in Entered(m, s)}
      /\ \A h \in Hashes : On(m, bucket(s, h)) = {elem(x) : x \in {y \in Entered(m, s) : Hash[p[y]] = h}}
      /\ \A x, y \in Entered(m, s) : p[x] = p[y] => x = y
  BY DEF Sound, Filed
<1>2. ASSUME NEW x \in Entered(m, s) PROVE x \in Entries /\ p[x] \in Keys /\ p[x] # Null
  <2>1. x \in Entries
    BY DEF Entered
  <2>2. p[x] # Null /\ p[x] \in Keys \cup {Null}
    BY <2>1 DEF Sound
  <2> QED BY <2>1, <2>2
<1>3. ASSUME NEW z \in L, z # s PROVE Entered(m, s) \cap Entered(m, z) = {}
  <2>1. iterlist(s) \in AllLists(L) /\ iterlist(z) \in AllLists(L) /\ iterlist(s) # iterlist(z)
    BY <1>3, ListsAre, DirtyNames
  <2>2. On(m, iterlist(s)) \cap On(m, iterlist(z)) = {}
    BY <2>1 DEF Sound, Linked, On
  <2> QED BY <2>2 DEF Entered
<1>4. ASSUME NEW h \in Hashes, NEW e
      PROVE  e \in On(m, bucket(s, h)) <=> \E x \in Entered(m, s) : e = elem(x) /\ Hash[p[x]] = h
  <2> DEFINE E == Entered(m, s)
             O == On(m, bucket(s, h))
  <2>1. O = {elem(x) : x \in {y \in E : Hash[p[y]] = h}}
    BY <1>1
  <2> HIDE DEF E, O
  <2>2. e \in O <=> \E x \in E : e = elem(x) /\ Hash[p[x]] = h
    BY <2>1
  <2> QED BY <2>2 DEF E, O
<1> QED BY <1>1, <1>2, <1>3, <1>4

LEMMA MinIn ==
  ASSUME NEW T, T \subseteq Nat, T # {}
  PROVE  Min(T) \in T
BY Least DEF Min

(* find returns the entry of the set that has the key, if there is one.    *)
LEMMA Found ==
  ASSUME NEW m, NEW p, NEW L, L \subseteq Sets, Sound(m, p, L), NEW s \in L, NEW k \in Keys,
         NEW x, x = find(s, m, p, k)
  PROVE  \/ x = Null /\ k \notin KeysOf(m, p, s)
         \/ x # Null /\ x \in Entered(m, s) /\ p[x] = k
<1> DEFINE c == Elements(m, bucket(s, Hash[k]))
           hits == {i \in DOMAIN c : p[list_entry(c[i])] = k}
           h == Hash[k]
<1>1. x = IF hits = {} THEN Null ELSE list_entry(c[Min(hits)])
  BY DEF find
<1>2. h \in Hashes /\ bucket(s, h) \in AllLists(L)
  BY DirtyNames, ListsAre
<1>3. DOMAIN c \subseteq Nat
  <2>1. Arena(SetMemory, AllLists(L), Nodes) /\ m \in Memories(SetMemory) /\ Linked(m, AllLists(L), Nodes)
    BY DirtyArena DEF Sound
  <2>2. c \in Seq(Nodes)
    BY <1>2, <2>1, LinkedParts
  <2> HIDE DEF c
  <2>3. DOMAIN c = 1 .. Len(c) /\ Len(c) \in Nat
    BY <2>2
  <2> QED BY <2>3
<1>4. ToSet(c) = On(m, bucket(s, h))
  BY DEF On
<1>5. CASE hits = {}
  <2>1. ASSUME NEW y \in Entered(m, s), p[y] = k PROVE FALSE
    <3>1. elem(y) \in ToSet(c)
      BY <1>2, <1>4, <2>1, OfSet
    <3> HIDE DEF c
    <3>2. PICK i \in DOMAIN c : c[i] = elem(y)
      BY <3>1 DEF ToSet
    <3>3. p[list_entry(c[i])] = k
      BY <2>1, <3>2, DirtyNames
    <3> QED BY <1>5, <3>3
  <2>2. k \notin KeysOf(m, p, s)
    BY <2>1 DEF KeysOf
  <2> QED BY <1>1, <1>5, <2>2
<1>6. CASE hits # {}
  <2> DEFINE i == Min(hits)
  <2>1. hits \subseteq Nat
    BY <1>3
  <2>2. i \in hits
    <3> HIDE DEF hits
    <3> QED BY <1>6, <2>1, MinIn
  <2> HIDE DEF i
  <2>3. i \in DOMAIN c /\ p[list_entry(c[i])] = k
    BY <2>2
  <2>4. c[i] \in On(m, bucket(s, h))
    <3> HIDE DEF c, h
    <3> QED BY <1>4, <2>3 DEF ToSet
  <2>5. PICK y \in Entered(m, s) : c[i] = elem(y)
    BY <1>2, <2>4, OfSet
  <2>6. x = y /\ p[y] = k
    BY <1>1, <1>6, <2>3, <2>5, DirtyNames DEF i
  <2>7. y \in Entries /\ Null \notin Entries
    BY OfSet, DirtySetAssumption
  <2> QED BY <2>5, <2>6, <2>7
<1> QED BY <1>5, <1>6

(***************************************************************************)
(* An insertion                                                            *)
(***************************************************************************)
(* While a key is not in a set there is memory for an entry.               *)
LEMMA Room ==
  ASSUME NEW m, NEW p, NEW L, L \subseteq Sets, Sound(m, p, L), NEW s \in L, NEW k \in Keys,
         k \notin KeysOf(m, p, s)
  PROVE  \E x \in Entries : p[x] = Null
<1> DEFINE in(x) == CHOOSE z \in L : x \in Entered(m, z)
           T == (Sets \X Keys) \ {<<s, k>>}
           f == [x \in Entries |-> <<in(x), p[x]>>]
<1>1. SUFFICES ASSUME \A x \in Entries : p[x] # Null PROVE FALSE
  OBVIOUS
<1>2. ASSUME NEW x \in Entries
      PROVE  in(x) \in L /\ x \in Entered(m, in(x)) /\ p[x] \in Keys
  <2>1. \E z \in L : x \in Entered(m, z)
    BY <1>1 DEF Sound
  <2>2. in(x) \in L /\ x \in Entered(m, in(x))
    BY <2>1
  <2> HIDE DEF in
  <2>3. p[x] \in Keys
    BY <2>2, OfSet
  <2> QED BY <2>2, <2>3
<1> HIDE DEF in
<1>3. ASSUME NEW x \in Entries PROVE <<in(x), p[x]>> \in T
  <2>1. in(x) \in Sets /\ p[x] \in Keys
    BY <1>2
  <2>2. <<in(x), p[x]>> # <<s, k>>
    BY <1>2 DEF KeysOf
  <2> QED BY <2>1, <2>2
<1>4. f \in [Entries -> T]
  <2> HIDE DEF T
  <2> QED BY <1>3
<1>5. \A x, y \in Entries : f[x] = f[y] => x = y
  <2>1. SUFFICES ASSUME NEW x \in Entries, NEW y \in Entries, f[x] = f[y] PROVE x = y
    OBVIOUS
  <2>2. in(x) = in(y) /\ p[x] = p[y]
    BY <2>1
  <2>3. in(x) \in L /\ x \in Entered(m, in(x)) /\ y \in Entered(m, in(x))
    BY <1>2, <2>2
  <2> QED BY <2>2, <2>3, OfSet
<1>6. IsFiniteSet(T) /\ Cardinality(T) < Cardinality(Entries)
  <2>1. IsFiniteSet(Sets) /\ Cardinality(Sets) = 2
    <3>1. IsFiniteSet({Base}) /\ Cardinality({Base}) = 1 /\ Clone \notin {Base}
      BY FS_Singleton, DirtySetAssumption
    <3>2. Sets = {Base} \cup {Clone}
      BY DEF Sets
    <3>3. IsFiniteSet({Base} \cup {Clone}) /\ Cardinality({Base} \cup {Clone}) = 1 + 1
      BY <3>1, FS_AddElement
    <3> QED BY <3>2, <3>3
  <2>2. IsFiniteSet(Keys) /\ IsFiniteSet(Entries) /\ Cardinality(Entries) >= 2 * Cardinality(Keys)
        /\ Cardinality(Keys) \in Nat /\ Cardinality(Entries) \in Nat
    BY FS_CardinalityType, DirtySetAssumption
  <2>3. IsFiniteSet(Sets \X Keys) /\ Cardinality(Sets \X Keys) = Cardinality(Sets) * Cardinality(Keys)
    BY <2>1, <2>2, FS_Product
  <2>4. <<s, k>> \in Sets \X Keys
    OBVIOUS
  <2>5. IsFiniteSet(T) /\ Cardinality(T) = Cardinality(Sets \X Keys) - 1
    BY <2>3, <2>4, FS_RemoveElement
  <2> HIDE DEF T
  <2> QED BY <2>1, <2>2, <2>3, <2>5
<1> HIDE DEF f, T
<1>7. IsFiniteSet(Entries)
  BY DirtySetAssumption
<1>8. \E x, y \in Entries : x # y /\ f[x] = f[y]
  BY <1>4, <1>6, <1>7, FS_PigeonHole
<1> QED BY <1>5, <1>8

(* The list l has the elements S now, and the other lists have what they   *)
(* had.                                                                    *)
Holds(K, m, w, l, S) ==
  /\ w \in Memories(SetMemory) /\ Linked(w, K, Nodes)
  /\ On(w, l) = S /\ \A k \in K : k # l => On(w, k) = On(m, k)

LEMMA Push ==
  ASSUME NEW L, L \subseteq Sets, NEW m \in Memories(SetMemory), Linked(m, AllLists(L), Nodes),
         NEW l \in AllLists(L), NEW e \in Nodes, \A k \in AllLists(L) : e \notin On(m, k)
  PROVE  Holds(AllLists(L), m, list_push_back(m, l, e), l, On(m, l) \cup {e})
<1> DEFINE K == AllLists(L)
           w == list_push_back(m, l, e)
           t == Append(Elements(m, l), e)
<1>1. Arena(SetMemory, K, Nodes) /\ Linked(m, K, Nodes) /\ l \in K
      /\ \A k \in K : e \notin ToSet(Elements(m, k))
  BY DirtyArena DEF On
<1>2. w = list_push_back(m, l, e) /\ t = Append(Elements(m, l), e)
  OBVIOUS
<1> HIDE DEF K, w, t
<1>3. ListGains(SetMemory, K, Nodes, m, w, l, e, t)
  BY <1>1, <1>2, LinkedPush
<1>4. Holds(K, m, w, l, On(m, l) \cup {e})
  BY <1>3 DEF ListGains, ListIs, Holds, On
<1> QED BY <1>4 DEF K, w

LEMMA Take ==
  ASSUME NEW L, L \subseteq Sets, NEW m \in Memories(SetMemory), Linked(m, AllLists(L), Nodes),
         NEW l \in AllLists(L), NEW e \in On(m, l)
  PROVE  Holds(AllLists(L), m, list_remove(m, e), l, On(m, l) \ {e})
<1> DEFINE K == AllLists(L)
           w == list_remove(m, e)
           s == Elements(m, l)
<1>1. Arena(SetMemory, K, Nodes) /\ Linked(m, K, Nodes) /\ l \in K
  BY DirtyArena
<1>2. w = list_remove(m, e) /\ s = Elements(m, l)
  OBVIOUS
<1>3. e \in ToSet(s)
  BY DEF On
<1> HIDE DEF K, w, s
<1>4. s \in Seq(Nodes)
  BY <1>1, <1>2, LinkedParts
<1>5. PICK j \in 1 .. Len(s) : e = s[j]
  BY <1>3, <1>4 DEF ToSet
<1>6. ListLoses(SetMemory, K, Nodes, m, w, l, s[j], RemoveAt(s, j))
  BY <1>1, <1>2, <1>5, LinkedTake
<1>7. Holds(K, m, w, l, On(m, l) \ {e})
  BY <1>2, <1>5, <1>6 DEF ListLoses, ListIs, Holds, On
<1> QED BY <1>7 DEF K, w

LEMMA NotFiled ==
  ASSUME NEW m, NEW p, NEW L, L \subseteq Sets, Sound(m, p, L), NEW x \in Entries, p[x] = Null,
         NEW l \in AllLists(L)
  PROVE  elem(x) \notin On(m, l) /\ iter(x) \notin On(m, l)
<1>1. PICK s \in L : l = iterlist(s) \/ \E h \in Hashes : l = bucket(s, h)
  BY ListsAre
<1>2. x \notin Entered(m, s)
  BY OfSet
<1>3. CASE l = iterlist(s)
  BY <1>2, <1>3, OfSet, DirtyNames
<1>4. CASE \E h \in Hashes : l = bucket(s, h)
  BY <1>2, <1>4, OfSet, DirtyNames
<1> QED BY <1>1, <1>3, <1>4

(* The invariant holds if the sets L have the entries G.                   *)
ContentIs(w, q, L, G) ==
  /\ \A z \in L : G[z] \subseteq Entries /\ On(w, iterlist(z)) = {iter(x) : x \in G[z]}
  /\ \A z \in L : \A h \in Hashes : \A e : e \in On(w, bucket(z, h)) <=>
       \E x \in G[z] : e = elem(x) /\ Hash[q[x]] = h
  /\ \A z \in L : \A x, y \in G[z] : q[x] = q[y] => x = y
  /\ \A x \in Entries : q[x] # Null <=> \E z \in L : x \in G[z]

Stocked(w, q, L, G) == Sound(w, q, L) /\ \A z \in L : Entered(w, z) = G[z]

LEMMA Contained ==
  ASSUME NEW L, L \subseteq Sets, NEW w \in Memories(SetMemory), Linked(w, AllLists(L), Nodes),
         NEW q \in [Entries -> Keys \cup {Null}], NEW G, ContentIs(w, q, L, G)
  PROVE  Stocked(w, q, L, G)
<1>1. ASSUME NEW z \in L PROVE Entered(w, z) = G[z]
  BY DirtyNames DEF ContentIs, Entered
<1>2. ASSUME NEW z \in L PROVE Filed(w, q, z)
  <2>1. On(w, iterlist(z)) = {iter(x) : x \in Entered(w, z)}
    BY <1>1 DEF ContentIs
  <2>2. ASSUME NEW h \in Hashes
        PROVE  On(w, bucket(z, h)) = {elem(x) : x \in {y \in Entered(w, z) : Hash[q[y]] = h}}
    <3> DEFINE E == Entered(w, z)
               O == On(w, bucket(z, h))
    <3>1. \A e : e \in O <=> \E x \in E : e = elem(x) /\ Hash[q[x]] = h
      BY <1>1 DEF ContentIs
    <3> HIDE DEF E, O
    <3>2. O = {elem(x) : x \in {y \in E : Hash[q[y]] = h}}
      BY <3>1
    <3> QED BY <3>2 DEF E, O
  <2>3. \A x, y \in Entered(w, z) : q[x] = q[y] => x = y
    BY <1>1 DEF ContentIs
  <2> QED BY <2>1, <2>2, <2>3 DEF Filed
<1>3. \A x \in Entries : q[x] # Null <=> \E z \in L : x \in Entered(w, z)
  BY <1>1 DEF ContentIs
<1> QED BY <1>1, <1>2, <1>3 DEF Sound, Stocked

(* The key k came into the set s.                                          *)
Added(m, p, w, q, L, s, k) ==
  /\ Sound(w, q, L)
  /\ KeysOf(w, q, s) = KeysOf(m, p, s) \cup {k}
  /\ \A z \in L : z # s => KeysOf(w, q, z) = KeysOf(m, p, z)

LEMMA Enters ==
  ASSUME NEW m, NEW p, NEW L, L \subseteq Sets, Sound(m, p, L), NEW s \in L, NEW k \in Keys,
         k \notin KeysOf(m, p, s), NEW x \in Entries, p[x] = Null,
         NEW v, v = list_push_back(m, bucket(s, Hash[k]), elem(x)),
         NEW w, w = list_push_back(v, iterlist(s), iter(x)),
         NEW q, q = [p EXCEPT ![x] = k]
  PROVE  Added(m, p, w, q, L, s, k)
<1> DEFINE K == AllLists(L)
           b == bucket(s, Hash[k])
           G == [z \in L |-> IF z = s THEN Entered(m, s) \cup {x} ELSE Entered(m, z)]
<1>1. /\ m \in Memories(SetMemory) /\ Linked(m, K, Nodes) /\ p \in [Entries -> Keys \cup {Null}]
      /\ b \in K /\ iterlist(s) \in K /\ b # iterlist(s) /\ Hash[k] \in Hashes
      /\ elem(x) \in Nodes /\ iter(x) \in Nodes /\ elem(x) # iter(x)
      /\ \A l \in K : elem(x) \notin On(m, l) /\ iter(x) \notin On(m, l)
  BY NotFiled, ListsAre, DirtyNames DEF Sound, Nodes
<1>2. Holds(K, m, v, b, On(m, b) \cup {elem(x)})
  BY <1>1, Push
<1>3. /\ v \in Memories(SetMemory) /\ Linked(v, K, Nodes) /\ On(v, b) = On(m, b) \cup {elem(x)}
      /\ \A l \in K : l # b => On(v, l) = On(m, l)
  BY <1>2 DEF Holds
<1>4. \A l \in K : iter(x) \notin On(v, l)
  BY <1>1, <1>3
<1>5. Holds(K, v, w, iterlist(s), On(v, iterlist(s)) \cup {iter(x)})
  BY <1>1, <1>3, <1>4, Push
<1>6. /\ w \in Memories(SetMemory) /\ Linked(w, K, Nodes)
      /\ On(w, iterlist(s)) = On(m, iterlist(s)) \cup {iter(x)}
      /\ On(w, b) = On(m, b) \cup {elem(x)}
      /\ \A l \in K : l # b /\ l # iterlist(s) => On(w, l) = On(m, l)
  BY <1>1, <1>3, <1>5 DEF Holds
<1>7. /\ q \in [Entries -> Keys \cup {Null}] /\ q[x] = k /\ k # Null
      /\ \A y \in Entries : y # x => q[y] = p[y]
  BY <1>1, DirtySetAssumption
<1>8. \A z \in L : /\ x \notin Entered(m, z) /\ Entered(m, z) \subseteq Entries
                   /\ \A y \in Entered(m, z) : y # x /\ q[y] = p[y]
  BY <1>7, OfSet DEF Entered
<1>9. \A z \in L : G[z] = IF z = s THEN Entered(m, s) \cup {x} ELSE Entered(m, z)
  OBVIOUS
<1> HIDE DEF K, G
<1>10. ASSUME NEW z \in L PROVE G[z] \subseteq Entries /\ On(w, iterlist(z)) = {iter(y) : y \in G[z]}
  <2>1. CASE z = s
    BY <1>6, <1>8, <1>9, <2>1, OfSet
  <2>2. CASE z # s
    <3>1. On(w, iterlist(z)) = On(m, iterlist(z))
      BY <1>1, <1>6, <2>2, ListsAre, DirtyNames DEF K
    <3> QED BY <1>8, <1>9, <2>2, <3>1, OfSet
  <2> QED BY <2>1, <2>2
<1>11. ASSUME NEW z \in L, NEW h \in Hashes, NEW e
       PROVE  e \in On(w, bucket(z, h)) <=> \E y \in G[z] : e = elem(y) /\ Hash[q[y]] = h
  <2>1. e \in On(m, bucket(z, h)) <=> \E y \in Entered(m, z) : e = elem(y) /\ Hash[p[y]] = h
    BY OfSet
  <2>2. CASE z = s /\ h = Hash[k]
    BY <1>6, <1>7, <1>8, <1>9, <2>1, <2>2
  <2>3. CASE ~(z = s /\ h = Hash[k])
    <3>1. On(w, bucket(z, h)) = On(m, bucket(z, h))
      <4>1. bucket(z, h) # b /\ bucket(z, h) # iterlist(s) /\ bucket(z, h) \in K
        BY <2>3, ListsAre, DirtyNames DEF K
      <4> QED BY <1>6, <4>1
    <3>2. CASE z = s
      BY <1>7, <1>8, <1>9, <2>1, <2>3, <3>1, <3>2
    <3>3. CASE z # s
      BY <1>8, <1>9, <2>1, <3>1, <3>3
    <3> QED BY <3>2, <3>3
  <2> QED BY <2>2, <2>3
<1>12. ASSUME NEW z \in L, NEW y \in G[z], NEW u \in G[z], q[y] = q[u] PROVE y = u
  <2>1. CASE z = s
    <3>1. \A a \in Entered(m, s) : q[a] # k
      BY <1>8 DEF KeysOf
    <3> QED BY <1>7, <1>8, <1>9, <1>12, <2>1, <3>1, OfSet
  <2>2. CASE z # s
    BY <1>8, <1>9, <1>12, <2>2, OfSet
  <2> QED BY <2>1, <2>2
<1>13. ASSUME NEW y \in Entries PROVE q[y] # Null <=> \E z \in L : y \in G[z]
  <2>1. p[y] # Null <=> \E z \in L : y \in Entered(m, z)
    BY DEF Sound
  <2> QED BY <1>7, <1>8, <1>9, <2>1
<1>14. ContentIs(w, q, L, G)
  BY <1>10, <1>11, <1>12, <1>13 DEF ContentIs
<1>15. Sound(w, q, L) /\ \A z \in L : Entered(w, z) = G[z]
  <2>1. /\ w \in Memories(SetMemory) /\ Linked(w, AllLists(L), Nodes)
        /\ q \in [Entries -> Keys \cup {Null}]
    BY <1>6, <1>7 DEF K
  <2>2. Stocked(w, q, L, G)
    BY <1>14, <2>1, Contained
  <2> QED BY <2>2 DEF Stocked
<1>16. KeysOf(w, q, s) = KeysOf(m, p, s) \cup {k}
  BY <1>7, <1>8, <1>9, <1>15 DEF KeysOf
<1>17. \A z \in L : z # s => KeysOf(w, q, z) = KeysOf(m, p, z)
  BY <1>7, <1>8, <1>9, <1>15 DEF KeysOf
<1> QED BY <1>15, <1>16, <1>17 DEF Added

(* A call of insert.                                                       *)
LEMMA InsertAdds ==
  ASSUME NEW m, NEW p, NEW L, L \subseteq Sets, Sound(m, p, L), NEW s \in L, NEW k \in Keys,
         NEW st, st = insert(s, [links |-> m, ptr |-> p], k)
  PROVE  Added(m, p, st.links, st.ptr, L, s, k) /\ st = [links |-> st.links, ptr |-> st.ptr]
<1> DEFINE x == entry_new(p)
           v == list_push_back(m, bucket(s, Hash[k]), elem(x))
           w == list_push_back(v, iterlist(s), iter(x))
           q == [p EXCEPT ![x] = k]
           f == find(s, m, p, k)
<1>1. st = IF f # Null THEN [links |-> m, ptr |-> p] ELSE [links |-> w, ptr |-> q]
  BY DEF insert
<1>2. \/ f = Null /\ k \notin KeysOf(m, p, s)
      \/ f # Null /\ f \in Entered(m, s) /\ p[f] = k
  BY Found
<1>3. CASE f # Null
  <2>1. KeysOf(m, p, s) = KeysOf(m, p, s) \cup {k}
    BY <1>2, <1>3 DEF KeysOf
  <2>2. st.links = m /\ st.ptr = p /\ st = [links |-> st.links, ptr |-> st.ptr]
    BY <1>1, <1>3
  <2>3. Added(m, p, m, p, L, s, k)
    BY <2>1 DEF Added
  <2> QED BY <2>2, <2>3
<1>4. CASE f = Null
  <2>1. k \notin KeysOf(m, p, s)
    BY <1>2, <1>4
  <2>2. \E y \in Entries : p[y] = Null
    BY <2>1, Room
  <2>3. x \in Entries /\ p[x] = Null
    BY <2>2 DEF entry_new
  <2>4. st = [links |-> w, ptr |-> q]
    BY <1>1, <1>4
  <2>0. v = list_push_back(m, bucket(s, Hash[k]), elem(x)) /\ w = list_push_back(v, iterlist(s), iter(x))
        /\ q = [p EXCEPT ![x] = k]
    OBVIOUS
  <2> HIDE DEF x, v, w, q
  <2>5. Added(m, p, w, q, L, s, k)
    BY <2>0, <2>1, <2>3, Enters
  <2>6. st.links = w /\ st.ptr = q
    BY <2>4
  <2> QED BY <2>4, <2>5, <2>6
<1> QED BY <1>3, <1>4

(***************************************************************************)
(* A removal                                                               *)
(***************************************************************************)
(* Links of cells that are on none of the lists do not matter to them.     *)
Kept(K, w, u) == Linked(u, K, Nodes) /\ \A l \in K : On(u, l) = On(w, l)

LEMMA Untouched ==
  ASSUME NEW L, L \subseteq Sets, NEW w \in Memories(SetMemory), Linked(w, AllLists(L), Nodes),
         NEW u \in Memories(SetMemory),
         \A l \in AllLists(L) : /\ u[head(l)] = w[head(l)] /\ u[tail(l)] = w[tail(l)]
                                /\ \A c \in On(w, l) : u[c] = w[c]
  PROVE  Kept(AllLists(L), w, u)
<1> DEFINE K == AllLists(L)
<1>1. Arena(SetMemory, K, Nodes)
  BY DirtyArena
<1>2. ASSUME NEW l \in K
      PROVE  /\ Chain(w, l, Elements(w, l)) /\ Chain(u, l, Elements(w, l))
             /\ Elements(u, l) = Elements(w, l)
  <2>1. Chain(w, l, Elements(w, l))
    BY DEF Linked
  <2>2. \A c \in SetMemory : c \in Cells(l, Elements(w, l)) => u[c] = w[c]
    BY DEF Cells, On
  <2>3. Chain(u, l, Elements(w, l))
    BY <2>1, <2>2, SameChain
  <2>4. Elements(u, l) = Elements(w, l)
    BY <1>1, <2>3, ArenaReads
  <2> QED BY <2>1, <2>3, <2>4
<1>3. Linked(u, K, Nodes)
  BY <1>2 DEF Linked
<1> QED BY <1>2, <1>3 DEF On, Kept

(* The key k went out of the set s.                                        *)
Dropped(m, p, w, q, L, s, k) ==
  /\ Sound(w, q, L)
  /\ KeysOf(w, q, s) = KeysOf(m, p, s) \ {k}
  /\ \A z \in L : z # s => KeysOf(w, q, z) = KeysOf(m, p, z)

(* The entry x is off both its lists in w.                                 *)
OffBoth(m, p, w, L, s, x) ==
  /\ w \in Memories(SetMemory) /\ Linked(w, AllLists(L), Nodes)
  /\ On(w, iterlist(s)) = On(m, iterlist(s)) \ {iter(x)}
  /\ On(w, bucket(s, Hash[p[x]])) = On(m, bucket(s, Hash[p[x]])) \ {elem(x)}
  /\ \A l \in AllLists(L) : l # iterlist(s) /\ l # bucket(s, Hash[p[x]]) => On(w, l) = On(m, l)

LEMMA Leaves ==
  ASSUME NEW m, NEW p, NEW L, L \subseteq Sets, Sound(m, p, L), NEW s \in L,
         NEW x \in Entered(m, s), NEW w, OffBoth(m, p, w, L, s, x),
         NEW u, u = entry_delete(w, x), NEW q, q = [p EXCEPT ![x] = Null]
  PROVE  Dropped(m, p, u, q, L, s, p[x])
<1> DEFINE K == AllLists(L)
           b == bucket(s, Hash[p[x]])
           G == [z \in L |-> IF z = s THEN Entered(m, s) \ {x} ELSE Entered(m, z)]
<1>1. /\ p \in [Entries -> Keys \cup {Null}] /\ x \in Entries /\ p[x] \in Keys /\ p[x] # Null
      /\ b \in K /\ iterlist(s) \in K /\ b # iterlist(s) /\ Hash[p[x]] \in Hashes
      /\ elem(x) \in SetMemory /\ iter(x) \in SetMemory
      /\ \A l : iter(x) \notin {head(l), tail(l)} /\ elem(x) \notin {head(l), tail(l)}
  <2>1. p \in [Entries -> Keys \cup {Null}] /\ x \in Entries /\ p[x] \in Keys /\ p[x] # Null
    BY OfSet DEF Sound
  <2>2. Hash[p[x]] \in Hashes
    BY <2>1, DirtyNames
  <2>3. b \in K /\ iterlist(s) \in K /\ b # iterlist(s)
    BY <2>2, ListsAre, DirtyNames
  <2>4. elem(x) \in SetMemory /\ iter(x) \in SetMemory
    BY <2>1 DEF SetMemory
  <2> QED BY <2>1, <2>2, <2>3, <2>4, DirtyNames
<1>2. /\ w \in Memories(SetMemory) /\ Linked(w, K, Nodes)
      /\ On(w, iterlist(s)) = On(m, iterlist(s)) \ {iter(x)}
      /\ On(w, b) = On(m, b) \ {elem(x)}
      /\ \A l \in K : l # iterlist(s) /\ l # b => On(w, l) = On(m, l)
  BY DEF OffBoth
<1>3. \A z \in L : z # s => x \notin Entered(m, z)
  BY OfSet
<1>4. ASSUME NEW l \in K PROVE elem(x) \notin On(w, l) /\ iter(x) \notin On(w, l)
  <2>1. PICK z \in L : l = iterlist(z) \/ \E h \in Hashes : l = bucket(z, h)
    BY ListsAre
  <2>2. CASE l = iterlist(z)
    <3>1. elem(x) \notin On(m, l)
      BY <2>2, OfSet, DirtyNames
    <3>2. CASE z = s
      BY <1>1, <1>2, <2>2, <3>1, <3>2
    <3>3. CASE z # s
      <4>1. l # iterlist(s) /\ l # b
        BY <1>1, <2>2, <3>3, DirtyNames
      <4>2. iter(x) \notin On(m, l)
        BY <1>3, <2>2, <3>3, OfSet, DirtyNames
      <4> QED BY <1>2, <3>1, <4>1, <4>2
    <3> QED BY <3>2, <3>3
  <2>3. CASE \E h \in Hashes : l = bucket(z, h)
    <3>1. PICK h \in Hashes : l = bucket(z, h)
      BY <2>3
    <3>2. l # iterlist(s)
      BY <3>1, DirtyNames
    <3>3. iter(x) \notin On(m, l)
      BY <3>1, OfSet, DirtyNames
    <3>4. CASE l = b
      BY <1>2, <3>2, <3>3, <3>4
    <3>5. CASE l # b
      <4>1. ASSUME elem(x) \in On(m, l) PROVE FALSE
        <5>1. PICK y \in Entered(m, z) : elem(x) = elem(y) /\ Hash[p[y]] = h
          BY <3>1, <4>1, OfSet
        <5>2. y = x
          BY <5>1, DirtyNames
        <5> QED BY <1>3, <3>1, <3>5, <5>1, <5>2
      <4> QED BY <1>2, <3>2, <3>3, <3>5, <4>1
    <3> QED BY <3>4, <3>5
  <2> QED BY <2>1, <2>2, <2>3
<1>5. /\ u \in Memories(SetMemory)
      /\ \A c \in SetMemory : c # elem(x) /\ c # iter(x) => u[c] = w[c]
  <2>1. Unlinked \in [prev : SetMemory \cup {Null}, next : SetMemory \cup {Null}]
    BY DEF Unlinked
  <2>2. u = [w EXCEPT ![elem(x)] = Unlinked, ![iter(x)] = Unlinked]
    BY DEF entry_delete
  <2> HIDE DEF b
  <2> QED BY <1>1, <1>2, <2>1, <2>2 DEF Memories
<1>6. Linked(u, K, Nodes) /\ \A l \in K : On(u, l) = On(w, l)
  <2>1. ASSUME NEW l \in K
        PROVE  /\ u[head(l)] = w[head(l)] /\ u[tail(l)] = w[tail(l)]
               /\ \A c \in On(w, l) : u[c] = w[c]
    <3>1. head(l) \in SetMemory /\ tail(l) \in SetMemory /\ On(w, l) \subseteq SetMemory
      BY <1>2, DirtyArena DEF Arena, Linked, On
    <3> QED BY <1>1, <1>4, <1>5, <3>1
  <2>2. Kept(K, w, u)
    BY <1>2, <1>5, <2>1, Untouched
  <2> QED BY <2>2 DEF Kept
<1>7. /\ q \in [Entries -> Keys \cup {Null}] /\ q[x] = Null
      /\ \A y \in Entries : y # x => q[y] = p[y]
  BY <1>1
<1>8. \A z \in L : Entered(m, z) \subseteq Entries
  BY DEF Entered
<1>9. /\ \A z \in L : G[z] = IF z = s THEN Entered(m, s) \ {x} ELSE Entered(m, z)
      /\ \A z \in L : \A y \in G[z] : y \in Entered(m, z) /\ y # x /\ q[y] = p[y] /\ y \in Entries
  BY <1>3, <1>7, <1>8
<1> HIDE DEF K, G
<1>10. ASSUME NEW z \in L PROVE G[z] \subseteq Entries /\ On(u, iterlist(z)) = {iter(y) : y \in G[z]}
  <2>1. iterlist(z) \in K /\ iterlist(z) # b
    BY <1>1, ListsAre, DirtyNames DEF K
  <2>2. CASE z = s
    <3>1. On(u, iterlist(z)) = On(m, iterlist(s)) \ {iter(x)}
      BY <1>2, <1>6, <2>1, <2>2
    <3>2. \A y : iter(y) = iter(x) => y = x
      BY DirtyNames
    <3> QED BY <1>9, <2>2, <3>1, <3>2, OfSet
  <2>3. CASE z # s
    <3>1. On(u, iterlist(z)) = On(m, iterlist(z))
      BY <1>2, <1>6, <2>1, <2>3, DirtyNames
    <3> QED BY <1>9, <2>3, <3>1, OfSet
  <2> QED BY <2>2, <2>3
<1>11. ASSUME NEW z \in L, NEW h \in Hashes, NEW e
       PROVE  e \in On(u, bucket(z, h)) <=> \E y \in G[z] : e = elem(y) /\ Hash[q[y]] = h
  <2>1. e \in On(m, bucket(z, h)) <=> \E y \in Entered(m, z) : e = elem(y) /\ Hash[p[y]] = h
    BY OfSet
  <2>0. bucket(z, h) \in K /\ bucket(z, h) # iterlist(s)
    BY ListsAre, DirtyNames DEF K
  <2>2. CASE z = s /\ h = Hash[p[x]]
    <3>1. On(u, bucket(z, h)) = On(m, bucket(z, h)) \ {elem(x)}
      BY <1>2, <1>6, <2>0, <2>2
    <3>2. \A y : elem(y) = elem(x) => y = x
      BY DirtyNames
    <3> QED BY <1>9, <2>1, <2>2, <3>1, <3>2
  <2>3. CASE ~(z = s /\ h = Hash[p[x]])
    <3>1. On(u, bucket(z, h)) = On(m, bucket(z, h))
      <4>1. bucket(z, h) # b
        BY <2>3, DirtyNames
      <4> QED BY <1>2, <1>6, <2>0, <4>1
    <3> QED BY <1>9, <2>1, <2>3, <3>1
  <2> QED BY <2>2, <2>3
<1>12. ASSUME NEW z \in L, NEW y \in G[z], NEW a \in G[z], q[y] = q[a] PROVE y = a
  BY <1>9, <1>12, OfSet
<1>13. ASSUME NEW y \in Entries PROVE q[y] # Null <=> \E z \in L : y \in G[z]
  <2>1. p[y] # Null <=> \E z \in L : y \in Entered(m, z)
    BY DEF Sound
  <2> QED BY <1>3, <1>7, <1>9, <2>1
<1>14. ContentIs(u, q, L, G)
  BY <1>10, <1>11, <1>12, <1>13 DEF ContentIs
<1>15. Sound(u, q, L) /\ \A z \in L : Entered(u, z) = G[z]
  <2>1. /\ u \in Memories(SetMemory) /\ Linked(u, AllLists(L), Nodes)
        /\ q \in [Entries -> Keys \cup {Null}]
    BY <1>5, <1>6, <1>7 DEF K
  <2>2. Stocked(u, q, L, G)
    BY <1>14, <2>1, Contained
  <2> QED BY <2>2 DEF Stocked
<1>16. KeysOf(u, q, s) = KeysOf(m, p, s) \ {p[x]}
  <2>1. \A y \in Entered(m, s) : p[y] = p[x] => y = x
    BY OfSet
  <2> QED BY <1>9, <1>15, <2>1 DEF KeysOf
<1>17. \A z \in L : z # s => KeysOf(u, q, z) = KeysOf(m, p, z)
  BY <1>9, <1>15 DEF KeysOf
<1> QED BY <1>15, <1>16, <1>17 DEF Dropped

(* An entry is taken off its two lists, in either order.                   *)
LEMMA BothRemoved ==
  ASSUME NEW m, NEW p, NEW L, L \subseteq Sets, Sound(m, p, L), NEW s \in L,
         NEW x \in Entered(m, s)
  PROVE  /\ OffBoth(m, p, list_remove(list_remove(m, elem(x)), iter(x)), L, s, x)
         /\ OffBoth(m, p, list_remove(list_remove(m, iter(x)), elem(x)), L, s, x)
<1> DEFINE K == AllLists(L)
           b == bucket(s, Hash[p[x]])
           i == iterlist(s)
           ve == list_remove(m, elem(x))
           vi == list_remove(m, iter(x))
           we == list_remove(ve, iter(x))
           wi == list_remove(vi, elem(x))
<1>1. x \in Entries /\ p[x] \in Keys /\ Hash[p[x]] \in Hashes
  BY OfSet, DirtyNames
<1>2. m \in Memories(SetMemory) /\ Linked(m, K, Nodes) /\ b \in K /\ i \in K /\ b # i
  BY <1>1, ListsAre, DirtyNames DEF Sound
<1>3. elem(x) \in On(m, b) /\ iter(x) \in On(m, i)
  BY <1>1, OfSet
<1>4. Holds(K, m, ve, b, On(m, b) \ {elem(x)}) /\ Holds(K, m, vi, i, On(m, i) \ {iter(x)})
  BY <1>2, <1>3, Take
<1>5. /\ ve \in Memories(SetMemory) /\ Linked(ve, K, Nodes) /\ iter(x) \in On(ve, i)
      /\ vi \in Memories(SetMemory) /\ Linked(vi, K, Nodes) /\ elem(x) \in On(vi, b)
  BY <1>2, <1>3, <1>4 DEF Holds
<1> HIDE DEF ve, vi
<1>6. Holds(K, ve, we, i, On(ve, i) \ {iter(x)}) /\ Holds(K, vi, wi, b, On(vi, b) \ {elem(x)})
  BY <1>2, <1>5, Take
<1> HIDE DEF we, wi, K, b, i
<1>7. /\ we \in Memories(SetMemory) /\ Linked(we, K, Nodes)
      /\ On(we, i) = On(m, i) \ {iter(x)} /\ On(we, b) = On(m, b) \ {elem(x)}
      /\ \A l \in K : l # i /\ l # b => On(we, l) = On(m, l)
  BY <1>2, <1>4, <1>6 DEF Holds
<1>8. /\ wi \in Memories(SetMemory) /\ Linked(wi, K, Nodes)
      /\ On(wi, i) = On(m, i) \ {iter(x)} /\ On(wi, b) = On(m, b) \ {elem(x)}
      /\ \A l \in K : l # i /\ l # b => On(wi, l) = On(m, l)
  BY <1>2, <1>4, <1>6 DEF Holds
<1>9. OffBoth(m, p, we, L, s, x)
  BY <1>7 DEF OffBoth, K, i, b
<1>10. OffBoth(m, p, wi, L, s, x)
  BY <1>8 DEF OffBoth, K, i, b
<1> QED BY <1>9, <1>10 DEF we, wi, ve, vi

(* A call of remove.                                                       *)
LEMMA RemoveDrops ==
  ASSUME NEW m, NEW p, NEW L, L \subseteq Sets, Sound(m, p, L), NEW s \in L, NEW k \in Keys,
         NEW st, st = remove(s, [links |-> m, ptr |-> p], k)
  PROVE  Dropped(m, p, st.links, st.ptr, L, s, k)
<1> DEFINE x == find(s, m, p, k)
           w == list_remove(list_remove(m, elem(x)), iter(x))
           u == entry_delete(w, x)
           q == [p EXCEPT ![x] = Null]
<1>1. st = IF x = Null THEN [links |-> m, ptr |-> p] ELSE [links |-> u, ptr |-> q]
  BY DEF remove, unlink
<1>2. \/ x = Null /\ k \notin KeysOf(m, p, s)
      \/ x # Null /\ x \in Entered(m, s) /\ p[x] = k
  BY Found
<1>3. CASE x = Null
  <2>1. KeysOf(m, p, s) = KeysOf(m, p, s) \ {k}
    BY <1>2, <1>3
  <2>2. st.links = m /\ st.ptr = p
    BY <1>1, <1>3
  <2> QED BY <2>1, <2>2 DEF Dropped
<1>4. CASE x # Null
  <2>1. x \in Entered(m, s) /\ p[x] = k
    BY <1>2, <1>4
  <2>2. st.links = u /\ st.ptr = q
    <3> HIDE DEF x, u, q
    <3> QED BY <1>1, <1>4
  <2>3. w = list_remove(list_remove(m, elem(x)), iter(x)) /\ u = entry_delete(w, x)
        /\ q = [p EXCEPT ![x] = Null]
    OBVIOUS
  <2> HIDE DEF x, w, u, q
  <2>4. OffBoth(m, p, w, L, s, x)
    BY <2>1, <2>3, BothRemoved
  <2>5. Dropped(m, p, u, q, L, s, p[x])
    BY <2>1, <2>3, <2>4, Leaves
  <2> QED BY <2>1, <2>2, <2>5
<1> QED BY <1>3, <1>4

LEMMA EmptySet ==
  ASSUME NEW m, NEW p, NEW L, L \subseteq Sets, Sound(m, p, L), NEW s \in L
  PROVE  /\ Chain(m, iterlist(s), Elements(m, iterlist(s)))
         /\ Elements(m, iterlist(s)) \in Seq(Nodes)
         /\ list_empty(m, iterlist(s)) <=> Elements(m, iterlist(s)) = <<>>
         /\ list_empty(m, iterlist(s)) <=> KeysOf(m, p, s) = {}
<1> DEFINE l == iterlist(s)
           e == Elements(m, l)
<1>1. /\ m \in Memories(SetMemory) /\ Linked(m, AllLists(L), Nodes) /\ l \in AllLists(L)
      /\ Arena(SetMemory, AllLists(L), Nodes)
  BY DirtyArena, ListsAre DEF Sound
<1>2. Chain(m, l, e) /\ e \in Seq(Nodes)
  BY <1>1, LinkedParts
<1>3. list_empty(m, l) <=> e = <<>>
  BY <1>2, EmptyList
<1>4. e = <<>> <=> ToSet(e) = {}
  <2> HIDE DEF e
  <2>1. DOMAIN e = 1 .. Len(e) /\ Len(e) \in Nat /\ (e = <<>> <=> Len(e) = 0)
    BY <1>2
  <2> QED BY <2>1 DEF ToSet
<1>5. ToSet(e) = {iter(x) : x \in Entered(m, s)}
  BY OfSet DEF On
<1>6. ToSet(e) = {} <=> KeysOf(m, p, s) = {}
  BY <1>5 DEF KeysOf
<1> QED BY <1>2, <1>3, <1>4, <1>6

(* A call of remove_any on a set that is not empty.                        *)
LEMMA RemoveAnyDrops ==
  ASSUME NEW m, NEW p, NEW L, L \subseteq Sets, Sound(m, p, L), NEW s \in L,
         ~list_empty(m, iterlist(s)), NEW st, st = remove_any(s, [links |-> m, ptr |-> p])
  PROVE  /\ p[any(s, m)] \in KeysOf(m, p, s)
         /\ Dropped(m, p, st.links, st.ptr, L, s, p[any(s, m)])
<1> DEFINE l == iterlist(s)
           e == Elements(m, l)
           x == any(s, m)
           w == list_remove(list_pop_front(m, l), elem(x))
           u == entry_delete(w, x)
           q == [p EXCEPT ![x] = Null]
<1>1. m \in Memories(SetMemory) /\ Null \notin SetMemory /\ Chain(m, l, e) /\ e # <<>>
  BY EmptySet, SetMemoryFinite DEF Sound
<1>2. /\ 1 \in 1 .. Len(e) /\ list_front(m, l) = e[1]
      /\ list_pop_front(m, l) = list_remove(m, e[1])
  <2> HIDE DEF e, l
  <2> QED BY <1>1, PopFront
<1>3. e[1] \in ToSet(e)
  <2>1. e \in Seq(Nodes)
    BY EmptySet
  <2> HIDE DEF e
  <2> QED BY <1>2, <2>1 DEF ToSet
<1>4. PICK y \in Entered(m, s) : e[1] = iter(y)
  <2>1. ToSet(e) = {iter(y) : y \in Entered(m, s)}
    BY OfSet DEF On
  <2> HIDE DEF e
  <2> QED BY <1>3, <2>1
<1>5. x = y
  <2>1. list_entry(iter(y)) = y
    BY DirtyNames
  <2> QED BY <1>2, <1>4, <2>1 DEF any
<1>6. w = list_remove(list_remove(m, iter(y)), elem(y))
  BY <1>2, <1>4, <1>5
<1>7. st = [links |-> u, ptr |-> q]
  BY DEF remove_any
<1>8. u = entry_delete(w, x) /\ q = [p EXCEPT ![x] = Null]
  OBVIOUS
<1> HIDE DEF w, u, q, x
<1>9. OffBoth(m, p, w, L, s, x)
  BY <1>4, <1>5, <1>6, BothRemoved
<1>10. Dropped(m, p, u, q, L, s, p[x])
  BY <1>4, <1>5, <1>8, <1>9, Leaves
<1>11. p[x] \in KeysOf(m, p, s)
  BY <1>4, <1>5 DEF KeysOf
<1> QED BY <1>7, <1>10, <1>11 DEF x

(***************************************************************************)
(* A new set                                                               *)
(***************************************************************************)
LEMMA NewLinks ==
  ASSUME NEW m \in Memories(SetMemory), NEW s \in Sets, NEW w, w = new(m, s)
  PROVE  /\ w \in Memories(SetMemory)
         /\ \A l \in ListsOf(s) : /\ w[head(l)] = [prev |-> Null, next |-> tail(l)]
                                  /\ w[tail(l)] = [prev |-> head(l), next |-> Null]
         /\ \A e \in SetMemory : (\A l \in ListsOf(s) : e \notin {head(l), tail(l)}) => w[e] = m[e]
<1>1. DOMAIN m = SetMemory
  BY DEF Memories
<1>2. w = [e \in SetMemory |-> IF e[1] \in ListsOf(s) THEN list_init(m, e[1])[e] ELSE m[e]]
  BY <1>1 DEF new
<1>3. ASSUME NEW l, NEW e \in SetMemory
      PROVE  list_init(m, l)[e] = IF e = head(l) THEN [prev |-> Null, next |-> tail(l)]
                                  ELSE IF e = tail(l) THEN [prev |-> head(l), next |-> Null]
                                  ELSE m[e]
  BY <1>1 DEF list_init, head, tail
<1>4. ASSUME NEW l \in ListsOf(s)
      PROVE  /\ head(l) \in SetMemory /\ tail(l) \in SetMemory /\ head(l)[1] = l /\ tail(l)[1] = l
             /\ head(l) # tail(l)
  <2>1. l \in SetLists
    BY DEF SetLists, Sets
  <2> QED BY <2>1 DEF SetMemory, head, tail
<1>5. ASSUME NEW l \in ListsOf(s)
      PROVE  /\ w[head(l)] = [prev |-> Null, next |-> tail(l)]
             /\ w[tail(l)] = [prev |-> head(l), next |-> Null]
  <2>1. w[head(l)] = list_init(m, l)[head(l)] /\ w[tail(l)] = list_init(m, l)[tail(l)]
    BY <1>2, <1>4
  <2> QED BY <1>3, <1>4, <2>1
<1>6. ASSUME NEW e \in SetMemory, \A l \in ListsOf(s) : e \notin {head(l), tail(l)}
      PROVE  w[e] = m[e]
  <2>1. CASE e[1] \in ListsOf(s)
    BY <1>2, <1>3, <1>6, <2>1
  <2>2. CASE e[1] \notin ListsOf(s)
    BY <1>2, <2>2
  <2> QED BY <2>1, <2>2
<1>7. ASSUME NEW e \in SetMemory
      PROVE  w[e] \in [prev : SetMemory \cup {Null}, next : SetMemory \cup {Null}]
  <2>1. m[e] \in [prev : SetMemory \cup {Null}, next : SetMemory \cup {Null}]
    BY DEF Memories
  <2>2. CASE \E l \in ListsOf(s) : e \in {head(l), tail(l)}
    <3>1. PICK l \in ListsOf(s) : e = head(l) \/ e = tail(l)
      BY <2>2
    <3>2. /\ [prev |-> Null, next |-> tail(l)] \in [prev : SetMemory \cup {Null}, next : SetMemory \cup {Null}]
          /\ [prev |-> head(l), next |-> Null] \in [prev : SetMemory \cup {Null}, next : SetMemory \cup {Null}]
      BY <1>4
    <3> QED BY <1>5, <3>1, <3>2
  <2>3. CASE \A l \in ListsOf(s) : e \notin {head(l), tail(l)}
    BY <1>6, <2>1, <2>3
  <2> QED BY <2>2, <2>3
<1>8. w \in Memories(SetMemory)
  <2>1. w = [e \in SetMemory |-> w[e]]
    BY <1>2
  <2> QED BY <1>7, <2>1 DEF Memories
<1> QED BY <1>5, <1>6, <1>8

LEMMA OtherLists ==
  ASSUME NEW s, NEW z, s # z, NEW l \in ListsOf(s), NEW k \in ListsOf(z)
  PROVE  l # k /\ head(l) \notin {head(k), tail(k)} /\ tail(l) \notin {head(k), tail(k)}
<1>1. l # k
  BY DirtyNames DEF ListsOf
<1> QED BY <1>1 DEF head, tail

(* The set s came, and is empty.                                           *)
Came(m, p, w, q, L, s) ==
  /\ Sound(w, q, L \cup {s})
  /\ KeysOf(w, q, s) = {}
  /\ \A z \in L : KeysOf(w, q, z) = KeysOf(m, p, z)

LEMMA NewComes ==
  ASSUME NEW m, NEW p, NEW L, L \subseteq Sets, Sound(m, p, L), NEW s \in Sets, s \notin L,
         NEW w, w = new(m, s)
  PROVE  Came(m, p, w, p, L, s)
<1> DEFINE M == L \cup {s}
           G == [z \in M |-> IF z = s THEN {} ELSE Entered(m, z)]
<1>1. /\ m \in Memories(SetMemory) /\ Linked(m, AllLists(L), Nodes) /\ M \subseteq Sets
      /\ p \in [Entries -> Keys \cup {Null}]
  BY DEF Sound
<1>2. /\ w \in Memories(SetMemory)
      /\ \A l \in ListsOf(s) : /\ w[head(l)] = [prev |-> Null, next |-> tail(l)]
                               /\ w[tail(l)] = [prev |-> head(l), next |-> Null]
      /\ \A e \in SetMemory : (\A l \in ListsOf(s) : e \notin {head(l), tail(l)}) => w[e] = m[e]
  BY <1>1, NewLinks
<1>3. Arena(SetMemory, AllLists(M), Nodes)
  BY <1>1, DirtyArena
<1>4. ASSUME NEW l \in ListsOf(s)
      PROVE  Chain(w, l, <<>>) /\ Elements(w, l) = <<>>
  <2>1. head(l) \in SetMemory /\ tail(l) \in SetMemory
    BY <1>3, ListsAre DEF Arena, AllLists
  <2>2. Chain(w, l, <<>>)
    BY <1>2, <2>1, InitChain
  <2> QED BY <1>2, <1>3, <2>2, ArenaReads
<1>5. Linked(w, AllLists(L), Nodes) /\ \A l \in AllLists(L) : On(w, l) = On(m, l)
  <2>1. ASSUME NEW l \in AllLists(L)
        PROVE  /\ w[head(l)] = m[head(l)] /\ w[tail(l)] = m[tail(l)]
               /\ \A c \in On(m, l) : w[c] = m[c]
    <3>1. PICK z \in L : l \in ListsOf(z)
      BY DEF AllLists
    <3>2. z # s
      OBVIOUS
    <3>3. /\ head(l) \in SetMemory /\ tail(l) \in SetMemory
          /\ On(m, l) \subseteq Nodes /\ Nodes \subseteq SetMemory
      BY <1>1, DirtyArena DEF Arena, Linked, On
    <3>4. \A k \in ListsOf(s) : head(l) \notin {head(k), tail(k)} /\ tail(l) \notin {head(k), tail(k)}
      BY <3>1, <3>2, OtherLists
    <3>5. \A c \in On(m, l) : \A k \in ListsOf(s) : c \notin {head(k), tail(k)}
      BY <3>3, DirtyNames DEF Nodes
    <3> QED BY <1>2, <3>3, <3>4, <3>5
  <2>2. Kept(AllLists(L), m, w)
    BY <1>1, <1>2, <2>1, Untouched
  <2> QED BY <2>2 DEF Kept
<1>6. \A l \in AllLists(M) : l \in AllLists(L) \/ l \in ListsOf(s)
  BY DEF AllLists
<1>7. ToSet(<<>>) = {}
  BY DEF ToSet
<1>8. Linked(w, AllLists(M), Nodes)
  <2>1. ASSUME NEW l \in AllLists(M)
        PROVE  Chain(w, l, Elements(w, l)) /\ ToSet(Elements(w, l)) \subseteq Nodes
    BY <1>4, <1>5, <1>6, <1>7 DEF Linked
  <2>2. ASSUME NEW l \in AllLists(M), NEW k \in AllLists(M), l # k
        PROVE  ToSet(Elements(w, l)) \cap ToSet(Elements(w, k)) = {}
    <3>1. CASE l \in AllLists(L) /\ k \in AllLists(L)
      BY <1>5, <2>2, <3>1 DEF Linked
    <3>2. CASE l \in ListsOf(s) \/ k \in ListsOf(s)
      BY <1>4, <1>7, <3>2
    <3> QED BY <1>6, <3>1, <3>2
  <2> QED BY <2>1, <2>2 DEF Linked
<1>9. \A z \in M : G[z] = IF z = s THEN {} ELSE Entered(m, z)
  OBVIOUS
<1>10. ASSUME NEW h \in Hashes
       PROVE  /\ On(w, bucket(s, h)) = {}
              /\ \A z \in L : On(w, bucket(z, h)) = On(m, bucket(z, h))
  <2>1. bucket(s, h) \in ListsOf(s)
    BY DEF ListsOf
  <2> QED BY <1>4, <1>5, <1>7, <2>1, ListsAre DEF On
<1>11. On(w, iterlist(s)) = {} /\ \A z \in L : On(w, iterlist(z)) = On(m, iterlist(z))
  <2>1. iterlist(s) \in ListsOf(s)
    BY DEF ListsOf
  <2> QED BY <1>4, <1>5, <1>7, <2>1, ListsAre DEF On
<1> HIDE DEF G
<1>12. ASSUME NEW z \in M PROVE G[z] \subseteq Entries /\ On(w, iterlist(z)) = {iter(y) : y \in G[z]}
  <2>1. CASE z = s
    BY <1>9, <1>11, <2>1
  <2>2. CASE z # s
    <3>1. z \in L /\ Entered(m, z) \subseteq Entries
      BY <2>2 DEF Entered
    <3> QED BY <1>9, <1>11, <2>2, <3>1, OfSet
  <2> QED BY <2>1, <2>2
<1>13. ASSUME NEW z \in M, NEW h \in Hashes, NEW e
       PROVE  e \in On(w, bucket(z, h)) <=> \E y \in G[z] : e = elem(y) /\ Hash[p[y]] = h
  <2>1. CASE z = s
    BY <1>9, <1>10, <2>1
  <2>2. CASE z # s
    <3>1. z \in L
      BY <2>2
    <3>2. On(w, bucket(z, h)) = On(m, bucket(z, h)) /\ G[z] = Entered(m, z)
      BY <1>9, <1>10, <2>2, <3>1
    <3> QED BY <3>1, <3>2, OfSet
  <2> QED BY <2>1, <2>2
<1>14. ASSUME NEW z \in M, NEW y \in G[z], NEW a \in G[z], p[y] = p[a] PROVE y = a
  <2>1. z # s /\ z \in L
    BY <1>9
  <2> QED BY <1>9, <1>14, <2>1, OfSet
<1>15. ASSUME NEW y \in Entries PROVE p[y] # Null <=> \E z \in M : y \in G[z]
  <2>1. p[y] # Null <=> \E z \in L : y \in Entered(m, z)
    BY DEF Sound
  <2> QED BY <1>9, <2>1
<1>16. ContentIs(w, p, M, G)
  BY <1>12, <1>13, <1>14, <1>15 DEF ContentIs
<1>17. Sound(w, p, M) /\ \A z \in M : Entered(w, z) = G[z]
  <2> HIDE DEF M
  <2>1. Stocked(w, p, M, G)
    BY <1>1, <1>2, <1>8, <1>16, Contained
  <2> QED BY <2>1 DEF Stocked
<1>18. KeysOf(w, p, s) = {} /\ \A z \in L : KeysOf(w, p, z) = KeysOf(m, p, z)
  BY <1>9, <1>17 DEF KeysOf
<1> QED BY <1>17, <1>18 DEF Came

(***************************************************************************)
(* The copy                                                                *)
(***************************************************************************)
Copies(st, s, a, D) ==
  a = [i \in D |-> IF i = 0 THEN [st EXCEPT !.links = new(@, Clone)]
                   ELSE insert(Clone, a[i - 1], st.ptr[list_entry(s[i])])]

LEMMA CopiesExist ==
  ASSUME NEW st, NEW s
  PROVE  \A k \in Nat : \E a : Copies(st, s, a, 0 .. k)
<1> DEFINE S == {k \in Nat : \E a : Copies(st, s, a, 0 .. k)}
           e(q, i) == IF i = 0 THEN [st EXCEPT !.links = new(@, Clone)]
                      ELSE insert(Clone, q[i - 1], st.ptr[list_entry(s[i])])
<1>1. 0 \in S
  <2> DEFINE a == [i \in 0 .. 0 |-> [st EXCEPT !.links = new(@, Clone)]]
  <2>1. a = [i \in 0 .. 0 |-> e(a, i)]
    OBVIOUS
  <2> HIDE DEF a
  <2>2. Copies(st, s, a, 0 .. 0)
    BY <2>1 DEF Copies
  <2> QED BY <2>2
<1>2. ASSUME NEW k \in S PROVE k + 1 \in S
  <2>1. PICK a : Copies(st, s, a, 0 .. k)
    OBVIOUS
  <2>2. k \in Nat
    OBVIOUS
  <2> DEFINE c == [i \in 0 .. (k + 1) |-> e(a, i)]
  <2>3. a = [i \in 0 .. k |-> e(a, i)]
    BY <2>1 DEF Copies
  <2>4. \A i \in 0 .. k : c[i] = a[i]
    <3>1. \A i \in 0 .. k : i \in 0 .. (k + 1)
      BY <2>2
    <3> HIDE DEF e
    <3> QED BY <2>3, <3>1
  <2>5. ASSUME NEW i \in 0 .. (k + 1) PROVE e(c, i) = e(a, i)
    <3>1. CASE i = 0
      BY <3>1
    <3>2. CASE i # 0
      <4>1. i - 1 \in 0 .. k
        BY <2>2, <3>2
      <4>2. c[i - 1] = a[i - 1]
        BY <2>4, <4>1
      <4> HIDE DEF c
      <4> QED BY <3>2, <4>2
    <3> QED BY <3>1, <3>2
  <2>6. c = [i \in 0 .. (k + 1) |-> e(c, i)]
    <3> HIDE DEF e
    <3> QED BY <2>5
  <2>7. Copies(st, s, c, 0 .. (k + 1))
    <3> HIDE DEF c
    <3> QED BY <2>6 DEF Copies
  <2> HIDE DEF c
  <2> QED BY <2>2, <2>7
<1> HIDE DEF S
<1>3. S = Nat
  <2>1. S \subseteq Nat
    BY DEF S
  <2> QED BY <1>1, <1>2, <2>1, Induction
<1> QED BY <1>3 DEF S

LEMMA CopiedIs ==
  ASSUME NEW st, NEW s, s = Elements(st.links, iterlist(Base)), Len(s) \in Nat
  PROVE  \E a : /\ copied(st) = a[Len(s)]
                /\ a[0] = [st EXCEPT !.links = new(@, Clone)]
                /\ \A i \in 1 .. Len(s) : a[i] = insert(Clone, a[i - 1], st.ptr[list_entry(s[i])])
<1> DEFINE a == CHOOSE a : Copies(st, s, a, 0 .. Len(s))
<1>1. Copies(st, s, a, 0 .. Len(s))
  BY CopiesExist
<1>2. copied(st) = a[Len(s)]
  BY DEF copied, Copies
<1> HIDE DEF a
<1>3. \A i \in 0 .. Len(s) : a[i] = IF i = 0 THEN [st EXCEPT !.links = new(@, Clone)]
                                    ELSE insert(Clone, a[i - 1], st.ptr[list_entry(s[i])])
  BY <1>1 DEF Copies
<1>4. \A i \in 1 .. Len(s) : i \in 0 .. Len(s) /\ i # 0
  OBVIOUS
<1>5. a[0] = [st EXCEPT !.links = new(@, Clone)]
  BY <1>3
<1> QED BY <1>2, <1>3, <1>4, <1>5

(* The copy has the keys K, and the set is what it was.                    *)
Cloned(m, p, w, q, K) ==
  /\ Sound(w, q, Sets)
  /\ KeysOf(w, q, Clone) = K /\ KeysOf(w, q, Base) = KeysOf(m, p, Base)

LEMMA CopyComes ==
  ASSUME NEW m, NEW p, Sound(m, p, {Base}), NEW st, st = copied([links |-> m, ptr |-> p])
  PROVE  Cloned(m, p, st.links, st.ptr, KeysOf(m, p, Base))
<1> DEFINE z == [links |-> m, ptr |-> p]
           s == Elements(m, iterlist(Base))
           key(i) == p[list_entry(s[i])]
           Ks(i) == {key(j) : j \in 1 .. i}
<1>1. {Base} \subseteq Sets /\ Base \in {Base} /\ Clone \in Sets /\ Clone \notin {Base}
      /\ Sets = {Base} \cup {Clone} /\ Base \in Sets /\ Base # Clone
  BY DirtySetAssumption DEF Sets
<1>2. s \in Seq(Nodes) /\ Len(s) \in Nat
  <2>1. s \in Seq(Nodes)
    BY <1>1, EmptySet
  <2> HIDE DEF s
  <2> QED BY <2>1
<1>3. PICK a : /\ copied(z) = a[Len(s)]
               /\ a[0] = [z EXCEPT !.links = new(@, Clone)]
               /\ \A i \in 1 .. Len(s) : a[i] = insert(Clone, a[i - 1], z.ptr[list_entry(s[i])])
  <2>1. s = Elements(z.links, iterlist(Base))
    OBVIOUS
  <2> HIDE DEF s, z
  <2> QED BY <1>2, <2>1, CopiedIs
<1>4. ToSet(s) = {iter(x) : x \in Entered(m, Base)}
  BY <1>1, OfSet DEF On
<1> DEFINE S == {i \in Nat : i <= Len(s) =>
                   /\ a[i] = [links |-> a[i].links, ptr |-> a[i].ptr]
                   /\ Cloned(m, p, a[i].links, a[i].ptr, Ks(i))}
<1>5. 0 \in S
  <2>1. a[0] = [links |-> new(m, Clone), ptr |-> p]
    BY <1>3
  <2>2. Came(m, p, new(m, Clone), p, {Base}, Clone)
    BY <1>1, NewComes
  <2>3. Ks(0) = {}
    OBVIOUS
  <2> HIDE DEF Ks
  <2>4. Cloned(m, p, new(m, Clone), p, Ks(0))
    BY <1>1, <2>2, <2>3 DEF Came, Cloned
  <2>5. a[0].links = new(m, Clone) /\ a[0].ptr = p
    BY <2>1
  <2>6. a[0] = [links |-> a[0].links, ptr |-> a[0].ptr] /\ Cloned(m, p, a[0].links, a[0].ptr, Ks(0))
    BY <2>1, <2>4, <2>5
  <2> QED BY <2>6
<1>6. ASSUME NEW i \in S PROVE i + 1 \in S
  <2>1. SUFFICES ASSUME i + 1 <= Len(s)
                 PROVE  /\ a[i + 1] = [links |-> a[i + 1].links, ptr |-> a[i + 1].ptr]
                        /\ Cloned(m, p, a[i + 1].links, a[i + 1].ptr, Ks(i + 1))
    OBVIOUS
  <2>2. i \in Nat /\ i <= Len(s) /\ i + 1 \in 1 .. Len(s) /\ (i + 1) - 1 = i
    BY <1>2, <2>1
  <2> DEFINE v == a[i].links
             q == a[i].ptr
             k == key(i + 1)
  <2>3. a[i] = [links |-> v, ptr |-> q] /\ Cloned(m, p, v, q, Ks(i))
    BY <2>2
  <2>4. a[i + 1] = insert(Clone, [links |-> v, ptr |-> q], k)
    <3>1. a[i + 1] = insert(Clone, a[(i + 1) - 1], z.ptr[list_entry(s[i + 1])]) /\ z.ptr = p
      BY <1>3, <2>2
    <3> HIDE DEF v, q, s
    <3> QED BY <2>2, <2>3, <3>1
  <2>5. k \in Keys
    <3>1. s[i + 1] \in ToSet(s)
      <4> HIDE DEF s
      <4> QED BY <1>2, <2>2 DEF ToSet
    <3>2. PICK x \in Entered(m, Base) : s[i + 1] = iter(x)
      BY <1>4, <3>1
    <3>3. k = p[x]
      BY <3>2, DirtyNames
    <3> QED BY <1>1, <3>2, <3>3, OfSet
  <2>6. Ks(i + 1) = Ks(i) \cup {key(i + 1)}
    <3>1. 1 .. (i + 1) = (1 .. i) \cup {i + 1}
      BY <2>2
    <3> HIDE DEF key
    <3> QED BY <3>1
  <2> HIDE DEF v, q, k, Ks
  <2>7. Added(v, q, a[i + 1].links, a[i + 1].ptr, Sets, Clone, k)
        /\ a[i + 1] = [links |-> a[i + 1].links, ptr |-> a[i + 1].ptr]
    BY <1>1, <2>3, <2>4, <2>5, InsertAdds DEF Cloned
  <2> QED BY <1>1, <2>3, <2>6, <2>7 DEF Added, Cloned, k
<1> HIDE DEF S
<1>7. S = Nat
  <2>1. S \subseteq Nat
    BY DEF S
  <2> QED BY <1>5, <1>6, <2>1, Induction
<1>8. Cloned(m, p, st.links, st.ptr, Ks(Len(s)))
  <2>1. st = a[Len(s)]
    BY <1>3
  <2> DEFINE n == Len(s)
  <2>2. n \in S /\ n <= n
    BY <1>2, <1>7
  <2> HIDE DEF n, Ks
  <2>3. Cloned(m, p, a[n].links, a[n].ptr, Ks(n))
    BY <2>2 DEF S, n
  <2> QED BY <2>1, <2>3 DEF n
<1>9. Ks(Len(s)) = KeysOf(m, p, Base)
  <2> DEFINE E == Entered(m, Base)
  <2>1. DOMAIN s = 1 .. Len(s)
    <3> HIDE DEF s
    <3> QED BY <1>2
  <2>2. ASSUME NEW j \in 1 .. Len(s) PROVE \E x \in E : key(j) = p[x]
    <3>1. s[j] \in ToSet(s)
      <4> HIDE DEF s
      <4> QED BY <2>1 DEF ToSet
    <3>2. PICK x \in E : s[j] = iter(x)
      BY <1>4, <3>1
    <3> QED BY <3>2, DirtyNames
  <2>3. ASSUME NEW x \in E PROVE \E j \in 1 .. Len(s) : key(j) = p[x]
    <3>1. iter(x) \in ToSet(s)
      BY <1>4
    <3>2. PICK j \in 1 .. Len(s) : s[j] = iter(x)
      <4> HIDE DEF s
      <4> QED BY <2>1, <3>1 DEF ToSet
    <3> QED BY <3>2, DirtyNames
  <2> HIDE DEF key, E, s
  <2>4. Ks(Len(s)) = {p[x] : x \in E}
    BY <2>2, <2>3
  <2> QED BY <2>4 DEF KeysOf, E
<1> QED BY <1>8, <1>9

(***************************************************************************)
(* The deletion of the copy                                                *)
(***************************************************************************)
LEMMA Deletes ==
  ASSUME NEW m, NEW p, Sound(m, p, Sets), NEW st, st = deleted([links |-> m, ptr |-> p])
  PROVE  Sound(st.links, st.ptr, {Base}) /\ KeysOf(st.links, st.ptr, Base) = KeysOf(m, p, Base)
<1> DEFINE L == {Base}
           xs == {list_entry(e) : e \in ToSet(Elements(m, iterlist(Clone)))}
           cells == {elem(x) : x \in xs} \cup {iter(x) : x \in xs}
                      \cup {head(l) : l \in ListsOf(Clone)} \cup {tail(l) : l \in ListsOf(Clone)}
           u == [e \in SetMemory |-> IF e \in cells THEN Unlinked ELSE m[e]]
           q == [x \in Entries |-> IF x \in xs THEN Null ELSE p[x]]
           G == [z \in L |-> Entered(m, Base)]
<1>1. Base \in Sets /\ Clone \in Sets /\ L \subseteq Sets /\ Base # Clone
  BY DirtySetAssumption DEF Sets
<1>2. /\ m \in Memories(SetMemory) /\ p \in [Entries -> Keys \cup {Null}]
      /\ Linked(m, AllLists(Sets), Nodes)
  BY DEF Sound
<1>3. xs = Entered(m, Clone)
  <2> DEFINE C == ToSet(Elements(m, iterlist(Clone)))
             E == Entered(m, Clone)
  <2>1. C = {iter(x) : x \in E}
    BY <1>1, OfSet DEF On
  <2>2. xs = {list_entry(e) : e \in C}
    OBVIOUS
  <2> HIDE DEF C, E, xs
  <2>3. xs = E
    BY <2>1, <2>2, DirtyNames
  <2> QED BY <2>3 DEF E
<1>4. st.links = u /\ st.ptr = q
  BY DEF deleted
<1> HIDE DEF xs
<1>5. u \in Memories(SetMemory)
  <2>1. Unlinked \in [prev : SetMemory \cup {Null}, next : SetMemory \cup {Null}]
    BY DEF Unlinked
  <2> HIDE DEF cells
  <2> QED BY <1>2, <2>1 DEF Memories
<1>6. \A e \in SetMemory : e \notin cells => u[e] = m[e]
  <2> HIDE DEF cells
  <2> QED OBVIOUS
<1>7. Entered(m, Base) \cap Entered(m, Clone) = {}
  BY <1>1, OfSet
<1>8. ASSUME NEW l \in AllLists(L)
      PROVE  /\ head(l) \in SetMemory \ cells /\ tail(l) \in SetMemory \ cells
             /\ On(m, l) \subseteq SetMemory \ cells
             /\ l \in AllLists(Sets)
  <2>1. l \in ListsOf(Base) /\ l \in AllLists(Sets)
    BY <1>1 DEF AllLists
  <2>2. /\ head(l) \in SetMemory /\ tail(l) \in SetMemory
        /\ On(m, l) \subseteq Nodes /\ Nodes \subseteq SetMemory
    BY <1>2, <2>1, DirtyArena DEF Arena, Linked, On
  <2>3. \A k \in ListsOf(Clone) : head(l) \notin {head(k), tail(k)} /\ tail(l) \notin {head(k), tail(k)}
    BY <1>1, <2>1, OtherLists
  <2>4. head(l) \notin cells /\ tail(l) \notin cells
    BY <2>3, DirtyNames
  <2>5. ASSUME NEW e \in On(m, l) PROVE e \notin cells
    <3>1. PICK y \in Entered(m, Base) : e = elem(y) \/ e = iter(y)
      <4>1. l = iterlist(Base) \/ \E h \in Hashes : l = bucket(Base, h)
        BY <2>1 DEF ListsOf
      <4> QED BY <1>1, <4>1, OfSet
    <3>2. y \notin xs
      BY <1>3, <1>7
    <3>3. /\ \A x : elem(x) = elem(y) => x = y
          /\ \A x : iter(x) = iter(y) => x = y
          /\ \A x : elem(x) # iter(y) /\ iter(x) # elem(y)
          /\ \A k : elem(y) \notin {head(k), tail(k)} /\ iter(y) \notin {head(k), tail(k)}
      BY DirtyNames
    <3>4. CASE e = elem(y)
      BY <3>2, <3>3, <3>4
    <3>5. CASE e = iter(y)
      BY <3>2, <3>3, <3>5
    <3> QED BY <3>1, <3>4, <3>5
  <2> HIDE DEF cells
  <2> QED BY <2>1, <2>2, <2>4, <2>5
<1> HIDE DEF cells, u
<1>9. Linked(m, AllLists(L), Nodes)
  BY <1>2, <1>8 DEF Linked
<1>10. Linked(u, AllLists(L), Nodes) /\ \A l \in AllLists(L) : On(u, l) = On(m, l)
  <2>1. \A l \in AllLists(L) : /\ u[head(l)] = m[head(l)] /\ u[tail(l)] = m[tail(l)]
                               /\ \A c \in On(m, l) : u[c] = m[c]
    BY <1>6, <1>8
  <2>2. Kept(AllLists(L), m, u)
    BY <1>1, <1>2, <1>5, <1>9, <2>1, Untouched
  <2> QED BY <2>2 DEF Kept
<1>11. /\ q \in [Entries -> Keys \cup {Null}]
       /\ \A x \in Entries : q[x] = IF x \in Entered(m, Clone) THEN Null ELSE p[x]
  BY <1>2, <1>3
<1>12. Entered(m, Base) \subseteq Entries /\ \A x \in Entered(m, Base) : q[x] = p[x]
  BY <1>7, <1>11 DEF Entered
<1>13. \A z \in L : z = Base /\ G[z] = Entered(m, Base)
  OBVIOUS
<1>14. iterlist(Base) \in AllLists(L) /\ \A h \in Hashes : bucket(Base, h) \in AllLists(L)
  BY <1>1, ListsAre
<1> HIDE DEF G, q
<1>15. ASSUME NEW z \in L PROVE G[z] \subseteq Entries /\ On(u, iterlist(z)) = {iter(y) : y \in G[z]}
  <2>1. On(m, iterlist(Base)) = {iter(y) : y \in Entered(m, Base)}
    BY <1>1, OfSet
  <2>2. On(u, iterlist(Base)) = On(m, iterlist(Base))
    BY <1>10, <1>14
  <2> QED BY <1>12, <1>13, <2>1, <2>2
<1>16. ASSUME NEW z \in L, NEW h \in Hashes, NEW e
       PROVE  e \in On(u, bucket(z, h)) <=> \E y \in G[z] : e = elem(y) /\ Hash[q[y]] = h
  <2>1. e \in On(m, bucket(Base, h)) <=> \E y \in Entered(m, Base) : e = elem(y) /\ Hash[p[y]] = h
    BY <1>1, OfSet
  <2> QED BY <1>10, <1>12, <1>13, <1>14, <2>1
<1>17. ASSUME NEW z \in L, NEW y \in G[z], NEW a \in G[z], q[y] = q[a] PROVE y = a
  <2>1. y \in Entered(m, Base) /\ a \in Entered(m, Base) /\ p[y] = p[a]
    BY <1>12, <1>13, <1>17
  <2> QED BY <1>1, <2>1, OfSet
<1>18. ASSUME NEW y \in Entries PROVE q[y] # Null <=> \E z \in L : y \in G[z]
  <2>1. p[y] # Null <=> y \in Entered(m, Base) \/ y \in Entered(m, Clone)
    BY <1>1 DEF Sound, Sets
  <2> QED BY <1>7, <1>11, <1>13, <2>1
<1>19. ContentIs(u, q, L, G)
  BY <1>15, <1>16, <1>17, <1>18 DEF ContentIs
<1>20. Sound(u, q, L) /\ Entered(u, Base) = Entered(m, Base)
  <2> HIDE DEF L
  <2>1. Stocked(u, q, L, G)
    BY <1>1, <1>5, <1>10, <1>11, <1>19, Contained
  <2> QED BY <1>13, <2>1 DEF Stocked, L
<1>21. KeysOf(u, q, Base) = KeysOf(m, p, Base)
  BY <1>12, <1>20 DEF KeysOf
<1> QED BY <1>4, <1>20, <1>21

(***************************************************************************)
(* What the operations do                                                  *)
(***************************************************************************)
LEMMA DirtyNow ==
  DirtyInv => /\ Sound(setlinks, ptr, live) /\ live \subseteq Sets /\ Base \in live
              /\ (Clone \in live <=> live = Sets) /\ (Clone \notin live <=> live = {Base})
              /\ Base # Clone /\ got \in Keys \cup {Null}
BY DirtySetAssumption DEF DirtyInv, SetTypeOK, Sets

LEMMA InsertDoes ==
  ASSUME NEW k \in Keys
  PROVE  DirtyInv /\ vtsdirtyset_insert(k) =>
           Added(setlinks, ptr, setlinks', ptr', live, Base, k) /\ got' = Null /\ live' = live
<1> DEFINE st == insert(Base, [links |-> setlinks, ptr |-> ptr], k)
<1> SUFFICES ASSUME DirtyInv, vtsdirtyset_insert(k)
             PROVE  Added(setlinks, ptr, setlinks', ptr', live, Base, k) /\ got' = Null /\ live' = live
  OBVIOUS
<1>1. setlinks' = st.links /\ ptr' = st.ptr /\ got' = Null /\ live' = live
  BY DEF vtsdirtyset_insert, Becomes, State
<1>2. Added(setlinks, ptr, st.links, st.ptr, live, Base, k)
  BY DirtyNow, InsertAdds
<1> HIDE DEF st
<1> QED BY <1>1, <1>2

LEMMA RemoveDoes ==
  ASSUME NEW k \in Keys
  PROVE  DirtyInv /\ vtsdirtyset_remove(k) =>
           /\ Dropped(setlinks, ptr, setlinks', ptr', live, Base, k) /\ live' = live
           /\ got' = IF k \in KeysOf(setlinks, ptr, Base) THEN k ELSE Null
<1> DEFINE st == remove(Base, [links |-> setlinks, ptr |-> ptr], k)
           x == find(Base, setlinks, ptr, k)
<1> SUFFICES ASSUME DirtyInv, vtsdirtyset_remove(k)
             PROVE  /\ Dropped(setlinks, ptr, setlinks', ptr', live, Base, k) /\ live' = live
                    /\ got' = IF k \in KeysOf(setlinks, ptr, Base) THEN k ELSE Null
  OBVIOUS
<1>1. /\ setlinks' = st.links /\ ptr' = st.ptr /\ live' = live
      /\ got' = IF x = Null THEN Null ELSE k
  BY DEF vtsdirtyset_remove, Becomes, State
<1>2. Dropped(setlinks, ptr, st.links, st.ptr, live, Base, k)
  BY DirtyNow, RemoveDrops
<1>3. \/ x = Null /\ k \notin KeysOf(setlinks, ptr, Base)
      \/ x # Null /\ x \in Entered(setlinks, Base) /\ ptr[x] = k
  BY DirtyNow, Found
<1>4. x = Null <=> k \notin KeysOf(setlinks, ptr, Base)
  BY <1>3 DEF KeysOf
<1> HIDE DEF st, x
<1> QED BY <1>1, <1>2, <1>4

LEMMA CopyDoes ==
  DirtyInv /\ vtsdirtyset_copy =>
    /\ Cloned(setlinks, ptr, setlinks', ptr', KeysOf(setlinks, ptr, Base))
    /\ got' = Null /\ live = {Base} /\ live' = Sets
<1> DEFINE st == copied([links |-> setlinks, ptr |-> ptr])
<1> SUFFICES ASSUME DirtyInv, vtsdirtyset_copy
             PROVE  /\ Cloned(setlinks, ptr, setlinks', ptr', KeysOf(setlinks, ptr, Base))
                    /\ got' = Null /\ live = {Base} /\ live' = Sets
  OBVIOUS
<1>1. setlinks' = st.links /\ ptr' = st.ptr /\ got' = Null /\ live' = Sets /\ live = {Base}
  BY DirtyNow DEF vtsdirtyset_copy, Becomes, State
<1>2. Sound(setlinks, ptr, {Base})
  BY <1>1, DirtyNow
<1>3. Cloned(setlinks, ptr, st.links, st.ptr, KeysOf(setlinks, ptr, Base))
  BY <1>2, CopyComes
<1> HIDE DEF st
<1> QED BY <1>1, <1>3

LEMMA RemoveAnyDoes ==
  DirtyInv /\ vtsdirtyset_remove_any =>
    /\ live = Sets /\ live' = Sets
    /\ \/ /\ KeysOf(setlinks, ptr, Clone) = {} /\ got' = Null
          /\ setlinks' = setlinks /\ ptr' = ptr
       \/ \E k \in KeysOf(setlinks, ptr, Clone) :
            Dropped(setlinks, ptr, setlinks', ptr', Sets, Clone, k) /\ got' = k
<1> DEFINE z == [links |-> setlinks, ptr |-> ptr]
           st == remove_any(Clone, z)
           k == ptr[any(Clone, setlinks)]
           none == list_empty(setlinks, iterlist(Clone))
           Goal == \/ /\ KeysOf(setlinks, ptr, Clone) = {} /\ got' = Null
                      /\ setlinks' = setlinks /\ ptr' = ptr
                   \/ \E j \in KeysOf(setlinks, ptr, Clone) :
                        Dropped(setlinks, ptr, setlinks', ptr', Sets, Clone, j) /\ got' = j
<1> SUFFICES ASSUME DirtyInv, vtsdirtyset_remove_any
             PROVE  live = Sets /\ live' = Sets /\ Goal
  OBVIOUS
<1>1. live = Sets /\ live' = Sets /\ Clone \in Sets /\ Sound(setlinks, ptr, Sets)
  BY DirtyNow DEF vtsdirtyset_remove_any
<1>2. CASE none
  <2>1. setlinks' = z.links /\ ptr' = z.ptr /\ got' = Null
    BY <1>2 DEF vtsdirtyset_remove_any, Becomes, State
  <2>2. KeysOf(setlinks, ptr, Clone) = {}
    BY <1>1, <1>2, EmptySet
  <2> QED BY <1>1, <2>1, <2>2
<1>3. CASE ~none
  <2>1. setlinks' = st.links /\ ptr' = st.ptr /\ got' = k
    BY <1>3 DEF vtsdirtyset_remove_any, Becomes, State
  <2>2. k \in KeysOf(setlinks, ptr, Clone) /\ Dropped(setlinks, ptr, st.links, st.ptr, Sets, Clone, k)
    BY <1>1, <1>3, RemoveAnyDrops
  <2> HIDE DEF st, k
  <2> QED BY <1>1, <2>1, <2>2
<1> HIDE DEF Goal
<1> QED BY <1>2, <1>3

LEMMA DeleteDoes ==
  DirtyInv /\ vtsdirtyset_delete =>
    /\ Sound(setlinks', ptr', {Base})
    /\ KeysOf(setlinks', ptr', Base) = KeysOf(setlinks, ptr, Base)
    /\ got' = Null /\ live = Sets /\ live' = {Base}
<1> DEFINE st == deleted([links |-> setlinks, ptr |-> ptr])
<1> SUFFICES ASSUME DirtyInv, vtsdirtyset_delete
             PROVE  /\ Sound(setlinks', ptr', {Base})
                    /\ KeysOf(setlinks', ptr', Base) = KeysOf(setlinks, ptr, Base)
                    /\ got' = Null /\ live = Sets /\ live' = {Base}
  OBVIOUS
<1>1. setlinks' = st.links /\ ptr' = st.ptr /\ got' = Null /\ live' = {Base} /\ live = Sets
  BY DirtyNow DEF vtsdirtyset_delete, Becomes, State
<1>2. Sound(setlinks, ptr, Sets)
  BY <1>1, DirtyNow
<1>3. Sound(st.links, st.ptr, {Base}) /\ KeysOf(st.links, st.ptr, Base) = KeysOf(setlinks, ptr, Base)
  BY <1>2, Deletes
<1> HIDE DEF st
<1> QED BY <1>1, <1>3

(* The first set, before anything is in it.                                *)
LEMMA InitDoes ==
  SetInit => /\ Sound(setlinks, ptr, {Base}) /\ KeysOf(setlinks, ptr, Base) = {}
             /\ live = {Base} /\ got = Null
<1> DEFINE m == [x \in SetMemory |-> Unlinked]
           p == [x \in Entries |-> Null]
<1> SUFFICES ASSUME SetInit
             PROVE  /\ Sound(setlinks, ptr, {Base}) /\ KeysOf(setlinks, ptr, Base) = {}
                    /\ live = {Base} /\ got = Null
  OBVIOUS
<1>1. setlinks = new(m, Base) /\ ptr = p /\ live = {Base} /\ got = Null
  BY DEF SetInit
<1>2. Sound(m, p, {})
  <2>1. m \in Memories(SetMemory)
    <3>1. Unlinked \in [prev : SetMemory \cup {Null}, next : SetMemory \cup {Null}]
      BY DEF Unlinked
    <3> QED BY <3>1 DEF Memories
  <2>2. p \in [Entries -> Keys \cup {Null}] /\ \A x \in Entries : p[x] = Null
    OBVIOUS
  <2>3. AllLists({}) = {}
    BY DEF AllLists
  <2> HIDE DEF m, p
  <2>4. Linked(m, AllLists({}), Nodes)
    BY <2>3 DEF Linked
  <2> QED BY <2>1, <2>2, <2>4 DEF Sound
<1>3. {} \subseteq Sets /\ Base \in Sets /\ Base \notin {} /\ {} \cup {Base} = {Base}
  BY DEF Sets
<1> HIDE DEF m, p
<1>4. Came(m, p, setlinks, p, {}, Base)
  BY <1>1, <1>2, <1>3, NewComes
<1> QED BY <1>1, <1>3, <1>4 DEF Came

LEMMA KeysTyped ==
  ASSUME NEW m, NEW p, NEW L, L \subseteq Sets, Sound(m, p, L), NEW s \in L
  PROVE  KeysOf(m, p, s) \subseteq Keys
BY OfSet DEF KeysOf

(***************************************************************************)
(* The theorems                                                            *)
(***************************************************************************)
LEMMA DirtyNextInv == DirtyInv /\ [SetNext]_setvars => DirtyInv'
<1> SUFFICES ASSUME DirtyInv, [SetNext]_setvars PROVE DirtyInv'
  OBVIOUS
<1>1. Sound(setlinks, ptr, live) /\ live \in {{Base}, Sets} /\ got \in Keys \cup {Null}
      /\ live \subseteq Sets /\ Base \in live /\ Clone \in Sets
  BY DirtyNow DEF DirtyInv, SetTypeOK, Sets
<1>2. SUFFICES Sound(setlinks', ptr', live') /\ live' \in {{Base}, Sets} /\ got' \in Keys \cup {Null}
  BY DEF DirtyInv, SetTypeOK, Sound, Memories
<1>3. ASSUME NEW k \in Keys, vtsdirtyset_insert(k)
      PROVE  Sound(setlinks', ptr', live') /\ live' \in {{Base}, Sets} /\ got' \in Keys \cup {Null}
  BY <1>1, <1>3, InsertDoes DEF Added
<1>4. ASSUME NEW k \in Keys, vtsdirtyset_remove(k)
      PROVE  Sound(setlinks', ptr', live') /\ live' \in {{Base}, Sets} /\ got' \in Keys \cup {Null}
  BY <1>1, <1>4, RemoveDoes DEF Dropped
<1>5. CASE vtsdirtyset_copy
  BY <1>5, CopyDoes DEF Cloned
<1>6. CASE vtsdirtyset_remove_any
  <2>1. live = Sets /\ live' = Sets
    BY <1>6, RemoveAnyDoes
  <2>2. CASE setlinks' = setlinks /\ ptr' = ptr /\ got' = Null
    BY <1>1, <2>1, <2>2
  <2>3. CASE \E k \in KeysOf(setlinks, ptr, Clone) :
               Dropped(setlinks, ptr, setlinks', ptr', Sets, Clone, k) /\ got' = k
    <3>1. KeysOf(setlinks, ptr, Clone) \subseteq Keys
      BY <1>1, <2>1, KeysTyped
    <3> QED BY <2>1, <2>3, <3>1 DEF Dropped
  <2> QED BY <1>6, <2>2, <2>3, RemoveAnyDoes
<1>7. CASE vtsdirtyset_delete
  BY <1>7, DeleteDoes
<1>8. CASE UNCHANGED setvars
  BY <1>1, <1>8 DEF setvars
<1> QED BY <1>3, <1>4, <1>5, <1>6, <1>7, <1>8 DEF SetNext

(* The links always make up the lists of the sets that exist, an entry     *)
(* lies on the list of its set and on that of its bucket, no key is in a   *)
(* set twice and memory on no list is free (vtsdirtyset.c).                *)
THEOREM DirtyInvHolds == SetSpec => []DirtyInv
<1>1. SetInit => DirtyInv
  <2> SUFFICES ASSUME SetInit PROVE DirtyInv
    OBVIOUS
  <2>1. Sound(setlinks, ptr, live) /\ live = {Base} /\ got = Null
    BY InitDoes
  <2> QED BY <2>1 DEF DirtyInv, SetTypeOK, Sound, Memories
<1> QED BY <1>1, DirtyNextInv, PTL DEF SetSpec

KeysAt(p, S) == {p[list_entry(e)] : e \in S}

LEMMA ListSize ==
  ASSUME NEW m, NEW p, NEW L, L \subseteq Sets, Sound(m, p, L), NEW l \in AllLists(L)
  PROVE  /\ list_size(m, l) = Cardinality(KeysAt(p, On(m, l)) \ {Null})
         /\ Elements(m, l) = Reverse(ElementsBack(m, l))
<1> DEFINE s == Elements(m, l)
           K == KeysAt(p, On(m, l))
           f == [i \in 1 .. Len(s) |-> p[list_entry(s[i])]]
<1>1. /\ m \in Memories(SetMemory) /\ Linked(m, AllLists(L), Nodes)
      /\ Arena(SetMemory, AllLists(L), Nodes)
  BY DirtyArena DEF Sound
<1>2. Chain(m, l, s) /\ s \in Seq(Nodes)
  BY <1>1, LinkedParts
<1>3. Elements(m, l) = Reverse(ElementsBack(m, l))
  <2>1. ElementsBack(m, l) = Reverse(s)
    BY <1>1, <1>2, ArenaReads
  <2> HIDE DEF s
  <2>2. Reverse(Reverse(s)) = s
    BY <1>2, ReverseTwice
  <2> QED BY <2>1, <2>2 DEF s
<1>4. Len(s) \in Nat /\ DOMAIN s = 1 .. Len(s) /\ \A i, j \in 1 .. Len(s) : s[i] = s[j] => i = j
  BY <1>2, CellTypes DEF Chain
<1>5. PICK z \in L : l \in ListsOf(z)
  BY DEF AllLists
<1>6. ASSUME NEW e \in On(m, l)
      PROVE  \E x \in Entered(m, z) : (l = iterlist(z) /\ e = iter(x)) \/ (l # iterlist(z) /\ e = elem(x))
  <2>1. CASE l = iterlist(z)
    BY <2>1, OfSet
  <2>2. CASE l # iterlist(z)
    <3>1. PICK h \in Hashes : l = bucket(z, h)
      BY <1>5, <2>2 DEF ListsOf
    <3> QED BY <2>2, <3>1, OfSet
  <2> QED BY <2>1, <2>2
<1>7. ASSUME NEW i \in 1 .. Len(s) PROVE s[i] \in On(m, l)
  <2>1. s[i] \in ToSet(s)
    <3> HIDE DEF s
    <3> QED BY <1>4 DEF ToSet
  <2> QED BY <2>1 DEF On
<1>8. ASSUME NEW e \in On(m, l)
      PROVE  p[list_entry(e)] # Null
  <2>1. PICK x \in Entered(m, z) : e = iter(x) \/ e = elem(x)
    BY <1>6
  <2>2. list_entry(e) = x
    BY <2>1, DirtyNames
  <2> QED BY <2>2, OfSet
<1>9. ASSUME NEW e \in On(m, l), NEW d \in On(m, l), p[list_entry(e)] = p[list_entry(d)]
      PROVE  e = d
  <2>1. PICK x \in Entered(m, z) : (l = iterlist(z) /\ e = iter(x)) \/ (l # iterlist(z) /\ e = elem(x))
    BY <1>6
  <2>2. PICK y \in Entered(m, z) : (l = iterlist(z) /\ d = iter(y)) \/ (l # iterlist(z) /\ d = elem(y))
    BY <1>6
  <2>3. list_entry(e) = x /\ list_entry(d) = y
    BY <2>1, <2>2, DirtyNames
  <2>4. x = y
    BY <1>9, <2>3, OfSet
  <2> QED BY <2>1, <2>2, <2>4
<1>10. On(m, l) = {s[i] : i \in 1 .. Len(s)}
  <2>1. ToSet(s) = {s[i] : i \in 1 .. Len(s)}
    <3> HIDE DEF s
    <3> QED BY <1>4 DEF ToSet
  <2> QED BY <2>1 DEF On
<1>0. K = {p[list_entry(e)] : e \in On(m, l)}
  BY DEF KeysAt
<1> HIDE DEF K
<1>11. Null \notin K
  BY <1>0, <1>8
<1> DEFINE n == Len(s)
<1>12. f \in Bijection(1 .. n, K)
  <2>1. f \in [1 .. n -> K]
    BY <1>0, <1>7
  <2>2. \A i, j \in 1 .. n : f[i] = f[j] => i = j
    <3>1. SUFFICES ASSUME NEW i \in 1 .. n, NEW j \in 1 .. n, f[i] = f[j] PROVE i = j
      OBVIOUS
    <3>2. s[i] = s[j]
      BY <1>7, <1>9, <3>1
    <3> QED BY <1>4, <3>2
  <2>3. \A k \in K : \E i \in 1 .. n : f[i] = k
    <3>1. SUFFICES ASSUME NEW k \in K PROVE \E i \in 1 .. n : f[i] = k
      OBVIOUS
    <3>2. PICK e \in On(m, l) : k = p[list_entry(e)]
      BY <1>0
    <3>3. PICK i \in 1 .. n : e = s[i]
      BY <1>10, <3>2
    <3> QED BY <3>2, <3>3
  <2> HIDE DEF f, n
  <2> QED BY <2>1, <2>2, <2>3 DEF Bijection, Injection, Surjection, IsInjective
<1>13. Cardinality(K) = n
  <2>1. n \in Nat
    BY <1>4
  <2> HIDE DEF f, n
  <2>2. IsFiniteSet(1 .. n) /\ Cardinality(1 .. n) = n
    BY <2>1, FS_Interval
  <2>3. ExistsBijection(1 .. n, K)
    BY <1>12 DEF ExistsBijection
  <2> QED BY <2>2, <2>3, FS_Bijection
<1>14. K \ {Null} = K
  BY <1>11
<1> QED BY <1>3, <1>13, <1>14 DEF list_size, K

LEMMA DirtyInvImplies == DirtyInv => EntriesAccounted
<1> SUFFICES ASSUME DirtyInv PROVE EntriesAccounted
  OBVIOUS
<1>1. Sound(setlinks, ptr, live) /\ live \subseteq Sets /\ SetTypeOK
  BY DirtyNow DEF DirtyInv
<1>2. ASSUME NEW l \in AllLists(live)
      PROVE  /\ Elements(setlinks, l) = Reverse(ElementsBack(setlinks, l))
             /\ list_size(setlinks, l) = Cardinality(KeysOn(l) \ {Null})
  <2>1. KeysAt(ptr, On(setlinks, l)) = KeysOn(l)
    BY DEF KeysAt, KeysOn, On
  <2>2. /\ list_size(setlinks, l) = Cardinality(KeysAt(ptr, On(setlinks, l)) \ {Null})
        /\ Elements(setlinks, l) = Reverse(ElementsBack(setlinks, l))
    BY <1>1, ListSize
  <2> QED BY <2>1, <2>2
<1>3. \A l \in UNION {ListsOf(s) : s \in live} :
        Elements(setlinks, l) = Reverse(ElementsBack(setlinks, l))
  BY <1>2 DEF AllLists
<1>4. ASSUME NEW x \in used
      PROVE  \E s \in live :
               /\ iter(x) \in ToSet(Elements(setlinks, iterlist(s)))
               /\ elem(x) \in ToSet(Elements(setlinks, bucket(s, Hash[ptr[x]])))
  <2>1. PICK s \in live : x \in Entered(setlinks, s)
    BY <1>1 DEF Sound, used
  <2>2. iter(x) \in On(setlinks, iterlist(s))
    BY <2>1 DEF Entered
  <2>3. Hash[ptr[x]] \in Hashes
    BY <1>1, <2>1, OfSet, DirtyNames
  <2>4. elem(x) \in On(setlinks, bucket(s, Hash[ptr[x]]))
    BY <1>1, <2>1, <2>3, OfSet
  <2> QED BY <2>2, <2>4 DEF On
<1>5. ASSUME NEW s \in live
      PROVE  /\ list_size(setlinks, iterlist(s)) = Cardinality(KeysOn(iterlist(s)) \ {Null})
             /\ \A h \in Hashes :
                  list_size(setlinks, bucket(s, h)) = Cardinality(KeysOn(bucket(s, h)) \ {Null})
  BY <1>1, <1>2, ListsAre
<1> QED BY <1>1, <1>3, <1>4, <1>5 DEF EntriesAccounted

(* Every entry in use lies on the list of its set and on that of its       *)
(* bucket, both directions of each list agree, and a list has as many      *)
(* entries as keys (vtsdirtyset.c:24-236).                                 *)
THEOREM EntriesAccountedHolds == SetSpec => []EntriesAccounted
BY DirtyInvHolds, DirtyInvImplies, PTL

(***************************************************************************)
(* The sets are sets of addresses                                          *)
(***************************************************************************)
LEMMA KeysOnIs ==
  ASSUME NEW m, NEW p, NEW L, L \subseteq Sets, Sound(m, p, L), NEW s \in L
  PROVE  {p[list_entry(e)] : e \in ToSet(Elements(m, iterlist(s)))} = KeysOf(m, p, s)
<1> DEFINE I == ToSet(Elements(m, iterlist(s)))
           E == Entered(m, s)
<1>1. I = {iter(x) : x \in E}
  BY OfSet DEF On
<1> HIDE DEF I, E
<1>2. {p[list_entry(e)] : e \in I} = {p[x] : x \in E}
  BY <1>1, DirtyNames
<1> QED BY <1>2 DEF I, E, KeysOf

LEMMA AddressesNow ==
  DirtyInv => /\ KeysOn(iterlist(Base)) = KeysOf(setlinks, ptr, Base)
              /\ live = Sets => KeysOn(iterlist(Clone)) = KeysOf(setlinks, ptr, Clone)
BY DirtyNow, KeysOnIs DEF KeysOn, Sets

LEMMA AddressesNext ==
  DirtyInv' => /\ KeysOn(iterlist(Base))' = KeysOf(setlinks', ptr', Base)
               /\ live' = Sets => KeysOn(iterlist(Clone))' = KeysOf(setlinks', ptr', Clone)
<1> DEFINE m == setlinks'
           p == ptr'
           L == live'
<1> SUFFICES ASSUME DirtyInv'
             PROVE  /\ KeysOn(iterlist(Base))' = KeysOf(m, p, Base)
                    /\ L = Sets => KeysOn(iterlist(Clone))' = KeysOf(m, p, Clone)
  OBVIOUS
<1>1. Sound(m, p, L) /\ L \in {{Base}, Sets}
  BY DEF DirtyInv, SetTypeOK, Sound, Linked, Filed, Entered, On
<1>2. /\ KeysOn(iterlist(Base))' = {p[list_entry(e)] : e \in ToSet(Elements(m, iterlist(Base)))}
      /\ KeysOn(iterlist(Clone))' = {p[list_entry(e)] : e \in ToSet(Elements(m, iterlist(Clone)))}
  BY DEF KeysOn
<1> HIDE DEF m, p, L
<1>3. L \subseteq Sets /\ Base \in L /\ (L = Sets => Clone \in L)
  BY <1>1 DEF Sets
<1> QED BY <1>1, <1>2, <1>3, KeysOnIs

LEMMA AddressesInit == SetInit => AsSets!Init
<1> SUFFICES ASSUME SetInit PROVE AsSets!Init
  OBVIOUS
<1>1. /\ Sound(setlinks, ptr, {Base}) /\ KeysOf(setlinks, ptr, Base) = {}
      /\ live = {Base} /\ got = Null
  BY InitDoes
<1>2. KeysOn(iterlist(Base)) = {}
  <2>1. Base \in {Base} /\ {Base} \subseteq Sets
    BY DEF Sets
  <2> QED BY <1>1, <2>1, KeysOnIs DEF KeysOn
<1>3. Clone \notin live
  BY <1>1, DirtySetAssumption
<1> QED BY <1>1, <1>2, <1>3 DEF AsSets!Init

LEMMA AddressesStep ==
  DirtyInv /\ DirtyInv' /\ [SetNext]_setvars => [AsSets!Next]_AsSets!vars
<1> DEFINE b == KeysOf(setlinks, ptr, Base)
           c == KeysOf(setlinks, ptr, Clone)
           bn == KeysOf(setlinks', ptr', Base)
           cn == KeysOf(setlinks', ptr', Clone)
           base == KeysOn(iterlist(Base))
           copy == IF Clone \in live THEN KeysOn(iterlist(Clone)) ELSE Null
<1> SUFFICES ASSUME DirtyInv, DirtyInv', [SetNext]_setvars PROVE [AsSets!Next]_AsSets!vars
  OBVIOUS
<1>1. /\ Sound(setlinks, ptr, live) /\ live \subseteq Sets /\ Base \in live /\ Clone \in Sets
      /\ (Clone \in live <=> live = Sets) /\ (Clone \notin live <=> live = {Base})
      /\ Base # Clone
  BY DirtyNow DEF Sets
<1>2. /\ base = b /\ (live = Sets => copy = c) /\ (live = {Base} => copy = Null)
      /\ base' = bn /\ (live' = Sets => copy' = cn) /\ (live' = {Base} => copy' = Null)
  <2>1. base = b /\ (live = Sets => KeysOn(iterlist(Clone)) = c)
    BY AddressesNow
  <2>2. base' = bn /\ (live' = Sets => KeysOn(iterlist(Clone))' = cn)
    BY AddressesNext
  <2>3. live' = Sets => Clone \in live'
    BY DEF Sets
  <2>4. live' = {Base} => Clone \notin live'
    BY <1>1
  <2> HIDE DEF b, c, bn, cn
  <2> QED BY <1>1, <2>1, <2>2, <2>3, <2>4
<1>3. live = Sets => c \in SUBSET Keys /\ c # Null
  BY <1>1, KeysTyped, DirtySetAssumption
<1> HIDE DEF b, c, bn, cn, base, copy
<1>4. \A k \in Keys : AsSets!Insert(k) <=> base' = base \cup {k} /\ got' = Null /\ copy' = copy
  BY DEF AsSets!Insert, base, copy
<1>5. \A k \in Keys : AsSets!Remove(k) <=> /\ base' = base \ {k} /\ copy' = copy
                                           /\ got' = IF k \in base THEN k ELSE Null
  BY DEF AsSets!Remove, base, copy
<1>6. AsSets!RemoveAny <=> /\ copy # Null /\ base' = base
                           /\ \/ copy = {} /\ got' = Null /\ copy' = copy
                              \/ \E k \in copy : got' = k /\ copy' = copy \ {k}
  BY DEF AsSets!RemoveAny, base, copy
<1>7. /\ AsSets!Copy <=> copy = Null /\ copy' = base /\ got' = Null /\ base' = base
      /\ AsSets!Delete <=> copy # Null /\ copy' = Null /\ got' = Null /\ base' = base
  BY DEF AsSets!Copy, AsSets!Delete, base, copy
<1>8. ASSUME NEW k \in Keys, vtsdirtyset_insert(k) PROVE AsSets!Insert(k)
  <2>1. Added(setlinks, ptr, setlinks', ptr', live, Base, k) /\ got' = Null /\ live' = live
    BY <1>8, InsertDoes
  <2>2. bn = b \cup {k} /\ (live = Sets => cn = c)
    BY <1>1, <2>1 DEF Added, b, c, bn, cn
  <2> QED BY <1>1, <1>2, <1>4, <2>1, <2>2
<1>9. ASSUME NEW k \in Keys, vtsdirtyset_remove(k) PROVE AsSets!Remove(k)
  <2>1. /\ Dropped(setlinks, ptr, setlinks', ptr', live, Base, k) /\ live' = live
        /\ got' = IF k \in b THEN k ELSE Null
    BY <1>9, RemoveDoes DEF b
  <2>2. bn = b \ {k} /\ (live = Sets => cn = c)
    BY <1>1, <2>1 DEF Dropped, b, c, bn, cn
  <2> QED BY <1>1, <1>2, <1>5, <2>1, <2>2
<1>10. CASE vtsdirtyset_copy
  <2>1. /\ Cloned(setlinks, ptr, setlinks', ptr', b) /\ got' = Null
        /\ live = {Base} /\ live' = Sets
    BY <1>10, CopyDoes DEF b
  <2>2. cn = b /\ bn = b
    BY <2>1 DEF Cloned, b, bn, cn
  <2>3. AsSets!Copy
    BY <1>2, <1>7, <2>1, <2>2
  <2> QED BY <2>3 DEF AsSets!Next
<1>11. CASE vtsdirtyset_remove_any
  <2>1. /\ live = Sets /\ live' = Sets
        /\ \/ c = {} /\ got' = Null /\ setlinks' = setlinks /\ ptr' = ptr
           \/ \E k \in c : Dropped(setlinks, ptr, setlinks', ptr', Sets, Clone, k) /\ got' = k
    BY <1>11, RemoveAnyDoes DEF c
  <2>2. copy = c /\ copy' = cn /\ copy # Null
    BY <1>2, <1>3, <2>1
  <2>3. CASE c = {} /\ got' = Null /\ setlinks' = setlinks /\ ptr' = ptr
    <3>1. bn = b /\ cn = c
      BY <2>3 DEF b, c, bn, cn
    <3>2. AsSets!RemoveAny
      BY <1>2, <1>6, <2>2, <2>3, <3>1
    <3> QED BY <3>2 DEF AsSets!Next
  <2>4. CASE \E k \in c : Dropped(setlinks, ptr, setlinks', ptr', Sets, Clone, k) /\ got' = k
    <3>1. PICK k \in c : Dropped(setlinks, ptr, setlinks', ptr', Sets, Clone, k) /\ got' = k
      BY <2>4
    <3>2. bn = b /\ cn = c \ {k}
      BY <1>1, <2>1, <3>1 DEF Dropped, b, c, bn, cn
    <3>3. AsSets!RemoveAny
      BY <1>2, <1>6, <2>2, <3>1, <3>2
    <3> QED BY <3>3 DEF AsSets!Next
  <2> QED BY <2>1, <2>3, <2>4
<1>12. CASE vtsdirtyset_delete
  <2>1. bn = b /\ got' = Null /\ live = Sets /\ live' = {Base}
    BY <1>12, DeleteDoes DEF b, bn
  <2>2. AsSets!Delete
    BY <1>2, <1>3, <1>7, <2>1
  <2> QED BY <2>2 DEF AsSets!Next
<1>13. CASE UNCHANGED setvars
  <2>1. base' = base /\ copy' = copy /\ got' = got
    BY <1>13 DEF setvars, base, copy, KeysOn
  <2> QED BY <2>1 DEF AsSets!vars, base, copy
<1>14. ASSUME NEW k \in Keys, vtsdirtyset_insert(k) \/ vtsdirtyset_remove(k)
       PROVE  AsSets!Next
  BY <1>8, <1>9, <1>14 DEF AsSets!Next
<1> QED BY <1>10, <1>11, <1>12, <1>13, <1>14 DEF SetNext

(* The set and its copy are the sets of vtsdirtyset.h: each call does to   *)
(* the addresses what it does to a set, and the copy is the set as it was  *)
(* when it was taken (vtsdirtyset.c:79-236).                               *)
THEOREM AddressSetsImplemented == SetSpec => ImplementsAddressSets
<1>1. SetInit => AsSets!Init
  BY AddressesInit
<1>2. DirtyInv /\ DirtyInv' /\ [SetNext]_setvars => [AsSets!Next]_AsSets!vars
  BY AddressesStep
<1>3. SetSpec => []DirtyInv
  BY DirtyInvHolds
<1> QED BY <1>1, <1>2, <1>3, PTL DEF SetSpec, ImplementsAddressSets, AsSets!Spec
=============================================================================
