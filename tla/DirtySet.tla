------------------------------ MODULE DirtySet ------------------------------
(***************************************************************************)
(* vds/vtsdirtyset.c: the set of dirty pages, a hash table chained through *)
(* lists of util/list.c.  An entry lies on two lists, that of its bucket   *)
(* and that over which the set is iterated.                                *)
(*                                                                         *)
(* There are two sets: Base, self->dirty of the store, and Clone, which    *)
(* nvstore_checkpoint_everything makes, empties and deletes.  Every        *)
(* operation holds the lock of the set it works on throughout, and the one *)
(* that makes the copy holds that of Base, so each is one step, of the     *)
(* fault worker (insert), the checkpoint worker (remove) or a thread that  *)
(* checkpoints everything.                                                 *)
(***************************************************************************)
EXTENDS List, FiniteSetsExt

CONSTANTS
  Keys,           \* page addresses
  Hash,           \* Hash[k]: ptr_hash(k) % VDIRTYSET_SIZE
  Entries,        \* blocks of memory that mcmalloc gives for a vtsdirtyaddr
  Base, Clone

Sets    == {Base, Clone}
Hashes  == {Hash[k] : k \in Keys}

(* The two list elements of an entry, and the entry a list element is in.  *)
elem(x)       == <<x, "elem">>
iter(x)       == <<x, "iter">>
list_entry(e) == e[1]

bucket(s, h) == <<s, h>>
iterlist(s)  == <<s, "iterlist">>

ListsOf(s) == {bucket(s, h) : h \in Hashes} \cup {iterlist(s)}
SetLists   == ListsOf(Base) \cup ListsOf(Clone)
SetMemory  == {elem(x) : x \in Entries} \cup {iter(x) : x \in Entries}
                \cup {head(l) : l \in SetLists} \cup {tail(l) : l \in SetLists}

ASSUME DirtySetAssumption ==
  /\ Null \notin Keys \cup Entries \cup Sets \cup SetMemory
  /\ \A S \in SUBSET Keys : Null # S
  /\ Base # Clone
  /\ DOMAIN Hash = Keys /\ "iterlist" \notin Hashes
  /\ IsFiniteSet(Entries) /\ IsFiniteSet(Keys)
  /\ Cardinality(Entries) >= 2 * Cardinality(Keys)

VARIABLES
  setlinks,   \* the links of every list element
  ptr,        \* entry->ptr, Null in memory that is free
  live,       \* the sets that exist
  got         \* what the last operation returned

setvars == <<setlinks, ptr, live, got>>

used == {x \in Entries : ptr[x] # Null}

SetTypeOK ==
  /\ setlinks \in [SetMemory -> [prev : SetMemory \cup {Null}, next : SetMemory \cup {Null}]]
  /\ ptr \in [Entries -> Keys \cup {Null}]
  /\ live \in {{Base}, Sets}
  /\ got \in Keys \cup {Null}

(***************************************************************************)
(* The functions that are called under the lock, on the links m and the    *)
(* entries p.                                                              *)
(***************************************************************************)
(* The first entry with the key on the list of its bucket.                 *)
find(s, m, p, key) ==
  LET chain == Elements(m, bucket(s, Hash[key]))
      hits  == {i \in DOMAIN chain : p[list_entry(chain[i])] = key}
  IN IF hits = {} THEN Null ELSE list_entry(chain[Min(hits)])

(* mcmalloc and mcfree; what free memory holds is of no consequence.       *)
entry_new(p) == CHOOSE x \in Entries : p[x] = Null

entry_delete(m, x) == [m EXCEPT ![elem(x)] = Unlinked, ![iter(x)] = Unlinked]

insert_twice(s, st, key) ==
  LET x == entry_new(st.ptr)
      m == list_push_back(st.links, bucket(s, Hash[key]), elem(x))
  IN [links |-> list_push_back(m, iterlist(s), iter(x)), ptr |-> [st.ptr EXCEPT ![x] = key]]

insert(s, st, key) ==
  LET x == entry_new(st.ptr)
      m == list_push_back(st.links, bucket(s, Hash[key]), elem(x))
  IN IF find(s, st.links, st.ptr, key) # Null THEN st
     ELSE [links |-> list_push_back(m, iterlist(s), iter(x)),
           ptr   |-> [st.ptr EXCEPT ![x] = key]]

unlink_iter(m, x) == list_remove(m, iter(x))
unlink(m, x) == list_remove(list_remove(m, elem(x)), iter(x))

remove(s, st, key) ==
  LET x == find(s, st.links, st.ptr, key)
  IN IF x = Null THEN st
     ELSE [links |-> entry_delete(unlink(st.links, x), x), ptr |-> [st.ptr EXCEPT ![x] = Null]]

(* Takes the front of the list of all entries.                             *)
any(s, m) == list_entry(list_front(m, iterlist(s)))

remove_any(s, st) ==
  LET x == any(s, st.links)
      m == list_remove(list_pop_front(st.links, iterlist(s)), elem(x))
  IN [links |-> entry_delete(m, x), ptr |-> [st.ptr EXCEPT ![x] = Null]]

(* vtsdirtyset_new.                                                        *)
new(m, s) ==
  [e \in DOMAIN m |-> IF e[1] \in ListsOf(s) THEN list_init(m, e[1])[e] ELSE m[e]]

(* The keys of Base, from front to back.                                   *)
copied(st) ==
  LET s == Elements(st.links, iterlist(Base))
      after[i \in 0 .. Len(s)] ==
        IF i = 0 THEN [st EXCEPT !.links = new(@, Clone)]
        ELSE insert(Clone, after[i - 1], st.ptr[list_entry(s[i])])
  IN after[Len(s)]

(* Pops and frees the entries one by one; their buckets go with the set.   *)
deleted(st) ==
  LET xs == {list_entry(e) : e \in ToSet(Elements(st.links, iterlist(Clone)))}
  IN [links |-> [e \in SetMemory |->
                   IF e \in {elem(x) : x \in xs} \cup {iter(x) : x \in xs}
                        \cup {head(l) : l \in ListsOf(Clone)} \cup {tail(l) : l \in ListsOf(Clone)}
                   THEN Unlinked ELSE st.links[e]],
      ptr   |-> [x \in Entries |-> IF x \in xs THEN Null ELSE st.ptr[x]]]

(***************************************************************************)
(* The operations                                                          *)
(***************************************************************************)
State == [links |-> setlinks, ptr |-> ptr]

Becomes(st, r) == setlinks' = st.links /\ ptr' = st.ptr /\ got' = r

SetInit ==
  /\ setlinks = new([x \in SetMemory |-> Unlinked], Base)
  /\ ptr = [x \in Entries |-> Null]
  /\ live = {Base}
  /\ got = Null

vtsdirtyset_insert(key) == Becomes(insert(Base, State, key), Null) /\ UNCHANGED live

vtsdirtyset_remove(key) ==
  /\ Becomes(remove(Base, State, key), IF find(Base, setlinks, ptr, key) = Null THEN Null ELSE key)
  /\ UNCHANGED live

vtsdirtyset_copy ==
  /\ Clone \notin live
  /\ Becomes(copied(State), Null)
  /\ live' = Sets

vtsdirtyset_remove_any ==
  /\ Clone \in live
  /\ IF list_empty(setlinks, iterlist(Clone)) THEN Becomes(State, Null)
     ELSE Becomes(remove_any(Clone, State), ptr[any(Clone, setlinks)])
  /\ UNCHANGED live

vtsdirtyset_delete ==
  /\ Clone \in live
  /\ Becomes(deleted(State), Null)
  /\ live' = {Base}

SetNext ==
  \/ \E k \in Keys : vtsdirtyset_insert(k) \/ vtsdirtyset_remove(k)
  \/ vtsdirtyset_copy \/ vtsdirtyset_remove_any \/ vtsdirtyset_delete

SetSpec == SetInit /\ [][SetNext]_setvars
-----------------------------------------------------------------------------
(***************************************************************************)
(* Properties                                                              *)
(***************************************************************************)
KeysOn(l) == {ptr[list_entry(e)] : e \in ToSet(Elements(setlinks, l))}

(* Every entry lies on the list of its set and on that of its bucket, each *)
(* key once, and memory that is on no list is free: an entry that is taken *)
(* off one list only would stay in use for ever or be freed in use.        *)
EntriesAccounted ==
  /\ SetTypeOK
  /\ \A l \in UNION {ListsOf(s) : s \in live} :
       Elements(setlinks, l) = Reverse(ElementsBack(setlinks, l))
  /\ \A x \in used : \E s \in live :
       /\ iter(x) \in ToSet(Elements(setlinks, iterlist(s)))
       /\ elem(x) \in ToSet(Elements(setlinks, bucket(s, Hash[ptr[x]])))
  /\ \A s \in live :
       /\ list_size(setlinks, iterlist(s)) = Cardinality(KeysOn(iterlist(s)) \ {Null})
       /\ \A h \in Hashes : list_size(setlinks, bucket(s, h)) = Cardinality(KeysOn(bucket(s, h)) \ {Null})

(* The set and its copy are the sets of vtsdirtyset.h: a remove finds what *)
(* was inserted, the copy is the set as it was when it was taken, and the  *)
(* loop that empties it returns each address once.                         *)
AsSets == INSTANCE AddressSets WITH
  NoKey <- Null, NoSet <- Null,
  base  <- KeysOn(iterlist(Base)),
  copy  <- IF Clone \in live THEN KeysOn(iterlist(Clone)) ELSE Null

ImplementsAddressSets == AsSets!Spec
=============================================================================
