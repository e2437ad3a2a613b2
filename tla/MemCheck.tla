------------------------------ MODULE MemCheck ------------------------------
(***************************************************************************)
(* util/memcheck.c: a table of every block that malloc, calloc, realloc    *)
(* and mmap have given and nobody has given back.                          *)
(*                                                                         *)
(* mcmalloc, mccalloc, mcmmap and mcrealloc call the C library before they *)
(* take the lock of the table, so each is two steps, Gives or Moves and    *)
(* then Registers or Reregisters; mcfree and mcmunmap hold the lock        *)
(* throughout.  The actions here are on the memory alone: a module that    *)
(* extends this one joins them with the threads that call them.            *)
(***************************************************************************)
EXTENDS Integers, Sequences, FiniteSets, SequencesExt, FiniteSetsExt

CONSTANTS
  Blocks,      \* addresses of blocks of memory
  Hash         \* Hash[b]: ptr_hash(b) % TABLE_SIZE

Hashes == {Hash[b] : b \in Blocks}

ASSUME BlocksAssumption ==
  /\ IsFiniteSet(Blocks) /\ Blocks \subseteq Nat /\ Blocks # {}
  /\ DOMAIN Hash = Blocks

VARIABLES
  given,       \* the blocks the C library has given and not taken back
  data,        \* the chains of the table, by hash
  nelem,       \* the number of nodes
  aborted      \* mcfree was called for a block that is not in the table

memcheckvars == <<given, data, nelem, aborted>>

MemCheckTypeOK ==
  /\ given \subseteq Blocks
  /\ data \in [Hashes -> Seq(Blocks)]
  /\ nelem \in Nat
  /\ aborted \in BOOLEAN

(* What the program has already, registered.                               *)
MemCheckInit(held) ==
  /\ given = held
  /\ data = [h \in Hashes |-> SetToSeq({b \in held : Hash[b] = h})]
  /\ nelem = Cardinality(held)
  /\ aborted = FALSE

(***************************************************************************)
(* The table                                                               *)
(***************************************************************************)
Table == [data |-> data, nelem |-> nelem]

Places(tb, b)     == {i \in DOMAIN tb.data[Hash[b]] : tb.data[Hash[b]][i] = b}
Registered(tb, b) == Places(tb, b) # {}

mc_table_del(tb, b) ==
  IF Registered(tb, b)
    THEN [data  |-> [tb.data EXCEPT ![Hash[b]] = RemoveAt(@, Min(Places(tb, b)))],
          nelem |-> tb.nelem - 1]
    ELSE tb

(* A node the address has already, left by a realloc that moved a block    *)
(* away and has not got the lock yet, is deleted first.                    *)
mc_table_insert_twice(tb, b) ==
  [data |-> [tb.data EXCEPT ![Hash[b]] = <<b>> \o @], nelem |-> tb.nelem + 1]

mc_table_insert(tb, b) ==
  LET old == mc_table_del(tb, b)
  IN [data |-> [old.data EXCEPT ![Hash[b]] = <<b>> \o @], nelem |-> old.nelem + 1]

TableBecomes(tb) == data' = tb.data /\ nelem' = tb.nelem

(***************************************************************************)
(* The calls                                                               *)
(***************************************************************************)
(* The C library gives the first free block, which is reused as soon as    *)
(* can be.                                                                 *)
FirstFree == Min(Blocks \ given)

Gives == given # Blocks /\ given' = given \cup {FirstFree}
         /\ UNCHANGED <<data, nelem, aborted>>

Registers(b) == TableBecomes(mc_table_insert(Table, b)) /\ UNCHANGED <<given, aborted>>

(* realloc of p leaves the block where it is or moves it to b.             *)
Moves(p, b) ==
  /\ b = p \/ (given # Blocks /\ b = FirstFree)
  /\ given' = (given \ {p}) \cup {b}
  /\ UNCHANGED <<data, nelem, aborted>>

Reregisters(p, b) ==
  /\ TableBecomes(mc_table_insert(mc_table_del(Table, p), b))
  /\ UNCHANGED <<given, aborted>>

mcfree(b) ==
  IF Registered(Table, b)
    THEN TableBecomes(mc_table_del(Table, b)) /\ given' = given \ {b} /\ UNCHANGED aborted
    ELSE aborted' = TRUE /\ UNCHANGED <<given, data, nelem>>

mcmunmap(b) ==
  /\ TableBecomes(mc_table_del(Table, b))
  /\ given' = given \ {b}
  /\ UNCHANGED aborted
=============================================================================
