----------------------------- MODULE AddrTable ------------------------------
(***************************************************************************)
(* The table that finds the block of a page: milestone2/vds/vtsaddrtable.c.*)
(* Open addressing with triangular probing; the array doubles when it is   *)
(* more than 70 % full, by the count of insertions.                        *)
(*                                                                         *)
(* Growing inserts every block anew, page by page, with the function that  *)
(* is growing the array: growing may begin again inside.  The call stack   *)
(* is a variable.  Arrays are named by their length, which is never that   *)
(* of an earlier one.                                                      *)
(*                                                                         *)
(* Addresses are page numbers.  The writer holds the lock while its stack  *)
(* is not empty; a reader holds it only inside Find, and reads the entry   *)
(* it has found afterwards.                                                *)
(***************************************************************************)
EXTENDS Integers, FiniteSets, SequencesExt

CONSTANTS
  Blocks,           \* the blocks of the store: [pgstart, npages], disjoint
  Power,            \* the first array has 2^Power entries
  Finders           \* threads that look pages up

PagesOf(b) == b.pgstart .. (b.pgstart + b.npages - 1)

ASSUME AddrTableAssumption ==
  /\ Blocks \subseteq [pgstart : Nat \ {0}, npages : Nat \ {0}] /\ IsFiniteSet(Blocks)
  /\ \A b, c \in Blocks : b # c => PagesOf(b) \cap PagesOf(c) = {}
  /\ Power \in Nat \ {0, 1}

VARIABLES
  nelem, cap,
  arrays,           \* arrays[c]: the entries of the array of length c, if not freed
  stack,            \* the calls of the writer, the innermost last
  stored,           \* the blocks whose insertion has begun
  finder            \* finder[f]: the page looked up, and the entry found

vars == <<nelem, cap, arrays, stack, stored, finder>>

NoBlock == [pgstart |-> 0, npages |-> 0]
Empty == [key |-> 0, value |-> NoBlock]
Fresh(c) == [h \in 0 .. (c - 1) |-> Empty]

Inserting(b) == [op |-> "insert", block |-> b, pgidx |-> 0, checked |-> FALSE]
GrowingNew(c) == [op |-> "expand", old |-> 2 * c, i |-> 0]
Growing(c) == [op |-> "expand", old |-> c, i |-> 0]
Away == [page |-> 0, array |-> 0, slot |-> 0]

entries == arrays[cap]
Top == stack[Len(stack)]
WithTop(frame) == [stack EXCEPT ![Len(stack)] = frame]

(* The slots in the order of probing, k = 0 .. cap - 1, up to the first    *)
(* that has the page or is empty.                                          *)
Probe(p, k) == (p + ((k * k + k) \div 2)) % cap
HitEmpty(p, k) == entries[Probe(p, k)].key = 0
Hit(p, k) == entries[Probe(p, k)].key \in {p, 0}
HasSlot(p) == \E k \in 0 .. (cap - 1) : Hit(p, k)
SlotOf(p) ==
  Probe(p, CHOOSE k \in 0 .. (cap - 1) : Hit(p, k) /\ \A j \in 0 .. (k - 1) : ~Hit(p, j))

(***************************************************************************)
(* vtsaddrtable_insert                                                     *)
(***************************************************************************)
Insert(b) ==
  /\ stack = <<>> /\ b \notin stored
  /\ stack' = <<Inserting(b)>>
  /\ stored' = stored \cup {b}
  /\ UNCHANGED <<nelem, cap, arrays, finder>>

AtPage == stack # <<>> /\ Top.op = "insert" /\ Top.pgidx < Top.block.npages

CrowdedLate == nelem >= cap
Crowded == 10 * nelem > 7 * cap

(* The load is looked at once for a page, also when growing the array has  *)
(* counted up so many entries that it is as crowded as before.             *)
Expand ==
  /\ AtPage /\ ~Top.checked /\ Crowded
  /\ cap' = 2 * cap
  /\ arrays' = [c \in DOMAIN arrays \cup {2 * cap} |->
                  IF c = 2 * cap THEN Fresh(c) ELSE arrays[c]]
  /\ stack' = Append(WithTop([Top EXCEPT !.checked = TRUE]), Growing(cap))
  /\ UNCHANGED <<nelem, stored, finder>>

PutPage ==
  /\ AtPage /\ (Top.checked \/ ~Crowded)
  /\ LET p == Top.block.pgstart + Top.pgidx IN
     /\ HasSlot(p)
     /\ arrays' = [arrays EXCEPT ![cap][SlotOf(p)] = [key |-> p, value |-> Top.block]]
  /\ nelem' = nelem + 1
  /\ stack' = WithTop([Top EXCEPT !.pgidx = @ + 1, !.checked = FALSE])
  /\ UNCHANGED <<cap, stored, finder>>

InsertReturn ==
  /\ stack # <<>> /\ Top.op = "insert" /\ Top.pgidx = Top.block.npages
  /\ stack' = Front(stack)
  /\ UNCHANGED <<nelem, cap, arrays, stored, finder>>

(* One entry of the old array.                                             *)
Stay == stack
Skip == WithTop([Top EXCEPT !.i = @ + 1])

Rehash ==
  /\ stack # <<>> /\ Top.op = "expand" /\ Top.i < Top.old
  /\ LET b == arrays[Top.old][Top.i].value
     IN stack' = IF b = NoBlock THEN Skip
                 ELSE Append(WithTop([Top EXCEPT !.i = @ + 1]), Inserting(b))
  /\ UNCHANGED <<nelem, cap, arrays, stored, finder>>

OldArray == Top.old

ExpandReturn ==
  /\ stack # <<>> /\ Top.op = "expand" /\ Top.i = Top.old
  /\ arrays' = [c \in DOMAIN arrays \ {OldArray} |-> arrays[c]]
  /\ stack' = Front(stack)
  /\ UNCHANGED <<nelem, cap, stored, finder>>

(***************************************************************************)
(* vtsaddrtable_find: the entry is read after the lock is released.        *)
(***************************************************************************)
Find(f, p) ==
  /\ stack = <<>> /\ finder[f] = Away
  /\ HasSlot(p)
  /\ finder' = [finder EXCEPT ![f] = [page |-> p, array |-> cap, slot |-> SlotOf(p)]]
  /\ UNCHANGED <<nelem, cap, arrays, stack, stored>>

ReadEntry(f) ==
  /\ finder[f] # Away
  /\ finder' = [finder EXCEPT ![f] = Away]
  /\ UNCHANGED <<nelem, cap, arrays, stack, stored>>

Init ==
  /\ nelem = 0 /\ cap = 2^Power
  /\ arrays = [c \in {2^Power} |-> Fresh(c)]
  /\ stack = <<>> /\ stored = {}
  /\ finder = [f \in Finders |-> Away]

Next ==
  \/ \E b \in Blocks : Insert(b)
  \/ Expand \/ PutPage \/ InsertReturn \/ Rehash \/ ExpandReturn
  \/ \E f \in Finders :
       (\E b \in stored : \E p \in PagesOf(b) : Find(f, p)) \/ ReadEntry(f)

Writer == Expand \/ PutPage \/ InsertReturn \/ Rehash \/ ExpandReturn

Spec == Init /\ [][Next]_vars /\ WF_vars(Writer)

(***************************************************************************)
(* Properties                                                              *)
(***************************************************************************)
EntryType == [key : Nat, value : Blocks \cup {NoBlock}]
FrameType ==
  [op : {"insert"}, block : Blocks, pgidx : Nat, checked : BOOLEAN]
    \cup [op : {"expand"}, old : Nat, i : Nat]

TypeOK ==
  /\ nelem \in Nat /\ cap \in Nat \ {0}
  /\ cap \in DOMAIN arrays
  /\ \A c \in DOMAIN arrays : arrays[c] \in [0 .. (c - 1) -> EntryType]
  /\ stack \in Seq(FrameType)
  /\ stored \subseteq Blocks
  /\ \A f \in Finders :
       finder[f] # Away => finder[f].page \in Nat /\ finder[f].slot \in 0 .. (finder[f].array - 1)

Occupied == {h \in 0 .. (cap - 1) : entries[h] # Empty}

(* When no insertion is under way, each page of each block is found, under *)
(* its block, and nothing else is in the table.                            *)
Found ==
  stack = <<>> =>
    /\ \A b \in stored : \A p \in PagesOf(b) :
         HasSlot(p) /\ entries[SlotOf(p)] = [key |-> p, value |-> b]
    /\ Cardinality(Occupied) = Cardinality(UNION {PagesOf(b) : b \in stored})

(* "Expand at 70 % load": that many entries and one are taken, at most, so *)
(* that a slot is free; and probing for a page ends at a slot, so that     *)
(* __vtsaddrtable_find does not return NULL.                               *)
RoomLeft ==
  /\ 10 * (Cardinality(Occupied) - 1) <= 7 * cap /\ Cardinality(Occupied) < cap
  /\ \A b \in Blocks : \A p \in PagesOf(b) : HasSlot(p)

(* An array that is being read for a rehash is not freed, and is not the   *)
(* array that is written.                                                  *)
RehashSafe ==
  /\ TypeOK
  /\ \A k \in DOMAIN stack :
       stack[k].op = "expand" => stack[k].old \in DOMAIN arrays /\ stack[k].old < cap

(* An insertion ends, however often the array grows in the meantime.       *)
InsertReturns == stack # <<>> ~> stack = <<>>

(* The table is thread-safe, vtsaddrtable.h:18: a thread that found an     *)
(* entry can read it.  This does not hold: see the README.                 *)
EntryReadable ==
  \A f \in Finders : finder[f] # Away =>
    /\ finder[f].array \in DOMAIN arrays
    /\ finder[f].page \in PagesOf(arrays[finder[f].array][finder[f].slot].value)
=============================================================================
