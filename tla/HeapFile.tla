------------------------------ MODULE HeapFile ------------------------------
(***************************************************************************)
(* The file of the heap: how blocks of pages come into it and are found    *)
(* again at the next start.  milestone2/nvmm/nvstore.c (allocation,        *)
(* nvstore_initmeta, nvstore_fetchnvfs) and milestone2/vds/vblock.c.       *)
(*                                                                         *)
(* The file is a row of blocks: an address, a number of pages, the pages.  *)
(* There is no directory: the next start reads it from the beginning until *)
(* something does not look like a block.  A cell is an address, a number   *)
(* of pages or a page; a page that holds v can be read as the address v.   *)
(*                                                                         *)
(* The faults and the dirty set are in NvStore, where the blocks are fixed.*)
(***************************************************************************)
EXTENDS Integers, SequencesExt

CONSTANTS
  Top,              \* the pages mmap chooses from are 1..Top; 0 is NULL
  Sizes,            \* numbers of pages the program asks for
  Values,           \* contents of a page, 0 among them
  Serial            \* TRUE: allocations and commits exclude each other

Addresses == 1 .. Top

ASSUME HeapFileAssumption ==
  /\ Top \in Nat /\ Sizes \subseteq Nat \ {0}
  /\ Values \subseteq Nat /\ 0 \in Values
  /\ Serial \in BOOLEAN

VARIABLES
  file,             \* the cells of the file
  pending,          \* written to the FILE and not in the file: <<offset, cell>>
  pos,              \* the position of the FILE
  filesize,         \* where the next block goes
  blocks,           \* the blocks of the store
  mem,              \* mem[p]: the page at p
  tmppage,          \* the page of the fault handler
  main,             \* the block being allocated, and how far its dump is
  worker,           \* the page the checkpoint worker dumps
  mode              \* "boot", "first" (run, of this file) or "run"

stream == <<file, pending, pos>>
heap == <<filesize, blocks, mem, tmppage>>
vars == <<stream, heap, main, worker, mode>>

(***************************************************************************)
(* Blocks                                                                  *)
(***************************************************************************)
Header == 2

PagesOf(b) == b.pgstart .. (b.pgstart + b.npages - 1)
nvfsize(b) == Header + b.npages
pgoffsetFirst(b, p) == b.offset + Header
pgoffset(b, p) == b.offset + Header + (p - b.pgstart)

Pages(bs) == UNION {PagesOf(bs[i]) : i \in DOMAIN bs}
Mapped == Pages(blocks)

NoBlock == [pgstart |-> 0, npages |-> 0, offset |-> 0]
Idle == [block |-> NoBlock, part |-> 0, sought |-> FALSE]
Asleep == [page |-> 0, step |-> "asleep"]

(***************************************************************************)
(* The FILE.  Seeking writes what is pending; the library may also write a *)
(* part of it at any time, in order; the position counts what is pending.  *)
(***************************************************************************)
Put(f, o, c) ==
  [i \in 1 .. (IF o < Len(f) THEN Len(f) ELSE o + 1) |->
     IF i = o + 1 THEN c ELSE IF i <= Len(f) THEN f[i] ELSE 0]

(* f after the writes w, in their order.                                   *)
Written(f, w) ==
  LET after[n \in 0 .. Len(w)] ==
        IF n = 0 THEN f ELSE Put(after[n - 1], w[n][1], w[n][2])
  IN after[Len(w)]

Drain == Written(file, pending)

fseek(o) == file' = Drain /\ pending' = <<>> /\ pos' = o

fwrite(cells) ==
  /\ pending' = pending \o [i \in DOMAIN cells |-> <<pos + i - 1, cells[i]>>]
  /\ pos' = pos + Len(cells)
  /\ UNCHANGED file

fflushNothing == UNCHANGED stream
fflush == file' = Drain /\ pending' = <<>> /\ UNCHANGED pos

Trickle ==
  /\ pending # <<>>
  /\ file' = Put(file, Head(pending)[1], Head(pending)[2])
  /\ pending' = Tail(pending)
  /\ UNCHANGED <<pos, heap, main, worker, mode>>

(***************************************************************************)
(* Allocation: map, dump to the end of the file, then account for it.      *)
(***************************************************************************)
Holes(n) ==
  {a \in Addresses : a + n - 1 <= Top /\ (a .. (a + n - 1)) \cap (Mapped \cup {tmppage}) = {}}

(* vblock_new with no address.  A fresh mapping is zero.                   *)
Map(n) ==
  \E a \in Holes(n) :
    /\ main' = [block |-> [pgstart |-> a, npages |-> n, offset |-> filesize],
                part |-> 1, sought |-> FALSE]
    /\ mem' = [p \in Addresses |-> IF p \in a .. (a + n - 1) THEN 0 ELSE mem[p]]

AllocPage(n) ==
  /\ mode = "run" /\ main = Idle
  /\ Serial => worker = Asleep
  /\ Map(n)
  /\ UNCHANGED <<stream, filesize, blocks, tmppage, worker, mode>>

(* The three writes of vblock_dumptofile: where, and what.                 *)
PartOffset(b, k) == b.offset + (k - 1)
PartCells(b, k) ==
  IF k = 1 THEN <<b.pgstart>>
  ELSE IF k = 2 THEN <<b.npages>>
  ELSE [i \in 1 .. b.npages |-> mem[b.pgstart + i - 1]]

DumpSeek ==
  /\ main.part \in 1..3 /\ ~main.sought
  /\ fseek(PartOffset(main.block, main.part))
  /\ main' = [main EXCEPT !.sought = TRUE]
  /\ UNCHANGED <<heap, worker, mode>>

DumpWrite ==
  /\ main.part \in 1..3 /\ main.sought
  /\ fwrite(PartCells(main.block, main.part))
  /\ main' = [main EXCEPT !.part = @ + 1, !.sought = FALSE]
  /\ UNCHANGED <<heap, worker, mode>>

AllocEndUncounted ==
  /\ main.part = 4
  /\ blocks' = Append(blocks, main.block)
  /\ main' = Idle
  /\ UNCHANGED <<stream, filesize, mem, tmppage, worker, mode>>

(* There is no fflush: the block may reach the file much later.            *)
AllocEnd ==
  /\ main.part = 4
  /\ filesize' = filesize + nvfsize(main.block)
  /\ blocks' = Append(blocks, main.block)
  /\ main' = Idle
  /\ UNCHANGED <<stream, mem, tmppage, worker, mode>>

(***************************************************************************)
(* The program stores in its pages and has them committed by the worker,   *)
(* which calls vblock_dumpbypage.  Before and after, nvmetadata_lock and   *)
(* nvmetadata_unlock seek, write the first word of the metadata's page and *)
(* flush; that word is in NvStore, and their seeks and flushes do to the   *)
(* FILE what those of the dump do.                                         *)
(***************************************************************************)
Store(p, v) ==
  /\ mode = "run" /\ p \in Mapped
  /\ worker.page # p
  /\ mem' = [mem EXCEPT ![p] = v]
  /\ UNCHANGED <<stream, filesize, blocks, tmppage, main, worker, mode>>

CommitSeek(p) ==
  /\ mode = "run" /\ worker = Asleep /\ p \in Mapped
  /\ Serial => main = Idle
  /\ \E i \in DOMAIN blocks : p \in PagesOf(blocks[i]) /\ fseek(pgoffset(blocks[i], p))
  /\ worker' = [page |-> p, step |-> "write"]
  /\ UNCHANGED <<heap, main, mode>>

CommitWrite ==
  /\ worker.step = "write"
  /\ fwrite(<<mem[worker.page]>>)
  /\ worker' = [worker EXCEPT !.step = "flush"]
  /\ UNCHANGED <<heap, main, mode>>

CommitFlush ==
  /\ worker.step = "flush"
  /\ fflush
  /\ worker' = Asleep
  /\ UNCHANGED <<heap, main, mode>>

(***************************************************************************)
(* The end of a process and the start of the next: nvstore_initmmap maps   *)
(* the page of the fault handler, anywhere, before the blocks are fetched. *)
(***************************************************************************)
Forget ==
  /\ pending' = <<>> /\ pos' = 0
  /\ filesize' = 0 /\ blocks' = <<>> /\ mem' = [p \in Addresses |-> 0]
  /\ tmppage' \in Addresses
  /\ main' = Idle /\ worker' = Asleep
  /\ mode' = "boot"

Kill == Forget /\ UNCHANGED file

(* nvstore_shutdown: fclose writes what is pending.                        *)
Shutdown ==
  /\ mode = "run" /\ main = Idle /\ worker = Asleep
  /\ Forget /\ file' = Drain

(* Is there a block at offset o?                                           *)
Complete(f, o) ==
  /\ o + Header <= Len(f)
  /\ f[o + 1] # 0 /\ f[o + 2] # 0
  /\ o + Header + f[o + 2] <= Len(f)

BlockAt(f, o) == [pgstart |-> f[o + 1], npages |-> f[o + 2], offset |-> o]

Placeable(b) ==
  PagesOf(b) \subseteq Addresses /\ PagesOf(b) \cap (Mapped \cup {tmppage}) = {}

Fetch ==
  /\ mode = "boot" /\ Complete(file, filesize)
  /\ LET b == BlockAt(file, filesize) IN
     /\ Placeable(b)
     /\ blocks' = Append(blocks, b)
     /\ filesize' = filesize + nvfsize(b)
     /\ mem' = [p \in Addresses |->
                  IF p \in PagesOf(b) THEN file[pgoffset(b, p) + 1] ELSE mem[p]]
  /\ UNCHANGED <<stream, tmppage, main, worker, mode>>

(* mmap gives another address than asked for, and the assertion stops the  *)
(* process.                                                                *)
FetchFails ==
  /\ mode = "boot" /\ Complete(file, filesize)
  /\ ~Placeable(BlockAt(file, filesize))
  /\ Kill

FetchEnd ==
  /\ mode = "boot" /\ ~Complete(file, filesize)
  /\ blocks # <<>>
  /\ mode' = "run"
  /\ UNCHANGED <<stream, heap, main, worker>>

(* No metadata in the file: its block is allocated.                        *)
FirstRun ==
  /\ mode = "boot" /\ ~Complete(file, filesize)
  /\ blocks = <<>>
  /\ Map(1)
  /\ mode' = "first"
  /\ UNCHANGED <<stream, filesize, blocks, tmppage, worker>>

FirstRunEnd ==
  /\ mode = "first" /\ main = Idle
  /\ fflush
  /\ mode' = "run"
  /\ UNCHANGED <<heap, main, worker>>

Init ==
  /\ file = <<>> /\ pending = <<>> /\ pos = 0
  /\ filesize = 0 /\ blocks = <<>> /\ mem = [p \in Addresses |-> 0]
  /\ tmppage \in Addresses
  /\ main = Idle /\ worker = Asleep /\ mode = "boot"

Next ==
  \/ \E n \in Sizes : AllocPage(n)
  \/ DumpSeek \/ DumpWrite \/ AllocEnd \/ Trickle
  \/ \E p \in Addresses, v \in Values : Store(p, v)
  \/ \E p \in Addresses : CommitSeek(p)
  \/ CommitWrite \/ CommitFlush
  \/ Kill \/ Shutdown
  \/ Fetch \/ FetchFails \/ FetchEnd \/ FirstRun \/ FirstRunEnd

Spec == Init /\ [][Next]_vars

(***************************************************************************)
(* Properties                                                              *)
(***************************************************************************)

(* The blocks a start would find in f: what the loop of nvstore_initmeta   *)
(* reads.                                                                  *)
Readable(f) ==
  LET from[o \in 0 .. Len(f)] ==
        IF Complete(f, o) THEN <<BlockAt(f, o)>> \o from[o + nvfsize(BlockAt(f, o))]
                          ELSE <<>>
  IN from[0]

BlockType == [pgstart : Addresses, npages : 1..Top, offset : Nat]

TypeOK ==
  /\ file \in Seq(Nat) /\ pending \in Seq(Nat \X Nat)
  /\ pos \in Nat /\ filesize \in Nat
  /\ blocks \in Seq(BlockType)
  /\ mem \in [Addresses -> Values] /\ tmppage \in Addresses
  /\ main \in [block : BlockType \cup {NoBlock}, part : 0..4, sought : BOOLEAN]
  /\ worker \in [page : Addresses \cup {0}, step : {"asleep", "write", "flush"}]
  /\ mode \in {"boot", "first", "run"}

(* The blocks of the store are those a start would find after the pending  *)
(* writes, in their order and places; without those writes it would miss   *)
(* the last one at most.                                                   *)
BlocksOnFile ==
  /\ TypeOK
  /\ mode = "run" /\ main = Idle =>
       /\ Readable(Drain) = blocks
       /\ IsPrefix(Readable(file), blocks) /\ Len(blocks) - Len(Readable(file)) <= 1

(* What is saved is found again.                                           *)
Saved(f) ==
  LET bs == Readable(f)
  IN [p \in Pages(bs) |->
        LET i == CHOOSE i \in DOMAIN bs : p \in PagesOf(bs[i])
        IN f[pgoffset(bs[i], p) + 1]]

OnFile == Saved(file)

(* When the worker is done with a page, the next start would find the page *)
(* as it is, at its address.                                               *)
CommitFound ==
  [][worker.step = "flush" /\ worker' = Asleep /\ mode' = "run" =>
       worker.page \in DOMAIN OnFile' /\ OnFile'[worker.page] = mem[worker.page]]_vars

(* The pages the program has.                                              *)
Present == [p \in IF mode = "run" THEN Mapped ELSE {} |-> mem[p]]

(* The next process has the pages of the file, no file loses a page, and a *)
(* page in the file changes by a commit of it.                             *)
H == INSTANCE PersistentHeap WITH
       mem <- Present, disk <- OnFile, running <- mode = "run"

ImplementsPersistentHeap == H!Spec
=============================================================================
