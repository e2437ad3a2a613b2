# A TLA+ model of the Checkpoint-Restore Framework

The repository is a C library for programs that survive being killed. It keeps a
heap in anonymous memory, copies chosen pages of it to one file, and on the next
start maps the file's pages back at their old addresses. On top of the heap it
offers threads whose stacks live in it, so that a thread can be saved and resumed
after a crash. `src/milestone2` is the current version and the one modelled;
`src/milestone1` is an earlier single-threaded one, `src/examples` are experiments.

This directory holds the TLA+ modules, the TLC configurations and the TLAPS proofs
about it. `PROJECT.json` lists every part of the system, every run, the source
lines behind every definition, the hazards and the theorems.

## The system

| part | state | operations | talks to |
|---|---|---|---|
| `nvmm/nvstore.c` | blocks and address table, dirty set, FILE `nvfs` and its size, `uffd`, `killfd`, queue `crinput`, pointer to the metadata page | init, allocpage, checkpoint_everything, submit, shutdown, metadata lock / unlock / checkpoint | userfaultfd, the file, vblock, both workers |
| fault worker (`nvstore_tf_uffdworker`) | | serves page faults: log the page dirty, give it a zero page | kernel, dirty set |
| checkpoint worker (`nvstore_tf_crworker`) | | serves the queue of commits: for each address that is dirty, dump its page | dirty set, vblock, file; faults itself |
| `nvmm/checkpoint.c` | list of page addresses, semaphore | new, add, commit (submit and sleep), post, delete | nvstore |
| `vds/vblock.c` | address, length and file offset of a block | new (mmap), dump to file, dump one page | file, memory |
| `vds/vtsdirtyset.c`, `vtslist.c`, `vtsaddrtable.c`, `vaddrlist.c` | locked hash set, locked list with a condition variable, hash map page -> block, growing array | insert, remove, copy, pop... | used by the store |
| `thread/crthread.c` | thread record, its stack and saved contexts, all in the heap; thread list in the metadata | new, fork, join, delete, checkpoint, restore, init and shutdown of the system | resurrector, thread table, store |
| `nvmm/resurrector.c` | queue of threads to checkpoint | joins the thread that exited, commits its record and stack, starts it again | crthread, checkpoint |
| `vds/vtsthreadtable.c` | hash table pthread id -> record | insert, find, remove | crthread |
| `thread/contextswitch_asm.S` | | save_context, load_context | crthread |
| `cr/crheap.c` | | init, shutdown, shutdown without saving | store, crthread |
| `cr/crmalloc.c` | boundary-tagged blocks in the store's pages, free list in the metadata | crmalloc, crfree, crrealloc | nvstore_allocpage |
| `util/list.c` | the links in the elements | insert, remove, push, pop, splice, reverse, sort... | vtslist, dirty set |
| `util/memcheck.c` | table of all allocated blocks, under a lock | mcmalloc, mccalloc, mcrealloc, mcfree, mcmmap, mcmunmap | everything |
| `util/unittest.c` | | test driver: runs, kills and restarts a test | |

Which module models what:

| modules | part |
|---|---|
| `NvStore`, `NvStoreInv`, `NvStoreRaces`, `NvStoreProofs`; abstract: `PersistentMemory` | store, both workers, commits, shutdown, crashes |
| `CrThread`, `CrThreadInv`, `CrThreadProofs`; abstract: `PersistentThreads` | threads, resurrector, thread table, boot |
| `CrMalloc`, `CrMallocInv`, `CrMallocProofs`; abstract: `Allocator` | allocator |
| `HeapFile`, `HeapFileInv`, `HeapFileProofs`; abstract: `PersistentHeap` | allocation of blocks, their file, the boot's reading of it |
| `AddrTable`, `AddrTableInv`, `AddrTableProofs` | address table |
| `List`, `ListShape`, `ListProofs` | `list.c`, as operators on the links, and lemmas about them |
| `VtsList`, `VtsListInv`, `VdsProofs` over `List`; abstract: `Deques` | locked lists with their condition variable |
| `DirtySet`, `DirtySetInv`, `VdsProofs` over `List`; abstract: `AddressSets` | dirty set and its copy |
| `CommitObjects`, `CommitObjectsInv`, `CommitObjectsProofs` over `MemCheck` | checkpoint objects, address lists, the leak checker, and the threads that share it |

An `MC` module instantiates the module of that name for TLC, an `Inv` module states its
inductive invariant and a `Proofs` module has the theorems about it. `VdsProofs` has those
of both data structures that are made of the lists of `list.c`.

What is hard here:

- **Order.** A page must be logged dirty before its writer goes on, and taken out
  of the dirty set before it is written; a commit must be answered only when all of
  it is in the file.
- **Dumping is not atomic.** `vblock_dumpbypage` copies a page aside, writes it,
  drops it so that the next store faults again, and puts the copy back, which
  faults and is served by the other worker. Any of these steps can be interleaved
  with another thread.
- **One FILE.** Its position is shared by everyone who writes; seek and write are
  two calls.
- **Crash anywhere**, also in the middle of a checkpoint and before the first one.
- **Shutdown** stops the fault worker first.
- **Discipline.** Much is left to the caller (`nvstore.h:30-41`): nothing else may
  run while the metadata is checkpointed. The models say which properties need the
  rule and which do not.

## The store: NvStore

`NvStore.tla` models the store from boot to crash with its three kinds of thread.
A step is one access to state that another thread can see.

| in the model | in the code |
|---|---|
| `mem`, `resident` | the anonymous pages and which of them are present |
| `dirty` | `self->dirty` |
| `nvfs`, `fpos` | the file and the position of its FILE |
| `fault`, `Wake` | a thread stopped by userfaultfd, and UFFDIO_COPY waking all who wait for the page |
| `uffdpc`, `filling`, `sawkill`, `killfd` | the fault worker: poll, read and log, copy |
| `crinput`, `serving`, `region`, `finished` | the queue, the commit in service, the addresses and semaphore of each checkpoint object |
| `pc`, `job`, `todo`, `cur`, `cpy` | where each thread is; what is left of its list; the page being dumped; `pgcpy` |
| `PageFault`, `UffdPoll/Read/Copy` | page faults and `nvstore_tf_uffdworker`, `nvstore_handle_pagefault` |
| `LockSet/Seek/Write`, `UnlockSet/...` | `nvmetadata_lock`, `nvmetadata_unlock` |
| `DumpCopy/Seek/Write/Drop/Back` | `vblock_dumpbypage` |
| `Commit`, `CommitReturns`, `CrPop/Next/Post` | `checkpoint_add`, `checkpoint_commit`, `nvstore_tf_crworker` |
| `MetaCheckpoint`, `MetaSubmit` | `nvmetadata_checkpoint` |
| `CheckpointEverything`, `EverythingNext` | `nvstore_checkpoint_everything` |
| `Shutdown` ... `Teardown` | `nvstore_shutdown` |
| `Init`, `Restart` | `nvstore_init` on a new file and on an old one |

A page's content is a writelock word (used on the metadata page) and one value.
A checkpoint object is identified with the thread that sleeps on it: the object
lives on that thread's stack or heap and the thread does nothing else meanwhile.
`Restart` is enabled in every state: it is the process being killed and started
again, or started after a shutdown. Memory is the file then, but for the metadata
page, where the boot writes `execstate` and makes `threadlock` anew
(`nvstore.c:430, 439`): its data is what the file has or another value.

Abstractions, and why they are sound:

- *fwrite and fflush are one step*: no other call on the FILE in between changes
  where the bytes go, because they are in its buffer with their offset, and a crash
  between them is a crash before the write.
- *A page is copied and written whole.* Tearing inside a page is not modelled.
- *Lists of addresses are sets.* A page listed twice is dumped twice (the
  copy-back logs it again) with the same result, since its owner sleeps.
- *Blocks exist before the model starts, one page each.* Allocation, blocks of
  several pages and their place in the file are in `HeapFile`.
- *A write that misses its offset* leaves the page it hits as `Junk`.

`Serial` says whether callers follow the rule of `nvstore.h:30-41` and
`crthread.h:62-64`. `Discipline` (in `NvStoreInv`) is what the theorems assume of
the program: the rule, pages of their own for every thread, the metadata page for
those who checkpoint it, and `nvstore_checkpoint_everything` used only when no
other thread is there. The code enforces none of it; the disagreements below say what
happens without it. So three properties of `nvstore_threads` speak of the case that
the rule leaves: `WritesLandInPlace` and `WritelockMarksWrites` of one writer at a
time, `ShutdownTerminates` of a queue that is empty when the shutdown begins.

### What the rule is for: NvStoreRaces

`vblock_dumpbypage` copies a page aside, drops it and puts the copy back, with no lock
against those who use the page. `NvStoreRaces.tla` takes the steps of `NvStore` and
says when a dump undoes something. Its copy is *current* (`CopyCurrent`) while the page
holds the same or, once dropped, nothing. `LossesAreRaces` says that a copy, current when
it is taken, is no longer so only after a race: a thread stored in the page (or a
writelock update did, on the metadata's page), or another dump of the page dropped it or
put it back. And what the program reads in a page changes only by a boot, by a store, or
by a dump whose copy is not current or that overlaps another one of that page. It
assumes no rule of the program: threads may share pages, and full checkpoints, which
work on an old copy of the dirty set, may meet the worker.

Raced dumps do lose stores: TLC finds a store undone by a commit in 13 states (a
commit of `main`, the worker's copy of the shared page, a store of `worker`, the write,
the drop and the copy-back). Whoever sees to it that nobody stores in a page
while it is dumped, and that it is not dumped twice at once, loses nothing.

### The abstract specification

`PersistentMemory.tla` is what the store promises: memory and a disk; a thread asks
for pages and is stopped until each is on disk as it was; no page reaches the disk
unasked; memory never changes by itself; after a crash memory is the disk.
`ImplementsPersistentMemory` is the refinement. The abstract memory of a page is
what the program would read (`View`): while a dump has dropped the page it is the
copy to be put back. The abstract request of a thread is its region while it waits.
The abstract specification is deliberately silent on atomicity of a whole commit:
the store does not give it (a crash between two pages leaves half a checkpoint).

### Runs

| run | asks | states |
|---|---|---|
| `nvstore_threads` | two threads with pages of their own, metadata checkpoint, shutdown, crashes: the safety properties, the refinement, and under fairness every commit and the shutdown end | 238,529 |
| `nvstore_races` | threads share a page and follow no rule, one of them makes full checkpoints: no page is filled twice, each commit is answered once, and only a raced dump loses anything | 2,237,958 |

Bounds: two users, the metadata page and one or two heap pages, one or two values.
Two users and the two workers are every kind of actor, with two of the kind that can
disturb each other; two heap pages give each user a page of its own and a commit of
`main` two pages, so that a checkpoint has a middle; two values tell an old content
from a new one. Nothing is unbounded: each user has at most one commit in flight, so
the queue holds at most one entry per user and the kill message.

Fairness: each worker is weakly fair (the scheduler runs a thread that can run), a
user is weakly fair only inside a call, and reading the fault message of a page is
strongly fair because the kernel hands messages out in order. Liveness is checked
with callers that follow the rule: with another thread calling
`nvstore_checkpoint_everything` for ever, each of its dumps drops the metadata page
again and the worker that needs it can be starved.

### Proofs

`NvStoreProofs.tla` proves, for every set of threads, pages and values:

| theorem | statement |
|---|---|
| `TypeCorrect` | `Spec => []TypeOK` |
| `FillsMissingPages` | `Spec => []FillsMissing` |
| `AnswersOnce` | `Spec => []AnsweredOnce` |
| `InvariantHolds` | `Discipline => (Spec => []IInv)` |
| `NothingForgotten` | ... `[]DirtyCovers` |
| `CommitsAreDurable` | ... `[]CommitDurable` |
| `WritesInPlace` | ... `[]WritesLandInPlace` |
| `WritelockMarks` | ... `[]WritelockMarksWrites` |
| `Implementation` | ... `ImplementsPersistentMemory` |
| `OnlyRacesLose` | `Spec => LossesAreRaces` |

They use `ConstantsAssumption`, which TLC evaluates in every run. The argument is
one inductive invariant, `IInv` in `NvStoreInv.tla`, in ten parts. `Types` and
`Queue` are inductive alone (each waiting thread is in the queue once, in service
or answered; this bounds the semaphore, which is why the type invariant needs them).
`Calls` ties a thread's position to its call and says which calls exclude each
other; from it follow that at most one thread writes the file at a time and that
the owner of a page being dumped sleeps. `Position`, `Faults` and `Dump` then give
that a write lands in place, that a missing page reads zero, and that the copy, the
page and the file agree at each stage of a dump. `Lists`, `Cover` and `Progress` say
what is done of a list: a page of a commit is still to do, on its way, or on file;
a page not dirty is on file. `Writelock` follows the word in memory and file.
`IInv` was model-checked in the instance of `nvstore_threads` before it was proved; no run
repeats it. `TypeCorrect`, `FillsMissingPages`, `AnswersOnce` and `OnlyRacesLose` need no
assumption on the program, and `nvstore_races` checks the last three with the rule dropped.
`OnlyRacesLose` follows the copy of a dump through every step of every thread (`CopyStep`);
a current copy that no other dump overlaps is put back exactly as it was (`ViewStep`).

## The threads: CrThread

`CrThread.tla` models `thread/crthread.c`, `nvmm/resurrector.c`,
`vds/vtsthreadtable.c`, the two calls of `contextswitch_asm.S` and the init and
shutdown of `cr/crheap.c`. It stands on the store: a commit puts each of its pages in the
file before it returns, and after a crash memory is the file. So memory is a value
here, the file another, and a commit copies page by page.

That a commit changes nothing the program reads is not taken from the store, whose
theorem needs threads with pages of their own (`Discipline`), and the records are not
that: the thread, the resurrector and the main thread all use them. Instead the dump of a
record's page has its steps here too. `OnlyRacesLose` says what else can come of
them: a raced dump loses a store and shows an empty page, an unraced one nothing.

| in the model | in the code |
|---|---|
| `node[t]`, `node[Meta]` | the list element and `firstrun` of a record; the ends of `meta->threadlist` |
| `ctx[t]` | `restorepoint`: the step of the task at which it was saved |
| `stk[t]` | the thread's stack: the step its frames are at |
| `exec` | `meta->execstate` |
| `dnode`, `dctx`, `dstk`, `dexec` | the same in the file |
| `pc[k]` | where pthread `k` is in `crthread_stub`, the task or `crthread_checkpoint` |
| `ptid`, `table`, `post` | `thread->ptid`; the id under which the record hangs in the thread table; `userjoin` |
| `rin`, `rpc`, `rthr`, `rtodo` | the resurrector: its queue, its position, the thread in hand, the pages its commit still has to write |
| `rpage`, `rcpy` | the page that the checkpoint worker dumps for it, and `pgcpy` when that is the head of the record |
| `mpc`, `cursor`, `mtodo` | the main thread: its call, the element of the boot's walk, the pages of a full checkpoint |
| `Insert`, `FirstRun`, `Resume`, `Leave`, `Post`, `Exit`, `CpExit` | `crthread_stub`, with exit points 1 and 2 |
| `Work`, `Save`, `Submit` | the task; `crthread_checkpoint` and `resurrector_checkpoint` |
| `ResPop`, `ResJoin`, `ResRemove`, `ResRestore` | `resurrector_taskfunc`, `__resurrector_checkpoint` |
| `ResCopy`, `ResDump`, `ResBack` | `vblock_dumpbypage` of one page of the commit: the copy; the write and the drop; the copy-back |
| `New`, `NewCheckpoint`, `Fork`, `Join`, `JoinReturns`, `Delete` | the public calls |
| `Shutdown`, `Complete`, `EverythingPersist`, `Down` | `crheap_shutdown`, `crheap_shutdown_nosave` |
| `BootRestore`, `BootNext`, `BootEnd`, `Restart` | `crthread_init_system` after `nvstore_init`; `BootNext` is its `list_next` |

A task is `Steps` steps long; after any step it may call `crthread_checkpoint`, and
it does so before the first and after the last, as `crthread_descend_and_run` makes
it. `Resume` loads a context: the thread goes on in the task, or leaves when the
context is the one saved at the end.

Abstractions:

- *A pthread id is a stack.* glibc keeps the descriptor of a pthread, whose address
  is its id, at the top of its stack. So each thread has two ids, one on its stack
  (`crthread_fork`) and one on its recovery stack (`crthread_restore`), and reusing a
  stack reuses the id. Which bucket of the table an id falls in is the constant
  `Bucket`, arbitrary in the proofs. A second `pthread_create` on a stack in use
  replaces the thread that runs there.
- *Record and stack are three pages*: the head of the record with the list element,
  the rest of it with the contexts and `userjoin`, the stack. A commit dumps them in
  this order, which is that of the two calls of `checkpoint_add` and of the addresses.
- *Only the main thread can meet a page that is out.* The thread itself has been
  joined by then and the resurrector waits (`CommitsAtRest`). Main stores in the head
  (links, in `crthread_new` and `crthread_delete`), so its copy (`rcpy`) may be old when it
  comes back; it reads the head at a boot and `userjoin` in a join. It uses nothing
  in the stack, which is therefore dumped in one step; that `ctx` and `stk` are
  zero for a moment is seen by nobody and is left out, but for `userjoin` (`Out`).
  The write of `inprogress` at the end of a join is left out, as nothing reads it.
- *A page holds one record.* crmalloc does not align what it gives, so the end of
  a record and the head or the stack of the next may share a page, and dumping one
  thread then takes another's page out while that one runs. The model does not have
  this; nor does it have the page of the metadata out of memory while
  `crthread_new` has it checkpointed. The effect is that of any raced dump (`NvStoreRaces`).
- *The list keeps both its pointers*, in memory and file, since a page of the list
  may reach the file without its neighbours.
- *The memory of a deleted record is not used again.* What crmalloc does with it is
  the allocator's business.
- *pthread_create succeeds*; the code does not look at its result.

`ForkOnce` says whether the program forks a thread once, as `crthread.h:86` asks.
`Anywhere` bounds the crashes: when it is FALSE a restart happens only while the file
is whole (`FileWhole`: no thread has half a commit in it, and some whole list of
threads is there, each with a context or not yet run). That is the bound under which
the library keeps its promises: it excludes what the run `crthread_torn` shows without
it, and a kill after `crthread_new` (see the disagreements below). `Discipline` in `CrThreadInv` is
`ForkOnce /\ ~Anywhere`.

### The abstract specification

`PersistentThreads.tla`: tasks that make progress, whose progress may be saved, that
finish only when all of it is saved, and that a crash takes back to what was saved.
A thread is active from its start until its semaphore is posted; its progress is the
step its stack is at; what is saved is the lesser of the step of the context and the
step of the stack in the file, so that a commit counts when its second half arrives.
`ImplementsPersistentThreads` is the refinement.

### Runs

| run | asks | states |
|---|---|---|
| `crthread_two` | two threads, every call, kills while the file is whole, pages of records out of memory: four safety properties, what can make the process abort, progress never goes back, the refinement; under fairness, and once kills end, a started or restored thread finishes, and boots and shutdowns end, or the process has aborted | 431,805 |
| `crthread_torn` | violation: a kill inside a commit leaves a context and a stack of different checkpoints, and the boot loads it | |
| `crthread_delete` | violation: a joined thread still runs on the stack that `crthread_delete` frees | |

Bounds: two threads, so that the resurrector has a queue, the list has a middle and
ids can collide in the table (`BucketPerStack`); tasks of two steps, so that there is
a checkpoint inside the task, one before it and one after it. The number of kills is not bounded, nor is that of checkpoints: a thread may save
after each step and is restored from the same state again and again.

Fairness: every pthread and the resurrector are weakly fair (they are scheduled), the
main thread is weakly fair inside a call of the framework and free otherwise.
Liveness assumes that kills end (`CrashesEnd`).

### What aborts

`AbortsOnlyWhileOut` leaves two cases, and TLC finds both with the bounds of
`crthread_two`, when `up` is stated as an invariant:

- *The boot* (20 states): a thread is created and the heap shut down and saved; at the
  next start `BootRestore` creates its pthread, which runs at once, makes its first
  checkpoint and exits; the resurrector joins it and commits the record; the worker
  copies its head aside, writes and drops it (`vblock.c:103`); now main comes to
  `list_next` (`crthread.c:144`), reads zeros and the assertion of `list.c:79` fails.
- *A join* (17 states): a thread is created and forked; while the worker has the page of
  its contexts out, `crthread_join` reads `userjoin` (`crthread.c:239`), which is null.

With the same steps a link can be lost (21 states), without an abort: `crthread_new` stores
the link to a second record in the head of the first (`crthread.c:201`) after the worker
has copied that page; `ResBack` puts the old link back. The list then leads past the new
record in one direction, and a boot from that file does not restore it. A full
checkpoint of such a list does not make the file whole, and the model does not restart
from it (`FileWhole`).

### Proofs

`CrThreadProofs.tla` proves, for every set of threads, every `Steps` and every hash:

| theorem | statement |
|---|---|
| `InvariantHolds` | `Discipline => (Spec => []IInv)` |
| `TypeCorrect` | ... `[]TypeOK` |
| `OnePthread` | ... `[]OneIncarnation` |
| `LookupsFind` | ... `[]AssertsHold` |
| `CommitsResting` | ... `[]CommitsAtRest` |
| `AbortsExplained` | ... `[]AbortsOnlyWhileOut` |
| `JoinsDurable` | ... `[]JoinedDurable` |
| `ProgressIsKept` | ... `ProgressKept` |
| `Implementation` | ... `ImplementsPersistentThreads` |

They rest on `CrThreadAssumption`, which TLC evaluates in every run. `IInv` has
these parts. `Owners`: the one pthread of a thread is the one its record names.
`Queue`: a thread is in the queue once, on its way out, and when it has been joined
nothing of it runs; from these two follows that the stack being committed is at rest.
`InTable`: from insertion to removal the table holds a record under the id its
pthread has now, so that a lookup finds that record and no other, whatever the hash.
`Positions`, `Commit` and `Files` tie the context, the stack and their images in the
file: a thread about to resume has the four in step; the file is behind memory by
whole commits, except for the thread being committed. `Ends`: a post comes after the
last commit, once. `Untouched` and `Linked` cover threads not started here. `Boot`
says the boot walks a whole list of restorable threads and meets none twice; it is
where `FileWhole` is used. `Stopping`: a shutdown begins when every thread is joined.
`AbortsOnlyWhileOut` and `JoinedDurable` follow from it. `JoinedDurable`, like `IInv`, was
model-checked in the instance of `crthread_two` and is proved, so no run repeats it.
The type invariant needs all of it, since the bound of a semaphore is `Ends`. The
refinement needs `InStep` of a thread that resumes (a restored thread has exactly
the saved progress) and `Files` for the halves of a commit.

## The allocator: CrMalloc

`CrMalloc.tla` models `cr/crmalloc.c`: `crmalloc`, `crfree` and `crrealloc` over the
runs of pages that `nvstore_allocpage` maps. The addresses are numbers, and a block
is named by its address, as in the code.

| in the model | in the code |
|---|---|
| `heap.head[b]` | the header of the block at `b`: `mem_lo`, `mem_hi` and the left tag |
| `heap.foot[a]` | the right tag at address `a` |
| `heap.free` | `mm.free` |
| `runs` | what `nvstore_allocpage` gave out |
| `user` | the payloads the program holds, with the size it asked for |
| `up` | FALSE after a SIGSEGV or a failed assertion |
| `Malloc`: `Reuse`, `MakeBlock` | `crmalloc`: `find_reusable_block`, `make_block`, both with `split_block` |
| `Free` | `crfree` with `coalesce` |
| `Shrink`, `GrowInPlace`, `GrowMoves` | `crrealloc`: line 274, line 283 and line 303 |
| `GrowFails`, `Fault` | the reads through a null neighbour (lines 282, 285) and behind the last block of a run (line 176) |

Abstractions:

- *A header or tag that was absorbed leaves the maps.* Its bytes are payload then and
  hold what the program writes. A read of a tag that is not there is a read of junk;
  `NeighboursFound` says it happens only past the end of a run.
- *One thread at a time is in the allocator*, which has no lock.
- *mmap gives any hole*, so runs lie next to each other or apart, in any order.
- *Content is not modelled*; that a move copies from a block that is still apart from
  the new one is part of `Allocator`.
- `crrealloc` of NULL is `crmalloc`, of size 0 `crfree`; `crmalloc(0)` and
  `crfree(NULL)` do nothing.

What a block finds behind the end of its run (`mem_hi` is the end, and line 76
compares with `>`) is the first block of the next run if that follows directly: then
both may become one block over the border, which the invariants allow and `Tiled`
covers. If no run follows, `Free` goes on when the memory there looks in use and
`Fault` is the other outcome.

`Growing` bounds `crrealloc`: when it is FALSE a block grows in place only between
two neighbours of equal size, the one case in which line 282, that reads the size of
the wrong neighbour, computes the right one. Everything else is unbounded but for
the address space.

`Allocator.tla` is the abstract specification: the allocations held share no address,
and one stays where it is until freed or resized. `ImplementsAllocator` is the
refinement; `live` is `user`.

| run | asks | states |
|---|---|---|
| `crmalloc_pages` | every sequence of calls: the runs are tiled by blocks, the two tags agree, neighbours are found from the tags, the free list and the blocks in use are exact, the refinement | 212,852 |
| `crmalloc_grow` | violation: with unequal neighbours a block grows by the wrong size and its tags disagree | |

Bounds: a page of 8 and three of them, headers and tags of 1, requests of 1 (many
blocks in a page, with a remainder) and 7 (a run of two pages, since with header and
tag it does not fit in one). So there are one to three runs, adjacent and apart, a
block with both neighbours free, free lists of several blocks, and blocks over the
border of two runs. A larger header changes no comparison, only the sizes at which a
remainder is left over; the sizes chosen are on both sides of that. Deadlock is not
checked: the process may abort.

Not a property, since nothing promises it: two free blocks side by side do occur,
after `Shrink` and after blocks of different runs were joined, because
`split_block` does not look to the right of the remainder.

### Proofs

`CrMallocProofs.tla` proves, for every size of header, tag, page and address space and
every set of request sizes:

| theorem | statement |
|---|---|
| `InvHolds` | `~Growing => (Spec => []Inv)` |
| `TiledHolds` | ... `[]Tiled` |
| `TagsAgreeHolds` | ... `[]TagsAgree` |
| `NeighboursFoundHolds` | ... `[]NeighboursFound` |
| `FreeListExactHolds` | ... `[]FreeListExact` |
| `AllocatorImplemented` | ... `ImplementsAllocator` |

They use `CrMallocAssumption`, which TLC evaluates. `~Growing` is what `crmalloc_pages`
checks too: without it, `crmalloc_grow` shows how the tags come to
disagree, so no theorem can do without it.

The properties are not inductive, since `coalesce` and `split_block` read tags and go
where these lead. `Inv` (`CrMallocInv.tla`) adds what a walk needs. `Shape` says that
blocks are disjoint, that the feet are those of the blocks and no others, that a block
is the first of its run or follows a block (`LeftLinked`), that a block ends at a block
or at the end of a run (`RightLinked`), and that blocks cover the runs and nothing else.
`Exact` says which blocks are in use, and that the free list has the others once each,
but for a set `X`: between the steps of one call a block may be neither. `Holding` is
`Exact` with the blocks of the program, which have room for what it asked. Every part
speaks of an arbitrary heap, so that the heaps inside a call can be spoken of. There is
one lemma for each thing a call does to a heap (`MarkExact`, `CutExact`, `JoinExact`,
`UnlinkExact`, `AppendExact`, `RunExact`), one for each function made of them
(`SplitExact`, `FreedExact`, `ReuseExact`, `MakeBlockExact`), and one for each action.
The growth in place is shown to be the join of the two blocks when the neighbours are
equal (`GrownIsJoined`); this is where `~Growing` is used.

## The file: HeapFile

`HeapFile.tla` models how blocks come into the file and are found again: allocation
and boot in `nvmm/nvstore.c`, `vds/vblock.c`. The file has no directory. It is a row
of blocks, each an address, a number of pages and the pages, and a start reads it
from the beginning until something does not look like a block.

| in the model | in the code |
|---|---|
| `file` | the file, as a sequence of cells |
| `pending`, `pos` | the buffer and the position of the FILE |
| `filesize`, `blocks`, `mem` | the members of `struct nvstore`; the pages |
| `tmppage` | the page of the fault handler, mapped before the blocks are fetched |
| `main` | the block being allocated, and which of the three writes of its dump is next |
| `worker` | the page the checkpoint worker dumps |
| `AllocPage`, `DumpSeek`, `DumpWrite`, `AllocEnd` | `__nvstore_allocpage` with `vblock_new` and `vblock_dumptofile` |
| `Store`, `CommitSeek`, `CommitWrite`, `CommitFlush` | the program; `vblock_dumpbypage` in the worker |
| `Fetch`, `FetchFails`, `FetchEnd` | `nvstore_fetchnvfs` under the loop of `nvstore_initmeta` |
| `FirstRun`, `FirstRunEnd` | the branch of `nvstore_initmeta` for an empty file |
| `Kill`, `Shutdown` | a kill at any step; `nvstore_shutdown` with its `fclose` |

Abstractions:

- *A cell is an address, a number of pages, or a page.* The first two are eight bytes
  in the code and a page 4096; what counts is which one follows which. A page that
  holds the value `v` can be read as the address `v`, as any bytes can.
- *The FILE keeps what is written until a seek, a flush or a close*, and `Trickle`
  lets it write any first part of that at any time: a large `fwrite` goes past the
  buffer, and glibc may write a full one.
- *mmap gives any hole*, other than page 0.
- *The dump in the worker is the three calls that touch the FILE.* The dirty set, the
  drop of the page and the copy-back are in `NvStore`.
- *The writelock word is left out.* `nvmetadata_lock` and `nvmetadata_unlock` around
  each commit (`nvstore.c:289, 300`) and around the metadata checkpoint of a first run
  (`nvstore.c:420`) use the same FILE: they seek, write one word at the start of the
  metadata's page and flush. As seeks and flushes they only bring what is pending to
  the file a moment before the seek of the dump would. As a write they change
  that word in the file without a commit of its page: "a page in the file changes only
  by a commit of it" is about the rest of the page. The word itself, its order and
  what a crash leaves of it are in `NvStore` (`LockSet` to `UnlockWrite`).

`Serial` says whether a commit and an allocation exclude each other. Nothing in the
code makes them; what is lost without is under the disagreements.

`PersistentHeap.tla` is the abstract specification: pages are saved on request and
found again by the next process as they were saved; the file never loses a page it
has; new pages come to it all at once, zero, some time after they were asked for or,
when the process dies, never. `ImplementsPersistentHeap` is the refinement. Its
`disk` is what a start would find, so it says that a half-written block at the end is
not taken for a block, and that the blocks later written over it are.

| run | asks | states |
|---|---|---|
| `heapfile_boot` | allocations, commits, kills in the middle of a dump, boots: the store and the file agree on the blocks, a commit is found again, the refinement | 69,752 |

Bounds: four pages of address space, blocks of one or two pages, two values. A file
then has up to three blocks beside the page of the fault handler, and the end left by a kill can be longer,
shorter or as long as the block that is written over it. Everything else is
unbounded. A start whose block is already taken, by the page of the fault handler,
stops with the assertion of `vblock.c:34` and another start follows.

### Proofs of HeapFile

`HeapFileProofs.tla` proves, for every size of memory, every set of block sizes and of
contents, and every history of kills:

| theorem | statement |
|---|---|
| `ReadableHas` | `Has(f, bs) => Readable(f) = bs` |
| `InvHolds` | `Serial => (Spec => []Inv)` |
| `BlocksOnFileHolds` | `Serial => (Spec => []BlocksOnFile)` |
| `CommitFoundHolds` | `Serial => (Spec => CommitFound)` |
| `PersistentHeapImplemented` | `Serial => (Spec => ImplementsPersistentHeap)` |

They use `HeapFileAssumption`, which TLC evaluates. `Serial` is a hypothesis because
the claims are false without it: with `Serial = FALSE` TLC finds `BlocksOnFile`
violated. The code does nothing to make it true; it holds of a program that does not
allocate between its `checkpoint_commit` and the end of the worker's dump.

`Inv` (`HeapFileInv.tla`) is about what the file and the pending writes hold together.
`Has(f, bs)`: the blocks `bs` lie one behind the other in `f`, apart in memory, and what
follows them is not a whole block. What follows may be the start of a block whose
dump was cut: an address, a number of pages, zeros. The zeros matter (`Blank`). The next
process allocates at that same offset, and the moment its address or its number of
pages comes to the file, the cells that the dead process left behind become the pages
of its block; they are right because a new block is zero too. Were a block dumped with other
contents, a kill could make a start find pages that nobody saved.

The parts of a dump are one predicate each: nothing of the new block yet (`Settled`),
its address there or pending (`Addressed`), the number of pages (`Sized`), and the pages,
which may be pending in any number when the block is already in the store (`Settled` of
the longer row, by `RestOf`). A seek, a flush or a `Trickle` moves a file from a predicate to
itself or to the same with less pending; each has a lemma (`SettledStep`, `SettledWritten`,
`AddressedMoves`, `SizedMoves`, `PagedMoves`) that says also how what a start would find
changes: it grows by blocks that are zero (`Grows`) or one page is saved (`Saves`). The
refinement puts these together: each action but a store, the end of an allocation, a kill
and the end of a boot is one of the two, with the program's pages as they were.

`Readable` and `Written` are recursive functions. That they are defined on their whole
domain, and what they return, is proved by induction written out over sets of numbers
(`Least`, `Induction`), for the induction theorems of the library cannot be used here.
TLC checked `Inv` on the instance of `heapfile_boot` and on one with five pages of memory
and blocks of one and three pages (1.5 million states) before it was proved.

## The address table: AddrTable

`AddrTable.tla` models `vds/vtsaddrtable.c`, the hash map from page to block that the
fault worker and the checkpoint worker look into while allocations insert. It has
open addressing with triangular probing. Growing goes through the old array and
inserts each block it meets, all its pages, with the function that is growing, which
counts every insertion and so may grow the array again inside.

| in the model | in the code |
|---|---|
| `cap`, `nelem` | `cap`, `nelem`: the latter counts insertions |
| `arrays[c]` | the array of length `c`, until it is freed |
| `stack` | the calls of `__vtsaddrtable_insert` and `__vtsaddrtable_expand` of the thread inside |
| `finder[f]` | the entry that a thread in `vtsaddrtable_find` has found |
| `Insert`, `Expand`, `PutPage`, `InsertReturn` | `vtsaddrtable_insert`, `__vtsaddrtable_insert` |
| `Rehash`, `ExpandReturn` | the loop of `__vtsaddrtable_expand` and its `mcfree` |
| `Find`, `ReadEntry` | `vtsaddrtable_find`: the lookup, and the read of the entry after the unlock |

A thread holds the lock while `stack` is not empty, and no reader gets in. Addresses
are page numbers, for which `addr >> 12` stands, and the hash is the identity, as in
the code.

| run | asks | states |
|---|---|---|
| `addrtable_grow` | each page is found under its block and nothing else is there, the array never fills up and every probe ends at a slot, no array that is read is freed, an insertion ends | 6,184 |

Bounds: a first array of four entries where the store's has 2^14
(`NVADDRTABLE_INIT_POWER`), and four blocks of
seven pages, most of which fall into one slot. So the array grows several times, also inside
the rehash, and probes are long. One reader is enough, since readers change nothing.
Deadlock is not checked: when all blocks are in and nobody looks, the model stops.
Fairness: the thread that holds the lock runs.

### Proofs

`AddrTableProofs.tla` proves, for every finite set of disjoint blocks, any number of
readers and a first array of `2^Power` entries, `Power > 1`:

| theorem | statement |
|---|---|
| `InvHolds` | `Spec => []Inv` |
| `FoundHolds` | `Spec => []Found` |
| `LengthHolds` | `Spec => []PowerOfTwo`: the length of the array stays a power of two |
| `ProbesReach` | probing reaches every slot of an array of such a length |
| `RoomLeftHolds` | `Spec => []RoomLeft` |
| `RehashSafeHolds` | `Spec => []RehashSafe` |

They use `AddrTableAssumption`, which TLC evaluates. `Inv` (`AddrTableInv.tla`) says of
every state, also in the middle of growing: each array has pages of stored blocks only
(`Sound`); the probe for a page that is in the present array ends at it (`Probed`);
the arrays that calls go through are allocated, each shorter than the next (`Frames`);
each page of a stored block is in the present array or some call on the stack will put
it there, because it inserts the block and has not come to that page, or goes through an
old array and has not come to that entry (`Complete`). A slot that is written was empty
or held the same page, so no probe is cut. When an array is replaced, what was placed
becomes what the new call brings.

`Counts` is why the array never fills up. Only the outermost call looks at the load
before each page; the one that inserts while growing does so once per page and then
puts it, whatever happened in between. Each call deeper has doubled the array, which
makes more room than the calls above it will use. `nelem` counts insertions again, so
it only ever overstates what is there.

A free slot would be of no use to a probe that misses it: `__vtsaddrtable_find` then
returns NULL, which `__vtsaddrtable_insert` writes to. So `RoomLeft` also says that the
probes for a page end at a slot, and `ProbesReach` is why. If the `j`-th and the `k`-th
probe met, `j < k < 2^n`, then `2^(n+1)` would divide `(k - j)(k + j + 1)`. One of these
factors is odd, so it would divide the other (`OddFactor`, by induction on `n`), but both
are smaller (`ProbesDiffer`). Different probes to as many slots as there are reach each.
This holds because the length stays a power of two (`LengthHolds`); `2^(n+1) = 2 * 2^n`
is proved by counting subsets (`Doubling`), as the provers know nothing of powers.

`InsertReturns` is liveness and left to TLC.

## The lists: List, VtsList

`List.tla` models `util/list.c`. The links lie in the elements, so a
memory `m` is a function from elements to their two links, and a list is the two
elements it owns, its head and its tail. A function that changes links is an operator
from memory to memory under its own name. `Elements` and `ElementsBack` are the two
loops over a list, both uses of `Loop`. The functions that take an order (`list_sort` and
its like) are left out: no file of the library calls them.

`VtsList.tla` models `vds/vtslist.c`, the list under a mutex with a condition variable.

| in the model | in the code |
|---|---|
| `links` | the links of all elements and lists |
| `owner` | `tselem->owner`, written before the lock is taken and cleared after its release |
| `call`, `asleep`, `woken` | the operation a thread is in; threads in `pthread_cond_wait`; threads that left it and want the mutex |
| `clearing` | the element whose `owner` is still to be cleared |
| `holder` | which thread works with an element, by the program's rules |
| `PushBegins`, `PushLocked` | `vtslist_push_back`, `vtslist_push_front`: line 25, and the rest under the lock |
| `PopBegins`, `PopTakes`, `PopSleeps`, `PopFails`, `WakesUp` | the four pops; the wait may also end unasked, as POSIX allows |
| `RemoveBegins`, `RemoveLocked`, `RemoveClears` | `vtslist_remove`: the call, lines 123-125, line 127 |

The program uses a list as a queue (`crinput`, the resurrector's) or as a bucket of
`vtsthreadtable`, from which an element is removed by whoever found it. The model
allows pops on queues only and removals from buckets only: a removal that races with
a pop of the same element reads `owner` of an element that another thread has taken,
and nothing in the repository does that. `Begins` also makes a thread finish clearing
`owner` before its next call, since the clearing is part of the removal.

`Deques.tla` is the abstract specification, shared deques whose operations take effect
at once between their call and their return. `ImplementsDeques` is the refinement:
`Contents` reads the deques from the links, `Held` says what each thread has.

## The dirty set: DirtySet

`DirtySet.tla` models `vds/vtsdirtyset.c`. An entry has two list elements, one on the
list of its bucket and one on the list over which the set is iterated.

| in the model | in the code |
|---|---|
| `setlinks`, `ptr` | the links of every entry and list; the address in each entry, `Null` in free memory |
| `Base`, `Clone`, `live` | `self->dirty` of the store, the copy that `nvstore_checkpoint_everything` makes, and which of them exist |
| `got` | what the last operation returned |
| `find`, `insert`, `remove`, `remove_any` | the functions called under the lock |
| `vtsdirtyset_insert`, `_remove` | the fault worker, the checkpoint worker |
| `vtsdirtyset_copy`, `_remove_any`, `_delete` | `nvstore_checkpoint_everything` |

Every operation holds the lock of its set throughout and nothing outside the lock is
read or written, so each is one step. `AddressSets.tla` is the abstract specification:
a set, and a copy of it as it was at one moment, that changes on its own.

## Memory: MemCheck, CommitObjects

`MemCheck.tla` models `util/memcheck.c`, the table of every block that is allocated.
`mcmalloc`, `mccalloc`, `mcmmap` and `mcrealloc` call the C library before they take
the lock, so each is two steps; `mcfree` and `mcmunmap` hold it throughout. `data` and
`nelem` are the table, `given` is what the C library has given out, `aborted` the
assertion of `mcfree`. The C library gives the lowest free block, so an address is
reused as soon as it can be.

`CommitObjects.tla` composes it with its busiest users: `nvmm/checkpoint.c` and
`vds/vaddrlist.c`, the fault worker that allocates an entry of the dirty set, the
checkpoint worker that frees it, and the shutdown.

| in the model | in the code |
|---|---|
| `ckpt[u]` | the checkpoint object of `u`: the blocks of the struct, the list and the array, `cap` and `addrs` |
| `flight[u]`, `todo[u]` | the block given and not yet registered; `page_iter` and `addr_high` |
| `crinput`, `serving`, `at`, `finished` | the queue, the object in service, the address next, the semaphore |
| `entry`, `logging`, `logblock` | the block of each dirty page's entry; the page being logged and its block |
| `NewBegins/Gives/Registers` | `checkpoint_new`, three allocations |
| `AddBegins`, `AddPage`, `GrowMoves`, `GrowRegisters`, `AddEnds` | `checkpoint_add`, `vaddrlist_insert_pages_of`, `vaddrlist_insert` |
| `Commit`, `CommitReturns`, `DeleteArr/List/Obj` | `checkpoint_commit`, `checkpoint_delete` |
| `Shutdown`, `SubmitKill`, `Joins`, `Sweeps`, `Down` | `nvstore_shutdown` |
| `CrPop/Next/Post`, `LogGives`, `LogRegisters`, `UffdExits` | the two workers |

`added` and `struck` are history: the regions a thread added, and the blocks whose node
a late `mcrealloc` deleted. The latter is a race that the code has. `mcrealloc` of a
block that moves frees the old address before it takes the lock; another thread may be
given that address and register it, and the deletion of the old node then strikes out
the new one (`memcheck.c:200-206`). `mcfree` of that block aborts (`memcheck.c:226-230`).
`MemCheckExact` says that nothing else ever goes wrong with the table: a block that is
held is in it or was struck out, and only a struck block makes `mcfree` abort.
`mc_table_insert` deletes an old node of its address first, and the mutant without that
shows that it must.

### Runs

| run | asks | states |
|---|---|---|
| `vtslist` | three threads, three elements, one queue, one bucket: both directions of every list agree, `owner` names the list an element is in, no wakeup is lost, the refinement | 1,279,631 |
| `dirtyset` | three addresses, two of which collide: each entry is on both its lists or free, the refinement | 36,530 |
| `commit_objects` | two threads, each with an object, a page that faults, the shutdown: the table is exact, the worker reads live objects only, a list covers what was added | 1,653,622 |

Bounds. Three threads are a sleeper, another that may take its element, and one that
pushes; three elements give a list a middle. Threads, and elements, are alike
(`Alike`), which is sound since only safety is checked. In `dirtyset` six entries are
enough for a set and a full copy. In `commit_objects` the array starts with one entry,
so that the region of two pages makes it grow in the middle; a page has two bytes, so
that a region begins inside one; ten blocks are what both objects, the entry and an
array on the move need. `MaxLen`, `Rounds` and `Touched` bound the additions, the
objects per thread and the pages written to. Deadlock is checked: `Ended` is the end
of the process, and nothing else stops. In `vtslist` a sleeper can always wake unasked,
so that deadlock says nothing there and `NoLostWakeup` takes its place.

### Proofs of List and VtsList

`ListProofs.tla` proves what the functions of `list.c` do to lists of any length.
`Chain(m, l, s)` (`ListShape.tla`) says that in the memory `m` the list `l` has the
elements `s`: each cell leads to the next one and back, and no cell comes twice.

| lemmas | what they say |
|---|---|
| `Least`, `Induction` | a set of numbers with 0 and the successors of its members is `Nat` |
| `Iteration`, `FollowsExists`, `Followed`, `LoopReads` | the recursive function in `Loop` exists, and from the first element of a row of distinct ones it reads that row |
| `ChainReads` | if `Chain(m, l, s)`, then `Elements` is `s` and `ElementsBack` its reverse |
| `InsertChain`, `RemoveChain` | `list_insert` and `list_remove` put an element into the chain and take it out, at any place |
| `PushBack`, `PushFront`, `Removes`, `PopFront`, `PopBack`, `EmptyList` | the same for the functions built on them |
| `SameChain` | a list whose cells nobody wrote is as it was |
| `ReverseChain` | `list_reverse` turns a list round |
| `CutChain`, `PasteChain` | the two halves of `list_splice`: a range is cut out of a list, and put into one |
| `SpliceChain`, `SpliceWithin` | `list_splice` from one list to another, and within one list |
| `LinkedParts`, `LinkedPush`, `LinkedTake` | many lists in one memory (`Linked`, `ListShape.tla`): a push or a removal changes one of them and leaves the others alone |

`VdsProofs.tla` has the theorems on `VtsList`, for any threads, elements, queues and buckets:

| theorem | statement |
|---|---|
| `InvHolds` | `Spec => []Inv` |
| `ListsSoundHolds` | `Spec => []ListsSound` |
| `NoLostWakeupHolds` | `Spec => []NoLostWakeup` |
| `DequesImplemented` | `Spec => ImplementsDeques` |

They use `ConstantsAssumption`: finitely many threads, elements and lists, no list is a
queue and a bucket, no element is the head or tail of a list, and the names for nothing
(`Null`, `Nobody`, `NoCall`) are not names of something. `Inv` (`VtsListInv.tla`) was
model-checked in the instance of `vtslist` first. Its parts:

- `LinkedIn`: the links make up every list, and no element lies in two.
- `Owners`: `owner` of an element in a list names that list, and an element lies in a
  list exactly while nobody has it or while its remove waits for the mutex.
- `Calls`: what a thread pushes or removes is in its hands, what it removes lies in a
  bucket, it pops from queues, and only pops that wait are asleep or woken.
- `NoLostWakeup`, which needs the others: a push lengthens a list by one and wakes one
  sleeper if there is one; a thread that takes an element was woken at most once.

That nobody pops from a bucket is what `RemoveLocked` rests on: the element it has found
is still there when it gets the mutex. The refinement follows from `Inv` step by step: a
call begins as `Call`; `PushLocked`, `PopTakes`, `PopFails` and `RemoveLocked` are
`Pushed`, `Popped` and `Removed`; sleeping, waking and clearing `owner` are stutters.

### Proofs of DirtySet

The second part of `VdsProofs.tla` proves, for any finite set of addresses, any hash and
any number of buckets:

| theorem | statement |
|---|---|
| `DirtyInvHolds` | `SetSpec => []DirtyInv` |
| `EntriesAccountedHolds` | `SetSpec => []EntriesAccounted` |
| `AddressSetsImplemented` | `SetSpec => ImplementsAddressSets` |

They use `DirtySetAssumption`, which TLC evaluates: finitely many addresses and entries,
two entries for each address (one for each set; memory does not run out in the code
either), `Null` is not the name of anything, and no bucket is the list of a set.
`DirtyInv` (`DirtySetInv.tla`) was model-checked in the instance of `dirtyset` first. It is
stated of links, entries and sets (`Sound(m, p, L)`) and not of the state, because a step
such as a copy goes through as many intermediate memories as the set has elements. Its
parts:

- the links make up the lists of the sets that exist, and no node lies in two (`Linked`);
- the list of a set has the nodes of its entries, each bucket those of the entries whose
  address hashes to it, and no address is entered twice (`Filed`);
- an entry is in use exactly while it is in some set.

`EntriesAccounted` alone would not be preserved: that `find` meets an entry when the address
is in the set needs that the entry is in the bucket of its own hash, and that `remove`
leaves no second entry behind needs that none was entered twice. An insertion finds a
free entry because each set has at most one for each address (`Room`, by counting). The
two removals of `remove` may come in either order (`BothRemoved`). The copy is an
induction along the list of the base (`CopyComes`): after `i` steps the copy is sound and
has the first `i` addresses. In the refinement each call is the step of `AddressSets` that
has its name, since `KeysOf` is the abstract set.

### Proofs of CommitObjects

`CommitObjectsProofs.tla` proves, for every set of threads, blocks, pages, regions and
page sizes, and for every hash:

| theorem | statement |
|---|---|
| `InvHolds` | `Spec => []Inv` |
| `MemCheckExactHolds` | `Spec => []MemCheckExact` |
| `WorkerReadsLiveHolds` | `Spec => []WorkerReadsLive` |
| `CoversRegionsHolds` | `Spec => []CoversRegions` |

They use `BlocksAssumption`, `ConstantsAssumption` and `MemoryAssumption` (the store has
whole pages, and regions lie in it), which TLC evaluates. `Inv` (`CommitObjectsInv.tla`)
was model-checked in the instance of `commit_objects` first. Its parts:

- `Flow`: where `main` and the workers may be once the shutdown has begun. The workers
  end one after the other, before anything they use is given back.
- `Sending`: a commit is in the queue once, or in service, or answered, and its thread
  waits; the kill message is last.
- `Listing`: the entries of a list and the pages that the call in progress has still to
  add are the pages of the regions added so far.
- `Shapes`: which of its three blocks an object has at each step.
- `Exclusive`: each address that is kept somewhere (in an object, an entry, the hands of
  a thread between a call of the C library and the table) is kept in one place, and is
  given. The old array of a `mcrealloc` that has moved it is nobody's, and so may be
  given to another thread: the race described above starts there.
- `Exact`: the chains of the table have no block twice, `nelem` counts them, every block
  held is in the table or was struck out, and the table has no other block than those
  and old arrays on the move.

`MemCheckExact` is the last part. It is preserved only because of `Exclusive`: a node
is deleted by the one owner of its block, except by a late `mcrealloc`, and that is what
`struck` records. `mc_table_del` and `mc_table_insert` have lemmas of their own
(`DelGood`, `InsertGood`) about chains of any length.
## Disagreements without a run

More were met while modelling; they have no run of their own.

- The copy-back of a dump (`vblock.c:104`) puts an old content over whatever another
  thread has stored in the page since, so a store is lost; `nvstore.c:152` says a block
  can be freely read and written. `LossesAreRaces` says when it happens; that it does,
  TLC shows in 13 states (see NvStoreRaces). The threads of the library are not safe
  from it: the boot and a join may abort and a link of the thread list may be lost
  (see CrThread, "What aborts").
- `nvstore.h:45` says writelock is 0 while writing. `nvmetadata_unlock` of one writer
  sets it to 1 while another writes (`nvstore.c:112`). `WritelockMarksWrites` holds,
  and is proved, under the rule of `nvstore.h:30-41`. No boot reads the word.
- The metadata initialised on the first boot is in the file only after its first
  checkpoint (`nvstore.c:421`); a crash before leaves a zeroed struct that the next
  boot takes for a used one.
- `crthread_init_system` restores every thread of the list, also those never forked
  or finished; `crthread.c:124` says those that crashed during execution, and
  `inprogress` (`crthread.h:28`) is never set.
- `execstate` stays `NV_COMPLETED` after the first clean shutdown
  (`nvstore.c:428`), whatever happens later; `nvstore.h:47` calls it "how far did
  you get last time".
- `crthread_delete` gives `userjoin`, which came from `mcmmap`, to `mcfree`, that is to
  `free` (`crthread.c:220`); `crthread_shutdown_system` unmaps it.
- `crthread_fork` of a thread that the boot has restored starts a second pthread on
  the record (`crthread.c:233`); `crthread.h:86` says later calls do nothing, and
  `test/crthread_test.c:52-65` makes the calls in that order: new, shutdown, init,
  fork. `ForkOnce` excludes it.
- `crthread_new` writes the head of the thread list to the file and not the record it
  points to (`crthread.c:204`); a kill before the next full checkpoint leaves a list
  that leads into pages without content. `FileWhole` excludes it.
- `nvstore_checkpoint_everything` (`nvstore.c:574`) uses the FILE while the checkpoint
  worker may use it; `nvstore.c:288` says "lock nvfs" and no lock is there. The rule
  of `nvstore.h:30-41` excludes it.
- `nelem` of the address table counts insertions, also of what is there
  (`vtsaddrtable.c:88`): the table grows earlier than at the 70 % of its comment. The
  bound holds (`RoomLeft`).
- Allocation has the same gap: `vblock_dumptofile` seeks and writes while the checkpoint
  worker may do the same. With `Serial = FALSE` in `HeapFileBoot.cfg` TLC finds
  `BlocksOnFile` violated: the worker's seek falls between the seek and the write of an
  allocation, and the new block overwrites another.
- `vtsaddrtable_find` reads the entry it found after the unlock (`vtsaddrtable.c:130`),
  when an insertion may have freed the array; `vtsaddrtable.h:14-18` promises a lookup.
  TLC finds `EntryReadable` violated when it is added to `AddrTableGrow.cfg`: a find, an
  insertion that expands the table and frees the old array, the read.
- `mcrealloc` may strike out the node of another thread's block (`memcheck.c:200-206`),
  which makes a later `mcfree` abort. `MemCheckExact` allows for it in `struck`; without
  `\cup struck` TLC finds it.
- `save_context` does not save `r12` to `r15` (`contextswitch_asm.S:66`), which a callee
  must preserve. Registers are not modelled.
- `vtsthreadtable_cleanup` runs before the resurrector stops (`crthread.c:156`). Only the
  rule that all threads are joined first keeps it from a table in use.

## Out of scope

Not modelled, or in part:

- `vaddrlist_clear`: only its unit test calls it. A list that is used again after it
  multiplies the states of `commit_objects`, and no other code depends on it.
- `list_sort`, `list_insert_ordered`, `list_unique`, `list_max`, `list_min`: no file of the
  library calls them. `list_reverse` and `list_splice`, which are not called either,
  are proved for any list (`ReverseChain`, `SpliceChain`, `SpliceWithin`).
- The registers of `save_context` and `load_context`; CrThread has the two calls.
- `crheap.c` beyond init, shutdown and shutdown without saving.
- `util/unittest.c`, the tests and the demos: they drive the library, and the kills of the
  test driver are the crashes of the models.
- `milestone1`: an earlier version, without threads, that `milestone2` replaces. Its
  `list.c` is the file of `milestone2`, its `memcheck.c` the same without the lock; its
  store drops a dumped page without a copy-back, a design that was given up.
- `examples`: experiments, not part of the library.

## What only TLC checks

- *Liveness under fairness*: `CommitTerminates` and `ShutdownTerminates` of NvStore,
  `TasksFinish` and `CallsReturn` of CrThread, `InsertReturns` of the address table. The
  prover handles neither fairness nor ENABLED.
- *The disagreements*: a run that expects a violation shows a counterexample.

What other recursive definitions compute is proved, by induction over a set of numbers:
the loops over a list (`Loop`), the copy of a dirty set (`copied`), a start's reading of
the file (`Readable`) and the writes of a FILE (`Written`).

## Plan

Every component of `milestone2` that keeps state is modelled and checked, and each safety
invariant, action property and refinement that a passing run checks is proved for every
value of the constants that meets the assumptions. What could be added:

1. Records of threads that share a page, as crmalloc may lay them out, in `CrThread`: what
   a dump of one does to the other thread while it runs.
2. The variant behind `InsertReturns`, a measure of the calls on the stack that every step
   of the writer lowers; that the steps happen would remain with TLC.
