------------------------------ MODULE NvStore ------------------------------
(***************************************************************************)
(* The non-volatile store of milestone2/nvmm: a heap of pages that live in *)
(* anonymous memory and are copied to one file, page by page, when a       *)
(* thread commits a checkpoint.                                            *)
(*                                                                         *)
(* Three kinds of threads interleave here:                                 *)
(*   - the program's threads (Users), which load and store in the pages,   *)
(*     commit checkpoints, checkpoint the metadata, checkpoint every dirty *)
(*     page, and shut the store down;                                      *)
(*   - the checkpoint worker CrWorker, which serves a FIFO of commits;     *)
(*   - the userfaultfd worker, which gives a missing page a zero page and  *)
(*     logs it as dirty while the faulting thread is stopped.              *)
(*                                                                         *)
(* One step is one access to state that another thread can see: a store to *)
(* a page, a locked operation on the dirty set or the queue, a call on the *)
(* FILE nvfs (atomic: stdio locks it), a madvise, a memcpy of a page.      *)
(*                                                                         *)
(* The blocks of the store are allocated before the model starts, one page *)
(* each.                                                                   *)
(***************************************************************************)
EXTENDS Naturals, Sequences, FiniteSets

CONSTANTS
  Users,            \* the program's threads
  CrWorker,         \* the checkpoint worker
  Pages, Meta,      \* the pages of the store; the page of struct nvmetadata
  Access,           \* Access[u]: the pages thread u loads from and stores to
  Vals,             \* what threads store in a page
  Zero,             \* the content of tmppage and of a fresh block
  Junk,             \* a page of nvfs hit by a write meant for another offset
  MetaUsers,        \* threads that call nvmetadata_checkpoint
  EverythingUsers,  \* threads that call nvstore_checkpoint_everything
  ShutdownUsers,    \* threads that call nvstore_shutdown
  Serial,           \* TRUE: callers follow the rule of nvstore.h:30-41
  NoPage, Past,     \* no page; a file offset that is no page's start
  Kill, Nobody      \* the kill message; the worker serves nobody

Threads == Users \cup {CrWorker}

ASSUME ConstantsAssumption ==
  /\ Meta \in Pages
  /\ CrWorker \notin Users /\ Kill \notin Users /\ Nobody \notin Users
  /\ Kill # Nobody
  /\ NoPage \notin Pages /\ Past \notin Pages
  /\ Vals # {} /\ Zero \notin Vals /\ Junk \notin Vals /\ Junk # Zero
  /\ Access \in [Users -> SUBSET Pages]
  /\ MetaUsers \subseteq Users
  /\ EverythingUsers \subseteq Users
  /\ ShutdownUsers \subseteq Users
  /\ Serial \in BOOLEAN

(* A page: the writelock word at its start (meaningful on Meta only) and   *)
(* the rest.                                                               *)
Page == [wl : 0..1, data : Vals \cup {Zero, Junk}]
ZeroPage == [wl |-> 0, data |-> Zero]

WithWord(c, w) == [wl |-> w, data |-> c.data]
WithData(c, v) == [wl |-> c.wl, data |-> v]

VARIABLES
  mem, resident,      \* page contents; pages present in the address space
  dirty,              \* self->dirty
  nvfs, fpos,         \* the file's pages; the page its position stands at
  fault,              \* fault[t]: the missing page that stops thread t
  uffdpc, filling, sawkill, killfd,   \* the userfaultfd worker
  crinput, serving,   \* queue of commits; the commit being served
  region, finished,   \* the pages and the semaphore of each checkpoint
  job, pc,            \* the operation of a user; where each thread is
  todo, cur, cpy,     \* addresses left to dump; page being dumped; pgcpy
  alive               \* FALSE once nvstore_shutdown has unmapped the store

memvars  == <<mem, resident>>
filevars == <<nvfs, fpos>>
uffdvars == <<uffdpc, filling, sawkill>>
reqvars  == <<crinput, serving, region, finished>>
dumpvars == <<todo, cur, cpy>>
vars == <<memvars, dirty, filevars, fault, uffdvars, killfd, reqvars, job, pc,
          dumpvars, alive>>

(***************************************************************************)
(* Who may start what                                                      *)
(***************************************************************************)
Running(t) == alive /\ fault[t] = NoPage
Idle(u)    == Running(u) /\ pc[u] = "idle"

(* nvstore.h:30-41: "You cannot checkpoint in the midst of spawning a      *)
(* thread, mutex, or any other system resource"; crthread.h:62-64: every   *)
(* thread is joined before the shutdown.                                   *)
Alone(u)      == Serial => \A v \in Users \ {u} : pc[v] = "idle"
AllJoined(u)  == Serial => \A v \in Users \ {u} : pc[v] = "idle" /\ fault[v] = NoPage
NoSystemOp(u) == Serial => \A v \in Users \ {u} : job[v] \in {"none", "commit"}
NoShutdown(u) == Serial => \A v \in Users \ {u} : job[v] # "shutdown"

(* The pages the next instruction of thread t may load from or store to.   *)
Touches(t) ==
  IF pc[t] = "idle" THEN Access[t]
  ELSE IF pc[t] \in {"copy", "write", "back"} THEN {cur[t]}
  ELSE IF pc[t] \in {"lock", "lockwrite", "unlock", "unlockwrite", "teardown"} THEN {Meta}
  ELSE {}

(***************************************************************************)
(* The address space                                                       *)
(***************************************************************************)

(* Thread t touches a missing page: the kernel queues a message on uffd    *)
(* and stops t.                                                            *)
PageFault(t) ==
  /\ Running(t)
  /\ t \in Users => NoShutdown(t)
  /\ \E p \in Touches(t) \ resident : fault' = [fault EXCEPT ![t] = p]
  /\ UNCHANGED <<memvars, dirty, filevars, uffdvars, killfd, reqvars, job, pc,
                 dumpvars, alive>>

(* A thread of the program stores v in a page of its own.                  *)
Store(u, p, v) ==
  /\ Idle(u) /\ NoShutdown(u)
  /\ p \in Access[u] \cap resident
  /\ mem' = [mem EXCEPT ![p] = WithData(@, v)]
  /\ UNCHANGED <<resident, dirty, filevars, fault, uffdvars, killfd, reqvars,
                 job, pc, dumpvars, alive>>

Messages == {fault[t] : t \in Threads} \ {NoPage}

(* vtsdirtyset_insert; UFFDIO_COPY wakes every thread stopped on the page; *)
(* the loop of the worker ends only when the killswitch was polled.        *)
NotLogged(p) == dirty
Logged(p) == dirty \cup {p}

NoWake(p) == fault
Wake(p) == [t \in Threads |-> IF fault[t] = p THEN NoPage ELSE fault[t]]

AfterFault == IF sawkill THEN "exit" ELSE "poll"

(* poll() returns: a message or the killswitch, or both.                   *)
UffdPoll ==
  /\ alive /\ uffdpc = "poll"
  /\ Messages # {} \/ killfd
  /\ sawkill' = killfd
  /\ uffdpc' = IF Messages # {} THEN "read" ELSE "exit"
  /\ UNCHANGED <<memvars, dirty, filevars, fault, filling, killfd, reqvars, job,
                 pc, dumpvars, alive>>

(* nvstore_handle_pagefault up to the dirty set: the page is logged before *)
(* it is given back.                                                       *)
UffdRead(p) ==
  /\ alive /\ uffdpc = "read"
  /\ p \in Messages
  /\ filling' = p /\ dirty' = Logged(p)
  /\ uffdpc' = "copy"
  /\ UNCHANGED <<memvars, filevars, fault, sawkill, killfd, reqvars, job, pc,
                 dumpvars, alive>>

(* UFFDIO_COPY of tmppage: every thread stopped on the page goes on.       *)
UffdCopy ==
  /\ alive /\ uffdpc = "copy"
  /\ mem' = [mem EXCEPT ![filling] = ZeroPage]
  /\ resident' = resident \cup {filling}
  /\ fault' = Wake(filling)
  /\ filling' = NoPage
  /\ uffdpc' = AfterFault
  /\ UNCHANGED <<dirty, filevars, sawkill, killfd, reqvars, job, pc, dumpvars,
                 alive>>

(***************************************************************************)
(* The file.  A write meant for one offset lands where the position is.    *)
(***************************************************************************)
Spoil(p) == nvfs' = [nvfs EXCEPT ![p] = WithData(@, Junk)]

Seek(t, from, p, to) ==
  /\ Running(t) /\ pc[t] = from
  /\ fpos' = p
  /\ pc' = [pc EXCEPT ![t] = to]
  /\ UNCHANGED <<memvars, dirty, nvfs, fault, uffdvars, killfd, reqvars, job,
                 dumpvars, alive>>

(* fwrite of a page and fflush.                                            *)
WritePage(c) ==
  /\ fpos' = Past
  /\ IF fpos \in Pages THEN nvfs' = [nvfs EXCEPT ![fpos] = c]
                       ELSE \E p \in Pages : Spoil(p)

(* fwrite of the writelock word and fflush.                                *)
WriteWord(w) ==
  /\ fpos' = Past
  /\ IF fpos = Meta THEN nvfs' = [nvfs EXCEPT ![Meta] = WithWord(@, w)]
                    ELSE \E p \in Pages : (fpos \in Pages => p = fpos) /\ Spoil(p)

(***************************************************************************)
(* nvmetadata_lock and nvmetadata_unlock: three steps each.                *)
(***************************************************************************)
SetWord(t, from, w, to) ==
  /\ Running(t) /\ pc[t] = from /\ Meta \in resident
  /\ mem' = [mem EXCEPT ![Meta] = WithWord(@, w)]
  /\ pc' = [pc EXCEPT ![t] = to]
  /\ UNCHANGED <<resident, dirty, filevars, fault, uffdvars, killfd, reqvars,
                 job, dumpvars, alive>>

LockSetsOne(t) == SetWord(t, "lock", 1, "lockseek")
LockSet(t)  == SetWord(t, "lock", 0, "lockseek")
LockSeek(t) == Seek(t, "lockseek", Meta, "lockwrite")

(* What follows nvmetadata_lock: in nvmetadata_checkpoint the commit of    *)
(* the metadata's page, elsewhere the loop over the addresses.             *)
LockWrite(t) ==
  /\ Running(t) /\ pc[t] = "lockwrite" /\ Meta \in resident
  /\ WriteWord(mem[Meta].wl)
  /\ pc' = [pc EXCEPT ![t] = IF t \in Users /\ job[t] = "meta" THEN "submit" ELSE "next"]
  /\ UNCHANGED <<memvars, dirty, fault, uffdvars, killfd, reqvars, job, dumpvars,
                 alive>>

UnlockSet(t)  == SetWord(t, "unlock", 1, "unlockseek")
UnlockSeek(t) == Seek(t, "unlockseek", Meta, "unlockwrite")

UnlockWrite(t) ==
  /\ Running(t) /\ pc[t] = "unlockwrite" /\ Meta \in resident
  /\ WriteWord(mem[Meta].wl)
  /\ pc'  = [pc EXCEPT ![t] = IF t = CrWorker THEN "post" ELSE "idle"]
  /\ job' = IF t = CrWorker THEN job ELSE [job EXCEPT ![t] = "none"]
  /\ UNCHANGED <<memvars, dirty, fault, uffdvars, killfd, reqvars, dumpvars, alive>>

(***************************************************************************)
(* vblock_dumpbypage: copy the page aside, write the page itself, drop it, *)
(* and put the copy back, which faults.                                    *)
(***************************************************************************)
DumpCopy(t) ==
  /\ Running(t) /\ pc[t] = "copy" /\ cur[t] \in resident
  /\ cpy' = [cpy EXCEPT ![t] = mem[cur[t]]]
  /\ pc'  = [pc EXCEPT ![t] = "seek"]
  /\ UNCHANGED <<memvars, dirty, filevars, fault, uffdvars, killfd, reqvars, job,
                 todo, cur, alive>>

DumpNoSeek(t) == Seek(t, "seek", fpos, "write")
DumpSeek(t) == Seek(t, "seek", cur[t], "write")

DumpWrite(t) ==
  /\ Running(t) /\ pc[t] = "write" /\ cur[t] \in resident
  /\ WritePage(mem[cur[t]])
  /\ pc' = [pc EXCEPT ![t] = "drop"]
  /\ UNCHANGED <<memvars, dirty, fault, uffdvars, killfd, reqvars, job, dumpvars,
                 alive>>

DumpDrop(t) ==
  /\ Running(t) /\ pc[t] = "drop"
  /\ resident' = resident \ {cur[t]}
  /\ mem' = [mem EXCEPT ![cur[t]] = ZeroPage]
  /\ pc'  = [pc EXCEPT ![t] = "back"]
  /\ UNCHANGED <<dirty, filevars, fault, uffdvars, killfd, reqvars, job, dumpvars,
                 alive>>

NoCopyBack(t) == UNCHANGED mem
CopyBack(t) == mem' = [mem EXCEPT ![cur[t]] = cpy[t]]

DumpBack(t) ==
  /\ Running(t) /\ pc[t] = "back" /\ cur[t] \in resident
  /\ CopyBack(t)
  /\ cpy' = [cpy EXCEPT ![t] = ZeroPage]
  /\ cur' = [cur EXCEPT ![t] = NoPage]
  /\ pc'  = [pc EXCEPT ![t] = "next"]
  /\ UNCHANGED <<resident, dirty, filevars, fault, uffdvars, killfd, reqvars, job,
                 todo, alive>>

(***************************************************************************)
(* The program's threads                                                   *)
(***************************************************************************)
(* vtslist_push_back on crinput.                                           *)
NoPush(m) == UNCHANGED crinput
PushTwice(m) == crinput' = crinput \o <<m, m>>
Push(m) == crinput' = Append(crinput, m)

Submit(u, R) ==
  /\ region' = [region EXCEPT ![u] = R]
  /\ Push(u)
  /\ UNCHANGED <<serving, finished>>

(* checkpoint_add of the pages R, then checkpoint_commit.  A page the list *)
(* names twice is dumped twice, with the same result.                      *)
Commit(u, R) ==
  /\ Idle(u) /\ NoSystemOp(u)
  /\ Submit(u, R)
  /\ job' = [job EXCEPT ![u] = "commit"]
  /\ pc'  = [pc EXCEPT ![u] = "wait"]
  /\ UNCHANGED <<memvars, dirty, filevars, fault, uffdvars, killfd, dumpvars, alive>>

(* sem_wait returns and the checkpoint object is deleted or filled anew.   *)
(* nvmetadata_checkpoint goes on to unlock.                                *)
CommitReturns(u) ==
  /\ Running(u) /\ pc[u] = "wait" /\ finished[u] = 1
  /\ finished' = [finished EXCEPT ![u] = 0]
  /\ pc'  = [pc EXCEPT ![u] = IF job[u] = "meta" THEN "unlock" ELSE "idle"]
  /\ job' = [job EXCEPT ![u] = IF @ = "meta" THEN @ ELSE "none"]
  /\ region' = [region EXCEPT ![u] = {}]
  /\ UNCHANGED <<memvars, dirty, filevars, fault, uffdvars, killfd, crinput,
                 serving, dumpvars, alive>>

Start(u, op) ==
  /\ Idle(u)
  /\ job' = [job EXCEPT ![u] = op]
  /\ UNCHANGED <<memvars, dirty, filevars, fault, uffdvars, reqvars, cur, cpy, alive>>

MetaCheckpoint(u) ==
  /\ u \in MetaUsers /\ Alone(u)
  /\ Start(u, "meta")
  /\ pc' = [pc EXCEPT ![u] = "lock"]
  /\ UNCHANGED <<todo, killfd>>

MetaSubmit(u) ==
  /\ Running(u) /\ pc[u] = "submit"
  /\ Submit(u, {Meta})
  /\ pc' = [pc EXCEPT ![u] = "wait"]
  /\ UNCHANGED <<memvars, dirty, filevars, fault, uffdvars, killfd, job, dumpvars,
                 alive>>

(* nvstore_checkpoint_everything works on a copy of the dirty set.         *)
CheckpointEverything(u) ==
  /\ u \in EverythingUsers /\ Alone(u)
  /\ Start(u, "all")
  /\ todo' = [todo EXCEPT ![u] = dirty]
  /\ pc'   = [pc EXCEPT ![u] = "lock"]
  /\ UNCHANGED killfd

EverythingNext(u) ==
  /\ Running(u) /\ pc[u] = "next"
  /\ IF todo[u] = {}
       THEN pc' = [pc EXCEPT ![u] = "unlock"] /\ UNCHANGED <<todo, cur>>
       ELSE \E p \in todo[u] :
              /\ todo' = [todo EXCEPT ![u] = @ \ {p}]
              /\ cur'  = [cur EXCEPT ![u] = p]
              /\ pc'   = [pc EXCEPT ![u] = "copy"]
  /\ UNCHANGED <<memvars, dirty, filevars, fault, uffdvars, killfd, reqvars, job,
                 cpy, alive>>

(* nvstore_shutdown stops the fault worker before the checkpoint worker    *)
(* has drained its queue.                                                  *)
Shutdown(u) ==
  /\ u \in ShutdownUsers /\ AllJoined(u)
  /\ Start(u, "shutdown")
  /\ killfd' = TRUE
  /\ pc' = [pc EXCEPT ![u] = "pushkill"]
  /\ UNCHANGED todo

ShutdownStep(u, from, to) ==
  /\ Running(u) /\ pc[u] = from
  /\ pc' = [pc EXCEPT ![u] = to]
  /\ UNCHANGED <<memvars, dirty, filevars, fault, uffdvars, killfd, serving, region,
                 finished, job, dumpvars>>

PushKill(u) ==
  /\ ShutdownStep(u, "pushkill", "joinuffd")
  /\ Push(Kill)
  /\ UNCHANGED alive

JoinUffd(u) == ShutdownStep(u, "joinuffd", "joincr") /\ uffdpc = "exit"
               /\ UNCHANGED <<crinput, alive>>
JoinCr(u)   == ShutdownStep(u, "joincr", "teardown") /\ pc[CrWorker] = "exit"
               /\ UNCHANGED <<crinput, alive>>

(* pthread_mutex_destroy touches the metadata page one last time; then     *)
(* every block is unmapped and the file closed.                            *)
Teardown(u) ==
  /\ ShutdownStep(u, "teardown", "down") /\ Meta \in resident
  /\ alive' = FALSE
  /\ UNCHANGED crinput

(***************************************************************************)
(* The checkpoint worker                                                   *)
(***************************************************************************)
CrPop ==
  /\ Running(CrWorker) /\ pc[CrWorker] = "pop" /\ crinput # <<>>
  /\ LET m == Head(crinput) IN
       IF m = Kill
         THEN pc' = [pc EXCEPT ![CrWorker] = "exit"] /\ UNCHANGED <<serving, todo>>
         ELSE /\ serving' = m
              /\ todo' = [todo EXCEPT ![CrWorker] = region[m]]
              /\ pc'   = [pc EXCEPT ![CrWorker] = "lock"]
  /\ crinput' = Tail(crinput)
  /\ UNCHANGED <<memvars, dirty, filevars, fault, uffdvars, killfd, region, finished,
                 job, cur, cpy, alive>>

(* The end of the list of addresses.                                       *)
ListDoneEarly == Cardinality(todo[CrWorker]) <= 1
ListDone == todo[CrWorker] = {}

(* The next address: dumped only if it is in the dirty set, from which it  *)
(* is taken first.                                                         *)
CrNext ==
  /\ Running(CrWorker) /\ pc[CrWorker] = "next"
  /\ IF ListDone
       THEN pc' = [pc EXCEPT ![CrWorker] = "unlock"] /\ UNCHANGED <<todo, cur, dirty>>
       ELSE \E p \in todo[CrWorker] :
              /\ todo'  = [todo EXCEPT ![CrWorker] = @ \ {p}]
              /\ dirty' = dirty \ {p}
              /\ IF p \in dirty
                   THEN /\ cur' = [cur EXCEPT ![CrWorker] = p]
                        /\ pc'  = [pc EXCEPT ![CrWorker] = "copy"]
                   ELSE UNCHANGED <<cur, pc>>
  /\ UNCHANGED <<memvars, filevars, fault, uffdvars, killfd, reqvars, job, cpy, alive>>

NotPosted == finished
Posted == [finished EXCEPT ![serving] = @ + 1]

CrPost ==
  /\ Running(CrWorker) /\ pc[CrWorker] = "post"
  /\ finished' = Posted
  /\ serving'  = Nobody
  /\ pc' = [pc EXCEPT ![CrWorker] = "pop"]
  /\ UNCHANGED <<memvars, dirty, filevars, fault, uffdvars, killfd, crinput, region,
                 job, dumpvars, alive>>

(***************************************************************************)
(* Boots                                                                   *)
(***************************************************************************)

(* The first boot: the file did not exist.  The blocks are written as zero *)
(* pages, the metadata is initialised in memory after its writelock has    *)
(* been written to the file.                                               *)
Init ==
  /\ \E v \in Vals : mem = [p \in Pages |-> IF p = Meta THEN [wl |-> 1, data |-> v]
                                                      ELSE ZeroPage]
  /\ nvfs = [p \in Pages |-> IF p = Meta THEN [wl |-> 1, data |-> Zero] ELSE ZeroPage]
  /\ resident = {Meta} /\ dirty = {Meta}
  /\ fpos = Past
  /\ fault = [t \in Threads |-> NoPage]
  /\ uffdpc = "poll" /\ filling = NoPage /\ sawkill = FALSE /\ killfd = FALSE
  /\ crinput = <<>> /\ serving = Nobody
  /\ region = [u \in Users |-> {}] /\ finished = [u \in Users |-> 0]
  /\ job = [u \in Users |-> "none"]
  /\ pc = [t \in Threads |-> IF t = CrWorker THEN "pop" ELSE "idle"]
  /\ todo = [t \in Threads |-> {}]
  /\ cur = [t \in Threads |-> NoPage]
  /\ cpy = [t \in Threads |-> ZeroPage]
  /\ alive = TRUE

(* The process is killed at any moment, or has shut down, and boots again  *)
(* on the same file: nvstore_initmeta copies every block of the file to    *)
(* its old address, which makes every page resident and dirty, and sets    *)
(* execstate and the locks of the metadata.                                *)
Restart ==
  /\ \E v \in Vals \cup {nvfs[Meta].data} :
       mem' = [nvfs EXCEPT ![Meta] = WithData(@, v)]
  /\ resident' = Pages /\ dirty' = Pages
  /\ fpos' = Past
  /\ fault' = [t \in Threads |-> NoPage]
  /\ uffdpc' = "poll" /\ filling' = NoPage /\ sawkill' = FALSE /\ killfd' = FALSE
  /\ crinput' = <<>> /\ serving' = Nobody
  /\ region' = [u \in Users |-> {}] /\ finished' = [u \in Users |-> 0]
  /\ job' = [u \in Users |-> "none"]
  /\ pc' = [t \in Threads |-> IF t = CrWorker THEN "pop" ELSE "idle"]
  /\ todo' = [t \in Threads |-> {}]
  /\ cur' = [t \in Threads |-> NoPage]
  /\ cpy' = [t \in Threads |-> ZeroPage]
  /\ alive' = TRUE
  /\ UNCHANGED nvfs

(***************************************************************************)
(* The specification                                                       *)
(***************************************************************************)
MetaWord(t) == LockSet(t) \/ LockSeek(t) \/ LockWrite(t)
               \/ UnlockSet(t) \/ UnlockSeek(t) \/ UnlockWrite(t)
DumpByPage(t) == DumpCopy(t) \/ DumpSeek(t) \/ DumpWrite(t) \/ DumpDrop(t) \/ DumpBack(t)

UffdStep == UffdPoll \/ (\E p \in Pages : UffdRead(p)) \/ UffdCopy

CrStep == PageFault(CrWorker) \/ MetaWord(CrWorker) \/ DumpByPage(CrWorker)
          \/ CrPop \/ CrNext \/ CrPost

(* What a thread does once it has entered the store's code.                *)
InCall(u) ==
  \/ MetaWord(u) \/ DumpByPage(u) \/ CommitReturns(u) \/ MetaSubmit(u) \/ EverythingNext(u)
  \/ PushKill(u) \/ JoinUffd(u) \/ JoinCr(u) \/ Teardown(u)

UserStep(u) ==
  \/ PageFault(u) \/ InCall(u)
  \/ \E p \in Pages, v \in Vals : Store(u, p, v)
  \/ \E R \in SUBSET Access[u] : Commit(u, R)
  \/ MetaCheckpoint(u) \/ CheckpointEverything(u) \/ Shutdown(u)

Next == UffdStep \/ CrStep \/ (\E u \in Users : UserStep(u)) \/ Restart

Spec == Init /\ [][Next]_vars

(* The scheduler runs every thread that can run; a program is free never   *)
(* to call the store, so only calls in progress are fair.  The kernel      *)
(* hands out page faults in the order they came, so none waits forever.    *)
Fairness ==
  /\ WF_vars(UffdStep) /\ \A p \in Pages : SF_vars(UffdRead(p))
  /\ WF_vars(CrStep)
  /\ \A u \in Users : WF_vars(InCall(u) \/ (pc[u] # "idle" /\ PageFault(u)))

FairSpec == Spec /\ Fairness

(***************************************************************************)
(* Properties                                                              *)
(***************************************************************************)
PcStates == {"idle", "pop", "lock", "lockseek", "lockwrite", "submit", "wait", "next",
             "copy", "seek", "write", "drop", "back", "unlock", "unlockseek",
             "unlockwrite", "post", "exit", "pushkill", "joinuffd", "joincr",
             "teardown", "down"}

TypeOK ==
  /\ mem \in [Pages -> Page] /\ nvfs \in [Pages -> Page]
  /\ resident \subseteq Pages /\ dirty \subseteq Pages
  /\ fpos \in Pages \cup {Past}
  /\ fault \in [Threads -> Pages \cup {NoPage}]
  /\ uffdpc \in {"poll", "read", "copy", "exit"}
  /\ filling \in Pages \cup {NoPage}
  /\ sawkill \in BOOLEAN /\ killfd \in BOOLEAN /\ alive \in BOOLEAN
  /\ crinput \in Seq(Users \cup {Kill}) /\ serving \in Users \cup {Nobody}
  /\ region \in [Users -> SUBSET Pages] /\ finished \in [Users -> 0..1]
  /\ job \in [Users -> {"none", "commit", "meta", "all", "shutdown"}]
  /\ pc \in [Threads -> PcStates]
  /\ todo \in [Threads -> SUBSET Pages]
  /\ cur \in [Threads -> Pages \cup {NoPage}]
  /\ cpy \in [Threads -> Page]

Dumping(t) == pc[t] \in {"copy", "seek", "write", "drop", "back"}
Unsaved(t, p) == cur[t] = p /\ pc[t] \in {"copy", "seek", "write"}

(* What the program would read in page p: while a dump has dropped the     *)
(* page, the copy that is about to be put back.                            *)
PuttingBack(p) == {t \in Threads : pc[t] = "back" /\ cur[t] = p}

View(p) ==
  IF PuttingBack(p) = {} THEN mem[p].data
                         ELSE cpy[CHOOSE t \in PuttingBack(p) : TRUE].data

Saved(p) == nvfs[p].data = View(p)

(* No store is forgotten: a page that is not logged as dirty, and is not   *)
(* on its way to the file, is on the file as the program sees it.          *)
DirtyCovers ==
  \A p \in Pages : p \in dirty \/ Saved(p) \/ \E t \in Threads : Unsaved(t, p)

(* checkpoint_commit returns only after the pages of the checkpoint are on *)
(* the file as they were when it was called (the caller has slept since).  *)
CommitDurable ==
  \A u \in Users : finished[u] = 1 => \A p \in region[u] : Saved(p)

(* Every write to nvfs goes to the offset its thread has sought: no other  *)
(* thread moves the FILE between the fseek and the fwrite.                 *)
WritesLandInPlace ==
  \A t \in Threads :
    /\ pc[t] = "write" => fpos = cur[t]
    /\ pc[t] \in {"lockwrite", "unlockwrite"} => fpos = Meta

(* nvstore.h:45, writelock: "set to 0 when writing and reset to 1 when     *)
(* done".  While the pages of a checkpoint are being written the word in   *)
(* the file is 0, so that a file cut short there can be told.              *)
WritelockMarksWrites ==
  \A t \in Threads : (Dumping(t) \/ pc[t] = "next") => nvfs[Meta].wl = 0

(* UFFDIO_COPY never hits a page that is present: it would fail and abort  *)
(* the process (nvstore.c:225).                                            *)
FillsMissing == uffdpc = "copy" => filling \notin resident

(* Every commit gets one answer: it is queued once, or being served, or    *)
(* answered, and its thread waits all along.                               *)
Queued(u) == {i \in DOMAIN crinput : crinput[i] = u}
AnsweredOnce ==
  \A u \in Users :
    Cardinality(Queued(u)) + (IF serving = u THEN 1 ELSE 0) + finished[u]
      = IF pc[u] = "wait" THEN 1 ELSE 0

(* The store implements the persistent memory.                             *)
request ==
  [u \in Users |-> IF job[u] = "all" THEN Pages
                   ELSE IF pc[u] = "wait" THEN region[u] ELSE {}]

PM == INSTANCE PersistentMemory
        WITH vmem <- [p \in Pages |-> View(p)],
             disk <- [p \in Pages |-> nvfs[p].data],
             req  <- request

ImplementsPersistentMemory == PM!Spec

(* A commit returns, and nvstore_shutdown too, unless the process dies.    *)
CommitTerminates ==
  \A u \in Users : pc[u] = "wait" ~> pc[u] # "wait"

ShutdownTerminates ==
  \A u \in Users : job[u] = "shutdown" ~> ~alive \/ job[u] # "shutdown"
=============================================================================
