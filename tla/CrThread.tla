------------------------------ MODULE CrThread ------------------------------
(***************************************************************************)
(* The non-volatile threads of milestone2/thread and the resurrector of    *)
(* milestone2/nvmm.                                                        *)
(*                                                                         *)
(* A crthread is a record and a stack in the persistent heap, linked into  *)
(* the thread list of the metadata.  To checkpoint itself it saves its     *)
(* context in the record, hands itself to the resurrector and exits; the   *)
(* resurrector joins it, commits the record and the stack, and creates a   *)
(* new pthread on the record's recovery stack, which loads the context.    *)
(* After a crash the boot does the same for every thread of the list.      *)
(*                                                                         *)
(* Below this module is the store (NvStore): here memory is a value, the   *)
(* file another, and a commit copies one page at a time from the first to  *)
(* the second.  Each page is out of memory for a moment then: the main     *)
(* thread, which uses the records too, may find it empty, or store in it   *)
(* in vain.                                                                *)
(***************************************************************************)
EXTENDS Naturals, Sequences, FiniteSets

CONSTANTS
  CrThreads,        \* the threads the program may create
  Steps,            \* how many steps a task takes before it returns
  Meta,             \* the page of struct nvmetadata: the ends of threadlist
  Null,             \* the null pointer in a list element
  NoCtx,            \* a context that was never saved
  NoThread,         \* no crthread
  NoPthread,        \* no pthread
  Bucket,           \* Bucket[k]: the hash of the pthread id k
  StopMsg,          \* the message RESURRECTOR_SHUTDOWN
  ForkOnce,         \* TRUE: the program forks a thread only once
  Anywhere          \* FALSE: no crash while the file is not whole

Nodes == CrThreads \cup {Meta}

(* glibc keeps the descriptor of a pthread at the top of its stack, so the *)
(* id of a pthread is its stack.                                           *)
Pthreads == CrThreads \X {"stack", "recoverystack"}
OwnerOf(k) == k[1]

ASSUME CrThreadAssumption ==
  /\ Steps \in Nat \ {0}
  /\ Meta \notin CrThreads /\ Null \notin CrThreads /\ Null # Meta
  /\ NoCtx \notin 0..Steps
  /\ NoThread \notin CrThreads /\ StopMsg \notin CrThreads
  /\ NoPthread \notin Pthreads
  /\ ForkOnce \in BOOLEAN /\ Anywhere \in BOOLEAN

(* The page of a list element: of the metadata, or of the head of a record *)
Link == [next : Nodes \cup {Null}, prev : Nodes \cup {Null}, firstrun : BOOLEAN]
Blank == [next |-> Null, prev |-> Null, firstrun |-> FALSE]
EmptyList == [next |-> Meta, prev |-> Meta, firstrun |-> FALSE]

VARIABLES
  node, dnode,      \* list elements (and firstrun), in memory and in the file
  ctx, dctx,        \* restorepoint: the step at which it was saved
  stk, dstk,        \* the stack: the step its frames are at
  exec, dexec,      \* execstate
  pc, ptid,         \* where each pthread is; thread->ptid
  table,            \* vtsthreadtable: the id under which t was inserted
  post,             \* the value of the semaphore userjoin
  rin, rpc, rthr, rtodo,    \* the resurrector; the pages left of its commit
  rpage, rcpy,      \* the page its commit is at; pgcpy, if it is the head
  mpc, cursor, mtodo,       \* the main thread; the thread it works with
  handles, started, joined, \* threads main can name, has running, has joined
  up                \* FALSE once the process has aborted

memvars  == <<node, ctx, stk, exec>>
filevars == <<dnode, dctx, dstk, dexec>>
dumpvars == <<rpage, rcpy>>
resvars  == <<rin, rpc, rthr, rtodo, dumpvars>>
mainvars == <<mpc, cursor, mtodo>>
progvars == <<handles, started, joined>>
vars == <<memvars, filevars, pc, ptid, table, post, resvars, mainvars, progvars,
          up>>

(* A failed assertion, a null pointer, or a jump through a context that    *)
(* was never saved.                                                        *)
Abort ==
  /\ up' = FALSE
  /\ UNCHANGED <<memvars, filevars, pc, ptid, table, post, resvars, mainvars,
                 progvars>>

Live(k) == pc[k] \notin {"none", "dead"}

(***************************************************************************)
(* vtsthreadtable                                                          *)
(***************************************************************************)
Find(id) == {t \in CrThreads : /\ table[t] # NoPthread
                               /\ Bucket[table[t]] = Bucket[id]
                               /\ ptid[t] = id}

(* pthread_create on one of the two stacks of t; it stores the id in the   *)
(* record before the new thread runs.  On a stack in use it overwrites the *)
(* thread that runs there.                                                 *)
NewId(k) == [ptid EXCEPT ![OwnerOf(k)] = k]

PthreadCreate(k) ==
  /\ pc' = [pc EXCEPT ![k] = "insert"]
  /\ ptid' = NewId(k)

(***************************************************************************)
(* crthread_stub, crthread_descend_and_run, crthread_checkpoint            *)
(***************************************************************************)
At(k, from) == up /\ pc[k] = from
Goto(k, to) == pc' = [pc EXCEPT ![k] = to]

Insert(k) ==
  /\ At(k, "insert")
  /\ table' = [table EXCEPT ![OwnerOf(k)] = ptid[OwnerOf(k)]]
  /\ Goto(k, "setup")
  /\ UNCHANGED <<memvars, filevars, ptid, post, resvars, mainvars, progvars, up>>

(* First run: down the stack, and the first checkpoint before the task.    *)
NotCleared(t) == node
Cleared(t) == [node EXCEPT ![t].firstrun = FALSE]

FirstRun(k) ==
  LET t == OwnerOf(k) IN
  /\ At(k, "setup") /\ node[t].firstrun
  /\ node' = Cleared(t)
  /\ stk' = [stk EXCEPT ![t] = 0]
  /\ Goto(k, "save")
  /\ UNCHANGED <<ctx, exec, filevars, ptid, table, post, resvars, mainvars, progvars,
                 up>>

(* Otherwise the restore point is loaded: crthread_checkpoint returns, in  *)
(* the middle of the task or, at its end, on the way to the exit point.    *)
Resume(k) ==
  LET t == OwnerOf(k) IN
  /\ At(k, "setup") /\ ~node[t].firstrun
  /\ IF ctx[t] = NoCtx
       THEN Abort
       ELSE /\ Goto(k, IF ctx[t] = Steps THEN "leave" ELSE "run")
            /\ UNCHANGED <<memvars, filevars, ptid, table, post, resvars, mainvars,
                           progvars, up>>

(* A step of the task; then the task may call crthread_checkpoint, and     *)
(* does so, in crthread_descend_and_run, when it has returned.             *)
UnsavedReturn == {"leave"}
Returned == {"save"}
After(n) == IF n = Steps THEN Returned ELSE {"run", "save"}

Work(k) ==
  LET t == OwnerOf(k) IN
  /\ At(k, "run") /\ stk[t] < Steps
  /\ stk' = [stk EXCEPT ![t] = @ + 1]
  /\ \E to \in After(stk[t] + 1) : Goto(k, to)
  /\ UNCHANGED <<node, ctx, exec, filevars, ptid, table, post, resvars, mainvars,
                 progvars, up>>

Save(k) ==
  LET t == OwnerOf(k) IN
  /\ At(k, "save")
  /\ IF Find(k) = {}
       THEN Abort
       ELSE /\ ctx' = [ctx EXCEPT ![t] = stk[t]]
            /\ Goto(k, "submit")
            /\ UNCHANGED <<node, stk, exec, filevars, ptid, table, post, resvars,
                           mainvars, progvars, up>>

Submit(k) ==
  /\ At(k, "submit")
  /\ rin' = Append(rin, OwnerOf(k))
  /\ Goto(k, "cpexit")
  /\ UNCHANGED <<memvars, filevars, ptid, table, post, rpc, rthr, rtodo, dumpvars,
                 mainvars, progvars, up>>

(* EXIT POINT 2: pthread_exit, without a post to userjoin.                 *)
Posted(k) == [post EXCEPT ![OwnerOf(k)] = @ + 1]
NotPosted(k) == post

CpExit(k) ==
  /\ At(k, "cpexit")
  /\ post' = NotPosted(k)
  /\ Goto(k, "dead")
  /\ UNCHANGED <<memvars, filevars, ptid, table, resvars, mainvars, progvars, up>>

(* EXIT POINT 1: out of the table, post to the joiner, pthread_exit.       *)
Leave(k) ==
  /\ At(k, "leave")
  /\ table' = [t \in CrThreads |-> IF t \in Find(ptid[OwnerOf(k)]) THEN NoPthread
                                                                  ELSE table[t]]
  /\ Goto(k, "post")
  /\ UNCHANGED <<memvars, filevars, ptid, post, resvars, mainvars, progvars, up>>

Post(k) ==
  /\ At(k, "post")
  /\ post' = Posted(k)
  /\ Goto(k, "exit")
  /\ UNCHANGED <<memvars, filevars, ptid, table, resvars, mainvars, progvars, up>>

Exit(k) ==
  /\ At(k, "exit")
  /\ Goto(k, "dead")
  /\ UNCHANGED <<memvars, filevars, ptid, table, post, resvars, mainvars, progvars, up>>

(***************************************************************************)
(* The resurrector                                                         *)
(***************************************************************************)
ResPop ==
  /\ up /\ rpc = "pop" /\ rin # <<>>
  /\ rin' = Tail(rin)
  /\ IF Head(rin) = StopMsg
       THEN rpc' = "exit" /\ UNCHANGED rthr
       ELSE rpc' = "join" /\ rthr' = Head(rin)
  /\ UNCHANGED <<memvars, filevars, pc, ptid, table, post, rtodo, dumpvars, mainvars,
                 progvars, up>>

(* pthread_join(thread->ptid).                                             *)
NotJoined(k) == UNCHANGED pc
Reaped(k) == pc[k] = "dead" /\ pc' = [pc EXCEPT ![k] = "none"]

ResJoin ==
  /\ up /\ rpc = "join"
  /\ Reaped(ptid[rthr])
  /\ rpc' = "remove"
  /\ UNCHANGED <<memvars, filevars, ptid, table, post, rin, rthr, rtodo, dumpvars,
                 mainvars, progvars, up>>

(* The assertion on vtsthreadtable_remove.                                 *)
NotRemoved(t) == table
Removed(t) == [table EXCEPT ![t] = NoPthread]

(* The two regions crthread_stub adds to the checkpoint of a thread: its   *)
(* record, the first page of which is also the list element, and its stack *)
Contexts == {"context", "stack"}
Regions == {"head", "context", "stack"}

ResRemove ==
  /\ up /\ rpc = "remove"
  /\ IF Find(ptid[rthr]) # {rthr}
       THEN Abort
       ELSE /\ table' = Removed(rthr)
            /\ rpc' = "commit"
            /\ rtodo' = Regions
            /\ UNCHANGED <<memvars, filevars, pc, ptid, post, rin, rthr, dumpvars,
                           mainvars, progvars, up>>

(* checkpoint_commit: the checkpoint worker dumps the pages of the record, *)
(* then those of the stack.  A page is copied aside, is written to the     *)
(* file and dropped, and the copy is put back.  The main thread may come   *)
(* in between on two pages: it stores in the head, so that a copy of it    *)
(* may be old when it is put back, and it reads userjoin in the page of    *)
(* the contexts.  Nobody else uses the pages then (CommitsAtRest): that    *)
(* the contexts and the stack are out of memory changes nothing in ctx and *)
(* stk, and the stack is dumped in one step.                               *)
InTurn(part) ==
  /\ part \in rtodo
  /\ part # "head" => "head" \notin rtodo
  /\ part = "stack" => "context" \notin rtodo

ResCopy ==
  /\ up /\ rpc = "commit" /\ rpage = "none" /\ "head" \in rtodo
  /\ rpage' = "head" /\ rcpy' = node[rthr]
  /\ UNCHANGED <<memvars, filevars, pc, ptid, table, post, rin, rpc, rthr, rtodo, mainvars,
                 progvars, up>>

ResDump(part) ==
  /\ up /\ rpc = "commit" /\ InTurn(part)
  /\ rpage = IF part = "head" THEN "head" ELSE "none"
  /\ rpage' = IF part = "stack" THEN "none" ELSE part
  /\ rtodo' = rtodo \ {part}
  /\ dnode' = IF part = "head" THEN [dnode EXCEPT ![rthr] = node[rthr]] ELSE dnode
  /\ dctx' = IF part = "context" THEN [dctx EXCEPT ![rthr] = ctx[rthr]] ELSE dctx
  /\ dstk' = IF part = "stack" THEN [dstk EXCEPT ![rthr] = stk[rthr]] ELSE dstk
  /\ node' = IF part = "head" THEN [node EXCEPT ![rthr] = Blank] ELSE node
  /\ UNCHANGED <<ctx, stk, exec, dexec, pc, ptid, table, post, rin, rpc, rthr, rcpy,
                 mainvars, progvars, up>>

(* The page is out of memory: it reads as zeros.                           *)
Out(t, part) == rpc = "commit" /\ rthr = t /\ rpage = part /\ part \notin rtodo

NotPutBack == node
PutBack == IF rpage = "head" THEN [node EXCEPT ![rthr] = rcpy] ELSE node

ResBack ==
  /\ up /\ rpc = "commit" /\ rpage # "none" /\ rpage \notin rtodo
  /\ node' = PutBack
  /\ rpage' = "none" /\ rcpy' = Blank
  /\ UNCHANGED <<ctx, stk, exec, filevars, pc, ptid, table, post, rin, rpc, rthr, rtodo,
                 mainvars, progvars, up>>

(* crthread_restore(thread, false).                                        *)
ResRestore ==
  /\ up /\ rpc = "commit" /\ rtodo = {} /\ rpage = "none"
  /\ PthreadCreate(<<rthr, "recoverystack">>)
  /\ rpc' = "pop" /\ rthr' = NoThread
  /\ UNCHANGED <<memvars, filevars, table, post, rin, rtodo, dumpvars, mainvars, progvars,
                 up>>

(***************************************************************************)
(* The main thread                                                         *)
(***************************************************************************)
Idle == up /\ mpc = "idle"

(* crthread_new: the record is linked to the end of the list; then the     *)
(* metadata is checkpointed, and nothing else.  The last record of the     *)
(* list may just be committed, and the link to the new one is lost.        *)
New(t) ==
  LET last == node[Meta].prev IN
  /\ Idle
  /\ node[t] = Blank /\ t \notin handles
  /\ last \in Nodes
  /\ node' = [[[node EXCEPT ![t] = [next |-> Meta, prev |-> last, firstrun |-> TRUE]]
                    EXCEPT ![last].next = t] EXCEPT ![Meta].prev = t]
  /\ ptid' = [ptid EXCEPT ![t] = NoPthread]
  /\ post' = [post EXCEPT ![t] = 0]
  /\ handles' = handles \cup {t}
  /\ mpc' = "checkpoint"
  /\ UNCHANGED <<ctx, stk, exec, filevars, pc, table, resvars, cursor, mtodo, started,
                 joined, up>>

(* nvmetadata_checkpoint writes the page of the metadata.                  *)
PersistMeta ==
  /\ dnode' = [dnode EXCEPT ![Meta] = node[Meta]]
  /\ dexec' = exec
  /\ UNCHANGED <<dctx, dstk>>

NewCheckpoint ==
  /\ up /\ mpc = "checkpoint"
  /\ PersistMeta
  /\ mpc' = "idle"
  /\ UNCHANGED <<memvars, pc, ptid, table, post, resvars, cursor, mtodo, progvars, up>>

(* "Threads should be forked only once."                                   *)
Fork(t) ==
  /\ Idle /\ t \in handles
  /\ ForkOnce => t \notin started
  /\ PthreadCreate(<<t, "stack">>)
  /\ started' = started \cup {t}
  /\ UNCHANGED <<memvars, filevars, table, post, resvars, mainvars, handles, joined, up>>

(* crthread_join reads userjoin from the record, where it finds a null     *)
(* pointer while that page of the record is out, and waits.                *)
Join(t) ==
  /\ Idle /\ t \in handles
  /\ IF Out(t, "context")
       THEN Abort
       ELSE /\ mpc' = "join" /\ cursor' = t
            /\ UNCHANGED <<memvars, filevars, pc, ptid, table, post, resvars, mtodo,
                           progvars, up>>

JoinReturns ==
  /\ up /\ mpc = "join" /\ post[cursor] > 0
  /\ post' = [post EXCEPT ![cursor] = @ - 1]
  /\ joined' = joined \cup {cursor}
  /\ mpc' = "idle" /\ cursor' = Meta
  /\ UNCHANGED <<memvars, filevars, pc, ptid, table, resvars, mtodo, handles, started, up>>

(* "The thread should already be joined before deletion."  The memory of   *)
(* the record goes back to crmalloc; the model does not use it again.      *)
Delete(t) ==
  LET e == node[t] IN
  /\ Idle /\ t \in handles
  /\ t \in joined
  /\ e.next \in Nodes /\ e.prev \in Nodes
  /\ node' = [[node EXCEPT ![e.prev].next = e.next] EXCEPT ![e.next].prev = e.prev]
  /\ handles' = handles \ {t}
  /\ UNCHANGED <<ctx, stk, exec, filevars, pc, ptid, table, post, resvars, mainvars,
                 started, joined, up>>

(* crheap_shutdown and crheap_shutdown_nosave begin with                   *)
(* crthread_shutdown_system: "We assume that all threads have already been *)
(* joined".                                                                *)
NotStopped == rin
Stopped == Append(rin, StopMsg)

Shutdown(how) ==
  /\ Idle
  /\ started \subseteq joined
  /\ rin' = Stopped
  /\ mpc' = how
  /\ UNCHANGED <<memvars, filevars, pc, ptid, table, post, rpc, rthr, rtodo, dumpvars, cursor,
                 mtodo, progvars, up>>

(* crheap_shutdown: NV_COMPLETED, then nvstore_checkpoint_everything.      *)
Complete ==
  /\ up /\ mpc = "save" /\ rpc = "exit"
  /\ exec' = "completed"
  /\ mtodo' = {<<Meta, "head">>} \cup ({t \in CrThreads : node[t] # Blank} \X Regions)
  /\ mpc' = "everything"
  /\ UNCHANGED <<node, ctx, stk, filevars, pc, ptid, table, post, resvars, cursor,
                 progvars, up>>

EverythingPersist(x, part) ==
  /\ up /\ mpc = "everything" /\ <<x, part>> \in mtodo
  /\ mtodo' = mtodo \ {<<x, part>>}
  /\ dnode' = IF part = "head" THEN [dnode EXCEPT ![x] = node[x]] ELSE dnode
  /\ dctx' = IF part = "context" THEN [dctx EXCEPT ![x] = ctx[x]] ELSE dctx
  /\ dstk' = IF part = "stack" THEN [dstk EXCEPT ![x] = stk[x]] ELSE dstk
  /\ dexec' = IF x = Meta THEN exec ELSE dexec
  /\ UNCHANGED <<memvars, pc, ptid, table, post, resvars, mpc, cursor, progvars, up>>

Down ==
  /\ up
  /\ \/ mpc = "everything" /\ mtodo = {} /\ UNCHANGED filevars
     \/ mpc = "nosave" /\ rpc = "exit" /\ PersistMeta
  /\ mpc' = "down"
  /\ UNCHANGED <<memvars, pc, ptid, table, post, resvars, cursor, mtodo, progvars, up>>

(***************************************************************************)
(* Boots                                                                   *)
(***************************************************************************)

(* crthread_init_system, one thread of the list after the other.  Those    *)
(* already restored run: also the one whose link to the next is read, and  *)
(* the head of its record may be out.                                      *)
BootRestore ==
  /\ up /\ mpc = "boot" /\ cursor \in CrThreads
  /\ PthreadCreate(<<cursor, "recoverystack">>)
  /\ post' = [post EXCEPT ![cursor] = 0]
  /\ handles' = handles \cup {cursor}
  /\ started' = started \cup {cursor}
  /\ mpc' = "bootnext"
  /\ UNCHANGED <<memvars, filevars, table, resvars, cursor, mtodo, joined, up>>

(* list_next, with its assertion.                                          *)
BootNext ==
  /\ up /\ mpc = "bootnext"
  /\ IF node[cursor].next = Null
       THEN Abort
       ELSE /\ cursor' = node[cursor].next
            /\ mpc' = "boot"
            /\ UNCHANGED <<memvars, filevars, pc, ptid, table, post, resvars, mtodo,
                           progvars, up>>

BootEnd ==
  /\ up /\ mpc = "boot" /\ cursor \notin CrThreads
  /\ IF cursor = Null
       THEN Abort
       ELSE /\ mpc' = "idle"
            /\ UNCHANGED <<memvars, filevars, pc, ptid, table, post, resvars, cursor,
                           mtodo, progvars, up>>

(* The file holds no half of a commit, and a whole list of threads, each   *)
(* of which either has not run or has a context.                           *)
ListIn(S) ==
  \A x \in S \cup {Meta} :
    /\ dnode[x].next \in S \cup {Meta} /\ dnode[dnode[x].next].prev = x
    /\ dnode[x].prev \in S \cup {Meta} /\ dnode[dnode[x].prev].next = x

FileWhole ==
  /\ \A t \in CrThreads : dctx[t] = NoCtx \/ dctx[t] = dstk[t]
  /\ \E S \in SUBSET CrThreads :
       ListIn(S) /\ \A t \in S : dnode[t].firstrun \/ dctx[t] # NoCtx

(* The process is killed, has aborted or was shut down, and boots again on *)
(* the same file.                                                          *)
Restart ==
  /\ Anywhere \/ FileWhole
  /\ pc' = [k \in Pthreads |-> "none"]
  /\ ptid' = [t \in CrThreads |-> NoPthread]
  /\ table' = [t \in CrThreads |-> NoPthread]
  /\ post' = [t \in CrThreads |-> 0]
  /\ rin' = <<>> /\ rpc' = "pop" /\ rthr' = NoThread /\ rtodo' = {}
  /\ rpage' = "none" /\ rcpy' = Blank
  /\ mtodo' = {}
  /\ handles' = {} /\ started' = {} /\ joined' = {}
  /\ up' = TRUE
  /\ node' = dnode /\ ctx' = dctx /\ stk' = dstk
  /\ exec' = IF dexec = "completed" THEN "completed" ELSE "resurrected"
  /\ mpc' = "boot" /\ cursor' = dnode[Meta].next
  /\ UNCHANGED filevars

(* The first boot.                                                         *)
Init ==
  /\ pc = [k \in Pthreads |-> "none"]
  /\ ptid = [t \in CrThreads |-> NoPthread]
  /\ table = [t \in CrThreads |-> NoPthread]
  /\ post = [t \in CrThreads |-> 0]
  /\ rin = <<>> /\ rpc = "pop" /\ rthr = NoThread /\ rtodo = {}
  /\ rpage = "none" /\ rcpy = Blank
  /\ mtodo = {}
  /\ handles = {} /\ started = {} /\ joined = {}
  /\ up = TRUE
  /\ node = [x \in Nodes |-> IF x = Meta THEN EmptyList ELSE Blank]
  /\ dnode = [x \in Nodes |-> Blank]
  /\ ctx = [t \in CrThreads |-> NoCtx] /\ dctx = ctx
  /\ stk = [t \in CrThreads |-> 0] /\ dstk = stk
  /\ exec = "firstrun" /\ dexec = "firstrun"
  /\ mpc = "idle" /\ cursor = Meta

(***************************************************************************)
(* The specification                                                       *)
(***************************************************************************)
Stub(k) == Insert(k) \/ FirstRun(k) \/ Resume(k) \/ Leave(k) \/ Post(k) \/ Exit(k)
Checkpoint(k) == Save(k) \/ Submit(k) \/ CpExit(k)
PthreadStep(k) == Stub(k) \/ Work(k) \/ Checkpoint(k)

Resurrector ==
  \/ ResPop \/ ResJoin \/ ResRemove \/ ResCopy \/ ResBack \/ ResRestore
  \/ \E part \in Regions : ResDump(part)

(* What the main thread does once it has entered the framework.            *)
InFramework ==
  \/ NewCheckpoint \/ Complete \/ Down \/ BootRestore \/ BootNext \/ BootEnd \/ JoinReturns
  \/ \E x \in Nodes, part \in Regions : EverythingPersist(x, part)

Main ==
  \/ InFramework
  \/ \E t \in CrThreads : New(t) \/ Fork(t) \/ Join(t) \/ Delete(t)
  \/ Shutdown("save") \/ Shutdown("nosave")

Next == (\E k \in Pthreads : PthreadStep(k)) \/ Resurrector \/ Main \/ Restart

Spec == Init /\ [][Next]_vars

(* Every thread that can run is scheduled; main is free not to call the    *)
(* framework, so only its calls in progress are fair.                      *)
Fairness ==
  /\ \A k \in Pthreads : WF_vars(PthreadStep(k))
  /\ WF_vars(Resurrector) /\ WF_vars(InFramework)

FairSpec == Spec /\ Fairness

(***************************************************************************)
(* Properties                                                              *)
(***************************************************************************)
PcStates == {"none", "insert", "setup", "run", "save", "submit", "cpexit", "leave", "post",
             "exit", "dead"}
MpcStates == {"idle", "checkpoint", "join", "save", "nosave", "everything", "down", "boot",
              "bootnext"}
ExecStates == {"firstrun", "resurrected", "completed"}

TypeOK ==
  /\ node \in [Nodes -> Link] /\ dnode \in [Nodes -> Link]
  /\ ctx \in [CrThreads -> 0..Steps \cup {NoCtx}]
  /\ dctx \in [CrThreads -> 0..Steps \cup {NoCtx}]
  /\ stk \in [CrThreads -> 0..Steps] /\ dstk \in [CrThreads -> 0..Steps]
  /\ exec \in ExecStates /\ dexec \in ExecStates
  /\ pc \in [Pthreads -> PcStates]
  /\ ptid \in [CrThreads -> Pthreads \cup {NoPthread}]
  /\ table \in [CrThreads -> Pthreads \cup {NoPthread}]
  /\ post \in [CrThreads -> 0..1]
  /\ rin \in Seq(CrThreads \cup {StopMsg})
  /\ rpc \in {"pop", "join", "remove", "commit", "exit"}
  /\ rthr \in CrThreads \cup {NoThread}
  /\ rtodo \subseteq Regions /\ rpage \in {"none", "head", "context"} /\ rcpy \in Link
  /\ mpc \in MpcStates /\ cursor \in Nodes \cup {Null}
  /\ mtodo \subseteq Nodes \X Regions
  /\ handles \subseteq CrThreads /\ started \subseteq CrThreads
  /\ joined \subseteq CrThreads
  /\ up \in BOOLEAN

(* A crthread never runs as two pthreads at once: its record, its stack    *)
(* and its place in the thread table belong to one.                        *)
OneIncarnation ==
  \A k, l \in Pthreads : OwnerOf(k) = OwnerOf(l) /\ Live(k) /\ Live(l) => k = l

(* The assertions of crthread_checkpoint (crthread.c:273) and of the       *)
(* resurrector (resurrector.c:55) hold, wherever the ids fall in the       *)
(* table, and no record is linked into the table twice.                    *)
AssertsHold ==
  /\ \A k \in Pthreads : pc[k] = "save" => Find(k) = {OwnerOf(k)}
  /\ rpc = "remove" => Find(ptid[rthr]) = {rthr}
  /\ \A k \in Pthreads : pc[k] = "insert" => table[OwnerOf(k)] = NoPthread

(* While the resurrector commits a thread nobody runs on its stack, and    *)
(* the stack is the one its context was saved on.                          *)
CommitsAtRest ==
  rpc = "commit" =>
    /\ \A k \in Pthreads : OwnerOf(k) = rthr => ~Live(k)
    /\ ctx[rthr] = stk[rthr]

(* The context a thread is about to load was saved on the stack it finds.  *)
ResumesCoherent ==
  \A k \in Pthreads :
    LET t == OwnerOf(k) IN
    pc[k] = "setup" /\ ~node[t].firstrun /\ ctx[t] # NoCtx => stk[t] = ctx[t]

(* The framework aborts, or reads a null pointer, in no other case than    *)
(* these two: at a boot main goes on from a record whose head the worker   *)
(* has dropped (list.c:79), or it joins a thread while userjoin is out     *)
(* (crthread.c:239).  No other assertion fails, no link is missing and no  *)
(* context is loaded that was never saved.                                 *)
AbortsOnlyWhileOut ==
  ~up => \/ mpc = "bootnext" /\ Out(cursor, "head")
         \/ mpc = "idle" /\ \E t \in handles : Out(t, "context")

(* What crthread_join returns is in the file: a crash does not take a      *)
(* joined thread back.                                                     *)
JoinedDurable ==
  \A t \in CrThreads :
    post[t] > 0 \/ t \in joined =>
      dctx[t] = Steps /\ dstk[t] = Steps /\ ~dnode[t].firstrun

(* The progress in the file never goes back, over crashes too.             *)
ProgressKept ==
  [][\A t \in CrThreads : dctx[t] # NoCtx => dctx'[t] # NoCtx /\ dctx'[t] >= dctx[t]]_vars

(* The threads implement tasks that survive crashes.  What is saved of a   *)
(* thread counts once its context and its stack are both in the file.      *)
InFile(t) ==
  IF dctx[t] = NoCtx THEN 0 ELSE IF dctx[t] <= dstk[t] THEN dctx[t] ELSE dstk[t]

PT == INSTANCE PersistentThreads
        WITH active <- {t \in started : post[t] = 0 /\ t \notin joined},
             progress <- stk,
             saved <- [t \in CrThreads |-> InFile(t)]

ImplementsPersistentThreads == PT!Spec

(* If the process is not killed again and again, a thread that has been    *)
(* started, or restored, finishes; a boot ends, and so does a shutdown;    *)
(* or else the process aborts, as AbortsOnlyWhileOut says.                 *)
CrashesEnd == <>[][~Restart]_vars

TasksFinish ==
  CrashesEnd => \A t \in CrThreads : t \in started ~> (post[t] > 0 \/ t \in joined \/ ~up)

CallsReturn ==
  CrashesEnd => mpc \in {"boot", "save", "nosave"} ~> (mpc \in {"idle", "down"} \/ ~up)

(* crthread.h:29, :70: a thread may be deleted once it was joined.         *)
FreedNotInUse ==
  \A t \in joined \ handles : \A k \in Pthreads : OwnerOf(k) = t => ~Live(k)
=============================================================================
