--------------------------- MODULE NvStoreProofs ----------------------------
(***************************************************************************)
(* Theorems about NvStore, for any threads, pages and values.              *)
(***************************************************************************)
EXTENDS NvStoreRaces, FiniteSetTheorems, TLAPS

(* The steps of Next, one per line.                                        *)
StepOf(t) ==
  \/ PageFault(t)
  \/ LockSet(t) \/ LockSeek(t) \/ LockWrite(t)
  \/ UnlockSet(t) \/ UnlockSeek(t) \/ UnlockWrite(t)
  \/ DumpCopy(t) \/ DumpSeek(t) \/ DumpWrite(t) \/ DumpDrop(t) \/ DumpBack(t)

UserOnly(u) ==
  \/ \E p \in Pages, v \in Vals : Store(u, p, v)
  \/ \E R \in SUBSET Access[u] : Commit(u, R)
  \/ MetaCheckpoint(u) \/ MetaSubmit(u) \/ CommitReturns(u)
  \/ CheckpointEverything(u) \/ EverythingNext(u)
  \/ Shutdown(u) \/ PushKill(u) \/ JoinUffd(u) \/ JoinCr(u) \/ Teardown(u)

LEMMA NextSteps ==
  ASSUME Next
  PROVE  \/ \E t \in Threads : StepOf(t)
         \/ \E u \in Users : UserOnly(u)
         \/ UffdPoll \/ (\E p \in Pages : UffdRead(p)) \/ UffdCopy
         \/ CrPop \/ CrNext \/ CrPost \/ Restart
BY DEF Next, UffdStep, CrStep, UserStep, InCall, MetaWord, DumpByPage, StepOf, UserOnly, Threads

-----------------------------------------------------------------------------
(***************************************************************************)
(* Type correctness                                                        *)
(***************************************************************************)
LEMMA PageTypes ==
  /\ ZeroPage \in Page
  /\ \A c \in Page, w \in 0..1 : WithWord(c, w) \in Page
  /\ \A c \in Page, v \in Vals \cup {Junk} : WithData(c, v) \in Page
BY DEF Page, ZeroPage, WithWord, WithData

LEMMA MemTypesStep ==
  ASSUME Types, [Next]_vars
  PROVE  MemTypes'
<1> USE ConstantsAssumption DEF Types, MemTypes
<1>1. ASSUME NEW t \in Threads, StepOf(t) PROVE MemTypes'
  <2>1. CASE PageFault(t) \/ LockSeek(t) \/ UnlockSeek(t)
    BY <2>1 DEF PageFault, LockSeek, UnlockSeek, Seek, memvars, filevars, dumpvars
  <2>2. CASE LockSet(t) \/ UnlockSet(t)
    BY <2>2, PageTypes DEF LockSet, UnlockSet, SetWord, filevars, dumpvars
  <2>3. CASE LockWrite(t) \/ UnlockWrite(t)
    <3>1. mem[Meta].wl \in 0..1
      BY DEF Page
    <3> QED BY <2>3, <3>1, PageTypes DEF LockWrite, UnlockWrite, WriteWord, Spoil, memvars, dumpvars
  <2>4. CASE DumpCopy(t)
    BY <2>4 DEF DumpCopy, memvars, filevars
  <2>5. CASE DumpSeek(t)
    <3>1. cur[t] \in Pages
      BY <2>5 DEF DumpSeek, Seek, PcTypes, Dumping
    <3> QED BY <2>5, <3>1 DEF DumpSeek, Seek, memvars, filevars, dumpvars
  <2>6. CASE DumpWrite(t)
    <3>1. cur[t] \in Pages
      BY <2>6 DEF DumpWrite
    <3>2. mem[cur[t]] \in Page
      BY <3>1
    <3> QED BY <2>6, <3>1, <3>2, PageTypes DEF DumpWrite, WritePage, Spoil, memvars, dumpvars
  <2>7. CASE DumpDrop(t)
    BY <2>7, PageTypes DEF DumpDrop, filevars, dumpvars
  <2>8. CASE DumpBack(t)
    BY <2>8, PageTypes DEF DumpBack, CopyBack, filevars
  <2> QED BY <1>1, <2>1, <2>2, <2>3, <2>4, <2>5, <2>6, <2>7, <2>8 DEF StepOf
<1>2. ASSUME NEW u \in Users, UserOnly(u) PROVE MemTypes'
  <2>1. ASSUME NEW p \in Pages, NEW v \in Vals, Store(u, p, v) PROVE MemTypes'
    BY <2>1, PageTypes DEF Store, filevars, dumpvars
  <2>2. ASSUME NEW R \in SUBSET Access[u], Commit(u, R) PROVE MemTypes'
    BY <2>2 DEF Commit, memvars, filevars, dumpvars
  <2>3. CASE MetaCheckpoint(u) \/ CheckpointEverything(u) \/ Shutdown(u)
    BY <2>3 DEF MetaCheckpoint, CheckpointEverything, Shutdown, Start, memvars, filevars
  <2>4. CASE MetaSubmit(u) \/ CommitReturns(u) \/ EverythingNext(u)
    BY <2>4 DEF MetaSubmit, CommitReturns, EverythingNext, memvars, filevars, dumpvars
  <2>5. CASE PushKill(u) \/ JoinUffd(u) \/ JoinCr(u) \/ Teardown(u)
    BY <2>5 DEF PushKill, JoinUffd, JoinCr, Teardown, ShutdownStep, memvars, filevars, dumpvars
  <2> QED BY <1>2, <2>1, <2>2, <2>3, <2>4, <2>5 DEF UserOnly
<1>3. CASE UffdPoll \/ (\E p \in Pages : UffdRead(p)) \/ UffdCopy
  <2>1. CASE UffdCopy
    BY <2>1, PageTypes DEF UffdCopy, UffdTypes, filevars, dumpvars
  <2> QED BY <1>3, <2>1 DEF UffdPoll, UffdRead, Logged, memvars, filevars, dumpvars
<1>4. CASE CrPop \/ CrNext \/ CrPost
  BY <1>4 DEF CrPop, CrNext, CrPost, memvars, filevars, dumpvars
<1>5. CASE Restart
  <2>1. PICK v \in Vals \cup {nvfs[Meta].data} :
          mem' = [nvfs EXCEPT ![Meta] = WithData(@, v)]
    BY <1>5 DEF Restart
  <2>2. WithData(nvfs[Meta], v) \in Page
    BY DEF WithData, Page
  <2>3. mem' \in [Pages -> Page]
    BY <2>1, <2>2
  <2> QED BY <1>5, <2>3, PageTypes DEF Restart
<1>6. CASE UNCHANGED vars
  BY <1>6 DEF vars, memvars, filevars, dumpvars
<1> QED BY <1>1, <1>2, <1>3, <1>4, <1>5, <1>6, NextSteps

LEMMA UffdTypesStep ==
  ASSUME Types, [Next]_vars
  PROVE  UffdTypes'
<1> USE ConstantsAssumption DEF Types, UffdTypes
<1>1. ASSUME NEW t \in Threads, StepOf(t) PROVE UffdTypes'
  <2>1. CASE PageFault(t)
    <3>1. Touches(t) \subseteq Pages
      <4>1. cur[t] = NoPage \/ cur[t] \in Pages
        BY DEF PcTypes
      <4>2. pc[t] = "idle" => t \in Users
        BY DEF PcTypes, Threads, CrStates, FileStates
      <4>3. pc[t] \in {"copy", "write", "back"} => cur[t] # NoPage
        BY DEF PcTypes, Dumping
      <4> QED BY <4>1, <4>2, <4>3 DEF Touches
    <3> QED BY <2>1, <3>1 DEF PageFault, uffdvars
  <2>2. CASE \/ LockSet(t) \/ LockSeek(t) \/ LockWrite(t)
             \/ UnlockSet(t) \/ UnlockSeek(t) \/ UnlockWrite(t)
    BY <2>2 DEF LockSet, LockSeek, LockWrite, UnlockSet, UnlockSeek, UnlockWrite, SetWord,
                Seek, uffdvars
  <2>3. CASE DumpCopy(t) \/ DumpSeek(t) \/ DumpWrite(t) \/ DumpDrop(t) \/ DumpBack(t)
    BY <2>3 DEF DumpCopy, DumpSeek, Seek, DumpWrite, DumpDrop, DumpBack, uffdvars
  <2> QED BY <1>1, <2>1, <2>2, <2>3 DEF StepOf
<1>2. ASSUME NEW u \in Users, UserOnly(u) PROVE UffdTypes'
  <2>1. ASSUME NEW p \in Pages, NEW v \in Vals, Store(u, p, v) PROVE UffdTypes'
    BY <2>1 DEF Store, uffdvars
  <2>2. ASSUME NEW R \in SUBSET Access[u], Commit(u, R) PROVE UffdTypes'
    BY <2>2 DEF Commit, uffdvars
  <2>3. CASE MetaCheckpoint(u) \/ CheckpointEverything(u) \/ Shutdown(u)
    BY <2>3 DEF MetaCheckpoint, CheckpointEverything, Shutdown, Start, uffdvars
  <2>4. CASE MetaSubmit(u) \/ CommitReturns(u) \/ EverythingNext(u)
    BY <2>4 DEF MetaSubmit, CommitReturns, EverythingNext, uffdvars
  <2>5. CASE PushKill(u) \/ JoinUffd(u) \/ JoinCr(u) \/ Teardown(u)
    BY <2>5 DEF PushKill, JoinUffd, JoinCr, Teardown, ShutdownStep, uffdvars
  <2> QED BY <1>2, <2>1, <2>2, <2>3, <2>4, <2>5 DEF UserOnly
<1>3. CASE UffdPoll
  BY <1>3 DEF UffdPoll
<1>4. ASSUME NEW p \in Pages, UffdRead(p) PROVE UffdTypes'
  BY <1>4 DEF UffdRead
<1>5. CASE UffdCopy
  BY <1>5 DEF UffdCopy, Wake, AfterFault
<1>6. CASE CrPop \/ CrNext \/ CrPost
  BY <1>6 DEF CrPop, CrNext, CrPost, uffdvars
<1>7. CASE Restart
  BY <1>7 DEF Restart
<1>8. CASE UNCHANGED vars
  BY <1>8 DEF vars, uffdvars
<1> QED BY <1>1, <1>2, <1>3, <1>4, <1>5, <1>6, <1>7, <1>8, NextSteps

LEMMA JobTypesStep ==
  ASSUME Types, [Next]_vars
  PROVE  JobTypes'
<1> USE ConstantsAssumption DEF Types, JobTypes, Threads
<1>1. ASSUME NEW t \in Threads, StepOf(t) PROVE JobTypes'
  <2>1. CASE PageFault(t) \/ LockSet(t) \/ LockSeek(t) \/ LockWrite(t) \/ UnlockSet(t) \/ UnlockSeek(t)
    BY <2>1 DEF PageFault, LockSet, LockSeek, LockWrite, UnlockSet, UnlockSeek, SetWord, Seek,
                reqvars, dumpvars
  <2>2. CASE UnlockWrite(t)
    BY <2>2 DEF UnlockWrite, reqvars, dumpvars
  <2>3. CASE DumpCopy(t) \/ DumpSeek(t) \/ DumpWrite(t) \/ DumpDrop(t) \/ DumpBack(t)
    BY <2>3 DEF DumpCopy, DumpSeek, Seek, DumpWrite, DumpDrop, DumpBack, reqvars, dumpvars
  <2> QED BY <1>1, <2>1, <2>2, <2>3 DEF StepOf
<1>2. ASSUME NEW u \in Users, UserOnly(u) PROVE JobTypes'
  <2>1. ASSUME NEW p \in Pages, NEW v \in Vals, Store(u, p, v) PROVE JobTypes'
    BY <2>1 DEF Store, reqvars, dumpvars
  <2>2. ASSUME NEW R \in SUBSET Access[u], Commit(u, R) PROVE JobTypes'
    <3>1. Append(crinput, u) \in Seq(Users \cup {Kill})
      OBVIOUS
    <3> QED BY <2>2, <3>1 DEF Commit, Submit, Push, dumpvars
  <2>3. CASE MetaCheckpoint(u) \/ Shutdown(u)
    BY <2>3 DEF MetaCheckpoint, Shutdown, Start, reqvars
  <2>4. CASE CheckpointEverything(u)
    BY <2>4 DEF CheckpointEverything, Start, reqvars, MemTypes
  <2>5. CASE MetaSubmit(u)
    BY <2>5 DEF MetaSubmit, Submit, Push, dumpvars
  <2>6. CASE CommitReturns(u)
    BY <2>6 DEF CommitReturns, dumpvars
  <2>7. CASE EverythingNext(u)
    <3>1. CASE todo[u] = {}
      BY <2>7, <3>1 DEF EverythingNext, reqvars
    <3>2. CASE todo[u] # {}
      <4>1. PICK p \in todo[u] : todo' = [todo EXCEPT ![u] = @ \ {p}]
        BY <2>7, <3>2 DEF EverythingNext
      <4>2. todo' \in [Threads -> SUBSET Pages]
        BY <4>1 DEF Threads
      <4> QED BY <2>7, <4>2 DEF EverythingNext, reqvars
    <3> QED BY <3>1, <3>2
  <2>8. CASE PushKill(u)
    <3>1. Append(crinput, Kill) \in Seq(Users \cup {Kill})
      OBVIOUS
    <3> QED BY <2>8, <3>1 DEF PushKill, Push, ShutdownStep, dumpvars
  <2>9. CASE JoinUffd(u) \/ JoinCr(u) \/ Teardown(u)
    BY <2>9 DEF JoinUffd, JoinCr, Teardown, ShutdownStep, dumpvars
  <2> QED BY <1>2, <2>1, <2>2, <2>3, <2>4, <2>5, <2>6, <2>7, <2>8, <2>9 DEF UserOnly
<1>3. CASE UffdPoll \/ (\E p \in Pages : UffdRead(p)) \/ UffdCopy
  BY <1>3 DEF UffdPoll, UffdRead, UffdCopy, reqvars, dumpvars
<1>4. CASE CrPop
  <2>1. Head(crinput) \in Users \cup {Kill} /\ Tail(crinput) \in Seq(Users \cup {Kill})
    BY <1>4 DEF CrPop
  <2> QED BY <1>4, <2>1 DEF CrPop
<1>5. CASE CrNext
  BY <1>5 DEF CrNext, reqvars
<1>6. CASE CrPost
  <2>1. finished' \in [Users -> Nat]
    <3>1. CASE serving \in Users
      <4>1. finished[serving] + 1 \in Nat
        BY <3>1
      <4> QED BY <1>6, <3>1, <4>1 DEF CrPost, Posted
    <3>2. CASE serving \notin Users
      BY <1>6, <3>2 DEF CrPost, Posted
    <3> QED BY <3>1, <3>2
  <2> QED BY <1>6, <2>1 DEF CrPost, dumpvars
<1>7. CASE Restart
  BY <1>7 DEF Restart
<1>8. CASE UNCHANGED vars
  BY <1>8 DEF vars, reqvars, dumpvars
<1> QED BY <1>1, <1>2, <1>3, <1>4, <1>5, <1>6, <1>7, <1>8, NextSteps

LEMMA PcTypesStep ==
  ASSUME Types, [Next]_vars
  PROVE  PcTypes'
<1> USE ConstantsAssumption DEF Types, PcTypes, Threads, CrStates, UserStates, FileStates,
        PcStates, Dumping
<1>1. ASSUME NEW t \in Threads, StepOf(t) PROVE PcTypes'
  <2>1. CASE PageFault(t)
    BY <2>1 DEF PageFault, dumpvars
  <2>2. CASE LockSet(t) \/ UnlockSet(t)
    BY <2>2 DEF LockSet, UnlockSet, SetWord, dumpvars
  <2>3. CASE LockSeek(t) \/ UnlockSeek(t) \/ DumpSeek(t)
    BY <2>3 DEF LockSeek, UnlockSeek, DumpSeek, Seek, dumpvars
  <2>4. CASE LockWrite(t)
    BY <2>4 DEF LockWrite, dumpvars
  <2>5. CASE UnlockWrite(t)
    BY <2>5 DEF UnlockWrite, dumpvars
  <2>6. CASE DumpCopy(t) \/ DumpWrite(t) \/ DumpDrop(t)
    BY <2>6 DEF DumpCopy, DumpWrite, DumpDrop, dumpvars
  <2>7. CASE DumpBack(t)
    BY <2>7 DEF DumpBack
  <2> QED BY <1>1, <2>1, <2>2, <2>3, <2>4, <2>5, <2>6, <2>7 DEF StepOf
<1>2. ASSUME NEW u \in Users, UserOnly(u) PROVE PcTypes'
  <2>1. ASSUME NEW p \in Pages, NEW v \in Vals, Store(u, p, v) PROVE PcTypes'
    BY <2>1 DEF Store, dumpvars
  <2>2. ASSUME NEW R \in SUBSET Access[u], Commit(u, R) PROVE PcTypes'
    BY <2>2 DEF Commit, dumpvars, Idle
  <2>3. CASE MetaCheckpoint(u) \/ CheckpointEverything(u) \/ Shutdown(u)
    BY <2>3 DEF MetaCheckpoint, CheckpointEverything, Shutdown, Start, Idle
  <2>4. CASE MetaSubmit(u) \/ CommitReturns(u)
    BY <2>4 DEF MetaSubmit, CommitReturns, dumpvars
  <2>5. CASE EverythingNext(u)
    <3>1. CASE todo[u] = {}
      BY <2>5, <3>1 DEF EverythingNext
    <3>2. CASE todo[u] # {}
      <4>1. PICK p \in todo[u] : cur' = [cur EXCEPT ![u] = p] /\ pc' = [pc EXCEPT ![u] = "copy"]
        BY <2>5, <3>2 DEF EverythingNext
      <4>2. p \in Pages
        BY DEF JobTypes
      <4> QED BY <4>1, <4>2
    <3> QED BY <3>1, <3>2
  <2>6. CASE PushKill(u) \/ JoinUffd(u) \/ JoinCr(u) \/ Teardown(u)
    BY <2>6 DEF PushKill, JoinUffd, JoinCr, Teardown, ShutdownStep, dumpvars
  <2> QED BY <1>2, <2>1, <2>2, <2>3, <2>4, <2>5, <2>6 DEF UserOnly
<1>3. CASE UffdPoll \/ (\E p \in Pages : UffdRead(p)) \/ UffdCopy
  BY <1>3 DEF UffdPoll, UffdRead, UffdCopy, dumpvars
<1>4. CASE CrPop \/ CrPost
  BY <1>4 DEF CrPop, CrPost, dumpvars
<1>5. CASE CrNext
  <2>1. CASE todo[CrWorker] = {}
    BY <1>5, <2>1 DEF CrNext, ListDone
  <2>2. CASE todo[CrWorker] # {}
    <3>1. PICK p \in todo[CrWorker] :
            IF p \in dirty THEN /\ cur' = [cur EXCEPT ![CrWorker] = p]
                               /\ pc'  = [pc EXCEPT ![CrWorker] = "copy"]
                          ELSE UNCHANGED <<cur, pc>>
      BY <1>5, <2>2 DEF CrNext, ListDone
    <3>2. p \in Pages
      BY DEF JobTypes
    <3> QED BY <3>1, <3>2
  <2> QED BY <2>1, <2>2
<1>6. CASE Restart
  BY <1>6 DEF Restart
<1>7. CASE UNCHANGED vars
  BY <1>7 DEF vars, dumpvars
<1> QED BY <1>1, <1>2, <1>3, <1>4, <1>5, <1>6, <1>7, NextSteps

LEMMA TypesInit == ASSUME Init PROVE Types
<1> USE ConstantsAssumption DEF Init
<1>1. MemTypes
  BY PageTypes DEF MemTypes, Page, ZeroPage
<1>2. UffdTypes
  BY DEF UffdTypes
<1>3. JobTypes
  BY DEF JobTypes
<1>4. PcTypes
  BY DEF PcTypes, Threads, CrStates, UserStates, FileStates, PcStates, Dumping
<1> QED BY <1>1, <1>2, <1>3, <1>4 DEF Types

LEMMA TypesStep ==
  ASSUME Types, [Next]_vars
  PROVE  Types'
BY MemTypesStep, UffdTypesStep, JobTypesStep, PcTypesStep DEF Types

-----------------------------------------------------------------------------
(***************************************************************************)
(* A commit is answered once                                               *)
(***************************************************************************)

(* A step that leaves the queue and the semaphores alone and wakes no      *)
(* waiting thread.                                                         *)
LEMMA QueueFrame ==
  ASSUME Queue,
         UNCHANGED <<crinput, serving, finished>>,
         \A u \in Users : pc[u] = "wait" => pc'[u] = "wait",
         pc'[CrWorker] \in {"pop", "exit"} <=> pc[CrWorker] \in {"pop", "exit"}
  PROVE  Queue'
BY DEF Queue

LEMMA QueuePush ==
  ASSUME Types, Queue, NEW m \in Users \cup {Kill},
         Push(m), UNCHANGED <<serving, finished>>,
         m \in Users => pc[m] # "wait" /\ pc'[m] = "wait",
         \A u \in Users : pc[u] = "wait" => pc'[u] = "wait",
         pc'[CrWorker] = pc[CrWorker]
  PROVE  Queue'
<1> USE ConstantsAssumption DEF Types, JobTypes
<1>1. crinput' = Append(crinput, m) /\ crinput \in Seq(Users \cup {Kill})
  BY DEF Push
<1>2. /\ Len(crinput') = Len(crinput) + 1 /\ Len(crinput) \in Nat
      /\ \A i \in 1..Len(crinput) : crinput'[i] = crinput[i]
      /\ crinput'[Len(crinput')] = m
  BY <1>1
<1>3. m \in Users => \A i \in 1..Len(crinput) : crinput[i] # m
  BY DEF Queue
<1>4. m \in Users => finished[m] = 0 /\ serving # m
  <2>1. m \in Users => finished[m] \in Nat
    OBVIOUS
  <2> QED BY <2>1 DEF Queue
<1>5. ASSUME NEW i \in 1..Len(crinput'), crinput'[i] \in Users
      PROVE  /\ pc'[crinput'[i]] = "wait" /\ finished'[crinput'[i]] = 0
             /\ serving' # crinput'[i]
             /\ \A j \in 1..Len(crinput') : crinput'[j] = crinput'[i] => j = i
  <2>1. CASE i = Len(crinput')
    <3>1. crinput'[i] = m
      BY <2>1, <1>2
    <3>2. \A j \in 1..Len(crinput') : crinput'[j] = m => j = i
      BY <2>1, <3>1, <1>2, <1>3, <1>5
    <3> QED BY <3>1, <3>2, <1>4, <1>5
  <2>2. CASE i # Len(crinput')
    <3>1. i \in 1..Len(crinput)
      BY <2>2, <1>2
    <3>2. crinput'[i] = crinput[i] /\ crinput[i] \in Users
      BY <3>1, <1>2, <1>5
    <3>3. /\ pc[crinput[i]] = "wait" /\ finished[crinput[i]] = 0 /\ serving # crinput[i]
          /\ \A j \in 1..Len(crinput) : crinput[j] = crinput[i] => j = i
      BY <3>1, <3>2 DEF Queue
    <3>4. \A j \in 1..Len(crinput') : crinput'[j] = crinput[i] => j = i
      <4> SUFFICES ASSUME NEW j \in 1..Len(crinput'), crinput'[j] = crinput[i] PROVE j = i
        OBVIOUS
      <4>1. j \in 1..Len(crinput) \/ j = Len(crinput')
        BY <1>2
      <4>2. CASE j \in 1..Len(crinput)
        BY <4>2, <3>3, <1>2
      <4>3. CASE j = Len(crinput')
        BY <4>3, <1>2, <1>3, <3>1, <3>2
      <4> QED BY <4>1, <4>2, <4>3
    <3> QED BY <3>2, <3>3, <3>4
  <2> QED BY <2>1, <2>2
<1>6. serving' \in Users => pc'[serving'] = "wait" /\ finished'[serving'] = 0
  BY DEF Queue
<1>7. serving' = Nobody <=> pc'[CrWorker] \in {"pop", "exit"}
  BY DEF Queue
<1>8. \A u \in Users : finished'[u] # 0 => pc'[u] = "wait" /\ finished'[u] = 1
  BY DEF Queue
<1> QED BY <1>5, <1>6, <1>7, <1>8 DEF Queue

LEMMA QueueStep ==
  ASSUME Types, Queue, [Next]_vars
  PROVE  Queue'
<1> USE ConstantsAssumption DEF Types, Threads
<1>1. ASSUME NEW t \in Threads, StepOf(t) PROVE Queue'
  <2>1. /\ UNCHANGED <<crinput, serving, finished>>
        /\ \A u \in Users : pc[u] = "wait" => pc'[u] = "wait"
        /\ pc'[CrWorker] \in {"pop", "exit"} <=> pc[CrWorker] \in {"pop", "exit"}
    <3>1. CASE PageFault(t)
      BY <3>1 DEF PageFault, reqvars
    <3>2. CASE LockSet(t) \/ UnlockSet(t)
      BY <3>2 DEF LockSet, UnlockSet, SetWord, reqvars, PcTypes
    <3>3. CASE LockSeek(t) \/ UnlockSeek(t) \/ DumpSeek(t)
      BY <3>3 DEF LockSeek, UnlockSeek, DumpSeek, Seek, reqvars, PcTypes
    <3>4. CASE LockWrite(t)
      BY <3>4 DEF LockWrite, reqvars, PcTypes
    <3>5. CASE UnlockWrite(t)
      BY <3>5 DEF UnlockWrite, reqvars, PcTypes
    <3>6. CASE DumpCopy(t) \/ DumpWrite(t) \/ DumpDrop(t) \/ DumpBack(t)
      BY <3>6 DEF DumpCopy, DumpWrite, DumpDrop, DumpBack, reqvars, PcTypes
    <3> QED BY <1>1, <3>1, <3>2, <3>3, <3>4, <3>5, <3>6 DEF StepOf
  <2> QED BY <2>1, QueueFrame
<1>2. ASSUME NEW u \in Users, UserOnly(u) PROVE Queue'
  <2>1. ASSUME NEW p \in Pages, NEW v \in Vals, Store(u, p, v) PROVE Queue'
    BY <2>1, QueueFrame DEF Store, reqvars
  <2>2. CASE (\E R \in SUBSET Access[u] : Commit(u, R)) \/ MetaSubmit(u)
    <3>1. Push(u) /\ UNCHANGED <<serving, finished>> /\ pc[u] # "wait"
          /\ pc' = [pc EXCEPT ![u] = "wait"]
      BY <2>2 DEF Commit, MetaSubmit, Submit, Idle
    <3> QED BY <3>1, QueuePush DEF PcTypes
  <2>3. CASE MetaCheckpoint(u) \/ CheckpointEverything(u) \/ Shutdown(u)
    <3>1. UNCHANGED <<crinput, serving, finished>> /\ pc[u] = "idle" /\ \E s \in {"lock", "pushkill"} : pc' = [pc EXCEPT ![u] = s]
      BY <2>3 DEF MetaCheckpoint, CheckpointEverything, Shutdown, Start, reqvars, Idle
    <3> QED BY <3>1, QueueFrame DEF PcTypes
  <2>4. CASE CommitReturns(u)
    <3>1. finished[u] = 1 /\ pc[u] = "wait" /\ UNCHANGED <<crinput, serving>>
          /\ finished' = [finished EXCEPT ![u] = 0]
          /\ \A w \in Threads \ {u} : pc'[w] = pc[w]
      BY <2>4 DEF CommitReturns, PcTypes
    <3>2. serving # u /\ \A i \in 1..Len(crinput) : crinput[i] # u
      BY <3>1 DEF Queue
    <3>3. finished'[u] = 0 /\ \A w \in Users \ {u} : finished'[w] = finished[w]
      BY <3>1 DEF JobTypes
    <3> QED BY <3>1, <3>2, <3>3 DEF Queue
  <2>5. CASE EverythingNext(u) \/ JoinUffd(u) \/ JoinCr(u) \/ Teardown(u)
    <3>1. UNCHANGED <<crinput, serving, finished>> /\ pc[u] # "wait"
          /\ \A w \in Threads \ {u} : pc'[w] = pc[w]
      BY <2>5 DEF EverythingNext, JoinUffd, JoinCr, Teardown, ShutdownStep, reqvars, PcTypes
    <3> QED BY <3>1, QueueFrame
  <2>6. CASE PushKill(u)
    <3>1. Push(Kill) /\ UNCHANGED <<serving, finished>> /\ pc[u] # "wait"
          /\ \A w \in Threads \ {u} : pc'[w] = pc[w]
      BY <2>6 DEF PushKill, ShutdownStep, PcTypes
    <3> QED BY <3>1, QueuePush
  <2> QED BY <1>2, <2>1, <2>2, <2>3, <2>4, <2>5, <2>6 DEF UserOnly
<1>3. CASE UffdPoll \/ (\E p \in Pages : UffdRead(p)) \/ UffdCopy
  BY <1>3, QueueFrame DEF UffdPoll, UffdRead, UffdCopy, reqvars
<1>4. CASE CrPop
  <2> DEFINE m == Head(crinput)
  <2>1. crinput # <<>> /\ crinput' = Tail(crinput) /\ serving = Nobody /\ finished' = finished
        /\ \A u \in Users : pc'[u] = pc[u]
    BY <1>4 DEF CrPop, Queue, PcTypes
  <2>2. /\ m = crinput[1] /\ m \in Users \cup {Kill} /\ 1 \in 1..Len(crinput)
        /\ Len(crinput') = Len(crinput) - 1 /\ Len(crinput) \in Nat
        /\ \A i \in 1..Len(crinput') : i + 1 \in 1..Len(crinput) /\ crinput'[i] = crinput[i + 1]
    BY <2>1 DEF JobTypes
  <2>3. \/ m = Kill /\ serving' = Nobody /\ pc'[CrWorker] = "exit"
        \/ m \in Users /\ serving' = m /\ pc'[CrWorker] = "lock"
    BY <1>4, <2>1, <2>2 DEF CrPop, PcTypes
  <2>4. ASSUME NEW i \in 1..Len(crinput'), crinput'[i] \in Users
        PROVE  /\ pc'[crinput'[i]] = "wait" /\ finished'[crinput'[i]] = 0
               /\ serving' # crinput'[i]
               /\ \A j \in 1..Len(crinput') : crinput'[j] = crinput'[i] => j = i
    <3>1. crinput'[i] = crinput[i + 1] /\ i + 1 \in 1..Len(crinput) /\ i + 1 # 1
      BY <2>2
    <3>2. /\ pc[crinput[i + 1]] = "wait" /\ finished[crinput[i + 1]] = 0
          /\ \A j \in 1..Len(crinput) : crinput[j] = crinput[i + 1] => j = i + 1
      BY <2>4, <3>1 DEF Queue
    <3>3. crinput[1] # crinput[i + 1]
      BY <3>1, <3>2, <2>2
    <3>4. \A j \in 1..Len(crinput') : crinput'[j] = crinput'[i] => j = i
      BY <3>1, <3>2, <2>2
    <3> QED BY <2>1, <2>2, <2>3, <2>4, <3>1, <3>2, <3>3, <3>4
  <2>5. m \in Users => pc[m] = "wait" /\ finished[m] = 0
    BY <2>2 DEF Queue
  <2>6. \A u \in Users : finished'[u] # 0 => pc'[u] = "wait" /\ finished'[u] = 1
    BY <2>1 DEF Queue
  <2> QED BY <2>1, <2>3, <2>4, <2>5, <2>6 DEF Queue
<1>5. CASE CrNext
  BY <1>5, QueueFrame DEF CrNext, reqvars, PcTypes
<1>6. CASE CrPost
  <2>1. serving \in Users /\ serving' = Nobody /\ crinput' = crinput
        /\ pc' = [pc EXCEPT ![CrWorker] = "pop"]
    BY <1>6 DEF CrPost, Queue, JobTypes
  <2>2. finished[serving] = 0 /\ pc[serving] = "wait"
    BY <2>1 DEF Queue
  <2>3. finished' = [finished EXCEPT ![serving] = 1]
    BY <1>6, <2>1, <2>2 DEF CrPost, Posted, JobTypes
  <2>4. pc'[CrWorker] = "pop" /\ \A u \in Users : pc'[u] = pc[u]
    BY <2>1 DEF PcTypes
  <2>5. finished'[serving] = 1 /\ \A u \in Users \ {serving} : finished'[u] = finished[u]
    <3> DEFINE f == finished
    <3>1. f \in [Users -> Nat] /\ finished' = [f EXCEPT ![serving] = 1]
      BY <2>3 DEF JobTypes
    <3> QED BY <3>1, <2>1
  <2>6. \A i \in 1..Len(crinput) : crinput[i] # serving
    BY <2>1 DEF Queue
  <2> QED BY <2>1, <2>2, <2>4, <2>5, <2>6 DEF Queue
<1>7. CASE Restart
  BY <1>7 DEF Restart, Queue
<1>8. CASE UNCHANGED vars
  BY <1>8, QueueFrame DEF vars, reqvars
<1> QED BY <1>1, <1>2, <1>3, <1>4, <1>5, <1>6, <1>7, <1>8, NextSteps

LEMMA QueueInvariant == Spec => [](Types /\ Queue)
<1>1. Init => Types /\ Queue
  <2> SUFFICES ASSUME Init PROVE Types /\ Queue
    OBVIOUS
  <2>1. Queue
    BY ConstantsAssumption DEF Init, Queue, Threads
  <2> QED BY <2>1, TypesInit
<1>2. Types /\ Queue /\ [Next]_vars => (Types /\ Queue)'
  BY TypesStep, QueueStep
<1> QED BY <1>1, <1>2, PTL DEF Spec

(* A step that takes nobody out of the queue, the service or the answered  *)
(* and puts nobody to sleep.                                               *)
LEMMA KeptFrame ==
  ASSUME Kept, UNCHANGED <<crinput, serving, finished>>,
         \A u \in Users : pc'[u] = "wait" => pc[u] = "wait"
  PROVE  Kept'
BY DEF Kept

LEMMA KeptPush ==
  ASSUME Types, Kept, NEW m \in Users \cup {Kill}, Push(m), UNCHANGED <<serving, finished>>,
         \A u \in Users \ {m} : pc'[u] = "wait" => pc[u] = "wait"
  PROVE  Kept'
<1>1. crinput \in Seq(Users \cup {Kill}) /\ crinput' = Append(crinput, m)
  BY DEF Types, JobTypes, Push
<1>2. /\ Len(crinput') = Len(crinput) + 1 /\ Len(crinput) \in Nat
      /\ \A i \in 1..Len(crinput) : i \in 1..Len(crinput') /\ crinput'[i] = crinput[i]
      /\ Len(crinput') \in 1..Len(crinput') /\ crinput'[Len(crinput')] = m
  BY <1>1
<1> QED BY <1>2 DEF Kept

LEMMA KeptStep ==
  ASSUME Types, Queue, Kept, [Next]_vars
  PROVE  Kept'
<1> USE ConstantsAssumption DEF Types, Threads
<1>1. ASSUME NEW t \in Threads, StepOf(t) PROVE Kept'
  <2>1. /\ UNCHANGED <<crinput, serving, finished>>
        /\ \A u \in Users : pc'[u] = "wait" => pc[u] = "wait"
    <3>1. CASE PageFault(t)
      BY <3>1 DEF PageFault, reqvars
    <3>2. CASE LockSet(t) \/ UnlockSet(t)
      BY <3>2 DEF LockSet, UnlockSet, SetWord, reqvars, PcTypes
    <3>3. CASE LockSeek(t) \/ UnlockSeek(t) \/ DumpSeek(t)
      BY <3>3 DEF LockSeek, UnlockSeek, DumpSeek, Seek, reqvars, PcTypes
    <3>4. CASE LockWrite(t) \/ UnlockWrite(t)
      BY <3>4 DEF LockWrite, UnlockWrite, reqvars, PcTypes
    <3>5. CASE DumpCopy(t) \/ DumpWrite(t) \/ DumpDrop(t) \/ DumpBack(t)
      BY <3>5 DEF DumpCopy, DumpWrite, DumpDrop, DumpBack, reqvars, PcTypes
    <3> QED BY <1>1, <3>1, <3>2, <3>3, <3>4, <3>5 DEF StepOf
  <2> QED BY <2>1, KeptFrame
<1>2. ASSUME NEW u \in Users, UserOnly(u) PROVE Kept'
  <2>1. ASSUME NEW p \in Pages, NEW v \in Vals, Store(u, p, v) PROVE Kept'
    BY <2>1, KeptFrame DEF Store, reqvars
  <2>2. CASE (\E R \in SUBSET Access[u] : Commit(u, R)) \/ MetaSubmit(u)
    <3>1. Push(u) /\ UNCHANGED <<serving, finished>> /\ pc' = [pc EXCEPT ![u] = "wait"]
      BY <2>2 DEF Commit, MetaSubmit, Submit
    <3> QED BY <3>1, KeptPush DEF PcTypes
  <2>3. CASE MetaCheckpoint(u) \/ CheckpointEverything(u) \/ Shutdown(u)
    <3>1. /\ UNCHANGED <<crinput, serving, finished>>
          /\ \E s \in {"lock", "pushkill"} : pc' = [pc EXCEPT ![u] = s]
      BY <2>3 DEF MetaCheckpoint, CheckpointEverything, Shutdown, Start, reqvars
    <3> QED BY <3>1, KeptFrame DEF PcTypes
  <2>4. CASE CommitReturns(u)
    <3>1. /\ UNCHANGED <<crinput, serving>> /\ finished' = [finished EXCEPT ![u] = 0]
          /\ pc'[u] # "wait" /\ \A w \in Threads \ {u} : pc'[w] = pc[w]
      BY <2>4 DEF CommitReturns, PcTypes
    <3>2. \A w \in Users \ {u} : finished'[w] = finished[w]
      BY <3>1 DEF JobTypes
    <3> QED BY <3>1, <3>2 DEF Kept
  <2>5. CASE EverythingNext(u) \/ JoinUffd(u) \/ JoinCr(u) \/ Teardown(u)
    <3>1. /\ UNCHANGED <<crinput, serving, finished>>
          /\ \A w \in Users : pc'[w] = "wait" => pc[w] = "wait"
      BY <2>5 DEF EverythingNext, JoinUffd, JoinCr, Teardown, ShutdownStep, reqvars, PcTypes
    <3> QED BY <3>1, KeptFrame
  <2>6. CASE PushKill(u)
    <3>1. /\ Push(Kill) /\ UNCHANGED <<serving, finished>>
          /\ \A w \in Users : pc'[w] = "wait" => pc[w] = "wait"
      BY <2>6 DEF PushKill, ShutdownStep, PcTypes
    <3> QED BY <3>1, KeptPush
  <2> QED BY <1>2, <2>1, <2>2, <2>3, <2>4, <2>5, <2>6 DEF UserOnly
<1>3. CASE UffdPoll \/ (\E p \in Pages : UffdRead(p)) \/ UffdCopy
  BY <1>3, KeptFrame DEF UffdPoll, UffdRead, UffdCopy, reqvars
<1>4. CASE CrPop
  <2>1. /\ crinput # <<>> /\ crinput' = Tail(crinput) /\ finished' = finished
        /\ serving = Nobody
        /\ \A u \in Users : pc'[u] = pc[u]
        /\ Head(crinput) = Kill \/ serving' = Head(crinput)
    BY <1>4 DEF CrPop, Queue, PcTypes
  <2>2. /\ Head(crinput) = crinput[1] /\ Len(crinput) \in Nat
        /\ \A i \in 1..Len(crinput) : i = 1 \/ (/\ i - 1 \in 1..Len(crinput')
                                                /\ crinput'[i - 1] = crinput[i])
    BY <2>1 DEF JobTypes
  <2>3. ASSUME NEW u \in Users, pc'[u] = "wait", finished'[u] = 0
        PROVE  serving' = u \/ \E i \in 1..Len(crinput') : crinput'[i] = u
    <3>1. PICK i \in 1..Len(crinput) : crinput[i] = u
      BY <2>1, <2>3 DEF Kept
    <3> QED BY <3>1, <2>1, <2>2
  <2> QED BY <2>3 DEF Kept
<1>5. CASE CrNext
  BY <1>5, KeptFrame DEF CrNext, reqvars, PcTypes
<1>6. CASE CrPost
  <2>1. serving \in Users /\ crinput' = crinput /\ pc' = [pc EXCEPT ![CrWorker] = "pop"]
        /\ finished[serving] = 0
    BY <1>6 DEF CrPost, Queue, JobTypes
  <2>2. finished' = [finished EXCEPT ![serving] = 1]
    BY <1>6, <2>1 DEF CrPost, Posted, JobTypes
  <2>3. finished'[serving] = 1 /\ \A u \in Users \ {serving} : finished'[u] = finished[u]
    BY <2>1, <2>2 DEF JobTypes
  <2>4. \A u \in Users : pc'[u] = pc[u]
    BY <2>1 DEF PcTypes
  <2> QED BY <2>1, <2>3, <2>4 DEF Kept
<1>7. CASE Restart
  BY <1>7 DEF Restart, Kept
<1>8. CASE UNCHANGED vars
  BY <1>8, KeptFrame DEF vars, reqvars
<1> QED BY <1>1, <1>2, <1>3, <1>4, <1>5, <1>6, <1>7, <1>8, NextSteps

(* A commit is never lost and never answered twice, whatever the program   *)
(* does: its thread waits and is in one place, the queue, the service or   *)
(* the semaphore (checkpoint.c:36-44, nvstore.c:281-302).                  *)
THEOREM AnswersOnce == Spec => []AnsweredOnce
<1>1. Init => Kept
  BY ConstantsAssumption DEF Init, Kept, Threads
<1>2. Types /\ Queue /\ Kept /\ [Next]_vars => Kept'
  BY KeptStep
<1>3. Types /\ Queue /\ Kept => AnsweredOnce
  <2> SUFFICES ASSUME Types, Queue, Kept, NEW u \in Users
               PROVE  Cardinality(Queued(u)) + (IF serving = u THEN 1 ELSE 0) + finished[u]
                        = IF pc[u] = "wait" THEN 1 ELSE 0
    BY DEF AnsweredOnce
  <2>1. crinput \in Seq(Users \cup {Kill}) /\ finished[u] \in Nat
    BY DEF Types, JobTypes
  <2>2. Queued(u) = {i \in 1..Len(crinput) : crinput[i] = u}
    BY <2>1 DEF Queued
  <2>3. CASE \E i \in 1..Len(crinput) : crinput[i] = u
    <3>1. PICK i \in 1..Len(crinput) : crinput[i] = u
      BY <2>3
    <3>2. /\ pc[u] = "wait" /\ finished[u] = 0 /\ serving # u
          /\ \A j \in 1..Len(crinput) : crinput[j] = u => j = i
      BY <3>1 DEF Queue
    <3>3. Queued(u) = {i}
      BY <2>2, <3>1, <3>2
    <3>4. Cardinality(Queued(u)) = 1
      BY <3>3, FS_Singleton
    <3> QED BY <3>2, <3>4
  <2>4. CASE ~\E i \in 1..Len(crinput) : crinput[i] = u
    <3>1. Cardinality(Queued(u)) = 0
      BY <2>2, <2>4, FS_EmptySet
    <3>2. serving = u => pc[u] = "wait" /\ finished[u] = 0
      BY DEF Queue
    <3>3. finished[u] # 0 => pc[u] = "wait" /\ finished[u] = 1
      BY DEF Queue
    <3>4. pc[u] = "wait" => serving = u \/ finished[u] # 0
      BY <2>4 DEF Kept
    <3> QED BY <2>1, <3>1, <3>2, <3>3, <3>4
  <2> QED BY <2>3, <2>4
<1> QED BY <1>1, <1>2, <1>3, QueueInvariant, PTL DEF Spec

(* Every variable of NvStore keeps its type; in particular no checkpoint's *)
(* semaphore is ever posted twice for one commit.                          *)
THEOREM TypeCorrect == Spec => []TypeOK
<1>1. Types /\ Queue => TypeOK
  <2> SUFFICES ASSUME Types, Queue PROVE TypeOK
    OBVIOUS
  <2>1. finished \in [Users -> 0..1]
    BY DEF Types, JobTypes, Queue
  <2> QED BY <2>1 DEF Types, MemTypes, UffdTypes, JobTypes, PcTypes, TypeOK
<1> QED BY <1>1, QueueInvariant, PTL

-----------------------------------------------------------------------------
(***************************************************************************)
(* Calls                                                                   *)
(***************************************************************************)

(* A step of the checkpoint worker, or of a worker of the kernel.          *)
LEMMA CallsFrame ==
  ASSUME Calls, UNCHANGED <<job, region>>, \A u \in Users : pc'[u] = pc[u]
  PROVE  Calls'
BY DEF Calls

(* Thread u moves within its call.                                         *)
LEMMA CallsMove ==
  ASSUME Types, Calls, NEW u \in Users, job[u] \in {"meta", "all", "shutdown"},
         UNCHANGED job,
         NEW s, pc' = [pc EXCEPT ![u] = s], s # "idle",
         job[u] = "meta" => s \in {"lock", "lockseek", "lockwrite", "submit", "wait", "unlock",
                                  "unlockseek", "unlockwrite"},
         job[u] = "all" => s \in FileStates,
         job[u] = "shutdown" => s \in {"pushkill", "joinuffd", "joincr", "teardown", "down"},
         \A v \in Users \ {u} : region'[v] = region[v],
         s = "wait" => region'[u] \subseteq Access[u]
  PROVE  Calls'
BY DEF Calls, Types, PcTypes, Threads

LEMMA CallsStep ==
  ASSUME Discipline, Types, Queue, Calls, [Next]_vars
  PROVE  Calls'
<1> USE ConstantsAssumption DEF Types, Threads
<1>1. ASSUME NEW t \in Threads, StepOf(t) PROVE Calls'
  <2>1. CASE PageFault(t)
    BY <2>1, CallsFrame DEF PageFault, reqvars
  <2>2. CASE t = CrWorker
    <3>1. UNCHANGED <<job, region>> /\ \A u \in Users : pc'[u] = pc[u]
      <4>1. CASE LockSet(t) \/ LockSeek(t) \/ UnlockSet(t) \/ UnlockSeek(t) \/ DumpSeek(t)
        BY <2>2, <4>1 DEF LockSet, LockSeek, UnlockSet, UnlockSeek, DumpSeek, SetWord, Seek,
                          reqvars, PcTypes
      <4>2. CASE LockWrite(t) \/ UnlockWrite(t)
        BY <2>2, <4>2 DEF LockWrite, UnlockWrite, reqvars, PcTypes
      <4>3. CASE DumpCopy(t) \/ DumpWrite(t) \/ DumpDrop(t) \/ DumpBack(t)
        BY <2>2, <4>3 DEF DumpCopy, DumpWrite, DumpDrop, DumpBack, reqvars, PcTypes
      <4> QED BY <1>1, <2>1, <4>1, <4>2, <4>3 DEF StepOf, PageFault, reqvars
    <3> QED BY <3>1, CallsFrame
  <2>3. CASE t \in Users /\ ~PageFault(t)
    <3>1. t # CrWorker
      BY <2>3
    <3>2. pc[t] \in FileStates
      BY <1>1, <2>3 DEF StepOf, LockSet, LockSeek, LockWrite, UnlockSet, UnlockSeek,
         UnlockWrite, DumpCopy, DumpSeek, DumpWrite, DumpDrop, DumpBack, SetWord, Seek, FileStates
    <3>3. job[t] \in {"meta", "all"}
      BY <3>2, <2>3 DEF Calls, FileStates, JobTypes
    <3>4. CASE LockSet(t) \/ LockSeek(t) \/ UnlockSet(t) \/ UnlockSeek(t)
      BY <2>3, <3>3, <3>4, CallsMove DEF LockSet, LockSeek, UnlockSet, UnlockSeek, SetWord,
         Seek, reqvars, FileStates
    <3>5. CASE LockWrite(t)
      BY <2>3, <3>3, <3>5, CallsMove DEF LockWrite, reqvars, FileStates
    <3>6. CASE UnlockWrite(t)
      <4>1. job' = [job EXCEPT ![t] = "none"] /\ pc' = [pc EXCEPT ![t] = "idle"] /\ UNCHANGED region
        BY <2>3, <3>1, <3>6 DEF UnlockWrite, reqvars
      <4> QED BY <2>3, <4>1 DEF Calls, JobTypes, PcTypes
    <3>7. CASE DumpCopy(t) \/ DumpSeek(t) \/ DumpWrite(t) \/ DumpDrop(t) \/ DumpBack(t)
      <4>1. job[t] = "all"
        BY <2>3, <3>3, <3>7 DEF Calls, DumpCopy, DumpSeek, Seek, DumpWrite, DumpDrop, DumpBack
      <4> QED BY <2>3, <4>1, <3>7, CallsMove DEF DumpCopy, DumpSeek, Seek, DumpWrite, DumpDrop,
              DumpBack, reqvars, FileStates
    <3> QED BY <1>1, <2>3, <3>4, <3>5, <3>6, <3>7 DEF StepOf
  <2> QED BY <2>1, <2>2, <2>3
<1>2. ASSUME NEW u \in Users, UserOnly(u) PROVE Calls'
  <2>1. ASSUME NEW p \in Pages, NEW v \in Vals, Store(u, p, v) PROVE Calls'
    BY <2>1, CallsFrame DEF Store, reqvars
  <2>2. ASSUME NEW R \in SUBSET Access[u], Commit(u, R) PROVE Calls'
    <3>1. \A v \in Users \ {u} : job[v] \in {"none", "commit"}
      BY <2>2 DEF Commit, NoSystemOp, Discipline
    <3>2. /\ job' = [job EXCEPT ![u] = "commit"] /\ pc' = [pc EXCEPT ![u] = "wait"]
          /\ region' = [region EXCEPT ![u] = R]
      BY <2>2 DEF Commit, Submit
    <3> QED BY <3>1, <3>2 DEF Calls, JobTypes, PcTypes
  <2>3. CASE MetaCheckpoint(u) \/ CheckpointEverything(u) \/ Shutdown(u)
    <3>1. \A v \in Users \ {u} : job[v] = "none"
      BY <2>3 DEF MetaCheckpoint, CheckpointEverything, Shutdown, Alone, AllJoined, Discipline, Calls
    <3>2. CASE MetaCheckpoint(u)
      BY <3>1, <3>2 DEF MetaCheckpoint, Start, Idle, Calls, JobTypes, PcTypes, reqvars
    <3>3. CASE CheckpointEverything(u)
      BY <3>1, <3>3 DEF CheckpointEverything, Start, Idle, Calls, JobTypes, PcTypes, reqvars,
                        FileStates
    <3>4. CASE Shutdown(u)
      BY <3>1, <3>4 DEF Shutdown, Start, Idle, Calls, JobTypes, PcTypes, reqvars
    <3> QED BY <2>3, <3>2, <3>3, <3>4
  <2>4. CASE MetaSubmit(u)
    <3>1. job[u] = "meta"
      BY <2>4 DEF MetaSubmit, Calls, JobTypes, FileStates
    <3>2. {Meta} \subseteq Access[u]
      BY <3>1 DEF Calls, Discipline
    <3>3. /\ pc' = [pc EXCEPT ![u] = "wait"] /\ UNCHANGED job
          /\ region' = [region EXCEPT ![u] = {Meta}]
      BY <2>4 DEF MetaSubmit, Submit
    <3>4. region'[u] = {Meta} /\ \A v \in Users \ {u} : region'[v] = region[v]
      BY <3>3 DEF JobTypes
    <3> QED BY <3>1, <3>2, <3>3, <3>4, CallsMove
  <2>5. CASE CommitReturns(u)
    <3>1. job[u] \in {"commit", "meta"}
      BY <2>5 DEF CommitReturns, Calls, JobTypes, FileStates
    <3>2. /\ region' = [region EXCEPT ![u] = {}]
          /\ IF job[u] = "meta" THEN pc' = [pc EXCEPT ![u] = "unlock"] /\ job' = job
             ELSE pc' = [pc EXCEPT ![u] = "idle"] /\ job' = [job EXCEPT ![u] = "none"]
      BY <2>5 DEF CommitReturns, JobTypes
    <3> QED BY <3>1, <3>2 DEF Calls, JobTypes, PcTypes
  <2>6. CASE EverythingNext(u)
    <3>1. job[u] = "all"
      BY <2>6 DEF EverythingNext, Calls, JobTypes
    <3>2. \E s \in {"unlock", "copy"} : pc' = [pc EXCEPT ![u] = s]
      BY <2>6 DEF EverythingNext
    <3>3. UNCHANGED <<job, region>>
      BY <2>6 DEF EverythingNext, reqvars
    <3> QED BY <3>1, <3>2, <3>3, CallsMove DEF FileStates
  <2>7. CASE PushKill(u) \/ JoinUffd(u) \/ JoinCr(u) \/ Teardown(u)
    <3>1. job[u] = "shutdown"
      BY <2>7 DEF PushKill, JoinUffd, JoinCr, Teardown, ShutdownStep, Calls, JobTypes, FileStates
    <3>2. UNCHANGED <<job, region>>
          /\ \E s \in {"joinuffd", "joincr", "teardown", "down"} : pc' = [pc EXCEPT ![u] = s]
      BY <2>7 DEF PushKill, JoinUffd, JoinCr, Teardown, ShutdownStep
    <3> QED BY <3>1, <3>2, CallsMove
  <2> QED BY <1>2, <2>1, <2>2, <2>3, <2>4, <2>5, <2>6, <2>7 DEF UserOnly
<1>3. CASE UffdPoll \/ (\E p \in Pages : UffdRead(p)) \/ UffdCopy
  BY <1>3, CallsFrame DEF UffdPoll, UffdRead, UffdCopy, reqvars
<1>4. CASE CrPop \/ CrPost
  BY <1>4, CallsFrame DEF CrPop, CrPost, PcTypes
<1>5. CASE CrNext
  BY <1>5, CallsFrame DEF CrNext, reqvars, PcTypes
<1>6. CASE Restart
  BY <1>6 DEF Restart, Calls
<1>7. CASE UNCHANGED vars
  BY <1>7, CallsFrame DEF vars, reqvars
<1> QED BY <1>1, <1>2, <1>3, <1>4, <1>5, <1>6, <1>7, NextSteps

(* At most one thread is between the locking and the unlocking of nvfs.    *)
LEMMA Exclusive ==
  ASSUME Types, Queue, Calls, NEW t1 \in Threads, NEW t2 \in Threads,
         pc[t1] \in FileStates, pc[t2] \in FileStates
  PROVE  t1 = t2
<1> USE ConstantsAssumption DEF Threads
<1>1. ASSUME NEW u \in Users, pc[u] \in FileStates
      PROVE  \A v \in Users \ {u} : pc[v] = "idle"
  <2>1. job[u] \in {"meta", "all"}
    BY <1>1 DEF Types, JobTypes, Calls, FileStates
  <2> QED BY <2>1 DEF Calls
<1>2. ASSUME NEW u \in Users, pc[u] \in FileStates, pc[CrWorker] \in FileStates
      PROVE  FALSE
  <2>1. serving \in Users /\ pc[serving] = "wait"
    BY <1>2 DEF Queue, FileStates, Types, JobTypes
  <2>2. serving # u
    BY <2>1, <1>2 DEF FileStates
  <2> QED BY <1>1, <1>2, <2>1, <2>2
<1>3. CASE t1 \in Users /\ t2 \in Users /\ t1 # t2
  <2>1. pc[t2] = "idle"
    BY <1>1, <1>3
  <2> QED BY <2>1 DEF FileStates
<1> QED BY <1>2, <1>3

(* Nobody stores to a page that is being dumped.                           *)
LEMMA OwnerSleeps ==
  ASSUME Discipline, Types, Queue, Calls, Lists,
         NEW u \in Users, pc[u] = "idle", NEW t \in Threads, Dumping(t)
  PROVE  cur[t] \notin Access[u]
<1> USE ConstantsAssumption DEF Threads
<1>1. CASE t = CrWorker
  <2>1. serving \in Users /\ pc[serving] = "wait" /\ cur[t] # NoPage
    BY <1>1 DEF Queue, Dumping, Types, JobTypes, PcTypes
  <2>2. cur[t] \in Access[serving] /\ serving # u
    BY <1>1, <2>1 DEF Lists, Calls
  <2> QED BY <2>1, <2>2 DEF Discipline
<1>2. CASE t \in Users
  <2>1. job[t] = "all"
    BY <1>2 DEF Types, JobTypes, Calls, Dumping
  <2>2. u = t
    BY <2>1, <1>2 DEF Calls, Discipline
  <2> QED BY <2>2 DEF Dumping
<1> QED BY <1>1, <1>2

-----------------------------------------------------------------------------
(***************************************************************************)
(* Page faults                                                             *)
(***************************************************************************)
LEMMA FaultsFrame ==
  ASSUME Faults, UNCHANGED <<fault, resident, uffdpc, filling>>,
         \A p \in Pages \ resident : mem'[p] = mem[p]
  PROVE  Faults'
BY DEF Faults

LEMMA FaultsStep ==
  ASSUME Types, Faults, [Next]_vars
  PROVE  Faults'
<1> USE ConstantsAssumption DEF Types
<1>1. ASSUME NEW t \in Threads, StepOf(t) PROVE Faults'
  <2>1. CASE PageFault(t)
    <3>1. PICK p \in Touches(t) \ resident : fault' = [fault EXCEPT ![t] = p]
      BY <2>1 DEF PageFault
    <3> QED BY <2>1, <3>1 DEF PageFault, memvars, uffdvars, Faults, UffdTypes
  <2>2. CASE LockSet(t) \/ UnlockSet(t)
    BY <2>2, FaultsFrame DEF LockSet, UnlockSet, SetWord, uffdvars, MemTypes
  <2>3. CASE LockSeek(t) \/ UnlockSeek(t) \/ DumpSeek(t) \/ LockWrite(t) \/ UnlockWrite(t)
             \/ DumpCopy(t) \/ DumpWrite(t)
    BY <2>3, FaultsFrame DEF LockSeek, UnlockSeek, DumpSeek, Seek, LockWrite, UnlockWrite,
                             DumpCopy, DumpWrite, memvars, uffdvars
  <2>4. CASE DumpDrop(t)
    BY <2>4 DEF DumpDrop, uffdvars, MemTypes, Faults
  <2>5. CASE DumpBack(t)
    BY <2>5, FaultsFrame DEF DumpBack, CopyBack, uffdvars, MemTypes
  <2> QED BY <1>1, <2>1, <2>2, <2>3, <2>4, <2>5 DEF StepOf
<1>2. ASSUME NEW u \in Users, UserOnly(u) PROVE Faults'
  <2>1. ASSUME NEW p \in Pages, NEW v \in Vals, Store(u, p, v) PROVE Faults'
    BY <2>1, FaultsFrame DEF Store, uffdvars, MemTypes
  <2>2. CASE (\E R \in SUBSET Access[u] : Commit(u, R)) \/ MetaSubmit(u) \/ CommitReturns(u)
    BY <2>2, FaultsFrame DEF Commit, MetaSubmit, CommitReturns, memvars, uffdvars
  <2>3. CASE MetaCheckpoint(u) \/ CheckpointEverything(u) \/ Shutdown(u)
    BY <2>3, FaultsFrame DEF MetaCheckpoint, CheckpointEverything, Shutdown, Start, memvars,
                             uffdvars
  <2>4. CASE EverythingNext(u)
    BY <2>4, FaultsFrame DEF EverythingNext, memvars, uffdvars
  <2>5. CASE PushKill(u) \/ JoinUffd(u) \/ JoinCr(u) \/ Teardown(u)
    BY <2>5, FaultsFrame DEF PushKill, JoinUffd, JoinCr, Teardown, ShutdownStep, memvars,
                             uffdvars
  <2> QED BY <1>2, <2>1, <2>2, <2>3, <2>4, <2>5 DEF UserOnly
<1>3. CASE UffdPoll
  BY <1>3 DEF UffdPoll, memvars, Faults
<1>4. ASSUME NEW p \in Pages, UffdRead(p) PROVE Faults'
  BY <1>4 DEF UffdRead, Messages, memvars, Faults
<1>5. CASE UffdCopy
  BY <1>5 DEF UffdCopy, Wake, AfterFault, Faults, MemTypes, UffdTypes
<1>6. CASE CrPop \/ CrNext \/ CrPost
  BY <1>6, FaultsFrame DEF CrPop, CrNext, CrPost, memvars, uffdvars
<1>7. CASE Restart
  BY <1>7 DEF Restart, Faults
<1>8. CASE UNCHANGED vars
  BY <1>8, FaultsFrame DEF vars, memvars, uffdvars
<1> QED BY <1>1, <1>2, <1>3, <1>4, <1>5, <1>6, <1>7, <1>8, NextSteps

-----------------------------------------------------------------------------
(***************************************************************************)
(* The position of the file                                                *)
(***************************************************************************)
LEMMA PositionFrame ==
  ASSUME Position, UNCHANGED fpos,
         \A t \in Threads : pc'[t] \in {"write", "lockwrite", "unlockwrite"} =>
                            pc'[t] = pc[t] /\ cur'[t] = cur[t]
  PROVE  Position'
BY DEF Position

(* Whoever uses the file leaves the position where its next call wants it. *)
LEMMA PositionMove ==
  ASSUME Types, Queue, Calls, NEW t \in Threads, pc[t] \in FileStates,
         \A w \in Threads \ {t} : pc'[w] = pc[w],
         pc'[t] = "write" => fpos' = cur'[t],
         pc'[t] \in {"lockwrite", "unlockwrite"} => fpos' = Meta
  PROVE  Position'
<1>1. \A w \in Threads \ {t} : pc[w] \notin FileStates
  BY Exclusive
<1>2. \A w \in Threads \ {t} : pc'[w] \notin FileStates
  BY <1>1 DEF Types, PcTypes
<1> QED BY <1>2 DEF Position, FileStates, Types, PcTypes

LEMMA PositionStep ==
  ASSUME Types, Queue, Calls, Position, [Next]_vars
  PROVE  Position'
<1> USE ConstantsAssumption DEF Threads
<1>1. ASSUME NEW t \in Threads, StepOf(t) PROVE Position'
  <2> USE DEF Types, PcTypes
  <2>1. CASE PageFault(t)
    BY <2>1, PositionFrame DEF PageFault, filevars, dumpvars
  <2>2. CASE LockSet(t) \/ UnlockSet(t)
    BY <2>2, PositionMove DEF LockSet, UnlockSet, SetWord, FileStates
  <2>3. CASE LockSeek(t) \/ UnlockSeek(t)
    BY <2>3, PositionMove DEF LockSeek, UnlockSeek, Seek, FileStates
  <2>4. CASE DumpSeek(t)
    BY <2>4, PositionMove DEF DumpSeek, Seek, FileStates, dumpvars
  <2>5. CASE LockWrite(t)
    BY <2>5, PositionMove DEF LockWrite, FileStates
  <2>6. CASE UnlockWrite(t)
    BY <2>6, PositionMove DEF UnlockWrite, FileStates
  <2>7. CASE DumpCopy(t) \/ DumpWrite(t) \/ DumpDrop(t) \/ DumpBack(t)
    BY <2>7, PositionMove DEF DumpCopy, DumpWrite, DumpDrop, DumpBack, FileStates
  <2> QED BY <1>1, <2>1, <2>2, <2>3, <2>4, <2>5, <2>6, <2>7 DEF StepOf
<1>2. ASSUME NEW u \in Users, UserOnly(u) PROVE Position'
  <2> USE DEF Types, PcTypes
  <2>1. ASSUME NEW p \in Pages, NEW v \in Vals, Store(u, p, v) PROVE Position'
    BY <2>1, PositionFrame DEF Store, filevars, dumpvars
  <2>2. CASE (\E R \in SUBSET Access[u] : Commit(u, R)) \/ MetaSubmit(u) \/ CommitReturns(u)
    BY <2>2, PositionFrame DEF Commit, MetaSubmit, CommitReturns, filevars, dumpvars
  <2>3. CASE MetaCheckpoint(u) \/ CheckpointEverything(u) \/ Shutdown(u)
    BY <2>3, PositionFrame DEF MetaCheckpoint, CheckpointEverything, Shutdown, Start, filevars
  <2>4. CASE EverythingNext(u)
    BY <2>4, PositionFrame DEF EverythingNext, filevars
  <2>5. CASE PushKill(u) \/ JoinUffd(u) \/ JoinCr(u) \/ Teardown(u)
    BY <2>5, PositionFrame DEF PushKill, JoinUffd, JoinCr, Teardown, ShutdownStep, filevars,
                               dumpvars
  <2> QED BY <1>2, <2>1, <2>2, <2>3, <2>4, <2>5 DEF UserOnly
<1>3. CASE UffdPoll \/ (\E p \in Pages : UffdRead(p)) \/ UffdCopy
  BY <1>3, PositionFrame DEF UffdPoll, UffdRead, UffdCopy, filevars, dumpvars
<1>4. CASE CrPop \/ CrPost
  BY <1>4, PositionFrame DEF CrPop, CrPost, filevars, dumpvars, Types, PcTypes
<1>5. CASE CrNext
  BY <1>5, PositionFrame DEF CrNext, filevars, Types, PcTypes
<1>6. CASE Restart
  BY <1>6 DEF Restart, Position
<1>7. CASE UNCHANGED vars
  BY <1>7, PositionFrame DEF vars, filevars, dumpvars
<1> QED BY <1>1, <1>2, <1>3, <1>4, <1>5, <1>6, <1>7, NextSteps

-----------------------------------------------------------------------------
(***************************************************************************)
(* A dump                                                                  *)
(***************************************************************************)

(* A step that is not one of the dumper's.                                 *)
LEMMA DumpFrame ==
  ASSUME Dump,
         \A t \in Threads : pc'[t] \in {"seek", "write", "drop", "back"} =>
           /\ pc'[t] = pc[t] /\ cur'[t] = cur[t] /\ cpy'[t] = cpy[t]
           /\ cur[t] \in resident => cur[t] \in resident' /\ mem'[cur[t]] = mem[cur[t]]
           /\ nvfs'[cur[t]] = nvfs[cur[t]]
  PROVE  Dump'
BY DEF Dump

LEMMA DumpStep ==
  ASSUME Discipline, Types, Queue, Calls, Lists, Position, Faults, Dump, [Next]_vars
  PROVE  Dump'
<1> USE ConstantsAssumption DEF Threads
<1>1. ASSUME NEW t \in Threads, StepOf(t) PROVE Dump'
  <2>1. CASE PageFault(t)
    BY <2>1, DumpFrame DEF PageFault, filevars, memvars, dumpvars
  <2>2. CASE ~PageFault(t)
    <3>1. pc[t] \in FileStates
      BY <1>1, <2>2 DEF StepOf, LockSet, LockSeek, LockWrite, UnlockSet, UnlockSeek,
         UnlockWrite, DumpCopy, DumpSeek, DumpWrite, DumpDrop, DumpBack, SetWord, Seek, FileStates
    <3>2. \A w \in Threads \ {t} : pc[w] \notin {"seek", "write", "drop", "back"}
      BY <3>1, Exclusive DEF FileStates
    <3> USE DEF Types, PcTypes
    <3>3. CASE LockSet(t) \/ LockSeek(t) \/ UnlockSet(t) \/ UnlockSeek(t)
      BY <3>2, <3>3, DumpFrame DEF LockSet, LockSeek, UnlockSet, UnlockSeek, SetWord, Seek
    <3>4. CASE LockWrite(t) \/ UnlockWrite(t)
      BY <3>2, <3>4, DumpFrame DEF LockWrite, UnlockWrite
    <3>5. CASE DumpCopy(t)
      BY <3>2, <3>5 DEF DumpCopy, Dump, memvars, filevars, MemTypes
    <3>6. CASE DumpSeek(t)
      BY <3>2, <3>6 DEF DumpSeek, Seek, Dump, memvars, dumpvars
    <3>7. CASE DumpWrite(t)
      <4>1. fpos = cur[t] /\ cur[t] \in Pages
        BY <3>7 DEF DumpWrite, Position, Dumping
      <4>2. nvfs' = [nvfs EXCEPT ![cur[t]] = mem[cur[t]]]
        BY <3>7, <4>1 DEF DumpWrite, WritePage
      <4>3. nvfs'[cur[t]] = mem[cur[t]]
        BY <4>1, <4>2 DEF MemTypes
      <4> QED BY <3>2, <3>7, <4>3 DEF DumpWrite, Dump, memvars, dumpvars
    <3>8. CASE DumpDrop(t)
      BY <3>2, <3>8 DEF DumpDrop, Dump, filevars, dumpvars
    <3>9. CASE DumpBack(t)
      BY <3>2, <3>9 DEF DumpBack, Dump
    <3> QED BY <1>1, <2>2, <3>3, <3>4, <3>5, <3>6, <3>7, <3>8, <3>9 DEF StepOf
  <2> QED BY <2>1, <2>2
<1>2. ASSUME NEW u \in Users, UserOnly(u) PROVE Dump'
  <2> USE DEF Types, PcTypes
  <2>1. ASSUME NEW p \in Pages, NEW v \in Vals, Store(u, p, v) PROVE Dump'
    <3>1. pc[u] = "idle" /\ p \in Access[u] /\ mem' = [mem EXCEPT ![p] = WithData(@, v)]
      BY <2>1 DEF Store, Idle
    <3>2. \A t \in Threads : Dumping(t) => cur[t] # p
      BY <3>1, OwnerSleeps
    <3>3. \A t \in Threads : pc[t] \in {"seek", "write", "drop", "back"} =>
            mem'[cur[t]] = mem[cur[t]]
      BY <3>1, <3>2 DEF Dumping, MemTypes
    <3> QED BY <2>1, <3>3, DumpFrame DEF Store, filevars, dumpvars
  <2>2. CASE (\E R \in SUBSET Access[u] : Commit(u, R)) \/ MetaSubmit(u) \/ CommitReturns(u)
    <3>1. /\ UNCHANGED <<memvars, filevars, dumpvars>>
          /\ \E w \in {"wait", "unlock", "idle"} : pc' = [pc EXCEPT ![u] = w]
      BY <2>2 DEF Commit, MetaSubmit, CommitReturns
    <3> QED BY <3>1, DumpFrame DEF filevars, dumpvars, memvars
  <2>3. CASE MetaCheckpoint(u) \/ CheckpointEverything(u) \/ Shutdown(u)
    BY <2>3, DumpFrame DEF MetaCheckpoint, CheckpointEverything, Shutdown, Start, filevars,
                           memvars
  <2>4. CASE EverythingNext(u)
    BY <2>4, DumpFrame DEF EverythingNext, filevars, memvars
  <2>5. CASE PushKill(u) \/ JoinUffd(u) \/ JoinCr(u) \/ Teardown(u)
    BY <2>5, DumpFrame DEF PushKill, JoinUffd, JoinCr, Teardown, ShutdownStep, filevars,
                           dumpvars, memvars
  <2> QED BY <1>2, <2>1, <2>2, <2>3, <2>4, <2>5 DEF UserOnly
<1>3. CASE UffdPoll \/ (\E p \in Pages : UffdRead(p))
  BY <1>3, DumpFrame DEF UffdPoll, UffdRead, filevars, dumpvars, memvars
<1>4. CASE UffdCopy
  <2>1. mem' = mem /\ resident \subseteq resident'
    <3>1. mem' = [mem EXCEPT ![filling] = ZeroPage] /\ filling \in Pages /\ mem[filling] = ZeroPage
      BY <1>4 DEF UffdCopy, Faults, Types, UffdTypes
    <3> QED BY <1>4, <3>1 DEF UffdCopy, Types, MemTypes
  <2> QED BY <1>4, <2>1, DumpFrame DEF UffdCopy, filevars, dumpvars
<1>5. CASE CrPop \/ CrPost
  BY <1>5, DumpFrame DEF CrPop, CrPost, filevars, dumpvars, memvars, Types, PcTypes
<1>6. CASE CrNext
  BY <1>6, DumpFrame DEF CrNext, filevars, memvars, Types, PcTypes
<1>7. CASE Restart
  BY <1>7 DEF Restart, Dump
<1>8. CASE UNCHANGED vars
  BY <1>8, DumpFrame DEF vars, filevars, dumpvars, memvars
<1> QED BY <1>1, <1>2, <1>3, <1>4, <1>5, <1>6, <1>7, <1>8, NextSteps

-----------------------------------------------------------------------------
(***************************************************************************)
(* The list of addresses of a call                                         *)
(***************************************************************************)
LEMMA ListsFrame ==
  ASSUME Lists, UNCHANGED <<todo, serving>>,
         serving \in Users => region'[serving] = region[serving],
         cur'[CrWorker] \in {cur[CrWorker], NoPage},
         Unlocking(CrWorker)' => Unlocking(CrWorker),
         \A u \in Users : job'[u] = "all" /\ Unlocking(u)' => job[u] = "all" /\ Unlocking(u)
  PROVE  Lists'
BY DEF Lists

LEMMA ListsStep ==
  ASSUME Types, Queue, Calls, Lists, [Next]_vars
  PROVE  Lists'
<1> USE ConstantsAssumption DEF Threads, Unlocking
<1>1. ASSUME NEW t \in Threads, StepOf(t) PROVE Lists'
  <2> USE DEF Types, PcTypes
  <2>1. CASE PageFault(t)
    BY <2>1, ListsFrame DEF PageFault, reqvars, dumpvars
  <2>2. CASE LockSet(t) \/ UnlockSet(t)
    BY <2>2, ListsFrame DEF LockSet, UnlockSet, SetWord, reqvars, dumpvars
  <2>3. CASE LockSeek(t) \/ UnlockSeek(t) \/ DumpSeek(t)
    BY <2>3, ListsFrame DEF LockSeek, UnlockSeek, DumpSeek, Seek, reqvars, dumpvars
  <2>4. CASE LockWrite(t) \/ UnlockWrite(t)
    BY <2>4, ListsFrame DEF LockWrite, UnlockWrite, reqvars, dumpvars, JobTypes
  <2>5. CASE DumpCopy(t) \/ DumpWrite(t) \/ DumpDrop(t)
    BY <2>5, ListsFrame DEF DumpCopy, DumpWrite, DumpDrop, reqvars, dumpvars
  <2>6. CASE DumpBack(t)
    BY <2>6, ListsFrame DEF DumpBack, reqvars
  <2> QED BY <1>1, <2>1, <2>2, <2>3, <2>4, <2>5, <2>6 DEF StepOf
<1>2. ASSUME NEW u \in Users, UserOnly(u) PROVE Lists'
  <2> USE DEF Types, PcTypes
  <2>1. ASSUME NEW p \in Pages, NEW v \in Vals, Store(u, p, v) PROVE Lists'
    BY <2>1, ListsFrame DEF Store, reqvars, dumpvars
  <2>2. CASE (\E R \in SUBSET Access[u] : Commit(u, R)) \/ MetaSubmit(u)
    <3>1. serving # u
      BY <2>2 DEF Commit, MetaSubmit, Idle, Queue
    <3>2. PICK R : region' = [region EXCEPT ![u] = R] /\ serving' = serving
      BY <2>2 DEF Commit, MetaSubmit, Submit
    <3>3. serving \in Users => region'[serving] = region[serving]
      BY <3>1, <3>2 DEF JobTypes
    <3>4. \A v \in Users : job'[v] = "all" /\ Unlocking(v)' => job[v] = "all" /\ Unlocking(v)
      BY <2>2 DEF Commit, MetaSubmit, JobTypes
    <3> QED BY <2>2, <3>2, <3>3, <3>4, ListsFrame DEF Commit, MetaSubmit, dumpvars
  <2>3. CASE CommitReturns(u)
    <3>1. serving # u
      BY <2>3 DEF CommitReturns, Queue
    <3>2. serving \in Users => region'[serving] = region[serving]
      BY <2>3, <3>1 DEF CommitReturns, JobTypes
    <3>3. \A v \in Users : job'[v] = "all" /\ Unlocking(v)' => job[v] = "all" /\ Unlocking(v)
      BY <2>3 DEF CommitReturns, JobTypes, Calls
    <3> QED BY <2>3, <3>2, <3>3, ListsFrame DEF CommitReturns, dumpvars, JobTypes
  <2>4. CASE MetaCheckpoint(u) \/ Shutdown(u)
    BY <2>4, ListsFrame DEF MetaCheckpoint, Shutdown, Start, reqvars, JobTypes
  <2>5. CASE CheckpointEverything(u)
    BY <2>5 DEF CheckpointEverything, Start, reqvars, Lists, JobTypes
  <2>6. CASE EverythingNext(u)
    <3>1. CASE todo[u] = {}
      BY <2>6, <3>1 DEF EverythingNext, reqvars, Lists
    <3>2. CASE todo[u] # {}
      <4>1. PICK p \in todo[u] : /\ todo' = [todo EXCEPT ![u] = @ \ {p}]
                                 /\ cur' = [cur EXCEPT ![u] = p]
                                 /\ pc' = [pc EXCEPT ![u] = "copy"]
        BY <2>6, <3>2 DEF EverythingNext
      <4> QED BY <2>6, <4>1 DEF EverythingNext, reqvars, Lists, JobTypes
    <3> QED BY <3>1, <3>2
  <2>7. CASE PushKill(u) \/ JoinUffd(u) \/ JoinCr(u) \/ Teardown(u)
    BY <2>7, ListsFrame DEF PushKill, JoinUffd, JoinCr, Teardown, ShutdownStep, dumpvars
  <2> QED BY <1>2, <2>1, <2>2, <2>3, <2>4, <2>5, <2>6, <2>7 DEF UserOnly
<1>3. CASE UffdPoll \/ (\E p \in Pages : UffdRead(p)) \/ UffdCopy
  BY <1>3, ListsFrame DEF UffdPoll, UffdRead, UffdCopy, reqvars, dumpvars
<1>4. CASE CrPop
  <2>1. cur[CrWorker] = NoPage
    BY <1>4 DEF CrPop, Types, PcTypes, Dumping
  <2> QED BY <1>4, <2>1 DEF CrPop, Lists, Types, PcTypes, JobTypes
<1>5. CASE CrNext
  <2> USE DEF Types, PcTypes, JobTypes
  <2>1. CASE todo[CrWorker] = {}
    BY <1>5, <2>1 DEF CrNext, ListDone, reqvars, Lists
  <2>2. CASE todo[CrWorker] # {}
    <3>1. PICK p \in todo[CrWorker] :
            /\ todo' = [todo EXCEPT ![CrWorker] = @ \ {p}]
            /\ IF p \in dirty THEN /\ cur' = [cur EXCEPT ![CrWorker] = p]
                                   /\ pc' = [pc EXCEPT ![CrWorker] = "copy"]
                              ELSE UNCHANGED <<cur, pc>>
      BY <1>5, <2>2 DEF CrNext, ListDone
    <3> QED BY <1>5, <3>1 DEF CrNext, reqvars, Lists
  <2> QED BY <2>1, <2>2
<1>6. CASE CrPost
  BY <1>6 DEF CrPost, Lists, dumpvars, Types, PcTypes
<1>7. CASE Restart
  BY <1>7 DEF Restart, Lists
<1>8. CASE UNCHANGED vars
  BY <1>8, ListsFrame DEF vars, reqvars, dumpvars
<1> QED BY <1>1, <1>2, <1>3, <1>4, <1>5, <1>6, <1>7, <1>8, NextSteps

-----------------------------------------------------------------------------
(***************************************************************************)
(* A page that is on the file stays on the file until a thread stores      *)
(***************************************************************************)
LEMMA OnFileFrame ==
  ASSUME NEW p, OnFile(p), nvfs'[p].data = nvfs[p].data, mem'[p].data = mem[p].data,
         \A t \in Threads : pc[t] = "back" => pc'[t] = "back" /\ cur'[t] = cur[t]
  PROVE  OnFile(p)'
BY DEF OnFile

LEMMA OnFileStep ==
  ASSUME Types, Queue, Calls, Position, Faults, Dump, [Next]_vars, ~Restart,
         NEW p \in Pages, OnFile(p),
         ~\E u \in Users, v \in Vals : Store(u, p, v)
  PROVE  OnFile(p)'
<1> USE ConstantsAssumption DEF Threads, Types, PcTypes
<1>1. ASSUME NEW t \in Threads, StepOf(t) PROVE OnFile(p)'
  <2>1. CASE PageFault(t)
    BY <2>1, OnFileFrame DEF PageFault, filevars, memvars, dumpvars
  <2>2. CASE LockSet(t) \/ UnlockSet(t)
    <3>1. mem'[p].data = mem[p].data
      BY <2>2 DEF LockSet, UnlockSet, SetWord, MemTypes, WithWord
    <3> QED BY <2>2, <3>1, OnFileFrame DEF LockSet, UnlockSet, SetWord, filevars, dumpvars
  <2>3. CASE LockSeek(t) \/ UnlockSeek(t) \/ DumpSeek(t)
    BY <2>3, OnFileFrame DEF LockSeek, UnlockSeek, DumpSeek, Seek, memvars, dumpvars
  <2>4. CASE LockWrite(t) \/ UnlockWrite(t)
    <3>1. fpos = Meta
      BY <2>4 DEF LockWrite, UnlockWrite, Position
    <3>2. nvfs'[p].data = nvfs[p].data
      BY <2>4, <3>1 DEF LockWrite, UnlockWrite, WriteWord, MemTypes, WithWord
    <3> QED BY <2>4, <3>2, OnFileFrame DEF LockWrite, UnlockWrite, memvars, dumpvars
  <2>5. CASE DumpCopy(t)
    BY <2>5, OnFileFrame DEF DumpCopy, memvars, filevars
  <2>6. CASE DumpWrite(t)
    <3>1. fpos = cur[t] /\ cur[t] \in Pages
      BY <2>6 DEF DumpWrite, Position, Dumping
    <3>2. nvfs' = [nvfs EXCEPT ![cur[t]] = mem[cur[t]]]
      BY <2>6, <3>1 DEF DumpWrite, WritePage
    <3>3. CASE p = cur[t]
      <4>1. nvfs'[p] = mem[p] /\ mem' = mem
        BY <2>6, <3>1, <3>2, <3>3 DEF DumpWrite, memvars, MemTypes
      <4> QED BY <4>1 DEF OnFile
    <3>4. CASE p # cur[t]
      <4>1. nvfs'[p] = nvfs[p]
        BY <3>2, <3>4 DEF MemTypes
      <4> QED BY <2>6, <4>1, OnFileFrame DEF DumpWrite, memvars, dumpvars
    <3> QED BY <3>3, <3>4
  <2>7. CASE DumpDrop(t)
    <3>1. CASE p = cur[t]
      BY <2>7, <3>1 DEF DumpDrop, OnFile, dumpvars
    <3>2. CASE p # cur[t]
      BY <2>7, <3>2, OnFileFrame DEF DumpDrop, filevars, dumpvars, MemTypes
    <3> QED BY <3>1, <3>2
  <2>8. CASE DumpBack(t)
    <3>1. CASE p = cur[t]
      <4>1. mem'[p] = cpy[t] /\ nvfs' = nvfs
        BY <2>8, <3>1 DEF DumpBack, CopyBack, MemTypes, filevars
      <4> QED BY <2>8, <3>1, <4>1 DEF OnFile, DumpBack, Dump
    <3>2. CASE p # cur[t]
      <4>1. mem'[p] = mem[p] /\ nvfs' = nvfs
        BY <2>8, <3>2 DEF DumpBack, CopyBack, MemTypes, filevars
      <4>2. \A w \in Threads \ {t} : pc'[w] = pc[w] /\ cur'[w] = cur[w]
        BY <2>8 DEF DumpBack
      <4> QED BY <3>2, <4>1, <4>2 DEF OnFile
    <3> QED BY <3>1, <3>2
  <2> QED BY <1>1, <2>1, <2>2, <2>3, <2>4, <2>5, <2>6, <2>7, <2>8 DEF StepOf
<1>2. ASSUME NEW u \in Users, UserOnly(u) PROVE OnFile(p)'
  <2>1. ASSUME NEW q \in Pages, NEW v \in Vals, Store(u, q, v) PROVE OnFile(p)'
    <3>1. p # q
      BY <2>1
    <3> QED BY <2>1, <3>1, OnFileFrame DEF Store, filevars, dumpvars, MemTypes
  <2>2. CASE (\E R \in SUBSET Access[u] : Commit(u, R)) \/ MetaSubmit(u) \/ CommitReturns(u)
    BY <2>2, OnFileFrame DEF Commit, Idle, MetaSubmit, CommitReturns, filevars, memvars, dumpvars
  <2>3. CASE MetaCheckpoint(u) \/ CheckpointEverything(u) \/ Shutdown(u)
    BY <2>3, OnFileFrame DEF MetaCheckpoint, CheckpointEverything, Shutdown, Start, Idle,
                             filevars, memvars
  <2>4. CASE EverythingNext(u)
    <3>1. \A t \in Threads : pc[t] = "back" => pc'[t] = "back" /\ cur'[t] = cur[t]
      BY <2>4 DEF EverythingNext
    <3> QED BY <2>4, <3>1, OnFileFrame DEF EverythingNext, filevars, memvars
  <2>5. CASE PushKill(u) \/ JoinUffd(u) \/ JoinCr(u) \/ Teardown(u)
    BY <2>5, OnFileFrame DEF PushKill, JoinUffd, JoinCr, Teardown, ShutdownStep, filevars,
                             dumpvars, memvars
  <2> QED BY <1>2, <2>1, <2>2, <2>3, <2>4, <2>5 DEF UserOnly
<1>3. CASE UffdPoll \/ (\E q \in Pages : UffdRead(q))
  BY <1>3, OnFileFrame DEF UffdPoll, UffdRead, filevars, dumpvars, memvars
<1>4. CASE UffdCopy
  <2>1. mem' = [mem EXCEPT ![filling] = ZeroPage] /\ filling \in Pages /\ mem[filling] = ZeroPage
    BY <1>4 DEF UffdCopy, Faults, UffdTypes
  <2>2. mem'[p] = mem[p]
    BY <2>1 DEF MemTypes
  <2> QED BY <1>4, <2>2, OnFileFrame DEF UffdCopy, filevars, dumpvars
<1>5. CASE CrPop \/ CrPost
  BY <1>5, OnFileFrame DEF CrPop, CrPost, filevars, dumpvars, memvars
<1>6. CASE CrNext
  <2>1. \A t \in Threads : pc[t] = "back" => pc'[t] = "back" /\ cur'[t] = cur[t]
    BY <1>6 DEF CrNext
  <2> QED BY <1>6, <2>1, OnFileFrame DEF CrNext, filevars, memvars
<1>7. CASE UNCHANGED vars
  BY <1>7, OnFileFrame DEF vars, filevars, dumpvars, memvars
<1> QED BY <1>1, <1>2, <1>3, <1>4, <1>5, <1>6, <1>7, NextSteps

-----------------------------------------------------------------------------
(***************************************************************************)
(* The dirty set covers what is not on the file                            *)
(***************************************************************************)
LEMMA CoverFrame ==
  ASSUME NEW p, CoverOf(p), OnFile(p) => OnFile(p)',
         p \in dirty => p \in dirty', p \in resident' => p \in resident,
         uffdpc' = "copy" /\ filling' = p => uffdpc = "copy" /\ filling = p,
         \A t \in Threads : pc[t] \in {"copy", "seek", "write", "drop"} =>
                            pc'[t] = pc[t] /\ cur'[t] = cur[t]
  PROVE  CoverOf(p)'
BY DEF CoverOf, Unsaved

LEMMA CoverStored ==
  ASSUME Discipline, Types, Queue, Calls, Lists, NEW p \in Pages, CoverOf(p),
         NEW u \in Users, NEW v \in Vals, Store(u, p, v)
  PROVE  CoverOf(p)'
<1>1. \A t \in Threads : ~(cur[t] = p /\ pc[t] \in {"copy", "seek", "write", "drop"})
  BY OwnerSleeps DEF Store, Idle, Dumping
<1>2. p \in dirty /\ dirty' = dirty
  BY <1>1 DEF Store, CoverOf
<1> QED BY <1>2 DEF CoverOf

LEMMA CoverStep ==
  ASSUME Discipline, Types, Queue, Calls, Lists, Position, Faults, Dump, Cover, [Next]_vars
  PROVE  Cover'
<1> SUFFICES ASSUME NEW p \in Pages PROVE CoverOf(p)'
  BY DEF Cover
<1> USE ConstantsAssumption DEF Threads, Types, PcTypes
<1>c. CoverOf(p)
  BY DEF Cover
<1>s. CASE \E u \in Users, v \in Vals : Store(u, p, v)
  BY <1>s, <1>c, CoverStored
<1>r. CASE Restart
  BY <1>r DEF Restart, CoverOf
<1>n. CASE ~Restart /\ ~\E u \in Users, v \in Vals : Store(u, p, v)
  <2>o. OnFile(p) => OnFile(p)'
    BY <1>n, OnFileStep
  <2>1. ASSUME NEW t \in Threads, StepOf(t) PROVE CoverOf(p)'
    <3>1. CASE PageFault(t)
      BY <3>1, <1>c, <2>o, CoverFrame DEF PageFault, uffdvars, memvars, dumpvars
    <3>2. CASE LockSet(t) \/ UnlockSet(t) \/ LockSeek(t) \/ UnlockSeek(t)
      BY <3>2, <1>c, <2>o, CoverFrame DEF LockSet, UnlockSet, SetWord, LockSeek, UnlockSeek, Seek,
                                          uffdvars, memvars, dumpvars
    <3>3. CASE LockWrite(t) \/ UnlockWrite(t)
      BY <3>3, <1>c, <2>o, CoverFrame DEF LockWrite, UnlockWrite, uffdvars, memvars, dumpvars
    <3>4. CASE DumpCopy(t)
      BY <3>4, <1>c, <2>o DEF DumpCopy, uffdvars, memvars, CoverOf, Unsaved, Faults
    <3>5. CASE DumpSeek(t)
      BY <3>5, <1>c, <2>o DEF DumpSeek, Seek, uffdvars, memvars, dumpvars, CoverOf, Unsaved
    <3>6. CASE DumpWrite(t)
      <4>1. p = cur[t] => OnFile(p)'
        <5>1. p = cur[t] => nvfs'[p] = mem[p] /\ mem' = mem
          BY <3>6 DEF DumpWrite, Position, Dumping, WritePage, memvars, MemTypes
        <5> QED BY <5>1 DEF OnFile
      <4>2. \A w \in Threads \ {t} : pc'[w] = pc[w]
        BY <3>6 DEF DumpWrite
      <4>3. UNCHANGED <<dirty, resident, uffdpc, filling, cur>> /\ pc[t] = "write" /\ pc'[t] = "drop"
        BY <3>6 DEF DumpWrite, uffdvars, memvars, dumpvars
      <4> QED BY <4>1, <4>2, <4>3, <1>c, <2>o DEF CoverOf, Unsaved
    <3>7. CASE DumpDrop(t)
      <4>1. p = cur[t] => OnFile(p)'
        BY <3>7 DEF DumpDrop, OnFile, dumpvars
      <4>2. \A w \in Threads \ {t} : pc'[w] = pc[w]
        BY <3>7 DEF DumpDrop
      <4>3. UNCHANGED <<dirty, uffdpc, filling, cur>> /\ pc[t] = "drop" /\ pc'[t] = "back"
            /\ resident' = resident \ {cur[t]}
        BY <3>7 DEF DumpDrop, uffdvars, dumpvars
      <4> QED BY <4>1, <4>2, <4>3, <1>c, <2>o DEF CoverOf, Unsaved
    <3>8. CASE DumpBack(t)
      <4>1. \A w \in Threads \ {t} : pc'[w] = pc[w] /\ cur'[w] = cur[w]
        BY <3>8 DEF DumpBack
      <4> QED BY <3>8, <4>1, <1>c, <2>o, CoverFrame DEF DumpBack, uffdvars
    <3> QED BY <2>1, <3>1, <3>2, <3>3, <3>4, <3>5, <3>6, <3>7, <3>8 DEF StepOf
  <2>2. ASSUME NEW u \in Users, UserOnly(u) PROVE CoverOf(p)'
    <3>1. ASSUME NEW q \in Pages, NEW v \in Vals, Store(u, q, v) PROVE CoverOf(p)'
      BY <3>1, <1>c, <2>o, CoverFrame DEF Store, uffdvars, dumpvars
    <3>2. CASE (\E R \in SUBSET Access[u] : Commit(u, R)) \/ MetaSubmit(u) \/ CommitReturns(u)
      BY <3>2, <1>c, <2>o, CoverFrame DEF Commit, Idle, MetaSubmit, CommitReturns, uffdvars,
                                          memvars, dumpvars
    <3>3. CASE MetaCheckpoint(u) \/ CheckpointEverything(u) \/ Shutdown(u)
      BY <3>3, <1>c, <2>o, CoverFrame DEF MetaCheckpoint, CheckpointEverything, Shutdown, Start,
                                          Idle, uffdvars, memvars
    <3>4. CASE EverythingNext(u)
      <4>1. \A t \in Threads : pc[t] \in {"copy", "seek", "write", "drop"} =>
                               pc'[t] = pc[t] /\ cur'[t] = cur[t]
        BY <3>4 DEF EverythingNext
      <4> QED BY <3>4, <4>1, <1>c, <2>o, CoverFrame DEF EverythingNext, uffdvars, memvars
    <3>5. CASE PushKill(u) \/ JoinUffd(u) \/ JoinCr(u) \/ Teardown(u)
      BY <3>5, <1>c, <2>o, CoverFrame DEF PushKill, JoinUffd, JoinCr, Teardown, ShutdownStep,
                                          uffdvars, memvars, dumpvars
    <3> QED BY <2>2, <3>1, <3>2, <3>3, <3>4, <3>5 DEF UserOnly
  <2>3. CASE UffdPoll
    BY <2>3, <1>c, <2>o, CoverFrame DEF UffdPoll, memvars, dumpvars
  <2>4. ASSUME NEW q \in Pages, UffdRead(q) PROVE CoverOf(p)'
    <3>1. CASE p = q
      BY <2>4, <3>1 DEF UffdRead, Logged, CoverOf
    <3>2. CASE p # q
      BY <2>4, <3>2, <1>c, <2>o, CoverFrame DEF UffdRead, Logged, memvars, dumpvars
    <3> QED BY <3>1, <3>2
  <2>5. CASE UffdCopy
    BY <2>5, <1>c, <2>o DEF UffdCopy, AfterFault, dumpvars, CoverOf, Unsaved
  <2>6. CASE CrPop \/ CrPost
    BY <2>6, <1>c, <2>o, CoverFrame DEF CrPop, CrPost, uffdvars, memvars, dumpvars
  <2>7. CASE CrNext
    <3>1. CASE todo[CrWorker] = {}
      BY <2>7, <3>1, <1>c, <2>o, CoverFrame DEF CrNext, ListDone, uffdvars, memvars
    <3>2. CASE todo[CrWorker] # {}
      <4>1. PICK q \in todo[CrWorker] :
              /\ dirty' = dirty \ {q}
              /\ IF q \in dirty THEN /\ cur' = [cur EXCEPT ![CrWorker] = q]
                                     /\ pc'  = [pc EXCEPT ![CrWorker] = "copy"]
                                ELSE UNCHANGED <<cur, pc>>
        BY <2>7, <3>2 DEF CrNext, ListDone
      <4>2. UNCHANGED <<resident, uffdpc, filling>> /\ pc[CrWorker] = "next"
        BY <2>7 DEF CrNext, uffdvars, memvars
      <4>3. CASE p = q /\ q \in dirty
        <5>1. cur'[CrWorker] = p /\ pc'[CrWorker] = "copy"
          BY <4>1, <4>3
        <5> QED BY <5>1 DEF CoverOf, Unsaved
      <4>4. CASE ~(p = q /\ q \in dirty)
        <5>1. p \in dirty => p \in dirty'
          BY <4>1, <4>4
        <5>2. \A t \in Threads : pc[t] \in {"copy", "seek", "write", "drop"} =>
                                 pc'[t] = pc[t] /\ cur'[t] = cur[t]
          BY <4>1, <4>2
        <5> QED BY <4>2, <5>1, <5>2, <1>c, <2>o, CoverFrame
      <4> QED BY <4>3, <4>4
    <3> QED BY <3>1, <3>2
  <2>8. CASE UNCHANGED vars
    BY <2>8, <1>c, <2>o, CoverFrame DEF vars, uffdvars, dumpvars, memvars
  <2> QED BY <2>1, <2>2, <2>3, <2>4, <2>5, <2>6, <2>7, <2>8, <1>n, NextSteps
<1> QED BY <1>s, <1>r, <1>n

-----------------------------------------------------------------------------
(***************************************************************************)
(* What a call has persisted stays persisted until the call is over        *)
(***************************************************************************)

(* Nobody stores to a page that a sleeping thread has asked to persist.    *)
LEMMA RequestedNotStored ==
  ASSUME Discipline, Types, Calls, NEW w \in Users, NEW p \in Pages,
         (pc[w] = "wait" /\ p \in region[w]) \/ job[w] = "all"
  PROVE  ~\E u \in Users, v \in Vals : Store(u, p, v)
<1> SUFFICES ASSUME NEW u \in Users, NEW v \in Vals, Store(u, p, v) PROVE FALSE
  OBVIOUS
<1>1. pc[u] = "idle" /\ p \in Access[u]
  BY DEF Store, Idle
<1>2. CASE pc[w] = "wait" /\ p \in region[w]
  <2>1. p \in Access[w] /\ u # w
    BY <1>1, <1>2 DEF Calls
  <2> QED BY <1>1, <2>1 DEF Discipline
<1>3. CASE job[w] = "all"
  <2>1. u = w
    BY <1>3 DEF Calls, Discipline
  <2> QED BY <1>1, <1>3, <2>1 DEF Calls, FileStates
<1> QED BY <1>2, <1>3

LEMMA RequestedKept ==
  ASSUME Discipline, Types, Queue, Calls, Position, Faults, Dump, [Next]_vars, ~Restart,
         NEW w \in Users, NEW p \in Pages, OnFile(p),
         (pc[w] = "wait" /\ p \in region[w]) \/ job[w] = "all"
  PROVE  OnFile(p)'
BY RequestedNotStored, OnFileStep

(* A page leaves the hands of its dumper on the file.                      *)
LEMMA UnsavedStep ==
  ASSUME Types, Position, [Next]_vars, ~Restart,
         NEW t \in Threads, NEW p \in Pages, Unsaved(t, p)
  PROVE  Unsaved(t, p)' \/ OnFile(p)'
<1> USE ConstantsAssumption DEF Threads, Types, PcTypes, Unsaved
<1>1. ASSUME NEW w \in Threads, StepOf(w) PROVE Unsaved(t, p)' \/ OnFile(p)'
  <2>1. CASE \/ PageFault(w) \/ LockSet(w) \/ LockSeek(w) \/ LockWrite(w)
             \/ UnlockSet(w) \/ UnlockSeek(w) \/ UnlockWrite(w)
    BY <2>1 DEF PageFault, LockSet, LockSeek, LockWrite, UnlockSet, UnlockSeek, UnlockWrite,
                SetWord, Seek, dumpvars
  <2>2. CASE DumpCopy(w) \/ DumpSeek(w)
    BY <2>2 DEF DumpCopy, DumpSeek, Seek, dumpvars
  <2>3. CASE DumpWrite(w)
    <3>1. CASE w = t
      <4>1. nvfs'[p] = mem[p] /\ mem' = mem
        BY <2>3, <3>1 DEF DumpWrite, Position, Dumping, WritePage, memvars, MemTypes
      <4> QED BY <4>1 DEF OnFile
    <3>2. CASE w # t
      BY <2>3, <3>2 DEF DumpWrite, dumpvars
    <3> QED BY <3>1, <3>2
  <2>4. CASE DumpDrop(w) \/ DumpBack(w)
    BY <2>4 DEF DumpDrop, DumpBack, dumpvars
  <2> QED BY <1>1, <2>1, <2>2, <2>3, <2>4 DEF StepOf
<1>2. ASSUME NEW u \in Users, UserOnly(u) PROVE Unsaved(t, p)'
  <2>1. CASE (\E q \in Pages, v \in Vals : Store(u, q, v)) \/ (\E R \in SUBSET Access[u] : Commit(u, R))
    BY <2>1 DEF Store, Commit, Idle, dumpvars
  <2>2. CASE MetaCheckpoint(u) \/ CheckpointEverything(u) \/ Shutdown(u)
    BY <2>2 DEF MetaCheckpoint, CheckpointEverything, Shutdown, Start, Idle
  <2>3. CASE MetaSubmit(u) \/ CommitReturns(u)
    BY <2>3 DEF MetaSubmit, CommitReturns, dumpvars
  <2>4. CASE EverythingNext(u)
    BY <2>4 DEF EverythingNext
  <2>5. CASE PushKill(u) \/ JoinUffd(u) \/ JoinCr(u) \/ Teardown(u)
    BY <2>5 DEF PushKill, JoinUffd, JoinCr, Teardown, ShutdownStep, dumpvars
  <2> QED BY <1>2, <2>1, <2>2, <2>3, <2>4, <2>5 DEF UserOnly
<1>3. CASE UffdPoll \/ (\E q \in Pages : UffdRead(q)) \/ UffdCopy
  BY <1>3 DEF UffdPoll, UffdRead, UffdCopy, dumpvars
<1>4. CASE CrPop \/ CrNext \/ CrPost
  BY <1>4 DEF CrPop, CrNext, CrPost, dumpvars
<1>5. CASE UNCHANGED vars
  BY <1>5 DEF vars, dumpvars
<1> QED BY <1>1, <1>2, <1>3, <1>4, <1>5, NextSteps

(* A step that neither starts nor ends a call's work.                      *)
LEMMA ProgressFrame ==
  ASSUME Discipline, Types, Queue, Calls, Position, Faults, Dump, Progress,
         [Next]_vars, ~Restart,
         UNCHANGED <<todo, serving, finished>>,
         \A u \in Users : serving = u \/ finished[u] # 0 => region'[u] = region[u],
         \A u \in Users : job'[u] = "all" => job[u] = "all"
  PROVE  Progress'
<1> USE ConstantsAssumption DEF Threads, Types, JobTypes
<1>1. ServedPages'
  <2> SUFFICES ASSUME serving \in Users, NEW p \in region[serving]
               PROVE  p \in todo[CrWorker] \/ Unsaved(CrWorker, p)' \/ OnFile(p)'
    BY DEF ServedPages
  <2>1. pc[serving] = "wait" /\ p \in Pages
    BY DEF Queue
  <2>2. p \in todo[CrWorker] \/ Unsaved(CrWorker, p) \/ OnFile(p)
    BY DEF Progress, ServedPages
  <2> QED BY <2>1, <2>2, RequestedKept, UnsavedStep
<1>2. AnsweredPages'
  <2> SUFFICES ASSUME NEW u \in Users, finished[u] # 0, NEW p \in region[u]
               PROVE  OnFile(p)'
    BY DEF AnsweredPages
  <2>1. pc[u] = "wait" /\ p \in Pages
    BY DEF Queue
  <2>2. OnFile(p)
    BY DEF Progress, AnsweredPages
  <2> QED BY <2>1, <2>2, RequestedKept
<1>3. EverythingPages'
  <2> SUFFICES ASSUME NEW u \in Users, job[u] = "all", NEW p \in Pages
               PROVE  p \in todo[u] \/ Unsaved(u, p)' \/ OnFile(p)'
    BY DEF EverythingPages
  <2>1. p \in todo[u] \/ Unsaved(u, p) \/ OnFile(p)
    BY DEF Progress, EverythingPages
  <2> QED BY <2>1, RequestedKept, UnsavedStep
<1> QED BY <1>1, <1>2, <1>3 DEF Progress

LEMMA ProgressStep ==
  ASSUME Discipline, Types, Queue, Calls, Position, Faults, Dump, Lists, Cover, Progress,
         [Next]_vars
  PROVE  Progress'
<1> USE ConstantsAssumption DEF Threads, Types, JobTypes
<1>0. CASE Restart
  BY <1>0 DEF Restart, Progress, ServedPages, AnsweredPages, EverythingPages
<1>n. CASE ~Restart
  <2> USE <1>n
  <2>1. ASSUME NEW t \in Threads, StepOf(t) PROVE Progress'
    <3>1. CASE \/ PageFault(t) \/ LockSet(t) \/ LockSeek(t) \/ LockWrite(t)
               \/ UnlockSet(t) \/ UnlockSeek(t)
      BY <3>1, ProgressFrame DEF PageFault, LockSet, LockSeek, LockWrite, UnlockSet, UnlockSeek,
                                 SetWord, Seek, reqvars, dumpvars
    <3>2. CASE UnlockWrite(t)
      BY <3>2, ProgressFrame DEF UnlockWrite, reqvars, dumpvars
    <3>3. CASE DumpCopy(t) \/ DumpSeek(t) \/ DumpWrite(t) \/ DumpDrop(t) \/ DumpBack(t)
      BY <3>3, ProgressFrame DEF DumpCopy, DumpSeek, Seek, DumpWrite, DumpDrop, DumpBack,
                                 reqvars, dumpvars
    <3> QED BY <2>1, <3>1, <3>2, <3>3 DEF StepOf
  <2>2. ASSUME NEW u \in Users, UserOnly(u) PROVE Progress'
    <3>1. CASE \E q \in Pages, v \in Vals : Store(u, q, v)
      BY <3>1, ProgressFrame DEF Store, reqvars, dumpvars
    <3>2. CASE (\E R \in SUBSET Access[u] : Commit(u, R)) \/ MetaSubmit(u)
      <4>1. serving # u /\ finished[u] = 0
        <5>1. finished[u] \in Nat
          OBVIOUS
        <5> QED BY <3>2, <5>1 DEF Commit, MetaSubmit, Idle, Queue
      <4>2. PICK R : region' = [region EXCEPT ![u] = R] /\ UNCHANGED <<serving, finished>>
        BY <3>2 DEF Commit, MetaSubmit, Submit
      <4>3. \A w \in Users : serving = w \/ finished[w] # 0 => region'[w] = region[w]
        BY <4>1, <4>2
      <4>4. todo' = todo /\ \A w \in Users : job'[w] = "all" => job[w] = "all"
        BY <3>2 DEF Commit, MetaSubmit, dumpvars
      <4> QED BY <4>2, <4>3, <4>4, ProgressFrame
    <3>3. CASE CommitReturns(u)
      <4> USE DEF CommitReturns
      <4>1. serving # u
        BY <3>3 DEF Queue
      <4>2. UNCHANGED <<mem, nvfs, cur, todo, serving>>
            /\ (\A t \in Threads : pc[t] # "wait" => pc'[t] = pc[t])
        BY <3>3 DEF memvars, filevars, dumpvars, PcTypes
      <4>3. \A p : OnFile(p) => OnFile(p)'
        BY <4>2 DEF OnFile
      <4>4. \A t \in Threads, p \in Pages : Unsaved(t, p) => Unsaved(t, p)'
        BY <4>2 DEF Unsaved
      <4>5. ServedPages'
        BY <3>3, <4>1, <4>2, <4>3, <4>4 DEF Progress, ServedPages
      <4>6. AnsweredPages'
        BY <3>3, <4>3 DEF Progress, AnsweredPages
      <4>7. EverythingPages'
        BY <3>3, <4>2, <4>3, <4>4 DEF Progress, EverythingPages
      <4> QED BY <4>5, <4>6, <4>7 DEF Progress
    <3>4. CASE MetaCheckpoint(u) \/ Shutdown(u)
      BY <3>4, ProgressFrame DEF MetaCheckpoint, Shutdown, Start, reqvars
    <3>5. CASE CheckpointEverything(u)
      <4>1. Users = {u} /\ pc[u] = "idle" /\ pc'[u] = "lock" /\ todo'[u] = dirty
        BY <3>5 DEF CheckpointEverything, Discipline, Start, Idle, PcTypes
      <4>2. serving = Nobody /\ pc[CrWorker] \in {"pop", "exit"} /\ finished[u] = 0
        <5>1. finished[u] \in Nat
          OBVIOUS
        <5> QED BY <4>1, <5>1 DEF Queue
      <4>3. \A p \in Pages : p \in dirty \/ OnFile(p)
        BY <4>1, <4>2 DEF Cover, CoverOf, Unsaved
      <4>4. UNCHANGED <<mem, nvfs, cur, serving, finished, region>>
            /\ (\A t \in Threads : pc[t] # "idle" => pc'[t] = pc[t])
        BY <3>5 DEF CheckpointEverything, Start, Idle, memvars, filevars, reqvars
      <4>5. \A p : OnFile(p) => OnFile(p)'
        BY <4>4 DEF OnFile
      <4> QED BY <4>1, <4>2, <4>3, <4>4, <4>5
              DEF Progress, ServedPages, AnsweredPages, EverythingPages
    <3>6. CASE EverythingNext(u)
      <4>1. UNCHANGED <<mem, nvfs, serving, finished, region, job>> /\ pc[u] = "next"
        BY <3>6 DEF EverythingNext, memvars, filevars, reqvars
      <4>2. UNCHANGED todo \/ \E p \in todo[u] : /\ todo' = [todo EXCEPT ![u] = @ \ {p}]
                                                 /\ cur' = [cur EXCEPT ![u] = p]
                                                 /\ pc' = [pc EXCEPT ![u] = "copy"]
        BY <3>6 DEF EverythingNext
      <4>3. CASE UNCHANGED todo
        BY <4>1, <4>3, ProgressFrame
      <4>4. CASE \E p \in todo[u] : /\ todo' = [todo EXCEPT ![u] = @ \ {p}]
                                    /\ cur' = [cur EXCEPT ![u] = p]
                                    /\ pc' = [pc EXCEPT ![u] = "copy"]
        <5>1. PICK p \in todo[u] : /\ todo' = [todo EXCEPT ![u] = @ \ {p}]
                                   /\ cur' = [cur EXCEPT ![u] = p]
                                   /\ pc' = [pc EXCEPT ![u] = "copy"]
          BY <4>4
        <5>2. \A t \in Threads \ {u} : todo'[t] = todo[t] /\ cur'[t] = cur[t] /\ pc'[t] = pc[t]
          BY <5>1 DEF PcTypes
        <5>3. todo'[u] = todo[u] \ {p} /\ cur'[u] = p /\ pc'[u] = "copy"
          BY <5>1 DEF PcTypes
        <5>4. \A q : OnFile(q) => OnFile(q)'
          BY <4>1, <5>2 DEF OnFile
        <5>5. \A t \in Threads : \A q : Unsaved(t, q) => Unsaved(t, q)'
          BY <4>1, <5>2 DEF Unsaved
        <5>6. ServedPages' /\ AnsweredPages'
          BY <4>1, <5>2, <5>4, <5>5 DEF Progress, ServedPages, AnsweredPages
        <5>7. Unsaved(u, p)'
          BY <5>3 DEF Unsaved
        <5>8. EverythingPages'
          BY <4>1, <5>2, <5>3, <5>4, <5>5, <5>7 DEF Progress, EverythingPages
        <5> QED BY <5>6, <5>8 DEF Progress
      <4> QED BY <4>2, <4>3, <4>4
    <3>7. CASE PushKill(u) \/ JoinUffd(u) \/ JoinCr(u) \/ Teardown(u)
      BY <3>7, ProgressFrame DEF PushKill, JoinUffd, JoinCr, Teardown, ShutdownStep, dumpvars
    <3> QED BY <2>2, <3>1, <3>2, <3>3, <3>4, <3>5, <3>6, <3>7 DEF UserOnly
  <2>3. CASE UffdPoll \/ (\E q \in Pages : UffdRead(q)) \/ UffdCopy
    BY <2>3, ProgressFrame DEF UffdPoll, UffdRead, UffdCopy, reqvars, dumpvars
  <2>4. CASE CrPop
    <3>1. UNCHANGED <<mem, nvfs, cur, finished, region, job>> /\ pc[CrWorker] = "pop"
          /\ (\A t \in Threads \ {CrWorker} : todo'[t] = todo[t] /\ pc'[t] = pc[t])
          /\ (serving' = serving \/ todo'[CrWorker] = region[serving'])
      <4>1. \/ UNCHANGED <<serving, todo>>
            \/ todo' = [todo EXCEPT ![CrWorker] = region[serving']]
        BY <2>4 DEF CrPop
      <4>2. \E s \in {"exit", "lock"} : pc' = [pc EXCEPT ![CrWorker] = s]
        BY <2>4 DEF CrPop
      <4> QED BY <2>4, <4>1, <4>2 DEF CrPop, memvars, filevars, PcTypes
    <3>2. serving = Nobody
      BY <3>1 DEF Queue
    <3>3. \A q : OnFile(q) => OnFile(q)'
      BY <3>1 DEF OnFile
    <3>4. \A u \in Users : \A q : Unsaved(u, q) => Unsaved(u, q)'
      BY <3>1 DEF Unsaved
    <3>5. ServedPages'
      BY <3>1, <3>2 DEF ServedPages
    <3> QED BY <3>1, <3>3, <3>4, <3>5 DEF Progress, AnsweredPages, EverythingPages
  <2>5. CASE CrNext
    <3>1. UNCHANGED <<mem, nvfs, serving, finished, region, job>> /\ pc[CrWorker] = "next"
      BY <2>5 DEF CrNext, memvars, filevars, reqvars
    <3>2. CASE todo[CrWorker] = {}
      <4>1. UNCHANGED todo
        BY <2>5, <3>2 DEF CrNext, ListDone
      <4> QED BY <3>1, <4>1, ProgressFrame
    <3>3. CASE todo[CrWorker] # {}
      <4>1. PICK p \in todo[CrWorker] :
              /\ todo' = [todo EXCEPT ![CrWorker] = @ \ {p}]
              /\ IF p \in dirty THEN /\ cur' = [cur EXCEPT ![CrWorker] = p]
                                     /\ pc'  = [pc EXCEPT ![CrWorker] = "copy"]
                                ELSE UNCHANGED <<cur, pc>>
        BY <2>5, <3>3 DEF CrNext, ListDone
      <4>2. \A t \in Threads \ {CrWorker} :
              todo'[t] = todo[t] /\ cur'[t] = cur[t] /\ pc'[t] = pc[t]
        BY <4>1 DEF PcTypes
      <4>3. todo'[CrWorker] = todo[CrWorker] \ {p} /\ p \in Pages
        BY <4>1
      <4>4. \A q : OnFile(q) => OnFile(q)'
        BY <3>1, <4>2 DEF OnFile
      <4>5. \A u \in Users : \A q : Unsaved(u, q) => Unsaved(u, q)'
        BY <4>2 DEF Unsaved
      <4>6. Unsaved(CrWorker, p)' \/ OnFile(p)'
        <5>1. CASE p \in dirty
          BY <4>1, <5>1 DEF Unsaved, PcTypes
        <5>2. CASE p \notin dirty
          <6>1. \A t \in Threads : ~Unsaved(t, p)
            BY <3>1, Exclusive DEF Unsaved, FileStates
          <6> QED BY <4>3, <4>4, <5>2, <6>1 DEF Cover, CoverOf
        <5> QED BY <5>1, <5>2
      <4>7. ServedPages'
        BY <3>1, <4>3, <4>4, <4>6 DEF Progress, ServedPages, Unsaved
      <4>8. AnsweredPages' /\ EverythingPages'
        BY <3>1, <4>2, <4>4, <4>5 DEF Progress, AnsweredPages, EverythingPages
      <4> QED BY <4>7, <4>8 DEF Progress
    <3> QED BY <3>2, <3>3
  <2>6. CASE CrPost
    <3>1. UNCHANGED <<mem, nvfs, cur, todo, region, job>> /\ pc[CrWorker] = "post"
          /\ (\A t \in Threads \ {CrWorker} : pc'[t] = pc[t])
          /\ serving' = Nobody /\ finished' = [finished EXCEPT ![serving] = @ + 1]
      BY <2>6 DEF CrPost, Posted, memvars, filevars, dumpvars
    <3>2. todo[CrWorker] = {} /\ \A p : ~Unsaved(CrWorker, p)
      BY <3>1 DEF Lists, Unlocking, Unsaved
    <3>3. \A q : OnFile(q) => OnFile(q)'
      BY <3>1 DEF OnFile
    <3>4. \A u \in Users : \A q : Unsaved(u, q) => Unsaved(u, q)'
      BY <3>1 DEF Unsaved
    <3>5. serving \in Users => \A p \in region[serving] : OnFile(p)
      BY <3>2 DEF Progress, ServedPages
    <3>6. AnsweredPages'
      BY <3>1, <3>3, <3>5 DEF Progress, AnsweredPages
    <3>7. ServedPages' /\ EverythingPages'
      BY <3>1, <3>3, <3>4 DEF Progress, ServedPages, EverythingPages
    <3> QED BY <3>6, <3>7 DEF Progress
  <2>7. CASE UNCHANGED vars
    BY <2>7, ProgressFrame DEF vars, reqvars, dumpvars
  <2> QED BY <2>1, <2>2, <2>3, <2>4, <2>5, <2>6, <2>7, NextSteps
<1> QED BY <1>0, <1>n

-----------------------------------------------------------------------------
(***************************************************************************)
(* The writelock word                                                      *)
(***************************************************************************)
LEMMA WritelockFrame ==
  ASSUME Writelock, mem'[Meta].wl = mem[Meta].wl, nvfs'[Meta].wl = nvfs[Meta].wl,
         \A t \in Threads :
           pc'[t] \in {"lockseek", "lockwrite", "next"} \/ Dumping(t)' =>
             pc'[t] = pc[t] /\ cur'[t] = cur[t] /\ cpy'[t] = cpy[t]
  PROVE  Writelock'
BY DEF Writelock, Dumping

(* A step of the one thread that is using the file.                        *)
LEMMA WritelockMove ==
  ASSUME Types, Queue, Calls, Writelock, NEW t \in Threads, pc[t] \in FileStates,
         \A w \in Threads \ {t} : pc'[w] = pc[w],
         pc'[t] \in {"lockseek", "lockwrite", "next"} \/ Dumping(t)' => mem'[Meta].wl = 0,
         pc'[t] = "back" /\ cur'[t] = Meta => cpy'[t].wl = 0,
         pc'[t] = "next" \/ Dumping(t)' => nvfs'[Meta].wl = 0
  PROVE  Writelock'
<1>1. \A w \in Threads \ {t} : pc[w] \notin FileStates
  BY Exclusive
<1>2. \A w \in Threads \ {t} : pc'[w] \notin FileStates
  BY <1>1
<1> QED BY <1>2 DEF Writelock, FileStates, Dumping

LEMMA WritelockStep ==
  ASSUME Types, Queue, Calls, Position, Faults, Dump, Writelock, [Next]_vars
  PROVE  Writelock'
<1> USE ConstantsAssumption DEF Threads, Types
<1>1. ASSUME NEW t \in Threads, StepOf(t) PROVE Writelock'
  <2>1. CASE PageFault(t)
    BY <2>1, WritelockFrame DEF PageFault, memvars, filevars, dumpvars, Dumping
  <2>2. CASE ~PageFault(t)
    <3>1. pc[t] \in FileStates
      BY <1>1, <2>2 DEF StepOf, LockSet, LockSeek, LockWrite, UnlockSet, UnlockSeek,
         UnlockWrite, DumpCopy, DumpSeek, DumpWrite, DumpDrop, DumpBack, SetWord, Seek, FileStates
    <3> USE <3>1 DEF PcTypes, Dumping
    <3>2. CASE LockSet(t)
      <4>1. mem'[Meta].wl = 0
        BY <3>2 DEF LockSet, SetWord, WithWord, MemTypes
      <4> QED BY <3>2, <4>1, WritelockMove DEF LockSet, SetWord
    <3>3. CASE UnlockSet(t)
      BY <3>3, WritelockMove DEF UnlockSet, SetWord
    <3>4. CASE LockSeek(t) \/ UnlockSeek(t)
      BY <3>4, WritelockMove DEF LockSeek, UnlockSeek, Seek, memvars, Writelock
    <3>5. CASE LockWrite(t)
      <4>1. fpos = Meta /\ mem[Meta].wl = 0
        BY <3>5 DEF LockWrite, Position, Writelock
      <4>2. mem' = mem /\ nvfs'[Meta].wl = 0
        BY <3>5, <4>1 DEF LockWrite, WriteWord, WithWord, memvars, MemTypes
      <4> QED BY <3>5, <4>1, <4>2, WritelockMove DEF LockWrite
    <3>6. CASE UnlockWrite(t)
      BY <3>6, WritelockMove DEF UnlockWrite
    <3>7. CASE DumpCopy(t) \/ DumpSeek(t)
      BY <3>7, WritelockMove DEF DumpCopy, DumpSeek, Seek, memvars, filevars, Writelock
    <3>8. CASE DumpWrite(t)
      <4>1. fpos = cur[t] /\ mem[Meta].wl = 0 /\ nvfs[Meta].wl = 0
        BY <3>8 DEF DumpWrite, Position, Writelock
      <4>2. mem' = mem /\ nvfs'[Meta].wl = 0
        <5>1. cur[t] \in Pages
          BY <3>8 DEF DumpWrite
        <5> QED BY <3>8, <4>1, <5>1 DEF DumpWrite, WritePage, memvars, MemTypes
      <4> QED BY <3>8, <4>1, <4>2, WritelockMove DEF DumpWrite
    <3>9. CASE DumpDrop(t)
      <4>1. mem[Meta].wl = 0 /\ nvfs[Meta].wl = 0 /\ cpy[t] = mem[cur[t]]
        BY <3>9 DEF DumpDrop, Writelock, Dump
      <4>2. nvfs' = nvfs /\ mem'[Meta].wl = 0
        BY <3>9, <4>1 DEF DumpDrop, filevars, MemTypes, ZeroPage
      <4> QED BY <3>9, <4>1, <4>2, WritelockMove DEF DumpDrop, dumpvars
    <3>10. CASE DumpBack(t)
      <4>1. nvfs[Meta].wl = 0 /\ mem[Meta].wl = 0 /\ (cur[t] = Meta => cpy[t].wl = 0)
        BY <3>10 DEF DumpBack, Writelock
      <4>2. nvfs' = nvfs /\ mem'[Meta].wl = 0
        BY <3>10, <4>1 DEF DumpBack, CopyBack, filevars, MemTypes
      <4> QED BY <3>10, <4>1, <4>2, WritelockMove DEF DumpBack
    <3> QED BY <1>1, <2>2, <3>2, <3>3, <3>4, <3>5, <3>6, <3>7, <3>8, <3>9, <3>10 DEF StepOf
  <2> QED BY <2>1, <2>2
<1>2. ASSUME NEW u \in Users, UserOnly(u) PROVE Writelock'
  <2> USE DEF PcTypes, Dumping
  <2>1. ASSUME NEW p \in Pages, NEW v \in Vals, Store(u, p, v) PROVE Writelock'
    <3>1. mem'[Meta].wl = mem[Meta].wl
      BY <2>1 DEF Store, WithData, MemTypes
    <3> QED BY <2>1, <3>1, WritelockFrame DEF Store, filevars, dumpvars
  <2>2. CASE (\E R \in SUBSET Access[u] : Commit(u, R)) \/ MetaSubmit(u) \/ CommitReturns(u)
    BY <2>2, WritelockFrame DEF Commit, MetaSubmit, CommitReturns, memvars, filevars, dumpvars
  <2>3. CASE MetaCheckpoint(u) \/ CheckpointEverything(u) \/ Shutdown(u)
    BY <2>3, WritelockFrame DEF MetaCheckpoint, CheckpointEverything, Shutdown, Start,
                                memvars, filevars
  <2>4. CASE EverythingNext(u)
    <3>1. pc[u] \in FileStates /\ UNCHANGED <<mem, nvfs, cpy>>
          /\ mem[Meta].wl = 0 /\ nvfs[Meta].wl = 0
          /\ \E s \in {"unlock", "copy"} : pc' = [pc EXCEPT ![u] = s]
      BY <2>4 DEF EverythingNext, memvars, filevars, FileStates, Writelock
    <3> QED BY <3>1, WritelockMove
  <2>5. CASE PushKill(u) \/ JoinUffd(u) \/ JoinCr(u) \/ Teardown(u)
    BY <2>5, WritelockFrame DEF PushKill, JoinUffd, JoinCr, Teardown, ShutdownStep,
                                memvars, filevars, dumpvars
  <2> QED BY <1>2, <2>1, <2>2, <2>3, <2>4, <2>5 DEF UserOnly
<1>3. CASE UffdPoll \/ (\E p \in Pages : UffdRead(p))
  BY <1>3, WritelockFrame DEF UffdPoll, UffdRead, memvars, filevars, dumpvars, Dumping
<1>4. CASE UffdCopy
  <2>1. mem' = [mem EXCEPT ![filling] = ZeroPage] /\ filling \in Pages /\ mem[filling] = ZeroPage
    BY <1>4 DEF UffdCopy, Faults, UffdTypes
  <2>2. mem'[Meta].wl = mem[Meta].wl
    BY <2>1 DEF MemTypes
  <2> QED BY <1>4, <2>2, WritelockFrame DEF UffdCopy, filevars, dumpvars, Dumping
<1>5. CASE CrPop \/ CrPost
  BY <1>5, WritelockFrame DEF CrPop, CrPost, memvars, filevars, dumpvars, PcTypes, Dumping
<1>6. CASE CrNext
  <2>1. pc[CrWorker] \in FileStates /\ UNCHANGED <<mem, nvfs, cpy>>
        /\ mem[Meta].wl = 0 /\ nvfs[Meta].wl = 0
    BY <1>6 DEF CrNext, memvars, filevars, FileStates, Writelock
  <2>2. \E s \in {"unlock", "copy", "next"} : pc' = [pc EXCEPT ![CrWorker] = s]
    <3>1. pc[CrWorker] = "next"
      BY <1>6 DEF CrNext
    <3>2. pc = [pc EXCEPT ![CrWorker] = "next"]
      BY <3>1 DEF PcTypes
    <3> QED BY <1>6, <3>2 DEF CrNext
  <2> QED BY <2>1, <2>2, WritelockMove DEF PcTypes
<1>7. CASE Restart
  BY <1>7 DEF Restart, Writelock, Dumping
<1>8. CASE UNCHANGED vars
  BY <1>8, WritelockFrame DEF vars, memvars, filevars, dumpvars
<1> QED BY <1>1, <1>2, <1>3, <1>4, <1>5, <1>6, <1>7, <1>8, NextSteps

-----------------------------------------------------------------------------
(***************************************************************************)
(* The invariant                                                           *)
(***************************************************************************)
LEMMA IInvInit ==
  ASSUME Init
  PROVE  IInv
<1> USE ConstantsAssumption DEF Init, Threads
<1>1. Types
  BY TypesInit
<1>2. Queue /\ Calls
  BY DEF Queue, Calls
<1>3. Position /\ Dump /\ Lists /\ Writelock
  BY DEF Position, Dump, Lists, Unlocking, Writelock, Dumping
<1>4. Faults
  BY DEF Faults
<1>5. Cover
  BY DEF Cover, CoverOf, OnFile
<1>6. Progress
  BY DEF Progress, ServedPages, AnsweredPages, EverythingPages
<1> QED BY <1>1, <1>2, <1>3, <1>4, <1>5, <1>6 DEF IInv

LEMMA IInvStep ==
  ASSUME Discipline, IInv, [Next]_vars
  PROVE  IInv'
<1> USE DEF IInv
<1>1. Types' /\ Faults'
  BY TypesStep, FaultsStep
<1>2. Queue' /\ Calls'
  BY QueueStep, CallsStep
<1>3. Position' /\ Dump' /\ Lists' /\ Writelock'
  BY PositionStep, DumpStep, ListsStep, WritelockStep
<1>4. Cover' /\ Progress'
  BY CoverStep, ProgressStep
<1> QED BY <1>1, <1>2, <1>3, <1>4

(* Under the program's discipline the invariant holds of every reachable   *)
(* state of the store, whatever its threads, its pages and the crashes.    *)
THEOREM InvariantHolds == Discipline => (Spec => []IInv)
<1> SUFFICES ASSUME Discipline PROVE Spec => []IInv
  OBVIOUS
<1>1. Init => IInv
  BY IInvInit
<1>2. IInv /\ [Next]_vars => IInv'
  BY IInvStep
<1> QED BY <1>1, <1>2, PTL DEF Spec

(* What is on the file is what the program sees.                           *)
LEMMA OnFileSaved ==
  ASSUME Dump, NEW p, OnFile(p)
  PROVE  Saved(p)
<1>1. CASE PuttingBack(p) # {}
  <2> DEFINE w == CHOOSE t \in PuttingBack(p) : TRUE
  <2>1. w \in Threads /\ pc[w] = "back" /\ cur[w] = p
    BY <1>1 DEF PuttingBack
  <2>2. nvfs[p].data = cpy[w].data
    BY <2>1 DEF Dump
  <2> QED BY <1>1, <2>2 DEF Saved, View
<1>2. CASE PuttingBack(p) = {}
  BY <1>2 DEF OnFile, Saved, View, PuttingBack
<1> QED BY <1>1, <1>2

(* No store is forgotten by the dirty set: vtsdirtyset is filled by page   *)
(* faults only, and emptied by the checkpoint worker page by page.         *)
THEOREM NothingForgotten == Discipline => (Spec => []DirtyCovers)
<1> SUFFICES ASSUME Discipline PROVE Spec => []DirtyCovers
  OBVIOUS
<1>1. IInv => DirtyCovers
  BY OnFileSaved DEF IInv, Cover, CoverOf, DirtyCovers
<1> QED BY <1>1, InvariantHolds, PTL

(* checkpoint_commit returns only when every page that was added to the    *)
(* checkpoint is on the file as the caller left it.                        *)
THEOREM CommitsAreDurable == Discipline => (Spec => []CommitDurable)
<1> SUFFICES ASSUME Discipline PROVE Spec => []CommitDurable
  OBVIOUS
<1>1. IInv => CommitDurable
  BY OnFileSaved DEF IInv, Progress, AnsweredPages, CommitDurable
<1> QED BY <1>1, InvariantHolds, PTL

(* The unlocked fseek and fwrite of nvstore.c and vblock.c are never       *)
(* interleaved by a program that keeps to the rule of nvstore.h:30-41.     *)
THEOREM WritesInPlace == Discipline => (Spec => []WritesLandInPlace)
<1> SUFFICES ASSUME Discipline PROVE Spec => []WritesLandInPlace
  OBVIOUS
<1>1. IInv => WritesLandInPlace
  BY DEF IInv, Position, WritesLandInPlace
<1> QED BY <1>1, InvariantHolds, PTL

(* The word on the file tells a checkpoint that was cut short.             *)
THEOREM WritelockMarks == Discipline => (Spec => []WritelockMarksWrites)
<1> SUFFICES ASSUME Discipline PROVE Spec => []WritelockMarksWrites
  OBVIOUS
<1>1. IInv => WritelockMarksWrites
  BY DEF IInv, Writelock, WritelockMarksWrites
<1> QED BY <1>1, InvariantHolds, PTL

(* The userfaultfd worker never fills a page that is present, whatever the *)
(* program does: the assertion of nvstore_handle_pagefault holds.          *)
THEOREM FillsMissingPages == Spec => []FillsMissing
<1>1. Init => Types /\ Faults
  BY TypesInit, ConstantsAssumption DEF Init, Faults
<1>2. Types /\ Faults /\ [Next]_vars => (Types /\ Faults)'
  BY TypesStep, FaultsStep
<1>3. Faults => FillsMissing
  BY DEF Faults, FillsMissing
<1> QED BY <1>1, <1>2, <1>3, PTL DEF Spec

-----------------------------------------------------------------------------
(***************************************************************************)
(* What the program sees                                                   *)
(***************************************************************************)
Hidden(t, p) == pc[t] = "back" /\ cur[t] = p

LEMMA ViewPlain ==
  ASSUME NEW p, \A t \in Threads : ~Hidden(t, p)
  PROVE  View(p) = mem[p].data
BY DEF View, Hidden, PuttingBack

LEMMA ViewFrame ==
  ASSUME NEW p \in Pages,
         mem'[p].data = mem[p].data,
         \A t \in Threads : Hidden(t, p)' <=> Hidden(t, p),
         \A t \in Threads : Hidden(t, p) => cpy'[t] = cpy[t]
  PROVE  View(p)' = View(p)
<1>1. PuttingBack(p)' = PuttingBack(p)
  BY DEF PuttingBack, Hidden
<1>2. CASE PuttingBack(p) = {}
  BY <1>1, <1>2 DEF View
<1>3. CASE PuttingBack(p) # {}
  <2> DEFINE w == CHOOSE t \in PuttingBack(p) : TRUE
  <2>1. w \in Threads /\ Hidden(w, p)
    BY <1>3 DEF PuttingBack, Hidden
  <2>2. View(p) = cpy[w].data
    BY <1>3 DEF View
  <2>3. View(p)' = cpy'[w].data
    BY <1>1, <1>3 DEF View
  <2> QED BY <2>1, <2>2, <2>3
<1> QED BY <1>2, <1>3

(* The dump of thread t takes nothing from its page and brings it back.    *)
Exact(t) ==
  /\ \A s \in Threads \ {t} : ~Hidden(s, cur[t])
  /\ pc[t] = "drop" => mem[cur[t]] = cpy[t]

(* Neither a page fault nor an exact dump changes what a thread reads.     *)
LEMMA ViewStep ==
  ASSUME Types, Faults, [Next]_vars, ~Restart, NEW p \in Pages,
         ~\E u \in Users, v \in Vals : Store(u, p, v),
         \A t \in Threads : cur[t] = p /\ (DumpDrop(t) \/ DumpBack(t)) => Exact(t)
  PROVE  View(p)' = View(p)
<1> USE ConstantsAssumption DEF Threads, Types, PcTypes, Hidden
<1>1. ASSUME NEW t \in Threads, StepOf(t) PROVE View(p)' = View(p)
  <2>1. CASE PageFault(t)
    BY <2>1, ViewFrame DEF PageFault, memvars, dumpvars
  <2>2. CASE LockSet(t) \/ UnlockSet(t)
    <3>1. mem'[p].data = mem[p].data
      BY <2>2 DEF LockSet, UnlockSet, SetWord, MemTypes, WithWord
    <3> QED BY <2>2, <3>1, ViewFrame DEF LockSet, UnlockSet, SetWord, dumpvars
  <2>3. CASE LockSeek(t) \/ UnlockSeek(t) \/ DumpSeek(t)
    BY <2>3, ViewFrame DEF LockSeek, UnlockSeek, DumpSeek, Seek, memvars, dumpvars
  <2>4. CASE LockWrite(t) \/ UnlockWrite(t)
    BY <2>4, ViewFrame DEF LockWrite, UnlockWrite, memvars, dumpvars
  <2>5. CASE DumpCopy(t)
    BY <2>5, ViewFrame DEF DumpCopy, memvars
  <2>6. CASE DumpWrite(t)
    BY <2>6, ViewFrame DEF DumpWrite, memvars, dumpvars
  <2>7. CASE DumpDrop(t)
    <3>1. CASE p = cur[t]
      <4>1. Exact(t)
        BY <2>7, <3>1
      <4>2. \A w \in Threads : ~Hidden(w, p)
        BY <2>7, <3>1, <4>1 DEF DumpDrop, Exact
      <4>3. View(p) = mem[p].data
        BY ONLY <4>2, ViewPlain
      <4>4. mem[p] = cpy[t]
        BY <2>7, <3>1, <4>1 DEF DumpDrop, Exact
      <4>5. PuttingBack(p)' = {t} /\ cpy' = cpy
        BY <2>7, <3>1, <4>2 DEF DumpDrop, dumpvars, PuttingBack
      <4>6. View(p)' = cpy'[t].data
        <5>1. (CHOOSE x \in {t} : TRUE) = t
          OBVIOUS
        <5> QED BY <4>5, <5>1 DEF View
      <4> QED BY <4>3, <4>4, <4>5, <4>6
    <3>2. CASE p # cur[t]
      BY <2>7, <3>2, ViewFrame DEF DumpDrop, dumpvars, MemTypes
    <3> QED BY <3>1, <3>2
  <2>8. CASE DumpBack(t)
    <3>1. \A w \in Threads \ {t} : pc'[w] = pc[w] /\ cur'[w] = cur[w] /\ cpy'[w] = cpy[w]
      BY <2>8 DEF DumpBack, MemTypes
    <3>2. CASE p = cur[t]
      <4>1. \A w \in Threads \ {t} : ~Hidden(w, p)
        BY <2>8, <3>2 DEF Exact
      <4>2. PuttingBack(p) = {t}
        BY <2>8, <3>2, <4>1 DEF DumpBack, PuttingBack
      <4>3. View(p) = cpy[t].data
        <5>1. (CHOOSE x \in {t} : TRUE) = t
          OBVIOUS
        <5> QED BY <4>2, <5>1 DEF View
      <4>4. mem'[p] = cpy[t]
        BY <2>8, <3>2 DEF DumpBack, CopyBack, MemTypes
      <4>5. PuttingBack(p)' = {}
        BY <2>8, <3>1, <4>1 DEF DumpBack, PuttingBack
      <4>6. View(p)' = mem'[p].data
        BY <4>5 DEF View
      <4> QED BY <4>3, <4>4, <4>6
    <3>3. CASE p # cur[t]
      <4>1. mem'[p] = mem[p]
        BY <2>8, <3>3 DEF DumpBack, CopyBack, MemTypes
      <4>2. ~Hidden(t, p) /\ ~Hidden(t, p)'
        BY <2>8, <3>3 DEF DumpBack
      <4> QED BY <3>1, <4>1, <4>2, ViewFrame
    <3> QED BY <3>2, <3>3
  <2> QED BY <1>1, <2>1, <2>2, <2>3, <2>4, <2>5, <2>6, <2>7, <2>8 DEF StepOf
<1>2. ASSUME NEW u \in Users, UserOnly(u) PROVE View(p)' = View(p)
  <2>1. ASSUME NEW q \in Pages, NEW v \in Vals, Store(u, q, v) PROVE View(p)' = View(p)
    <3>1. p # q
      BY <2>1
    <3> QED BY <2>1, <3>1, ViewFrame DEF Store, dumpvars, MemTypes
  <2>2. CASE (\E R \in SUBSET Access[u] : Commit(u, R)) \/ MetaSubmit(u) \/ CommitReturns(u)
    BY <2>2, ViewFrame DEF Commit, Idle, MetaSubmit, CommitReturns, memvars, dumpvars
  <2>3. CASE MetaCheckpoint(u) \/ CheckpointEverything(u) \/ Shutdown(u)
    BY <2>3, ViewFrame DEF MetaCheckpoint, CheckpointEverything, Shutdown, Start, Idle, memvars
  <2>4. CASE EverythingNext(u)
    <3>1. \A t \in Threads : Hidden(t, p)' <=> Hidden(t, p)
      BY <2>4 DEF EverythingNext
    <3> QED BY <2>4, <3>1, ViewFrame DEF EverythingNext, memvars
  <2>5. CASE PushKill(u) \/ JoinUffd(u) \/ JoinCr(u) \/ Teardown(u)
    BY <2>5, ViewFrame DEF PushKill, JoinUffd, JoinCr, Teardown, ShutdownStep, dumpvars, memvars
  <2> QED BY <1>2, <2>1, <2>2, <2>3, <2>4, <2>5 DEF UserOnly
<1>3. CASE UffdPoll \/ (\E q \in Pages : UffdRead(q))
  BY <1>3, ViewFrame DEF UffdPoll, UffdRead, dumpvars, memvars
<1>4. CASE UffdCopy
  <2>1. mem' = [mem EXCEPT ![filling] = ZeroPage] /\ filling \in Pages /\ mem[filling] = ZeroPage
    BY <1>4 DEF UffdCopy, Faults, UffdTypes
  <2>2. mem'[p] = mem[p]
    BY <2>1 DEF MemTypes
  <2> QED BY <1>4, <2>2, ViewFrame DEF UffdCopy, dumpvars
<1>5. CASE CrPop \/ CrPost
  BY <1>5, ViewFrame DEF CrPop, CrPost, dumpvars, memvars
<1>6. CASE CrNext
  <2>1. \A t \in Threads : Hidden(t, p)' <=> Hidden(t, p)
    BY <1>6 DEF CrNext
  <2> QED BY <1>6, <2>1, ViewFrame DEF CrNext, memvars
<1>7. CASE UNCHANGED vars
  BY <1>7, ViewFrame DEF vars, dumpvars, memvars
<1> QED BY <1>1, <1>2, <1>3, <1>4, <1>5, <1>6, <1>7, NextSteps

-----------------------------------------------------------------------------
(***************************************************************************)
(* Losses.  Nothing here rests on Discipline.                              *)
(***************************************************************************)

(* A step that leaves the page of a dump and its copy alone.               *)
LEMMA CopyFrame ==
  ASSUME NEW t \in Threads, CopyCurrent(t), mem'[cur[t]] = mem[cur[t]],
         cur'[t] = cur[t], cpy'[t] = cpy[t], pc'[t] = "back" <=> pc[t] = "back"
  PROVE  CopyCurrent(t)'
BY DEF CopyCurrent

(* A copy is current when it is taken and stays so unless it is raced.     *)
LEMMA CopyStep ==
  ASSUME Types, Faults, Next, NEW t \in Threads, HoldsCopy(t)',
         HoldsCopy(t) => CopyCurrent(t) /\ ~Races(t)
  PROVE  CopyCurrent(t)'
<1> USE ConstantsAssumption DEF Threads, Types, PcTypes, HoldsCopy
<1>1. ASSUME StepOf(t) PROVE CopyCurrent(t)'
  <2>1. CASE PageFault(t)
    BY <2>1, CopyFrame DEF PageFault, memvars, dumpvars
  <2>2. CASE DumpCopy(t)
    BY <2>2 DEF DumpCopy, memvars, CopyCurrent, MemTypes
  <2>3. CASE DumpSeek(t)
    BY <2>3, CopyFrame DEF DumpSeek, Seek, memvars, dumpvars
  <2>4. CASE DumpWrite(t)
    BY <2>4, CopyFrame DEF DumpWrite, memvars, dumpvars
  <2>5. CASE DumpDrop(t)
    <3>1. cur[t] \in Pages /\ cur' = cur /\ pc'[t] = "back"
      BY <2>5 DEF DumpDrop, dumpvars, Dumping
    <3>2. mem'[cur[t]] = ZeroPage
      BY <2>5, <3>1 DEF DumpDrop, MemTypes
    <3> QED BY <3>1, <3>2 DEF CopyCurrent
  <2> QED BY <1>1, <2>1, <2>2, <2>3, <2>4, <2>5 DEF StepOf, LockSet, UnlockSet, SetWord,
             LockSeek, UnlockSeek, Seek, LockWrite, UnlockWrite, DumpBack
<1>2. ASSUME NEW s \in Threads \ {t}, StepOf(s) PROVE CopyCurrent(t)'
  <2>1. pc'[t] = pc[t] /\ cur'[t] = cur[t] /\ cpy'[t] = cpy[t]
    BY <1>2 DEF StepOf, PageFault, LockSet, UnlockSet, SetWord, LockSeek, UnlockSeek, DumpSeek,
                Seek, LockWrite, UnlockWrite, DumpCopy, DumpWrite, DumpDrop, DumpBack, dumpvars,
                MemTypes
  <2>2. HoldsCopy(t) /\ CopyCurrent(t) /\ ~StoredIn(cur[t]) /\ ~Disturbs(s, cur[t])
    BY <1>2, <2>1 DEF Races
  <2>3. mem'[cur[t]] = mem[cur[t]]
    <3>1. CASE LockSet(s) \/ UnlockSet(s)
      <4>1. cur[t] # Meta
        BY <2>2, <3>1 DEF StoredIn
      <4>2. resident' = resident /\ \E w \in 0..1 : mem' = [mem EXCEPT ![Meta] = WithWord(@, w)]
        BY <3>1 DEF LockSet, UnlockSet, SetWord
      <4> QED BY <4>1, <4>2 DEF MemTypes
    <3>2. CASE DumpDrop(s)
      BY <2>2, <3>2 DEF DumpDrop, Disturbs, MemTypes
    <3>3. CASE DumpBack(s)
      BY <2>2, <3>3 DEF DumpBack, CopyBack, Disturbs, MemTypes
    <3> QED BY <1>2, <3>1, <3>2, <3>3 DEF StepOf, PageFault, LockSeek, UnlockSeek, DumpSeek,
               Seek, LockWrite, UnlockWrite, DumpCopy, DumpWrite, memvars
  <2> QED BY <2>1, <2>2, <2>3, CopyFrame
<1>3. ASSUME NEW u \in Users, UserOnly(u) PROVE CopyCurrent(t)'
  <2>1. ASSUME NEW q \in Pages, NEW v \in Vals, Store(u, q, v) PROVE CopyCurrent(t)'
    <3>1. q # cur[t]
      BY <2>1 DEF Store, dumpvars, Races, StoredIn
    <3> QED BY <2>1, <3>1, CopyFrame DEF Store, dumpvars, MemTypes
  <2>2. CASE (\E R \in SUBSET Access[u] : Commit(u, R)) \/ MetaSubmit(u) \/ CommitReturns(u)
    BY <2>2, CopyFrame DEF Commit, Idle, MetaSubmit, CommitReturns, memvars, dumpvars
  <2>3. CASE MetaCheckpoint(u) \/ CheckpointEverything(u) \/ Shutdown(u)
    BY <2>3, CopyFrame DEF MetaCheckpoint, CheckpointEverything, Shutdown, Start, Idle,
                                memvars
  <2>4. CASE EverythingNext(u)
    BY <2>4, CopyFrame DEF EverythingNext, memvars
  <2>5. CASE PushKill(u) \/ JoinUffd(u) \/ JoinCr(u) \/ Teardown(u)
    BY <2>5, CopyFrame DEF PushKill, JoinUffd, JoinCr, Teardown, ShutdownStep, dumpvars,
                                memvars
  <2> QED BY <1>3, <2>1, <2>2, <2>3, <2>4, <2>5 DEF UserOnly
<1>4. CASE UffdPoll \/ (\E q \in Pages : UffdRead(q))
  BY <1>4, CopyFrame DEF UffdPoll, UffdRead, dumpvars, memvars
<1>5. CASE UffdCopy
  <2>1. mem' = [mem EXCEPT ![filling] = ZeroPage] /\ filling \in Pages /\ mem[filling] = ZeroPage
    BY <1>5 DEF UffdCopy, Faults, UffdTypes
  <2>2. mem'[cur[t]] = mem[cur[t]]
    BY <2>1 DEF MemTypes
  <2> QED BY <1>5, <2>2, CopyFrame DEF UffdCopy, dumpvars
<1>6. CASE CrPop \/ CrNext \/ CrPost
  BY <1>6, CopyFrame DEF CrPop, CrNext, CrPost, dumpvars, memvars
<1>7. CASE Restart
  BY <1>7 DEF Restart
<1> QED BY <1>1, <1>2, <1>3, <1>4, <1>5, <1>6, <1>7, NextSteps

(* A dump that another one does not overlap and whose copy is current is    *)
(* exact.                                                                  *)
LEMMA CurrentExact ==
  ASSUME NEW t \in Threads, CopyCurrent(t), ~Overlaps(t)
  PROVE  Exact(t)
BY DEF CopyCurrent, Overlaps, HoldsCopy, Exact, Hidden

LEMMA LossStep ==
  ASSUME Types, Faults, Next
  PROVE  /\ \A t \in Threads :
              HoldsCopy(t)' /\ ~CopyCurrent(t)' =>
                HoldsCopy(t) /\ (~CopyCurrent(t) \/ Races(t))
         /\ \A p \in Pages :
              View(p)' # View(p) =>
                \/ Restart
                \/ \E u \in Users, v \in Vals : Store(u, p, v)
                \/ \E t \in Threads : Disturbs(t, p) /\ (~CopyCurrent(t) \/ Overlaps(t))
<1>1. ASSUME NEW t \in Threads, HoldsCopy(t)', HoldsCopy(t) => CopyCurrent(t) /\ ~Races(t)
      PROVE  CopyCurrent(t)'
  BY <1>1, CopyStep
<1>2. ASSUME NEW p \in Pages, ~Restart, ~\E u \in Users, v \in Vals : Store(u, p, v),
             ~\E t \in Threads : Disturbs(t, p) /\ (~CopyCurrent(t) \/ Overlaps(t))
      PROVE  View(p)' = View(p)
  <2>1. \A t \in Threads : cur[t] = p /\ (DumpDrop(t) \/ DumpBack(t)) => Exact(t)
    BY <1>2, CurrentExact DEF Disturbs
  <2> QED BY <1>2, <2>1, ViewStep
<1> QED BY <1>1, <1>2

(* Whatever the program does, a dump undoes something in its page, or      *)
(* shows the program a content it never stored, only if a thread stored in *)
(* the page, or another dump of it was under way, between the two memcpy.  *)
THEOREM OnlyRacesLose == Spec => LossesAreRaces
<1>1. Init => Types /\ Faults
  BY TypesInit, ConstantsAssumption DEF Init, Faults, Threads
<1>2. Types /\ Faults /\ [Next]_vars => (Types /\ Faults)'
  BY TypesStep, FaultsStep
<1>3. Types /\ Faults /\ [Next]_vars =>
        [/\ \A t \in Threads :
              HoldsCopy(t)' /\ ~CopyCurrent(t)' =>
                HoldsCopy(t) /\ (~CopyCurrent(t) \/ Races(t))
         /\ \A p \in Pages :
              View(p)' # View(p) =>
                \/ Restart
                \/ \E u \in Users, v \in Vals : Store(u, p, v)
                \/ \E t \in Threads : Disturbs(t, p) /\ (~CopyCurrent(t) \/ Overlaps(t))]_vars
  BY LossStep
<1> QED BY <1>1, <1>2, <1>3, PTL DEF Spec, LossesAreRaces

-----------------------------------------------------------------------------
(***************************************************************************)
(* The store implements the persistent memory                              *)
(***************************************************************************)
LEMMA DiskStep ==
  ASSUME Types, Position, [Next]_vars, NEW p \in Pages,
         ~\E t \in Threads : DumpWrite(t) /\ cur[t] = p
  PROVE  nvfs'[p].data = nvfs[p].data
<1> USE ConstantsAssumption DEF Threads, Types, PcTypes, MemTypes
<1>1. ASSUME NEW t \in Threads, StepOf(t) PROVE nvfs'[p].data = nvfs[p].data
  <2>1. CASE LockWrite(t) \/ UnlockWrite(t)
    <3>1. fpos = Meta
      BY <2>1 DEF LockWrite, UnlockWrite, Position
    <3> QED BY <2>1, <3>1 DEF LockWrite, UnlockWrite, WriteWord, WithWord
  <2>2. CASE DumpWrite(t)
    <3>1. fpos = cur[t] /\ cur[t] \in Pages /\ cur[t] # p
      BY <2>2 DEF DumpWrite, Position
    <3> QED BY <2>2, <3>1 DEF DumpWrite, WritePage
  <2> QED BY <1>1, <2>1, <2>2 DEF StepOf, PageFault, LockSet, UnlockSet, SetWord, LockSeek,
             UnlockSeek, DumpSeek, Seek, DumpCopy, DumpDrop, DumpBack, filevars
<1>2. ASSUME NEW u \in Users, UserOnly(u) PROVE nvfs' = nvfs
  <2>1. CASE (\E q \in Pages, v \in Vals : Store(u, q, v)) \/ (\E R \in SUBSET Access[u] : Commit(u, R))
    BY <2>1 DEF Store, Commit, filevars
  <2> QED BY <1>2, <2>1 DEF UserOnly, MetaCheckpoint, CheckpointEverything, Shutdown, Start,
             MetaSubmit, CommitReturns, EverythingNext, PushKill, JoinUffd, JoinCr, Teardown,
             ShutdownStep, filevars
<1>3. CASE UffdPoll \/ (\E q \in Pages : UffdRead(q)) \/ UffdCopy
  BY <1>3 DEF UffdPoll, UffdRead, UffdCopy, filevars
<1>4. CASE CrPop \/ CrNext \/ CrPost \/ Restart
  BY <1>4 DEF CrPop, CrNext, CrPost, Restart, filevars
<1>5. CASE UNCHANGED vars
  BY <1>5 DEF vars, filevars
<1> QED BY <1>1, <1>2, <1>3, <1>4, <1>5, NextSteps

(* A step that neither begins nor ends a request.                          *)
LEMMA RequestFrame ==
  ASSUME \A u \in Users : job'[u] = "all" <=> job[u] = "all",
         \A u \in Users : pc'[u] = "wait" <=> pc[u] = "wait",
         \A u \in Users : pc[u] = "wait" => region'[u] = region[u]
  PROVE  request' = request
BY DEF request

(* One that changes the request of thread u.                               *)
LEMMA RequestChange ==
  ASSUME NEW u \in Users, NEW R,
         \A w \in Users \ {u} : job'[w] = job[w] /\ pc'[w] = pc[w] /\ region'[w] = region[w],
         R = IF job'[u] = "all" THEN Pages ELSE IF pc'[u] = "wait" THEN region'[u] ELSE {}
  PROVE  request' = [request EXCEPT ![u] = R]
<1>1. \A w \in Users : request'[w] = IF w = u THEN R ELSE request[w]
  BY DEF request
<1> QED BY <1>1 DEF request

LEMMA ServedOnFile ==
  ASSUME Discipline, IInv, NEW u \in Users, NEW p \in request[u],
         finished[u] = 1 \/ (job[u] = "all" /\ pc[u] = "unlockwrite")
  PROVE  View(p) = nvfs[p].data
<1> USE DEF IInv
<1>1. OnFile(p)
  <2>1. CASE finished[u] = 1
    <3>1. pc[u] = "wait"
      BY <2>1 DEF Queue
    <3>2. p \in region[u]
      BY <3>1 DEF request, Calls, FileStates
    <3> QED BY <2>1, <3>2 DEF Progress, AnsweredPages
  <2>2. CASE job[u] = "all" /\ pc[u] = "unlockwrite"
    <3>1. p \in Pages /\ todo[u] = {} /\ ~Unsaved(u, p)
      BY <2>2 DEF request, Lists, Unlocking, Unsaved
    <3> QED BY <2>2, <3>1 DEF Progress, EverythingPages
  <2> QED BY <2>1, <2>2
<1> QED BY <1>1, OnFileSaved DEF Saved

(* A step that begins a request, and one that ends a request fulfilled.    *)
Begins(u) == \E R \in SUBSET Pages :
               request[u] = {} /\ request' = [request EXCEPT ![u] = R]
Ends(u) == /\ \A p \in request[u] : View(p) = nvfs[p].data
           /\ request' = [request EXCEPT ![u] = {}]

LEMMA RequestSteps ==
  ASSUME Discipline, IInv, [Next]_vars, ~Restart
  PROVE  \/ request' = request
         \/ \E u \in Users : Begins(u) \/ Ends(u)
<1> USE ConstantsAssumption DEF Threads, IInv, Types, PcTypes, JobTypes
<1>1. ASSUME NEW t \in Threads, StepOf(t)
      PROVE  request' = request \/ (t \in Users /\ Ends(t))
  <2>1. ASSUME PageFault(t) PROVE request' = request
    BY <2>1, RequestFrame DEF PageFault, reqvars
  <2>2. ASSUME LockSet(t) \/ UnlockSet(t) \/ LockSeek(t) \/ UnlockSeek(t) \/ DumpSeek(t)
        PROVE  request' = request
    BY <2>2, RequestFrame DEF LockSet, UnlockSet, SetWord, LockSeek, UnlockSeek, DumpSeek, Seek,
                              reqvars
  <2>3. ASSUME LockWrite(t) \/ DumpCopy(t) \/ DumpWrite(t) \/ DumpDrop(t) \/ DumpBack(t)
        PROVE  request' = request
    BY <2>3, RequestFrame DEF LockWrite, DumpCopy, DumpWrite, DumpDrop, DumpBack, reqvars
  <2>4. ASSUME UnlockWrite(t), t = CrWorker PROVE request' = request
    BY <2>4, RequestFrame DEF UnlockWrite, reqvars
  <2>5. ASSUME UnlockWrite(t), t \in Users PROVE request' = request \/ Ends(t)
    <3>1. pc[t] = "unlockwrite" /\ job' = [job EXCEPT ![t] = "none"]
          /\ pc' = [pc EXCEPT ![t] = "idle"] /\ region' = region
      BY <2>5 DEF UnlockWrite, reqvars
    <3>2. CASE job[t] = "all"
      <4>1. request' = [request EXCEPT ![t] = {}]
        BY <2>5, <3>1, RequestChange
      <4> QED BY <2>5, <3>1, <3>2, <4>1, ServedOnFile DEF Ends
    <3>3. ASSUME job[t] # "all" PROVE request' = request
      BY <2>5, <3>1, <3>3, RequestFrame
    <3> QED BY <3>2, <3>3
  <2>6. UnlockWrite(t) => request' = request \/ (t \in Users /\ Ends(t))
    BY <2>4, <2>5
  <2> QED BY <1>1, <2>1, <2>2, <2>3, <2>6 DEF StepOf
<1>2. ASSUME NEW u \in Users, UserOnly(u)
      PROVE  request' = request \/ Begins(u) \/ Ends(u)
  <2>1. ASSUME NEW q \in Pages, NEW v \in Vals, Store(u, q, v) PROVE request' = request
    BY <2>1, RequestFrame DEF Store, reqvars
  <2>2. ASSUME NEW R \in SUBSET Access[u], Commit(u, R) PROVE Begins(u)
    <3>1. pc[u] = "idle" /\ job' = [job EXCEPT ![u] = "commit"]
          /\ pc' = [pc EXCEPT ![u] = "wait"] /\ region' = [region EXCEPT ![u] = R]
      BY <2>2 DEF Commit, Idle, Submit
    <3>2. request[u] = {}
      BY <3>1 DEF request, Calls
    <3>3. request' = [request EXCEPT ![u] = R]
      BY <3>1, RequestChange
    <3>4. R \in SUBSET Pages
      OBVIOUS
    <3> QED BY <3>2, <3>3, <3>4 DEF Begins
  <2>3. CASE MetaSubmit(u)
    <3>1. pc[u] = "submit" /\ job' = job
          /\ pc' = [pc EXCEPT ![u] = "wait"] /\ region' = [region EXCEPT ![u] = {Meta}]
      BY <2>3 DEF MetaSubmit, Submit
    <3>2. request[u] = {} /\ job[u] # "all"
      BY <3>1 DEF request, Calls, FileStates
    <3>3. request' = [request EXCEPT ![u] = {Meta}]
      BY <3>1, <3>2, RequestChange
    <3>4. {Meta} \in SUBSET Pages
      OBVIOUS
    <3> QED BY <3>2, <3>3, <3>4 DEF Begins
  <2>4. CASE CommitReturns(u)
    <3>1. job[u] # "all" /\ pc[u] = "wait" /\ finished[u] = 1
      BY <2>4 DEF CommitReturns, Calls, FileStates
    <3>2. \A w \in Users \ {u} : job'[w] = job[w] /\ pc'[w] = pc[w] /\ region'[w] = region[w]
      BY <2>4 DEF CommitReturns
    <3>3. job'[u] # "all" /\ pc'[u] # "wait"
      BY <2>4, <3>1 DEF CommitReturns
    <3>4. request' = [request EXCEPT ![u] = {}]
      BY <3>2, <3>3, RequestChange
    <3> QED BY <3>1, <3>4, ServedOnFile DEF Ends
  <2>5. CASE MetaCheckpoint(u) \/ Shutdown(u)
    <3>1. /\ pc[u] = "idle" /\ region' = region
          /\ \E j \in {"meta", "shutdown"} : job' = [job EXCEPT ![u] = j]
          /\ \E s \in {"lock", "pushkill"} : pc' = [pc EXCEPT ![u] = s]
      BY <2>5 DEF MetaCheckpoint, Shutdown, Start, Idle, reqvars
    <3>2. job[u] = "none"
      BY <3>1 DEF Calls
    <3> QED BY <3>1, <3>2, RequestFrame
  <2>6. CASE CheckpointEverything(u)
    <3>1. pc[u] = "idle" /\ job' = [job EXCEPT ![u] = "all"]
          /\ pc' = [pc EXCEPT ![u] = "lock"] /\ region' = region
      BY <2>6 DEF CheckpointEverything, Start, Idle, reqvars
    <3>2. request[u] = {}
      BY <3>1 DEF request, Calls
    <3>3. request' = [request EXCEPT ![u] = Pages]
      BY <3>1, RequestChange
    <3> QED BY <3>2, <3>3 DEF Begins
  <2>7. CASE EverythingNext(u)
    BY <2>7, RequestFrame DEF EverythingNext, reqvars
  <2>8. CASE PushKill(u) \/ JoinUffd(u) \/ JoinCr(u) \/ Teardown(u)
    BY <2>8, RequestFrame DEF PushKill, JoinUffd, JoinCr, Teardown, ShutdownStep
  <2> QED BY <1>2, <2>1, <2>2, <2>3, <2>4, <2>5, <2>6, <2>7, <2>8 DEF UserOnly
<1>3. CASE UffdPoll \/ (\E q \in Pages : UffdRead(q)) \/ UffdCopy
  BY <1>3, RequestFrame DEF UffdPoll, UffdRead, UffdCopy, reqvars
<1>4. CASE CrPop \/ CrPost
  BY <1>4, RequestFrame DEF CrPop, CrPost
<1>5. CASE CrNext
  BY <1>5, RequestFrame DEF CrNext, reqvars
<1>6. CASE UNCHANGED vars
  BY <1>6, RequestFrame DEF vars, reqvars
<1> QED BY <1>1, <1>2, <1>3, <1>4, <1>5, <1>6, NextSteps

LEMMA ImplementationStep ==
  ASSUME Discipline, IInv, [Next]_vars
  PROVE  [PM!Next]_(PM!pmvars)
<1> USE ConstantsAssumption DEF IInv
<1> DEFINE vmem == [p \in Pages |-> View(p)]
           disk == [p \in Pages |-> nvfs[p].data]
<1>1. ASSUME NEW u \in Users, NEW p \in Pages, NEW v \in Vals, Store(u, p, v)
      PROVE  PM!Write(u, p, v)
  <2>1. p \in Access[u] /\ pc[u] = "idle"
    BY <1>1 DEF Store, Idle
  <2>2. \A w \in Users : p \notin request[w]
    <3>1. \A w \in Users : ~((pc[w] = "wait" /\ p \in region[w]) \/ job[w] = "all")
      BY <1>1, RequestedNotStored
    <3> QED BY <3>1 DEF request
  <2>3. request' = request /\ nvfs' = nvfs
    BY <1>1, RequestFrame DEF Store, reqvars, filevars
  <2>4. View(p)' = v
    <3>1. \A t \in Threads : ~Hidden(t, p)'
      <4>1. \A t \in Threads : Dumping(t) => cur[t] # p
        BY <2>1, OwnerSleeps
      <4> QED BY <1>1, <4>1 DEF Store, dumpvars, Hidden, Dumping
    <3>2. View(p)' = mem'[p].data
      BY <3>1 DEF View, Hidden, PuttingBack
    <3>3. mem'[p].data = v
      BY <1>1 DEF Store, WithData, Types, MemTypes
    <3> QED BY <3>2, <3>3
  <2>5. \A q \in Pages \ {p} : View(q)' = View(q)
    <3>1. \A q \in Pages \ {p} : mem'[q].data = mem[q].data
      BY <1>1 DEF Store, Types, MemTypes
    <3> QED BY <1>1, <3>1, ViewFrame DEF Store, dumpvars, Hidden
  <2>6. vmem' = [vmem EXCEPT ![p] = v]
    BY <2>4, <2>5
  <2> QED BY <2>1, <2>2, <2>3, <2>6 DEF PM!Write
<1>2. ASSUME Restart PROVE PM!Crash
  <2>1. PICK v \in Vals \cup {nvfs[Meta].data} :
          mem' = [nvfs EXCEPT ![Meta] = WithData(@, v)]
    BY <1>2 DEF Restart
  <2>2. \A p \in Pages : PuttingBack(p)' = {}
    BY <1>2 DEF Restart, PuttingBack, Threads
  <2>3. \A p \in Pages : View(p)' = mem'[p].data
    BY <2>2 DEF View
  <2>4. \A p \in Pages : mem'[p].data = IF p = Meta THEN v ELSE nvfs[p].data
    BY <2>1 DEF WithData, Types, MemTypes
  <2>5. request' = [u \in Users |-> {}]
    BY <1>2 DEF Restart, request
  <2>6. nvfs' = nvfs
    BY <1>2 DEF Restart
  <2>7. vmem' = [disk EXCEPT ![Meta] = v]
    BY <2>3, <2>4
  <2>8. v \in Vals \cup {disk[Meta]}
    OBVIOUS
  <2> QED BY <2>5, <2>6, <2>7, <2>8 DEF PM!Crash
<1>3. CASE ~Restart /\ ~\E u \in Users, p \in Pages, v \in Vals : Store(u, p, v)
  <2>1. vmem' = vmem
    <3>1. ASSUME NEW t \in Threads, DumpDrop(t) \/ DumpBack(t) PROVE Exact(t)
      <4>1. pc[t] \in FileStates
        BY <3>1 DEF DumpDrop, DumpBack, FileStates
      <4>2. \A s \in Threads : pc[s] = "back" => s = t
        BY <4>1, Exclusive DEF FileStates
      <4> QED BY <4>2 DEF Exact, Hidden, Dump
    <3>2. ASSUME NEW p \in Pages PROVE View(p)' = View(p)
      BY <1>3, <3>1, ViewStep
    <3> QED BY <3>2
  <2>2. ASSUME NEW t \in Threads, DumpWrite(t) PROVE \E p \in Pages : PM!Persist(p)
    <3>1. cur[t] \in Pages /\ fpos = cur[t] /\ pc[t] = "write"
      BY <2>2 DEF DumpWrite, Position, Types, MemTypes
    <3>2. View(cur[t]) = mem[cur[t]].data
      <4>1. \A w \in Threads : ~Hidden(w, cur[t])
        <5>1. \A w \in Threads : pc[w] \in FileStates => w = t
          BY <3>1, Exclusive DEF FileStates
        <5> QED BY <3>1, <5>1 DEF Hidden, FileStates
      <4> QED BY <4>1, ViewPlain
    <3>3. nvfs' = [nvfs EXCEPT ![cur[t]] = mem[cur[t]]]
      BY <2>2, <3>1 DEF DumpWrite, WritePage
    <3>4. disk' = [disk EXCEPT ![cur[t]] = vmem[cur[t]]]
      BY <3>1, <3>2, <3>3 DEF Types, MemTypes
    <3>5. \E u \in Users : cur[t] \in request[u]
      <4>1. CASE t \in Users
        BY <3>1, <4>1 DEF request, Calls, Types, JobTypes
      <4>2. CASE t = CrWorker
        <5>1. serving \in Users /\ pc[serving] = "wait" /\ cur[t] \in region[serving]
          BY <3>1, <4>2 DEF Queue, Lists, Types, JobTypes
        <5>2. cur[t] \in request[serving]
          BY <3>1, <5>1 DEF request
        <5> QED BY <5>1, <5>2
      <4> QED BY <4>1, <4>2 DEF Threads
    <3>6. request' = request
      BY <2>2, RequestFrame DEF DumpWrite, reqvars, Types, PcTypes
    <3> QED BY <2>1, <3>1, <3>4, <3>5, <3>6 DEF PM!Persist
  <2>3. CASE ~\E t \in Threads : DumpWrite(t)
    <3>1. disk' = disk
      BY <2>3, DiskStep
    <3>2. CASE request' = request
      BY <2>1, <3>1, <3>2 DEF PM!pmvars
    <3>3. ASSUME NEW u \in Users, Begins(u) PROVE \E R \in SUBSET Pages : PM!Begin(u, R)
      BY <2>1, <3>1, <3>3 DEF PM!Begin, Begins
    <3>4. ASSUME NEW u \in Users, Ends(u) PROVE PM!End(u)
      <4>1. request[u] \subseteq Pages
        BY DEF request, Types, JobTypes
      <4> QED BY <2>1, <3>1, <3>4, <4>1 DEF PM!End, Ends
    <3> QED BY <1>3, <3>2, <3>3, <3>4, RequestSteps DEF PM!Next
  <2> QED BY <2>2, <2>3 DEF PM!Next
<1> QED BY <1>1, <1>2, <1>3 DEF PM!Next

(* For a disciplined program the store is memory of which a copy survives  *)
(* a crash: a page a thread asked for is on disk when its call returns, no *)
(* other page changes on disk, no dump or fault changes memory, and a boot *)
(* finds what was on disk.                                                 *)
THEOREM Implementation == Discipline => (Spec => ImplementsPersistentMemory)
<1> SUFFICES ASSUME Discipline PROVE Spec => ImplementsPersistentMemory
  OBVIOUS
<1>1. Init => PM!Init
  BY DEF Init, PM!Init, request
<1>2. IInv /\ [Next]_vars => [PM!Next]_(PM!pmvars)
  BY ImplementationStep
<1> QED BY <1>1, <1>2, InvariantHolds, PTL DEF Spec, ImplementsPersistentMemory, PM!Spec
=============================================================================
