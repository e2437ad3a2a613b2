--------------------------- MODULE CrThreadProofs ---------------------------
(***************************************************************************)
(* Theorems about CrThread, for any threads, any number of steps and any   *)
(* hash of the pthread ids.                                                *)
(***************************************************************************)
EXTENDS CrThreadInv, TLAPS

(* The steps of Next, one per line.                                        *)
StepOf(k) ==
  \/ Insert(k) \/ FirstRun(k) \/ Resume(k) \/ Leave(k) \/ Post(k) \/ Exit(k)
  \/ Work(k) \/ Save(k) \/ Submit(k) \/ CpExit(k)

ResStep ==
  \/ ResPop \/ ResJoin \/ ResRemove \/ ResCopy \/ ResBack \/ ResRestore
  \/ \E part \in Regions : ResDump(part)

MainStep ==
  \/ NewCheckpoint \/ Complete \/ Down \/ BootRestore \/ BootNext \/ BootEnd \/ JoinReturns
  \/ \E x \in Nodes, part \in Regions : EverythingPersist(x, part)
  \/ \E t \in CrThreads : New(t) \/ Fork(t) \/ Join(t) \/ Delete(t)
  \/ Shutdown("save") \/ Shutdown("nosave")

LEMMA NextSteps ==
  ASSUME [Next]_vars
  PROVE  (\E k \in Pthreads : StepOf(k)) \/ ResStep \/ MainStep \/ Restart \/ UNCHANGED vars
BY DEF Next, PthreadStep, Stub, Checkpoint, Resurrector, Main, InFramework, StepOf, ResStep,
       MainStep

LEMMA PthreadFacts ==
  /\ \A k \in Pthreads : OwnerOf(k) \in CrThreads
  /\ \A t \in CrThreads : /\ <<t, "stack">> \in Pthreads /\ OwnerOf(<<t, "stack">>) = t
                          /\ <<t, "recoverystack">> \in Pthreads
                          /\ OwnerOf(<<t, "recoverystack">>) = t
BY DEF Pthreads, OwnerOf

-----------------------------------------------------------------------------
(***************************************************************************)
(* List elements                                                           *)
(***************************************************************************)
LEMMA ClearedLink ==
  ASSUME HeapTypes, NEW t \in CrThreads
  PROVE  /\ Cleared(t) \in [Nodes -> Link]
         /\ \A x \in Nodes : x # t => Cleared(t)[x] = node[x]
         /\ Cleared(t)[t].next = node[t].next /\ Cleared(t)[t].prev = node[t].prev
         /\ Cleared(t)[t].firstrun = FALSE
<1> DEFINE l == [node[t] EXCEPT !.firstrun = FALSE]
<1>1. node \in [Nodes -> Link] /\ t \in Nodes /\ node[t] \in Link
  BY DEF HeapTypes, Nodes
<1>2. /\ l \in Link /\ l.next = node[t].next /\ l.prev = node[t].prev
      /\ l.firstrun = FALSE
  BY <1>1 DEF Link
<1>3. Cleared(t) = [node EXCEPT ![t] = l]
  BY DEF Cleared
<1> HIDE DEF l
<1> QED BY <1>1, <1>2, <1>3

LEMMA BlankLink == Blank \in Link /\ Blank.next = Null /\ ~Blank.firstrun
BY DEF Blank, Link

LEMMA RecordsFacts ==
  ASSUME Types
  PROVE  /\ Records \in [Nodes -> Link]
         /\ \A x \in Nodes : x # rthr => Records[x] = node[x]
         /\ rpage # "head" => Records = node
         /\ rpc # "commit" => Records = node /\ rpage = "none"
<1>1. node \in [Nodes -> Link] /\ rcpy \in Link /\ (rpage # "none" => rpc = "commit")
  BY DEF Types, HeapTypes, ResTypes
<1> QED BY <1>1 DEF Records

LEMMA RecordsSame ==
  ASSUME UNCHANGED <<node, rthr, rtodo, dumpvars>>
  PROVE  Records' = Records
BY DEF Records, dumpvars

(* crthread_new writes three elements, crthread_delete two.                *)
LEMMA NewLinks ==
  ASSUME HeapTypes, NEW t \in CrThreads, New(t)
  PROVE  /\ node' \in [Nodes -> Link]
         /\ node'[t].next # Null /\ node'[t].firstrun
         /\ \A x \in Nodes : x # t => /\ node'[x].firstrun = node[x].firstrun
                                      /\ node[x].next # Null => node'[x].next # Null
<1> USE CrThreadAssumption DEF HeapTypes
<1> DEFINE last == node[Meta].prev
           n1 == [node EXCEPT ![t] = [next |-> Meta, prev |-> last, firstrun |-> TRUE]]
           n2 == [n1 EXCEPT ![last].next = t]
<1>1. t \in Nodes /\ Meta \in Nodes /\ t # Meta /\ last \in Nodes
  BY DEF New, Nodes
<1>2. /\ n1 \in [Nodes -> Link]
      /\ n1[t].next = Meta /\ n1[t].firstrun
      /\ \A x \in Nodes : x # t => n1[x] = node[x]
  BY <1>1 DEF Link
<1>3. /\ n2 \in [Nodes -> Link]
      /\ \A x \in Nodes : n2[x].firstrun = n1[x].firstrun /\ n2[x].next \in {n1[x].next, t}
  <2> HIDE DEF n1
  <2> QED BY <1>1, <1>2 DEF Link, Nodes
<1>4. node' = [n2 EXCEPT ![Meta].prev = t]
  BY DEF New
<1>5. /\ node' \in [Nodes -> Link]
      /\ \A x \in Nodes : node'[x].firstrun = n2[x].firstrun /\ node'[x].next = n2[x].next
  <2> HIDE DEF n2
  <2> QED BY <1>1, <1>3, <1>4 DEF Link, Nodes
<1>6. t # Null /\ Meta # Null
  OBVIOUS
<1> HIDE DEF n1, n2
<1>7. node'[t].next # Null /\ node'[t].firstrun
  <2>1. node'[t].next \in {Meta, t}
    BY <1>1, <1>2, <1>3, <1>5
  <2> QED BY <1>1, <1>2, <1>3, <1>5, <1>6, <2>1
<1> QED BY <1>1, <1>2, <1>3, <1>5, <1>6, <1>7

LEMMA DeleteLinks ==
  ASSUME HeapTypes, NEW t \in CrThreads, Delete(t)
  PROVE  /\ node' \in [Nodes -> Link]
         /\ \A x \in Nodes : /\ node'[x].firstrun = node[x].firstrun
                             /\ node[x].next # Null => node'[x].next # Null
<1> USE CrThreadAssumption DEF HeapTypes
<1> DEFINE e == node[t]
           n1 == [node EXCEPT ![e.prev].next = e.next]
<1>1. e.next \in Nodes /\ e.prev \in Nodes /\ e.next # Null
  BY DEF Delete, Nodes
<1>2. /\ n1 \in [Nodes -> Link]
      /\ \A x \in Nodes : /\ n1[x].firstrun = node[x].firstrun
                          /\ n1[x].next \in {node[x].next, e.next}
  BY <1>1 DEF Link, Nodes
<1>3. node' = [n1 EXCEPT ![e.next].prev = e.prev]
  BY DEF Delete
<1>4. /\ node' \in [Nodes -> Link]
      /\ \A x \in Nodes : node'[x].firstrun = n1[x].firstrun /\ node'[x].next = n1[x].next
  <2> HIDE DEF n1
  <2> QED BY <1>1, <1>2, <1>3 DEF Link, Nodes
<1> HIDE DEF n1
<1> QED BY <1>1, <1>2, <1>4

-----------------------------------------------------------------------------
(***************************************************************************)
(* Type correctness                                                        *)
(***************************************************************************)
LEMMA HeapTypesStep ==
  ASSUME Types, [Next]_vars
  PROVE  HeapTypes'
<1> USE CrThreadAssumption, PthreadFacts DEF Types, HeapTypes, memvars, filevars
<1>1. ASSUME NEW k \in Pthreads, StepOf(k) PROVE HeapTypes'
  <2>1. CASE FirstRun(k)
    <3>1. node' = Cleared(OwnerOf(k)) /\ OwnerOf(k) \in CrThreads
      BY <2>1 DEF FirstRun
    <3>2. node' \in [Nodes -> Link]
      BY <3>1, ClearedLink
    <3> QED BY <2>1, <3>1, <3>2 DEF FirstRun
  <2>2. CASE Work(k) \/ Save(k) \/ Resume(k)
    BY <2>2 DEF Work, Save, Resume, Abort
  <2>3. CASE \/ Insert(k) \/ Leave(k) \/ Post(k) \/ Exit(k) \/ Submit(k) \/ CpExit(k)
    BY <2>3 DEF Insert, Leave, Post, Exit, Submit, CpExit
  <2> QED BY <1>1, <2>1, <2>2, <2>3 DEF StepOf
<1>2. CASE ResStep
  <2>1. ASSUME NEW part \in Regions, ResDump(part) PROVE HeapTypes'
    <3>1. rthr \in CrThreads /\ CrThreads \subseteq Nodes
      BY <2>1 DEF ResDump, ResTypes, Nodes
    <3>2. node' \in [Nodes -> Link] /\ dnode' \in [Nodes -> Link]
      BY <2>1, <3>1, BlankLink DEF ResDump
    <3> QED BY <2>1, <3>1, <3>2 DEF ResDump
  <2>2. CASE ResBack
    <3>1. node' \in [Nodes -> Link]
      BY <2>2 DEF ResBack, PutBack, ResTypes
    <3> QED BY <2>2, <3>1 DEF ResBack
  <2> QED BY <1>2, <2>1, <2>2 DEF ResStep, ResPop, ResJoin, ResRemove, ResCopy, ResRestore, Abort
<1>3. CASE MainStep
  <2>1. ASSUME NEW x \in Nodes, NEW part \in Regions, EverythingPersist(x, part)
        PROVE  HeapTypes'
    BY <2>1 DEF EverythingPersist
  <2>2. CASE NewCheckpoint \/ Down
    BY <2>2 DEF NewCheckpoint, Down, PersistMeta, Nodes
  <2>3. CASE Complete
    BY <2>3 DEF Complete, ExecStates
  <2>4. CASE BootRestore \/ BootNext \/ BootEnd \/ Shutdown("save") \/ Shutdown("nosave")
    BY <2>4 DEF BootRestore, BootNext, BootEnd, Shutdown, Abort
  <2>5. ASSUME NEW t \in CrThreads, New(t) \/ Delete(t) PROVE HeapTypes'
    BY <2>5, NewLinks, DeleteLinks DEF New, Delete
  <2>6. ASSUME NEW t \in CrThreads, Fork(t) \/ Join(t) PROVE HeapTypes'
    BY <2>6 DEF Fork, Join, Abort
  <2>7. CASE JoinReturns
    BY <2>7 DEF JoinReturns
  <2> QED BY <1>3, <2>1, <2>2, <2>3, <2>4, <2>5, <2>6, <2>7 DEF MainStep
<1>4. CASE Restart
  BY <1>4 DEF Restart, ExecStates
<1>5. CASE UNCHANGED vars
  BY <1>5 DEF vars
<1> QED BY <1>1, <1>2, <1>3, <1>4, <1>5, NextSteps

LEMMA PthreadTypesStep ==
  ASSUME Types, [Next]_vars
  PROVE  PthreadTypes'
<1> USE CrThreadAssumption, PthreadFacts DEF Types, PthreadTypes, PcStates, Goto
<1>1. ASSUME NEW k \in Pthreads, StepOf(k) PROVE PthreadTypes'
  <2>1. CASE Insert(k) \/ Leave(k) \/ Exit(k)
    BY <2>1 DEF Insert, Leave, Exit
  <2>2. CASE Post(k)
    BY <2>2 DEF Post, Posted
  <2>3. CASE CpExit(k)
    BY <2>3 DEF CpExit, NotPosted
  <2>4. CASE FirstRun(k) \/ Submit(k)
    BY <2>4 DEF FirstRun, Submit
  <2>5. CASE Resume(k) \/ Save(k)
    BY <2>5 DEF Resume, Save, Abort
  <2>6. CASE Work(k)
    BY <2>6 DEF Work, After, Returned
  <2> QED BY <1>1, <2>1, <2>2, <2>3, <2>4, <2>5, <2>6 DEF StepOf
<1>2. CASE ResStep
  <2>1. CASE ResPop \/ ResCopy \/ ResBack \/ (\E part \in Regions : ResDump(part))
    BY <2>1 DEF ResPop, ResCopy, ResBack, ResDump
  <2>2. CASE ResJoin
    BY <2>2 DEF ResJoin, Reaped
  <2>3. CASE ResRemove
    BY <2>3 DEF ResRemove, Removed, Abort
  <2>4. CASE ResRestore
    <3>1. rthr \in CrThreads
      BY <2>4 DEF ResRestore, ResTypes
    <3> QED BY <2>4, <3>1 DEF ResRestore, PthreadCreate, NewId
  <2> QED BY <1>2, <2>1, <2>2, <2>3, <2>4 DEF ResStep
<1>3. CASE MainStep
  <2>1. ASSUME NEW x \in Nodes, NEW part \in Regions, EverythingPersist(x, part)
        PROVE  PthreadTypes'
    BY <2>1 DEF EverythingPersist
  <2>2. CASE NewCheckpoint \/ Down \/ Complete \/ BootNext \/ BootEnd
    BY <2>2 DEF NewCheckpoint, Down, Complete, BootNext, BootEnd, Abort
  <2>3. CASE BootRestore
    <3>1. /\ cursor \in CrThreads /\ PthreadCreate(<<cursor, "recoverystack">>)
          /\ post' = [post EXCEPT ![cursor] = 0] /\ table' = table
      BY <2>3 DEF BootRestore
    <3>2. ptid' = [ptid EXCEPT ![cursor] = <<cursor, "recoverystack">>]
      BY <3>1 DEF PthreadCreate, NewId
    <3> QED BY <3>1, <3>2 DEF PthreadCreate
  <2>4. CASE Shutdown("save") \/ Shutdown("nosave")
    BY <2>4 DEF Shutdown
  <2>5. ASSUME NEW t \in CrThreads, New(t) PROVE PthreadTypes'
    BY <2>5 DEF New
  <2>6. ASSUME NEW t \in CrThreads, Delete(t) PROVE PthreadTypes'
    BY <2>6 DEF Delete
  <2>7. ASSUME NEW t \in CrThreads, Fork(t) PROVE PthreadTypes'
    BY <2>7 DEF Fork, PthreadCreate, NewId
  <2>8. ASSUME NEW t \in CrThreads, Join(t) PROVE PthreadTypes'
    BY <2>8 DEF Join, Abort
  <2>9. CASE JoinReturns
    BY <2>9 DEF JoinReturns, MainTypes
  <2> QED BY <1>3, <2>1, <2>2, <2>3, <2>4, <2>5, <2>6, <2>7, <2>8, <2>9 DEF MainStep
<1>4. CASE Restart
  BY <1>4 DEF Restart
<1>5. CASE UNCHANGED vars
  BY <1>5 DEF vars
<1> QED BY <1>1, <1>2, <1>3, <1>4, <1>5, NextSteps

LEMMA ResTypesStep ==
  ASSUME Types, [Next]_vars
  PROVE  ResTypes'
<1> USE CrThreadAssumption, PthreadFacts DEF Types, ResTypes, resvars, dumpvars
<1>1. ASSUME NEW k \in Pthreads, StepOf(k) PROVE ResTypes'
  <2>1. CASE Submit(k)
    BY <2>1 DEF Submit
  <2>2. CASE Insert(k) \/ FirstRun(k) \/ Leave(k) \/ Post(k) \/ Exit(k)
    BY <2>2 DEF Insert, FirstRun, Leave, Post, Exit
  <2>3. CASE Resume(k) \/ Work(k) \/ Save(k) \/ CpExit(k)
    BY <2>3 DEF Resume, Work, Save, CpExit, Abort
  <2> QED BY <1>1, <2>1, <2>2, <2>3 DEF StepOf
<1>2. CASE ResStep
  <2>1. CASE ResPop
    BY <2>1 DEF ResPop
  <2>2. CASE ResJoin
    BY <2>2 DEF ResJoin
  <2>3. CASE ResRemove
    BY <2>3 DEF ResRemove, Abort
  <2>4. CASE ResRestore \/ ResBack
    BY <2>4, BlankLink DEF ResRestore, ResBack
  <2>5. CASE ResCopy
    BY <2>5 DEF ResCopy, HeapTypes, Nodes
  <2>6. CASE \E part \in Regions : ResDump(part)
    BY <2>6 DEF ResDump, Regions
  <2> QED BY <1>2, <2>1, <2>2, <2>3, <2>4, <2>5, <2>6 DEF ResStep
<1>3. CASE MainStep
  <2>1. ASSUME NEW x \in Nodes, NEW part \in Regions, EverythingPersist(x, part)
        PROVE  ResTypes'
    BY <2>1 DEF EverythingPersist
  <2>2. CASE \/ NewCheckpoint \/ Down \/ Complete \/ BootRestore \/ BootNext \/ BootEnd
             \/ JoinReturns
    BY <2>2 DEF NewCheckpoint, Down, Complete, BootRestore, BootNext, BootEnd, JoinReturns, Abort
  <2>3. CASE Shutdown("save") \/ Shutdown("nosave")
    BY <2>3 DEF Shutdown, Stopped
  <2>4. ASSUME NEW t \in CrThreads, New(t) \/ Delete(t) \/ Fork(t) \/ Join(t)
        PROVE  ResTypes'
    BY <2>4 DEF New, Delete, Fork, Join, Abort
  <2> QED BY <1>3, <2>1, <2>2, <2>3, <2>4 DEF MainStep
<1>4. CASE Restart
  BY <1>4, BlankLink DEF Restart
<1>5. CASE UNCHANGED vars
  BY <1>5 DEF vars
<1> QED BY <1>1, <1>2, <1>3, <1>4, <1>5, NextSteps

LEMMA MainTypesStep ==
  ASSUME Types, [Next]_vars
  PROVE  MainTypes'
<1> USE CrThreadAssumption DEF Types, MainTypes, MpcStates, Nodes, mainvars, progvars
<1>1. ASSUME NEW k \in Pthreads, StepOf(k) PROVE MainTypes'
  <2>1. CASE Insert(k) \/ FirstRun(k) \/ Leave(k) \/ Post(k) \/ Exit(k)
    BY <2>1 DEF Insert, FirstRun, Leave, Post, Exit
  <2>2. CASE Resume(k) \/ Work(k) \/ Save(k) \/ CpExit(k) \/ Submit(k)
    BY <2>2 DEF Resume, Work, Save, CpExit, Submit, Abort
  <2> QED BY <1>1, <2>1, <2>2 DEF StepOf
<1>2. CASE ResStep
  <2>1. CASE ResPop \/ ResJoin \/ ResRemove
    BY <2>1 DEF ResPop, ResJoin, ResRemove, Abort
  <2>2. CASE ResCopy \/ ResBack \/ ResRestore \/ (\E part \in Regions : ResDump(part))
    BY <2>2 DEF ResCopy, ResBack, ResRestore, ResDump
  <2> QED BY <1>2, <2>1, <2>2 DEF ResStep
<1>3. CASE MainStep
  <2>1. ASSUME NEW x \in Nodes, NEW part \in Regions, EverythingPersist(x, part)
        PROVE  MainTypes'
    BY <2>1 DEF EverythingPersist
  <2>2. CASE NewCheckpoint \/ Down
    BY <2>2 DEF NewCheckpoint, Down
  <2>3. CASE Complete
    BY <2>3 DEF Complete, Regions
  <2>4. CASE BootRestore \/ JoinReturns
    BY <2>4 DEF BootRestore, JoinReturns
  <2>5. CASE BootEnd
    BY <2>5 DEF BootEnd, Abort
  <2>6. CASE Shutdown("save") \/ Shutdown("nosave")
    BY <2>6 DEF Shutdown
  <2>7. ASSUME NEW t \in CrThreads, New(t) \/ Delete(t) \/ Fork(t) \/ Join(t)
        PROVE  MainTypes'
    BY <2>7 DEF New, Delete, Fork, Join, Idle, Abort
  <2>8. CASE BootNext
    BY <2>8 DEF BootNext, Abort, HeapTypes, Link
  <2> QED BY <1>3, <2>1, <2>2, <2>3, <2>4, <2>5, <2>6, <2>7, <2>8 DEF MainStep
<1>4. CASE Restart
  BY <1>4 DEF Restart, HeapTypes, Link
<1>5. CASE UNCHANGED vars
  BY <1>5 DEF vars
<1> QED BY <1>1, <1>2, <1>3, <1>4, <1>5, NextSteps

LEMMA TypesInit == ASSUME Init PROVE Types
<1> USE CrThreadAssumption DEF Init
<1>1. Blank \in Link /\ EmptyList \in Link
  BY DEF Blank, EmptyList, Link, Nodes
<1>2. HeapTypes
  BY <1>1 DEF HeapTypes, ExecStates
<1>3. PthreadTypes /\ ResTypes /\ MainTypes
  BY <1>1 DEF PthreadTypes, PcStates, ResTypes, MainTypes, MpcStates, Nodes
<1> QED BY <1>2, <1>3 DEF Types

LEMMA TypesStep ==
  ASSUME Types, [Next]_vars
  PROVE  Types'
BY HeapTypesStep, PthreadTypesStep, ResTypesStep, MainTypesStep DEF Types

-----------------------------------------------------------------------------
(***************************************************************************)
(* What the invariant says about the threads of a step                     *)
(***************************************************************************)

(* A running pthread is the only one of its thread.                        *)
LEMMA OnlyOne ==
  ASSUME Owners, NEW k \in Pthreads, NEW l \in Pthreads, OwnerOf(k) = OwnerOf(l),
         pc[k] # "none", pc[l] # "none"
  PROVE  k = l
BY DEF Owners

(* The table finds a thread that is in it under its id, whatever the       *)
(* buckets of the other ids.                                               *)
LEMMA FindOne ==
  ASSUME Types, Owners, Untouched, NEW t \in started, table[t] = ptid[t]
  PROVE  Find(ptid[t]) = {t}
<1> USE CrThreadAssumption DEF Types, MainTypes, PthreadTypes
<1>1. t \in CrThreads /\ ptid[t] \in Pthreads /\ OwnerOf(ptid[t]) = t
  BY DEF Owners
<1>2. t \in Find(ptid[t])
  BY <1>1 DEF Find
<1>3. ASSUME NEW u \in Find(ptid[t]) PROVE u = t
  <2>1. u \in CrThreads /\ table[u] # NoPthread /\ ptid[u] = ptid[t]
    BY DEF Find
  <2>2. u \in started
    BY <2>1 DEF Untouched
  <2> QED BY <1>1, <2>1, <2>2 DEF Owners
<1> QED BY <1>2, <1>3

(* Before it exits a pthread is not at the resurrector.                    *)
LEMMA NotWaiting ==
  ASSUME Types, Owners, Queue, NEW k \in Pthreads, pc[k] \notin {"none", "cpexit", "dead"}
  PROVE  ~Waiting(OwnerOf(k))
<1> DEFINE t == OwnerOf(k)
<1> USE CrThreadAssumption, PthreadFacts
<1>1. t \in CrThreads /\ ptid[t] = k
  BY DEF Owners
<1>2. ~Queued(t)
  BY <1>1 DEF Queued, Queue
<1>3. rthr # t
  <2>1. rthr = t => rpc \in {"join", "remove", "commit"}
    BY <1>1 DEF Types, ResTypes
  <2> QED BY <1>1, <2>1 DEF Queue
<1> QED BY <1>2, <1>3 DEF Waiting

(* The thread in the resurrector's hands.                                  *)
LEMMA InHand ==
  ASSUME Types, Owners, Queue, Commit, Ends, rpc \in {"join", "remove", "commit"}
  PROVE  /\ rthr \in CrThreads /\ rthr \in started
         /\ ptid[rthr] \in Pthreads /\ OwnerOf(ptid[rthr]) = rthr
         /\ AtRest(rthr) /\ post[rthr] = 0 /\ rthr \notin joined
         /\ ~Queued(rthr)
<1>1. rthr \in CrThreads
  BY CrThreadAssumption DEF Types, ResTypes
<1>2. rthr \in started /\ ~Queued(rthr)
  BY <1>1 DEF Queue, Queued
<1>3. AtRest(rthr) /\ post[rthr] = 0 /\ rthr \notin joined
  BY <1>1 DEF Commit, Ends, Waiting
<1> QED BY <1>1, <1>2, <1>3 DEF Owners

(* The record of a running pthread is not in the resurrector's hands.      *)
LEMMA OwnRecord ==
  ASSUME Types, Queue, NEW k \in Pthreads, pc[k] # "none"
  PROVE  /\ rpc = "commit" => OwnerOf(k) # rthr
         /\ Records[OwnerOf(k)] = node[OwnerOf(k)]
<1>1. rpc = "commit" => OwnerOf(k) # rthr
  BY DEF Queue
<1> QED BY <1>1, PthreadFacts, RecordsFacts DEF Nodes

(* A branch that aborts is not taken, but for those of AbortsOnlyWhileOut. *)
LEMMA ResumeFinds ==
  ASSUME IInv, NEW k \in Pthreads, Resume(k)
  PROVE  InStep(OwnerOf(k)) /\ ctx[OwnerOf(k)] # NoCtx
<1> USE CrThreadAssumption, PthreadFacts
<1>1. Ready(OwnerOf(k)) /\ ~Records[OwnerOf(k)].firstrun
  BY OwnRecord DEF IInv, Positions, Resume, At
<1> QED BY <1>1 DEF Ready, InStep, IInv, Types, HeapTypes

LEMMA SaveFinds ==
  ASSUME IInv, NEW k \in Pthreads, Save(k)
  PROVE  Find(k) # {}
<1> DEFINE t == OwnerOf(k)
<1>1. t \in started /\ ptid[t] = k /\ table[t] = k
  BY DEF Save, At, IInv, Owners, InTable
<1>2. Find(ptid[t]) = {t}
  BY <1>1, FindOne DEF IInv
<1> QED BY <1>1, <1>2

LEMMA LeaveFinds ==
  ASSUME IInv, NEW k \in Pthreads, Leave(k)
  PROVE  table' = [table EXCEPT ![OwnerOf(k)] = NoPthread]
<1> DEFINE t == OwnerOf(k)
<1>1. t \in started /\ ptid[t] = k /\ table[t] = k
  BY DEF Leave, At, IInv, Owners, InTable
<1>2. Find(ptid[t]) = {t}
  BY <1>1, FindOne DEF IInv
<1> QED BY <1>2, PthreadFacts DEF Leave, IInv, Types, PthreadTypes

LEMMA RemoveFinds ==
  ASSUME IInv, ResRemove
  PROVE  Find(ptid[rthr]) = {rthr}
<1>1. rpc = "remove" /\ rthr \in started
  BY InHand DEF ResRemove, IInv
<1>2. table[rthr] = ptid[rthr]
  BY <1>1 DEF IInv, InTable
<1> QED BY <1>1, <1>2, FindOne DEF IInv

LEMMA BootFinds ==
  ASSUME IInv, mpc = "boot"
  PROVE  cursor # Null /\ Records[cursor].next # Null /\ cursor \notin started
BY CrThreadAssumption DEF IInv, Boot, Booting, BootList

(* What main reads of the record it has restored is the record, or zeros.  *)
LEMMA BootReads ==
  ASSUME IInv, mpc = "bootnext"
  PROVE  /\ cursor \in CrThreads
         /\ node[cursor].next # Null => Records[cursor] = node[cursor]
         /\ node[cursor].next = Null => Out(cursor, "head")
<1> USE CrThreadAssumption DEF IInv
<1>1. cursor \in CrThreads /\ cursor \in Nodes
  BY DEF Types, MainTypes, Nodes
<1>2. rpage = "head" => rpc = "commit"
  BY DEF Types, ResTypes
<1>3. CASE Out(cursor, "head")
  <2>1. node[cursor] = Blank
    BY <1>3 DEF Out, Window, Booting
  <2> QED BY <1>1, <1>3, <2>1, BlankLink
<1>4. CASE ~Out(cursor, "head")
  <2>1. Records[cursor] = node[cursor]
    <3>1. cursor # rthr \/ Records = node
      BY <1>2, <1>4 DEF Out, Records
    <3> QED BY <1>1, <3>1, RecordsFacts
  <2>2. Records[cursor].next # Null
    BY DEF Boot, Booting, BootList
  <2> QED BY <1>1, <2>1, <2>2
<1> QED BY <1>3, <1>4

(* The two windows in which main finds a page of a record empty.           *)
LEMMA AbortStep ==
  ASSUME IInv, [Next]_vars
  PROVE  AbortsOnlyWhileOut'
<1> USE DEF IInv
<1>1. CASE ~up
  <2>1. up' \/ UNCHANGED vars
    <3>1. ASSUME NEW k \in Pthreads, StepOf(k) PROVE FALSE
      BY <1>1, <3>1 DEF StepOf, Insert, FirstRun, Resume, Leave, Post, Exit, Work, Save, Submit,
                        CpExit, At
    <3>2. CASE ResStep
      BY <1>1, <3>2 DEF ResStep, ResPop, ResJoin, ResRemove, ResCopy, ResDump, ResBack, ResRestore
    <3>3. CASE MainStep
      BY <1>1, <3>3 DEF MainStep, NewCheckpoint, Complete, Down, BootRestore, BootNext, BootEnd,
                        JoinReturns, EverythingPersist, New, Fork, Join, Delete, Shutdown, Idle
    <3>4. CASE Restart
      BY <3>4 DEF Restart
    <3> QED BY <3>1, <3>2, <3>3, <3>4, NextSteps
  <2> QED BY <2>1 DEF AbortsOnlyWhileOut, vars, mainvars, progvars, resvars, dumpvars, Out
<1>2. CASE up
  <2>1. ASSUME NEW k \in Pthreads, StepOf(k) PROVE up'
    <3>1. CASE Insert(k) \/ FirstRun(k) \/ Leave(k) \/ Post(k) \/ Exit(k)
      BY <1>2, <3>1 DEF Insert, FirstRun, Leave, Post, Exit
    <3>2. CASE Resume(k) \/ Save(k)
      BY <1>2, <3>2, ResumeFinds, SaveFinds DEF Resume, Save
    <3>3. CASE Work(k) \/ Submit(k) \/ CpExit(k)
      BY <1>2, <3>3 DEF Work, Submit, CpExit
    <3> QED BY <2>1, <3>1, <3>2, <3>3 DEF StepOf
  <2>2. CASE ResStep
    <3>1. up'
      BY <1>2, <2>2, RemoveFinds DEF ResStep, ResPop, ResJoin, ResRemove, ResCopy, ResDump,
                                     ResBack, ResRestore
    <3> QED BY <3>1 DEF AbortsOnlyWhileOut
  <2>3. CASE MainStep
    <3>1. CASE BootRestore \/ BootEnd
      <4>1. up'
        BY <1>2, <3>1, BootFinds DEF BootRestore, BootEnd
      <4> QED BY <4>1 DEF AbortsOnlyWhileOut
    <3>2. CASE BootNext
      <4>1. CASE node[cursor].next = Null
        <5>1. Out(cursor, "head") /\ mpc = "bootnext"
          BY <3>2, <4>1, BootReads DEF BootNext
        <5>2. UNCHANGED <<mpc, cursor, rpc, rthr, rpage, rtodo>>
          BY <3>2, <4>1 DEF BootNext, Abort, mainvars, resvars, dumpvars
        <5> QED BY <5>1, <5>2 DEF AbortsOnlyWhileOut, Out
      <4>2. CASE node[cursor].next # Null
        BY <1>2, <3>2, <4>2 DEF BootNext, AbortsOnlyWhileOut
      <4> QED BY <4>1, <4>2
    <3>3. ASSUME NEW t \in CrThreads, Join(t) PROVE AbortsOnlyWhileOut'
      <4>1. CASE Out(t, "context")
        <5>1. t \in handles /\ mpc = "idle"
          BY <3>3 DEF Join, Idle
        <5>2. UNCHANGED <<mpc, handles, rpc, rthr, rpage, rtodo>>
          BY <3>3, <4>1 DEF Join, Abort, mainvars, resvars, dumpvars, progvars
        <5> QED BY <4>1, <5>1, <5>2 DEF AbortsOnlyWhileOut, Out
      <4>2. CASE ~Out(t, "context")
        BY <1>2, <3>3, <4>2 DEF Join, AbortsOnlyWhileOut
      <4> QED BY <4>1, <4>2
    <3>4. CASE \E x \in Nodes, part \in Regions : EverythingPersist(x, part)
      BY <1>2, <3>4 DEF EverythingPersist, AbortsOnlyWhileOut
    <3>5. CASE \/ NewCheckpoint \/ Complete \/ Down \/ JoinReturns \/ Shutdown("save")
               \/ Shutdown("nosave")
      BY <1>2, <3>5 DEF NewCheckpoint, Complete, Down, JoinReturns, Shutdown, AbortsOnlyWhileOut
    <3>6. CASE \E t \in CrThreads : New(t) \/ Fork(t) \/ Delete(t)
      BY <1>2, <3>6 DEF New, Fork, Delete, AbortsOnlyWhileOut
    <3> QED BY <2>3, <3>1, <3>2, <3>3, <3>4, <3>5, <3>6 DEF MainStep
  <2>4. CASE Restart
    BY <2>4 DEF Restart, AbortsOnlyWhileOut
  <2>5. CASE UNCHANGED vars
    BY <1>2, <2>5 DEF vars, AbortsOnlyWhileOut
  <2> QED BY <2>1, <2>2, <2>3, <2>4, <2>5, NextSteps DEF AbortsOnlyWhileOut
<1> QED BY <1>1, <1>2 DEF Types, MainTypes

-----------------------------------------------------------------------------
(***************************************************************************)
(* A step of a pthread keeps the invariant                                 *)
(***************************************************************************)

(* It moves one pthread and touches what belongs to its thread.            *)
LEMMA PthreadMoves ==
  ASSUME IInv, NEW k \in Pthreads, StepOf(k)
  PROVE  /\ pc[k] \notin {"none", "dead"} /\ pc'[k] # "none"
         /\ pc[k] = "cpexit" => pc'[k] = "dead"
         /\ \A l \in Pthreads : l # k => pc'[l] = pc[l]
         /\ OwnerOf(k) \in started /\ ptid[OwnerOf(k)] = k
         /\ UNCHANGED <<filevars, ptid, rpc, rthr, rtodo, dumpvars, mainvars, progvars>>
         /\ rpage = "head" => node'[rthr] = node[rthr]
         /\ Records[OwnerOf(k)] = node[OwnerOf(k)] /\ Records'[OwnerOf(k)] = node'[OwnerOf(k)]
         /\ \A x \in Nodes : /\ Records'[x].next = Records[x].next
                             /\ Records'[x].prev = Records[x].prev
         /\ \A u \in CrThreads : u # OwnerOf(k) =>
              /\ Records'[u] = Records[u] /\ ctx'[u] = ctx[u] /\ stk'[u] = stk[u]
              /\ table'[u] = table[u] /\ post'[u] = post[u]
<1> DEFINE t == OwnerOf(k)
<1>1. /\ t \in CrThreads /\ pc \in [Pthreads -> PcStates]
      /\ node \in [Nodes -> Link] /\ DOMAIN ctx = CrThreads /\ DOMAIN stk = CrThreads
      /\ ctx = [u \in CrThreads |-> ctx[u]] /\ stk = [u \in CrThreads |-> stk[u]]
      /\ table = [u \in CrThreads |-> table[u]] /\ post = [u \in CrThreads |-> post[u]]
  BY PthreadFacts DEF IInv, Types, HeapTypes, PthreadTypes
<1>2. \E from, to \in PcStates :
        /\ pc[k] = from /\ from \notin {"none", "dead"}
        /\ pc' = [pc EXCEPT ![k] = to] /\ to # "none"
        /\ from = "cpexit" => to = "dead"
  <2> USE <1>1 DEF At, Goto, PcStates
  <2>1. CASE Insert(k) \/ FirstRun(k) \/ Submit(k)
    BY <2>1 DEF Insert, FirstRun, Submit
  <2>2. CASE Leave(k) \/ Post(k) \/ Exit(k) \/ CpExit(k)
    BY <2>2 DEF Leave, Post, Exit, CpExit
  <2>3. CASE Resume(k)
    BY <2>3, ResumeFinds DEF Resume
  <2>4. CASE Save(k)
    BY <2>4, SaveFinds DEF Save
  <2>5. CASE Work(k)
    BY <2>5 DEF Work, After, Returned
  <2> QED BY <2>1, <2>2, <2>3, <2>4, <2>5 DEF StepOf
<1>3. UNCHANGED <<filevars, ptid, rpc, rthr, rtodo, dumpvars, mainvars, progvars>>
  <2>1. CASE Resume(k)
    BY <2>1, ResumeFinds DEF Resume, resvars
  <2>2. CASE Save(k)
    BY <2>2, SaveFinds DEF Save, resvars
  <2>3. CASE ~Resume(k) /\ ~Save(k)
    BY <2>3 DEF StepOf, Insert, FirstRun, Leave, Post, Exit, Work, Submit, CpExit, resvars
  <2> QED BY <2>1, <2>2, <2>3
<1>4. /\ \A x \in Nodes : node'[x].next = node[x].next /\ node'[x].prev = node[x].prev
      /\ \A u \in CrThreads : u # t => node'[u] = node[u]
  <2>1. CASE FirstRun(k)
    <3>1. node' = Cleared(t) /\ HeapTypes
      BY <2>1 DEF FirstRun, IInv, Types
    <3> QED BY <1>1, <3>1, ClearedLink DEF Nodes
  <2>2. CASE ~FirstRun(k)
    <3>1. node' = node
      <4>1. CASE Resume(k)
        BY <4>1, ResumeFinds DEF Resume, memvars
      <4>2. CASE Save(k)
        BY <4>2, SaveFinds DEF Save
      <4>3. CASE ~Resume(k) /\ ~Save(k)
        BY <2>2, <4>3 DEF StepOf, Insert, Leave, Post, Exit, Work, Submit, CpExit, memvars
      <4> QED BY <4>1, <4>2, <4>3
    <3> QED BY <3>1
  <2> QED BY <2>1, <2>2
<1>5. \A u \in CrThreads : u # t => ctx'[u] = ctx[u] /\ stk'[u] = stk[u]
  <2> USE <1>1 DEF memvars
  <2>1. CASE FirstRun(k) \/ Work(k)
    BY <2>1 DEF FirstRun, Work
  <2>2. CASE Save(k)
    BY <2>2, SaveFinds DEF Save
  <2>3. CASE Resume(k)
    BY <2>3, ResumeFinds DEF Resume
  <2>4. CASE ~FirstRun(k) /\ ~Work(k) /\ ~Save(k) /\ ~Resume(k)
    BY <2>4 DEF StepOf, Insert, Leave, Post, Exit, Submit, CpExit
  <2> QED BY <2>1, <2>2, <2>3, <2>4
<1>6. \A u \in CrThreads : u # t => table'[u] = table[u] /\ post'[u] = post[u]
  <2> USE <1>1
  <2>1. CASE Insert(k)
    BY <2>1 DEF Insert
  <2>2. CASE Leave(k)
    BY <2>2, LeaveFinds DEF Leave
  <2>3. CASE Post(k) \/ CpExit(k)
    BY <2>3 DEF Post, Posted, CpExit, NotPosted
  <2>4. CASE Save(k) \/ Resume(k)
    BY <2>4, SaveFinds, ResumeFinds DEF Save, Resume
  <2>5. CASE FirstRun(k) \/ Work(k) \/ Exit(k) \/ Submit(k)
    BY <2>5 DEF FirstRun, Work, Exit, Submit
  <2> QED BY <2>1, <2>2, <2>3, <2>4, <2>5 DEF StepOf
<1>7. t \in started /\ ptid[t] = k
  BY <1>2 DEF IInv, Owners
<1>8. rpage = "head" => rthr \in CrThreads /\ rthr # t
  <2>1. rpage = "head" => rpc = "commit"
    BY DEF IInv, Types, ResTypes
  <2> QED BY <1>2, <2>1, CrThreadAssumption, OwnRecord DEF IInv, Types, ResTypes
<1>9. /\ \A x \in Nodes : Records'[x].next = Records[x].next /\ Records'[x].prev = Records[x].prev
      /\ \A u \in CrThreads : u # t => Records'[u] = Records[u]
      /\ Records[t] = node[t] /\ Records'[t] = node'[t]
  <2>1. CASE rpage = "head" /\ "head" \notin rtodo
    <3>1. Records = [node EXCEPT ![rthr] = rcpy] /\ Records' = [node' EXCEPT ![rthr] = rcpy]
      BY <1>3, <2>1 DEF Records, dumpvars
    <3>2. node' \in [Nodes -> Link]
      <4>1. [Next]_vars
        BY DEF StepOf, Next, PthreadStep, Stub, Checkpoint
      <4> QED BY <4>1, HeapTypesStep DEF HeapTypes, IInv
    <3>3. /\ \A x \in Nodes : Records[x] = IF x = rthr THEN rcpy ELSE node[x]
          /\ \A x \in Nodes : Records'[x] = IF x = rthr THEN rcpy ELSE node'[x]
      BY <1>1, <3>1, <3>2
    <3>4. \A u \in CrThreads : u \in Nodes
      BY DEF Nodes
    <3> QED BY <1>1, <1>4, <1>8, <2>1, <3>3, <3>4
  <2>2. CASE ~(rpage = "head" /\ "head" \notin rtodo)
    <3>1. Records = node /\ Records' = node'
      BY <1>3, <2>2 DEF Records, dumpvars
    <3> QED BY <1>4, <3>1
  <2> QED BY <2>1, <2>2
<1> QED BY <1>1, <1>2, <1>3, <1>4, <1>5, <1>6, <1>7, <1>8, <1>9

LEMMA PthreadFrame ==
  ASSUME IInv, NEW k \in Pthreads, StepOf(k)
  PROVE  Owners' /\ Untouched' /\ Linked' /\ Boot' /\ Stopping' /\ Window'
<1> DEFINE t == OwnerOf(k)
<1> USE PthreadFacts DEF IInv, progvars, filevars, mainvars
<1>1. Owners'
  BY PthreadMoves DEF Owners
<1>2. Untouched'
  BY PthreadMoves DEF Untouched
<1>3. Linked'
  <2>1. \A u \in handles \ started : Records'[u] = Records[u]
    BY PthreadMoves DEF Types, MainTypes
  <2>2. handles \cup started \subseteq Nodes
    BY DEF Types, MainTypes, Nodes
  <2> QED BY <2>1, <2>2, PthreadMoves DEF Linked
<1>4. Boot'
  <2> SUFFICES ASSUME NEW S \in SUBSET CrThreads, BootList(S) PROVE BootList(S)'
    BY PthreadMoves DEF Boot, Booting
  <2>1. \A u \in S \ started : Ready(u)'
    <3>1. \A u \in S \ started : /\ Records'[u] = Records[u] /\ ctx'[u] = ctx[u] /\ stk'[u] = stk[u]
                                 /\ dctx'[u] = dctx[u] /\ dstk'[u] = dstk[u]
                                 /\ dnode'[u] = dnode[u]
      BY PthreadMoves
    <3> QED BY <3>1 DEF BootList, Ready, InStep, Young
  <2>2. \A x \in S \cup {Meta} : /\ Records'[x].next = Records[x].next
                                /\ Records'[x].prev = Records[x].prev
    BY PthreadMoves DEF Nodes
  <2>3. UNCHANGED <<cursor, started, mpc>>
    BY PthreadMoves
  <2>4. \A u \in Passed \cup {cursor} : u # Meta => u \in S
    BY DEF BootList, Passed
  <2> QED BY <2>1, <2>2, <2>3, <2>4 DEF BootList, Passed
<1>5. Stopping'
  BY PthreadMoves DEF Stopping
<1>6. Window'
  BY PthreadMoves DEF Window, Booting, dumpvars, Young
<1> QED BY <1>1, <1>2, <1>3, <1>4, <1>5, <1>6

(* crthread_checkpoint puts the thread into the resurrector's queue.       *)
LEMMA Submitted ==
  ASSUME IInv, NEW k \in Pthreads, Submit(k)
  PROVE  /\ Len(rin') = Len(rin) + 1 /\ Len(rin) \in Nat
         /\ \A i \in 1..Len(rin) : rin'[i] = rin[i]
         /\ rin'[Len(rin')] = OwnerOf(k)
         /\ \A u \in CrThreads : Queued(u)' => Queued(u) \/ u = OwnerOf(k)
         /\ ~Waiting(OwnerOf(k)) /\ pc[k] = "submit" /\ pc'[k] = "cpexit"
<1>1. rin' = Append(rin, OwnerOf(k)) /\ rin \in Seq(CrThreads \cup {StopMsg})
  BY DEF Submit, IInv, Types, ResTypes
<1>2. /\ Len(rin') = Len(rin) + 1 /\ Len(rin) \in Nat
      /\ \A i \in 1..Len(rin) : rin'[i] = rin[i]
      /\ rin'[Len(rin')] = OwnerOf(k)
  BY <1>1, PthreadFacts
<1>3. ASSUME NEW u \in CrThreads, Queued(u)' PROVE Queued(u) \/ u = OwnerOf(k)
  <2>1. PICK i \in 1..Len(rin') : rin'[i] = u
    BY <1>3 DEF Queued
  <2>2. i \in 1..Len(rin) \/ i = Len(rin')
    BY <1>2
  <2> QED BY <1>2, <2>1, <2>2 DEF Queued
<1>4. pc[k] = "submit" /\ pc'[k] = "cpexit"
  BY DEF Submit, At, Goto, IInv, Types, PthreadTypes
<1>5. ~Waiting(OwnerOf(k))
  BY <1>4, NotWaiting DEF IInv
<1> QED BY <1>2, <1>3, <1>4, <1>5

LEMMA RinSame ==
  ASSUME NEW k \in Pthreads, StepOf(k), ~Submit(k)
  PROVE  rin' = rin
BY DEF StepOf, Insert, FirstRun, Resume, Leave, Post, Exit, Work, Save, CpExit, Abort, resvars

LEMMA PthreadQueue ==
  ASSUME IInv, NEW k \in Pthreads, StepOf(k)
  PROVE  Queue'
<1> DEFINE t == OwnerOf(k)
<1> USE PthreadFacts DEF IInv, progvars
<1>1. \A u \in started : pc[ptid[u]] \in {"cpexit", "dead"} => pc'[ptid[u]] \in {"cpexit", "dead"}
  BY PthreadMoves DEF Owners
<1>2. /\ rthr' \in CrThreads => rthr' \in started'
      /\ rpc' = "join" => pc'[ptid'[rthr']] \in {"cpexit", "dead"}
      /\ rpc' \in {"remove", "commit"} =>
           \A l \in Pthreads : OwnerOf(l) = rthr' => pc'[l] = "none"
  <2>1. UNCHANGED <<rpc, rthr, ptid, started>>
    BY PthreadMoves
  <2>2. rpc = "join" => rthr \in started
    BY InHand
  <2>3. rpc \in {"remove", "commit"} => OwnerOf(k) # rthr
    BY PthreadMoves DEF Queue
  <2> QED BY <1>1, <2>1, <2>2, <2>3, PthreadMoves DEF Queue
<1>3. CASE Submit(k)
  <2> SUFFICES ASSUME NEW i \in 1..Len(rin'), rin'[i] \in CrThreads
               PROVE  /\ rin'[i] \in started' /\ pc'[ptid'[rin'[i]]] \in {"cpexit", "dead"}
                      /\ rin'[i] # rthr'
                      /\ \A j \in 1..Len(rin') : rin'[j] = rin'[i] => j = i
    BY <1>2 DEF Queue
  <2>1. i \in 1..Len(rin) \/ i = Len(rin')
    BY <1>3, Submitted
  <2>2. CASE i \in 1..Len(rin)
    <3>1. rin'[i] = rin[i] /\ rin[i] # t
      BY <1>3, <2>2, Submitted DEF Waiting, Queued
    <3>2. /\ rin[i] \in started /\ pc[ptid[rin[i]]] \in {"cpexit", "dead"} /\ rin[i] # rthr
          /\ \A j \in 1..Len(rin) : rin[j] = rin[i] => j = i
      BY <2>2, <3>1 DEF Queue
    <3>3. \A j \in 1..Len(rin') : rin'[j] = rin[i] => j = i
      <4>1. \A j \in 1..Len(rin') : j \in 1..Len(rin) \/ j = Len(rin')
        BY <1>3, Submitted
      <4> QED BY <1>3, <3>1, <3>2, <4>1, Submitted
    <3> QED BY <1>1, <3>1, <3>2, <3>3, PthreadMoves
  <2>3. CASE i = Len(rin')
    <3>1. rin'[i] = t /\ t # rthr /\ \A j \in 1..Len(rin) : rin[j] # t
      BY <1>3, <2>3, Submitted DEF Waiting, Queued
    <3>2. \A j \in 1..Len(rin') : rin'[j] = t => j = i
      <4>1. \A j \in 1..Len(rin') : j \in 1..Len(rin) \/ j = Len(rin')
        BY <1>3, Submitted
      <4> QED BY <1>3, <2>3, <3>1, <4>1, Submitted
    <3>3. t \in started' /\ pc'[ptid'[t]] = "cpexit" /\ rthr' = rthr
      BY <1>3, Submitted, PthreadMoves
    <3> QED BY <3>1, <3>2, <3>3
  <2> QED BY <2>1, <2>2, <2>3
<1>4. CASE ~Submit(k)
  <2>1. UNCHANGED <<rin, rthr, started, ptid>>
    BY <1>4, RinSame, PthreadMoves
  <2> QED BY <1>1, <1>2, <2>1 DEF Queue
<1> QED BY <1>3, <1>4

(* What each step does to its own thread.                                  *)
LEMMA OwnStep ==
  ASSUME IInv, NEW k \in Pthreads, StepOf(k), NEW t \in CrThreads, t = OwnerOf(k)
  PROVE  \/ /\ pc[k] = "insert" /\ pc'[k] = "setup" /\ table'[t] = k
            /\ Records'[t] = Records[t] /\ ctx'[t] = ctx[t] /\ stk'[t] = stk[t]
            /\ post'[t] = post[t] /\ rin' = rin
         \/ /\ pc[k] = "setup" /\ pc'[k] = "save" /\ ~Young(Records'[t])
            /\ table'[t] = table[t] /\ ctx'[t] = ctx[t] /\ stk'[t] = 0 /\ stk[t] = 0
            /\ post'[t] = post[t] /\ rin' = rin
         \/ /\ pc[k] = "setup" /\ InStep(t)
            /\ (pc'[k] = "leave" /\ stk[t] = Steps) \/ (pc'[k] = "run" /\ dctx[t] # NoCtx)
            /\ Records'[t] = Records[t] /\ ctx'[t] = ctx[t] /\ stk'[t] = stk[t]
            /\ table'[t] = table[t] /\ post'[t] = post[t] /\ rin' = rin
         \/ /\ pc[k] = "run" /\ pc'[k] \in {"run", "save"}
            /\ Records'[t] = Records[t] /\ ctx'[t] = ctx[t] /\ stk'[t] = stk[t] + 1
            /\ table'[t] = table[t] /\ post'[t] = post[t] /\ rin' = rin
         \/ /\ pc[k] = "save" /\ pc'[k] = "submit"
            /\ Records'[t] = Records[t] /\ ctx'[t] = stk[t] /\ stk'[t] = stk[t]
            /\ table'[t] = table[t] /\ post'[t] = post[t] /\ rin' = rin
         \/ /\ Submit(k) /\ pc[k] = "submit" /\ pc'[k] = "cpexit"
            /\ Records'[t] = Records[t] /\ ctx'[t] = ctx[t] /\ stk'[t] = stk[t]
            /\ table'[t] = table[t] /\ post'[t] = post[t]
         \/ /\ \/ pc[k] \in {"cpexit", "exit"} /\ pc'[k] = "dead" /\ table'[t] = table[t]
               \/ pc[k] = "leave" /\ pc'[k] = "post" /\ table'[t] = NoPthread
            /\ Records'[t] = Records[t] /\ ctx'[t] = ctx[t] /\ stk'[t] = stk[t]
            /\ post'[t] = post[t] /\ rin' = rin
         \/ /\ pc[k] = "post" /\ pc'[k] = "exit" /\ table'[t] = table[t]
            /\ Records'[t] = Records[t] /\ ctx'[t] = ctx[t] /\ stk'[t] = stk[t]
            /\ post'[t] = post[t] + 1 /\ rin' = rin
<1>1. /\ pc \in [Pthreads -> PcStates] /\ ptid[t] = k /\ t \in started
      /\ node \in [Nodes -> Link] /\ t \in Nodes
      /\ Records[t] = node[t] /\ Records'[t] = node'[t]
      /\ ctx \in [CrThreads -> 0..Steps \cup {NoCtx}] /\ stk \in [CrThreads -> 0..Steps]
      /\ post \in [CrThreads -> Nat]
      /\ table \in [CrThreads -> Pthreads \cup {NoPthread}]
  BY PthreadMoves DEF IInv, Types, HeapTypes, PthreadTypes, Nodes
<1> USE <1>1 DEF At, Goto, memvars
<1>2. CASE Insert(k)
  BY <1>2 DEF Insert, resvars
<1>3. CASE FirstRun(k)
  <2>1. node' = Cleared(t) /\ Records[t].firstrun /\ stk' = [stk EXCEPT ![t] = 0]
    BY <1>3 DEF FirstRun
  <2>2. Records'[t].next = Records[t].next /\ Records'[t].firstrun = FALSE
    BY <2>1, ClearedLink DEF IInv, Types
  <2>3. ~Young(Records'[t]) /\ stk[t] = 0
    BY <2>1, <2>2 DEF Young, IInv, Linked, Files
  <2> QED BY <1>3, <2>1, <2>3 DEF FirstRun, resvars
<1>4. CASE Resume(k)
  <2>1. InStep(t) /\ ctx[t] # NoCtx
    BY <1>4, ResumeFinds
  <2>2. ctx[t] = stk[t] /\ dctx[t] = stk[t]
    BY <2>1 DEF InStep
  <2> QED BY <1>4, <2>1, <2>2 DEF Resume, resvars
<1>5. CASE Work(k)
  BY <1>5 DEF Work, After, Returned, resvars
<1>6. CASE Save(k)
  BY <1>6, SaveFinds DEF Save, resvars
<1>7. CASE Submit(k)
  BY <1>7 DEF Submit
<1>8. CASE CpExit(k) \/ Exit(k)
  BY <1>8 DEF CpExit, NotPosted, Exit, resvars
<1>9. CASE Leave(k)
  BY <1>9, LeaveFinds DEF Leave, resvars
<1>10. CASE Post(k)
  BY <1>10 DEF Post, Posted, resvars
<1> QED BY <1>2, <1>3, <1>4, <1>5, <1>6, <1>7, <1>8, <1>9, <1>10 DEF StepOf

(* A thread that waits for the resurrector does not change.                *)
LEMMA WaitingKept ==
  ASSUME IInv, NEW k \in Pthreads, StepOf(k), NEW u \in CrThreads, Waiting(u)
  PROVE  /\ Records'[u] = Records[u] /\ ctx'[u] = ctx[u] /\ stk'[u] = stk[u]
         /\ table'[u] = table[u] /\ post'[u] = post[u]
<1>1. CASE u # OwnerOf(k)
  BY <1>1, PthreadMoves
<1>2. CASE u = OwnerOf(k)
  <2>1. pc[k] \in {"cpexit", "dead", "none"}
    BY <1>2, NotWaiting DEF IInv
  <2>2. pc[k] = "cpexit"
    BY <2>1, PthreadMoves
  <2> QED BY <1>2, <2>2, OwnStep
<1> QED BY <1>1, <1>2

LEMMA PthreadInTable ==
  ASSUME IInv, NEW k \in Pthreads, StepOf(k)
  PROVE  InTable'
<1> DEFINE t == OwnerOf(k)
<1> USE PthreadFacts DEF IInv
<1>1. ptid[t] = k /\ t \in started /\ UNCHANGED <<ptid, rpc, rthr>>
  BY PthreadMoves
<1>2. ASSUME NEW l \in Pthreads
      PROVE  /\ pc'[l] \in {"setup", "run", "save", "submit", "cpexit", "leave"} =>
                  table'[OwnerOf(l)] = l
             /\ pc'[l] = "insert" => table'[OwnerOf(l)] = NoPthread
  <2>1. CASE OwnerOf(l) # t
    BY <2>1, PthreadMoves DEF InTable
  <2>2. CASE OwnerOf(l) = t /\ l # k
    <3>1. pc'[l] = "none"
      BY <2>2, OnlyOne, PthreadMoves
    <3> QED BY <3>1
  <2>3. CASE l = k
    BY <2>3, OwnStep DEF InTable
  <2> QED BY <2>1, <2>2, <2>3
<1>3. ASSUME NEW u \in CrThreads, Queued(u)' PROVE table'[u] = ptid'[u]
  <2>1. CASE Queued(u)
    BY <1>1, <2>1, WaitingKept DEF InTable, Waiting
  <2>2. CASE ~Queued(u)
    <3>1. Submit(k)
      BY <1>3, <2>2, RinSame DEF Queued
    <3>2. u = t /\ pc[k] = "submit"
      BY <1>3, <2>2, <3>1, Submitted
    <3>3. table[t] = k
      BY <3>2 DEF InTable
    <3> QED BY <1>1, <3>2, <3>3, OwnStep
  <2> QED BY <2>1, <2>2
<1>4. /\ rpc' \in {"join", "remove"} => table'[rthr'] = ptid'[rthr']
      /\ rpc' = "commit" => table'[rthr'] = NoPthread
  BY <1>1, InHand, WaitingKept DEF InTable, Waiting
<1> QED BY <1>2, <1>3, <1>4 DEF InTable

LEMMA PthreadPositions ==
  ASSUME IInv, NEW k \in Pthreads, StepOf(k)
  PROVE  Positions'
<1> DEFINE t == OwnerOf(k)
<1> USE PthreadFacts DEF IInv, filevars
<1>1. UNCHANGED filevars
  BY PthreadMoves
<1> SUFFICES ASSUME NEW l \in Pthreads, NEW u \in CrThreads, u = OwnerOf(l)
             PROVE  /\ pc'[l] \in {"insert", "setup"} => Ready(u)'
                    /\ pc'[l] = "run" => dctx'[u] # NoCtx /\ ~Young(Records'[u]) /\ ~Young(dnode'[u])
                    /\ pc'[l] = "save" => ~Young(Records'[u])
                    /\ pc'[l] \in {"submit", "cpexit"} => AtRest(u)'
                    /\ pc'[l] \in {"leave", "post", "exit"} => InStep(u)' /\ stk'[u] = Steps
  BY DEF Positions
<1>2. CASE u # t
  <2>1. /\ pc'[l] = pc[l] /\ Records'[u] = Records[u] /\ ctx'[u] = ctx[u] /\ stk'[u] = stk[u]
    BY <1>2, PthreadMoves
  <2>2. Ready(u)' = Ready(u) /\ InStep(u)' = InStep(u) /\ AtRest(u)' = AtRest(u)
    BY <1>1, <2>1 DEF Ready, InStep, AtRest, Young
  <2>3. Young(Records'[u]) = Young(Records[u]) /\ Young(dnode'[u]) = Young(dnode[u])
    BY <1>1, <2>1
  <2> QED BY <1>1, <2>1, <2>2, <2>3 DEF Positions
<1>3. CASE u = t /\ l # k
  <2>1. pc[k] # "none" /\ pc'[l] = pc[l]
    BY <1>3, PthreadMoves
  <2>2. pc[l] = "none"
    BY <1>3, <2>1, OnlyOne
  <2> QED BY <2>1, <2>2
<1>4. CASE l = k
  BY <1>1, <1>4, OwnStep DEF Positions, Ready, InStep, AtRest, Young
<1> QED BY <1>2, <1>3, <1>4

LEMMA PthreadCommit ==
  ASSUME IInv, NEW k \in Pthreads, StepOf(k)
  PROVE  Commit'
<1> USE PthreadFacts DEF IInv
<1>1. UNCHANGED <<rpc, rthr, rtodo, filevars>>
  BY PthreadMoves
<1>2. ASSUME NEW u \in CrThreads, Waiting(u)' PROVE AtRest(u)'
  <2>1. CASE Waiting(u)
    <3>1. AtRest(u)
      BY <2>1 DEF Commit
    <3> QED BY <2>1, <3>1, WaitingKept DEF AtRest, Young
  <2>2. CASE ~Waiting(u)
    <3>1. Submit(k)
      BY <1>1, <1>2, <2>2, RinSame DEF Waiting, Queued
    <3>2. u = OwnerOf(k) /\ pc[k] = "submit"
      BY <1>1, <1>2, <2>2, <3>1, Submitted DEF Waiting
    <3>3. AtRest(u)
      BY <3>2 DEF Positions
    <3> QED BY <3>2, <3>3, OwnStep DEF AtRest, Young
  <2> QED BY <2>1, <2>2
<1>3. rpc = "commit" => ctx'[rthr] = ctx[rthr] /\ stk'[rthr] = stk[rthr]
  BY InHand, WaitingKept DEF Waiting
<1> QED BY <1>1, <1>2, <1>3 DEF Commit, filevars

LEMMA PthreadEnds ==
  ASSUME IInv, NEW k \in Pthreads, StepOf(k)
  PROVE  Ends'
<1> DEFINE t == OwnerOf(k)
<1> USE PthreadFacts DEF IInv, filevars, progvars
<1>1. UNCHANGED <<rthr, joined, filevars>>
  BY PthreadMoves
<1>2. \A u \in CrThreads : post[u] \in Nat
  BY DEF Types, PthreadTypes
<1>3. ASSUME NEW l \in Pthreads, pc'[l] \notin {"none", "exit", "dead"}
      PROVE  post'[OwnerOf(l)] = 0 /\ OwnerOf(l) \notin joined'
  <2>1. CASE OwnerOf(l) # t
    BY <1>1, <1>3, <2>1, PthreadMoves DEF Ends
  <2>2. CASE OwnerOf(l) = t /\ l # k
    BY <1>3, <2>2, OnlyOne, PthreadMoves
  <2>3. CASE l = k
    <3>1. post'[t] = post[t] /\ pc[k] \notin {"none", "exit", "dead"}
      BY <1>3, <2>3, OwnStep
    <3> QED BY <1>1, <2>3, <3>1 DEF Ends
  <2> QED BY <2>1, <2>2, <2>3
<1>4. ASSUME NEW u \in CrThreads, Waiting(u)' PROVE post'[u] = 0 /\ u \notin joined'
  <2>1. CASE Waiting(u)
    BY <1>1, <2>1, WaitingKept DEF Ends
  <2>2. CASE ~Waiting(u)
    <3>1. Submit(k)
      BY <1>1, <1>4, <2>2, RinSame DEF Waiting, Queued
    <3>2. u = t /\ pc[k] = "submit"
      BY <1>1, <1>4, <2>2, <3>1, Submitted DEF Waiting
    <3> QED BY <1>1, <3>2, OwnStep DEF Ends
  <2> QED BY <2>1, <2>2
<1>5. ASSUME NEW u \in CrThreads, post'[u] > 0 \/ u \in joined'
      PROVE  InStep(u)' /\ stk'[u] = Steps
  <2>1. CASE u # t
    <3>1. InStep(u) /\ stk[u] = Steps
      BY <1>1, <1>5, <2>1, PthreadMoves DEF Ends
    <3> QED BY <1>1, <2>1, <3>1, PthreadMoves DEF InStep, Young
  <2>2. CASE u = t
    <3>1. pc[k] \in {"post", "exit"}
      <4>1. CASE pc[k] = "cpexit"
        <5>1. post'[t] = post[t] /\ post[t] = 0 /\ t \notin joined
          BY <2>2, <4>1, OwnStep DEF Ends
        <5> QED BY <1>1, <1>5, <2>2, <5>1
      <4>2. CASE pc[k] \notin {"post", "exit", "cpexit"}
        <5>1. post'[t] = post[t] /\ post[t] = 0 /\ t \notin joined
          BY <2>2, <4>2, OwnStep, PthreadMoves DEF Ends
        <5> QED BY <1>1, <1>5, <2>2, <5>1
      <4> QED BY <4>1, <4>2
    <3>2. InStep(t) /\ stk[t] = Steps
      BY <3>1 DEF Positions
    <3>3. Records'[t] = Records[t] /\ ctx'[t] = ctx[t] /\ stk'[t] = stk[t]
      BY <3>1, OwnStep
    <3> QED BY <1>1, <2>2, <3>2, <3>3 DEF InStep, Young
  <2> QED BY <2>1, <2>2
<1>6. ASSUME NEW u \in CrThreads PROVE post'[u] \in 0..1
  <2>1. CASE u # t
    BY <2>1, PthreadMoves DEF Ends
  <2>2. CASE u = t
    <3>1. pc[k] = "post" => post[t] = 0
      BY DEF Ends
    <3>2. post[t] \in 0..1
      BY DEF Ends
    <3> QED BY <2>2, <3>1, <3>2, OwnStep
  <2> QED BY <2>1, <2>2
<1> QED BY <1>3, <1>4, <1>5, <1>6 DEF Ends

LEMMA PthreadFiles ==
  ASSUME IInv, NEW k \in Pthreads, StepOf(k)
  PROVE  Files'
<1> DEFINE t == OwnerOf(k)
<1> USE PthreadFacts DEF IInv, filevars
<1>1. UNCHANGED <<filevars, rpc, rthr>>
  BY PthreadMoves
<1> SUFFICES ASSUME NEW u \in CrThreads
             PROVE  /\ Young(Records'[u]) \/ Young(dnode'[u]) \/ dctx'[u] = NoCtx => stk'[u] = 0
                    /\ dstk'[u] <= stk'[u]
                    /\ dctx'[u] # NoCtx => dctx'[u] <= stk'[u]
                    /\ dctx'[u] = NoCtx \/ dctx'[u] = dstk'[u]
                       \/ (rpc' = "commit" /\ rthr' = u
                           /\ (dctx'[u] = stk'[u] \/ dstk'[u] = stk'[u]))
  BY DEF Files
<1>2. CASE Records'[u] = Records[u] /\ stk'[u] = stk[u]
  BY <1>1, <1>2 DEF Files
<1>3. CASE u = t /\ pc[k] = "setup" /\ stk'[t] = 0 /\ stk[t] = 0
  BY <1>1, <1>3 DEF Files
<1>4. CASE u = t /\ pc[k] = "run" /\ Records'[t] = Records[t] /\ stk'[t] = stk[t] + 1
  <2>1. dctx[t] # NoCtx /\ ~Young(Records[t]) /\ ~Young(dnode[t])
    BY <1>4 DEF Positions
  <2>2. stk[t] \in Nat /\ dstk[t] \in Nat /\ dctx[t] \in Nat
    BY <2>1 DEF Types, HeapTypes
  <2>3. ~(rpc = "commit" /\ rthr = t)
    BY <1>4 DEF Queue
  <2> QED BY <1>1, <1>4, <2>1, <2>2, <2>3 DEF Files
<1>5. CASE u = t
  BY <1>2, <1>3, <1>4, <1>5, OwnStep
<1> QED BY <1>2, <1>5, PthreadMoves

LEMMA PthreadKeeps ==
  ASSUME IInv, NEW k \in Pthreads, StepOf(k)
  PROVE  Owners' /\ Untouched' /\ Queue' /\ InTable' /\ Positions' /\ Commit' /\ Ends'
         /\ Files' /\ Linked' /\ Boot' /\ Stopping' /\ Window'
BY PthreadFrame, PthreadQueue, PthreadInTable, PthreadPositions, PthreadCommit, PthreadEnds,
   PthreadFiles

-----------------------------------------------------------------------------
(***************************************************************************)
(* A step of the resurrector keeps the invariant                           *)
(***************************************************************************)
LEMMA Popped ==
  ASSUME IInv, ResPop
  PROVE  /\ Len(rin') \in Nat /\ Len(rin) = Len(rin') + 1
         /\ \A i \in 1..Len(rin') : rin'[i] = rin[i + 1] /\ i + 1 \in 1..Len(rin)
         /\ 1 \in 1..Len(rin) /\ Head(rin) = rin[1]
         /\ \A u \in CrThreads : Queued(u)' => Queued(u)
         /\ \A u \in CrThreads : Waiting(u)' => Waiting(u)
<1>1. rin \in Seq(CrThreads \cup {StopMsg}) /\ rin # <<>> /\ rin' = Tail(rin)
  BY DEF ResPop, IInv, Types, ResTypes
<1>2. /\ Len(rin') \in Nat /\ Len(rin) = Len(rin') + 1
      /\ \A i \in 1..Len(rin') : rin'[i] = rin[i + 1] /\ i + 1 \in 1..Len(rin)
      /\ 1 \in 1..Len(rin) /\ Head(rin) = rin[1]
  BY <1>1
<1>3. \A u \in CrThreads : Queued(u)' => Queued(u)
  BY <1>2 DEF Queued
<1>4. ASSUME NEW u \in CrThreads, Waiting(u)' PROVE Waiting(u)
  <2>1. rthr' = rthr \/ rthr' = rin[1]
    BY <1>2 DEF ResPop
  <2> QED BY <1>2, <1>3, <1>4, <2>1 DEF Waiting, Queued
<1> QED BY <1>2, <1>3, <1>4

(* Where no copy of a head is in the worker's hands, and none is made.     *)
LEMMA NoWindow ==
  ASSUME rpage # "head", UNCHANGED <<node, dumpvars>>
  PROVE  Records' = Records /\ Window'
BY DEF Records, Window, dumpvars

(* Steps that touch none of the threads.                                   *)
LEMMA SameKeeps ==
  ASSUME IInv, Records' = Records,
         UNCHANGED <<ctx, stk, filevars, pc, ptid, table, post, rin, rpc, rthr, rtodo, progvars>>
  PROVE  Owners' /\ Untouched' /\ Queue' /\ InTable' /\ Positions' /\ Commit' /\ Ends'
         /\ Files' /\ Linked'
<1> USE PthreadFacts DEF IInv, filevars, progvars
<1>1. \A u \in CrThreads : /\ Queued(u)' = Queued(u) /\ Waiting(u)' = Waiting(u)
                           /\ Ready(u)' = Ready(u) /\ InStep(u)' = InStep(u)
                           /\ AtRest(u)' = AtRest(u)
  BY DEF Waiting, Queued, Ready, InStep, AtRest, Young
<1>2. Owners' /\ Untouched' /\ Queue' /\ InTable'
  BY <1>1 DEF Owners, Untouched, Queue, InTable
<1>3. Positions'
  <2>1. \A u \in CrThreads : /\ Young(Records'[u]) = Young(Records[u])
                             /\ Young(dnode'[u]) = Young(dnode[u])
    OBVIOUS
  <2> QED BY <1>1, <2>1 DEF Positions
<1>4. Commit' /\ Ends' /\ Files'
  BY <1>1 DEF Commit, Ends, Files
<1>5. Linked'
  BY DEF Linked
<1> QED BY <1>2, <1>3, <1>4, <1>5

LEMMA SameBoot ==
  ASSUME IInv, Records' = Records, UNCHANGED <<ctx, stk, filevars, mpc, cursor, started, joined>>
  PROVE  Boot' /\ Stopping'
<1> USE DEF IInv, filevars
<1>1. \A u \in CrThreads : Ready(u)' = Ready(u)
  BY DEF Ready, InStep, Young
<1> QED BY <1>1 DEF Boot, Booting, BootList, Passed, Stopping

LEMMA PopKeeps ==
  ASSUME IInv, ResPop
  PROVE  Owners' /\ Untouched' /\ Queue' /\ InTable' /\ Positions' /\ Commit' /\ Ends'
         /\ Files' /\ Linked' /\ Boot' /\ Stopping' /\ Window'
<1> USE CrThreadAssumption DEF IInv, memvars, filevars, mainvars, progvars
<1>1. /\ UNCHANGED <<memvars, filevars, pc, ptid, table, post, mainvars, progvars>>
      /\ rpc = "pop" /\ rthr \notin CrThreads
      /\ \/ rpc' = "exit" /\ rthr' = rthr
         \/ rpc' = "join" /\ rthr' = rin[1] /\ rthr' \in CrThreads
  <2>1. Head(rin) \in CrThreads \cup {StopMsg}
    BY Popped DEF Types, ResTypes
  <2> QED BY <2>1, Popped DEF ResPop, Types, ResTypes
<1>2a. Records' = Records /\ Window'
  BY <1>1, RecordsFacts, NoWindow DEF ResPop
<1>2. Owners' /\ Untouched' /\ Linked'
  BY <1>1, <1>2a DEF Owners, Untouched, Linked
<1>3. Queue'
  <2>1. ASSUME NEW i \in 1..Len(rin'), rin'[i] \in CrThreads
        PROVE  /\ rin'[i] \in started' /\ pc'[ptid'[rin'[i]]] \in {"cpexit", "dead"}
               /\ rin'[i] # rthr'
               /\ \A j \in 1..Len(rin') : rin'[j] = rin'[i] => j = i
    <3>1. rin'[i] = rin[i + 1] /\ i + 1 \in 1..Len(rin) /\ 1 \in 1..Len(rin)
      BY Popped
    <3>2. /\ rin[i + 1] \in started /\ pc[ptid[rin[i + 1]]] \in {"cpexit", "dead"}
          /\ \A j \in 1..Len(rin) : rin[j] = rin[i + 1] => j = i + 1
      BY <2>1, <3>1 DEF Queue
    <3>3. rin'[i] # rthr'
      <4>1. rin[1] # rin[i + 1]
        BY <3>1, <3>2
      <4> QED BY <1>1, <2>1, <3>1, <4>1
    <3>4. \A j \in 1..Len(rin') : rin'[j] = rin'[i] => j = i
      BY <3>1, <3>2, Popped
    <3> QED BY <1>1, <3>1, <3>2, <3>3, <3>4
  <2>2. rthr' \in CrThreads => rthr' \in started'
    BY <1>1, Popped DEF Queue
  <2>3. rpc' = "join" => pc'[ptid'[rthr']] \in {"cpexit", "dead"}
    BY <1>1, Popped DEF Queue
  <2> QED BY <1>1, <2>1, <2>2, <2>3 DEF Queue
<1>4. InTable'
  <2>1. rpc' = "join" => Queued(rthr')
    BY <1>1, Popped DEF Queued
  <2> QED BY <1>1, <2>1, Popped DEF InTable
<1>5. Positions'
  BY <1>1, <1>2a DEF Positions, Ready, InStep, AtRest, Young
<1>6. Commit'
  BY <1>1, <1>2a, Popped DEF Commit, AtRest, Young
<1>7. Ends'
  BY <1>1, <1>2a, Popped DEF Ends, InStep, Young
<1>8. Files'
  BY <1>1, <1>2a DEF Files, Young
<1>9. Boot' /\ Stopping'
  BY <1>1, <1>2a, SameBoot
<1> QED BY <1>2, <1>2a, <1>3, <1>4, <1>5, <1>6, <1>7, <1>8, <1>9

LEMMA JoinKeeps ==
  ASSUME IInv, ResJoin
  PROVE  Owners' /\ Untouched' /\ Queue' /\ InTable' /\ Positions' /\ Commit' /\ Ends'
         /\ Files' /\ Linked' /\ Boot' /\ Stopping' /\ Window'
<1> USE CrThreadAssumption, PthreadFacts DEF IInv, memvars, filevars, mainvars, progvars
<1> DEFINE k == ptid[rthr]
<1>1. /\ UNCHANGED <<memvars, filevars, ptid, table, post, rin, rthr, rtodo, mainvars, progvars>>
      /\ rpc = "join" /\ rpc' = "remove" /\ pc[k] = "dead"
  BY DEF ResJoin, Reaped
<1>2. /\ k \in Pthreads /\ OwnerOf(k) = rthr /\ rthr \in started /\ rthr \in CrThreads
  BY <1>1, InHand
<1>3. pc'[k] = "none" /\ \A l \in Pthreads : l # k => pc'[l] = pc[l]
  BY <1>2 DEF ResJoin, Reaped, Types, PthreadTypes
<1>4. \A l \in Pthreads : OwnerOf(l) = rthr => pc'[l] = "none"
  BY <1>1, <1>2, <1>3, OnlyOne
<1>5a. Records' = Records /\ Window'
  BY <1>1, RecordsFacts, NoWindow DEF ResJoin
<1>5. Owners' /\ Untouched' /\ Linked'
  BY <1>1, <1>3, <1>5a DEF Owners, Untouched, Linked
<1>6. Queue'
  <2>1. \A u \in started : u # rthr => pc'[ptid[u]] = pc[ptid[u]]
    BY <1>2, <1>3 DEF Owners
  <2> QED BY <1>1, <1>4, <2>1 DEF Queue
<1>7. InTable'
  <2>1. \A u \in CrThreads : Queued(u)' = Queued(u)
    BY <1>1 DEF Queued
  <2> QED BY <1>1, <1>3, <2>1 DEF InTable
<1>8. Positions'
  BY <1>1, <1>3, <1>5a DEF Positions, Ready, InStep, AtRest, Young
<1>9. \A u \in CrThreads : Waiting(u)' = Waiting(u)
  BY <1>1 DEF Waiting, Queued
<1>10. Commit'
  BY <1>1, <1>5a, <1>9 DEF Commit, AtRest, Young
<1>11. Ends'
  BY <1>1, <1>3, <1>5a, <1>9 DEF Ends, InStep, Young
<1>12. Files'
  BY <1>1, <1>5a DEF Files, Young
<1>13. Boot' /\ Stopping'
  BY <1>1, <1>5a, SameBoot
<1> QED BY <1>5, <1>5a, <1>6, <1>7, <1>8, <1>10, <1>11, <1>12, <1>13

LEMMA RemoveKeeps ==
  ASSUME IInv, ResRemove
  PROVE  Owners' /\ Untouched' /\ Queue' /\ InTable' /\ Positions' /\ Commit' /\ Ends'
         /\ Files' /\ Linked' /\ Boot' /\ Stopping' /\ Window'
<1> USE CrThreadAssumption, PthreadFacts DEF IInv, memvars, filevars, mainvars, progvars
<1>1. /\ UNCHANGED <<memvars, filevars, pc, ptid, post, rin, rthr, mainvars, progvars>>
      /\ rpc = "remove" /\ rpc' = "commit" /\ rtodo' = Regions
      /\ table' = [table EXCEPT ![rthr] = NoPthread]
  BY RemoveFinds DEF ResRemove, Removed
<1>2. rthr \in started /\ rthr \in CrThreads /\ ~Queued(rthr)
  BY <1>1, InHand
<1>3. table'[rthr] = NoPthread /\ \A u \in CrThreads : u # rthr => table'[u] = table[u]
  BY <1>1, <1>2 DEF Types, PthreadTypes
<1>4a. Records' = Records /\ Window'
  BY <1>1, RecordsFacts, NoWindow, RemoveFinds DEF ResRemove
<1>4. Owners' /\ Linked'
  BY <1>1, <1>4a DEF Owners, Linked
<1>5. Untouched'
  BY <1>1, <1>2, <1>3 DEF Untouched
<1>6. Queue'
  BY <1>1 DEF Queue
<1>7. \A u \in CrThreads : Queued(u)' = Queued(u) /\ Waiting(u)' = Waiting(u)
  BY <1>1 DEF Waiting, Queued
<1>8. InTable'
  <2>1. \A k \in Pthreads : pc[k] # "none" => OwnerOf(k) # rthr
    BY <1>1 DEF Queue
  <2> QED BY <1>1, <1>2, <1>3, <1>7, <2>1 DEF InTable
<1>9. Positions'
  BY <1>1, <1>4a DEF Positions, Ready, InStep, AtRest, Young
<1>10. Commit'
  BY <1>1, <1>4a, <1>7 DEF Commit, AtRest, Young, Regions
<1>11. Ends'
  BY <1>1, <1>4a, <1>7 DEF Ends, InStep, Young
<1>12. Files'
  BY <1>1, <1>4a DEF Files, Young
<1>13. Boot' /\ Stopping'
  BY <1>1, <1>4a, SameBoot
<1> QED BY <1>4, <1>4a, <1>5, <1>6, <1>8, <1>9, <1>10, <1>11, <1>12, <1>13

(* The head is copied aside, or a copy is put back: the records stay.      *)
LEMMA CopyKeeps ==
  ASSUME IInv, ResCopy
  PROVE  Owners' /\ Untouched' /\ Queue' /\ InTable' /\ Positions' /\ Commit' /\ Ends'
         /\ Files' /\ Linked' /\ Boot' /\ Stopping' /\ Window'
<1>1. /\ UNCHANGED <<node, ctx, stk, filevars, pc, ptid, table, post, rin, rpc, rthr, rtodo,
                     mpc, cursor, progvars, started, joined>>
      /\ rpc = "commit" /\ rpage = "none" /\ "head" \in rtodo
      /\ rpage' = "head" /\ rcpy' = node[rthr]
  BY DEF ResCopy, memvars, mainvars, progvars
<1>2. Records = node /\ Records' = Records
  BY <1>1 DEF Records
<1>3. ~Young(node[rthr])
  BY <1>1, <1>2, InHand DEF IInv, AtRest
<1>4. Window'
  BY <1>1, <1>3 DEF Window, Young
<1> QED BY <1>1, <1>2, <1>4, SameKeeps, SameBoot

LEMMA BackKeeps ==
  ASSUME IInv, ResBack
  PROVE  Owners' /\ Untouched' /\ Queue' /\ InTable' /\ Positions' /\ Commit' /\ Ends'
         /\ Files' /\ Linked' /\ Boot' /\ Stopping' /\ Window'
<1>1. /\ UNCHANGED <<ctx, stk, filevars, pc, ptid, table, post, rin, rpc, rthr, rtodo,
                     mpc, cursor, progvars, started, joined>>
      /\ rpage \notin rtodo /\ rpage' = "none" /\ node' = PutBack
  BY DEF ResBack, mainvars, progvars
<1>2. Records' = Records
  BY <1>1 DEF Records, PutBack
<1>3. Window'
  BY <1>1 DEF Window
<1> QED BY <1>1, <1>2, <1>3, SameKeeps, SameBoot

(* A page is dumped: the file changes in what it holds of the thread in    *)
(* hand, towards what memory holds; the record may go back to an older     *)
(* copy, but not during a boot.                                            *)
LEMMA DumpMoves ==
  ASSUME IInv, NEW part \in Regions, ResDump(part)
  PROVE  /\ UNCHANGED <<ctx, stk, pc, ptid, table, post, rin, rpc, rthr, mainvars, progvars>>
         /\ rpc = "commit" /\ part \in rtodo /\ rtodo' = rtodo \ {part}
         /\ rthr \in CrThreads /\ rthr \in started
         /\ \A u \in CrThreads : u # rthr =>
              /\ Records'[u] = Records[u]
              /\ dnode'[u] = dnode[u] /\ dctx'[u] = dctx[u] /\ dstk'[u] = dstk[u]
         /\ dnode'[rthr] = IF part = "head" THEN Records[rthr] ELSE dnode[rthr]
         /\ dctx'[rthr] = IF part = "context" THEN ctx[rthr] ELSE dctx[rthr]
         /\ dstk'[rthr] = IF part = "stack" THEN stk[rthr] ELSE dstk[rthr]
         /\ ~Young(Records'[rthr]) /\ (Booting => Records' = Records) /\ Window'
<1>1. /\ UNCHANGED <<ctx, stk, pc, ptid, table, post, rin, rpc, rthr, rcpy, mainvars, progvars>>
      /\ rpc = "commit" /\ part \in rtodo /\ rtodo' = rtodo \ {part}
      /\ part # "head" => rpage # "head" /\ rpage' # "head" /\ node' = node
      /\ part = "head" => /\ rpage = "head" /\ rpage' = "head"
                          /\ node' = [node EXCEPT ![rthr] = Blank]
  <2>1. /\ UNCHANGED <<ctx, stk, pc, ptid, table, post, rin, rpc, rthr, rcpy, mainvars, progvars>>
        /\ rpc = "commit" /\ part \in rtodo /\ rtodo' = rtodo \ {part}
    BY DEF ResDump, InTurn
  <2>2. CASE part = "head"
    BY <2>1, <2>2 DEF ResDump
  <2>3. CASE part # "head"
    BY <2>1, <2>3 DEF ResDump
  <2> QED BY <2>1, <2>2, <2>3
<1>2. rthr \in CrThreads /\ rthr \in started /\ ~Young(Records[rthr])
  BY <1>1, InHand DEF IInv, AtRest
<1>3. /\ dnode \in [Nodes -> Link] /\ CrThreads \subseteq Nodes /\ node \in [Nodes -> Link]
      /\ dctx \in [CrThreads -> 0..Steps \cup {NoCtx}] /\ dstk \in [CrThreads -> 0..Steps]
  BY DEF IInv, Types, HeapTypes, Nodes
<1>4. Records = node
  BY <1>1 DEF Records
<1>5. \A u \in CrThreads : dnode'[u] = IF u = rthr /\ part = "head" THEN node[u] ELSE dnode[u]
  BY <1>2, <1>3 DEF ResDump
<1>6. \A u \in CrThreads : dctx'[u] = IF u = rthr /\ part = "context" THEN ctx[u] ELSE dctx[u]
  BY <1>2, <1>3 DEF ResDump
<1>7. \A u \in CrThreads : dstk'[u] = IF u = rthr /\ part = "stack" THEN stk[u] ELSE dstk[u]
  BY <1>2, <1>3 DEF ResDump
<1>8. /\ \A u \in CrThreads : u # rthr => Records'[u] = Records[u]
      /\ ~Young(Records'[rthr]) /\ (Booting => Records' = Records) /\ Window'
  <2>1. CASE part = "head"
    <3>1. Records' = [node EXCEPT ![rthr] = rcpy]
      <4>1. Records' = [node' EXCEPT ![rthr] = rcpy]
        BY <1>1, <2>1 DEF Records
      <4> QED BY <1>1, <1>2, <1>3, <2>1, <4>1
    <3>2. ~Young(rcpy) /\ (Booting => rcpy = node[rthr])
      BY <1>1, <2>1 DEF IInv, Window
    <3>3. \A u \in CrThreads : u # rthr => Records'[u] = Records[u]
      BY <1>3, <1>4, <3>1
    <3>4. Records'[rthr] = rcpy
      BY <1>2, <1>3, <3>1
    <3>5. Booting => Records' = Records
      BY <1>2, <1>3, <1>4, <3>1, <3>2
    <3>6. Window'
      <4>1. node'[rthr'] = Blank /\ "head" \notin rtodo' /\ rcpy' = rcpy
        BY <1>1, <1>2, <1>3, <2>1
      <4> QED BY <3>2, <4>1 DEF Window, Young
    <3> QED BY <3>2, <3>3, <3>4, <3>5, <3>6
  <2>2. CASE part # "head"
    <3>1. Records' = Records /\ Window'
      BY <1>1, <1>4, <2>2 DEF Records, Window
    <3> QED BY <1>2, <3>1
  <2> QED BY <2>1, <2>2
<1> QED BY <1>1, <1>2, <1>4, <1>5, <1>6, <1>7, <1>8

LEMMA DumpKeeps ==
  ASSUME IInv, NEW part \in Regions, ResDump(part)
  PROVE  Owners' /\ Untouched' /\ Queue' /\ InTable' /\ Positions' /\ Commit' /\ Ends'
         /\ Files' /\ Linked' /\ Boot' /\ Stopping' /\ Window'
<1> USE CrThreadAssumption, PthreadFacts DEF IInv, memvars, mainvars, progvars
<1>1. /\ UNCHANGED <<ctx, stk, pc, ptid, table, post, rin, rpc, rthr, mainvars, progvars>>
      /\ rpc = "commit" /\ rthr \in CrThreads /\ rthr \in started
  BY DumpMoves
<1>2. \A u \in CrThreads : u # rthr =>
        /\ Records'[u] = Records[u]
        /\ dnode'[u] = dnode[u] /\ dctx'[u] = dctx[u] /\ dstk'[u] = dstk[u]
  BY DumpMoves
<1>3. /\ ctx[rthr] = stk[rthr] /\ ~Young(Records[rthr]) /\ ~Young(Records'[rthr])
      /\ post[rthr] = 0 /\ rthr \notin joined
  BY <1>1, InHand, DumpMoves DEF AtRest
<1>4. \A l \in Pthreads : pc[l] # "none" => OwnerOf(l) # rthr
  BY <1>1 DEF Queue
<1>5. Owners' /\ Queue' /\ Stopping'
  BY <1>1 DEF Owners, Queue, Stopping
<1>5a. Linked'
  <2>1. ASSUME NEW u \in handles \cup started PROVE Records'[u].next # Null
    <3>1. u \in CrThreads
      BY DEF Types, MainTypes
    <3>2. CASE u = rthr
      BY <1>3, <3>2 DEF Young
    <3>3. CASE u # rthr
      BY <1>2, <3>1, <3>3 DEF Linked
    <3> QED BY <3>2, <3>3
  <2>2. ASSUME NEW u \in handles \ started PROVE Records'[u].firstrun
    <3>1. u \in CrThreads /\ u # rthr
      BY <1>1 DEF Types, MainTypes
    <3> QED BY <1>2, <3>1 DEF Linked
  <2> QED BY <1>1, <2>1, <2>2 DEF Linked
<1>6. Untouched'
  BY <1>1, <1>2 DEF Untouched
<1>7. \A u \in CrThreads : Queued(u)' = Queued(u) /\ Waiting(u)' = Waiting(u)
  BY <1>1 DEF Waiting, Queued
<1>8. InTable'
  BY <1>1, <1>7 DEF InTable
<1>9. \A u \in CrThreads : u # rthr =>
        /\ Ready(u)' = Ready(u) /\ InStep(u)' = InStep(u) /\ AtRest(u)' = AtRest(u)
        /\ Young(dnode'[u]) = Young(dnode[u]) /\ Young(Records'[u]) = Young(Records[u])
  BY <1>1, <1>2 DEF Ready, InStep, AtRest, Young
<1>10. Positions'
  <2> SUFFICES ASSUME NEW l \in Pthreads, NEW u \in CrThreads, u = OwnerOf(l)
               PROVE  /\ pc'[l] \in {"insert", "setup"} => Ready(u)'
                      /\ pc'[l] = "run" => dctx'[u] # NoCtx /\ ~Young(Records'[u]) /\ ~Young(dnode'[u])
                      /\ pc'[l] = "save" => ~Young(Records'[u])
                      /\ pc'[l] \in {"submit", "cpexit"} => AtRest(u)'
                      /\ pc'[l] \in {"leave", "post", "exit"} => InStep(u)' /\ stk'[u] = Steps
    BY DEF Positions
  <2>1. pc[l] # "none" => u # rthr
    BY <1>4
  <2> QED BY <1>1, <1>2, <1>9, <2>1 DEF Positions
<1>11. Commit'
  <2>1. \A u \in CrThreads : AtRest(u) => AtRest(u)'
    <3>1. AtRest(rthr) /\ ctx'[rthr] = stk'[rthr]
      BY <1>1, <1>3 DEF AtRest
    <3> QED BY <1>3, <1>9, <3>1 DEF AtRest
  <2>2. "context" \notin rtodo' => dctx'[rthr] = ctx[rthr]
    BY DumpMoves DEF Commit
  <2>3. "stack" \notin rtodo' => dstk'[rthr] = stk[rthr]
    BY DumpMoves DEF Commit
  <2>4. "head" \notin rtodo' => ~Young(dnode'[rthr])
    BY <1>3, DumpMoves DEF Commit
  <2> QED BY <1>1, <1>7, <2>1, <2>2, <2>3, <2>4 DEF Commit
<1>12. Ends'
  <2>1. \A u \in CrThreads : post[u] > 0 \/ u \in joined => u # rthr
    BY <1>3
  <2> QED BY <1>1, <1>7, <1>9, <2>1 DEF Ends
<1>13. Files'
  <2> SUFFICES ASSUME NEW u \in CrThreads
               PROVE  /\ Young(Records'[u]) \/ Young(dnode'[u]) \/ dctx'[u] = NoCtx => stk[u] = 0
                      /\ dstk'[u] <= stk[u]
                      /\ dctx'[u] # NoCtx => dctx'[u] <= stk[u]
                      /\ dctx'[u] = NoCtx \/ dctx'[u] = dstk'[u]
                         \/ (rthr = u /\ (dctx'[u] = stk[u] \/ dstk'[u] = stk[u]))
    BY <1>1 DEF Files
  <2>1. CASE u # rthr
    BY <1>1, <1>2, <2>1 DEF Files
  <2>2. CASE u = rthr
    <3>1. stk[u] \in Nat /\ stk[u] # NoCtx
      BY DEF Types, HeapTypes
    <3>2. CASE part = "head"
      <4>1. dnode'[u] = Records[u] /\ dctx'[u] = dctx[u] /\ dstk'[u] = dstk[u]
        BY <2>2, <3>2, DumpMoves
      <4> QED BY <1>1, <1>3, <2>2, <4>1 DEF Files
    <3>3. CASE part = "context"
      <4>1. dnode'[u] = dnode[u] /\ dctx'[u] = stk[u] /\ dstk'[u] = dstk[u]
        BY <1>3, <2>2, <3>3, DumpMoves
      <4> QED BY <1>1, <1>3, <2>2, <3>1, <4>1 DEF Files
    <3>4. CASE part = "stack"
      <4>1. dnode'[u] = dnode[u] /\ dctx'[u] = dctx[u] /\ dstk'[u] = stk[u]
        BY <2>2, <3>4, DumpMoves
      <4> QED BY <1>1, <1>3, <2>2, <3>1, <4>1 DEF Files
    <3> QED BY <3>2, <3>3, <3>4 DEF Regions
  <2> QED BY <2>1, <2>2
<1>14. Boot'
  <2>1. ASSUME Booting PROVE Boot'
    <3>1. Records' = Records
      BY <2>1, DumpMoves
    <3>2. \A u \in CrThreads \ started : Ready(u)' = Ready(u)
      BY <1>1, <1>9
    <3> QED BY <1>1, <3>1, <3>2 DEF Boot, Booting, BootList, Passed
  <2> QED BY <1>1, <2>1 DEF Boot, Booting
<1> QED BY <1>5, <1>5a, <1>6, <1>8, <1>10, <1>11, <1>12, <1>13, <1>14, DumpMoves

LEMMA RestoreKeeps ==
  ASSUME IInv, ResRestore
  PROVE  Owners' /\ Untouched' /\ Queue' /\ InTable' /\ Positions' /\ Commit' /\ Ends'
         /\ Files' /\ Linked' /\ Boot' /\ Stopping' /\ Window'
<1> DEFINE k == <<rthr, "recoverystack">>
<1> USE CrThreadAssumption, PthreadFacts DEF IInv, memvars, filevars, mainvars, progvars
<1>1. /\ UNCHANGED <<memvars, filevars, table, post, rin, rtodo, mainvars, progvars>>
      /\ rpc = "commit" /\ rpc' = "pop" /\ rthr' = NoThread /\ rtodo = {}
      /\ PthreadCreate(k)
  BY DEF ResRestore
<1>2. /\ rthr \in CrThreads /\ rthr \in started /\ AtRest(rthr)
      /\ post[rthr] = 0 /\ rthr \notin joined /\ ~Queued(rthr)
      /\ k \in Pthreads /\ OwnerOf(k) = rthr
  BY <1>1, InHand
<1>3. /\ pc'[k] = "insert" /\ \A l \in Pthreads : l # k => pc'[l] = pc[l]
      /\ ptid'[rthr] = k /\ \A u \in CrThreads : u # rthr => ptid'[u] = ptid[u]
  <2> HIDE DEF k
  <2> QED BY <1>1, <1>2 DEF PthreadCreate, NewId, Types, PthreadTypes
<1> HIDE DEF k
<1>4. \A l \in Pthreads : OwnerOf(l) = rthr => pc[l] = "none"
  BY <1>1 DEF Queue
<1>5. InStep(rthr)
  BY <1>1, <1>2 DEF AtRest, InStep, Commit
<1>6. Owners'
  BY <1>1, <1>2, <1>3, <1>4 DEF Owners, Types, MainTypes
<1>6a. Records' = Records /\ Window'
  BY <1>1, NoWindow DEF ResRestore
<1>7. Untouched' /\ Linked'
  BY <1>1, <1>6a DEF Untouched, Linked
<1>8. Queue'
  <2>1. \A u \in started : u # rthr => ptid'[u] = ptid[u] /\ pc'[ptid'[u]] = pc[ptid[u]]
    BY <1>2, <1>3 DEF Owners, Types, MainTypes
  <2> QED BY <1>1, <1>2, <2>1 DEF Queue, Queued
<1>9. \A u \in CrThreads : Queued(u)' = Queued(u) /\ (Waiting(u)' => Waiting(u) /\ u # rthr)
  BY <1>1, <1>2 DEF Waiting, Queued
<1>10. InTable'
  <2>1. \A u \in CrThreads : Queued(u) => u # rthr
    BY <1>2
  <2> QED BY <1>1, <1>2, <1>3, <1>9, <2>1 DEF InTable
<1>11. \A u \in CrThreads : /\ Ready(u)' = Ready(u) /\ InStep(u)' = InStep(u)
                            /\ AtRest(u)' = AtRest(u)
  BY <1>1, <1>6a DEF Ready, InStep, AtRest, Young
<1>12. Positions'
  BY <1>1, <1>2, <1>3, <1>5, <1>6a, <1>11 DEF Positions, Ready
<1>13. Commit'
  BY <1>1, <1>9, <1>11 DEF Commit
<1>14. Ends'
  BY <1>1, <1>2, <1>3, <1>9, <1>11 DEF Ends
<1>15. Files'
  BY <1>1, <1>5, <1>6a DEF Files, InStep
<1>16. Boot' /\ Stopping'
  BY <1>1, <1>6a, SameBoot
<1> QED BY <1>6, <1>6a, <1>7, <1>8, <1>10, <1>12, <1>13, <1>14, <1>15, <1>16

LEMMA ResKeeps ==
  ASSUME IInv, ResStep
  PROVE  Owners' /\ Untouched' /\ Queue' /\ InTable' /\ Positions' /\ Commit' /\ Ends'
         /\ Files' /\ Linked' /\ Boot' /\ Stopping' /\ Window'
BY PopKeeps, JoinKeeps, RemoveKeeps, CopyKeeps, DumpKeeps, BackKeeps, RestoreKeeps DEF ResStep

-----------------------------------------------------------------------------
(***************************************************************************)
(* A step of the main thread, or a restart, keeps the invariant            *)
(***************************************************************************)

(* Steps of a call: the end of crthread_new, of a boot, and a shutdown.    *)
Call ==
  \/ NewCheckpoint \/ Complete \/ Down \/ BootEnd
  \/ \E x \in Nodes, part \in Regions : EverythingPersist(x, part)
  \/ Shutdown("save") \/ Shutdown("nosave")

(* What a shutdown writes of a thread is in the file already, except that  *)
(* the list element may be newer in memory.                                *)
LEMMA EverythingMoves ==
  ASSUME IInv, NEW x \in Nodes, NEW part \in Regions, EverythingPersist(x, part)
  PROVE  /\ dctx' = dctx /\ dstk' = dstk
         /\ \A u \in CrThreads : dnode'[u] \in {dnode[u], Records[u]}
<1> USE CrThreadAssumption DEF IInv
<1>1. /\ dnode \in [Nodes -> Link] /\ CrThreads \subseteq Nodes
      /\ dctx \in [CrThreads -> 0..Steps \cup {NoCtx}] /\ dstk \in [CrThreads -> 0..Steps]
  BY DEF Types, HeapTypes, Nodes
<1>2. started \subseteq joined
  BY DEF EverythingPersist, Stopping
<1>3. \A u \in CrThreads : ctx[u] = dctx[u] /\ stk[u] = dstk[u]
  BY <1>2 DEF Untouched, Ends, InStep
<1>4. dctx' = dctx
  <2>1. CASE part = "context" /\ x \in CrThreads
    BY <1>1, <1>3, <2>1 DEF EverythingPersist
  <2>2. CASE part = "context" /\ x \notin CrThreads
    BY <1>1, <2>2 DEF EverythingPersist
  <2>3. CASE part # "context"
    BY <2>3 DEF EverythingPersist
  <2> QED BY <2>1, <2>2, <2>3
<1>5. dstk' = dstk
  <2>1. CASE part = "stack" /\ x \in CrThreads
    BY <1>1, <1>3, <2>1 DEF EverythingPersist
  <2>2. CASE part = "stack" /\ x \notin CrThreads
    BY <1>1, <2>2 DEF EverythingPersist
  <2>3. CASE part # "stack"
    BY <2>3 DEF EverythingPersist
  <2> QED BY <2>1, <2>2, <2>3
<1>5a. Records = node
  <2>1. rpc # "commit"
    BY <1>2, InHand
  <2> QED BY <2>1, RecordsFacts
<1>6. \A u \in CrThreads : dnode'[u] \in {dnode[u], Records[u]}
  BY <1>1, <1>5a DEF EverythingPersist
<1> QED BY <1>4, <1>5, <1>6

LEMMA CallMoves ==
  ASSUME IInv, Call
  PROVE  /\ UNCHANGED <<node, ctx, stk, dctx, dstk, pc, ptid, table, post, rpc, rthr, rtodo,
                        dumpvars, progvars>>
         /\ \A u \in CrThreads : dnode'[u] \in {dnode[u], Records[u]}
         /\ rin' = rin \/ rin' = Append(rin, StopMsg)
         /\ ~Booting'
         /\ mpc' \in {"save", "nosave", "everything", "down"} => started \subseteq joined
<1> USE CrThreadAssumption DEF IInv, memvars, filevars, resvars, Booting
<1>1. CASE NewCheckpoint \/ Down
  <2>1. /\ UNCHANGED <<memvars, pc, ptid, table, post, resvars, progvars, dctx, dstk>>
        /\ mpc' \in {"idle", "down"} /\ (mpc' = "down" => mpc \in {"everything", "nosave"})
        /\ dnode' = dnode \/ dnode' = [dnode EXCEPT ![Meta] = node[Meta]]
    BY <1>1 DEF NewCheckpoint, Down, PersistMeta
  <2>2. \A u \in CrThreads : dnode'[u] = dnode[u]
    BY <2>1 DEF Types, HeapTypes, Nodes
  <2> QED BY <2>1, <2>2 DEF Stopping
<1>2. CASE Complete \/ BootEnd
  BY <1>2, BootFinds DEF Complete, BootEnd, Stopping
<1>3. CASE Shutdown("save") \/ Shutdown("nosave")
  BY <1>3 DEF Shutdown, Stopped
<1>4. ASSUME NEW x \in Nodes, NEW part \in Regions, EverythingPersist(x, part)
      PROVE  /\ UNCHANGED <<memvars, pc, ptid, table, post, resvars, progvars>>
             /\ mpc' = "everything" /\ started \subseteq joined
  BY <1>4 DEF EverythingPersist, Stopping
<1> QED BY <1>1, <1>2, <1>3, <1>4, EverythingMoves DEF Call

LEMMA StopQueued ==
  ASSUME Types, rin' = rin \/ rin' = Append(rin, StopMsg)
  PROVE  /\ \A i \in 1..Len(rin') : rin'[i] \in CrThreads => i \in 1..Len(rin) /\ rin'[i] = rin[i]
         /\ \A u \in CrThreads : Queued(u)' = Queued(u)
<1>1. rin \in Seq(CrThreads \cup {StopMsg})
  BY DEF Types, ResTypes
<1>2. \A i \in 1..Len(rin') : rin'[i] \in CrThreads => i \in 1..Len(rin) /\ rin'[i] = rin[i]
  BY <1>1, CrThreadAssumption
<1>3. \A i \in 1..Len(rin) : i \in 1..Len(rin') /\ rin'[i] = rin[i]
  BY <1>1
<1> QED BY <1>2, <1>3 DEF Queued

LEMMA CallKeeps ==
  ASSUME IInv, Call
  PROVE  Owners' /\ Untouched' /\ Queue' /\ InTable' /\ Positions' /\ Commit' /\ Ends'
         /\ Files' /\ Linked' /\ Boot' /\ Stopping' /\ Window'
<1> USE CrThreadAssumption, PthreadFacts DEF IInv, progvars
<1>1. /\ UNCHANGED <<node, ctx, stk, dctx, dstk, pc, ptid, table, post, rpc, rthr, rtodo,
                     dumpvars, handles, started, joined>>
      /\ \A u \in CrThreads : dnode'[u] \in {dnode[u], Records[u]}
      /\ Records' = Records
  BY CallMoves, RecordsSame
<1>2. /\ \A u \in CrThreads : Queued(u)' = Queued(u) /\ Waiting(u)' = Waiting(u)
      /\ \A i \in 1..Len(rin') : rin'[i] \in CrThreads => i \in 1..Len(rin) /\ rin'[i] = rin[i]
  BY <1>1, CallMoves, StopQueued DEF Waiting
<1>3. \A u \in CrThreads : /\ Ready(u) => Ready(u)'
                           /\ InStep(u) => InStep(u)'
                           /\ AtRest(u)' = AtRest(u)
                           /\ ~Young(Records[u]) /\ ~Young(dnode[u]) => ~Young(dnode'[u])
  BY <1>1 DEF Ready, InStep, AtRest, Young
<1>4. Owners' /\ Untouched' /\ Linked'
  BY <1>1 DEF Owners, Untouched, Linked
<1>5. Queue'
  BY <1>1, <1>2 DEF Queue
<1>6. InTable'
  BY <1>1, <1>2 DEF InTable
<1>7. Positions'
  BY <1>1, <1>3 DEF Positions
<1>8. Commit'
  <2>1. rpc = "commit" => rthr \in CrThreads /\ ~Young(Records[rthr])
    BY InHand DEF AtRest
  <2> QED BY <1>1, <1>2, <1>3, <2>1 DEF Commit
<1>9. Ends'
  BY <1>1, <1>2, <1>3 DEF Ends
<1>10. Files'
  BY <1>1, <1>3 DEF Files
<1>11. Boot' /\ Stopping' /\ Window'
  BY <1>1, CallMoves DEF Boot, Stopping, Window, dumpvars, Young
<1> QED BY <1>4, <1>5, <1>6, <1>7, <1>8, <1>9, <1>10, <1>11

(* A copy that will be put back hides what main stores in that element.    *)
LEMMA RecordsMove ==
  ASSUME Types, node' \in [Nodes -> Link], UNCHANGED resvars
  PROVE  \A u \in CrThreads : \/ Records[u] = node[u] /\ Records'[u] = node'[u]
                              \/ u = rthr /\ Records'[u] = Records[u]
<1>1. node \in [Nodes -> Link] /\ CrThreads \subseteq Nodes
  BY DEF Types, HeapTypes, Nodes
<1>2. UNCHANGED <<rthr, rtodo, rpage, rcpy>>
  BY DEF resvars, dumpvars
<1>3. CASE rpage = "head" /\ "head" \notin rtodo
  <2>1. Records = [node EXCEPT ![rthr] = rcpy] /\ Records' = [node' EXCEPT ![rthr] = rcpy]
    BY <1>2, <1>3 DEF Records
  <2>2. ASSUME NEW u \in CrThreads
        PROVE  /\ Records[u] = IF u = rthr THEN rcpy ELSE node[u]
               /\ Records'[u] = IF u = rthr THEN rcpy ELSE node'[u]
    BY <1>1, <2>1
  <2> QED BY <2>2
<1>4. CASE ~(rpage = "head" /\ "head" \notin rtodo)
  <2>1. Records = node /\ Records' = node'
    BY <1>2, <1>4 DEF Records
  <2> QED BY <2>1
<1> QED BY <1>3, <1>4

(* crthread_new and crthread_delete change list elements; they make none   *)
(* that was linked look unlinked.                                          *)
LEMMA ListMoves ==
  ASSUME IInv, NEW t \in CrThreads, New(t) \/ Delete(t)
  PROVE  /\ UNCHANGED <<ctx, stk, filevars, pc, table, post, resvars, started, joined>>
         /\ started \subseteq handles' \cup joined
         /\ New(t) => t \notin started /\ handles' = handles \cup {t} /\ stk[t] = 0
         /\ Delete(t) => handles' \subseteq handles
         /\ \A u \in CrThreads : (New(t) /\ u = t) \/ ptid'[u] = ptid[u]
         /\ \A u \in CrThreads : /\ (New(t) /\ u = t) \/ Records'[u].firstrun = Records[u].firstrun
                                 /\ Records[u].next # Null => Records'[u].next # Null
         /\ New(t) => Records'[t].next # Null /\ Records'[t].firstrun
         /\ mpc' \in {"idle", "checkpoint"}
<1> USE CrThreadAssumption DEF IInv
<1>1. CASE New(t)
  <2>1. t \notin started /\ stk[t] = 0 /\ t # rthr
    <3>1. node[t].next = Null /\ t \notin handles
      BY <1>1, BlankLink DEF New
    <3>2. t # rthr
      <4>1. rthr \in CrThreads => rthr \in started /\ rthr \notin joined
        BY DEF Queue, Ends, Waiting
      <4> QED BY <3>1, <4>1 DEF Linked
    <3>3. Records[t].next = Null
      BY <3>1, <3>2, RecordsFacts DEF Nodes
    <3> QED BY <3>2, <3>3 DEF Linked, Files, Young
  <2>2. post' = post
    BY <1>1, <2>1 DEF New, Untouched, Types, PthreadTypes
  <2>3. \A u \in CrThreads : u = t \/ ptid'[u] = ptid[u]
    BY <1>1 DEF New, Types, PthreadTypes
  <2>4. /\ node'[t].next # Null /\ node'[t].firstrun
        /\ \A x \in Nodes : x # t => /\ node'[x].firstrun = node[x].firstrun
                                     /\ node[x].next # Null => node'[x].next # Null
    BY <1>1, NewLinks DEF Types
  <2>5. ~Delete(t)
    BY <1>1 DEF New, Delete
  <2>6. /\ \A u \in CrThreads : /\ u = t \/ Records'[u].firstrun = Records[u].firstrun
                                /\ Records[u].next # Null => Records'[u].next # Null
        /\ Records'[t].next # Null /\ Records'[t].firstrun
    <3>1. UNCHANGED resvars /\ node' \in [Nodes -> Link]
      BY <1>1, NewLinks DEF New, Types
    <3>2. \A u \in CrThreads : u \in Nodes
      BY DEF Nodes
    <3> QED BY <2>1, <2>4, <3>1, <3>2, RecordsMove
  <2>7. /\ UNCHANGED <<ctx, stk, filevars, pc, table, resvars, started, joined>>
        /\ handles' = handles \cup {t} /\ mpc' = "checkpoint"
        /\ started \subseteq handles' \cup joined
    BY <1>1 DEF New, Linked
  <2> QED BY <1>1, <2>1, <2>2, <2>3, <2>4, <2>5, <2>6, <2>7
<1>2. CASE Delete(t)
  <2>1. ~New(t)
    BY <1>2 DEF New, Delete
  <2>2. \A u \in CrThreads : /\ Records'[u].firstrun = Records[u].firstrun
                             /\ Records[u].next # Null => Records'[u].next # Null
    <3>1. UNCHANGED resvars
      BY <1>2 DEF Delete
    <3> QED BY <1>2, <3>1, DeleteLinks, RecordsMove DEF Types, Nodes
  <2>3. /\ UNCHANGED <<ctx, stk, filevars, pc, ptid, table, post, resvars, started, joined>>
        /\ handles' \subseteq handles /\ mpc' = "idle"
        /\ started \subseteq handles' \cup joined
    BY <1>2 DEF Delete, Idle, mainvars, Linked
  <2> QED BY <2>1, <2>2, <2>3
<1> QED BY <1>1, <1>2

LEMMA ListKeeps ==
  ASSUME IInv, NEW t \in CrThreads, New(t) \/ Delete(t)
  PROVE  Owners' /\ Untouched' /\ Queue' /\ InTable' /\ Positions' /\ Commit' /\ Ends'
         /\ Files' /\ Linked' /\ Boot' /\ Stopping' /\ Window'
<1> USE CrThreadAssumption, PthreadFacts DEF IInv, filevars, resvars
<1>1. UNCHANGED <<ctx, stk, filevars, pc, table, post, resvars, started, joined>>
  BY ListMoves
<1>2. \A u \in started : /\ ptid'[u] = ptid[u]
                         /\ Records'[u].firstrun = Records[u].firstrun
                         /\ Records[u].next # Null => Records'[u].next # Null
  BY ListMoves DEF Types, MainTypes
<1>3. \A k \in Pthreads : pc[k] # "none" => OwnerOf(k) \in started
  BY DEF Owners
<1>4. \A u \in CrThreads : Waiting(u) \/ rthr = u => u \in started
  BY DEF Waiting, Queued, Queue
<1>5. \A u \in CrThreads : post[u] > 0 \/ u \in joined => u \in started
  BY DEF Untouched
<1>6. \A u \in started : /\ Ready(u) => Ready(u)'
                         /\ InStep(u) => InStep(u)'
                         /\ AtRest(u) => AtRest(u)'
                         /\ ~Young(Records[u]) => ~Young(Records'[u])
  BY <1>1, <1>2 DEF Ready, InStep, AtRest, Young
<1>7. \A u \in CrThreads : Queued(u)' = Queued(u) /\ Waiting(u)' = Waiting(u)
  BY <1>1 DEF Waiting, Queued
<1>8. Owners' /\ Untouched'
  BY <1>1, <1>2 DEF Owners, Untouched
<1>9. Queue'
  <2>1. rpc = "join" => rthr \in started
    BY InHand
  <2> QED BY <1>1, <1>2, <2>1 DEF Queue
<1>10. InTable'
  <2>1. rpc \in {"join", "remove"} => rthr \in started
    BY InHand
  <2> QED BY <1>1, <1>2, <1>4, <1>7, <2>1 DEF InTable, Waiting
<1>11. Positions'
  <2> SUFFICES ASSUME NEW l \in Pthreads, NEW u \in CrThreads, u = OwnerOf(l)
               PROVE  /\ pc'[l] \in {"insert", "setup"} => Ready(u)'
                      /\ pc'[l] = "run" => dctx'[u] # NoCtx /\ ~Young(Records'[u]) /\ ~Young(dnode'[u])
                      /\ pc'[l] = "save" => ~Young(Records'[u])
                      /\ pc'[l] \in {"submit", "cpexit"} => AtRest(u)'
                      /\ pc'[l] \in {"leave", "post", "exit"} => InStep(u)' /\ stk'[u] = Steps
    BY DEF Positions
  <2>1. pc[l] # "none" => u \in started
    BY <1>3
  <2> QED BY <1>1, <1>6, <2>1 DEF Positions
<1>12. Commit'
  BY <1>1, <1>4, <1>6, <1>7 DEF Commit
<1>13. Ends'
  BY <1>1, <1>5, <1>6, <1>7 DEF Ends
<1>14. Files'
  <2> SUFFICES ASSUME NEW u \in CrThreads, Young(Records'[u]) PROVE stk[u] = 0 \/ Young(Records[u])
    BY <1>1 DEF Files
  <2>1. CASE New(t) /\ u = t
    BY <2>1, ListMoves
  <2>2. CASE ~(New(t) /\ u = t)
    BY <2>2, ListMoves DEF Young
  <2> QED BY <2>1, <2>2
<1>15. Linked'
  <2>1. CASE New(t)
    <3>1. /\ handles' = handles \cup {t} /\ Records'[t].next # Null /\ Records'[t].firstrun
          /\ \A u \in CrThreads : /\ u = t \/ Records'[u].firstrun = Records[u].firstrun
                                  /\ Records[u].next # Null => Records'[u].next # Null
      BY <2>1, ListMoves
    <3> QED BY <1>1, <3>1, ListMoves DEF Linked, Types, MainTypes
  <2>2. CASE Delete(t)
    <3>1. /\ handles' \subseteq handles
          /\ \A u \in CrThreads : /\ Records'[u].firstrun = Records[u].firstrun
                                  /\ Records[u].next # Null => Records'[u].next # Null
      BY <2>2, ListMoves DEF New, Delete
    <3> QED BY <1>1, <3>1, ListMoves DEF Linked, Types, MainTypes
  <2> QED BY <2>1, <2>2
<1>16. Boot' /\ Stopping'
  BY ListMoves DEF Boot, Booting, Stopping
<1>17. Window'
  BY ListMoves DEF Window, Booting, Young, dumpvars
<1> QED BY <1>8, <1>9, <1>10, <1>11, <1>12, <1>13, <1>14, <1>15, <1>16, <1>17

(* crthread_fork and the boot create the first pthread of a thread.        *)
LEMMA StartKeeps ==
  ASSUME IInv, NEW k \in Pthreads, NEW t \in CrThreads, t = OwnerOf(k),
         t \notin started, Ready(t), Records[t].next # Null,
         PthreadCreate(k), started' = started \cup {t}, handles' = handles \cup {t},
         UNCHANGED <<memvars, filevars, table, post, resvars, joined>>
  PROVE  Owners' /\ Untouched' /\ Queue' /\ InTable' /\ Positions' /\ Commit' /\ Ends'
         /\ Files' /\ Linked'
<1> USE CrThreadAssumption, PthreadFacts DEF IInv, memvars, filevars, resvars
<1>0. Records' = Records
  BY RecordsSame
<1>1. /\ pc'[k] = "insert" /\ \A l \in Pthreads : l # k => pc'[l] = pc[l]
      /\ ptid'[t] = k /\ \A u \in CrThreads : u # t => ptid'[u] = ptid[u]
  BY DEF PthreadCreate, NewId, Types, PthreadTypes
<1>2. \A l \in Pthreads : OwnerOf(l) = t => pc[l] = "none"
  BY DEF Owners
<1>3. table[t] = NoPthread /\ post[t] = 0 /\ t \notin joined
  BY DEF Untouched
<1>4. \A u \in CrThreads : Waiting(u) \/ rthr = u => u # t
  BY DEF Waiting, Queued, Queue
<1>5. \A u \in CrThreads : Queued(u)' = Queued(u) /\ Waiting(u)' = Waiting(u)
  BY DEF Waiting, Queued
<1>6. \A u \in CrThreads : /\ Ready(u)' = Ready(u) /\ InStep(u)' = InStep(u)
                           /\ AtRest(u)' = AtRest(u)
  BY <1>0 DEF Ready, InStep, AtRest, Young
<1>7. Owners'
  BY <1>1, <1>2 DEF Owners, Types, MainTypes
<1>8. Untouched'
  BY DEF Untouched
<1>9. Queue'
  <2>1. \A u \in started : ptid'[u] = ptid[u] /\ pc'[ptid'[u]] = pc[ptid[u]]
    BY <1>1 DEF Owners, Types, MainTypes
  <2>2. rpc = "join" => rthr \in started
    BY InHand
  <2>3. rpc \in {"remove", "commit"} => rthr # t
    BY InHand
  <2> QED BY <1>1, <2>1, <2>2, <2>3 DEF Queue
<1>10. InTable'
  <2>1. rpc \in {"join", "remove"} => rthr # t /\ rthr \in CrThreads
    BY InHand
  <2> QED BY <1>1, <1>3, <1>4, <1>5, <2>1 DEF InTable, Waiting
<1>11. Positions'
  BY <1>0, <1>1, <1>6 DEF Positions
<1>12. Commit'
  BY <1>5, <1>6 DEF Commit
<1>13. Ends'
  BY <1>1, <1>3, <1>5, <1>6 DEF Ends
<1>14. Files'
  BY <1>0 DEF Files
<1>15. Linked'
  BY <1>0 DEF Linked
<1> QED BY <1>7, <1>8, <1>9, <1>10, <1>11, <1>12, <1>13, <1>14, <1>15

LEMMA ForkKeeps ==
  ASSUME Discipline, IInv, NEW t \in CrThreads, Fork(t)
  PROVE  Owners' /\ Untouched' /\ Queue' /\ InTable' /\ Positions' /\ Commit' /\ Ends'
         /\ Files' /\ Linked' /\ Boot' /\ Stopping' /\ Window'
<1> DEFINE k == <<t, "stack">>
<1> USE PthreadFacts DEF IInv
<1>1. k \in Pthreads /\ OwnerOf(k) = t
  OBVIOUS
<1>2. t \notin started /\ t \in handles
  BY DEF Fork, Discipline
<1>3. Ready(t) /\ Records[t].next # Null
  BY <1>2 DEF Linked, Ready
<1>4. /\ PthreadCreate(k) /\ started' = started \cup {t} /\ handles' = handles \cup {t}
      /\ UNCHANGED <<memvars, filevars, table, post, resvars, joined, mainvars>> /\ mpc = "idle"
  BY DEF Fork, Idle
<1> HIDE DEF k
<1>5. Boot' /\ Stopping' /\ Window'
  BY <1>4 DEF Boot, Booting, Stopping, Window, mainvars, memvars, resvars, dumpvars, Young
<1> QED BY <1>1, <1>2, <1>3, <1>4, <1>5, StartKeeps

(* The boot restores a thread, which it has not restored yet.              *)
LEMMA BootRestoreKeeps ==
  ASSUME IInv, BootRestore
  PROVE  Owners' /\ Untouched' /\ Queue' /\ InTable' /\ Positions' /\ Commit' /\ Ends'
         /\ Files' /\ Linked' /\ Boot' /\ Stopping' /\ Window'
<1> DEFINE k == <<cursor, "recoverystack">>
<1> USE CrThreadAssumption, PthreadFacts DEF IInv
<1>1. /\ cursor \in CrThreads /\ mpc = "boot" /\ Records[cursor].next # Null
      /\ cursor \notin started
  BY BootFinds DEF BootRestore
<1>2. k \in Pthreads /\ OwnerOf(k) = cursor
  BY <1>1
<1>3. /\ PthreadCreate(k) /\ started' = started \cup {cursor}
      /\ handles' = handles \cup {cursor} /\ mpc' = "bootnext"
      /\ post' = [post EXCEPT ![cursor] = 0]
      /\ UNCHANGED <<memvars, filevars, table, resvars, joined, cursor, mtodo>>
  BY DEF BootRestore
<1> HIDE DEF k
<1>4. post' = post
  <2>1. post[cursor] = 0
    BY <1>1 DEF Untouched
  <2> QED BY <1>1, <1>3, <2>1 DEF Types, PthreadTypes
<1>5. PICK S \in SUBSET CrThreads : BootList(S)
  BY <1>1 DEF Boot, Booting
<1>6. cursor \in S /\ Ready(cursor)
  BY <1>1, <1>5 DEF BootList
<1>7. Owners' /\ Untouched' /\ Queue' /\ InTable' /\ Positions' /\ Commit' /\ Ends' /\ Files'
      /\ Linked'
  BY <1>1, <1>2, <1>3, <1>4, <1>6, StartKeeps
<1>8. Records' = Records
  BY <1>3, RecordsSame DEF memvars, resvars
<1>9. Boot'
  <2>1. Passed' = Passed
    BY <1>1, <1>3 DEF Passed
  <2>2. \A u \in CrThreads : Ready(u)' = Ready(u)
    BY <1>3, <1>8 DEF Ready, InStep, Young, memvars, filevars
  <2>3. BootList(S)'
    BY <1>1, <1>3, <1>5, <1>6, <1>8, <2>1, <2>2 DEF BootList
  <2> QED BY <2>3 DEF Boot
<1>10. Stopping' /\ Window'
  BY <1>1, <1>3 DEF Stopping, Window, Booting, memvars, resvars, dumpvars, Young
<1> QED BY <1>7, <1>9, <1>10

(* It goes on to one it has not restored: the one after a restored thread  *)
(* in the list has a restored thread before it.                            *)
LEMMA BootNextKeeps ==
  ASSUME IInv, BootNext, node[cursor].next # Null
  PROVE  Owners' /\ Untouched' /\ Queue' /\ InTable' /\ Positions' /\ Commit' /\ Ends'
         /\ Files' /\ Linked' /\ Boot' /\ Stopping' /\ Window'
<1> DEFINE n == Records[cursor].next
<1> USE DEF IInv
<1>1. mpc = "bootnext" /\ mpc' = "boot"
  BY DEF BootNext
<1>2. /\ cursor' = node[cursor].next
      /\ UNCHANGED <<memvars, filevars, pc, ptid, table, post, resvars, progvars>>
  BY DEF BootNext
<1>3. Records[cursor] = node[cursor] /\ cursor \in CrThreads
  BY <1>1, BootReads
<1>4. Records' = Records
  BY <1>2, RecordsSame DEF memvars, resvars
<1>5. PICK S \in SUBSET CrThreads : BootList(S)
  BY <1>1 DEF Boot, Booting
<1>6. cursor \in started /\ Passed = started \ {cursor} /\ Passed' = started
  BY <1>1, <1>2, <1>5 DEF BootList, Passed, progvars
<1>7. n \in S \cup {Meta} /\ Records[n].prev = cursor /\ cursor' = n
  BY <1>2, <1>3, <1>5, <1>6 DEF BootList
<1>8. n \notin started
  BY <1>3, <1>5, <1>6, <1>7, CrThreadAssumption DEF BootList
<1>9. \A t \in started \cup {n} : t # Meta => Records[t].prev \in started \cup {Meta}
  BY <1>5, <1>6, <1>7 DEF BootList
<1>10. \A u \in CrThreads : Ready(u)' = Ready(u)
  BY <1>2, <1>4 DEF Ready, InStep, Young, memvars, filevars
<1> HIDE DEF n
<1>11. BootList(S)'
  <2>1. started' = started
    BY <1>2 DEF progvars
  <2> QED BY <1>1, <1>4, <1>5, <1>6, <1>7, <1>8, <1>9, <1>10, <2>1 DEF BootList
<1>12. Boot' /\ Stopping'
  BY <1>1, <1>11 DEF Boot, Stopping
<1>13. Window'
  BY <1>1, <1>2 DEF Window, Booting, memvars, resvars, dumpvars, Young
<1> QED BY <1>2, <1>4, <1>12, <1>13, SameKeeps DEF memvars, resvars

(* An abort changes nothing.                                               *)
LEMMA AbortKeeps ==
  ASSUME IInv, Abort
  PROVE  Owners' /\ Untouched' /\ Queue' /\ InTable' /\ Positions' /\ Commit' /\ Ends'
         /\ Files' /\ Linked' /\ Boot' /\ Stopping' /\ Window'
<1>1. UNCHANGED <<node, ctx, stk, filevars, pc, ptid, table, post, resvars, rin, rpc, rthr, rtodo,
                  dumpvars, mpc, cursor, progvars, started, joined>>
  BY DEF Abort, memvars, resvars, mainvars, progvars
<1>2. Records' = Records
  BY <1>1, RecordsSame
<1>3. Window'
  BY <1>1 DEF IInv, Window, Booting, dumpvars, Young
<1> QED BY <1>1, <1>2, <1>3, SameKeeps, SameBoot

LEMMA JoinKeepsAll ==
  ASSUME IInv, NEW t \in CrThreads, Join(t)
  PROVE  Owners' /\ Untouched' /\ Queue' /\ InTable' /\ Positions' /\ Commit' /\ Ends'
         /\ Files' /\ Linked' /\ Boot' /\ Stopping' /\ Window'
<1>1. CASE Out(t, "context")
  BY <1>1, AbortKeeps DEF Join
<1>2. CASE ~Out(t, "context")
  <2>1. /\ mpc' = "join"
        /\ UNCHANGED <<memvars, filevars, pc, ptid, table, post, resvars, progvars>>
    BY <1>2 DEF Join
  <2>2. Records' = Records
    BY <2>1, RecordsSame DEF memvars, resvars
  <2>3. Boot' /\ Stopping' /\ Window'
    BY <2>1 DEF IInv, Boot, Booting, Stopping, Window, memvars, resvars, dumpvars, Young
  <2> QED BY <2>1, <2>2, <2>3, SameKeeps DEF memvars, resvars
<1> QED BY <1>1, <1>2

LEMMA JoinReturnsKeeps ==
  ASSUME IInv, NEW t \in CrThreads, t = cursor, JoinReturns
  PROVE  Owners' /\ Untouched' /\ Queue' /\ InTable' /\ Positions' /\ Commit' /\ Ends'
         /\ Files' /\ Linked' /\ Boot' /\ Stopping' /\ Window'
<1> USE CrThreadAssumption, PthreadFacts DEF IInv, memvars, filevars, resvars, mainvars
<1>1. /\ UNCHANGED <<memvars, filevars, pc, ptid, table, resvars, handles, started>>
      /\ post[t] > 0 /\ joined' = joined \cup {t} /\ mpc' = "idle"
  BY DEF JoinReturns
<1>1a. Records' = Records
  BY <1>1, RecordsSame DEF memvars, resvars
<1>2. post'[t] = post[t] - 1 /\ \A u \in CrThreads : u # t => post'[u] = post[u]
  BY DEF JoinReturns, Types, PthreadTypes
<1>3. \A u \in CrThreads : post[u] \in 0..1
  BY DEF Ends
<1>4. t \in started
  BY <1>1 DEF Untouched
<1>5. \A u \in CrThreads : Queued(u)' = Queued(u) /\ Waiting(u)' = Waiting(u)
  BY <1>1 DEF Waiting, Queued
<1>6. Owners' /\ Queue' /\ Linked'
  BY <1>1, <1>1a DEF Owners, Queue, Linked
<1>7. Untouched'
  BY <1>1, <1>2, <1>4 DEF Untouched
<1>8. InTable'
  BY <1>1, <1>5 DEF InTable
<1>9. \A u \in CrThreads : /\ Ready(u)' = Ready(u) /\ InStep(u)' = InStep(u)
                           /\ AtRest(u)' = AtRest(u)
  BY <1>1, <1>1a DEF Ready, InStep, AtRest, Young
<1>10. Positions'
  BY <1>1, <1>1a, <1>9 DEF Positions
<1>11. Commit'
  BY <1>1, <1>5, <1>9 DEF Commit
<1>12. Ends'
  <2>1. \A u \in CrThreads : Waiting(u) => u # t
    BY <1>1 DEF Ends
  <2>2. \A l \in Pthreads : pc[l] \notin {"none", "exit", "dead"} => OwnerOf(l) # t
    BY <1>1 DEF Ends
  <2>3. \A u \in CrThreads : post'[u] > 0 \/ u \in joined' => post[u] > 0 \/ u \in joined
    BY <1>1, <1>2
  <2> QED BY <1>1, <1>2, <1>3, <1>5, <1>9, <2>1, <2>2, <2>3 DEF Ends
<1>13. Files'
  BY <1>1, <1>1a DEF Files
<1>14. Boot' /\ Stopping' /\ Window'
  BY <1>1 DEF Boot, Booting, Stopping, Window, dumpvars, Young
<1> QED BY <1>6, <1>7, <1>8, <1>10, <1>11, <1>12, <1>13, <1>14

(* A boot after a crash that left the file whole.                          *)
LEMMA RestartKeeps ==
  ASSUME Discipline, IInv, Restart
  PROVE  Owners' /\ Untouched' /\ Queue' /\ InTable' /\ Positions' /\ Commit' /\ Ends'
         /\ Files' /\ Linked' /\ Boot' /\ Stopping' /\ Window'
<1> USE CrThreadAssumption, PthreadFacts DEF IInv, filevars
<1>1. /\ \A k \in Pthreads : pc'[k] = "none"
      /\ \A t \in CrThreads : table'[t] = NoPthread /\ post'[t] = 0
      /\ rin' = <<>> /\ rpc' = "pop" /\ rthr' = NoThread
      /\ handles' = {} /\ started' = {} /\ joined' = {}
      /\ node' = dnode /\ ctx' = dctx /\ stk' = dstk
      /\ mpc' = "boot" /\ cursor' = dnode[Meta].next
      /\ UNCHANGED filevars /\ rpage' = "none"
  BY DEF Restart
<1>1a. Records' = dnode
  BY <1>1 DEF Records
<1>2. \A u \in CrThreads : ~Queued(u)' /\ ~Waiting(u)'
  BY <1>1 DEF Waiting, Queued
<1>3. /\ \A t \in CrThreads : dctx[t] = NoCtx \/ dctx[t] = dstk[t]
      /\ \E S \in SUBSET CrThreads :
           ListIn(S) /\ \A t \in S : dnode[t].firstrun \/ dctx[t] # NoCtx
  BY DEF Restart, Discipline, FileWhole
<1>4. Owners' /\ Untouched' /\ Queue' /\ InTable' /\ Positions' /\ Commit' /\ Linked' /\ Stopping'
  BY <1>1, <1>2 DEF Owners, Untouched, Queue, InTable, Positions, Commit, Linked, Stopping
<1>4a. Window'
  BY <1>1 DEF Window
<1>5. Ends'
  BY <1>1, <1>2 DEF Ends
<1>6. Files'
  <2>1. \A t \in CrThreads : /\ dstk[t] \in Nat /\ stk[t] \in Nat
                             /\ Young(dnode[t]) \/ dctx[t] = NoCtx => dstk[t] = 0
    BY DEF Files, Types, HeapTypes
  <2> QED BY <1>1, <1>1a, <1>3, <2>1 DEF Files
<1>7. Boot'
  <2>1. PICK S \in SUBSET CrThreads :
               ListIn(S) /\ \A t \in S : dnode[t].firstrun \/ dctx[t] # NoCtx
    BY <1>3
  <2>2. \A t \in S : Ready(t)'
    <3>1. \A t \in S : dnode[t].next # Null
      BY <2>1 DEF ListIn
    <3> QED BY <1>1, <1>1a, <1>3, <2>1, <3>1 DEF Ready, InStep, Young
  <2>3. BootList(S)'
    <3>1. /\ cursor' \in S \cup {Meta} /\ Passed' = {}
          /\ \A x \in S \cup {Meta} : /\ dnode[x].next \in S \cup {Meta}
                                    /\ dnode[dnode[x].next].prev = x
                                    /\ dnode[x].prev \in S \cup {Meta}
          /\ dnode[dnode[Meta].next].prev = Meta
      BY <1>1, <2>1 DEF ListIn, Passed
    <3> QED BY <1>1, <1>1a, <2>2, <3>1 DEF BootList
  <2> QED BY <2>3 DEF Boot
<1> QED BY <1>4, <1>4a, <1>5, <1>6, <1>7

-----------------------------------------------------------------------------
(***************************************************************************)
(* The invariant                                                           *)
(***************************************************************************)
LEMMA IInvInit == ASSUME Init PROVE IInv
<1> USE CrThreadAssumption, PthreadFacts DEF Init
<1>1. Types
  BY TypesInit
<1>2. \A u \in CrThreads : ~Queued(u) /\ ~Waiting(u)
  BY DEF Waiting, Queued
<1>3. Owners /\ Untouched /\ Queue /\ InTable /\ Positions /\ Linked /\ Boot /\ Stopping
  BY <1>2 DEF Owners, Untouched, Queue, InTable, Positions, Linked, Boot, Booting, Stopping
<1>3a. Window /\ AbortsOnlyWhileOut
  BY DEF Window, AbortsOnlyWhileOut
<1>4. Commit /\ Ends
  BY <1>2 DEF Commit, Ends
<1>5. Files
  BY DEF Files
<1> QED BY <1>1, <1>3, <1>3a, <1>4, <1>5 DEF IInv

LEMMA IInvStep ==
  ASSUME Discipline, IInv, [Next]_vars
  PROVE  IInv'
<1>1. Types' /\ AbortsOnlyWhileOut'
  BY TypesStep, AbortStep DEF IInv
<1> DEFINE Kept == Owners' /\ Untouched' /\ Queue' /\ InTable' /\ Positions' /\ Commit' /\ Ends'
                   /\ Files' /\ Linked' /\ Boot' /\ Stopping' /\ Window'
<1> SUFFICES Kept
  BY <1>1 DEF IInv
<1>2. CASE \E k \in Pthreads : StepOf(k)
  BY <1>2, PthreadKeeps
<1>3. CASE ResStep
  BY <1>3, ResKeeps
<1>4. CASE MainStep
  <2>1. CASE Call
    BY <2>1, CallKeeps
  <2>2. CASE BootRestore
    BY <2>2, BootRestoreKeeps
  <2>3. CASE BootNext
    <3>1. CASE node[cursor].next = Null
      BY <2>3, <3>1, AbortKeeps DEF BootNext
    <3> QED BY <2>3, <3>1, BootNextKeeps
  <2>4. CASE JoinReturns
    <3>1. cursor \in CrThreads
      BY <2>4 DEF JoinReturns, IInv, Types, MainTypes
    <3> QED BY <2>4, <3>1, JoinReturnsKeeps
  <2>5. ASSUME NEW t \in CrThreads, New(t) \/ Fork(t) \/ Join(t) \/ Delete(t) PROVE Kept
    BY <2>5, ListKeeps, ForkKeeps, JoinKeepsAll
  <2> QED BY <1>4, <2>1, <2>2, <2>3, <2>4, <2>5 DEF MainStep, Call
<1>5. CASE Restart
  BY <1>5, RestartKeeps
<1>6. CASE UNCHANGED vars
  <2>1. UNCHANGED <<node, ctx, stk, filevars, pc, ptid, table, post, rin, rpc, rthr, rtodo,
                    dumpvars, mpc, cursor, progvars, started, joined>>
    BY <1>6 DEF vars, memvars, resvars, mainvars, progvars
  <2>2. Records' = Records
    BY <2>1, RecordsSame
  <2>3. Window'
    BY <2>1 DEF IInv, Window, Booting, dumpvars, Young
  <2> QED BY <2>1, <2>2, <2>3, SameKeeps, SameBoot
<1> QED BY <1>2, <1>3, <1>4, <1>5, <1>6, NextSteps

(* If main forks a thread once, and no crash falls while the file is not   *)
(* whole, the inductive invariant holds.                                   *)
THEOREM InvariantHolds == Discipline => (Spec => []IInv)
<1> SUFFICES ASSUME Discipline PROVE Spec => []IInv
  OBVIOUS
<1>1. Init => IInv
  BY IInvInit
<1>2. IInv /\ [Next]_vars => IInv'
  BY IInvStep
<1> QED BY <1>1, <1>2, PTL DEF Spec

(* Every variable keeps its type; userjoin counts to one.                  *)
THEOREM TypeCorrect == Discipline => (Spec => []TypeOK)
<1> SUFFICES ASSUME Discipline PROVE Spec => []TypeOK
  OBVIOUS
<1>1. IInv => TypeOK
  <2> SUFFICES ASSUME IInv PROVE TypeOK
    OBVIOUS
  <2>1. post \in [CrThreads -> 0..1]
    BY DEF IInv, Types, PthreadTypes, Ends
  <2> QED BY <2>1 DEF IInv, Types, HeapTypes, PthreadTypes, ResTypes, MainTypes, TypeOK
<1> QED BY <1>1, InvariantHolds, PTL

(* The stack and the recovery stack of a thread are never in use at once:  *)
(* the resurrector, and the boot, create a pthread for a thread only when  *)
(* no other runs.                                                          *)
THEOREM OnePthread == Discipline => (Spec => []OneIncarnation)
<1> SUFFICES ASSUME Discipline PROVE Spec => []OneIncarnation
  OBVIOUS
<1>1. IInv => OneIncarnation
  BY OnlyOne DEF IInv, OneIncarnation, Live
<1> QED BY <1>1, InvariantHolds, PTL

(* The lookups in vtsthreadtable find the thread they are for, wherever    *)
(* the ids of its two stacks hash to.                                      *)
THEOREM LookupsFind == Discipline => (Spec => []AssertsHold)
<1> SUFFICES ASSUME Discipline PROVE Spec => []AssertsHold
  OBVIOUS
<1>1. IInv => AssertsHold
  <2> SUFFICES ASSUME IInv PROVE AssertsHold
    OBVIOUS
  <2> USE PthreadFacts DEF IInv
  <2>1. ASSUME NEW k \in Pthreads, pc[k] = "save" PROVE Find(k) = {OwnerOf(k)}
    <3>1. OwnerOf(k) \in started /\ ptid[OwnerOf(k)] = k /\ table[OwnerOf(k)] = k
      BY <2>1 DEF Owners, InTable
    <3> QED BY <3>1, FindOne
  <2>2. ASSUME rpc = "remove" PROVE Find(ptid[rthr]) = {rthr}
    <3>1. rthr \in started /\ table[rthr] = ptid[rthr]
      BY <2>2, InHand DEF InTable
    <3> QED BY <3>1, FindOne
  <2>3. \A k \in Pthreads : pc[k] = "insert" => table[OwnerOf(k)] = NoPthread
    BY DEF InTable
  <2> QED BY <2>1, <2>2, <2>3 DEF AssertsHold
<1> QED BY <1>1, InvariantHolds, PTL

(* The resurrector commits a stack that nobody runs on, and with it the    *)
(* context that was saved on it.                                           *)
THEOREM CommitsResting == Discipline => (Spec => []CommitsAtRest)
<1> SUFFICES ASSUME Discipline PROVE Spec => []CommitsAtRest
  OBVIOUS
<1>1. IInv => CommitsAtRest
  <2> SUFFICES ASSUME IInv, rpc = "commit" PROVE CommitsAtRest
    BY DEF CommitsAtRest
  <2>1. ctx[rthr] = stk[rthr]
    BY InHand DEF IInv, AtRest
  <2>2. \A k \in Pthreads : OwnerOf(k) = rthr => ~Live(k)
    BY DEF IInv, Queue, Live
  <2> QED BY <2>1, <2>2 DEF CommitsAtRest
<1> QED BY <1>1, InvariantHolds, PTL

(* No assertion of the framework fails, no list element is found unlinked  *)
(* and no context is loaded that was never saved, at any step of a boot or *)
(* of a call, unless main reads a record while the checkpoint worker has   *)
(* its page out of memory: in one of two places, list.c:79 and             *)
(* crthread.c:239.                                                         *)
THEOREM AbortsExplained == Discipline => (Spec => []AbortsOnlyWhileOut)
<1> SUFFICES ASSUME Discipline PROVE Spec => []AbortsOnlyWhileOut
  OBVIOUS
<1>1. IInv => AbortsOnlyWhileOut
  BY DEF IInv
<1> QED BY <1>1, InvariantHolds, PTL

(* When crthread_join returns, the end of the task is in the file.         *)
THEOREM JoinsDurable == Discipline => (Spec => []JoinedDurable)
<1> SUFFICES ASSUME Discipline PROVE Spec => []JoinedDurable
  OBVIOUS
<1>1. IInv => JoinedDurable
  BY DEF IInv, Ends, InStep, Young, JoinedDurable
<1> QED BY <1>1, InvariantHolds, PTL

-----------------------------------------------------------------------------
(***************************************************************************)
(* The implementation of PersistentThreads                                 *)
(***************************************************************************)

(* Only the resurrector changes what the file holds of the threads.        *)
LEMMA FileSteps ==
  ASSUME IInv, [Next]_vars, ~\E part \in Regions : ResDump(part)
  PROVE  dctx' = dctx /\ dstk' = dstk
<1>1. ASSUME NEW k \in Pthreads, StepOf(k) PROVE dctx' = dctx /\ dstk' = dstk
  BY <1>1, PthreadMoves DEF filevars
<1>2. CASE ResStep
  BY <1>2, RemoveFinds DEF ResStep, ResPop, ResJoin, ResRemove, ResCopy, ResBack, ResRestore, filevars
<1>3. CASE MainStep
  <2>1. CASE Call
    BY <2>1, CallMoves
  <2>2. CASE BootRestore \/ BootNext \/ JoinReturns
    BY <2>2 DEF BootRestore, BootNext, JoinReturns, Abort, filevars
  <2>3. CASE \E t \in CrThreads : New(t) \/ Fork(t) \/ Join(t) \/ Delete(t)
    BY <2>3 DEF New, Fork, Join, Delete, Abort, filevars
  <2> QED BY <1>3, <2>1, <2>2, <2>3 DEF MainStep, Call
<1>4. CASE Restart
  BY <1>4 DEF Restart, filevars
<1>5. CASE UNCHANGED vars
  BY <1>5 DEF vars, filevars
<1> QED BY <1>1, <1>2, <1>3, <1>4, <1>5, NextSteps

(* The progress in the file never goes back, over crashes too.             *)
THEOREM ProgressIsKept == Discipline => (Spec => ProgressKept)
<1> DEFINE Forward == \A t \in CrThreads : dctx[t] # NoCtx => dctx'[t] # NoCtx /\ dctx'[t] >= dctx[t]
<1> SUFFICES ASSUME Discipline PROVE Spec => ProgressKept
  OBVIOUS
<1>1. IInv /\ [Next]_vars => Forward
  <2> SUFFICES ASSUME IInv, [Next]_vars, NEW t \in CrThreads, dctx[t] # NoCtx
               PROVE  dctx'[t] # NoCtx /\ dctx'[t] >= dctx[t]
    OBVIOUS
  <2>1. dctx[t] \in Nat /\ stk[t] \in Nat /\ stk[t] # NoCtx /\ dctx[t] <= stk[t]
    BY CrThreadAssumption DEF IInv, Types, HeapTypes, Files
  <2>2. ASSUME NEW part \in Regions, ResDump(part) PROVE dctx'[t] \in {dctx[t], stk[t]}
    <3>1. ctx[rthr] = stk[rthr]
      BY <2>2, InHand, DumpMoves DEF IInv, AtRest
    <3> QED BY <2>2, <3>1, DumpMoves
  <2>3. CASE ~\E part \in Regions : ResDump(part)
    BY <2>1, <2>3, FileSteps
  <2> QED BY <2>1, <2>2, <2>3
<1>2. IInv /\ [Next]_vars => [Forward]_vars
  BY <1>1
<1> QED BY <1>2, InvariantHolds, PTL DEF Spec, ProgressKept

Active == {t \in started : post[t] = 0 /\ t \notin joined}
Saved == [t \in CrThreads |-> InFile(t)]

(* A step of a pthread is a step of its task, its end, or invisible.       *)
LEMMA PthreadImplements ==
  ASSUME IInv, NEW k \in Pthreads, StepOf(k)
  PROVE  [PT!Next]_(PT!ptvars)
<1> DEFINE t == OwnerOf(k)
<1> USE PthreadFacts DEF IInv, progvars, filevars
<1>1. /\ t \in CrThreads /\ t \in started
      /\ \A u \in CrThreads : u # t => stk'[u] = stk[u] /\ post'[u] = post[u]
      /\ UNCHANGED <<dctx, dstk, started, joined>>
  BY PthreadMoves
<1>2. Saved' = Saved
  BY <1>1 DEF Saved, InFile
<1>3. stk \in [CrThreads -> 0..Steps] /\ stk' \in [CrThreads -> 0..Steps]
      /\ started \subseteq CrThreads
  <2>1. [Next]_vars
    BY DEF StepOf, Next, PthreadStep, Stub, Checkpoint
  <2> QED BY <2>1, TypesStep DEF Types, HeapTypes, MainTypes
<1>4. CASE stk'[t] = stk[t] /\ post'[t] = post[t]
  <2>1. stk' = stk
    BY <1>1, <1>3, <1>4
  <2>2. Active' = Active
    BY <1>1, <1>3, <1>4 DEF Active
  <2> QED BY <1>2, <2>1, <2>2 DEF PT!ptvars, Active, Saved
<1>5. CASE pc[k] = "run" /\ stk'[t] = stk[t] + 1 /\ post'[t] = post[t]
  <2>1. t \in Active
    BY <1>1, <1>5 DEF Ends, Active
  <2>2. stk' = [stk EXCEPT ![t] = @ + 1] /\ stk[t] < Steps
    BY <1>1, <1>3, <1>5, CrThreadAssumption
  <2>3. Active' = Active
    BY <1>1, <1>3, <1>5 DEF Active
  <2> QED BY <1>1, <1>2, <2>1, <2>2, <2>3 DEF PT!Next, PT!Work, Active, Saved
<1>6. CASE pc[k] = "post" /\ stk'[t] = stk[t] /\ post'[t] = post[t] + 1
  <2>1. t \in Active /\ post[t] = 0
    BY <1>1, <1>6 DEF Ends, Active
  <2>2. Saved[t] = Steps
    BY <1>1, <1>6, CrThreadAssumption DEF Positions, InStep, Saved, InFile, Types, HeapTypes
  <2>3. stk' = stk
    BY <1>1, <1>3, <1>6
  <2>4. Active' = Active \ {t}
    BY <1>1, <1>3, <1>6, <2>1 DEF Active
  <2> QED BY <1>1, <1>2, <2>1, <2>2, <2>3, <2>4 DEF PT!Next, PT!Finish, Active, Saved
<1> QED BY <1>1, <1>4, <1>5, <1>6, OwnStep

(* A page written for a thread saves its progress, or nothing yet.         *)
LEMMA DumpImplements ==
  ASSUME IInv, NEW part \in Regions, ResDump(part)
  PROVE  [PT!Next]_(PT!ptvars)
<1> USE DEF IInv
<1>1. PICK t \in CrThreads : t = rthr
  BY DumpMoves
<1>2. /\ t \in started /\ UNCHANGED <<stk, post, progvars>>
      /\ \A u \in CrThreads : u # t => dctx'[u] = dctx[u] /\ dstk'[u] = dstk[u]
  BY <1>1, DumpMoves
<1>3. t \in Active /\ ctx[t] = stk[t]
  BY <1>1, InHand, DumpMoves DEF Active, AtRest
<1>4. stk' = stk /\ Active' = Active
  BY <1>2 DEF progvars, Active
<1>5. \A u \in CrThreads : u # t => InFile(u)' = InFile(u)
  BY <1>2 DEF InFile
<1>6. InFile(t)' \in {InFile(t), stk[t]}
  <2>1. /\ stk[t] \in Nat /\ dstk[t] \in Nat /\ dstk[t] <= stk[t] /\ stk[t] # NoCtx
        /\ dctx[t] = NoCtx => dstk[t] = 0 /\ stk[t] = 0
        /\ dctx[t] # NoCtx => dctx[t] \in Nat /\ dctx[t] <= stk[t]
    BY <1>1, CrThreadAssumption DEF Types, HeapTypes, Files
  <2>2. dctx[t] = NoCtx \/ dctx[t] = dstk[t] \/ dctx[t] = stk[t] \/ dstk[t] = stk[t]
    BY DEF Files
  <2>3. CASE dctx'[t] = dctx[t] /\ dstk'[t] = dstk[t]
    BY <2>3 DEF InFile
  <2>4. CASE dctx'[t] = stk[t] /\ dstk'[t] = dstk[t]
    BY <2>1, <2>2, <2>4 DEF InFile
  <2>5. CASE dctx'[t] = dctx[t] /\ dstk'[t] = stk[t]
    BY <2>1, <2>2, <2>5 DEF InFile
  <2> QED BY <1>1, <1>3, <2>3, <2>4, <2>5, DumpMoves
<1>7. CASE InFile(t)' = InFile(t)
  <2>1. Saved' = Saved
    BY <1>5, <1>7 DEF Saved
  <2> QED BY <1>4, <2>1 DEF PT!ptvars, Active, Saved
<1>8. CASE InFile(t)' = stk[t]
  <2>1. Saved' = [Saved EXCEPT ![t] = stk[t]]
    BY <1>5, <1>8 DEF Saved
  <2> QED BY <1>3, <1>4, <2>1 DEF PT!Next, PT!Save, Active, Saved
<1> QED BY <1>6, <1>7, <1>8

(* Fork and the boot start a task; the other calls are invisible.          *)
LEMMA StartImplements ==
  ASSUME IInv, NEW t \in CrThreads, t \notin started, started' = started \cup {t},
         UNCHANGED <<memvars, filevars, post, joined>>
  PROVE  PT!Next
<1>1. post[t] = 0 /\ t \notin joined
  BY DEF IInv, Untouched
<1>2. t \notin Active /\ Active' = Active \cup {t} /\ stk' = stk /\ Saved' = Saved
  BY <1>1 DEF Active, Saved, InFile, memvars, filevars
<1> QED BY <1>2 DEF PT!Next, PT!Start, Active, Saved

LEMMA InvisibleStep ==
  ASSUME UNCHANGED <<stk, dctx, dstk>>, Active' = Active
  PROVE  [PT!Next]_(PT!ptvars)
<1>1. Saved' = Saved
  BY DEF Saved, InFile
<1> QED BY <1>1 DEF PT!ptvars, Active, Saved

LEMMA MainImplements ==
  ASSUME Discipline, IInv, MainStep
  PROVE  [PT!Next]_(PT!ptvars)
<1> USE DEF IInv, memvars, filevars, progvars
<1>1. CASE Call
  <2>1. UNCHANGED <<stk, dctx, dstk, post, started, joined>>
    BY <1>1, CallMoves
  <2> QED BY <2>1, InvisibleStep DEF Active
<1>2. CASE BootRestore
  <2>1. /\ cursor \in CrThreads /\ cursor \notin started /\ started' = started \cup {cursor}
        /\ post' = [post EXCEPT ![cursor] = 0]
        /\ UNCHANGED <<memvars, filevars, joined>>
    BY <1>2, BootFinds DEF BootRestore
  <2>2. post' = post
    BY <2>1 DEF Untouched, Types, PthreadTypes
  <2> QED BY <2>1, <2>2, StartImplements
<1>3. ASSUME NEW t \in CrThreads, New(t) \/ Delete(t) PROVE [PT!Next]_(PT!ptvars)
  <2>1. UNCHANGED <<stk, dctx, dstk, post, started, joined>>
    BY <1>3, ListMoves
  <2> QED BY <2>1, InvisibleStep DEF Active
<1>4. ASSUME NEW t \in CrThreads, Fork(t) PROVE [PT!Next]_(PT!ptvars)
  BY <1>4, StartImplements DEF Fork, Discipline
<1>5. CASE JoinReturns
  <2>1. /\ post[cursor] > 0 /\ joined' = joined \cup {cursor} /\ cursor \in CrThreads
        /\ UNCHANGED <<stk, dctx, dstk, started>>
        /\ \A u \in CrThreads : u # cursor => post'[u] = post[u]
    BY <1>5 DEF JoinReturns, Types, MainTypes, PthreadTypes
  <2>2. Active' = Active
    BY <2>1 DEF Active, Types, MainTypes, PthreadTypes
  <2> QED BY <2>1, <2>2, InvisibleStep
<1>6. CASE BootNext \/ (\E t \in CrThreads : Join(t))
  <2>1. UNCHANGED <<stk, dctx, dstk, post, started, joined>>
    BY <1>6 DEF BootNext, Join, Abort
  <2> QED BY <2>1, InvisibleStep DEF Active
<1> QED BY <1>1, <1>2, <1>3, <1>4, <1>5, <1>6 DEF MainStep, Call

LEMMA RestartImplements ==
  ASSUME Discipline, IInv, Restart
  PROVE  PT!Next
<1>1. started' = {} /\ stk' = dstk /\ UNCHANGED <<dctx, dstk>>
  BY DEF Restart, filevars
<1>2. \A t \in CrThreads : dstk[t] = InFile(t)
  <2>1. \A t \in CrThreads : dctx[t] = NoCtx \/ dctx[t] = dstk[t]
    BY DEF Restart, Discipline, FileWhole
  <2>2. \A t \in CrThreads : dstk[t] \in Nat /\ stk[t] \in Nat /\ (dctx[t] = NoCtx => dstk[t] = 0)
    BY DEF IInv, Files, Types, HeapTypes
  <2> QED BY <2>1, <2>2 DEF InFile
<1>3. stk' = Saved
  BY <1>1, <1>2 DEF Saved, IInv, Types, HeapTypes
<1>4. Saved' = Saved /\ Active' = {}
  BY <1>1 DEF Saved, InFile, Active
<1> QED BY <1>3, <1>4 DEF PT!Next, PT!Crash, Active, Saved

LEMMA ImplementationStep ==
  ASSUME Discipline, IInv, [Next]_vars
  PROVE  [PT!Next]_(PT!ptvars)
<1>1. CASE ResStep /\ ~\E part \in Regions : ResDump(part)
  <2>1. UNCHANGED <<stk, filevars, post, progvars>>
    BY <1>1, RemoveFinds DEF ResStep, ResPop, ResJoin, ResRemove, ResCopy, ResBack, ResRestore,
                             memvars
  <2> QED BY <2>1, InvisibleStep DEF Active, filevars, progvars
<1>2. CASE UNCHANGED vars
  BY <1>2, InvisibleStep DEF vars, Active, memvars, filevars, progvars
<1> QED BY <1>1, <1>2, PthreadImplements, DumpImplements, MainImplements,
           RestartImplements, NextSteps

(* The threads are tasks that survive crashes: progress that was saved is  *)
(* what a boot starts from, a task is reported finished only when its end  *)
(* is saved, and nothing is saved that the task did not reach.             *)
THEOREM Implementation == Discipline => (Spec => ImplementsPersistentThreads)
<1> SUFFICES ASSUME Discipline PROVE Spec => ImplementsPersistentThreads
  OBVIOUS
<1>1. Init => PT!Init
  BY DEF Init, PT!Init, InFile
<1>2. IInv /\ [Next]_vars => [PT!Next]_(PT!ptvars)
  BY ImplementationStep
<1> QED BY <1>1, <1>2, InvariantHolds, PTL DEF Spec, ImplementsPersistentThreads, PT!Spec
=============================================================================
