---------------------------- MODULE CrThreadInv -----------------------------
(***************************************************************************)
(* The inductive invariant of CrThread, for programs that fork a thread    *)
(* once and crashes that do not fall while the file is not whole.          *)
(***************************************************************************)
EXTENDS CrThread

Discipline == ForkOnce /\ ~Anywhere

(* A thread that is queued at the resurrector, or in its hands.            *)
Queued(t) == \E i \in 1..Len(rin) : rin[i] = t
Waiting(t) == rthr = t \/ Queued(t)

(* A list element that was never written, or of a thread that has not run. *)
Young(l) == l.firstrun \/ l.next = Null

(* The heads of the records as they are, or as the one that is out will be *)
(* when the worker has put it back.                                        *)
Records == IF rpage = "head" /\ "head" \notin rtodo THEN [node EXCEPT ![rthr] = rcpy] ELSE node

(***************************************************************************)
(* Types; the bound of the semaphores needs the rest of the invariant.     *)
(***************************************************************************)
HeapTypes ==
  /\ node \in [Nodes -> Link] /\ dnode \in [Nodes -> Link]
  /\ ctx \in [CrThreads -> 0..Steps \cup {NoCtx}]
  /\ dctx \in [CrThreads -> 0..Steps \cup {NoCtx}]
  /\ stk \in [CrThreads -> 0..Steps] /\ dstk \in [CrThreads -> 0..Steps]
  /\ exec \in ExecStates /\ dexec \in ExecStates

PthreadTypes ==
  /\ pc \in [Pthreads -> PcStates]
  /\ ptid \in [CrThreads -> Pthreads \cup {NoPthread}]
  /\ table \in [CrThreads -> Pthreads \cup {NoPthread}]
  /\ post \in [CrThreads -> Nat]

ResTypes ==
  /\ rin \in Seq(CrThreads \cup {StopMsg})
  /\ rpc \in {"pop", "join", "remove", "commit", "exit"}
  /\ rthr \in CrThreads \cup {NoThread}
  /\ rtodo \subseteq Regions
  /\ rthr = NoThread <=> rpc \in {"pop", "exit"}
  /\ rpage \in {"none", "head", "context"} /\ rcpy \in Link
  /\ rpage # "none" => rpc = "commit"

MainTypes ==
  /\ mpc \in MpcStates /\ cursor \in Nodes \cup {Null}
  /\ mpc \in {"join", "bootnext"} => cursor \in CrThreads
  /\ mtodo \subseteq Nodes \X Regions
  /\ handles \subseteq CrThreads /\ started \subseteq CrThreads
  /\ joined \subseteq CrThreads
  /\ up \in BOOLEAN

Types == HeapTypes /\ PthreadTypes /\ ResTypes /\ MainTypes

(* The one pthread of a thread is the one its record names.                *)
Owners ==
  /\ \A k \in Pthreads : pc[k] # "none" => ptid[OwnerOf(k)] = k /\ OwnerOf(k) \in started
  /\ \A t \in started : ptid[t] \in Pthreads /\ OwnerOf(ptid[t]) = t

(* A thread that was not started in this process is as the file has it.    *)
Untouched ==
  \A t \in CrThreads \ started :
    /\ table[t] = NoPthread /\ post[t] = 0 /\ t \notin joined
    /\ ctx[t] = dctx[t] /\ stk[t] = dstk[t]

(* A thread reaches the resurrector once, on its way out; when it has been *)
(* joined nothing of it runs.                                              *)
Queue ==
  /\ \A i \in 1..Len(rin) : rin[i] \in CrThreads =>
       /\ rin[i] \in started /\ pc[ptid[rin[i]]] \in {"cpexit", "dead"}
       /\ rin[i] # rthr
       /\ \A j \in 1..Len(rin) : rin[j] = rin[i] => j = i
  /\ rthr \in CrThreads => rthr \in started
  /\ rpc = "join" => pc[ptid[rthr]] \in {"cpexit", "dead"}
  /\ rpc \in {"remove", "commit"} => \A k \in Pthreads : OwnerOf(k) = rthr => pc[k] = "none"

InTable ==
  /\ \A k \in Pthreads :
       /\ pc[k] \in {"setup", "run", "save", "submit", "cpexit", "leave"} =>
            table[OwnerOf(k)] = k
       /\ pc[k] = "insert" => table[OwnerOf(k)] = NoPthread
  /\ \A t \in CrThreads : Queued(t) => table[t] = ptid[t]
  /\ rpc \in {"join", "remove"} => table[rthr] = ptid[rthr]
  /\ rpc = "commit" => table[rthr] = NoPthread

(* A thread that can be restored: it has not run, or memory and file hold  *)
(* a context and the stack that belongs to it.                             *)
InStep(t) == /\ ctx[t] = stk[t] /\ dctx[t] = stk[t] /\ dstk[t] = stk[t]
             /\ ~Young(Records[t]) /\ ~Young(dnode[t])
Ready(t) == Records[t].firstrun \/ InStep(t)
AtRest(t) == ctx[t] = stk[t] /\ ~Young(Records[t])

Positions ==
  \A k \in Pthreads :
    LET t == OwnerOf(k) IN
    /\ pc[k] \in {"insert", "setup"} => Ready(t)
    /\ pc[k] = "run" => dctx[t] # NoCtx /\ ~Young(Records[t]) /\ ~Young(dnode[t])
    /\ pc[k] = "save" => ~Young(Records[t])
    /\ pc[k] \in {"submit", "cpexit"} => AtRest(t)
    /\ pc[k] \in {"leave", "post", "exit"} => InStep(t) /\ stk[t] = Steps

Commit ==
  /\ \A t \in CrThreads : Waiting(t) => AtRest(t)
  /\ rpc = "commit" => /\ "context" \notin rtodo => dctx[rthr] = ctx[rthr]
                       /\ "stack" \notin rtodo => dstk[rthr] = stk[rthr]
                       /\ "head" \notin rtodo => ~Young(dnode[rthr])

(* The copy is of a record that runs.  During a boot nobody stores in the  *)
(* records: the copy is as the page was, and the dropped page is empty.    *)
Booting == mpc \in {"boot", "bootnext"}

Window ==
  rpage = "head" =>
    /\ ~Young(rcpy)
    /\ Booting /\ "head" \in rtodo => rcpy = node[rthr]
    /\ Booting /\ "head" \notin rtodo => node[rthr] = Blank

(* Posted, and joined, after the end and only once.                        *)
Ends ==
  /\ \A k \in Pthreads : pc[k] \notin {"none", "exit", "dead"} =>
       post[OwnerOf(k)] = 0 /\ OwnerOf(k) \notin joined
  /\ \A t \in CrThreads : Waiting(t) => post[t] = 0 /\ t \notin joined
  /\ \A t \in CrThreads : post[t] > 0 \/ t \in joined => InStep(t) /\ stk[t] = Steps
  /\ \A t \in CrThreads : post[t] \in 0..1

(* The file is never ahead of memory, and behind it by whole commits.      *)
Files ==
  \A t \in CrThreads :
    /\ Young(Records[t]) \/ Young(dnode[t]) \/ dctx[t] = NoCtx => stk[t] = 0
    /\ dstk[t] <= stk[t]
    /\ dctx[t] # NoCtx => dctx[t] <= stk[t]
    /\ dctx[t] = NoCtx \/ dctx[t] = dstk[t]
       \/ (rpc = "commit" /\ rthr = t /\ (dctx[t] = stk[t] \/ dstk[t] = stk[t]))

(* What main can name was linked into the list, and runs from its start if *)
(* it was not forked yet; main can name what runs.                         *)
Linked ==
  /\ \A t \in handles \cup started : Records[t].next # Null
  /\ \A t \in handles \ started : Records[t].firstrun
  /\ started \subseteq handles \cup joined

(* A boot walks a whole list in memory and meets no thread twice.  Passed  *)
(* are the threads before the one the boot is at.                          *)
Passed == IF mpc = "bootnext" THEN started \ {cursor} ELSE started

BootList(S) ==
  /\ cursor \in S \cup {Meta} /\ started \subseteq S
  /\ \A x \in S \cup {Meta} :
       /\ Records[x].next \in S \cup {Meta} /\ Records[Records[x].next].prev = x
       /\ Records[x].prev \in S \cup {Meta}
  /\ \A t \in S \ started : Ready(t)
  /\ cursor \in started <=> mpc = "bootnext"
  /\ \A t \in Passed \cup {cursor} : t # Meta => Records[t].prev \in Passed \cup {Meta}

Boot == Booting => \E S \in SUBSET CrThreads : BootList(S)

Stopping == mpc \in {"save", "nosave", "everything", "down"} => started \subseteq joined

IInv == /\ Types /\ Owners /\ Untouched /\ Queue /\ InTable /\ Positions /\ Commit
        /\ Window /\ Ends /\ Files /\ Linked /\ Boot /\ Stopping
        /\ AbortsOnlyWhileOut
=============================================================================
