----------------------------- MODULE NvStoreInv -----------------------------
(***************************************************************************)
(* The inductive invariant of NvStore, for programs whose threads keep to  *)
(* pages of their own and follow the rule of nvstore.h.                    *)
(***************************************************************************)
EXTENDS NvStore

(* What the theorems ask of the program.  The code checks none of it.      *)
Discipline ==
  /\ Serial
  /\ \A u, v \in Users : u # v => Access[u] \cap Access[v] = {}
  /\ \A u \in MetaUsers : Meta \in Access[u]
  /\ \A u \in EverythingUsers : Users = {u}

(***************************************************************************)
(* Types.  finished[u] is a counter here: that it never exceeds 1 needs    *)
(* the invariant of the queue.                                             *)
(***************************************************************************)
FileStates == {"lock", "lockseek", "lockwrite", "next", "copy", "seek", "write", "drop",
               "back", "unlock", "unlockseek", "unlockwrite"}

CrStates   == FileStates \cup {"pop", "post", "exit"}
UserStates == FileStates \cup {"idle", "wait", "submit", "pushkill", "joinuffd", "joincr",
                               "teardown", "down"}

MemTypes ==
  /\ mem \in [Pages -> Page] /\ nvfs \in [Pages -> Page]
  /\ resident \subseteq Pages /\ dirty \subseteq Pages
  /\ fpos \in Pages \cup {Past}
  /\ cpy \in [Threads -> Page]

UffdTypes ==
  /\ fault \in [Threads -> Pages \cup {NoPage}]
  /\ uffdpc \in {"poll", "read", "copy", "exit"}
  /\ filling \in Pages \cup {NoPage}
  /\ uffdpc = "copy" => filling \in Pages
  /\ sawkill \in BOOLEAN /\ killfd \in BOOLEAN /\ alive \in BOOLEAN

JobTypes ==
  /\ crinput \in Seq(Users \cup {Kill}) /\ serving \in Users \cup {Nobody}
  /\ region \in [Users -> SUBSET Pages] /\ finished \in [Users -> Nat]
  /\ job \in [Users -> {"none", "commit", "meta", "all", "shutdown"}]
  /\ todo \in [Threads -> SUBSET Pages]

PcTypes ==
  /\ pc \in [Threads -> PcStates]
  /\ pc[CrWorker] \in CrStates
  /\ \A u \in Users : pc[u] \in UserStates
  /\ cur \in [Threads -> Pages \cup {NoPage}]
  /\ \A t \in Threads : Dumping(t) <=> cur[t] # NoPage

Types == MemTypes /\ UffdTypes /\ JobTypes /\ PcTypes

(* The queue of commits: an entry is a waiting thread that is neither      *)
(* being served nor answered, and no thread is queued twice.               *)
Queue ==
  /\ \A i \in 1..Len(crinput) : crinput[i] \in Users =>
       /\ pc[crinput[i]] = "wait" /\ finished[crinput[i]] = 0
       /\ serving # crinput[i]
       /\ \A j \in 1..Len(crinput) : crinput[j] = crinput[i] => j = i
  /\ serving \in Users => pc[serving] = "wait" /\ finished[serving] = 0
  /\ serving = Nobody <=> pc[CrWorker] \in {"pop", "exit"}
  /\ \A u \in Users : finished[u] # 0 => pc[u] = "wait" /\ finished[u] = 1

(* No commit is lost: a thread that waits is queued, in service or answered.*)
Kept ==
  \A u \in Users : pc[u] = "wait" =>
    serving = u \/ finished[u] # 0 \/ \E i \in 1..Len(crinput) : crinput[i] = u

(* Where a thread is, given its call; a call that may not be concurrent    *)
(* finds the other threads idle.                                           *)
Calls ==
  \A u \in Users :
    /\ job[u] = "none" <=> pc[u] = "idle"
    /\ job[u] = "commit" => pc[u] = "wait"
    /\ job[u] = "meta" => u \in MetaUsers /\
         pc[u] \in {"lock", "lockseek", "lockwrite", "submit", "wait", "unlock",
                   "unlockseek", "unlockwrite"}
    /\ job[u] = "all" => u \in EverythingUsers /\ pc[u] \in FileStates
    /\ job[u] = "shutdown" =>
         pc[u] \in {"pushkill", "joinuffd", "joincr", "teardown", "down"}
    /\ pc[u] = "wait" => region[u] \subseteq Access[u]
    /\ job[u] \in {"meta", "all", "shutdown"} => \A v \in Users \ {u} : job[v] = "none"

(* The position of the file.                                               *)
Position ==
  \A t \in Threads :
    /\ pc[t] = "write" => fpos = cur[t]
    /\ pc[t] \in {"lockwrite", "unlockwrite"} => fpos = Meta

(* A missing page reads zero.                                              *)
Faults ==
  /\ \A t \in Threads : fault[t] \notin resident
  /\ uffdpc = "copy" => filling \notin resident
  /\ \A p \in Pages \ resident : mem[p] = ZeroPage

(* The copy, the page and the file during a dump.                          *)
Dump ==
  \A t \in Threads :
    /\ pc[t] \in {"seek", "write", "drop"} => cur[t] \in resident /\ cpy[t] = mem[cur[t]]
    /\ pc[t] \in {"drop", "back"} => nvfs[cur[t]].data = cpy[t].data

Unlocking(t) == pc[t] \in {"unlock", "unlockseek", "unlockwrite", "post"}

(* The worker dumps what it was asked to, and all of it.                   *)
Lists ==
  /\ serving \in Users => /\ todo[CrWorker] \subseteq region[serving]
                          /\ cur[CrWorker] # NoPage => cur[CrWorker] \in region[serving]
  /\ Unlocking(CrWorker) => todo[CrWorker] = {}
  /\ \A u \in Users : job[u] = "all" /\ Unlocking(u) => todo[u] = {}

OnFile(p) == (\E t \in Threads : pc[t] = "back" /\ cur[t] = p) \/ nvfs[p].data = mem[p].data

(* A page that is present is logged, or being dumped.                      *)
CoverOf(p) ==
  /\ p \in dirty \/ OnFile(p) \/ \E t \in Threads : Unsaved(t, p)
  /\ p \in resident =>
       p \in dirty \/ \E t \in Threads : cur[t] = p /\ pc[t] \in {"copy", "seek", "write", "drop"}
  /\ uffdpc = "copy" /\ filling = p =>
       p \in dirty \/ \E t \in Threads : cur[t] = p /\ pc[t] = "copy"

Cover == \A p \in Pages : CoverOf(p)

(* What a call has done of its work so far.                                *)
ServedPages ==
  serving \in Users =>
    \A p \in region[serving] : p \in todo[CrWorker] \/ Unsaved(CrWorker, p) \/ OnFile(p)

AnsweredPages ==
  \A u \in Users : finished[u] # 0 => \A p \in region[u] : OnFile(p)

EverythingPages ==
  \A u \in Users : job[u] = "all" =>
    \A p \in Pages : p \in todo[u] \/ Unsaved(u, p) \/ OnFile(p)

Progress == ServedPages /\ AnsweredPages /\ EverythingPages

(* The writelock word, in memory and in the file.                          *)
Writelock ==
  \A t \in Threads :
    /\ pc[t] \in {"lockseek", "lockwrite", "next"} \/ Dumping(t) => mem[Meta].wl = 0
    /\ pc[t] = "back" /\ cur[t] = Meta => cpy[t].wl = 0
    /\ pc[t] = "next" \/ Dumping(t) => nvfs[Meta].wl = 0

IInv == Types /\ Queue /\ Calls /\ Position /\ Faults /\ Dump /\ Lists /\ Cover /\ Progress
        /\ Writelock
=============================================================================
