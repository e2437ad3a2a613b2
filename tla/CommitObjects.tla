---------------------------- MODULE CommitObjects ---------------------------
(***************************************************************************)
(* The memory behind a commit: nvmm/checkpoint.c and vds/vaddrlist.c over  *)
(* util/memcheck.c, with the two workers of nvmm/nvstore.c that share it.  *)
(*                                                                         *)
(* A thread makes a checkpoint object (a struct, a list and the list's     *)
(* array), adds regions, which may make the array grow, sends the object   *)
(* to the checkpoint worker by its address, waits, and uses it again or    *)
(* deletes it.  The fault worker allocates an entry of the dirty set for   *)
(* each page it logs; the checkpoint worker frees the entry when it takes  *)
(* the page.  All three call memcheck at the same time.                    *)
(***************************************************************************)
EXTENDS MemCheck

CONSTANTS
  Users, Main,     \* the program's threads; the one that shuts the store down
  PageSize,        \* sysconf(_SC_PAGE_SIZE)
  Memory,          \* the addresses (of bytes) of the pages of the store
  Touched,         \* bound: the pages of them that threads write to
  Regions,         \* what threads add: [addr, len]
  Power,           \* NVADDRLIST_INIT_POWER
  MaxLen,          \* bound: adds end when a list is this long
  Rounds,          \* bound: checkpoint objects a thread makes, the killer apart
  Null, Kill

ASSUME ConstantsAssumption ==
  /\ Main \in Users
  /\ PageSize \in Nat \ {0} /\ Power \in Nat /\ MaxLen \in Nat /\ Rounds \in Nat
  /\ Regions \subseteq [addr : Nat, len : Nat]
  /\ Null \notin Blocks \cup Users \cup Memory /\ Kill \notin Users \cup {Null}

Pages == {a \in Memory : a % PageSize = 0}

(* The store has whole pages, and the regions are its.                     *)
ASSUME MemoryAssumption ==
  /\ Memory \subseteq Nat /\ Touched \subseteq Pages
  /\ \A a \in Memory : a - (a % PageSize) .. a - (a % PageSize) + PageSize - 1 \subseteq Memory
  /\ \A r \in Regions : r.addr \in Memory /\ r.addr .. (r.addr + r.len - 1) \subseteq Memory

VARIABLES
  pc,          \* where each thread is
  made,        \* the checkpoint objects it made
  ckpt,        \* its checkpoint object: three blocks, the list's cap and addrs
  flight,      \* the block that the C library has given it, not yet registered
  todo,        \* page_iter and addr_high of vaddrlist_insert_pages_of
  added,       \* the regions added to the object (history)
  crinput, serving, at, finished,    \* the commits; the worker's place in one
  entry,       \* the block of each page's entry in the dirty set, or Null
  logging,     \* the page the fault worker is logging, or Null; it holds the set
  logblock,    \* the block it was given
  killfd, workers,                   \* the killswitch; the workers that run
  struck       \* blocks whose node a late mcrealloc deleted (history)

TmpPage == Min(Blocks)      \* the page nvstore_initmmap maps with mcmmap

uservars   == <<pc, made, ckpt, flight, todo, added>>
queuevars  == <<crinput, serving, at, finished>>
faultvars  == <<entry, logging, logblock>>
workvars   == <<queuevars, faultvars, killfd, workers>>
vars == <<memcheckvars, uservars, workvars, struck>>

NoObject == [obj |-> Null, list |-> Null, arr |-> Null, cap |-> 0, addrs |-> <<>>]
NoTodo   == [iter |-> 0, high |-> 0]

Init ==
  /\ MemCheckInit({TmpPage})
  /\ pc = [u \in Users |-> "idle"]
  /\ made = [u \in Users |-> 0]
  /\ ckpt = [u \in Users |-> NoObject]
  /\ flight = [u \in Users |-> Null]
  /\ todo = [u \in Users |-> NoTodo]
  /\ added = [u \in Users |-> {}]
  /\ crinput = <<>> /\ serving = Null /\ at = 1
  /\ finished = [u \in Users |-> 0]
  /\ entry = [p \in Pages |-> Null]
  /\ logging = Null /\ logblock = Null
  /\ killfd = FALSE /\ workers = {"uffd", "cr"}
  /\ struck = {}

(***************************************************************************)
(* checkpoint_new: mcmalloc of the struct, vaddrlist_new with mcmalloc of  *)
(* the list and mccalloc of its array.                                     *)
(***************************************************************************)
Parts == {"obj", "list", "arr"}

Goes(u, from, to) == ~aborted /\ pc[u] = from /\ pc' = [pc EXCEPT ![u] = to]

NewBegins(u) ==
  /\ Goes(u, "idle", "obj") /\ ~killfd /\ made[u] < Rounds
  /\ made' = [made EXCEPT ![u] = @ + 1]
  /\ UNCHANGED <<memcheckvars, ckpt, flight, todo, added, workvars, struck>>

NewGives(u) ==
  /\ ~aborted /\ pc[u] \in Parts /\ flight[u] = Null
  /\ Gives
  /\ flight' = [flight EXCEPT ![u] = FirstFree]
  /\ UNCHANGED <<made, pc, ckpt, todo, added, workvars, struck>>

NewRegisters(u) ==
  /\ flight[u] # Null
  /\ \/ Goes(u, "obj", "list")
     \/ Goes(u, "list", "arr")
     \/ Goes(u, "arr", IF killfd THEN "submit" ELSE "ready")
  /\ Registers(flight[u])
  /\ ckpt' = [ckpt EXCEPT ![u][pc[u]] = flight[u],
                          ![u].cap = IF pc[u] = "arr" THEN 2 ^ Power ELSE @]
  /\ flight' = [flight EXCEPT ![u] = Null]
  /\ struck' = struck \ {flight[u]}
  /\ UNCHANGED <<made, todo, added, workvars>>

(***************************************************************************)
(* checkpoint_add: vaddrlist_insert_pages_of                               *)
(***************************************************************************)
AsItIs(a) == a
PageOf(a) == a - (a % PageSize)

AddBegins(u, r) ==
  /\ Goes(u, "ready", "adding")
  /\ Len(ckpt[u].addrs) < MaxLen
  /\ todo' = [todo EXCEPT ![u] = [iter |-> PageOf(r.addr), high |-> r.addr + r.len]]
  /\ added' = [added EXCEPT ![u] = @ \cup {r}]
  /\ UNCHANGED <<made, memcheckvars, ckpt, flight, workvars, struck>>

Full(c) == Len(c.addrs) = c.cap

(* vaddrlist_insert where there is room.                                   *)
AddPage(u) ==
  /\ Goes(u, "adding", "adding") /\ todo[u].iter < todo[u].high /\ ~Full(ckpt[u])
  /\ ckpt' = [ckpt EXCEPT ![u].addrs = Append(@, todo[u].iter)]
  /\ todo' = [todo EXCEPT ![u].iter = @ + PageSize]
  /\ UNCHANGED <<made, memcheckvars, flight, added, workvars, struck>>

(* Where there is none, cap doubles and mcrealloc moves the array, which   *)
(* keeps what it holds; list->addrs is written when mcrealloc returns.     *)
GrowMoves(u, b) ==
  /\ Goes(u, "adding", "growing") /\ todo[u].iter < todo[u].high /\ Full(ckpt[u])
  /\ Moves(ckpt[u].arr, b)
  /\ ckpt' = [ckpt EXCEPT ![u].cap = 2 * @]
  /\ flight' = [flight EXCEPT ![u] = b]
  /\ UNCHANGED <<made, todo, added, workvars, struck>>

(* The blocks that the program's structures point to, with who points; an  *)
(* array that is being moved belongs to nobody.                            *)
Holds == {<<u, f, ckpt[u][f]>> : u \in Users, f \in Parts}
           \cup {<<p, "entry", entry[p]>> : p \in Pages}
           \cup {<<Main, "tmppage", IF pc[Main] = "down" THEN Null ELSE TmpPage>>}
Holdings == {h \in Holds : h[3] # Null /\ ~(h[2] = "arr" /\ pc[h[1]] = "growing")}
Held == {h[3] : h \in Holdings}

(* The node deleted is that of the old address, whoever has the block now. *)
GrowRegisters(u) ==
  /\ Goes(u, "growing", "adding")
  /\ Reregisters(ckpt[u].arr, flight[u])
  /\ struck' = (struck \ {ckpt[u].arr, flight[u]})
                  \cup {b \in Held : b = ckpt[u].arr /\ b # flight[u]}
  /\ ckpt' = [ckpt EXCEPT ![u].arr = flight[u]]
  /\ flight' = [flight EXCEPT ![u] = Null]
  /\ UNCHANGED <<made, todo, added, workvars>>

AddEnds(u) ==
  /\ Goes(u, "adding", "ready") /\ todo[u].iter >= todo[u].high
  /\ todo' = [todo EXCEPT ![u] = NoTodo]
  /\ UNCHANGED <<made, memcheckvars, ckpt, flight, added, workvars, struck>>

(***************************************************************************)
(* checkpoint_commit and checkpoint_delete                                 *)
(***************************************************************************)
Commit(u) ==
  /\ Goes(u, "ready", "wait")
  /\ crinput' = Append(crinput, u)
  /\ UNCHANGED <<made, memcheckvars, ckpt, flight, todo, added, serving, at,
                 finished, faultvars, killfd, workers, struck>>

NoWait(u) == TRUE
SemWait(u) == finished[u] > 0

CommitReturns(u) ==
  /\ Goes(u, "wait", "ready") /\ SemWait(u)
  /\ finished' = [finished EXCEPT ![u] = @ - 1]
  /\ UNCHANGED <<made, memcheckvars, ckpt, flight, todo, added, crinput,
                 serving, at, faultvars, killfd, workers, struck>>

(* vaddrlist_delete frees the array and the list; then the struct goes.    *)
FreesPart(u, f) ==
  /\ mcfree(ckpt[u][f])
  /\ ckpt' = [ckpt EXCEPT ![u] = IF f = "obj" THEN NoObject ELSE [@ EXCEPT ![f] = Null]]
  /\ UNCHANGED <<made, flight, todo, workvars, struck>>

DeleteArr(u)  == /\ Goes(u, "ready", "dellist") \/ Goes(u, "delkill", "dellist")
                 /\ FreesPart(u, "arr") /\ UNCHANGED added
DeleteList(u) == Goes(u, "dellist", "delobj") /\ FreesPart(u, "list") /\ UNCHANGED added
DeleteObj(u)  == /\ Goes(u, "delobj", IF killfd THEN "sweep" ELSE "idle")
                 /\ FreesPart(u, "obj") /\ added' = [added EXCEPT ![u] = {}]

(***************************************************************************)
(* nvstore_shutdown, when every other thread is joined: the killswitch, a  *)
(* checkpoint object as the kill message, the joins, and the entries left  *)
(* in the dirty set, then the page of nvstore_initmmap.                    *)
(***************************************************************************)
Shutdown(u) ==
  /\ u = Main /\ Goes(u, "idle", "obj") /\ ~killfd
  /\ \A v \in Users \ {u} : pc[v] = "idle"
  /\ killfd' = TRUE
  /\ UNCHANGED <<made, memcheckvars, ckpt, flight, todo, added, queuevars,
                 faultvars, workers, struck>>

SubmitKill(u) ==
  /\ Goes(u, "submit", "joins")
  /\ crinput' = Append(crinput, Kill)
  /\ UNCHANGED <<made, memcheckvars, ckpt, flight, todo, added, serving, at,
                 finished, faultvars, killfd, workers, struck>>

Joins(u) ==
  /\ Goes(u, "joins", "delkill") /\ workers = {}
  /\ UNCHANGED <<made, memcheckvars, ckpt, flight, todo, added, workvars,
                 struck>>

Sweeps(u) ==
  /\ Goes(u, "sweep", "sweep")
  /\ \E p \in Pages :
       /\ entry[p] # Null
       /\ mcfree(entry[p])
       /\ entry' = [entry EXCEPT ![p] = Null]
  /\ UNCHANGED <<made, ckpt, flight, todo, added, queuevars, logging, logblock,
                 killfd, workers, struck>>

Down(u) ==
  /\ Goes(u, "sweep", "down") /\ \A p \in Pages : entry[p] = Null
  /\ mcmunmap(TmpPage)
  /\ UNCHANGED <<made, ckpt, flight, todo, added, workvars, struck>>

(***************************************************************************)
(* The checkpoint worker                                                   *)
(***************************************************************************)
CrPop ==
  /\ ~aborted /\ "cr" \in workers /\ serving = Null /\ crinput # <<>>
  /\ IF Head(crinput) = Kill
       THEN workers' = workers \ {"cr"} /\ UNCHANGED <<serving, at>>
       ELSE serving' = Head(crinput) /\ at' = 1 /\ UNCHANGED workers
  /\ crinput' = Tail(crinput)
  /\ UNCHANGED <<memcheckvars, uservars, finished, faultvars, killfd, struck>>

(* vtsdirtyset_remove of the next address: its entry is freed.             *)
CrNext ==
  /\ ~aborted /\ serving # Null /\ at <= Len(ckpt[serving].addrs) /\ logging = Null
  /\ LET p == ckpt[serving].addrs[at]
     IN IF entry[p] = Null THEN UNCHANGED <<memcheckvars, entry>>
        ELSE mcfree(entry[p]) /\ entry' = [entry EXCEPT ![p] = Null]
  /\ at' = at + 1
  /\ UNCHANGED <<uservars, crinput, serving, finished, logging, logblock,
                 killfd, workers, struck>>

CrPost ==
  /\ ~aborted /\ serving # Null /\ at > Len(ckpt[serving].addrs)
  /\ finished' = [finished EXCEPT ![serving] = @ + 1]
  /\ serving' = Null /\ at' = 1
  /\ UNCHANGED <<memcheckvars, uservars, crinput, faultvars, killfd, workers,
                 struck>>

(***************************************************************************)
(* The fault worker: vtsdirtyset_insert of a page that faulted, with the   *)
(* lock of the set held                                                    *)
(***************************************************************************)
LogGives(p) ==
  /\ ~aborted /\ "uffd" \in workers /\ logging = Null /\ entry[p] = Null
  /\ Gives
  /\ logging' = p /\ logblock' = FirstFree
  /\ UNCHANGED <<uservars, queuevars, entry, killfd, workers, struck>>

LogRegisters ==
  /\ ~aborted /\ logging # Null
  /\ Registers(logblock)
  /\ entry' = [entry EXCEPT ![logging] = logblock]
  /\ logging' = Null /\ logblock' = Null
  /\ struck' = struck \ {logblock}
  /\ UNCHANGED <<uservars, queuevars, killfd, workers>>

UffdExits ==
  /\ ~aborted /\ killfd /\ logging = Null /\ "uffd" \in workers
  /\ workers' = workers \ {"uffd"}
  /\ UNCHANGED <<memcheckvars, uservars, queuevars, faultvars, killfd, struck>>

(* The process is at its end.                                              *)
Ended == (aborted \/ pc[Main] = "down") /\ UNCHANGED vars

Next ==
  \/ \E u \in Users :
       \/ NewBegins(u) \/ NewGives(u) \/ NewRegisters(u)
       \/ (\E r \in Regions : AddBegins(u, r)) \/ AddPage(u) \/ AddEnds(u)
       \/ (\E b \in Blocks : GrowMoves(u, b)) \/ GrowRegisters(u)
       \/ Commit(u) \/ CommitReturns(u)
       \/ DeleteArr(u) \/ DeleteList(u) \/ DeleteObj(u)
       \/ Shutdown(u) \/ SubmitKill(u) \/ Joins(u) \/ Sweeps(u) \/ Down(u)
  \/ CrPop \/ CrNext \/ CrPost
  \/ (\E p \in Touched : LogGives(p)) \/ LogRegisters \/ UffdExits
  \/ Ended

Spec == Init /\ [][Next]_vars
-----------------------------------------------------------------------------
(***************************************************************************)
(* Properties                                                              *)
(***************************************************************************)
TypeOK ==
  /\ MemCheckTypeOK
  /\ pc \in [Users -> Parts \cup {"idle", "ready", "adding", "growing", "wait", "dellist",
                                 "delobj", "submit", "joins", "delkill", "sweep", "down"}]
  /\ ckpt \in [Users -> [obj : Blocks \cup {Null}, list : Blocks \cup {Null},
                         arr : Blocks \cup {Null}, cap : Nat, addrs : Seq(Pages)]]
  /\ made \in [Users -> 0 .. Rounds]
  /\ flight \in [Users -> Blocks \cup {Null}]
  /\ todo \in [Users -> [iter : Nat, high : Nat]]
  /\ added \in [Users -> SUBSET Regions]
  /\ crinput \in Seq(Users \cup {Kill}) /\ serving \in Users \cup {Null} /\ at \in Nat \ {0}
  /\ finished \in [Users -> Nat]
  /\ entry \in [Pages -> Blocks \cup {Null}]
  /\ logging \in Pages \cup {Null} /\ logblock \in Blocks \cup {Null}
  /\ killfd \in BOOLEAN /\ workers \subseteq {"uffd", "cr"}
  /\ struck \subseteq Blocks

InTable == {b \in Blocks : Registered(Table, b)}
Moving  == {ckpt[u].arr : u \in {v \in Users : pc[v] = "growing"}}

(* The table holds what the program holds, through every interleaving of   *)
(* the allocations with the realloc that is outside the lock: one block    *)
(* per pointer, one node per address, a node for every block that is held  *)
(* except those a late mcrealloc struck out (memcheck.c:200-206), and no   *)
(* other node but that of an array on the move.  Only a struck block makes *)
(* mcfree abort, and at the end of nvstore_shutdown mcreport has nothing   *)
(* to report but the objects the threads still have.                       *)
MemCheckExact ==
  /\ TypeOK
  /\ Cardinality(Holdings) = Cardinality(Held)
  /\ Held \subseteq given
  /\ \A b \in Blocks : Cardinality(Places(Table, b)) <= 1
  /\ nelem = Cardinality(InTable)
  /\ Held \subseteq InTable \cup struck
  /\ InTable \subseteq Held \cup Moving
  /\ aborted => struck # {}
  /\ pc[Main] = "down" => InTable = {}

(* The checkpoint worker has an object by its address only                 *)
(* (nvstore.c:281-301): from the pop to the post its thread is asleep in   *)
(* checkpoint_commit, so the struct, the list and the array are there and  *)
(* neither grow nor move; a thread waits for one commit at a time, and the *)
(* kill message is the last.                                               *)
WorkerReadsLive ==
  /\ \A u \in Users :
       LET sent == Cardinality({i \in DOMAIN crinput : crinput[i] = u})
                     + (IF serving = u THEN 1 ELSE 0) + finished[u]
       IN IF pc[u] = "wait"
            THEN sent = 1 /\ \A f \in Parts : ckpt[u][f] \in given
            ELSE sent = 0
  /\ serving # Null => at <= Len(ckpt[serving].addrs) + 1
  /\ \A i \in DOMAIN crinput : crinput[i] = Kill => i = Len(crinput) /\ pc[Main] = "joins"

(* The page a byte is in.                                                 *)
PageAt(b) == Max({p \in Pages : p <= b})

(* What is to be committed is what was added (vaddrlist.c:30-53): every    *)
(* byte of every region is in a page of the list, every page of the list   *)
(* has such a byte or is the page of an empty region, and the array has    *)
(* room for what is in it.                                                 *)
CoversRegions == \A u \in Users :
  /\ Len(ckpt[u].addrs) <= ckpt[u].cap
  /\ pc[u] \in {"ready", "wait"} =>
       LET pages   == ToSet(ckpt[u].addrs)
           touched == UNION {{PageAt(b) : b \in r.addr .. (r.addr + r.len - 1)} : r \in added[u]}
           empty   == {PageAt(r.addr) : r \in {x \in added[u] : x.len = 0}}
       IN touched \subseteq pages /\ pages \subseteq touched \cup empty
=============================================================================
