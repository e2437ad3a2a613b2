---------------------------- MODULE NvStoreRaces ----------------------------
(***************************************************************************)
(* The store under a program that follows no rule.  A dump copies its page *)
(* aside, drops it and puts the copy back: what anybody else did to the    *)
(* page in between is undone.  This module says when that can happen.      *)
(***************************************************************************)
EXTENDS NvStoreInv

(* The copy is taken and not yet back.                                     *)
HoldsCopy(t) == pc[t] \in {"seek", "write", "drop", "back"}

(* The copy is what the page holds or, once it is dropped, held: to drop   *)
(* the page, or to put the copy back, undoes nothing.                      *)
CopyCurrent(t) == mem[cur[t]] = IF pc[t] = "back" THEN ZeroPage ELSE cpy[t]

(* Two dumps of one page, both with a copy of it.                          *)
Overlaps(t) == \E s \in Threads \ {t} : HoldsCopy(s) /\ cur[s] = cur[t]

(* A thread stores in the page, or in the writelock word at its start.     *)
StoredIn(p) ==
  \/ \E u \in Users, v \in Vals : Store(u, p, v)
  \/ p = Meta /\ \E s \in Threads : LockSet(s) \/ UnlockSet(s)

(* The steps of thread t that change its page under those who use it.      *)
Disturbs(t, p) == cur[t] = p /\ (DumpDrop(t) \/ DumpBack(t))

Races(t) == StoredIn(cur[t]) \/ \E s \in Threads \ {t} : Disturbs(s, cur[t])

(* vblock_dumpbypage loses nothing, and nobody can observe it, unless      *)
(* between its two memcpy (vblock.c:95, :104) a thread stores in the page  *)
(* or another dump of the page drops it or puts it back.  A copy is no     *)
(* longer current only after such a race; and what the program reads in a  *)
(* page changes only by a boot, by a store, or by a dump whose copy is not *)
(* current or that another dump of the page overlaps.                      *)
LossesAreRaces ==
  [][/\ \A t \in Threads :
          HoldsCopy(t)' /\ ~CopyCurrent(t)' =>
            HoldsCopy(t) /\ (~CopyCurrent(t) \/ Races(t))
     /\ \A p \in Pages :
          View(p)' # View(p) =>
            \/ Restart
            \/ \E u \in Users, v \in Vals : Store(u, p, v)
            \/ \E t \in Threads : Disturbs(t, p) /\ (~CopyCurrent(t) \/ Overlaps(t))]_vars
=============================================================================
