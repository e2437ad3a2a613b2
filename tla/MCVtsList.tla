------------------------------ MODULE MCVtsList -----------------------------
(***************************************************************************)
(* Instances of VtsList for TLC: threads are alike, and so are elements.   *)
(***************************************************************************)
EXTENDS VtsList, TLC

Alike == Permutations(Threads) \cup Permutations(Elems)
=============================================================================
