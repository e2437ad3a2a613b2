----------------------------- MODULE MCCrThread -----------------------------
(***************************************************************************)
(* Instances of CrThread for TLC.                                          *)
(***************************************************************************)
EXTENDS CrThreadInv

(* The ids of a thread on its two stacks fall in different buckets, those  *)
(* of two threads collide.                                                 *)
BucketPerStack == [k \in Pthreads |-> k[2]]
=============================================================================
