----------------------------- MODULE MCDirtySet -----------------------------
(***************************************************************************)
(* Instances of DirtySet for TLC.                                          *)
(***************************************************************************)
EXTENDS DirtySet

CONSTANTS k1, k2, k3, h1, h2

(* k1 and k2 collide.                                                      *)
TwoBuckets == [k \in Keys |-> IF k \in {k1, k2} THEN h1 ELSE h2]
=============================================================================
