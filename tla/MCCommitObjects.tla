--------------------------- MODULE MCCommitObjects --------------------------
(* Constants for TLC's runs of CommitObjects.                              *)
EXTENDS CommitObjects

(* Five chains, so that addresses collide.                                 *)
FiveChains == [b \in Blocks |-> b % 5]

(* Pages of two bytes: a region that starts inside a page and ends in the  *)
(* next, and an empty one that is not aligned.                             *)
TwoRegions == {[addr |-> 1, len |-> 2], [addr |-> 3, len |-> 0]}
=============================================================================
