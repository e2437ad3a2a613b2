----------------------------- MODULE MCNvStore ------------------------------
(***************************************************************************)
(* Instances of NvStore for TLC: which thread uses which page.             *)
(***************************************************************************)
EXTENDS NvStoreRaces

CONSTANTS main, worker, meta, heap1, heap2

(* Each thread stores in pages of its own; main owns the metadata.         *)
OwnPages == [u \in Users |-> IF u = main THEN {meta, heap1} ELSE {heap2}]

(* Two threads' blocks lie on one page of the heap.                        *)
SharedPage == [u \in Users |-> IF u = main THEN {meta, heap1} ELSE {heap1}]
=============================================================================
