---------------------------- MODULE MCAddrTable -----------------------------
(***************************************************************************)
(* An instance of AddrTable for TLC.  Most pages hash to the same slot of  *)
(* the first array, which has four.                                        *)
(***************************************************************************)
EXTENDS AddrTable

Extent(p, n) == [pgstart |-> p, npages |-> n]

FewBlocks == {Extent(1, 2), Extent(5, 1), Extent(9, 3), Extent(17, 1)}
=============================================================================
