----------------------------- MODULE MCCrMalloc -----------------------------
(***************************************************************************)
(* Instances of CrMalloc for TLC.                                          *)
(***************************************************************************)
EXTENDS CrMalloc
=============================================================================
