---------------------------- MODULE AddressSets -----------------------------
(***************************************************************************)
(* What vtsdirtyset.h promises: a set of addresses, and a copy of it that  *)
(* nvstore_checkpoint_everything takes and empties while the set goes on   *)
(* changing.                                                               *)
(***************************************************************************)
CONSTANTS Keys, NoKey, NoSet

VARIABLES
  base, copy,    \* the two sets; copy is NoSet while there is none
  got            \* what the last operation returned

vars == <<base, copy, got>>

Init == base = {} /\ copy = NoSet /\ got = NoKey

Insert(k) == base' = base \cup {k} /\ got' = NoKey /\ UNCHANGED copy

Remove(k) ==
  /\ base' = base \ {k}
  /\ got' = IF k \in base THEN k ELSE NoKey
  /\ UNCHANGED copy

RemoveAny ==
  /\ copy # NoSet
  /\ \/ copy = {} /\ got' = NoKey /\ UNCHANGED copy
     \/ \E k \in copy : got' = k /\ copy' = copy \ {k}
  /\ UNCHANGED base

Copy   == copy = NoSet /\ copy' = base /\ got' = NoKey /\ UNCHANGED base
Delete == copy # NoSet /\ copy' = NoSet /\ got' = NoKey /\ UNCHANGED base

Next ==
  \/ \E k \in Keys : Insert(k) \/ Remove(k)
  \/ RemoveAny \/ Copy \/ Delete

Spec == Init /\ [][Next]_vars
=============================================================================
