----------------------------- MODULE LeaseLock -----------------------------
(***************************************************************************)
(* The promise of a lease service for one key: the set of clients with an  *)
(* unexpired lease is empty or a single client, and it passes from one     *)
(* client to another only through empty.                                   *)
(***************************************************************************)
CONSTANT Clients

VARIABLE holders

Init == holders = {}

Grant(c) == holders = {} /\ holders' = {c}

End(c) == holders = {c} /\ holders' = {}

Next == \E c \in Clients : Grant(c) \/ End(c)

Spec == Init /\ [][Next]_holders
=============================================================================
