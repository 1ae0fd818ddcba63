--------------------------- MODULE MCControlPlane ---------------------------
(***************************************************************************)
(* Requests and bounds of ControlPlane for TLC.                            *)
(***************************************************************************)
EXTENDS ControlPlane, TLC

Admin(r) == [key |-> TRUE, role |-> "admin"] @@ r

Tenant(t)   == [op |-> "tenant", tenant |-> t]
Metered(t, n) == [op |-> "usage", tenant |-> t, n |-> n]
Rate(r)     == [op |-> "rate", rate |-> r]

(* Tenants that sort before, between and after one another, one of them     *)
(* metered only before it is known; an amount of 0 and one that wraps a      *)
(* 4-bit counter when it is added twice; and requests without the key, with  *)
(* a lesser or unknown role, or without a body.                              *)
MixedRequests ==
    {Admin(Tenant(t)) : t \in 0..3} \cup
    {Admin(Metered(2, 5)), Admin(Metered(2, 0)), Admin(Metered(3, 1)),
     Admin(Rate(0)), Admin(Rate(-1)), Admin([op |-> "malformed"]),
     [key |-> FALSE, role |-> "admin"] @@ Tenant(1),
     [key |-> TRUE, role |-> "operator"] @@ Metered(2, 5),
     [key |-> TRUE, role |-> "unknown"] @@ Rate(3)}

MonthRequests == {Admin(Tenant(1)), Admin(Metered(1, 1))}

ClientSymmetry == Permutations(Clients)

None == {}
Sizes == {-1, 1, 9}
=============================================================================
