------------------------ MODULE MCMemoryCoordinator ------------------------
(***************************************************************************)
(* Two runs as acquireLeaseIfEnabled sets them up: a coordinator object    *)
(* for each.                                                               *)
(***************************************************************************)
EXTENDS MemoryCoordinator

CONSTANTS c1, c2

PerRunClients == {c1, c2}
PerRun == [c \in PerRunClients |-> c]
=============================================================================
