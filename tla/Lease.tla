------------------------------- MODULE Lease -------------------------------
(***************************************************************************)
(* What the three coordinators of internal/coordinator have in common: the *)
(* clients (the runs that call acquireLeaseIfEnabled), where each is in    *)
(* its Acquire, and how much time is left on the lease it got.  One key is *)
(* modelled; keys do not interact.  Time is counted down in ticks, so that *)
(* it is unbounded: a deadline has passed when nothing is left of it.      *)
(***************************************************************************)
EXTENDS Integers

CONSTANTS
    Clients,
    TTL, DefaultTTL,   \* the ttl argument; 2 minutes when it is <= 0
    MaxFaults          \* bound on crashes, lost replies and failed calls

ASSUME LeaseAssumption ==
    TTL \in Int /\ DefaultTTL \in Nat \ {0} /\ MaxFaults \in Nat

VARIABLES
    pc,      \* where a client is
    left,    \* ticks left on the lease a client has taken
    faults   \* history: faults so far

Duration == IF TTL <= 0 THEN DefaultTTL ELSE TTL

Holds(c) == pc[c] = "held"

Live(c) == Holds(c) /\ left[c] > 0

CountDown(n) == IF n > 0 THEN n - 1 ELSE 0

GoTo(c, l) == pc' = [pc EXCEPT ![c] = l]

Fault == faults < MaxFaults /\ faults' = faults + 1

(* A lease is exclusive for its ttl: no two clients hold unexpired leases on *)
(* the key.                                                                  *)
LiveExclusion == \A c, d \in Clients : Live(c) /\ Live(d) => c = d
=============================================================================
