--------------------------- MODULE MCRunManifest ---------------------------
(***************************************************************************)
(* Two commands, at least one of them a run: two runs in the router server *)
(* (in one namespace and in two), in processes of their own, or one of     *)
(* each; a run next to a replay, and a run next to a validation.           *)
(***************************************************************************)
EXTENDS RunManifest

CONSTANTS r1, r2, n1, n2

MCRuns == {r1, r2}
MCNamespaces == {n1, n2}

Pair(c, d) == [r \in MCRuns |-> IF r = r1 THEN c ELSE d]

OfRun(h, n) == [op |-> "run", host |-> h, ns |-> n]

MCCalls ==
    {Pair(OfRun("server", n1), OfRun("server", n)) : n \in MCNamespaces}
    \cup {Pair(OfRun("cli", n1), OfRun(h, n1)) : h \in {"server", "cli"}}
    \cup {Pair(OfRun("cli", n1), [op |-> "replay", host |-> "server", ns |-> n1]),
          Pair(OfRun("server", n1), [op |-> "validate", host |-> "server", ns |-> n1])}

Env(c, m, p, t, s) ==
    [coordinated |-> c, mode |-> m, metrics |-> p, traceOutput |-> t, strict |-> s]

(* Everything on, with the Redis lease and without any; the metrics port     *)
(* with the file lease; the trace file, without a port that would keep runs  *)
(* apart too, with the Redis lease; and nothing but the in-memory lease.     *)
MCSettings ==
    {Env(TRUE, "redis", TRUE, TRUE, TRUE), Env(FALSE, "file", TRUE, TRUE, TRUE),
     Env(TRUE, "file", TRUE, FALSE, FALSE), Env(TRUE, "redis", FALSE, TRUE, FALSE),
     Env(TRUE, "memory", FALSE, FALSE, FALSE)}
=============================================================================
