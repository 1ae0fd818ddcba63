---------------------------- MODULE RunManifest ----------------------------
(***************************************************************************)
(* The commands of internal/app/run.go (run, validate and replay) as the   *)
(* handlers of the router server (internal/app/server.go, cmd/router) and  *)
(* as processes of their own (cmd/cli, cmd/router): several of them on one *)
(* host, each from its start to its audit record and its answer, with what *)
(* they share: the lease of a namespace, the port of the metrics endpoint, *)
(* the file TRACE_OUTPUT names and the audit log.  Deferred calls are kept *)
(* as the list the Go runtime keeps.                                       *)
(*                                                                         *)
(* The lease is the one of COORDINATION_MODE, one per namespace (all runs  *)
(* of a namespace have the same task ID), as its coordinator's own module  *)
(* finds it: exclusive in Redis (LeaseLock), granted to every run that     *)
(* asks in memory, and in files exclusive only when the calls do not meet. *)
(* Any process may die at any point; the server takes all its requests     *)
(* with it.  Plan, manifest and results are left to Pipeline and Engine.   *)
(***************************************************************************)
EXTENDS Integers, Sequences, SequencesExt, FiniteSets

CONSTANTS
    Runs, Namespaces, NoRun,
    Settings,   \* the environments: records with the fields of Setting
    Calls       \* what is executed where: functions from Runs to Call

Torn == "torn"

Setting == [coordinated : BOOLEAN, mode : {"memory", "file", "redis"},
            metrics : BOOLEAN, traceOutput : BOOLEAN, strict : BOOLEAN]

Call == [op   : {"run", "validate", "replay"},
         host : {"server", "cli"},     \* the router server or its own process
         ns   : Namespaces]            \* the namespace of the manifest

ASSUME RunManifestAssumption ==
    /\ NoRun \notin Runs /\ Torn \notin Runs
    /\ Settings \subseteq Setting
    /\ Calls \subseteq [Runs -> Call]

VARIABLES
    env,       \* the environment variables
    call,      \* what each member of Runs is
    pc,        \* where a command is
    defers,    \* its deferred calls, in the order of the defer statements
    outcome,   \* what it returns: "none" so far, "ok" or "error"
    failed,    \* runs some of whose invocations failed
    answer,    \* what the caller is told, by status code or exit code
    holders,   \* per namespace: the runs with an unexpired lease
    port,      \* the run whose listener is bound to the metrics address
    srv,       \* its http.Server: "none", "starting", "serving", "shut"
    traceFile, \* whose bytes are in the trace file; Torn for an incomplete write
    log,       \* the lines of the audit log
    overran    \* history: some lease expired before its run ended

given == <<env, call>>
runVars == <<pc, defers, outcome, failed, answer>>
vars == <<given, runVars, holders, port, srv, traceFile, log, overran>>

Init ==
    /\ env \in Settings
    /\ call \in Calls
    /\ pc = [r \in Runs |-> "idle"]
    /\ defers = [r \in Runs |-> << >>]
    /\ outcome = [r \in Runs |-> "none"]
    /\ failed = {}
    /\ answer = [r \in Runs |-> "none"]
    /\ holders = [n \in Namespaces |-> {}]
    /\ port = NoRun
    /\ srv = [r \in Runs |-> "none"]
    /\ traceFile = {}
    /\ log = << >>
    /\ overran = FALSE

GoTo(r, l) == pc' = [pc EXCEPT ![r] = l]

(* return, after which the deferred calls are made *)
Return(r, result) ==
    /\ GoTo(r, "unwind")
    /\ outcome' = [outcome EXCEPT ![r] = result]

-----------------------------------------------------------------------------
(* A shell starts a command, or the server accepts a request that decodes;    *)
(* each command first defers its audit record.                                *)
Start(r) ==
    /\ pc[r] = "idle"
    /\ GoTo(r, IF call[r].op = "run" THEN "load" ELSE call[r].op)
    /\ defers' = [defers EXCEPT ![r] = <<"audit">>]
    /\ UNCHANGED <<given, outcome, failed, answer, holders, port, srv,
                   traceFile, log, overran>>

(* ValidateManifest: manifest, policy and role. *)
ValidateManifest(r) ==
    /\ pc[r] = "validate"
    /\ \E result \in {"ok", "error"} : Return(r, result)
    /\ UNCHANGED <<given, defers, failed, answer, holders, port, srv,
                   traceFile, log, overran>>

(* json.Unmarshal refuses an empty file, a torn one and one with the end of  *)
(* another trace behind it.                                                   *)
Readable == \E s \in Runs : traceFile = {s}

(* ReplayTrace takes no lease; role and comparison may refuse as well. *)
ReplayTrace(r) ==
    /\ pc[r] = "replay"
    /\ \E result \in {"ok", "error"} : (result = "ok" => Readable) /\ Return(r, result)
    /\ UNCHANGED <<given, defers, failed, answer, holders, port, srv,
                   traceFile, log, overran>>

(* Manifest, role, namespace, registry, configuration and plan: each of them *)
(* may end the run.                                                          *)
Load(r) ==
    /\ pc[r] = "load"
    /\ \/ GoTo(r, "lease") /\ UNCHANGED outcome
       \/ Return(r, "error")
    /\ UNCHANGED <<given, defers, failed, answer, holders, port, srv,
                   traceFile, log, overran>>

LeaseNotAsked(r) == TRUE

(* An in-memory coordinator is new, the run's own, and has no other lease. *)
LeaseFree(r) == env.mode = "memory" \/ holders[call[r].ns] = {}

Leases(r) ==
    /\ holders' = [holders EXCEPT ![call[r].ns] = @ \cup {r}]
    /\ defers' = [defers EXCEPT ![r] = Append(@, "release")]

(* acquireLeaseIfEnabled: it waits, without a deadline, for the lease, *)
AcquireLease(r) ==
    /\ pc[r] = "lease"
    /\ \/ ~env.coordinated /\ UNCHANGED <<defers, holders>>
       \/ env.coordinated /\ LeaseFree(r) /\ Leases(r)
    /\ GoTo(r, "otel")
    /\ UNCHANGED <<given, outcome, failed, answer, port, srv, traceFile,
                   log, overran>>

(* which the file coordinator also gives to a run that takes another run's   *)
(* new lock file for an expired one, or finds it removed,                    *)
SeizeLease(r) ==
    /\ pc[r] = "lease" /\ env.coordinated
    /\ env.mode = "file" /\ ~LeaseFree(r)
    /\ Leases(r)
    /\ GoTo(r, "otel")
    /\ UNCHANGED <<given, outcome, failed, answer, port, srv, traceFile,
                   log, overran>>

(* unless the coordinator fails: nothing in memory does. *)
LeaseError(r) ==
    /\ pc[r] = "lease" /\ env.coordinated /\ env.mode # "memory"
    /\ Return(r, "error")
    /\ UNCHANGED <<given, defers, failed, answer, holders, port, srv,
                   traceFile, log, overran>>

(* The provider's deferred Shutdown touches nothing the runs share. *)
SetupOTelFromEnv(r) ==
    /\ pc[r] = "otel"
    /\ \/ GoTo(r, "metrics") /\ UNCHANGED outcome
       \/ Return(r, "error")
    /\ UNCHANGED <<given, defers, failed, answer, holders, port, srv,
                   traceFile, log, overran>>

(* StartPrometheusServer binds the port and leaves Serve to a goroutine; it   *)
(* may fail for other reasons than a port in use.                             *)
StartMetrics(r) ==
    /\ pc[r] = "metrics"
    /\ \/ /\ ~env.metrics
          /\ GoTo(r, "run") /\ UNCHANGED <<defers, outcome, port, srv>>
       \/ /\ env.metrics /\ port = NoRun
          /\ port' = r
          /\ srv' = [srv EXCEPT ![r] = "starting"]
          /\ defers' = [defers EXCEPT ![r] = Append(@, "stop")]
          /\ GoTo(r, "run") /\ UNCHANGED outcome
       \/ /\ env.metrics
          /\ Return(r, "error") /\ UNCHANGED <<defers, port, srv>>
    /\ UNCHANGED <<given, failed, answer, holders, traceFile, log, overran>>

(* The goroutine enters Serve; after a Shutdown it only closes the listener. *)
Serve(r) ==
    /\ \/ /\ srv[r] = "starting"
          /\ srv' = [srv EXCEPT ![r] = "serving"] /\ UNCHANGED port
       \/ /\ srv[r] = "shut"
          /\ srv' = [srv EXCEPT ![r] = "none"] /\ port' = NoRun
    /\ UNCHANGED <<given, runVars, holders, traceFile, log, overran>>

(* RunPlan returns; invocations that failed do not fail RunManifestReport. *)
RunPlan(r) ==
    /\ pc[r] = "run"
    /\ failed' \in {failed, failed \cup {r}}
    /\ GoTo(r, IF env.traceOutput THEN "open" ELSE "export")
    /\ UNCHANGED <<given, defers, outcome, answer, holders, port, srv,
                   traceFile, log, overran>>

-----------------------------------------------------------------------------
(* SaveToFile: os.WriteFile truncates the file, *)
OpenTrace(r) ==
    /\ pc[r] = "open"
    /\ \/ traceFile' = {} /\ GoTo(r, "write") /\ UNCHANGED outcome
       \/ Return(r, "error") /\ UNCHANGED traceFile
    /\ UNCHANGED <<given, defers, failed, answer, holders, port, srv, log,
                   overran>>

SaveErrorIgnored(r) == GoTo(r, "export") /\ UNCHANGED outcome

SaveError(r) == Return(r, "error")

(* then writes from its start: what another run has written meanwhile is    *)
(* covered, or sticks out behind.                                            *)
WriteTrace(r) ==
    /\ pc[r] = "write"
    /\ \/ /\ traceFile' \in {{r}, traceFile \cup {r}}
          /\ GoTo(r, "export") /\ UNCHANGED outcome
       \/ /\ traceFile' = traceFile \cup {Torn}
          /\ SaveError(r)
    /\ UNCHANGED <<given, defers, failed, answer, holders, port, srv, log,
                   overran>>

(* A failed export counts in strict mode only. *)
ExportAstraGraphAudit(r) ==
    /\ pc[r] = "export"
    /\ \/ Return(r, "ok")
       \/ Return(r, IF env.strict THEN "error" ELSE "ok")
    /\ UNCHANGED <<given, defers, failed, answer, holders, port, srv,
                   traceFile, log, overran>>

-----------------------------------------------------------------------------
NextDeferredInOrder(r) == 1

(* Deferred calls are made in the reverse order of their registration. *)
NextDeferred(r) == Len(defers[r])

Deferred(r, d) ==
    /\ pc[r] = "unwind" /\ defers[r] # << >> /\ defers[r][NextDeferred(r)] = d
    /\ defers' = [defers EXCEPT ![r] = RemoveAt(@, NextDeferred(r))]
    /\ pc' = [pc EXCEPT ![r] = IF Len(defers[r]) = 1 THEN "returned" ELSE @]
    /\ UNCHANGED <<given, outcome, failed, answer, traceFile, overran>>

(* A server that has not entered Serve does not know its listener yet. *)
StopServer(r) ==
    /\ Deferred(r, "stop")
    /\ port' = IF srv[r] = "serving" THEN NoRun ELSE port
    /\ srv' = [srv EXCEPT ![r] = IF @ = "serving" THEN "none" ELSE "shut"]
    /\ UNCHANGED <<holders, log>>

(* The error of Release is dropped; the lease then stays until it expires. *)
ReleaseLease(r) ==
    /\ Deferred(r, "release")
    /\ \/ holders' = [holders EXCEPT ![call[r].ns] = @ \ {r}]
       \/ env.mode # "memory" /\ UNCHANGED holders
    /\ UNCHANGED <<port, srv, log>>

Status(r) == IF outcome[r] = "ok" THEN "success" ELSE "error"

(* O_APPEND starts where the file ends: behind a record without its line end *)
(* the new one becomes part of the same, unreadable, line.                   *)
LineWritten(l) ==
    IF log = << >> \/ Last(log).form \in {"whole", "joined"} THEN Append(log, l)
    ELSE [log EXCEPT ![Len(log)].form = IF l.form = "whole" THEN "joined" ELSE "cut"]

(* Logger.Write appends the record and its line end.  A write that fails may *)
(* leave a part of them, or the record alone; its error is dropped.          *)
WriteAudit(r) ==
    /\ Deferred(r, "audit")
    /\ \/ \E form \in {"whole", "cut", "unended"} :
             log' = LineWritten([run |-> r, status |-> Status(r), form |-> form])
       \/ UNCHANGED log
    /\ UNCHANGED <<holders, port, srv>>

(* ExportJSONLToCSV stops at the first line that is not one record: the rows *)
(* before it are all it writes.                                              *)
ExportJSONLToCSV ==
    LET readable(l) == l.form \in {"whole", "unended"}
        n == CHOOSE k \in 0..Len(log) :
               /\ \A i \in 1..k : readable(log[i])
               /\ k < Len(log) => ~readable(log[k + 1])
    IN  SubSeq(log, 1, n)

-----------------------------------------------------------------------------
(* The handlers and --json only look at the error of the command; RunManifest *)
(* also fails for failed invocations.                                        *)
Told(r, jsonOut) ==
    IF outcome[r] = "ok" /\ (r \in failed => call[r].host = "server" \/ jsonOut)
    THEN "ok" ELSE "error"

(* The response of the handler, lost on a client that has given up waiting,  *)
(* or the exit code of a process, whose listener goes with it.               *)
Answer(r) ==
    /\ pc[r] = "returned"
    /\ GoTo(r, "answered")
    /\ \E jsonOut \in BOOLEAN : \E told \in {Told(r, jsonOut), "lost"} :
         /\ told = "lost" => call[r].host = "server"
         /\ answer' = [answer EXCEPT ![r] = told]
    /\ IF call[r].host = "server" THEN UNCHANGED <<port, srv>>
       ELSE /\ port' = IF port = r THEN NoRun ELSE port
            /\ srv' = [srv EXCEPT ![r] = "none"]
    /\ UNCHANGED <<given, defers, outcome, failed, holders, traceFile, log,
                   overran>>

Saving(r) == pc[r] = "write"

Ended == {"answered", "crashed"}

Active(r) == pc[r] \notin Ended \cup {"idle", "load", "lease", "returned"}

(* The process that executes the commands in S dies: their listeners are     *)
(* closed, their leases stay.                                                *)
Dies(S) ==
    LET killed == {r \in S : pc[r] \notin Ended \cup {"idle"}} IN
    /\ pc' = [r \in Runs |-> IF r \in killed THEN "crashed" ELSE pc[r]]
    /\ answer' = [r \in Runs |-> IF r \in killed THEN "lost" ELSE answer[r]]
    /\ port' = IF port \in S THEN NoRun ELSE port
    /\ srv' = [r \in Runs |-> IF r \in S THEN "none" ELSE srv[r]]
    /\ \/ UNCHANGED traceFile
       \/ (\E r \in S : Saving(r)) /\ traceFile' = traceFile \cup {Torn}
    /\ defers' = [r \in Runs |-> IF r \in killed THEN << >> ELSE defers[r]]
    /\ UNCHANGED <<given, outcome, failed, holders, log, overran>>

Crash(r) ==
    /\ call[r].host = "cli" /\ pc[r] \notin Ended \cup {"idle"}
    /\ Dies({r})

(* The server dies, or gets a SIGTERM: Shutdown closes the listener,          *)
(* whereupon ListenAndServe returns and main with it, whatever the handlers  *)
(* are doing.  Later requests find it started again.                         *)
Exit ==
    LET hosted == {r \in Runs : call[r].host = "server"} IN
    /\ \E r \in hosted : pc[r] \notin Ended \cup {"idle"} \/ srv[r] # "none"
    /\ Dies(hosted)

ExpiredNever(n) == {}

Expired(n) == holders[n]

(* The ttl of a lease runs out, whether or not its run is still at work. *)
LeaseExpires(n) ==
    /\ \E r \in Expired(n) :
         /\ holders' = [holders EXCEPT ![n] = @ \ {r}]
         /\ overran' = (overran \/ Active(r))
    /\ UNCHANGED <<given, runVars, port, srv, traceFile, log>>

Step(r) == \/ ValidateManifest(r) \/ ReplayTrace(r) \/ Load(r) \/ AcquireLease(r)
           \/ SetupOTelFromEnv(r) \/ StartMetrics(r) \/ RunPlan(r) \/ OpenTrace(r)
           \/ WriteTrace(r) \/ ExportAstraGraphAudit(r) \/ StopServer(r)
           \/ ReleaseLease(r) \/ WriteAudit(r) \/ Answer(r)

Next == \/ \E r \in Runs : \/ Start(r) \/ Step(r) \/ SeizeLease(r) \/ LeaseError(r)
                           \/ Serve(r) \/ Crash(r)
        \/ \E n \in Namespaces : LeaseExpires(n)
        \/ Exit

(* Goroutines are scheduled and every lease has a ttl; a coordinator need not *)
(* ever fail or grant a lease twice, and nobody need give up, stop or start  *)
(* anything.                                                                 *)
Fairness == /\ \A r \in Runs : WF_vars(Step(r)) /\ WF_vars(Serve(r))
            /\ \A n \in Namespaces : WF_vars(LeaseExpires(n))

Spec == Init /\ [][Next]_vars /\ Fairness

-----------------------------------------------------------------------------
(* The state is well typed: a namespace has at most one holder of a lease in *)
(* Redis, and a run makes each deferred call once.                           *)
TypeOK ==
    /\ env \in Settings /\ call \in Calls
    /\ pc \in [Runs -> {"idle", "validate", "replay", "load", "lease", "otel",
                        "metrics", "run", "open", "write", "export", "unwind",
                        "returned"} \cup Ended]
    /\ \A r \in Runs : defers[r] \in Seq({"audit", "release", "stop"}) /\ Len(defers[r]) <= 3
    /\ outcome \in [Runs -> {"none", "ok", "error"}]
    /\ failed \subseteq Runs
    /\ answer \in [Runs -> {"none", "ok", "error", "lost"}]
    /\ \A n \in Namespaces : /\ holders[n] \subseteq Runs
                             /\ env.mode = "redis" => Cardinality(holders[n]) <= 1
    /\ port \in Runs \cup {NoRun}
    /\ srv \in [Runs -> {"none", "starting", "serving", "shut"}]
    /\ traceFile \subseteq Runs \cup {Torn}
    /\ log \in Seq([run : Runs, status : {"success", "error"},
                    form : {"whole", "cut", "unended", "joined"}])
    /\ overran \in BOOLEAN

(* Coordination does its work: it is on and in Redis, all runs are in one    *)
(* namespace, and no lease ran out under a run.  In the other two modes two  *)
(* runs may have the lease at once (file_exclusion, memory_per_run).         *)
Coordinated ==
    /\ env.coordinated /\ env.mode = "redis"
    /\ ~overran /\ \A r, s \in Runs : call[r].ns = call[s].ns

(* Runs coordinated by Redis do not fight for the metrics port: whoever gets *)
(* there finds it free, except for the listener of a stopped server whose    *)
(* goroutine has not run yet.  That holds across processes that die and a    *)
(* router server that is stopped and started again under its runs.           *)
LeaseGuardsPort ==
    Coordinated => \A r \in Runs : pc[r] = "metrics" => port = NoRun \/ srv[port] = "shut"

(* Run r has saved its trace and, unless it fails afterwards, not yet given  *)
(* its lease back.                                                           *)
KeepsTrace(r) ==
    \/ pc[r] = "export"
    \/ pc[r] = "unwind" /\ outcome[r] = "ok" /\ \E i \in DOMAIN defers[r] : defers[r][i] = "release"

(* The trace file of runs coordinated by Redis is never a mixture of two     *)
(* traces, and from its save until it releases its lease a run that has not  *)
(* failed finds its own trace there, complete; so a replay at that time,     *)
(* which takes no lease, can read it.                                        *)
TraceFileWhole ==
    Coordinated => /\ Cardinality(traceFile \cap Runs) <= 1
                   /\ \A r \in Runs :
                        /\ Saving(r) => traceFile = {}
                        /\ KeepsTrace(r) /\ env.traceOutput => traceFile = {r}

BeforeSave == {"idle", "validate", "replay", "load", "lease", "otel", "metrics", "run"}

(* Every row the audit export writes is true, whatever writes of the log     *)
(* failed: there is one row of a command, it tells the command's outcome,    *)
(* its metrics server is stopped but for a listener about to be closed, and  *)
(* the trace of a successful run is in the file as long as no other run has  *)
(* got to its own save.  (A lease whose Release failed may outlive the row.) *)
(* The caller is not told otherwise: only the exit code of a run with failed *)
(* invocations may be an error next to a row that says success.              *)
AuditMatchesRun ==
    LET rows == ExportJSONLToCSV IN
    /\ \A i, j \in DOMAIN rows : rows[i].run = rows[j].run => i = j
    /\ \A i \in DOMAIN rows : LET r == rows[i].run  st == rows[i].status IN
        /\ st = Status(r) /\ pc[r] \in Ended \cup {"returned"}
        /\ port = r => srv[r] = "shut"
        /\ st = "success" /\ call[r].op = "run" /\ env.traceOutput
             /\ (\A s \in Runs \ {r} : pc[s] \in BeforeSave \/ call[s].op # "run")
           => traceFile = {r}
        /\ answer[r] = "ok" => st = "success"
        /\ answer[r] = "error" /\ st = "success" => call[r].host = "cli" /\ r \in failed

(* Every command that is started ends, in spite of processes that die with   *)
(* the lease or the port in their hands and of a server that is shut down.   *)
RunsReturn == \A r \in Runs : pc[r] # "idle" ~> pc[r] \in Ended
=============================================================================
