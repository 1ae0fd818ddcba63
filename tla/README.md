# FluxRoute: TLA+ specifications

FluxRoute runs plans of agent calls: a manifest becomes a dependency graph, an
engine executes the graph level by level with a worker pool, retries and
per-agent circuit breakers, and leaves a trace that can be replayed.  Runs can
be kept apart by a lease, and a control plane keeps tenants, metered usage and
billing.  This directory models the parts of the program whose correctness
depends on interleaving, failure or arithmetic limits, checks them with TLC on
small instances and proves their safety properties with TLAPS for all instances.

All paths below are relative to the repository (`internal/...`).

## The system and what is modelled

| part | code | module | status |
|---|---|---|---|
| circuit breaker | `internal/retry/circuit_breaker.go` | `Circuit`, `CircuitBreaker`, abstract `BreakerModes` | modelled, proved |
| plan graph | `buildGraph` in `internal/router/router.go` | `PlanGraph` | modelled, proved |
| execution engine, registry | `internal/router/router.go`, `internal/agent/registry.go` | `Engine`, abstract `PlanOutcome` | modelled, proved |
| trace recorder, metrics recorders | `internal/trace/recorder.go`, `internal/metrics` | in `Engine` | modelled, proved |
| backoff | `BackoffDuration` in `internal/retry/retry.go` | in `Engine` | modelled, proved; `Execute` has no caller |
| replay and comparison of traces | `internal/trace/replay.go`, `debug.go` | `TraceReplay` | modelled, proved |
| manifest, settings and plan | `internal/config`, `buildExecutionPlan`, `NewEngine`, `pkg/sdk/sdk.go` | `Pipeline` | modelled, proved |
| Redis lease | `internal/coordinator/redis.go` | `RedisCoordinator`, abstract `LeaseLock` | modelled, proved |
| in-memory lease | `internal/coordinator/coordinator.go` | `MemoryCoordinator` | modelled |
| file lease | `internal/coordinator/coordinator.go` | `FileCoordinator` | modelled |
| commands, router server | `internal/app/run.go`, `server.go`, `cmd/cli`, `cmd/router` | `RunManifest` | modelled, proved |
| audit log, metrics endpoint, exporters | `internal/audit`, `internal/metrics/prometheus.go`, `internal/trace/otel.go`, `astragraph_exporter.go` | in `RunManifest` | audit log modelled and proved, others partly |
| control plane, billing, RBAC | `internal/controlplane`, `internal/billing`, `internal/security/rbac.go` | `ControlPlane` | partly, what is modelled is proved |
| provider adapters, TLS, scaffold and others | `pkg/adapters`, `internal/security/tls.go`, `internal/scaffold` | none | see [Not modelled](#not-modelled) |

How the parts interact: a command, in the router server or in a process of its
own, loads a manifest and turns it into a plan, takes a lease
(`acquireLeaseIfEnabled` chooses the coordinator), opens the metrics endpoint,
calls `Engine.RunPlan`, writes the trace, gives everything back, appends an audit
record and answers.  `RunPlan` calls `buildGraph`; `executeNode` calls the
registry, the breaker, the recorder and the metrics.  Programs may also call the
engine through `pkg/sdk`.  The control plane is a server of its own.

The modules compose the same way: `Engine` and `Pipeline` extend `PlanGraph`,
`Engine` uses the operators of `Circuit`, and `TraceReplay` works on the traces of
`Engine`.  The leases of `RunManifest` in Redis are those of `LeaseLock`, which
`RedisCoordinator` is shown to implement; its file and memory leases may be held twice,
as `FileCoordinator` and `MemoryCoordinator` show.

### Circuit, CircuitBreaker, BreakerModes

`Circuit` is one entry of `CircuitBreaker.states` and three functions on it,
one for each method: every method holds `cb.mu` throughout.  The constant-level
operators are used by both `CircuitBreaker` and `Engine`, so the breaker that is
proved correct is the one the engine uses.

`CircuitBreaker` adds the goroutines.  A caller reads the clock (`Attempt`),
calls `Allow` (`Allow` or `Reject`), runs the agent and records the outcome
(`RecordSuccess`, or `CallFails` then `RecordFailure`).  Reading the clock is a
step of its own because `time.Now()` is an argument, evaluated before the method
takes the mutex.  Callers of one agent may have different thresholds and reset
timeouts: the policy belongs to the plan node, the entry to the agent.  A
threshold of 0 disables the breaker for that caller.  `streak` and `calls` are
history variables.

`BreakerModes` is the promise: a machine of three modes per agent (closed, open,
half-open).  `Diagram` has the edges of the state diagram in the repository's
README.md and no others; `Spec` adds the outcomes of calls that the circuit did not
admit in its present mode (`LateSuccess`, `LateFailure`).  The code implements `Spec`
and not `Diagram`.

### PlanGraph

`CheckPlan` is the validation (empty plan, empty, duplicate, unknown and self
dependencies, in the code's order), `NextLevel` a round of Kahn's algorithm,
`GraphDone` the cycle test.  `inDegree` counts list entries, not distinct
dependencies, as the code does.

### Pipeline

`Pipeline` extends `PlanGraph` with what comes before it.  For a manifest:
`LoadManifest` makes the loader's checks, `OrderStep` and `OrderDone` are
`OrderedPipeline`, and `BuildPlan` is `FromEnv`, `RouterConfigFromManifest`,
`buildExecutionPlan` and `NewEngine`.  The loops of `OrderedPipeline` that collect the
roots and the children of a step are `Picked`: the steps at some positions, in the
order of the manifest.  For a program of the Go SDK: `RunPlan`, with
`NewRuntime`.  `BuildGraph` takes the steps of `PlanGraph`.  A setting is absent,
malformed or a number; `BreakerAt` and `AttemptsAt` are what `executeNode` finally
makes of a node's policies.  The second call of `OrderedPipeline`, in
`buildExecutionPlan`, repeats the first and is not modelled again.  Error texts of
the loader are reduced to the group of checks that failed, and the checks of
namespace and roles to their verdict.  IDs are positions: with up to 9999 steps
the order of the strings is theirs.

### Engine, PlanOutcome

`Engine` extends `PlanGraph` and `Circuit`.  The goroutine of `RunPlan` builds
the graph, dispatches a level (`Dispatch`: skip, or spawn), waits for it and
collects it (`CollectLevel`), and finally sorts results and trace
(`FinishPlan`).  The goroutine of a node takes a pool slot and looks its agent up
(`StartNode`), asks the breaker (`Allow`), calls the agent (`CallSucceeds`,
`CallFails`), waits between attempts (`BackoffElapsed`, `BackoffCancelled`) and
sends its result (`Return`).  Cancellation of the caller's context can happen at
any time, and so can the registration of an agent (`Register`).  An engine may
execute several plans: circuits start as an earlier plan may have left them
(`PriorCircuits`).

What one attempt does to breaker, metrics and trace is one action: the three have
separate locks, and none of them reads another.  The order in which nodes append
their steps is free, and so is the order of breaker updates.  Metrics are counted
in total and per agent.  An error is a record of its `AgentError` mark and its
cause; `normalizeInvocationError` and `shouldRetry` are translated on these.
`Wait` is the length of a backoff in integers of `Width` bits; when its timer
fires is left to the scheduler.  Payloads, durations and spans are left out.  One
`RetryableErrs` set and one reset timeout stand for all policies.  Sorting is
modelled by rank: a step's place in the returned trace is the number of recorded
steps that come before it (`PlaceOf`, `Finalize`), and the results are those of the
IDs in order (`SortedIDs`).  Time is read
when it is used: stale readings are the subject of `CircuitBreaker`.

The context a plan gets has no deadline (`run.go` passes `context.Background()`), so
its error is a cancellation; an SDK program that passes a deadline is left out.

`KindOf` says what an agent does: one of the kinds of `deterministicAgent`, which
are all a manifest can name, or "any" for an agent with free outcomes.

`PlanOutcome` is the promise: every invocation is decided once, after its
dependencies, and is skipped exactly if one of them did not succeed.

### TraceReplay

Operators on the trace the engine returns: `ReplayAndCompare` with newly made
agents, and `Compare` of two traces.  An output is compared by the attempt number
it contains, an error by its text.  `ReferenceTrace` is computed from the plan and
the agents' kinds alone, without the engine's steps, and is what a trace, a replay
and a comparison are measured by.  `Deterministic` plans are those of a manifest: every
step has an agent of its own, registered and of a deterministic kind, circuits are new
because a run makes its own engine, and no policy has a list of retryable errors because
a manifest cannot give one.

### RunManifest

The commands `run`, `validate` and `replay`, each in the router server or in a
process of its own, several at a time on one host.  `Start` to `Answer` is one
command; `defers` is the list of deferred calls, unwound in reverse.  `Serve` is
the goroutine of the metrics server: a `Shutdown` that comes before it enters
`Serve` leaves the listener to it.  `OpenTrace` and `WriteTrace` are the two halves
of `os.WriteFile`; a replay reads the file at any time.  `LineWritten` is what an
append leaves in the audit log when it succeeds, breaks off, or loses its line end;
`ExportJSONLToCSV` gives the rows of the export.  `Told` is the status or exit code.
A lease is per namespace and `holders` has the runs whose lease has not expired; it
can expire under a run, and `overran` remembers that.  `mode` is the coordinator.  In
Redis a lease has one holder.  A memory coordinator is the run's own, so its lease is
always free.  A file lease may be given to a second run (`SeizeLease`): it takes the
lock file for expired before its deadline is written, or finds it removed by a run
whose lease had expired.

Every step that can fail may fail.  A process may die at any time (`Crash`), and the
server with all its requests (`Exit`).  `Exit` also stands for a SIGTERM: `Shutdown`
closes the listener first, `ListenAndServe` then returns at once and `main` with it,
so handlers are not waited for.

### Lease, LeaseLock and the coordinators

`Lease` holds what the coordinators share.  Time is counted down, so it is
unbounded although the state space is finite.  `LeaseLock` is the promise: at
most one unexpired holder.

- `RedisCoordinator`: server and clients.  A command may be lost, its reply may
  be lost (the key stays behind), the library may send the command again, a
  client may crash.  `Release` is the compare-and-delete script.  Client and
  server count time alike: clock drift and the travel time of a reply, which
  would shorten the lease from the server's view, are left out.  128-bit tokens
  are taken to be unique among those in use (`Fresh`).
- `MemoryCoordinator`: `CoordinatorOf` says which object a client uses.  The program
  never shares one between runs.
- `FileCoordinator`: one step per file-system call.  `late` remembers whether the
  deadline had passed when the loop read the clock, which `expired` is given.

### ControlPlane

Each method of `Service` is one step; `AddUsage` is two, because it reads the
clock before `AddUsageAt` takes the lock.  A client may walk through the pages of
the tenant list or of the usage rows, one request per page; the rows of a page are
those whose rank in the sorted list lies between its bounds (`Rank`, `Page`).
`int64` has `Width` bits and wraps; `Total` is the loop that adds up a column of
numbers, wrapping at every addition.  Left out: the request counter behind `/sla`, the `q` filter, CSV
layout, TLS and listeners, and page numbers near the largest int.

## Runs

A passing run explores its instance completely.

| run | shows | states |
|---|---|---|
| `breaker_mixed` | `ProbeHasOwner`, `StreakOpens`, `ProbeResolves`, `ImplementsModes` | 166 000 |
| `plan_graph` | `CycleReportedIffCyclic`, `LevelsSound`, `PlanVerdict`, `PlanFollowsManifest`, `SettingsUsable`, `PipelineTerminates` | 46 000 |
| `engine_runs` | `SendNeverBlocks`, `TraceExplainsResults`, `BreakerSettles`, `MetricsMatchTrace`, `BackoffSpreads`, `RunsRepeatable`, `ReplaySound`, `CompareTellsResults`, `PlanReturns`, `ImplementsOutcome` | 441 000 |
| `redis_lease` | `LiveExclusion`, `OnlyOwnerReleases`, `ImplementsLock`, `KeyNotWedged` | 21 000 |
| `file_lease` | `FileNotWedged` | 84 000 |
| `control_plane` | `MonthsAddUpToUsage`, `ClosedMonthFinal`, `WalkMissesNobody` | 1 207 000 |
| `run_lifecycle` | `LeaseGuardsPort`, `TraceFileWhole`, `AuditMatchesRun`, `RunsReturn` | 1 443 000 |

All but the file lease also check their module's type invariant, which
holds the bounds of the module too: attempts and pool slots in `Engine`, in-degrees in
`PlanGraph`, one holder of a Redis lease in `RunManifest`, counter ranges and usage of
known tenants only in `ControlPlane`.

Five runs end in a violation.  Each states what the repository says of the
program and shows a behaviour of the code that disagrees:

- `breaker_diagram` (`FollowsDiagram`): the state diagram of README.md leaves Open only
  when the reset timeout has elapsed, with "exactly 1 probe", and reaches Closed only
  by its success.  An entry does not say whose outcome it waits for, so the success of
  a call admitted before the circuit opened closes it at once.  For the same reason a
  late outcome ends half-open while the probe runs, and after the next reset timeout a
  second probe may run beside it.  `ImplementsModes` shows that these late outcomes
  are all that is missing from the diagram.
- `replay_confirms` (`ReplayConfirms`): "Replay either confirms determinism or surfaces
  exact divergence points" (docs/runbooks/incident-replay.md).  The run is
  examples/enterprise-workflow, whose README.md replays it: `flaky_ingest` succeeds on its
  second attempt, replay makes one call with a new agent and reports an unexpected
  error, although every undisturbed run records the same trace (`RunsRepeatable`).
- `memory_per_run` (`LiveExclusion`): every run makes its own memory coordinator,
  so two runs of one process both get the lease.
- `file_exclusion` (`LiveExclusion`): a lock file is empty between its creation
  and the write of its deadline; another process takes it for expired and removes
  it.  No fault is needed.
- `invoice_months` (`InvoiceReconciles`): an invoice bills the running total, the
  summary a month; they differ from the second month on.

What else the models show of the code:

- `ReplaySound`: a replay stops at the first invocation whose last step one call of a new
  agent does not repeat, and at no other.  Besides one that succeeded on a retry, this is
  one that was skipped, refused by its circuit or panicked (replay words the error
  differently).
- `CompareTellsResults`: a comparison shows every result that differs from that of
  an undisturbed run, except that of an invocation which fails either way and was
  cancelled while it waited to be retried: no step records the cancellation.
- `LeaseGuardsPort` and `TraceFileWhole` are about runs coordinated by Redis: the other
  two coordinators do not keep runs apart.
- `LeaseGuardsPort`: the metrics port may still be bound when the next coordinated
  run gets the lease, if the server was stopped before its goroutine ran.
  Namespaces have leases of their own and share the port and the trace file.
- `TraceFileWhole` needs that no lease runs out: nothing renews a lease, so a run
  longer than its ttl can overlap the next one.  After a run has released its lease
  the next one may truncate the file, so a later replay can find it empty.
- `AuditMatchesRun`: a run whose invocations fail is recorded as a success; the exit
  code says otherwise unless `--json` is given, the server's answer never does.  One
  broken line of the log hides all records after it from the export.  Of a client that
  gives up waiting only this is shown: its run is recorded all the same.  Usage that it
  posts again is counted twice, which no property is about.
- `MonthsAddUpToUsage`: the running total and the months wrap together; past the range
  of the counter a total is negative.
- `PlanVerdict`: an ID the SDK generates may be one the caller gave to another node.
- `SettingsUsable`: a `default_timeout` of zero or less in the manifest hides the one
  of the environment; `NewEngine` then takes its own default.
- `BackoffSpreads`: waits grow until the ones already waited add up to the range of a
  duration, so the overflow of the shift is never felt.
- a malformed `router.default_timeout` passes `ValidateManifest` and stops the run
  later (`BuildPlan`).
- an error that wraps a deadline loses a non-retryable mark around it when
  `normalizeInvocationError` formats it with `%v`.
- a retry is counted before its backoff, so a cancelled wait leaves a counted retry
  without an attempt: `MetricsMatchTrace` counts the failed calls that the policy
  would repeat, not the attempts that followed them.
- `ClosedMonthFinal`: a month's summary may still change after the month has ended, by
  a request that read the clock before its end and took the lock after it; only when
  none of these is left is the summary final.

### Bounds and why they are enough

- `breaker_mixed`: three callers of one agent (agents do not interact) with
  thresholds 2, 1 and disabled; the clock runs long enough for a circuit to open,
  be probed, re-open and be probed again while an early call is still in flight.
- `plan_graph`: every plan of three nodes with up to two dependencies each
  (repeated, self and unknown ones included), every plan of four nodes with at
  most one, and every assignment of empty, equal or different IDs to up to three
  nodes; cycles of length two to four and up to four levels occur.  Every manifest
  of up to three steps over three agents, with empty, repeated, unregistered and
  unknown names; cycles of two and three steps, alone and beside a root, occur.
  Settings absent, malformed, negative, zero and positive in environment, manifest
  and agent; SDK programs with three nodes whose IDs are left out, repeated or equal
  to generated ones.
- `engine_runs`: three nodes for a pool of two, so one must wait; attempts 3, 2 and
  1 and thresholds 1, 2 and disabled on one agent, so a circuit opens, is probed
  and re-opens between retries; a diamond of three levels whose last node has two
  dependencies that fail independently.  Two plans of built-in agents: in one a
  step succeeds on its retry, one is refused by its circuit, one panics and one is
  skipped; the other replays without a divergence when its slow agent is left out.
  A plan on circuits that are closed, have counted a failure or are open already; a
  plan whose agent `x` may be registered too late.  For each backoff strategy a call
  of 14 attempts with durations of 12 bits, which the exponential ones overflow.
- `breaker_diagram`: two callers are enough; `replay_confirms`: the plan of the example.
- leases: three clients and a ttl of two ticks, so a lease expires
  while its holder works and another client takes over; two faults, so a crash can
  follow a lost reply.  Two clients and no fault are enough for the violations.
- `run_lifecycle`: two commands: runs in the server (in one namespace and in two), in
  processes of their own, or one of each; a run and a replay; a run and a validation.
  Everything switched on with the Redis lease; everything but coordination; the file
  lease with the metrics port; the memory lease with nothing else; and the Redis lease
  with a trace file but without the metrics port, which would keep the runs apart as
  well as the lease does.  Two commands are enough for a conflict over lease, port, file or
  log line; a command is not repeated.
- `control_plane`: two clients, two usage events that overflow the 4-bit counter,
  three clock readings in two months, so an event can be stored after the month in
  which it was stamped, three tenants (`MaxTenant`: IDs are 1, 2, 3) and
  pages of one to three rows of both lists.  Clients are symmetric; only safety is checked.

### Fairness

- Goroutines that can run do run, mutexes are eventually granted and timers fire
  (`WF` on each caller's or node's steps).  Agent calls end because `executeNode`
  gives each a context with a timeout; an agent that ignores its context is outside
  the model.
- Leases: time passes (`WF(Tick)`), a polling client polls again, and a run that
  holds a lease ends.  No fairness is put on starting, cancelling, or on faults,
  and faults are bounded.
- Commands: each command's next step and the metrics goroutine are scheduled, and
  leases expire because each has a ttl.  None on starting, crashes, the server's
  exit, a failing coordinator or one that gives a lease twice.  A run that waits for a lease gets it because
  finitely many runs are ahead of it.
- `MemoryCoordinator` and `ControlPlane` are checked for safety only.

## Proofs

The theorems hold for all values of the constants that satisfy the named `ASSUME`s of
the modules, which TLC evaluates in the runs: thresholds and reset timeouts are
integers, a ttl is an integer, `NoToken` is not a token, plans are sequences of nodes
with natural IDs and integer policies, pool sizes are positive, calls, requests,
manifests, environments and SDK programs have their fields (`LaunchesAssumption`,
`SDKCallsAssumption`).  Three of them say more.  `PriorAssumption`: the circuits an
earlier plan left behind are well formed and not half-open, which is what
`CircuitsSettle` proves of a plan that starts so; hence it holds for any number of
plans after one another.  `AgentErrorsAssumption`: agents do not return the engine's own
errors for a skipped, refused or unregistered invocation.  Two of these `router.go` makes
in place and the third wraps a value of `internal/retry`; the properties of the trace
recognise such invocations by their errors.
`DurationAssumption`: a Duration has room for more than two base intervals, which 64 bits
have.  It also states how the powers of two are made from each other, and
`ControlPlaneAssumption` that `2^(Width - 1)` is a positive number, since the provers know
nothing of powers.

`CircuitBreakerProofs`, for any number of agents and callers: `TypeCorrect`,
`HalfOpenHasProbe` (`ProbeHasOwner`), `ClosedOwesNoTrip` (`StreakOpens`),
`BreakerImplementsModes` (`ImplementsModes`).
The inductive invariant `IInv` adds to the type invariant and `ProbeHasOwner`
that a half-open entry has no failures and no deadline (`HalfOpenClean`, so that
the three modes exclude each other), that only callers with a positive threshold
are probes (`ProbesEnabled`: otherwise the owner's failure would be ignored and
the probe flag would outlive it), that the count of an entry that is
not open is the streak (`CountIsStreak`), that a count is below some caller's
threshold (`CountBelow`), that an open circuit waits for no call it admitted
(`OpenAdmitsNone`) and that no clock reading is ahead of the clock (`ReadingsPast`).
The last two are for the refinement: a probe is admitted when the reset timeout is over
although its reading may be old, and an outcome recorded in an open circuit is late.

`EngineProofs` begins with `PlanGraph`, for every plan: `LevelsCorrect` (`LevelsSound`), `CyclesFound`
(`CycleReportedIffCyclic`), `GraphTypeCorrect` (`GraphTypeOK`).  The heart of its
invariant is `Counted`: the in-degree of a node is the number of entries of its dependency list
that no level has yet, and it is zero for exactly the nodes that have a level or are
in the queue.  A round takes from the in-degree the entries it places, which is where
repeated entries matter (`Decremented`).  `Ordered` is `LevelsSound` during the
construction.  For the cycle: when the queue is empty and nodes are left, each of them
waits for another one that is left, so they are a set in which everybody waits for a
member; and a set like that never gets a first node placed.

Then the engine, for every plan, pool, policy and behaviour of the agents, with these
theorems for the levels: `SendsNeverBlock` (`SendNeverBlocks`) and
`OutcomeImplemented` (`ImplementsOutcome`).  `EInv` says that levels are executed one
after the other (`InLevels`), that the results of earlier levels have been collected
and those of this one are in the channel (`Collected`), and that results in the
channel, nodes to dispatch and nodes under way are together the nodes of the level
(`Room`).  Most steps of a node change only attempts, circuits, metrics and trace,
which the invariant does not mention; lemma `Moves` reduces `Next` to the few kinds of
steps that are left.  For the refinement, `dependencyError` looks at `resultsByID`, and
`Collected` with `Ordered` makes this the outcomes of the dependencies, all decided
(`DepsDecided`).

On top of it `Values` gives the types of circuits, errors, metrics and steps, and
`Bounds` what relates them: attempts and outcomes of a goroutine at each of its steps
(`Limits`), the number of used slots is the number of running nodes (`Pool`), and a
half-open circuit has a goroutine that is calling the agent with a breaker of its own
(`Probes`), so that the outcome of the call ends half-open.  This gives `EngineTypeCorrect` (`TypeOK`) and, as no goroutine is left
when `RunPlan` returns (`Over`), `CircuitsSettle` (`BreakerSettles`).

`WaitsGrow` (`BackoffSpreads`) is about the arithmetic of `BackoffDuration`, for every
strategy, width and number of attempts.  A wait is what exact numbers give as long as this
fits in a Duration (`Exponential`, `LinearSpreads`).  Exact waits grow, and none exceeds
the sum of those before it by more than two base intervals (`Paced`).  So when the first one
no longer fits, the waits before it have already added up to the range of a Duration less
two base intervals (`Spreading`), and what the wrapped waits are after that is not felt.

`EngineTraceProofs`, for the same instances: `MetricsAccount` (`MetricsMatchTrace`) and
`TraceAccounts` (`TraceExplainsResults`).  For the first, every counter is the number of
recorded steps of a class (`Tallied`), and each action that records a step raises the
counters of exactly the classes of this step.  For the second, `Story` says what the
steps recorded so far tell of a node: no two have the same attempt (`Distinct`), the
attempts are 1 up to the present one (`History`), the last of them fits the goroutine's
state and its result, the earlier ones failed (`Fitted`), and a node is skipped exactly if
its result is the dependency error (`Skips`).  That sorting keeps this is a lemma about
`Finalize`: when no two steps are equal in the order, ranks are a bijection, so the
sorted trace has the same members and is strictly ordered.

`TraceReplayProofs`, for every plan of a manifest, any pool and interleaving: `RunsAlike`
(`RunsRepeatable`), `ReplayVerdict` (`ReplaySound`) and `CompareExact`
(`CompareTellsResults`).  From an agent's kind and a node's policies follow the error of
each attempt (`TryErr`) and which attempt is the last (`LastTry`).  `OnCourse` says that in
an undisturbed run every node is where this puts it, with the circuit its failures have
made (`Foretold`); no other node touches that circuit, because every step has an agent of
its own.  `Justified` says that a node was skipped exactly if a dependency did not succeed,
so by the order of the levels the outcomes are those of the recursion `Reached`.  Together
they give the steps of each node when `RunPlan` returns, and with them what a replay finds.
For `CompareExact` the run may be disturbed: `Punctual` says that even then an agent
succeeds only with the attempt with which it always does, since an error of the context
ends the retries; a success is thus the same step in both traces.

`PipelineProofs`, for every manifest, environment and SDK program: `ManifestsAccepted`
(`PlanVerdict`), `PlansFollow` (`PlanFollowsManifest`) and `ConfigUsable`
(`SettingsUsable`).  For a manifest, `Kahn` is the invariant of `OrderedPipeline`: no step
is queued twice, and a step is queued once the one it depends on has been ordered.  When
the queue is empty, the steps left over wait for one another, or there are none
(`OrderEnds`).  The plan of the ordered steps is `Layered`: IDs are positions, and a node
depends on one earlier node at most.  `Levelled` shows that `buildGraph` then finds neither
an invalid node nor a cycle.  For an SDK program a repeated ID comes from the caller: IDs
that are generated differ from each other, so there are fewer given IDs than nodes with one,
or a generated ID was given to another node (`RepeatedID`).  `NewEngineUsable`,
`RuntimeFacts` and `PolicyFacts` follow a setting through its layers.

`CoordinatorProofs`, of the Redis coordinator, for any number of clients: `RedisTypeCorrect`, `ExclusiveLeases`
(`LiveExclusion`), `OwnerReleases` (`OnlyOwnerReleases`), `RedisImplementsLock`
(`ImplementsLock`).
`IInv` is the type invariant, `TokensUnique` (two clients never have the same
token) and `LiveOwnsKey` (as long as a client's lease is alive the key holds its
token and has the same time left).  The last two together give exclusion: two live
holders would have their different tokens in one key.

`RunManifestProofs`, for any number of commands, processes and namespaces: `PortGuarded`
(`LeaseGuardsPort`), `TraceWhole` (`TraceFileWhole`), `AuditTrue` (`AuditMatchesRun`) and
`CommandsTypeCorrect` (`TypeOK`).  `IInv` says what the list of
deferred calls is at each point (`StackMatches`), that a server that has not been
stopped has its stop still on the list (`ServerMatches`), and that a run with the
release on its list holds its lease unless a lease has run out, and in Redis holds it
alone (`LeaseMatches`).  Since the stop comes off the list before the release, no other
run coordinated by Redis can be at the port or in the file in between.
For the audit log, `Reported` relates what a command returned to what its caller is
told, `Logged` says that each line is of another command, which has ended with the status
the line tells, and `Saved` that a run whose trace file no other run has opened finds its
own trace there.  A line that lost its end is joined to the next one; neither is a record
then, and the export stops before it.

`ControlPlaneProofs`, for any number of clients, tenants, events and months, any width
and any page size: `ServiceTypeCorrect` (`TypeOK`), `WalksComplete`
(`WalkMissesNobody`), `MonthsClose` (`ClosedMonthFinal`) and `UsageBalances`
(`MonthsAddUpToUsage`).  `Typed` bounds usage and events.  `Ahead` is the invariant of a
walk: a row that it owes its client has been seen, or has at least as many rows before it
as the pages read so far hold.  Ranks only grow because rows are only added, and the page
that is read next takes all rows whose rank it covers.  `Balanced` is the property for
every ID.  Adding an event changes one month of one tenant and its running total by the
same number, and a sum of wrapped numbers is the wrapped sum, whatever order it is taken
in (`Total`).

Facts about a loop or a recursive function, which would be proved by induction, are
proved from the smallest counterexample: `LeastNumber` or `Least` takes it from the
well-foundedness of the order on naturals, which is a theorem about sets and has no
operator as parameter.  This way `SumsExist` shows that the function which `Total` defines
exists.

Only model-checked: everything temporal under fairness (`ProbeResolves`, `KeyNotWedged`,
`FileNotWedged`, `PlanReturns`, `PipelineTerminates`, `RunsReturn`), which TLAPS cannot
prove, and the in-memory and file coordinators, whose exclusion fails.  Every invariant,
action property and refinement of a passing run has a theorem.

## Not modelled

- Provider adapters (`pkg/adapters`, `pkg/sdk/provider_agent.go`) and the request
  builders of the Python and TypeScript clients translate one request into one HTTP
  call and keep nothing: there is no state to check.
- TLS, scaffold, flag parsing, demos and the printed summaries are input and output.
- What the OpenTelemetry and AstraGraph exporters send; only whether they fail counts
  for a run.  Durations, payloads and the Prometheus histograms, on which no control
  depends.
- Error texts, CSV layout, the `q` filter and the request counter of `/sla`: data that
  nothing in the service reads back.
- Page numbers near the largest `int`, whose offset wraps: only the offsets of a
  client's walk are modelled.
- `retry.Execute`, `internal/channel` and `internal/state` have no caller in the program.
- Starvation: nothing queues the clients of a lease, so a waiting one may be passed by
  for ever in every coordinator; the properties promise progress of somebody.  A
  directory in which removing an expired lock file fails for ever is an environment in
  which no file lease can be promised.
