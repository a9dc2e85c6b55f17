# Verification of the fleet intelligence agent

TLA+ specifications of the parts of the agent in which processes, goroutines
and remote services meet: the metadata table that the daemon and the command
line share, the workflows that use it, the loops, caches and locks inside the
daemon, its way from enrollment and configuration to a served socket, its
shutdown, and the authenticator of the OpenTelemetry collector distribution.
TLC checks small instances; TLAPS proves every safety property of the passing
runs for every instance.

`PROJECT.json` lists components, runs, mutants, theorems and hazards, and maps
every definition to the lines it models.

## The system

`fleetint run` is a daemon on a GPU node.  `fleetint enroll` and `fleetint
unenroll` are short-lived processes beside it.  They communicate through one
SQLite file, the table `gpud_metadata`; a statement is atomic and nothing spans
two statements.

| Part | Source | What it does |
|---|---|---|
| agent identity | `internal/agentstate/sqlite.go` | creates the agent UUID once per machine |
| agent state | `internal/agentstate` | reads and writes the rows of the enrollment |
| enrollment | `internal/enrollment`, `cmd/fleetint` | exchanges the SAK (the service account key) for a JWT, stores the rows; unenroll removes them |
| precheck | `internal/precheck`, `internal/dcgmversion` | decides whether a machine may be enrolled |
| configuration | `internal/config`, `internal/endpoint`, `cmd/fleetint/run.go` | defaults, environment, file and flags, validated; the rules for endpoints |
| component selection | `internal/config`, `internal/registry` | which components the daemon registers and reports |
| health exporter | `internal/exporter`, `internal/exporter/writer` | each interval: reads the configuration, collects, sends metrics and logs with retries |
| data collection | `internal/exporter/collector` | assembles an export; caches the machine information |
| attestation | `internal/attestation` | nonce, evidence, submission; in a loop with timeouts |
| inventory | `internal/inventory` | upserts the node with its placement and configuration; the same loop, and once at the end of enroll |
| workload metrics | `internal/workloadmetrics` | reads the scheduler's job files at every scrape |
| server | `internal/server`, `cmd/fleetint/run.go` | starts and stops everything; HTTP API on a unix socket |
| collector authenticator | `otelcol/auth/sakauth` | adds the JWT to concurrent exports of a collector, refreshes it on 401 |
| the rest | converter, validator, scan, machine information, HTTP handlers, other commands | see "Not modelled" |

The exporter, the two loops, the workload metrics, the HTTP server and the
signal handler are goroutines of the daemon.  The workflows do not talk to each
other, but each of them reads rows that the others and the commands write.

## Modules

| Module | Models | State | Actions |
|---|---|---|---|
| `AgentMetadata` | the rows and the statements on them | `sakToken`, `token`, `baseURL`, `legacy`, `placement` | `SetSAK`, `SetJWT`, `SetBackendBaseURL`, `SetNodePlacement` (used by the workflows) |
| `Enrollment` | enroll, unenroll | `cli`: the running command | one per statement; `EnrollAborts` for an error or a kill between two; `Unenroll` |
| `Exporter` | one export cycle | `exp`: configuration kept in memory, and the locals of a cycle | one per read, HTTP exchange and write |
| `Attestation` | one workflow | `att` | one per read, exchange and write |
| `Inventory` | one export | `inv[w]` for the loop and the command; `assigned[b]`: what a backend has | as above |
| `FleetAgent` | all of these together | and `config` (what is switched on), `unaware` and `torn` (history) | `ExporterStep`, `AttestationStep`, `InventoryLoopStep`, `CliStep`, `DaemonRestart` |
| `ExportCycle` | exporter and commands, with the full retry policy | | `ExporterTurn`, `CliTurn` |
| `AgentIdentity` | `GetOrCreateAgentUUIDMetadata` | `row`, and `pc`, `candidate`, `result` of each caller | one per statement, `StatementFails`, `Restart` |
| `WriteOnceRegister` | the abstract specification of the identity | `val`, `learned` | |
| `AttemptLoop` | `Run` and `runAttempt` of the two managers | `run`, `round`, `runMu`, `worker`, `lastResult`... | steps of the loop, steps of the worker goroutines, `Cancels` |
| `ServerShutdown` | `New`, `Stop`, `startServer`, the signal goroutine; extends `AttemptLoop` | `boot`, `opened`, `stopBody`, `caller`, `closes`... | steps of `New` and of `Stop`, requests, signals |
| `HealthCollection` | `Collect` and the machine information cache | `cached`, `stale`, `refreshing`, `slot` (refresh goroutines), `collect` | steps of both |
| `SakAuth` | `RoundTrip` and `refreshJWT` | `jwt`, `refreshMu`, `req`; of the backend `issued`, `age` | steps of a request, answers of the backend |
| `DaemonConfig` | environment, flags, offline mode, `Validate`, endpoint rules | none: operators on one record | |
| `Precheck` | `CollectInput`, `Evaluate`, the DCGM version comparison | none | |
| `ComponentSelection` | `ShouldEnable` and `ShouldDisable` with the sets they memoise, the registration loop, the reported list | `asked`, `selected`, `registered` of each daemon | `Asks`, `Forgets` |
| `ServerSocket` | the socket part of `startServer`, `removeStaleSocket`, the listener's close | `path`, `listening`, `step[d]` | one per system call; `SetupFails`, `Killed` |
| `JobMapping` | a scrape of the job files beside the scheduler | `dir`, `devices`, `scrape`, `series` | `ReadDirectory`, `ReadFile`, `Emit`, `JobsChange` |
| `NodeBringup` | the last five together: enroll, and daemons from their configuration to serving | `host` (the scenario), `enrolled`, `stored`, `cfg[d]`, `report` | `enrollCommand`, `Launch`, `runCommand`, `RegisterComponent`, `New`, `startServer`, `SyncInventory`, `Stop`, `Exit`, `Fail`, `Collect`, `Schedule` |

The modules named `...Proofs` hold the theorems: those of `AttemptLoop` are in
`ServerShutdownProofs`, those of `ExportCycle` in `ExporterProofs`, which
`FleetAgentProofs` extends, and the lemmas about the five parts of `NodeBringup` in
`BringupPartsProofs`, which `NodeBringupProofs` extends.  `MC*` modules and the `.cfg`
files give the constants their values.  Definitions commented "Mutant" are
faulty variants of the definition that follows; each property is violated when
its mutant replaces the original.

Data is reduced to what decisions depend on.  A SAK, a JWT and a base URL are
represented by the backend they belong to, so that mixing backends is visible;
whether a JWT has expired is a choice of the backend.  Missing and empty rows
are one value where readers cannot tell them apart (`AgentMetadata`) and two
where they can (`AgentIdentity`: the upsert can).  Payloads, evidence and
snapshots have no content.  In `NodeBringup` a URL is the seven facts that the
endpoint rules look at, a version the sequence of its numbers, a duration a
number of milliseconds, and a setting that does not parse is `Invalid`.

External are the backend, the gateway, SQLite, systemd's `EnvironmentFile`, the
kernel's sockets, DCGM and the scheduler that writes job files.  A backend may
accept only tokens it issued; it may reject any, return a new one with any
accepted request, or fail.  It may resolve the placement that a node asks for to
another one (`Resolve`), always to the same one, and leaves alone what it has
resolved (`ResolveSettles`: otherwise the placement would change with every
export, and nothing could be said of it).  Timeouts are steps that may happen at any moment of
the wait.

## Runs

Times are for four workers.

| Run | States | Shows |
|---|---|---|
| `identity` | 29 k, 5 s | Three processes, failing statements, two restarts: all learn one UUID (`Agreement`), it is never replaced (`WriteOnce`), the second read always finds it (`InsertCommits`), the protocol implements a write-once register (`RefinesRegister`), callers end (`CallerFinishes`). |
| `agent` | 819 k, 30 s | Exporter and either loop beside two commands and one failure or restart: a base URL always has a SAK and a JWT, and the SAK is of its backend unless an enroll is, or was, cut short between its statements (`EnrolledIsComplete`); a cycle that starts unenrolled sends nothing (`UnenrolledIsSilent`); without commands, backends are never mixed (`SettledStays`). |
| `agent_live` | 228 k, 55 s | After a re-enrollment every workflow ends up with credentials of the new backend, whatever a late workflow stored (`Converges`).  With placement flags, the loop and the sync of enroll writing the placement, and a backend that resolves some of them to others, machine and backend agree at last (`PlacementConverges`). |
| `export` | 610 k, 42 s | Three attempts per payload, directly or through the gateway, rows changing meanwhile, four failures: every request and SAK exchange is accounted for by the loop's variables, and their number is bounded (`WorkIsBounded`); every cycle ends (`CycleFinishes`). |
| `collection` | 159 k, 34 s | Overlapping collections and failing refreshes: one refresh at a time (`OneReader`), a woken collection finds data (`WaitPaysOff`), the cache never goes back (`CacheInOrder`) and is renewed (`Renewed`). |
| `shutdown` | 184 k, 52 s | `New` failing at any step, three callers of `Stop`, a loop with three attempts whose workers outlive them or hang, requests: everything opened is closed, once (`ClosedOnce`, `StopReturnsWhenClosed`), after loops and requests unless they outlast the limits (`LoopsExitedFirst`, `RequestsDrained`); a signal ends the process (`SignalEndsProcess`).  Workflows never overlap (`OneWorker`), the lock is held exactly while one runs (`LockFollowsWorker`), a success is that of the attempt reported (`SuccessIsFresh`), attempts go on (`AttemptsGoOn`), a cancelled loop exits (`ExitsWhenCancelled`). |
| `sakauth` | 87 k, 20 s | Three concurrent exports, answers in any order: the token only gets newer (`NeverOlder`), is refreshed once (`OneRefreshPerToken`), retries use a newer one (`RetryUsesNewer`), the lock is held exactly during an enrollment (`EnrollmentHoldsLock`), exports end (`RequestsEnd`). |
| `bringup` | 61 k, 45 s | 1700 scenarios of a node: what is enrolled meets the requirements, however its tools fail (`EnrolledQualifies`); what enroll accepts, the exporter can use (`EnrolledExports`); a daemon that passed validation runs with every setting as the environment and the flags give it, or its default, and no period is too short (`RunsAsConfigured`); the inventory report tells what is registered and configured, although command and daemon work it out separately (`ReportIsTrue`).  A listening daemon keeps its path (`PathKept`), a stale socket keeps nobody from starting (`ComesUp`).  Scrapes beside a changing directory emit no series twice (`SeriesAreUnique`), and what was there (`ScrapeIsConsistent`), and catch up (`MappingSettles`). |
| `unenroll_cleared`, `gateway_token`, `shutdown_loops`, `components` | | violated; see "Findings" |

### Bounds

- Two backends: one to leave and one to go to.  They are interchangeable, and
  `agent` uses that symmetry (no liveness is checked under symmetry).
- `MaxCommands = 2`: enroll and re-enroll or unenroll, so that a workflow can
  span two changes of the rows.  `agent_live` allows 1 beside exporter and
  attestation, because every initial state with an enrollment provides the
  first (and with one of the two backends, as they are interchangeable), and 2
  beside the inventory loop.
- `MaxFaults` counts failed statements and exchanges and restarts.  One is
  enough to stop any workflow at any point; `export` uses 4, one more than the
  attempts of a payload, so that every attempt can fail.
- `agent` runs the exporter with the attestation or with the inventory loop, not
  both: all three together exceed what TLC finishes in minutes.  The two loops
  meet only in the rows; the loop writes the placement, attestation the JWT.
  `RetryMaxAttempts = 1` there; `export` has the full policy with 3.
- `MaxRounds = 3` attempts of one loop in `shutdown`: an abandoned worker can
  overlap with two later attempts.  The two managers share nothing but the
  context, and the theorems are for any set of them.  `shutdown_loops` has both,
  with one attempt each.
- `MaxTokens = 3`, three requests: one token in use, one from a header and one
  from an enrollment under way.
- `MaxSlots = 2` refresh goroutines (one ending, one starting), `MaxWorld = 2`.
- `MaxRestarts = 2` restarts in `identity`.
- `bringup` varies one side of an ordinary node at a time: the machine (all
  answers of its tools, driver and DCGM versions around the minimum, with and
  without `--force`), the endpoint (every combination of the seven facts), one
  setting (each at its limits, one below, one above, and unparsable; online and
  offline), the flags (with the retention at, below and far below its minimum,
  durations at the ends of what parses, every kind of output path), the list of components (up to three entries of six, a
  registry of three), the socket (two daemons, `MaxStarts = 2`, with and without
  faults; nothing, a plain file or the socket of a dead daemon at the path), or the job files (three names, four
  contents, two device maps, `maxJobIDsPerMapping = 2`, `MaxChanges = 2` during a
  scrape).  The sides meet only where `NodeBringup` relates them, and full
  products of them are out of TLC's reach.

Deadlock is not checked where the system may stop: all callers are done
(`identity`), the process has exited (`shutdown`), no command is left and the
loop has no backend URL to export to (`agent_live`), the command is done and no
daemon may be started again (`bringup`).

### Fairness

- `FleetAgent`, `ExportCycle`: weak fairness of each goroutine and of a command
  that was started: the ticker ticks, goroutines are scheduled, exchanges have
  timeouts.  Commands need not be started.  In `ExportCycle` only a cycle that
  was started has to go on.
- `ServerShutdown`: weak fairness of the goroutines that run `New` and `Stop`
  (their waits have limits) and of each loop.  Strong fairness of a loop's
  `Exits`, because Go's `select` chooses at random among ready cases, so a
  `ctx.Done` that is ready again and again is taken.  None for workers and
  requests: a collector may hang.
- `HealthCollection`: goroutines are scheduled and time goes by; strong fairness
  of `ReadSucceeds`: reading the machine does not fail for ever.  `Renewed` is
  not claimed otherwise.
- `SakAuth`: requests have timeouts; strong fairness of `RefreshLocks`, because
  `sync.Mutex` hands itself to a waiter that starves.
- `AgentIdentity`: a process that is not killed goes on.
- `NodeBringup`: weak fairness of the boot of each daemon that was launched, and
  of the periodic scrape.

`SakAuth` assumes one thing of time (`OutlivesExchanges`): a token does not start
to age on its way to the client or during the enrollment that replaces an
earlier one.  Exchanges are limited to seconds and tokens live much longer.
And one of the backend, which `extension.go:211-212` states: a header token comes
with an answer to a token near expiry, so not with a 401.  `RoundTrip` would
install one from a 401 too (`HeaderInstalled`).  `NeverOlder` depends on both:
`refreshJWT` stores its token unconditionally.

## Findings

1. `unenroll_cleared`: docs/usage.md:185,188 say unenroll removes all
   credentials and clears the JWT.  A workflow that received a JWT before
   unenroll stores it afterwards (`internal/attestation/manager.go:175`, and
   likewise in the exporter).  The agent stays silent all the same, since no
   base URL is stored (`UnenrolledIsSilent`).
2. `gateway_token`: `internal/exporter/exporter.go:274-275` says not to forward
   a node JWT to the cluster-local collector.  After a 401 from the gateway the
   writer fetches one with the SAK and sends it (`writer/http.go:179`).
3. `shutdown_loops`: `internal/server/server.go:554-555` says the loops have
   exited gracefully before their dependencies are closed.  `loopWG` counts
   `Run`, not the worker that `runAttempt` abandons on cancellation, so an
   inventory collection may still use DCGM when it is shut down.
4. `components`: `internal/config/config.go:399` says "Enable all components" of a
   wildcard in the list.  A wildcard that is not the first entry ends the loop
   that builds the memoised set, which is then used as if it were complete: with
   `--components=disk,all` the daemon registers the first component of the
   registry and `disk`.  `internal/config/config_test.go:721-730` has such a list and
   asserts that the second question is answered with no.  `ReportIsTrue` is about
   the other lists.

## Proofs

For any set of callers, UUIDs and restart bound (`AgentIdentityProofs`):
`AgreementHolds`, `InsertCommitsHolds`, `WriteOnceHolds` and
`ImplementsRegister`.  The inductive invariant `IInv` is `TypeOK`, `Agreement`,
`InsertCommits` and `CandidateReady`.  `Agreement` is not inductive alone: a
returned value stays right because an insert only writes when the row holds no
UUID (lemma `RowIsWrittenOnce`), and `InsertCommits` needs that a caller about to
insert has a candidate.  The refinement maps the row to the register and
`result` to what was learned; `StepRefinement` shows that every step is a step of
the register or a stutter.

For any set of requests and any number of tokens (`SakAuthProofs`):
`NeverOlderHolds`, `OneRefreshPerTokenHolds`, `RetryUsesNewerHolds`,
`EnrollmentHoldsLockHolds`.  Each action has a lemma that it keeps `IInv`, which
adds four facts to `TypeOK` and the properties:

- `UsedTokens`: a request took a token that was stored by then; one that was
  answered 401 holds a token that stays rejected.
- `TransitTokens`: tokens on their way to a client are distinct, newer than the
  one used, not stored, not in use and not aging.
- `RefreshInProgress`: while a request enrolls, the stored token is the rejected
  one or one that is not aging, so no header can bring a token newer than the
  enrollment's; and the rejected token was not replaced by an enrollment before.
- `History`: a token replaced by an enrollment is behind the stored one.

The unconditional store in `refreshJWT` then never goes back, and of many requests
rejected with one token only the first finds it still stored under the lock.
`OutlivesExchanges`, which the proofs use, is a guard of the model.

For any set of managers and any number of attempts (`ServerShutdownProofs`): `OneWorkerHolds`, `LockFollowsWorkerHolds`,
`SuccessIsFreshHolds`, `ClosedOnceHolds`, `StopReturnsWhenClosedHolds`,
`RequestsDrainedHolds`, `LoopsExitedFirstHolds`.  The invariant has two halves that
do not disturb each other.  `LoopInv` says of each loop that only its last attempt
can be alive, because its start took the lock that every worker keeps to its end;
whatever is recorded or received is then about that attempt.  `StopInv` relates
the position of the body of `Stop` to what it has closed (`ClosedBy`), and says that
a caller only returns when the body is done and that the positions after the two
waits imply that a wait succeeded or was given up.

For any number of attempts, faults, commands and backends (`ExporterProofs`):
`WorkIsBoundedHolds`.  `CycleInv` is the accounting of requests and exchanges
together with the types of what rows and commands can hand to the exporter.  A
payload starts with its counters reset; a failed attempt adds one to the requests
and one to `attempt`; a refresh that succeeds pays for its request with
`jwtRefreshAttempted`, which it can do once.

For any number of backends, commands and faults and any configuration
(`FleetAgentProofs`): `TypeCorrect`, `EnrolledIsCompleteHolds`,
`UnenrolledIsSilentHolds`, `SettledStaysHolds`.  `AgentInv` has a part for each
workflow and for the command; each workflow has lemmas of its own that say what
its steps do to its record and to the rows.

- `EnrolledIsComplete` is inductive with `CliReady` (an enroll about to store its
  base URL has stored the SAK, which is of its target, and the JWT) and with what the workflows are about to
  store: `Ready`, `AttestationReady`, `Based` say that it is not empty.  A late
  workflow can then overwrite a JWT, but not remove it, and never touches the SAK.
  `torn` remembers that an enroll was cut short after its first statement, until
  one gets to its end: that is the only way to a SAK of another backend.
- `UnenrolledIsSilent` needs of a cycle that began without a base URL that it stays
  on the steps that find that out (`Quiet`, `Silent`).  The exporter finds it out by
  reading the row again, so what it kept in memory does not matter.
- `SettledStays` is an action property.  `Belongs(b)` says that every row, local and
  answer is of `b` or empty; the lemmas about the workflows are stated for any set
  `S` of values, and are used with `{b, None}` here and with all credentials for
  the types.

The last two are stated for daemons without a gateway (`CollectorModes \subseteq
{FALSE}`), as `agent` checks them: with one, the exporter needs no enrollment to
send.

For any number of daemons, starts and kills, any machine, file, list of flags,
registry and directory of job files (`BringupPartsProofs`, `NodeBringupProofs`):

- `PathKeptHolds`.  `SocketInv` adds that, while nobody raced, one daemon at most is
  between probe and bind and nobody listens meanwhile, and that a daemon between
  its bind and `Serve` listens.  `NextIsSocketStep` shows that every step of the
  composed system is, for the socket, a step of `ServerSocket` or a stutter.
- `RunsAsConfiguredHolds`, `EnrolledQualifiesHolds`, `EnrolledExportsHolds`.
  `ProcessInv` says where what a process or the rows hold comes from: a
  configuration from `runCommand` with the flags and file of the node, accepted
  (`RunAccepts`); an enrollment from `EnrollAccepts`.  The rest is about operators:
  `RunConfigIs` (which settings environment, flags and the offline mode decide, by
  steps: `SettingsHaveDefaults`, `WithFlagsIs`), `AcceptedRunsAs`, `NormalizedIsAccepted` (what `normalizeBackendBaseURL` returns,
  the exporter's rule accepts), `VersionAtLeast` (the first part that differs
  decides) and `PassingQualifies`.
- `ReportIsTrueHolds`.  `SelectionInv` says that a daemon has registered, of the
  components it has asked for, those that the list asks for, and that the set it
  memoised is the one of the whole list; a running daemon has asked for all.
  `EnablesWhatIsAskedFor` and `ListsWhatIsAskedFor` show that the memoised answer and
  the report's list both are `AskedFor`, for lists whose wildcard comes first.
  `SameFromFile` shows that first and last line for a variable agree when there is
  only one.
- `SeriesAreUniqueHolds`, `ScrapeIsConsistentHolds`.  `JobInv` relates a scrape under
  way to the history of what was listed: each mapping read was listed at some time,
  each file that was listed all along was read or is still to be read, and no file
  is read twice.  `LabelsTell` shows that the labels of a series determine its file
  and its job, and `JobsAreDistinct` that a file names a job once.

`NodeSteps` sorts the steps of the composed system by what they do to a process, so
that each invariant is shown for six kinds of steps and not for twelve actions.

For any number of collections and refreshes (`HealthCollectionProofs`):
`OneReaderHolds`, `WaitPaysOffHolds`, `CacheInOrderHolds`.  The invariant says that the
flag is set exactly while one goroutine is before its deferred function
(`OneActive`), that what it is about to store was seen after what is stored
(`InOrder`: nobody else can store meanwhile), and that the cache is filled before
the channel is closed unless a refresh failed (`Filled`).

The proofs use the assumptions on constants that the modules declare, no others:
bounds are natural numbers, special values differ from ordinary ones, backends
resolve placements to placements, and in
`NodeBringup` that the scenarios are of the kind the program meets: lines of the
file that assign to a duration have a number or `Invalid`, endpoints are URLs,
versions are sequences of numbers, the names of job files differ in GPU or instance
(`NamesDiffer`: these are the parts of the name, as strings, and a directory has
each name once), job files are finite, no component is called "all", and no
daemon is called "enroll".

Only model-checked are the liveness properties: `CallerFinishes`, `Converges`,
`PlacementConverges`, `CycleFinishes`, `Renewed`, `SignalEndsProcess`, `AttemptsGoOn`,
`ExitsWhenCancelled`, `RequestsEnd`, `ComesUp` and `MappingSettles`.  They rest on
fairness, which TLAPS does not support.  Lists and files are proved about without
induction over them: what counts is the first or last position with some
property, and `LeastOfNaturals` (the order of the naturals is well-founded) gives
it for any length.

## Not modelled

- **Conversion and file output, outbound validation, inventory source, mapper and
  hash, scan, machine information**: field-by-field copies and printing, with no
  state and no decisions that another part depends on.
- **HTTP handlers**: they read; requests appear only in the shutdown.
- **`ValidateLocalServerURL`**: only client commands use it.
- **State directory paths, the settings that are only handed to the SDK** (the
  InfiniBand flags among them) and the log flags.
- **`resolveToken`**, which reads the SAK from a flag, a file or standard input.
- **Third-party SDK**: its metadata functions are the statements of
  `AgentMetadata`.
- **Commands beside enroll, unenroll and precheck**; `metadata --set-key` can write
  any row by hand and would void every property of the rows.
- **Two commands at a time**, except for the agent UUID.
- **Enrollment time**: no decision depends on it.
- **Offline export** beyond its configuration, and the wait of `Stop` for an export
  under way (there is none: an export may meet closed databases and logs the
  error).
- **A full listen backlog**, which would make a live daemon look stale; a stop
  while the socket is still being set up is represented by `Killed`.

What the properties do not claim:

- A placement flag given to enroll can be overwritten by the answer of a daemon
  export that was under way.  `agent_live` claims that machine and backend agree in
  the end, not that they agree on the last flag.
- A re-enrollment that fails after it stored the SAK leaves the SAK of the new
  backend with the base URL of the old one, until enroll is run again.
- `RunsAsConfigured` allows what `runCommand` does without a word: a retention that
  is not positive is ignored, and so is the GPU identifier when workloads are not
  attributed.
- `RequestsDrained` says nothing of a `Stop` that comes before `startServer` has set
  `s.srv`: it finds no server, and the one that starts afterwards ends with the
  process.
- `Converges` and `SettledStays` allow a request with the token of the other backend
  while a command runs; the backend rejects it.
- Two daemons that are started together can steal the path from each other; the
  history variable `raced` excludes that from `PathKept` and `ComesUp`.
- enroll takes the first line for a variable in `/etc/default/fleetint`, systemd
  the last one; and the report of enroll carries the default retention, scrape
  interval and components until the first sync of the daemon.  `ReportIsTrue`
  compares only the loops' settings with enroll's report, for files that give a
  variable once.

## Plan

1. The offline mode of the exporter: the end of its run against `Stop`.
2. The inventory hash's independence of the order of devices.

## Running

    tlc -workers 2 -config MCAgentIdentity.cfg MCAgentIdentity
    tlapm SakAuthProofs.tla

A configuration belongs to the module of its name, except: `MCFleetAgentLive.cfg`
and `MCUnenrollCleared.cfg` to `MCFleetAgent`, `MCExportGatewayToken.cfg` to
`MCExportCycle`, `MCShutdownLoops.cfg` to `MCServerShutdown`, `MCComponents.cfg` to
`MCNodeBringup`.
