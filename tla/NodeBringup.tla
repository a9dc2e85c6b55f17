---------------------------- MODULE NodeBringup ----------------------------
(***************************************************************************)
(* A node from fleetint enroll to a serving daemon: the command checks the *)
(* machine, stores the backend it was given and reports the node; daemons  *)
(* work out their configuration from /etc/default/fleetint and flags,      *)
(* register components, start the workload metrics, the loops and the      *)
(* exporter, and take the socket.  The command and the daemons run side by *)
(* side.  (What enroll writes, statement by statement, is in Enrollment,   *)
(* how a daemon stops in ServerShutdown.)                                  *)
(***************************************************************************)
EXTENDS Precheck, ComponentSelection, ServerSocket, JobMapping

CONSTANTS
  Hosts,  \* scenarios: the machine and how it is operated
  None    \* no configuration, no endpoint, no report

ASSUME FaultsAreBoolean == \A h \in Hosts : h.faults \in BOOLEAN

ASSUME MachinesTellVersions ==
  \A h \in Hosts : h.machine.hostengines \in Seq({Unset, Invalid} \cup Seq(Nat))

ASSUME EndpointsAreURLs ==
  None \notin URLs /\ \A h \in Hosts : h.endpoint \in {None} \cup URLs

ASSUME FilesAreLines ==
  \A h \in Hosts :
    /\ h.envFile \in Seq(Range(h.envFile))
    /\ \A line \in Range(h.envFile) \ {<<>>, Invalid} : WellFormed(line)

ASSUME FlagsAreTyped ==
  \A h \in Hosts :
    /\ h.flags.OfflineMode \in BOOLEAN /\ h.flags.EnableFaultInjection \in BOOLEAN
    /\ h.flags.Components \in Seq(Entry)

ASSUME DirectoriesAreFiles ==
  \A h \in Hosts : h.dir \in [Filenames -> Contents \cup {Absent}]

ASSUME EnrollIsNoDaemon == "enroll" \notin Daemons

VARIABLES
  host,      \* the scenario
  enrolled,  \* how fleetint enroll ended: "no", "refused", "failed" or "yes"
  stored,    \* backend_base_url in the metadata
  cfg,       \* cfg[d]: the Config of a daemon's process
  report     \* the agent config of the last inventory the backend got

bringupVars == <<host, enrolled, stored, cfg, report>>

vars == <<bringupVars, selectionVars, socketVars, jobVars>>

Init ==
  /\ host \in Hosts
  /\ enrolled = "no"
  /\ stored = None
  /\ cfg = [d \in Daemons |-> None]
  /\ report = None
  /\ SelectionInit(Daemons)
  /\ SocketInit(host.path)
  /\ JobInit(host.dir, host.devices)

\* The environment of a daemon, started by systemd.
RunEnv == EnvironmentFile(host.envFile)

\* inventory.AgentConfig
AgentConfig(c, from) ==
  [from |-> from,
   RetentionPeriodSeconds |-> c.RetentionPeriod \div Second,
   MetricScrapeIntervalSeconds |-> MetricScrapeIntervalSeconds(c),
   EnabledComponents |-> getComponentLists(c.Components),
   InventoryEnabled |-> c.InventoryEnabled,
   InventoryIntervalSeconds |-> c.InventoryInterval \div Second,
   AttestationEnabled |-> c.AttestationEnabled,
   AttestationIntervalSeconds |-> c.AttestationInterval \div Second]

-----------------------------------------------------------------------------
(* fleetint enroll *)

\* The environment after the file was read, and the configuration from it.
EnrollEnv == EnvFileDefaults(host.shell, host.envFile)

EnrollConfig == FromEnv(Default, EnrollEnv, LoopSettings)

\* What the command asks for before it turns to the backend.
EnrollAccepts ==
  /\ PrecheckPasses(host.machine) \/ host.force
  /\ LoadEnvFile(host.envFile)
  /\ configureLoopConfigFromEnv(EnrollEnv)
  /\ ValidateBackendEndpoint(host.endpoint)

enrollCommand ==
  /\ enrolled = "no" /\ host.endpoint # None
  /\ IF EnrollAccepts
       THEN \/ /\ enrolled' = "yes"
               /\ stored' = normalizeBackendBaseURL(host.endpoint)
               \* The inventory is sent if it can be.
               /\ report' \in {report, AgentConfig(EnrollConfig, "enroll")}
            \* A statement may fail, also after the one with the base URL.
            \/ /\ enrolled' = "failed"
               /\ stored' \in {stored, normalizeBackendBaseURL(host.endpoint)}
               /\ UNCHANGED report
       ELSE enrolled' = "refused" /\ UNCHANGED <<stored, report>>
  /\ UNCHANGED <<host, cfg, selectionVars, socketVars, jobVars>>

-----------------------------------------------------------------------------
(* fleetint run *)

\* What a process leaves when it ends.
ProcessState(d) ==
  IF step'[d] = "exited"
    THEN /\ cfg' = [cfg EXCEPT ![d] = None]
         /\ Forgets(d)
         /\ JobsForgotten
    ELSE UNCHANGED <<cfg, selectionVars, jobVars>>

Launch(d) ==
  /\ d \in host.daemons
  /\ Starts(d)
  /\ UNCHANGED <<bringupVars, selectionVars, jobVars>>

\* runCommand, up to New.
runCommand(d) ==
  /\ step[d] = "boot" /\ cfg[d] = None
  /\ LET env == RunEnv IN
     IF RunAccepts(env, host.flags)
       THEN /\ cfg' = [cfg EXCEPT ![d] = RunConfig(env, host.flags)]
            /\ UNCHANGED <<socketVars, selectionVars, jobVars>>
       ELSE Boots(d, FALSE) /\ ProcessState(d)
  /\ UNCHANGED <<host, enrolled, stored, report>>

\* New: the components ...
RegisterComponent(d) ==
  /\ step[d] = "boot" /\ cfg[d] # None
  /\ Asks(d, cfg[d].Components)
  /\ UNCHANGED <<bringupVars, socketVars, jobVars>>

\* ... then the workload metrics, the loops and the exporter, and the goroutine
\* that serves.
New(d) ==
  /\ step[d] = "boot" /\ cfg[d] # None /\ asked[d] = Len(Registry)
  /\ Boots(d, TRUE)
  /\ UNCHANGED <<bringupVars, selectionVars, jobVars>>

startServer(d) ==
  /\ IF step[d] = "probe" /\ cfg[d].Address = "tcp"
       THEN ListenAndServe(d, host.faults)
       ELSE SocketStep(d)
  /\ ProcessState(d)
  /\ UNCHANGED <<host, enrolled, stored, report>>

Running(d) == step[d] \notin {"off", "boot", "exited"}

\* A round of the inventory loop that reaches the backend.
SyncInventory(d) ==
  /\ Running(d) /\ enrolled = "yes"
  /\ getSyncInterval(cfg[d].InventoryEnabled, cfg[d].InventoryInterval) > 0
  /\ report' = AgentConfig(cfg[d], d)
  /\ UNCHANGED <<host, enrolled, stored, cfg, selectionVars, socketVars, jobVars>>

\* A signal, or the end of an offline run.
Stop(d) ==
  /\ host.faults \/ (Running(d) /\ cfg[d].OfflineMode)
  /\ StopClosesListener(d)
  /\ UNCHANGED <<bringupVars, selectionVars, jobVars>>

Exit(d) ==
  /\ StopEnds(d)
  /\ ProcessState(d)
  /\ UNCHANGED <<host, enrolled, stored, report>>

Fail(d) ==
  /\ host.faults
  /\ SocketFault(d)
  /\ ProcessState(d)
  /\ UNCHANGED <<host, enrolled, stored, report>>

Collects(d) == Running(d) /\ cfg[d].Source = "hpc"

Collect(d) ==
  /\ Collects(d)
  /\ ScrapeStep(HPCGPUIdentifier(cfg[d]))
  /\ UNCHANGED <<bringupVars, selectionVars, socketVars>>

Schedule(d) ==
  /\ Collects(d)
  /\ JobsChange(HPCGPUIdentifier(cfg[d]))
  /\ UNCHANGED <<bringupVars, selectionVars, socketVars>>

Boot(d) ==
  runCommand(d) \/ RegisterComponent(d) \/ New(d) \/ startServer(d) \/ Exit(d)

Next ==
  \/ enrollCommand
  \/ \E d \in Daemons :
       \/ Launch(d) \/ Boot(d) \/ SyncInventory(d) \/ Stop(d) \/ Fail(d)
       \/ Collect(d) \/ Schedule(d)

\* A process goes on, and the syncer scrapes periodically.
Fairness ==
  /\ \A d \in Daemons : WF_vars(Boot(d))
  /\ WF_vars(\E d \in Daemons : Collect(d))

Spec == Init /\ [][Next]_vars /\ Fairness

-----------------------------------------------------------------------------
(* Enrollment *)

(***************************************************************************)
(* A node is enrolled without --force only if it meets the requirements,   *)
(* whatever of its tools fail: a check that cannot be made is never taken  *)
(* for one that passed, except that of the architecture.                   *)
(***************************************************************************)
EnrolledQualifies ==
  enrolled = "yes" /\ ~host.force => Qualifies(host.machine)

\* What refreshConfigFromMetadata puts the paths of the services after.
ExportBase(c) ==
  CASE c.CollectorEndpoint # Unset -> c.CollectorEndpoint
    [] c.CollectorEndpoint = Unset /\ stored # None /\ ValidateBackendEndpoint(stored) -> stored
    [] OTHER -> None

(***************************************************************************)
(* What enroll accepts and stores, the exporter of a daemon accepts: an    *)
(* enrolled node whose daemon is up has an endpoint, at the backend that   *)
(* was given and without the path of a single service, or at the gateway.  *)
(***************************************************************************)
EnrolledExports ==
  \A d \in Daemons :
    enrolled = "yes" /\ cfg[d] # None /\ ~cfg[d].OfflineMode =>
      LET base == ExportBase(cfg[d])
          collector == RunEnv.CollectorEndpoint IN
      /\ base # None
      /\ IF collector # Unset
           THEN base = collector /\ ValidCollectorEndpoint(base)
           ELSE /\ <<base.scheme, base.host>> = <<host.endpoint.scheme, host.endpoint.host>>
                /\ base.scheme = "https" \/ base.host = "loopback"
                /\ base.path \in {"", "/"} /\ ~base.query

-----------------------------------------------------------------------------
(* Configuration *)

(***************************************************************************)
(* A daemon that came past validation runs with every setting that the     *)
(* environment and the flags give it, online and offline, and with the     *)
(* default for the others (but for the two that AsGiven excepts: a         *)
(* retention that is not positive, and an identifier without workload      *)
(* attribution, are dropped); and none of its periods is too short: no     *)
(* check, no loop and no export runs in a tight loop or panics in          *)
(* NewTicker.                                                              *)
(***************************************************************************)
RunsAsConfigured ==
  LET env == RunEnv IN
  \A d \in Daemons : cfg[d] # None => RunsAs(cfg[d], env, host.flags)

\* The file gives each variable once, and the shell none.
OneSource ==
  /\ host.shell = NoEnv
  /\ \A i, k \in 1..Len(host.envFile) :
       i # k /\ host.envFile[i] # <<>> /\ host.envFile[k] # <<>>
         => host.envFile[i][1] # host.envFile[k][1]

LoopReport(r) ==
  <<r.InventoryEnabled, r.InventoryIntervalSeconds,
    r.AttestationEnabled, r.AttestationIntervalSeconds>>

(***************************************************************************)
(* The backend is told the truth: what a daemon reports are the components *)
(* it registered and the intervals it runs with, though the lists are      *)
(* worked out separately; and what enroll reported of the loops holds of   *)
(* the daemons, which read the same file in another way.  (For lists whose *)
(* wildcard comes first, and files without a variable twice.)              *)
(***************************************************************************)
ReportIsTrue ==
  \A d \in Daemons :
    report # None /\ Running(d) =>
      /\ report.from = d /\ WildcardFirst(cfg[d].Components) =>
           /\ report.EnabledComponents = registered[d]
           /\ registered[d] = AskedFor(host.flags.Components)
           /\ report.MetricScrapeIntervalSeconds * Second
                \in ResolvedHealthCheckInterval(cfg[d]) - Second + 1
                      .. ResolvedHealthCheckInterval(cfg[d])
      /\ report.from = "enroll" /\ OneSource =>
           LoopReport(report) = LoopReport(AgentConfig(cfg[d], d))

(***************************************************************************)
(* ShouldEnable on a wildcard in the list: "Enable all components"         *)
(* (config.go:399).                                                        *)
(***************************************************************************)
WildcardEnablesAll ==
  \A d \in Daemons :
    Running(d) /\ HasWildcard(cfg[d].Components) =>
      registered[d] = AskedFor(cfg[d].Components)

-----------------------------------------------------------------------------
(* The socket *)

(***************************************************************************)
(* A socket file that a killed daemon left does not keep a new one from    *)
(* starting, also when several are started: unless they race for the path, *)
(* one serves on it.                                                       *)
(***************************************************************************)
ComesUp ==
  \A d \in Daemons :
    (/\ step[d] = "probe" /\ cfg[d].Address = "socket" /\ ~host.faults
     /\ path \notin NotSocket)
      ~> (raced \/ path \in listening \/ host.flags.OfflineMode)

-----------------------------------------------------------------------------
(* Workload metrics *)

(***************************************************************************)
(* "consistent-enough snapshot" (reader.go:88): see ConsistentEnough.  One *)
(* unusable file, or a change in the middle, costs only what it is about.  *)
(***************************************************************************)
ScrapeIsConsistent ==
  \A d \in Daemons :
    Collects(d) => ConsistentEnough(HPCGPUIdentifier(cfg[d]))

(***************************************************************************)
(* Once the scheduler and DCGM stop changing things, the series become     *)
(* those of the directory and the devices, and stay so: no ended job is    *)
(* reported for ever, and none is missed.                                  *)
(***************************************************************************)
MappingSettles ==
  \A d \in Daemons :
    <>[](Collects(d) => UpToDate(HPCGPUIdentifier(cfg[d])))
=============================================================================
