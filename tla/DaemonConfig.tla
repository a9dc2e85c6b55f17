---------------------------- MODULE DaemonConfig ----------------------------
(***************************************************************************)
(* How fleetint run comes by its configuration: the defaults, overridden   *)
(* by the environment and by flags, rebuilt for the offline mode, and      *)
(* validated.  A configuration is one flat record with a field for every   *)
(* setting; an environment gives a value, Unset or Invalid (a text that    *)
(* does not parse) for the settings that have a variable.  Durations are   *)
(* in milliseconds.                                                        *)
(***************************************************************************)
EXTENDS Integers, Sequences, FiniteSetsExt

CONSTANTS
  Unset,    \* no value given
  Invalid   \* a value that cannot be parsed

Second == 1000
Minute == 60 * Second
Hour == 60 * Minute

MinInventoryInterval == 5 * Minute
MinAttestationInterval == 5 * Minute

-----------------------------------------------------------------------------
(* URLs, as far as the rules for endpoints look at them *)

\* host: "" for none; query: a query or a fragment; forced: a bare "?" or "#"
\* at the end.
URLs == [parses : BOOLEAN, scheme : {"http", "https", "other"},
         host : {"", "remote", "loopback"}, path : {"", "/", "/api"},
         user : BOOLEAN, query : BOOLEAN, forced : BOOLEAN]

parseURL(u) == u.parses /\ ~u.user /\ u.host # "" /\ ~u.query

ValidateBackendEndpoint(u) ==
  /\ parseURL(u)
  /\ \/ u.scheme = "http" /\ u.host = "loopback"
     \/ u.scheme = "https"

\* The scheme and the host of an endpoint of one service.
DeriveBackendBaseURL(u) == [u EXCEPT !.path = "", !.forced = FALSE]

\* Mutant: what enroll was given is stored as it is.
KeepsBackendURL(u) == u

\* The base URL enroll stores for an accepted endpoint.
normalizeBackendBaseURL(u) ==
  IF u.path \in {"", "/"} THEN u ELSE DeriveBackendBaseURL(u)

ValidCollectorEndpoint(u) ==
  /\ u.parses /\ u.scheme \in {"http", "https"} /\ u.host # ""
  /\ ~u.user /\ ~u.query /\ ~u.forced

-----------------------------------------------------------------------------
(* Default and the environment *)

Default ==
  [Address |-> "socket", RetentionPeriod |-> 24 * Hour,
   InventoryEnabled |-> TRUE, InventoryInterval |-> Hour,
   AttestationEnabled |-> TRUE, AttestationInterval |-> 24 * Hour,
   Interval |-> Minute, Timeout |-> 30 * Second,
   IncludeMetrics |-> TRUE, IncludeEvents |-> TRUE,
   IncludeMachineInfo |-> TRUE, IncludeComponentData |-> TRUE,
   MetricsLookback |-> Minute, EventsLookback |-> Minute,
   HealthCheckInterval |-> 30 * Second, DCGMExtendedInterval |-> Minute,
   DCGMFieldProfiles |-> "", DCGMHealthCheckInterval |-> Minute,
   RetryMaxAttempts |-> 3, CollectorEndpoint |-> Unset,
   OfflineMode |-> FALSE, OutputPath |-> "", Duration |-> 0,
   OutputFormat |-> "json",
   Components |-> <<>>, Source |-> "", JobMappingDir |-> "",
   GPUIdentifier |-> "", EnableFaultInjection |-> FALSE]

\* The variables that configureHealthExporterFromEnv reads as durations, with
\* the range it asks for; 0 stands for no bound.
ExporterDurations ==
  [DCGMExtendedInterval |-> <<Second, 24 * Hour>>,
   Interval |-> <<Second, 24 * Hour>>,
   MetricsLookback |-> <<0, 0>>, EventsLookback |-> <<0, 0>>,
   HealthCheckInterval |-> <<Second, 24 * Hour>>,
   DCGMHealthCheckInterval |-> <<Minute, 24 * Hour>>]

LoopDurations ==
  [InventoryInterval |-> <<MinInventoryInterval, 0>>,
   AttestationInterval |-> <<MinAttestationInterval, 0>>]

\* Mutant: the lower bound is not asked for.
setDurationWithoutMin(v, range) ==
  v # Unset => v # Invalid /\ (range[2] > 0 => v <= range[2])

\* When a duration from the environment is taken.
setDurationFromEnv(v, range) ==
  v # Unset => /\ v # Invalid
               /\ range[1] > 0 => v >= range[1]
               /\ range[2] > 0 => v <= range[2]

\* setIntFromEnv for the one variable that is a number.
setIntFromEnv(v) == v # Unset => v # Invalid /\ v >= 0

configureHealthExporterFromEnv(env) ==
  /\ \A k \in DOMAIN ExporterDurations :
       setDurationFromEnv(env[k], ExporterDurations[k])
  /\ Invalid \notin {env.DCGMFieldProfiles, env.IncludeMetrics,
                     env.IncludeEvents, env.IncludeMachineInfo,
                     env.IncludeComponentData}
  /\ setIntFromEnv(env.RetryMaxAttempts)

configureLoopConfigFromEnv(env) ==
  /\ \A k \in DOMAIN LoopDurations : setDurationFromEnv(env[k], LoopDurations[k])
  /\ Invalid \notin {env.InventoryEnabled, env.AttestationEnabled}

LoopSettings == DOMAIN LoopDurations \cup {"InventoryEnabled", "AttestationEnabled"}

ExporterSettings ==
  DOMAIN ExporterDurations
    \cup {"DCGMFieldProfiles", "IncludeMetrics", "IncludeEvents",
          "IncludeMachineInfo", "IncludeComponentData", "RetryMaxAttempts",
          "CollectorEndpoint"}

\* Settings that have an environment variable.
EnvSettings == LoopSettings \cup ExporterSettings

NoEnv == [k \in EnvSettings |-> Unset]

FromEnv(cfg, env, settings) ==
  [k \in DOMAIN cfg |-> IF k \in settings /\ env[k] # Unset
                          THEN env[k] ELSE cfg[k]]

\* The file that fleetint enroll reads for variables it was not given: a
\* sequence of lines <<key, value>>, <<>> (no assignment) or Invalid.
LoadEnvFile(file) == Invalid \notin Range(file)

\* What a line gives for an endpoint is a URL, for a duration a number.
WellFormed(line) ==
  /\ line[1] = "CollectorEndpoint" => line[2] \in URLs
  /\ line[1] \in DOMAIN ExporterDurations \cup DOMAIN LoopDurations
       => line[2] \in {Invalid} \cup Int

\* The lines that assign to a key.
LinesFor(file, k) ==
  {i \in DOMAIN file : file[i] \notin {<<>>, Invalid} /\ file[i][1] = k}

\* The first line for a key counts, and only if the variable is not set.
EnvFileDefaults(env, file) ==
  [k \in DOMAIN env |->
     LET lines == LinesFor(file, k)
     IN  IF env[k] = Unset /\ lines # {} THEN file[Min(lines)][2] ELSE env[k]]

\* External: what systemd makes of the file.  The last line for a key counts.
EnvironmentFile(file) ==
  [k \in EnvSettings |->
     LET lines == LinesFor(file, k)
     IN  IF lines # {} THEN file[Max(lines)][2] ELSE Unset]

-----------------------------------------------------------------------------
(* Flags and the offline mode *)

\* Paths by what validateOfflinePath, filepath.IsAbs and os.MkdirAll find out
\* about them.
Paths == {"", "relative", "symlink", "unresolvable", "restricted", "uncreatable",
          "plain"}

validateOfflinePath(p) == p \in {"uncreatable", "plain"}

\* External.
MkdirAll(p) == p # "uncreatable"

\* HH:MM:SS, given as its three numbers.
parseDuration(hms) == (hms[1] * 60 + hms[2]) * Minute + hms[3] * Second

\* Two digits for the hours.
ParsesDuration(hms) ==
  hms \notin {Unset, Invalid} /\ hms[1] < 100 /\ hms[2] < 60 /\ hms[3] < 60

configureWorkloadAttribution(cfg, flags) ==
  IF flags.Source = "" /\ flags.JobMappingDir = ""
    THEN cfg
    ELSE [cfg EXCEPT !.Source = flags.Source,
                     !.JobMappingDir = flags.JobMappingDir,
                     !.GPUIdentifier = IF flags.JobMappingDir = "" THEN ""
                                       ELSE flags.GPUIdentifier]

WithFlags(cfg, flags) ==
  configureWorkloadAttribution(
    [cfg EXCEPT !.Address = IF flags.Address # "" THEN flags.Address ELSE @,
                !.RetentionPeriod = IF flags.RetentionPeriod > 0
                                      THEN flags.RetentionPeriod ELSE @,
                !.Components = flags.Components,
                !.EnableFaultInjection = @ \/ flags.EnableFaultInjection],
    flags)

\* The exporter's settings are copied one by one into a new configuration,
\* except those about requests.
OfflineConfig(cfg, flags) ==
  [cfg EXCEPT !.OfflineMode = TRUE, !.OutputPath = flags.OutputPath,
              !.Duration = parseDuration(flags.Duration),
              !.OutputFormat = flags.OutputFormat,
              !.RetryMaxAttempts = 0, !.CollectorEndpoint = Unset]

RunConfig(env, flags) ==
  LET cfg == WithFlags(FromEnv(Default, env, EnvSettings), flags)
  IN  IF flags.OfflineMode THEN OfflineConfig(cfg, flags) ELSE cfg

-----------------------------------------------------------------------------
(* Validate *)

validateLoopConfig(enabled, interval, min) == enabled => interval >= min

ValidateWorkloadAttribution(cfg) ==
  IF cfg.Source = ""
    THEN cfg.JobMappingDir = "" /\ cfg.GPUIdentifier = ""
    ELSE /\ cfg.Source = "hpc"
         /\ cfg.JobMappingDir \notin {"", "relative"}
         /\ cfg.GPUIdentifier \in {"", "dcgm_index", "uuid"}

HPCGPUIdentifier(cfg) ==
  IF cfg.GPUIdentifier = "" THEN "dcgm_index" ELSE cfg.GPUIdentifier

InRange(v, range) == v # 0 => v >= range[1] /\ v <= range[2]

Validate(cfg) ==
  /\ ValidateWorkloadAttribution(cfg)
  /\ cfg.OfflineMode \/ cfg.Address # ""
  /\ cfg.RetentionPeriod >= Minute
  /\ validateLoopConfig(cfg.InventoryEnabled, cfg.InventoryInterval,
                        MinInventoryInterval)
  /\ validateLoopConfig(cfg.AttestationEnabled, cfg.AttestationInterval,
                        MinAttestationInterval)
  /\ cfg.CollectorEndpoint # Unset => ValidCollectorEndpoint(cfg.CollectorEndpoint)
  /\ InRange(cfg.DCGMExtendedInterval, <<Second, 24 * Hour>>)
  /\ InRange(cfg.HealthCheckInterval, <<Second, 24 * Hour>>)
  /\ InRange(cfg.DCGMHealthCheckInterval, <<Minute, 24 * Hour>>)
  /\ cfg.OfflineMode => /\ cfg.OutputPath # "" /\ cfg.Duration > 0
                        /\ cfg.OutputFormat \in {"", "json", "csv"}

\* The intervals the daemon works with.
ResolvedHealthCheckInterval(cfg) ==
  IF cfg.HealthCheckInterval <= 0 THEN 30 * Second ELSE cfg.HealthCheckInterval

ResolvedDCGMHealthCheckInterval(cfg) ==
  IF cfg.DCGMHealthCheckInterval <= 0 THEN Minute ELSE cfg.DCGMHealthCheckInterval

MetricScrapeIntervalSeconds(cfg) == ResolvedHealthCheckInterval(cfg) \div Second

\* How often a loop runs, 0 for never.
getSyncInterval(enabled, interval) == IF enabled THEN interval ELSE 0

\* Whether runCommand gets as far as New.
RunAccepts(env, flags) ==
  /\ flags.OfflineMode => /\ flags.OutputPath # "" /\ ParsesDuration(flags.Duration)
                          /\ validateOfflinePath(flags.OutputPath)
                          /\ MkdirAll(flags.OutputPath)
  /\ configureHealthExporterFromEnv(env)
  /\ configureLoopConfigFromEnv(env)
  /\ Validate(RunConfig(env, flags))

-----------------------------------------------------------------------------

\* What an offline run has no use for.
RequestSettings == {"RetryMaxAttempts", "CollectorEndpoint"}

\* What the environment says of a setting, or else the default.
Given(env, k) == IF env[k] # Unset THEN env[k] ELSE Default[k]

(***************************************************************************)
(* A configuration with every setting as the environment and the flags     *)
(* give it, and the default where they do not.  Two things that are given  *)
(* have no effect, and nothing says so: a retention period that is not     *)
(* positive, and a GPU identifier, of whatever kind, when workloads are    *)
(* not attributed.                                                         *)
(***************************************************************************)
AsGiven(c, env, flags) ==
  /\ \A k \in EnvSettings :
       ~(c.OfflineMode /\ k \in RequestSettings) => c[k] = Given(env, k)
  /\ \A k \in {"OfflineMode", "EnableFaultInjection", "Components", "Source",
               "JobMappingDir"} : c[k] = flags[k]
  /\ c.Source # "" => c.GPUIdentifier = flags.GPUIdentifier
  /\ c.Address = IF flags.Address # "" THEN flags.Address ELSE Default.Address
  /\ c.RetentionPeriod = IF flags.RetentionPeriod > 0 THEN flags.RetentionPeriod
                         ELSE Default.RetentionPeriod
  /\ c.OfflineMode => /\ c.OutputPath = flags.OutputPath
                      /\ c.OutputFormat = flags.OutputFormat
                      /\ c.Duration = parseDuration(flags.Duration)

\* That, and no period that is too short.
RunsAs(c, env, flags) ==
  /\ AsGiven(c, env, flags)
  /\ c.RetentionPeriod >= Minute
  /\ c.Interval >= Second
  /\ ResolvedHealthCheckInterval(c) >= Second
  /\ ResolvedDCGMHealthCheckInterval(c) >= Minute
  /\ getSyncInterval(c.InventoryEnabled, c.InventoryInterval)
       \notin 1..MinInventoryInterval - 1
  /\ getSyncInterval(c.AttestationEnabled, c.AttestationInterval)
       \notin 1..MinAttestationInterval - 1
  /\ c.OfflineMode => c.Duration > 0
=============================================================================
