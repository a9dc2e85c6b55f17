--------------------------- MODULE MCNodeBringup ---------------------------
(***************************************************************************)
(* NodeBringup for scenarios that each vary one side of an ordinary node:  *)
(* the machine, the endpoints, the settings, the flags, the list of        *)
(* components, the socket path with two daemons, or the job files.         *)
(***************************************************************************)
EXTENDS NodeBringup, TLC

CONSTANTS d1, d2

MCDaemons == {d1, d2}

MCRegistry == <<"cpu", "disk", "gpu">>

\* One GPU as a whole and an instance of another; the first, by its UUID.
MCFilenames ==
  {[kind |-> "dcgm_index", gpu |-> "0", instance |-> ""],
   [kind |-> "dcgm_index", gpu |-> "1", instance |-> "7"],
   [kind |-> "uuid", gpu |-> "GPU-a", instance |-> ""]}

File(lines) == [type |-> "file", lines |-> lines]

\* maxJobIDsPerMapping is 2: with a repeated line, at the limit and over it;
\* and a file whose last line is too much for the scanner.
MCContents ==
  {File(<<"j1", "j1", Blank, "j2">>), File(<<"j3", BadLine, "j1", "j2">>),
   File(<<"j1", HugeLine>>), [type |-> "symlink", lines |-> <<"j1">>]}

MCDeviceMaps ==
  {[i \in {"0", "1"} |-> IF i = "0" THEN "GPU-a" ELSE "GPU-b"],
   [i \in {"0", "1"} |-> IF i = "0" THEN "" ELSE "GPU-a"]}

-----------------------------------------------------------------------------

Empty == [f \in MCFilenames |-> Absent]

Backend == [parses |-> TRUE, scheme |-> "https", host |-> "remote", path |-> "",
            user |-> FALSE, query |-> FALSE, forced |-> FALSE]

GoodMachine ==
  [inventory |-> "gpus", driver |-> <<570, 86>>, architecture |-> "supported",
   pci |-> "gpus", nvattest |-> TRUE, hostengines |-> <<Unset, <<4, 2, 3>>>>]

\* What the flags are when none is given.
PlainFlags ==
  [Address |-> "socket", RetentionPeriod |-> 24 * Hour, Source |-> "",
   JobMappingDir |-> "", GPUIdentifier |-> "dcgm_index", Components |-> <<>>,
   OfflineMode |-> FALSE, OutputPath |-> "", Duration |-> Unset,
   OutputFormat |-> "json", EnableFaultInjection |-> FALSE]

Offline ==
  [PlainFlags EXCEPT !.OfflineMode = TRUE, !.OutputPath = "plain",
                     !.Duration = <<0, 5, 0>>]

Node ==
  [machine |-> GoodMachine, force |-> FALSE, endpoint |-> Backend,
   shell |-> NoEnv, envFile |-> <<>>, flags |-> PlainFlags, daemons |-> {d1},
   faults |-> FALSE, path |-> "none", dir |-> Empty,
   devices |-> [i \in {"0", "1"} |-> IF i = "0" THEN "GPU-a" ELSE "GPU-b"]]

\* Nobody enrolls it.
DaemonsOnly == [Node EXCEPT !.endpoint = None]

-----------------------------------------------------------------------------

Versions == {<<>>, Invalid, <<4, 2>>, <<4, 3>>, <<4, 2, 2>>, <<3, 9, 9>>, <<4, 2, 3, 1>>}

DriverVersions == {<<>>, Invalid, <<510>>, <<509, 99>>, <<510, 0>>, <<535, 1, 2, 3>>}

MachineScenarios ==
  {[Node EXCEPT !.machine = m, !.force = f, !.daemons = {}] :
     m \in {[inventory |-> i, driver |-> v, architecture |-> a, pci |-> p,
             nvattest |-> n, hostengines |-> <<<<4, 2, 3>>>>] :
              i \in {"error", "none", "gpus"}, v \in DriverVersions,
              a \in {"", "supported", "other"}, p \in {"error", "none", "gpus"},
              n \in BOOLEAN}
           \cup {[GoodMachine EXCEPT !.hostengines = e] :
              e \in UNION {[1..n -> Versions \cup {Unset}] : n \in 0..2}},
     f \in BOOLEAN}

Endpoint == {u \in URLs : u.parses \/ (u = [Backend EXCEPT !.parses = FALSE])}

\* Daemons that serve on TCP, to leave the socket out.
Tcp == [PlainFlags EXCEPT !.Address = "tcp"]

EndpointScenarios ==
  {[Node EXCEPT !.endpoint = u, !.flags = Tcp] : u \in Endpoint}
    \cup {[Node EXCEPT !.envFile = <<<<"CollectorEndpoint", u>>>>, !.flags = Tcp] :
            u \in Endpoint}

Boundaries(k) ==
  LET ranges == ExporterDurations @@ LoopDurations
  IN  {Invalid, -1, 0, Second, ranges[k][1] - 1, ranges[k][1],
       ranges[k][2], ranges[k][2] + 1, 2 * Hour + 1}

Booleans == {"IncludeMetrics", "IncludeEvents", "IncludeMachineInfo",
             "IncludeComponentData", "InventoryEnabled", "AttestationEnabled"}

Assignments ==
  UNION {{<<k, v>> : v \in Boundaries(k)} :
           k \in DOMAIN (ExporterDurations @@ LoopDurations)}
    \cup {<<k, v>> : k \in Booleans, v \in {Invalid, FALSE}}
    \cup {<<"RetryMaxAttempts", v>> : v \in {Invalid, -1, 0, 5}}
    \cup {<<"DCGMFieldProfiles", v>> : v \in {Invalid, "extended"}}

\* A loop that is off may have any interval; a line that is none; a variable
\* twice, and one that the shell of enroll has as well.
Files ==
  {<<a>> : a \in Assignments}
    \cup {<<<<"InventoryEnabled", FALSE>>, <<>>, a>> :
            a \in {b \in Assignments : b[1] = "InventoryInterval"}}
    \cup {<<Invalid>>, <<<<"InventoryInterval", Hour>>, <<"InventoryInterval", 2 * Hour>>>>}

SettingScenarios ==
  {[Node EXCEPT !.envFile = f, !.flags = g] : f \in Files, g \in {Tcp, Offline}}
    \cup {[Node EXCEPT !.shell.InventoryInterval = v, !.flags = Tcp,
                       !.envFile = <<<<"InventoryInterval", 2 * Hour>>>>] :
            v \in {Invalid, Minute, Hour}}

FlagScenarios ==
  {[DaemonsOnly EXCEPT !.flags = g] : g \in
     {[Tcp EXCEPT !.Source = s, !.JobMappingDir = j, !.GPUIdentifier = i] :
        s \in {"", "hpc", "other"}, j \in {"", "relative", "plain"},
        i \in {"", "uuid", "serial"}}
     \cup {[Offline EXCEPT !.OutputPath = p, !.Duration = t] :
             p \in Paths, t \in {Unset, Invalid, <<0, 0, 0>>, <<0, 0, 1>>, <<0, 60, 0>>,
                                <<99, 59, 59>>, <<100, 0, 1>>}}
     \cup {[Offline EXCEPT !.OutputFormat = f] : f \in {"", "csv", "xml"}}
     \cup {[g EXCEPT !.RetentionPeriod = r, !.EnableFaultInjection = TRUE] :
             g \in {Tcp, Offline}, r \in {Minute - 1, Minute, 0, -1}}
     \cup {[PlainFlags EXCEPT !.Address = ""]}}
    \cup {[DaemonsOnly EXCEPT !.flags = Tcp, !.faults = TRUE]}

Entries == {Wildcard, Enable("cpu"), Enable("gpu"), Disable("cpu"), Disable("gpu"),
            Enable("unknown")}

Lists == UNION {[1..n -> Entries] : n \in 0..3}

\* Ones with a wildcard that is not the first entry are a run of their own.
ListScenarios ==
  {[Node EXCEPT !.flags = [Tcp EXCEPT !.Components = l]] :
     l \in {m \in Lists : WildcardFirst(m)}}

SocketScenarios ==
  {[DaemonsOnly EXCEPT !.daemons = MCDaemons, !.path = p, !.faults = f] :
     p \in {"none", "file", d1, d2}, f \in BOOLEAN}

JobScenarios ==
  {[DaemonsOnly EXCEPT !.flags = [Tcp EXCEPT !.Source = "hpc", !.JobMappingDir = "plain",
                                             !.GPUIdentifier = g],
                       !.dir = [f \in MCFilenames |-> c]] :
     g \in {"", "uuid"}, c \in MCContents \cup {Absent}}

MCHosts ==
  MachineScenarios \cup EndpointScenarios \cup SettingScenarios \cup FlagScenarios
    \cup ListScenarios \cup SocketScenarios \cup JobScenarios

MCLists ==
  {[Node EXCEPT !.flags = [Tcp EXCEPT !.Components = l]] : l \in Lists}
=============================================================================
