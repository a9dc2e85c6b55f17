------------------------- MODULE NodeBringupProofs --------------------------
(***************************************************************************)
(* The safety of NodeBringup, for every machine, file, list of flags,      *)
(* registry and directory of job files, and any number of daemons.  What   *)
(* its parts do each for itself is in BringupPartsProofs.                  *)
(***************************************************************************)
EXTENDS NodeBringup, BringupPartsProofs

-----------------------------------------------------------------------------
(* The socket *)

\* What a step of the node does to the socket.
LEMMA NextIsSocketStep ==
  ASSUME [Next]_vars, host.faults \in BOOLEAN
  PROVE  SocketNext \/ UNCHANGED socketVars
<1>1. CASE enrollCommand \/ UNCHANGED vars
  BY <1>1 DEF enrollCommand, vars, socketVars
<1>2. ASSUME NEW d \in Daemons,
             \/ Launch(d) \/ Boot(d) \/ SyncInventory(d) \/ Stop(d) \/ Fail(d)
             \/ Collect(d) \/ Schedule(d)
      PROVE  SocketNext \/ UNCHANGED socketVars
  <2>1. CASE SyncInventory(d) \/ Collect(d) \/ Schedule(d) \/ RegisterComponent(d)
    BY <2>1 DEF SyncInventory, Collect, Schedule, RegisterComponent, socketVars
  <2>2. CASE Launch(d) \/ Stop(d) \/ Fail(d) \/ Exit(d)
    BY <2>2 DEF Launch, Stop, Fail, Exit, SocketNext
  <2>3. CASE New(d) \/ runCommand(d)
    BY <2>3 DEF New, runCommand, SocketNext, socketVars
  <2>4. CASE startServer(d)
    BY <2>4 DEF startServer, SocketNext
  <2> QED
    BY <1>2, <2>1, <2>2, <2>3, <2>4 DEF Boot
<1> QED
  BY <1>1, <1>2 DEF Next

(***************************************************************************)
(* "refuse to start rather than stealing its socket path"                  *)
(* (server.go:702-703), for any number of daemons that are started,        *)
(* stopped and killed any number of times, unless two of them race.        *)
(***************************************************************************)
THEOREM PathKeptHolds == Spec => []PathKept
<1> DEFINE Inv == SocketInv /\ host.faults \in BOOLEAN
<1>1. Init => Inv
  BY SocketInitInv, FaultsAreBoolean DEF Init
<1>2. Inv /\ [Next]_vars => Inv'
  <2> SUFFICES ASSUME Inv, [Next]_vars PROVE Inv'
    OBVIOUS
  <2>1. host' = host
    BY DEF Next, vars, bringupVars, enrollCommand, Launch, Boot, SyncInventory, Stop,
           Fail, Collect, Schedule, Exit, New, runCommand, startServer, RegisterComponent
  <2>2. CASE SocketNext
    BY <2>1, <2>2, SocketNextKeepsInv
  <2>3. CASE UNCHANGED socketVars
    BY <2>1, <2>3 DEF SocketInv, socketVars
  <2> QED
    BY <2>2, <2>3, NextIsSocketStep
<1>3. Inv => PathKept
  BY DEF SocketInv, PathKept
<1> QED
  BY <1>1, <1>2, <1>3, PTL DEF Spec

-----------------------------------------------------------------------------
(* The processes: their configuration and what enroll accepted *)

(***************************************************************************)
(* A daemon's configuration is the one its files and flags come to, and    *)
(* was accepted; a daemon that runs has one.  enroll stored what it was    *)
(* given, after it accepted it.                                            *)
(***************************************************************************)
ProcessInv ==
  /\ SocketInv
  /\ host \in Hosts
  /\ DOMAIN cfg = Daemons
  /\ \A d \in Daemons :
       /\ cfg[d] # None => /\ cfg[d] = RunConfig(RunEnv, host.flags)
                           /\ RunAccepts(RunEnv, host.flags)
       /\ Running(d) => cfg[d] # None
  /\ enrolled = "yes" => /\ EnrollAccepts /\ host.endpoint # None
                         /\ stored = normalizeBackendBaseURL(host.endpoint)

\* What the configuration of a daemon comes to on this host.
LEMMA HostSettings ==
  ASSUME host \in Hosts
  PROVE  RunSettings(RunConfig(RunEnv, host.flags), RunEnv, host.flags)
<1>1. host.flags.OfflineMode \in BOOLEAN /\ host.flags.EnableFaultInjection \in BOOLEAN
  BY FlagsAreTyped
<1> QED
  BY <1>1, RunConfigIs

\* No step changes the machine, its files or the flags.
LEMMA HostStays ==
  ASSUME [Next]_vars
  PROVE  host' = host
  BY DEF Next, vars, bringupVars, enrollCommand, Launch, Boot, SyncInventory, Stop,
     Fail, Collect, Schedule, Exit, New, runCommand, startServer, RegisterComponent

\* A step at the socket is one of a running daemon, or the end of a process.
LEMMA StepsOfRunning ==
  ASSUME SocketInv, NEW d \in Daemons,
         \/ SocketStep(d) \/ SocketFault(d) \/ StopEnds(d) \/ StopClosesListener(d)
         \/ \E b : ListenAndServe(d, b)
  PROVE  /\ \A e \in Daemons \ {d} : step'[e] = step[e]
         /\ Running(d) \/ step'[d] = "exited"
<1>1. step \in [Daemons -> SocketSteps]
  BY DEF SocketInv
<1>2. \E s : SocketGoto(d, s) /\ (Running(d) \/ s = "exited")
  BY DEF SocketStep, Probe, Lstat, RemoveStale, Listen, Chmod, SocketFault, SetupFails,
     ChmodFails, Killed, StopEnds, StopClosesListener, ListenAndServe, Running
<1> QED
  BY <1>1, <1>2 DEF SocketGoto

\* A process comes to another place, and one that serves was booted ...
GoesOn(d) ==
  /\ UNCHANGED <<cfg, selectionVars, jobVars>>
  /\ \A e \in Daemons \ {d} : step'[e] = step[e]
  /\ \/ step'[d] \in {"boot", "exited"} \/ Running(d)
     \/ cfg[d] # None /\ asked[d] = Len(Registry)

\* ... or perhaps ends ...
MayEnd(d) ==
  /\ ProcessState(d)
  /\ \A e \in Daemons \ {d} : step'[e] = step[e]
  /\ Running(d) \/ step'[d] = "exited"

\* ... or has worked out its configuration.
Configures(d) ==
  /\ RunAccepts(RunEnv, host.flags) /\ ~Running(d)
  /\ cfg' = [cfg EXCEPT ![d] = RunConfig(RunEnv, host.flags)]
  /\ UNCHANGED <<step, selectionVars, jobVars>>

\* The kinds of steps, by what they do to the processes.
LEMMA NodeSteps ==
  ASSUME SocketInv, [Next]_vars, ~enrollCommand
  PROVE  /\ UNCHANGED <<enrolled, stored>>
         /\ \/ UNCHANGED <<step, cfg, selectionVars, jobVars>>
            \/ \E d \in Daemons : \/ GoesOn(d) \/ MayEnd(d) \/ Configures(d)
                                 \/ RegisterComponent(d) \/ Collect(d) \/ Schedule(d)
<1>1. UNCHANGED <<enrolled, stored>>
  BY DEF Next, vars, bringupVars, Launch, Boot, SyncInventory, Stop, Fail, Collect,
     Schedule, Exit, New, runCommand, startServer, RegisterComponent
<1>2. step \in [Daemons -> SocketSteps]
  BY DEF SocketInv
<1>3. ASSUME NEW d \in Daemons, Launch(d) \/ New(d) \/ Stop(d)
      PROVE  GoesOn(d)
  <2>1. \A e \in Daemons \ {d} : step'[e] = step[e]
    BY <1>2, <1>3, StepsOfRunning DEF Launch, New, Stop, Starts, Boots, SocketGoto
  <2>2. \/ step'[d] \in {"boot", "exited"} \/ Running(d)
        \/ cfg[d] # None /\ asked[d] = Len(Registry)
    BY <1>2, <1>3, StepsOfRunning DEF Launch, New, Stop, Starts, SocketGoto
  <2> QED
    BY <1>3, <2>1, <2>2 DEF GoesOn, Launch, New, Stop, bringupVars
<1>4. ASSUME NEW d \in Daemons, startServer(d) \/ Exit(d) \/ Fail(d)
      PROVE  MayEnd(d)
  BY <1>4, StepsOfRunning DEF MayEnd, startServer, Exit, Fail
<1>5. ASSUME NEW d \in Daemons, runCommand(d)
      PROVE  Configures(d) \/ MayEnd(d)
  <2>1. CASE RunAccepts(RunEnv, host.flags)
    BY <1>5, <2>1 DEF runCommand, Configures, Running, socketVars
  <2>2. CASE ~RunAccepts(RunEnv, host.flags)
    BY <1>2, <1>5, <2>2 DEF runCommand, MayEnd, Boots, SocketGoto
  <2> QED
    BY <2>1, <2>2
<1>6. ASSUME NEW d \in Daemons, SyncInventory(d)
      PROVE  UNCHANGED <<step, cfg, selectionVars, jobVars>>
  BY <1>6 DEF SyncInventory, socketVars
<1>7. CASE UNCHANGED vars
  BY <1>7 DEF vars, bringupVars, socketVars
<1> QED
  BY <1>1, <1>3, <1>4, <1>5, <1>6, <1>7 DEF Next, Boot

\* The end of a process is the end of its configuration.
LEMMA ProcessStateKeeps ==
  ASSUME ProcessInv, NEW d \in Daemons, ProcessState(d), UNCHANGED host,
         \A e \in Daemons \ {d} : step'[e] = step[e],
         Running(d) \/ step'[d] = "exited"
  PROVE  /\ DOMAIN cfg' = Daemons
         /\ \A e \in Daemons : Running(e)' => cfg'[e] # None
         /\ \A e \in Daemons : cfg'[e] # None => cfg'[e] = cfg[e]
<1>1. CASE step'[d] = "exited"
  <2>1. cfg' = [cfg EXCEPT ![d] = None]
    BY <1>1 DEF ProcessState
  <2> QED
    BY <1>1, <2>1 DEF ProcessInv, Running
<1>2. CASE step'[d] # "exited"
  <2>1. cfg' = cfg
    BY <1>2 DEF ProcessState
  <2> QED
    BY <1>2, <2>1 DEF ProcessInv, Running
<1> QED
  BY <1>1, <1>2

\* A node before the first step.
LEMMA ProcessInit == Init => ProcessInv
<1> SUFFICES ASSUME Init PROVE ProcessInv
  OBVIOUS
<1>1. SocketInv
  BY SocketInitInv DEF Init
<1>2. \A d \in Daemons : ~Running(d)
  BY DEF Init, SocketInit, Running
<1> QED
  BY <1>1, <1>2 DEF Init, ProcessInv

\* Steps that are about something else.
LEMMA ProcessUnchanged ==
  ASSUME ProcessInv, SocketInv', UNCHANGED <<host, cfg, step, enrolled, stored>>
  PROVE  ProcessInv'
  BY DEF ProcessInv, RunEnv, Running, EnrollAccepts, EnrollEnv

\* A step of a daemon: what it does to its configuration and its place.
LEMMA ProcessStep ==
  ASSUME ProcessInv, SocketInv', UNCHANGED <<host, enrolled, stored>>,
         DOMAIN cfg' = Daemons,
         \A e \in Daemons : Running(e)' => cfg'[e] # None,
         \A e \in Daemons :
           cfg'[e] # None => \/ cfg'[e] = cfg[e]
                             \/ /\ cfg'[e] = RunConfig(RunEnv, host.flags)
                                /\ RunAccepts(RunEnv, host.flags)
  PROVE  ProcessInv'
<1>1. RunEnv' = RunEnv /\ (EnrollAccepts <=> EnrollAccepts')
  BY DEF RunEnv, EnrollAccepts, EnrollEnv
<1>2. \A e \in Daemons : cfg'[e] # None => /\ cfg'[e] = RunConfig(RunEnv', host'.flags)
                                           /\ RunAccepts(RunEnv', host'.flags)
  BY <1>1 DEF ProcessInv
<1> QED
  BY <1>1, <1>2 DEF ProcessInv

\* Every step of the node keeps the invariant.
LEMMA ProcessNext ==
  ASSUME ProcessInv, [Next]_vars
  PROVE  ProcessInv'
<1>1. host' = host
  BY HostStays
<1>2. SocketInv'
  <2>1. SocketNext \/ UNCHANGED socketVars
    BY NextIsSocketStep, FaultsAreBoolean DEF ProcessInv
  <2>2. CASE SocketNext
    BY <2>2, SocketNextKeepsInv DEF ProcessInv
  <2>3. CASE UNCHANGED socketVars
    BY <2>3 DEF SocketInv, socketVars, ProcessInv
  <2> QED
    BY <2>1, <2>2, <2>3
<1>3. CASE enrollCommand
  <2>1. UNCHANGED <<cfg, step>>
    BY <1>3 DEF enrollCommand, socketVars
  <2>2. enrolled' = "yes" => /\ EnrollAccepts /\ host.endpoint # None
                             /\ stored' = normalizeBackendBaseURL(host.endpoint)
    BY <1>3 DEF enrollCommand
  <2>3. (EnrollAccepts <=> EnrollAccepts') /\ RunEnv' = RunEnv
        /\ \A e \in Daemons : Running(e)' <=> Running(e)
    BY <1>1, <2>1 DEF EnrollAccepts, EnrollEnv, RunEnv, Running
  <2> QED
    BY <1>1, <1>2, <2>1, <2>2, <2>3 DEF ProcessInv
<1>4. CASE ~enrollCommand
  <2>1. UNCHANGED <<host, enrolled, stored>>
    BY <1>1, <1>4, NodeSteps DEF ProcessInv
  <2>2. ASSUME UNCHANGED <<step, cfg>> PROVE ProcessInv'
    BY <1>2, <2>1, <2>2, ProcessUnchanged
  <2>3. ASSUME NEW d \in Daemons, RegisterComponent(d) \/ Collect(d) \/ Schedule(d)
        PROVE  ProcessInv'
    BY <2>2, <2>3 DEF Collect, Schedule, RegisterComponent, bringupVars, socketVars
  <2>4. ASSUME NEW d \in Daemons, MayEnd(d) PROVE ProcessInv'
    <3>1. /\ DOMAIN cfg' = Daemons
          /\ \A e \in Daemons : Running(e)' => cfg'[e] # None
          /\ \A e \in Daemons : cfg'[e] # None => cfg'[e] = cfg[e]
      BY <2>1, <2>4, ProcessStateKeeps DEF MayEnd
    <3> QED
      BY <1>2, <2>1, <3>1, ProcessStep
  <2>5. ASSUME NEW d \in Daemons, GoesOn(d) PROVE ProcessInv'
    <3>1. cfg' = cfg /\ \A e \in Daemons : Running(e)' => cfg'[e] # None
      BY <2>5 DEF GoesOn, Running, ProcessInv
    <3> QED
      BY <1>2, <2>1, <3>1, ProcessStep DEF ProcessInv
  <2>6. ASSUME NEW d \in Daemons, Configures(d) PROVE ProcessInv'
    <3>1. /\ DOMAIN cfg' = Daemons
          /\ \A e \in Daemons : Running(e)' => cfg'[e] # None
      BY <2>6 DEF Configures, ProcessInv, Running
    <3>2. \A e \in Daemons : cfg'[e] = cfg[e] \/ cfg'[e] = RunConfig(RunEnv, host.flags)
      BY <2>6 DEF Configures, ProcessInv
    <3> QED
      BY <1>2, <2>1, <2>6, <3>1, <3>2, ProcessStep DEF Configures
  <2> QED
    BY <1>4, <2>2, <2>3, <2>4, <2>5, <2>6, NodeSteps DEF ProcessInv
<1> QED
  BY <1>3, <1>4

\* So it always holds.
LEMMA ProcessInvHolds == Spec => []ProcessInv
<1>1. ProcessInv /\ [Next]_vars => ProcessInv'
  BY ProcessNext
<1> QED
  BY <1>1, ProcessInit, PTL DEF Spec

(***************************************************************************)
(* A daemon that came past validation runs with every setting as the       *)
(* environment and the flags give it, or as the default has it (a          *)
(* retention that is not positive, and an identifier without workload      *)
(* attribution, excepted), and none of its periods is too short: for any   *)
(* file, any flags and any number of daemons.                              *)
(***************************************************************************)
THEOREM RunsAsConfiguredHolds == Spec => []RunsAsConfigured
<1>1. ProcessInv => RunsAsConfigured
  <2> SUFFICES ASSUME ProcessInv PROVE RunsAsConfigured
    OBVIOUS
  <2>1. host.flags.OfflineMode \in BOOLEAN /\ host.flags.EnableFaultInjection \in BOOLEAN
    BY FlagsAreTyped DEF ProcessInv
  <2>2. RunAccepts(RunEnv, host.flags)
          => RunsAs(RunConfig(RunEnv, host.flags), RunEnv, host.flags)
    BY <2>1, AcceptedRunsAs
  <2> QED
    BY <2>2 DEF RunsAsConfigured, ProcessInv
<1> QED
  BY <1>1, ProcessInvHolds, PTL

(***************************************************************************)
(* A node is enrolled without --force only if it meets the requirements,   *)
(* for every machine: whatever its tools answer, and however many          *)
(* addresses there are to ask for the version of the host engine.          *)
(***************************************************************************)
THEOREM EnrolledQualifiesHolds == Spec => []EnrolledQualifies
<1>1. ProcessInv => EnrolledQualifies
  BY MachinesTellVersions, PassingQualifies DEF ProcessInv, EnrolledQualifies, EnrollAccepts
<1> QED
  BY <1>1, ProcessInvHolds, PTL

(***************************************************************************)
(* What enroll accepts and stores, the exporter of a daemon accepts, with  *)
(* or without a gateway in the file.                                       *)
(***************************************************************************)
THEOREM EnrolledExportsHolds == Spec => []EnrolledExports
<1>1. ProcessInv => EnrolledExports
  <2> SUFFICES ASSUME ProcessInv, NEW d \in Daemons, enrolled = "yes", cfg[d] # None,
                      ~cfg[d].OfflineMode
               PROVE  LET base == ExportBase(cfg[d])
                          collector == RunEnv.CollectorEndpoint IN
                      /\ base # None
                      /\ IF collector # Unset
                           THEN base = collector /\ ValidCollectorEndpoint(base)
                           ELSE /\ <<base.scheme, base.host>>
                                     = <<host.endpoint.scheme, host.endpoint.host>>
                                /\ base.scheme = "https" \/ base.host = "loopback"
                                /\ base.path \in {"", "/"} /\ ~base.query
    BY Zenon DEF EnrolledExports
  <2> DEFINE c == RunConfig(RunEnv, host.flags)
             collector == RunEnv.CollectorEndpoint
  <2>1. cfg[d] = c /\ Validate(c)
    BY DEF ProcessInv, RunAccepts
  <2>2. "CollectorEndpoint" \in EnvSettings /\ "CollectorEndpoint" \in RequestSettings
    BY EnvSettingsAre DEF RequestSettings
  <2>3. c.CollectorEndpoint = collector
    <3>1. host \in Hosts
      BY DEF ProcessInv
    <3>2. RunSettings(c, RunEnv, host.flags)
      BY <3>1, HostSettings
    <3> HIDE DEF c
    <3>3. c.CollectorEndpoint = Given(RunEnv, "CollectorEndpoint")
      BY <2>1, <2>2, <3>2 DEF RunSettings
    <3>4. Default.CollectorEndpoint = Unset
      BY DEF Default
    <3> QED
      BY <3>3, <3>4 DEF Given
  <2>4. host.endpoint \in URLs /\ ValidateBackendEndpoint(host.endpoint)
        /\ stored = normalizeBackendBaseURL(host.endpoint)
    BY EndpointsAreURLs DEF ProcessInv, EnrollAccepts
  <2> HIDE DEF c, collector
  <2>5. CASE collector # Unset
    <3>1. collector \in URLs
      <4>1. /\ host.envFile \in Seq(Range(host.envFile))
            /\ \A line \in Range(host.envFile) \ {<<>>, Invalid} : WellFormed(line)
        BY FilesAreLines DEF ProcessInv
      <4>2. PICK i \in LinesFor(host.envFile, "CollectorEndpoint") :
              collector = host.envFile[i][2]
        BY <2>2, <2>5, <4>1, EnvironmentFileIs DEF RunEnv, collector
      <4>3. WellFormed(host.envFile[i]) /\ host.envFile[i][1] = "CollectorEndpoint"
        BY <4>1, <4>2 DEF LinesFor, Range
      <4> QED
        BY <4>2, <4>3 DEF WellFormed
    <3>2. ExportBase(cfg[d]) = collector
      BY <2>1, <2>3, <2>5 DEF ExportBase
    <3> QED
      BY <2>1, <2>3, <2>5, <3>1, <3>2, EndpointsAreURLs DEF Validate, collector
  <2>6. CASE collector = Unset
    <3>1. /\ stored \in URLs /\ ValidateBackendEndpoint(stored)
          /\ stored.scheme = host.endpoint.scheme /\ stored.host = host.endpoint.host
          /\ stored.scheme = "https" \/ stored.host = "loopback"
          /\ stored.path \in {"", "/"} /\ ~stored.query
      BY <2>4, NormalizedIsAccepted
    <3>2. ExportBase(cfg[d]) = stored
      BY <2>1, <2>3, <2>6, <3>1, EndpointsAreURLs DEF ExportBase
    <3> QED
      BY <2>6, <3>1, <3>2, EndpointsAreURLs DEF collector
  <2> QED
    BY <2>5, <2>6
<1> QED
  BY <1>1, ProcessInvHolds, PTL

-----------------------------------------------------------------------------
(* The components *)

\* What a daemon that has asked for the first a components has registered, r,
\* and the set s that it keeps.
Chosen(a, s, r, list) ==
  /\ r = {n \in AskedFor(list) : \E i \in 1..a : Registry[i] = n}
  /\ s \in {NotBuilt, EnabledNames(list)}

\* This is so for a list whose wildcard comes first, if it has one.
Selects(a, s, r, list) ==
  a \in 0..Len(Registry) /\ (WildcardFirst(list) => Chosen(a, s, r, list))

(***************************************************************************)
(* A daemon that runs has asked for all; at any time it has registered     *)
(* those it has asked for and that the list names, and the set it keeps is *)
(* that of the whole list.                                                 *)
(***************************************************************************)
SelectionInv ==
  /\ DOMAIN asked = Daemons /\ DOMAIN selected = Daemons /\ DOMAIN registered = Daemons
  /\ \A d \in Daemons : Running(d) => asked[d] = Len(Registry)
  /\ \A d \in Daemons :
       Selects(asked[d], selected[d], registered[d], host.flags.Components)

\* Nothing asked for, nothing selected.
LEMMA NothingSelected ==
  ASSUME NEW list
  PROVE  Selects(0, NotBuilt, {}, list)
<1>1. Len(Registry) \in Nat
  BY RegistryIsNamed
<1>2. {n \in AskedFor(list) : \E i \in 1..0 : Registry[i] = n} = {}
  OBVIOUS
<1> QED
  BY <1>1, <1>2 DEF Selects, Chosen

\* The next answer, of the list and of the set that is kept.
LEMMA SelectsNext ==
  ASSUME NEW list \in Seq(Entry), NEW a, NEW s, NEW r, Selects(a, s, r, list),
         a < Len(Registry)
  PROVE  LET name == Registry[a + 1]
         IN  Selects(a + 1, SelectedAfter(list, s),
                     IF shouldEnableComponent(list, s, name) THEN r \cup {name} ELSE r,
                     list)
<1> DEFINE k == a + 1
           n == Registry[k]
           q == IF shouldEnableComponent(list, s, n) THEN r \cup {n} ELSE r
<1>1. k \in 1..Len(Registry) /\ 1..k = (1..a) \cup {k}
  BY RegistryIsNamed DEF Selects
<1>2. n \in Range(Registry)
  BY <1>1, RegistryIsNamed DEF Range
<1>3. ASSUME WildcardFirst(list) PROVE Chosen(k, SelectedAfter(list, s), q, list)
  <2>1. Chosen(a, s, r, list)
    BY <1>3 DEF Selects
  <2>2. /\ shouldEnableComponent(list, s, n) <=> n \in AskedFor(list)
        /\ SelectedAfter(list, s) \in {NotBuilt, EnabledNames(list)}
    <3>1. s \in {NotBuilt, EnabledNames(list)}
      BY <2>1 DEF Chosen
    <3> QED
      BY <1>2, <1>3, <3>1, EnablesWhatIsAskedFor
  <2>3. q = IF n \in AskedFor(list) THEN r \cup {n} ELSE r
    BY <2>2
  <2>4. r = {m \in AskedFor(list) : \E i \in 1..a : Registry[i] = m}
    BY <2>1 DEF Chosen
  <2> HIDE DEF k, q
  <2>5. \A m : (\E i \in 1..k : Registry[i] = m)
                 <=> (\E i \in 1..a : Registry[i] = m) \/ m = Registry[k]
    BY <1>1
  <2>6. q = {m \in AskedFor(list) : \E i \in 1..k : Registry[i] = m}
    BY <2>3, <2>4, <2>5
  <2> QED
    BY <2>2, <2>6 DEF Chosen
<1>4. k \in 0..Len(Registry)
  BY <1>1, RegistryIsNamed
<1> QED
  BY <1>3, <1>4 DEF Selects

\* A node before the first step.
LEMMA SelectionInitInv == Init => SelectionInv
<1> SUFFICES ASSUME Init PROVE SelectionInv
  OBVIOUS
<1>1. \A d \in Daemons : ~Running(d)
  BY DEF Init, SocketInit, Running
<1>2. \A d \in Daemons : asked[d] = 0 /\ selected[d] = NotBuilt /\ registered[d] = {}
  BY DEF Init, SelectionInit
<1> QED
  BY <1>1, <1>2, NothingSelected DEF SelectionInv, Init, SelectionInit

\* A process that goes on, and one that ends.
LEMMA SelectionKept ==
  ASSUME SelectionInv, host' = host, UNCHANGED selectionVars,
         \A e \in Daemons : Running(e)' => asked[e] = Len(Registry)
  PROVE  SelectionInv'
  BY DEF SelectionInv, selectionVars

\* A process d changes what it selects.
LEMMA SelectionChanges ==
  ASSUME SelectionInv, host' = host, NEW d \in Daemons, NEW a, NEW s, NEW r,
         asked' = [asked EXCEPT ![d] = a], selected' = [selected EXCEPT ![d] = s],
         DOMAIN registered' = Daemons, registered'[d] = r,
         \A e \in Daemons \ {d} : registered'[e] = registered[e],
         Selects(a, s, r, host.flags.Components), ~Running(d)',
         \A e \in Daemons \ {d} : Running(e)' => Running(e)
  PROVE  SelectionInv'
<1>1. /\ DOMAIN asked' = Daemons /\ DOMAIN selected' = Daemons
      /\ DOMAIN registered' = Daemons
  BY DEF SelectionInv
<1>2. asked'[d] = a /\ selected'[d] = s /\ registered'[d] = r
  BY DEF SelectionInv
<1>3. \A e \in Daemons \ {d} : /\ asked'[e] = asked[e] /\ selected'[e] = selected[e]
                              /\ registered'[e] = registered[e]
  BY DEF SelectionInv
<1>4. \A e \in Daemons : Running(e)' => asked'[e] = Len(Registry)
  BY <1>3 DEF SelectionInv
<1>5. \A e \in Daemons :
        Selects(asked'[e], selected'[e], registered'[e], host.flags.Components)
  BY <1>2, <1>3 DEF SelectionInv
<1> QED
  BY <1>1, <1>4, <1>5 DEF SelectionInv

\* A process that ends forgets what it asked for.
LEMMA SelectionForgotten ==
  ASSUME SelectionInv, host' = host, NEW d \in Daemons, Forgets(d), ~Running(d)',
         \A e \in Daemons \ {d} : Running(e)' => Running(e)
  PROVE  SelectionInv'
<1>1. /\ DOMAIN registered' = Daemons /\ registered'[d] = {}
      /\ \A e \in Daemons \ {d} : registered'[e] = registered[e]
  BY DEF SelectionInv, Forgets
<1> QED
  BY <1>1, NothingSelected, SelectionChanges DEF Forgets

\* One turn of the loop in New.
LEMMA SelectionAsks ==
  ASSUME SelectionInv, host' = host, NEW d \in Daemons, ~Running(d)', UNCHANGED step,
         host.flags.Components \in Seq(Entry), Asks(d, host.flags.Components)
  PROVE  SelectionInv'
<1> DEFINE list == host.flags.Components
           name == Registry[asked[d] + 1]
           q == IF shouldEnableComponent(list, selected[d], name)
                  THEN registered[d] \cup {name} ELSE registered[d]
<1>1. /\ asked' = [asked EXCEPT ![d] = asked[d] + 1]
      /\ selected' = [selected EXCEPT ![d] = SelectedAfter(list, selected[d])]
      /\ asked[d] < Len(Registry)
  BY DEF SelectionInv, Asks
<1>2. /\ DOMAIN registered' = Daemons /\ registered'[d] = q
      /\ \A e \in Daemons \ {d} : registered'[e] = registered[e]
  <2>1. CASE shouldEnableComponent(list, selected[d], name)
    BY <2>1 DEF SelectionInv, Asks
  <2>2. CASE ~shouldEnableComponent(list, selected[d], name)
    BY <2>2 DEF SelectionInv, Asks
  <2> QED
    BY <2>1, <2>2
<1>3. Selects(asked[d] + 1, SelectedAfter(list, selected[d]), q, list)
  <2>1. Selects(asked[d], selected[d], registered[d], list)
    BY DEF SelectionInv
  <2> QED
    BY <1>1, <2>1, SelectsNext
<1>4. \A e \in Daemons \ {d} : Running(e)' => Running(e)
  BY DEF Running
<1> HIDE DEF q
<1> QED
  BY <1>1, <1>2, <1>3, <1>4, SelectionChanges

\* Every step of the node keeps the invariant.
LEMMA SelectionNext ==
  ASSUME ProcessInv, SelectionInv, [Next]_vars
  PROVE  SelectionInv'
<1>1. host' = host
  BY HostStays
<1>2. ASSUME UNCHANGED <<selectionVars, step>> PROVE SelectionInv'
  BY <1>1, <1>2, SelectionKept DEF SelectionInv, Running
<1>3. CASE enrollCommand
  BY <1>2, <1>3 DEF enrollCommand, socketVars
<1>4. ASSUME NEW d \in Daemons, Configures(d) \/ Collect(d) \/ Schedule(d)
      PROVE  SelectionInv'
  BY <1>2, <1>4 DEF Configures, Collect, Schedule, socketVars
<1>5. ASSUME NEW d \in Daemons, RegisterComponent(d)
      PROVE  SelectionInv'
  <2>1. host.flags.Components \in Seq(Entry) /\ host \in Hosts
    BY FlagsAreTyped DEF ProcessInv
  <2>2. cfg[d].Components = host.flags.Components
    <3>1. cfg[d] = RunConfig(RunEnv, host.flags)
      BY <1>5 DEF ProcessInv, RegisterComponent
    <3>2. RunSettings(cfg[d], RunEnv, host.flags)
      BY <2>1, <3>1, HostSettings
    <3> QED
      BY <3>2 DEF RunSettings
  <2>3. UNCHANGED step /\ ~Running(d)'
    BY <1>5 DEF RegisterComponent, socketVars, Running
  <2> QED
    BY <1>1, <1>5, <2>1, <2>2, <2>3, SelectionAsks DEF RegisterComponent
<1>6. ASSUME NEW d \in Daemons, MayEnd(d)
      PROVE  SelectionInv'
  <2>1. CASE step'[d] = "exited"
    BY <1>1, <1>6, <2>1, SelectionForgotten DEF MayEnd, ProcessState, Running
  <2>2. CASE step'[d] # "exited"
    <3>1. UNCHANGED selectionVars
      BY <1>6, <2>2 DEF MayEnd, ProcessState
    <3>2. \A e \in Daemons : Running(e)' => asked[e] = Len(Registry)
      BY <1>6, <2>2 DEF MayEnd, SelectionInv, Running
    <3> QED
      BY <1>1, <3>1, <3>2, SelectionKept
  <2> QED
    BY <2>1, <2>2
<1>7. ASSUME NEW d \in Daemons, GoesOn(d)
      PROVE  SelectionInv'
  <2>1. \A e \in Daemons : Running(e)' => asked[e] = Len(Registry)
    BY <1>7 DEF GoesOn, SelectionInv, Running
  <2> QED
    BY <1>1, <1>7, <2>1, SelectionKept DEF GoesOn
<1> QED
  BY <1>2, <1>3, <1>4, <1>5, <1>6, <1>7, NodeSteps DEF ProcessInv

-----------------------------------------------------------------------------
(* The report *)

\* The last report is from a daemon of this node, or from enroll.
ReportInv ==
  report # None =>
    \/ \E e \in Daemons : report = AgentConfig(RunConfig(RunEnv, host.flags), e)
    \/ report = AgentConfig(EnrollConfig, "enroll")

\* Only enroll and a daemon that runs report.
LEMMA ReportNext ==
  ASSUME ProcessInv, ReportInv, [Next]_vars
  PROVE  ReportInv'
<1>1. RunConfig(RunEnv', host'.flags) = RunConfig(RunEnv, host.flags)
      /\ EnrollConfig' = EnrollConfig
  BY HostStays DEF RunEnv, EnrollConfig, EnrollEnv
<1>2. \/ report' = report
      \/ report' = AgentConfig(EnrollConfig, "enroll")
      \/ \E d \in Daemons : Running(d) /\ report' = AgentConfig(cfg[d], d)
  BY DEF Next, vars, bringupVars, enrollCommand, Launch, Boot, SyncInventory, Stop,
     Fail, Collect, Schedule, Exit, New, runCommand, startServer, RegisterComponent
<1>3. \A d \in Daemons : Running(d) => cfg[d] = RunConfig(RunEnv, host.flags)
  BY DEF ProcessInv
<1>4. report' # None =>
        \/ \E e \in Daemons : report' = AgentConfig(RunConfig(RunEnv, host.flags), e)
        \/ report' = AgentConfig(EnrollConfig, "enroll")
  BY <1>2, <1>3 DEF ReportInv
<1> QED
  BY <1>1, <1>4 DEF ReportInv

\* The intervals of a configuration that was accepted are numbers.
LEMMA HealthCheckIntervalIsInt ==
  ASSUME host \in Hosts, RunAccepts(RunEnv, host.flags)
  PROVE  RunConfig(RunEnv, host.flags).HealthCheckInterval \in Int
<1> DEFINE v == RunEnv.HealthCheckInterval
<1>1. "HealthCheckInterval" \in EnvSettings /\ "HealthCheckInterval" \notin RequestSettings
      /\ "HealthCheckInterval" \in DOMAIN ExporterDurations
  BY EnvSettingsAre DEF RequestSettings
<1>2. RunSettings(RunConfig(RunEnv, host.flags), RunEnv, host.flags)
  BY HostSettings
<1>3. RunConfig(RunEnv, host.flags).HealthCheckInterval = Given(RunEnv, "HealthCheckInterval")
  BY <1>1, <1>2 DEF RunSettings
<1>4. Default.HealthCheckInterval \in Int
  <2>1. Default.HealthCheckInterval = 30 * Second
    BY DEF Default
  <2> QED
    BY <2>1 DEF Second
<1>5. CASE v # Unset
  <2>1. v # Invalid
    BY <1>1, <1>5 DEF RunAccepts, configureHealthExporterFromEnv, setDurationFromEnv
  <2>2. /\ host.envFile \in Seq(Range(host.envFile))
        /\ \A line \in Range(host.envFile) \ {<<>>, Invalid} : WellFormed(line)
    BY FilesAreLines
  <2>3. PICK i \in LinesFor(host.envFile, "HealthCheckInterval") : v = host.envFile[i][2]
    BY <1>1, <1>5, <2>2, EnvironmentFileIs DEF RunEnv
  <2>4. WellFormed(host.envFile[i]) /\ host.envFile[i][1] = "HealthCheckInterval"
    BY <2>2, <2>3 DEF LinesFor, Range
  <2>5. v \in Int
    BY <1>1, <2>1, <2>3, <2>4 DEF WellFormed
  <2> QED
    BY <1>3, <1>5, <2>5 DEF Given
<1>6. CASE v = Unset
  BY <1>3, <1>4, <1>6 DEF Given
<1> QED
  BY <1>5, <1>6

\* What enroll reads of a file that gives each variable once, a daemon reads.
LEMMA EnrollReadsTheSame ==
  ASSUME host \in Hosts, OneSource, NEW k \in LoopSettings
  PROVE  EnrollConfig[k] = RunConfig(RunEnv, host.flags)[k]
<1>1. k \in EnvSettings /\ k \notin RequestSettings /\ k \in DOMAIN Default
      /\ LoopSettings \in SUBSET EnvSettings
  BY EnvSettingsAre, SettingsHaveDefaults DEF RequestSettings
<1>2. RunSettings(RunConfig(RunEnv, host.flags), RunEnv, host.flags)
  BY HostSettings
<1>3. RunConfig(RunEnv, host.flags)[k] = Given(RunEnv, k)
  BY <1>1, <1>2 DEF RunSettings
<1>4. EnrollConfig[k] = Given(EnrollEnv, k)
  BY <1>1, FromEnvIs DEF EnrollConfig
<1>5. host.envFile \in Seq(Range(host.envFile))
  BY FilesAreLines
<1>6. EnrollEnv[k] = RunEnv[k]
  <2>1. EnrollEnv = EnvFileDefaults(NoEnv, host.envFile)
    BY DEF EnrollEnv, OneSource
  <2> QED
    BY <1>1, <1>5, <2>1, SameFromFile DEF OneSource, RunEnv
<1> QED
  BY <1>3, <1>4, <1>6 DEF Given

\* The report of a daemon and of enroll, field by field.
LEMMA ReportTellsTheTruth ==
  ASSUME ProcessInv, SelectionInv, ReportInv
  PROVE  ReportIsTrue
<1> SUFFICES ASSUME NEW d \in Daemons, report # None, Running(d)
             PROVE  /\ report.from = d /\ WildcardFirst(cfg[d].Components) =>
                         /\ report.EnabledComponents = registered[d]
                         /\ registered[d] = AskedFor(host.flags.Components)
                         /\ report.MetricScrapeIntervalSeconds * Second
                              \in ResolvedHealthCheckInterval(cfg[d]) - Second + 1
                                    .. ResolvedHealthCheckInterval(cfg[d])
                    /\ report.from = "enroll" /\ OneSource =>
                         LoopReport(report) = LoopReport(AgentConfig(cfg[d], d))
  BY DEF ReportIsTrue
<1> DEFINE c == RunConfig(RunEnv, host.flags)
           list == host.flags.Components
           R == ResolvedHealthCheckInterval(c)
<1>1. cfg[d] = c /\ RunAccepts(RunEnv, host.flags) /\ host \in Hosts
  BY DEF ProcessInv
<1>2. list \in Seq(Entry) /\ RunSettings(c, RunEnv, host.flags)
  BY <1>1, FlagsAreTyped, HostSettings
<1>3. c.Components = list
  BY <1>2 DEF RunSettings
<1>4. \A e, x : AgentConfig(x, e).from = e
  BY DEF AgentConfig
<1>5. ASSUME report.from = d, WildcardFirst(cfg[d].Components)
      PROVE  /\ report.EnabledComponents = registered[d]
             /\ registered[d] = AskedFor(list)
             /\ report.MetricScrapeIntervalSeconds * Second \in R - Second + 1 .. R
  <2>1. report = AgentConfig(c, d)
    BY <1>4, <1>5, EnrollIsNoDaemon DEF ReportInv
  <2>2. /\ report.EnabledComponents = getComponentLists(list)
        /\ report.MetricScrapeIntervalSeconds = R \div Second
    BY <1>3, <2>1 DEF AgentConfig, MetricScrapeIntervalSeconds
  <2>3. WildcardFirst(list)
    BY <1>1, <1>3, <1>5
  <2>4. getComponentLists(list) = AskedFor(list)
    BY <1>2, <2>3, ListsWhatIsAskedFor
  <2>5. registered[d] = AskedFor(list)
    <3>1. /\ registered[d] = {n \in AskedFor(list) : \E i \in 1..asked[d] : Registry[i] = n}
          /\ asked[d] = Len(Registry)
      BY <2>3 DEF SelectionInv, Selects, Chosen
    <3>2. \A n \in AskedFor(list) : \E i \in 1..Len(Registry) : Registry[i] = n
      BY RegistryIsNamed DEF AskedFor, Range
    <3> QED
      BY <3>1, <3>2
  <2>6. R \in Int /\ Second = 1000
    BY <1>1, HealthCheckIntervalIsInt DEF ResolvedHealthCheckInterval, Second
  <2> HIDE DEF R
  <2>7. (R \div 1000) * 1000 \in R - 1000 + 1 .. R
    BY <2>6
  <2>8. report.MetricScrapeIntervalSeconds * Second \in R - Second + 1 .. R
    BY <2>2, <2>6, <2>7
  <2> QED
    BY <2>2, <2>4, <2>5, <2>8
<1>6. ASSUME report.from = "enroll", OneSource
      PROVE  LoopReport(report) = LoopReport(AgentConfig(c, d))
  <2>1. report = AgentConfig(EnrollConfig, "enroll")
    BY <1>4, <1>6, EnrollIsNoDaemon DEF ReportInv
  <2>2. \A k \in LoopSettings : EnrollConfig[k] = c[k]
    BY <1>1, <1>6, EnrollReadsTheSame
  <2>3. /\ EnrollConfig.InventoryEnabled = c.InventoryEnabled
        /\ EnrollConfig.InventoryInterval = c.InventoryInterval
        /\ EnrollConfig.AttestationEnabled = c.AttestationEnabled
        /\ EnrollConfig.AttestationInterval = c.AttestationInterval
    BY <2>2, EnvSettingsAre
  <2> QED
    BY <2>1, <2>3 DEF LoopReport, AgentConfig
<1> QED
  BY <1>1, <1>5, <1>6

(***************************************************************************)
(* The backend is told the truth, for every registry, list of components,  *)
(* file and number of daemons: New and the report come to the same set in  *)
(* different ways, and so do enroll and systemd to the same settings.      *)
(***************************************************************************)
THEOREM ReportIsTrueHolds == Spec => []ReportIsTrue
<1> DEFINE Inv == ProcessInv /\ SelectionInv /\ ReportInv
<1>1. Init => Inv
  BY ProcessInit, SelectionInitInv DEF Init, ReportInv
<1>2. Inv /\ [Next]_vars => Inv'
  BY ProcessNext, SelectionNext, ReportNext
<1>3. Inv => ReportIsTrue
  BY ReportTellsTheTruth
<1> QED
  BY <1>1, <1>2, <1>3, PTL DEF Spec

-----------------------------------------------------------------------------
(* Workload metrics *)

\* All daemons of a node take the directory for the same kind of names.
NodeJobsInv ==
  \A kind : kind = HPCGPUIdentifier(RunConfig(RunEnv, host.flags)) => JobInv(kind)

\* The directory is as it was found, and nothing was scraped.
LEMMA NodeJobsInit == Init => NodeJobsInv
<1> SUFFICES ASSUME Init, NEW kind PROVE JobInv(kind)
  BY DEF NodeJobsInv
<1>1. /\ scrape = NoScrape /\ series = NoSeries /\ dir = host.dir
      /\ scraped.some = {} /\ scraped.all = {}
  BY DEF Init, JobInit
<1>2. host.dir \in [Filenames -> Contents \cup {Absent}]
  BY DirectoriesAreFiles DEF Init
<1> QED
  BY <1>1, <1>2, NothingScraped DEF JobInv, SeriesAreUnique, ConsistentEnough

\* Every step of the node keeps the invariant.
LEMMA NodeJobsNext ==
  ASSUME ProcessInv, NodeJobsInv, [Next]_vars
  PROVE  NodeJobsInv'
<1> SUFFICES ASSUME NEW kind, kind = HPCGPUIdentifier(RunConfig(RunEnv, host.flags))'
             PROVE  JobInv(kind)'
  BY DEF NodeJobsInv
<1>1. kind = HPCGPUIdentifier(RunConfig(RunEnv, host.flags))
  BY HostStays DEF RunEnv
<1>2. JobInv(kind)
  BY <1>1 DEF NodeJobsInv
<1>3. ASSUME UNCHANGED jobVars PROVE JobInv(kind)'
  BY <1>2, <1>3 DEF jobVars, JobInv, SeriesAreUnique, ConsistentEnough
<1>4. ASSUME NEW d \in Daemons, Running(d) PROVE HPCGPUIdentifier(cfg[d]) = kind
  BY <1>1, <1>4 DEF ProcessInv
<1>5. CASE enrollCommand
  BY <1>3, <1>5 DEF enrollCommand
<1>6. ASSUME NEW d \in Daemons, GoesOn(d) \/ Configures(d) \/ RegisterComponent(d)
      PROVE  JobInv(kind)'
  BY <1>3, <1>6 DEF GoesOn, Configures, RegisterComponent
<1>7. ASSUME NEW d \in Daemons, MayEnd(d)
      PROVE  JobInv(kind)'
  BY <1>2, <1>3, <1>7, ForgottenKeepsJobs DEF MayEnd, ProcessState
<1>8. ASSUME NEW d \in Daemons, Collect(d)
      PROVE  JobInv(kind)'
  <2>1. ScrapeStep(kind)
    BY <1>4, <1>8 DEF Collect, Collects
  <2> QED
    BY <1>2, <2>1, ReadDirectoryKeepsJobs, ReadFileKeepsJobs, EmitKeepsJobs DEF ScrapeStep
<1>9. ASSUME NEW d \in Daemons, Schedule(d)
      PROVE  JobInv(kind)'
  <2>1. JobsChange(kind)
    BY <1>4, <1>9 DEF Schedule, Collects
  <2> QED
    BY <1>2, <2>1, JobsChangeKeepsJobs
<1> QED
  BY <1>3, <1>5, <1>6, <1>7, <1>8, <1>9, NodeSteps DEF ProcessInv

\* So it always holds.
LEMMA NodeJobsInvHolds == Spec => [](ProcessInv /\ NodeJobsInv)
<1>1. ProcessInv /\ NodeJobsInv /\ [Next]_vars => (ProcessInv /\ NodeJobsInv)'
  BY ProcessNext, NodeJobsNext
<1> QED
  BY <1>1, ProcessInit, NodeJobsInit, PTL DEF Spec

(***************************************************************************)
(* A scrape emits no series twice, for any directory and any devices, and  *)
(* whatever changes while it reads.                                        *)
(***************************************************************************)
THEOREM SeriesAreUniqueHolds == Spec => []SeriesAreUnique
<1>1. NodeJobsInv => SeriesAreUnique
  BY DEF NodeJobsInv, JobInv
<1> QED
  BY <1>1, NodeJobsInvHolds, PTL

(***************************************************************************)
(* "consistent-enough snapshot" (reader.go:88): a scrape emits only what   *)
(* was listed at some time while it ran, and all of what was listed all    *)
(* along, for any number of files, jobs and changes.                       *)
(***************************************************************************)
THEOREM ScrapeIsConsistentHolds == Spec => []ScrapeIsConsistent
<1>1. ProcessInv /\ NodeJobsInv => ScrapeIsConsistent
  <2> SUFFICES ASSUME ProcessInv, NodeJobsInv, NEW d \in Daemons, Collects(d)
               PROVE  ConsistentEnough(HPCGPUIdentifier(cfg[d]))
    BY DEF ScrapeIsConsistent
  <2>1. cfg[d] = RunConfig(RunEnv, host.flags)
    BY DEF Collects, ProcessInv
  <2> QED
    BY <2>1 DEF NodeJobsInv, JobInv
<1> QED
  BY <1>1, NodeJobsInvHolds, PTL
=============================================================================
