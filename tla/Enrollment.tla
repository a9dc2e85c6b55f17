----------------------------- MODULE Enrollment -----------------------------
(***************************************************************************)
(* fleetint enroll and fleetint unenroll, as run by an operator, one       *)
(* command at a time.  Enrolling exchanges the SAK for a JWT and then      *)
(* stores the configuration with one statement per row: an error or a kill *)
(* between two statements leaves the earlier ones behind.  Unenrolling is  *)
(* one DELETE.                                                             *)
(***************************************************************************)
EXTENDS AgentMetadata

CONSTANTS
  EnrollFlags,  \* the --node-group and --compute-zone flags that are tried
  MaxCommands   \* bound on the number of commands

ASSUME CommandsBounded == MaxCommands \in Nat

VARIABLES
  cli,       \* the command that runs
  commands   \* number of commands started so far

cliVars == <<cli, commands>>

CliSteps == {"idle", "exchange", "sak", "jwt", "base", "placement",
             "sync", "syncing"}

\* A flag that was not given is Omitted; one given as "" is None.
Omitted == "omitted"

Flags == (OrNone(Names) \cup {Omitted}) \X (OrNone(Names) \cup {Omitted})

NoFlags == <<Omitted, Omitted>>

ASSUME FlagsAreFlags == EnrollFlags \subseteq Flags

IdleCli == [pc |-> "idle", target |-> None, flags |-> NoFlags]

CliRecords == [pc : CliSteps, target : OrNone(Backends), flags : Flags]

CliTypeOK ==
  /\ cli \in CliRecords
  /\ commands \in 0..MaxCommands

CliInit == cli = IdleCli /\ commands = 0

CliGoto(step) == cli' = [cli EXCEPT !.pc = step]

-----------------------------------------------------------------------------

\* enroll with validated flags, a token and a passed (or forced) precheck.
EnrollStart ==
  /\ cli.pc = "idle"
  /\ commands < MaxCommands
  /\ commands' = commands + 1
  /\ \E b \in Backends, f \in EnrollFlags :
       cli' = [pc |-> "exchange", target |-> b, flags |-> f]
  /\ NoFault /\ UNCHANGED rows

\* client.Enroll answers with a JWT, and the agent UUID is there or is made
\* (module AgentIdentity).  Nothing is stored before both succeeded.
EnrollExchange ==
  /\ cli.pc = "exchange"
  /\ CliGoto("sak")
  /\ NoFault /\ UNCHANGED <<rows, commands>>

\* Mutant: the base URL is stored before the credentials.
StoreBaseURLFirst ==
  /\ cli.pc = "sak"
  /\ SetBackendBaseURL(cli.target)
  /\ CliGoto("jwt")
  /\ NoFault /\ UNCHANGED commands

\* storeConfigInMetadata, statement by statement.
StoreSAK ==
  /\ cli.pc = "sak"
  /\ SetSAK(cli.target)
  /\ CliGoto("jwt")
  /\ NoFault /\ UNCHANGED commands

StoreJWT ==
  /\ cli.pc = "jwt"
  /\ SetJWT(cli.target)
  /\ CliGoto("base")
  /\ NoFault /\ UNCHANGED commands

StoreBaseURL ==
  /\ cli.pc = "base"
  /\ SetBackendBaseURL(cli.target)
  /\ CliGoto("placement")
  /\ NoFault /\ UNCHANGED commands

\* enrolled_at (which no step depends on) and the placement flags: one
\* statement for both fields, none when no flag was given.
UpdateNodePlacementMetadata ==
  /\ cli.pc = "placement"
  /\ SetNodePlacement([i \in 1..2 |->
       IF cli.flags[i] = Omitted THEN placement[i] ELSE cli.flags[i]])
  /\ CliGoto("sync")
  /\ NoFault /\ UNCHANGED commands

\* The command ends: its inventory sync returned, failed or ran out of time.
\* A goroutine that still runs ends with the process.
EnrollDone ==
  /\ cli.pc \in {"sync", "syncing"}
  /\ cli' = IdleCli
  /\ NoFault /\ UNCHANGED <<rows, commands>>

\* The exchange or a statement fails, or the process is killed.
EnrollAborts ==
  /\ cli.pc \notin {"idle", "sync", "syncing"}
  /\ cli' = IdleCli
  /\ Fault /\ UNCHANGED <<rows, commands>>

\* removeEnrollmentMetadata: one statement for all the rows.
Unenroll ==
  /\ cli.pc = "idle"
  /\ commands < MaxCommands
  /\ commands' = commands + 1
  /\ sakToken' = None /\ token' = None /\ baseURL' = None /\ legacy' = None
  /\ placement' = <<None, None>>
  /\ NoFault /\ UNCHANGED cli

\* EnrollDone and the start of the inventory sync are in the modules that
\* compose the command line with the inventory export.
CliNext ==
  \/ EnrollStart \/ EnrollExchange \/ StoreSAK \/ StoreJWT \/ StoreBaseURL
  \/ UpdateNodePlacementMetadata \/ EnrollAborts \/ Unenroll
=============================================================================
