----------------------------- MODULE FleetAgent -----------------------------
(***************************************************************************)
(* The daemon's three backend workflows and the command line on one        *)
(* metadata table.  The exporter, the attestation loop and the inventory   *)
(* loop are goroutines of the daemon; enroll and unenroll run in processes *)
(* of their own at any moment; the daemon may be killed and restarted.     *)
(***************************************************************************)
EXTENDS Enrollment, Exporter, Attestation, Inventory

CONSTANT Configurations  \* configurations of the daemon and its operator

VARIABLES
  config,   \* the configuration of this behaviour
  unaware,  \* history: the cycles during which no backend URL was stored
  torn      \* history: an enroll of an enrolled machine was cut short after
            \* its first statement, and none has stored a base URL since

workflows == <<exp, att, inv, assigned>>

vars == <<rows, faults, cliVars, workflows, config, unaware, torn>>

-----------------------------------------------------------------------------
(* Cycles, and what they have sent or are about to send *)

Cycles == {"exporter", "attestation", "loop", "cli"}

\* The workflows that are not configured off, the backends and the flags the
\* operator uses, and a bound on the operator's commands.
ASSUME Configured ==
  Configurations \subseteq [workflows : SUBSET (Cycles \ {"cli"}),
                            targets : SUBSET Backends,
                            flags : SUBSET EnrollFlags,
                            commands : 0..MaxCommands]

Running(c) == CASE c = "exporter" -> exp.pc # "idle"
                [] c = "attestation" -> att.pc # "idle"
                [] OTHER -> inv[c].pc # "idle"

Requesting(c) == CASE c = "exporter" -> exp.pc \in {"send", "refreshEnroll"}
                   [] c = "attestation" -> att.pc \in {"nonce", "submit"}
                   [] OTHER -> inv[c].pc = "upsert"

NotEnrolled == GetBackendBaseURL = None

\* A cycle that starts while no URL is stored stays unaware until one is.
TrackUnaware ==
  unaware' = {c \in Cycles :
                /\ Running(c)' /\ NotEnrolled /\ NotEnrolled'
                /\ Running(c) => c \in unaware}

\* Between the statements that store the SAK and the base URL.
Storing == cli.pc \in {"jwt", "base"}

TrackTorn ==
  torn' = /\ torn \/ (Storing /\ cli'.pc = "idle")
          /\ ~(cli.pc = "base" /\ cli'.pc = "placement")
          /\ ~NotEnrolled'

TrackHistory == TrackUnaware /\ TrackTorn

-----------------------------------------------------------------------------

Init ==
  /\ MetadataInit /\ CliInit
  /\ ExporterInit /\ AttestationInit /\ InventoryInit
  /\ config \in Configurations
  /\ unaware = {} /\ torn = FALSE

ExporterStep ==
  /\ "exporter" \in config.workflows
  /\ ExporterNext
  /\ UNCHANGED <<cliVars, att, inv, assigned, config>>
  /\ TrackHistory

AttestationStep ==
  /\ "attestation" \in config.workflows
  /\ AttestationNext
  /\ UNCHANGED <<cliVars, exp, inv, assigned, config>>
  /\ TrackHistory

InventoryLoopStep ==
  /\ "loop" \in config.workflows
  /\ CollectSnapshot("loop") \/ InventoryStep("loop")
  /\ UNCHANGED <<cliVars, exp, att, config>>
  /\ TrackHistory

\* The running command goes on.
CliStep ==
  /\ \/ CliNext /\ UNCHANGED <<inv, assigned>>
     \/ /\ cli.pc = "sync" /\ CliGoto("syncing")
        /\ CollectSnapshot("cli") /\ UNCHANGED commands
     \/ InventoryStep("cli") /\ UNCHANGED cliVars
     \/ EnrollDone /\ InventoryEnds("cli") /\ UNCHANGED assigned
  /\ commands' <= config.commands
  /\ cli'.target \in OrNone(config.targets)
  /\ cli'.flags \in config.flags \cup {NoFlags}
  /\ UNCHANGED <<exp, att, config>>
  /\ TrackHistory

\* The daemon dies at any point and is started again by systemd.
DaemonRestart ==
  /\ \E c \in Cycles \ {"cli"} : Running(c)
  /\ exp' = Rest(exp.collector, None, None, None)
  /\ AttestationEnds /\ InventoryEnds("loop")
  /\ Fault
  /\ UNCHANGED <<rows, cliVars, assigned, config>>
  /\ TrackHistory

Next ==
  ExporterStep \/ AttestationStep \/ InventoryLoopStep \/ CliStep \/ DaemonRestart

Spec == Init /\ [][Next]_vars

\* The ticker and the loops start cycle after cycle and a started cycle runs
\* on; a started command runs on.  Nobody has to start a command.
FairSpec ==
  /\ Spec
  /\ WF_vars(ExporterStep) /\ WF_vars(AttestationStep)
  /\ WF_vars(InventoryLoopStep)
  /\ WF_vars(cli.pc # "idle" /\ CliStep)

-----------------------------------------------------------------------------

TypeOK ==
  /\ MetadataTypeOK /\ CliTypeOK
  /\ ExporterTypeOK /\ AttestationTypeOK /\ InventoryTypeOK
  /\ config \in Configurations /\ unaware \subseteq Cycles /\ torn \in BOOLEAN

(***************************************************************************)
(* A machine that has a backend URL has a SAK and a JWT, and the SAK is of *)
(* that backend: storeConfigInMetadata writes the URL after the            *)
(* credentials, and unenroll removes all rows in one statement.  The one   *)
(* exception is what the order of the statements cannot prevent: while an  *)
(* enroll with another backend is between them, and after one that was cut *)
(* short there, the new SAK stands beside the old URL, until an enroll     *)
(* gets to its base URL.  (Whose JWT is stored is not claimed: a workflow  *)
(* of the former enrollment may store its own late; see Converges.)        *)
(***************************************************************************)
EnrolledIsComplete ==
  ~NotEnrolled =>
    /\ sakToken # None /\ token # None
    /\ sakToken = GetBackendBaseURL \/ Storing \/ torn

(***************************************************************************)
(* "After unenrolling, the agent will no longer export data to the backend *)
(* until re-enrolled" (docs/usage.md): no cycle that starts without a      *)
(* stored backend URL makes a request, although the exporter keeps its     *)
(* endpoints and token in memory between cycles and a token may be left.   *)
(***************************************************************************)
UnenrolledIsSilent == \A c \in unaware : ~Requesting(c)

\* Everything stored, cached and in flight belongs to backend b.
Settled(b) ==
  /\ cli.pc \in {"idle", "sync", "syncing"}
  /\ GetBackendBaseURL = b /\ sakToken = b /\ token = b
  /\ {legacy, exp.metricsEndpoint, exp.logsEndpoint, exp.authToken,
      exp.current, exp.sak, exp.base, exp.newToken,
      att.jwt, att.refreshed, att.nonceFrom, att.submitTo}
       \cup {inv[w].base : w \in Workers} \cup {inv[w].jwt : w \in Workers}
     \subseteq {b, None}

(***************************************************************************)
(* Left alone, the daemon never mixes backends: as long as no command is   *)
(* started, no interleaving of the workflows, no failure and no restart    *)
(* brings a URL or a token of another backend into play.                   *)
(***************************************************************************)
SettledStays ==
  [][\A b \in Backends :
       Settled(b) /\ UNCHANGED commands => Settled(b)']_vars

\* The rows of a completed enrollment; the JWT may still be overwritten by
\* a workflow that began before it.
EnrolledWith(b) ==
  /\ cli.pc = "idle"
  /\ GetBackendBaseURL = b /\ sakToken = b /\ legacy \in {b, None}

(***************************************************************************)
(* Recovery: when commands stop after an enrollment, the exporter's        *)
(* refresh on 401 replaces whatever token a late workflow of the former    *)
(* enrollment stored, and every workflow ends up with the credentials of   *)
(* the one backend whose URL is stored.                                    *)
(***************************************************************************)
Converges ==
  "exporter" \in config.workflows /\ <>[](\E b \in Backends : EnrolledWith(b))
    => <>[](\E b \in Backends : Settled(b))

\* The inventory exports go to b, which takes them.
ReportsTo(b) ==
  /\ "loop" \in config.workflows
  /\ cli.pc = "idle" /\ GetBackendBaseURL = b /\ token = b

(***************************************************************************)
(* The node group and compute zone are set by the enroll flags, kept in    *)
(* the table and reconciled with the backend by every inventory export,    *)
(* the one of the loop and the one that ends an enroll.  When commands     *)
(* stop, the machine and its backend come to agree on them, whatever late  *)
(* answers of earlier exports were stored, whatever the backend made of    *)
(* the request, and although a failed read sends an empty placement.       *)
(***************************************************************************)
PlacementConverges ==
  <>[](\E b \in Backends : ReportsTo(b))
    => <>[](\E b \in Backends : ReportsTo(b) /\ placement = assigned[b])

(***************************************************************************)
(* "Removes all enrollment credentials" and "Clears the JWT token from     *)
(* local storage" (docs/usage.md:185,188): once unenrolled, no credential  *)
(* is stored until the next command.                                       *)
(***************************************************************************)
Cleared ==
  cli.pc = "idle" /\ NotEnrolled /\ sakToken = None /\ token = None

UnenrolledStaysCleared == [][Cleared /\ UNCHANGED commands => Cleared']_vars
=============================================================================
