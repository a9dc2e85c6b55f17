---------------------------- MODULE ExportCycle -----------------------------
(***************************************************************************)
(* The exporter with its full retry policy, and the command line changing  *)
(* the rows under it.                                                      *)
(***************************************************************************)
EXTENDS Enrollment, Exporter

cycleVars == <<rows, faults, cliVars, exp>>

CycleInit == MetadataInit /\ CliInit /\ ExporterInit

ExporterTurn == ExporterNext /\ UNCHANGED cliVars

CliTurn == (CliNext \/ EnrollDone) /\ UNCHANGED exp

CycleNext == ExporterTurn \/ CliTurn

CycleSpec == CycleInit /\ [][CycleNext]_cycleVars

FairCycleSpec == CycleSpec /\ WF_cycleVars(exp.pc # "idle" /\ ExporterTurn)

-----------------------------------------------------------------------------

\* How the counts relate to the control variables of the retry loop.
Accounting ==
  LET extra == IF exp.refreshed THEN 1 ELSE 0
      refreshing == exp.pc \in {"refreshSAK", "refreshBase", "refreshEnroll",
                                "refreshSave"}
  IN  /\ exp.requests = exp.attempt - 1 + extra + (IF refreshing THEN 1 ELSE 0)
      /\ refreshing => ~exp.refreshed
      /\ exp.exchanges <= exp.attempt - 1 + extra
                            + (IF exp.pc = "refreshSave" THEN 1 ELSE 0)

(***************************************************************************)
(* The work per payload is bounded although a refreshed request does not   *)
(* count as an attempt (attempt--) and a failed refresh may be repeated:   *)
(* at most one request more than the configured attempts, and at most one  *)
(* SAK exchange per attempt; and every request and exchange made is one    *)
(* that the loop's attempt and refreshed account for.                      *)
(***************************************************************************)
WorkIsBounded ==
  /\ Accounting
  /\ exp.pc = "send" => exp.requests <= MaxAttempts
  /\ exp.pc = "refreshEnroll" => exp.exchanges < MaxAttempts

(***************************************************************************)
(* Every cycle ends: neither commands nor failures nor 401 answers keep an *)
(* export from coming back to its ticker.                                  *)
(***************************************************************************)
CycleFinishes == exp.pc # "idle" ~> exp.pc = "idle"

(***************************************************************************)
(* "Authentication to the backend is owned by the gateway. Do not forward  *)
(* a node JWT to the cluster-local collector." (exporter.go:274-275)       *)
(***************************************************************************)
NoTokenToGateway ==
  exp.pc = "send" /\ Endpoint = Gateway => exp.current = None
=============================================================================
