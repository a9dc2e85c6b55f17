--------------------------- MODULE AgentMetadata ---------------------------
(***************************************************************************)
(* The gpud_metadata rows that carry the enrollment, shared through one    *)
(* SQLite file by the daemon's workflows (exporter, attestation,           *)
(* inventory) and the command line (enroll, unenroll).  A statement is     *)
(* atomic; nothing spans two statements.  The modules of the workflows     *)
(* extend this one.                                                        *)
(*                                                                         *)
(* A credential is represented by the backend that issued it: a SAK and a  *)
(* JWT of backend b are both written b.  An empty value and a missing row  *)
(* are the same to every reader (ReadMetadata returns "" for no row) and   *)
(* are None.                                                               *)
(***************************************************************************)
EXTENDS Naturals

CONSTANTS
  Backends,   \* backend base URLs a machine can be enrolled with
  Gateway,    \* the cluster-local collector endpoint
  None,       \* no value
  Names,      \* node groups and compute zones
  MaxFaults   \* bound on failed statements and exchanges, and restarts

ASSUME DistinctValues == None \notin Backends \cup Names \cup {Gateway}

ASSUME GatewayIsNoBackend == Gateway \notin Backends

ASSUME FaultsBounded == MaxFaults \in Nat

VARIABLES
  sakToken,   \* sak_token
  token,      \* the JWT (key token)
  baseURL,    \* backend_base_url
  legacy,     \* enroll_, metrics_, logs_ and nonce_endpoint of old versions
  placement,  \* <<node_group, compute_zone>>
  faults      \* faults that happened so far

rows == <<sakToken, token, baseURL, legacy, placement>>

OrNone(S) == S \cup {None}

Placements == OrNone(Names) \X OrNone(Names)

MetadataTypeOK ==
  /\ sakToken \in OrNone(Backends)
  /\ token \in OrNone(Backends)
  /\ baseURL \in OrNone(Backends)
  /\ legacy \in OrNone(Backends)
  /\ placement \in Placements
  /\ faults \in 0..MaxFaults

\* A fresh machine, one enrolled by this version, and one enrolled by a
\* version that stored one endpoint per service.
MetadataInit ==
  /\ \/ sakToken = None /\ token = None /\ baseURL = None /\ legacy = None
     \/ \E b \in Backends :
          /\ sakToken = b /\ token = b
          /\ \/ baseURL = b /\ legacy = None
             \/ baseURL = None /\ legacy = b
  /\ placement = <<None, None>>
  /\ faults = 0

\* Something that can fail does, or does not.
Fault == faults < MaxFaults /\ faults' = faults + 1
NoFault == UNCHANGED faults

-----------------------------------------------------------------------------
(* Statements that write one row. *)

SetSAK(v) ==
  /\ sakToken' = v
  /\ UNCHANGED <<token, baseURL, legacy, placement>>

SetJWT(v) ==
  /\ token' = v
  /\ UNCHANGED <<sakToken, baseURL, legacy, placement>>

SetBackendBaseURL(v) ==
  /\ baseURL' = v
  /\ UNCHANGED <<sakToken, token, legacy, placement>>

SetNodePlacement(p) ==
  /\ placement' = p
  /\ UNCHANGED <<sakToken, token, baseURL, legacy>>

\* What GetBackendBaseURL finds.  Its statements read the rows one at a time,
\* but the legacy rows only ever disappear, all at once, together with
\* backend_base_url: what is found is what was there at one moment.
GetBackendBaseURL == IF baseURL # None THEN baseURL ELSE legacy

-----------------------------------------------------------------------------
(* The services on the other side, as far as the agent can tell. *)

\* A backend accepts a JWT it issued; the gateway asks for none.
MayAccept(endpoint, jwt) == endpoint = Gateway \/ jwt = endpoint

\* Tokens a service may hand back in a successful answer.
Reissued(endpoint) == {None} \cup ({endpoint} \cap Backends)
=============================================================================
