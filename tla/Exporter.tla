------------------------------ MODULE Exporter ------------------------------
(***************************************************************************)
(* One export cycle of the health exporter: refreshConfigFromMetadata      *)
(* reads the endpoints and the JWT, the data is collected, and             *)
(* httpWriter.Send posts the metrics and then the logs, each with retries. *)
(* The first 401 of a payload exchanges the stored SAK for a new JWT,      *)
(* stores it and repeats the request.  A JWT in an answer's jwt_assertion  *)
(* header is stored when the whole Send succeeded.                         *)
(*                                                                         *)
(* Every statement and every HTTP exchange is one step.  In collector mode *)
(* the payloads go to the gateway and the cycle starts without a token.    *)
(***************************************************************************)
EXTENDS AgentMetadata

CONSTANTS
  CollectorModes,   \* whether CollectorEndpoint may be configured
  RetryMaxAttempts  \* attempts per payload

ASSUME ModesAreBoolean == CollectorModes \subseteq BOOLEAN

ASSUME AttemptsAreNat == RetryMaxAttempts \in Nat

VARIABLE exp  \* the exporter: its configuration and the cycle's locals

ExporterSteps == {"idle", "legacyMetrics", "legacyLogs", "token", "collect",
                  "send", "refreshSAK", "refreshBase", "refreshEnroll",
                  "refreshSave", "saveToken"}

Payloads == {"metrics", "logs"}

Endpoints == OrNone(Backends \cup {Gateway})

\* sendOTLPRequestWithRetry makes at least one attempt.
MaxAttempts == IF RetryMaxAttempts = 0 THEN 1 ELSE RetryMaxAttempts

ExporterRecords ==
  [pc : ExporterSteps,
   collector : BOOLEAN,          \* config.CollectorEndpoint is set
   metricsEndpoint : Endpoints,  \* config.MetricsEndpoint
   logsEndpoint : Endpoints,     \* config.LogsEndpoint
   authToken : OrNone(Backends), \* config.AuthToken
   payload : Payloads,           \* what is being sent
   attempt : 1..MaxAttempts,     \* attempt
   current : OrNone(Backends),   \* currentAuthToken
   refreshed : BOOLEAN,          \* jwtRefreshAttempted
   requests : Nat,               \* requests made for this payload
   exchanges : Nat,              \* SAK exchanges made for it
   sak : OrNone(Backends),       \* sakToken of refreshJWTToken
   base : OrNone(Backends),      \* baseURL of refreshJWTToken
   newToken : OrNone(Backends)]  \* newToken of Send

ExporterTypeOK == exp \in ExporterRecords

\* The locals before a cycle; the configuration is kept between cycles.
Rest(mode, metrics, logs, auth) ==
  [pc |-> "idle", collector |-> mode, metricsEndpoint |-> metrics, logsEndpoint |-> logs,
   authToken |-> auth, payload |-> "metrics", attempt |-> 1, current |-> None,
   refreshed |-> FALSE, requests |-> 0, exchanges |-> 0, sak |-> None,
   base |-> None, newToken |-> None]

ExporterInit == \E mode \in CollectorModes : exp = Rest(mode, None, None, None)

CycleEnds ==
  exp' = Rest(exp.collector, exp.metricsEndpoint, exp.logsEndpoint, exp.authToken)

-----------------------------------------------------------------------------
(* refreshConfigFromMetadata *)

\* Collector mode takes precedence over the enrollment.
UseCollector ==
  /\ exp.pc = "idle" /\ exp.collector
  /\ exp' = [exp EXCEPT !.pc = "collect", !.metricsEndpoint = Gateway,
                        !.logsEndpoint = Gateway, !.authToken = None]
  /\ NoFault /\ UNCHANGED rows

\* Mutant: without a base URL the endpoints are left as they are.
RefreshEndpointsKeeping ==
  /\ exp.pc = "idle" /\ ~exp.collector
  /\ exp' = IF baseURL # None
              THEN [exp EXCEPT !.pc = "token", !.metricsEndpoint = baseURL,
                               !.logsEndpoint = baseURL]
              ELSE [exp EXCEPT !.pc = "token"]
  /\ NoFault /\ UNCHANGED rows

\* The backend base URL; a failed read counts as none.
RefreshEndpoints ==
  /\ exp.pc = "idle" /\ ~exp.collector
  /\ \/ /\ baseURL # None
        /\ exp' = [exp EXCEPT !.pc = "token", !.metricsEndpoint = baseURL,
                              !.logsEndpoint = baseURL]
        /\ NoFault
     \/ /\ baseURL = None
        /\ exp' = [exp EXCEPT !.pc = "legacyMetrics"]
        /\ NoFault
     \/ /\ exp' = [exp EXCEPT !.pc = "legacyMetrics"]
        /\ Fault
  /\ UNCHANGED rows

\* readValidatedEndpoint, once for metrics_endpoint and once for
\* logs_endpoint: "" when there is none or the read fails.
ReadLegacyEndpoint ==
  /\ \/ /\ exp.pc = "legacyMetrics"
        /\ \/ /\ exp' = [exp EXCEPT !.pc = "legacyLogs",
                                    !.metricsEndpoint = legacy]
              /\ NoFault
           \/ /\ exp' = [exp EXCEPT !.pc = "legacyLogs",
                                    !.metricsEndpoint = None]
              /\ Fault
     \/ /\ exp.pc = "legacyLogs"
        /\ \/ /\ exp' = [exp EXCEPT !.pc = "token", !.logsEndpoint = legacy]
              /\ NoFault
           \/ /\ exp' = [exp EXCEPT !.pc = "token", !.logsEndpoint = None]
              /\ Fault
  /\ UNCHANGED rows

\* The token, also when it is empty; a failed read keeps the one in memory.
RefreshAuthToken ==
  /\ exp.pc = "token"
  /\ \/ /\ exp' = [exp EXCEPT !.pc = "collect", !.authToken = token]
        /\ NoFault
     \/ /\ exp' = [exp EXCEPT !.pc = "collect"]
        /\ Fault
  /\ UNCHANGED rows

-----------------------------------------------------------------------------
(* exportToHTTP and httpWriter.Send *)

Endpoint ==
  IF exp.payload = "metrics" THEN exp.metricsEndpoint ELSE exp.logsEndpoint

\* Each payload starts from the token the cycle read, whatever a refresh
\* for the other payload stored.
BeginPayload(p, new) ==
  [exp EXCEPT !.pc = "send", !.payload = p, !.attempt = 1,
              !.current = exp.authToken, !.refreshed = FALSE,
              !.requests = 0, !.exchanges = 0, !.sak = None, !.base = None,
              !.newToken = new]

\* The data is collected and converted (to one resource of metrics and one
\* of logs, whatever was found), or collecting fails.  A payload without an
\* endpoint is not sent.
CollectAndSend ==
  /\ exp.pc = "collect"
  /\ \/ /\ CASE exp.metricsEndpoint # None -> exp' = BeginPayload("metrics", None)
           [] exp.metricsEndpoint = None /\ exp.logsEndpoint # None ->
                exp' = BeginPayload("logs", None)
           [] OTHER -> CycleEnds
        /\ NoFault
     \/ CycleEnds /\ Fault
  /\ UNCHANGED rows

\* Mutant: an empty header token is stored like any other.
AfterPayloadSavingAny(accepted, header) ==
  IF exp.payload = "metrics" /\ exp.logsEndpoint # None
    THEN BeginPayload("logs", header)
    ELSE [Rest(exp.collector, exp.metricsEndpoint, exp.logsEndpoint, exp.authToken)
            EXCEPT !.pc = "saveToken", !.newToken = header]

\* What follows a payload that was accepted with the header token given, or
\* given up.  Lost metrics do not stop the logs; lost logs fail the export,
\* and the header token is dropped with it.
AfterPayload(accepted, header) ==
  LET new == IF header # None THEN header ELSE exp.newToken
      rest == Rest(exp.collector, exp.metricsEndpoint, exp.logsEndpoint, exp.authToken)
  IN  IF exp.payload = "metrics" /\ exp.logsEndpoint # None
        THEN BeginPayload("logs", new)
        ELSE IF new # None /\ (accepted \/ exp.payload = "metrics")
               THEN [rest EXCEPT !.pc = "saveToken", !.newToken = new]
               ELSE rest

\* The attempt was the last one, or there is another after the delay.
AttemptFails(e) ==
  exp' = IF e.attempt >= MaxAttempts
           THEN AfterPayload(FALSE, None)
           ELSE [e EXCEPT !.pc = "send", !.attempt = e.attempt + 1,
                          !.sak = None, !.base = None]

Requested == [exp EXCEPT !.requests = exp.requests + 1]

SendAccepted ==
  /\ exp.pc = "send"
  /\ MayAccept(Endpoint, exp.current)
  /\ \E h \in Reissued(Endpoint) : exp' = AfterPayload(TRUE, h)
  /\ NoFault /\ UNCHANGED rows

\* A 401: certain when another backend issued the token, possible (expiry,
\* revocation, a gateway that wants credentials) when it did not.
SendUnauthorized ==
  /\ exp.pc = "send"
  /\ IF MayAccept(Endpoint, exp.current) THEN Fault ELSE NoFault
  /\ IF exp.refreshed
       THEN AttemptFails(Requested)
       ELSE exp' = [Requested EXCEPT !.pc = "refreshSAK"]
  /\ UNCHANGED rows

\* Any other failure; or the export's context ends while it waits to retry.
SendFails ==
  /\ exp.pc = "send"
  /\ AttemptFails(Requested) \/ exp' = AfterPayload(FALSE, None)
  /\ Fault /\ UNCHANGED rows

-----------------------------------------------------------------------------
(* refreshJWTToken *)

RefreshReadSAK ==
  /\ exp.pc = "refreshSAK"
  /\ \/ /\ sakToken # None
        /\ exp' = [exp EXCEPT !.pc = "refreshBase", !.sak = sakToken]
        /\ NoFault
     \/ sakToken = None /\ AttemptFails(exp) /\ NoFault
     \/ AttemptFails(exp) /\ Fault
  /\ UNCHANGED rows

\* Mutant: a missing base URL is waited for.
RefreshAwaitBaseURL ==
  /\ exp.pc = "refreshBase"
  /\ exp' = IF GetBackendBaseURL # None
              THEN [exp EXCEPT !.pc = "refreshEnroll", !.base = GetBackendBaseURL]
              ELSE exp
  /\ NoFault /\ UNCHANGED rows

\* A failed read of the base URL falls back to the legacy rows.
RefreshReadBaseURL ==
  /\ exp.pc = "refreshBase"
  /\ \E b \in {GetBackendBaseURL, legacy, None} :
       /\ IF b = GetBackendBaseURL THEN NoFault ELSE Fault
       /\ IF b # None
            THEN exp' = [exp EXCEPT !.pc = "refreshEnroll", !.base = b]
            ELSE AttemptFails(exp)
  /\ UNCHANGED rows

\* The backend exchanges a SAK of its own.  A refresh that failed does not
\* count: the next 401 of the payload tries again.
RefreshEnroll ==
  /\ exp.pc = "refreshEnroll"
  /\ LET exchanged == [exp EXCEPT !.exchanges = exp.exchanges + 1]
     IN  \/ /\ exp.sak = exp.base
            /\ exp' = [exchanged EXCEPT !.pc = "refreshSave"]
            /\ NoFault
         \/ /\ AttemptFails(exchanged)
            /\ IF exp.sak = exp.base THEN Fault ELSE NoFault
  /\ UNCHANGED rows

\* Mutant: the new JWT is used but not stored.
RefreshInMemory ==
  /\ exp.pc = "refreshSave"
  /\ exp' = [exp EXCEPT !.pc = "send", !.current = exp.base,
                        !.refreshed = TRUE, !.sak = None, !.base = None]
  /\ NoFault /\ UNCHANGED rows

\* Mutant: that a refresh was made is forgotten.
RefreshForgotten ==
  /\ exp.pc = "refreshSave"
  /\ exp' = [exp EXCEPT !.pc = "send", !.current = exp.base,
                        !.sak = None, !.base = None]
  /\ SetJWT(exp.base) /\ NoFault

\* The new JWT is stored; when that fails it is used all the same.
RefreshSave ==
  /\ exp.pc = "refreshSave"
  /\ exp' = [exp EXCEPT !.pc = "send", !.current = exp.base,
                        !.refreshed = TRUE, !.sak = None, !.base = None]
  /\ \/ SetJWT(exp.base) /\ NoFault
     \/ Fault /\ UNCHANGED rows

\* updateTokenInMetadata with the token of the last answer that had one.
SaveHeaderToken ==
  /\ exp.pc = "saveToken"
  /\ \/ /\ SetJWT(exp.newToken)
        /\ exp' = Rest(exp.collector, exp.metricsEndpoint, exp.logsEndpoint, exp.newToken)
        /\ NoFault
     \/ CycleEnds /\ Fault /\ UNCHANGED rows

ExporterNext ==
  \/ UseCollector \/ RefreshEndpoints \/ ReadLegacyEndpoint
  \/ RefreshAuthToken \/ CollectAndSend
  \/ SendAccepted \/ SendUnauthorized \/ SendFails
  \/ RefreshReadSAK \/ RefreshReadBaseURL \/ RefreshEnroll \/ RefreshSave
  \/ SaveHeaderToken
=============================================================================
