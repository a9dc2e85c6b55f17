--------------------------- MODULE ExporterProofs ---------------------------
(***************************************************************************)
(* What the steps of the exporter do to its record, and those of the       *)
(* exporter and of the commands to the rows.  The accounting of requests   *)
(* is inductive with the types of what the exporter reads: the loop's      *)
(* counters are reset with every payload, and each step in between moves   *)
(* them together.                                                          *)
(***************************************************************************)
EXTENDS ExportCycle, TLAPS

Credentials == OrNone(Backends)

\* What the rows can hand to the exporter.
RowsOK ==
  /\ sakToken \in Credentials /\ token \in Credentials
  /\ baseURL \in Credentials /\ legacy \in Credentials

Extra(e) == IF e.refreshed THEN 1 ELSE 0

Refreshing(e) == e.pc \in {"refreshSAK", "refreshBase", "refreshEnroll", "refreshSave"}

\* Accounting of a record.
Accounts(e) ==
  /\ e.requests = e.attempt - 1 + Extra(e) + (IF Refreshing(e) THEN 1 ELSE 0)
  /\ Refreshing(e) => ~e.refreshed
  /\ e.exchanges <= e.attempt - 1 + Extra(e) + (IF e.pc = "refreshSave" THEN 1 ELSE 0)

Fine(e) == e \in ExporterRecords /\ Accounts(e)

-----------------------------------------------------------------------------
(* The records the exporter's steps build *)

\* RetryMaxAttempts = 0 counts as 1.
LEMMA AttemptsArePositive == MaxAttempts \in Nat /\ MaxAttempts >= 1
  BY AttemptsAreNat DEF MaxAttempts

\* What the endpoints and tokens of a cycle can be set to.
LEMMA NoneIsNothing ==
  /\ None \in Credentials /\ None \in Endpoints /\ Gateway \in Endpoints
  /\ \A b \in Credentials : b \in Endpoints
  BY DEF Credentials, Endpoints, OrNone

\* A cycle starts over, or goes on to store the token it was handed.
LEMMA RestIsFine ==
  ASSUME NEW mode \in BOOLEAN, NEW m \in Endpoints, NEW l \in Endpoints,
         NEW a \in Credentials, NEW new \in Credentials
  PROVE  /\ Fine(Rest(mode, m, l, a))
         /\ Fine([Rest(mode, m, l, a) EXCEPT !.pc = "saveToken", !.newToken = new])
<1> DEFINE r == Rest(mode, m, l, a)
           s == [r EXCEPT !.pc = "saveToken", !.newToken = new]
<1>1. 1 \in 1..MaxAttempts
  BY AttemptsArePositive
<1>2. r \in ExporterRecords
  BY <1>1, NoneIsNothing
  DEF Rest, ExporterRecords, ExporterSteps, Payloads, Credentials
<1>3. /\ r.pc = "idle" /\ r.attempt = 1 /\ r.refreshed = FALSE
      /\ r.requests = 0 /\ r.exchanges = 0
  BY DEF Rest
<1> HIDE DEF r
<1>4. s \in ExporterRecords
  BY <1>2 DEF ExporterRecords, ExporterSteps, Credentials
<1>5. /\ s.pc = "saveToken" /\ s.attempt = 1 /\ s.refreshed = FALSE
      /\ s.requests = 0 /\ s.exchanges = 0
  BY <1>2, <1>3 DEF ExporterRecords
<1> HIDE DEF s
<1>6. Fine(r) /\ Fine(s)
  BY <1>2, <1>3, <1>4, <1>5 DEF Fine, Accounts, Extra, Refreshing
<1> QED
  BY <1>6 DEF r, s

\* A payload starts with its counters reset.
LEMMA BeginPayloadIsFine ==
  ASSUME Fine(exp), NEW p \in Payloads, NEW new \in Credentials
  PROVE  Fine(BeginPayload(p, new))
<1>1. 1 \in 1..MaxAttempts
  BY AttemptsArePositive
<1> DEFINE r == BeginPayload(p, new)
<1>2. r \in ExporterRecords
  BY <1>1, NoneIsNothing DEF Fine, BeginPayload, ExporterRecords, ExporterSteps, Credentials
<1>3. /\ r.pc = "send" /\ r.attempt = 1 /\ r.refreshed = FALSE
      /\ r.requests = 0 /\ r.exchanges = 0
  BY DEF Fine, BeginPayload, ExporterRecords
<1> HIDE DEF r
<1>4. Fine(r)
  BY <1>2, <1>3 DEF Fine, Accounts, Extra, Refreshing
<1> QED
  BY <1>4 DEF r

\* A payload was accepted or given up.
LEMMA AfterPayloadIsFine ==
  ASSUME Fine(exp), NEW accepted \in BOOLEAN, NEW header \in Credentials
  PROVE  Fine(AfterPayload(accepted, header))
<1> DEFINE new == IF header # None THEN header ELSE exp.newToken
           rest == Rest(exp.collector, exp.metricsEndpoint, exp.logsEndpoint,
                        exp.authToken)
<1>1. /\ exp.collector \in BOOLEAN /\ exp.metricsEndpoint \in Endpoints
      /\ exp.logsEndpoint \in Endpoints /\ exp.authToken \in Credentials
      /\ new \in Credentials
  BY DEF Fine, ExporterRecords, Credentials
<1>2. Fine(BeginPayload("logs", new))
  BY <1>1, BeginPayloadIsFine DEF Payloads
<1>3. Fine(rest) /\ Fine([rest EXCEPT !.pc = "saveToken", !.newToken = new])
  BY <1>1, RestIsFine
<1> HIDE DEF rest
<1>4. AfterPayload(accepted, header) \in
        {BeginPayload("logs", new), rest,
         [rest EXCEPT !.pc = "saveToken", !.newToken = new]}
  BY Zenon DEF AfterPayload, rest
<1> QED
  BY <1>2, <1>3, <1>4

\* A failed attempt: the request it made is the attempt's own, or the one
\* that the refresh gave away.
LEMMA AttemptFailsIsFine ==
  ASSUME Fine(exp), NEW e \in ExporterRecords, AttemptFails(e),
         e.requests = e.attempt + Extra(e), e.exchanges <= e.attempt + Extra(e)
  PROVE  Fine(exp')
<1>1. CASE e.attempt >= MaxAttempts
  BY <1>1, AfterPayloadIsFine, NoneIsNothing DEF AttemptFails
<1>2. CASE ~(e.attempt >= MaxAttempts)
  <2>1. exp' = [e EXCEPT !.pc = "send", !.attempt = e.attempt + 1,
                         !.sak = None, !.base = None]
    BY <1>2 DEF AttemptFails
  <2>2. e.attempt + 1 \in 1..MaxAttempts
    BY <1>2, AttemptsArePositive DEF ExporterRecords
  <2>3. exp' \in ExporterRecords
    BY <2>1, <2>2, NoneIsNothing DEF ExporterRecords, ExporterSteps, Credentials
  <2>4. /\ exp'.pc = "send" /\ exp'.attempt = e.attempt + 1
        /\ exp'.refreshed = e.refreshed /\ exp'.requests = e.requests
        /\ exp'.exchanges = e.exchanges
    BY <2>1 DEF ExporterRecords
  <2>5. e.attempt \in Nat /\ e.requests \in Nat /\ e.exchanges \in Nat
    BY DEF ExporterRecords
  <2> QED
    BY <2>3, <2>4, <2>5 DEF Fine, Accounts, Extra, Refreshing
<1> QED
  BY <1>1, <1>2

\* A step that leaves the counters alone, inside or outside of a refresh.
LEMMA SameCountersIsFine ==
  ASSUME Fine(exp), exp' \in ExporterRecords,
         exp'.attempt = exp.attempt, exp'.refreshed = exp.refreshed,
         exp'.requests = exp.requests, exp'.exchanges = exp.exchanges,
         Refreshing(exp') <=> Refreshing(exp),
         exp.pc # "refreshSave", exp'.pc # "refreshSave"
  PROVE  Fine(exp')
  BY DEF Fine, Accounts, Extra

-----------------------------------------------------------------------------
(* Steps *)

\* The exporter reads its configuration.
LEMMA ConfigurationKeepsFine ==
  ASSUME RowsOK, Fine(exp),
         UseCollector \/ RefreshEndpoints \/ ReadLegacyEndpoint \/ RefreshAuthToken
  PROVE  Fine(exp')
<1> DEFINE ReadSteps == {"collect", "token", "legacyMetrics", "legacyLogs"}
<1>1. exp \in ExporterRecords /\ ReadSteps \subseteq ExporterSteps
  BY DEF Fine, ExporterSteps
<1>2. /\ baseURL \in Endpoints /\ legacy \in Endpoints
      /\ token \in Credentials
  BY NoneIsNothing DEF RowsOK
<1>3. exp.pc \in {"idle", "legacyMetrics", "legacyLogs", "token"}
  BY DEF UseCollector, RefreshEndpoints, ReadLegacyEndpoint, RefreshAuthToken
<1> DEFINE Keeps(e) == /\ e \in ExporterRecords /\ e.pc \in ReadSteps
                       /\ e.attempt = exp.attempt /\ e.refreshed = exp.refreshed
                       /\ e.requests = exp.requests /\ e.exchanges = exp.exchanges
<1>4. ASSUME NEW e, Keeps(e), exp' = e
      PROVE  Fine(exp')
  <2> HIDE DEF ReadSteps
  <2>1. /\ exp' \in ExporterRecords /\ exp'.pc \in ReadSteps
        /\ exp'.attempt = exp.attempt /\ exp'.refreshed = exp.refreshed
        /\ exp'.requests = exp.requests /\ exp'.exchanges = exp.exchanges
    BY <1>4
  <2> QED
    BY <1>3, <2>1, SameCountersIsFine DEF Refreshing, ReadSteps
\* The records that the statements build.
<1> HIDE DEF ReadSteps
<1>5. ASSUME NEW s \in ReadSteps
      PROVE  Keeps([exp EXCEPT !.pc = s])
  BY <1>1, <1>5 DEF ExporterRecords
<1>6. ASSUME NEW s \in ReadSteps, NEW m \in Endpoints
      PROVE  Keeps([exp EXCEPT !.pc = s, !.metricsEndpoint = m])
  BY <1>1, <1>6 DEF ExporterRecords
<1>7. ASSUME NEW s \in ReadSteps, NEW l \in Endpoints
      PROVE  Keeps([exp EXCEPT !.pc = s, !.logsEndpoint = l])
  BY <1>1, <1>7 DEF ExporterRecords
<1>8. ASSUME NEW s \in ReadSteps, NEW a \in Credentials
      PROVE  Keeps([exp EXCEPT !.pc = s, !.authToken = a])
  BY <1>1, <1>8 DEF ExporterRecords, Credentials
<1>9. ASSUME NEW s \in ReadSteps, NEW m \in Endpoints, NEW l \in Endpoints
      PROVE  Keeps([exp EXCEPT !.pc = s, !.metricsEndpoint = m, !.logsEndpoint = l])
  BY <1>1, <1>9 DEF ExporterRecords
<1>10. Keeps([exp EXCEPT !.pc = "collect", !.metricsEndpoint = Gateway,
                         !.logsEndpoint = Gateway, !.authToken = None])
  BY <1>1, NoneIsNothing DEF ExporterRecords, Credentials, ReadSteps
<1>11. "collect" \in ReadSteps /\ "token" \in ReadSteps /\ "legacyMetrics" \in ReadSteps
       /\ "legacyLogs" \in ReadSteps /\ None \in Endpoints
  BY NoneIsNothing DEF ReadSteps
<1> HIDE DEF Keeps
<1>12. CASE UseCollector
  BY <1>4, <1>10, <1>12, Zenon DEF UseCollector
<1>13. CASE RefreshEndpoints
  BY <1>2, <1>4, <1>5, <1>9, <1>11, <1>13, Zenon DEF RefreshEndpoints
<1>14. CASE ReadLegacyEndpoint
  BY <1>2, <1>4, <1>6, <1>7, <1>11, <1>14, Zenon DEF ReadLegacyEndpoint
<1>15. CASE RefreshAuthToken
  BY <1>2, <1>4, <1>5, <1>8, <1>11, <1>15, Zenon DEF RefreshAuthToken
<1> QED
  BY <1>12, <1>13, <1>14, <1>15

\* The data is collected and sent, up to the answer.
LEMMA SendKeepsFine ==
  ASSUME RowsOK, Fine(exp),
         CollectAndSend \/ SendAccepted \/ SendUnauthorized \/ SendFails
  PROVE  Fine(exp')
<1>1. /\ exp \in ExporterRecords /\ exp.collector \in BOOLEAN
      /\ exp.metricsEndpoint \in Endpoints /\ exp.logsEndpoint \in Endpoints
      /\ exp.authToken \in Credentials
      /\ exp.requests \in Nat /\ exp.attempt \in Nat /\ exp.exchanges \in Nat
  BY DEF Fine, ExporterRecords, Credentials
<1>2. CycleEnds => Fine(exp')
  <2>1. Fine(Rest(exp.collector, exp.metricsEndpoint, exp.logsEndpoint, exp.authToken))
    BY <1>1, RestIsFine, NoneIsNothing
  <2> QED
    BY <2>1 DEF CycleEnds
<1>3. CASE CollectAndSend
  BY <1>2, <1>3, BeginPayloadIsFine, NoneIsNothing DEF CollectAndSend, Payloads
<1>4. CASE SendAccepted
  <2>1. PICK h \in Reissued(Endpoint) : exp' = AfterPayload(TRUE, h)
    BY <1>4 DEF SendAccepted
  <2>2. h \in Credentials
    BY <2>1 DEF Reissued, Credentials, OrNone
  <2> QED
    BY <2>1, <2>2, AfterPayloadIsFine
<1>5. /\ Requested \in ExporterRecords /\ Requested.attempt = exp.attempt
      /\ Requested.refreshed = exp.refreshed /\ Requested.requests = exp.requests + 1
      /\ Requested.exchanges = exp.exchanges
  BY <1>1 DEF Requested, ExporterRecords
<1>6. ASSUME exp.pc = "send", AttemptFails(Requested)
      PROVE  Fine(exp')
  <2>1. /\ exp.requests = exp.attempt - 1 + Extra(exp)
        /\ exp.exchanges <= exp.attempt - 1 + Extra(exp)
    BY <1>1, <1>6 DEF Fine, Accounts, Refreshing, Extra
  <2>2. Extra(Requested) = Extra(exp) /\ Extra(exp) \in Nat
    BY <1>5 DEF Extra
  <2> QED
    BY <1>1, <1>5, <1>6, <2>1, <2>2, AttemptFailsIsFine
<1>7. CASE SendUnauthorized
  <2>1. CASE exp.refreshed
    BY <1>6, <1>7, <2>1 DEF SendUnauthorized
  <2>2. CASE ~exp.refreshed
    <3>1. exp' = [Requested EXCEPT !.pc = "refreshSAK"] /\ exp.pc = "send"
      BY <1>7, <2>2 DEF SendUnauthorized
    <3>2. exp' \in ExporterRecords
      BY <1>5, <3>1 DEF ExporterRecords, ExporterSteps
    <3>3. /\ exp'.pc = "refreshSAK" /\ exp'.attempt = exp.attempt
          /\ exp'.refreshed = exp.refreshed /\ exp'.requests = exp.requests + 1
          /\ exp'.exchanges = exp.exchanges
      BY <1>5, <3>1 DEF ExporterRecords
    <3> QED
      BY <1>1, <2>2, <3>1, <3>2, <3>3 DEF Fine, Accounts, Extra, Refreshing
  <2> QED
    BY <2>1, <2>2
<1>8. CASE SendFails
  BY <1>6, <1>8, AfterPayloadIsFine, NoneIsNothing DEF SendFails
<1> QED
  BY <1>3, <1>4, <1>7, <1>8

\* The SAK is exchanged, or the refresh fails and with it the attempt.
LEMMA RefreshKeepsFine ==
  ASSUME RowsOK, Fine(exp),
         RefreshReadSAK \/ RefreshReadBaseURL \/ RefreshEnroll \/ RefreshSave
  PROVE  Fine(exp')
<1>1. /\ exp \in ExporterRecords /\ ~exp.refreshed /\ Extra(exp) = 0
      /\ exp.attempt \in Nat /\ exp.requests = exp.attempt
      /\ exp.exchanges \in Nat
      /\ exp.pc # "refreshSave" => exp.exchanges <= exp.attempt - 1
      /\ exp.exchanges <= exp.attempt
      /\ exp.pc \in {"refreshSAK", "refreshBase", "refreshEnroll", "refreshSave"}
      /\ exp.base \in Credentials
  <2>1. exp.pc \in {"refreshSAK", "refreshBase", "refreshEnroll", "refreshSave"}
    BY DEF RefreshReadSAK, RefreshReadBaseURL, RefreshEnroll, RefreshSave
  <2> QED
    BY <2>1 DEF Fine, Accounts, Extra, Refreshing, ExporterRecords, Credentials
<1>2. AttemptFails(exp) => Fine(exp')
  BY <1>1, AttemptFailsIsFine
<1>3. ASSUME NEW v \in Credentials, exp.pc # "refreshSave",
             \/ exp' = [exp EXCEPT !.pc = "refreshBase", !.sak = v]
             \/ exp' = [exp EXCEPT !.pc = "refreshEnroll", !.base = v]
      PROVE  Fine(exp')
  <2>1. exp' \in ExporterRecords
    <3>1. CASE exp' = [exp EXCEPT !.pc = "refreshBase", !.sak = v]
      BY <1>1, <1>3, <3>1 DEF ExporterRecords, ExporterSteps, Credentials
    <3>2. CASE exp' = [exp EXCEPT !.pc = "refreshEnroll", !.base = v]
      BY <1>1, <1>3, <3>2 DEF ExporterRecords, ExporterSteps, Credentials
    <3> QED
      BY <1>3, <3>1, <3>2
  <2>2. /\ exp'.pc \in {"refreshBase", "refreshEnroll"}
        /\ exp'.attempt = exp.attempt /\ exp'.refreshed = exp.refreshed
        /\ exp'.requests = exp.requests /\ exp'.exchanges = exp.exchanges
    BY <1>1, <1>3 DEF ExporterRecords
  <2> QED
    BY <1>1, <1>3, <2>1, <2>2, SameCountersIsFine DEF Refreshing
<1>4. CASE RefreshReadSAK
  BY <1>2, <1>3, <1>4 DEF RefreshReadSAK, RowsOK
<1>5. CASE RefreshReadBaseURL
  <2>1. PICK b \in {GetBackendBaseURL, legacy, None} :
          IF b # None THEN exp' = [exp EXCEPT !.pc = "refreshEnroll", !.base = b]
                      ELSE AttemptFails(exp)
    BY <1>5 DEF RefreshReadBaseURL
  <2>2. b \in Credentials /\ exp.pc # "refreshSave"
    BY <1>5, NoneIsNothing DEF GetBackendBaseURL, RowsOK, RefreshReadBaseURL
  <2> QED
    BY <1>2, <1>3, <2>1, <2>2
<1>6. CASE RefreshEnroll
  <2> DEFINE exchanged == [exp EXCEPT !.exchanges = exp.exchanges + 1]
  <2>1. /\ exchanged \in ExporterRecords /\ exchanged.attempt = exp.attempt
        /\ exchanged.refreshed = exp.refreshed /\ exchanged.requests = exp.requests
        /\ exchanged.exchanges = exp.exchanges + 1
    BY <1>1 DEF ExporterRecords
  <2>2. exp.pc = "refreshEnroll" /\ (\/ exp' = [exchanged EXCEPT !.pc = "refreshSave"]
                                    \/ AttemptFails(exchanged))
    BY <1>6 DEF RefreshEnroll
  <2> HIDE DEF exchanged
  <2>3. CASE exp' = [exchanged EXCEPT !.pc = "refreshSave"]
    <3>1. exp' \in ExporterRecords
      BY <2>1, <2>3 DEF ExporterRecords, ExporterSteps
    <3>2. /\ exp'.pc = "refreshSave" /\ exp'.attempt = exp.attempt
          /\ exp'.refreshed = exp.refreshed /\ exp'.requests = exp.requests
          /\ exp'.exchanges = exp.exchanges + 1
      BY <2>1, <2>3 DEF ExporterRecords
    <3> QED
      BY <1>1, <2>2, <3>1, <3>2 DEF Fine, Accounts, Extra, Refreshing
  <2>4. CASE AttemptFails(exchanged)
    <3>1. Extra(exchanged) = 0
      BY <1>1, <2>1 DEF Extra
    <3> QED
      BY <1>1, <2>1, <2>2, <2>4, <3>1, AttemptFailsIsFine
  <2> QED
    BY <2>2, <2>3, <2>4
\* Here the refresh pays for the request it made: attempt is as it was.
<1>7. CASE RefreshSave
  <2>1. exp' = [exp EXCEPT !.pc = "send", !.current = exp.base,
                           !.refreshed = TRUE, !.sak = None, !.base = None]
    BY <1>7 DEF RefreshSave
  <2>2. exp' \in ExporterRecords
    BY <1>1, <2>1, NoneIsNothing DEF ExporterRecords, ExporterSteps, Credentials
  <2>3. /\ exp'.pc = "send" /\ exp'.attempt = exp.attempt
        /\ exp'.refreshed = TRUE /\ exp'.requests = exp.requests
        /\ exp'.exchanges = exp.exchanges
    BY <1>1, <2>1 DEF ExporterRecords
  <2> QED
    BY <1>1, <2>2, <2>3 DEF Fine, Accounts, Extra, Refreshing
<1> QED
  BY <1>4, <1>5, <1>6, <1>7

\* The header token is stored, or the cycle ends without it.
LEMMA SaveHeaderTokenKeepsFine ==
  ASSUME Fine(exp), SaveHeaderToken
  PROVE  Fine(exp')
<1>1. /\ exp.collector \in BOOLEAN /\ exp.metricsEndpoint \in Endpoints
      /\ exp.logsEndpoint \in Endpoints /\ exp.authToken \in Credentials
      /\ exp.newToken \in Credentials
  BY DEF Fine, ExporterRecords, Credentials
<1>2. \A a \in Credentials :
        Fine(Rest(exp.collector, exp.metricsEndpoint, exp.logsEndpoint, a))
  BY <1>1, RestIsFine, NoneIsNothing
<1> QED
  BY <1>1, <1>2 DEF SaveHeaderToken, CycleEnds

\* Every step of the exporter accounts for what it does.
LEMMA ExporterKeepsFine ==
  ASSUME RowsOK, Fine(exp), ExporterNext
  PROVE  Fine(exp')
  BY ConfigurationKeepsFine, SendKeepsFine, RefreshKeepsFine, SaveHeaderTokenKeepsFine
  DEF ExporterNext

\* The steps that store a token, and the others.
LEMMA ExporterWrites ==
  ASSUME ExporterNext
  PROVE  \/ UNCHANGED rows
         \/ exp.pc = "refreshSave" /\ SetJWT(exp.base)
         \/ exp.pc = "saveToken" /\ SetJWT(exp.newToken)
  BY DEF ExporterNext, UseCollector, RefreshEndpoints, ReadLegacyEndpoint,
         RefreshAuthToken, CollectAndSend, SendAccepted, SendUnauthorized, SendFails,
         RefreshReadSAK, RefreshReadBaseURL, RefreshEnroll, RefreshSave, SaveHeaderToken

\* What the exporter stores is a credential.
LEMMA ExporterKeepsRows ==
  ASSUME RowsOK, Fine(exp), ExporterNext
  PROVE  RowsOK'
<1>1. exp.base \in Credentials /\ exp.newToken \in Credentials
  BY DEF Fine, ExporterRecords, Credentials
<1> QED
  BY <1>1, ExporterWrites DEF RowsOK, SetJWT, rows

-----------------------------------------------------------------------------
(* Where the tokens and endpoints of a cycle come from *)

\* The endpoints and tokens of a record.
Within(e, S) ==
  /\ e.metricsEndpoint \in S /\ e.logsEndpoint \in S /\ e.authToken \in S
  /\ e.current \in S /\ e.sak \in S /\ e.base \in S /\ e.newToken \in S

\* What is about to be stored is a token.
Ready(e) ==
  /\ e.pc \in {"refreshEnroll", "refreshSave"} => e.base # None
  /\ e.pc = "saveToken" => e.newToken # None

Proper(e, S) == Within(e, S) /\ Ready(e) /\ (e.collector => Gateway \in S)

\* A cycle starts over, or goes on to store the token it was handed.
LEMMA RestIsProper ==
  ASSUME NEW S, None \in S, NEW mode, mode => Gateway \in S,
         NEW m \in S, NEW l \in S, NEW a \in S, NEW new \in S
  PROVE  /\ Proper(Rest(mode, m, l, a), S)
         /\ new # None =>
              Proper([Rest(mode, m, l, a) EXCEPT !.pc = "saveToken", !.newToken = new], S)
  BY DEF Rest, Proper, Within, Ready

\* A payload starts with the token of the cycle.
LEMMA BeginPayloadIsProper ==
  ASSUME NEW S, None \in S, exp \in ExporterRecords, Proper(exp, S), NEW p, NEW new \in S
  PROVE  Proper(BeginPayload(p, new), S)
<1> DEFINE r == BeginPayload(p, new)
<1>1. /\ r.pc = "send" /\ r.collector = exp.collector /\ r.current = exp.authToken
      /\ r.metricsEndpoint = exp.metricsEndpoint /\ r.logsEndpoint = exp.logsEndpoint
      /\ r.authToken = exp.authToken /\ r.sak = None /\ r.base = None /\ r.newToken = new
  BY DEF BeginPayload, ExporterRecords
<1> HIDE DEF r
<1>2. Proper(r, S)
  BY <1>1 DEF Proper, Within, Ready
<1> QED
  BY <1>2 DEF r

\* A payload was accepted or given up.
LEMMA AfterPayloadIsProper ==
  ASSUME NEW S, None \in S, exp \in ExporterRecords, Proper(exp, S),
         NEW accepted, NEW header \in S
  PROVE  Proper(AfterPayload(accepted, header), S)
<1> DEFINE new == IF header # None THEN header ELSE exp.newToken
           rest == Rest(exp.collector, exp.metricsEndpoint, exp.logsEndpoint,
                        exp.authToken)
           saving == [rest EXCEPT !.pc = "saveToken", !.newToken = new]
<1>1. new \in S
  BY DEF Proper, Within
<1> HIDE DEF new
<1>2. Proper(BeginPayload("logs", new), S)
  BY <1>1, BeginPayloadIsProper
<1>3. Proper(rest, S) /\ (new # None => Proper(saving, S))
  BY <1>1, RestIsProper DEF Proper, Within
<1> HIDE DEF rest, saving
<1>4. \/ AfterPayload(accepted, header) \in {BeginPayload("logs", new), rest}
      \/ new # None /\ AfterPayload(accepted, header) = saving
  BY Zenon DEF AfterPayload, new, rest, saving
<1> QED
  BY <1>2, <1>3, <1>4

\* A failed attempt, counted in e or not yet.
LEMMA AttemptFailsIsProper ==
  ASSUME NEW S, None \in S, exp \in ExporterRecords, Proper(exp, S),
         NEW e \in ExporterRecords, Proper(e, S), AttemptFails(e)
  PROVE  Proper(exp', S)
<1>1. CASE e.attempt >= MaxAttempts
  BY <1>1, AfterPayloadIsProper DEF AttemptFails
<1>2. CASE ~(e.attempt >= MaxAttempts)
  <2>1. exp' = [e EXCEPT !.pc = "send", !.attempt = e.attempt + 1,
                         !.sak = None, !.base = None]
    BY <1>2 DEF AttemptFails
  <2>2. /\ exp'.pc = "send" /\ exp'.collector = e.collector /\ exp'.current = e.current
        /\ exp'.metricsEndpoint = e.metricsEndpoint /\ exp'.logsEndpoint = e.logsEndpoint
        /\ exp'.authToken = e.authToken /\ exp'.sak = None /\ exp'.base = None
        /\ exp'.newToken = e.newToken
    BY <2>1 DEF ExporterRecords
  <2> QED
    BY <2>2 DEF Proper, Within, Ready
<1> QED
  BY <1>1, <1>2

\* The exporter reads its configuration.
LEMMA ConfigurationKeepsProper ==
  ASSUME NEW S, None \in S, {sakToken, token, baseURL, legacy} \subseteq S,
         exp \in ExporterRecords, Proper(exp, S),
         UseCollector \/ RefreshEndpoints \/ ReadLegacyEndpoint \/ RefreshAuthToken
  PROVE  Proper(exp', S)
<1> DEFINE ReadSteps == {"collect", "token", "legacyMetrics", "legacyLogs"}
           Keeps(e) == /\ e.pc \in ReadSteps /\ e.collector = exp.collector
                       /\ e.current = exp.current /\ e.sak = exp.sak
                       /\ e.base = exp.base /\ e.newToken = exp.newToken
<1>1. ASSUME NEW e, Keeps(e), e.metricsEndpoint \in S, e.logsEndpoint \in S,
             e.authToken \in S
      PROVE  Proper(e, S)
  BY <1>1 DEF Proper, Within, Ready
<1>2. exp.metricsEndpoint \in S /\ exp.logsEndpoint \in S /\ exp.authToken \in S
  BY DEF Proper, Within
<1> HIDE DEF ReadSteps
\* The records that the statements build.
<1>3. ASSUME NEW s \in ReadSteps
      PROVE  Proper([exp EXCEPT !.pc = s], S)
  <2> DEFINE e == [exp EXCEPT !.pc = s]
  <2>1. /\ Keeps(e) /\ e.metricsEndpoint = exp.metricsEndpoint
        /\ e.logsEndpoint = exp.logsEndpoint /\ e.authToken = exp.authToken
    BY <1>3 DEF ExporterRecords
  <2> QED
    BY <1>1, <1>2, <2>1
<1>4. ASSUME NEW s \in ReadSteps, NEW m \in S
      PROVE  Proper([exp EXCEPT !.pc = s, !.metricsEndpoint = m], S)
  <2> DEFINE e == [exp EXCEPT !.pc = s, !.metricsEndpoint = m]
  <2>1. /\ Keeps(e) /\ e.metricsEndpoint = m
        /\ e.logsEndpoint = exp.logsEndpoint /\ e.authToken = exp.authToken
    BY <1>4 DEF ExporterRecords
  <2> QED
    BY <1>1, <1>2, <2>1
<1>5. ASSUME NEW s \in ReadSteps, NEW l \in S
      PROVE  Proper([exp EXCEPT !.pc = s, !.logsEndpoint = l], S)
  <2> DEFINE e == [exp EXCEPT !.pc = s, !.logsEndpoint = l]
  <2>1. /\ Keeps(e) /\ e.metricsEndpoint = exp.metricsEndpoint
        /\ e.logsEndpoint = l /\ e.authToken = exp.authToken
    BY <1>5 DEF ExporterRecords
  <2> QED
    BY <1>1, <1>2, <2>1
<1>6. ASSUME NEW s \in ReadSteps, NEW a \in S
      PROVE  Proper([exp EXCEPT !.pc = s, !.authToken = a], S)
  <2> DEFINE e == [exp EXCEPT !.pc = s, !.authToken = a]
  <2>1. /\ Keeps(e) /\ e.metricsEndpoint = exp.metricsEndpoint
        /\ e.logsEndpoint = exp.logsEndpoint /\ e.authToken = a
    BY <1>6 DEF ExporterRecords
  <2> QED
    BY <1>1, <1>2, <2>1
<1>7. ASSUME NEW s \in ReadSteps, NEW m \in S
      PROVE  Proper([exp EXCEPT !.pc = s, !.metricsEndpoint = m, !.logsEndpoint = m], S)
  <2> DEFINE e == [exp EXCEPT !.pc = s, !.metricsEndpoint = m, !.logsEndpoint = m]
  <2>1. /\ Keeps(e) /\ e.metricsEndpoint = m
        /\ e.logsEndpoint = m /\ e.authToken = exp.authToken
    BY <1>7 DEF ExporterRecords
  <2> QED
    BY <1>1, <1>2, <2>1
<1>8. ASSUME exp.collector
      PROVE  Proper([exp EXCEPT !.pc = "collect", !.metricsEndpoint = Gateway,
                                !.logsEndpoint = Gateway, !.authToken = None], S)
  <2> DEFINE e == [exp EXCEPT !.pc = "collect", !.metricsEndpoint = Gateway,
                              !.logsEndpoint = Gateway, !.authToken = None]
  <2>1. /\ Keeps(e) /\ e.metricsEndpoint = Gateway
        /\ e.logsEndpoint = Gateway /\ e.authToken = None
    BY DEF ExporterRecords, ReadSteps
  <2>2. Gateway \in S
    BY <1>8 DEF Proper
  <2> QED
    BY <1>1, <2>1, <2>2
<1>9. /\ "collect" \in ReadSteps /\ "token" \in ReadSteps
      /\ "legacyMetrics" \in ReadSteps /\ "legacyLogs" \in ReadSteps
  BY DEF ReadSteps
<1>10. token \in S /\ baseURL \in S /\ legacy \in S
  OBVIOUS
<1>11. CASE UseCollector
  BY <1>8, <1>11, Zenon DEF UseCollector
<1>12. CASE RefreshEndpoints
  BY <1>3, <1>7, <1>9, <1>10, <1>12, Zenon DEF RefreshEndpoints
<1>13. CASE ReadLegacyEndpoint
  <2>1. PICK v \in {legacy, None} :
          \/ exp' = [exp EXCEPT !.pc = "legacyLogs", !.metricsEndpoint = v]
          \/ exp' = [exp EXCEPT !.pc = "token", !.logsEndpoint = v]
    BY <1>13, Zenon DEF ReadLegacyEndpoint
  <2>2. v \in S
    BY <1>10
  <2>3. /\ Proper([exp EXCEPT !.pc = "legacyLogs", !.metricsEndpoint = v], S)
        /\ Proper([exp EXCEPT !.pc = "token", !.logsEndpoint = v], S)
    BY <1>4, <1>5, <1>9, <2>2, Zenon
  <2> QED
    BY <2>1, <2>3
<1>14. CASE RefreshAuthToken
  BY <1>3, <1>6, <1>9, <1>10, <1>14, Zenon DEF RefreshAuthToken
<1> QED
  BY <1>11, <1>12, <1>13, <1>14

\* The data is collected and sent: an answer's token is of the endpoint.
LEMMA SendKeepsProper ==
  ASSUME NEW S, None \in S, exp \in ExporterRecords, Proper(exp, S),
         CollectAndSend \/ SendAccepted \/ SendUnauthorized \/ SendFails
  PROVE  Proper(exp', S)
<1>1. /\ exp.metricsEndpoint \in S /\ exp.logsEndpoint \in S /\ exp.authToken \in S
      /\ (exp.collector => Gateway \in S)
  BY DEF Proper, Within
<1>2. CASE CollectAndSend
  <2>1. Proper(Rest(exp.collector, exp.metricsEndpoint, exp.logsEndpoint, exp.authToken), S)
    BY <1>1, RestIsProper
  <2> QED
    BY <1>2, <2>1, BeginPayloadIsProper DEF CollectAndSend, CycleEnds
<1>3. CASE SendAccepted
  <2>1. PICK h \in Reissued(Endpoint) : exp' = AfterPayload(TRUE, h)
    BY <1>3 DEF SendAccepted
  <2>2. h \in S
    BY <1>1, <2>1 DEF Reissued, Endpoint
  <2> QED
    BY <2>1, <2>2, AfterPayloadIsProper
<1>4. Requested \in ExporterRecords
  BY DEF Requested, ExporterRecords
<1>5. Proper(Requested, S) /\ Proper([Requested EXCEPT !.pc = "refreshSAK"], S)
  <2> DEFINE r == [Requested EXCEPT !.pc = "refreshSAK"]
  <2>1. /\ Requested.pc = exp.pc /\ Requested.collector = exp.collector
        /\ Requested.metricsEndpoint = exp.metricsEndpoint
        /\ Requested.logsEndpoint = exp.logsEndpoint
        /\ Requested.authToken = exp.authToken /\ Requested.current = exp.current
        /\ Requested.sak = exp.sak /\ Requested.base = exp.base
        /\ Requested.newToken = exp.newToken
    BY DEF Requested, ExporterRecords
  <2>2. Proper(Requested, S)
    BY <2>1 DEF Proper, Within, Ready
  <2>3. /\ r.pc = "refreshSAK" /\ r.collector = exp.collector
        /\ r.metricsEndpoint = exp.metricsEndpoint /\ r.logsEndpoint = exp.logsEndpoint
        /\ r.authToken = exp.authToken /\ r.current = exp.current
        /\ r.sak = exp.sak /\ r.base = exp.base /\ r.newToken = exp.newToken
    BY <1>4, <2>1 DEF ExporterRecords
  <2> HIDE DEF r
  <2>4. Proper(r, S)
    BY <2>3 DEF Proper, Within, Ready
  <2> QED
    BY <2>2, <2>4 DEF r
<1>6. AttemptFails(Requested) => Proper(exp', S)
  BY <1>4, <1>5, AttemptFailsIsProper
<1>7. CASE SendUnauthorized
  BY <1>5, <1>6, <1>7, Zenon DEF SendUnauthorized
<1>8. CASE SendFails
  BY <1>6, <1>8, AfterPayloadIsProper DEF SendFails
<1> QED
  BY <1>2, <1>3, <1>7, <1>8

\* The SAK and the base URL are read from the rows; only a base URL that was
\* found is exchanged with.
LEMMA RefreshKeepsProper ==
  ASSUME NEW S, None \in S, {sakToken, token, baseURL, legacy} \subseteq S,
         exp \in ExporterRecords, Proper(exp, S),
         RefreshReadSAK \/ RefreshReadBaseURL \/ RefreshEnroll \/ RefreshSave
  PROVE  Proper(exp', S)
<1>1. AttemptFails(exp) => Proper(exp', S)
  BY AttemptFailsIsProper
<1> DEFINE Keeps(e) == /\ e.collector = exp.collector /\ e.authToken = exp.authToken
                       /\ e.metricsEndpoint = exp.metricsEndpoint
                       /\ e.logsEndpoint = exp.logsEndpoint /\ e.newToken = exp.newToken
<1>2. CASE RefreshReadSAK
  <2> DEFINE r == [exp EXCEPT !.pc = "refreshBase", !.sak = sakToken]
  <2>1. /\ Keeps(r) /\ r.pc = "refreshBase" /\ r.sak = sakToken
        /\ r.current = exp.current /\ r.base = exp.base
    BY DEF ExporterRecords
  <2> HIDE DEF r
  <2>2. Proper(r, S)
    BY <2>1 DEF Proper, Within, Ready
  <2> QED
    BY <1>1, <1>2, <2>2 DEF RefreshReadSAK, r
<1>3. CASE RefreshReadBaseURL
  <2>1. PICK b \in {GetBackendBaseURL, legacy, None} :
          IF b # None THEN exp' = [exp EXCEPT !.pc = "refreshEnroll", !.base = b]
                      ELSE AttemptFails(exp)
    BY <1>3 DEF RefreshReadBaseURL
  <2>2. b \in S
    BY DEF GetBackendBaseURL
  <2> DEFINE r == [exp EXCEPT !.pc = "refreshEnroll", !.base = b]
  <2>3. /\ Keeps(r) /\ r.pc = "refreshEnroll" /\ r.base = b
        /\ r.current = exp.current /\ r.sak = exp.sak
    BY DEF ExporterRecords
  <2> HIDE DEF r
  <2>4. b # None => Proper(r, S)
    BY <2>2, <2>3 DEF Proper, Within, Ready
  <2>5. CASE b # None
    <3>1. exp' = r
      BY <2>1, <2>5 DEF r
    <3> QED
      BY <2>4, <2>5, <3>1
  <2>6. CASE b = None
    BY <1>1, <2>1, <2>6
  <2> QED
    BY <2>5, <2>6
<1>4. CASE RefreshEnroll
  <2> DEFINE x == [exp EXCEPT !.exchanges = exp.exchanges + 1]
             r == [x EXCEPT !.pc = "refreshSave"]
  <2>1. /\ x \in ExporterRecords /\ x.pc = exp.pc /\ Keeps(x)
        /\ x.current = exp.current /\ x.sak = exp.sak /\ x.base = exp.base
    BY DEF ExporterRecords
  <2>2. exp.pc = "refreshEnroll" /\ (exp' = r \/ AttemptFails(x))
    BY <1>4 DEF RefreshEnroll
  <2> HIDE DEF x
  <2>3. /\ r.pc = "refreshSave" /\ Keeps(r)
        /\ r.current = exp.current /\ r.sak = exp.sak /\ r.base = exp.base
    BY <2>1 DEF ExporterRecords
  <2> HIDE DEF r
  <2>4. Proper(x, S) /\ Proper(r, S)
    BY <2>1, <2>2, <2>3 DEF Proper, Within, Ready
  <2> QED
    BY <2>1, <2>2, <2>4, AttemptFailsIsProper
<1>5. CASE RefreshSave
  <2>1. exp' = [exp EXCEPT !.pc = "send", !.current = exp.base,
                           !.refreshed = TRUE, !.sak = None, !.base = None]
    BY <1>5 DEF RefreshSave
  <2>2. /\ exp'.pc = "send" /\ exp'.collector = exp.collector
        /\ exp'.metricsEndpoint = exp.metricsEndpoint
        /\ exp'.logsEndpoint = exp.logsEndpoint /\ exp'.authToken = exp.authToken
        /\ exp'.current = exp.base /\ exp'.sak = None /\ exp'.base = None
        /\ exp'.newToken = exp.newToken
    BY <2>1 DEF ExporterRecords
  <2> QED
    BY <2>2 DEF Proper, Within, Ready
<1> QED
  BY <1>2, <1>3, <1>4, <1>5

\* Whatever set the rows and the memory of the exporter are within, they
\* stay in it, and it never stores the empty token.
LEMMA ExporterKeepsProper ==
  ASSUME NEW S, None \in S, {sakToken, token, baseURL, legacy} \subseteq S,
         exp \in ExporterRecords, Proper(exp, S), ExporterNext
  PROVE  /\ Proper(exp', S) /\ {sakToken, token, baseURL, legacy}' \subseteq S
         /\ UNCHANGED <<sakToken, baseURL, legacy>>
         /\ token' # token => token' # None
<1>1. ASSUME SaveHeaderToken PROVE Proper(exp', S)
  <2>1. /\ exp.metricsEndpoint \in S /\ exp.logsEndpoint \in S /\ exp.authToken \in S
        /\ (exp.collector => Gateway \in S) /\ exp.newToken \in S
    BY DEF Proper, Within
  <2>2. /\ Proper(Rest(exp.collector, exp.metricsEndpoint, exp.logsEndpoint, exp.authToken), S)
        /\ Proper(Rest(exp.collector, exp.metricsEndpoint, exp.logsEndpoint, exp.newToken), S)
    BY <2>1, RestIsProper
  <2>3. \E a \in {exp.authToken, exp.newToken} :
          exp' = Rest(exp.collector, exp.metricsEndpoint, exp.logsEndpoint, a)
    BY <1>1 DEF SaveHeaderToken, CycleEnds
  <2> QED
    BY <2>2, <2>3
<1>2. Proper(exp', S)
  BY <1>1, ConfigurationKeepsProper, SendKeepsProper, RefreshKeepsProper DEF ExporterNext
<1> QED
  BY <1>2, ExporterWrites DEF SetJWT, rows, Proper, Within, Ready

\* A cycle that has found no backend so far, and has nobody to send to.
Quiet(e) ==
  /\ e.pc \in {"legacyMetrics", "legacyLogs", "token", "collect"}
  /\ e.pc # "legacyMetrics" => e.metricsEndpoint = None
  /\ e.pc \in {"token", "collect"} => e.logsEndpoint = None

\* As long as no backend is stored such a cycle goes on like that, whatever
\* endpoints the exporter had before it.
LEMMA ExporterStaysQuiet ==
  ASSUME exp \in ExporterRecords, ~exp.collector, GetBackendBaseURL = None,
         exp.pc = "idle" \/ Quiet(exp), ExporterNext
  PROVE  exp'.pc = "idle" \/ Quiet(exp')
<1>1. baseURL = None /\ legacy = None
  BY DEF GetBackendBaseURL
<1>2. CASE UseCollector \/ RefreshEndpoints
  <2>1. exp' = [exp EXCEPT !.pc = "legacyMetrics"]
    BY <1>1, <1>2 DEF UseCollector, RefreshEndpoints
  <2>2. exp'.pc = "legacyMetrics"
    BY <2>1 DEF ExporterRecords
  <2> QED
    BY <2>2 DEF Quiet
<1>3. CASE ReadLegacyEndpoint
  <2>1. \/ exp' = [exp EXCEPT !.pc = "legacyLogs", !.metricsEndpoint = None]
        \/ /\ exp.pc = "legacyLogs"
           /\ exp' = [exp EXCEPT !.pc = "token", !.logsEndpoint = None]
    BY <1>1, <1>3 DEF ReadLegacyEndpoint
  <2>2. \/ exp'.pc = "legacyLogs" /\ exp'.metricsEndpoint = None
        \/ /\ exp.pc = "legacyLogs" /\ exp'.pc = "token"
           /\ exp'.metricsEndpoint = exp.metricsEndpoint /\ exp'.logsEndpoint = None
    BY <2>1 DEF ExporterRecords
  <2> QED
    BY <2>2 DEF Quiet
<1>4. CASE RefreshAuthToken
  <2>1. \E a : exp' = [exp EXCEPT !.pc = "collect", !.authToken = a]
                \/ exp' = [exp EXCEPT !.pc = "collect"]
    BY <1>4 DEF RefreshAuthToken
  <2>2. /\ exp.pc = "token" /\ exp'.pc = "collect"
        /\ exp'.metricsEndpoint = exp.metricsEndpoint
        /\ exp'.logsEndpoint = exp.logsEndpoint
    BY <1>4, <2>1 DEF ExporterRecords, RefreshAuthToken
  <2> QED
    BY <2>2 DEF Quiet
<1>5. CASE CollectAndSend
  <2>1. exp' = Rest(exp.collector, exp.metricsEndpoint, exp.logsEndpoint, exp.authToken)
    BY <1>5 DEF CollectAndSend, CycleEnds, Quiet
  <2> QED
    BY <2>1 DEF Rest
<1>6. exp.pc \in {"idle", "legacyMetrics", "legacyLogs", "token", "collect"}
  BY DEF Quiet
<1> QED
  BY <1>2, <1>3, <1>4, <1>5, <1>6
  DEF ExporterNext, SendAccepted, SendUnauthorized, SendFails, RefreshReadSAK,
      RefreshReadBaseURL, RefreshEnroll, RefreshSave, SaveHeaderToken

-----------------------------------------------------------------------------
(* Commands *)

\* A command stores credentials of its target, or removes them.
LEMMA CliKeepsRows ==
  ASSUME RowsOK, cli \in CliRecords, CliNext \/ EnrollDone
  PROVE  RowsOK' /\ cli' \in CliRecords
<1>1. NoFlags \in Flags
  BY DEF NoFlags, Flags
<1>2. IdleCli \in CliRecords
  BY <1>1, NoneIsNothing DEF IdleCli, CliSteps, CliRecords, Credentials
<1>3. cli.target \in Credentials
  BY DEF CliRecords, Credentials
<1>4. CASE EnrollStart
  BY <1>4, FlagsAreFlags DEF EnrollStart, RowsOK, CliRecords, CliSteps, OrNone, rows
<1>5. CASE EnrollExchange \/ StoreSAK \/ StoreJWT \/ StoreBaseURL
  BY <1>3, <1>5 DEF EnrollExchange, StoreSAK, StoreJWT, StoreBaseURL, SetSAK, SetJWT,
     SetBackendBaseURL, CliGoto, RowsOK, CliRecords, CliSteps, rows
<1>6. CASE UpdateNodePlacementMetadata
  BY <1>6 DEF UpdateNodePlacementMetadata, SetNodePlacement, CliGoto, RowsOK,
     CliRecords, CliSteps
<1>7. CASE EnrollDone \/ EnrollAborts
  BY <1>2, <1>7 DEF EnrollDone, EnrollAborts, RowsOK, rows
<1>8. CASE Unenroll
  BY <1>8, NoneIsNothing DEF Unenroll, RowsOK
<1> QED
  BY <1>4, <1>5, <1>6, <1>7, <1>8 DEF CliNext

-----------------------------------------------------------------------------
(* The cycle *)

\* What holds between the steps of the exporter and of the commands.
CycleInv == RowsOK /\ cli \in CliRecords /\ Fine(exp)

\* The exporter starts at rest.
LEMMA CycleInitInv == CycleInit => CycleInv
<1> SUFFICES ASSUME CycleInit PROVE CycleInv
  OBVIOUS
<1>1. NoFlags \in Flags
  BY DEF NoFlags, Flags
<1>2. RowsOK
  BY DEF CycleInit, MetadataInit, RowsOK, Credentials, OrNone
<1>3. cli \in CliRecords
  BY <1>1 DEF CycleInit, CliInit, IdleCli, CliSteps, CliRecords, OrNone
<1>4. Fine(exp)
  <2>1. PICK mode \in CollectorModes : exp = Rest(mode, None, None, None)
    BY DEF CycleInit, ExporterInit
  <2>2. mode \in BOOLEAN
    BY ModesAreBoolean
  <2>3. Fine(Rest(mode, None, None, None))
    BY <2>2, RestIsFine, NoneIsNothing
  <2> QED
    BY <2>1, <2>3
<1> QED
  BY <1>2, <1>3, <1>4 DEF CycleInv

\* No step of the exporter or of a command breaks the invariant.
LEMMA CycleNextKeepsInv == CycleInv /\ [CycleNext]_cycleVars => CycleInv'
<1> SUFFICES ASSUME CycleInv, [CycleNext]_cycleVars PROVE CycleInv'
  OBVIOUS
<1> USE DEF CycleInv
<1>1. CASE ExporterTurn
  BY <1>1, ExporterKeepsFine, ExporterKeepsRows DEF ExporterTurn, cliVars
<1>2. CASE CliTurn
  BY <1>2, CliKeepsRows DEF CliTurn
<1>3. CASE UNCHANGED cycleVars
  BY <1>3 DEF cycleVars, rows, cliVars, RowsOK
<1> QED
  BY <1>1, <1>2, <1>3 DEF CycleNext

(***************************************************************************)
(* Every request and every SAK exchange is accounted for by attempt and    *)
(* jwtRefreshAttempted, so that a payload is sent at most one time more    *)
(* than configured, whatever the answers are and whatever commands run.    *)
(***************************************************************************)
THEOREM WorkIsBoundedHolds == CycleSpec => []WorkIsBounded
<1>1. CycleInv => WorkIsBounded
  <2> SUFFICES ASSUME CycleInv PROVE WorkIsBounded
    OBVIOUS
  <2>1. Accounting
    BY DEF CycleInv, Fine, Accounts, Extra, Refreshing, Accounting
  <2>2. /\ exp.attempt \in 1..MaxAttempts /\ exp.requests \in Nat
        /\ exp.exchanges \in Nat /\ exp.refreshed \in BOOLEAN
    BY DEF CycleInv, Fine, ExporterRecords
  <2>3. exp.pc = "send" => exp.requests <= MaxAttempts
    BY <2>1, <2>2, AttemptsArePositive DEF Accounting
  <2>4. exp.pc = "refreshEnroll" => exp.exchanges < MaxAttempts
    BY <2>1, <2>2, AttemptsArePositive DEF Accounting
  <2> QED
    BY <2>1, <2>3, <2>4 DEF WorkIsBounded
<1>2. CycleSpec => []CycleInv
  BY CycleInitInv, CycleNextKeepsInv, PTL DEF CycleSpec
<1> QED
  BY <1>1, <1>2, PTL
=============================================================================
