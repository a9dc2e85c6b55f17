-------------------------- MODULE FleetAgentProofs --------------------------
(***************************************************************************)
(* The safety of FleetAgent for any number of backends, names, attempts,   *)
(* commands and faults, and any configurations.                            *)
(***************************************************************************)
EXTENDS FleetAgent, ExporterProofs

-----------------------------------------------------------------------------
(* The attestation workflow *)

\* Its record, with backends and tokens from S.
AttestationWithin(S) ==
  [pc : AttestationSteps, jwt : S, refreshed : S, nonceFrom : S, submitTo : S]

\* What it is about to store is a token.
AttestationReady == att.pc = "setJWT" => att.refreshed # None

\* The backends and tokens the workflow handles come from the rows, or from
\* the backend it asked.
LEMMA AttestationKeeps ==
  ASSUME NEW S, None \in S, {token, baseURL, legacy} \subseteq S,
         att \in AttestationWithin(S), AttestationReady, AttestationNext
  PROVE  /\ att' \in AttestationWithin(S) /\ AttestationReady'
         /\ UNCHANGED <<sakToken, baseURL, legacy, placement>>
         /\ token' \in S /\ (token' # token => token' # None)
<1> DEFINE Keeps == att' \in AttestationWithin(S) /\ AttestationReady'
<1>1. /\ IdleAttestation \in AttestationWithin(S) /\ IdleAttestation.pc = "idle"
      /\ GetBackendBaseURL \in S
  BY DEF IdleAttestation, AttestationWithin, AttestationSteps, GetBackendBaseURL
<1>2. AttestationEnds => Keeps
  BY <1>1 DEF AttestationEnds, AttestationReady
<1>3. CASE ReadJWT
  BY <1>3 DEF ReadJWT, AttestationWithin, AttestationSteps, AttestationReady, rows
<1>4. CASE NonceClient \/ CollectEvidence
  <2>1. \/ AttestationEnds
        \/ att' = [att EXCEPT !.pc = "nonce", !.nonceFrom = GetBackendBaseURL]
        \/ att' = [att EXCEPT !.pc = "submit", !.submitTo = GetBackendBaseURL]
    BY <1>4 DEF NonceClient, CollectEvidence
  <2> HIDE DEF Keeps
  <2>2. Keeps
    BY <1>1, <1>2, <2>1 DEF Keeps, AttestationWithin, AttestationSteps, AttestationReady
  <2> QED
    BY <1>4, <2>2 DEF NonceClient, CollectEvidence, Keeps, rows
<1>5. CASE GetNonce
  <2>1. att.nonceFrom \in S
    BY DEF AttestationWithin
  <2>2. \/ AttestationEnds
        \/ \E r \in Reissued(att.nonceFrom) :
             att' = [att EXCEPT !.pc = IF r = None THEN "collect" ELSE "setJWT",
                                !.refreshed = r]
    BY <1>5 DEF GetNonce
  <2>3. ASSUME NEW r \in S,
               att' = [att EXCEPT !.pc = IF r = None THEN "collect" ELSE "setJWT",
                                  !.refreshed = r]
        PROVE  Keeps
    BY <2>3 DEF AttestationWithin, AttestationSteps, AttestationReady
  <2>4. Reissued(att.nonceFrom) \subseteq S
    BY <2>1 DEF Reissued
  <2> HIDE DEF Keeps
  <2>5. Keeps
    BY <1>2, <2>2, <2>3, <2>4
  <2> QED
    BY <1>5, <2>5 DEF GetNonce, Keeps, rows
<1>6. CASE StoreRefreshedJWT
  <2>1. att.refreshed \in S /\ att.refreshed # None
    BY <1>6 DEF AttestationWithin, AttestationReady, StoreRefreshedJWT
  <2>2. Keeps
    BY <1>6, <2>1
    DEF StoreRefreshedJWT, AttestationWithin, AttestationSteps, AttestationReady
  <2> QED
    BY <1>6, <2>1, <2>2 DEF StoreRefreshedJWT, SetJWT
<1>7. CASE Submit \/ AttestationFails
  BY <1>2, <1>7 DEF Submit, AttestationFails, rows
<1> QED
  BY <1>3, <1>4, <1>5, <1>6, <1>7 DEF AttestationNext

\* Without a backend the workflow ends before it asks for a nonce.
LEMMA AttestationStaysQuiet ==
  ASSUME NEW S, att \in AttestationWithin(S), GetBackendBaseURL = None,
         att.pc \in {"idle", "nonceBase"}, AttestationNext
  PROVE  att'.pc \in {"idle", "nonceBase"}
<1>1. IdleAttestation.pc = "idle"
  BY DEF IdleAttestation
<1> QED
  BY <1>1 DEF AttestationNext, ReadJWT, NonceClient, GetNonce, StoreRefreshedJWT,
    CollectEvidence, Submit, AttestationFails, AttestationEnds, AttestationWithin

-----------------------------------------------------------------------------
(* The inventory export *)

\* The record of an export, with a backend and a token from S.
InventoryWithin(S) ==
  [pc : InventorySteps, base : S, jwt : S,
   read : Placements \cup {ReadError}, resolved : Placements]

\* An export runs against a backend.
Based == \A w \in Workers : inv[w].pc # "idle" => inv[w].base # None

\* What the backend resolves is a placement.
LEMMA UpsertedIsPlacement ==
  ASSUME NEW b \in Backends, NEW read \in Placements \cup {ReadError}
  PROVE  Upserted(b, read) \in Placements
<1>1. RequestedPlacement(read) \in Placements
  BY DEF RequestedPlacement, NoPlacement, Placements, OrNone
<1>2. Resolve[b] \in [Placements -> Placements]
  BY ResolveSettles
<1> QED
  BY <1>1, <1>2 DEF Upserted

\* A worker that ends leaves the other alone.
LEMMA InventoryEndsKeeps ==
  ASSUME NEW S, None \in S, inv \in [Workers -> InventoryWithin(S)], Based,
         NEW w \in Workers, InventoryEnds(w)
  PROVE  /\ inv' \in [Workers -> InventoryWithin(S)] /\ Based' /\ inv'[w].pc = "idle"
         /\ \A v \in Workers \ {w} : inv'[v] = inv[v]
<1>1. IdleInventory \in InventoryWithin(S) /\ IdleInventory.pc = "idle"
  BY DEF IdleInventory, InventoryWithin, InventorySteps, Placements, OrNone, NoPlacement
<1> HIDE DEF IdleInventory, InventoryWithin
<1>2. inv' = [inv EXCEPT ![w] = IdleInventory]
  BY DEF InventoryEnds
<1> QED
  BY <1>1, <1>2 DEF Based

\* One record is replaced by another that is fit for it.
LEMMA InventoryGoesOn ==
  ASSUME NEW S, inv \in [Workers -> InventoryWithin(S)], Based,
         NEW w \in Workers, NEW r \in InventoryWithin(S), r.base # None,
         inv' = [inv EXCEPT ![w] = r]
  PROVE  /\ inv' \in [Workers -> InventoryWithin(S)] /\ Based'
         /\ \A v \in Workers \ {w} : inv'[v] = inv[v]
  BY DEF Based

\* An export collects its snapshot only for a backend that is stored.
LEMMA CollectSnapshotKeeps ==
  ASSUME NEW S, {baseURL, legacy} \subseteq S,
         inv \in [Workers -> InventoryWithin(S)], Based,
         NEW w \in Workers, CollectSnapshot(w)
  PROVE  /\ inv' \in [Workers -> InventoryWithin(S)] /\ Based'
         /\ GetBackendBaseURL # None /\ UNCHANGED <<rows, assigned>>
         /\ \A v \in Workers \ {w} : inv'[v] = inv[v]
<1> DEFINE r == [inv[w] EXCEPT !.pc = "jwt", !.base = GetBackendBaseURL]
<1>1. GetBackendBaseURL \in S /\ GetBackendBaseURL # None
  BY DEF GetBackendBaseURL, CollectSnapshot
<1>2. r \in InventoryWithin(S) /\ r.base # None
  BY <1>1 DEF InventoryWithin, InventorySteps
<1>3. inv' = [inv EXCEPT ![w] = r]
  BY DEF CollectSnapshot
<1> HIDE DEF r
<1> QED
  BY <1>1, <1>2, <1>3, InventoryGoesOn DEF CollectSnapshot

\* An export works for the backend and with the token it has read, and
\* touches nothing but the placement.
LEMMA InventoryStepKeeps ==
  ASSUME NEW S, None \in S, S \subseteq OrNone(Backends), token \in S,
         placement \in Placements, assigned \in [Backends -> Placements],
         inv \in [Workers -> InventoryWithin(S)], Based,
         NEW w \in Workers, InventoryStep(w)
  PROVE  /\ inv' \in [Workers -> InventoryWithin(S)] /\ Based'
         /\ assigned' \in [Backends -> Placements] /\ placement' \in Placements
         /\ UNCHANGED <<sakToken, token, baseURL, legacy>> /\ inv[w].pc # "idle"
         /\ \A v \in Workers \ {w} : inv'[v] = inv[v]
<1> DEFINE Goes == /\ inv' \in [Workers -> InventoryWithin(S)] /\ Based'
                   /\ \A v \in Workers \ {w} : inv'[v] = inv[v]
           W == InventoryWithin(S)
<1>1. InventoryEnds(w) => Goes
  BY InventoryEndsKeeps
<1>2. ASSUME NEW r \in W, r.base # None, inv' = [inv EXCEPT ![w] = r]
      PROVE  Goes
  BY <1>2, InventoryGoesOn
<1> HIDE DEF Goes
<1>3. /\ inv[w] \in W /\ inv[w].pc # "idle" /\ inv[w].base # None
      /\ inv[w].base \in S /\ inv[w].read \in Placements \cup {ReadError}
      /\ inv[w].resolved \in Placements
  <2>1. inv[w] \in W
    OBVIOUS
  <2>2. inv[w].pc # "idle"
    BY DEF InventoryStep, ReadExportJWT, ReadPlacement, UpsertNode,
       StoreResolvedPlacement, InventoryFails
  <2> QED
    BY <2>1, <2>2 DEF Based, InventoryWithin
<1>4. inv[w].base \in Backends
  BY <1>3 DEF OrNone
<1>5. Upserted(inv[w].base, inv[w].read) \in Placements
  BY <1>3, <1>4, UpsertedIsPlacement
<1>6. CASE ReadExportJWT(w)
  <2> DEFINE r == [inv[w] EXCEPT !.pc = "placement", !.jwt = token]
  <2>1. r \in W /\ r.base = inv[w].base
    BY <1>3 DEF InventoryWithin, InventorySteps
  <2>2. inv' = [inv EXCEPT ![w] = r] \/ InventoryEnds(w)
    BY <1>6 DEF ReadExportJWT
  <2> HIDE DEF r
  <2>3. Goes
    BY <1>1, <1>2, <1>3, <2>1, <2>2
  <2> QED
    BY <1>3, <1>6, <2>3 DEF ReadExportJWT, rows, Goes
<1>7. CASE ReadPlacement(w)
  <2>1. ASSUME NEW p \in {placement, ReadError},
               inv' = [inv EXCEPT ![w].pc = "upsert", ![w].read = p]
        PROVE  Goes
    <3> DEFINE r == [inv[w] EXCEPT !.pc = "upsert", !.read = p]
    <3>1. r \in W /\ r.base = inv[w].base
      BY <1>3 DEF InventoryWithin, InventorySteps
    <3>2. inv' = [inv EXCEPT ![w] = r]
      BY <2>1
    <3> HIDE DEF r
    <3> QED
      BY <1>2, <1>3, <3>1, <3>2
  <2>2. Goes
    BY <1>7, <2>1 DEF ReadPlacement
  <2> QED
    BY <1>3, <1>7, <2>2 DEF ReadPlacement, rows, Goes
<1>8. CASE UpsertNode(w)
  <2> DEFINE b == inv[w].base
             resolved == Upserted(b, inv[w].read)
             r == [inv[w] EXCEPT !.pc = "store", !.resolved = resolved]
  <2>1. resolved \in Placements
    BY <1>5
  <2>2. /\ \/ inv' = [inv EXCEPT ![w] = r]
           \/ InventoryEnds(w)
        /\ \/ assigned' = [assigned EXCEPT ![b] = resolved]
           \/ UNCHANGED assigned
    BY <1>8 DEF UpsertNode
  <2> HIDE DEF resolved
  <2>3. r \in W /\ r.base = inv[w].base
    BY <1>3, <2>1 DEF InventoryWithin, InventorySteps
  <2> HIDE DEF r
  <2>4. Goes
    BY <1>1, <1>2, <1>3, <2>2, <2>3
  <2>5. assigned' \in [Backends -> Placements]
    BY <2>1, <2>2
  <2> QED
    BY <1>3, <1>8, <2>4, <2>5 DEF UpsertNode, rows, Goes
<1>9. CASE StoreResolvedPlacement(w)
  <2>1. Goes
    BY <1>1, <1>9 DEF StoreResolvedPlacement
  <2> QED
    BY <1>3, <1>9, <2>1 DEF StoreResolvedPlacement, SetNodePlacement, Goes
<1>10. CASE InventoryFails(w)
  <2>1. Goes
    BY <1>1, <1>10 DEF InventoryFails
  <2>2. \/ assigned' = assigned
        \/ assigned' = [assigned EXCEPT
                          ![inv[w].base] = Upserted(inv[w].base, inv[w].read)]
    BY <1>10 DEF InventoryFails
  <2>3. assigned' \in [Backends -> Placements]
    BY <1>4, <1>5, <2>2
  <2> QED
    BY <1>3, <1>10, <2>1, <2>3 DEF InventoryFails, rows, Goes
<1> QED
  BY <1>6, <1>7, <1>8, <1>9, <1>10 DEF InventoryStep

-----------------------------------------------------------------------------
(* The command line *)

\* What a running enroll has stored so far.
CliReady ==
  /\ cli.pc # "idle" => cli.target # None
  /\ Storing => sakToken = cli.target
  /\ cli.pc = "base" => token # None

\* enroll writes the base URL last, and unenroll runs while no enroll does.
LEMMA CliKeepsComplete ==
  ASSUME cli \in CliRecords, CliReady, EnrolledIsComplete, CliNext \/ EnrollDone,
         TrackTorn
  PROVE  CliReady' /\ EnrolledIsComplete'
<1> USE DEF CliReady, EnrolledIsComplete, Storing, TrackTorn, NotEnrolled,
            GetBackendBaseURL
<1>1. IdleCli.pc = "idle"
  BY DEF IdleCli
<1>2. CASE EnrollStart
  <2>1. cli'.pc = "exchange" /\ cli'.target # None
    BY <1>2, DistinctValues DEF EnrollStart
  <2> QED
    BY <1>2, <2>1 DEF EnrollStart, rows
<1>3. CASE EnrollExchange \/ StoreSAK \/ StoreJWT \/ StoreBaseURL
           \/ UpdateNodePlacementMetadata
  <2>1. ASSUME NEW s, CliGoto(s) PROVE cli'.pc = s /\ cli'.target = cli.target
    BY <2>1 DEF CliGoto, CliRecords
  <2>2. CASE EnrollExchange
    BY <2>1, <2>2 DEF EnrollExchange, rows
  <2>3. CASE StoreSAK
    BY <2>1, <2>3 DEF StoreSAK, SetSAK
  <2>4. CASE StoreJWT
    BY <2>1, <2>4 DEF StoreJWT, SetJWT
  <2>5. CASE StoreBaseURL
    BY <2>1, <2>5 DEF StoreBaseURL, SetBackendBaseURL
  <2>6. CASE UpdateNodePlacementMetadata
    BY <2>1, <2>6 DEF UpdateNodePlacementMetadata, SetNodePlacement
  <2> QED
    BY <1>3, <2>2, <2>3, <2>4, <2>5, <2>6
<1>4. CASE EnrollDone \/ EnrollAborts
  BY <1>1, <1>4 DEF EnrollDone, EnrollAborts, rows
<1>5. CASE Unenroll
  BY <1>5 DEF Unenroll
<1> QED
  BY <1>2, <1>3, <1>4, <1>5 DEF CliNext

\* A step beside the command line stores no SAK and no URL, and no empty JWT.
LEMMA BesideKeepsComplete ==
  ASSUME CliReady, EnrolledIsComplete, UNCHANGED <<cli, sakToken, baseURL, legacy>>,
         token' # token => token' # None, TrackTorn
  PROVE  CliReady' /\ EnrolledIsComplete'
  BY DEF CliReady, EnrolledIsComplete, Storing, TrackTorn, NotEnrolled,
     GetBackendBaseURL

\* The flags change the fields they were given for.
LEMMA CliKeepsPlacement ==
  ASSUME cli \in CliRecords, placement \in Placements, commands \in 0..MaxCommands,
         CliNext \/ EnrollDone
  PROVE  placement' \in Placements /\ commands' \in 0..MaxCommands
<1>1. CASE UpdateNodePlacementMetadata
  <2> DEFINE p == [i \in 1..2 |->
                     IF cli.flags[i] = Omitted THEN placement[i] ELSE cli.flags[i]]
  <2>1. cli.flags \in Flags
    BY DEF CliRecords
  <2>2. p \in Placements
    BY <2>1 DEF Flags, Placements
  <2> QED
    BY <1>1, <2>2 DEF UpdateNodePlacementMetadata, SetNodePlacement
<1>2. CASE Unenroll
  BY <1>2, CommandsBounded DEF Unenroll, Placements, OrNone
<1>3. CASE EnrollStart
  BY <1>3, CommandsBounded DEF EnrollStart, rows
<1>4. CASE EnrollExchange \/ StoreSAK \/ StoreJWT \/ StoreBaseURL \/ EnrollAborts
           \/ EnrollDone
  BY <1>4 DEF EnrollExchange, StoreSAK, StoreJWT, StoreBaseURL, EnrollAborts, EnrollDone,
     SetSAK, SetJWT, SetBackendBaseURL, rows
<1> QED
  BY <1>1, <1>2, <1>3, <1>4 DEF CliNext

\* Every step fails at most once.
LEMMA FaultsStayBounded ==
  ASSUME faults \in 0..MaxFaults, Next
  PROVE  faults' \in 0..MaxFaults
<1>1. Fault \/ NoFault => faults' \in 0..MaxFaults
  BY FaultsBounded DEF Fault, NoFault
<1>2. ExporterNext => Fault \/ NoFault
  BY DEF ExporterNext, UseCollector, RefreshEndpoints, ReadLegacyEndpoint,
     RefreshAuthToken, CollectAndSend, SendAccepted, SendUnauthorized, SendFails,
     RefreshReadSAK, RefreshReadBaseURL, RefreshEnroll, RefreshSave, SaveHeaderToken
<1>3. AttestationNext => Fault \/ NoFault
  BY DEF AttestationNext, ReadJWT, NonceClient, GetNonce, StoreRefreshedJWT,
     CollectEvidence, Submit, AttestationFails
<1>4. \A w \in Workers : CollectSnapshot(w) \/ InventoryStep(w) => Fault \/ NoFault
  BY DEF CollectSnapshot, InventoryStep, ReadExportJWT, ReadPlacement, UpsertNode,
     StoreResolvedPlacement, InventoryFails
<1>5. CliNext \/ EnrollDone => Fault \/ NoFault
  BY DEF CliNext, EnrollStart, EnrollExchange, StoreSAK, StoreJWT, StoreBaseURL,
     UpdateNodePlacementMetadata, EnrollAborts, Unenroll, EnrollDone
<1> HIDE DEF Fault, NoFault
<1>6. CliStep => Fault \/ NoFault
  BY <1>4, <1>5 DEF CliStep, Workers
<1> QED
  BY <1>1, <1>2, <1>3, <1>4, <1>6
  DEF Next, ExporterStep, AttestationStep, InventoryLoopStep, DaemonRestart, Workers

-----------------------------------------------------------------------------
(* The agent *)

(***************************************************************************)
(* EnrolledIsComplete is inductive with what each writer is about to       *)
(* store: no workflow ever stores an empty token, and enroll gets to the   *)
(* base URL only after the JWT and with the SAK of its own target stored.  *)
(***************************************************************************)
AgentInv ==
  /\ RowsOK /\ placement \in Placements /\ faults \in 0..MaxFaults
  /\ cli \in CliRecords /\ commands \in 0..MaxCommands /\ CliReady
  /\ Fine(exp) /\ Ready(exp)
  /\ att \in AttestationWithin(Credentials) /\ AttestationReady
  /\ inv \in [Workers -> InventoryWithin(Credentials)] /\ Based
  /\ assigned \in [Backends -> Placements]
  /\ config \in Configurations /\ unaware \subseteq Cycles /\ torn \in BOOLEAN
  /\ EnrolledIsComplete

\* The exporter's record is within the endpoints by its type.
LEMMA ExporterIsProper ==
  ASSUME Fine(exp), Ready(exp)
  PROVE  Proper(exp, Endpoints)
<1>1. /\ exp.metricsEndpoint \in Endpoints /\ exp.logsEndpoint \in Endpoints
      /\ exp.authToken \in Credentials /\ exp.current \in Credentials
      /\ exp.sak \in Credentials /\ exp.base \in Credentials
      /\ exp.newToken \in Credentials
  BY DEF Fine, ExporterRecords, Credentials
<1> QED
  BY <1>1, NoneIsNothing DEF Proper, Within

\* A machine before the first step.
LEMMA AgentInitInv == Init => AgentInv
<1> SUFFICES ASSUME Init PROVE AgentInv
  OBVIOUS
<1>1. /\ RowsOK /\ placement \in Placements /\ faults \in 0..MaxFaults
      /\ EnrolledIsComplete
  BY DistinctValues, FaultsBounded
  DEF Init, MetadataInit, RowsOK, Placements, Credentials, OrNone, EnrolledIsComplete,
      NotEnrolled, GetBackendBaseURL
<1>2. cli \in CliRecords /\ commands \in 0..MaxCommands /\ CliReady
  <2>1. NoFlags \in Flags
    BY DEF NoFlags, Flags
  <2> QED
    BY <2>1, CommandsBounded
    DEF Init, CliInit, IdleCli, CliRecords, CliSteps, OrNone, CliReady,
        Storing
<1>3. Fine(exp) /\ Ready(exp)
  <2>1. PICK mode \in CollectorModes : exp = Rest(mode, None, None, None)
    BY DEF Init, ExporterInit
  <2>2. Fine(exp)
    BY <2>1, ModesAreBoolean, RestIsFine, NoneIsNothing
  <2>3. exp.pc = "idle"
    BY <2>1 DEF Rest
  <2> QED
    BY <2>2, <2>3 DEF Ready
<1>4. att \in AttestationWithin(Credentials) /\ AttestationReady
  BY NoneIsNothing DEF Init, AttestationInit, IdleAttestation, AttestationWithin,
     AttestationSteps, AttestationReady
<1>5. /\ inv \in [Workers -> InventoryWithin(Credentials)] /\ Based
      /\ assigned \in [Backends -> Placements]
  <2>1. NoPlacement \in Placements
    BY DEF NoPlacement, Placements, OrNone
  <2>2. IdleInventory \in InventoryWithin(Credentials) /\ IdleInventory.pc = "idle"
    BY <2>1, NoneIsNothing DEF IdleInventory, InventoryWithin, InventorySteps
  <2> QED
    BY <2>1, <2>2 DEF Init, InventoryInit, Based
<1>6. config \in Configurations /\ unaware \subseteq Cycles /\ torn \in BOOLEAN
  BY DEF Init
<1> QED
  BY <1>1, <1>2, <1>3, <1>4, <1>5, <1>6 DEF AgentInv

\* A step of the exporter.
LEMMA ExporterStepKeepsInv ==
  ASSUME AgentInv, ExporterStep
  PROVE  AgentInv'
<1> USE DEF AgentInv
<1>1. Fine(exp') /\ RowsOK'
  BY ExporterKeepsFine, ExporterKeepsRows DEF ExporterStep
<1>2. {sakToken, token, baseURL, legacy} \subseteq Endpoints
  BY NoneIsNothing DEF RowsOK
<1>3. /\ Ready(exp') /\ UNCHANGED <<sakToken, baseURL, legacy>>
      /\ token' # token => token' # None
  BY <1>2, ExporterIsProper, ExporterKeepsProper, NoneIsNothing
  DEF ExporterStep, Fine, Proper
<1>4. placement' = placement
  BY ExporterWrites DEF ExporterStep, SetJWT, rows
<1>5. CliReady' /\ EnrolledIsComplete'
  BY <1>3, BesideKeepsComplete DEF ExporterStep, cliVars, TrackHistory
<1>6. faults' \in 0..MaxFaults
  BY FaultsStayBounded DEF Next
<1>7. /\ UNCHANGED <<cli, commands, att, inv, assigned, config>>
      /\ unaware' \subseteq Cycles /\ torn' \in BOOLEAN
  BY DEF ExporterStep, cliVars, TrackHistory, TrackUnaware, TrackTorn
<1> QED
  BY <1>1, <1>3, <1>4, <1>5, <1>6, <1>7 DEF AttestationReady, Based

\* A step of the attestation loop.
LEMMA AttestationStepKeepsInv ==
  ASSUME AgentInv, AttestationStep
  PROVE  AgentInv'
<1> USE DEF AgentInv
<1>1. None \in Credentials /\ {token, baseURL, legacy} \subseteq Credentials
  BY NoneIsNothing DEF RowsOK
<1>2. /\ att' \in AttestationWithin(Credentials) /\ AttestationReady'
      /\ UNCHANGED <<sakToken, baseURL, legacy, placement>>
      /\ token' \in Credentials /\ (token' # token => token' # None)
  BY <1>1, AttestationKeeps DEF AttestationStep
<1>3. RowsOK' /\ CliReady' /\ EnrolledIsComplete'
  BY <1>2, BesideKeepsComplete DEF AttestationStep, cliVars, TrackHistory, RowsOK
<1>4. faults' \in 0..MaxFaults
  BY FaultsStayBounded DEF Next
<1>5. /\ UNCHANGED <<cli, commands, exp, inv, assigned, config>>
      /\ unaware' \subseteq Cycles /\ torn' \in BOOLEAN
  BY DEF AttestationStep, cliVars, TrackHistory, TrackUnaware, TrackTorn
<1> QED
  BY <1>2, <1>3, <1>4, <1>5 DEF Based

\* What an export of the inventory, of the loop or of enroll, can disturb.
LEMMA InventoryKeepsInv ==
  ASSUME AgentInv, NEW w \in Workers, CollectSnapshot(w) \/ InventoryStep(w)
  PROVE  /\ UNCHANGED <<sakToken, token, baseURL, legacy>>
         /\ placement' \in Placements /\ assigned' \in [Backends -> Placements]
         /\ inv' \in [Workers -> InventoryWithin(Credentials)] /\ Based'
<1> USE DEF AgentInv
<1>1. /\ None \in Credentials /\ Credentials = OrNone(Backends)
      /\ {token, baseURL, legacy} \subseteq Credentials
  BY NoneIsNothing DEF RowsOK, Credentials
<1>2. CASE CollectSnapshot(w)
  BY <1>1, <1>2, CollectSnapshotKeeps DEF rows
<1>3. CASE InventoryStep(w)
  BY <1>1, <1>3, InventoryStepKeeps
<1> QED
  BY <1>2, <1>3

\* A step of the inventory loop.
LEMMA InventoryLoopStepKeepsInv ==
  ASSUME AgentInv, InventoryLoopStep
  PROVE  AgentInv'
<1>1. /\ UNCHANGED <<sakToken, token, baseURL, legacy>>
      /\ placement' \in Placements /\ assigned' \in [Backends -> Placements]
      /\ inv' \in [Workers -> InventoryWithin(Credentials)] /\ Based'
  BY InventoryKeepsInv DEF InventoryLoopStep, Workers
<1> USE DEF AgentInv
<1>2. UNCHANGED <<cli, commands, exp, att, config>> /\ unaware' \subseteq Cycles /\ torn' \in BOOLEAN
  BY DEF InventoryLoopStep, cliVars, TrackHistory, TrackUnaware, TrackTorn
<1>3. RowsOK' /\ CliReady' /\ EnrolledIsComplete' /\ AttestationReady'
  BY <1>1, <1>2, BesideKeepsComplete
  DEF InventoryLoopStep, TrackHistory, RowsOK, AttestationReady
<1>4. faults' \in 0..MaxFaults
  BY FaultsStayBounded DEF Next
<1> QED
  BY <1>1, <1>2, <1>3, <1>4

\* A step of a command.
LEMMA CliStepKeepsInv ==
  ASSUME AgentInv, CliStep
  PROVE  AgentInv'
<1> USE DEF AgentInv
<1>1. /\ UNCHANGED <<exp, att, config>> /\ TrackTorn
      /\ unaware' \subseteq Cycles /\ torn' \in BOOLEAN
  BY DEF CliStep, TrackHistory, TrackUnaware, TrackTorn
<1>2. faults' \in 0..MaxFaults
  BY FaultsStayBounded DEF Next
<1> DEFINE Command == /\ RowsOK' /\ placement' \in Placements
                      /\ cli' \in CliRecords /\ commands' \in 0..MaxCommands
                      /\ CliReady' /\ EnrolledIsComplete'
           Exports == /\ inv' \in [Workers -> InventoryWithin(Credentials)] /\ Based'
                      /\ assigned' \in [Backends -> Placements]
<1>3. ASSUME CliNext \/ EnrollDone PROVE Command
  BY <1>1, <1>3, CliKeepsRows, CliKeepsComplete, CliKeepsPlacement
<1>4. ASSUME CollectSnapshot("cli") \/ InventoryStep("cli")
      PROVE  /\ Exports /\ placement' \in Placements
             /\ UNCHANGED <<sakToken, token, baseURL, legacy>>
  BY <1>4, InventoryKeepsInv DEF Workers
<1>5. CASE CliNext /\ UNCHANGED <<inv, assigned>>
  BY <1>1, <1>2, <1>3, <1>5 DEF AttestationReady, Based
<1>6. CASE /\ cli.pc = "sync" /\ CliGoto("syncing")
           /\ CollectSnapshot("cli") /\ UNCHANGED commands
  <2>1. cli' \in CliRecords /\ cli'.pc = "syncing" /\ cli'.target = cli.target
    BY <1>6 DEF CliGoto, CliRecords, CliSteps
  <2>2. Command
    BY <1>1, <1>4, <1>6, <2>1 DEF RowsOK, CliReady, EnrolledIsComplete, Storing,
       TrackTorn, NotEnrolled, GetBackendBaseURL
  <2> QED
    BY <1>1, <1>2, <1>4, <1>6, <2>2 DEF AttestationReady
<1>7. CASE InventoryStep("cli") /\ UNCHANGED cliVars
  <2>1. Command
    BY <1>1, <1>4, <1>7, BesideKeepsComplete DEF RowsOK, cliVars
  <2> QED
    BY <1>1, <1>2, <1>4, <1>7, <2>1 DEF AttestationReady
<1>8. CASE EnrollDone /\ InventoryEnds("cli") /\ UNCHANGED assigned
  <2>1. Exports
    BY <1>8, InventoryEndsKeeps, NoneIsNothing DEF Workers
  <2> QED
    BY <1>1, <1>2, <1>3, <1>8, <2>1 DEF AttestationReady
<1> QED
  BY <1>5, <1>6, <1>7, <1>8 DEF CliStep

\* The rows outlive the daemon.
LEMMA DaemonRestartKeepsInv ==
  ASSUME AgentInv, DaemonRestart
  PROVE  AgentInv'
<1> USE DEF AgentInv
<1>1. Fine(exp') /\ Ready(exp')
  <2>1. exp.collector \in BOOLEAN
    BY DEF Fine, ExporterRecords
  <2>2. exp' = Rest(exp.collector, None, None, None)
    BY DEF DaemonRestart
  <2>3. exp'.pc = "idle"
    BY <2>2 DEF Rest
  <2> QED
    BY <2>1, <2>2, <2>3, RestIsFine, NoneIsNothing DEF Ready
<1>2. att' \in AttestationWithin(Credentials) /\ AttestationReady'
  BY NoneIsNothing DEF DaemonRestart, AttestationEnds, IdleAttestation,
     AttestationWithin, AttestationSteps, AttestationReady
<1>3. inv' \in [Workers -> InventoryWithin(Credentials)] /\ Based'
  BY InventoryEndsKeeps, NoneIsNothing DEF DaemonRestart, Workers
<1>4. faults' \in 0..MaxFaults
  BY FaultsStayBounded DEF Next
<1>5. /\ UNCHANGED <<sakToken, token, baseURL, legacy, placement>>
      /\ UNCHANGED <<cli, commands, assigned, config>> /\ unaware' \subseteq Cycles /\ torn' \in BOOLEAN
  BY DEF DaemonRestart, rows, cliVars, TrackHistory, TrackUnaware, TrackTorn
<1>6. RowsOK' /\ CliReady' /\ EnrolledIsComplete'
  BY <1>5, BesideKeepsComplete DEF DaemonRestart, TrackHistory, RowsOK
<1> QED
  BY <1>1, <1>2, <1>3, <1>4, <1>5, <1>6

\* Every step keeps the invariant.
LEMMA AgentNextKeepsInv == AgentInv /\ [Next]_vars => AgentInv'
<1> SUFFICES ASSUME AgentInv, [Next]_vars PROVE AgentInv'
  OBVIOUS
<1>1. CASE UNCHANGED vars
  BY <1>1 DEF AgentInv, vars, rows, cliVars, workflows, RowsOK, CliReady,
     AttestationReady, Based, EnrolledIsComplete, Storing, NotEnrolled,
     GetBackendBaseURL
<1> QED
  BY <1>1, ExporterStepKeepsInv, AttestationStepKeepsInv, InventoryLoopStepKeepsInv,
     CliStepKeepsInv, DaemonRestartKeepsInv DEF Next

\* Type correctness of the composed agent: the rows, the command, the locals
\* of the three workflows and the backends' placements stay what they are.
THEOREM TypeCorrect == Spec => []TypeOK
<1>1. AgentInv => TypeOK
  BY DEF AgentInv, TypeOK, RowsOK, Fine, MetadataTypeOK, CliTypeOK, ExporterTypeOK,
     AttestationTypeOK, AttestationWithin, InventoryTypeOK, InventoryWithin, Credentials
<1> QED
  BY <1>1, AgentInitInv, AgentNextKeepsInv, PTL DEF Spec

\* A machine with a backend URL has a JWT and a SAK, and the SAK is of that
\* backend unless an enroll is, or was cut short, between its SAK and its base
\* URL, whatever commands, workflows, failures and restarts interleave.
THEOREM EnrolledIsCompleteHolds == Spec => []EnrolledIsComplete
<1>1. AgentInv => EnrolledIsComplete
  BY DEF AgentInv
<1> QED
  BY <1>1, AgentInitInv, AgentNextKeepsInv, PTL DEF Spec

-----------------------------------------------------------------------------
(* A daemon without a collector endpoint *)

\* Nothing of the gateway is in the exporter's configuration.
Direct == Proper(exp, Credentials)

\* The gateway is no backend.
LEMMA DirectHasNoCollector ==
  ASSUME AgentInv, Direct
  PROVE  ~exp.collector
<1>1. Gateway \notin Credentials
  BY DistinctValues, GatewayIsNoBackend DEF Credentials, OrNone
<1> QED
  BY <1>1 DEF Direct, Proper

\* It starts like that.
LEMMA InitIsDirect ==
  ASSUME CollectorModes \subseteq {FALSE}
  PROVE  Init => Direct
<1> SUFFICES ASSUME Init PROVE Direct
  OBVIOUS
<1>1. exp = Rest(FALSE, None, None, None)
  BY DEF Init, ExporterInit
<1> QED
  BY <1>1, RestIsProper, NoneIsNothing DEF Direct

\* And stays like that.
LEMMA NextStaysDirect == AgentInv /\ Direct /\ [Next]_vars => Direct'
<1> SUFFICES ASSUME AgentInv, Direct, [Next]_vars PROVE Direct'
  OBVIOUS
<1>1. CASE ExporterStep
  <2>1. None \in Credentials /\ {sakToken, token, baseURL, legacy} \subseteq Credentials
    BY NoneIsNothing DEF AgentInv, RowsOK
  <2> QED
    BY <1>1, <2>1, ExporterKeepsProper DEF Direct, ExporterStep, AgentInv, Fine
<1>2. CASE DaemonRestart
  <2>1. ~exp.collector /\ exp' = Rest(exp.collector, None, None, None)
    BY <1>2, DirectHasNoCollector DEF DaemonRestart
  <2> QED
    BY <2>1, RestIsProper, NoneIsNothing DEF Direct
<1>3. CASE AttestationStep \/ InventoryLoopStep \/ CliStep \/ UNCHANGED vars
  BY <1>3 DEF AttestationStep, InventoryLoopStep, CliStep, vars, workflows, Direct
<1> QED
  BY <1>1, <1>2, <1>3 DEF Next

(***************************************************************************)
(* What the cycles that know of no backend are doing: an exporter on its   *)
(* way through empty rows, an attestation about to look its backend up.    *)
(* No inventory export gets that far.                                      *)
(***************************************************************************)
Silent ==
  /\ unaware \subseteq {"exporter", "attestation"}
  /\ "exporter" \in unaware => Quiet(exp)
  /\ "attestation" \in unaware => att.pc = "nonceBase"

\* An inventory export starts for a stored backend only.
LEMMA ExportStartsEnrolled ==
  ASSUME AgentInv, Next, NEW w \in Workers, inv[w].pc = "idle", inv'[w].pc # "idle"
  PROVE  ~NotEnrolled
<1>1. ASSUME NEW v \in Workers, CollectSnapshot(v) \/ InventoryStep(v) PROVE ~NotEnrolled
  <2>1. /\ GetBackendBaseURL # None \/ inv[v].pc # "idle"
        /\ \A u \in Workers \ {v} : inv'[u] = inv[u]
    <3>1. /\ None \in Credentials /\ Credentials = OrNone(Backends)
          /\ {token, baseURL, legacy} \subseteq Credentials
      BY NoneIsNothing DEF AgentInv, RowsOK, Credentials
    <3>2. CASE CollectSnapshot(v)
      BY <3>1, <3>2, CollectSnapshotKeeps DEF AgentInv
    <3>3. CASE InventoryStep(v)
      BY <3>1, <3>3, InventoryStepKeeps DEF AgentInv
    <3> QED
      BY <1>1, <3>2, <3>3
  <2>2. v = w
    BY <2>1
  <2> QED
    BY <2>1, <2>2 DEF NotEnrolled
<1>2. ASSUME NEW v \in Workers PROVE ~InventoryEnds(v)
  BY <1>2, InventoryEndsKeeps, NoneIsNothing DEF AgentInv
<1> QED
  BY <1>1, <1>2 DEF Next, ExporterStep, AttestationStep, InventoryLoopStep, CliStep,
     DaemonRestart, Workers

\* A cycle that starts without a backend is silent, and stays so.
LEMMA NextStaysSilent ==
  AgentInv /\ Direct /\ Silent /\ [Next]_vars => Silent'
<1> SUFFICES ASSUME AgentInv, Direct, Silent, [Next]_vars PROVE Silent'
  OBVIOUS
<1>1. CASE UNCHANGED vars
  BY <1>1 DEF vars, workflows, Silent
<1>2. CASE Next
  <2>1. ASSUME NEW c \in unaware'
        PROVE  c \in Cycles /\ Running(c)' /\ NotEnrolled /\ (Running(c) => c \in unaware)
    BY <1>2, <2>1 DEF Next, ExporterStep, AttestationStep, InventoryLoopStep, CliStep,
       DaemonRestart, TrackHistory, TrackUnaware
  <2>2. ASSUME NEW w \in Workers, w \in unaware' PROVE FALSE
    <3>1. w # "exporter" /\ w # "attestation"
      BY DEF Workers
    <3>2. NotEnrolled /\ inv'[w].pc # "idle" /\ (inv[w].pc # "idle" => w \in unaware)
      BY <2>1, <2>2, <3>1 DEF Running
    <3> QED
      BY <1>2, <3>1, <3>2, ExportStartsEnrolled DEF Silent
  <2>3. ASSUME "exporter" \in unaware' PROVE Quiet(exp')
    <3>1. /\ NotEnrolled /\ exp'.pc # "idle"
          /\ exp.pc = "idle" \/ Quiet(exp)
      BY <2>1, <2>3 DEF Running, Silent
    <3>2. CASE ExporterStep
      BY <3>1, <3>2, ExporterStaysQuiet, DirectHasNoCollector
      DEF ExporterStep, NotEnrolled, AgentInv, Fine
    <3>3. CASE DaemonRestart
      BY <3>1, <3>3 DEF DaemonRestart, Rest
    <3>4. CASE AttestationStep \/ InventoryLoopStep \/ CliStep
      BY <3>1, <3>4 DEF AttestationStep, InventoryLoopStep, CliStep
    <3> QED
      BY <1>2, <3>2, <3>3, <3>4 DEF Next
  <2>4. ASSUME "attestation" \in unaware' PROVE att'.pc = "nonceBase"
    <3>1. /\ NotEnrolled /\ att'.pc # "idle"
          /\ att.pc \in {"idle", "nonceBase"}
      BY <2>1, <2>4 DEF Running, Silent
    <3>2. CASE AttestationStep
      BY <3>1, <3>2, AttestationStaysQuiet DEF AttestationStep, NotEnrolled, AgentInv
    <3>3. CASE DaemonRestart
      BY <3>1, <3>3 DEF DaemonRestart, AttestationEnds, IdleAttestation
    <3>4. CASE ExporterStep \/ InventoryLoopStep \/ CliStep
      BY <3>1, <3>4 DEF ExporterStep, InventoryLoopStep, CliStep
    <3> QED
      BY <1>2, <3>2, <3>3, <3>4 DEF Next
  <2> QED
    BY <2>1, <2>2, <2>3, <2>4 DEF Silent, Cycles, Workers
<1> QED
  BY <1>1, <1>2

\* Without a collector endpoint, a cycle that starts while no backend URL is
\* stored makes no request, as long as none is stored.
THEOREM UnenrolledIsSilentHolds ==
  ASSUME CollectorModes \subseteq {FALSE}
  PROVE  Spec => []UnenrolledIsSilent
<1>1. Silent => UnenrolledIsSilent
  BY DEF Silent, UnenrolledIsSilent, Requesting, Quiet
<1>2. Init => Silent
  BY DEF Init, Silent
<1> QED
  BY <1>1, <1>2, AgentInitInv, AgentNextKeepsInv, InitIsDirect, NextStaysDirect,
     NextStaysSilent, PTL DEF Spec

-----------------------------------------------------------------------------
(* Left alone, the agent stays with its backend *)

\* All that is stored, cached and in flight is of b.
Belongs(b) ==
  /\ sakToken = b /\ token = b /\ GetBackendBaseURL = b
  /\ {baseURL, legacy} \subseteq {b, None}
  /\ Within(exp, {b, None})
  /\ att \in AttestationWithin({b, None})
  /\ inv \in [Workers -> InventoryWithin({b, None})]

\* Settled, of a typed agent.
LEMMA SettledBelongs ==
  ASSUME AgentInv, NEW b \in Backends, Settled(b)
  PROVE  Belongs(b)
<1>1. {baseURL, legacy} \subseteq {b, None}
  BY DEF Settled, GetBackendBaseURL
<1>2. Within(exp, {b, None})
  BY DEF Settled, Within
<1>3. att \in AttestationWithin({b, None})
  BY DEF AgentInv, Settled, AttestationWithin
<1>4. ASSUME NEW w \in Workers PROVE inv[w] \in InventoryWithin({b, None})
  <2>1. inv[w] \in InventoryWithin(Credentials)
    BY DEF AgentInv
  <2>2. inv[w].base \in {b, None} /\ inv[w].jwt \in {b, None}
    BY DEF Settled
  <2> QED
    BY <2>1, <2>2 DEF InventoryWithin
<1>5. inv \in [Workers -> InventoryWithin({b, None})]
  BY <1>4 DEF AgentInv
<1> QED
  BY <1>1, <1>2, <1>3, <1>5 DEF Belongs, Settled

\* The converse, after a step.
LEMMA BelongsSettles ==
  ASSUME NEW b \in Backends, Belongs(b)', cli'.pc \in {"idle", "sync", "syncing"}
  PROVE  Settled(b)'
<1>1. ASSUME NEW w \in Workers PROVE inv'[w].base \in {b, None} /\ inv'[w].jwt \in {b, None}
  <2>1. inv'[w] \in InventoryWithin({b, None})
    BY DEF Belongs
  <2> QED
    BY <2>1 DEF InventoryWithin
<1>2. {att.jwt, att.refreshed, att.nonceFrom, att.submitTo}' \subseteq {b, None}
  BY DEF Belongs, AttestationWithin
<1>3. {legacy, exp.metricsEndpoint, exp.logsEndpoint, exp.authToken,
       exp.current, exp.sak, exp.base, exp.newToken}' \subseteq {b, None}
  BY DEF Belongs, Within
<1>4. (sakToken = b /\ token = b /\ GetBackendBaseURL = b)'
  BY DEF Belongs
<1> QED
  BY <1>1, <1>2, <1>3, <1>4 DEF Settled

\* No step but a new command brings another backend into play.
LEMMA NextStaysSettled ==
  ASSUME AgentInv, Direct, [Next]_vars, NEW b \in Backends, Settled(b),
         UNCHANGED commands
  PROVE  Settled(b)'
<1> DEFINE S == {b, None}
<1>1. Belongs(b)
  BY SettledBelongs
<1>2. None \in S /\ S \subseteq OrNone(Backends)
  BY DEF OrNone
<1>3. {sakToken, token, baseURL, legacy} \subseteq S
  BY <1>1 DEF Belongs
<1>4. cli.pc \in {"idle", "sync", "syncing"}
  BY DEF Settled
<1>5. b # None
  BY DistinctValues
<1> HIDE DEF S
<1>6. ASSUME UNCHANGED <<sakToken, baseURL, legacy>>, token' \in {b, None},
             token' # token => token' # None
      PROVE  (/\ sakToken = b /\ token = b /\ GetBackendBaseURL = b
              /\ {baseURL, legacy} \subseteq {b, None})'
  BY <1>1, <1>6 DEF Belongs, GetBackendBaseURL
<1>7. CASE ExporterStep
  <2>1. Proper(exp, S)
    BY <1>1, DirectHasNoCollector DEF Belongs, AgentInv, Proper, S
  <2>2. /\ Proper(exp', S) /\ token' \in S /\ UNCHANGED <<sakToken, baseURL, legacy>>
        /\ token' # token => token' # None
    BY <1>2, <1>3, <1>7, <2>1, ExporterKeepsProper DEF ExporterStep, AgentInv, Fine
  <2>3. Belongs(b)' /\ cli' = cli
    BY <1>1, <1>6, <1>7, <2>2 DEF ExporterStep, cliVars, Belongs, Proper, S
  <2> QED
    BY <1>4, <2>3, BelongsSettles
<1>8. CASE AttestationStep
  <2>1. /\ att' \in AttestationWithin(S) /\ token' \in S
        /\ UNCHANGED <<sakToken, baseURL, legacy>> /\ (token' # token => token' # None)
    BY <1>1, <1>2, <1>3, <1>8, AttestationKeeps DEF AttestationStep, AgentInv, Belongs, S
  <2>2. Belongs(b)' /\ cli' = cli
    BY <1>1, <1>6, <1>8, <2>1 DEF AttestationStep, cliVars, Belongs, S
  <2> QED
    BY <1>4, <2>2, BelongsSettles
<1>9. ASSUME NEW w \in Workers, CollectSnapshot(w) \/ InventoryStep(w),
             UNCHANGED <<exp, att>>
      PROVE  Belongs(b)'
  <2>1. inv' \in [Workers -> InventoryWithin(S)]
    <3>1. inv \in [Workers -> InventoryWithin(S)]
      BY <1>1 DEF Belongs, S
    <3>2. CASE CollectSnapshot(w)
      BY <1>3, <3>1, <3>2, CollectSnapshotKeeps DEF AgentInv
    <3>3. CASE InventoryStep(w)
      BY <1>2, <1>3, <3>1, <3>3, InventoryStepKeeps DEF AgentInv
    <3> QED
      BY <1>9, <3>2, <3>3
  <2>2. UNCHANGED <<sakToken, token, baseURL, legacy>>
    BY <1>9, InventoryKeepsInv
  <2> QED
    BY <1>1, <1>3, <1>6, <1>9, <2>1, <2>2 DEF Belongs, S
<1>10. CASE InventoryLoopStep
  <2>1. Belongs(b)' /\ cli' = cli
    BY <1>9, <1>10 DEF InventoryLoopStep, Workers, cliVars
  <2> QED
    BY <1>4, <2>1, BelongsSettles
<1>11. ASSUME NEW w \in Workers, InventoryEnds(w), UNCHANGED rows,
              Within(exp, {b, None})', att' \in AttestationWithin({b, None})
       PROVE  Belongs(b)'
  <2>1. inv' \in [Workers -> InventoryWithin(S)]
    BY <1>1, <1>2, <1>11, InventoryEndsKeeps DEF AgentInv, Belongs, S
  <2> QED
    BY <1>1, <1>3, <1>6, <1>11, <2>1 DEF Belongs, S, rows
<1>12. CASE CliStep
  <2>1. UNCHANGED <<exp, att>>
    BY <1>12 DEF CliStep
  <2>2. ~CliNext
    <3>1. commands' # commands + 1
      BY DEF AgentInv
    <3>2. ~EnrollStart /\ ~Unenroll
      BY <3>1 DEF EnrollStart, Unenroll
    <3>3. ~(EnrollExchange \/ StoreSAK \/ StoreJWT \/ StoreBaseURL
            \/ UpdateNodePlacementMetadata \/ EnrollAborts)
      BY <1>4 DEF EnrollExchange, StoreSAK, StoreJWT, StoreBaseURL,
         UpdateNodePlacementMetadata, EnrollAborts
    <3> QED
      BY <3>2, <3>3 DEF CliNext
  <2>3. CASE CliGoto("syncing") /\ CollectSnapshot("cli")
    <3>1. cli'.pc = "syncing"
      BY <2>3 DEF CliGoto, AgentInv, CliRecords
    <3> QED
      BY <1>9, <2>1, <2>3, <3>1, BelongsSettles DEF Workers
  <2>4. CASE InventoryStep("cli") /\ UNCHANGED cliVars
    BY <1>4, <1>9, <2>1, <2>4, BelongsSettles DEF Workers, cliVars
  <2>5. CASE EnrollDone /\ InventoryEnds("cli")
    <3>1. UNCHANGED rows /\ cli'.pc = "idle"
      BY <2>5 DEF EnrollDone, IdleCli
    <3>2. Belongs(b)'
      BY <1>1, <1>11, <2>1, <2>5, <3>1 DEF Belongs, Workers
    <3> QED
      BY <3>1, <3>2, BelongsSettles
  <2> QED
    BY <1>12, <2>2, <2>3, <2>4, <2>5 DEF CliStep
<1>13. CASE DaemonRestart
  <2>1. Within(exp, {b, None})'
    BY <1>13 DEF DaemonRestart, Rest, Within
  <2>2. att' \in AttestationWithin({b, None})
    BY <1>13 DEF DaemonRestart, AttestationEnds, IdleAttestation, AttestationWithin,
       AttestationSteps
  <2>3. Belongs(b)' /\ cli' = cli
    BY <1>11, <1>13, <2>1, <2>2 DEF DaemonRestart, Workers, cliVars
  <2> QED
    BY <1>4, <2>3, BelongsSettles
<1>14. CASE UNCHANGED vars
  <2>1. UNCHANGED <<sakToken, token, baseURL, legacy, exp, att, inv, cli>>
    BY <1>14 DEF vars, rows, cliVars, workflows
  <2>2. Belongs(b)'
    BY <1>1, <2>1 DEF Belongs, GetBackendBaseURL, Within
  <2> QED
    BY <1>4, <2>1, <2>2, BelongsSettles
<1> QED
  BY <1>7, <1>8, <1>10, <1>12, <1>13, <1>14 DEF Next

\* Without a collector endpoint, a settled agent stays with its backend until
\* somebody starts a command: no interleaving, failure or restart brings in a
\* URL or a token of another backend.
THEOREM SettledStaysHolds ==
  ASSUME CollectorModes \subseteq {FALSE}
  PROVE  Spec => SettledStays
<1>1. AgentInv /\ Direct /\ [Next]_vars =>
        [\A b \in Backends : Settled(b) /\ UNCHANGED commands => Settled(b)']_vars
  BY NextStaysSettled
<1> QED
  BY <1>1, AgentInitInv, AgentNextKeepsInv, InitIsDirect, NextStaysDirect, PTL
  DEF Spec, SettledStays
=============================================================================
