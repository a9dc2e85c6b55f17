---------------------------- MODULE Attestation -----------------------------
(***************************************************************************)
(* One attestation workflow (CollectOnce): read the agent UUID and the     *)
(* JWT, get a nonce, store the JWT the nonce answer may carry, collect the *)
(* evidence for the nonce and submit it.  The backend is looked up twice,  *)
(* for the nonce and for the submission; the JWT is read once.             *)
(***************************************************************************)
EXTENDS AgentMetadata

VARIABLE att  \* the workflow's locals

AttestationSteps == {"idle", "nonceBase", "nonce", "setJWT", "collect",
                     "submit"}

AttestationTypeOK ==
  att \in [pc : AttestationSteps,
           jwt : OrNone(Backends),       \* jwt
           refreshed : OrNone(Backends), \* refreshedJWT
           nonceFrom : OrNone(Backends), \* the client of GetNonce
           submitTo : OrNone(Backends)]  \* the client of Submit

IdleAttestation == [pc |-> "idle", jwt |-> None, refreshed |-> None,
                    nonceFrom |-> None, submitTo |-> None]

AttestationInit == att = IdleAttestation

\* Every error ends the workflow; the loop tries again later.
AttestationEnds == att' = IdleAttestation

-----------------------------------------------------------------------------

\* The agent UUID, which was persisted before the loops were started and
\* stays, and the JWT.
ReadJWT ==
  /\ att.pc = "idle"
  /\ token # None
  /\ att' = [att EXCEPT !.pc = "nonceBase", !.jwt = token]
  /\ NoFault /\ UNCHANGED rows

NonceClient ==
  /\ att.pc = "nonceBase"
  /\ IF GetBackendBaseURL # None
       THEN att' = [att EXCEPT !.pc = "nonce", !.nonceFrom = GetBackendBaseURL]
       ELSE AttestationEnds
  /\ NoFault /\ UNCHANGED rows

\* The answer's JWT matters when there is one and it is new.
GetNonce ==
  /\ att.pc = "nonce"
  /\ IF MayAccept(att.nonceFrom, att.jwt)
       THEN \E r \in Reissued(att.nonceFrom) :
              att' = [att EXCEPT !.pc = IF r = None THEN "collect" ELSE "setJWT",
                                 !.refreshed = r]
       ELSE AttestationEnds
  /\ NoFault /\ UNCHANGED rows

StoreRefreshedJWT ==
  /\ att.pc = "setJWT"
  /\ SetJWT(att.refreshed)
  /\ att' = [att EXCEPT !.pc = "collect", !.jwt = att.refreshed,
                        !.refreshed = None]
  /\ NoFault

\* The evidence, or the error, becomes lastResult; then the client for the
\* submission is made from the base URL stored by now.
CollectEvidence ==
  /\ att.pc = "collect"
  /\ IF GetBackendBaseURL # None
       THEN att' = [att EXCEPT !.pc = "submit", !.submitTo = GetBackendBaseURL]
       ELSE AttestationEnds
  /\ NoFault /\ UNCHANGED rows

Submit ==
  /\ att.pc = "submit"
  /\ AttestationEnds
  /\ NoFault /\ UNCHANGED rows

\* A statement or an exchange fails, or its context ended.
AttestationFails ==
  /\ att.pc # "idle"
  /\ AttestationEnds
  /\ Fault /\ UNCHANGED rows

AttestationNext ==
  \/ ReadJWT \/ NonceClient \/ GetNonce \/ StoreRefreshedJWT
  \/ CollectEvidence \/ Submit \/ AttestationFails
=============================================================================
