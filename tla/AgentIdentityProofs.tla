------------------------ MODULE AgentIdentityProofs ------------------------
(***************************************************************************)
(* Theorems about AgentIdentity for any set of callers, any set of UUIDs   *)
(* and any number of restarts.                                             *)
(***************************************************************************)
EXTENDS AgentIdentity, TLAPS

(***************************************************************************)
(* No step of any caller replaces a persisted UUID, since the insert only  *)
(* takes effect on an absent or an empty row.                              *)
(***************************************************************************)
LEMMA RowIsWrittenOnce ==
  ASSUME TypeOK, [Next]_vars, row \in UUID
  PROVE  row' = row
<1>1. ASSUME NEW c \in Callers, EnsureAgentUUID(c)
      PROVE  row' = row
  BY <1>1 DEF EnsureAgentUUID, ReadExisting, Create, InsertIfUnset,
              RereadCommitted
<1>2. ASSUME NEW c \in Callers, StatementFails(c) \/ Restart(c)
      PROVE  row' = row
  BY <1>2 DEF StatementFails, Restart
<1>3. QED BY <1>1, <1>2 DEF Next, vars

(***************************************************************************)
(* The variables keep their types.                                         *)
(***************************************************************************)
LEMMA TypeIsKept == TypeOK /\ [Next]_vars => TypeOK'
<1> SUFFICES ASSUME TypeOK, [Next]_vars PROVE TypeOK'
  OBVIOUS
<1> USE DEF TypeOK, Goto, Steps, readAgentUUIDDB
<1>1. ASSUME NEW c \in Callers, ReadExisting(c) PROVE TypeOK'
  BY <1>1 DEF ReadExisting
<1>2. ASSUME NEW c \in Callers, Create(c) PROVE TypeOK'
  BY <1>2 DEF Create
<1>3. ASSUME NEW c \in Callers, InsertIfUnset(c) PROVE TypeOK'
  <2>1. row' \in UUID \cup {None, EmptyRow}
    BY <1>3 DEF InsertIfUnset
  <2>2. QED BY <1>3, <2>1 DEF InsertIfUnset
<1>4. ASSUME NEW c \in Callers, RereadCommitted(c) PROVE TypeOK'
  BY <1>4 DEF RereadCommitted
<1>5. ASSUME NEW c \in Callers, StatementFails(c) PROVE TypeOK'
  BY <1>5 DEF StatementFails
<1>6. ASSUME NEW c \in Callers, Restart(c) PROVE TypeOK'
  BY <1>6, RestartsBounded DEF Restart
<1>7. CASE UNCHANGED vars
  BY <1>7 DEF vars
<1>8. QED
  BY <1>1, <1>2, <1>3, <1>4, <1>5, <1>6, <1>7 DEF Next, EnsureAgentUUID

(***************************************************************************)
(* Every step keeps the agreement of all callers with the row.             *)
(***************************************************************************)
LEMMA InvIsKept == IInv /\ [Next]_vars => IInv'
<1> SUFFICES ASSUME IInv, [Next]_vars PROVE IInv'
  OBVIOUS
<1>1. TypeOK'
  BY TypeIsKept DEF IInv
<1>2. row \in UUID => row' = row
  BY RowIsWrittenOnce DEF IInv
<1>3. None \notin UUID /\ EmptyRow \notin UUID
  BY NoneIsNoUUID, EmptyIsNoUUID
<1> USE DEF IInv, TypeOK, Agreement, InsertCommits, CandidateReady, Goto,
           readAgentUUIDDB
<1>4. ASSUME NEW c \in Callers, ReadExisting(c)
      PROVE  Agreement' /\ InsertCommits' /\ CandidateReady'
  BY <1>1, <1>2, <1>3, <1>4 DEF ReadExisting
<1>5. ASSUME NEW c \in Callers, Create(c)
      PROVE  Agreement' /\ InsertCommits' /\ CandidateReady'
  BY <1>1, <1>2, <1>3, <1>5 DEF Create
<1>6. ASSUME NEW c \in Callers, InsertIfUnset(c)
      PROVE  Agreement' /\ InsertCommits' /\ CandidateReady'
  <2>1. row' \in UUID
    BY <1>6 DEF InsertIfUnset
  <2>2. QED BY <1>1, <1>2, <1>3, <1>6, <2>1 DEF InsertIfUnset
<1>7. ASSUME NEW c \in Callers, RereadCommitted(c)
      PROVE  Agreement' /\ InsertCommits' /\ CandidateReady'
  BY <1>1, <1>2, <1>3, <1>7 DEF RereadCommitted
<1>8. ASSUME NEW c \in Callers, StatementFails(c) \/ Restart(c)
      PROVE  Agreement' /\ InsertCommits' /\ CandidateReady'
  BY <1>1, <1>2, <1>3, <1>8 DEF StatementFails, Restart
<1>9. CASE UNCHANGED vars
  BY <1>9 DEF vars
<1>10. QED
  BY <1>1, <1>4, <1>5, <1>6, <1>7, <1>8, <1>9 DEF Next, EnsureAgentUUID

LEMMA InvHoldsInitially == Init => IInv
  BY NoneIsNoUUID, RestartsBounded
  DEF Init, IInv, TypeOK, Agreement, InsertCommits, CandidateReady, Steps

(***************************************************************************)
(* The inductive invariant holds in every reachable state.                 *)
(***************************************************************************)
THEOREM InvariantHolds == Spec => []IInv
  BY InvHoldsInitially, InvIsKept, PTL DEF Spec

(***************************************************************************)
(* Whatever EnsureAgentUUID returned to any process is what the row holds, *)
(* for any number of concurrent daemons and enrollments, with failing      *)
(* statements and restarts in between.                                     *)
(***************************************************************************)
THEOREM AgreementHolds == Spec => []Agreement
<1>1. IInv => Agreement
  BY DEF IInv
<1>2. QED BY <1>1, InvariantHolds, PTL

(***************************************************************************)
(* The second read of GetOrCreateAgentUUIDMetadata always finds a UUID.    *)
(***************************************************************************)
THEOREM InsertCommitsHolds == Spec => []InsertCommits
<1>1. IInv => InsertCommits
  BY DEF IInv
<1>2. QED BY <1>1, InvariantHolds, PTL

(***************************************************************************)
(* A persisted agent UUID is never replaced.                               *)
(***************************************************************************)
THEOREM WriteOnceHolds == Spec => WriteOnce
<1>1. IInv /\ [Next]_vars => [(row \in UUID) => row' = row]_vars
  BY RowIsWrittenOnce DEF IInv
<1>2. QED BY <1>1, InvariantHolds, PTL DEF Spec, WriteOnce

(***************************************************************************)
(* Each step of a caller is a step of the write-once register or leaves it *)
(* unchanged: the insert is the register's write, the two reads are where  *)
(* a caller learns the value, a restart is where it is forgotten.          *)
(***************************************************************************)
LEMMA StepRefinement ==
  ASSUME IInv, IInv', [Next]_vars
  PROVE  [Register!Next]_(Register!regVars)
<1>1. None \notin UUID /\ EmptyRow \notin UUID
  BY NoneIsNoUUID, EmptyIsNoUUID
<1> USE DEF IInv, TypeOK, Goto, readAgentUUIDDB, Register!regVars, Register!Next
<1>2. ASSUME NEW c \in Callers, ReadExisting(c) \/ RereadCommitted(c)
      PROVE  Register!Learn(c) \/ UNCHANGED Register!regVars
  <2>1. CASE row \in UUID /\ result[c] = None
    BY <1>1, <1>2, <2>1
    DEF ReadExisting, RereadCommitted, Register!Learn
  <2>2. CASE row \in UUID /\ result[c] # None
    <3>1. result[c] = row
      BY <2>2 DEF Agreement
    <3>2. result' = result
      BY <1>1, <1>2, <2>2, <3>1 DEF ReadExisting, RereadCommitted
    <3>3. QED BY <1>2, <3>2 DEF ReadExisting, RereadCommitted
  <2>3. CASE row \notin UUID
    BY <1>1, <1>2, <2>3 DEF ReadExisting, RereadCommitted
  <2>4. QED BY <2>1, <2>2, <2>3
<1>3. ASSUME NEW c \in Callers, InsertIfUnset(c)
      PROVE  (\E v \in UUID : Register!Write(v)) \/ UNCHANGED Register!regVars
  <2>1. candidate[c] \in UUID
    BY <1>3 DEF InsertIfUnset, CandidateReady
  <2>2. CASE row \in UUID
    BY <1>3, <2>2 DEF InsertIfUnset
  <2>3. CASE row \notin UUID
    <3>1. Register!Write(candidate[c])
      BY <1>1, <1>3, <2>1, <2>3 DEF InsertIfUnset, Register!Write
    <3>2. QED BY <2>1, <3>1
  <2>4. QED BY <2>2, <2>3
<1>4. ASSUME NEW c \in Callers, Create(c) \/ StatementFails(c)
      PROVE  UNCHANGED Register!regVars
  BY <1>4 DEF Create, StatementFails
<1>5. ASSUME NEW c \in Callers, Restart(c)
      PROVE  Register!Forget(c)
  BY <1>5 DEF Restart, Register!Forget
<1>6. CASE UNCHANGED vars
  BY <1>6 DEF vars
<1>7. QED
  BY <1>2, <1>3, <1>4, <1>5, <1>6 DEF Next, EnsureAgentUUID

(***************************************************************************)
(* GetOrCreateAgentUUIDMetadata implements the write-once register.        *)
(***************************************************************************)
THEOREM ImplementsRegister == Spec => RefinesRegister
<1>1. Init => Register!Init
  BY NoneIsNoUUID, EmptyIsNoUUID
  DEF Init, Register!Init, readAgentUUIDDB
<1>2. IInv /\ IInv' /\ [Next]_vars => [Register!Next]_(Register!regVars)
  BY StepRefinement
<1>3. QED
  BY <1>1, <1>2, InvariantHolds, PTL
  DEF Spec, RefinesRegister, Register!Spec
=============================================================================
