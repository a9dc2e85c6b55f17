--------------------------- MODULE AgentIdentity ---------------------------
(***************************************************************************)
(* The agent UUID (metadata key machine_id).  The daemon, when it starts,  *)
(* and every `fleetint enroll` call EnsureAgentUUID on the same SQLite     *)
(* file, each from its own process.  GetOrCreateAgentUUIDMetadata reads    *)
(* the row, makes a candidate when there is none, inserts the candidate    *)
(* unless a non-empty value is there by then, and reads the row again.     *)
(* Each SQL statement is one step; everything else interleaves.            *)
(***************************************************************************)
EXTENDS Naturals

CONSTANTS
  Callers,      \* the processes that call EnsureAgentUUID
  HardwareUUID, \* what the DMI product UUID holds when it can be read
  RandomUUIDs,  \* what uuid.NewString may return
  None,         \* no value (no row, or no local value yet)
  MaxRestarts   \* bound on the number of process restarts

UUID == {HardwareUUID} \cup RandomUUIDs

ASSUME NoneIsNoUUID == None \notin UUID

\* A row written by an older version, or by hand, may hold the empty string.
EmptyRow == "empty row"

ASSUME EmptyIsNoUUID == EmptyRow \notin UUID \cup {None}

ASSUME RestartsBounded == MaxRestarts \in Nat

VARIABLES
  row,        \* the machine_id row: None, EmptyRow or a UUID
  pc,         \* pc[c]: the next statement of caller c
  candidate,  \* candidate[c]: the value create() returned
  result,     \* result[c]: the UUID EnsureAgentUUID returned
  restarts    \* number of process restarts so far

vars == <<row, pc, candidate, result, restarts>>

Steps == {"read", "create", "insert", "reread", "done", "failed"}

Init ==
  /\ row \in UUID \cup {None, EmptyRow}
  /\ pc = [c \in Callers |-> "read"]
  /\ candidate = [c \in Callers |-> None]
  /\ result = [c \in Callers |-> None]
  /\ restarts = 0

-----------------------------------------------------------------------------

Goto(c, step) == pc' = [pc EXCEPT ![c] = step]

\* readAgentUUIDDB: absent and empty rows both read as "no value".
readAgentUUIDDB == IF row \in UUID THEN row ELSE None

\* The first read: a persisted value is returned as it is.
ReadExisting(c) ==
  /\ pc[c] = "read"
  /\ IF readAgentUUIDDB # None
       THEN /\ result' = [result EXCEPT ![c] = readAgentUUIDDB]
            /\ Goto(c, "done")
       ELSE /\ Goto(c, "create")
            /\ UNCHANGED result
  /\ UNCHANGED <<row, candidate, restarts>>

\* create(): the hardware UUID, or a random one when DMI is missing, is not
\* a UUID or holds a placeholder.
Create(c) ==
  /\ pc[c] = "create"
  /\ \E u \in UUID :
       candidate' = [candidate EXCEPT ![c] = u]
  /\ Goto(c, "insert")
  /\ UNCHANGED <<row, result, restarts>>

\* Mutant: the statement replaces whatever is there.
InsertOverwriting(c) ==
  /\ pc[c] = "insert"
  /\ row' = candidate[c]
  /\ Goto(c, "reread")
  /\ UNCHANGED <<candidate, result, restarts>>

\* Mutant: an empty row counts as present.
InsertOnlyIfAbsent(c) ==
  /\ pc[c] = "insert"
  /\ row' = IF row = None THEN candidate[c] ELSE row
  /\ Goto(c, "reread")
  /\ UNCHANGED <<candidate, result, restarts>>

\* Mutant: insert if absent, and start over.
InsertRetrying(c) ==
  /\ pc[c] = "insert"
  /\ row' = IF row = None THEN candidate[c] ELSE row
  /\ Goto(c, "read")
  /\ UNCHANGED <<candidate, result, restarts>>

\* INSERT ... ON CONFLICT(key) DO UPDATE ... WHERE value = ''.
InsertIfUnset(c) ==
  /\ pc[c] = "insert"
  /\ row' = IF row \in UUID THEN row ELSE candidate[c]
  /\ Goto(c, "reread")
  /\ UNCHANGED <<candidate, result, restarts>>

\* Mutant: the candidate is returned, not what was committed.
RereadReturningCandidate(c) ==
  /\ pc[c] = "reread"
  /\ result' = [result EXCEPT ![c] = candidate[c]]
  /\ Goto(c, "done")
  /\ UNCHANGED <<row, candidate, restarts>>

\* The second read returns what was committed, whoever committed it.
RereadCommitted(c) ==
  /\ pc[c] = "reread"
  /\ IF readAgentUUIDDB # None
       THEN /\ result' = [result EXCEPT ![c] = readAgentUUIDDB]
            /\ Goto(c, "done")
       ELSE /\ Goto(c, "failed")
            /\ UNCHANGED result
  /\ UNCHANGED <<row, candidate, restarts>>

\* A statement fails (I/O error, lock timeout, cancelled context) and the
\* error is returned.
StatementFails(c) ==
  /\ pc[c] \in {"read", "insert", "reread"}
  /\ Goto(c, "failed")
  /\ UNCHANGED <<row, candidate, result, restarts>>

\* The process is killed or exits, and is started again.
Restart(c) ==
  /\ restarts < MaxRestarts
  /\ restarts' = restarts + 1
  /\ pc' = [pc EXCEPT ![c] = "read"]
  /\ candidate' = [candidate EXCEPT ![c] = None]
  /\ result' = [result EXCEPT ![c] = None]
  /\ UNCHANGED row

EnsureAgentUUID(c) ==
  ReadExisting(c) \/ Create(c) \/ InsertIfUnset(c) \/ RereadCommitted(c)

Next ==
  \E c \in Callers : EnsureAgentUUID(c) \/ StatementFails(c) \/ Restart(c)

Spec == Init /\ [][Next]_vars

\* A caller that is neither killed nor out of luck with SQLite runs on.
FairSpec == Spec /\ \A c \in Callers : WF_vars(EnsureAgentUUID(c))

-----------------------------------------------------------------------------

TypeOK ==
  /\ row \in UUID \cup {None, EmptyRow}
  /\ pc \in [Callers -> Steps]
  /\ candidate \in [Callers -> UUID \cup {None}]
  /\ result \in [Callers -> UUID \cup {None}]
  /\ restarts \in 0..MaxRestarts

(***************************************************************************)
(* Processes that initialise the UUID at the same time end up with one     *)
(* identity: whatever EnsureAgentUUID returned to a process is what the    *)
(* row holds, so the daemon's X-Machine-ID and the UUID that enrollment    *)
(* and the loops read from the database are the same.                      *)
(***************************************************************************)
Agreement == \A c \in Callers : result[c] # None => result[c] = row

(***************************************************************************)
(* "agent UUID metadata was not committed" (sqlite.go:169) is unreachable: *)
(* after the insert the second read always finds a UUID, also when the row *)
(* existed with an empty value.                                            *)
(***************************************************************************)
InsertCommits == \A c \in Callers : pc[c] = "reread" => row \in UUID

\* A caller that is about to insert has a candidate to insert.
CandidateReady == \A c \in Callers : pc[c] = "insert" => candidate[c] \in UUID

\* The inductive invariant.  Agreement is not inductive alone: a value that
\* a caller returned stays in the row because inserts only write UUIDs, and
\* only when the row holds none.
IInv == TypeOK /\ Agreement /\ InsertCommits /\ CandidateReady

(***************************************************************************)
(* No caller ever replaces a UUID that was persisted.                      *)
(***************************************************************************)
WriteOnce == [][(row \in UUID) => row' = row]_vars

(***************************************************************************)
(* The detailed protocol implements the write-once register.               *)
(***************************************************************************)
Register == INSTANCE WriteOnceRegister WITH
              Values <- UUID, val <- readAgentUUIDDB, learned <- result

RefinesRegister == Register!Spec

(***************************************************************************)
(* A caller that starts either keeps failing or is told the UUID: no       *)
(* interleaving of other callers can hold it up.                           *)
(***************************************************************************)
CallerFinishes ==
  \A c \in Callers : pc[c] = "read" ~> pc[c] \in {"done", "failed"}
=============================================================================
