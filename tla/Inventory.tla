----------------------------- MODULE Inventory ------------------------------
(***************************************************************************)
(* One inventory export (CollectOnce with the backend sink): collect the   *)
(* snapshot, read the base URL, the JWT and the placement, upsert the node *)
(* and store the placement the backend resolved when it differs from the   *)
(* one that was read.  It runs in the daemon's loop and, once, at the end  *)
(* of fleetint enroll, in a process of its own.                            *)
(***************************************************************************)
EXTENDS AgentMetadata

\* Resolve[b][p]: the placement backend b gives a node that asks for p.
CONSTANT Resolve

\* What a backend resolved it does not resolve again to something else.
ASSUME ResolveSettles ==
  /\ Resolve \in [Backends -> [Placements -> Placements]]
  /\ \A b \in Backends, p \in Placements :
       Resolve[b][Resolve[b][p]] = Resolve[b][p]

VARIABLES
  inv,       \* inv[w]: the locals of the export that worker w runs
  assigned   \* assigned[b]: the placement backend b has for this node

Workers == {"loop", "cli"}

InventorySteps == {"idle", "jwt", "placement", "upsert", "store"}

\* ReadError stands for a placement that could not be read.
ReadError == <<"unread", "unread">>

InventoryTypeOK ==
  /\ inv \in [Workers -> [pc : InventorySteps,
                          base : OrNone(Backends),
                          jwt : OrNone(Backends),
                          read : Placements \cup {ReadError},
                          resolved : Placements]]
  /\ assigned \in [Backends -> Placements]

NoPlacement == <<None, None>>

IdleInventory == [pc |-> "idle", base |-> None, jwt |-> None,
                  read |-> NoPlacement, resolved |-> NoPlacement]

InventoryInit ==
  /\ inv = [w \in Workers |-> IdleInventory]
  /\ assigned = [b \in Backends |-> NoPlacement]

InventoryEnds(w) == inv' = [inv EXCEPT ![w] = IdleInventory]

-----------------------------------------------------------------------------

\* source.Collect, the hash and lastSnapshot; then the sink reads the base
\* URL, and the export ends when there is none.
CollectSnapshot(w) ==
  /\ inv[w].pc = "idle"
  /\ GetBackendBaseURL # None
  /\ inv' = [inv EXCEPT ![w].pc = "jwt", ![w].base = GetBackendBaseURL]
  /\ NoFault /\ UNCHANGED <<rows, assigned>>

\* The JWT, and then the agent UUID, which is always there.
ReadExportJWT(w) ==
  /\ inv[w].pc = "jwt"
  /\ IF token # None
       THEN inv' = [inv EXCEPT ![w].pc = "placement", ![w].jwt = token]
       ELSE InventoryEnds(w)
  /\ NoFault /\ UNCHANGED <<rows, assigned>>

\* Both fields in one statement.  An export continues without them, and
\* without the enrollment time, when they cannot be read.
ReadPlacement(w) ==
  /\ inv[w].pc = "placement"
  /\ \/ /\ inv' = [inv EXCEPT ![w].pc = "upsert", ![w].read = placement]
        /\ NoFault
     \/ /\ inv' = [inv EXCEPT ![w].pc = "upsert", ![w].read = ReadError]
        /\ Fault
  /\ UNCHANGED <<rows, assigned>>

\* The placement of the request: both fields are always sent, empty when
\* they are not set or could not be read.
RequestedPlacement(read) == IF read = ReadError THEN NoPlacement ELSE read

\* External: backend b assigns what it resolves the request to, which may be
\* what was asked for, something else or nothing, and answers with it.
Upserted(b, read) == Resolve[b][RequestedPlacement(read)]

UpsertNode(w) ==
  /\ inv[w].pc = "upsert"
  /\ IF MayAccept(inv[w].base, inv[w].jwt)
       THEN LET b == inv[w].base
                resolved == Upserted(b, inv[w].read)
            IN  /\ assigned' = [assigned EXCEPT ![b] = resolved]
                /\ IF inv[w].read \notin {ReadError, resolved}
                     THEN inv' = [inv EXCEPT ![w].pc = "store",
                                             ![w].resolved = resolved]
                     ELSE InventoryEnds(w)
       ELSE InventoryEnds(w) /\ UNCHANGED assigned
  /\ NoFault /\ UNCHANGED rows

\* Mutant: what the backend resolved is not stored.
IgnoreResolvedPlacement(w) ==
  /\ inv[w].pc = "store"
  /\ InventoryEnds(w)
  /\ NoFault /\ UNCHANGED <<rows, assigned>>

StoreResolvedPlacement(w) ==
  /\ inv[w].pc = "store"
  /\ SetNodePlacement(inv[w].resolved)
  /\ InventoryEnds(w)
  /\ NoFault /\ UNCHANGED assigned

\* A statement or the exchange fails, or its context ended.  A request the
\* backend took may still fail for the agent.
InventoryFails(w) ==
  /\ inv[w].pc # "idle"
  /\ InventoryEnds(w)
  /\ IF inv[w].pc = "upsert" /\ MayAccept(inv[w].base, inv[w].jwt)
       THEN assigned' \in {assigned,
              [assigned EXCEPT ![inv[w].base] = Upserted(inv[w].base, inv[w].read)]}
       ELSE UNCHANGED assigned
  /\ Fault /\ UNCHANGED rows

InventoryStep(w) ==
  \/ ReadExportJWT(w) \/ ReadPlacement(w) \/ UpsertNode(w)
  \/ StoreResolvedPlacement(w) \/ InventoryFails(w)
=============================================================================
