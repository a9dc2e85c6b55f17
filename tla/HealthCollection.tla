-------------------------- MODULE HealthCollection --------------------------
(***************************************************************************)
(* What an export collects, and the cache of machine information beside    *)
(* it (exporter/collector).  The machine is inspected by a goroutine of    *)
(* its own, which takes long and may fail; collections never wait for it,  *)
(* except that the first one waits a limited time for the first result.    *)
(* A collection that finds the cache stale exports it once more and starts *)
(* the next refresh.                                                       *)
(***************************************************************************)
EXTENDS Naturals, FiniteSets

CONSTANTS
  Collectors,     \* who calls Collect: the ticker, ExportNow
  MaxSlots,       \* bound on the refresh goroutines that exist at a time
  Configurations, \* the sets of sections that can be enabled
  MaxWorld        \* bound on the changes of the machine

ASSUME Bounds == MaxWorld \in Nat \ {0} /\ MaxSlots \in Nat \ {0}

VARIABLES
  include,        \* the sections the configuration enables
  world,          \* the state of the machine, by number
  cached,         \* the state it had when the cache was filled; 0: nil
  stale,          \* whether lastUpdate is older than staleAfter
  refreshing,     \* the flag
  slot,           \* slot[s]: a refresh goroutine and what it read
  initialWaited,  \* the flag
  initialDone,    \* how often initialRefreshDone was closed
  collect,        \* collect[c]: a collection under way
  failed          \* whether a refresh failed (history)

cacheVars == <<cached, stale, refreshing, slot, initialDone>>

vars == <<include, world, cacheVars, initialWaited, collect, failed>>

Sections == {"machineInfo", "metrics", "events", "componentData"}

ASSUME OnlySections == Configurations \subseteq SUBSET Sections

Slots == 1..MaxSlots

Free == [pc |-> "free", value |-> 0]

Idle == [pc |-> "idle", info |-> 0, notified |-> FALSE, data |-> {}]

SlotRecords ==
  [pc : {"free", "reading", "storing", "ending", "marking"}, value : 0..MaxWorld]

CollectRecords ==
  [pc : {"idle", "look", "claim", "wait", "read", "refresh", "sections", "collected"},
   info : 0..MaxWorld, notified : BOOLEAN, data : SUBSET Sections]

TypeOK ==
  /\ include \in Configurations
  /\ world \in 1..MaxWorld /\ cached \in 0..MaxWorld
  /\ stale \in BOOLEAN /\ refreshing \in BOOLEAN /\ initialWaited \in BOOLEAN
  /\ slot \in [Slots -> SlotRecords]
  /\ initialDone \in 0..1
  /\ collect \in [Collectors -> CollectRecords]
  /\ failed \in BOOLEAN

\* New: a provider only if some section needs it; its first refresh runs.
HasProvider == include # {}

Init ==
  /\ include \in Configurations
  /\ world = 1 /\ cached = 0 /\ stale = FALSE
  /\ refreshing = HasProvider
  /\ slot = [s \in Slots |-> IF s = 1 /\ HasProvider
                                THEN [Free EXCEPT !.pc = "reading"] ELSE Free]
  /\ initialWaited = FALSE /\ initialDone = 0
  /\ collect = [c \in Collectors |-> Idle]
  /\ failed = FALSE

-----------------------------------------------------------------------------
(* The refresh goroutine *)

SlotGoto(s, step) == slot' = [slot EXCEPT ![s].pc = step]

\* Mutant: the waiters are woken as soon as the machine was inspected.
ReadMarks(s) ==
  /\ slot[s].pc = "reading"
  /\ slot' = [slot EXCEPT ![s] = [pc |-> "storing", value |-> world]]
  /\ initialDone' = 1
  /\ UNCHANGED <<include, world, cached, stale, refreshing, initialWaited, collect,
                 failed>>

\* getMachineInfo returns what it saw, or an error.
ReadSucceeds(s) ==
  /\ slot[s].pc = "reading"
  /\ slot' = [slot EXCEPT ![s] = [pc |-> "storing", value |-> world]]
  /\ UNCHANGED <<include, world, cached, stale, refreshing, initialWaited,
                 initialDone, collect, failed>>

ReadFails(s) ==
  /\ slot[s].pc = "reading"
  /\ SlotGoto(s, "ending")
  /\ failed' = TRUE
  /\ UNCHANGED <<include, world, cached, stale, refreshing, initialWaited,
                 initialDone, collect>>

\* Mutant: the goroutine that failed leaves the flag set.
EndsOnSuccess(s) ==
  /\ slot[s].pc = "ending"
  /\ refreshing' = (refreshing /\ slot[s].value = 0)
  /\ SlotGoto(s, "marking")
  /\ UNCHANGED <<include, world, cached, stale, initialWaited, initialDone, collect,
                 failed>>

Stores(s) ==
  /\ slot[s].pc = "storing"
  /\ cached' = slot[s].value /\ stale' = FALSE
  /\ SlotGoto(s, "ending")
  /\ UNCHANGED <<include, world, refreshing, initialWaited, initialDone, collect,
                 failed>>

\* The deferred function: the flag first, then the channel.
Ends(s) ==
  /\ slot[s].pc = "ending"
  /\ refreshing' = FALSE
  /\ SlotGoto(s, "marking")
  /\ UNCHANGED <<include, world, cached, stale, initialWaited, initialDone, collect,
                 failed>>

\* markInitialRefreshDone closes the channel once.
Marks(s) ==
  /\ slot[s].pc = "marking"
  /\ initialDone' = 1
  /\ slot' = [slot EXCEPT ![s] = Free]
  /\ UNCHANGED <<include, world, cached, stale, refreshing, initialWaited, collect,
                 failed>>

-----------------------------------------------------------------------------
(* Collect *)

CollectGoto(c, step) == collect' = [collect EXCEPT ![c].pc = step]

Begins(c) ==
  /\ collect[c].pc = "idle"
  /\ CollectGoto(c, IF HasProvider THEN "look" ELSE "sections")
  /\ UNCHANGED <<include, world, cacheVars, initialWaited, failed>>

\* The first Get.
Looks(c) ==
  /\ collect[c].pc = "look"
  /\ CollectGoto(c, IF cached # 0 THEN "read" ELSE "claim")
  /\ UNCHANGED <<include, world, cacheVars, initialWaited, failed>>

\* WaitForInitialRefresh: the first caller waits, later ones go on.
Claims(c) ==
  /\ collect[c].pc = "claim"
  /\ IF initialWaited
       THEN CollectGoto(c, "read") /\ UNCHANGED initialWaited
       ELSE /\ CollectGoto(c, "wait")
            /\ initialWaited' = TRUE
  /\ UNCHANGED <<include, world, cacheVars, failed>>

\* select: the channel is closed, or the timer or the context is first.
Waits(c) ==
  /\ collect[c].pc = "wait"
  /\ \E notified \in BOOLEAN :
       /\ notified => initialDone > 0
       /\ collect' = [collect EXCEPT ![c].pc = "read", ![c].notified = notified]
  /\ UNCHANGED <<include, world, cacheVars, initialWaited, failed>>

\* The second Get: what will be exported.
Reads(c) ==
  /\ collect[c].pc = "read"
  /\ collect' = [collect EXCEPT ![c].pc = "refresh", ![c].info = cached]
  /\ UNCHANGED <<include, world, cacheVars, initialWaited, failed>>

ShouldRefresh == cached = 0 \/ stale

\* Mutant: the flag is not looked at.
RefreshAnyway(c) ==
  /\ collect[c].pc = "refresh"
  /\ CollectGoto(c, "sections")
  /\ IF ~ShouldRefresh
       THEN UNCHANGED <<refreshing, slot>>
       ELSE /\ refreshing' = TRUE
            /\ \E s \in Slots : slot[s].pc = "free" /\ SlotGoto(s, "reading")
  /\ UNCHANGED <<include, world, cached, stale, initialWaited, initialDone, failed>>

\* RefreshAsync: a goroutine is started if none is at work and the cache is
\* empty or old.
RefreshAsync(c) ==
  /\ collect[c].pc = "refresh"
  /\ CollectGoto(c, "sections")
  /\ IF refreshing \/ ~ShouldRefresh
       THEN UNCHANGED <<refreshing, slot>>
       ELSE /\ refreshing' = TRUE
            /\ \E s \in Slots :
                 /\ slot[s].pc = "free" /\ \A t \in 1..(s - 1) : slot[t].pc # "free"
                 /\ SlotGoto(s, "reading")
  /\ UNCHANGED <<include, world, cached, stale, initialWaited, initialDone, failed>>

\* The enabled sections, each of which may fail without the others; machine
\* information that is not enabled served the catalog of entities only.
Assembles(c) ==
  /\ collect[c].pc = "sections"
  /\ \E data \in SUBSET (include \ {"machineInfo"}) :
       collect' = [collect EXCEPT
                     ![c].pc = "collected",
                     ![c].data = data \cup {m \in include \cap {"machineInfo"} :
                                              collect[c].info # 0}]
  /\ UNCHANGED <<include, world, cacheVars, initialWaited, failed>>

\* The data goes to the writers.
Returns(c) ==
  /\ collect[c].pc = "collected"
  /\ collect' = [collect EXCEPT ![c] = Idle]
  /\ UNCHANGED <<include, world, cacheVars, initialWaited, failed>>

-----------------------------------------------------------------------------

MachineChanges ==
  /\ world < MaxWorld
  /\ world' = world + 1
  /\ UNCHANGED <<include, cacheVars, initialWaited, collect, failed>>

\* staleAfter goes by.
CacheAges ==
  /\ cached # 0 /\ ~stale
  /\ stale' = TRUE
  /\ UNCHANGED <<include, world, cached, refreshing, slot, initialWaited,
                 initialDone, collect, failed>>

SlotStep(s) == ReadSucceeds(s) \/ ReadFails(s) \/ Stores(s) \/ Ends(s) \/ Marks(s)

CollectStep(c) ==
  \/ Begins(c) \/ Looks(c) \/ Claims(c) \/ Waits(c) \/ Reads(c)
  \/ RefreshAsync(c) \/ Assembles(c) \/ Returns(c)

Next ==
  \/ \E s \in Slots : SlotStep(s)
  \/ \E c \in Collectors : CollectStep(c)
  \/ MachineChanges \/ CacheAges

Spec == Init /\ [][Next]_vars

\* Goroutines are scheduled, the ticker ticks, time goes by, and inspecting
\* the machine does not fail for ever.
FairSpec ==
  /\ Spec
  /\ \A s \in Slots : WF_vars(SlotStep(s)) /\ SF_vars(ReadSucceeds(s))
  /\ \A c \in Collectors : WF_vars(CollectStep(c))
  /\ WF_vars(CacheAges)

-----------------------------------------------------------------------------

(***************************************************************************)
(* The machine is inspected by one goroutine at a time, however many       *)
(* collections find the cache stale: refreshing is set before the          *)
(* goroutine starts and cleared on both of its ends.                       *)
(***************************************************************************)
OneReader ==
  /\ Cardinality({s \in Slots : slot[s].pc \in {"reading", "storing", "ending"}}) <= 1
  /\ refreshing <=> \E s \in Slots : slot[s].pc \in {"reading", "storing", "ending"}

(***************************************************************************)
(* A collection that was woken by the first refresh exports its result:    *)
(* the cache is filled before the channel is closed.                       *)
(***************************************************************************)
WaitPaysOff ==
  \A c \in Collectors :
    collect[c].pc \in {"refresh", "sections", "collected"} /\ collect[c].notified /\ ~failed
      => collect[c].info # 0

(***************************************************************************)
(* The cache never goes back to an earlier state of the machine.           *)
(***************************************************************************)
CacheInOrder == [][cached' >= cached]_vars

(***************************************************************************)
(* A change of the machine reaches the cache, although refreshes fail,     *)
(* collections overlap and nobody waits for anybody: no path leaves        *)
(* refreshing set.                                                         *)
(***************************************************************************)
Renewed ==
  \A v \in 1..MaxWorld : HasProvider /\ world >= v ~> cached >= v
=============================================================================
