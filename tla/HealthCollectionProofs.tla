----------------------- MODULE HealthCollectionProofs -----------------------
(***************************************************************************)
(* OneReader, WaitPaysOff and CacheInOrder, for any number of collections, *)
(* refresh goroutines and changes of the machine.                          *)
(***************************************************************************)
EXTENDS HealthCollection, FiniteSetTheorems, TLAPS

\* A refresh goroutine before its deferred function clears the flag.
Active(s) == slot[s].pc \in {"reading", "storing", "ending"}

\* OneReader without a cardinality.
OneActive ==
  /\ \A s, t \in Slots : Active(s) /\ Active(t) => s = t
  /\ refreshing <=> \E s \in Slots : Active(s)

\* What is about to be stored was seen after what is stored.
InOrder ==
  /\ cached <= world
  /\ \A s \in Slots :
       slot[s].pc = "storing" => slot[s].value \in cached..world /\ slot[s].value # 0

\* As long as no refresh failed, the cache is filled before the channel is
\* closed, and whoever was woken finds it filled.
Filled ==
  failed \/ /\ initialDone > 0 => cached # 0
            /\ \A s \in Slots : slot[s].pc \in {"ending", "marking"} => cached # 0
            /\ \A c \in Collectors :
                 collect[c].notified =>
                   /\ cached # 0 /\ collect[c].pc # "idle"
                   /\ collect[c].pc \in {"refresh", "sections", "collected"}
                        => collect[c].info # 0

IInv == TypeOK /\ OneActive /\ InOrder /\ Filled

-----------------------------------------------------------------------------

\* New starts the first refresh and nothing else.
LEMMA InitInv == Init => IInv
<1> SUFFICES ASSUME Init PROVE IInv
  OBVIOUS
<1> USE Bounds DEF Init
<1>1. slot \in [Slots -> SlotRecords]
  BY DEF Free, SlotRecords
<1>2. collect \in [Collectors -> CollectRecords]
  BY DEF Idle, CollectRecords
<1>3. world \in 1..MaxWorld /\ cached \in 0..MaxWorld /\ initialDone \in 0..1
  OBVIOUS
<1> TypeOK
  BY <1>1, <1>2, <1>3, Zenon DEF TypeOK, HasProvider
<1>4. 1 \in Slots
  BY DEF Slots
<1>5. \A s \in Slots : slot[s].pc = IF s = 1 /\ HasProvider THEN "reading" ELSE "free"
  BY DEF Free
<1>6. OneActive
  BY <1>4, <1>5 DEF OneActive, Active
<1>7. InOrder
  BY <1>5 DEF InOrder
<1>8. Filled
  BY <1>5 DEF Filled, Idle
<1> QED
  BY <1>6, <1>7, <1>8 DEF IInv

\* A refresh goroutine goes on.
LEMMA SlotKeepsInv ==
  ASSUME IInv, NEW s \in Slots, SlotStep(s)
  PROVE  IInv' /\ cached' >= cached
<1> USE Bounds DEF IInv, TypeOK, SlotRecords, SlotGoto, Free, cacheVars
<1>1. CASE ReadSucceeds(s)
  <2> USE <1>1 DEF ReadSucceeds
  <2>1. TypeOK'
    OBVIOUS
  <2>2. OneActive'
    BY DEF OneActive, Active
  <2>3. InOrder'
    BY DEF InOrder
  <2>4. Filled'
    BY DEF Filled
  <2> QED
    BY <2>1, <2>2, <2>3, <2>4
<1>2. CASE ReadFails(s)
  <2> USE <1>2 DEF ReadFails
  <2>1. TypeOK'
    OBVIOUS
  <2>2. OneActive'
    BY DEF OneActive, Active
  <2>3. InOrder'
    BY DEF InOrder
  <2>4. Filled'
    BY DEF Filled
  <2> QED
    BY <2>1, <2>2, <2>3, <2>4
<1>3. CASE Stores(s)
  <2> USE <1>3 DEF Stores
  <2>1. TypeOK'
    OBVIOUS
  <2>2. OneActive'
    BY DEF OneActive, Active
  \* No other goroutine is about to store something older.
  <2>3. InOrder' /\ cached' >= cached /\ cached' # 0
    BY DEF InOrder, OneActive, Active
  <2>4. Filled'
    BY <2>3 DEF Filled
  <2> QED
    BY <2>1, <2>2, <2>3, <2>4
<1>4. CASE Ends(s)
  <2> USE <1>4 DEF Ends
  <2>1. TypeOK'
    OBVIOUS
  <2>2. OneActive'
    BY DEF OneActive, Active
  <2>3. InOrder'
    BY DEF InOrder
  <2>4. Filled'
    BY DEF Filled
  <2> QED
    BY <2>1, <2>2, <2>3, <2>4
<1>5. CASE Marks(s)
  <2> USE <1>5 DEF Marks
  <2>1. TypeOK'
    OBVIOUS
  <2>2. OneActive'
    BY DEF OneActive, Active
  <2>3. InOrder'
    BY DEF InOrder
  <2>4. Filled'
    BY DEF Filled
  <2> QED
    BY <2>1, <2>2, <2>3, <2>4
<1> QED
  BY <1>1, <1>2, <1>3, <1>4, <1>5 DEF SlotStep

\* A collection goes on: only RefreshAsync touches the goroutines.
LEMMA CollectKeepsInv ==
  ASSUME IInv, NEW c \in Collectors, CollectStep(c)
  PROVE  IInv' /\ cached' = cached
<1> DEFINE old == collect[c]
           woken(r) == r.notified =>
                         /\ cached # 0 /\ r.pc # "idle"
                         /\ r.pc \in {"refresh", "sections", "collected"} => r.info # 0
<1>1. ASSUME UNCHANGED <<include, world, cacheVars, failed>>,
             initialWaited' \in BOOLEAN, NEW r \in CollectRecords,
             collect' = [collect EXCEPT ![c] = r], failed \/ woken(r)
      PROVE  IInv' /\ cached' = cached
  <2>1. TypeOK'
    BY <1>1 DEF IInv, TypeOK, cacheVars
  <2>2. OneActive' /\ InOrder'
    BY <1>1 DEF IInv, OneActive, Active, InOrder, cacheVars
  <2>3. Filled'
    BY <1>1 DEF IInv, TypeOK, Filled, cacheVars
  <2> QED
    BY <1>1, <2>1, <2>2, <2>3 DEF IInv, cacheVars
<1>2. /\ collect \in [Collectors -> CollectRecords] /\ old \in CollectRecords
      /\ cached \in 0..MaxWorld /\ initialWaited \in BOOLEAN
      /\ initialDone \in 0..1 /\ include \subseteq Sections
  BY OnlySections DEF IInv, TypeOK
<1>3. failed \/ ((initialDone > 0 => cached # 0) /\ woken(old))
  BY DEF IInv, Filled
<1>4. CASE Begins(c)
  <2> DEFINE r == [old EXCEPT !.pc = IF HasProvider THEN "look" ELSE "sections"]
  <2>1. r \in CollectRecords /\ (failed \/ woken(r))
    BY <1>2, <1>3, <1>4 DEF CollectRecords, Begins
  <2> QED
    BY <1>1, <1>2, <1>4, <2>1 DEF Begins, CollectGoto
<1>5. CASE Looks(c)
  <2> DEFINE r == [old EXCEPT !.pc = IF cached # 0 THEN "read" ELSE "claim"]
  <2>1. r \in CollectRecords /\ (failed \/ woken(r))
    BY <1>2, <1>3 DEF CollectRecords
  <2> QED
    BY <1>1, <1>2, <1>5, <2>1 DEF Looks, CollectGoto
<1>6. CASE Claims(c)
  <2> DEFINE r == [old EXCEPT !.pc = IF initialWaited THEN "read" ELSE "wait"]
  <2>1. r \in CollectRecords /\ (failed \/ woken(r))
    BY <1>2, <1>3 DEF CollectRecords
  <2> QED
    BY <1>1, <1>2, <1>6, <2>1 DEF Claims, CollectGoto
<1>7. CASE Waits(c)
  <2>1. PICK n \in BOOLEAN :
          /\ n => initialDone > 0
          /\ collect' = [collect EXCEPT ![c].pc = "read", ![c].notified = n]
    BY <1>7 DEF Waits
  <2> DEFINE r == [old EXCEPT !.pc = "read", !.notified = n]
  <2>2. r \in CollectRecords /\ (failed \/ woken(r))
    BY <1>2, <1>3, <2>1 DEF CollectRecords
  <2> QED
    BY <1>1, <1>2, <1>7, <2>1, <2>2 DEF Waits
<1>8. CASE Reads(c)
  <2> DEFINE r == [old EXCEPT !.pc = "refresh", !.info = cached]
  <2>1. r \in CollectRecords /\ (failed \/ woken(r))
    BY <1>2, <1>3 DEF CollectRecords
  <2> QED
    BY <1>1, <1>2, <1>8, <2>1 DEF Reads
<1>9. CASE RefreshAsync(c)
  <2> USE <1>9 DEF RefreshAsync, CollectGoto, SlotGoto, IInv, TypeOK
  <2>1. collect' \in [Collectors -> CollectRecords]
    BY DEF CollectRecords
  <2>2. slot' \in [Slots -> SlotRecords]
    BY DEF SlotRecords
  <2>3. TypeOK'
    BY <2>1, <2>2
  <2>4. OneActive' /\ InOrder'
    <3>1. CASE refreshing \/ ~ShouldRefresh
      BY <3>1 DEF OneActive, Active, InOrder
    <3>2. CASE ~(refreshing \/ ~ShouldRefresh)
      BY <3>2 DEF OneActive, Active, InOrder, SlotRecords
    <3> QED
      BY <3>1, <3>2
  <2>5. Filled'
    BY DEF Filled, CollectRecords, SlotRecords
  <2> QED
    BY <2>3, <2>4, <2>5
<1>10. CASE Assembles(c)
  <2>1. PICK d \in SUBSET (include \ {"machineInfo"}) :
          collect' = [collect EXCEPT
                        ![c].pc = "collected",
                        ![c].data = d \cup {m \in include \cap {"machineInfo"} :
                                              collect[c].info # 0}]
    BY <1>10 DEF Assembles
  <2> DEFINE data == d \cup {m \in include \cap {"machineInfo"} : old.info # 0}
             r == [old EXCEPT !.pc = "collected", !.data = data]
  <2>2. data \in SUBSET Sections
    BY <1>2
  <2>3. r \in CollectRecords /\ (failed \/ woken(r))
    <3> HIDE DEF data
    <3> QED
      BY <1>2, <1>3, <1>10, <2>2 DEF CollectRecords, Assembles
  <2> QED
    BY <1>1, <1>2, <1>10, <2>1, <2>3 DEF Assembles
<1>11. CASE Returns(c)
  <2>1. Idle \in CollectRecords /\ woken(Idle)
    BY Bounds DEF CollectRecords, Idle
  <2> QED
    BY <1>1, <1>2, <1>11, <2>1 DEF Returns
<1> QED
  BY <1>4, <1>5, <1>6, <1>7, <1>8, <1>9, <1>10, <1>11 DEF CollectStep

\* No step of anybody breaks the invariant or sets the cache back.
LEMMA NextKeepsInv == IInv /\ [Next]_vars => IInv' /\ cached' >= cached
<1> SUFFICES ASSUME IInv, [Next]_vars PROVE IInv' /\ cached' >= cached
  OBVIOUS
<1> USE Bounds DEF IInv, TypeOK
<1>1. ASSUME NEW s \in Slots, SlotStep(s) PROVE IInv' /\ cached' >= cached
  BY <1>1, SlotKeepsInv
<1>2. ASSUME NEW c \in Collectors, CollectStep(c) PROVE IInv' /\ cached' >= cached
  BY <1>2, CollectKeepsInv
<1>3. CASE MachineChanges
  BY <1>3 DEF MachineChanges, cacheVars, OneActive, Active, InOrder, Filled
<1>4. CASE CacheAges
  BY <1>4 DEF CacheAges, OneActive, Active, InOrder, Filled
<1>5. CASE UNCHANGED vars
  BY <1>5 DEF vars, cacheVars, OneActive, Active, InOrder, Filled
<1> QED
  BY <1>1, <1>2, <1>3, <1>4, <1>5 DEF Next

\* The flag, the cache and the channel stay together (the provider's mutex is
\* held by neither side from one step to the next).
THEOREM Invariance == Spec => []IInv
  BY InitInv, NextKeepsInv, PTL DEF Spec

-----------------------------------------------------------------------------

(***************************************************************************)
(* One goroutine inspects the machine at a time, however many collections  *)
(* find the cache stale.                                                   *)
(***************************************************************************)
THEOREM OneReaderHolds == Spec => []OneReader
<1>1. IInv => OneReader
  <2> SUFFICES ASSUME IInv PROVE OneReader
    OBVIOUS
  <2> DEFINE A == {s \in Slots : slot[s].pc \in {"reading", "storing", "ending"}}
  <2>1. A = {} \/ \E s \in A : A = {s}
    BY DEF IInv, OneActive, Active
  <2>2. Cardinality(A) <= 1
    <3> HIDE DEF A
    <3> QED
      BY <2>1, FS_EmptySet, FS_Singleton
  <2> QED
    BY <2>2 DEF IInv, OneActive, Active, OneReader
<1> QED
  BY <1>1, Invariance, PTL

(***************************************************************************)
(* A collection that the first refresh woke exports its result.            *)
(***************************************************************************)
THEOREM WaitPaysOffHolds == Spec => []WaitPaysOff
<1>1. IInv => WaitPaysOff
  BY DEF IInv, Filled, WaitPaysOff
<1> QED
  BY <1>1, Invariance, PTL

(***************************************************************************)
(* A refresh never replaces what a later one stored.                       *)
(***************************************************************************)
THEOREM CacheInOrderHolds == Spec => CacheInOrder
<1>1. IInv /\ [Next]_vars => [cached' >= cached]_vars
  BY NextKeepsInv
<1> QED
  BY <1>1, Invariance, PTL DEF Spec, CacheInOrder
=============================================================================
