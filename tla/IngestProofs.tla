---------------------------- MODULE IngestProofs ----------------------------
(***************************************************************************)
(* IngestProcessor, the batches beside it and clearAll against both: what  *)
(* is stored, what is answered, and what is left to be found.              *)
(***************************************************************************)
EXTENDS RawBatches, LeaseProofs, FiniteSetTheorems

----------------------------------------------------------------------------
(* The queue.                                                              *)

\* A job about to be marked has its uid stored, unless clearAll has deleted both.
MarkedStored ==
    /\ \A w \in Worker : \A c \in current[w] :
         stage[w] \in {"mark", "markDuplicate"} =>
           Uid[c.job] \in raw \/ status[c.job] = "DELETED"
    /\ \A j \in Job : status[j] = "DONE" => Uid[j] \in raw

\* A uid without a row has no writer, one with a row has one.
WrittenOnce ==
    \A u \in Uids : IF u \in raw THEN \E i \in DOMAIN Uid : writers[u] = {i} ELSE writers[u] = {}

\* Until something fails only what the table refuses reaches the catch block.
RefusedOnly ==
    faults = 0 =>
        /\ \A w \in Worker : \A c \in current[w] : stage[w] = "caught" => c.job \notin Storable
        /\ \A j \in Job : status[j] = "DEAD" => j \notin Storable

----------------------------------------------------------------------------
(* The batches.                                                            *)

\* The items the request has dealt with, and the rows of its own among them.
Dealt(p) == IF at[p] = "answered" THEN Items[p] ELSE Items[p] \ left[p]
Own(p) == inserted \cap Dealt(p)

Counts(p) ==
    /\ left[p] \subseteq Items[p]
    /\ at[p] = "createMany" =>
         /\ left[p] = Items[p] /\ inserted \cap Items[p] = {}
         /\ answer[p].failed = {}
    /\ at[p] # "gone" => answer[p].accepted <= Cardinality(Own(p))
    /\ faults = 0 =>
         /\ answer[p].accepted = Cardinality(Own(p))
         /\ answer[p].failed = Dealt(p) \ Storable
         /\ at[p] # "answered" => inserted \cap left[p] = {}
         /\ at[p] = "record" => \A i \in left[p] : (\A k \in left[p] : i <= k) => i \notin Storable

\* Dealt with, and neither stored nor on record.
Traced(i) == Uid[i] \in raw \/ i \in recorded
Traceless(p) == {i \in Dealt(p) : ~Traced(i)}

Traces ==
    /\ clearing.open => clears > 0
    /\ clears = 0 => \A p \in Post : Cardinality(Traceless(p)) <= faults

BatchInv == \A p \in Post : Counts(p)

----------------------------------------------------------------------------
(* Each await of process() is one step of the lease protocol, and so are   *)
(* the API's inserts and clearAll's deletes.                               *)
LEMMA UidType ==
    ASSUME NEW i \in DOMAIN Uid
    PROVE  Uid[i] \in Uids
  BY DEF Uids, Range

LEMMA IngestKeepsLeases ==
    ASSUME TypeOK, BatchNext
    PROVE  LeaseStep
<1> USE DEF Inside, Beside, queueVars
<1>1. ASSUME NEW w \in Worker, Progress(w)
      PROVE  WorkerStep(w)
  <2>1. CASE Claims(w) \/ Ends(w)
    BY <2>1 DEF Claims, Ends, WorkerStep
  <2>2. CASE Begins(w)
    BY <2>2 DEF Begins, TakesJob, WorkerStep
  <2>3. CASE Persists(w) \/ MeetsDuplicate(w) \/ IsRefused(w)
    BY <2>3 DEF Persists, MeetsDuplicate, IsRefused, At, Works, WorkerStep
  <2>4. CASE MarksDone(w)
    BY <2>4 DEF MarksDone, Updates, WorkerStep
  <2>5. CASE Settles(w)
    BY <2>5 DEF Settles, SettleFailure, Updates, WorkerStep
  <2> QED
    BY <1>1, <2>1, <2>2, <2>3, <2>4, <2>5 DEF Progress
<1>2. ASSUME NEW w \in Worker, Fault(w)
      PROVE  WorkerStep(w)
  <2>1. CASE StatementFails(w) \/ PersistUnacknowledged(w)
    BY <2>1 DEF StatementFails, PersistUnacknowledged, At, Works, WorkerStep
  <2>2. CASE MarkUnacknowledged(w)
    BY <2>2 DEF MarkUnacknowledged, At, Updates, UpdateLost, WorkerStep
  <2>3. CASE CatchFails(w) \/ Crashes(w)
    BY <2>3 DEF CatchFails, Crashes, WorkerCrashes, WorkerStep
  <2>4. CASE CatchUnacknowledged(w)
    BY <2>4 DEF CatchUnacknowledged, SettleFailure, Updates, WorkerStep
  <2> QED
    BY <1>2, <2>1, <2>2, <2>3, <2>4 DEF Fault
<1>3. ASSUME NEW j \in Job, Passes(j) \/ Expires(j)
      PROVE  TimeStep(j)
  BY <1>3 DEF Passes, Expires, Clock, TimeStep
<1>4. ASSUME NEW j \in Job, Enqueue(j)
      PROVE  RowStep
  BY <1>4 DEF Enqueue, SetStatus, RowStep, TypeOK, LeaseTypeOK, Status
<1>5. CASE DeleteQueueAndCommit
  <2>1. status \in [Job -> Status]
    BY DEF TypeOK, LeaseTypeOK
  <2>2. status' \in [Job -> Status]
    BY <1>5, <2>1 DEF DeleteQueueAndCommit, Status
  <2>3. \A j \in Job : status'[j] \in {status[j], "DELETED"}
    BY <1>5 DEF DeleteQueueAndCommit
  <2>4. UNCHANGED <<attempts, due, expired, workerVars, faults>>
    BY <1>5 DEF DeleteQueueAndCommit
  <2> QED
    BY <2>2, <2>3, <2>4 DEF RowStep, LeaseStep
<1>6. CASE DeleteRaw
  BY <1>6 DEF DeleteRaw, Elsewhere, LeaseStep
<1>7. ASSUME NEW p \in Post, Handling(p)
      PROVE  Elsewhere
  BY <1>7
     DEF Handling, StoresAll, RefusesAll, CreateManyFails, CreateManyUnacknowledged, CreateFails,
         ApiDies, StoresItem, MeetsStored, RefusesItem, recordFromError, CreateUnacknowledged,
         RecordFails, Reported, Elsewhere
<1> QED
  BY <1>1, <1>2, <1>3, <1>4, <1>5, <1>6, <1>7 DEF BatchNext, Clears, LeaseStep

----------------------------------------------------------------------------
(* Types.                                                                  *)

LEMMA ItemType ==
    /\ Item \subseteq DOMAIN Uid
    /\ \A p \in Post : /\ Items[p] \subseteq Item /\ Items[p] \subseteq Nat
                       /\ IsFiniteSet(Items[p])
                       /\ Items[p] \cap Job = {}
  BY BatchAssumption DEF Item, Range

LEMMA FreshType ==
    ASSUME NEW p \in Post
    PROVE  /\ Fresh(p) \subseteq Items[p] /\ IsFiniteSet(Fresh(p))
           /\ Cardinality(Fresh(p)) \in Nat /\ Cardinality(Items[p] \ Fresh(p)) \in Nat
<1>1. Fresh(p) \in SUBSET Items[p] /\ Items[p] \ Fresh(p) \in SUBSET Items[p]
  BY DEF Fresh
<1>2. IsFiniteSet(Fresh(p)) /\ IsFiniteSet(Items[p] \ Fresh(p))
  BY <1>1, ItemType, FS_Subset
<1> QED
  BY <1>1, <1>2, FS_CardinalityType

LEMMA StoreType ==
    ASSUME BatchTypeOK, NEW S \in SUBSET Item, Store(S)
    PROVE  raw' \subseteq Uids /\ writers' \in [Uids -> SUBSET DOMAIN Uid] /\ inserted' \subseteq Item
  BY UidType, ItemType DEF BatchTypeOK, TypeOK, Store

LEMMA QueueTypeStep ==
    ASSUME BatchTypeOK, NEW w \in Worker, Progress(w) \/ Fault(w)
    PROVE  /\ stage' \in [Worker -> {"idle", "next", "persist", "mark", "markDuplicate", "caught"}]
           /\ raw' \subseteq Uids
           /\ writers' \in [Uids -> SUBSET DOMAIN Uid]
           /\ UNCHANGED clearVars
<1> USE DEF BatchTypeOK, TypeOK, LeaseTypeOK, Goto, rawVars, clearVars
<1>1. CASE Claims(w) \/ Ends(w) \/ Begins(w)
  BY <1>1 DEF Claims, Ends, Begins, ClaimBatch, EndTick, BeginJob
<1>2. CASE Persists(w) \/ PersistUnacknowledged(w)
  <2>1. PICK c \in current[w] : Inserted(c.job)
    BY <1>2 DEF Persists, PersistUnacknowledged
  <2>2. c.job \in DOMAIN Uid /\ Uid[c.job] \in Uids
    BY UidType, IngestAssumption DEF Claim
  <2>3. raw' \subseteq Uids /\ writers' \in [Uids -> SUBSET DOMAIN Uid]
    BY <2>1, <2>2 DEF Inserted
  <2> QED
    BY <1>2, <2>3 DEF Persists, PersistUnacknowledged
<1>3. CASE MeetsDuplicate(w) \/ IsRefused(w) \/ MarksDone(w) \/ Settles(w)
  BY <1>3 DEF MeetsDuplicate, IsRefused, MarksDone, Settles, EndJob
<1>4. CASE StatementFails(w) \/ MarkUnacknowledged(w)
  BY <1>4 DEF StatementFails, MarkUnacknowledged
<1>5. CASE CatchFails(w) \/ CatchUnacknowledged(w) \/ Crashes(w)
  BY <1>5 DEF CatchFails, CatchUnacknowledged, Crashes, WorkerCrashes, AbandonTick
<1> QED
  BY <1>1, <1>2, <1>3, <1>4, <1>5 DEF Progress, Fault

LEMMA HandlingTypeStep ==
    ASSUME BatchTypeOK, NEW p \in Post, Handling(p)
    PROVE  /\ raw' \subseteq Uids
           /\ writers' \in [Uids -> SUBSET DOMAIN Uid]
           /\ at' \in [Post -> {"createMany", "create", "record", "answered", "gone"}]
           /\ left' \in [Post -> SUBSET Item]
           /\ answer' \in [Post -> [accepted : Nat, duplicates : Nat, failed : SUBSET Item]]
           /\ inserted' \subseteq Item
           /\ recorded' \subseteq Item
           /\ UNCHANGED queueVars
<1>0. /\ raw \subseteq Uids /\ writers \in [Uids -> SUBSET DOMAIN Uid]
      /\ at \in [Post -> {"createMany", "create", "record", "answered", "gone"}]
      /\ left \in [Post -> SUBSET Item]
      /\ answer \in [Post -> [accepted : Nat, duplicates : Nat, failed : SUBSET Item]]
      /\ inserted \subseteq Item /\ recorded \subseteq Item
  BY DEF BatchTypeOK, TypeOK
<1>1. CASE StoresAll(p) \/ CreateManyUnacknowledged(p)
  <2>1. Fresh(p) \in SUBSET Item /\ Store(Fresh(p))
    BY <1>1, FreshType, ItemType DEF StoresAll, CreateManyUnacknowledged
  <2>2. answer' \in [Post -> [accepted : Nat, duplicates : Nat, failed : SUBSET Item]]
    BY <1>0, <1>1, FreshType DEF StoresAll, CreateManyUnacknowledged
  <2> QED
    BY <1>0, <1>1, <2>1, <2>2, StoreType DEF StoresAll, CreateManyUnacknowledged
<1>2. CASE RefusesAll(p) \/ CreateManyFails(p) \/ CreateFails(p) \/ ApiDies(p)
  BY <1>0, <1>2 DEF RefusesAll, CreateManyFails, CreateFails, ApiDies, rawVars
<1>3. ASSUME NEW i \in Items[p], StoresItem(p, i) \/ CreateUnacknowledged(p, i)
      PROVE  raw' \subseteq Uids /\ writers' \in [Uids -> SUBSET DOMAIN Uid] /\ inserted' \subseteq Item
  <2>1. {i} \in SUBSET Item /\ Store({i})
    BY <1>3, ItemType DEF StoresItem, CreateUnacknowledged
  <2> QED
    BY <2>1, StoreType
<1>4. ASSUME NEW i \in Items[p], \/ StoresItem(p, i) \/ MeetsStored(p, i) \/ RefusesItem(p, i)
                                 \/ recordFromError(p, i) \/ CreateUnacknowledged(p, i)
                                 \/ RecordFails(p, i)
      PROVE  /\ at' \in [Post -> {"createMany", "create", "record", "answered", "gone"}]
             /\ left' \in [Post -> SUBSET Item]
             /\ answer' \in [Post -> [accepted : Nat, duplicates : Nat, failed : SUBSET Item]]
             /\ recorded' \subseteq Item
             /\ UNCHANGED queueVars
  <2>1. i \in Item
    BY ItemType
  <2>2. CASE StoresItem(p, i)
    BY <1>0, <2>2 DEF StoresItem, Past
  <2>3. CASE MeetsStored(p, i)
    BY <1>0, <2>3 DEF MeetsStored, Past
  <2>4. CASE RefusesItem(p, i) \/ CreateUnacknowledged(p, i)
    BY <1>0, <2>4 DEF RefusesItem, CreateUnacknowledged
  <2>5. CASE recordFromError(p, i) \/ RecordFails(p, i)
    <3>1. Reported(p, i) /\ recorded' \in {recorded, recorded \cup {i}}
      BY <2>5 DEF recordFromError, RecordFails
    <3>2. answer' \in [Post -> [accepted : Nat, duplicates : Nat, failed : SUBSET Item]]
      BY <1>0, <2>1, <3>1 DEF Reported
    <3>3. /\ at' \in [Post -> {"createMany", "create", "record", "answered", "gone"}]
          /\ left' \in [Post -> SUBSET Item]
      BY <1>0, <3>1 DEF Reported, Past
    <3>4. UNCHANGED queueVars
      BY <3>1 DEF Reported
    <3> QED
      BY <1>0, <2>1, <3>1, <3>2, <3>3, <3>4
  <2> QED
    BY <1>4, <2>2, <2>3, <2>4, <2>5
<1>5. ASSUME NEW i \in Items[p], \/ MeetsStored(p, i) \/ RefusesItem(p, i)
                                 \/ recordFromError(p, i) \/ RecordFails(p, i)
      PROVE  UNCHANGED <<raw, writers, inserted>>
  BY <1>5 DEF MeetsStored, RefusesItem, recordFromError, RecordFails, Reported, rawVars
<1> QED
  BY <1>0, <1>1, <1>2, <1>3, <1>4, <1>5 DEF Handling

LEMMA BatchTypeStep ==
    ASSUME BatchTypeOK, BatchNext
    PROVE  BatchTypeOK'
<1> USE DEF Beside
<1>1. LeaseType
  BY DEF BatchTypeOK, TypeOK, LeaseType, Stages, Inside
<1>2. LeaseTypeOK'
  BY <1>1, IngestKeepsLeases, LeaseTypeStep DEF LeaseType, BatchTypeOK
<1>3. ASSUME NEW w \in Worker, Progress(w) \/ Fault(w), UNCHANGED postVars
      PROVE  BatchTypeOK'
  BY <1>2, <1>3, QueueTypeStep DEF BatchTypeOK, TypeOK, clearVars, postVars
<1>4. ASSUME NEW j \in Job, Enqueue(j) \/ Passes(j) \/ Expires(j), UNCHANGED postVars
      PROVE  BatchTypeOK'
  BY <1>2, <1>4
     DEF BatchTypeOK, TypeOK, postVars, Enqueue, Passes, Expires, Clock, ComesDue, OrphanExpires,
         LeaseExpires, workerVars, rawVars, clearVars
<1>5. CASE Clears /\ UNCHANGED postVars
  <2>1. UNCHANGED stage
    BY <1>5 DEF Clears, DeleteRaw, DeleteQueueAndCommit, workerVars
  <2>2. raw' \subseteq Uids /\ writers' \in [Uids -> SUBSET DOMAIN Uid]
    BY <1>5 DEF BatchTypeOK, TypeOK, Clears, DeleteRaw, DeleteQueueAndCommit, rawVars
  <2>3. clearing' \in [uids : SUBSET Uids, open : BOOLEAN] /\ clears' \in 0..MaxClears
    <3>1. clearing' \in [uids : SUBSET Uids, open : BOOLEAN]
      <4>1. [uids |-> raw, open |-> TRUE] \in [uids : SUBSET Uids, open : BOOLEAN]
        BY DEF BatchTypeOK, TypeOK
      <4>2. NotClearing \in [uids : SUBSET Uids, open : BOOLEAN]
        BY DEF NotClearing
      <4> QED
        BY <1>5, <4>1, <4>2 DEF Clears, DeleteRaw, DeleteQueueAndCommit
    <3>2. clears' \in 0..MaxClears
      <4>1. clears' = clears \/ (clears < MaxClears /\ clears' = clears + 1)
        BY <1>5 DEF Clears, DeleteRaw, DeleteQueueAndCommit
      <4>2. MaxClears \in Nat /\ clears \in 0..MaxClears
        BY IngestAssumption DEF BatchTypeOK, TypeOK
      <4> QED
        BY <4>1, <4>2
    <3> QED
      BY <3>1, <3>2
  <2> QED
    BY <1>2, <1>5, <2>1, <2>2, <2>3 DEF BatchTypeOK, TypeOK, postVars
<1>6. ASSUME NEW p \in Post, Handling(p)
      PROVE  BatchTypeOK'
  BY <1>2, <1>6, HandlingTypeStep DEF BatchTypeOK, TypeOK, queueVars, workerVars, clearVars
<1> QED
  BY <1>3, <1>4, <1>5, <1>6 DEF BatchNext

LEMMA IngestLeaseType == BatchTypeOK => LeaseType
  BY DEF BatchTypeOK, TypeOK, LeaseType, Stages, Inside

LEMMA IngestLeases ==
    ASSUME BatchTypeOK, BatchNext
    PROVE  LeaseType /\ LeaseStep
  BY IngestLeaseType, IngestKeepsLeases DEF BatchTypeOK

----------------------------------------------------------------------------
(* Who writes raw_transactions: workers and batches insert uids that have  *)
(* no row, clearAll deletes.                                               *)

Stores(S) ==
    /\ raw' = raw \cup {Uid[i] : i \in S}
    /\ writers' = [u \in Uids |-> writers[u] \cup {i \in S : Uid[i] = u}]
    /\ \A i \in S : Uid[i] \notin raw
    /\ \A i, k \in S : Uid[i] = Uid[k] => i = k

LEMMA InsertedStores ==
    ASSUME BatchTypeOK, NEW j \in DOMAIN Uid, Inserted(j), Uid[j] \notin raw
    PROVE  Stores({j})
<1>1. Uid[j] \in Uids /\ writers \in [Uids -> SUBSET DOMAIN Uid]
  BY UidType DEF BatchTypeOK, TypeOK
<1>2. \A u \in Uids : {i \in {j} : Uid[i] = u} = IF u = Uid[j] THEN {j} ELSE {}
  OBVIOUS
<1>3. writers' = [u \in Uids |-> IF u = Uid[j] THEN writers[u] \cup {j} ELSE writers[u]]
  BY <1>1 DEF Inserted
<1>4. \A u \in Uids : (IF u = Uid[j] THEN writers[u] \cup {j} ELSE writers[u])
                          = writers[u] \cup {i \in {j} : Uid[i] = u}
  BY <1>1, <1>2
<1>5. writers' = [u \in Uids |-> writers[u] \cup {i \in {j} : Uid[i] = u}]
  BY <1>3, <1>4
<1>6. raw' = raw \cup {Uid[i] : i \in {j}}
  BY DEF Inserted
<1> QED
  BY <1>5, <1>6 DEF Stores

LEMMA WorkerWrites ==
    ASSUME BatchTypeOK, NEW w \in Worker, Progress(w) \/ Fault(w)
    PROVE  UNCHANGED rawVars \/ \E S \in SUBSET DOMAIN Uid : Stores(S)
<1>1. CASE Persists(w) \/ PersistUnacknowledged(w)
  <2>1. PICK c \in current[w] : Inserted(c.job) /\ Uid[c.job] \notin raw
    BY <1>1 DEF Persists, PersistUnacknowledged, Taken
  <2>2. c.job \in DOMAIN Uid
    BY IngestAssumption DEF BatchTypeOK, TypeOK, LeaseTypeOK, Claim
  <2>3. Stores({c.job})
    BY <2>1, <2>2, InsertedStores
  <2> QED
    BY <2>2, <2>3
<1>2. CASE ~(Persists(w) \/ PersistUnacknowledged(w))
  BY <1>2
     DEF Progress, Fault, Claims, Begins, MeetsDuplicate, IsRefused, MarksDone, Settles, Ends,
         StatementFails, MarkUnacknowledged, CatchFails, CatchUnacknowledged, Crashes
<1> QED
  BY <1>1, <1>2

LEMMA BatchWrites ==
    ASSUME BatchTypeOK, NEW p \in Post, Handling(p)
    PROVE  UNCHANGED rawVars \/ \E S \in SUBSET Items[p] : Stores(S)
<1>1. CASE StoresAll(p) \/ CreateManyUnacknowledged(p)
  <2>1. Store(Fresh(p))
    BY <1>1 DEF StoresAll, CreateManyUnacknowledged
  <2>2. \A i \in Fresh(p) : Uid[i] \notin raw
    BY DEF Fresh, Taken
  <2>3. \A i, k \in Fresh(p) : Uid[i] = Uid[k] => i = k
    <3> SUFFICES ASSUME NEW i \in Fresh(p), NEW k \in Fresh(p), Uid[i] = Uid[k] PROVE i = k
      OBVIOUS
    <3>1. i \in Items[p] /\ k \in Items[p] /\ ~(i < k) /\ ~(k < i)
      BY DEF Fresh
    <3> QED
      BY <3>1, ItemType
  <2>4. Fresh(p) \in SUBSET Items[p]
    BY FreshType
  <2> QED
    BY <2>1, <2>2, <2>3, <2>4 DEF Store, Stores
<1>2. ASSUME NEW i \in Items[p], StoresItem(p, i) \/ CreateUnacknowledged(p, i)
      PROVE  \E S \in SUBSET Items[p] : Stores(S)
  <2>1. Stores({i})
    BY <1>2 DEF StoresItem, CreateUnacknowledged, Store, Stores, Taken
  <2> QED
    BY <2>1
<1>3. ASSUME NEW i \in Items[p], \/ MeetsStored(p, i) \/ RefusesItem(p, i)
                                 \/ recordFromError(p, i) \/ RecordFails(p, i)
      PROVE  UNCHANGED rawVars
  BY <1>3 DEF MeetsStored, RefusesItem, recordFromError, RecordFails, Reported
<1>4. CASE RefusesAll(p) \/ CreateManyFails(p) \/ CreateFails(p) \/ ApiDies(p)
  BY <1>4 DEF RefusesAll, CreateManyFails, CreateFails, ApiDies
<1> QED
  BY <1>1, <1>2, <1>3, <1>4 DEF Handling

LEMMA RawChanges ==
    ASSUME BatchTypeOK, BatchNext
    PROVE  \/ UNCHANGED rawVars
           \/ DeleteQueueAndCommit
           \/ \E S \in SUBSET DOMAIN Uid : Stores(S)
<1>1. ASSUME NEW w \in Worker, Progress(w) \/ Fault(w)
      PROVE  UNCHANGED rawVars \/ \E S \in SUBSET DOMAIN Uid : Stores(S)
  BY <1>1, WorkerWrites
<1>2. ASSUME NEW p \in Post, Handling(p)
      PROVE  UNCHANGED rawVars \/ \E S \in SUBSET DOMAIN Uid : Stores(S)
  <2>1. Items[p] \subseteq DOMAIN Uid
    BY ItemType
  <2> QED
    BY <1>2, <2>1, BatchWrites
<1>3. ASSUME NEW j \in Job, Enqueue(j) \/ Passes(j) \/ Expires(j)
      PROVE  UNCHANGED rawVars
  BY <1>3 DEF Enqueue, Passes, Expires
<1>4. CASE DeleteRaw
  BY <1>4 DEF DeleteRaw
<1> QED
  BY <1>1, <1>2, <1>3, <1>4 DEF BatchNext, Beside, Clears

LEMMA RawGrows ==
    ASSUME BatchTypeOK, BatchNext, ~DeleteQueueAndCommit
    PROVE  raw \subseteq raw'
  BY RawChanges DEF Stores, rawVars

LEMMA WrittenOnceStep ==
    ASSUME BatchTypeOK, WrittenOnce, BatchNext
    PROVE  WrittenOnce'
<1>1. CASE UNCHANGED rawVars
  BY <1>1 DEF WrittenOnce, rawVars
<1>2. CASE DeleteQueueAndCommit
  <2>1. /\ raw' = raw \ clearing.uids
        /\ \A u \in Uids : writers'[u] = IF u \in clearing.uids THEN {} ELSE writers[u]
    BY <1>2 DEF DeleteQueueAndCommit
  <2> QED
    BY <2>1 DEF WrittenOnce
<1>3. ASSUME NEW S \in SUBSET DOMAIN Uid, Stores(S)
      PROVE  WrittenOnce'
  <2> SUFFICES ASSUME NEW u \in Uids
               PROVE  IF u \in raw' THEN \E i \in DOMAIN Uid : writers'[u] = {i} ELSE writers'[u] = {}
    BY DEF WrittenOnce
  <2>1. writers'[u] = writers[u] \cup {i \in S : Uid[i] = u}
    BY <1>3 DEF Stores
  <2>2. CASE \E i \in S : Uid[i] = u
    <3>1. PICK i \in S : Uid[i] = u
      BY <2>2
    <3>2. writers[u] = {}
      BY <1>3, <3>1 DEF Stores, WrittenOnce
    <3>3. {k \in S : Uid[k] = u} = {i}
      BY <1>3, <3>1 DEF Stores
    <3>4. u \in raw'
      BY <1>3, <3>1 DEF Stores
    <3> QED
      BY <2>1, <3>2, <3>3, <3>4
  <2>3. CASE ~ \E i \in S : Uid[i] = u
    <3>1. writers'[u] = writers[u]
      BY <2>1, <2>3
    <3>2. u \in raw' <=> u \in raw
      BY <1>3, <2>3 DEF Stores
    <3> QED
      BY <3>1, <3>2 DEF WrittenOnce
  <2> QED
    BY <2>2, <2>3
<1> QED
  BY <1>1, <1>2, <1>3, RawChanges

----------------------------------------------------------------------------
(* The queue.                                                              *)

LEMMA WorkersApart ==
    ASSUME BatchTypeOK, NEW w \in Worker, Progress(w) \/ Fault(w), NEW v \in Worker \ {w}
    PROVE  stage'[v] = stage[v] /\ current'[v] = current[v]
<1> USE DEF BatchTypeOK, TypeOK, LeaseTypeOK, Goto
<1>1. CASE Claims(w) \/ Ends(w) \/ Begins(w)
  <2>1. CASE Claims(w)
    <3>1. stage'[v] = stage[v] /\ current' = current
      BY <2>1 DEF Claims, ClaimBatch
    <3> QED
      BY <3>1
  <2>2. CASE Ends(w)
    BY <2>2 DEF Ends, EndTick
  <2>3. CASE Begins(w)
    BY <2>3 DEF Begins, BeginJob
  <2> QED
    BY <1>1, <2>1, <2>2, <2>3
<1>2. CASE Persists(w) \/ PersistUnacknowledged(w)
  <2>1. UNCHANGED current /\ \E s : Goto(w, s)
    BY <1>2 DEF Persists, PersistUnacknowledged
  <2> QED
    BY <2>1
<1>3. CASE MeetsDuplicate(w) \/ IsRefused(w)
  BY <1>3 DEF MeetsDuplicate, IsRefused
<1>4. CASE MarksDone(w) \/ Settles(w)
  BY <1>4 DEF MarksDone, Settles, EndJob
<1>5. CASE StatementFails(w) \/ MarkUnacknowledged(w)
  BY <1>5 DEF StatementFails, MarkUnacknowledged
<1>6. CASE CatchFails(w) \/ CatchUnacknowledged(w) \/ Crashes(w)
  BY <1>6 DEF CatchFails, CatchUnacknowledged, Crashes, WorkerCrashes, AbandonTick
<1> QED
  BY <1>1, <1>2, <1>3, <1>4, <1>5, <1>6 DEF Progress, Fault

\* No step but a worker's own moves a worker.
LEMMA OnlyWorkersMove ==
    ASSUME BatchNext, \A w \in Worker : ~(Progress(w) \/ Fault(w))
    PROVE  UNCHANGED workerVars
<1>1. ASSUME NEW j \in Job, Enqueue(j) \/ Passes(j) \/ Expires(j)
      PROVE  UNCHANGED workerVars
  BY <1>1 DEF Enqueue, Passes, Expires, Clock, ComesDue, OrphanExpires, LeaseExpires
<1>2. CASE Clears
  BY <1>2 DEF Clears, DeleteRaw, DeleteQueueAndCommit
<1>3. ASSUME NEW p \in Post, Handling(p)
      PROVE  UNCHANGED workerVars
  BY <1>3
     DEF Handling, StoresAll, RefusesAll, CreateManyFails, CreateManyUnacknowledged, CreateFails,
         ApiDies, StoresItem, MeetsStored, RefusesItem, recordFromError, CreateUnacknowledged,
         RecordFails, Reported, queueVars
<1> QED
  BY <1>1, <1>2, <1>3 DEF BatchNext, Beside

\* Who closes a row has its job in the stage before.
Closes(w, j, S) == \E c \in current[w] : c.job = j /\ stage[w] \in S /\ status[j] # "DELETED"

LEMMA WorkerCloses ==
    ASSUME BatchTypeOK, NEW w \in Worker, Progress(w) \/ Fault(w),
           NEW j \in Job, status'[j] # status[j]
    PROVE  /\ status'[j] = "DONE" => Closes(w, j, {"mark", "markDuplicate"})
           /\ status'[j] = "DEAD" => Closes(w, j, {"caught"})
<1>0. status \in [Job -> Status]
  BY DEF BatchTypeOK, TypeOK, LeaseTypeOK
<1>1. ASSUME NEW c \in current[w], NEW s \in {"DONE", "DEAD", "PENDING"}, SetStatus(c.job, s)
      PROVE  c.job = j /\ status[j] # "DELETED" /\ status'[j] = s
  BY <1>0, <1>1 DEF SetStatus
<1>2. CASE Claims(w)
  BY <1>0, <1>2 DEF Claims, ClaimBatch
<1>3. CASE MarksDone(w) \/ MarkUnacknowledged(w)
  <2>1. PICK c \in current[w] : SetStatus(c.job, "DONE") /\ stage[w] \in {"mark", "markDuplicate"}
    BY <1>3 DEF MarksDone, MarkUnacknowledged, At, markDone
  <2> QED
    BY <1>1, <2>1 DEF Closes
<1>4. CASE stage[w] = "caught" /\ SettleFailure(w)
  <2>1. PICK c \in current[w], s \in {"DEAD", "PENDING"} : SetStatus(c.job, s)
    BY <1>4 DEF SettleFailure, markDead, scheduleRetry
  <2> QED
    BY <1>1, <1>4, <2>1 DEF Closes
<1>5. CASE stage[w] = "markDuplicate" /\ \E c \in current[w] : markDone(c.job)
  <2>1. PICK c \in current[w] : SetStatus(c.job, "DONE")
    BY <1>5 DEF markDone
  <2> QED
    BY <1>1, <1>5, <2>1 DEF Closes
<1>6. \/ Claims(w)
      \/ MarksDone(w) \/ MarkUnacknowledged(w)
      \/ stage[w] = "caught" /\ SettleFailure(w)
      \/ stage[w] = "markDuplicate" /\ \E c \in current[w] : markDone(c.job)
      \/ UNCHANGED status
  BY DEF Progress, Fault, Begins, BeginJob, Persists, MeetsDuplicate, IsRefused, Settles, Ends,
         EndTick, StatementFails, PersistUnacknowledged, CatchFails, CatchUnacknowledged, Crashes,
         WorkerCrashes, tableVars
<1> QED
  BY <1>2, <1>3, <1>4, <1>5, <1>6

LEMMA OnlyWorkersClose ==
    ASSUME BatchTypeOK, BatchNext,
           NEW j \in Job, status'[j] # status[j], status'[j] \in {"DONE", "DEAD"}
    PROVE  \E w \in Worker : Progress(w) \/ Fault(w)
<1>0. status \in [Job -> Status]
  BY DEF BatchTypeOK, TypeOK, LeaseTypeOK
<1>1. ASSUME NEW i \in Job, Enqueue(i) \/ Passes(i) \/ Expires(i)
      PROVE  FALSE
  BY <1>0, <1>1
     DEF Enqueue, SetStatus, Passes, Expires, Clock, ComesDue, OrphanExpires, LeaseExpires
<1>2. CASE Clears
  BY <1>0, <1>2 DEF Clears, DeleteRaw, DeleteQueueAndCommit, tableVars
<1>3. ASSUME NEW p \in Post, Handling(p)
      PROVE  FALSE
  BY <1>3, HandlingTypeStep DEF queueVars, tableVars
<1> QED
  BY <1>1, <1>2, <1>3 DEF BatchNext, Beside

\* A worker comes to mark only with the uid of its job in the table.
LEMMA ComesToMark ==
    ASSUME BatchTypeOK, LeaseInv, NEW w \in Worker, Progress(w) \/ Fault(w),
           stage'[w] \in {"mark", "markDuplicate"}
    PROVE  current'[w] = current[w] /\ \A c \in current[w] : Uid[c.job] \in raw'
<1>0. \A c, d \in current[w] : c = d
  BY DEF LeaseInv, OneAtATime
<1>1. CASE Persists(w)
  <2>1. PICK c \in current[w] : Inserted(c.job)
    BY <1>1 DEF Persists
  <2> QED
    BY <1>0, <1>1, <2>1 DEF Persists, Inserted
<1>2. CASE MeetsDuplicate(w)
  <2>1. PICK c \in current[w] : Uid[c.job] \in raw
    BY <1>2 DEF MeetsDuplicate, Taken
  <2> QED
    BY <1>0, <1>2, <2>1 DEF MeetsDuplicate, rawVars
<1>3. ASSUME NEW s \in {"idle", "next", "persist", "caught"}, Goto(w, s)
      PROVE  FALSE
  BY <1>3 DEF Goto, BatchTypeOK, TypeOK
<1>4. \/ Persists(w) \/ MeetsDuplicate(w)
      \/ \E s \in {"idle", "next", "persist", "caught"} : Goto(w, s)
  BY DEF Progress, Fault, Claims, ClaimBatch, Begins, BeginJob, IsRefused, MarksDone, Settles,
         EndJob, Ends, EndTick, StatementFails, PersistUnacknowledged, MarkUnacknowledged,
         CatchFails, CatchUnacknowledged, Crashes, WorkerCrashes, AbandonTick
<1> QED
  BY <1>1, <1>2, <1>3, <1>4

LEMMA MarkedStoredStep ==
    ASSUME BatchTypeOK, LeaseInv, MarkedStored, BatchNext
    PROVE  MarkedStored'
<1>0. LeaseType /\ LeaseStep
  BY IngestLeases
<1>1. \A w \in Worker : \A c \in current[w] : c.job \in Job
  BY <1>0 DEF LeaseType, LeaseTypeOK, Claim
<1>2. CASE DeleteQueueAndCommit
  <2>1. \A j \in Job : status'[j] = IF status[j] = "ABSENT" THEN "ABSENT" ELSE "DELETED"
    BY <1>2 DEF DeleteQueueAndCommit
  <2>2. UNCHANGED workerVars
    BY <1>2 DEF DeleteQueueAndCommit
  <2>3. \A w \in Worker : \A c \in current[w] : status[c.job] # "ABSENT"
    BY DEF LeaseInv, HeldAreRows, HeldBy
  <2> QED
    BY <1>1, <2>1, <2>2, <2>3 DEF MarkedStored, workerVars
<1>3. CASE ~DeleteQueueAndCommit
  <2>1. raw \subseteq raw'
    BY <1>3, RawGrows
  <2>2. \A j \in Job : status[j] = "DELETED" => status'[j] = "DELETED"
    BY <1>0, RowsRemain
  <2>3. ASSUME NEW j \in Job, status'[j] = "DONE"
        PROVE  Uid[j] \in raw'
    <3>1. CASE status[j] = "DONE"
      BY <2>1, <3>1 DEF MarkedStored
    <3>2. CASE status[j] # "DONE"
      <4>1. PICK w \in Worker : Closes(w, j, {"mark", "markDuplicate"})
        BY <2>3, <3>2, OnlyWorkersClose, WorkerCloses
      <4> QED
        BY <2>1, <4>1 DEF Closes, MarkedStored
    <3> QED
      BY <3>1, <3>2
  <2>4. ASSUME NEW v \in Worker, NEW c \in current'[v], stage'[v] \in {"mark", "markDuplicate"}
        PROVE  Uid[c.job] \in raw' \/ status'[c.job] = "DELETED"
    <3>1. CASE stage'[v] = stage[v] /\ current'[v] = current[v]
      BY <1>1, <2>1, <2>2, <2>4, <3>1 DEF MarkedStored
    <3>2. CASE Progress(v) \/ Fault(v)
      BY <2>4, <3>2, ComesToMark
    <3>3. \/ stage'[v] = stage[v] /\ current'[v] = current[v]
          \/ Progress(v) \/ Fault(v)
      BY OnlyWorkersMove, WorkersApart DEF workerVars
    <3> QED
      BY <3>1, <3>2, <3>3
  <2> QED
    BY <2>3, <2>4 DEF MarkedStored
<1> QED
  BY <1>2, <1>3

\* Without a fault what is caught was refused.
LEMMA ComesToCaught ==
    ASSUME BatchTypeOK, LeaseInv, NEW w \in Worker, Progress(w) \/ Fault(w), ~UseFault,
           stage'[w] = "caught"
    PROVE  current'[w] = current[w] /\ \A c \in current[w] : c.job \notin Storable
<1>0. \A c, d \in current[w] : c = d
  BY DEF LeaseInv, OneAtATime
<1>1. CASE IsRefused(w)
  <2>1. PICK c \in current[w] : c.job \notin Storable
    BY <1>1 DEF IsRefused, At
  <2> QED
    BY <1>0, <1>1, <2>1 DEF IsRefused
<1>2. ASSUME NEW s \in {"idle", "next", "persist", "mark", "markDuplicate"}, Goto(w, s)
      PROVE  FALSE
  BY <1>2 DEF Goto, BatchTypeOK, TypeOK
<1>3. \/ IsRefused(w)
      \/ \E s \in {"idle", "next", "persist", "mark", "markDuplicate"} : Goto(w, s)
  BY DEF Progress, Fault, Claims, ClaimBatch, Begins, BeginJob, Persists, MeetsDuplicate,
         MarksDone, Settles, EndJob, Ends, EndTick, StatementFails, PersistUnacknowledged,
         MarkUnacknowledged, CatchFails, CatchUnacknowledged, Crashes, WorkerCrashes
<1> QED
  BY <1>1, <1>2, <1>3

LEMMA RefusedOnlyStep ==
    ASSUME BatchTypeOK, LeaseInv, RefusedOnly, BatchNext
    PROVE  RefusedOnly'
<1> SUFFICES ASSUME faults' = 0 PROVE RefusedOnly'
  BY DEF RefusedOnly
<1>0. faults = 0 /\ ~UseFault
  BY IngestLeases, NoFaultYet
<1>1. ASSUME NEW j \in Job, status'[j] = "DEAD"
      PROVE  j \notin Storable
  <2>1. CASE status[j] = "DEAD"
    BY <1>0, <2>1 DEF RefusedOnly
  <2>2. CASE status[j] # "DEAD"
    <3>1. PICK w \in Worker : Closes(w, j, {"caught"})
      BY <1>1, <2>2, OnlyWorkersClose, WorkerCloses
    <3> QED
      BY <1>0, <3>1 DEF Closes, RefusedOnly
  <2> QED
    BY <2>1, <2>2
<1>2. ASSUME NEW v \in Worker, NEW c \in current'[v], stage'[v] = "caught"
      PROVE  c.job \notin Storable
  <2>1. CASE stage'[v] = stage[v] /\ current'[v] = current[v]
    BY <1>0, <1>2, <2>1 DEF RefusedOnly
  <2>2. CASE Progress(v) \/ Fault(v)
    BY <1>0, <1>2, <2>2, ComesToCaught
  <2>3. \/ stage'[v] = stage[v] /\ current'[v] = current[v]
        \/ Progress(v) \/ Fault(v)
    BY OnlyWorkersMove, WorkersApart DEF workerVars
  <2> QED
    BY <2>1, <2>2, <2>3
<1> QED
  BY <1>1, <1>2 DEF RefusedOnly

----------------------------------------------------------------------------
(* The batches: what a request counts is what it has stored.               *)

LEMMA PartsCount ==
    ASSUME NEW p \in Post, NEW S \in SUBSET Items[p], NEW T \in SUBSET S
    PROVE  /\ Cardinality(S) \in Nat /\ Cardinality(T) \in Nat
           /\ Cardinality(T) <= Cardinality(S)
           /\ \A i \in Items[p] \ S : Cardinality(S \cup {i}) = Cardinality(S) + 1
<1>1. IsFiniteSet(S)
  BY ItemType, FS_Subset
<1>2. IsFiniteSet(T) /\ Cardinality(T) <= Cardinality(S)
  BY <1>1, FS_Subset
<1>3. ASSUME NEW i \in Items[p] \ S PROVE Cardinality(S \cup {i}) = Cardinality(S) + 1
  BY <1>1, <1>3, FS_AddElement
<1> QED
  BY <1>1, <1>2, <1>3, FS_CardinalityType

\* The items of a request are nobody else's.
LEMMA CountsKept ==
    ASSUME NEW q \in Post, Counts(q), faults' = 0 => faults = 0,
           at'[q] = at[q], left'[q] = left[q], answer'[q] = answer[q],
           inserted' \cap Items[q] = inserted \cap Items[q]
    PROVE  Counts(q)'
<1>1. Dealt(q)' = Dealt(q)
  BY DEF Dealt
<1>2. Dealt(q) \subseteq Items[q] /\ left[q] \subseteq Items[q]
  BY DEF Dealt, Counts
<1>3. Own(q)' = Own(q) /\ inserted' \cap left[q] = inserted \cap left[q]
  BY <1>1, <1>2 DEF Own
<1> QED
  BY <1>1, <1>3 DEF Counts

\* A step that leaves the request in the loop, or kills it.
LEMMA CountsNotAnswered ==
    ASSUME BatchTypeOK, NEW p \in Post, Counts(p),
           at'[p] \in {"create", "record", "gone"}, at[p] # "answered",
           left'[p] = left[p], answer'[p] = answer[p],
           \/ inserted' = inserted
           \/ \E S \in SUBSET left[p] : inserted' = inserted \cup S,
           at[p] = "gone" => at'[p] = "gone",
           faults' # 0 \/ (/\ faults = 0
                           /\ inserted' = inserted
                           /\ at'[p] = "record" =>
                                \A i \in left[p] : (\A k \in left[p] : i <= k) => i \notin Storable)
    PROVE  Counts(p)'
<1>1. Dealt(p)' = Dealt(p) /\ Dealt(p) = Items[p] \ left[p]
  BY DEF Dealt
<1>2. Own(p)' = Own(p)
  BY <1>1 DEF Own
<1> QED
  BY <1>1, <1>2 DEF Counts

\* A step past the first item left.
LEMMA CountsPast ==
    ASSUME BatchTypeOK, NEW p \in Post, Counts(p), NEW i \in left[p], Past(p, i),
           at[p] \in {"create", "record"},
           inserted \subseteq inserted', inserted' \subseteq inserted \cup {i},
           \/ answer'[p].accepted = answer[p].accepted
           \/ answer'[p].accepted = answer[p].accepted + 1 /\ i \in inserted',
           faults' # 0 \/ (/\ faults = 0
                           /\ answer'[p].accepted = answer[p].accepted => inserted' = inserted
                           /\ answer'[p].failed = answer[p].failed \cup ({i} \ Storable))
    PROVE  Counts(p)'
<1>0. /\ at'[p] = IF left[p] = {i} THEN "answered" ELSE "create"
      /\ left'[p] = left[p] \ {i}
      /\ left[p] \subseteq Items[p]
      /\ answer[p].accepted \in Nat
  BY DEF Past, BatchTypeOK, Counts
<1>1. Dealt(p) = Items[p] \ left[p]
  BY DEF Dealt
<1>2. Dealt(p)' = Dealt(p) \cup {i} /\ i \notin Dealt(p)
  BY <1>0, <1>1 DEF Dealt
<1>3. Own(p)' = IF i \in inserted' THEN Own(p) \cup {i} ELSE Own(p)
  BY <1>2 DEF Own
<1>4. Own(p) \in SUBSET Items[p] /\ i \in Items[p] \ Own(p)
  BY <1>0, <1>1 DEF Own
<1>5. /\ Cardinality(Own(p)) \in Nat
      /\ Cardinality(Own(p) \cup {i}) = Cardinality(Own(p)) + 1
  BY <1>4, PartsCount
<1>6. answer[p].accepted <= Cardinality(Own(p))
  BY DEF Counts
<1>7. answer'[p].accepted <= Cardinality(Own(p)')
  BY <1>0, <1>3, <1>5, <1>6
<1>8. ASSUME faults' = 0
      PROVE  /\ answer'[p].accepted = Cardinality(Own(p)')
             /\ answer'[p].failed = Dealt(p)' \ Storable
             /\ inserted' \cap left'[p] = {}
  <2>1. /\ answer[p].accepted = Cardinality(Own(p))
        /\ answer[p].failed = Dealt(p) \ Storable
        /\ inserted \cap left[p] = {}
    BY <1>8 DEF Counts
  <2>2. inserted' \cap left'[p] = {}
    BY <1>0, <2>1
  <2>3. answer'[p].failed = Dealt(p)' \ Storable
    BY <1>2, <1>8, <2>1
  <2>4. CASE answer'[p].accepted = answer[p].accepted
    <3>1. i \notin inserted'
      BY <1>8, <2>1, <2>4
    <3> QED
      BY <1>3, <2>1, <2>2, <2>3, <2>4, <3>1
  <2>5. CASE answer'[p].accepted = answer[p].accepted + 1 /\ i \in inserted'
    BY <1>3, <1>5, <2>1, <2>2, <2>3, <2>5
  <2> QED
    BY <2>4, <2>5
<1> QED
  BY <1>0, <1>7, <1>8 DEF Counts

LEMMA OthersUntouched ==
    ASSUME BatchTypeOK, NEW p \in Post, Handling(p), NEW q \in Post \ {p}
    PROVE  /\ at'[q] = at[q] /\ left'[q] = left[q] /\ answer'[q] = answer[q]
           /\ inserted' \cap Items[q] = inserted \cap Items[q]
<1>0. Items[p] \cap Items[q] = {} /\ Fresh(p) \subseteq Items[p]
  BY BatchAssumption DEF Fresh
<1> USE DEF BatchTypeOK
<1>1. CASE StoresAll(p) \/ CreateManyUnacknowledged(p)
  BY <1>0, <1>1 DEF StoresAll, CreateManyUnacknowledged, Store
<1>2. CASE RefusesAll(p) \/ CreateManyFails(p) \/ CreateFails(p) \/ ApiDies(p)
  BY <1>2 DEF RefusesAll, CreateManyFails, CreateFails, ApiDies
<1>3. ASSUME NEW i \in Items[p], StoresItem(p, i) \/ CreateUnacknowledged(p, i)
      PROVE  /\ at'[q] = at[q] /\ left'[q] = left[q] /\ answer'[q] = answer[q]
             /\ inserted' \cap Items[q] = inserted \cap Items[q]
  <2>1. inserted' = inserted \cup {i} /\ i \notin Items[q]
    BY <1>0, <1>3 DEF StoresItem, CreateUnacknowledged, Store
  <2>2. at'[q] = at[q] /\ left'[q] = left[q] /\ answer'[q] = answer[q]
    BY <1>3 DEF StoresItem, CreateUnacknowledged, Past
  <2> QED
    BY <2>1, <2>2
<1>4. ASSUME NEW i \in Items[p], \/ MeetsStored(p, i) \/ RefusesItem(p, i)
                                 \/ recordFromError(p, i) \/ RecordFails(p, i)
      PROVE  /\ at'[q] = at[q] /\ left'[q] = left[q] /\ answer'[q] = answer[q]
             /\ inserted' = inserted
  BY <1>4 DEF MeetsStored, RefusesItem, recordFromError, RecordFails, Reported, Past
<1> QED
  BY <1>1, <1>2, <1>3, <1>4 DEF Handling

LEMMA CountsStep ==
    ASSUME BatchTypeOK, NEW p \in Post, Counts(p), Handling(p), faults \in Nat
    PROVE  Counts(p)'
<1>0. left[p] \subseteq Items[p] /\ Items[p] \subseteq Nat /\ (UseFault => faults' # 0)
  BY ItemType DEF Counts, UseFault
<1>1. CASE StoresAll(p)
  <2>1. /\ at'[p] = "answered" /\ left'[p] = left[p] /\ faults' = faults
        /\ answer'[p].accepted = Cardinality(Fresh(p)) /\ answer'[p].failed = answer[p].failed
    BY <1>1 DEF StoresAll, BatchTypeOK
  <2>2. Fresh(p) \subseteq Items[p] /\ Items[p] \subseteq Storable
    BY <1>1 DEF StoresAll, MayStore, Fresh
  <2>3. answer[p].failed = {} /\ inserted \cap Items[p] = {}
    BY <1>1 DEF StoresAll, Counts
  <2>4. Own(p)' = Fresh(p)
    BY <1>1, <2>1, <2>2, <2>3 DEF Own, Dealt, StoresAll, Store
  <2>5. Cardinality(Fresh(p)) \in Nat
    BY FreshType
  <2> QED
    BY <1>0, <2>1, <2>2, <2>3, <2>4, <2>5 DEF Counts, Dealt
<1>2. CASE RefusesAll(p)
  <2>1. /\ at[p] = "createMany" /\ at'[p] = "create"
        /\ left'[p] = left[p] /\ answer'[p] = answer[p] /\ inserted' = inserted /\ faults' = faults
    BY <1>2 DEF RefusesAll, BatchTypeOK
  <2> QED
    BY <2>1, CountsNotAnswered
<1>3. CASE CreateManyUnacknowledged(p)
  <2>1. /\ at[p] = "createMany" /\ at'[p] = "create"
        /\ left'[p] = left[p] /\ answer'[p] = answer[p] /\ inserted' = inserted \cup Fresh(p)
        /\ faults' # 0
    BY <1>0, <1>3 DEF CreateManyUnacknowledged, BatchTypeOK, Store
  <2>2. Fresh(p) \subseteq left[p]
    BY <2>1 DEF Counts, Fresh
  <2> QED
    BY <2>1, <2>2, CountsNotAnswered
<1>4. CASE CreateManyFails(p) \/ CreateFails(p) \/ ApiDies(p)
  <2>1. /\ at[p] \notin {"answered", "gone"} /\ at'[p] \in {"create", "record", "gone"}
        /\ left'[p] = left[p] /\ answer'[p] = answer[p] /\ inserted' = inserted /\ faults' # 0
    BY <1>0, <1>4 DEF CreateManyFails, CreateFails, ApiDies, BatchTypeOK
  <2> QED
    BY <2>1, CountsNotAnswered
<1>5. ASSUME NEW i \in Items[p], RefusesItem(p, i)
      PROVE  Counts(p)'
  <2>1. /\ at[p] = "create" /\ at'[p] = "record"
        /\ left'[p] = left[p] /\ answer'[p] = answer[p] /\ inserted' = inserted /\ faults' = faults
        /\ i \notin Storable /\ i \in left[p] /\ \A k \in left[p] : i <= k
    BY <1>5 DEF RefusesItem, Handles, BatchTypeOK
  <2>2. \A k \in left[p] : (\A l \in left[p] : k <= l) => k = i
    BY <1>0, <2>1
  <2> QED
    BY <2>1, <2>2, CountsNotAnswered
<1>6. ASSUME NEW i \in Items[p], CreateUnacknowledged(p, i)
      PROVE  Counts(p)'
  <2>1. /\ at[p] = "create" /\ at'[p] = "record"
        /\ left'[p] = left[p] /\ answer'[p] = answer[p] /\ inserted' = inserted \cup {i}
        /\ {i} \in SUBSET left[p] /\ faults' # 0
    BY <1>0, <1>6 DEF CreateUnacknowledged, Handles, BatchTypeOK, Store
  <2> QED
    BY <2>1, CountsNotAnswered
<1>7. ASSUME NEW i \in Items[p], StoresItem(p, i) \/ MeetsStored(p, i)
      PROVE  Counts(p)'
  <2>1. /\ at[p] = "create" /\ i \in left[p] /\ Past(p, i) /\ faults' = faults
        /\ {i} \ Storable = {} /\ answer'[p].failed = answer[p].failed
    BY <1>7 DEF StoresItem, MeetsStored, MayStore, Handles, BatchTypeOK
  <2>2. CASE StoresItem(p, i)
    <3>1. inserted' = inserted \cup {i} /\ answer'[p].accepted = answer[p].accepted + 1
      BY <2>2 DEF StoresItem, Store, BatchTypeOK
    <3>2. answer'[p].accepted # answer[p].accepted
      BY <3>1 DEF BatchTypeOK
    <3> QED
      BY <2>1, <3>1, <3>2, CountsPast
  <2>3. CASE MeetsStored(p, i)
    <3>1. inserted' = inserted /\ answer'[p].accepted = answer[p].accepted
      BY <2>3 DEF MeetsStored, BatchTypeOK
    <3> QED
      BY <2>1, <3>1, CountsPast
  <2> QED
    BY <1>7, <2>2, <2>3
<1>8. ASSUME NEW i \in Items[p], recordFromError(p, i) \/ RecordFails(p, i)
      PROVE  Counts(p)'
  <2>1. Reporting(p, i) /\ Reported(p, i)
    BY <1>8 DEF recordFromError, RecordFails
  <2>2. /\ at[p] = "record" /\ i \in left[p] /\ (\A k \in left[p] : i <= k)
        /\ Past(p, i) /\ inserted' = inserted
        /\ answer'[p].failed = answer[p].failed \cup {i}
        /\ answer'[p].accepted = answer[p].accepted
    BY <2>1 DEF Reporting, Reported, BatchTypeOK
  <2>3. faults' # 0 \/ (faults = 0 /\ i \notin Storable)
    <3>1. CASE faults' = faults /\ faults = 0
      BY <2>2, <3>1 DEF Counts
    <3>2. faults' = faults \/ UseFault
      BY <1>8 DEF recordFromError, RecordFails
    <3> QED
      BY <1>0, <3>1, <3>2
  <2>4. i \notin Storable => {i} \ Storable = {i}
    OBVIOUS
  <2> QED
    BY <2>2, <2>3, <2>4, CountsPast
<1> QED
  BY <1>1, <1>2, <1>3, <1>4, <1>5, <1>6, <1>7, <1>8 DEF Handling

LEMMA BatchInvStep ==
    ASSUME BatchTypeOK, BatchInv, BatchNext
    PROVE  BatchInv'
<1>0. faults \in Nat /\ (faults' = 0 => faults = 0)
  BY IngestLeases, NoFaultYet, LeaseAssumption DEF LeaseType, LeaseTypeOK
<1>1. CASE UNCHANGED postVars
  BY <1>0, <1>1, CountsKept DEF BatchInv, postVars
<1>2. ASSUME NEW p \in Post, Handling(p)
      PROVE  BatchInv'
  <2>1. Counts(p)'
    BY <1>0, <1>2, CountsStep DEF BatchInv
  <2>2. ASSUME NEW q \in Post \ {p}
        PROVE  Counts(q)'
    BY <1>0, <1>2, OthersUntouched, CountsKept DEF BatchInv
  <2> QED
    BY <2>1, <2>2 DEF BatchInv
<1> QED
  BY <1>1, <1>2 DEF BatchNext, Beside

----------------------------------------------------------------------------
(* The batches: what is neither stored nor on record.                      *)

\* The first item of the request with the uid of another.
LEMMA FirstOfUid ==
    ASSUME NEW p \in Post, NEW i \in Items[p]
    PROVE  \E k \in Items[p] : Uid[k] = Uid[i] /\ \A l \in Items[p] : l < k => Uid[l] # Uid[k]
<1> DEFINE Same == {k \in Items[p] : Uid[k] = Uid[i]}
           Below(k) == {l \in Same : l < k}
           Belows == {Below(k) : k \in Same}
<1>1. Same \in SUBSET Items[p] /\ Same \subseteq Nat /\ i \in Same
  BY ItemType
<1>2. IsFiniteSet(Same)
  BY <1>1, ItemType, FS_Subset
<1>3. Belows \subseteq SUBSET Same /\ Belows # {}
  BY <1>1
<1>4. IsWellFoundedOn(StrictSubsetOrdering(Same), SUBSET Same)
  BY <1>2, FS_StrictSubsetOrderingWellFounded, FS_FiniteSubsetsOfFinite
<1>5. PICK B \in Belows : \A D \in Belows : ~(<<D, B>> \in StrictSubsetOrdering(Same))
  <2> HIDE DEF Belows
  <2> QED
    BY <1>3, <1>4, WFMin
<1>6. PICK k \in Same : B = Below(k)
  BY <1>5
<1>7. ASSUME NEW l \in Same, l < k
      PROVE  FALSE
  <2>1. l \in Below(k) /\ l \notin Below(l) /\ Below(l) \subseteq Below(k)
    BY <1>1, <1>7
  <2>2. Below(l) \in SUBSET Same /\ Below(k) \in SUBSET Same /\ Below(l) # Below(k)
    BY <2>1
  <2>3. <<Below(l), Below(k)>> \in StrictSubsetOrdering(Same)
    BY <2>1, <2>2 DEF StrictSubsetOrdering
  <2> QED
    BY <1>5, <1>6, <2>3
<1> QED
  BY <1>1, <1>7

LEMMA NothingLeftOut ==
    ASSUME BatchTypeOK, NEW p \in Post, Store(Fresh(p))
    PROVE  \A i \in Items[p] : Uid[i] \in raw'
<1> SUFFICES ASSUME NEW i \in Items[p] PROVE Uid[i] \in raw'
  OBVIOUS
<1>1. PICK k \in Items[p] : Uid[k] = Uid[i] /\ \A l \in Items[p] : l < k => Uid[l] # Uid[k]
  BY FirstOfUid
<1>2. Uid[k] \in raw \/ k \in Fresh(p)
  BY <1>1 DEF Fresh, Taken
<1> QED
  BY <1>1, <1>2 DEF Store

\* Only a failure of record() itself adds an item without a trace.
LEMMA TracelessStep ==
    ASSUME BatchTypeOK, NEW p \in Post, Counts(p), Handling(p)
    PROVE  \/ Traceless(p)' \subseteq Traceless(p)
           \/ UseFault /\ \E i \in Items[p] : Traceless(p)' \subseteq Traceless(p) \cup {i}
<1>0. left[p] \subseteq Items[p]
  BY DEF Counts
<1>1. raw \subseteq raw'
  BY BatchWrites DEF rawVars, Stores
<1>2. ASSUME Dealt(p)' = Dealt(p), recorded \subseteq recorded'
      PROVE  Traceless(p)' \subseteq Traceless(p)
  BY <1>1, <1>2 DEF Traceless, Traced
<1>3. CASE StoresAll(p)
  <2>1. \A i \in Items[p] : Uid[i] \in raw'
    BY <1>3, NothingLeftOut DEF StoresAll
  <2>2. Dealt(p)' \subseteq Items[p]
    BY DEF Dealt
  <2> QED
    BY <2>1, <2>2 DEF Traceless, Traced
<1>4. CASE \/ RefusesAll(p) \/ CreateManyFails(p) \/ CreateManyUnacknowledged(p)
           \/ CreateFails(p) \/ ApiDies(p)
           \/ \E i \in Items[p] : RefusesItem(p, i) \/ CreateUnacknowledged(p, i)
  <2>1. /\ at[p] # "answered" /\ at'[p] # "answered"
        /\ left'[p] = left[p] /\ recorded' = recorded
    BY <1>4 DEF RefusesAll, CreateManyFails, CreateManyUnacknowledged, CreateFails, ApiDies,
                RefusesItem, CreateUnacknowledged, Handles, BatchTypeOK
  <2> QED
    BY <1>2, <2>1 DEF Dealt
<1>5. ASSUME NEW i \in Items[p], at[p] \in {"create", "record"}, i \in left[p], Past(p, i),
             recorded \subseteq recorded'
      PROVE  Traceless(p)' \subseteq Traceless(p) \cup {k \in {i} : ~Traced(k)'}
  <2>1. Dealt(p)' = Dealt(p) \cup {i}
    BY <1>0, <1>5 DEF Dealt, Past, BatchTypeOK
  <2> QED
    BY <1>1, <1>5, <2>1 DEF Traceless, Traced
<1>6. ASSUME NEW i \in Items[p], StoresItem(p, i) \/ MeetsStored(p, i) \/ recordFromError(p, i)
      PROVE  Traceless(p)' \subseteq Traceless(p)
  <2>1. /\ at[p] \in {"create", "record"} /\ i \in left[p] /\ Past(p, i)
        /\ recorded \subseteq recorded' /\ (Uid[i] \in raw' \/ i \in recorded')
    BY <1>6 DEF StoresItem, MeetsStored, recordFromError, Handles, Reporting, Reported, Store,
                Taken, rawVars
  <2> QED
    BY <1>5, <2>1 DEF Traced
<1>7. ASSUME NEW i \in Items[p], RecordFails(p, i)
      PROVE  UseFault /\ Traceless(p)' \subseteq Traceless(p) \cup {i}
  <2>1. /\ at[p] = "record" /\ i \in left[p] /\ Past(p, i) /\ recorded' = recorded /\ UseFault
    BY <1>7 DEF RecordFails, Reporting, Reported
  <2> QED
    BY <1>5, <2>1
<1> QED
  BY <1>3, <1>4, <1>6, <1>7 DEF Handling

LEMMA ClearingStep ==
    ASSUME BatchTypeOK, BatchNext
    PROVE  /\ clears \in Nat /\ clears' \in Nat /\ clears <= clears'
           /\ clearing'.open => clearing.open \/ clears' > 0
           /\ DeleteQueueAndCommit => clearing.open
<1>0. clears \in Nat /\ MaxClears \in Nat
  BY IngestAssumption DEF BatchTypeOK, TypeOK
<1>1. ASSUME NEW w \in Worker, Progress(w) \/ Fault(w)
      PROVE  UNCHANGED clearVars
  BY <1>1, QueueTypeStep
<1>2. ASSUME NEW p \in Post, Handling(p)
      PROVE  UNCHANGED clearVars
  BY <1>2, HandlingTypeStep DEF queueVars
<1>3. ASSUME NEW j \in Job, Enqueue(j) \/ Passes(j) \/ Expires(j)
      PROVE  UNCHANGED clearVars
  BY <1>3 DEF Enqueue, Passes, Expires
<1>4. CASE Clears
  BY <1>0, <1>4 DEF Clears, DeleteRaw, DeleteQueueAndCommit, NotClearing
<1>5. CASE UNCHANGED clearVars
  BY <1>0, <1>5 DEF clearVars, DeleteQueueAndCommit
<1> QED
  BY <1>1, <1>2, <1>3, <1>4, <1>5 DEF BatchNext, Beside

LEMMA RecordGrows ==
    ASSUME BatchTypeOK, BatchNext
    PROVE  recorded \subseteq recorded'
<1>1. ASSUME NEW p \in Post, Handling(p)
      PROVE  recorded \subseteq recorded'
  BY <1>1
     DEF Handling, StoresAll, RefusesAll, CreateManyFails, CreateManyUnacknowledged, CreateFails,
         ApiDies, StoresItem, MeetsStored, RefusesItem, recordFromError, CreateUnacknowledged,
         RecordFails
<1> QED
  BY <1>1 DEF BatchNext, Beside, postVars

LEMMA TracesStep ==
    ASSUME BatchTypeOK, BatchInv, Traces, BatchNext
    PROVE  Traces'
<1>0. /\ faults \in Nat /\ faults' \in Nat /\ faults <= faults'
      /\ UseFault => faults' = faults + 1
  BY IngestLeases, FaultsAddUp
<1>1. clearing'.open => clears' > 0
  BY ClearingStep DEF Traces
<1> SUFFICES ASSUME clears' = 0, NEW q \in Post
             PROVE  Cardinality(Traceless(q)') <= faults'
  BY <1>1 DEF Traces
<1>2. clears = 0 /\ ~DeleteQueueAndCommit
  BY ClearingStep DEF Traces
<1>3. raw \subseteq raw' /\ recorded \subseteq recorded'
  BY <1>2, RawGrows, RecordGrows
<1>4. Cardinality(Traceless(q)) <= faults
  BY <1>2 DEF Traces
<1>5. Traceless(q) \in SUBSET Items[q]
  BY DEF Traceless, Dealt, BatchInv, Counts
<1>6. CASE Traceless(q)' \subseteq Traceless(q)
  <2>1. Cardinality(Traceless(q)') <= Cardinality(Traceless(q)) /\ Cardinality(Traceless(q)) \in Nat
        /\ Cardinality(Traceless(q)') \in Nat
    BY <1>5, <1>6, PartsCount
  <2> QED
    BY <1>0, <1>4, <2>1
<1>7. ASSUME UseFault, NEW i \in Items[q], Traceless(q)' \subseteq Traceless(q) \cup {i}
      PROVE  Cardinality(Traceless(q)') <= faults'
  <2>1. CASE i \in Traceless(q)
    BY <1>6, <1>7, <2>1
  <2>2. CASE i \notin Traceless(q)
    <3>1. Traceless(q) \cup {i} \in SUBSET Items[q]
      BY <1>5
    <3>2. /\ Cardinality(Traceless(q) \cup {i}) = Cardinality(Traceless(q)) + 1
          /\ Cardinality(Traceless(q)) \in Nat
      BY <1>5, <2>2, PartsCount
    <3>3. /\ Cardinality(Traceless(q)') <= Cardinality(Traceless(q) \cup {i})
          /\ Cardinality(Traceless(q)') \in Nat
      BY <1>7, <3>1, PartsCount
    <3> QED
      BY <1>0, <1>4, <1>7, <3>2, <3>3
  <2> QED
    BY <2>1, <2>2
<1>8. CASE at'[q] = at[q] /\ left'[q] = left[q]
  BY <1>3, <1>6, <1>8 DEF Traceless, Traced, Dealt
<1>9. CASE Handling(q)
  BY <1>6, <1>7, <1>9, TracelessStep DEF BatchInv
<1>10. \/ at'[q] = at[q] /\ left'[q] = left[q]
       \/ Handling(q)
  BY OthersUntouched DEF BatchNext, Beside, postVars
<1> QED
  BY <1>8, <1>9, <1>10

----------------------------------------------------------------------------
(* The theorems, of the queue and its batches together.                    *)

\* Every variable of the worker, the table, clearAll and the batches keeps its
\* type, and a worker stays at the awaits of process().
THEOREM BatchTypeCorrect == BatchSpec => []BatchTypeOK
<1>1. BatchInit => BatchTypeOK
  <2> SUFFICES ASSUME BatchInit PROVE BatchTypeOK
    OBVIOUS
  <2>1. LeaseTypeOK
    BY LeaseAssumption DEF BatchInit, Init, LeaseInit, LeaseTypeOK, Status
  <2>2. TypeOK
    BY <2>1, IngestAssumption DEF BatchInit, Init, LeaseInit, TypeOK, NotClearing
  <2>3. left \in [Post -> SUBSET Item]
    BY ItemType, BatchAssumption DEF BatchInit
  <2> QED
    BY <2>2, <2>3 DEF BatchInit, BatchTypeOK
<1>2. BatchTypeOK /\ [BatchNext]_batchVars => BatchTypeOK'
  <2>1. BatchTypeOK /\ UNCHANGED batchVars => BatchTypeOK'
    BY DEF BatchTypeOK, TypeOK, LeaseTypeOK, batchVars, vars, tableVars, workerVars, rawVars,
           clearVars, postVars
  <2> QED
    BY <2>1, BatchTypeStep
<1> QED
  BY <1>1, <1>2, PTL DEF BatchSpec

LEMMA LeasesHold == BatchSpec => []LeaseInv
<1>1. BatchInit => LeaseInv
  BY LeaseInitially DEF BatchInit, Init, LeaseInit
<1>2. BatchTypeOK /\ LeaseInv /\ [BatchNext]_batchVars => LeaseInv'
  <2>1. LeaseInv /\ UNCHANGED batchVars => LeaseInv'
    BY DEF LeaseInv, OneAtATime, HeldAreRows, NumbersGrow, ClaimsAreNumbered, Alone, HeldBy,
           batchVars, vars, tableVars, workerVars
  <2> QED
    BY <2>1, IngestLeases, LeaseInvStep
<1> QED
  BY <1>1, <1>2, BatchTypeCorrect, PTL DEF BatchSpec

\* A queue row is DONE only while its uid is in raw_transactions: through
\* retries, duplicates, late workers, lost replies and clearAll.
THEOREM DoneMeansStored == BatchSpec => []DoneIsStored
<1>1. BatchInit => MarkedStored
  BY DEF BatchInit, Init, LeaseInit, MarkedStored
<1>2. BatchTypeOK /\ LeaseInv /\ MarkedStored /\ [BatchNext]_batchVars => MarkedStored'
  <2>1. MarkedStored /\ UNCHANGED batchVars => MarkedStored'
    BY DEF MarkedStored, batchVars, vars, tableVars, workerVars, rawVars
  <2> QED
    BY <2>1, MarkedStoredStep
<1>3. MarkedStored => DoneIsStored
  BY DEF MarkedStored, DoneIsStored
<1> QED
  BY <1>1, <1>2, <1>3, BatchTypeCorrect, LeasesHold, PTL DEF BatchSpec

\* One row for one uid and one writer for one row, however many processes,
\* jobs and batches hold the uid.
THEOREM OneRowPerUid == BatchSpec => []StoredOnce
<1>1. BatchInit => WrittenOnce
  BY DEF BatchInit, Init, WrittenOnce
<1>2. BatchTypeOK /\ WrittenOnce /\ [BatchNext]_batchVars => WrittenOnce'
  <2>1. WrittenOnce /\ UNCHANGED batchVars => WrittenOnce'
    BY DEF WrittenOnce, batchVars, vars, rawVars
  <2> QED
    BY <2>1, WrittenOnceStep
<1>3. WrittenOnce => StoredOnce
  <2> SUFFICES ASSUME WrittenOnce, NEW u \in Uids
               PROVE  Cardinality(writers[u]) <= 1 /\ (writers[u] = {} <=> u \notin raw)
    BY DEF StoredOnce
  <2>1. CASE u \in raw
    <3>1. PICK i \in DOMAIN Uid : writers[u] = {i}
      BY <2>1 DEF WrittenOnce
    <3>2. Cardinality(writers[u]) = 1
      BY <3>1, FS_Singleton
    <3> QED
      BY <2>1, <3>1, <3>2
  <2>2. CASE u \notin raw
    <3>1. writers[u] = {}
      BY <2>2 DEF WrittenOnce
    <3>2. Cardinality(writers[u]) = 0
      BY <3>1, FS_EmptySet
    <3> QED
      BY <2>2, <3>1, <3>2
  <2> QED
    BY <2>1, <2>2
<1> QED
  BY <1>1, <1>2, <1>3, BatchTypeCorrect, PTL DEF BatchSpec

\* Until something fails the queue gives up what raw_transactions refuses and
\* nothing else.
THEOREM OnlyTheRefusedDie == BatchSpec => []OnlyRefusedDies
<1>1. BatchInit => RefusedOnly
  BY DEF BatchInit, Init, LeaseInit, RefusedOnly
<1>2. BatchTypeOK /\ LeaseInv /\ RefusedOnly /\ [BatchNext]_batchVars => RefusedOnly'
  <2>1. RefusedOnly /\ UNCHANGED batchVars => RefusedOnly'
    BY DEF RefusedOnly, batchVars, vars, tableVars, workerVars
  <2> QED
    BY <2>1, RefusedOnlyStep
<1>3. RefusedOnly => OnlyRefusedDies
  BY DEF RefusedOnly, OnlyRefusedDies
<1> QED
  BY <1>1, <1>2, <1>3, BatchTypeCorrect, LeasesHold, PTL DEF BatchSpec

LEMMA CountsHold == BatchSpec => []BatchInv
<1>1. BatchInit => BatchInv
  <2> SUFFICES ASSUME BatchInit, NEW p \in Post PROVE Counts(p)
    BY DEF BatchInv
  <2>1. /\ at[p] = "createMany" /\ left[p] = Items[p] /\ inserted = {}
        /\ answer[p].accepted = 0 /\ answer[p].failed = {}
    BY DEF BatchInit
  <2>2. Dealt(p) = {} /\ Own(p) = {} /\ Cardinality({}) = 0
    BY <2>1, FS_EmptySet DEF Dealt, Own
  <2> QED
    BY <2>1, <2>2 DEF Counts
<1>2. BatchTypeOK /\ BatchInv /\ [BatchNext]_batchVars => BatchInv'
  <2>1. BatchInv /\ UNCHANGED batchVars => BatchInv'
    <3> SUFFICES ASSUME BatchInv, UNCHANGED batchVars, NEW p \in Post PROVE Counts(p)'
      BY DEF BatchInv
    <3>1. UNCHANGED <<at, left, inserted, answer, faults>>
      BY DEF batchVars, vars, postVars
    <3>2. Dealt(p)' = Dealt(p) /\ Own(p)' = Own(p) /\ Counts(p)
      BY <3>1 DEF Dealt, Own, BatchInv
    <3> QED
      BY <3>1, <3>2 DEF Counts
  <2> QED
    BY <2>1, BatchInvStep
<1> QED
  BY <1>1, <1>2, BatchTypeCorrect, PTL DEF BatchSpec

\* An answer never claims a row the request has not stored; until something
\* fails it claims each of them and names just the refused items as failed.
THEOREM AnswersAreHonest == BatchSpec => []AnswerIsHonest
<1>1. BatchTypeOK /\ BatchInv => AnswerIsHonest
  BY DEF BatchInv, Counts, Own, Dealt, Answered, AnswerIsHonest
<1> QED
  BY <1>1, BatchTypeCorrect, CountsHold, PTL

\* Of an answered batch every item is stored or on record, but for one item at
\* most for each fault.
THEOREM ItemsLeaveTraces == BatchSpec => []EachItemLeavesATrace
<1>1. BatchInit => Traces
  <2> SUFFICES ASSUME BatchInit, NEW p \in Post PROVE Cardinality(Traceless(p)) <= faults
    BY DEF Traces, BatchInit, Init, NotClearing
  <2>1. Traceless(p) = {} /\ faults = 0 /\ Cardinality({}) = 0
    BY FS_EmptySet DEF BatchInit, Init, LeaseInit, Traceless, Dealt
  <2> QED
    BY <2>1
<1>2. BatchTypeOK /\ BatchInv /\ Traces /\ [BatchNext]_batchVars => Traces'
  <2>1. Traces /\ UNCHANGED batchVars => Traces'
    BY DEF Traces, Traceless, Traced, Dealt, batchVars, vars, rawVars, clearVars, postVars
  <2> QED
    BY <2>1, TracesStep
<1>3. Traces => EachItemLeavesATrace
  <2> SUFFICES ASSUME Traces, clears = 0, NEW p \in Post, Answered(p)
               PROVE  Cardinality({i \in Items[p] : Uid[i] \notin raw /\ i \notin recorded}) <= faults
    BY DEF EachItemLeavesATrace
  <2>1. Traceless(p) = {i \in Items[p] : Uid[i] \notin raw /\ i \notin recorded}
    BY DEF Traceless, Traced, Dealt, Answered
  <2> QED
    BY <2>1 DEF Traces
<1> QED
  BY <1>1, <1>2, <1>3, BatchTypeCorrect, CountsHold, PTL DEF BatchSpec
=============================================================================
