------------------------------ MODULE RawBatches ------------------------------
(***************************************************************************)
(* RawTransactionsService.createBatch: POST /raw-transactions/batch writes *)
(* straight to raw_transactions, beside the workers that drain the queue   *)
(* into it and beside clearAll.  One createMany stores the whole batch; if *)
(* it fails for any reason the items are inserted one by one.              *)
(***************************************************************************)
EXTENDS IngestWorker

CONSTANTS
    Post,       \* requests, past the DTO check
    Items       \* [Post -> its items, as ranks of their order]

ASSUME BatchAssumption ==
    /\ Items \in [Post -> SUBSET ((DOMAIN Uid \ Job) \cap Nat) \ {{}}]
    /\ \A p \in Post : IsFiniteSet(Items[p])
    /\ \A p, q \in Post : p # q => Items[p] \cap Items[q] = {}

VARIABLES
    at,         \* [Post -> the await createBatch is at]
    left,       \* [Post -> items the fallback has not dealt with]
    answer,     \* [Post -> the counts, and the items called infraFailed]
    inserted,   \* items that their own request has stored
    recorded    \* items with a row in infra_exceptions

postVars == <<at, left, answer, inserted, recorded>>
queueVars == <<tableVars, workerVars, clearVars>>
batchVars == <<vars, postVars>>

Item == UNION Range(Items)

BatchInit ==
    /\ Init
    /\ at = [p \in Post |-> "createMany"]
    /\ left = Items
    /\ answer = [p \in Post |-> [accepted |-> 0, duplicates |-> 0, failed |-> {}]]
    /\ inserted = {}
    /\ recorded = {}

----------------------------------------------------------------------------
(* createMany with skipDuplicates: one statement for the whole batch.      *)

Fresh(p) == {i \in Items[p] : ~Taken(Uid[i]) /\ \A k \in Items[p] : k < i => Uid[k] # Uid[i]}

Store(S) ==
    /\ raw' = raw \cup {Uid[i] : i \in S}
    /\ writers' = [u \in Uids |-> writers[u] \cup {i \in S : Uid[i] = u}]
    /\ inserted' = inserted \cup S

MayStore(p, S) == S \subseteq Storable /\ \A i \in S : MayInsert(Uid[i])

StoresAll(p) ==
    /\ at[p] = "createMany"
    /\ MayStore(p, Items[p])
    /\ Store(Fresh(p))
    /\ answer' = [answer EXCEPT ![p].accepted = Cardinality(Fresh(p)),
                                ![p].duplicates = Cardinality(Items[p] \ Fresh(p))]
    /\ at' = [at EXCEPT ![p] = "answered"]
    /\ UNCHANGED <<queueVars, faults, left, recorded>>

\* One payload the table refuses, and nothing of the batch is stored.
RefusesAll(p) ==
    /\ at[p] = "createMany"
    /\ ~(Items[p] \subseteq Storable)
    /\ at' = [at EXCEPT ![p] = "create"]
    /\ UNCHANGED <<queueVars, rawVars, faults, left, answer, inserted, recorded>>

----------------------------------------------------------------------------
(* The fallback: one create per item, in the order of the request.         *)

Handles(p, i) == at[p] = "create" /\ i \in left[p] /\ \A k \in left[p] : i <= k

\* The loop goes on, or the answer is sent.
Past(p, i) ==
    /\ left' = [left EXCEPT ![p] = @ \ {i}]
    /\ at' = [at EXCEPT ![p] = IF left[p] = {i} THEN "answered" ELSE "create"]

StoresItem(p, i) ==
    /\ Handles(p, i)
    /\ MayStore(p, {i})
    /\ ~Taken(Uid[i])
    /\ Store({i})
    /\ answer' = [answer EXCEPT ![p].accepted = @ + 1]
    /\ Past(p, i)
    /\ UNCHANGED <<queueVars, faults, recorded>>

\* Mutant of MeetsStored: P2002 is an error like any other.
StoredIsFailure(p, i) ==
    /\ Handles(p, i)
    /\ MayStore(p, {i})
    /\ Taken(Uid[i])
    /\ at' = [at EXCEPT ![p] = "record"]
    /\ UNCHANGED <<queueVars, rawVars, faults, left, answer, inserted, recorded>>

\* P2002: the uid is there, from the queue, another batch or this one.
MeetsStored(p, i) ==
    /\ Handles(p, i)
    /\ MayStore(p, {i})
    /\ Taken(Uid[i])
    /\ answer' = [answer EXCEPT ![p].duplicates = @ + 1]
    /\ Past(p, i)
    /\ UNCHANGED <<queueVars, rawVars, faults, inserted, recorded>>

\* Mutant of RefusesItem: whatever create throws is taken for a duplicate.
RefusedIsDuplicate(p, i) ==
    /\ Handles(p, i)
    /\ i \notin Storable
    /\ answer' = [answer EXCEPT ![p].duplicates = @ + 1]
    /\ Past(p, i)
    /\ UNCHANGED <<queueVars, rawVars, faults, inserted, recorded>>

RefusesItem(p, i) ==
    /\ Handles(p, i)
    /\ i \notin Storable
    /\ at' = [at EXCEPT ![p] = "record"]
    /\ UNCHANGED <<queueVars, rawVars, faults, left, answer, inserted, recorded>>

Reporting(p, i) == at[p] = "record" /\ i \in left[p] /\ \A k \in left[p] : i <= k

\* infraFailed gets the item whether or not the exception could be recorded.
Reported(p, i) ==
    /\ answer' = [answer EXCEPT ![p].failed = @ \cup {i}]
    /\ Past(p, i)
    /\ UNCHANGED <<queueVars, rawVars, inserted>>

recordFromError(p, i) ==
    /\ Reporting(p, i)
    /\ recorded' = recorded \cup {i}
    /\ Reported(p, i)
    /\ UNCHANGED faults

----------------------------------------------------------------------------
(* Faults.                                                                 *)

\* A timeout, a lost connection, or a deadlock with a batch that holds the
\* same uids in another order.
CreateManyFails(p) ==
    /\ at[p] = "createMany"
    /\ at' = [at EXCEPT ![p] = "create"]
    /\ UseFault
    /\ UNCHANGED <<queueVars, rawVars, left, answer, inserted, recorded>>

CreateManyUnacknowledged(p) ==
    /\ LostReplies
    /\ at[p] = "createMany"
    /\ MayStore(p, Items[p])
    /\ Store(Fresh(p))
    /\ at' = [at EXCEPT ![p] = "create"]
    /\ UseFault
    /\ UNCHANGED <<queueVars, left, answer, recorded>>

CreateFails(p) ==
    /\ at[p] = "create"
    /\ at' = [at EXCEPT ![p] = "record"]
    /\ UseFault
    /\ UNCHANGED <<queueVars, rawVars, left, answer, inserted, recorded>>

CreateUnacknowledged(p, i) ==
    /\ LostReplies
    /\ Handles(p, i)
    /\ MayStore(p, {i})
    /\ ~Taken(Uid[i])
    /\ Store({i})
    /\ at' = [at EXCEPT ![p] = "record"]
    /\ UseFault
    /\ UNCHANGED <<queueVars, left, answer, recorded>>

\* record() logs its own failure and goes on.
RecordFails(p, i) ==
    /\ Reporting(p, i)
    /\ Reported(p, i)
    /\ UseFault
    /\ UNCHANGED recorded

\* The API process dies between two statements.
ApiDies(p) ==
    /\ at[p] \notin {"answered", "gone"}
    /\ at' = [at EXCEPT ![p] = "gone"]
    /\ UseFault
    /\ UNCHANGED <<queueVars, rawVars, left, answer, inserted, recorded>>

----------------------------------------------------------------------------
Handling(p) ==
    \/ StoresAll(p) \/ RefusesAll(p) \/ CreateManyFails(p) \/ CreateManyUnacknowledged(p)
    \/ CreateFails(p) \/ ApiDies(p)
    \/ \E i \in Items[p] :
         \/ StoresItem(p, i) \/ MeetsStored(p, i) \/ RefusesItem(p, i) \/ recordFromError(p, i)
         \/ CreateUnacknowledged(p, i) \/ RecordFails(p, i)

Beside(A) == A /\ UNCHANGED postVars

BatchNext ==
    \/ \E w \in Worker : Beside(Progress(w)) \/ Beside(Fault(w))
    \/ \E j \in Job : Beside(Enqueue(j)) \/ Beside(Passes(j)) \/ Beside(Expires(j))
    \/ Beside(Clears)
    \/ \E p \in Post : Handling(p)

BatchSpec == BatchInit /\ [][BatchNext]_batchVars

\* What IngestWorker asks for; nobody waits for a batch.
FairBatchSpec ==
    /\ BatchSpec
    /\ \A w \in Worker : WF_batchVars(Beside(Progress(w)))
    /\ \A j \in Job : WF_batchVars(Beside(Passes(j))) /\ WF_batchVars(Beside(Enqueue(j)))
    /\ WF_batchVars(Beside(DeleteQueueAndCommit))

----------------------------------------------------------------------------
\* Every variable keeps its type, those of the queue included.
BatchTypeOK ==
    /\ TypeOK
    /\ at \in [Post -> {"createMany", "create", "record", "answered", "gone"}]
    /\ left \in [Post -> SUBSET Item]
    /\ answer \in [Post -> [accepted : Nat, duplicates : Nat, failed : SUBSET Item]]
    /\ inserted \subseteq Item
    /\ recorded \subseteq Item

Answered(p) == at[p] = "answered"

\* The counts of an answer: "accepted" never claims a row the request did not
\* store itself, and until something fails it claims them all and one refused
\* item costs only itself.  After a lost answer of createMany the fallback
\* finds its own rows and calls them duplicates: less than the truth.
AnswerIsHonest ==
    \A p \in Post : Answered(p) =>
        LET own == Cardinality(inserted \cap Items[p])
        IN  /\ answer[p].accepted <= own
            /\ faults = 0 => answer[p].accepted = own /\ answer[p].failed = Items[p] \ Storable

\* "negocio -> raw_transactions; excepcion -> infra_exceptions" (the rule the
\* emitter prints): of an answered batch each item is in the one table or the
\* other, but for as many as the faults that hit.
EachItemLeavesATrace ==
    clears = 0 => \A p \in Post : Answered(p) =>
        Cardinality({i \in Items[p] : Uid[i] \notin raw /\ i \notin recorded}) <= faults
=============================================================================
