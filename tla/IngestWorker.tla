---------------------------- MODULE IngestWorker ----------------------------
(***************************************************************************)
(* IngestProcessor: drains ingest_queue into raw_transactions, while the   *)
(* API inserts queue rows and an operator may clear both tables            *)
(* (RawTransactionsService.clearAll).                                      *)
(***************************************************************************)
EXTENDS LeaseTable, Functions

CONSTANTS
    Uid,            \* uid in the payload of each job (and batch item), not unique
    Storable,       \* those whose payload raw_transactions accepts
    MaxClears       \* bound on clearAll calls

ASSUME IngestAssumption ==
    /\ Job \subseteq DOMAIN Uid
    /\ Storable \subseteq DOMAIN Uid
    /\ MaxClears \in Nat

VARIABLES
    raw,        \* uids with a row in raw_transactions
    writers,    \* [uid -> who inserted a row with it since the last clear]
    clearing,   \* uids whose rows clearAll has deleted but not committed, or None
    clears      \* clearAll calls begun

rawVars == <<raw, writers>>
clearVars == <<clearing, clears>>
vars == <<tableVars, workerVars, faults, rawVars, clearVars>>

Uids == Range(Uid)
NotClearing == [uids |-> {}, open |-> FALSE]

Init ==
    /\ LeaseInit
    /\ status = [j \in Job |-> "ABSENT"]
    /\ raw = {}
    /\ writers = [u \in Uids |-> {}]
    /\ clearing = NotClearing
    /\ clears = 0

----------------------------------------------------------------------------
(* The other side of the queue: the API's createMany, and clearAll's two   *)
(* deletes in one transaction.                                             *)

Enqueue(j) ==
    /\ status[j] = "ABSENT"
    /\ \A i \in Job : i < j => status[i] # "ABSENT"
    /\ SetStatus(j, "PENDING")
    /\ UNCHANGED <<attempts, due, expired, workerVars, faults, rawVars, clearVars>>

DeleteRaw ==
    /\ ~clearing.open
    /\ clears < MaxClears
    /\ clearing' = [uids |-> raw, open |-> TRUE]
    /\ clears' = clears + 1
    /\ UNCHANGED <<tableVars, workerVars, faults, rawVars>>

\* Mutant of DeleteQueueAndCommit: the queue is left as it is.
CommitRawOnly ==
    /\ clearing.open
    /\ raw' = raw \ clearing.uids
    /\ writers' = [u \in Uids |-> IF u \in clearing.uids THEN {} ELSE writers[u]]
    /\ clearing' = NotClearing
    /\ UNCHANGED <<tableVars, workerVars, faults, clears>>

DeleteQueueAndCommit ==
    /\ clearing.open
    /\ raw' = raw \ clearing.uids
    /\ writers' = [u \in Uids |-> IF u \in clearing.uids THEN {} ELSE writers[u]]
    /\ status' = [j \in Job |-> IF status[j] = "ABSENT" THEN "ABSENT" ELSE "DELETED"]
    /\ clearing' = NotClearing
    /\ UNCHANGED <<attempts, due, expired, workerVars, faults, clears>>

----------------------------------------------------------------------------
Claims(w) == ClaimBatch(w) /\ UNCHANGED <<faults, rawVars, clearVars>>
Ends(w) == EndTick(w) /\ UNCHANGED <<faults, rawVars, clearVars>>

Begins(w) ==
    /\ \E c \in batch[w] : BeginJob(w, c, "persist")
    /\ UNCHANGED <<faults, rawVars, clearVars>>

At(w, s, c) == stage[w] = s /\ c \in current[w]

\* An insert of a uid that clearAll is deleting waits for its commit.
MayInsert(u) == u \notin clearing.uids

\* Mutant of Taken: no unique index on uid.
NeverTaken(u) == FALSE

Taken(u) == u \in raw

Inserted(j) ==
    /\ raw' = raw \cup {Uid[j]}
    /\ writers' = [writers EXCEPT ![Uid[j]] = @ \cup {j}]

Persists(w) ==
    /\ \E c \in current[w] :
         /\ At(w, "persist", c)
         /\ c.job \in Storable
         /\ MayInsert(Uid[c.job])
         /\ ~Taken(Uid[c.job])
         /\ Inserted(c.job)
    /\ Goto(w, "mark")
    /\ UNCHANGED <<tableVars, batch, current, faults, clearVars>>

\* Mutant of MeetsDuplicate: P2002 is an error like any other.
DuplicateIsError(w) ==
    /\ \E c \in current[w] :
         /\ At(w, "persist", c)
         /\ c.job \in Storable
         /\ MayInsert(Uid[c.job])
         /\ Taken(Uid[c.job])
    /\ Goto(w, "caught")
    /\ UNCHANGED <<tableVars, batch, current, faults, rawVars, clearVars>>

\* P2002: the uid is there already, from a duplicate or an earlier attempt.
MeetsDuplicate(w) ==
    /\ \E c \in current[w] :
         /\ At(w, "persist", c)
         /\ c.job \in Storable
         /\ MayInsert(Uid[c.job])
         /\ Taken(Uid[c.job])
    /\ Goto(w, "markDuplicate")
    /\ UNCHANGED <<tableVars, batch, current, faults, rawVars, clearVars>>

\* A missing field, a bad date, an amount or a status the table refuses.
IsRefused(w) ==
    /\ \E c \in current[w] : At(w, "persist", c) /\ c.job \notin Storable
    /\ Goto(w, "caught")
    /\ UNCHANGED <<tableVars, batch, current, faults, rawVars, clearVars>>

MarksDone(w) ==
    /\ stage[w] \in {"mark", "markDuplicate"}
    /\ \E c \in current[w] : markDone(c.job)
    /\ EndJob(w)
    /\ UNCHANGED <<faults, rawVars, clearVars>>

Settles(w) ==
    /\ stage[w] = "caught"
    /\ SettleFailure(w)
    /\ EndJob(w)
    /\ UNCHANGED <<faults, rawVars, clearVars>>

----------------------------------------------------------------------------
(* Faults.                                                                 *)

StatementFails(w) ==
    /\ stage[w] \in {"persist", "mark"}
    /\ Goto(w, "caught")
    /\ UseFault
    /\ UNCHANGED <<tableVars, batch, current, rawVars, clearVars>>

PersistUnacknowledged(w) ==
    /\ LostReplies
    /\ \E c \in current[w] :
         /\ At(w, "persist", c)
         /\ c.job \in Storable
         /\ MayInsert(Uid[c.job])
         /\ ~Taken(Uid[c.job])
         /\ Inserted(c.job)
    /\ Goto(w, "caught")
    /\ UseFault
    /\ UNCHANGED <<tableVars, batch, current, clearVars>>

MarkUnacknowledged(w) ==
    /\ LostReplies
    /\ \E c \in current[w] : At(w, "mark", c) /\ markDone(c.job)
    /\ Goto(w, "caught")
    /\ UseFault
    /\ UNCHANGED <<batch, current, rawVars, clearVars>>

\* In the catch block nothing is caught: the tick is over.
CatchFails(w) ==
    /\ stage[w] \in {"markDuplicate", "caught"}
    /\ AbandonTick(w)
    /\ UseFault
    /\ UNCHANGED <<tableVars, rawVars, clearVars>>

CatchUnacknowledged(w) ==
    /\ LostReplies
    /\ \/ stage[w] = "caught" /\ SettleFailure(w)
       \/ stage[w] = "markDuplicate" /\ \E c \in current[w] : markDone(c.job)
    /\ AbandonTick(w)
    /\ UseFault
    /\ UNCHANGED <<rawVars, clearVars>>

Crashes(w) == WorkerCrashes(w) /\ UNCHANGED <<rawVars, clearVars>>
Expires(j) == LeaseExpires(j) /\ UNCHANGED <<rawVars, clearVars>>
Passes(j) == Clock(j) /\ UNCHANGED <<rawVars, clearVars>>

Progress(w) ==
    \/ Claims(w) \/ Begins(w) \/ Persists(w) \/ MeetsDuplicate(w) \/ IsRefused(w)
    \/ MarksDone(w) \/ Settles(w) \/ Ends(w)

Fault(w) ==
    \/ StatementFails(w) \/ PersistUnacknowledged(w) \/ MarkUnacknowledged(w)
    \/ CatchFails(w) \/ CatchUnacknowledged(w) \/ Crashes(w)

Clears == DeleteRaw \/ DeleteQueueAndCommit

Next ==
    \/ \E w \in Worker : Progress(w) \/ Fault(w)
    \/ \E j \in Job : Enqueue(j) \/ Passes(j) \/ Expires(j)
    \/ Clears

Spec == Init /\ [][Next]_vars

FairSpec ==
    /\ Spec
    /\ \A w \in Worker : WF_vars(Progress(w))
    /\ \A j \in Job : WF_vars(Passes(j)) /\ WF_vars(Enqueue(j))
    /\ WF_vars(DeleteQueueAndCommit)

----------------------------------------------------------------------------
\* Every variable keeps its type; a worker is at one of the awaits of process().
TypeOK ==
    /\ LeaseTypeOK
    /\ stage \in [Worker -> {"idle", "next", "persist", "mark", "markDuplicate", "caught"}]
    /\ raw \subseteq Uids
    /\ writers \in [Uids -> SUBSET DOMAIN Uid]
    /\ clearing \in [uids : SUBSET Uids, open : BOOLEAN]
    /\ clears \in 0..MaxClears

\* A queue row is DONE only when its uid is in raw_transactions, through
\* retries, duplicates, takeovers and a clearAll at any moment.
DoneIsStored == \A j \in Job : status[j] = "DONE" => Uid[j] \in raw

\* One uid is stored once between two clears, however often the queue and the
\* batches hold it and however many processes insert it.
StoredOnce == \A u \in Uids : Cardinality(writers[u]) <= 1 /\ (writers[u] = {} <=> u \notin raw)

\* Without faults only a refused payload is given up.
OnlyRefusedDies == faults = 0 => \A j \in Job \cap Storable : status[j] # "DEAD"
=============================================================================
