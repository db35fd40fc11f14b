------------------------------- MODULE Pipeline -------------------------------
(***************************************************************************)
(* The whole way of a posted transaction: the buffer of one API process,   *)
(* the table ingest_queue, the workers and raw_transactions.  IngestBuffer *)
(* and IngestWorker share the table, which the one fills and the other     *)
(* drains, and clearAll, which empties the buffer and both tables.         *)
(***************************************************************************)
EXTENDS IngestBuffer

CONSTANTS
    Worker, ClaimSize, MaxAttempts, Uid, Storable, MaxClears    \* of IngestWorker

ASSUME PipelineAssumption == Item \subseteq DOMAIN Uid

VARIABLES
    status, attempts, due, expired, batch, current, stage,      \* of IngestWorker
    raw, writers, clearing, clears

\* The rows both see are those of the items; the two count faults together.
W == INSTANCE IngestWorker WITH Job <- Item, BatchSize <- ClaimSize

bufferVars == <<svc, flights, reporting, drain, accepted, tables, lost>>
drainVars == <<batch, current, stage, raw, writers, clears>>
allVars == <<vars, status, attempts, due, expired, drainVars, clearing>>

PipelineInit == Init /\ W!Init

\* A row the buffer writes is PENDING, due at once and never tried.
RowsArrive ==
    LET new == queue' \ queue
        Set(f, v) == [i \in Item |-> IF i \in new THEN v ELSE f[i]]
    IN  /\ status' = Set(status, "PENDING")
        /\ attempts' = Set(attempts, 0)
        /\ due' = Set(due, TRUE)
        /\ expired' = Set(expired, FALSE)

Api(A) == A /\ RowsArrive /\ UNCHANGED <<drainVars, clearing>>

\* clearAll's open transaction is rolled back with its process.
ApiDies ==
    /\ Crash
    /\ RowsArrive
    /\ clearing' = W!NotClearing
    /\ UNCHANGED drainVars

Drains(A) == A /\ UNCHANGED bufferVars

DeletesRaw == drain["clear"] = "drained" /\ Drains(W!DeleteRaw)

DeletesQueueAndCommits == Deletes /\ W!DeleteQueueAndCommit

PipelineNext ==
    \/ Api(Flushing) \/ Api(Failing) \/ Api(Calls) \/ ApiDies
    \/ DeletesRaw \/ DeletesQueueAndCommits
    \/ \E w \in Worker : Drains(W!Progress(w)) \/ Drains(W!Fault(w))
    \/ \E i \in Item : Drains(W!Passes(i)) \/ Drains(W!Expires(i))

PipelineSpec == PipelineInit /\ [][PipelineNext]_allVars

\* The fairness of the two parts.
FairPipelineSpec ==
    /\ PipelineSpec
    /\ WF_allVars(Api(TimerFires)) /\ WF_allVars(Api(ImmediateRuns))
    /\ WF_allVars(Api(TakesSlot \/ Splices \/ SplicesNothing))
    /\ WF_allVars(Api(\E f \in flights : RecordsMalformed(f) \/ Inserts(f) \/ MeetsOwnRow(f)))
    /\ \A o \in Owner : WF_allVars(Api(Reports(o)))
    /\ \A d \in Drainer : WF_allVars(Api(DrainWakes(d)))
    /\ WF_allVars(DeletesRaw) /\ WF_allVars(DeletesQueueAndCommits)
    /\ \A w \in Worker : WF_allVars(Drains(W!Progress(w)))
    /\ \A i \in Item : WF_allVars(Drains(W!Passes(i)))

----------------------------------------------------------------------------
\* The items whose own insert made the row.
I == INSTANCE Intake WITH stored <- UNION {writers[u] : u \in W!Uids}

\* Buffer, queue and workers together implement the intake: nothing is stored
\* that was not accepted, and a duplicate adds no row, wherever the two meet.
ImplementsIntake == I!Spec

\* 202 means stored and closed in the end, although an insert fails, a worker dies or a
\* lease expires on the way: unless clearAll deleted the item's row or the API
\* process died with the item in its memory.
EventuallyStored ==
    \A i \in Storable \ Malformed :
        i \in accepted ~> \/ status[i] = "DONE" /\ Uid[i] \in raw
                          \/ i \in cleared \/ i \in lost
=============================================================================
