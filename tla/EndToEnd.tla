------------------------------- MODULE EndToEnd -------------------------------
(***************************************************************************)
(* The whole way of a transfer: the API's transaction, the outbox events   *)
(* its COMMIT makes visible, and the workers that deliver them.  Transfers *)
(* and OutboxWorker share the table outbox_events.                         *)
(***************************************************************************)
EXTENDS Transfers

CONSTANTS
    Worker, BatchSize, LostReplies,     \* of OutboxWorker
    MaxDeliveries,                      \* OUTBOX_MAX_ATTEMPTS
    JobOf                               \* [Key \X EventType -> the row's rank in the table]

\* No transfer has more than one event of a type.
ASSUME JobAssumption ==
    /\ JobOf \in [Key \X EventType -> Nat]
    /\ \A x, y \in Key \X EventType : JobOf[x] = JobOf[y] => x = y

VARIABLES
    status, attempts, due, expired, batch, current, workStage,  \* of OutboxWorker
    recommendations, advised, sent

Job == {JobOf[x] : x \in Key \X EventType}
TypeOf == [j \in Job |-> CHOOSE y \in EventType : \E k \in Key : JobOf[<<k, y>>] = j]

\* Request handlers and workers count faults together.
W == INSTANCE OutboxWorker WITH
        stage <- workStage, EventType <- TypeOf, MaxAttempts <- MaxDeliveries

apiVars == <<stage, attempt, result, dbVars, txVars, audit>>
restVars == <<attempts, due, expired, batch, current, workStage, recommendations, advised, sent>>
allVars == <<vars, status, restVars>>

EndToEndInit ==
    /\ Init
    /\ W!LeaseInit
    /\ status = [j \in Job |-> "ABSENT"]
    /\ recommendations = {}
    /\ advised = [j \in Job |-> 0]
    /\ sent = [j \in Job |-> 0]

RowOf(e) == JobOf[<<Body[e.transfer[1]].key, e.type>>]

\* What a step of a request makes visible in outbox_events is PENDING.
Api(A) ==
    /\ A
    /\ status' = [j \in Job |-> IF j \in {RowOf(e) : e \in outbox' \ outbox} THEN "PENDING" ELSE status[j]]
    /\ UNCHANGED restVars

Work(A) == A /\ UNCHANGED apiVars

EndToEndNext ==
    \/ \E r \in Request : Api(Progress(r)) \/ Api(Fault(r))
    \/ \E w \in Worker : Work(W!Progress(w)) \/ Work(W!Fault(w))
    \/ \E j \in Job : Work(W!Passes(j)) \/ Work(W!Expires(j))

EndToEndSpec == EndToEndInit /\ [][EndToEndNext]_allVars

FairEndToEndSpec ==
    /\ EndToEndSpec
    /\ \A r \in Request : WF_allVars(Api(Progress(r)))
    /\ \A w \in Worker : WF_allVars(Work(W!Progress(w)))
    /\ \A j \in Job : WF_allVars(Work(W!Passes(j)))

----------------------------------------------------------------------------
D == INSTANCE Delivery WITH
        posted <- {k \in Key : transfers[k] # NoTransfer},
        recommended <- {k \in Key : JobOf[<<k, "AI_RECOMMEND">>] \in recommendations},
        told <- {k \in Key : sent[JobOf[<<k, "BANCS_SIMULATED">>]] > 0}

\* API and workers together implement the delivery: nobody is advised on, and
\* Bancs is told of, no transfer that was rolled back or is not committed yet.
ImplementsDelivery == D!Spec

\* With fewer faults than attempts each committed transfer is recommended on
\* and told of in the end, whether or not its client was ever answered.
EventuallyDelivered == D!EachGetsBoth
=============================================================================
