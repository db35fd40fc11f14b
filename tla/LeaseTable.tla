----------------------------- MODULE LeaseTable -----------------------------
(***************************************************************************)
(* The table both processors of the worker process drain: outbox_events    *)
(* and ingest_queue have the same columns, the same claiming statement and *)
(* the same three closing updates.  A job is its rank in created_at order. *)
(*                                                                         *)
(* Time is external: next_attempt_at passes (ComesDue) and a lease runs    *)
(* out (LeaseExpires) at any moment, early or late, of any worker's work.  *)
(***************************************************************************)
EXTENDS Integers, FiniteSetsExt

CONSTANTS
    Job,            \* rows of the table, as ranks of created_at
    Worker,         \* processes with APP_ROLE=worker
    BatchSize,      \* *_BATCH_SIZE
    MaxAttempts,    \* *_MAX_ATTEMPTS
    LostReplies,    \* whether a statement may take effect and still fail
    MaxFaults       \* bound on failed statements, crashes and expired leases

ASSUME LeaseAssumption ==
    /\ Job \subseteq Nat
    /\ IsFiniteSet(Job)
    /\ BatchSize \in Nat \ {0}
    /\ MaxAttempts \in Nat \ {0}
    /\ LostReplies \in BOOLEAN
    /\ MaxFaults \in Nat

VARIABLES
    status,     \* [Job -> column status, or ABSENT before and DELETED after the row]
    attempts,   \* [Job -> column attempts]
    due,        \* [Job -> next_attempt_at <= now()]
    expired,    \* [Job -> claim_expires_at < now()]
    batch,      \* [Worker -> claims not begun: what claimBatch returned]
    current,    \* [Worker -> set of at most one claim: the job being processed]
    stage,      \* [Worker -> where process() is]
    faults      \* faults used, at most MaxFaults

tableVars == <<status, attempts, due, expired>>
workerVars == <<batch, current, stage>>

Status == {"ABSENT", "PENDING", "CLAIMED", "DONE", "DEAD", "DELETED"}
Claim == [job : Job, attempts : Nat]

LeaseInit ==
    /\ attempts = [j \in Job |-> 0]
    /\ due = [j \in Job |-> TRUE]
    /\ expired = [j \in Job |-> FALSE]
    /\ batch = [w \in Worker |-> {}]
    /\ current = [w \in Worker |-> {}]
    /\ stage = [w \in Worker |-> "idle"]
    /\ faults = 0

UseFault == faults < MaxFaults /\ faults' = faults + 1
Goto(w, s) == stage' = [stage EXCEPT ![w] = s]

----------------------------------------------------------------------------
(* claimBatch(), called by tick() when this process is not running one.    *)

\* Mutant of Claimable: a claim is never taken over.
ClaimableOnce(j) == status[j] = "PENDING" /\ due[j]

\* Mutant of Claimable: a lease is taken over before it expires.
ClaimableEarly(j) == (status[j] = "PENDING" /\ due[j]) \/ status[j] = "CLAIMED"

\* Mutant of Claimable: the status is not asked for.
ClaimableWhenDue(j) == status[j] # "ABSENT" /\ due[j]

Claimable(j) ==
    \/ status[j] = "PENDING" /\ due[j]
    \/ status[j] = "CLAIMED" /\ expired[j]

\* ORDER BY created_at LIMIT BatchSize.
Picked ==
    {j \in Job : Claimable(j) /\ Cardinality({i \in Job : Claimable(i) /\ i < j}) < BatchSize}

\* Mutant of Counted: a takeover does not count as an attempt.
CountedOnce(j) == IF status[j] = "PENDING" THEN attempts[j] + 1 ELSE attempts[j]

Counted(j) == attempts[j] + 1

ClaimBatch(w) ==
    /\ stage[w] = "idle"
    /\ Picked # {}
    /\ status' = [j \in Job |-> IF j \in Picked THEN "CLAIMED" ELSE status[j]]
    /\ attempts' = [j \in Job |-> IF j \in Picked THEN Counted(j) ELSE attempts[j]]
    /\ expired' = [j \in Job |-> IF j \in Picked THEN FALSE ELSE expired[j]]
    /\ batch' = [batch EXCEPT ![w] = {[job |-> j, attempts |-> Counted(j)] : j \in Picked}]
    /\ Goto(w, "next")
    /\ UNCHANGED <<due, current>>

\* The for loop of tick(): RETURNING promises no order.
BeginJob(w, c, s) ==
    /\ stage[w] = "next"
    /\ c \in batch[w]
    /\ batch' = [batch EXCEPT ![w] = @ \ {c}]
    /\ current' = [current EXCEPT ![w] = {c}]
    /\ Goto(w, s)
    /\ UNCHANGED tableVars

EndTick(w) ==
    /\ stage[w] = "next"
    /\ batch[w] = {}
    /\ Goto(w, "idle")
    /\ UNCHANGED <<tableVars, batch, current>>

----------------------------------------------------------------------------
(* markDone, markDead, scheduleRetry: unconditional updates by id.         *)

EndJob(w) ==
    /\ current' = [current EXCEPT ![w] = {}]
    /\ Goto(w, "next")
    /\ UNCHANGED batch

\* WHERE id = ... matches nothing once the row was deleted.
SetStatus(j, s) == status' = [status EXCEPT ![j] = IF @ = "DELETED" THEN @ ELSE s]

markDone(j) == SetStatus(j, "DONE") /\ UNCHANGED <<attempts, due, expired>>

markDead(j) == SetStatus(j, "DEAD") /\ UNCHANGED <<attempts, due, expired>>

\* Mutant of scheduleRetry: a status the claiming statement does not know.
RetryUnderOwnStatus(j) ==
    /\ SetStatus(j, "RETRY")
    /\ due' = [due EXCEPT ![j] = FALSE]
    /\ expired' = [expired EXCEPT ![j] = FALSE]
    /\ UNCHANGED attempts

\* claim_expires_at becomes NULL, which is never in the past.
scheduleRetry(j) ==
    /\ SetStatus(j, "PENDING")
    /\ due' = [due EXCEPT ![j] = FALSE]
    /\ expired' = [expired EXCEPT ![j] = FALSE]
    /\ UNCHANGED attempts

\* Mutant of Exhausted: gives up one attempt early.
ExhaustedEarly(c) == c.attempts >= MaxAttempts - 1

Exhausted(c) == c.attempts >= MaxAttempts

\* The end of process()'s catch block, by the attempts of the claim.
SettleFailure(w) ==
    \E c \in current[w] : IF Exhausted(c) THEN markDead(c.job) ELSE scheduleRetry(c.job)

\* An exception that leaves process() ends tick(): the rest of the batch is
\* dropped and stays CLAIMED until its lease expires.
AbandonTick(w) ==
    /\ batch' = [batch EXCEPT ![w] = {}]
    /\ current' = [current EXCEPT ![w] = {}]
    /\ Goto(w, "idle")

----------------------------------------------------------------------------
(* The clock and the process supervisor.                                   *)

ComesDue(j) ==
    /\ status[j] = "PENDING" /\ ~due[j]
    /\ due' = [due EXCEPT ![j] = TRUE]
    /\ UNCHANGED <<status, attempts, expired, workerVars, faults>>

HeldBy(w) == batch[w] \cup current[w]
Held(j) == \E w \in Worker : \E c \in HeldBy(w) : c.job = j

\* A claim nobody works on any more always expires in the end.
OrphanExpires(j) ==
    /\ status[j] = "CLAIMED" /\ ~expired[j] /\ ~Held(j)
    /\ expired' = [expired EXCEPT ![j] = TRUE]
    /\ UNCHANGED <<status, attempts, due, workerVars, faults>>

\* The lease covers the whole batch from the moment of the claim, so that it
\* may run out while its worker still has the job to do or is at it.
LeaseExpires(j) ==
    /\ status[j] = "CLAIMED" /\ ~expired[j] /\ Held(j)
    /\ expired' = [expired EXCEPT ![j] = TRUE]
    /\ UseFault
    /\ UNCHANGED <<status, attempts, due, workerVars>>

\* The container restarts the process, which remembers no claim.
WorkerCrashes(w) ==
    /\ stage[w] # "idle"
    /\ AbandonTick(w)
    /\ UseFault
    /\ UNCHANGED tableVars

Clock(j) == ComesDue(j) \/ OrphanExpires(j)

----------------------------------------------------------------------------
(* Properties both processors share.                                       *)

LeaseTypeOK ==
    /\ status \in [Job -> Status]
    /\ attempts \in [Job -> Nat]
    /\ due \in [Job -> BOOLEAN]
    /\ expired \in [Job -> BOOLEAN]
    /\ batch \in [Worker -> SUBSET Claim]
    /\ current \in [Worker -> SUBSET Claim]
    /\ faults \in 0..MaxFaults

\* A claim is a fencing token nobody checks: two claims of one job, wherever
\* they are held, were numbered apart and only the newest has the row's number.
ClaimsAreNumbered ==
    \A v, w \in Worker : \A c \in HeldBy(v), d \in HeldBy(w) :
        c.job = d.job /\ c.attempts = d.attempts => v = w /\ c = d

\* Two workers have one job at once only after a lease ran out under the
\* first: SKIP LOCKED and the status column alone keep them apart.
SharedOnlyAfterExpiry ==
    faults = 0 => \A v, w \in Worker : \A c \in HeldBy(v), d \in HeldBy(w) :
        c.job = d.job => v = w

\* Until something fails a closed job stays closed, although the updates that
\* close and reopen jobs ask for nothing but the id: no job is claimed twice.
ClosedIsFinal ==
    [][faults' = 0 => \A j \in Job :
          status[j] \in {"DONE", "DEAD"} => status'[j] \in {status[j], "DELETED"}]_<<tableVars, faults>>

\* Every job is closed in the end and stays so: failures, crashes and leases
\* that expire under their worker only delay it.
EventuallyClosed == \A j \in Job : <>[](status[j] \in {"DONE", "DEAD", "DELETED"})
=============================================================================
