----------------------------- MODULE Transfers -----------------------------
(***************************************************************************)
(* POST /transfers: TransfersService.create and the PostgreSQL session it  *)
(* drives.  Every await of a statement is a step of its own, so requests   *)
(* interleave between any two statements, as they do on the event loops of *)
(* the clustered API processes and in the database.                        *)
(*                                                                         *)
(* PostgreSQL is external: READ COMMITTED, transaction-scoped advisory and *)
(* row locks, a unique index that waits for an uncommitted equal key, and  *)
(* rollback that releases every lock.                                      *)
(***************************************************************************)
EXTENDS Integers, FiniteSetsExt

CONSTANTS
    Request,          \* HTTP requests, each handled once
    Body,             \* [Request -> what the client sent, after the DTO check]
    Traced,           \* requests whose x-correlation-id is a UUID
    Account,          \* accounts that exist, as ranks of their id in ORDER BY id
    AccountCurrency,  \* [Account -> currency]
    Opening,          \* [Account -> balance]
    MaxBalance,       \* largest DECIMAL(18,2)
    HashText,         \* [Key -> advisory lock number]
    Shape,            \* how the client library presents a database error
    NoTransfer, Free, \* "no such row", "nobody holds the lock"
    MaxFaults         \* bound on timeouts, lost connections and crashes

Key == {Body[r].key : r \in Request}
Bucket == {HashText[k] : k \in Key}
Content(r) == [from |-> Body[r].from, to |-> Body[r].to,
               amount |-> Body[r].amount, currency |-> Body[r].currency]

MaxAttempts == 3
EventType == {"AI_RECOMMEND", "BANCS_SIMULATED"}
TransferId == Request \X (1..MaxAttempts)
Row == [id : TransferId, from : Account, to : Account,
        amount : {Body[r].amount : r \in Request},
        currency : {Body[r].currency : r \in Request}]

ASSUME ConstantsAssumption ==
    /\ Body \in [Request -> [key : {Body[r].key : r \in Request}, from : Int, to : Int,
                             amount : Nat, currency : {Body[r].currency : r \in Request}]]
    /\ Traced \subseteq Request
    /\ Account \subseteq Int
    /\ IsFiniteSet(Account)
    /\ MaxBalance \in Nat
    /\ Opening \in [Account -> 0..MaxBalance]
    /\ Shape \subseteq {"bare", "wrapped"}
    /\ MaxFaults \in Nat
    /\ NoTransfer \notin Row
    /\ Free \notin Request

VARIABLES
    stage,      \* where each request is
    attempt,    \* iteration of executeWithRetry
    result,     \* what the request has computed; its answer once "answered"
    balance,    \* committed accounts.balance
    delta,      \* [Request -> [Account -> Int]]: uncommitted UPDATEs
    seen,       \* debit[0].balance
    transfers,  \* [Key -> committed row of transfers or NoTransfer]
    inserted,   \* [Request -> uncommitted row of transfers or NoTransfer]
    outbox,     \* committed rows of outbox_events
    emitted,    \* [Request -> uncommitted rows of outbox_events]
    advisory,   \* [Bucket -> holder of pg_advisory_xact_lock]
    rowLock,    \* [Account -> holder of the row lock]
    audit,      \* rows of transfer_failures and infra_exceptions
    faults      \* faults used, at most MaxFaults

dbVars == <<balance, transfers, outbox>>
txVars == <<delta, seen, inserted, emitted, advisory, rowLock>>
vars == <<stage, attempt, result, dbVars, txVars, audit, faults>>

----------------------------------------------------------------------------
(* Results and errors.  An error keeps the code getPgCode reads off it and *)
(* the SQLSTATE behind it, whose text is in the message in both shapes.    *)

Pending == [kind |-> "pending"]
Completed(id, replayed) == [kind |-> "completed", id |-> id, replayed |-> replayed]
Failed(code, state) == [kind |-> "failed", code |-> code, state |-> state]

DomainCode == {"INVALID_AMOUNT", "SAME_ACCOUNT", "IDEMPOTENCY_CONFLICT",
               "ACCOUNT_NOT_FOUND", "CURRENCY_MISMATCH", "INSUFFICIENT_FUNDS"}
DbState == {"40P01", "55P03", "57014", "22003", "22P02", "23505", "P2028", "lost"}
EngineCode == "P2010"

getPgCode(e, shape) == IF shape = "wrapped" THEN EngineCode ELSE e

isRecoverableConcurrencyError(e) == e.code \in {"40P01", "40001"}

\* Mutant: a lost connection counted among the timeouts.
isTimeoutOrLost(e) == e.state \in {"57014", "55P03", "lost"}

isLockOrStatementTimeout(e) ==
    e.code \in {"57014", "55P03"} \/ e.state \in {"57014", "55P03"}

InfraCode(e) ==
    CASE isLockOrStatementTimeout(e)      -> "DB_TIMEOUT"
      [] ~isLockOrStatementTimeout(e) /\ isRecoverableConcurrencyError(e) -> "DB_DEADLOCK"
      [] OTHER                            -> "INTERNAL_ERROR"

\* Mutant of AnswerCode: the driver's own code leaks to the client.
AnswerUnmapped(e) == e.code

AnswerCode(e) == IF e.code \in DomainCode THEN e.code ELSE InfraCode(e)

----------------------------------------------------------------------------
Stage == {"received", "begin", "advisory", "lookup", "lock", "debit", "credit",
          "insert", "enqueueAi", "enqueueBancs", "commit", "raised", "answered", "gone"}
InTransaction == {"advisory", "lookup", "lock", "debit", "credit",
                  "insert", "enqueueAi", "enqueueBancs", "commit"}

Init ==
    /\ stage = [r \in Request |-> "received"]
    /\ attempt = [r \in Request |-> 1]
    /\ result = [r \in Request |-> Pending]
    /\ balance = Opening
    /\ delta = [r \in Request |-> [a \in Account |-> 0]]
    /\ seen = [r \in Request |-> 0]
    /\ transfers = [k \in Key |-> NoTransfer]
    /\ inserted = [r \in Request |-> NoTransfer]
    /\ outbox = {}
    /\ emitted = [r \in Request |-> {}]
    /\ advisory = [b \in Bucket |-> Free]
    /\ rowLock = [a \in Account |-> Free]
    /\ audit = {}
    /\ faults = 0

Goto(r, s) == stage' = [stage EXCEPT ![r] = s]

DropWork(r) ==
    /\ delta' = [delta EXCEPT ![r] = [a \in Account |-> 0]]
    /\ seen' = [seen EXCEPT ![r] = 0]
    /\ inserted' = [inserted EXCEPT ![r] = NoTransfer]
    /\ emitted' = [emitted EXCEPT ![r] = {}]

ReleaseRows(r) == rowLock' = [a \in Account |-> IF rowLock[a] = r THEN Free ELSE rowLock[a]]

\* Mutant of ReleaseLocks: a session-level advisory lock outlives the transaction.
ReleaseRowsOnly(r) == ReleaseRows(r) /\ UNCHANGED advisory

ReleaseLocks(r) ==
    /\ ReleaseRows(r)
    /\ advisory' = [b \in Bucket |-> IF advisory[b] = r THEN Free ELSE advisory[b]]

\* COMMIT and ROLLBACK both drop the transaction's workspace and its locks.
EndTransaction(r) == DropWork(r) /\ ReleaseLocks(r)

Raise(r, code, state) ==
    /\ Goto(r, "raised")
    /\ result' = [result EXCEPT ![r] = Failed(code, state)]
    /\ EndTransaction(r)

Reject(r, code) ==
    /\ Raise(r, code, "domain")
    /\ UNCHANGED <<attempt, dbVars, audit, faults>>

StatementError(r, state) ==
    /\ \E shape \in Shape : Raise(r, getPgCode(state, shape), state)
    /\ UNCHANGED <<attempt, dbVars, audit>>

----------------------------------------------------------------------------
(* create(), before the transaction.                                       *)

\* What the body is refused for before the database is asked, in the code's order.
EarlyRefusal(r) ==
    IF Body[r].amount = 0 THEN {"INVALID_AMOUNT"}
    ELSE IF Body[r].from = Body[r].to THEN {"SAME_ACCOUNT"} ELSE {}

RejectEarly(r) ==
    /\ stage[r] = "received"
    /\ \E code \in EarlyRefusal(r) : Reject(r, code)

Accept(r) ==
    /\ stage[r] = "received"
    /\ EarlyRefusal(r) = {}
    /\ Goto(r, "begin")
    /\ UNCHANGED <<attempt, result, dbVars, txVars, audit, faults>>

\* BEGIN and the two SET LOCAL statements.
Begin(r) ==
    /\ stage[r] = "begin"
    /\ Goto(r, "advisory")
    /\ UNCHANGED <<attempt, result, dbVars, txVars, audit, faults>>

----------------------------------------------------------------------------
(* executeTransfer(), one statement at a time.                             *)

MyBucket(r) == HashText[Body[r].key]

\* Mutant of TakeAdvisory: the lock is shared.
TakeAdvisoryShared(r) ==
    /\ stage[r] = "advisory"
    /\ advisory' = [advisory EXCEPT ![MyBucket(r)] = r]
    /\ Goto(r, "lookup")
    /\ UNCHANGED <<attempt, result, dbVars, delta, seen, inserted, emitted, rowLock, audit, faults>>

TakeAdvisory(r) ==
    /\ stage[r] = "advisory"
    /\ advisory[MyBucket(r)] = Free
    /\ advisory' = [advisory EXCEPT ![MyBucket(r)] = r]
    /\ Goto(r, "lookup")
    /\ UNCHANGED <<attempt, result, dbVars, delta, seen, inserted, emitted, rowLock, audit, faults>>

Existing(r) == transfers[Body[r].key]
SameContent(t, r) == [from |-> t.from, to |-> t.to, amount |-> t.amount, currency |-> t.currency] = Content(r)

\* Mutant of ReplayedId: a replay answers with an id of its own.
ReplayedOwnId(r) == <<r, attempt[r]>>

ReplayedId(r) == Existing(r).id

Replay(r) ==
    /\ stage[r] = "lookup"
    /\ Existing(r) # NoTransfer
    /\ SameContent(Existing(r), r)
    /\ result' = [result EXCEPT ![r] = Completed(ReplayedId(r), TRUE)]
    /\ Goto(r, "commit")
    /\ UNCHANGED <<attempt, dbVars, txVars, audit, faults>>

RejectConflict(r) ==
    /\ stage[r] = "lookup"
    /\ Existing(r) # NoTransfer
    /\ ~SameContent(Existing(r), r)
    /\ Reject(r, "IDEMPOTENCY_CONFLICT")

LookupMisses(r) ==
    /\ stage[r] = "lookup"
    /\ Existing(r) = NoTransfer
    /\ Goto(r, "lock")
    /\ UNCHANGED <<attempt, result, dbVars, txVars, audit, faults>>

\* SELECT ... ORDER BY id FOR UPDATE locks the matching rows in id order.
Wanted(r) == {Body[r].from, Body[r].to} \cap Account

\* Mutant of NextToLock: no ORDER BY id.
NextUnordered(r) == {a \in Wanted(r) : rowLock[a] # r}

NextToLock(r) == {a \in Wanted(r) : rowLock[a] # r /\ \A b \in Wanted(r) : b < a => rowLock[b] = r}

LockRow(r) ==
    /\ stage[r] = "lock"
    /\ \E a \in NextToLock(r) :
         /\ rowLock[a] = Free
         /\ rowLock' = [rowLock EXCEPT ![a] = r]
    /\ UNCHANGED <<stage, attempt, result, dbVars, delta, seen, inserted, emitted, advisory, audit, faults>>

AllLocked(r) == \A a \in Wanted(r) : rowLock[a] = r
BothExist(r) == {Body[r].from, Body[r].to} \subseteq Account

CurrencyMatches(r) == \A a \in Wanted(r) : AccountCurrency[a] = Body[r].currency

RejectMissing(r) ==
    /\ stage[r] = "lock"
    /\ AllLocked(r)
    /\ ~BothExist(r)
    /\ Reject(r, "ACCOUNT_NOT_FOUND")

RejectCurrency(r) ==
    /\ stage[r] = "lock"
    /\ AllLocked(r)
    /\ BothExist(r)
    /\ ~CurrencyMatches(r)
    /\ Reject(r, "CURRENCY_MISMATCH")

RowsLocked(r) ==
    /\ stage[r] = "lock"
    /\ AllLocked(r)
    /\ BothExist(r)
    /\ CurrencyMatches(r)
    /\ Goto(r, "debit")
    /\ UNCHANGED <<attempt, result, dbVars, txVars, audit, faults>>

\* An UPDATE sees the newest committed row and the transaction's own writes,
\* and takes the row lock itself when the transaction does not hold it yet.
Visible(r, a) == balance[a] + delta[r][a]
MayUpdate(r, a) == rowLock[a] \in {Free, r}
Write(r, a, amount) ==
    /\ rowLock' = [rowLock EXCEPT ![a] = r]
    /\ delta' = [delta EXCEPT ![r][a] = @ + amount]

\* Mutant of Covers: off by one.
CoversAlmost(r) == Visible(r, Body[r].from) + 1 >= Body[r].amount

Covers(r) == Visible(r, Body[r].from) >= Body[r].amount

Debit(r) ==
    LET source == Body[r].from IN
    /\ stage[r] = "debit"
    /\ MayUpdate(r, source)
    /\ Covers(r)
    /\ Write(r, source, -Body[r].amount)
    /\ seen' = [seen EXCEPT ![r] = Visible(r, source) - Body[r].amount]
    /\ Goto(r, "credit")
    /\ UNCHANGED <<attempt, result, dbVars, inserted, emitted, advisory, audit, faults>>

RejectOverdraft(r) ==
    /\ stage[r] = "debit"
    /\ MayUpdate(r, Body[r].from)
    /\ ~Covers(r)
    /\ Reject(r, "INSUFFICIENT_FUNDS")

\* Mutant of Credited: the second update names the source again.
CreditedSource(r) == Body[r].from

Credited(r) == Body[r].to

Credit(r) ==
    /\ stage[r] = "credit"
    /\ MayUpdate(r, Credited(r))
    /\ Visible(r, Credited(r)) + Body[r].amount <= MaxBalance
    /\ Write(r, Credited(r), Body[r].amount)
    /\ Goto(r, "insert")
    /\ UNCHANGED <<attempt, result, dbVars, seen, inserted, emitted, advisory, audit, faults>>

CreditOverflows(r) ==
    /\ stage[r] = "credit"
    /\ MayUpdate(r, Credited(r))
    /\ Visible(r, Credited(r)) + Body[r].amount > MaxBalance
    /\ StatementError(r, "22003")
    /\ UNCHANGED faults

MyId(r) == <<r, attempt[r]>>
MyRow(r) == [id |-> MyId(r), from |-> Body[r].from, to |-> Body[r].to,
             amount |-> Body[r].amount, currency |-> Body[r].currency]
KeyBeingInserted(r) ==
    \E q \in Request \ {r} : inserted[q] # NoTransfer /\ Body[q].key = Body[r].key

InsertTransfer(r) ==
    /\ stage[r] = "insert"
    /\ r \in Traced
    /\ ~KeyBeingInserted(r)
    /\ Existing(r) = NoTransfer
    /\ inserted' = [inserted EXCEPT ![r] = MyRow(r)]
    /\ Goto(r, "enqueueAi")
    /\ UNCHANGED <<attempt, result, dbVars, delta, seen, emitted, advisory, rowLock, audit, faults>>

\* The unique index, or ${correlationId}::uuid on a correlation id that is
\* not a UUID, refuses the row.
InsertFails(r) ==
    /\ stage[r] = "insert"
    /\ ~KeyBeingInserted(r)
    /\ r \notin Traced \/ Existing(r) # NoTransfer
    /\ StatementError(r, IF r \in Traced THEN "23505" ELSE "22P02")
    /\ UNCHANGED faults

\* Mutant of Event: the balance SELECT ... FOR UPDATE returned.
EventBeforeDebit(r, type) ==
    [transfer |-> MyId(r), type |-> type, balanceAfter |-> balance[Body[r].from]]

Event(r, type) == [transfer |-> MyId(r), type |-> type, balanceAfter |-> seen[r]]

\* Mutant of EnqueueAi: the insert runs outside the transaction.
EnqueueAiOutside(r) ==
    /\ stage[r] = "enqueueAi"
    /\ outbox' = outbox \cup {Event(r, "AI_RECOMMEND")}
    /\ Goto(r, "enqueueBancs")
    /\ UNCHANGED <<attempt, result, balance, transfers, txVars, audit, faults>>

EnqueueAi(r) ==
    /\ stage[r] = "enqueueAi"
    /\ emitted' = [emitted EXCEPT ![r] = @ \cup {Event(r, "AI_RECOMMEND")}]
    /\ Goto(r, "enqueueBancs")
    /\ UNCHANGED <<attempt, result, dbVars, delta, seen, inserted, advisory, rowLock, audit, faults>>

EnqueueBancs(r) ==
    /\ stage[r] = "enqueueBancs"
    /\ emitted' = [emitted EXCEPT ![r] = @ \cup {Event(r, "BANCS_SIMULATED")}]
    /\ result' = [result EXCEPT ![r] = Completed(MyId(r), FALSE)]
    /\ Goto(r, "commit")
    /\ UNCHANGED <<attempt, dbVars, delta, seen, inserted, advisory, rowLock, audit, faults>>

Apply(r) ==
    /\ balance' = [a \in Account |-> balance[a] + delta[r][a]]
    /\ transfers' = IF inserted[r] = NoTransfer THEN transfers
                    ELSE [transfers EXCEPT ![Body[r].key] = inserted[r]]
    /\ outbox' = outbox \cup emitted[r]
    /\ EndTransaction(r)

Commit(r) ==
    /\ stage[r] = "commit"
    /\ Apply(r)
    /\ Goto(r, "answered")
    /\ UNCHANGED <<attempt, result, audit, faults>>

----------------------------------------------------------------------------
(* executeWithRetry() and mapAndRecordFailure().                           *)

Retry(r) ==
    /\ stage[r] = "raised"
    /\ isRecoverableConcurrencyError(result[r])
    /\ attempt[r] < MaxAttempts
    /\ attempt' = [attempt EXCEPT ![r] = @ + 1]
    /\ result' = [result EXCEPT ![r] = Pending]
    /\ Goto(r, "begin")
    /\ UNCHANGED <<dbVars, txVars, audit, faults>>

GivesUp(r) ==
    /\ stage[r] = "raised"
    /\ ~(isRecoverableConcurrencyError(result[r]) /\ attempt[r] < MaxAttempts)

\* Mutant of AuditRow: the driver's code is recorded, not the client's.
AuditRowUnmapped(r) ==
    [request |-> r, table |-> "infra_exceptions", code |-> result[r].code]

AuditRow(r) ==
    [request |-> r,
     table   |-> IF result[r].code \in DomainCode THEN "transfer_failures" ELSE "infra_exceptions",
     code    |-> AnswerCode(result[r])]

AnswerError(r) ==
    /\ Goto(r, "answered")
    /\ result' = [result EXCEPT ![r] = Failed(AnswerCode(@), @.state)]
    /\ UNCHANGED <<attempt, dbVars, txVars>>

RecordAndAnswer(r) ==
    /\ GivesUp(r)
    /\ r \in Traced
    /\ audit' = audit \cup {AuditRow(r)}
    /\ AnswerError(r)
    /\ UNCHANGED faults

\* recordFailure and recordInfraException swallow their own errors: the
\* correlation id column is a UUID as well, and the insert may fail.
AnswerUnrecorded(r) ==
    /\ GivesUp(r)
    /\ r \notin Traced
    /\ AnswerError(r)
    /\ UNCHANGED <<audit, faults>>

----------------------------------------------------------------------------
(* Faults: each uses one unit of MaxFaults.                                *)

UseFault == faults < MaxFaults /\ faults' = faults + 1

Blocked(r) ==
    \/ stage[r] = "advisory" /\ advisory[MyBucket(r)] # Free
    \/ stage[r] = "lock" /\ \E a \in NextToLock(r) : rowLock[a] # Free

\* lock_timeout, or a deadlock with some other writer of the database.
WaitFails(r) ==
    /\ Blocked(r)
    /\ \E state \in {"55P03", "40P01"} : StatementError(r, state)
    /\ UseFault

\* statement_timeout, or the client library's own limits: no connection within
\* maxWait, or a transaction open for longer than timeout.
StatementFails(r) ==
    /\ stage[r] \in InTransaction \cup {"begin"}
    /\ \E state \in {"57014", "P2028"} : StatementError(r, state)
    /\ UseFault

\* COMMIT took effect but its acknowledgement was lost.
CommitUnacknowledged(r) ==
    /\ stage[r] = "commit"
    /\ Apply(r)
    /\ result' = [result EXCEPT ![r] = Failed(EngineCode, "lost")]
    /\ Goto(r, "raised")
    /\ UseFault
    /\ UNCHANGED <<attempt, audit>>

RecordFails(r) ==
    /\ GivesUp(r)
    /\ r \in Traced
    /\ AnswerError(r)
    /\ UseFault
    /\ UNCHANGED audit

\* The API process dies with the request; the server rolls back.
Crash(r) ==
    /\ stage[r] \notin {"answered", "gone"}
    /\ Goto(r, "gone")
    /\ EndTransaction(r)
    /\ UseFault
    /\ UNCHANGED <<attempt, result, dbVars, audit>>

\* ... or it dies after the server has committed.
CrashAfterCommit(r) ==
    /\ stage[r] = "commit"
    /\ Apply(r)
    /\ Goto(r, "gone")
    /\ UseFault
    /\ UNCHANGED <<attempt, result, audit>>

----------------------------------------------------------------------------
Progress(r) ==
    \/ RejectEarly(r) \/ Accept(r) \/ Begin(r)
    \/ TakeAdvisory(r) \/ Replay(r) \/ RejectConflict(r) \/ LookupMisses(r)
    \/ LockRow(r) \/ RejectMissing(r) \/ RejectCurrency(r) \/ RowsLocked(r)
    \/ Debit(r) \/ RejectOverdraft(r) \/ Credit(r) \/ CreditOverflows(r)
    \/ InsertTransfer(r) \/ InsertFails(r)
    \/ EnqueueAi(r) \/ EnqueueBancs(r) \/ Commit(r)
    \/ Retry(r) \/ RecordAndAnswer(r) \/ AnswerUnrecorded(r)

Fault(r) ==
    \/ WaitFails(r) \/ StatementFails(r) \/ CommitUnacknowledged(r)
    \/ RecordFails(r) \/ Crash(r) \/ CrashAfterCommit(r)

Next == \E r \in Request : Progress(r) \/ Fault(r)

Spec == Init /\ [][Next]_vars

\* The event loop and the database keep running every request they hold.
FairSpec == Spec /\ \A r \in Request : WF_vars(Progress(r))

----------------------------------------------------------------------------
Result ==
    {Pending}
    \cup [kind : {"completed"}, id : TransferId, replayed : BOOLEAN]
    \cup [kind : {"failed"},
          code : DomainCode \cup DbState \cup
                   {EngineCode, "DB_TIMEOUT", "DB_DEADLOCK", "INTERNAL_ERROR"},
          state : DbState \cup {"domain"}]
EventRow == [transfer : TransferId, type : EventType, balanceAfter : Int]

\* Every variable keeps the type its column or local variable has.
TypeOK ==
    /\ stage \in [Request -> Stage]
    /\ attempt \in [Request -> 1..MaxAttempts]
    /\ result \in [Request -> Result]
    /\ balance \in [Account -> Int]
    /\ delta \in [Request -> [Account -> Int]]
    /\ seen \in [Request -> Int]
    /\ transfers \in [Key -> Row \cup {NoTransfer}]
    /\ inserted \in [Request -> Row \cup {NoTransfer}]
    /\ outbox \subseteq EventRow
    /\ emitted \in [Request -> SUBSET EventRow]
    /\ advisory \in [Bucket -> Request \cup {Free}]
    /\ rowLock \in [Account -> Request \cup {Free}]
    /\ audit \subseteq [request : Request, table : {"transfer_failures", "infra_exceptions"},
                        code : DomainCode \cup {"DB_TIMEOUT", "DB_DEADLOCK", "INTERNAL_ERROR"}]
    /\ faults \in 0..MaxFaults

----------------------------------------------------------------------------
(* Safety.                                                                 *)

\* No committed balance is negative or beyond its column, although the
\* check and the two updates are separate statements of racing requests.
BalancesInRange == \A a \in Account : balance[a] \in 0..MaxBalance

Posted == {transfers[k] : k \in Key} \ {NoTransfer}
Amounts(T) == MapThenSumSet(LAMBDA t : t.amount, T)

\* The books: each committed balance is its opening balance plus what the
\* rows of transfers moved in, minus what they moved out.  A debit without
\* its credit, a lost update or a second debit of one key breaks it.
BooksBalance ==
    \A a \in Account :
        balance[a] = Opening[a] + Amounts({t \in Posted : t.to = a})
                                - Amounts({t \in Posted : t.from = a})

\* Each committed transfer has one event of each type, and no event is
\* without its transfer, whatever attempt or process failed on the way.
EventsMatchTransfers ==
    /\ \A t \in Posted, y \in EventType :
          Cardinality({e \in outbox : e.transfer = t.id /\ e.type = y}) = 1
    /\ \A e \in outbox : \E t \in Posted : t.id = e.transfer

Answered(r) == stage[r] = "answered"
Succeeded(r) == Answered(r) /\ result[r].kind = "completed"
Refused(r) == Answered(r) /\ result[r].kind = "failed"

\* A client told COMPLETED, replayed or not, was told of the committed row
\* of its own key with its own content ("COMPLETED = COMMIT", section 1.1
\* of docs/documento-tecnico.md).
CompletedIsDurable ==
    \A r \in Request : Succeeded(r) =>
        /\ Existing(r) # NoTransfer
        /\ Existing(r).id = result[r].id
        /\ SameContent(Existing(r), r)

\* A client told no, except by INTERNAL_ERROR, moved no money: no row was
\* ever posted by its request.  DB_TIMEOUT and DB_DEADLOCK are safe to retry
\* under another key; INTERNAL_ERROR is not, its COMMIT may have worked.
RefusedPostedNothing ==
    \A r \in Request : Refused(r) /\ result[r].code # "INTERNAL_ERROR" =>
        \A t \in Posted : t.id[1] # r

\* The advisory lock makes check-then-insert atomic: the unique index on
\* idempotency_key never turns a concurrent duplicate into an error.
KeyRaceNeverSurfaces ==
    \A r \in Request : result[r].kind = "failed" => result[r].state # "23505"

\* Requests that wait for one another: q is waited for by r.
WaitsFor(r) ==
    {q \in Request \ {r} :
        \/ stage[r] = "advisory" /\ advisory[MyBucket(r)] = q
        \/ stage[r] = "lock" /\ \E a \in NextToLock(r) : rowLock[a] = q
        \/ stage[r] = "debit" /\ rowLock[Body[r].from] = q
        \/ stage[r] = "credit" /\ rowLock[Body[r].to] = q
        \/ stage[r] = "insert" /\ inserted[q] # NoTransfer /\ Body[q].key = Body[r].key}

\* "orden estable de locks evita el deadlock": no set of transfers waits in
\* a circle, crossed pairs A->B and B->A and shared keys included.
NoWaitCycle ==
    \A S \in (SUBSET Request) \ {{}} : \E r \in S : WaitsFor(r) \cap S = {}

\* Each refusal is on record under the code the client was given: the ones
\* that are not are no more than the faults that hit.
OnRecord(r) == \E row \in audit : row.request = r /\ row.code = result[r].code
RefusalsOnRecord ==
    Cardinality({r \in Traced : Refused(r) /\ ~OnRecord(r)}) <= faults

----------------------------------------------------------------------------
(* Liveness and refinement.                                                *)

\* Every request is answered, unless its process died: no transfer waits for
\* ever on an advisory or row lock.
EventuallyAnswered ==
    \A r \in Request : <>(stage[r] \in {"answered", "gone"})

L == INSTANCE Ledger

\* The statement-by-statement protocol implements the one-step ledger: what
\* becomes visible, becomes so at once, between two accounts of the
\* transfer's own currency, and each event carries the balance of the debited
\* account in that very commit, not a stale one.
ImplementsLedger == L!Spec

\* "reintentos limitados ante deadlock" (docs/documento-tecnico.md:46): a
\* deadlock is reported only after the last attempt.
DeadlockIsRetried ==
    \A r \in Request : Refused(r) /\ result[r].state = "40P01" => attempt[r] = MaxAttempts
=============================================================================
