# A verification project for SmartBancs App

TLA+ models of the parts of SmartBancs App where several actors meet in one table, one buffer or one
lock: the transfer API, the worker that drains two queues, the in-memory ingest buffer, and the AI
database between the ETL and the AI service; and of the ways that lead through several of them, from a
request to the row or the recommendation it is for. TLC checks them on small instances; TLAPS proves every
safety property and every refinement among them for all instances. Paths below are relative to `src/`; `services/app/src/` is left out
where it is clear.

## 1. Inventory

### 1.1 Parts and how they interact

```
client -- POST /transfers -----> API process(es) --TX--> accounts, transfers, outbox_events
client -- POST /raw-transactions --> buffer of one API process --createMany--> ingest_queue
client -- POST /raw-transactions/batch --> raw_transactions
worker(s): OutboxProcessor  <--claim-- outbox_events --> AI service (HTTP), Bancs (simulated)
           IngestProcessor  <--claim-- ingest_queue  --> raw_transactions
operator: DELETE /raw-transactions (clearAll) --> raw_transactions, ingest_queue
ETL: raw_transactions --CSV--> accepted rows, contexts --one TX--> ai-db
AI service: ai-db (two reads), Gemini or rules --> ai_advices
```

| Component | State it keeps | Operations | Hard behaviour | What makes it correct |
|---|---|---|---|---|
| Transfers API, `transfers/` | rows of accounts, transfers, outbox_events, transfer_failures; per request a transaction with an advisory lock and two row locks | `create`: validate, up to 3 attempts of one transaction, map and record errors | duplicates of a key, crossed transfers, lock and statement timeouts, deadlocks, a lost COMMIT acknowledgement, a crash | books balance, no overdraft, one posting per key, two events per posting, every refusal on record, no wait cycle |
| Money, `common/money.ts`; errors, `common/pg-error.ts` | none | parse, hash, classify | the shape a client library gives an error | the SQLSTATE that decides a retry is found |
| Outbox worker, `worker/outbox.processor.ts` | outbox_events (status, attempts, lease), recommendations | poll, claim a batch with SKIP LOCKED, process one by one, mark DONE or DEAD, schedule a retry | replicas, leases that expire under their owner, updates by id alone, crash with half a batch | no event claimed twice without an expired lease, DONE has its effect, each event is closed, each committed transfer is recommended on and told of |
| Ingest worker, `worker/ingest.processor.ts` | ingest_queue, raw_transactions | the same over another table | duplicates, clearAll between the two writes, a payload that is never accepted | DONE is stored, one row per uid, poison ends DEAD, each accepted item is stored |
| Ingest buffer, `raw-transactions/raw-transactions.service.ts` | buffer, timer, activeFlushes, waiters, stopped | enqueue, flush, drain on shutdown and on clearAll | microtask order, failed and unacknowledged inserts, several flushes, shutdown in flight | nothing is lost or held twice, slots are counted, each item reaches the queue |
| Batches and statistics, same file | raw_transactions; per request the counts it will answer | `createBatch`: one createMany, after an error one insert per item; `stats` | rivals for a uid (workers, other batches), clearAll in between, an insert that failed after taking effect, an exception that cannot be recorded | counts never claim more than was stored, one refused item costs only itself, each item is stored or on record |
| AI service, `services/ai/src/` | ai_transactions, ai_prompt_contexts (read), ai_advices (written) | `ensureSchema`, `POST /v1/recommend`, listings | two reads around an ETL commit, Gemini's retry, start against a running ETL | a 200 has its row, an advice has a ledger behind it, each request is answered |
| ETL, `etl/transform.py` | a CSV, two JSON files, the same two tables | export, accept, aggregate, write files, reload in one transaction | a failure or a deadlock half-way, the CSV of an earlier run | ledger and contexts change together and whole |
| Accounts API, `accounts/` | none | read-only listings | none | not modelled |
| Infra exceptions, `infra-exceptions/` | infra_exceptions | record, classify, list | its own failure is swallowed | seen from the buffer, the batches and the transfers only |
| Context, logs, metrics, health, `common/`, `metrics/`, `health/` | none | correlation id per request | an id that is no UUID reaches a UUID column | seen from the transfers only |
| Process start, `main.ts` | cluster workers | fork API_WORKERS processes, fork again on exit | a process dies with its memory | seen as crashes |
| Emitter, generators, compose, page, collections | files | load and test data | the emitter's list of deferred posts | not modelled |

`PROJECT.json` lists every component with its status, and every hazard with its line and the
properties that watch it.

### 1.2 Modules

| Module | Models | Lines of source |
|---|---|---|
| `Ledger` | what the transfer API promises, in one action | abstract |
| `Transfers` | `TransfersService.create` and its PostgreSQL session | `transfers.service.ts`, `pg-error.ts`, `money.ts`, the init migration |
| `TransfersMC` | two instances of it (`TransfersDeadlock` takes the first one too) | |
| `TransfersProofs` | proofs: types, ranges, keys, events, answers, records, books, lock order, refinement of `Ledger` | |
| `LeaseTable` | the claiming table both processors share | both processors |
| `LeaseProofs` | proofs for any user of that table: numbered claims, held rows, unshared claims | |
| `OutboxWorker`, `OutboxWorkerMC` | `OutboxProcessor` over it | `outbox.processor.ts` |
| `OutboxProofs` | proofs: claims, closing, effects | |
| `IngestWorker` | `IngestProcessor` over it, with `clearAll` | `ingest.processor.ts`, `clearAll` |
| `RawBatches`, `RawBatchesMC` | `createBatch` beside `IngestWorker` | `createBatch`, `infra-exceptions.service.ts`, the DTO |
| `IngestProofs` | proofs about workers, batches and `clearAll` together | |
| `IngestBuffer` | the buffer of one API process | `raw-transactions.service.ts`, `main.ts` |
| `BufferProofs` | proofs: slots, items, waiters, shutdown | |
| `Intake` | what a 202 promises | abstract |
| `Pipeline`, `PipelineMC` | `IngestBuffer` and `IngestWorker` over one `ingest_queue` | the wiring of the two |
| `PipelineProofs` | proof that they implement `Intake` | |
| `Delivery` | what a committed transfer is owed | abstract |
| `EndToEnd`, `EndToEndMC` | `Transfers` and `OutboxWorker` over one `outbox_events` | the wiring of the two |
| `EndToEndProofs` | proof that they implement `Delivery` | |
| `EtlRules` | acceptance, contexts, the rules engine: pure operators | `transform.py`, `uafe_catalog.py`, `gemini.ts`, `main.ts` of the AI service |
| `AiLedger`, `AiLedgerMC` | the AI database between ETL and AI service | the same, `db.ts`, `init.sql` |
| `AiLedgerProofs` | proofs: types, loads, saved answers, spikes | |

No module declares a RECURSIVE operator: the sums are folds of the community modules.

## 2. How state and actions correspond to the code

**Transfers.** A request is a constant; `stage[r]` is the await it is at. Each `tx.$queryRaw` or
`$executeRaw` of `executeTransfer` is an action: `TakeAdvisory` (`pg_advisory_xact_lock(hashtext(key))`),
`Replay`/`RejectConflict`/`LookupMisses` (the SELECT by key), `LockRow` one row at a time in id order
(`ORDER BY id FOR UPDATE`), `Debit` with its `AND balance >= amount`, `Credit`, `InsertTransfer`,
`EnqueueAi`, `EnqueueBancs`, `Commit`. Uncommitted work lives in per-request workspaces (`delta`,
`inserted`, `emitted`) that COMMIT applies and ROLLBACK drops, with the locks. `Retry` is
`executeWithRetry`; `RecordAndAnswer` and `AnswerUnrecorded` are `mapAndRecordFailure`. A database
error has the shape the client library gives it (`Shape`): "bare" has the SQLSTATE in `code`, "wrapped"
has the library's own code outside it. `getPgCode` takes the first five-character code it meets, so in
the wrapped shape it returns the library's. PostgreSQL is external and modelled by what the code relies
on: READ COMMITTED, lock waits, a unique index that waits for an uncommitted rival, rollback that is
atomic with a crash. Two keys may share an advisory lock (`HashText`), as `hashtext` is 32 bits wide.

**LeaseTable, OutboxWorker, IngestWorker.** `ClaimBatch` is the UPDATE over the SELECT with FOR UPDATE
SKIP LOCKED, one atomic statement. A claim remembers the `attempts` RETURNING gave it, since
`scheduleRetry` and `markDead` decide by that number while the row's own may have moved on. The three
closing updates ask for the id alone, in the model as in the code, so that a worker whose lease has
expired overwrites what another one did. Whether `next_attempt_at` or `claim_expires_at` lies in the
past is a Boolean per row that a step turns. An exception inside the try block of `process()` leads to
`caught`; one inside the catch block ends the tick and leaves the rest of the batch CLAIMED. In
`IngestWorker`, `clearAll` deletes both tables in one transaction that takes two steps, and an insert of
a uid it is deleting waits for its commit.

**RawBatches.** Extends `IngestWorker` by requests. `StoresAll` is the one createMany with
`skipDuplicates`: of items with one uid the first is new (`Fresh`). `RefusesAll` is its failure on a
payload the table refuses, `CreateManyFails` and `CreateManyUnacknowledged` its failure for another
reason, before or after it took effect. The fallback is an action per item and outcome (`StoresItem`,
`MeetsStored` for P2002, `RefusesItem`), in the order of the request, and `recordFromError` between a
failed item and the next; `RecordFails` is the failure `record()` swallows. An insert of a uid that
clearAll is deleting waits, as a worker's does.

**IngestBuffer.** One Node process. A macrotask (request, timer, immediate, database answer) needs an
empty microtask queue (`Quiet`); `scheduleFlush`, `acquireFlushSlot`, `releaseFlushSlot` and the finally
block are functions of the service's state because they run without an await. The two continuations
that follow an await are microtasks: `TakesSlot` (a woken waiter counts itself) and `Splices` (the batch
is cut off the buffer). A flight is a flush between its splice and its answer.

**Pipeline.** The two modules share the table: `queue` of `IngestBuffer` says which rows were inserted,
`status` and the lease columns of `IngestWorker` what became of them. `RowsArrive` gives a new row the
values the insert and the column defaults give it. `clearAll` joins the two: `drain` is its loop over
the buffer, `clearing` its transaction, and a process that dies with the transaction open takes it back
(`ApiDies`). A fault of either part uses one unit of `MaxFaults`. `Pipeline` implements `Intake` with
`accepted` as it is and, for `stored`, the items that are the writers of a row.

**EndToEnd.** `status` of an event's row is ABSENT until the COMMIT that makes the event visible, and
PENDING from then on (`Api`). A row is known by its key and type (`JobOf`), as no key is posted twice;
that is an invariant of `Transfers`, not an assumption. `Delivery` is implemented with "posted" for the
keys with a row in transfers, "recommended" for those with a row in recommendations and "told" for those
Bancs was called for.

**EtlRules, AiLedger.** A row is a model value with a record of normalised columns. `Accepts` is
`transform()`'s list of reasons, `ContextOf` the aggregation by category and month, `buildAdvice` the
rules engine with its `thin` test and its ordered alternatives. `AiLedger` has the ETL process stage by
stage (export, two files, index, alter, truncate, insert, commit) with the table locks the statements
take, the start of the AI service whose schema script takes the same locks in one implicit transaction,
and each request from its two parallel reads to its answer.

## 3. Runs

| Run | Instance | Distinct states | What it shows |
|---|---|---|---|
| `TransfersCrossed` | a request, its duplicate and an opposite transfer; 3 faults; both error shapes | 116 575 | books, events, answers, locks, no race of duplicates, refinement of `Ledger`, liveness |
| `TransfersRules` | 7 requests over 4 accounts and one advisory lock, a balance limit of 4, each kind of refusal | 350 850 | no overdraft or overflow, refusals on record |
| `TransfersDeadlock` (violation) | the crossed instance with wrapped errors, 1 fault | - | finding 1 |
| `Outbox` | 2 workers, 3 events of 3 types, batch 2, 2 attempts, 2 faults | 127 487 | claims, fencing numbers, effects, closing |
| `EndToEnd` | 4 requests of one key of which one is posted, 2 outbox workers, 2 attempts, 1 fault | 83 034 | refinement of `Delivery`, each transfer is delivered |
| `RawBatches` | 2 workers and a queue row of each kind, 2 batches of 4 items in all with a refused one and shared uids, 1 clear, 1 fault | 349 707 | DONE is stored, stored once, poison only dies, honest counts, a trace of each item, closing |
| `Buffer` | 3 items, one malformed, 2 slots, unacknowledged inserts, 2 faults, shutdown and clear | 726 793 | slots are counted, nobody stranded, nothing vanishes or is held twice, shutdown settles |
| `Pipeline` | 2 items of one uid, 1 slot, 1 worker, 2 attempts, 1 clear, 1 fault | 58 225 | refinement of `Intake`, each accepted item is stored |
| `BufferSlots` (violation) | 4 items, 1 slot, no fault | - | finding 3 |
| `BufferPoison` (violation) | 2 items, 1 unacknowledged insert | - | finding 4 |
| `AiLedger` | 2 ETL runs, 2 starts of the service, 1 request, 10 rows, 1 fault | 148 012 | contexts and ledger switch together, answers are saved, spikes are real, liveness |
| `AiTornRead` (violation) | 2 ETL runs over 2 histories, no fault | - | finding 2 |

**Bounds.** `MaxFaults` counts timeouts, lost connections, crashes and expired leases: one is enough for
each single failure at each await, two for a failure during the recovery from another, and three for a
deadlock in each of the three attempts of a transfer. A retry needs
`MaxAttempts` = 3 in the transfers (the code's constant) and 2 in the workers, so that both "once more"
and "given up" happen. `BatchSize` 2 with 3 jobs leaves a rest for the next claim and a rest of a batch
to abandon. `MaxBalance` is 4 or 9 instead of DECIMAL(18,2): small enough that a credit overflows in
`TransfersRules`, and never reached in `TransfersCrossed`. `MaxClears` 1 puts a clear between any two
steps of a worker. `MaxWaiting` bounds the calls of a drain that wait for a slot; without it a drain over
an insert that keeps failing adds waiters without end. `MaxRuns` 2 is the least at which two reads can
see two ledgers; `MaxBoots` 2 lets the service come back. Two workers are enough for each pairwise race;
three requests for a duplicate against a rival. The compositions are
small because the parts are checked alone on larger instances: what only the whole can get wrong is the
handover (a commit and the row it makes visible; an insert, its row and its claim; a clear across all of
it), and that takes one posting, two items and one fault at any step. `EndToEnd` has one fault and two
attempts, `Pipeline` likewise, so that no job is given up: `EventuallyDelivered` and `EventuallyStored`
are promises only while faults are fewer than attempts. `faults = 0` inside `SharedOnlyAfterExpiry`,
`OnlyRefusedDies`, `ClosedIsFinal` and the second half of `AnswerIsHonest` restricts these to behaviours before anything failed: afterwards
the code does not promise them. In the stale-owner case the code even breaks the plain form (a worker
whose lease has expired reopens a DONE event by `scheduleRetry`), which `DoneHasEffect` and
`EventuallyClosed` survive.

**CHECK_DEADLOCK FALSE** in every configuration: the systems stop when every request is answered, every
job closed or every item queued. That nobody stops too early is what `EventuallyAnswered`,
`EventuallyClosed`, `EventuallyStored`, `EventuallyDelivered` and `NoWaitCycle` say.

**Fairness.** Weak, and only for what the platform runs by itself: the event loop and the database go
on with a request (`Progress`, `Serves`); the poll timer ticks and wall-clock time passes, so that a
retry comes due and the lease of a dead worker expires; timers, immediates and microtasks run and
PostgreSQL answers an insert; a started ETL run goes on, PostgreSQL ends one of two deadlocked
transactions, and Gemini's fetch has an AbortSignal. Weak fairness suffices for the lock waits: a lock
is held by a request that goes on by itself, and in the finite instances it is taken finitely often.
The compositions ask for no more than their parts do.
No fault is fair, and nobody is obliged to post a request or a batch, start the ETL, call `clearAll` or shut down.
Fairness is per worker and per request rather than per action, so a worker may choose among its batch
as `RETURNING` may.

## 4. Properties

* *Transfers.* `BooksBalance` relates every balance to the rows of transfers. `EventsMatchTransfers`
  ties the outbox to the same commit. `CompletedIsDurable`, `RefusedPostedNothing` and
  `RefusalsOnRecord` tie the client's answer to the tables: a refusal posted nothing except
  `INTERNAL_ERROR`, whose COMMIT may have worked. `NoWaitCycle` is the lock order.
  `KeyRaceNeverSurfaces` says that the advisory lock leaves the unique index nothing to do.
  `ImplementsLedger` is the refinement: each step of the protocol is a `Post` of `Ledger` or a stutter,
  with accounts of the transfer's currency and events that carry the balance of that very commit.
* *Workers.* `ClaimsAreNumbered` (a fencing token the code has and does not use), `SharedOnlyAfterExpiry`,
  `DoneHasEffect`, `ClosedIsFinal`, `DoneIsStored`, `StoredOnce`, `OnlyRefusedDies`, `EventuallyClosed`.
* *Batches.* `AnswerIsHonest` relates the counts of an answer to the rows the request itself stored:
  never more, and without a fault exactly those. `EachItemLeavesATrace` counts the items that are
  neither stored nor on record against the faults that hit. `StoredOnce` and `DoneIsStored` are checked
  with batches as rivals of the workers.
* *Buffer.* `NothingVanishes`, `HeldOnce`, `SlotsCounted`, `NothingStranded`, `ShutdownSettles`.
* *Compositions.* `ImplementsIntake` and `EventuallyStored`: what a 202 means. `ImplementsDelivery` and
  `EventuallyDelivered`: what a commit means. Neither follows from the parts alone: the first two need
  the buffer's retry, the worker's and clearAll's transaction together, the other two hold whether the
  client of the transfer was answered, refused with INTERNAL_ERROR or left alone by a crash.
* *AI database.* `ContextsMatchLedger`, `SwitchesWhole`, `AnsweredIsSaved`, `SpikeIsReal`,
  `EventuallyAnswered`.

Two things the batches showed that are no property. After a lost answer of createMany the fallback finds
the request's own rows and reports them as duplicates, less than the truth. And `businessRejected` counts
all REJECTED items in the first path, duplicates included, and only the newly stored ones in the fallback.

Each property has at least one mutant in `PROJECT.json`: a definition changed the way a plausible bug
would change the code (no ORDER BY, a shared lock, `slice` for `splice`, a takeover before the lease
ends, TRUNCATE outside the transaction), under which TLC finds the property violated.

## 5. Findings

1. **A deadlock is not retried** (`TransfersDeadlock`). `docs/documento-tecnico.md:46` promises
   "reintentos limitados ante deadlock". `getPgCode` looks at `code` before `cause` and `meta`, and the
   client library's own codes (P2010, P2034) have five characters of `[0-9A-Z]` too: they are taken for
   the SQLSTATE, `isRecoverableConcurrencyError` is false, and the first deadlock is answered with
   INTERNAL_ERROR. How the library wraps an error is outside the repository; the passing runs check
   both shapes.
2. **An advice may mix two ledgers** (`AiTornRead`). `advise()` reads the rows and the context by two
   statements. With an ETL commit between them, the row count of one ledger is judged with the totals of
   the other, and an account whose history was insufficient in every ledger gets firm advice
   (`docs/declaracion-uso-ia.md:8` says it is told `NEED_MORE_DATA`). `SpikeIsReal` and
   `ContextsMatchLedger` hold all the same.
3. **The flush limit is exceeded** (`BufferSlots`). `.env.example:24` sets
   `INGEST_ENQUEUE_FLUSH_CONCURRENCY=4`. A woken waiter counts itself in a later microtask without
   comparing with the limit again, after the finally block of the flush that woke it has started another.
   The counter itself stays right (`SlotsCounted`).
4. **An insert whose answer was lost poisons its batch** (`BufferPoison`). The batch returns to the head
   of the buffer under the same ids, and `createMany` without `skipDuplicates` fails on them for ever,
   with every item that shares the batch. `docs/resultados-medidos.md:26` says
   "respuesta 202 + cola `ingest_queue`".

## 6. Proofs

Every invariant and every action property a passing run checks, and all three refinements, are theorems
of the specification. A theorem speaks of all values of the constants: any number of requests, accounts,
workers, items, rows, faults and runs.

| Theorem | Says | Rests on |
|---|---|---|
| `TransfersProofs!TypeCorrect` | `Spec => []TypeOK` | `TypeInv` |
| `TransfersProofs!NoOverdraft` | `Spec => []BalancesInRange` | `RangeInv` |
| `TransfersProofs!DuplicatesNeverRace` | `Spec => []KeyRaceNeverSurfaces` | `KeyInv` |
| `TransfersProofs!LedgerImplemented` | `Spec => ImplementsLedger` | `RangeInv`, `KeyInv`, `WorkInv` |
| `TransfersProofs!RefusalsMoveNothing` | `Spec => []RefusedPostedNothing` | `PosterInv` |
| `TransfersProofs!CompletedMeansCommitted` | `Spec => []CompletedIsDurable` | `WorkInv` |
| `TransfersProofs!EventsExact` | `Spec => []EventsMatchTransfers` | `PosterInv`, `EventInv` |
| `TransfersProofs!NoDeadlockAmongTransfers` | `Spec => []NoWaitCycle` | `LockInv` |
| `TransfersProofs!RefusalsRecorded` | `Spec => []RefusalsOnRecord` | `RecordInv` |
| `TransfersProofs!BooksAlwaysBalance` | `Spec => []BooksBalance` | `BooksInv` |
| `OutboxProofs!OutboxTypeCorrect` | `Spec => []TypeOK` | itself |
| `OutboxProofs!ClaimsNumbered` | `Spec => []ClaimsAreNumbered` | `LeaseInv` |
| `OutboxProofs!NeverSharedBeforeExpiry` | `Spec => []SharedOnlyAfterExpiry` | `LeaseInv` |
| `OutboxProofs!ClosedForGood` | `Spec => ClosedIsFinal` | `LeaseInv` |
| `OutboxProofs!DoneMeansDone` | `Spec => []DoneHasEffect` | `EffectInv` |
| `IngestProofs!BatchTypeCorrect` | `BatchSpec => []BatchTypeOK` | itself |
| `IngestProofs!DoneMeansStored` | `BatchSpec => []DoneIsStored` | `MarkedStored` |
| `IngestProofs!OneRowPerUid` | `BatchSpec => []StoredOnce` | `WrittenOnce` |
| `IngestProofs!OnlyTheRefusedDie` | `BatchSpec => []OnlyRefusedDies` | `RefusedOnly`, `LeaseInv` |
| `IngestProofs!AnswersAreHonest` | `BatchSpec => []AnswerIsHonest` | `BatchInv` |
| `IngestProofs!ItemsLeaveTraces` | `BatchSpec => []EachItemLeavesATrace` | `Traces`, `BatchInv` |
| `BufferProofs!BufferTypeCorrect` | `Spec => []TypeOK` | `BufferInv` |
| `BufferProofs!NoSlotLeaks` | `Spec => []SlotsCounted` | `Balanced` |
| `BufferProofs!NothingIsStranded` | `Spec => []NothingStranded` | `WorkIsServed` |
| `BufferProofs!NoneVanishes` | `Spec => []NothingVanishes` | `Accounted` |
| `BufferProofs!NoneHeldTwice` | `Spec => []HeldOnce` | `Apart` |
| `BufferProofs!ShutdownLeavesNothing` | `Spec => []ShutdownSettles` | `Stopping` |
| `AiLedgerProofs!ContextsNeverStale` | `Spec => []ContextsMatchLedger` | `LoadInv` |
| `AiLedgerProofs!LedgerSwitchesWhole` | `Spec => SwitchesWhole` | `LoadInv` |
| `AiLedgerProofs!AiTypeCorrect` | `Spec => []TypeOK` | `TypeInv` |
| `AiLedgerProofs!AnswersAreSaved` | `Spec => []AnsweredIsSaved` | `AnswerInv` |
| `AiLedgerProofs!SpikesAreReal` | `Spec => []SpikeIsReal` | `SpikeInv` |
| `EndToEndProofs!DeliveryImplemented` | `EndToEndSpec => ImplementsDelivery` | `DeliveryInv` |
| `PipelineProofs!IntakeImplemented` | `PipelineSpec => ImplementsIntake` | `IntakeInv` |

**Assumptions.** Only the named ones of the modules, which TLC evaluates in the runs:
`ConstantsAssumption` (types, opening balances within their column, "no row" and "nobody" are no row and
no request, finitely many accounts), `LeaseAssumption`, `IngestAssumption`, `BatchAssumption` (a batch is
a finite, non-empty set of items of its own), `BufferAssumption` (the `Math.max` of the settings; finitely
many items), `JobAssumption` (an outbox row per key and type), `PipelineAssumption` (an item has a uid),
`RowAssumption` (finitely many rows, amounts are not negative). Finiteness is asked for where a definition
counts or sums; nothing bounds the size.

**Inductive invariants, and why the properties are not inductive themselves.**

* *Transfers.* `TypeOK`: mapping an error needs an error to be there (`RaisedHasError`), and an update by
  an account id needs the id to exist (`AccountsFound`); `TypeInv` adds both. `BalancesInRange` says
  nothing of the uncommitted `delta` that a COMMIT adds: `WritesLocked` (who has a delta on an account
  holds its row lock, so no two do) and `LockedFits` (balance plus the holder's delta is in range) close
  the gap. `KeyRaceNeverSurfaces` is about the error an insert would raise: `AdvisoryHeld` (from lookup
  to commit the request holds the lock of its key's bucket), `KeyFresh` and `InsertedLate` make it
  inductive, as another request with this key has this bucket.
  The refinement needs to know, at the COMMIT, what the transaction has in its workspace. `WorkInv` says
  it for each stage: `Workspace` (debit, credit, row and events written so far), `Checked` (what was
  tested before the first update still holds), `Current` (the balance read under the lock is still the
  committed one, and the key is still free), `Decided` (what the answer will be). Each COMMIT is then a
  `Post` of `Ledger` or changes nothing. `PosterInv` follows a row back to the request it came from,
  which no longer has a transaction and was not refused by anything but INTERNAL_ERROR; `EventInv` ties
  events to rows one by one. `LockInv` is the lock order: an advisory lock is held by an open transaction
  only, a row lock by one that is past its lookup, and rows are taken in ascending order. In a circle of
  waits nobody can then wait for an advisory lock (its holder is past that lock), and the account with
  the greatest id in the circle has no successor. `RecordInv` counts the refusals without a record
  against the faults. `BooksInv` adds that the posted transfers are finitely many; one COMMIT adds one
  term to a sum, which is proved by well-founded induction on subsets, without an induction theorem that
  takes an operator.
* *The claiming table.* `ClaimsAreNumbered` compares held claims with each other, but a new claim takes
  its number from the row: `NumbersGrow` (the row's number is at least that of each claim held),
  `HeldAreRows` (nothing held is a row not yet inserted) and `OneAtATime` (a worker between jobs holds no
  job) are needed. `Alone` is the state before anything failed: a held job is CLAIMED, its lease runs and
  it is held once; `SharedOnlyAfterExpiry` and `ClosedIsFinal` follow. `LeaseProofs` proves the step for
  `LeaseStep`, a disjunction of the actions of the table; `OutboxProofs` and `IngestProofs` show that each
  of their steps is one of these.
* *Outbox.* `EffectInv`: a worker that is about to mark DONE has the effect behind it, whatever became of
  its lease, as effects are never undone.
* *Ingest and batches.* `MarkedStored` is `EffectInv` for a table from which `clearAll` deletes: a worker
  about to mark has its uid stored or its queue row deleted. `WrittenOnce`: a stored uid has one writer,
  a free uid none. `RefusedOnly`: until something fails only refused payloads get to the catch block.
  `Counts` relates a request's running counts to the rows it has inserted, at each await and in the order
  of the fallback; `Traces` bounds the dealt-with items without a trace by the faults.
* *Buffer.* `SlotsCounted` needs `Balanced`: activeFlushes less the flushes that wait for their
  microtask is flights plus reports. `WorkIsServed` says the same of the timer, the immediates and the
  waiters in every state, and not just between macrotasks. `Apart` (flights and buffer share no item and
  none holds one twice), `Accounted` (a malformed item in flight is still to be reported or was) and
  `Stopping` (until `stopped` is set shutdown owns no flush, waiter or report) complete it.
* *AI database.* `LoadInv` follows the ETL process's memory to its files and its draft (`InMemory`,
  `FilesWritten`, `DraftIsLoaded`), so that what COMMIT publishes is the contexts of the rows it
  publishes. `TypeInv` needs the types of what a request has read (`ReadType`) and made of it
  (`ResultType`), through `buildAdvice`. `AnswerInv` follows the advice from the result to its row.
  `SpikeInv`: each context read was published with some ledger, so that a spike is one of that ledger
  even if the rows were read from another.
* *Compositions.* `DeliveryInv` is the transfers' invariant with `RowsAreOwed` (an outbox row is of a
  committed transfer) and `HeldArePresent` (a worker holds rows only): the way back from an effect to its
  commit. `IntakeInv` is the same way back from `raw_transactions` over claim and queue row to the 202,
  with `WritersAreRows` (a free uid has no writer). `TransfersProofs` and `BufferProofs` state their steps
  over the variables without `faults`, which both parts of a composition count.

**Model-checked only.** Liveness under fairness, which is out of the prover's reach: `EventuallyAnswered`
of the transfers and of the AI service, `EventuallyClosed`, `EventuallyStored`, `EventuallyDelivered`. The
four violation runs are TLC's alone.

## 7. Not modelled, and why

* Wording, formatting, logging, metrics, prompt text, listings: no property is about them. Decimal
  parsing is represented by integer amounts; the positive-amount test is kept.
* `stats` and the Accounts API: reads of committed rows by separate statements, which change nothing; a
  total and its parts may be of different moments, and nothing promises otherwise.
* The emitter, the generators and the seed: clients and test data. What they may send is what the
  constants `Item` and `Items` allow. The seed leaves the balance of an existing account alone.
* The walk of `getPgCode` over arbitrarily nested errors: errors have the two shapes of `Shape`.
* Foreign keys: the KEY SHARE locks an insert takes on rows its transaction has already locked.
* Connection pool counts: a refused BEGIN is a fault, without the arithmetic that leads to it.
* `onModuleDestroy` runs when `app.close()` is called. No shutdown hook is enabled in `main.ts`, so
  whether a signal leads there is not decided by the code modelled.
* A crash that leaves a half-written CSV or JSON file; duplicate uids in a CSV that an operator supplies;
  two ETL runs at once.
* After `clearAll` the ETL finds no rows and loads the CSV of the run before. `Export` models it; the
  code prints that it does so, and nothing promises otherwise.
* A worker that dies at every claim spends attempts without limit, as the count is compared only after a
  failure that was caught. Bounded by `MaxFaults` in the runs.

## 8. Plan

Done: all modules of section 1.2, and the theorems of section 6. Left, for proofs:

1. The invariants of the parts in the compositions: `EndToEnd` keeps the workers' `EffectInv` and
   `LeaseInv`, `Pipeline` keeps `MarkedStored` and `WrittenOnce`. The two refinements need less.
2. A stronger `Delivery`, with a DONE event as the record of what was done, from the same invariants.
3. Lemmas about the operators of `EtlRules` (contexts, `buildAdvice`) beyond those `SpikeInv` needs.

## 9. How to run

```
tlc -config TransfersCrossed.cfg TransfersMC        # likewise each row of section 3
tlapm TransfersProofs.tla                           # likewise LeaseProofs, OutboxProofs, IngestProofs,
                                                    # BufferProofs, EndToEndProofs, PipelineProofs,
                                                    # AiLedgerProofs
```
