-------------------------- MODULE TransfersProofs --------------------------
(***************************************************************************)
(* What TLC checks of Transfers on small instances, proved for every set   *)
(* of requests, accounts, balances and hash function: types, overdrafts    *)
(* and duplicates first; then that the statements of a transaction make up *)
(* one step of the ledger, and what follows from it on events, answers,    *)
(* locks and books.                                                        *)
(***************************************************************************)
EXTENDS Transfers, TLAPS, FiniteSetTheorems

----------------------------------------------------------------------------
(* Types.  They need two facts about stages: an error is at hand where it  *)
(* is mapped, and both accounts exist where they are updated.              *)

RaisedHasError == \A r \in Request : stage[r] = "raised" => result[r].kind = "failed"
AccountsFound ==
    \A r \in Request : stage[r] \in {"debit", "credit", "insert"} => BothExist(r)
TypeInv == TypeOK /\ RaisedHasError /\ AccountsFound

\* All variables but the count of faults, which others may share.
requestVars == <<stage, attempt, result, dbVars, txVars, audit>>

LEMMA BodyType ==
    ASSUME NEW r \in Request
    PROVE  /\ Body[r].key \in Key
           /\ Body[r].from \in Int
           /\ Body[r].to \in Int
           /\ Body[r].amount \in Nat
           /\ MyBucket(r) \in Bucket
  BY ConstantsAssumption DEF Key, MyBucket, Bucket

LEMMA InitType == Init => TypeOK
<1> SUFFICES ASSUME Init PROVE TypeOK
  OBVIOUS
<1>1. Pending \in Result
  BY DEF Result
<1>2. Opening \in [Account -> Int]
  BY ConstantsAssumption
<1> QED
  BY <1>1, <1>2, ConstantsAssumption
     DEF Init, TypeOK, Stage, MaxAttempts

\* The workspace and the locks keep their types when a transaction ends.
LEMMA EndTransactionType ==
    ASSUME TypeOK, NEW r \in Request, EndTransaction(r)
    PROVE  /\ delta' \in [Request -> [Account -> Int]]
           /\ seen' \in [Request -> Int]
           /\ inserted' \in [Request -> Row \cup {NoTransfer}]
           /\ emitted' \in [Request -> SUBSET EventRow]
           /\ advisory' \in [Bucket -> Request \cup {Free}]
           /\ rowLock' \in [Account -> Request \cup {Free}]
  BY DEF TypeOK, EndTransaction, DropWork, ReleaseLocks, ReleaseRows

LEMMA RejectType ==
    ASSUME TypeOK, NEW r \in Request, NEW code \in DomainCode, Reject(r, code)
    PROVE  TypeOK'
<1>1. Failed(code, "domain") \in Result
  BY DEF Result, Failed
<1>2. result' \in [Request -> Result]
  BY <1>1 DEF TypeOK, Reject, Raise
<1>3. stage' \in [Request -> Stage]
  BY DEF TypeOK, Reject, Raise, Goto, Stage
<1>4. EndTransaction(r)
  BY DEF Reject, Raise
<1> QED
  BY <1>2, <1>3, <1>4, EndTransactionType DEF TypeOK, Reject, dbVars

LEMMA StatementErrorType ==
    ASSUME TypeOK, NEW r \in Request, NEW state \in DbState, StatementError(r, state),
           faults' \in 0..MaxFaults
    PROVE  TypeOK'
<1> PICK shape \in Shape : Raise(r, getPgCode(state, shape), state)
  BY DEF StatementError
<1>1. Failed(getPgCode(state, shape), state) \in Result
  BY DEF Result, Failed, getPgCode
<1>2. result' \in [Request -> Result]
  BY <1>1 DEF TypeOK, Raise
<1>3. stage' \in [Request -> Stage]
  BY DEF TypeOK, Raise, Goto, Stage
<1>4. EndTransaction(r)
  BY DEF Raise
<1> QED
  BY <1>2, <1>3, <1>4, EndTransactionType DEF TypeOK, StatementError, dbVars

LEMMA UseFaultType ==
    ASSUME TypeOK, UseFault
    PROVE  faults' \in 0..MaxFaults
  BY ConstantsAssumption DEF TypeOK, UseFault

\* What a COMMIT makes visible has the type of the tables.
LEMMA ApplyType ==
    ASSUME TypeOK, NEW r \in Request, Apply(r)
    PROVE  /\ balance' \in [Account -> Int]
           /\ transfers' \in [Key -> Row \cup {NoTransfer}]
           /\ outbox' \subseteq EventRow
           /\ EndTransaction(r)
<1>1. balance' \in [Account -> Int]
  BY DEF TypeOK, Apply
<1>2. transfers' \in [Key -> Row \cup {NoTransfer}]
  BY BodyType DEF TypeOK, Apply
<1>3. outbox' \subseteq EventRow
  BY DEF TypeOK, Apply
<1> QED
  BY <1>1, <1>2, <1>3 DEF Apply

LEMMA MyIdType ==
    ASSUME TypeOK, NEW r \in Request
    PROVE  MyId(r) \in TransferId
  BY DEF TypeOK, MyId, TransferId

\* The code an error is answered with, and the row that records it.
LEMMA AnswerType ==
    ASSUME NEW e \in Result, e.kind = "failed"
    PROVE  /\ AnswerCode(e) \in DomainCode \cup {"DB_TIMEOUT", "DB_DEADLOCK", "INTERNAL_ERROR"}
           /\ Failed(AnswerCode(e), e.state) \in Result
<1>2. AnswerCode(e) \in DomainCode \cup {"DB_TIMEOUT", "DB_DEADLOCK", "INTERNAL_ERROR"}
  BY DEF AnswerCode, InfraCode
<1>3. e.state \in DbState \cup {"domain"}
  BY DEF Result, Pending
<1> QED
  BY <1>2, <1>3 DEF Result, Failed

\* An action outside a transaction's end: only the columns it names change.
LEMMA ProgressType ==
    ASSUME TypeInv, NEW r \in Request, Progress(r)
    PROVE  TypeOK'
<1> USE BodyType DEF TypeInv
<1>1. CASE RejectEarly(r)
  BY <1>1, RejectType DEF RejectEarly, EarlyRefusal, DomainCode
<1>2. CASE Accept(r)
  BY <1>2 DEF Accept, TypeOK, Goto, Stage, dbVars, txVars
<1>3. CASE Begin(r)
  BY <1>3 DEF Begin, TypeOK, Goto, Stage, dbVars, txVars
<1>4. CASE TakeAdvisory(r)
  BY <1>4 DEF TakeAdvisory, TypeOK, Goto, Stage, dbVars
<1>5. CASE Replay(r)
  <2>1. Existing(r) \in Row
    BY <1>5 DEF Replay, Existing, TypeOK
  <2>2. Completed(Existing(r).id, TRUE) \in Result
    BY <2>1 DEF Row, Result, Completed, ReplayedId
  <2> QED
    BY <1>5, <2>2 DEF Replay, ReplayedId, TypeOK, Goto, Stage, dbVars, txVars
<1>6. CASE RejectConflict(r)
  BY <1>6, RejectType DEF RejectConflict, DomainCode
<1>7. CASE LookupMisses(r)
  BY <1>7 DEF LookupMisses, TypeOK, Goto, Stage, dbVars, txVars
<1>8. CASE LockRow(r)
  BY <1>8 DEF LockRow, TypeOK, dbVars, NextToLock, Wanted
<1>9. CASE RejectMissing(r)
  BY <1>9, RejectType DEF RejectMissing, DomainCode
<1>10. CASE RejectCurrency(r)
  BY <1>10, RejectType DEF RejectCurrency, DomainCode
<1>11. CASE RowsLocked(r)
  BY <1>11 DEF RowsLocked, TypeOK, Goto, Stage, dbVars, txVars
<1>12. CASE Debit(r)
  <2>1. Body[r].from \in Account
    BY <1>12 DEF Debit, AccountsFound, BothExist
  <2> QED
    BY <1>12, <2>1 DEF Debit, TypeOK, Goto, Stage, dbVars, Write, Visible, Credited
<1>13. CASE RejectOverdraft(r)
  BY <1>13, RejectType DEF RejectOverdraft, DomainCode
<1>14. CASE Credit(r)
  <2>1. Body[r].to \in Account
    BY <1>14 DEF Credit, AccountsFound, BothExist
  <2> QED
    BY <1>14, <2>1 DEF Credit, TypeOK, Goto, Stage, dbVars, Write, Visible, Credited
<1>15. CASE CreditOverflows(r)
  <2>1. faults' \in 0..MaxFaults
    BY <1>15 DEF CreditOverflows, TypeOK
  <2> QED
    BY <1>15, <2>1, StatementErrorType DEF CreditOverflows, DbState
<1>16. CASE InsertTransfer(r)
  <2>1. MyRow(r) \in Row
    BY <1>16, MyIdType DEF InsertTransfer, AccountsFound, BothExist, MyRow, Row
  <2> QED
    BY <1>16, <2>1 DEF InsertTransfer, TypeOK, Goto, Stage, dbVars
<1>17. CASE InsertFails(r)
  <2>1. faults' \in 0..MaxFaults
    BY <1>17 DEF InsertFails, TypeOK
  <2> QED
    BY <1>17, <2>1, StatementErrorType DEF InsertFails, DbState
<1>18. CASE EnqueueAi(r)
  <2>1. Event(r, "AI_RECOMMEND") \in EventRow
    BY MyIdType DEF Event, EventRow, EventType, TypeOK
  <2> QED
    BY <1>18, <2>1 DEF EnqueueAi, TypeOK, Goto, Stage, dbVars
<1>19. CASE EnqueueBancs(r)
  <2>1. Event(r, "BANCS_SIMULATED") \in EventRow
    BY MyIdType DEF Event, EventRow, EventType, TypeOK
  <2>2. Completed(MyId(r), FALSE) \in Result
    BY MyIdType DEF Result, Completed
  <2> QED
    BY <1>19, <2>1, <2>2 DEF EnqueueBancs, TypeOK, Goto, Stage, dbVars
<1>20. CASE Commit(r)
  <2>1. stage' \in [Request -> Stage]
    BY <1>20 DEF Commit, TypeOK, Goto, Stage
  <2> QED
    BY <1>20, <2>1, ApplyType, EndTransactionType DEF Commit, TypeOK
<1>21. CASE Retry(r)
  <2>1. attempt' \in [Request -> 1..MaxAttempts]
    BY <1>21 DEF Retry, TypeOK, MaxAttempts
  <2>2. Pending \in Result
    BY DEF Result
  <2> QED
    BY <1>21, <2>1, <2>2 DEF Retry, TypeOK, Goto, Stage, dbVars, txVars
<1>22. CASE RecordAndAnswer(r)
  <2>1. result[r] \in Result /\ result[r].kind = "failed"
    BY <1>22 DEF RecordAndAnswer, GivesUp, RaisedHasError, TypeOK
  <2>2. AuditRow(r) \in [request : Request, table : {"transfer_failures", "infra_exceptions"},
                         code : DomainCode \cup {"DB_TIMEOUT", "DB_DEADLOCK", "INTERNAL_ERROR"}]
    BY <2>1, AnswerType DEF AuditRow
  <2>3. result' \in [Request -> Result]
    BY <1>22, <2>1, AnswerType DEF RecordAndAnswer, AnswerError, TypeOK
  <2> QED
    BY <1>22, <2>2, <2>3 DEF RecordAndAnswer, AnswerError, TypeOK, Goto, Stage, dbVars, txVars
<1>23. CASE AnswerUnrecorded(r)
  <2>1. result[r] \in Result /\ result[r].kind = "failed"
    BY <1>23 DEF AnswerUnrecorded, GivesUp, RaisedHasError, TypeOK
  <2>2. result' \in [Request -> Result]
    BY <1>23, <2>1, AnswerType DEF AnswerUnrecorded, AnswerError, TypeOK
  <2> QED
    BY <1>23, <2>2 DEF AnswerUnrecorded, AnswerError, TypeOK, Goto, Stage, dbVars, txVars
<1> QED
  BY <1>1, <1>2, <1>3, <1>4, <1>5, <1>6, <1>7, <1>8, <1>9, <1>10, <1>11, <1>12, <1>13,
     <1>14, <1>15, <1>16, <1>17, <1>18, <1>19, <1>20, <1>21, <1>22, <1>23 DEF Progress

LEMMA FaultType ==
    ASSUME TypeInv, NEW r \in Request, Fault(r)
    PROVE  TypeOK'
<1> USE DEF TypeInv
<1>0. faults' \in 0..MaxFaults
  BY UseFaultType DEF Fault, WaitFails, StatementFails, CommitUnacknowledged, RecordFails,
                      Crash, CrashAfterCommit
<1>1. CASE WaitFails(r)
  BY <1>0, <1>1, StatementErrorType DEF WaitFails, DbState
<1>2. CASE StatementFails(r)
  BY <1>0, <1>2, StatementErrorType DEF StatementFails, DbState
<1>3. CASE CommitUnacknowledged(r)
  <2>1. Failed(EngineCode, "lost") \in Result
    BY DEF Result, Failed, DbState
  <2>2. result' \in [Request -> Result] /\ stage' \in [Request -> Stage]
    BY <1>3, <2>1 DEF CommitUnacknowledged, TypeOK, Goto, Stage
  <2> QED
    BY <1>0, <1>3, <2>2, ApplyType, EndTransactionType DEF CommitUnacknowledged, TypeOK
<1>4. CASE RecordFails(r)
  <2>1. result[r] \in Result /\ result[r].kind = "failed"
    BY <1>4 DEF RecordFails, GivesUp, RaisedHasError, TypeOK
  <2>2. result' \in [Request -> Result]
    BY <1>4, <2>1, AnswerType DEF RecordFails, AnswerError, TypeOK
  <2> QED
    BY <1>0, <1>4, <2>2 DEF RecordFails, AnswerError, TypeOK, Goto, Stage, dbVars, txVars
<1>5. CASE Crash(r)
  <2>1. stage' \in [Request -> Stage]
    BY <1>5 DEF Crash, TypeOK, Goto, Stage
  <2> QED
    BY <1>0, <1>5, <2>1, EndTransactionType DEF Crash, TypeOK, dbVars
<1>6. CASE CrashAfterCommit(r)
  <2>1. stage' \in [Request -> Stage]
    BY <1>6 DEF CrashAfterCommit, TypeOK, Goto, Stage
  <2> QED
    BY <1>0, <1>6, <2>1, ApplyType, EndTransactionType DEF CrashAfterCommit, TypeOK
<1> QED
  BY <1>1, <1>2, <1>3, <1>4, <1>5, <1>6 DEF Fault

LEMMA StageFactsStep ==
    ASSUME TypeInv, NEW r \in Request, Progress(r) \/ Fault(r)
    PROVE  RaisedHasError' /\ AccountsFound'
<1> USE DEF TypeInv, TypeOK, RaisedHasError, AccountsFound, BothExist, Goto, Failed
<1>1. CASE RejectEarly(r) \/ RejectConflict(r) \/ RejectMissing(r)
           \/ RejectCurrency(r) \/ RejectOverdraft(r)
  <2>1. PICK code \in DomainCode : Reject(r, code)
    BY <1>1 DEF RejectEarly, EarlyRefusal, RejectConflict, RejectMissing, RejectCurrency,
                RejectOverdraft, DomainCode
  <2> QED
    BY <2>1 DEF Reject, Raise
<1>2. CASE Accept(r) \/ Begin(r) \/ TakeAdvisory(r) \/ Replay(r) \/ LookupMisses(r) \/ LockRow(r)
           \/ RowsLocked(r) \/ Debit(r) \/ Credit(r) \/ InsertTransfer(r) \/ EnqueueAi(r)
           \/ EnqueueBancs(r) \/ Commit(r) \/ Retry(r)
  <2>1. CASE Accept(r) \/ Begin(r) \/ TakeAdvisory(r) \/ LookupMisses(r) \/ LockRow(r)
    BY <2>1 DEF Accept, Begin, TakeAdvisory, LookupMisses, LockRow
  <2>2. CASE Replay(r)
    BY <2>2 DEF Replay
  <2>3. CASE RowsLocked(r)
    BY <2>3 DEF RowsLocked
  <2>4. CASE Debit(r) \/ Credit(r) \/ InsertTransfer(r)
    BY <2>4 DEF Debit, Credit, InsertTransfer
  <2>5. CASE EnqueueAi(r) \/ EnqueueBancs(r)
    BY <2>5 DEF EnqueueAi, EnqueueBancs
  <2>6. CASE Commit(r) \/ Retry(r)
    BY <2>6 DEF Commit, Retry
  <2> QED
    BY <1>2, <2>1, <2>2, <2>3, <2>4, <2>5, <2>6
<1>3. CASE CreditOverflows(r) \/ InsertFails(r) \/ WaitFails(r) \/ StatementFails(r)
  <2>1. PICK state \in DbState : StatementError(r, state)
    BY <1>3 DEF CreditOverflows, InsertFails, WaitFails, StatementFails, DbState
  <2>2. PICK code : Raise(r, code, state)
    BY <2>1 DEF StatementError
  <2> QED
    BY <2>2 DEF Raise
<1>4. CASE RecordAndAnswer(r) \/ AnswerUnrecorded(r) \/ RecordFails(r)
  BY <1>4 DEF RecordAndAnswer, AnswerUnrecorded, RecordFails, AnswerError
<1>5. CASE CommitUnacknowledged(r) \/ Crash(r) \/ CrashAfterCommit(r)
  BY <1>5 DEF CommitUnacknowledged, Crash, CrashAfterCommit
<1> QED
  BY <1>1, <1>2, <1>3, <1>4, <1>5 DEF Progress, Fault

LEMMA TypeInvStutter == TypeInv /\ UNCHANGED requestVars /\ faults' \in 0..MaxFaults => TypeInv'
  BY DEF TypeInv, TypeOK, RaisedHasError, AccountsFound, requestVars, dbVars, txVars

LEMMA VarsUnmoved == TypeInv /\ UNCHANGED vars => UNCHANGED requestVars /\ faults' \in 0..MaxFaults
  BY DEF TypeInv, TypeOK, vars, requestVars

LEMMA TypeInitially == Init => TypeInv
  BY InitType DEF Init, TypeInv, RaisedHasError, AccountsFound

LEMMA TypeInvariant == Spec => []TypeInv
<1>1. Init => TypeInv
  BY TypeInitially
<1>2. TypeInv /\ [Next]_vars => TypeInv'
  BY ProgressType, FaultType, StageFactsStep, TypeInvStutter, VarsUnmoved DEF Next, TypeInv
<1> QED
  BY <1>1, <1>2, PTL DEF Spec

\* Every variable always has its type: the counters stay in range, and no
\* error, answer, row or event outside the declared ones ever appears.
THEOREM TypeCorrect == Spec => []TypeOK
  BY TypeInvariant, PTL DEF TypeInv

----------------------------------------------------------------------------
(* No overdraft.  BalancesInRange is not inductive: a commit adds a delta  *)
(* computed earlier to a balance read earlier.  It is once every unfinished *)
(* write is under its row lock and what the holder sees fits the column.   *)

WritesLocked ==
    \A r \in Request, a \in Account : delta[r][a] # 0 => rowLock[a] = r
LockedFits ==
    \A r \in Request, a \in Account : rowLock[a] = r => Visible(r, a) \in 0..MaxBalance
RangeInv == WritesLocked /\ LockedFits /\ BalancesInRange

\* Ending a transaction without applying it.
LEMMA RollbackRange ==
    ASSUME TypeInv, RangeInv, NEW r \in Request, EndTransaction(r), UNCHANGED balance
    PROVE  RangeInv'
  BY ConstantsAssumption
     DEF TypeInv, TypeOK, RangeInv, WritesLocked, LockedFits, BalancesInRange, Visible,
         EndTransaction, DropWork, ReleaseLocks, ReleaseRows

\* Applying it: an account the transaction wrote is one it still holds.
LEMMA ApplyRange ==
    ASSUME TypeInv, RangeInv, NEW r \in Request, Apply(r)
    PROVE  RangeInv'
<1> USE DEF TypeInv, TypeOK, RangeInv
<1>1. BalancesInRange'
  <2> SUFFICES ASSUME NEW a \in Account PROVE balance'[a] \in 0..MaxBalance
    BY DEF BalancesInRange
  <2>1. balance'[a] = Visible(r, a)
    BY DEF Apply, Visible
  <2>2. CASE delta[r][a] = 0
    BY <2>1, <2>2 DEF BalancesInRange, Visible
  <2>3. CASE delta[r][a] # 0
    BY <2>1, <2>3 DEF WritesLocked, LockedFits
  <2> QED
    BY <2>2, <2>3
<1>2. WritesLocked'
  BY ConstantsAssumption DEF WritesLocked, Apply, EndTransaction, DropWork, ReleaseLocks, ReleaseRows
<1>3. LockedFits'
  <2> SUFFICES ASSUME NEW q \in Request, NEW a \in Account, rowLock'[a] = q
               PROVE  balance'[a] + delta'[q][a] \in 0..MaxBalance
    BY DEF LockedFits, Visible
  <2>1. q # r /\ rowLock[a] = q
    BY ConstantsAssumption DEF Apply, EndTransaction, ReleaseLocks, ReleaseRows
  <2>2. delta[r][a] = 0
    BY <2>1 DEF WritesLocked
  <2>3. balance'[a] = balance[a] /\ delta'[q][a] = delta[q][a]
    BY <2>1, <2>2 DEF Apply, EndTransaction, DropWork
  <2> QED
    BY <2>1, <2>3 DEF LockedFits, Visible
<1> QED
  BY <1>1, <1>2, <1>3

\* Taking a row lock, with or without a write that fits the column.
LEMMA WriteRange ==
    ASSUME TypeInv, RangeInv, NEW r \in Request, NEW a \in Account, NEW amount \in Int,
           MayUpdate(r, a), Write(r, a, amount), UNCHANGED balance,
           Visible(r, a) + amount \in 0..MaxBalance
    PROVE  RangeInv'
<1> USE DEF TypeInv, TypeOK, RangeInv
<1>1. \A q \in Request, b \in Account :
        delta'[q][b] = IF q = r /\ b = a THEN delta[r][a] + amount ELSE delta[q][b]
  BY DEF Write
<1>2. \A b \in Account : rowLock'[b] = IF b = a THEN r ELSE rowLock[b]
  BY DEF Write
<1>3. \A q \in Request \ {r} : delta[q][a] = 0
  BY ConstantsAssumption DEF WritesLocked, MayUpdate
<1>4. WritesLocked'
  BY <1>1, <1>2, <1>3 DEF WritesLocked
<1>5. LockedFits'
  BY <1>1, <1>2, <1>3 DEF LockedFits, Visible
<1>6. BalancesInRange'
  BY DEF BalancesInRange
<1> QED
  BY <1>4, <1>5, <1>6

\* What an unheld or held row shows is always within the column.
LEMMA VisibleRange ==
    ASSUME TypeInv, RangeInv, NEW r \in Request, NEW a \in Account, MayUpdate(r, a)
    PROVE  Visible(r, a) \in 0..MaxBalance
<1>1. CASE rowLock[a] = r
  BY <1>1 DEF RangeInv, LockedFits
<1>2. CASE rowLock[a] = Free
  <2>1. delta[r][a] = 0
    BY <1>2, ConstantsAssumption DEF RangeInv, WritesLocked
  <2> QED
    BY <2>1 DEF RangeInv, BalancesInRange, Visible, TypeInv, TypeOK
<1> QED
  BY <1>1, <1>2 DEF MayUpdate

LEMMA RangeStep ==
    ASSUME TypeInv, RangeInv, NEW r \in Request, Progress(r) \/ Fault(r)
    PROVE  RangeInv'
<1> USE BodyType
<1>1. CASE UNCHANGED <<balance, delta, rowLock>>
  BY <1>1 DEF RangeInv, WritesLocked, LockedFits, BalancesInRange, Visible
<1>2. CASE EndTransaction(r) /\ UNCHANGED balance
  BY <1>2, RollbackRange
<1>3. CASE Apply(r)
  BY <1>3, ApplyRange
<1>4. CASE LockRow(r)
  <2>1. PICK a \in NextToLock(r) : rowLock[a] = Free /\ rowLock' = [rowLock EXCEPT ![a] = r]
    BY <1>4 DEF LockRow
  <2>2. a \in Account
    BY DEF NextToLock, Wanted
  <2>3. Visible(r, a) \in 0..MaxBalance
    BY <2>1, <2>2, VisibleRange DEF MayUpdate
  <2>4. UNCHANGED <<balance, delta>>
    BY <1>4 DEF LockRow, dbVars
  <2> QED
    BY <2>1, <2>2, <2>3, <2>4, ConstantsAssumption
       DEF TypeInv, TypeOK, RangeInv, WritesLocked, LockedFits, BalancesInRange, Visible
<1>5. CASE Debit(r)
  <2>1. Body[r].from \in Account
    BY <1>5 DEF Debit, TypeInv, AccountsFound, BothExist
  <2>2. Visible(r, Body[r].from) \in 0..MaxBalance
    BY <1>5, <2>1, VisibleRange DEF Debit
  <2>3. MaxBalance \in Nat
    BY ConstantsAssumption
  <2>4. Visible(r, Body[r].from) + (-Body[r].amount) \in 0..MaxBalance
    BY <1>5, <2>2, <2>3, BodyType DEF Debit, Covers
  <2> QED
    BY <1>5, <2>1, <2>4, BodyType, WriteRange DEF Debit, dbVars
<1>6. CASE Credit(r)
  <2>1. Body[r].to \in Account
    BY <1>6 DEF Credit, TypeInv, AccountsFound, BothExist
  <2>2. Visible(r, Body[r].to) \in 0..MaxBalance
    BY <1>6, <2>1, VisibleRange DEF Credit, Credited
  <2>3. MaxBalance \in Nat
    BY ConstantsAssumption
  <2>4. Visible(r, Body[r].to) + Body[r].amount \in 0..MaxBalance
    BY <1>6, <2>2, <2>3, BodyType DEF Credit, Credited
  <2> QED
    BY <1>6, <2>1, <2>4, BodyType, WriteRange DEF Credit, Credited, dbVars
<1>7. ASSUME ~LockRow(r), ~Debit(r), ~Credit(r)
      PROVE  \/ UNCHANGED <<balance, delta, rowLock>>
             \/ EndTransaction(r) /\ UNCHANGED balance
             \/ Apply(r)
  <2>1. CASE RejectEarly(r) \/ RejectConflict(r) \/ RejectMissing(r)
             \/ RejectCurrency(r) \/ RejectOverdraft(r)
    BY <2>1 DEF RejectEarly, EarlyRefusal, RejectConflict, RejectMissing, RejectCurrency,
                RejectOverdraft, Reject, Raise, dbVars
  <2>2. CASE Accept(r) \/ Begin(r) \/ TakeAdvisory(r) \/ Replay(r) \/ LookupMisses(r)
             \/ RowsLocked(r) \/ InsertTransfer(r) \/ EnqueueAi(r) \/ EnqueueBancs(r) \/ Retry(r)
             \/ RecordAndAnswer(r) \/ AnswerUnrecorded(r) \/ RecordFails(r)
    BY <2>2 DEF Accept, Begin, TakeAdvisory, Replay, LookupMisses, RowsLocked, InsertTransfer,
                EnqueueAi, EnqueueBancs, Retry, RecordAndAnswer, AnswerUnrecorded, RecordFails,
                AnswerError, dbVars, txVars
  <2>3. CASE CreditOverflows(r) \/ InsertFails(r) \/ WaitFails(r) \/ StatementFails(r) \/ Crash(r)
    BY <2>3 DEF CreditOverflows, InsertFails, WaitFails, StatementFails, Crash, StatementError,
                Raise, dbVars
  <2>4. CASE Commit(r) \/ CommitUnacknowledged(r) \/ CrashAfterCommit(r)
    BY <2>4 DEF Commit, CommitUnacknowledged, CrashAfterCommit
  <2> QED
    BY <1>7, <2>1, <2>2, <2>3, <2>4 DEF Progress, Fault
<1> QED
  BY <1>1, <1>2, <1>3, <1>4, <1>5, <1>6, <1>7

LEMMA RangeStutter == RangeInv /\ UNCHANGED requestVars => RangeInv'
  BY DEF RangeInv, WritesLocked, LockedFits, BalancesInRange, Visible, requestVars, dbVars, txVars

LEMMA RangeInitially == Init => RangeInv
  BY ConstantsAssumption DEF Init, RangeInv, WritesLocked, LockedFits, BalancesInRange, Visible

LEMMA RangeInvariant == Spec => []RangeInv
<1>1. Init => RangeInv
  BY RangeInitially
<1>2. TypeInv /\ RangeInv /\ [Next]_vars => RangeInv'
  BY RangeStep, RangeStutter, VarsUnmoved DEF Next
<1> QED
  BY <1>1, <1>2, TypeInvariant, PTL DEF Spec

\* No interleaving of any requests, retries, timeouts and crashes overdraws an
\* account or overflows its column: the check of RejectOverdraft and the two
\* updates are as one because of the row locks.
THEOREM NoOverdraft == Spec => []BalancesInRange
  BY RangeInvariant, PTL DEF RangeInv

----------------------------------------------------------------------------
(* One posting per key.  The lookup and the insert are statements apart;   *)
(* the advisory lock of the key's bucket, held over both, makes them one.  *)

AdvisoryHeld ==
    \A r \in Request : stage[r] \in InTransaction \ {"advisory"} => advisory[MyBucket(r)] = r
KeyFresh ==
    \A r \in Request : stage[r] \in {"lock", "debit", "credit", "insert"} => Existing(r) = NoTransfer
InsertedLate ==
    \A r \in Request :
        inserted[r] # NoTransfer => stage[r] \in {"enqueueAi", "enqueueBancs", "commit"}
KeyInv == AdvisoryHeld /\ KeyFresh /\ InsertedLate /\ KeyRaceNeverSurfaces

\* A rollback into a stage outside transactions, keeping the 23505 promise.
LEMMA RollbackKey ==
    ASSUME TypeInv, KeyInv, NEW r \in Request, EndTransaction(r), UNCHANGED transfers,
           NEW s \in {"raised", "gone"}, Goto(r, s),
           KeyRaceNeverSurfaces'
    PROVE  KeyInv'
<1> USE DEF TypeInv, TypeOK, KeyInv, Goto, EndTransaction, DropWork, ReleaseLocks, InTransaction
<1>1. AdvisoryHeld'
  BY ConstantsAssumption, BodyType DEF AdvisoryHeld, MyBucket
<1>2. KeyFresh'
  BY DEF KeyFresh, Existing
<1>3. InsertedLate'
  BY DEF InsertedLate
<1> QED
  BY <1>1, <1>2, <1>3

\* A commit: whoever else is past its lookup has another bucket, hence
\* another key, and its key stays fresh.
LEMMA ApplyKey ==
    ASSUME TypeInv, KeyInv, NEW r \in Request, Apply(r), stage[r] = "commit",
           NEW s \in {"raised", "gone", "answered"}, Goto(r, s),
           KeyRaceNeverSurfaces'
    PROVE  KeyInv'
<1> USE DEF TypeInv, TypeOK, KeyInv, Goto, Apply, EndTransaction, DropWork, ReleaseLocks, InTransaction
<1>1. AdvisoryHeld'
  <2> SUFFICES ASSUME NEW q \in Request, stage'[q] \in InTransaction \ {"advisory"}
               PROVE  advisory'[MyBucket(q)] = q
    BY DEF AdvisoryHeld
  <2>1. q # r /\ stage[q] \in InTransaction \ {"advisory"}
    OBVIOUS
  <2>2. advisory[MyBucket(q)] = q /\ MyBucket(q) \in Bucket
    BY <2>1, BodyType DEF AdvisoryHeld, MyBucket
  <2> QED
    BY <2>1, <2>2
<1>2. KeyFresh'
  <2> SUFFICES ASSUME NEW q \in Request, stage'[q] \in {"lock", "debit", "credit", "insert"}
               PROVE  transfers'[Body[q].key] = NoTransfer
    BY DEF KeyFresh, Existing
  <2>1. q # r /\ stage[q] \in {"lock", "debit", "credit", "insert"}
    OBVIOUS
  <2>2. advisory[MyBucket(q)] = q /\ advisory[MyBucket(r)] = r
    BY <2>1 DEF AdvisoryHeld
  <2>3. Body[q].key # Body[r].key
    BY <2>1, <2>2 DEF MyBucket
  <2>4. transfers'[Body[q].key] = transfers[Body[q].key]
    BY <2>3, BodyType
  <2> QED
    BY <2>1, <2>4 DEF KeyFresh, Existing
<1>3. InsertedLate'
  BY DEF InsertedLate
<1> QED
  BY <1>1, <1>2, <1>3

LEMMA KeyStep ==
    ASSUME TypeInv, KeyInv, NEW r \in Request, Progress(r) \/ Fault(r)
    PROVE  KeyInv'
<1> USE DEF TypeInv, TypeOK
<1>1. CASE RejectEarly(r) \/ RejectConflict(r) \/ RejectMissing(r)
           \/ RejectCurrency(r) \/ RejectOverdraft(r)
  <2>1. PICK code \in DomainCode : Reject(r, code)
    BY <1>1 DEF RejectEarly, EarlyRefusal, RejectConflict, RejectMissing, RejectCurrency,
                RejectOverdraft, DomainCode
  <2>2. KeyRaceNeverSurfaces'
    BY <2>1 DEF Reject, Raise, Failed, KeyInv, KeyRaceNeverSurfaces
  <2> QED
    BY <2>1, <2>2, RollbackKey DEF Reject, Raise, dbVars
<1>2. CASE CreditOverflows(r) \/ InsertFails(r) \/ WaitFails(r) \/ StatementFails(r)
  <2>1. PICK state \in DbState \ {"23505"} : StatementError(r, state)
    BY <1>2 DEF CreditOverflows, InsertFails, WaitFails, StatementFails, DbState, KeyInv, KeyFresh
  <2>2. PICK shape \in Shape : Raise(r, getPgCode(state, shape), state)
    BY <2>1 DEF StatementError
  <2>3. KeyRaceNeverSurfaces'
    BY <2>2 DEF Raise, Failed, KeyInv, KeyRaceNeverSurfaces
  <2> QED
    BY <2>1, <2>2, <2>3, RollbackKey DEF StatementError, Raise, dbVars
<1>3. CASE Commit(r) \/ CommitUnacknowledged(r) \/ CrashAfterCommit(r)
  <2>1. KeyRaceNeverSurfaces'
    BY <1>3 DEF Commit, CommitUnacknowledged, CrashAfterCommit, Failed, KeyInv, KeyRaceNeverSurfaces
  <2> QED
    BY <1>3, <2>1, ApplyKey DEF Commit, CommitUnacknowledged, CrashAfterCommit
<1>4. CASE Crash(r)
  BY <1>4, RollbackKey DEF Crash, KeyInv, KeyRaceNeverSurfaces, dbVars
<1>5. CASE RecordAndAnswer(r) \/ AnswerUnrecorded(r) \/ RecordFails(r)
  <2>1. AdvisoryHeld'
    BY <1>5 DEF RecordAndAnswer, AnswerUnrecorded, RecordFails, GivesUp, AnswerError,
              RaisedHasError, Goto, txVars, InTransaction, KeyInv, AdvisoryHeld
  <2>2. KeyFresh'
    BY <1>5 DEF RecordAndAnswer, AnswerUnrecorded, RecordFails, GivesUp, AnswerError,
              RaisedHasError, Goto, dbVars, KeyInv, KeyFresh, Existing
  <2>3. InsertedLate'
    BY <1>5 DEF RecordAndAnswer, AnswerUnrecorded, RecordFails, GivesUp, AnswerError,
              RaisedHasError, Goto, txVars, KeyInv, InsertedLate
  <2>4. KeyRaceNeverSurfaces'
    <3>1. result[r].kind = "failed"
      BY <1>5 DEF RecordAndAnswer, AnswerUnrecorded, RecordFails, GivesUp, RaisedHasError
    <3>2. result' = [result EXCEPT ![r] = Failed(AnswerCode(result[r]), result[r].state)]
      BY <1>5 DEF RecordAndAnswer, AnswerUnrecorded, RecordFails, AnswerError
    <3>3. result'[r].state = result[r].state /\ \A q \in Request \ {r} : result'[q] = result[q]
      BY <3>2 DEF Failed
    <3> QED
      BY <3>1, <3>3 DEF KeyInv, KeyRaceNeverSurfaces
  <2> QED
    BY <2>1, <2>2, <2>3, <2>4 DEF KeyInv
<1>6. CASE Accept(r) \/ Begin(r) \/ Retry(r)
  <2>1. AdvisoryHeld'
    BY <1>6 DEF Accept, Begin, Retry, Goto, txVars, InTransaction, KeyInv, AdvisoryHeld
  <2>2. KeyFresh'
    BY <1>6 DEF Accept, Begin, Retry, Goto, dbVars, KeyInv, KeyFresh, Existing
  <2>3. InsertedLate'
    BY <1>6 DEF Accept, Begin, Retry, Goto, txVars, KeyInv, InsertedLate
  <2>4. KeyRaceNeverSurfaces'
    <3>1. result' = result \/ result' = [result EXCEPT ![r] = Pending]
      BY <1>6 DEF Accept, Begin, Retry
    <3>2. Pending.kind # "failed"
      BY DEF Pending
    <3> QED
      BY <3>1, <3>2 DEF KeyInv, KeyRaceNeverSurfaces
  <2> QED
    BY <2>1, <2>2, <2>3, <2>4 DEF KeyInv
<1>7. CASE TakeAdvisory(r)
  <2>1. AdvisoryHeld'
    <3> SUFFICES ASSUME NEW q \in Request, stage'[q] \in InTransaction \ {"advisory"}
                 PROVE  advisory'[MyBucket(q)] = q
      BY DEF AdvisoryHeld, MyBucket
    <3>1. CASE q = r
      BY <1>7, <3>1, BodyType DEF TakeAdvisory
    <3>2. CASE q # r
      <4>1. advisory[MyBucket(q)] = q
        BY <1>7, <3>2 DEF TakeAdvisory, Goto, KeyInv, AdvisoryHeld
      <4>2. MyBucket(q) # MyBucket(r)
        BY <1>7, <4>1, ConstantsAssumption DEF TakeAdvisory
      <4> QED
        BY <1>7, <4>1, <4>2, BodyType DEF TakeAdvisory
    <3> QED
      BY <3>1, <3>2
  <2>2. KeyFresh'
    BY <1>7 DEF TakeAdvisory, Goto, dbVars, KeyInv, KeyFresh, Existing
  <2>3. InsertedLate'
    BY <1>7 DEF TakeAdvisory, Goto, txVars, KeyInv, InsertedLate
  <2>4. KeyRaceNeverSurfaces'
    BY <1>7 DEF TakeAdvisory, Failed, Pending, KeyInv, KeyRaceNeverSurfaces
  <2> QED
    BY <2>1, <2>2, <2>3, <2>4 DEF KeyInv
<1>8. CASE Replay(r) \/ LookupMisses(r) \/ LockRow(r) \/ RowsLocked(r) \/ Debit(r) \/ Credit(r)
           \/ InsertTransfer(r) \/ EnqueueAi(r) \/ EnqueueBancs(r)
  <2>1. UNCHANGED <<advisory, transfers>>
    BY <1>8 DEF Replay, LookupMisses, LockRow, RowsLocked, Debit, Credit, InsertTransfer, EnqueueAi,
                EnqueueBancs, dbVars, txVars
  <2>2. /\ \A q \in Request \ {r} : stage'[q] = stage[q] /\ inserted'[q] = inserted[q]
        /\ stage[r] \in InTransaction \ {"advisory"}
        /\ stage'[r] \in {"lock", "debit", "credit", "insert"} =>
             stage[r] \in {"lock", "debit", "credit", "insert"} \/ LookupMisses(r)
        /\ inserted'[r] # NoTransfer => stage'[r] \in {"enqueueAi", "enqueueBancs", "commit"}
    <3>1. CASE Replay(r) \/ LookupMisses(r) \/ LockRow(r) \/ RowsLocked(r) \/ Debit(r) \/ Credit(r)
      <4>1. UNCHANGED inserted
        BY <3>1 DEF Replay, LookupMisses, LockRow, RowsLocked, Debit, Credit, txVars
      <4>2. /\ stage[r] \in {"lookup", "lock", "debit", "credit"}
            /\ \A q \in Request \ {r} : stage'[q] = stage[q]
        BY <3>1 DEF Replay, LookupMisses, LockRow, RowsLocked, Debit, Credit, Goto
      <4>3. stage'[r] \in {"lock", "debit", "credit", "insert"} =>
              stage[r] \in {"lock", "debit", "credit"} \/ LookupMisses(r)
        BY <3>1 DEF Replay, LockRow, RowsLocked, Debit, Credit, Goto
      <4>4. inserted[r] = NoTransfer
        BY <4>2 DEF KeyInv, InsertedLate
      <4> QED
        BY <4>1, <4>2, <4>3, <4>4 DEF InTransaction
    <3>2. CASE InsertTransfer(r) \/ EnqueueAi(r) \/ EnqueueBancs(r)
      BY <3>2 DEF InsertTransfer, EnqueueAi, EnqueueBancs, Goto, InTransaction
    <3> QED
      BY <1>8, <3>1, <3>2
  <2>3. AdvisoryHeld'
    BY <2>1, <2>2 DEF InTransaction, KeyInv, AdvisoryHeld
  <2>4. KeyFresh'
    <3>1. \A q \in Request : Existing(q)' = Existing(q)
      BY <2>1 DEF Existing
    <3>2. LookupMisses(r) => Existing(r) = NoTransfer
      BY DEF LookupMisses
    <3> QED
      BY <2>2, <3>1, <3>2 DEF KeyInv, KeyFresh
  <2>5. InsertedLate'
    BY <2>2 DEF KeyInv, InsertedLate
  <2>6. KeyRaceNeverSurfaces'
    <3>1. CASE UNCHANGED result
      BY <3>1 DEF KeyInv, KeyRaceNeverSurfaces
    <3>2. CASE Replay(r) \/ EnqueueBancs(r)
      <4>1. PICK v : result' = [result EXCEPT ![r] = v] /\ v.kind = "completed"
        BY <3>2 DEF Replay, EnqueueBancs, Completed
      <4>2. \A q \in Request : result'[q].kind = "failed" => result'[q] = result[q]
        BY <4>1
      <4> QED
        BY <4>2 DEF KeyInv, KeyRaceNeverSurfaces
    <3> QED
      BY <1>8, <3>1, <3>2
         DEF LookupMisses, LockRow, RowsLocked, Debit, Credit, InsertTransfer, EnqueueAi
  <2> QED
    BY <2>3, <2>4, <2>5, <2>6 DEF KeyInv
<1> QED
  BY <1>1, <1>2, <1>3, <1>4, <1>5, <1>6, <1>7, <1>8 DEF Progress, Fault

LEMMA KeyStutter == KeyInv /\ UNCHANGED requestVars => KeyInv'
  BY DEF KeyInv, AdvisoryHeld, KeyFresh, InsertedLate, KeyRaceNeverSurfaces, Existing, requestVars,
         dbVars, txVars

LEMMA KeyInitially == Init => KeyInv
  BY DEF Init, KeyInv, AdvisoryHeld, KeyFresh, InsertedLate, KeyRaceNeverSurfaces, InTransaction, Pending

LEMMA KeyInvariant == Spec => []KeyInv
<1>1. Init => KeyInv
  BY KeyInitially
<1>2. TypeInv /\ KeyInv /\ [Next]_vars => KeyInv'
  BY KeyStep, KeyStutter, VarsUnmoved DEF Next
<1> QED
  BY <1>1, <1>2, TypeInvariant, PTL DEF Spec

\* Concurrent requests with one idempotency key never meet in the unique
\* index: the duplicate always replays or conflicts, whatever hashtext maps
\* the keys to and however many requests share them.
THEOREM DuplicatesNeverRace == Spec => []KeyRaceNeverSurfaces
  BY KeyInvariant, PTL DEF KeyInv

----------------------------------------------------------------------------
(* What a transaction carries from statement to statement, by the stage it *)
(* is at: the inductive invariant of the refinement.                       *)

\* The debit is written and nothing is committed or rolled back yet.
Posting(r) == stage[r] \in {"credit", "insert"} \/ inserted[r] # NoTransfer

Move(r, a) ==
    IF Posting(r) /\ a = Body[r].from THEN -Body[r].amount
    ELSE IF Posting(r) /\ stage[r] # "credit" /\ a = Body[r].to THEN Body[r].amount
    ELSE 0

Emits(r) ==
    IF stage[r] = "enqueueBancs" THEN {"AI_RECOMMEND"}
    ELSE IF stage[r] = "commit" /\ Posting(r) THEN EventType ELSE {}

Workspace(r) ==
    /\ \A a \in Account : delta[r][a] = Move(r, a)
    /\ emitted[r] = {Event(r, y) : y \in Emits(r)}
    /\ stage[r] \in {"enqueueAi", "enqueueBancs"} => inserted[r] # NoTransfer
    /\ inserted[r] # NoTransfer => inserted[r] = MyRow(r)

\* The checks made before the first update still hold at the last.
Checked(r) ==
    /\ stage[r] \in InTransaction \cup {"begin"} => EarlyRefusal(r) = {}
    /\ stage[r] = "raised" /\ isRecoverableConcurrencyError(result[r]) => EarlyRefusal(r) = {}
    /\ stage[r] = "debit" \/ Posting(r) =>
         /\ BothExist(r) /\ CurrencyMatches(r)
         /\ rowLock[Body[r].from] = r /\ rowLock[Body[r].to] = r

\* What was read before the COMMIT is still so at the COMMIT.
Current(r) ==
    Posting(r) => seen[r] = balance[Body[r].from] - Body[r].amount /\ Existing(r) = NoTransfer

Decided(r) ==
    stage[r] = "commit" =>
        IF Posting(r) THEN result[r] = Completed(MyId(r), FALSE)
        ELSE /\ Existing(r) # NoTransfer
             /\ SameContent(Existing(r), r)
             /\ result[r] = Completed(Existing(r).id, TRUE)

Carried(r) == Workspace(r) /\ Checked(r) /\ Current(r) /\ Decided(r)
WorkInv == \A r \in Request : Carried(r)

\* The request a posted row came from is past its transaction for good.
Poster(k) == transfers[k].id[1]
PosterDone(k) ==
    transfers[k] # NoTransfer =>
        /\ Body[Poster(k)].key = k
        /\ stage[Poster(k)] \in {"raised", "answered", "gone"}
        /\ stage[Poster(k)] = "raised" => result[Poster(k)] = Failed(EngineCode, "lost")
        /\ Refused(Poster(k)) => result[Poster(k)].code = "INTERNAL_ERROR"
PosterInv == \A k \in Key : PosterDone(k)

\* Locks are held by open transactions only, and a request's row locks are
\* taken in the order of the account ids.
Advisories ==
    \A b \in Bucket : advisory[b] # Free => stage[advisory[b]] \in InTransaction \ {"advisory"}
Rows ==
    \A r \in Request, a \in Account :
        rowLock[a] = r => stage[r] \in InTransaction \ {"advisory", "lookup"} /\ a \in Wanted(r)
Ordered ==
    \A r \in Request, a, b \in Account :
        stage[r] = "lock" /\ rowLock[a] = r /\ b \in Wanted(r) /\ b < a => rowLock[b] = r
LockInv == Advisories /\ Rows /\ Ordered

----------------------------------------------------------------------------
(* What a step of one request leaves alone of the others.                  *)

\* The steps, by what becomes of the transaction: rolled back, committed, or
\* still open (or not begun, or over).
RollsBack(r) ==
    EndTransaction(r) /\ (Goto(r, "raised") \/ Goto(r, "gone")) /\ UNCHANGED dbVars
Commits(r) == Commit(r) \/ CommitUnacknowledged(r) \/ CrashAfterCommit(r)
Moves(r) ==
    \/ TakeAdvisory(r) \/ Replay(r) \/ LookupMisses(r) \/ LockRow(r) \/ RowsLocked(r)
    \/ Debit(r) \/ Credit(r) \/ InsertTransfer(r) \/ EnqueueAi(r) \/ EnqueueBancs(r)
Waits(r) ==
    \/ Accept(r) \/ Begin(r) \/ Retry(r)
    \/ RecordAndAnswer(r) \/ AnswerUnrecorded(r) \/ RecordFails(r)

LEMMA Kinds ==
    ASSUME NEW r \in Request, Progress(r) \/ Fault(r)
    PROVE  RollsBack(r) \/ Commits(r) \/ Moves(r) \/ Waits(r)
<1>1. CASE RejectEarly(r) \/ RejectConflict(r) \/ RejectMissing(r)
           \/ RejectCurrency(r) \/ RejectOverdraft(r)
  BY <1>1 DEF RejectEarly, RejectConflict, RejectMissing, RejectCurrency, RejectOverdraft,
              Reject, Raise, RollsBack
<1>2. CASE CreditOverflows(r) \/ InsertFails(r) \/ WaitFails(r) \/ StatementFails(r)
  BY <1>2 DEF CreditOverflows, InsertFails, WaitFails, StatementFails, StatementError, Raise,
              RollsBack
<1>3. CASE Crash(r)
  BY <1>3 DEF Crash, RollsBack
<1> QED
  BY <1>1, <1>2, <1>3 DEF Progress, Fault, Commits, Moves, Waits

LEMMA OthersKeepTheirs ==
    ASSUME TypeInv, NEW r \in Request, Progress(r) \/ Fault(r), NEW q \in Request \ {r}
    PROVE  /\ stage'[q] = stage[q] /\ attempt'[q] = attempt[q] /\ result'[q] = result[q]
           /\ delta'[q] = delta[q] /\ seen'[q] = seen[q]
           /\ inserted'[q] = inserted[q] /\ emitted'[q] = emitted[q]
<1> USE DEF TypeInv, TypeOK, Goto, EndTransaction, DropWork, txVars
<1>1. CASE RejectEarly(r) \/ RejectConflict(r) \/ RejectMissing(r)
           \/ RejectCurrency(r) \/ RejectOverdraft(r)
  BY <1>1 DEF RejectEarly, RejectConflict, RejectMissing, RejectCurrency, RejectOverdraft,
              Reject, Raise
<1>2. CASE CreditOverflows(r) \/ InsertFails(r) \/ WaitFails(r) \/ StatementFails(r) \/ Crash(r)
  BY <1>2 DEF CreditOverflows, InsertFails, WaitFails, StatementFails, Crash, StatementError, Raise
<1>3. CASE Commits(r)
  BY <1>3 DEF Commits, Commit, CommitUnacknowledged, CrashAfterCommit, Apply
<1>4. CASE Moves(r)
  BY <1>4 DEF Moves, TakeAdvisory, Replay, LookupMisses, LockRow, RowsLocked, Debit, Credit,
              InsertTransfer, EnqueueAi, EnqueueBancs, Write
<1>5. CASE Waits(r)
  BY <1>5 DEF Waits, Accept, Begin, Retry, RecordAndAnswer, AnswerUnrecorded, RecordFails,
              AnswerError
<1> QED
  BY <1>1, <1>2, <1>3, <1>4, <1>5 DEF Progress, Fault, Commits, Moves, Waits

\* Row locks of others stay, and so do the balances under them.
LEMMA OthersKeepRows ==
    ASSUME TypeInv, RangeInv, NEW r \in Request, Progress(r) \/ Fault(r),
           NEW q \in Request \ {r}, NEW a \in Account
    PROVE  /\ rowLock'[a] = q <=> rowLock[a] = q
           /\ rowLock[a] = q => balance'[a] = balance[a]
<1>0. Free # q /\ Free # r
  BY ConstantsAssumption
<1> USE <1>0 DEF TypeInv, TypeOK
<1>1. CASE RollsBack(r)
  BY <1>1 DEF RollsBack, EndTransaction, ReleaseLocks, ReleaseRows, dbVars
<1>2. CASE Commits(r)
  <2>1. Apply(r)
    BY <1>2 DEF Commits, Commit, CommitUnacknowledged, CrashAfterCommit
  <2>2. rowLock[a] = q => delta[r][a] = 0
    BY DEF RangeInv, WritesLocked
  <2> QED
    BY <2>1, <2>2 DEF Apply, EndTransaction, ReleaseLocks, ReleaseRows
<1>3. CASE LockRow(r)
  BY <1>3 DEF LockRow, NextToLock, Wanted, dbVars
<1>4. CASE Debit(r)
  BY <1>4 DEF Debit, Write, MayUpdate, dbVars
<1>5. CASE Credit(r)
  BY <1>5 DEF Credit, Write, MayUpdate, Credited, dbVars
<1>6. CASE Moves(r) /\ ~LockRow(r) /\ ~Debit(r) /\ ~Credit(r)
  BY <1>6 DEF Moves, TakeAdvisory, Replay, LookupMisses, RowsLocked, InsertTransfer, EnqueueAi,
              EnqueueBancs, dbVars, txVars
<1>7. CASE Waits(r)
  BY <1>7 DEF Waits, Accept, Begin, Retry, RecordAndAnswer, AnswerUnrecorded, RecordFails,
              AnswerError, dbVars, txVars
<1> QED
  BY <1>1, <1>2, <1>3, <1>4, <1>5, <1>6, <1>7, Kinds

\* Only a commit of an inserted row changes the transfers, under its own key.
LEMMA TransfersChange ==
    ASSUME TypeInv, NEW r \in Request, Progress(r) \/ Fault(r)
    PROVE  \/ UNCHANGED transfers
           \/ /\ Commits(r) /\ inserted[r] # NoTransfer
              /\ transfers' = [transfers EXCEPT ![Body[r].key] = inserted[r]]
<1>1. CASE RollsBack(r)
  BY <1>1 DEF RollsBack, dbVars
<1>2. CASE Commits(r)
  BY <1>2 DEF Commits, Commit, CommitUnacknowledged, CrashAfterCommit, Apply
<1>3. CASE Moves(r)
  BY <1>3 DEF Moves, TakeAdvisory, Replay, LookupMisses, LockRow, RowsLocked, Debit, Credit,
              InsertTransfer, EnqueueAi, EnqueueBancs, dbVars
<1>4. CASE Waits(r)
  BY <1>4 DEF Waits, Accept, Begin, Retry, RecordAndAnswer, AnswerUnrecorded, RecordFails,
              AnswerError, dbVars
<1> QED
  BY <1>1, <1>2, <1>3, <1>4, Kinds

\* Whoever has its key's advisory lock finds the same row under it until the end.
LEMMA OthersKeepKeys ==
    ASSUME TypeInv, KeyInv, NEW r \in Request, Progress(r) \/ Fault(r),
           NEW q \in Request \ {r}, stage[q] \in InTransaction \ {"advisory"}
    PROVE  Existing(q)' = Existing(q)
<1>1. CASE UNCHANGED transfers
  BY <1>1 DEF Existing
<1>2. CASE /\ Commits(r)
           /\ transfers' = [transfers EXCEPT ![Body[r].key] = inserted[r]]
  <2>1. stage[r] = "commit"
    BY <1>2 DEF Commits, Commit, CommitUnacknowledged, CrashAfterCommit
  <2>2. advisory[MyBucket(q)] = q /\ advisory[MyBucket(r)] = r
    BY <2>1 DEF KeyInv, AdvisoryHeld, InTransaction
  <2>3. Body[q].key # Body[r].key
    BY <2>2 DEF MyBucket
  <2> QED
    BY <1>2, <2>3, BodyType DEF Existing, TypeInv, TypeOK
<1> QED
  BY <1>1, <1>2, TransfersChange

LEMMA CarriedByOthers ==
    ASSUME TypeInv, RangeInv, KeyInv, WorkInv, NEW r \in Request, Progress(r) \/ Fault(r),
           NEW q \in Request \ {r}
    PROVE  Carried(q)'
<1>0. Carried(q)
  BY DEF WorkInv
<1>1. /\ stage'[q] = stage[q] /\ attempt'[q] = attempt[q] /\ result'[q] = result[q]
      /\ delta'[q] = delta[q] /\ seen'[q] = seen[q]
      /\ inserted'[q] = inserted[q] /\ emitted'[q] = emitted[q]
  BY OthersKeepTheirs
<1>2. Posting(q)' = Posting(q) /\ MyId(q)' = MyId(q) /\ MyRow(q)' = MyRow(q)
  BY <1>1 DEF Posting, MyId, MyRow
<1>3. Workspace(q)'
  <2>1. \A a \in Account : Move(q, a)' = Move(q, a)
    BY <1>1, <1>2 DEF Move
  <2>2. Emits(q)' = Emits(q) /\ \A y : Event(q, y)' = Event(q, y)
    BY <1>1, <1>2 DEF Emits, Event
  <2>3. emitted'[q] = {Event(q, y)' : y \in Emits(q)'}
    BY <1>0, <1>1, <2>2 DEF Carried, Workspace
  <2> QED
    BY <1>0, <1>1, <1>2, <2>1, <2>3 DEF Carried, Workspace
<1>4. Checked(q)'
  <2>1. \A a \in Account : rowLock[a] = q => rowLock'[a] = q
    BY OthersKeepRows
  <2> QED
    BY <1>0, <1>1, <1>2, <2>1
       DEF Carried, Checked, BothExist, CurrencyMatches, Wanted, EarlyRefusal
<1>5. Current(q)'
  <2> SUFFICES ASSUME Posting(q)
               PROVE  /\ seen'[q] = balance'[Body[q].from] - Body[q].amount
                      /\ Existing(q)' = NoTransfer
    BY <1>2 DEF Current
  <2>1. Body[q].from \in Account /\ rowLock[Body[q].from] = q
    BY <1>0 DEF Carried, Checked, BothExist
  <2>2. balance'[Body[q].from] = balance[Body[q].from]
    BY <2>1, OthersKeepRows
  <2>3. stage[q] \in InTransaction \ {"advisory"}
    BY DEF Posting, KeyInv, InsertedLate, InTransaction
  <2> QED
    BY <1>0, <1>1, <2>2, <2>3, OthersKeepKeys DEF Carried, Current
<1>6. Decided(q)'
  <2>1. stage[q] = "commit" => Existing(q)' = Existing(q)
    BY OthersKeepKeys DEF InTransaction
  <2> QED
    BY <1>0, <1>1, <1>2, <2>1 DEF Carried, Decided, SameContent
<1> QED
  BY <1>3, <1>4, <1>5, <1>6 DEF Carried

----------------------------------------------------------------------------
(* The same for the request that makes the step, statement by statement.   *)

\* Before its first update and after its end a transaction carries nothing.
LEMMA EarlyStagesCarryNothing ==
    ASSUME TypeInv, KeyInv, WorkInv, NEW r \in Request,
           stage[r] \in {"received", "begin", "advisory", "lookup", "lock", "debit",
                         "raised", "answered", "gone"}
    PROVE  /\ \A a \in Account : delta[r][a] = 0
           /\ emitted[r] = {} /\ inserted[r] = NoTransfer
<1>1. inserted[r] = NoTransfer
  BY DEF KeyInv, InsertedLate
<1>2. ~Posting(r) /\ Emits(r) = {}
  BY <1>1 DEF Posting, Emits
<1> QED
  BY <1>1, <1>2 DEF WorkInv, Carried, Workspace, Move

\* The end of a transaction, whichever, if the request will not begin again
\* with a body it should have refused.
LEMMA CarriedAtEnd ==
    ASSUME TypeInv, NEW r \in Request, EndTransaction(r),
           NEW s \in {"raised", "gone", "answered"}, Goto(r, s),
           s = "raised" /\ isRecoverableConcurrencyError(result[r])' => EarlyRefusal(r) = {}
    PROVE  Carried(r)'
<1>1. stage'[r] = s /\ emitted'[r] = {} /\ inserted'[r] = NoTransfer
  BY DEF TypeInv, TypeOK, EndTransaction, DropWork, Goto
<1>2. \A a \in Account : delta'[r][a] = 0
  BY DEF TypeInv, TypeOK, EndTransaction, DropWork
<1>3. Workspace(r)' /\ Current(r)' /\ Decided(r)' /\ ~Posting(r)'
  <2>1. ~Posting(r)'
    BY <1>1 DEF Posting
  <2>2. Emits(r)' = {}
    BY <1>1, <2>1 DEF Emits
  <2> QED
    BY <1>1, <1>2, <2>1, <2>2 DEF Workspace, Current, Decided, Move
<1>4. EarlyRefusal(r)' = EarlyRefusal(r)
  BY DEF EarlyRefusal
<1> QED
  BY <1>1, <1>3, <1>4 DEF Carried, Checked, InTransaction

LEMMA CarriedByRollback ==
    ASSUME TypeInv, KeyInv, WorkInv, NEW r \in Request, Progress(r) \/ Fault(r), RollsBack(r)
    PROVE  Carried(r)'
<1>0. stage'[r] = "raised" /\ isRecoverableConcurrencyError(result[r])' => EarlyRefusal(r) = {}
  <2>1. CASE RejectEarly(r) \/ RejectConflict(r) \/ RejectMissing(r)
             \/ RejectCurrency(r) \/ RejectOverdraft(r)
    <3>1. PICK code \in DomainCode : Reject(r, code)
      BY <2>1 DEF RejectEarly, EarlyRefusal, RejectConflict, RejectMissing, RejectCurrency,
                  RejectOverdraft, DomainCode
    <3>2. result'[r] = Failed(code, "domain")
      BY <3>1 DEF Reject, Raise, TypeInv, TypeOK
    <3> QED
      BY <3>2 DEF Failed, DomainCode, isRecoverableConcurrencyError
  <2>2. CASE CreditOverflows(r) \/ InsertFails(r) \/ WaitFails(r) \/ StatementFails(r)
    <3>1. stage[r] \in InTransaction \cup {"begin"}
      BY <2>2 DEF CreditOverflows, InsertFails, WaitFails, StatementFails, Blocked, InTransaction
    <3> QED
      BY <3>1 DEF WorkInv, Carried, Checked
  <2>3. CASE Commits(r)
    <3>1. Failed(EngineCode, "lost").code = EngineCode
      BY DEF Failed
    <3> QED
      BY <2>3, <3>1 DEF Commits, Commit, CommitUnacknowledged, CrashAfterCommit, Goto,
                        isRecoverableConcurrencyError, EngineCode, TypeInv, TypeOK
  <2>4. CASE Crash(r)
    BY <2>4 DEF Crash, Goto, TypeInv, TypeOK
  <2>5. CASE Moves(r)
    BY <2>5 DEF Moves, TakeAdvisory, Replay, LookupMisses, LockRow, RowsLocked, Debit, Credit,
                InsertTransfer, EnqueueAi, EnqueueBancs, Goto, TypeInv, TypeOK
  <2>6. CASE Waits(r)
    BY <2>6 DEF Waits, Accept, Begin, Retry, RecordAndAnswer, AnswerUnrecorded, RecordFails,
                AnswerError, Goto, TypeInv, TypeOK
  <2> QED
    BY <2>1, <2>2, <2>3, <2>4, <2>5, <2>6 DEF Progress, Fault, Commits, Moves, Waits
<1> QED
  BY <1>0, CarriedAtEnd DEF RollsBack, Goto, TypeInv, TypeOK

LEMMA CarriedByCommit ==
    ASSUME TypeInv, NEW r \in Request, Commits(r)
    PROVE  Carried(r)'
<1>1. EndTransaction(r)
  BY DEF Commits, Commit, CommitUnacknowledged, CrashAfterCommit, Apply
<1>2. CASE Commit(r)
  BY <1>1, <1>2, CarriedAtEnd DEF Commit
<1>3. CASE CommitUnacknowledged(r)
  <2>1. result'[r] = Failed(EngineCode, "lost")
    BY <1>3 DEF CommitUnacknowledged, TypeInv, TypeOK
  <2> QED
    BY <1>1, <1>3, <2>1, CarriedAtEnd
       DEF CommitUnacknowledged, Failed, EngineCode, isRecoverableConcurrencyError
<1>4. CASE CrashAfterCommit(r)
  BY <1>1, <1>4, CarriedAtEnd DEF CrashAfterCommit
<1> QED
  BY <1>2, <1>3, <1>4 DEF Commits

LEMMA CarriedOutside ==
    ASSUME TypeInv, KeyInv, WorkInv, NEW r \in Request, Waits(r)
    PROVE  Carried(r)'
<1> USE DEF TypeInv, TypeOK
<1>1. stage[r] \in {"received", "begin", "raised"} /\ stage'[r] \in {"begin", "advisory", "answered"}
  BY DEF Waits, Accept, Begin, Retry, RecordAndAnswer, AnswerUnrecorded, RecordFails, GivesUp,
         AnswerError, Goto
<1>2. UNCHANGED txVars
  BY DEF Waits, Accept, Begin, Retry, RecordAndAnswer, AnswerUnrecorded, RecordFails, AnswerError
<1>3. emitted'[r] = {} /\ inserted'[r] = NoTransfer /\ \A a \in Account : delta'[r][a] = 0
  BY <1>1, <1>2, EarlyStagesCarryNothing DEF txVars
<1>4. ~Posting(r)'
  BY <1>1, <1>3 DEF Posting
<1>5. Emits(r)' = {}
  BY <1>1, <1>4 DEF Emits
<1>6. stage'[r] # "answered" => EarlyRefusal(r)' = {}
  BY DEF WorkInv, Carried, Checked, Waits, Accept, Begin, Retry, RecordAndAnswer,
         AnswerUnrecorded, RecordFails, AnswerError, Goto, EarlyRefusal
<1> QED
  BY <1>1, <1>3, <1>4, <1>5, <1>6
     DEF Carried, Workspace, Checked, Current, Decided, Move, InTransaction

\* The first statements write nothing: what they find out is kept in Checked.
LEMMA CarriedBeforeDebit ==
    ASSUME TypeInv, KeyInv, WorkInv, NEW r \in Request,
           TakeAdvisory(r) \/ LookupMisses(r) \/ LockRow(r) \/ RowsLocked(r)
    PROVE  Carried(r)'
<1> USE DEF TypeInv, TypeOK
<1>1. stage[r] \in {"advisory", "lookup", "lock"} /\ stage'[r] \in {"lookup", "lock", "debit"}
  BY DEF TakeAdvisory, LookupMisses, LockRow, RowsLocked, Goto
<1>2. UNCHANGED <<delta, emitted, inserted>>
  BY DEF TakeAdvisory, LookupMisses, LockRow, RowsLocked, txVars
<1>3. emitted'[r] = {} /\ inserted'[r] = NoTransfer /\ \A a \in Account : delta'[r][a] = 0
  BY <1>1, <1>2, EarlyStagesCarryNothing
<1>4. ~Posting(r)'
  BY <1>1, <1>3 DEF Posting
<1>5. Emits(r)' = {}
  BY <1>1, <1>4 DEF Emits
<1>6. EarlyRefusal(r)' = {}
  BY <1>1 DEF WorkInv, Carried, Checked, EarlyRefusal, InTransaction
<1>7. stage'[r] = "debit" =>
        /\ BothExist(r)' /\ CurrencyMatches(r)'
        /\ rowLock'[Body[r].from] = r /\ rowLock'[Body[r].to] = r
  <2> SUFFICES ASSUME stage'[r] = "debit"
               PROVE  /\ BothExist(r) /\ CurrencyMatches(r)
                      /\ rowLock'[Body[r].from] = r /\ rowLock'[Body[r].to] = r
    BY DEF BothExist, CurrencyMatches, Wanted
  <2>1. RowsLocked(r)
    BY DEF TakeAdvisory, LookupMisses, LockRow, Goto
  <2> QED
    BY <2>1 DEF RowsLocked, AllLocked, Wanted, BothExist, txVars
<1> QED
  BY <1>1, <1>3, <1>4, <1>5, <1>6, <1>7
     DEF Carried, Workspace, Checked, Current, Decided, Move

LEMMA CarriedByReplay ==
    ASSUME TypeInv, KeyInv, WorkInv, NEW r \in Request, Replay(r)
    PROVE  Carried(r)'
<1> USE DEF TypeInv, TypeOK
<1>1. stage[r] = "lookup" /\ stage'[r] = "commit" /\ UNCHANGED <<dbVars, txVars>>
  BY DEF Replay, Goto
<1>2. emitted'[r] = {} /\ inserted'[r] = NoTransfer /\ \A a \in Account : delta'[r][a] = 0
  BY <1>1, EarlyStagesCarryNothing DEF txVars
<1>3. ~Posting(r)'
  BY <1>1, <1>2 DEF Posting
<1>4. Emits(r)' = {}
  BY <1>1, <1>3 DEF Emits
<1>5. EarlyRefusal(r)' = {}
  BY <1>1 DEF WorkInv, Carried, Checked, EarlyRefusal, InTransaction
<1>6. Existing(r)' = Existing(r)
  BY <1>1 DEF Existing, dbVars
<1>7. Decided(r)'
  BY <1>3, <1>6 DEF Replay, ReplayedId, Decided, SameContent
<1> QED
  BY <1>1, <1>2, <1>3, <1>4, <1>5, <1>7
     DEF Carried, Workspace, Checked, Current, Move

LEMMA CarriedByDebit ==
    ASSUME TypeInv, KeyInv, WorkInv, NEW r \in Request, Debit(r)
    PROVE  Carried(r)'
<1> USE DEF TypeInv, TypeOK
<1> DEFINE source == Body[r].from
<1>1. stage[r] = "debit" /\ stage'[r] = "credit" /\ UNCHANGED <<inserted, emitted, dbVars>>
  BY DEF Debit, Goto
<1>2. /\ inserted[r] = NoTransfer /\ emitted[r] = {}
      /\ \A a \in Account : delta[r][a] = 0
  BY <1>1, EarlyStagesCarryNothing
<1>3. /\ EarlyRefusal(r) = {} /\ BothExist(r) /\ CurrencyMatches(r)
      /\ rowLock[Body[r].from] = r /\ rowLock[Body[r].to] = r
  BY <1>1 DEF WorkInv, Carried, Checked, InTransaction
<1>4. source \in Account /\ Body[r].to \in Account /\ source # Body[r].to /\ Body[r].amount \in Nat
  BY <1>3, BodyType DEF EarlyRefusal, BothExist
<1>5. Posting(r)'
  BY <1>1 DEF Posting
<1>6. Workspace(r)'
  <2>1. \A a \in Account : delta'[r][a] = IF a = source THEN -Body[r].amount ELSE 0
    BY <1>2, <1>4 DEF Debit, Write
  <2>2. Emits(r)' = {}
    BY <1>1 DEF Emits
  <2> QED
    BY <1>1, <1>2, <1>5, <2>1, <2>2 DEF Workspace, Move
<1>7. Checked(r)'
  BY <1>3, <1>4 DEF Debit, Write, Checked, BothExist, CurrencyMatches, Wanted, EarlyRefusal
<1>8. Current(r)'
  <2>1. seen'[r] = balance'[source] - Body[r].amount
    BY <1>1, <1>2, <1>4 DEF Debit, Visible, dbVars
  <2>2. Existing(r)' = NoTransfer
    BY <1>1 DEF KeyInv, KeyFresh, Existing, dbVars
  <2> QED
    BY <2>1, <2>2 DEF Current
<1> QED
  BY <1>1, <1>6, <1>7, <1>8 DEF Carried, Decided

LEMMA CarriedByCredit ==
    ASSUME TypeInv, KeyInv, WorkInv, NEW r \in Request, Credit(r)
    PROVE  Carried(r)'
<1> USE DEF TypeInv, TypeOK
<1>1. /\ stage[r] = "credit" /\ stage'[r] = "insert"
      /\ UNCHANGED <<inserted, emitted, seen, attempt, dbVars>>
  BY DEF Credit, Goto
<1>2. Posting(r) /\ Posting(r)' /\ Carried(r)
  BY <1>1 DEF Posting, WorkInv
<1>3. /\ EarlyRefusal(r) = {} /\ BothExist(r) /\ CurrencyMatches(r)
      /\ rowLock[Body[r].from] = r /\ rowLock[Body[r].to] = r
  BY <1>1, <1>2 DEF Carried, Checked, InTransaction
<1>4. /\ Body[r].from \in Account /\ Body[r].to \in Account /\ Body[r].from # Body[r].to
      /\ Body[r].amount \in Nat
  BY <1>3, BodyType DEF EarlyRefusal, BothExist
<1>5. Workspace(r)'
  <2>1. \A a \in Account : delta[r][a] = IF a = Body[r].from THEN -Body[r].amount ELSE 0
    BY <1>1, <1>2 DEF Carried, Workspace, Move
  <2>2. \A a \in Account :
          delta'[r][a] = IF a = Body[r].to THEN delta[r][a] + Body[r].amount ELSE delta[r][a]
    BY <1>4 DEF Credit, Credited, Write
  <2>3. \A a \in Account : delta'[r][a] = Move(r, a)'
    BY <1>1, <1>2, <1>4, <2>1, <2>2 DEF Move
  <2>4. inserted[r] = NoTransfer
    BY <1>1 DEF KeyInv, InsertedLate
  <2>5. emitted[r] = {} /\ Emits(r)' = {}
    BY <1>1, <1>2 DEF Carried, Workspace, Emits
  <2> QED
    BY <1>1, <2>3, <2>4, <2>5 DEF Workspace
<1>6. Checked(r)'
  BY <1>3, <1>4 DEF Credit, Credited, Write, Checked, BothExist, CurrencyMatches, Wanted, EarlyRefusal
<1>7. Current(r)'
  BY <1>1, <1>2 DEF Carried, Current, Existing, dbVars
<1> QED
  BY <1>1, <1>5, <1>6, <1>7 DEF Carried, Decided

LEMMA CarriedByInsert ==
    ASSUME TypeInv, KeyInv, WorkInv, NEW r \in Request, InsertTransfer(r)
    PROVE  Carried(r)'
<1> USE DEF TypeInv, TypeOK
<1>1. /\ stage[r] = "insert" /\ stage'[r] = "enqueueAi" /\ inserted'[r] = MyRow(r)
      /\ UNCHANGED <<delta, emitted, seen, attempt, rowLock, dbVars>>
  BY DEF InsertTransfer, Goto
<1>2. Carried(r)
  BY DEF WorkInv
<1>3. MyRow(r) # NoTransfer
  <2>1. MyRow(r) \in Row
    BY <1>1, MyIdType, BodyType DEF AccountsFound, BothExist, MyRow, Row
  <2> QED
    BY <2>1, ConstantsAssumption
<1>4. Posting(r) /\ Posting(r)'
  BY <1>1, <1>3 DEF Posting
<1>5. Workspace(r)'
  <2>1. \A a \in Account : Move(r, a)' = Move(r, a)
    BY <1>1, <1>4 DEF Move
  <2>2. Emits(r) = {} /\ Emits(r)' = {}
    BY <1>1 DEF Emits
  <2>3. MyRow(r)' = MyRow(r)
    BY <1>1 DEF MyRow, MyId
  <2> QED
    BY <1>1, <1>2, <1>3, <2>1, <2>2, <2>3 DEF Carried, Workspace
<1>6. Checked(r)'
  BY <1>1, <1>2, <1>4
     DEF Carried, Checked, BothExist, CurrencyMatches, Wanted, EarlyRefusal, InTransaction
<1>7. Current(r)'
  BY <1>1, <1>2, <1>4 DEF Carried, Current, Existing, dbVars
<1> QED
  BY <1>1, <1>5, <1>6, <1>7 DEF Carried, Decided

LEMMA CarriedByEvents ==
    ASSUME TypeInv, KeyInv, WorkInv, NEW r \in Request, EnqueueAi(r) \/ EnqueueBancs(r)
    PROVE  Carried(r)'
<1> USE DEF TypeInv, TypeOK
<1>1. /\ stage[r] \in {"enqueueAi", "enqueueBancs"} /\ stage'[r] \in {"enqueueBancs", "commit"}
      /\ UNCHANGED <<delta, inserted, seen, attempt, rowLock, dbVars>>
  BY DEF EnqueueAi, EnqueueBancs, Goto
<1>2. Carried(r)
  BY DEF WorkInv
<1>3. inserted[r] # NoTransfer /\ Posting(r) /\ Posting(r)'
  BY <1>1, <1>2 DEF Carried, Workspace, Posting
<1>4. \A y : Event(r, y)' = Event(r, y)
  BY <1>1 DEF Event, MyId
<1>5. Workspace(r)'
  <2>1. \A a \in Account : Move(r, a)' = Move(r, a)
    BY <1>1, <1>3 DEF Move
  <2>2. emitted'[r] = {Event(r, y) : y \in Emits(r)'}
    <3>1. CASE EnqueueAi(r)
      <4>1. emitted[r] = {}
        BY <1>2, <3>1 DEF EnqueueAi, Carried, Workspace, Emits
      <4>2. Emits(r)' = {"AI_RECOMMEND"}
        BY <3>1 DEF EnqueueAi, Goto, Emits
      <4>3. emitted'[r] = {Event(r, "AI_RECOMMEND")}
        BY <3>1, <4>1 DEF EnqueueAi
      <4> QED
        BY <4>2, <4>3
    <3>2. CASE EnqueueBancs(r)
      <4>1. emitted[r] = {Event(r, "AI_RECOMMEND")}
        BY <1>2, <3>2 DEF EnqueueBancs, Carried, Workspace, Emits
      <4>2. Emits(r)' = EventType
        BY <1>3, <3>2 DEF EnqueueBancs, Goto, Emits
      <4>3. emitted'[r] = {Event(r, "AI_RECOMMEND"), Event(r, "BANCS_SIMULATED")}
        BY <3>2, <4>1 DEF EnqueueBancs
      <4> QED
        BY <4>2, <4>3 DEF EventType
    <3> QED
      BY <3>1, <3>2
  <2>3. emitted'[r] = {Event(r, y)' : y \in Emits(r)'}
    BY <1>4, <2>2
  <2>4. MyRow(r)' = MyRow(r)
    BY <1>1 DEF MyRow, MyId
  <2> QED
    BY <1>1, <1>2, <1>3, <2>1, <2>3, <2>4 DEF Carried, Workspace
<1>6. Checked(r)'
  BY <1>1, <1>2, <1>3
     DEF Carried, Checked, BothExist, CurrencyMatches, Wanted, EarlyRefusal, InTransaction
<1>7. Current(r)'
  BY <1>1, <1>2, <1>3 DEF Carried, Current, Existing, dbVars
<1>8. Decided(r)'
  BY <1>1, <1>3 DEF Decided, EnqueueAi, EnqueueBancs, Goto, MyId
<1> QED
  BY <1>5, <1>6, <1>7, <1>8 DEF Carried

LEMMA WorkStep ==
    ASSUME TypeInv, RangeInv, KeyInv, WorkInv, NEW r \in Request, Progress(r) \/ Fault(r)
    PROVE  WorkInv'
<1>1. Carried(r)'
  BY Kinds, CarriedByRollback, CarriedByCommit, CarriedOutside, CarriedBeforeDebit,
     CarriedByReplay, CarriedByDebit, CarriedByCredit, CarriedByInsert, CarriedByEvents DEF Moves
<1> QED
  BY <1>1, CarriedByOthers DEF WorkInv

LEMMA WorkStutter == WorkInv /\ UNCHANGED requestVars => WorkInv'
<1> SUFFICES ASSUME WorkInv, UNCHANGED requestVars, NEW r \in Request PROVE Carried(r)'
  BY DEF WorkInv
<1> USE DEF requestVars, dbVars, txVars
<1>1. Carried(r)
  BY DEF WorkInv
<1>2. Posting(r)' = Posting(r) /\ MyId(r)' = MyId(r) /\ MyRow(r)' = MyRow(r)
  BY DEF Posting, MyId, MyRow
<1>3. Workspace(r)'
  <2>1. \A a \in Account : Move(r, a)' = Move(r, a)
    BY <1>2 DEF Move
  <2>2. Emits(r)' = Emits(r) /\ \A y : Event(r, y)' = Event(r, y)
    BY <1>2 DEF Emits, Event
  <2>3. emitted'[r] = {Event(r, y)' : y \in Emits(r)'}
    BY <1>1, <2>2 DEF Carried, Workspace
  <2> QED
    BY <1>1, <1>2, <2>1, <2>3 DEF Carried, Workspace
<1>4. Checked(r)'
  BY <1>1, <1>2 DEF Carried, Checked, BothExist, CurrencyMatches, Wanted, EarlyRefusal,
                    isRecoverableConcurrencyError
<1>5. Current(r)' /\ Decided(r)'
  BY <1>1, <1>2 DEF Carried, Current, Decided, Existing, SameContent
<1> QED
  BY <1>3, <1>4, <1>5 DEF Carried

LEMMA WorkInitially == Init => WorkInv
<1> SUFFICES ASSUME Init, NEW r \in Request PROVE Carried(r)
  BY DEF WorkInv
<1>1. /\ stage[r] = "received" /\ emitted[r] = {} /\ inserted[r] = NoTransfer
      /\ \A a \in Account : delta[r][a] = 0
  BY DEF Init
<1>2. ~Posting(r) /\ Emits(r) = {}
  BY <1>1 DEF Posting, Emits
<1> QED
  BY <1>1, <1>2 DEF Carried, Workspace, Checked, Current, Decided, Move, InTransaction

LEMMA WorkInvariant == Spec => []WorkInv
<1>1. Init => WorkInv
  BY WorkInitially
<1>2. TypeInv /\ RangeInv /\ KeyInv /\ WorkInv /\ [Next]_vars => WorkInv'
  BY WorkStep, WorkStutter, VarsUnmoved DEF Next
<1> QED
  BY <1>1, <1>2, TypeInvariant, RangeInvariant, KeyInvariant, PTL DEF Spec

----------------------------------------------------------------------------
(* Refinement: a commit of an inserted row is a step Post of the ledger,   *)
(* every other step leaves the ledger as it is.                            *)

LEMMA PostsOnce ==
    ASSUME TypeInv, RangeInv, KeyInv, WorkInv, NEW r \in Request, Commits(r),
           inserted[r] # NoTransfer
    PROVE  L!Post(Body[r].key, MyRow(r))
<1> USE DEF TypeInv, TypeOK
<1> DEFINE t == MyRow(r)
<1>1. Apply(r) /\ stage[r] = "commit" /\ Posting(r) /\ Carried(r)
  BY DEF Commits, Commit, CommitUnacknowledged, CrashAfterCommit, Posting, WorkInv
<1>2. /\ inserted[r] = t /\ t = MyRow(r)
      /\ t.id = MyId(r) /\ t.from = Body[r].from /\ t.to = Body[r].to
      /\ t.amount = Body[r].amount /\ t.currency = Body[r].currency
  BY <1>1 DEF Carried, Workspace, MyRow
<1> HIDE DEF t
<1>3. /\ EarlyRefusal(r) = {} /\ BothExist(r) /\ CurrencyMatches(r)
      /\ rowLock[t.from] = r /\ rowLock[t.to] = r
  BY <1>1, <1>2 DEF Carried, Checked, InTransaction
<1>4. /\ t.from \in Account /\ t.to \in Account /\ t.from # t.to
      /\ t.amount \in Nat /\ t.amount > 0
  <2>1. Body[r].amount # 0 /\ Body[r].from # Body[r].to
    BY <1>3 DEF EarlyRefusal
  <2>2. Body[r].amount \in Nat /\ Body[r].from \in Account /\ Body[r].to \in Account
    BY <1>3, BodyType DEF BothExist
  <2>3. Body[r].amount > 0
    BY <2>1, <2>2
  <2> QED
    BY <1>2, <2>1, <2>2, <2>3
<1>5. AccountCurrency[t.from] = t.currency /\ AccountCurrency[t.to] = t.currency
  BY <1>2, <1>3, <1>4 DEF CurrencyMatches, Wanted
<1>6. \A a \in Account :
        delta[r][a] = IF a = t.from THEN -t.amount ELSE IF a = t.to THEN t.amount ELSE 0
  BY <1>1, <1>2 DEF Carried, Workspace, Move
<1>7. balance[t.from] >= t.amount /\ balance[t.to] + t.amount <= MaxBalance
  <2>1. Visible(r, t.from) \in 0..MaxBalance /\ Visible(r, t.to) \in 0..MaxBalance
    BY <1>3, <1>4 DEF RangeInv, LockedFits
  <2>2. /\ Visible(r, t.from) = balance[t.from] - t.amount
        /\ Visible(r, t.to) = balance[t.to] + t.amount
        /\ balance[t.from] \in Int /\ balance[t.to] \in Int
    BY <1>4, <1>6 DEF Visible
  <2>3. MaxBalance \in Nat
    BY ConstantsAssumption
  <2> HIDE DEF TypeInv, TypeOK
  <2> QED
    BY <1>4, <2>1, <2>2, <2>3
<1>8. balance' = L!Moved(t)
  <2>1. balance' = [a \in Account |-> balance[a] + delta[r][a]]
    BY <1>1 DEF Apply
  <2>2. L!Moved(t) \in [Account -> Int] /\ balance' \in [Account -> Int]
    BY <1>4, <2>1 DEF L!Moved
  <2>3. \A a \in Account : balance'[a] = L!Moved(t)[a]
    <3> SUFFICES ASSUME NEW a \in Account PROVE balance'[a] = L!Moved(t)[a]
      OBVIOUS
    <3>1. balance'[a] = balance[a] + delta[r][a] /\ balance[a] \in Int
      BY <2>1
    <3>2. L!Moved(t)[a] = IF a = t.to THEN balance[a] + t.amount
                          ELSE IF a = t.from THEN balance[a] - t.amount ELSE balance[a]
      <4> HIDE DEF TypeInv
      <4>1. balance \in [Account -> Int]
        BY DEF TypeInv
      <4> QED
        BY <1>4, <4>1 DEF L!Moved
    <3>3. CASE a = t.from
      BY <1>4, <1>6, <3>1, <3>2, <3>3
    <3>4. CASE a = t.to
      BY <1>4, <1>6, <3>1, <3>2, <3>4
    <3>5. CASE a # t.from /\ a # t.to
      BY <1>6, <3>1, <3>2, <3>5
    <3> QED
      BY <3>3, <3>4, <3>5
  <2> QED
    BY <2>2, <2>3
<1>9. transfers[Body[r].key] = NoTransfer /\ transfers' = [transfers EXCEPT ![Body[r].key] = t]
  BY <1>1, <1>2 DEF Carried, Current, Existing, Apply
<1>10. emitted[r] = {[transfer |-> t.id, type |-> y,
                      balanceAfter |-> balance[t.from] - t.amount] : y \in EventType}
  <2>1. seen[r] = balance[t.from] - t.amount
    BY <1>1, <1>2 DEF Carried, Current
  <2>2. \A y : Event(r, y) = [transfer |-> t.id, type |-> y,
                              balanceAfter |-> balance[t.from] - t.amount]
    BY <1>2, <2>1 DEF Event
  <2>3. Emits(r) = EventType
    BY <1>1 DEF Emits
  <2> QED
    BY <1>1, <2>2, <2>3 DEF Carried, Workspace
<1>11. outbox' = outbox \cup emitted[r]
  BY <1>1 DEF Apply
<1> QED
  BY <1>2, <1>4, <1>5, <1>7, <1>8, <1>9, <1>10, <1>11 DEF L!Post

LEMMA NothingPosted ==
    ASSUME TypeInv, KeyInv, WorkInv, NEW r \in Request, Progress(r) \/ Fault(r),
           ~(Commits(r) /\ inserted[r] # NoTransfer)
    PROVE  UNCHANGED dbVars
<1>1. CASE RollsBack(r) \/ Moves(r) \/ Waits(r)
  BY <1>1 DEF RollsBack, Moves, TakeAdvisory, Replay, LookupMisses, LockRow, RowsLocked, Debit,
              Credit, InsertTransfer, EnqueueAi, EnqueueBancs, Waits, Accept, Begin, Retry,
              RecordAndAnswer, AnswerUnrecorded, RecordFails, AnswerError
<1>2. CASE Commits(r)
  <2>1. inserted[r] = NoTransfer /\ Apply(r) /\ stage[r] = "commit"
    BY <1>2 DEF Commits, Commit, CommitUnacknowledged, CrashAfterCommit
  <2>2. ~Posting(r) /\ Emits(r) = {}
    BY <2>1 DEF Posting, Emits
  <2>3. emitted[r] = {} /\ \A a \in Account : delta[r][a] = 0
    BY <2>2 DEF WorkInv, Carried, Workspace, Move
  <2>4. balance' = balance
    <3>1. balance \in [Account -> Int] /\ balance' = [a \in Account |-> balance[a] + delta[r][a]]
      BY <2>1 DEF Apply, TypeInv, TypeOK
    <3>2. \A a \in Account : balance[a] + delta[r][a] = balance[a]
      BY <2>3, <3>1
    <3> QED
      BY <3>1, <3>2
  <2>5. transfers' = transfers /\ outbox' = outbox
    BY <2>1, <2>3 DEF Apply
  <2> QED
    BY <2>4, <2>5 DEF dbVars
<1> QED
  BY <1>1, <1>2, Kinds

LEMMA LedgerStep ==
    ASSUME TypeInv, RangeInv, KeyInv, WorkInv, NEW r \in Request, Progress(r) \/ Fault(r)
    PROVE  L!Next \/ UNCHANGED L!ledgerVars
<1>1. CASE ~(Commits(r) /\ inserted[r] # NoTransfer)
  BY <1>1, NothingPosted DEF dbVars, L!ledgerVars
<1>2. CASE Commits(r) /\ inserted[r] # NoTransfer
  <2>1. MyRow(r) \in Row
    BY <1>2 DEF TypeInv, TypeOK, WorkInv, Carried, Workspace
  <2>2. Body[r].key \in Key
    BY BodyType
  <2> QED
    BY <1>2, <2>1, <2>2, PostsOnce DEF L!Next
<1> QED
  BY <1>1, <1>2

\* What the protocol of statements, locks, retries and rollbacks makes visible
\* is the ledger, for any requests, accounts and faults: each commit posts one
\* whole transfer under a fresh key, within both balances as they are at that
\* moment, with its two events, or nothing at all.
THEOREM LedgerImplemented == Spec => ImplementsLedger
<1>1. Init => L!Init
  BY DEF Init, L!Init
<1>2. TypeInv /\ RangeInv /\ KeyInv /\ WorkInv /\ [Next]_vars => [L!Next]_(L!ledgerVars)
  <2>1. UNCHANGED vars => UNCHANGED L!ledgerVars
    BY DEF vars, dbVars, L!ledgerVars
  <2> QED
    BY <2>1, LedgerStep DEF Next
<1> QED
  BY <1>1, <1>2, TypeInvariant, RangeInvariant, KeyInvariant, WorkInvariant, PTL
     DEF Spec, ImplementsLedger, L!Spec

----------------------------------------------------------------------------
(* Answers.  A posted row stays, and its poster never comes back to post   *)
(* another: a COMMIT whose acknowledgement was lost is not retried.        *)

LEMMA PostedStays ==
    ASSUME TypeInv, KeyInv, WorkInv, NEW r \in Request, Progress(r) \/ Fault(r),
           NEW k \in Key, transfers[k] # NoTransfer
    PROVE  transfers'[k] = transfers[k]
<1>1. CASE UNCHANGED transfers
  BY <1>1
<1>2. CASE /\ Commits(r) /\ inserted[r] # NoTransfer
           /\ transfers' = [transfers EXCEPT ![Body[r].key] = inserted[r]]
  <2>1. Existing(r) = NoTransfer
    BY <1>2 DEF WorkInv, Carried, Current, Posting
  <2> QED
    BY <1>2, <2>1 DEF Existing, TypeInv, TypeOK
<1> QED
  BY <1>1, <1>2, TransfersChange

\* Where a request has ended, only its answer and its death are left.
LEMMA EndedStaysEnded ==
    ASSUME TypeInv, NEW r \in Request, Progress(r) \/ Fault(r),
           stage[r] \in {"raised", "answered", "gone"}
    PROVE  /\ stage[r] = "raised"
           /\ \/ stage'[r] = "gone" /\ result'[r] = result[r]
              \/ Retry(r)
              \/ /\ stage'[r] = "answered"
                 /\ result'[r] = Failed(AnswerCode(result[r]), result[r].state)
<1> USE DEF TypeInv, TypeOK, Goto
<1>1. CASE RecordAndAnswer(r) \/ AnswerUnrecorded(r) \/ RecordFails(r)
  BY <1>1 DEF RecordAndAnswer, AnswerUnrecorded, RecordFails, GivesUp, AnswerError
<1>2. CASE Retry(r)
  BY <1>2 DEF Retry
<1>3. CASE Crash(r)
  BY <1>3 DEF Crash
<1>4. ~(RejectEarly(r) \/ RejectConflict(r) \/ RejectMissing(r) \/ RejectCurrency(r)
        \/ RejectOverdraft(r) \/ CreditOverflows(r) \/ InsertFails(r) \/ WaitFails(r)
        \/ StatementFails(r))
  BY DEF RejectEarly, RejectConflict, RejectMissing, RejectCurrency, RejectOverdraft,
         CreditOverflows, InsertFails, WaitFails, Blocked, StatementFails, InTransaction
<1>5. ~(Accept(r) \/ Begin(r) \/ Moves(r) \/ Commits(r))
  BY DEF Accept, Begin, Moves, TakeAdvisory, Replay, LookupMisses, LockRow, RowsLocked, Debit,
         Credit, InsertTransfer, EnqueueAi, EnqueueBancs, Commits, Commit, CommitUnacknowledged,
         CrashAfterCommit
<1> QED
  BY <1>1, <1>2, <1>3, <1>4, <1>5 DEF Progress, Fault, Moves, Commits

LEMMA RowIdType ==
    ASSUME TypeInv, NEW k \in Key, transfers[k] # NoTransfer
    PROVE  transfers[k] \in Row /\ transfers[k].id \in TransferId /\ Poster(k) \in Request
  BY DEF TypeInv, TypeOK, Row, TransferId, Poster

\* A commit of an inserted row, in terms of the tables.
LEMMA PostingCommit ==
    ASSUME TypeInv, KeyInv, WorkInv, NEW r \in Request, Commits(r), inserted[r] # NoTransfer
    PROVE  /\ stage[r] = "commit" /\ Posting(r)
           /\ Existing(r) = NoTransfer
           /\ inserted[r] = MyRow(r) /\ MyRow(r) \in Row
           /\ transfers' = [transfers EXCEPT ![Body[r].key] = MyRow(r)]
           /\ outbox' = outbox \cup {Event(r, y) : y \in EventType}
           /\ result[r] = Completed(MyId(r), FALSE)
<1>1. stage[r] = "commit" /\ Apply(r)
  BY DEF Commits, Commit, CommitUnacknowledged, CrashAfterCommit
<1>2. Posting(r) /\ Emits(r) = EventType
  BY <1>1 DEF Posting, Emits
<1>3. inserted[r] = MyRow(r) /\ emitted[r] = {Event(r, y) : y \in EventType}
  BY <1>2 DEF WorkInv, Carried, Workspace
<1> QED
  BY <1>1, <1>2, <1>3 DEF WorkInv, Carried, Current, Decided, Apply, TypeInv, TypeOK

LEMMA PosterStep ==
    ASSUME TypeInv, KeyInv, WorkInv, PosterInv, NEW r \in Request, Progress(r) \/ Fault(r)
    PROVE  PosterInv'
<1> SUFFICES ASSUME NEW k \in Key, transfers'[k] # NoTransfer
             PROVE  PosterDone(k)'
  BY DEF PosterInv, PosterDone
<1>1. CASE transfers[k] # NoTransfer
  <2>1. Poster(k)' = Poster(k) /\ Poster(k) \in Request
    BY <1>1, PostedStays, RowIdType DEF Poster
  <2>2. PosterDone(k)
    BY DEF PosterInv
  <2>3. CASE Poster(k) # r
    <3>1. stage'[Poster(k)] = stage[Poster(k)] /\ result'[Poster(k)] = result[Poster(k)]
      BY <2>1, <2>3, OthersKeepTheirs
    <3> QED
      BY <1>1, <2>1, <2>2, <3>1 DEF PosterDone, Refused, Answered
  <2>4. CASE Poster(k) = r
    <3>1. stage[r] \in {"raised", "answered", "gone"}
      BY <1>1, <2>2, <2>4 DEF PosterDone
    <3>2. stage[r] = "raised" /\ result[r] = Failed(EngineCode, "lost")
      BY <1>1, <2>2, <2>4, <3>1, EndedStaysEnded DEF PosterDone
    <3>3. ~Retry(r)
      BY <3>2 DEF Retry, Failed, EngineCode, isRecoverableConcurrencyError
    <3>4. AnswerCode(result[r]) = "INTERNAL_ERROR"
      BY <3>2 DEF AnswerCode, InfraCode, isRecoverableConcurrencyError, isLockOrStatementTimeout,
                  Failed, EngineCode, DomainCode
    <3>5. \/ stage'[r] = "gone"
          \/ stage'[r] = "answered" /\ result'[r].code = "INTERNAL_ERROR"
      <4>1. \/ stage'[r] = "gone"
            \/ stage'[r] = "answered" /\ result'[r] = Failed(AnswerCode(result[r]), result[r].state)
        BY <3>1, <3>3, EndedStaysEnded
      <4>2. Failed(AnswerCode(result[r]), result[r].state).code = AnswerCode(result[r])
        BY DEF Failed
      <4> QED
        BY <3>4, <4>1, <4>2
    <3>6. Poster(k)' = r /\ Body[r].key = k
      BY <1>1, <2>1, <2>2, <2>4 DEF PosterDone
    <3> QED
      BY <3>5, <3>6 DEF PosterDone, Refused, Answered
  <2> QED
    BY <2>3, <2>4
<1>2. CASE transfers[k] = NoTransfer
  <2>1. Commits(r) /\ inserted[r] # NoTransfer
    BY <1>2, TransfersChange
  <2>2. /\ stage[r] = "commit" /\ result[r] = Completed(MyId(r), FALSE)
        /\ transfers' = [transfers EXCEPT ![Body[r].key] = MyRow(r)]
    BY <2>1, PostingCommit
  <2>3. k = Body[r].key /\ transfers'[k] = MyRow(r)
    BY <1>2, <2>2, BodyType DEF TypeInv, TypeOK
  <2>4. Poster(k)' = r
    BY <2>3 DEF Poster, MyRow, MyId
  <2>5. \/ stage'[r] = "answered" /\ result'[r] = result[r]
        \/ stage'[r] = "raised" /\ result'[r] = Failed(EngineCode, "lost")
        \/ stage'[r] = "gone"
    BY <2>1 DEF Commits, Commit, CommitUnacknowledged, CrashAfterCommit, Goto, TypeInv, TypeOK
  <2>6. result[r].kind # "failed"
    BY <2>2 DEF Completed
  <2> QED
    BY <2>3, <2>4, <2>5, <2>6 DEF PosterDone, Refused, Answered
<1> QED
  BY <1>1, <1>2

LEMMA PosterStutter == PosterInv /\ UNCHANGED requestVars => PosterInv'
  BY DEF PosterInv, PosterDone, Poster, Refused, Answered, requestVars, dbVars

LEMMA PosterInitially == Init => PosterInv
  BY DEF Init, PosterInv, PosterDone

LEMMA PosterInvariant == Spec => []PosterInv
<1>1. Init => PosterInv
  BY PosterInitially
<1>2. TypeInv /\ KeyInv /\ WorkInv /\ PosterInv /\ [Next]_vars => PosterInv'
  BY PosterStep, PosterStutter, VarsUnmoved DEF Next
<1> QED
  BY <1>1, <1>2, TypeInvariant, KeyInvariant, WorkInvariant, PTL DEF Spec

\* Whatever was lost, retried or crashed, a client told no by any code but
\* INTERNAL_ERROR moved no money and never will.
THEOREM RefusalsMoveNothing == Spec => []RefusedPostedNothing
<1>1. TypeInv /\ PosterInv => RefusedPostedNothing
  <2> SUFFICES ASSUME TypeInv, PosterInv, NEW r \in Request, Refused(r),
                      result[r].code # "INTERNAL_ERROR", NEW t \in Posted
               PROVE  t.id[1] # r
    BY DEF RefusedPostedNothing
  <2>1. PICK k \in Key : t = transfers[k] /\ transfers[k] # NoTransfer
    BY DEF Posted
  <2> QED
    BY <2>1 DEF PosterInv, PosterDone, Poster
<1> QED
  BY <1>1, TypeInvariant, PosterInvariant, PTL

LEMMA DurableStep ==
    ASSUME TypeInv, KeyInv, WorkInv, CompletedIsDurable, NEW r \in Request, Progress(r) \/ Fault(r)
    PROVE  CompletedIsDurable'
<1> SUFFICES ASSUME NEW q \in Request, Succeeded(q)'
             PROVE  /\ Existing(q)' # NoTransfer
                    /\ Existing(q)'.id = result'[q].id
                    /\ SameContent(Existing(q), q)'
  BY DEF CompletedIsDurable
<1>1. Body[q].key \in Key
  BY BodyType
<1>2. CASE Existing(q) # NoTransfer /\ Existing(q).id = result'[q].id /\ SameContent(Existing(q), q)
  BY <1>1, <1>2, PostedStays DEF Existing, SameContent
<1>3. CASE q # r
  <2>1. Succeeded(q) /\ result'[q] = result[q]
    BY <1>3, OthersKeepTheirs DEF Succeeded, Answered
  <2> QED
    BY <1>2, <2>1 DEF CompletedIsDurable
<1>4. CASE q = r
  <2>1. Commit(r)
    <3>1. CASE stage[r] \in {"raised", "answered", "gone"}
      <4>1. Failed(AnswerCode(result[r]), result[r].state).kind # "completed"
        BY DEF Failed
      <4>2. ~Retry(r)
        BY <1>4 DEF Retry, Goto, Succeeded, Answered, TypeInv, TypeOK
      <4> QED
        BY <1>4, <3>1, <4>1, <4>2, EndedStaysEnded DEF Succeeded, Answered
    <3>2. CASE stage[r] \notin {"raised", "answered", "gone"}
      <4> USE DEF Goto, TypeInv, TypeOK, Succeeded, Answered
      <4>1. ~RollsBack(r)
        BY <1>4 DEF RollsBack
      <4>2. ~Moves(r)
        BY <1>4 DEF Moves, TakeAdvisory, Replay, LookupMisses, LockRow, RowsLocked, Debit, Credit,
                    InsertTransfer, EnqueueAi, EnqueueBancs
      <4>3. ~Waits(r)
        BY <1>4, <3>2 DEF Waits, Accept, Begin, Retry, RecordAndAnswer, AnswerUnrecorded,
                          RecordFails, GivesUp
      <4>4. ~CommitUnacknowledged(r) /\ ~CrashAfterCommit(r)
        BY <1>4 DEF CommitUnacknowledged, CrashAfterCommit
      <4> QED
        BY <4>1, <4>2, <4>3, <4>4, Kinds DEF Commits
    <3> QED
      BY <3>1, <3>2
  <2>2. result'[r] = result[r] /\ stage[r] = "commit" /\ Commits(r)
    BY <2>1 DEF Commit, Commits
  <2>3. CASE inserted[r] # NoTransfer
    <3>1. /\ result[r] = Completed(MyId(r), FALSE) /\ MyRow(r) \in Row
          /\ transfers' = [transfers EXCEPT ![Body[r].key] = MyRow(r)]
      BY <2>2, <2>3, PostingCommit
    <3>2. Existing(q)' = MyRow(r)
      BY <1>1, <1>4, <3>1 DEF Existing, TypeInv, TypeOK
    <3>3. MyRow(r) # NoTransfer
      BY <3>1, ConstantsAssumption
    <3>4. SameContent(MyRow(r), r)
      BY DEF SameContent, MyRow, Content
    <3>5. MyRow(r).id = result'[q].id
      BY <1>4, <2>2, <3>1 DEF MyRow, Completed
    <3>6. SameContent(Existing(q), q)'
      BY <1>4, <3>2, <3>4 DEF SameContent
    <3> QED
      BY <3>2, <3>3, <3>5, <3>6
  <2>4. CASE inserted[r] = NoTransfer
    <3>1. Existing(r) # NoTransfer /\ SameContent(Existing(r), r)
          /\ result[r] = Completed(Existing(r).id, TRUE)
      BY <2>2, <2>4 DEF WorkInv, Carried, Decided, Posting
    <3>2. Existing(r).id = result'[r].id
      BY <2>2, <3>1 DEF Completed
    <3> QED
      BY <1>2, <1>4, <3>1, <3>2
  <2> QED
    BY <2>3, <2>4
<1> QED
  BY <1>3, <1>4

\* Whoever is told COMPLETED, first or replayed, is told of a row that is
\* committed, carries its key and its content, and never changes.
THEOREM CompletedMeansCommitted == Spec => []CompletedIsDurable
<1>1. Init => CompletedIsDurable
  BY DEF Init, CompletedIsDurable, Succeeded, Answered
<1>2. TypeInv /\ KeyInv /\ WorkInv /\ CompletedIsDurable /\ [Next]_vars => CompletedIsDurable'
  <2>1. CompletedIsDurable /\ UNCHANGED vars => CompletedIsDurable'
    BY DEF CompletedIsDurable, Succeeded, Answered, Existing, SameContent, vars, dbVars
  <2> QED
    BY <2>1, DurableStep DEF Next
<1> QED
  BY <1>1, <1>2, TypeInvariant, KeyInvariant, WorkInvariant, PTL DEF Spec

----------------------------------------------------------------------------
(* Events.  Postings of one key never share a transfer id, because a       *)
(* poster is done: an event found under an id is that posting's own.       *)

HasOneEvent(id, y) == \E e \in outbox : {f \in outbox : f.transfer = id /\ f.type = y} = {e}
EventInv ==
    /\ \A k \in Key, y \in EventType : transfers[k] # NoTransfer => HasOneEvent(transfers[k].id, y)
    /\ \A e \in outbox : \E k \in Key : transfers[k] # NoTransfer /\ transfers[k].id = e.transfer

LEMMA EventStep ==
    ASSUME TypeInv, KeyInv, WorkInv, PosterInv, EventInv,
           NEW r \in Request, Progress(r) \/ Fault(r)
    PROVE  EventInv'
<1>1. CASE ~(Commits(r) /\ inserted[r] # NoTransfer)
  BY <1>1, NothingPosted DEF dbVars, EventInv, HasOneEvent
<1>2. CASE Commits(r) /\ inserted[r] # NoTransfer
  <2> DEFINE key == Body[r].key
             id == MyId(r)
  <2>1. /\ stage[r] = "commit" /\ transfers[key] = NoTransfer /\ MyRow(r) \in Row
        /\ transfers' = [transfers EXCEPT ![key] = MyRow(r)]
        /\ outbox' = outbox \cup {Event(r, y) : y \in EventType}
        /\ key \in Key
    BY <1>2, PostingCommit, BodyType DEF Existing
  <2>2. /\ transfers'[key] = MyRow(r)
        /\ \A k \in Key \ {key} : transfers'[k] = transfers[k]
    BY <2>1 DEF TypeInv, TypeOK
  <2>3. MyRow(r) # NoTransfer /\ MyRow(r).id = id
    BY <2>1, ConstantsAssumption DEF MyRow
  <2>4. \A y : Event(r, y).transfer = id /\ Event(r, y).type = y
    BY DEF Event
  <2>5. \A k \in Key : transfers[k] # NoTransfer => transfers[k].id # id
    BY <2>1 DEF PosterInv, PosterDone, Poster, MyId
  <2>6. \A e \in outbox : e.transfer # id
    BY <2>5 DEF EventInv
  <2>7. ASSUME NEW k \in Key, NEW y \in EventType, transfers'[k] # NoTransfer
        PROVE  HasOneEvent(transfers[k].id, y)'
    <3>1. CASE k = key
      <4>1. {f \in outbox' : f.transfer = id /\ f.type = y} = {Event(r, y)}
        BY <2>1, <2>4, <2>6
      <4>2. Event(r, y) \in outbox'
        BY <2>1
      <4>3. transfers'[k].id = id
        BY <2>2, <2>3, <3>1
      <4> QED
        BY <4>1, <4>2, <4>3 DEF HasOneEvent
    <3>2. CASE k # key
      <4>1. transfers'[k] = transfers[k] /\ transfers[k] # NoTransfer
        BY <2>2, <2>7, <3>2
      <4>2. PICK e \in outbox : {f \in outbox : f.transfer = transfers[k].id /\ f.type = y} = {e}
        BY <4>1 DEF EventInv, HasOneEvent
      <4>3. {f \in outbox' : f.transfer = transfers[k].id /\ f.type = y} = {e}
        BY <2>1, <2>4, <2>5, <4>1, <4>2
      <4> QED
        BY <2>1, <4>1, <4>3 DEF HasOneEvent
    <3> QED
      BY <3>1, <3>2
  <2>8. ASSUME NEW e \in outbox'
        PROVE  \E k \in Key : transfers'[k] # NoTransfer /\ transfers'[k].id = e.transfer
    <3>1. CASE e \in outbox
      BY <2>1, <2>2, <3>1 DEF EventInv
    <3>2. CASE e \notin outbox
      <4>1. e.transfer = id
        BY <2>1, <2>4, <2>8, <3>2
      <4> QED
        BY <2>1, <2>2, <2>3, <4>1
    <3> QED
      BY <3>1, <3>2
  <2> QED
    BY <2>7, <2>8 DEF EventInv
<1> QED
  BY <1>1, <1>2

LEMMA EventStutter == EventInv /\ UNCHANGED requestVars => EventInv'
  BY DEF EventInv, HasOneEvent, requestVars, dbVars

LEMMA EventInitially == Init => EventInv
  BY DEF Init, EventInv

LEMMA EventInvariant == Spec => []EventInv
<1>1. Init => EventInv
  BY EventInitially
<1>2. TypeInv /\ KeyInv /\ WorkInv /\ PosterInv /\ EventInv /\ [Next]_vars => EventInv'
  BY EventStep, EventStutter, VarsUnmoved DEF Next
<1> QED
  BY <1>1, <1>2, TypeInvariant, KeyInvariant, WorkInvariant, PosterInvariant, PTL DEF Spec

\* Each committed transfer has exactly one event of each type and each event
\* its transfer, whatever attempt, request or process failed on the way.
THEOREM EventsExact == Spec => []EventsMatchTransfers
<1>1. EventInv => EventsMatchTransfers
  <2> SUFFICES ASSUME EventInv PROVE EventsMatchTransfers
    OBVIOUS
  <2>1. ASSUME NEW t \in Posted, NEW y \in EventType
        PROVE  Cardinality({e \in outbox : e.transfer = t.id /\ e.type = y}) = 1
    <3>1. PICK k \in Key : t = transfers[k] /\ transfers[k] # NoTransfer
      BY DEF Posted
    <3>2. HasOneEvent(t.id, y)
      BY <3>1 DEF EventInv
    <3>3. PICK e \in outbox : {f \in outbox : f.transfer = t.id /\ f.type = y} = {e}
      BY <3>2 DEF HasOneEvent
    <3>4. Cardinality({e}) = 1
      BY FS_Singleton, Zenon
    <3> QED
      BY <3>3, <3>4
  <2>2. \A e \in outbox : \E t \in Posted : t.id = e.transfer
    BY DEF EventInv, Posted
  <2> QED
    BY <2>1, <2>2 DEF EventsMatchTransfers
<1> QED
  BY <1>1, EventInvariant, PTL

----------------------------------------------------------------------------
(* Locks.                                                                  *)

LEMMA LockStep ==
    ASSUME TypeInv, RangeInv, LockInv, NEW r \in Request, Progress(r) \/ Fault(r)
    PROVE  LockInv'
<1> USE DEF TypeInv, TypeOK
<1>0. Free \notin Request
  BY ConstantsAssumption
<1>1. \A q \in Request \ {r} : stage'[q] = stage[q]
  BY OthersKeepTheirs
<1>2. \A q \in Request \ {r}, a \in Account : rowLock'[a] = q <=> rowLock[a] = q
  BY OthersKeepRows
<1>3. CASE RollsBack(r) \/ Commits(r)
  <2>1. /\ rowLock' = [a \in Account |-> IF rowLock[a] = r THEN Free ELSE rowLock[a]]
        /\ advisory' = [b \in Bucket |-> IF advisory[b] = r THEN Free ELSE advisory[b]]
    BY <1>3 DEF RollsBack, Commits, Commit, CommitUnacknowledged, CrashAfterCommit, Apply,
                EndTransaction, ReleaseLocks, ReleaseRows
  <2> HIDE DEF TypeInv
  <2>2. advisory \in [Bucket -> Request \cup {Free}] /\ rowLock \in [Account -> Request \cup {Free}]
    BY DEF TypeInv
  <2> QED
    BY <1>0, <1>1, <2>1, <2>2 DEF LockInv, Advisories, Rows, Ordered, Wanted
<1>4. CASE TakeAdvisory(r)
  <2>1. /\ stage[r] = "advisory" /\ stage'[r] = "lookup" /\ rowLock' = rowLock
        /\ advisory' = [advisory EXCEPT ![MyBucket(r)] = r]
    BY <1>4 DEF TakeAdvisory, Goto
  <2>2. \A b \in Bucket : advisory'[b] = r \/ advisory'[b] = advisory[b]
    BY <2>1
  <2> QED
    BY <1>0, <1>1, <2>1, <2>2 DEF LockInv, Advisories, Rows, Ordered, InTransaction, Wanted
<1>5. CASE LockRow(r)
  <2>1. PICK a \in NextToLock(r) : rowLock' = [rowLock EXCEPT ![a] = r]
    BY <1>5 DEF LockRow
  <2>2. stage' = stage /\ advisory' = advisory /\ stage[r] = "lock"
    BY <1>5 DEF LockRow
  <2>3. a \in Wanted(r) /\ a \in Account /\ \A b \in Wanted(r) : b < a => rowLock[b] = r
    BY DEF NextToLock, Wanted
  <2>4. \A b \in Account : rowLock'[b] = IF b = a THEN r ELSE rowLock[b]
    BY <2>1, <2>3
  <2> QED
    BY <1>2, <2>2, <2>3, <2>4 DEF LockInv, Advisories, Rows, Ordered, InTransaction, Wanted
<1>6. CASE Debit(r) \/ Credit(r)
  <2>1. PICK c \in Wanted(r) : rowLock' = [rowLock EXCEPT ![c] = r]
    BY <1>6 DEF Debit, Credit, Credited, Write, AccountsFound, BothExist, Wanted
  <2>2. stage'[r] \in {"credit", "insert"} /\ advisory' = advisory
    BY <1>6 DEF Debit, Credit, Goto
  <2>3. \A b \in Account : rowLock'[b] = r => rowLock[b] = r \/ b = c
    BY <2>1
  <2> HIDE DEF TypeInv
  <2>4. Advisories'
    BY <1>0, <1>1, <2>2, TypeInv DEF LockInv, Advisories, InTransaction, TypeInv, TypeOK
  <2>5. Rows'
    BY <1>1, <1>2, <2>2, <2>3 DEF LockInv, Rows, InTransaction, Wanted
  <2>6. Ordered'
    BY <1>1, <1>2, <2>2 DEF LockInv, Ordered, Wanted
  <2> QED
    BY <2>4, <2>5, <2>6 DEF LockInv
<1>7. CASE Replay(r) \/ LookupMisses(r) \/ RowsLocked(r) \/ InsertTransfer(r) \/ EnqueueAi(r)
           \/ EnqueueBancs(r) \/ Waits(r)
  <2>1. UNCHANGED <<rowLock, advisory>>
    BY <1>7 DEF Replay, LookupMisses, RowsLocked, InsertTransfer, EnqueueAi, EnqueueBancs,
                Waits, Accept, Begin, Retry, RecordAndAnswer, AnswerUnrecorded, RecordFails,
                AnswerError, txVars
  <2>2. \/ stage[r] \notin InTransaction \ {"advisory"}
        \/ stage[r] = "lookup" /\ stage'[r] \in {"lock", "commit"}
        \/ stage'[r] \in InTransaction \ {"advisory", "lookup", "lock"}
    BY <1>7 DEF Replay, LookupMisses, RowsLocked, InsertTransfer, EnqueueAi, EnqueueBancs,
                Waits, Accept, Begin, Retry, RecordAndAnswer, AnswerUnrecorded, RecordFails,
                GivesUp, Goto, InTransaction
  <2> HIDE DEF TypeInv
  <2>3. Advisories'
    BY <1>0, <1>1, <2>1, <2>2, TypeInv DEF LockInv, Advisories, InTransaction, TypeInv, TypeOK
  <2>4. Rows'
    BY <1>1, <2>1, <2>2 DEF LockInv, Rows, InTransaction, Wanted
  <2>5. Ordered'
    BY <1>1, <2>1, <2>2 DEF LockInv, Rows, Ordered, InTransaction, Wanted
  <2> QED
    BY <2>3, <2>4, <2>5 DEF LockInv
<1> QED
  BY <1>3, <1>4, <1>5, <1>6, <1>7, Kinds DEF Moves

LEMMA LockInvariant == Spec => []LockInv
<1>1. Init => LockInv
  BY ConstantsAssumption DEF Init, LockInv, Advisories, Rows, Ordered
<1>2. TypeInv /\ RangeInv /\ LockInv /\ [Next]_vars => LockInv'
  <2>1. LockInv /\ UNCHANGED vars => LockInv'
    BY DEF LockInv, Advisories, Rows, Ordered, Wanted, vars, txVars
  <2> QED
    BY <2>1, LockStep DEF Next
<1> QED
  BY <1>1, <1>2, TypeInvariant, RangeInvariant, PTL DEF Spec

\* A finite set of integers has a greatest element: in a smallest subset
\* without one, taking any element away would leave one with.
LEMMA FiniteSetHasGreatest ==
    ASSUME NEW S \in SUBSET Int, IsFiniteSet(S), S # {}
    PROVE  \E m \in S : \A x \in S : x <= m
<1> DEFINE Greatest(T) == \E m \in T : \A x \in T : x <= m
           Bad == {T \in SUBSET S : T # {} /\ ~Greatest(T)}
<1> SUFFICES ASSUME Bad # {} PROVE FALSE
  OBVIOUS
<1>1. IsWellFoundedOn(StrictSubsetOrdering(S), SUBSET S)
  BY FS_StrictSubsetOrderingWellFounded, FS_FiniteSubsetsOfFinite
<1>2. PICK T \in Bad : \A U \in Bad : ~(<<U, T>> \in StrictSubsetOrdering(S))
  <2>1. Bad \subseteq SUBSET S
    OBVIOUS
  <2> HIDE DEF Bad
  <2> QED
    BY <1>1, <2>1, WFMin
<1>3. PICK x : x \in T
  BY <1>2
<1>4. T \ {x} \notin Bad
  BY <1>2, <1>3 DEF StrictSubsetOrdering
<1>5. CASE T \ {x} = {}
  BY <1>2, <1>3, <1>5
<1>6. CASE T \ {x} # {}
  <2>1. PICK m \in T \ {x} : \A y \in T \ {x} : y <= m
    BY <1>2, <1>4, <1>6
  <2>2. T \subseteq Int
    BY <1>2
  <2>3. CASE x <= m
    BY <1>2, <2>1, <2>2, <2>3
  <2>4. CASE ~(x <= m)
    <3>1. \A y \in T : y <= x
      BY <1>3, <2>1, <2>2, <2>4
    <3> QED
      BY <1>2, <1>3, <3>1
  <2> QED
    BY <2>3, <2>4
<1> QED
  BY <1>5, <1>6

\* Who waits for whom: only for the key's advisory lock and the next row.
LEMMA Waiting ==
    ASSUME TypeInv, KeyInv, WorkInv, LockInv, NEW r \in Request, NEW q \in WaitsFor(r)
    PROVE  \/ stage[r] = "advisory" /\ stage[q] \in InTransaction \ {"advisory"}
           \/ stage[r] = "lock" /\ \E a \in NextToLock(r) : rowLock[a] = q
<1>0. q \in Request \ {r} /\ Free \notin Request
  BY ConstantsAssumption DEF WaitsFor
<1>1. CASE stage[r] = "advisory"
  <2>1. advisory[MyBucket(r)] = q
    BY <1>1 DEF WaitsFor
  <2> QED
    BY <1>0, <1>1, <2>1, BodyType DEF LockInv, Advisories
<1>2. CASE stage[r] = "lock"
  BY <1>2 DEF WaitsFor
<1>3. stage[r] \notin {"debit", "credit"}
  BY <1>0 DEF WaitsFor, WorkInv, Carried, Checked, Posting
<1>4. stage[r] # "insert"
  <2> SUFFICES ASSUME stage[r] = "insert" PROVE FALSE
    OBVIOUS
  <2>1. inserted[q] # NoTransfer /\ Body[q].key = Body[r].key
    BY DEF WaitsFor
  <2>2. stage[q] \in InTransaction \ {"advisory"} /\ stage[r] \in InTransaction \ {"advisory"}
    BY <1>0, <2>1 DEF KeyInv, InsertedLate, InTransaction
  <2>3. advisory[MyBucket(q)] = q /\ advisory[MyBucket(r)] = r
    BY <1>0, <2>2 DEF KeyInv, AdvisoryHeld
  <2> QED
    BY <1>0, <2>1, <2>3 DEF MyBucket
<1> QED
  BY <1>1, <1>2, <1>3, <1>4 DEF WaitsFor

LEMMA NoCircle ==
    ASSUME TypeInv, KeyInv, WorkInv, LockInv
    PROVE  NoWaitCycle
<1> SUFFICES ASSUME NEW S \in (SUBSET Request) \ {{}}
             PROVE  \E r \in S : WaitsFor(r) \cap S = {}
  BY DEF NoWaitCycle
<1> SUFFICES ASSUME \A r \in S : WaitsFor(r) \cap S # {}
             PROVE  FALSE
  OBVIOUS
<1>0. /\ S # {} /\ S \subseteq Request
      /\ Free \notin Request /\ Account \subseteq Int /\ IsFiniteSet(Account)
  BY ConstantsAssumption
<1>1. \A r \in S : stage[r] \in {"advisory", "lock"}
  BY Waiting
<1> DEFINE Contended == {a \in Account : \E r \in S : /\ stage[r] = "lock" /\ a \in NextToLock(r)
                                                      /\ rowLock[a] \in S \ {r}}
<1>2. \A r \in S : stage[r] = "lock" => \E a \in NextToLock(r) : a \in Contended /\ rowLock[a] \in S \ {r}
  <2> SUFFICES ASSUME NEW r \in S, stage[r] = "lock"
               PROVE  \E a \in NextToLock(r) : a \in Contended /\ rowLock[a] \in S \ {r}
    OBVIOUS
  <2>1. PICK q \in WaitsFor(r) : q \in S
    OBVIOUS
  <2>2. PICK a \in NextToLock(r) : rowLock[a] = q
    BY <2>1, Waiting
  <2>3. q # r
    BY DEF WaitsFor
  <2>4. a \in Account
    BY DEF NextToLock, Wanted
  <2> QED
    BY <2>1, <2>2, <2>3, <2>4
<1>3. Contended # {}
  <2>1. PICK r \in S : TRUE
    BY <1>0
  <2>2. CASE stage[r] = "lock"
    BY <1>2, <2>2
  <2>3. CASE stage[r] = "advisory"
    <3>1. PICK q \in WaitsFor(r) : q \in S
      OBVIOUS
    <3>2. stage[q] = "lock"
      BY <1>1, <2>3, <3>1, Waiting
    <3> QED
      BY <1>2, <3>1, <3>2
  <2> QED
    BY <1>1, <2>2, <2>3
<1>4. PICK a \in Contended : \A b \in Contended : b <= a
  <2>1. Contended \in SUBSET Int /\ IsFiniteSet(Contended)
    BY <1>0, FS_Subset
  <2> HIDE DEF Contended
  <2> QED
    BY <1>3, <2>1, FiniteSetHasGreatest
<1>5. PICK q \in S : rowLock[a] = q
  BY <1>4
<1>6. stage[q] = "lock"
  BY <1>0, <1>1, <1>4, <1>5 DEF LockInv, Rows
<1>7. PICK b \in NextToLock(q) : b \in Contended
  BY <1>2, <1>6
<1>8. b \in Wanted(q) /\ rowLock[b] # q /\ b <= a
  BY <1>4, <1>7 DEF NextToLock
<1>9. b < a
  <2>1. a \in Int /\ b \in Int /\ a # b
    BY <1>0, <1>4, <1>5, <1>7, <1>8
  <2> QED
    BY <1>8, <2>1
<1> QED
  BY <1>0, <1>4, <1>5, <1>6, <1>7, <1>8, <1>9 DEF LockInv, Ordered

\* "orden estable de locks evita el deadlock": no transfers wait in a circle,
\* however many, of whatever accounts and keys.
THEOREM NoDeadlockAmongTransfers == Spec => []NoWaitCycle
  BY NoCircle, TypeInvariant, KeyInvariant, WorkInvariant, LockInvariant, PTL

----------------------------------------------------------------------------
(* Records of refusals.                                                    *)

Unrecorded == {r \in Traced : Refused(r) /\ ~OnRecord(r)}
RecordInv == IsFiniteSet(Unrecorded) /\ Cardinality(Unrecorded) <= faults

LEMMA RecordStep ==
    ASSUME TypeInv, KeyInv, WorkInv, RecordInv, NEW r \in Request, Progress(r) \/ Fault(r)
    PROVE  RecordInv'
<1> USE DEF TypeInv, TypeOK
<1>1. audit \subseteq audit' /\ faults' >= faults /\ faults' \in Nat /\ faults \in Nat
  <2>1. CASE Progress(r)
    <3>1. CASE RejectEarly(r) \/ RejectConflict(r) \/ RejectMissing(r)
               \/ RejectCurrency(r) \/ RejectOverdraft(r)
      BY <3>1 DEF RejectEarly, RejectConflict, RejectMissing, RejectCurrency, RejectOverdraft, Reject
    <3>2. CASE CreditOverflows(r) \/ InsertFails(r)
      BY <3>2 DEF CreditOverflows, InsertFails, StatementError
    <3>3. CASE Moves(r)
      <4>1. audit' = audit /\ faults' = faults
        BY <3>3 DEF Moves, TakeAdvisory, Replay, LookupMisses, LockRow, RowsLocked, Debit, Credit,
                    InsertTransfer, EnqueueAi, EnqueueBancs
      <4> QED
        BY <4>1, ConstantsAssumption
    <3>4. CASE Commit(r)
      BY <3>4 DEF Commit
    <3>5. CASE Accept(r) \/ Begin(r) \/ Retry(r) \/ RecordAndAnswer(r) \/ AnswerUnrecorded(r)
      BY <3>5 DEF Accept, Begin, Retry, RecordAndAnswer, AnswerUnrecorded
    <3> QED
      BY <2>1, <3>1, <3>2, <3>3, <3>4, <3>5 DEF Progress, Moves
  <2>2. CASE Fault(r)
    BY <2>2 DEF Fault, WaitFails, StatementFails, CommitUnacknowledged, RecordFails, Crash,
                CrashAfterCommit, UseFault, StatementError
  <2> QED
    BY <2>1, <2>2
<1>2. \A q \in Traced \ {r} : q \in Unrecorded' => q \in Unrecorded
  <2> SUFFICES ASSUME NEW q \in Traced \ {r}, q \in Unrecorded' PROVE q \in Unrecorded
    OBVIOUS
  <2>1. stage'[q] = stage[q] /\ result'[q] = result[q]
    BY OthersKeepTheirs, ConstantsAssumption
  <2> QED
    BY <1>1, <2>1 DEF Unrecorded, Refused, Answered, OnRecord
<1>3. r \in Unrecorded' => faults' = faults + 1
  <2> SUFFICES ASSUME r \in Traced, stage'[r] = "answered", result'[r].kind = "failed",
                      ~OnRecord(r)'
               PROVE  faults' = faults + 1
    BY DEF Unrecorded, Refused, Answered
  <2>1. ~RollsBack(r) /\ ~Moves(r)
    BY DEF RollsBack, Moves, TakeAdvisory, Replay, LookupMisses, LockRow, RowsLocked, Debit, Credit,
           InsertTransfer, EnqueueAi, EnqueueBancs, Goto
  <2>2. ~Commits(r)
    <3>1. ASSUME Commit(r) PROVE FALSE
      <4>1. result[r].kind = "completed"
        BY <3>1 DEF Commit, WorkInv, Carried, Decided, Completed
      <4> QED
        BY <3>1, <4>1 DEF Commit
    <3> QED
      BY <3>1 DEF Commits, CommitUnacknowledged, CrashAfterCommit, Goto
  <2>3. ~(Accept(r) \/ Begin(r) \/ Retry(r) \/ AnswerUnrecorded(r))
    BY DEF Accept, Begin, Retry, AnswerUnrecorded, Goto
  <2>4. ~RecordAndAnswer(r)
    <3> SUFFICES ASSUME RecordAndAnswer(r) PROVE OnRecord(r)'
      OBVIOUS
    <3>1. result'[r] = Failed(AnswerCode(result[r]), result[r].state)
      BY DEF RecordAndAnswer, AnswerError
    <3>2. AuditRow(r) \in audit' /\ AuditRow(r).request = r /\ AuditRow(r).code = result'[r].code
      BY <3>1 DEF RecordAndAnswer, AuditRow, Failed
    <3> QED
      BY <3>2 DEF OnRecord
  <2>5. RecordFails(r)
    BY <2>1, <2>2, <2>3, <2>4, Kinds DEF Waits
  <2> QED
    BY <2>5 DEF RecordFails, UseFault
<1>4. CASE r \in Unrecorded'
  <2>1. Unrecorded' \in SUBSET (Unrecorded \cup {r})
    BY <1>2 DEF Unrecorded
  <2>2. IsFiniteSet(Unrecorded \cup {r}) /\ Cardinality(Unrecorded \cup {r}) <= faults + 1
    <3>1. Cardinality(Unrecorded) \in Nat
      BY FS_CardinalityType DEF RecordInv
    <3>2. IsFiniteSet(Unrecorded \cup {r})
      BY FS_AddElement DEF RecordInv
    <3>3. Cardinality(Unrecorded \cup {r}) \in {Cardinality(Unrecorded), Cardinality(Unrecorded) + 1}
      BY FS_AddElement DEF RecordInv
    <3>4. Cardinality(Unrecorded) <= faults
      BY DEF RecordInv
    <3> HIDE DEF TypeInv
    <3> QED
      BY <1>1, <3>1, <3>2, <3>3, <3>4
  <2>3. IsFiniteSet(Unrecorded') /\ Cardinality(Unrecorded') <= Cardinality(Unrecorded \cup {r})
    BY <2>1, <2>2, FS_Subset
  <2>4. Cardinality(Unrecorded') \in Nat /\ Cardinality(Unrecorded \cup {r}) \in Nat
    BY <2>2, <2>3, FS_CardinalityType
  <2> QED
    BY <1>1, <1>3, <1>4, <2>2, <2>3, <2>4 DEF RecordInv
<1>5. CASE r \notin Unrecorded'
  <2>1. Unrecorded' \in SUBSET Unrecorded
    BY <1>2, <1>5 DEF Unrecorded
  <2>2. IsFiniteSet(Unrecorded') /\ Cardinality(Unrecorded') <= Cardinality(Unrecorded)
    BY <2>1, FS_Subset DEF RecordInv
  <2>3. Cardinality(Unrecorded') \in Nat /\ Cardinality(Unrecorded) \in Nat
    BY <2>2, FS_CardinalityType DEF RecordInv
  <2> QED
    BY <1>1, <2>2, <2>3 DEF RecordInv
<1> QED
  BY <1>4, <1>5

\* Refusals without a record under the client's own code are never more than
\* the faults that hit, however the requests interleave and fail.
THEOREM RefusalsRecorded == Spec => []RefusalsOnRecord
<1>1. Init => RecordInv
  <2> SUFFICES ASSUME Init PROVE RecordInv
    OBVIOUS
  <2>1. Unrecorded = {}
    BY ConstantsAssumption DEF Init, Unrecorded, Refused, Answered
  <2> QED
    BY <2>1, FS_EmptySet DEF Init, RecordInv
<1>2. TypeInv /\ KeyInv /\ WorkInv /\ RecordInv /\ [Next]_vars => RecordInv'
  <2>1. RecordInv /\ UNCHANGED vars => RecordInv'
    <3> SUFFICES ASSUME RecordInv, UNCHANGED vars PROVE RecordInv'
      OBVIOUS
    <3>1. Unrecorded' = Unrecorded /\ faults' = faults
      BY DEF Unrecorded, Refused, Answered, OnRecord, vars
    <3> QED
      BY <3>1 DEF RecordInv
  <2> QED
    BY <2>1, RecordStep DEF Next
<1>3. RecordInv => RefusalsOnRecord
  BY DEF RecordInv, Unrecorded, RefusalsOnRecord
<1> QED
  BY <1>1, <1>2, <1>3, TypeInvariant, KeyInvariant, WorkInvariant, PTL DEF Spec

----------------------------------------------------------------------------
(* The books.  Amounts is a recursive sum in an order CHOOSE fixes: first  *)
(* that it exists and does not depend on the order.                        *)

Choice(s) == CHOOSE x \in s : TRUE
Sums(f, T) ==
    f = [s \in SUBSET T |-> IF s = {} THEN 0 ELSE Choice(s).amount + f[s \ {Choice(s)}]]

\* A set of finite sets that is not empty has a member with no smaller one in it.
LEMMA SmallestSet ==
    ASSUME NEW T, IsFiniteSet(T), NEW Bad \in SUBSET (SUBSET T), Bad # {}
    PROVE  \E s \in Bad : \A u \in Bad : ~(u \subseteq s /\ u # s)
<1>1. IsWellFoundedOn(StrictSubsetOrdering(T), SUBSET T)
  BY FS_StrictSubsetOrderingWellFounded, FS_FiniteSubsetsOfFinite
<1>2. PICK s \in Bad : \A u \in Bad : ~(<<u, s>> \in StrictSubsetOrdering(T))
  BY <1>1, WFMin
<1> QED
  BY <1>2 DEF StrictSubsetOrdering

\* Two such sums agree wherever both are defined ...
LEMMA SumsAgree ==
    ASSUME NEW T, IsFiniteSet(T), NEW U \in SUBSET T, NEW f, NEW g, Sums(f, T), Sums(g, U)
    PROVE  \A s \in SUBSET U : f[s] = g[s]
<1> DEFINE Bad == {s \in SUBSET U : f[s] # g[s]}
<1> SUFFICES ASSUME Bad # {} PROVE FALSE
  OBVIOUS
<1>1. IsFiniteSet(U)
  BY FS_Subset
<1>2. PICK s \in Bad : \A u \in Bad : ~(u \subseteq s /\ u # s)
  <2>1. Bad \in SUBSET (SUBSET U)
    OBVIOUS
  <2> HIDE DEF Bad
  <2> QED
    BY <1>1, <2>1, SmallestSet
<1>3. s \in SUBSET T /\ s \in SUBSET U
  BY <1>2
<1>4. CASE s = {}
  BY <1>2, <1>3, <1>4 DEF Sums
<1>5. CASE s # {}
  <2>1. Choice(s) \in s
    BY <1>5 DEF Choice
  <2>2. s \ {Choice(s)} \notin Bad
    BY <1>2, <2>1
  <2>3. f[s \ {Choice(s)}] = g[s \ {Choice(s)}]
    BY <1>3, <2>2
  <2>4. f[s] = Choice(s).amount + f[s \ {Choice(s)}]
    BY <1>3, <1>5 DEF Sums
  <2>5. g[s] = Choice(s).amount + g[s \ {Choice(s)}]
    BY <1>3, <1>5 DEF Sums
  <2> QED
    BY <1>2, <2>3, <2>4, <2>5
<1> QED
  BY <1>4, <1>5

\* ... and there is one for every finite set.
LEMMA SumsExist ==
    ASSUME NEW T, IsFiniteSet(T)
    PROVE  \E f : Sums(f, T)
<1> DEFINE Bad == {s \in SUBSET T : ~ \E f : Sums(f, s)}
<1> SUFFICES ASSUME Bad # {} PROVE FALSE
  OBVIOUS
<1>1. PICK U \in Bad : \A u \in Bad : ~(u \subseteq U /\ u # U)
  <2>1. Bad \in SUBSET (SUBSET T)
    OBVIOUS
  <2> HIDE DEF Bad
  <2> QED
    BY <2>1, SmallestSet
<1>2. U \in SUBSET T /\ IsFiniteSet(U) /\ ~ \E f : Sums(f, U)
  BY <1>1, FS_Subset
<1> DEFINE part(u) == CHOOSE f : Sums(f, u)
           total == [s \in SUBSET U |->
                       IF s = {} THEN 0 ELSE Choice(s).amount + part(s \ {Choice(s)})[s \ {Choice(s)}]]
<1>3. \A u \in SUBSET U : u # U => Sums(part(u), u)
  <2> SUFFICES ASSUME NEW u \in SUBSET U, u # U PROVE \E f : Sums(f, u)
    OBVIOUS
  <2> QED
    BY <1>1
<1> HIDE DEF part, Bad
<1>4. ASSUME NEW u \in SUBSET U, u # U
      PROVE  total[u] = part(u)[u]
  <2>1. Sums(part(u), u)
    BY <1>3, <1>4
  <2>2. CASE u = {}
    BY <2>1, <2>2 DEF Sums
  <2>3. CASE u # {}
    <3>1. Choice(u) \in u
      BY <2>3 DEF Choice
    <3> DEFINE w == u \ {Choice(u)}
    <3>2. w \in SUBSET u /\ w \in SUBSET U /\ w # U
      BY <1>4, <3>1
    <3>3. Sums(part(w), w)
      BY <1>3, <3>2
    <3>4. IsFiniteSet(u)
      BY <1>2, FS_Subset
    <3> HIDE DEF w
    <3>5. part(u)[w] = part(w)[w]
      BY <2>1, <3>2, <3>3, <3>4, SumsAgree
    <3>6. part(u)[u] = Choice(u).amount + part(u)[w]
      BY <2>1, <2>3 DEF Sums, w
    <3>7. total[u] = Choice(u).amount + part(w)[w]
      BY <2>3 DEF w
    <3> QED
      BY <3>5, <3>6, <3>7
  <2> QED
    BY <2>2, <2>3
<1>5. Sums(total, U)
  <2>1. ASSUME NEW s \in SUBSET U, s # {}
        PROVE  total[s] = Choice(s).amount + total[s \ {Choice(s)}]
    <3>1. Choice(s) \in s
      BY <2>1 DEF Choice
    <3>2. s \ {Choice(s)} \in SUBSET U /\ s \ {Choice(s)} # U
      BY <3>1
    <3>3. total[s \ {Choice(s)}] = part(s \ {Choice(s)})[s \ {Choice(s)}]
      BY <1>4, <3>2
    <3> QED
      BY <2>1, <3>3
  <2>2. total[{}] = 0
    OBVIOUS
  <2>3. total = [s \in SUBSET U |-> total[s]]
    OBVIOUS
  <2> HIDE DEF total
  <2> QED
    BY <2>1, <2>2, <2>3 DEF Sums
<1> QED
  BY <1>2, <1>5

\* Amounts takes the rows in the order CHOOSE gives ...
LEMMA AmountsByChoice ==
    ASSUME NEW T, IsFiniteSet(T)
    PROVE  /\ Amounts({}) = 0
           /\ T # {} => Choice(T) \in T /\ Amounts(T) = Choice(T).amount + Amounts(T \ {Choice(T)})
<1>1. \A U : Amounts(U) = (CHOOSE f : Sums(f, U))[U]
  BY DEF Amounts, MapThenSumSet, MapThenFoldSet, Sums, Choice
<1>2. \A U \in SUBSET T : Sums(CHOOSE f : Sums(f, U), U)
  BY SumsExist, FS_Subset
<1>3. {} \in SUBSET T /\ T \in SUBSET T
  OBVIOUS
<1>4. Amounts({}) = 0
  <2>1. Sums(CHOOSE f : Sums(f, {}), {})
    BY <1>2, <1>3
  <2>2. (CHOOSE f : Sums(f, {}))[{}] = 0
    BY <2>1 DEF Sums
  <2> QED
    BY <1>1, <2>2
<1>5. ASSUME T # {}
      PROVE  Choice(T) \in T /\ Amounts(T) = Choice(T).amount + Amounts(T \ {Choice(T)})
  <2> DEFINE U == T \ {Choice(T)}
             f == CHOOSE h : Sums(h, T)
             g == CHOOSE h : Sums(h, U)
  <2>1. Choice(T) \in T
    BY <1>5 DEF Choice
  <2>2. U \in SUBSET T
    OBVIOUS
  <2>3. Sums(f, T) /\ Sums(g, U)
    BY <1>2, <1>3, <2>2
  <2>4. Amounts(T) = f[T] /\ Amounts(U) = g[U]
    BY <1>1
  <2> HIDE DEF f, g
  <2>5. f[T] = Choice(T).amount + f[U]
    BY <1>5, <2>3 DEF Sums
  <2> HIDE DEF U
  <2>6. f[U] = g[U]
    BY <2>2, <2>3, SumsAgree
  <2> QED
    BY <2>1, <2>4, <2>5, <2>6 DEF U
<1> QED
  BY <1>4, <1>5

\* ... which is no matter: any row may be taken first.
LEMMA AmountsType ==
    ASSUME NEW T, IsFiniteSet(T), \A t \in T : t.amount \in Int
    PROVE  Amounts(T) \in Int
<1> DEFINE Bad == {s \in SUBSET T : Amounts(s) \notin Int}
<1> SUFFICES ASSUME Bad # {} PROVE FALSE
  OBVIOUS
<1>1. PICK s \in Bad : \A u \in Bad : ~(u \subseteq s /\ u # s)
  <2>1. Bad \in SUBSET (SUBSET T)
    OBVIOUS
  <2> HIDE DEF Bad
  <2> QED
    BY <2>1, SmallestSet
<1>2. IsFiniteSet(s) /\ s \subseteq T /\ Amounts(s) \notin Int
  BY <1>1, FS_Subset
<1>3. s # {}
  <2>1. Amounts({}) = 0
    BY <1>2, AmountsByChoice
  <2> QED
    BY <1>2, <2>1
<1>4. Choice(s) \in s /\ Amounts(s) = Choice(s).amount + Amounts(s \ {Choice(s)})
  BY <1>2, <1>3, AmountsByChoice
<1>5. Amounts(s \ {Choice(s)}) \in Int
  BY <1>1, <1>2, <1>4
<1> QED
  BY <1>2, <1>4, <1>5

LEMMA AmountsOneLess ==
    ASSUME NEW T, IsFiniteSet(T), \A t \in T : t.amount \in Int, NEW t \in T
    PROVE  Amounts(T) = t.amount + Amounts(T \ {t})
<1> DEFINE OneLess(s) == \A x \in s : Amounts(s) = x.amount + Amounts(s \ {x})
           Bad == {s \in SUBSET T : ~OneLess(s)}
<1> SUFFICES ASSUME Bad # {} PROVE FALSE
  OBVIOUS
<1>1. PICK s \in Bad : \A u \in Bad : ~(u \subseteq s /\ u # s)
  <2>1. Bad \in SUBSET (SUBSET T)
    OBVIOUS
  <2> HIDE DEF Bad
  <2> QED
    BY <2>1, SmallestSet
<1>2. IsFiniteSet(s) /\ s \subseteq T /\ ~OneLess(s)
  BY <1>1, FS_Subset
<1>3. PICK x \in s : Amounts(s) # x.amount + Amounts(s \ {x})
  BY <1>2
<1> DEFINE c == Choice(s)
           rest == s \ {x, c}
<1>4. c \in s /\ Amounts(s) = c.amount + Amounts(s \ {c})
  BY <1>2, <1>3, AmountsByChoice
<1>5. c # x
  BY <1>3, <1>4
<1>6. s \ {c} \notin Bad /\ s \ {x} \notin Bad
  BY <1>1, <1>3, <1>4
<1>7. OneLess(s \ {c}) /\ OneLess(s \ {x})
  BY <1>2, <1>6
<1>8. /\ x \in s \ {c} /\ (s \ {c}) \ {x} = rest
      /\ c \in s \ {x} /\ (s \ {x}) \ {c} = rest
  BY <1>3, <1>4, <1>5
<1>9. Amounts(s \ {c}) = x.amount + Amounts(rest)
  BY <1>7, <1>8
<1>10. Amounts(s \ {x}) = c.amount + Amounts(rest)
  BY <1>7, <1>8
<1>11. Amounts(rest) \in Int /\ x.amount \in Int /\ c.amount \in Int
  <2>1. IsFiniteSet(rest) /\ rest \subseteq T
    BY <1>2, FS_Subset
  <2> QED
    BY <1>2, <1>3, <1>4, <2>1, AmountsType
<1> HIDE DEF c, rest
<1> QED
  BY <1>3, <1>4, <1>9, <1>10, <1>11

LEMMA AmountsOneMore ==
    ASSUME NEW T, IsFiniteSet(T), \A t \in T : t.amount \in Int, NEW t, t \notin T, t.amount \in Int
    PROVE  Amounts(T \cup {t}) = Amounts(T) + t.amount
<1>1. IsFiniteSet(T \cup {t}) /\ (T \cup {t}) \ {t} = T
  BY FS_AddElement
<1>2. Amounts(T \cup {t}) = t.amount + Amounts((T \cup {t}) \ {t})
  BY <1>1, AmountsOneLess
<1>3. Amounts(T \cup {t}) = t.amount + Amounts(T)
  BY <1>1, <1>2
<1>4. Amounts(T) \in Int
  BY AmountsType
<1> QED
  BY <1>3, <1>4

\* The tables have finitely many rows, and each balance is accounted for.
Into(a) == {t \in Posted : t.to = a}
OutOf(a) == {t \in Posted : t.from = a}
BooksInv == IsFiniteSet(Posted) /\ BooksBalance

LEMMA BooksStep ==
    ASSUME TypeInv, RangeInv, KeyInv, WorkInv, PosterInv, BooksInv,
           NEW r \in Request, Progress(r) \/ Fault(r)
    PROVE  BooksInv'
<1>1. CASE ~(Commits(r) /\ inserted[r] # NoTransfer)
  <2>1. balance' = balance /\ transfers' = transfers
    BY <1>1, NothingPosted DEF dbVars
  <2>2. Posted' = Posted
    BY <2>1 DEF Posted
  <2> QED
    BY <2>1, <2>2 DEF BooksInv, BooksBalance
<1>2. CASE Commits(r) /\ inserted[r] # NoTransfer
  <2> DEFINE t == MyRow(r)
  <2>1. /\ t \in Row /\ t # NoTransfer /\ Body[r].key \in Key
        /\ transfers[Body[r].key] = NoTransfer
        /\ transfers' = [transfers EXCEPT ![Body[r].key] = t]
    BY <1>2, PostingCommit, BodyType, ConstantsAssumption DEF Existing
  <2>2. balance' = L!Moved(t) /\ t.from \in Account /\ t.to \in Account /\ t.from # t.to
    BY <1>2, PostsOnce DEF L!Post
  <2>3. t.amount \in Nat
    BY BodyType DEF MyRow
  <2>4. Posted' = Posted \cup {t}
    BY <2>1 DEF Posted, TypeInv, TypeOK
  <2>5. t \notin Posted
    <3>1. t.id[1] = r
      BY DEF MyRow, MyId
    <3> QED
      BY <2>1, <3>1 DEF Posted, PosterInv, PosterDone, Poster
  <2>6. \A u \in Posted : u.amount \in Int
    <3>1. \A u \in Row : u.amount \in Int
      BY BodyType DEF Row
    <3> QED
      BY <3>1 DEF Posted, TypeInv, TypeOK
  <2>7. IsFiniteSet(Posted) /\ IsFiniteSet(Posted')
    BY <2>4, FS_AddElement DEF BooksInv
  <2> HIDE DEF t
  <2>8. ASSUME NEW a \in Account
        PROVE  balance'[a] = Opening[a] + Amounts(Into(a)') - Amounts(OutOf(a)')
    <3>1. /\ IsFiniteSet(Into(a)) /\ IsFiniteSet(OutOf(a))
          /\ Into(a) \subseteq Posted /\ OutOf(a) \subseteq Posted
      <4>1. Into(a) \subseteq Posted /\ OutOf(a) \subseteq Posted
        BY DEF Into, OutOf
      <4> QED
        BY <2>7, <4>1, FS_Subset
    <3>2. Amounts(Into(a)') = Amounts(Into(a)) + (IF t.to = a THEN t.amount ELSE 0)
      <4>1. CASE t.to = a
        <5>1. Into(a)' = Into(a) \cup {t}
          BY <2>4, <4>1 DEF Into
        <5> QED
          BY <2>3, <2>5, <2>6, <3>1, <4>1, <5>1, AmountsOneMore
      <4>2. CASE t.to # a
        <5>1. Into(a)' = Into(a)
          BY <2>4, <4>2 DEF Into
        <5>2. Amounts(Into(a)) \in Int
          BY <2>6, <3>1, AmountsType
        <5> QED
          BY <4>2, <5>1, <5>2
      <4> QED
        BY <4>1, <4>2
    <3>3. Amounts(OutOf(a)') = Amounts(OutOf(a)) + (IF t.from = a THEN t.amount ELSE 0)
      <4>1. CASE t.from = a
        <5>1. OutOf(a)' = OutOf(a) \cup {t}
          BY <2>4, <4>1 DEF OutOf
        <5> QED
          BY <2>3, <2>5, <2>6, <3>1, <4>1, <5>1, AmountsOneMore
      <4>2. CASE t.from # a
        <5>1. OutOf(a)' = OutOf(a)
          BY <2>4, <4>2 DEF OutOf
        <5>2. Amounts(OutOf(a)) \in Int
          BY <2>6, <3>1, AmountsType
        <5> QED
          BY <4>2, <5>1, <5>2
      <4> QED
        BY <4>1, <4>2
    <3>4. Amounts(Into(a)) \in Int /\ Amounts(OutOf(a)) \in Int
      BY <2>6, <3>1, AmountsType
    <3>5. balance[a] = Opening[a] + Amounts(Into(a)) - Amounts(OutOf(a))
      BY DEF BooksInv, BooksBalance, Into, OutOf
    <3>6. Opening[a] \in Int
      BY ConstantsAssumption
    <3>7. balance \in [Account -> Int]
      BY DEF TypeInv, TypeOK
    <3>8. balance'[a] = balance[a] + (IF t.to = a THEN t.amount ELSE 0)
                                  - (IF t.from = a THEN t.amount ELSE 0)
      BY <2>2, <2>3, <3>7 DEF L!Moved
    <3> QED
      BY <2>3, <3>2, <3>3, <3>4, <3>5, <3>6, <3>8
  <2> QED
    BY <2>7, <2>8 DEF BooksInv, BooksBalance, Into, OutOf
<1> QED
  BY <1>1, <1>2

\* Each balance is at every moment its opening balance plus what the posted
\* rows moved in minus what they moved out: no lost update, no half transfer,
\* no key debited twice, for any number of requests and accounts.
THEOREM BooksAlwaysBalance == Spec => []BooksBalance
<1>1. Init => BooksInv
  <2> SUFFICES ASSUME Init PROVE BooksInv
    OBVIOUS
  <2>1. Posted = {} /\ balance = Opening
    BY DEF Init, Posted
  <2>2. IsFiniteSet(Posted) /\ Amounts({}) = 0
    BY <2>1, FS_EmptySet, AmountsByChoice
  <2>3. \A a \in Account : {t \in Posted : t.to = a} = {} /\ {t \in Posted : t.from = a} = {}
    BY <2>1
  <2>4. \A a \in Account : Opening[a] \in Int
    BY ConstantsAssumption
  <2> QED
    BY <2>1, <2>2, <2>3, <2>4 DEF BooksInv, BooksBalance
<1>2. TypeInv /\ RangeInv /\ KeyInv /\ WorkInv /\ PosterInv /\ BooksInv /\ [Next]_vars
        => BooksInv'
  <2>1. BooksInv /\ UNCHANGED vars => BooksInv'
    <3> SUFFICES ASSUME BooksInv, UNCHANGED vars PROVE BooksInv'
      OBVIOUS
    <3>1. Posted' = Posted /\ balance' = balance
      BY DEF Posted, vars, dbVars
    <3> QED
      BY <3>1 DEF BooksInv, BooksBalance
  <2> QED
    BY <2>1, BooksStep DEF Next
<1> QED
  BY <1>1, <1>2, TypeInvariant, RangeInvariant, KeyInvariant, WorkInvariant, PosterInvariant, PTL
     DEF Spec, BooksInv
=============================================================================
