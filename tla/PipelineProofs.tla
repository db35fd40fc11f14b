---------------------------- MODULE PipelineProofs ----------------------------
(***************************************************************************)
(* Buffer, queue and workers together implement the intake: a row is of an *)
(* accepted item and the first of its uid, wherever the two parts meet.    *)
(***************************************************************************)
EXTENDS Pipeline, BufferProofs

----------------------------------------------------------------------------
(* The inductive invariant: that of the buffer, and the way back from what *)
(* a worker holds over the row of the queue to the 202.                    *)

QueueType ==
    /\ status \in [Item -> W!Status]
    /\ attempts \in [Item -> Nat]
    /\ batch \in [Worker -> SUBSET W!Claim]
    /\ current \in [Worker -> SUBSET W!Claim]
    /\ writers \in [W!Uids -> SUBSET Item]

\* A queue row, deleted as it may be, is of an accepted item ...
RowsAreAccepted == \A i \in Item : status[i] # "ABSENT" => i \in accepted

\* ... a worker holds nothing but rows ...
HeldArePresent == \A w \in Worker : \A c \in W!HeldBy(w) : status[c.job] # "ABSENT"

\* ... and a uid without a row in raw_transactions has no writer.
WritersAreRows ==
    \A u \in W!Uids : /\ \A i \in writers[u] : Uid[i] = u
                      /\ u \notin raw => writers[u] = {}

IntakeInv == TypeOK /\ BufferInv /\ QueueType /\ RowsAreAccepted /\ HeldArePresent /\ WritersAreRows

----------------------------------------------------------------------------
(* Steps of the API process.                                               *)

\* Whatever the buffer writes to the queue was accepted before.
LEMMA InsertsAccepted ==
    ASSUME TypeOK, BufferInv, Next
    PROVE  queue' \ queue \subseteq accepted
<1>1. \A f \in flights : Rows(f) \subseteq accepted
  BY DEF BufferInv, Apart, InMemory, Rows
<1>2. CASE UNCHANGED queue \/ Deletes
  BY <1>2 DEF Deletes
<1>3. CASE Crash
  <2>1. PICK done \in SUBSET flights : queue' = queue \cup UNION {Rows(f) : f \in done}
    BY <1>3 DEF Crash
  <2> QED
    BY <1>1, <2>1
<1>4. ASSUME NEW f \in flights, Inserts(f) \/ InsertUnacknowledged(f)
      PROVE  queue' \ queue \subseteq accepted
  BY <1>1, <1>4 DEF Inserts, InsertUnacknowledged
<1> QED
  BY <1>2, <1>3, <1>4
     DEF Next, Flushing, Failing, Calls, TimerFires, ImmediateRuns, TakesSlot, Splices,
         SplicesNothing, RecordsMalformed, MeetsOwnRow, Reports, DrainWakes, InsertFails,
         onModuleDestroy, clearAll, enqueueRaw, tables

LEMMA AcceptsOne ==
    ASSUME Next
    PROVE  UNCHANGED accepted \/ \E i \in Item \ accepted : accepted' = accepted \cup {i}
  BY DEF Next, Flushing, Failing, Calls, TimerFires, ImmediateRuns, TakesSlot, Splices,
         SplicesNothing, RecordsMalformed, Inserts, MeetsOwnRow, Reports, DrainWakes, InsertFails,
         InsertUnacknowledged, InsertError, onModuleDestroy, clearAll, enqueueRaw, Deletes, Crash

\* What both the buffer's steps and a crash of its process do to the queue.
ApiMoves == Next /\ RowsArrive /\ UNCHANGED drainVars

LEMMA ApiKeeps ==
    ASSUME IntakeInv, ApiMoves
    PROVE  IntakeInv'
<1> USE DEF IntakeInv, QueueType
<1>1. (TypeOK /\ BufferInv)'
  BY BufferStep DEF ApiMoves
<1>2. /\ queue' \ queue \subseteq accepted
      /\ accepted \subseteq accepted'
  BY InsertsAccepted, AcceptsOne DEF ApiMoves
<1>3. UNCHANGED <<batch, current, raw, writers>>
  BY DEF ApiMoves, drainVars
<1>4. /\ status' = [i \in Item |-> IF i \in queue' \ queue THEN "PENDING" ELSE status[i]]
      /\ attempts' = [i \in Item |-> IF i \in queue' \ queue THEN 0 ELSE attempts[i]]
  BY DEF ApiMoves, RowsArrive
<1>5. QueueType'
  BY <1>3, <1>4 DEF W!Status, W!Claim, W!Uids
<1>6. RowsAreAccepted'
  BY <1>2, <1>4 DEF RowsAreAccepted
<1>7. HeldArePresent'
  <2>1. \A w \in Worker : \A c \in W!HeldBy(w) : c.job \in Item
    BY DEF W!HeldBy, W!Claim
  <2> QED
    BY <1>3, <1>4, <2>1 DEF HeldArePresent, W!HeldBy
<1>8. WritersAreRows'
  BY <1>3 DEF WritersAreRows, W!Uids
<1> QED
  BY <1>1, <1>5, <1>6, <1>7, <1>8

----------------------------------------------------------------------------
(* Steps of the workers and of clearAll's transaction.                     *)

WorkersStep ==
    \/ \E w \in Worker : Drains(W!Progress(w)) \/ Drains(W!Fault(w))
    \/ \E i \in Item : Drains(W!Passes(i)) \/ Drains(W!Expires(i))

LEMMA WorkersFaults ==
    ASSUME TypeOK, WorkersStep \/ DeletesRaw
    PROVE  faults' \in 0..MaxFaults
<1>1. ASSUME NEW w \in Worker, W!Progress(w)
      PROVE  UNCHANGED faults
  BY <1>1
     DEF W!Progress, W!Claims, W!Begins, W!Persists, W!MeetsDuplicate, W!IsRefused, W!MarksDone,
         W!Settles, W!Ends
<1>2. ASSUME NEW w \in Worker, W!Fault(w)
      PROVE  W!UseFault
  BY <1>2
     DEF W!Fault, W!StatementFails, W!PersistUnacknowledged, W!MarkUnacknowledged, W!CatchFails,
         W!CatchUnacknowledged, W!Crashes, W!WorkerCrashes
<1>3. ASSUME NEW i \in Item, W!Passes(i) \/ W!Expires(i)
      PROVE  UNCHANGED faults \/ W!UseFault
  BY <1>3 DEF W!Passes, W!Expires, W!Clock, W!ComesDue, W!OrphanExpires, W!LeaseExpires
<1>4. DeletesRaw => UNCHANGED faults
  BY DEF DeletesRaw, Drains, W!DeleteRaw
<1> QED
  BY <1>1, <1>2, <1>3, <1>4, BufferAssumption DEF WorkersStep, Drains, TypeOK, W!UseFault

Closing(w) == \E c \in current[w] : W!markDone(c.job) \/ W!markDead(c.job) \/ W!scheduleRetry(c.job)

\* Only the claiming statement hands out rows, and only rows that are there.
QueueMoves ==
    \/ \E w \in Worker : W!ClaimBatch(w)
    \/ /\ (\E w \in Worker : Closing(w)) \/ UNCHANGED <<status, attempts>>
       /\ \A w \in Worker : batch'[w] \subseteq batch[w] /\ current'[w] \subseteq batch[w] \cup current[w]
       /\ batch' \in [Worker -> SUBSET W!Claim] /\ current' \in [Worker -> SUBSET W!Claim]

\* A worker inserts the uid of its job where there is no row with it yet.
Insertion ==
    \/ UNCHANGED <<raw, writers>>
    \/ \E w \in Worker : \E c \in current[w] : ~W!Taken(Uid[c.job]) /\ W!Inserted(c.job)

LEMMA WorkersInsert ==
    ASSUME WorkersStep
    PROVE  Insertion
<1>1. ASSUME NEW w \in Worker, W!Progress(w) \/ W!Fault(w)
      PROVE  Insertion
  <2>1. CASE W!Persists(w) \/ W!PersistUnacknowledged(w)
    BY <2>1 DEF W!Persists, W!PersistUnacknowledged, W!At, Insertion
  <2>2. CASE UNCHANGED <<raw, writers>>
    BY <2>2 DEF Insertion
  <2> QED
    BY <1>1, <2>1, <2>2
       DEF W!Progress, W!Fault, W!Claims, W!Begins, W!MeetsDuplicate, W!IsRefused, W!MarksDone,
           W!Settles, W!Ends, W!StatementFails, W!MarkUnacknowledged, W!CatchFails,
           W!CatchUnacknowledged, W!Crashes, W!rawVars
<1>2. ASSUME NEW i \in Item, W!Passes(i) \/ W!Expires(i)
      PROVE  Insertion
  BY <1>2 DEF W!Passes, W!Expires, W!rawVars, Insertion
<1> QED
  BY <1>1, <1>2 DEF WorkersStep, Drains

LEMMA WorkersQueue ==
    ASSUME QueueType, WorkersStep
    PROVE  QueueMoves
<1> USE DEF QueueType
<1>0. ASSUME NEW w \in Worker, W!EndJob(w) \/ W!AbandonTick(w) \/ W!EndTick(w) \/ UNCHANGED <<batch, current>>
      PROVE  /\ \A v \in Worker : batch'[v] \subseteq batch[v] /\ current'[v] \subseteq current[v]
             /\ batch' \in [Worker -> SUBSET W!Claim] /\ current' \in [Worker -> SUBSET W!Claim]
  BY <1>0 DEF W!EndJob, W!AbandonTick, W!EndTick
<1>1. ASSUME NEW w \in Worker, W!Progress(w) \/ W!Fault(w)
      PROVE  QueueMoves
  <2>1. CASE W!Claims(w)
    BY <2>1 DEF W!Claims, QueueMoves
  <2>2. CASE W!Begins(w)
    <3>1. PICK c \in batch[w] : W!BeginJob(w, c, "persist")
      BY <2>2 DEF W!Begins
    <3>2. /\ UNCHANGED <<status, attempts>>
          /\ batch' = [batch EXCEPT ![w] = @ \ {c}] /\ current' = [current EXCEPT ![w] = {c}]
      BY <3>1 DEF W!BeginJob, W!tableVars
    <3> QED
      BY <3>2 DEF QueueMoves
  <2>3. CASE W!Ends(w) \/ W!Persists(w) \/ W!MeetsDuplicate(w) \/ W!IsRefused(w)
             \/ W!StatementFails(w) \/ W!PersistUnacknowledged(w) \/ W!CatchFails(w) \/ W!Crashes(w)
    <3>1. UNCHANGED <<status, attempts>>
      BY <2>3
         DEF W!Ends, W!EndTick, W!Persists, W!MeetsDuplicate, W!IsRefused, W!StatementFails,
             W!PersistUnacknowledged, W!CatchFails, W!Crashes, W!WorkerCrashes, W!tableVars
    <3>2. W!EndTick(w) \/ W!AbandonTick(w) \/ UNCHANGED <<batch, current>>
      BY <2>3
         DEF W!Ends, W!Persists, W!MeetsDuplicate, W!IsRefused, W!StatementFails,
             W!PersistUnacknowledged, W!CatchFails, W!Crashes, W!WorkerCrashes
    <3> QED
      BY <1>0, <3>1, <3>2 DEF QueueMoves
  <2>4. CASE W!MarksDone(w) \/ W!Settles(w) \/ W!MarkUnacknowledged(w) \/ W!CatchUnacknowledged(w)
    <3>1. Closing(w)
      BY <2>4
         DEF W!MarksDone, W!Settles, W!MarkUnacknowledged, W!CatchUnacknowledged, W!SettleFailure,
             W!At, Closing
    <3>2. W!EndJob(w) \/ W!AbandonTick(w) \/ UNCHANGED <<batch, current>>
      BY <2>4 DEF W!MarksDone, W!Settles, W!MarkUnacknowledged, W!CatchUnacknowledged
    <3> QED
      BY <1>0, <3>1, <3>2 DEF QueueMoves
  <2> QED
    BY <1>1, <2>1, <2>2, <2>3, <2>4 DEF W!Progress, W!Fault
<1>2. ASSUME NEW i \in Item, W!Passes(i) \/ W!Expires(i)
      PROVE  QueueMoves
  <2>1. UNCHANGED <<status, attempts, batch, current>>
    BY <1>2 DEF W!Passes, W!Expires, W!Clock, W!ComesDue, W!OrphanExpires, W!LeaseExpires, W!workerVars
  <2> QED
    BY <2>1 DEF QueueMoves
<1> QED
  BY <1>1, <1>2 DEF WorkersStep, Drains

\* No step of a worker brings a row into the table.
LEMMA WorkersRows ==
    ASSUME QueueType, HeldArePresent, QueueMoves
    PROVE  /\ status' \in [Item -> W!Status] /\ attempts' \in [Item -> Nat]
           /\ batch' \in [Worker -> SUBSET W!Claim] /\ current' \in [Worker -> SUBSET W!Claim]
           /\ \A j \in Item : status'[j] # "ABSENT" <=> status[j] # "ABSENT"
           /\ HeldArePresent'
<1> USE DEF QueueType
<1>0. \A v \in Worker : \A c \in batch[v] \cup current[v] : c.job \in Item /\ status[c.job] # "ABSENT"
  BY DEF HeldArePresent, W!HeldBy, W!Claim
<1>1. ASSUME NEW w \in Worker, W!ClaimBatch(w)
      PROVE  /\ status' \in [Item -> W!Status] /\ attempts' \in [Item -> Nat]
             /\ batch' \in [Worker -> SUBSET W!Claim] /\ current' \in [Worker -> SUBSET W!Claim]
             /\ \A j \in Item : status'[j] # "ABSENT" <=> status[j] # "ABSENT"
             /\ HeldArePresent'
  <2>1. \A j \in W!Picked : j \in Item /\ status[j] # "ABSENT"
    BY DEF W!Picked, W!Claimable
  <2>2. status' = [j \in Item |-> IF j \in W!Picked THEN "CLAIMED" ELSE status[j]]
    BY <1>1 DEF W!ClaimBatch
  <2>3. attempts' = [j \in Item |-> IF j \in W!Picked THEN attempts[j] + 1 ELSE attempts[j]]
    BY <1>1 DEF W!ClaimBatch, W!Counted
  <2> DEFINE got == {[job |-> j, attempts |-> attempts[j] + 1] : j \in W!Picked}
  <2>4. batch' = [batch EXCEPT ![w] = got] /\ current' = current
    BY <1>1 DEF W!ClaimBatch, W!Counted
  <2>5. got \subseteq W!Claim /\ \A c \in got : c.job \in W!Picked
    BY <2>1 DEF W!Claim
  <2> HIDE DEF got
  <2>6. status' \in [Item -> W!Status] /\ \A j \in Item : status'[j] # "ABSENT" <=> status[j] # "ABSENT"
    BY <2>1, <2>2 DEF W!Status
  <2>7. attempts' \in [Item -> Nat] /\ batch' \in [Worker -> SUBSET W!Claim]
    BY <2>3, <2>4, <2>5
  <2>8. \A v \in Worker : \A c \in batch'[v] \cup current'[v] : c.job \in Item /\ status[c.job] # "ABSENT"
    BY <1>0, <2>1, <2>4, <2>5
  <2> QED
    BY <2>4, <2>6, <2>7, <2>8 DEF HeldArePresent, W!HeldBy
<1>2. ASSUME (\E w \in Worker : Closing(w)) \/ UNCHANGED <<status, attempts>>
      PROVE  /\ status' \in [Item -> W!Status] /\ attempts' = attempts
             /\ \A j \in Item : status'[j] # "ABSENT" <=> status[j] # "ABSENT"
  <2>1. CASE UNCHANGED <<status, attempts>>
    BY <2>1
  <2>2. ASSUME NEW w \in Worker, Closing(w)
        PROVE  /\ status' \in [Item -> W!Status] /\ attempts' = attempts
               /\ \A j \in Item : status'[j] # "ABSENT" <=> status[j] # "ABSENT"
    <3>1. PICK c \in current[w] : W!markDone(c.job) \/ W!markDead(c.job) \/ W!scheduleRetry(c.job)
      BY <2>2 DEF Closing
    <3>2. /\ attempts' = attempts
          /\ \E s \in {"DONE", "DEAD", "PENDING"} :
               status' = [status EXCEPT ![c.job] = IF @ = "DELETED" THEN @ ELSE s]
      BY <3>1 DEF W!markDone, W!markDead, W!scheduleRetry, W!SetStatus
    <3>3. c.job \in Item /\ status[c.job] # "ABSENT"
      BY <1>0
    <3> QED
      BY <3>2, <3>3 DEF W!Status
  <2> QED
    BY <1>2, <2>1, <2>2
<1>3. CASE \A w \in Worker : ~W!ClaimBatch(w)
  <2>1. /\ (\E w \in Worker : Closing(w)) \/ UNCHANGED <<status, attempts>>
        /\ \A w \in Worker : batch'[w] \cup current'[w] \subseteq batch[w] \cup current[w]
        /\ batch' \in [Worker -> SUBSET W!Claim] /\ current' \in [Worker -> SUBSET W!Claim]
    BY <1>3 DEF QueueMoves
  <2>2. HeldArePresent'
    BY <1>0, <1>2, <2>1 DEF HeldArePresent, W!HeldBy
  <2> QED
    BY <1>2, <2>1, <2>2
<1> QED
  BY <1>1, <1>3

LEMMA UidIsUid == \A i \in Item : Uid[i] \in W!Uids
  BY PipelineAssumption DEF W!Uids, W!Range

LEMMA WritersStay ==
    ASSUME QueueType, WritersAreRows, Insertion
    PROVE  writers' \in [W!Uids -> SUBSET Item] /\ WritersAreRows'
<1>1. CASE UNCHANGED <<raw, writers>>
  BY <1>1 DEF QueueType, WritersAreRows, W!Uids
<1>2. ASSUME NEW w \in Worker, NEW c \in current[w], ~W!Taken(Uid[c.job]), W!Inserted(c.job)
      PROVE  writers' \in [W!Uids -> SUBSET Item] /\ WritersAreRows'
  <2>1. c.job \in Item /\ Uid[c.job] \in W!Uids
    BY UidIsUid DEF QueueType, W!Claim
  <2>2. raw' = raw \cup {Uid[c.job]} /\ writers' = [writers EXCEPT ![Uid[c.job]] = @ \cup {c.job}]
    BY <1>2 DEF W!Inserted
  <2>3. \A u \in W!Uids : writers'[u] = IF u = Uid[c.job] THEN writers[u] \cup {c.job} ELSE writers[u]
    BY <2>1, <2>2 DEF QueueType
  <2>4. writers' \in [W!Uids -> SUBSET Item]
    BY <2>1, <2>2 DEF QueueType
  <2> QED
    BY <2>1, <2>2, <2>3, <2>4 DEF WritersAreRows, W!Uids
<1> QED
  BY <1>1, <1>2 DEF Insertion

LEMMA WorkersKeep ==
    ASSUME IntakeInv, WorkersStep
    PROVE  IntakeInv'
<1> USE DEF IntakeInv
<1>1. UNCHANGED serviceVars /\ faults' \in 0..MaxFaults
  BY WorkersFaults DEF WorkersStep, Drains, bufferVars, serviceVars
<1>2. (TypeOK /\ BufferInv)'
  BY <1>1, BufferStutter
<1>3. /\ status' \in [Item -> W!Status] /\ attempts' \in [Item -> Nat]
      /\ batch' \in [Worker -> SUBSET W!Claim] /\ current' \in [Worker -> SUBSET W!Claim]
      /\ \A i \in Item : status'[i] # "ABSENT" <=> status[i] # "ABSENT"
      /\ HeldArePresent'
  BY WorkersQueue, WorkersRows
<1>4. writers' \in [W!Uids -> SUBSET Item] /\ WritersAreRows'
  BY WorkersInsert, WritersStay
<1>5. RowsAreAccepted'
  BY <1>1, <1>3 DEF serviceVars, RowsAreAccepted
<1> QED
  BY <1>2, <1>3, <1>4, <1>5 DEF QueueType

LEMMA DeletesRawKeeps ==
    ASSUME IntakeInv, DeletesRaw
    PROVE  IntakeInv'
<1> USE DEF IntakeInv
<1>1. UNCHANGED serviceVars /\ faults' \in 0..MaxFaults
  BY WorkersFaults DEF DeletesRaw, Drains, bufferVars, serviceVars
<1>2. (TypeOK /\ BufferInv)'
  BY <1>1, BufferStutter
<1>3. UNCHANGED <<status, attempts, batch, current, raw, writers>>
  BY DEF DeletesRaw, Drains, W!DeleteRaw, W!tableVars, W!workerVars, W!rawVars
<1> QED
  BY <1>1, <1>2, <1>3
     DEF serviceVars, QueueType, RowsAreAccepted, HeldArePresent, W!HeldBy, WritersAreRows

LEMMA DeletesQueueKeeps ==
    ASSUME IntakeInv, DeletesQueueAndCommits
    PROVE  /\ IntakeInv'
           /\ \A u \in W!Uids : writers'[u] \subseteq writers[u]
<1> USE DEF IntakeInv, QueueType
<1>1. Next /\ UNCHANGED <<accepted, attempts, batch, current>>
  BY DEF DeletesQueueAndCommits, Next, Deletes, W!DeleteQueueAndCommit, W!workerVars
<1>2. (TypeOK /\ BufferInv)'
  BY <1>1, BufferStep
<1>3. /\ raw' = raw \ clearing.uids
      /\ writers' = [u \in W!Uids |-> IF u \in clearing.uids THEN {} ELSE writers[u]]
      /\ status' = [i \in Item |-> IF status[i] = "ABSENT" THEN "ABSENT" ELSE "DELETED"]
  BY DEF DeletesQueueAndCommits, W!DeleteQueueAndCommit
<1>4. QueueType' /\ RowsAreAccepted'
  BY <1>1, <1>3 DEF W!Status, RowsAreAccepted
<1>5. HeldArePresent'
  <2>1. \A w \in Worker : \A c \in W!HeldBy(w) : c.job \in Item
    BY DEF W!HeldBy, W!Claim
  <2> QED
    BY <1>1, <1>3, <2>1 DEF HeldArePresent, W!HeldBy
<1>6. WritersAreRows' /\ \A u \in W!Uids : writers'[u] \subseteq writers[u]
  BY <1>3 DEF WritersAreRows, W!Uids
<1> QED
  BY <1>2, <1>4, <1>5, <1>6

LEMMA IntakeInit == PipelineInit => IntakeInv
<1> SUFFICES ASSUME PipelineInit PROVE IntakeInv
  OBVIOUS
<1>1. TypeOK /\ BufferInv
  BY BufferInit DEF PipelineInit
<1>2. /\ status = [i \in Item |-> "ABSENT"] /\ attempts = [i \in Item |-> 0]
      /\ batch = [w \in Worker |-> {}] /\ current = [w \in Worker |-> {}]
      /\ writers = [u \in W!Uids |-> {}]
  BY DEF PipelineInit, W!Init, W!LeaseInit
<1> QED
  BY <1>1, <1>2
     DEF IntakeInv, QueueType, RowsAreAccepted, HeldArePresent, W!HeldBy, WritersAreRows, W!Status

LEMMA IntakeStutter == IntakeInv /\ UNCHANGED allVars => IntakeInv'
<1> SUFFICES ASSUME IntakeInv, UNCHANGED allVars PROVE IntakeInv'
  OBVIOUS
<1>1. UNCHANGED serviceVars /\ UNCHANGED faults
  BY DEF allVars, vars, serviceVars
<1>2. faults' \in 0..MaxFaults
  BY <1>1 DEF IntakeInv, TypeOK
<1>3. (TypeOK /\ BufferInv)'
  BY <1>1, <1>2, BufferStutter DEF IntakeInv
<1>4. UNCHANGED <<status, attempts, batch, current, raw, writers, accepted>>
  BY <1>1 DEF allVars, drainVars, serviceVars
<1> QED
  BY <1>3, <1>4
     DEF IntakeInv, QueueType, RowsAreAccepted, HeldArePresent, W!HeldBy, WritersAreRows

\* The steps of the pipeline, by whose they are.
LEMMA PipelineSteps ==
    PipelineNext => ApiMoves \/ DeletesRaw \/ DeletesQueueAndCommits \/ WorkersStep
<1> SUFFICES ASSUME PipelineNext
             PROVE  ApiMoves \/ DeletesRaw \/ DeletesQueueAndCommits \/ WorkersStep
  OBVIOUS
<1>1. CASE Api(Flushing) \/ Api(Failing) \/ Api(Calls) \/ ApiDies
  <2>1. Next /\ RowsArrive /\ UNCHANGED drainVars
    BY <1>1 DEF Api, ApiDies, Next
  <2> QED
    BY <2>1 DEF ApiMoves
<1> QED
  BY <1>1 DEF PipelineNext, WorkersStep

LEMMA IntakeStep == IntakeInv /\ [PipelineNext]_allVars => IntakeInv'
  BY PipelineSteps, IntakeStutter, ApiKeeps, DeletesRawKeeps, DeletesQueueKeeps, WorkersKeep

LEMMA IntakeInvariant == PipelineSpec => []IntakeInv
  BY IntakeInit, IntakeStep, PTL DEF PipelineSpec

----------------------------------------------------------------------------
(* The refinement.                                                         *)

Stored == UNION {writers[u] : u \in W!Uids}

LEMMA ApiAccepts ==
    ASSUME IntakeInv, ApiMoves
    PROVE  [I!Next]_(I!intakeVars)
<1>1. UNCHANGED writers
  BY DEF ApiMoves, drainVars
<1>2. UNCHANGED accepted \/ \E i \in Item \ accepted : accepted' = accepted \cup {i}
  BY AcceptsOne DEF ApiMoves
<1> QED
  BY <1>1, <1>2 DEF I!Next, I!Accept, I!intakeVars

LEMMA WorkersStore ==
    ASSUME IntakeInv, WorkersStep
    PROVE  [I!Next]_(I!intakeVars)
<1>1. UNCHANGED accepted
  BY DEF WorkersStep, Drains, bufferVars
<1>2. CASE UNCHANGED <<raw, writers>>
  BY <1>1, <1>2 DEF I!intakeVars
<1>3. ASSUME NEW w \in Worker, NEW c \in current[w], ~W!Taken(Uid[c.job]), W!Inserted(c.job)
      PROVE  I!Next
  <2>1. c.job \in Item /\ c.job \in accepted
    <3>1. c.job \in Item /\ status[c.job] # "ABSENT"
      BY DEF IntakeInv, QueueType, HeldArePresent, W!HeldBy, W!Claim
    <3> QED
      BY <3>1 DEF IntakeInv, RowsAreAccepted
  <2>2. Uid[c.job] \in W!Uids
    BY <2>1, UidIsUid
  <2>3. writers' = [writers EXCEPT ![Uid[c.job]] = @ \cup {c.job}]
    BY <1>3 DEF W!Inserted
  <2>4. writers[Uid[c.job]] = {} /\ \A u \in W!Uids : \A k \in writers[u] : Uid[k] = u
    BY <1>3, <2>2 DEF IntakeInv, WritersAreRows, W!Taken
  <2>5. \A k \in Stored : Uid[k] # Uid[c.job]
    BY <2>4 DEF Stored
  <2>6. \A u \in W!Uids : writers'[u] = IF u = Uid[c.job] THEN writers[u] \cup {c.job} ELSE writers[u]
    BY <2>2, <2>3 DEF IntakeInv, QueueType
  <2>7. UNION {writers'[u] : u \in W!Uids} = Stored \cup {c.job}
    <3>1. ASSUME NEW k
          PROVE  (\E u \in W!Uids : k \in writers'[u])
                   <=> (\E u \in W!Uids : k \in writers[u]) \/ k = c.job
      BY <2>2, <2>6
    <3> QED
      BY <3>1 DEF Stored
  <2>8. I!Store(c.job)
    BY <1>1, <2>1, <2>5, <2>7 DEF I!Store, Stored
  <2> QED
    BY <2>1, <2>8 DEF I!Next
<1> QED
  BY <1>2, <1>3, WorkersInsert DEF Insertion

LEMMA ClearingClears ==
    ASSUME IntakeInv, DeletesRaw \/ DeletesQueueAndCommits
    PROVE  [I!Next]_(I!intakeVars)
<1>1. CASE DeletesRaw
  BY <1>1 DEF DeletesRaw, Drains, bufferVars, W!DeleteRaw, W!rawVars, I!intakeVars
<1>2. CASE DeletesQueueAndCommits
  <2>1. UNCHANGED accepted
    BY <1>2 DEF DeletesQueueAndCommits, Deletes
  <2>2. \A u \in W!Uids : writers'[u] \subseteq writers[u]
    BY <1>2, DeletesQueueKeeps
  <2>3. UNION {writers'[u] : u \in W!Uids} \subseteq Stored
    BY <2>2 DEF Stored
  <2> QED
    BY <2>1, <2>3 DEF I!Next, I!Clear, Stored
<1> QED
  BY <1>1, <1>2

\* However many flushes, workers, retries, takeovers, crashes and clears there
\* are between the 202 and the table: a row is of an item answered with 202,
\* and of a uid that has no other.
THEOREM IntakeImplemented == PipelineSpec => ImplementsIntake
<1>1. PipelineInit => I!Init
  <2> SUFFICES ASSUME PipelineInit PROVE I!Init
    OBVIOUS
  <2>1. accepted = {} /\ writers = [u \in W!Uids |-> {}]
    BY DEF PipelineInit, Init, W!Init
  <2> QED
    BY <2>1 DEF I!Init
<1>2. IntakeInv /\ [PipelineNext]_allVars => [I!Next]_(I!intakeVars)
  <2>1. UNCHANGED allVars => UNCHANGED I!intakeVars
    BY DEF allVars, vars, drainVars, I!intakeVars
  <2> QED
    BY <2>1, PipelineSteps, ApiAccepts, WorkersStore, ClearingClears
<1> QED
  BY <1>1, <1>2, IntakeInvariant, PTL DEF PipelineSpec, ImplementsIntake, I!Spec
=============================================================================
