---------------------------- MODULE EndToEndProofs ----------------------------
(***************************************************************************)
(* API and workers together implement the delivery: no step of either      *)
(* recommends on, or tells Bancs of, a transfer that is not committed.     *)
(***************************************************************************)
EXTENDS EndToEnd, TransfersProofs

----------------------------------------------------------------------------
(* The inductive invariant: that of the API, and the way back from what a  *)
(* worker holds over the row of its event to the transfer.                 *)

ApiInv == TypeInv /\ RangeInv /\ KeyInv /\ WorkInv /\ PosterInv /\ EventInv

WorkerType ==
    /\ status \in [Job -> W!Status]
    /\ attempts \in [Job -> Nat]
    /\ batch \in [Worker -> SUBSET W!Claim]
    /\ current \in [Worker -> SUBSET W!Claim]
    /\ recommendations \subseteq Job
    /\ sent \in [Job -> Nat]

Committed(k) == transfers[k] # NoTransfer

\* A row of the outbox is there from the COMMIT of its transfer on ...
RowsAreOwed ==
    \A k \in Key, y \in EventType : status[JobOf[<<k, y>>]] # "ABSENT" => Committed(k)

\* ... and a worker holds nothing but rows.
HeldArePresent == \A w \in Worker : \A c \in W!HeldBy(w) : status[c.job] # "ABSENT"

DeliveryInv == ApiInv /\ WorkerType /\ RowsAreOwed /\ HeldArePresent

----------------------------------------------------------------------------
(* Steps of the API.                                                       *)

LEMMA ApiStep ==
    ASSUME ApiInv, NEW r \in Request, Progress(r) \/ Fault(r)
    PROVE  ApiInv'
  BY ProgressType, FaultType, StageFactsStep, RangeStep, KeyStep, WorkStep, PosterStep, EventStep
     DEF ApiInv, TypeInv

LEMMA ApiUnmoved == ApiInv /\ UNCHANGED requestVars /\ faults' \in 0..MaxFaults => ApiInv'
  BY TypeInvStutter, RangeStutter, KeyStutter, WorkStutter, PosterStutter, EventStutter DEF ApiInv

\* An event's row belongs to the key whose transfer the event names.
EventsOwed ==
    \A e \in outbox : e.type \in EventType /\ \E k \in Key : Committed(k) /\ RowOf(e) = JobOf[<<k, e.type>>]

LEMMA RowOfPosting == ApiInv => EventsOwed
<1> SUFFICES ASSUME ApiInv, NEW e \in outbox
             PROVE  e.type \in EventType /\ \E k \in Key : Committed(k) /\ RowOf(e) = JobOf[<<k, e.type>>]
  BY DEF EventsOwed
<1>1. PICK k \in Key : transfers[k] # NoTransfer /\ transfers[k].id = e.transfer
  BY DEF ApiInv, EventInv
<1>2. Body[Poster(k)].key = k
  BY <1>1 DEF ApiInv, PosterInv, PosterDone
<1>3. Body[e.transfer[1]].key = k
  BY <1>1, <1>2 DEF Poster
<1>4. e.type \in EventType
  BY DEF ApiInv, TypeInv, TypeOK, EventRow
<1> QED
  BY <1>1, <1>3, <1>4 DEF RowOf, Committed

\* A commit makes rows of committed transfers visible, and only those.
LEMMA RowsOwedByApi ==
    ASSUME DeliveryInv, NEW r \in Request, Api(Progress(r)) \/ Api(Fault(r))
    PROVE  RowsAreOwed'
<1>0. ApiInv /\ (Progress(r) \/ Fault(r))
  BY DEF DeliveryInv, Api
<1>1. EventsOwed'
  <2>1. ApiInv'
    BY <1>0, ApiStep
  <2> QED
    BY <2>1, RowOfPosting, PTL
<1>2. \A k \in Key : Committed(k) => Committed(k)'
  BY <1>0, PostedStays DEF ApiInv, Committed
<1> SUFFICES ASSUME NEW k \in Key, NEW y \in EventType, status'[JobOf[<<k, y>>]] # "ABSENT"
             PROVE  Committed(k)'
  BY DEF RowsAreOwed
<1>3. JobOf[<<k, y>>] \in Job
  BY DEF Job
<1>4. CASE status[JobOf[<<k, y>>]] # "ABSENT"
  BY <1>2, <1>4 DEF DeliveryInv, RowsAreOwed
<1>5. CASE \E e \in outbox' \ outbox : JobOf[<<k, y>>] = RowOf(e)
  <2>1. PICK e \in outbox' : JobOf[<<k, y>>] = RowOf(e)
    BY <1>5
  <2>2. PICK l \in Key : Committed(l)' /\ RowOf(e) = JobOf[<<l, e.type>>]
    BY <1>1, <2>1 DEF EventsOwed, RowOf
  <2>3. e.type \in EventType
    BY <1>1, <2>1 DEF EventsOwed
  <2> QED
    BY <2>1, <2>2, <2>3, JobAssumption
<1> QED
  BY <1>3, <1>4, <1>5 DEF Api

LEMMA ApiKeeps ==
    ASSUME DeliveryInv, NEW r \in Request, Api(Progress(r)) \/ Api(Fault(r))
    PROVE  DeliveryInv'
<1>1. ApiInv' /\ RowsAreOwed'
  BY ApiStep, RowsOwedByApi DEF DeliveryInv, Api
<1>2. UNCHANGED <<attempts, batch, current, recommendations, sent>>
  BY DEF Api, restVars
<1>3. status' \in [Job -> W!Status] /\ \A j \in Job : status[j] # "ABSENT" => status'[j] # "ABSENT"
  BY DEF DeliveryInv, WorkerType, Api, W!Status
<1>4. \A w \in Worker : \A c \in W!HeldBy(w) : c.job \in Job
  BY DEF DeliveryInv, WorkerType, W!HeldBy, W!Claim
<1>5. WorkerType'
  BY <1>2, <1>3 DEF DeliveryInv, WorkerType, W!Claim
<1>6. HeldArePresent'
  BY <1>2, <1>3, <1>4 DEF DeliveryInv, HeldArePresent, W!HeldBy
<1> QED
  BY <1>1, <1>5, <1>6 DEF DeliveryInv

----------------------------------------------------------------------------
(* Steps of the workers.                                                   *)

WorkersStep ==
    \/ \E w \in Worker : Work(W!Progress(w)) \/ Work(W!Fault(w))
    \/ \E j \in Job : Work(W!Passes(j)) \/ Work(W!Expires(j))

\* What one step does to the table and to what the workers hold of it.
Closing(w) == \E c \in current[w] : W!markDone(c.job) \/ W!markDead(c.job) \/ W!scheduleRetry(c.job)

\* Only the claiming statement hands out rows, and only rows that are there.
TableMoves ==
    \/ \E w \in Worker : W!ClaimBatch(w)
    \/ /\ (\E w \in Worker : Closing(w)) \/ UNCHANGED <<status, attempts>>
       /\ \A w \in Worker : batch'[w] \subseteq batch[w] /\ current'[w] \subseteq batch[w] \cup current[w]
       /\ batch' \in [Worker -> SUBSET W!Claim] /\ current' \in [Worker -> SUBSET W!Claim]

\* The effects of one step: none, a recommendation or a call to Bancs.
Effect ==
    \/ UNCHANGED <<recommendations, sent>>
    \/ /\ UNCHANGED sent
       /\ \E w \in Worker : \E c \in current[w] : recommendations' = recommendations \cup {c.job}
    \/ /\ UNCHANGED recommendations
       /\ \E w \in Worker : \E c \in batch[w] : sent' = [sent EXCEPT ![c.job] = @ + 1]

LEMMA WorkersEffect ==
    ASSUME WorkersStep
    PROVE  Effect
<1>1. ASSUME NEW w \in Worker, W!Progress(w) \/ W!Fault(w)
      PROVE  Effect
  <2>1. CASE W!SimulatesBancs(w)
    BY <2>1 DEF W!SimulatesBancs, Effect
  <2>2. CASE W!InsertsRecommendation(w) \/ W!InsertUnacknowledged(w)
    BY <2>2 DEF W!InsertsRecommendation, W!InsertUnacknowledged, W!At, Effect
  <2>3. CASE UNCHANGED <<recommendations, sent>>
    BY <2>3 DEF Effect
  <2> QED
    BY <1>1, <2>1, <2>2, <2>3
       DEF W!Progress, W!Fault, W!Claims, W!CallsAi, W!RefusesUnknown, W!AiAnswers, W!MarksDone,
           W!Settles, W!Ends, W!AiFails, W!StatementFails, W!MarkUnacknowledged, W!SettleFails,
           W!SettleUnacknowledged, W!Crashes, W!effectVars
<1>2. ASSUME NEW j \in Job, W!Passes(j) \/ W!Expires(j)
      PROVE  Effect
  BY <1>2 DEF W!Passes, W!Expires, W!effectVars, Effect
<1> QED
  BY <1>1, <1>2 DEF WorkersStep, Work

LEMMA WorkersFaults ==
    ASSUME TypeInv, WorkersStep
    PROVE  faults' \in 0..MaxFaults
<1>1. UNCHANGED faults \/ W!UseFault
  <2>1. ASSUME NEW w \in Worker, W!Progress(w)
        PROVE  UNCHANGED faults
    BY <2>1
       DEF W!Progress, W!Claims, W!CallsAi, W!SimulatesBancs, W!RefusesUnknown, W!AiAnswers,
           W!InsertsRecommendation, W!MarksDone, W!Settles, W!Ends
  <2>2. ASSUME NEW w \in Worker, W!Fault(w)
        PROVE  W!UseFault
    BY <2>2
       DEF W!Fault, W!AiFails, W!StatementFails, W!InsertUnacknowledged, W!MarkUnacknowledged,
           W!SettleFails, W!SettleUnacknowledged, W!Crashes, W!WorkerCrashes
  <2>3. ASSUME NEW j \in Job, W!Passes(j) \/ W!Expires(j)
        PROVE  UNCHANGED faults \/ W!UseFault
    BY <2>3 DEF W!Passes, W!Expires, W!Clock, W!ComesDue, W!OrphanExpires, W!LeaseExpires
  <2> QED
    BY <2>1, <2>2, <2>3 DEF WorkersStep, Work
<1> QED
  BY <1>1, ConstantsAssumption DEF TypeInv, TypeOK, W!UseFault

LEMMA WorkersTable ==
    ASSUME WorkerType, WorkersStep
    PROVE  TableMoves
<1> USE DEF WorkerType
<1>0. ASSUME NEW w \in Worker, W!EndJob(w) \/ W!AbandonTick(w) \/ W!EndTick(w) \/ UNCHANGED <<batch, current>>
      PROVE  /\ \A v \in Worker : batch'[v] \subseteq batch[v] /\ current'[v] \subseteq current[v]
             /\ batch' \in [Worker -> SUBSET W!Claim] /\ current' \in [Worker -> SUBSET W!Claim]
  BY <1>0 DEF W!EndJob, W!AbandonTick, W!EndTick
<1>1. ASSUME NEW w \in Worker, W!Progress(w) \/ W!Fault(w)
      PROVE  TableMoves
  <2>1. CASE W!Claims(w)
    BY <2>1 DEF W!Claims, TableMoves
  <2>2. CASE W!CallsAi(w) \/ W!SimulatesBancs(w) \/ W!RefusesUnknown(w)
    <3>1. PICK c, s : W!BeginJob(w, c, s)
      BY <2>2 DEF W!CallsAi, W!SimulatesBancs, W!RefusesUnknown
    <3>2. /\ UNCHANGED <<status, attempts>>
          /\ c \in batch[w]
          /\ batch' = [batch EXCEPT ![w] = @ \ {c}] /\ current' = [current EXCEPT ![w] = {c}]
      BY <3>1 DEF W!BeginJob, W!tableVars
    <3> QED
      BY <3>2 DEF TableMoves
  <2>3. CASE W!Ends(w) \/ W!AiAnswers(w) \/ W!InsertsRecommendation(w) \/ W!AiFails(w)
             \/ W!StatementFails(w) \/ W!InsertUnacknowledged(w) \/ W!SettleFails(w) \/ W!Crashes(w)
    <3>1. UNCHANGED <<status, attempts>>
      BY <2>3
         DEF W!Ends, W!EndTick, W!AiAnswers, W!InsertsRecommendation, W!AiFails, W!StatementFails,
             W!InsertUnacknowledged, W!SettleFails, W!Crashes, W!WorkerCrashes, W!tableVars
    <3>2. W!EndTick(w) \/ W!AbandonTick(w) \/ UNCHANGED <<batch, current>>
      BY <2>3
         DEF W!Ends, W!AiAnswers, W!InsertsRecommendation, W!AiFails, W!StatementFails,
             W!InsertUnacknowledged, W!SettleFails, W!Crashes, W!WorkerCrashes
    <3> QED
      BY <1>0, <3>1, <3>2 DEF TableMoves
  <2>4. CASE W!MarksDone(w) \/ W!Settles(w) \/ W!MarkUnacknowledged(w) \/ W!SettleUnacknowledged(w)
    <3>1. Closing(w)
      BY <2>4
         DEF W!MarksDone, W!Settles, W!MarkUnacknowledged, W!SettleUnacknowledged, W!SettleFailure,
             W!At, Closing
    <3>2. W!EndJob(w) \/ W!AbandonTick(w) \/ UNCHANGED <<batch, current>>
      BY <2>4 DEF W!MarksDone, W!Settles, W!MarkUnacknowledged, W!SettleUnacknowledged
    <3> QED
      BY <1>0, <3>1, <3>2 DEF TableMoves
  <2> QED
    BY <1>1, <2>1, <2>2, <2>3, <2>4 DEF W!Progress, W!Fault
<1>2. ASSUME NEW j \in Job, W!Passes(j) \/ W!Expires(j)
      PROVE  TableMoves
  <2>1. UNCHANGED <<status, attempts, batch, current>>
    BY <1>2 DEF W!Passes, W!Expires, W!Clock, W!ComesDue, W!OrphanExpires, W!LeaseExpires, W!workerVars
  <2> QED
    BY <2>1 DEF TableMoves
<1> QED
  BY <1>1, <1>2 DEF WorkersStep, Work

\* No step of a worker brings a row into the table.
LEMMA WorkersRows ==
    ASSUME WorkerType, HeldArePresent, TableMoves
    PROVE  /\ status' \in [Job -> W!Status] /\ attempts' \in [Job -> Nat]
           /\ batch' \in [Worker -> SUBSET W!Claim] /\ current' \in [Worker -> SUBSET W!Claim]
           /\ \A j \in Job : status'[j] # "ABSENT" <=> status[j] # "ABSENT"
           /\ HeldArePresent'
<1> USE DEF WorkerType
<1>0. \A v \in Worker : \A c \in batch[v] \cup current[v] : c.job \in Job /\ status[c.job] # "ABSENT"
  BY DEF HeldArePresent, W!HeldBy, W!Claim
<1>1. ASSUME NEW w \in Worker, W!ClaimBatch(w)
      PROVE  /\ status' \in [Job -> W!Status] /\ attempts' \in [Job -> Nat]
             /\ batch' \in [Worker -> SUBSET W!Claim] /\ current' \in [Worker -> SUBSET W!Claim]
             /\ \A j \in Job : status'[j] # "ABSENT" <=> status[j] # "ABSENT"
             /\ HeldArePresent'
  <2>1. \A j \in W!Picked : j \in Job /\ status[j] # "ABSENT"
    BY DEF W!Picked, W!Claimable
  <2>2. status' = [j \in Job |-> IF j \in W!Picked THEN "CLAIMED" ELSE status[j]]
    BY <1>1 DEF W!ClaimBatch
  <2>3. attempts' = [j \in Job |-> IF j \in W!Picked THEN attempts[j] + 1 ELSE attempts[j]]
    BY <1>1 DEF W!ClaimBatch, W!Counted
  <2> DEFINE got == {[job |-> j, attempts |-> attempts[j] + 1] : j \in W!Picked}
  <2>4. batch' = [batch EXCEPT ![w] = got] /\ current' = current
    BY <1>1 DEF W!ClaimBatch, W!Counted
  <2>5. got \subseteq W!Claim /\ \A c \in got : c.job \in W!Picked
    BY <2>1 DEF W!Claim
  <2> HIDE DEF got
  <2>6. status' \in [Job -> W!Status] /\ \A j \in Job : status'[j] # "ABSENT" <=> status[j] # "ABSENT"
    BY <2>1, <2>2 DEF W!Status
  <2>7. attempts' \in [Job -> Nat] /\ batch' \in [Worker -> SUBSET W!Claim]
    BY <2>3, <2>4, <2>5
  <2>8. \A v \in Worker : \A c \in batch'[v] \cup current'[v] : c.job \in Job /\ status[c.job] # "ABSENT"
    BY <1>0, <2>1, <2>4, <2>5
  <2> QED
    BY <2>4, <2>6, <2>7, <2>8 DEF HeldArePresent, W!HeldBy
<1>2. ASSUME (\E w \in Worker : Closing(w)) \/ UNCHANGED <<status, attempts>>
      PROVE  /\ status' \in [Job -> W!Status] /\ attempts' = attempts
             /\ \A j \in Job : status'[j] # "ABSENT" <=> status[j] # "ABSENT"
  <2>1. CASE UNCHANGED <<status, attempts>>
    BY <2>1
  <2>2. ASSUME NEW w \in Worker, Closing(w)
        PROVE  /\ status' \in [Job -> W!Status] /\ attempts' = attempts
               /\ \A j \in Job : status'[j] # "ABSENT" <=> status[j] # "ABSENT"
    <3>1. PICK c \in current[w] : W!markDone(c.job) \/ W!markDead(c.job) \/ W!scheduleRetry(c.job)
      BY <2>2 DEF Closing
    <3>2. /\ attempts' = attempts
          /\ \E s \in {"DONE", "DEAD", "PENDING"} :
               status' = [status EXCEPT ![c.job] = IF @ = "DELETED" THEN @ ELSE s]
      BY <3>1 DEF W!markDone, W!markDead, W!scheduleRetry, W!SetStatus
    <3>3. c.job \in Job /\ status[c.job] # "ABSENT"
      BY <1>0
    <3> QED
      BY <3>2, <3>3 DEF W!Status
  <2> QED
    BY <1>2, <2>1, <2>2
<1>3. CASE \A w \in Worker : ~W!ClaimBatch(w)
  <2>1. /\ (\E w \in Worker : Closing(w)) \/ UNCHANGED <<status, attempts>>
        /\ \A w \in Worker : batch'[w] \cup current'[w] \subseteq batch[w] \cup current[w]
        /\ batch' \in [Worker -> SUBSET W!Claim] /\ current' \in [Worker -> SUBSET W!Claim]
    BY <1>3 DEF TableMoves
  <2>2. HeldArePresent'
    BY <1>0, <1>2, <2>1 DEF HeldArePresent, W!HeldBy
  <2> QED
    BY <1>2, <2>1, <2>2
<1> QED
  BY <1>1, <1>3

LEMMA WorkersKeep ==
    ASSUME DeliveryInv, WorkersStep
    PROVE  DeliveryInv'
<1> USE DEF DeliveryInv
<1>1. UNCHANGED requestVars
  BY DEF WorkersStep, Work, apiVars, requestVars
<1>2. faults' \in 0..MaxFaults
  BY WorkersFaults DEF ApiInv
<1>3. ApiInv'
  BY <1>1, <1>2, ApiUnmoved
<1>4. /\ status' \in [Job -> W!Status] /\ attempts' \in [Job -> Nat]
      /\ batch' \in [Worker -> SUBSET W!Claim] /\ current' \in [Worker -> SUBSET W!Claim]
      /\ \A j \in Job : status'[j] # "ABSENT" <=> status[j] # "ABSENT"
      /\ HeldArePresent'
  BY WorkersTable, WorkersRows
<1>5. recommendations' \subseteq Job /\ sent' \in [Job -> Nat]
  <2>1. \A w \in Worker : \A c \in batch[w] \cup current[w] : c.job \in Job
    BY DEF WorkerType, W!Claim
  <2> QED
    BY <2>1, WorkersEffect DEF WorkerType, Effect
<1>6. RowsAreOwed'
  <2>1. \A k \in Key : Committed(k)' = Committed(k)
    BY <1>1 DEF requestVars, dbVars, Committed
  <2>2. \A k \in Key, y \in EventType : JobOf[<<k, y>>] \in Job
    BY DEF Job
  <2> QED
    BY <1>4, <2>1, <2>2 DEF RowsAreOwed
<1> QED
  BY <1>3, <1>4, <1>5, <1>6 DEF WorkerType

LEMMA DeliveryInvariant == EndToEndSpec => []DeliveryInv
<1>1. EndToEndInit => DeliveryInv
  <2> SUFFICES ASSUME EndToEndInit PROVE DeliveryInv
    OBVIOUS
  <2>1. ApiInv
    BY TypeInitially, RangeInitially, KeyInitially, WorkInitially, PosterInitially, EventInitially
       DEF EndToEndInit, ApiInv
  <2>2. WorkerType
    BY DEF EndToEndInit, W!LeaseInit, WorkerType, W!Status
  <2>3. RowsAreOwed
    BY DEF EndToEndInit, RowsAreOwed, Job
  <2>4. HeldArePresent
    BY DEF EndToEndInit, W!LeaseInit, HeldArePresent, W!HeldBy
  <2> QED
    BY <2>1, <2>2, <2>3, <2>4 DEF DeliveryInv
<1>2. DeliveryInv /\ [EndToEndNext]_allVars => DeliveryInv'
  <2>1. DeliveryInv /\ UNCHANGED allVars => DeliveryInv'
    <3> SUFFICES ASSUME DeliveryInv, UNCHANGED allVars PROVE DeliveryInv'
      OBVIOUS
    <3>1. UNCHANGED <<vars, status, attempts, batch, current, recommendations, sent>>
      BY DEF allVars, restVars
    <3>2. ApiInv'
      BY <3>1, ApiUnmoved, VarsUnmoved DEF DeliveryInv, ApiInv
    <3>3. WorkerType' /\ HeldArePresent'
      BY <3>1 DEF DeliveryInv, WorkerType, HeldArePresent, W!HeldBy
    <3>4. RowsAreOwed'
      BY <3>1 DEF DeliveryInv, RowsAreOwed, Committed, vars, dbVars
    <3> QED
      BY <3>2, <3>3, <3>4 DEF DeliveryInv
  <2> QED
    BY <2>1, ApiKeeps, WorkersKeep DEF EndToEndNext, WorkersStep
<1> QED
  BY <1>1, <1>2, PTL DEF EndToEndSpec

----------------------------------------------------------------------------
(* The refinement: a commit posts, a step of a worker recommends or tells  *)
(* one posted key or none.                                                 *)

LEMMA ApiPosts ==
    ASSUME DeliveryInv, NEW r \in Request, Api(Progress(r)) \/ Api(Fault(r))
    PROVE  [D!Next]_(D!deliveryVars)
<1>0. (Progress(r) \/ Fault(r)) /\ UNCHANGED <<recommendations, sent>>
  BY DEF Api, restVars
<1>1. CASE UNCHANGED transfers
  BY <1>0, <1>1 DEF D!deliveryVars
<1>2. CASE Commits(r) /\ inserted[r] # NoTransfer
  <2>1. /\ Body[r].key \in Key /\ MyRow(r) \in Row
        /\ transfers[Body[r].key] = NoTransfer
        /\ transfers' = [transfers EXCEPT ![Body[r].key] = MyRow(r)]
    BY <1>2, PostingCommit, BodyType DEF DeliveryInv, ApiInv, Existing
  <2>2. MyRow(r) # NoTransfer
    BY <2>1, ConstantsAssumption
  <2>3. {k \in Key : transfers'[k] # NoTransfer}
          = {k \in Key : transfers[k] # NoTransfer} \cup {Body[r].key}
    BY <2>1, <2>2 DEF DeliveryInv, ApiInv, TypeInv, TypeOK
  <2>4. D!Post(Body[r].key)
    BY <1>0, <2>1, <2>3 DEF D!Post
  <2> QED
    BY <2>1, <2>4 DEF D!Next
<1> QED
  BY <1>0, <1>1, <1>2, NothingPosted DEF DeliveryInv, ApiInv, dbVars

LEMMA WorkersDeliver ==
    ASSUME DeliveryInv, WorkersStep
    PROVE  [D!Next]_(D!deliveryVars)
<1>0. UNCHANGED transfers
  BY DEF WorkersStep, Work, apiVars, dbVars
<1>1. \A w \in Worker : \A c \in batch[w] \cup current[w] :
         \E k \in Key, y \in EventType : c.job = JobOf[<<k, y>>] /\ transfers[k] # NoTransfer
  <2> SUFFICES ASSUME NEW w \in Worker, NEW c \in batch[w] \cup current[w]
               PROVE  \E k \in Key, y \in EventType : c.job = JobOf[<<k, y>>] /\ transfers[k] # NoTransfer
    OBVIOUS
  <2>1. c.job \in Job /\ status[c.job] # "ABSENT"
    BY DEF DeliveryInv, WorkerType, HeldArePresent, W!HeldBy, W!Claim
  <2>2. PICK k \in Key, y \in EventType : c.job = JobOf[<<k, y>>]
    BY <2>1 DEF Job
  <2> QED
    BY <2>1, <2>2 DEF DeliveryInv, RowsAreOwed, Committed
<1>2. CASE UNCHANGED <<recommendations, sent>>
  BY <1>0, <1>2 DEF D!deliveryVars
<1>3. ASSUME NEW w \in Worker, NEW c \in current[w],
             recommendations' = recommendations \cup {c.job}, UNCHANGED sent
      PROVE  [D!Next]_(D!deliveryVars)
  <2>1. PICK k \in Key, y \in EventType : c.job = JobOf[<<k, y>>] /\ transfers[k] # NoTransfer
    BY <1>1
  <2> DEFINE done == {l \in Key : JobOf[<<l, "AI_RECOMMEND">>] \in recommendations}
  <2>2. {l \in Key : JobOf[<<l, "AI_RECOMMEND">>] \in recommendations'}
          = IF y = "AI_RECOMMEND" THEN done \cup {k} ELSE done
    BY <1>3, <2>1, JobAssumption DEF EventType
  <2>3. CASE y = "AI_RECOMMEND" /\ k \notin done
    BY <1>0, <1>3, <2>1, <2>2, <2>3 DEF D!Next, D!Recommend
  <2>4. CASE ~(y = "AI_RECOMMEND" /\ k \notin done)
    BY <1>0, <1>3, <2>2, <2>4 DEF D!deliveryVars
  <2> QED
    BY <2>3, <2>4
<1>4. ASSUME NEW w \in Worker, NEW c \in batch[w],
             sent' = [sent EXCEPT ![c.job] = @ + 1], UNCHANGED recommendations
      PROVE  [D!Next]_(D!deliveryVars)
  <2>1. PICK k \in Key, y \in EventType : c.job = JobOf[<<k, y>>] /\ transfers[k] # NoTransfer
    BY <1>1
  <2> DEFINE done == {l \in Key : sent[JobOf[<<l, "BANCS_SIMULATED">>]] > 0}
  <2>2. {l \in Key : sent'[JobOf[<<l, "BANCS_SIMULATED">>]] > 0}
          = IF y = "BANCS_SIMULATED" THEN done \cup {k} ELSE done
    <3>1. \A j \in Job : sent[j] \in Nat /\ sent'[j] = IF j = c.job THEN sent[j] + 1 ELSE sent[j]
      BY <1>4 DEF DeliveryInv, WorkerType
    <3>2. \A l \in Key : JobOf[<<l, "BANCS_SIMULATED">>] \in Job
      BY DEF Job, EventType
    <3>3. \A l \in Key : JobOf[<<l, "BANCS_SIMULATED">>] = c.job <=> l = k /\ y = "BANCS_SIMULATED"
      BY <2>1, JobAssumption DEF EventType
    <3> QED
      BY <3>1, <3>2, <3>3
  <2>3. CASE y = "BANCS_SIMULATED" /\ k \notin done
    BY <1>0, <1>4, <2>1, <2>2, <2>3 DEF D!Next, D!Tell
  <2>4. CASE ~(y = "BANCS_SIMULATED" /\ k \notin done)
    BY <1>0, <1>4, <2>2, <2>4 DEF D!deliveryVars
  <2> QED
    BY <2>3, <2>4
<1> QED
  BY <1>2, <1>3, <1>4, WorkersEffect DEF Effect

\* Whoever fails, retries, takes over or crashes between the request and the
\* call, for any keys, workers and batches: a transfer is recommended on and
\* told of only once it is committed, and what was done is not undone.
THEOREM DeliveryImplemented == EndToEndSpec => ImplementsDelivery
<1>1. EndToEndInit => D!Init
  <2> SUFFICES ASSUME EndToEndInit PROVE D!Init
    OBVIOUS
  <2>1. \A k \in Key, y \in EventType : JobOf[<<k, y>>] \in Job
    BY DEF Job
  <2>2. {k \in Key : transfers[k] # NoTransfer} = {}
    BY DEF EndToEndInit, Init
  <2>3. {k \in Key : JobOf[<<k, "AI_RECOMMEND">>] \in recommendations} = {}
    BY DEF EndToEndInit
  <2>4. \A k \in Key : sent[JobOf[<<k, "BANCS_SIMULATED">>]] = 0
    BY <2>1 DEF EndToEndInit, EventType
  <2>5. {k \in Key : sent[JobOf[<<k, "BANCS_SIMULATED">>]] > 0} = {}
    BY <2>4
  <2> QED
    BY <2>2, <2>3, <2>5 DEF D!Init
<1>2. DeliveryInv /\ [EndToEndNext]_allVars => [D!Next]_(D!deliveryVars)
  <2>1. UNCHANGED allVars => UNCHANGED D!deliveryVars
    BY DEF allVars, vars, dbVars, restVars, D!deliveryVars
  <2> QED
    BY <2>1, ApiPosts, WorkersDeliver DEF EndToEndNext, WorkersStep
<1> QED
  BY <1>1, <1>2, DeliveryInvariant, PTL DEF EndToEndSpec, ImplementsDelivery, D!Spec
=============================================================================
