---------------------------- MODULE OutboxProofs ----------------------------
(***************************************************************************)
(* OutboxProcessor keeps to the lease protocol, and closes no event as     *)
(* DONE before its effect exists.                                          *)
(***************************************************************************)
EXTENDS OutboxWorker, LeaseProofs

\* Each await of process() is one step of the protocol.
LEMMA OutboxKeepsLeases ==
    ASSUME Next
    PROVE  LeaseStep
<1> USE DEF Inside
<1>1. ASSUME NEW w \in Worker, Progress(w)
      PROVE  WorkerStep(w)
  <2>1. CASE Claims(w) \/ Ends(w)
    BY <2>1 DEF Claims, Ends, WorkerStep
  <2>2. CASE CallsAi(w) \/ SimulatesBancs(w) \/ RefusesUnknown(w)
    BY <2>2 DEF CallsAi, SimulatesBancs, RefusesUnknown, TakesJob, WorkerStep
  <2>3. CASE AiAnswers(w) \/ InsertsRecommendation(w)
    BY <2>3 DEF AiAnswers, InsertsRecommendation, At, Works, WorkerStep
  <2>4. CASE MarksDone(w)
    BY <2>4 DEF MarksDone, Updates, WorkerStep
  <2>5. CASE Settles(w)
    BY <2>5 DEF Settles, SettleFailure, Updates, WorkerStep
  <2> QED
    BY <1>1, <2>1, <2>2, <2>3, <2>4, <2>5 DEF Progress
<1>2. ASSUME NEW w \in Worker, Fault(w)
      PROVE  WorkerStep(w)
  <2>1. CASE AiFails(w) \/ StatementFails(w) \/ InsertUnacknowledged(w)
    BY <2>1 DEF AiFails, StatementFails, InsertUnacknowledged, At, Works, WorkerStep
  <2>2. CASE MarkUnacknowledged(w)
    BY <2>2 DEF MarkUnacknowledged, At, Updates, UpdateLost, WorkerStep
  <2>3. CASE SettleFails(w) \/ Crashes(w)
    BY <2>3 DEF SettleFails, Crashes, WorkerCrashes, WorkerStep
  <2>4. CASE SettleUnacknowledged(w)
    BY <2>4 DEF SettleUnacknowledged, SettleFailure, Updates, WorkerStep
  <2> QED
    BY <1>2, <2>1, <2>2, <2>3, <2>4 DEF Fault
<1>3. ASSUME NEW j \in Job, Passes(j) \/ Expires(j)
      PROVE  TimeStep(j)
  BY <1>3 DEF Passes, Expires, Clock, TimeStep
<1> QED
  BY <1>1, <1>2, <1>3 DEF Next, LeaseStep

LEMMA TypeStep ==
    ASSUME TypeOK, Next
    PROVE  TypeOK'
<1> USE DEF TypeOK, LeaseTypeOK
<1>1. LeaseType
  BY DEF LeaseType, Stages, Inside
<1>2. LeaseTypeOK'
  BY <1>1, OutboxKeepsLeases, LeaseTypeStep DEF LeaseType
<1>3. ASSUME NEW w \in Worker, Progress(w) \/ Fault(w)
      PROVE  /\ stage' \in [Worker -> {"idle", "next", "call", "insert", "mark", "caught"}]
             /\ recommendations' \subseteq Job
             /\ advised' \in [Job -> Nat]
             /\ sent' \in [Job -> Nat]
  <2> USE DEF Goto, effectVars
  <2>1. \A c \in batch[w] \cup current[w] : c.job \in Job
    BY DEF Claim
  <2>2. CASE Claims(w) \/ Ends(w)
    BY <2>2 DEF Claims, Ends, ClaimBatch, EndTick
  <2>3. CASE CallsAi(w) \/ SimulatesBancs(w) \/ RefusesUnknown(w)
    BY <2>1, <2>3 DEF CallsAi, SimulatesBancs, RefusesUnknown, BeginJob
  <2>4. CASE AiAnswers(w) \/ InsertsRecommendation(w)
    BY <2>1, <2>4 DEF AiAnswers, InsertsRecommendation
  <2>5. CASE MarksDone(w) \/ Settles(w)
    BY <2>5 DEF MarksDone, Settles, EndJob
  <2>6. CASE AiFails(w) \/ StatementFails(w) \/ InsertUnacknowledged(w) \/ MarkUnacknowledged(w)
    BY <2>1, <2>6 DEF AiFails, StatementFails, InsertUnacknowledged, MarkUnacknowledged
  <2>7. CASE SettleFails(w) \/ SettleUnacknowledged(w) \/ Crashes(w)
    BY <2>7 DEF SettleFails, SettleUnacknowledged, Crashes, WorkerCrashes, AbandonTick
  <2> QED
    BY <1>3, <2>2, <2>3, <2>4, <2>5, <2>6, <2>7 DEF Progress, Fault
<1>4. ASSUME NEW j \in Job, Passes(j) \/ Expires(j)
      PROVE  UNCHANGED <<stage, effectVars>>
  BY <1>4 DEF Passes, Expires, Clock, ComesDue, OrphanExpires, LeaseExpires, workerVars
<1> QED
  BY <1>2, <1>3, <1>4 DEF Next, effectVars

\* The tables and the workers' variables keep their types, for any number of
\* events, workers, attempts and faults.
THEOREM OutboxTypeCorrect == Spec => []TypeOK
<1>1. Init => TypeOK
  BY LeaseInitially DEF Init, LeaseInit, LeaseType, TypeOK
<1>2. TypeOK /\ [Next]_vars => TypeOK'
  <2>1. TypeOK /\ UNCHANGED vars => TypeOK'
    BY DEF TypeOK, LeaseTypeOK, vars, tableVars, workerVars, effectVars
  <2> QED
    BY <2>1, TypeStep
<1> QED
  BY <1>1, <1>2, PTL DEF Spec

LEMMA OutboxLeaseType == TypeOK => LeaseType
  BY DEF TypeOK, LeaseType, Stages, Inside

LEMMA LeaseInvariant == Spec => []LeaseInv
<1>1. Init => LeaseInv
  BY LeaseInitially DEF Init, LeaseInit
<1>2. TypeOK /\ LeaseInv /\ [Next]_vars => LeaseInv'
  <2>1. LeaseInv /\ UNCHANGED vars => LeaseInv'
    BY DEF LeaseInv, OneAtATime, HeldAreRows, NumbersGrow, ClaimsAreNumbered, Alone, HeldBy,
           vars, tableVars, workerVars
  <2> QED
    BY <2>1, OutboxKeepsLeases, OutboxLeaseType, LeaseInvStep
<1> QED
  BY <1>1, <1>2, OutboxTypeCorrect, PTL DEF Spec

\* Two claims of one event are numbered apart and the row has the number of
\* the newest: what a fencing check could compare, had the updates one.
THEOREM ClaimsNumbered == Spec => []ClaimsAreNumbered
<1>1. LeaseInv => ClaimsAreNumbered
  BY DEF LeaseInv
<1> QED
  BY <1>1, LeaseInvariant, PTL

\* SKIP LOCKED and the status column alone keep two workers off one event,
\* until a lease runs out under its worker or something else fails.
THEOREM NeverSharedBeforeExpiry == Spec => []SharedOnlyAfterExpiry
  BY AloneIsNotShared, LeaseInvariant, PTL

\* Updates that ask for nothing but the id never reopen a closed event, until
\* something fails.
THEOREM ClosedForGood == Spec => ClosedIsFinal
<1>1. TypeOK /\ LeaseInv /\ [Next]_vars
      => [faults' = 0 => \A j \in Job :
            status[j] \in {"DONE", "DEAD"} => status'[j] \in {status[j], "DELETED"}]_<<tableVars, faults>>
  <2>1. TypeOK /\ LeaseInv /\ Next =>
          (faults' = 0 => \A j \in Job :
             status[j] \in {"DONE", "DEAD"} => status'[j] \in {status[j], "DELETED"})
    BY OutboxKeepsLeases, OutboxLeaseType, ClosedStays
  <2> QED
    BY <2>1 DEF vars
<1> QED
  BY <1>1, OutboxTypeCorrect, LeaseInvariant, PTL DEF Spec, ClosedIsFinal

----------------------------------------------------------------------------
(* Effects.                                                                *)

HasEffect(j) == IF EventType[j] = "AI_RECOMMEND" THEN j \in recommendations ELSE sent[j] > 0

\* Whoever is about to mark an event has seen its effect written, and only a
\* recommendation is asked for and inserted.
EffectInv ==
    /\ \A j \in Job : status[j] = "DONE" => HasEffect(j)
    /\ \A w \in Worker : \A c \in current[w] :
         /\ stage[w] = "mark" => HasEffect(c.job)
         /\ stage[w] \in {"call", "insert"} => EventType[c.job] = "AI_RECOMMEND"

LEMMA EffectsStay ==
    ASSUME TypeOK, Next, NEW j \in Job, HasEffect(j)
    PROVE  HasEffect(j)'
<1> USE DEF TypeOK, effectVars
<1>1. recommendations \subseteq recommendations'
  BY DEF Next, Progress, Fault, Claims, CallsAi, SimulatesBancs, RefusesUnknown, AiAnswers,
         InsertsRecommendation, MarksDone, Settles, Ends, AiFails, StatementFails,
         InsertUnacknowledged, MarkUnacknowledged, SettleFails, SettleUnacknowledged, Crashes,
         Passes, Expires
<1>2. CASE sent' = sent
  BY <1>1, <1>2 DEF HasEffect
<1>3. ASSUME NEW w \in Worker, SimulatesBancs(w)
      PROVE  HasEffect(j)'
  <2>1. PICK c \in batch[w] : sent' = [sent EXCEPT ![c.job] = @ + 1]
    BY <1>3 DEF SimulatesBancs
  <2>2. sent'[j] \in {sent[j], sent[j] + 1} /\ sent[j] \in Nat
    BY <2>1
  <2> QED
    BY <1>1, <2>2 DEF HasEffect
<1> QED
  BY <1>2, <1>3
     DEF Next, Progress, Fault, Claims, CallsAi, RefusesUnknown, AiAnswers,
         InsertsRecommendation, MarksDone, Settles, Ends, AiFails, StatementFails,
         InsertUnacknowledged, MarkUnacknowledged, SettleFails, SettleUnacknowledged, Crashes,
         Passes, Expires

\* A row is DONE by markDone only.
LEMMA BecomesDone ==
    ASSUME TypeOK, LeaseInv, Next, NEW j \in Job, status'[j] = "DONE", status[j] # "DONE"
    PROVE  \E w \in Worker : stage[w] = "mark" /\ \E c \in current[w] : c.job = j
<1>0. status \in [Job -> Status] /\ \A w \in Worker : \A c \in current[w] : c.job \in Job
  BY DEF TypeOK, LeaseTypeOK, Claim
<1>1. ASSUME NEW w \in Worker, MarksDone(w) \/ MarkUnacknowledged(w)
      PROVE  stage[w] = "mark" /\ \E c \in current[w] : c.job = j
  <2>1. PICK c \in current[w] : stage[w] = "mark" /\ markDone(c.job)
    BY <1>1 DEF MarksDone, MarkUnacknowledged, At
  <2>2. c.job = j
    BY <1>0, <2>1 DEF markDone, SetStatus
  <2> QED
    BY <2>1, <2>2
<1>2. ASSUME NEW w \in Worker, Settles(w) \/ SettleUnacknowledged(w)
      PROVE  FALSE
  <2>1. PICK c \in current[w] : markDead(c.job) \/ scheduleRetry(c.job)
    BY <1>2 DEF Settles, SettleUnacknowledged, SettleFailure
  <2> QED
    BY <1>0, <2>1 DEF markDead, scheduleRetry, SetStatus
<1>3. ASSUME NEW w \in Worker, Claims(w)
      PROVE  FALSE
  BY <1>3 DEF Claims, ClaimBatch
<1> QED
  BY <1>1, <1>2, <1>3
     DEF Next, Progress, Fault, CallsAi, SimulatesBancs, RefusesUnknown, AiAnswers,
         InsertsRecommendation, Ends, AiFails, StatementFails, InsertUnacknowledged, SettleFails,
         Crashes, WorkerCrashes, Passes, Expires, Clock, ComesDue, OrphanExpires, LeaseExpires,
         BeginJob, EndTick, tableVars

LEMMA EffectStep ==
    ASSUME TypeOK, LeaseInv, EffectInv, Next
    PROVE  EffectInv'
<1>0. \A w \in Worker : \A c \in batch[w] \cup current[w] : c.job \in Job
  BY DEF TypeOK, LeaseTypeOK, Claim
<1>1. \A j \in Job : status'[j] = "DONE" => HasEffect(j)'
  BY BecomesDone, EffectsStay DEF EffectInv
<1> DEFINE Safe(w) == \A c \in current[w] : /\ stage[w] = "mark" => HasEffect(c.job)
                                            /\ stage[w] \in {"call", "insert"}
                                                 => EventType[c.job] = "AI_RECOMMEND"
<1>2. ASSUME NEW w \in Worker, stage'[w] = stage[w], current'[w] = current[w]
      PROVE  Safe(w)'
  BY <1>0, <1>2, EffectsStay DEF EffectInv
<1>3. ASSUME NEW w \in Worker, Progress(w) \/ Fault(w)
      PROVE  \A v \in Worker : Safe(v)'
  <2>1. \A v \in Worker \ {w} : stage'[v] = stage[v] /\ current'[v] = current[v]
    <3> USE DEF TypeOK, LeaseTypeOK, Goto
    <3>1. CASE Claims(w) \/ Ends(w)
      BY <3>1 DEF Claims, Ends, ClaimBatch, EndTick
    <3>2. CASE CallsAi(w) \/ SimulatesBancs(w) \/ RefusesUnknown(w)
      <4>1. PICK c, s : BeginJob(w, c, s)
        BY <3>2 DEF CallsAi, SimulatesBancs, RefusesUnknown
      <4> QED
        BY <4>1 DEF BeginJob
    <3>3. CASE AiAnswers(w) \/ InsertsRecommendation(w) \/ MarksDone(w) \/ Settles(w)
      BY <3>3 DEF AiAnswers, InsertsRecommendation, MarksDone, Settles, EndJob
    <3>4. CASE AiFails(w) \/ StatementFails(w) \/ InsertUnacknowledged(w) \/ MarkUnacknowledged(w)
      BY <3>4 DEF AiFails, StatementFails, InsertUnacknowledged, MarkUnacknowledged
    <3>5. CASE SettleFails(w) \/ SettleUnacknowledged(w) \/ Crashes(w)
      BY <3>5 DEF SettleFails, SettleUnacknowledged, Crashes, WorkerCrashes, AbandonTick
    <3> QED
      BY <1>3, <3>1, <3>2, <3>3, <3>4, <3>5 DEF Progress, Fault
  <2>2. Safe(w)'
    <3> USE DEF TypeOK, LeaseTypeOK, Goto
    <3>1. CASE stage'[w] \notin {"mark", "call", "insert"}
      BY <3>1
    <3>2. CASE CallsAi(w)
      BY <3>2 DEF CallsAi, BeginJob
    <3>3. CASE SimulatesBancs(w)
      <4>1. PICK c \in batch[w] : /\ EventType[c.job] = "BANCS_SIMULATED" /\ BeginJob(w, c, "mark")
                                  /\ sent' = [sent EXCEPT ![c.job] = @ + 1]
        BY <3>3 DEF SimulatesBancs
      <4>2. current'[w] = {c} /\ stage'[w] = "mark"
        BY <4>1 DEF BeginJob
      <4>3. HasEffect(c.job)'
        BY <1>0, <4>1 DEF HasEffect
      <4> QED
        BY <4>2, <4>3
    <3>4. CASE AiAnswers(w)
      BY <3>4 DEF AiAnswers, At, EffectInv
    <3>5. CASE InsertsRecommendation(w)
      <4>1. PICK c \in current[w] : stage[w] = "insert" /\ recommendations' = recommendations \cup {c.job}
        BY <3>5 DEF InsertsRecommendation, At
      <4>2. current' = current /\ stage'[w] = "mark"
        BY <3>5 DEF InsertsRecommendation
      <4>3. \A d \in current[w] : d = c
        BY <4>1 DEF LeaseInv, OneAtATime
      <4>4. EventType[c.job] = "AI_RECOMMEND"
        BY <4>1 DEF EffectInv
      <4>5. HasEffect(c.job)'
        BY <4>1, <4>4 DEF HasEffect
      <4> QED
        BY <4>2, <4>3, <4>5
    <3>6. \/ CallsAi(w) \/ SimulatesBancs(w) \/ AiAnswers(w) \/ InsertsRecommendation(w)
          \/ stage'[w] \notin {"mark", "call", "insert"}
      BY <1>3
         DEF Progress, Fault, Claims, RefusesUnknown, MarksDone, Settles, Ends, AiFails,
             StatementFails, InsertUnacknowledged, MarkUnacknowledged, SettleFails,
             SettleUnacknowledged, Crashes, WorkerCrashes, ClaimBatch, BeginJob, EndTick, EndJob,
             AbandonTick
    <3> QED
      BY <3>1, <3>2, <3>3, <3>4, <3>5, <3>6
  <2> QED
    BY <1>2, <2>1, <2>2
<1>4. ASSUME NEW j \in Job, Passes(j) \/ Expires(j)
      PROVE  \A v \in Worker : Safe(v)'
  <2>1. stage' = stage /\ current' = current
    BY <1>4 DEF Passes, Expires, Clock, ComesDue, OrphanExpires, LeaseExpires, workerVars
  <2> QED
    BY <1>2, <2>1
<1>5. \A v \in Worker : Safe(v)'
  BY <1>3, <1>4 DEF Next
<1> QED
  BY <1>1, <1>5 DEF EffectInv

\* DONE is the truth: the recommendation is stored, or the call to Bancs was
\* made, through failures, takeovers, late workers and lost replies.
THEOREM DoneMeansDone == Spec => []DoneHasEffect
<1>1. Init => EffectInv
  BY DEF Init, LeaseInit, EffectInv
<1>2. TypeOK /\ LeaseInv /\ EffectInv /\ [Next]_vars => EffectInv'
  <2>1. EffectInv /\ UNCHANGED vars => EffectInv'
    BY DEF EffectInv, HasEffect, vars, tableVars, workerVars, effectVars
  <2> QED
    BY <2>1, EffectStep
<1>3. EffectInv => DoneHasEffect
  BY DEF EffectInv, HasEffect, DoneHasEffect
<1> QED
  BY <1>1, <1>2, <1>3, OutboxTypeCorrect, LeaseInvariant, PTL DEF Spec
=============================================================================
