---------------------------- MODULE OutboxWorker ----------------------------
(***************************************************************************)
(* OutboxProcessor: the worker that turns the two outbox events of a       *)
(* transfer into a recommendation and a simulated call to Bancs.  Every    *)
(* await of process() is a step; workers are replicas of one process.      *)
(***************************************************************************)
EXTENDS LeaseTable

CONSTANT
    EventType       \* [Job -> "AI_RECOMMEND", "BANCS_SIMULATED" or another]

VARIABLES
    recommendations,    \* events with a row (outbox_event_id is unique)
    advised,            \* [Job -> answers the AI service gave for it]
    sent                \* [Job -> simulated calls to Bancs]

effectVars == <<recommendations, advised, sent>>
vars == <<tableVars, workerVars, faults, effectVars>>

Init ==
    /\ LeaseInit
    /\ status = [j \in Job |-> "PENDING"]
    /\ recommendations = {}
    /\ advised = [j \in Job |-> 0]
    /\ sent = [j \in Job |-> 0]

Claims(w) ==
    /\ ClaimBatch(w)
    /\ UNCHANGED <<effectVars, faults>>

Ends(w) ==
    /\ EndTick(w)
    /\ UNCHANGED <<effectVars, faults>>

At(w, s, c) == stage[w] = s /\ c \in current[w]

----------------------------------------------------------------------------
(* process().                                                              *)

CallsAi(w) ==
    /\ \E c \in batch[w] : EventType[c.job] = "AI_RECOMMEND" /\ BeginJob(w, c, "call")
    /\ UNCHANGED <<effectVars, faults>>

\* handleBancsSimulated only logs: it cannot fail.
SimulatesBancs(w) ==
    /\ \E c \in batch[w] :
         /\ EventType[c.job] = "BANCS_SIMULATED"
         /\ BeginJob(w, c, "mark")
         /\ sent' = [sent EXCEPT ![c.job] = @ + 1]
    /\ UNCHANGED <<recommendations, advised, faults>>

RefusesUnknown(w) ==
    /\ \E c \in batch[w] :
         /\ EventType[c.job] \notin {"AI_RECOMMEND", "BANCS_SIMULATED"}
         /\ BeginJob(w, c, "caught")
    /\ UNCHANGED <<effectVars, faults>>

\* Mutant of AiAnswers: the event is closed without its recommendation.
AiAnswersUnsaved(w) ==
    /\ \E c \in current[w] :
         /\ At(w, "call", c)
         /\ advised' = [advised EXCEPT ![c.job] = @ + 1]
    /\ Goto(w, "mark")
    /\ UNCHANGED <<tableVars, batch, current, recommendations, sent, faults>>

\* The service saves its advice before it answers.
AiAnswers(w) ==
    /\ \E c \in current[w] :
         /\ At(w, "call", c)
         /\ advised' = [advised EXCEPT ![c.job] = @ + 1]
    /\ Goto(w, "insert")
    /\ UNCHANGED <<tableVars, batch, current, recommendations, sent, faults>>

InsertsRecommendation(w) ==
    /\ \E c \in current[w] :
         /\ At(w, "insert", c)
         /\ recommendations' = recommendations \cup {c.job}
    /\ Goto(w, "mark")
    /\ UNCHANGED <<tableVars, batch, current, advised, sent, faults>>

MarksDone(w) ==
    /\ \E c \in current[w] : At(w, "mark", c) /\ markDone(c.job)
    /\ EndJob(w)
    /\ UNCHANGED <<effectVars, faults>>

\* recordInfraException never throws, then the catch block settles the event.
Settles(w) ==
    /\ stage[w] = "caught"
    /\ SettleFailure(w)
    /\ EndJob(w)
    /\ UNCHANGED <<effectVars, faults>>

----------------------------------------------------------------------------
(* Faults.                                                                 *)

\* No connection, a status outside 2xx, a body that is not JSON, or the
\* HTTP client's own limit, fetch being given none here; the service may
\* have saved its advice all the same.
AiFails(w) ==
    /\ \E c \in current[w] :
         /\ At(w, "call", c)
         /\ advised' \in {advised, [advised EXCEPT ![c.job] = @ + 1]}
    /\ Goto(w, "caught")
    /\ UseFault
    /\ UNCHANGED <<tableVars, batch, current, recommendations, sent>>

\* The insert or markDone throws inside the try block ...
StatementFails(w) ==
    /\ stage[w] \in {"insert", "mark"}
    /\ Goto(w, "caught")
    /\ UseFault
    /\ UNCHANGED <<tableVars, batch, current, effectVars>>

\* ... or throws although it took effect.
InsertUnacknowledged(w) ==
    /\ LostReplies
    /\ \E c \in current[w] :
         /\ At(w, "insert", c)
         /\ recommendations' = recommendations \cup {c.job}
    /\ Goto(w, "caught")
    /\ UseFault
    /\ UNCHANGED <<tableVars, batch, current, advised, sent>>

MarkUnacknowledged(w) ==
    /\ LostReplies
    /\ \E c \in current[w] : At(w, "mark", c) /\ markDone(c.job)
    /\ Goto(w, "caught")
    /\ UseFault
    /\ UNCHANGED <<batch, current, effectVars>>

\* markDead or scheduleRetry throws out of process().
SettleFails(w) ==
    /\ stage[w] = "caught"
    /\ AbandonTick(w)
    /\ UseFault
    /\ UNCHANGED <<tableVars, effectVars>>

SettleUnacknowledged(w) ==
    /\ LostReplies
    /\ stage[w] = "caught"
    /\ SettleFailure(w)
    /\ AbandonTick(w)
    /\ UseFault
    /\ UNCHANGED effectVars

Crashes(w) == WorkerCrashes(w) /\ UNCHANGED effectVars
Expires(j) == LeaseExpires(j) /\ UNCHANGED effectVars
Passes(j) == Clock(j) /\ UNCHANGED effectVars

Progress(w) ==
    \/ Claims(w) \/ CallsAi(w) \/ SimulatesBancs(w) \/ RefusesUnknown(w) \/ AiAnswers(w)
    \/ InsertsRecommendation(w) \/ MarksDone(w) \/ Settles(w) \/ Ends(w)

Fault(w) ==
    \/ AiFails(w) \/ StatementFails(w) \/ InsertUnacknowledged(w) \/ MarkUnacknowledged(w)
    \/ SettleFails(w) \/ SettleUnacknowledged(w) \/ Crashes(w)

Next ==
    \/ \E w \in Worker : Progress(w) \/ Fault(w)
    \/ \E j \in Job : Passes(j) \/ Expires(j)

Spec == Init /\ [][Next]_vars

\* The poll timer keeps ticking, the AI service answers or fails, time passes.
FairSpec ==
    /\ Spec
    /\ \A w \in Worker : WF_vars(Progress(w))
    /\ \A j \in Job : WF_vars(Passes(j))

----------------------------------------------------------------------------
\* Every variable keeps its type; a worker is at one of the awaits of process().
TypeOK ==
    /\ LeaseTypeOK
    /\ stage \in [Worker -> {"idle", "next", "call", "insert", "mark", "caught"}]
    /\ recommendations \subseteq Job
    /\ advised \in [Job -> Nat]
    /\ sent \in [Job -> Nat]

\* An event is DONE only when its effect exists, whichever worker marked it.
DoneHasEffect ==
    \A j \in Job : status[j] = "DONE" =>
        IF EventType[j] = "AI_RECOMMEND" THEN j \in recommendations ELSE sent[j] > 0
=============================================================================
