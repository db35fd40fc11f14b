---------------------------- MODULE IngestBuffer ----------------------------
(***************************************************************************)
(* RawTransactionsService: the in-memory buffer between 202 Accepted and   *)
(* the table ingest_queue, with its flush timer, its flush slots, its      *)
(* drain on shutdown and on clearAll.  One Node process: a macrotask (a    *)
(* request, a timer, a finished database call) runs to its end, then the   *)
(* microtasks it queued run in order, before the next macrotask.           *)
(***************************************************************************)
EXTENDS Integers, Sequences, FiniteSets, Functions

CONSTANTS
    Item,               \* bodies posted to /api/v1/raw-transactions
    Malformed,          \* those that are not a JSON object
    BatchSize,          \* INGEST_ENQUEUE_BATCH_SIZE
    MaxBuffered,        \* INGEST_ENQUEUE_MAX_BUFFERED
    FlushConcurrency,   \* INGEST_ENQUEUE_FLUSH_CONCURRENCY
    LostReplies,        \* whether an insert may take effect and still fail
    MaxWaiting,         \* bound on calls waiting for a slot, below which drains go on
    MaxFaults           \* bound on failed inserts and crashes

ASSUME BufferAssumption ==
    /\ IsFiniteSet(Item)
    /\ Malformed \subseteq Item
    /\ BatchSize \in Nat \ {0}
    /\ MaxBuffered \in Nat /\ MaxBuffered >= BatchSize
    /\ FlushConcurrency \in Nat \ {0}
    /\ LostReplies \in BOOLEAN
    /\ MaxWaiting \in Nat
    /\ MaxFaults \in Nat

Drainer == {"destroy", "clear"}
Owner == Drainer \cup {"nobody"}        \* who awaits a call of scheduleFlush

VARIABLES
    svc,        \* the fields of the service, and its pending callbacks
    flights,    \* calls of scheduleFlush between splice and the insert's end
    reporting,  \* [Owner -> calls awaiting recordFromError after a failure]
    drain,      \* [Drainer -> where onModuleDestroy or clearAll is]
    accepted,   \* items answered with 202
    queue,      \* items with a row in ingest_queue
    discarded,  \* items dropped as invalid_json_payload
    cleared,    \* items whose row clearAll deleted
    lost,       \* items that were only in the memory of a process that died
    faults

tables == <<queue, discarded, cleared>>
vars == <<svc, flights, reporting, drain, accepted, tables, lost, faults>>

Idle == [buffer |-> <<>>, timer |-> FALSE, immediates |-> 0, active |-> 0,
         waiters |-> <<>>, micro |-> <<>>, stopped |-> FALSE]

Init ==
    /\ svc = Idle
    /\ flights = {}
    /\ reporting = [o \in Owner |-> 0]
    /\ drain = [d \in Drainer |-> "off"]
    /\ accepted = {} /\ queue = {} /\ discarded = {} /\ cleared = {} /\ lost = {}
    /\ faults = 0

----------------------------------------------------------------------------
(* The synchronous pieces, as functions of the service's state.            *)

ensureFlushTimer(s) == [s EXCEPT !.timer = TRUE]

acquireFlushSlot(s, o) ==
    IF s.active < FlushConcurrency
    THEN [s EXCEPT !.active = @ + 1, !.micro = Append(@, [task |-> "splice", owner |-> o])]
    ELSE [s EXCEPT !.waiters = Append(@, o)]

scheduleFlush(s, o) ==
    LET t == [s EXCEPT !.timer = FALSE]
    IN  IF t.buffer = <<>> THEN t ELSE acquireFlushSlot(t, o)

releaseFlushSlot(s) ==
    LET t == [s EXCEPT !.active = IF @ > 0 THEN @ - 1 ELSE 0]
    IN  IF t.waiters = <<>> THEN t
        ELSE [t EXCEPT !.waiters = Tail(@),
                       !.micro = Append(@, [task |-> "takeSlot", owner |-> Head(t.waiters)])]

\* The finally block.
Finished(s) ==
    LET t == releaseFlushSlot(s)
    IN  IF Len(t.buffer) >= BatchSize THEN scheduleFlush(t, "nobody")
        ELSE IF t.buffer # <<>> THEN ensureFlushTimer(t) ELSE t

\* The promise of scheduleFlush resolves: its drainer goes to sleep for 5 ms.
Resolve(o) == drain' = IF o \in Drainer THEN [drain EXCEPT ![o] = "sleeping"] ELSE drain

Quiet == svc.micro = <<>>

----------------------------------------------------------------------------
(* Macrotasks: requests and timers.                                        *)

\* Mutant of enqueueRaw: only a full batch is ever scheduled.
EnqueueWithoutTimer(i) ==
    /\ Quiet /\ ~svc.stopped /\ i \notin accepted /\ Len(svc.buffer) < MaxBuffered
    /\ accepted' = accepted \cup {i}
    /\ LET s == [svc EXCEPT !.buffer = Append(@, i)]
       IN  svc' = IF Len(s.buffer) >= BatchSize THEN [s EXCEPT !.immediates = @ + 1] ELSE s
    /\ UNCHANGED <<flights, reporting, drain, tables, lost, faults>>

\* Answered 503 when stopped or full; otherwise 202 follows at once.
enqueueRaw(i) ==
    /\ Quiet
    /\ i \notin accepted
    /\ ~svc.stopped
    /\ Len(svc.buffer) < MaxBuffered
    /\ accepted' = accepted \cup {i}
    /\ LET s == [svc EXCEPT !.buffer = Append(@, i)]
       IN  svc' = IF Len(s.buffer) >= BatchSize THEN [s EXCEPT !.immediates = @ + 1]
                  ELSE ensureFlushTimer(s)
    /\ UNCHANGED <<flights, reporting, drain, tables, lost, faults>>

TimerFires ==
    /\ Quiet
    /\ svc.timer
    /\ svc' = scheduleFlush(svc, "nobody")
    /\ UNCHANGED <<flights, reporting, drain, accepted, tables, lost, faults>>

ImmediateRuns ==
    /\ Quiet
    /\ svc.immediates > 0
    /\ svc' = scheduleFlush([svc EXCEPT !.immediates = @ - 1], "nobody")
    /\ UNCHANGED <<flights, reporting, drain, accepted, tables, lost, faults>>

----------------------------------------------------------------------------
(* Microtasks: the continuations of acquireFlushSlot.                      *)

\* Mutant of TakesSlot: the woken waiter is not counted.
TakesNoSlot ==
    /\ svc.micro # <<>>
    /\ Head(svc.micro).task = "takeSlot"
    /\ svc' = [svc EXCEPT !.micro = Append(Tail(@), [Head(@) EXCEPT !.task = "splice"])]
    /\ UNCHANGED <<flights, reporting, drain, accepted, tables, lost, faults>>

\* A waiter that was woken takes a slot without looking at the limit again.
TakesSlot ==
    /\ svc.micro # <<>>
    /\ Head(svc.micro).task = "takeSlot"
    /\ svc' = [svc EXCEPT !.active = @ + 1,
                          !.micro = Append(Tail(@), [Head(@) EXCEPT !.task = "splice"])]
    /\ UNCHANGED <<flights, reporting, drain, accepted, tables, lost, faults>>

TaskAtHead == svc.micro # <<>> /\ Head(svc.micro).task = "splice"
Splice == IF Len(svc.buffer) < BatchSize THEN svc.buffer ELSE SubSeq(svc.buffer, 1, BatchSize)

\* Mutant of AfterSplice: slice() for splice().
AfterSlice == [svc EXCEPT !.micro = Tail(@)]

AfterSplice ==
    [svc EXCEPT !.micro = Tail(@), !.buffer = SubSeq(@, Len(Splice) + 1, Len(@))]

Splices ==
    /\ TaskAtHead
    /\ svc.buffer # <<>>
    /\ svc' = AfterSplice
    /\ flights' = flights \cup {[batch |-> Splice, bad |-> Range(Splice) \cap Malformed,
                                 owner |-> Head(svc.micro).owner]}
    /\ UNCHANGED <<reporting, drain, accepted, tables, lost, faults>>

\* Another flush emptied the buffer meanwhile: nothing to insert.
SplicesNothing ==
    /\ TaskAtHead
    /\ svc.buffer = <<>>
    /\ svc' = Finished(AfterSplice)
    /\ Resolve(Head(svc.micro).owner)
    /\ UNCHANGED <<flights, reporting, accepted, tables, lost, faults>>

----------------------------------------------------------------------------
(* Macrotasks: the database answers a flush.                               *)

Rows(f) == Range(f.batch) \ Malformed

Lands(f) ==
    /\ flights' = flights \ {f}
    /\ svc' = Finished(svc)
    /\ Resolve(f.owner)

\* Mutant of RecordsMalformed: one malformed body costs the whole batch.
DropsBatch(f) ==
    /\ Quiet
    /\ f.bad # {}
    /\ discarded' = discarded \cup Range(f.batch)
    /\ Lands(f)
    /\ UNCHANGED <<reporting, accepted, queue, cleared, lost, faults>>

\* One malformed body is reported; the next, or the insert, follows.
RecordsMalformed(f) ==
    /\ Quiet
    /\ \E i \in f.bad :
         /\ discarded' = discarded \cup {i}
         /\ IF f.bad = {i} /\ Rows(f) = {}
            THEN Lands(f)
            ELSE /\ flights' = (flights \ {f}) \cup {[f EXCEPT !.bad = @ \ {i}]}
                 /\ UNCHANGED <<svc, drain>>
    /\ UNCHANGED <<reporting, accepted, queue, cleared, lost, faults>>

Inserting(f) == Quiet /\ f.bad = {}
Fresh(f) == Rows(f) \cap queue = {}

Inserts(f) ==
    /\ Inserting(f)
    /\ Fresh(f)
    /\ queue' = queue \cup Rows(f)
    /\ Lands(f)
    /\ UNCHANGED <<reporting, accepted, discarded, cleared, lost, faults>>

\* Mutant of Restored: the failed batch is forgotten.
RestoredNothing(f) == svc.buffer

Restored(f) == f.batch \o svc.buffer

\* The whole batch goes back to the head of the buffer.
InsertError(f) ==
    /\ flights' = flights \ {f}
    /\ svc' = [svc EXCEPT !.buffer = Restored(f)]
    /\ reporting' = [reporting EXCEPT ![f.owner] = @ + 1]
    /\ UNCHANGED <<drain, accepted, discarded, cleared, lost>>

\* createMany inserts all rows or none, and no row whose id is there.
MeetsOwnRow(f) ==
    /\ Inserting(f)
    /\ ~Fresh(f)
    /\ InsertError(f)
    /\ UNCHANGED <<queue, faults>>

Reports(o) ==
    /\ Quiet
    /\ reporting[o] > 0
    /\ reporting' = [reporting EXCEPT ![o] = @ - 1]
    /\ svc' = Finished(ensureFlushTimer(svc))
    /\ Resolve(o)
    /\ UNCHANGED <<flights, accepted, tables, lost, faults>>

----------------------------------------------------------------------------
(* onModuleDestroy and clearAll.                                           *)

\* Mutant of Drained: flushes in flight are not waited for.
DrainedBuffer(s) == s.buffer = <<>>

Drained(s) == s.buffer = <<>> /\ s.active = 0

DrainLoop(d, s) ==
    IF Drained(s)
    THEN /\ svc' = s
         /\ drain' = [drain EXCEPT ![d] = "drained"]
    ELSE /\ svc' = scheduleFlush(s, d)
         /\ drain' = [drain EXCEPT ![d] = IF s.buffer = <<>> THEN "sleeping" ELSE "awaiting"]

onModuleDestroy ==
    /\ Quiet
    /\ drain["destroy"] = "off"
    /\ DrainLoop("destroy", [svc EXCEPT !.stopped = TRUE, !.timer = FALSE])
    /\ UNCHANGED <<flights, reporting, accepted, tables, lost, faults>>

clearAll ==
    /\ Quiet
    /\ drain["clear"] = "off"
    /\ DrainLoop("clear", svc)
    /\ UNCHANGED <<flights, reporting, accepted, tables, lost, faults>>

\* While inserts keep failing each round of a drain adds a flush that never
\* ends, hence the bound: with calls still waiting, the flushes go on anyway.
DrainWakes(d) ==
    /\ Quiet
    /\ drain[d] = "sleeping"
    /\ Len(svc.waiters) < MaxWaiting
    /\ DrainLoop(d, svc)
    /\ UNCHANGED <<flights, reporting, accepted, tables, lost, faults>>

Deletes ==
    /\ Quiet
    /\ drain["clear"] = "drained"
    /\ drain' = [drain EXCEPT !["clear"] = "done"]
    /\ queue' = {}
    /\ cleared' = cleared \cup queue
    /\ UNCHANGED <<svc, flights, reporting, accepted, discarded, lost, faults>>

----------------------------------------------------------------------------
(* Faults.                                                                 *)

UseFault == faults < MaxFaults /\ faults' = faults + 1

InsertFails(f) ==
    /\ Inserting(f)
    /\ InsertError(f)
    /\ UseFault
    /\ UNCHANGED queue

InsertUnacknowledged(f) ==
    /\ LostReplies
    /\ Inserting(f)
    /\ Fresh(f)
    /\ queue' = queue \cup Rows(f)
    /\ InsertError(f)
    /\ UseFault

InMemory == Range(svc.buffer) \cup UNION {Range(f.batch) : f \in flights}

\* The process dies, with any of the inserts it had sent done or not; the
\* cluster primary forks another.
Crash ==
    /\ \E done \in SUBSET {f \in flights : f.bad = {} /\ Fresh(f)} :
         /\ queue' = queue \cup UNION {Rows(f) : f \in done}
         /\ lost' = lost \cup (InMemory \ (queue' \cup discarded))
    /\ svc' = Idle
    /\ flights' = {}
    /\ reporting' = [o \in Owner |-> 0]
    /\ drain' = [d \in Drainer |-> "off"]
    /\ UseFault
    /\ UNCHANGED <<accepted, discarded, cleared>>

----------------------------------------------------------------------------
Flushing ==
    \/ TimerFires \/ ImmediateRuns \/ TakesSlot \/ Splices \/ SplicesNothing
    \/ \E f \in flights : RecordsMalformed(f) \/ Inserts(f) \/ MeetsOwnRow(f)
    \/ \E o \in Owner : Reports(o)
    \/ \E d \in Drainer : DrainWakes(d)

Failing == \E f \in flights : InsertFails(f) \/ InsertUnacknowledged(f)

Calls == onModuleDestroy \/ clearAll \/ \E i \in Item : enqueueRaw(i)

Next == Flushing \/ Deletes \/ Failing \/ Crash \/ Calls

Spec == Init /\ [][Next]_vars

\* Timers fire, callbacks run, the database answers every flush.
FairSpec ==
    /\ Spec
    /\ WF_vars(TimerFires) /\ WF_vars(ImmediateRuns)
    /\ WF_vars(TakesSlot) /\ WF_vars(Splices) /\ WF_vars(SplicesNothing)
    /\ WF_vars(\E f \in flights : RecordsMalformed(f) \/ Inserts(f) \/ MeetsOwnRow(f))
    /\ \A o \in Owner : WF_vars(Reports(o))
    /\ \A d \in Drainer : WF_vars(DrainWakes(d))
    /\ WF_vars(Deletes)

----------------------------------------------------------------------------
Flight == [batch : Seq(Item), bad : SUBSET Malformed, owner : Owner]

\* Every variable keeps its type; only malformed bodies are ever discarded.
TypeOK ==
    /\ svc \in [buffer : Seq(Item), timer : BOOLEAN, immediates : Nat, active : Nat,
                waiters : Seq(Owner), stopped : BOOLEAN,
                micro : Seq([task : {"takeSlot", "splice"}, owner : Owner])]
    /\ flights \subseteq Flight
    /\ reporting \in [Owner -> Nat]
    /\ drain \in [Drainer -> {"off", "awaiting", "sleeping", "drained", "done"}]
    /\ accepted \subseteq Item /\ queue \subseteq Item /\ discarded \subseteq Malformed
    /\ cleared \subseteq Item /\ lost \subseteq Item
    /\ faults \in 0..MaxFaults

\* An accepted item is in memory, in the queue, deleted from it by clearAll,
\* discarded as malformed, or gone with a process: failed flushes and the race
\* of flushes for the buffer lose nothing.
NothingVanishes == accepted \subseteq InMemory \cup queue \cup discarded \cup cleared \cup lost

\* No item is in memory twice: two flushes never carry one item.
HeldOnce ==
    /\ Len(svc.buffer) = Cardinality(Range(svc.buffer))
    /\ \A f \in flights : Range(f.batch) \cap Range(svc.buffer) = {}
    /\ \A f, g \in flights : f # g => Range(f.batch) \cap Range(g.batch) = {}

\* activeFlushes counts the flushes that hold a slot, woken waiters included
\* once they run: the drain loops decide by it.
SlotsCounted ==
    svc.active = Cardinality(flights) + reporting["nobody"] + reporting["destroy"] + reporting["clear"]
                 + Cardinality({n \in DOMAIN svc.micro : svc.micro[n].task = "splice"})

\* Between macrotasks a non-empty buffer always has somebody who will flush it,
\* and a waiter somebody who will wake it.
NothingStranded ==
    Quiet => /\ svc.buffer # <<>> =>
                    \/ svc.timer \/ svc.immediates > 0 \/ svc.active > 0
                    \/ \E d \in Drainer : drain[d] = "sleeping"
             /\ svc.waiters # <<>> => svc.active > 0

\* After shutdown's drain every accepted item is settled: none is in memory.
ShutdownSettles ==
    drain["destroy"] = "drained" => InMemory = {} /\ \A o \in Owner : reporting[o] = 0

\* An accepted item reaches the queue in spite of failing inserts.
EventuallyQueued ==
    \A i \in Item \ Malformed : i \in accepted ~> i \in queue \cup cleared \cup lost

\* INGEST_ENQUEUE_FLUSH_CONCURRENCY bounds the flushes that run at once.
SlotLimit == svc.active <= FlushConcurrency
=============================================================================
