----------------------------- MODULE LeaseProofs -----------------------------
(***************************************************************************)
(* What the claiming statement and the three closing updates promise to    *)
(* both processors, whatever these do between the two.                     *)
(***************************************************************************)
EXTENDS LeaseTable, TLAPS

----------------------------------------------------------------------------
(* The steps of a processor, as the table sees them.                       *)

Inside == {"call", "insert", "persist", "mark", "markDuplicate", "caught"}
Stages == {"idle", "next"} \cup Inside

Updates(w) == \E c \in current[w] : markDone(c.job) \/ markDead(c.job) \/ scheduleRetry(c.job)

TakesJob(w) == \E c \in batch[w], s \in Inside : BeginJob(w, c, s)

\* A statement that is not of this table, or one that fails without effect.
Works(w) ==
    /\ stage[w] \in Inside
    /\ \E s \in Inside : Goto(w, s)
    /\ UNCHANGED <<tableVars, batch, current>>

\* A closing update whose reply is lost leaves the job where it is.
UpdateLost(w) ==
    /\ stage[w] \in Inside
    /\ Updates(w)
    /\ \E s \in Inside : Goto(w, s)
    /\ UNCHANGED <<batch, current>>

WorkerStep(w) ==
    \/ UNCHANGED faults /\ (ClaimBatch(w) \/ TakesJob(w) \/ EndTick(w) \/ (Updates(w) /\ EndJob(w)))
    \/ (UNCHANGED faults \/ UseFault) /\ Works(w)
    \/ UseFault /\ (UpdateLost(w) \/ ((Updates(w) \/ UNCHANGED tableVars) /\ AbandonTick(w)))

TimeStep(j) == ComesDue(j) \/ OrphanExpires(j) \/ LeaseExpires(j)

\* Rows come and rows are deleted.
RowStep ==
    /\ status' \in [Job -> Status]
    /\ \A j \in Job : \/ status'[j] \in {status[j], "DELETED"}
                      \/ status[j] = "ABSENT" /\ status'[j] = "PENDING"
    /\ UNCHANGED <<attempts, due, expired, workerVars, faults>>

\* Something else happens, or fails, in the same processes.
Elsewhere == UNCHANGED <<tableVars, workerVars>> /\ (UNCHANGED faults \/ UseFault)

LeaseStep ==
    \/ \E w \in Worker : WorkerStep(w)
    \/ \E j \in Job : TimeStep(j)
    \/ RowStep
    \/ Elsewhere

----------------------------------------------------------------------------
(* The inductive invariant.                                                *)

LeaseType == LeaseTypeOK /\ stage \in [Worker -> Stages]

\* One job at a time, and none outside the loop.
OneAtATime ==
    \A w \in Worker :
        /\ stage[w] = "idle" => batch[w] = {}
        /\ stage[w] \in {"idle", "next"} => current[w] = {}
        /\ \A c, d \in current[w] : c = d
        /\ batch[w] \cap current[w] = {}

\* A row remembers at least the number of each claim of it.
NumbersGrow == \A w \in Worker : \A c \in HeldBy(w) : c.attempts <= attempts[c.job]

\* Until something fails a held job is claimed, its lease is running, and it
\* is held once.
Alone ==
    \A w \in Worker : \A c \in HeldBy(w) :
        /\ status[c.job] \in {"CLAIMED", "DELETED"}
        /\ ~expired[c.job]
        /\ \A v \in Worker : \A d \in HeldBy(v) : c.job = d.job => v = w /\ c = d

\* A held job has a row, deleted as it may be.
HeldAreRows == \A w \in Worker : \A c \in HeldBy(w) : status[c.job] # "ABSENT"

LeaseInv ==
    OneAtATime /\ HeldAreRows /\ NumbersGrow /\ ClaimsAreNumbered /\ (faults = 0 => Alone)

----------------------------------------------------------------------------
(* A closing update touches the row of its own job only, and no row that   *)
(* is deleted.                                                             *)
LEMMA UpdatesOneRow ==
    ASSUME LeaseType, NEW w \in Worker, Updates(w)
    PROVE  /\ attempts' = attempts
           /\ status' \in [Job -> Status] /\ due' \in [Job -> BOOLEAN] /\ expired' \in [Job -> BOOLEAN]
           /\ \E c \in current[w] :
                /\ c \in Claim
                /\ status[c.job] = "DELETED" => status'[c.job] = "DELETED"
                /\ \A j \in Job \ {c.job} : status'[j] = status[j] /\ expired'[j] = expired[j]
<1>1. PICK c \in current[w] : markDone(c.job) \/ markDead(c.job) \/ scheduleRetry(c.job)
  BY DEF Updates
<1>2. /\ status \in [Job -> Status] /\ due \in [Job -> BOOLEAN] /\ expired \in [Job -> BOOLEAN]
      /\ c \in Claim /\ c.job \in Job
  BY DEF LeaseType, LeaseTypeOK, Claim
<1>3. \E s \in {"DONE", "DEAD", "PENDING"} : SetStatus(c.job, s)
  BY <1>1 DEF markDone, markDead, scheduleRetry
<1>4. /\ status' \in [Job -> Status]
      /\ status[c.job] = "DELETED" => status'[c.job] = "DELETED"
      /\ \A j \in Job \ {c.job} : status'[j] = status[j]
  BY <1>2, <1>3 DEF SetStatus, Status
<1>5. /\ attempts' = attempts /\ due' \in [Job -> BOOLEAN] /\ expired' \in [Job -> BOOLEAN]
      /\ \A j \in Job \ {c.job} : expired'[j] = expired[j]
  BY <1>1, <1>2 DEF markDone, markDead, scheduleRetry
<1> QED
  BY <1>2, <1>4, <1>5

LEMMA PickedAreJobs == Picked \subseteq Job /\ \A j \in Picked : Claimable(j)
  BY DEF Picked

LEMMA LeaseTypeStep ==
    ASSUME LeaseType, LeaseStep
    PROVE  LeaseType'
<1> USE DEF LeaseType, LeaseTypeOK
<1>1. ASSUME NEW w \in Worker, WorkerStep(w)
      PROVE  LeaseType'
  <2>1. faults' \in 0..MaxFaults
    BY <1>1, LeaseAssumption DEF WorkerStep, UseFault
  <2>2. CASE ClaimBatch(w)
    <3>1. status' \in [Job -> Status] /\ attempts' \in [Job -> Nat] /\ expired' \in [Job -> BOOLEAN]
      <4>1. status' \in [Job -> Status]
        BY <2>2 DEF ClaimBatch, Status
      <4>2. attempts' \in [Job -> Nat]
        BY <2>2 DEF ClaimBatch, Counted
      <4>3. expired' \in [Job -> BOOLEAN]
        BY <2>2 DEF ClaimBatch
      <4> QED
        BY <4>1, <4>2, <4>3
    <3>2. {[job |-> j, attempts |-> Counted(j)] : j \in Picked} \subseteq Claim
      BY PickedAreJobs DEF Counted, Claim
    <3>3. batch' \in [Worker -> SUBSET Claim] /\ stage' \in [Worker -> Stages]
      BY <2>2, <3>2 DEF ClaimBatch, Goto, Stages
    <3> QED
      BY <2>1, <2>2, <3>1, <3>3 DEF ClaimBatch
  <2>3. CASE TakesJob(w)
    BY <2>1, <2>3 DEF TakesJob, BeginJob, Goto, Stages, tableVars
  <2>4. CASE EndTick(w)
    BY <2>1, <2>4 DEF EndTick, Goto, Stages, tableVars
  <2>5. CASE Works(w)
    BY <2>1, <2>5 DEF Works, Goto, Stages, tableVars
  <2>6. CASE Updates(w) /\ (EndJob(w) \/ UpdateLost(w) \/ AbandonTick(w))
    <3>1. attempts' \in [Job -> Nat] /\ status' \in [Job -> Status]
          /\ due' \in [Job -> BOOLEAN] /\ expired' \in [Job -> BOOLEAN]
      BY <2>6, UpdatesOneRow
    <3>2. /\ batch' \in [Worker -> SUBSET Claim] /\ current' \in [Worker -> SUBSET Claim]
          /\ stage' \in [Worker -> Stages]
      BY <2>6 DEF EndJob, UpdateLost, AbandonTick, Goto, Stages
    <3> QED
      BY <2>1, <3>1, <3>2
  <2>7. CASE UNCHANGED tableVars /\ AbandonTick(w)
    BY <2>1, <2>7 DEF AbandonTick, Goto, Stages, tableVars
  <2> QED
    BY <1>1, <2>2, <2>3, <2>4, <2>5, <2>6, <2>7 DEF WorkerStep, UpdateLost
<1>2. ASSUME NEW j \in Job, TimeStep(j)
      PROVE  LeaseType'
  <2>1. faults' \in 0..MaxFaults
    BY <1>2, LeaseAssumption DEF TimeStep, ComesDue, OrphanExpires, LeaseExpires, UseFault
  <2>2. due' \in [Job -> BOOLEAN] /\ expired' \in [Job -> BOOLEAN]
    BY <1>2 DEF TimeStep, ComesDue, OrphanExpires, LeaseExpires
  <2> QED
    BY <1>2, <2>1, <2>2 DEF TimeStep, ComesDue, OrphanExpires, LeaseExpires, workerVars
<1>3. CASE RowStep
  BY <1>3 DEF RowStep, workerVars
<1>4. CASE Elsewhere
  BY <1>4, LeaseAssumption DEF Elsewhere, UseFault, tableVars, workerVars
<1> QED
  BY <1>1, <1>2, <1>3, <1>4 DEF LeaseStep

----------------------------------------------------------------------------
LEMMA RowsRemain ==
    ASSUME LeaseType, LeaseStep, NEW j \in Job
    PROVE  /\ status[j] = "DELETED" => status'[j] = "DELETED"
           /\ status[j] # "ABSENT" => status'[j] # "ABSENT"
<1>0. status \in [Job -> Status] /\ \A w \in Worker : \A c \in current[w] : c.job \in Job
  BY DEF LeaseType, LeaseTypeOK, Claim
<1>1. ASSUME NEW w \in Worker, Updates(w)
      PROVE  /\ status[j] = "DELETED" => status'[j] = "DELETED"
             /\ status[j] # "ABSENT" => status'[j] # "ABSENT"
  <2>1. PICK c \in current[w] : \E s \in {"DONE", "DEAD", "PENDING"} : SetStatus(c.job, s)
    BY <1>1 DEF Updates, markDone, markDead, scheduleRetry
  <2> QED
    BY <1>0, <2>1 DEF SetStatus
<1>2. ASSUME NEW w \in Worker, ClaimBatch(w)
      PROVE  /\ status[j] = "DELETED" => status'[j] = "DELETED"
             /\ status[j] # "ABSENT" => status'[j] # "ABSENT"
  BY <1>2, PickedAreJobs DEF ClaimBatch, Claimable
<1> QED
  BY <1>1, <1>2
     DEF LeaseStep, WorkerStep, TakesJob, BeginJob, EndTick, Works, UpdateLost, TimeStep, ComesDue,
         OrphanExpires, LeaseExpires, RowStep, Elsewhere, tableVars

LEMMA OneAtATimeStep ==
    ASSUME LeaseType, OneAtATime, LeaseStep
    PROVE  OneAtATime'
<1> USE DEF LeaseType, LeaseTypeOK, OneAtATime
<1>1. ASSUME NEW w \in Worker, WorkerStep(w)
      PROVE  OneAtATime'
  <2>1. CASE ClaimBatch(w)
    BY <2>1 DEF ClaimBatch, Goto
  <2>2. CASE TakesJob(w)
    BY <2>2 DEF TakesJob, BeginJob, Goto, Inside
  <2>3. CASE EndTick(w)
    BY <2>3 DEF EndTick, Goto
  <2>4. CASE Works(w) \/ UpdateLost(w)
    BY <2>4 DEF Works, UpdateLost, Goto, Inside
  <2>5. CASE EndJob(w)
    BY <2>5 DEF EndJob, Goto
  <2>6. CASE AbandonTick(w)
    BY <2>6 DEF AbandonTick, Goto
  <2> QED
    BY <1>1, <2>1, <2>2, <2>3, <2>4, <2>5, <2>6 DEF WorkerStep
<1>2. CASE UNCHANGED workerVars
  BY <1>2 DEF workerVars
<1> QED
  BY <1>1, <1>2 DEF LeaseStep, TimeStep, ComesDue, OrphanExpires, LeaseExpires, RowStep,
                        Elsewhere, tableVars

\* Only the claiming statement hands out claims.
LEMMA OthersHandOutNothing ==
    ASSUME LeaseType, LeaseStep, \A w \in Worker : ~ClaimBatch(w)
    PROVE  attempts' = attempts /\ \A v \in Worker : HeldBy(v)' \subseteq HeldBy(v)
<1> USE DEF LeaseType, LeaseTypeOK, HeldBy
<1>1. ASSUME NEW w \in Worker, WorkerStep(w)
      PROVE  attempts' = attempts /\ \A v \in Worker : HeldBy(v)' \subseteq HeldBy(v)
  <2>1. attempts' = attempts
    BY <1>1, UpdatesOneRow DEF WorkerStep, TakesJob, BeginJob, EndTick, Works, UpdateLost, tableVars
  <2>2. CASE TakesJob(w)
    BY <2>1, <2>2 DEF TakesJob, BeginJob
  <2>3. CASE EndTick(w) \/ Works(w) \/ UpdateLost(w)
    BY <2>1, <2>3 DEF EndTick, Works, UpdateLost
  <2>4. CASE EndJob(w) \/ AbandonTick(w)
    BY <2>1, <2>4 DEF EndJob, AbandonTick
  <2> QED
    BY <1>1, <2>2, <2>3, <2>4 DEF WorkerStep
<1>2. CASE UNCHANGED <<attempts, workerVars>>
  BY <1>2 DEF workerVars
<1> QED
  BY <1>1, <1>2 DEF LeaseStep, TimeStep, ComesDue, OrphanExpires, LeaseExpires, RowStep,
                        Elsewhere, tableVars

\* What a worker holds after claiming, and how the new claims are numbered.
LEMMA Claiming ==
    ASSUME LeaseType, OneAtATime, NEW w \in Worker, ClaimBatch(w)
    PROVE  /\ \A c \in HeldBy(w)' : c.job \in Picked /\ c.attempts = attempts[c.job] + 1
           /\ \A c, d \in HeldBy(w)' : c.job = d.job => c = d
           /\ \A v \in Worker \ {w} : HeldBy(v)' = HeldBy(v)
           /\ \A j \in Job : attempts'[j] = IF j \in Picked THEN attempts[j] + 1 ELSE attempts[j]
<1> USE DEF LeaseType, LeaseTypeOK
<1>1. current'[w] = {}
  BY DEF ClaimBatch, OneAtATime
<1>2. HeldBy(w)' = {[job |-> j, attempts |-> attempts[j] + 1] : j \in Picked}
  BY <1>1 DEF ClaimBatch, HeldBy, Counted
<1>3. \A v \in Worker \ {w} : HeldBy(v)' = HeldBy(v)
  BY DEF ClaimBatch, HeldBy
<1>4. \A j \in Job : attempts'[j] = IF j \in Picked THEN attempts[j] + 1 ELSE attempts[j]
  BY DEF ClaimBatch, Counted
<1> QED
  BY <1>2, <1>3, <1>4

LEMMA HeldAreRowsStep ==
    ASSUME LeaseType, OneAtATime, HeldAreRows, LeaseStep
    PROVE  HeldAreRows'
<1>0. \A v \in Worker : \A c \in HeldBy(v) : c.job \in Job
  BY DEF LeaseType, LeaseTypeOK, HeldBy, Claim
<1>1. CASE \A w \in Worker : ~ClaimBatch(w)
  BY <1>0, <1>1, OthersHandOutNothing, RowsRemain DEF HeldAreRows
<1>2. ASSUME NEW w \in Worker, ClaimBatch(w)
      PROVE  HeldAreRows'
  <2>1. /\ \A c \in HeldBy(w)' : c.job \in Picked /\ c.job \in Job
        /\ \A v \in Worker \ {w} : HeldBy(v)' = HeldBy(v)
    BY <1>2, Claiming, PickedAreJobs
  <2>2. \A j \in Picked : j \in Job /\ status'[j] = "CLAIMED"
    BY <1>2, PickedAreJobs DEF ClaimBatch
  <2> QED
    BY <1>0, <2>1, <2>2, RowsRemain DEF HeldAreRows
<1> QED
  BY <1>1, <1>2

LEMMA NumbersStep ==
    ASSUME LeaseType, OneAtATime, NumbersGrow, ClaimsAreNumbered, LeaseStep
    PROVE  NumbersGrow' /\ ClaimsAreNumbered'
<1>0. \A v \in Worker : \A c \in HeldBy(v) : c \in Claim /\ c.attempts \in Nat /\ c.job \in Job
  BY DEF LeaseType, LeaseTypeOK, HeldBy, Claim
<1>1. CASE \A w \in Worker : ~ClaimBatch(w)
  BY <1>1, OthersHandOutNothing DEF NumbersGrow, ClaimsAreNumbered
<1>2. ASSUME NEW w \in Worker, ClaimBatch(w)
      PROVE  NumbersGrow' /\ ClaimsAreNumbered'
  <2>1. /\ \A c \in HeldBy(w)' : /\ c.job \in Picked /\ c.job \in Job
                                 /\ c.attempts = attempts[c.job] + 1
                                 /\ c.attempts = attempts'[c.job]
        /\ \A c, d \in HeldBy(w)' : c.job = d.job => c = d
        /\ \A v \in Worker \ {w} : HeldBy(v)' = HeldBy(v)
        /\ \A j \in Job : attempts[j] \in Nat /\ attempts'[j] \in {attempts[j], attempts[j] + 1}
    BY <1>2, Claiming, PickedAreJobs DEF LeaseType, LeaseTypeOK
  <2>2. \A v \in Worker \ {w} : \A c \in HeldBy(v) : c.attempts <= attempts[c.job]
    BY DEF NumbersGrow
  <2>3. NumbersGrow'
    <3> SUFFICES ASSUME NEW v \in Worker, NEW c \in HeldBy(v)' PROVE c.attempts <= attempts'[c.job]
      BY DEF NumbersGrow
    <3>1. CASE v = w
      BY <2>1, <3>1
    <3>2. CASE v # w
      <4>1. c \in HeldBy(v)
        BY <2>1, <3>2
      <4> QED
        BY <1>0, <2>1, <2>2, <3>2, <4>1
    <3> QED
      BY <3>1, <3>2
  <2>4. ASSUME NEW v \in Worker \ {w}, NEW c \in HeldBy(v)', NEW d \in HeldBy(w)', c.job = d.job
        PROVE  c.attempts < d.attempts
    <3>1. c \in HeldBy(v)
      BY <2>1
    <3> QED
      BY <1>0, <2>1, <2>2, <2>4, <3>1
  <2>5. ClaimsAreNumbered'
    <3> SUFFICES ASSUME NEW v \in Worker, NEW u \in Worker, NEW c \in HeldBy(v)',
                        NEW d \in HeldBy(u)', c.job = d.job, c.attempts = d.attempts
                 PROVE  v = u /\ c = d
      BY DEF ClaimsAreNumbered
    <3>1. CASE v = w /\ u = w
      BY <2>1, <3>1
    <3>2. CASE v # w /\ u # w
      <4>1. c \in HeldBy(v) /\ d \in HeldBy(u)
        BY <2>1, <3>2
      <4> QED
        BY <4>1 DEF ClaimsAreNumbered
    <3>3. CASE v # w /\ u = w
      <4>1. c.attempts < d.attempts /\ c.attempts \in Nat
        BY <1>0, <2>1, <2>4, <3>3
      <4> QED
        BY <4>1
    <3>4. CASE v = w /\ u # w
      <4>1. d.attempts < c.attempts /\ d.attempts \in Nat
        BY <1>0, <2>1, <2>4, <3>4
      <4> QED
        BY <4>1
    <3> QED
      BY <3>1, <3>2, <3>3, <3>4
  <2> QED
    BY <2>3, <2>5
<1> QED
  BY <1>1, <1>2

----------------------------------------------------------------------------
(* Without a fault.                                                        *)

\* A count that is zero after a step was zero before it, and no fault was used.
LEMMA NoFaultYet ==
    ASSUME LeaseType, LeaseStep, faults' = 0
    PROVE  faults = 0 /\ ~UseFault
<1>1. faults \in Nat
  BY LeaseAssumption DEF LeaseType, LeaseTypeOK
<1>2. ~UseFault
  BY <1>1 DEF UseFault
<1> QED
  BY <1>2 DEF LeaseStep, WorkerStep, TimeStep, ComesDue, OrphanExpires, LeaseExpires, RowStep,
              Elsewhere

LEMMA FaultsAddUp ==
    ASSUME LeaseType, LeaseStep
    PROVE  /\ faults \in Nat /\ faults' \in Nat /\ faults <= faults'
           /\ UseFault => faults' = faults + 1
<1>1. faults \in Nat
  BY LeaseAssumption DEF LeaseType, LeaseTypeOK
<1>2. UNCHANGED faults \/ UseFault
  BY DEF LeaseStep, WorkerStep, TimeStep, ComesDue, OrphanExpires, LeaseExpires, RowStep, Elsewhere
<1> QED
  BY <1>1, <1>2 DEF UseFault

\* What a step that hands out nothing must keep of the rows of held jobs.
LEMMA AloneKept ==
    ASSUME LeaseType, Alone, LeaseStep, \A w \in Worker : ~ClaimBatch(w),
           \A v \in Worker : \A c \in HeldBy(v)' :
               /\ status'[c.job] \in {status[c.job], "DELETED"}
               /\ expired'[c.job] = expired[c.job]
    PROVE  Alone'
  BY OthersHandOutNothing DEF Alone

LEMMA AloneStep ==
    ASSUME LeaseType, OneAtATime, Alone, LeaseStep, ~UseFault
    PROVE  Alone'
<1>0. \A v \in Worker : \A c \in HeldBy(v) : c \in Claim /\ c.job \in Job
  BY DEF LeaseType, LeaseTypeOK, HeldBy, Claim
<1>1. ASSUME NEW w \in Worker, ClaimBatch(w)
      PROVE  Alone'
  <2>1. /\ \A c \in HeldBy(w)' : c.job \in Picked /\ c.job \in Job
        /\ \A c, d \in HeldBy(w)' : c.job = d.job => c = d
        /\ \A v \in Worker \ {w} : HeldBy(v)' = HeldBy(v)
    BY <1>1, Claiming, PickedAreJobs
  <2>2. \A v \in Worker : \A c \in HeldBy(v) : c.job \notin Picked
    BY PickedAreJobs DEF Alone, Claimable
  <2>3. \A j \in Job : /\ j \in Picked => status'[j] = "CLAIMED" /\ expired'[j] = FALSE
                       /\ j \notin Picked => status'[j] = status[j] /\ expired'[j] = expired[j]
    BY <1>1 DEF ClaimBatch
  <2> QED
    BY <1>0, <2>1, <2>2, <2>3 DEF Alone
<1>2. CASE \A w \in Worker : ~ClaimBatch(w)
  <2>0. \A v \in Worker : HeldBy(v)' \subseteq HeldBy(v)
    BY <1>2, OthersHandOutNothing
  <2>1. ASSUME NEW w \in Worker, WorkerStep(w)
        PROVE  Alone'
    <3>1. CASE UNCHANGED tableVars
      BY <1>2, <2>0, <3>1, AloneKept DEF tableVars
    <3>2. CASE Updates(w) /\ EndJob(w)
      <4>1. PICK c \in current[w] :
                 \A j \in Job \ {c.job} : status'[j] = status[j] /\ expired'[j] = expired[j]
        BY <3>2, UpdatesOneRow
      <4>2. c \in HeldBy(w) /\ c \notin HeldBy(w)'
        BY <3>2, <4>1 DEF EndJob, HeldBy, OneAtATime, LeaseType, LeaseTypeOK
      <4>3. ASSUME NEW v \in Worker, NEW d \in HeldBy(v)' PROVE d.job \in Job \ {c.job}
        <5>1. d \in HeldBy(v) /\ (v = w => d # c)
          BY <2>0, <4>2
        <5> QED
          BY <1>0, <4>2, <5>1 DEF Alone
      <4> QED
        BY <1>2, <4>1, <4>3, AloneKept
    <3> QED
      BY <1>2, <2>1, <3>1, <3>2
         DEF WorkerStep, TakesJob, BeginJob, EndTick, Works
  <2>2. ASSUME NEW j \in Job, TimeStep(j)
        PROVE  Alone'
    <3>1. ComesDue(j) \/ OrphanExpires(j)
      BY <2>2 DEF TimeStep, LeaseExpires
    <3>2. status' = status /\ \A v \in Worker : \A c \in HeldBy(v) : expired'[c.job] = expired[c.job]
      BY <1>0, <3>1 DEF ComesDue, OrphanExpires, Held, LeaseType, LeaseTypeOK
    <3> QED
      BY <1>2, <2>0, <3>2, AloneKept
  <2>3. CASE RowStep
    <3>1. \A j \in Job : status[j] # "ABSENT" => status'[j] \in {status[j], "DELETED"}
      BY <2>3 DEF RowStep
    <3>2. expired' = expired
      BY <2>3 DEF RowStep
    <3>3. \A v \in Worker : \A c \in HeldBy(v) : status[c.job] # "ABSENT"
      BY DEF Alone
    <3> QED
      BY <1>0, <1>2, <2>0, <3>1, <3>2, <3>3, AloneKept
  <2>4. CASE Elsewhere
    BY <1>2, <2>0, <2>4, AloneKept DEF Elsewhere, tableVars
  <2> QED
    BY <2>1, <2>2, <2>3, <2>4 DEF LeaseStep
<1> QED
  BY <1>1, <1>2

LEMMA LeaseInvStep ==
    ASSUME LeaseType, LeaseInv, LeaseStep
    PROVE  LeaseInv'
<1>1. OneAtATime' /\ HeldAreRows' /\ NumbersGrow' /\ ClaimsAreNumbered'
  BY OneAtATimeStep, HeldAreRowsStep, NumbersStep DEF LeaseInv
<1>2. ASSUME faults' = 0 PROVE Alone'
  <2>1. faults = 0 /\ ~UseFault
    BY <1>2, NoFaultYet
  <2>2. Alone
    BY <2>1 DEF LeaseInv
  <2> QED
    BY <2>1, <2>2, AloneStep DEF LeaseInv
<1> QED
  BY <1>1, <1>2 DEF LeaseInv, Alone

LEMMA LeaseInitially ==
    ASSUME LeaseInit, status \in [Job -> {"ABSENT", "PENDING"}], stage = [w \in Worker |-> "idle"]
    PROVE  LeaseType /\ LeaseInv
<1>1. LeaseType
  BY LeaseAssumption DEF LeaseInit, LeaseType, LeaseTypeOK, Status, Stages
<1>2. \A w \in Worker : HeldBy(w) = {}
  BY DEF LeaseInit, HeldBy
<1> QED
  BY <1>1, <1>2 DEF LeaseInv, OneAtATime, HeldAreRows, NumbersGrow, ClaimsAreNumbered, Alone, LeaseInit

\* Until something fails nothing but a deletion changes a closed row: whoever
\* updates a row holds it.
LEMMA ClosedStays ==
    ASSUME LeaseType, LeaseInv, LeaseStep, faults' = 0,
           NEW j \in Job, status[j] \in {"DONE", "DEAD"}
    PROVE  status'[j] \in {status[j], "DELETED"}
<1>1. faults = 0 /\ ~UseFault
  BY NoFaultYet
<1>2. ASSUME NEW w \in Worker, Updates(w)
      PROVE  status'[j] = status[j]
  <2>1. PICK c \in current[w] : \A i \in Job \ {c.job} : status'[i] = status[i]
    BY <1>2, UpdatesOneRow
  <2>2. c.job # j
    BY <1>1, <2>1 DEF LeaseInv, Alone, HeldBy
  <2> QED
    BY <2>1, <2>2
<1>3. ASSUME NEW w \in Worker, ClaimBatch(w)
      PROVE  status'[j] = status[j]
  BY <1>3, PickedAreJobs DEF ClaimBatch, Claimable
<1> QED
  BY <1>1, <1>2, <1>3
     DEF LeaseStep, WorkerStep, TakesJob, BeginJob, EndTick, Works, TimeStep, ComesDue,
         OrphanExpires, LeaseExpires, RowStep, Elsewhere, tableVars

\* No two workers have one job before a lease expired.
LEMMA AloneIsNotShared == LeaseInv => SharedOnlyAfterExpiry
  BY DEF LeaseInv, Alone, SharedOnlyAfterExpiry
=============================================================================
