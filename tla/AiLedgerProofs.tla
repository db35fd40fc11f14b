--------------------------- MODULE AiLedgerProofs ---------------------------
(***************************************************************************)
(* What an ETL run may do to the AI database, for every set of rows, of    *)
(* requests and of bounds: committed contexts are those of the committed   *)
(* ledger, and both change only together, to what the run has written to   *)
(* its files.  No lock, crash or deadlock victim is excepted.              *)
(***************************************************************************)
EXTENDS AiLedger, FiniteSetTheorems, TLAPS

\* What the ETL process knows at each stage.
InMemory == perAccount = Contexts(accepted)
FilesWritten ==
    /\ etl \notin {"off", "rows"} => records = accepted
    /\ etl \notin {"off", "rows", "files"} => prompts = perAccount
DraftIsLoaded == etl = "commit" => draft = Loaded

LoadInv == ContextsMatchLedger /\ InMemory /\ FilesWritten /\ DraftIsLoaded

LEMMA InitLoad == Init => LoadInv
  BY DEF Init, LoadInv, ContextsMatchLedger, InMemory, FilesWritten, DraftIsLoaded

\* The steps of the service, of clients and of the bank touch nothing of it.
LEMMA ElsewhereLoad ==
  ASSUME LoadInv, UNCHANGED <<fileVars, dbVars, etlVars>>
  PROVE  LoadInv'
  BY DEF LoadInv, ContextsMatchLedger, InMemory, FilesWritten, DraftIsLoaded, Loaded,
         fileVars, dbVars, etlVars, Contexts

\* A run that ends without commit leaves the tables as they were.
LEMMA EndLoad ==
  ASSUME LoadInv, EtlEnds, UNCHANGED <<fileVars, dbVars>>
  PROVE  LoadInv'
  BY DEF LoadInv, ContextsMatchLedger, InMemory, FilesWritten, DraftIsLoaded, EtlEnds,
         fileVars, dbVars, Contexts

\* Next, sorted by what it does to the load.
LEMMA NextSorted ==
  ASSUME [Next]_vars
  PROVE  \/ UNCHANGED <<fileVars, dbVars, etlVars>>
         \/ EtlEnds /\ UNCHANGED <<fileVars, dbVars>>
         \/ Export \/ Loads
<1>1. CASE UNCHANGED vars
  BY <1>1 DEF vars
<1>2. ASSUME NEW b \in Batches, Arrives(b)
      PROVE  UNCHANGED <<fileVars, dbVars, etlVars>>
  BY <1>2 DEF Arrives
<1>3. CASE Cleared \/ BootsIndex \/ BootsAlter \/ AiCrashes
  BY <1>3 DEF Cleared, BootsIndex, BootsAlter, AiCrashes
<1>4. CASE EtlFails \/ Detects
  BY <1>4 DEF EtlFails, Detects, DeadlockEndsEtl, DeadlockEndsAi
<1>5. ASSUME NEW q \in Request, Posts(q) \/ Serves(q) \/ ReadFails(q) \/ SaveFails(q)
      PROVE  UNCHANGED <<fileVars, dbVars, etlVars>>
  BY <1>5 DEF Posts, Serves, ReadFails, SaveFails, getLedger, getContext, HasRead,
              GeminiAnswers, GeminiRefuses, GeminiFails, AppliesRules, saveAdvice, Replies,
              systemVars
<1> QED
  BY <1>1, <1>2, <1>3, <1>4, <1>5 DEF Next

LEMMA LoadStep ==
  ASSUME LoadInv, [Next]_vars
  PROVE  LoadInv'
<1> USE DEF LoadInv, ContextsMatchLedger, InMemory, FilesWritten, DraftIsLoaded
<1>1. CASE UNCHANGED <<fileVars, dbVars, etlVars>>
  BY <1>1, ElsewhereLoad
<1>2. CASE EtlEnds /\ UNCHANGED <<fileVars, dbVars>>
  BY <1>2, EndLoad
<1>3. CASE Export
  BY <1>3 DEF Export, fileVars, dbVars, Contexts
<1>4. CASE WritesRecords
  BY <1>4 DEF WritesRecords, dbVars, Contexts
<1>5. CASE WritesPrompts
  BY <1>5 DEF WritesPrompts, dbVars, Contexts
<1>6. CASE IndexesLedger \/ AltersAdvices \/ TruncatesBoth
  BY <1>6 DEF IndexesLedger, AltersAdvices, TruncatesBoth, Truncate, fileVars, dbVars, Contexts
<1>7. CASE Inserts
  BY <1>7 DEF Inserts, Loaded, fileVars, dbVars, Contexts
<1>8. CASE Commits
  <2>1. ledger' = accepted /\ contexts' = perAccount
    BY <1>8 DEF Commits, Loaded
  <2> QED
    BY <1>8, <2>1 DEF Commits, EtlEnds, fileVars, Contexts
<1> QED
  BY <1>1, <1>2, <1>3, <1>4, <1>5, <1>6, <1>7, <1>8, NextSorted DEF Loads

LEMMA LoadInvariant == Spec => []LoadInv
<1>1. LoadInv /\ [Next]_vars => LoadInv'
  BY LoadStep
<1> QED
  BY InitLoad, <1>1, PTL DEF Spec

\* Committed contexts are always those of the committed ledger: whatever run
\* failed, died or lost a deadlock, no account keeps a context of another run.
THEOREM ContextsNeverStale == Spec => []ContextsMatchLedger
<1>1. LoadInv => ContextsMatchLedger
  BY DEF LoadInv
<1> QED
  BY LoadInvariant, <1>1, PTL

\* The ledger and its contexts change only in a commit, and then to the whole
\* of what the run wrote to clean_transactions.json and prompt_contexts.json.
THEOREM LedgerSwitchesWhole == Spec => SwitchesWhole
<1> DEFINE Switch == <<ledger, contexts>>' # <<ledger, contexts>> =>
                         ledger' = records /\ contexts' = prompts
<1>1. LoadInv /\ [Next]_vars => [Switch]_<<ledger, contexts>>
  <2> SUFFICES ASSUME LoadInv, [Next]_vars, <<ledger, contexts>>' # <<ledger, contexts>>
               PROVE  ledger' = records /\ contexts' = prompts
    OBVIOUS
  <2>1. Commits
    BY NextSorted DEF Loads, Export, WritesRecords, WritesPrompts, IndexesLedger,
       AltersAdvices, TruncatesBoth, Truncate, Inserts, dbVars
  <2>2. draft = Loaded /\ records = accepted /\ prompts = perAccount
    BY <2>1 DEF LoadInv, DraftIsLoaded, FilesWritten, Commits
  <2> QED
    BY <2>1, <2>2 DEF Commits, Loaded
<1> QED
  BY LoadInvariant, <1>1, PTL DEF Spec, SwitchesWhole

----------------------------------------------------------------------------
(* Types.                                                                  *)

Table == {"ai_transactions", "ai_prompt_contexts", "ai_advices"}
Lock == [table : Table, mode : {"share", "exclusive"}]

\* A request has read rows, and at most one context.
ReadType == read \in [Request -> [done : SUBSET {"ledger", "context"}, ledger : SUBSET Row,
                                  context : UNION {SUBSET {ContextOf(rows)} : rows \in SUBSET Row}]]

ResultType ==
    /\ result = [q \in Request |-> result[q]]
    /\ \A q \in Request : \A a \in result[q] : a.category \in Allowed

TypeInv == TypeOK /\ LoadInv /\ ReadType /\ ResultType

LEMMA ContextsType ==
    ASSUME NEW rows \in SUBSET Row
    PROVE  /\ DOMAIN Contexts(rows) = {Field[r].account : r \in rows}
           /\ \A a \in DOMAIN Contexts(rows) : Contexts(rows)[a] = ContextOf(OfAccount(rows, a))
  BY DEF Contexts, ContextsOf

LEMMA AcceptedType ==
    ASSUME NEW rows \in SUBSET Row
    PROVE  Accepted(rows) \in SUBSET Row /\ DOMAIN Contexts(Accepted(rows)) \subseteq Account
<1> DEFINE A == Accepted(rows)
<1>1. A \in SUBSET Row /\ \A r \in A : Field[r].account \in Account
  BY DEF Accepted, Accepts, hasAccount
<1> HIDE DEF A
<1>2. DOMAIN Contexts(A) = {Field[r].account : r \in A}
  BY <1>1, ContextsType
<1>3. DOMAIN Contexts(A) \subseteq Account
  BY <1>1, <1>2
<1> QED
  BY <1>1, <1>3 DEF A

LEMMA NoContexts == DOMAIN Contexts({}) = {}
<1>1. DOMAIN Contexts({}) = {Field[r].account : r \in {}}
  BY ContextsType
<1> QED
  BY <1>1

\* The rules know no category that the prompt does not allow.
LEMMA AdviceAllowed ==
    ASSUME NEW l, NEW context, NEW low, NEW a \in buildAdvice(l, context, low)
    PROVE  a.category \in Allowed
<1>1. CASE thin(l, context)
  <2>1. a = says("NEED_MORE_DATA")
    BY <1>1 DEF buildAdvice
  <2> QED
    BY <2>1 DEF says, Allowed
<1>2. CASE ~thin(l, context)
  <2>1. PICK c \in context :
           \/ \E k \in Spikes(c) : a = [category |-> "CATEGORY_SPIKE", about |-> k]
           \/ a = WithoutSpike(c, low)
    BY <1>2 DEF buildAdvice
  <2>2. CASE \E k \in Spikes(c) : a = [category |-> "CATEGORY_SPIKE", about |-> k]
    BY <2>2 DEF Allowed
  <2>3. PICK x \in Allowed : WithoutSpike(c, low) = says(x)
    BY DEF WithoutSpike, Allowed
  <2>4. CASE a = WithoutSpike(c, low)
    <3>1. a = says(x)
      BY <2>3, <2>4
    <3>2. a.category = x
      BY <3>1 DEF says
    <3> QED
      BY <3>2
  <2> QED
    BY <2>1, <2>2, <2>4
<1> QED
  BY <1>1, <1>2

LEMMA SmallSet == \A x : \A s \in SUBSET {x} : Cardinality(s) <= 1
<1> SUFFICES ASSUME NEW x, NEW s \in SUBSET {x} PROVE Cardinality(s) <= 1
  OBVIOUS
<1>1. s = {} \/ s = {x}
  OBVIOUS
<1>2. Cardinality({}) = 0 /\ Cardinality({x}) = 1
  BY FS_EmptySet, FS_Singleton
<1>3. Cardinality(s) = 0 \/ Cardinality(s) = 1
  BY <1>1, <1>2
<1> QED
  BY <1>3

\* The tables' locks, by what a step takes or gives back.
LEMMA GrantsType ==
    ASSUME TypeOK, NEW p \in Process, NEW ts \in SUBSET Table, NEW m \in {"share", "exclusive"},
           Grants(p, ts, m)
    PROVE  locks' \in [Process -> SUBSET Lock]
  BY DEF TypeOK, Grants, Lock, Table

LEMMA ReleasesType ==
    ASSUME TypeOK, NEW p \in Process, Releases(p)
    PROVE  locks' \in [Process -> SUBSET Lock]
  BY DEF TypeOK, Releases, Lock, Table

\* The parts of TypeOK that rows and files make up, ...
RowsType ==
    /\ raw \subseteq Row /\ csv \subseteq Row /\ accepted \subseteq Row
    /\ records \subseteq Row /\ ledger \subseteq Row /\ draft.ledger \subseteq Row
    /\ loads \subseteq SUBSET Row
    /\ DOMAIN prompts \subseteq Account /\ DOMAIN contexts \subseteq Account
    /\ DOMAIN perAccount \subseteq Account /\ DOMAIN draft.contexts \subseteq Account

\* ... those of the two processes, and those of the requests.
StageType ==
    /\ etl \in EtlStage /\ ai \in AiStage
    /\ locks \in [Process -> SUBSET Lock]
    /\ runs \in 0 .. MaxRuns /\ boots \in 0 .. MaxBoots /\ faults \in 0 .. MaxFaults

RequestType ==
    /\ request \in [Request -> RequestStage]
    /\ ReadType /\ ResultType
    /\ \A v \in advices : v.id \in Request /\ v.advice.category \in Allowed

LEMMA TypeParts == RowsType /\ StageType /\ RequestType <=> TypeOK /\ ReadType /\ ResultType
<1>1. ReadType => \A q \in Request : read[q].ledger \subseteq Row /\ Cardinality(read[q].context) <= 1
  <2> SUFFICES ASSUME ReadType, NEW q \in Request
               PROVE  read[q].ledger \subseteq Row /\ Cardinality(read[q].context) <= 1
    OBVIOUS
  <2>1. /\ read[q].ledger \subseteq Row
        /\ read[q].context \in UNION {SUBSET {ContextOf(rows)} : rows \in SUBSET Row}
    BY DEF ReadType
  <2>2. PICK x : read[q].context \in SUBSET {x}
    BY <2>1
  <2> QED
    BY <2>1, <2>2, SmallSet
<1> QED
  BY <1>1 DEF TypeOK, RowsType, StageType, RequestType, Lock, Table

LEMMA InitTypes == Init => TypeInv
<1> SUFFICES ASSUME Init PROVE TypeInv
  OBVIOUS
<1>1. \A c \in {prompts, contexts, perAccount, draft.contexts} : c = Contexts({})
  BY DEF Init, NoDraft
<1>2. \A c \in {prompts, contexts, perAccount, draft.contexts} : DOMAIN c \subseteq Account
  BY <1>1, NoContexts
<1>3. ReadType
  <2>1. {} \in UNION {SUBSET {ContextOf(rows)} : rows \in SUBSET Row}
    <3>1. {} \in SUBSET {ContextOf({})} /\ {} \in SUBSET Row
      OBVIOUS
    <3> QED
      BY <3>1
  <2> HIDE DEF TypeInv
  <2> QED
    BY <2>1 DEF Init, ReadType, NothingRead
<1>4. RowsType
  BY <1>2, RowsAssumption DEF Init, RowsType, NoDraft
<1>5. StageType
  BY BoundsAssumption DEF Init, StageType, EtlStage, AiStage, Process
<1>6. RequestType
  BY <1>3 DEF Init, RequestType, RequestStage, ResultType
<1> QED
  BY <1>4, <1>5, <1>6, InitLoad, TypeParts DEF TypeInv

LEMMA RowsStep ==
    ASSUME TypeInv, [Next]_vars
    PROVE  RowsType'
<1>0. RowsType
  BY TypeParts DEF TypeInv
<1>1. CASE UNCHANGED vars
  BY <1>0, <1>1 DEF vars, sourceVars, fileVars, dbVars, etlVars, RowsType
<1>2. ASSUME NEW b \in Batches, Arrives(b)
      PROVE  RowsType'
  BY <1>0, <1>2, RowsAssumption DEF Arrives, fileVars, dbVars, etlVars, RowsType
<1>3. CASE Cleared
  BY <1>0, <1>3 DEF Cleared, fileVars, dbVars, etlVars, RowsType
<1>4. CASE Export
  <2>1. csv' \subseteq Row /\ UNCHANGED <<raw, fileVars, dbVars, draft>>
        /\ accepted' = Accepted(csv') /\ perAccount' = Contexts(accepted')
    BY <1>0, <1>4 DEF Export, RowsType
  <2>2. accepted' \subseteq Row /\ DOMAIN perAccount' \subseteq Account
    BY <2>1, AcceptedType
  <2> QED
    BY <1>0, <2>1, <2>2 DEF fileVars, dbVars, RowsType
<1>5. CASE WritesRecords \/ WritesPrompts \/ IndexesLedger \/ AltersAdvices
  BY <1>0, <1>5 DEF WritesRecords, WritesPrompts, IndexesLedger, AltersAdvices,
     sourceVars, fileVars, dbVars, RowsType
<1>6. CASE TruncatesBoth
  <2>1. draft'.ledger = {} /\ DOMAIN draft'.contexts = {}
    BY <1>6, NoContexts DEF TruncatesBoth, Truncate, NoDraft
  <2> QED
    BY <1>0, <1>6, <2>1 DEF TruncatesBoth, Truncate, sourceVars, fileVars, dbVars, RowsType
<1>7. CASE Inserts
  BY <1>0, <1>7 DEF Inserts, Loaded, sourceVars, fileVars, dbVars, RowsType
<1>8. ASSUME EtlEnds
      PROVE  /\ accepted' = {} /\ draft'.ledger = {}
             /\ DOMAIN perAccount' = {} /\ DOMAIN draft'.contexts = {}
  BY <1>8, NoContexts DEF EtlEnds, NoDraft
<1>9. CASE Commits
  <2>1. UNCHANGED <<sourceVars, fileVars>> /\ ledger' = draft.ledger /\ contexts' = draft.contexts
        /\ loads' = loads \cup {draft.ledger} /\ EtlEnds
    BY <1>9 DEF Commits
  <2> QED
    BY <1>0, <1>8, <2>1 DEF sourceVars, fileVars, RowsType
<1>10. CASE EtlFails \/ Detects
  BY <1>0, <1>8, <1>10 DEF EtlFails, Detects, DeadlockEndsEtl, DeadlockEndsAi,
     sourceVars, fileVars, dbVars, etlVars, RowsType
<1>11. CASE BootsIndex \/ BootsAlter \/ AiCrashes
  BY <1>0, <1>11 DEF BootsIndex, BootsAlter, AiCrashes, sourceVars, fileVars, dbVars, etlVars, RowsType
<1>12. ASSUME NEW q \in Request, Posts(q) \/ Serves(q) \/ ReadFails(q) \/ SaveFails(q)
       PROVE  RowsType'
  BY <1>0, <1>12 DEF Posts, Serves, ReadFails, SaveFails, getLedger, getContext, HasRead,
              GeminiAnswers, GeminiRefuses, GeminiFails, AppliesRules, saveAdvice, Replies,
              systemVars, sourceVars, fileVars, dbVars, etlVars, RowsType
<1> QED
  BY <1>1, <1>2, <1>3, <1>4, <1>5, <1>6, <1>7, <1>9, <1>10, <1>11, <1>12 DEF Next, Loads

LEMMA StageStep ==
    ASSUME TypeInv, [Next]_vars
    PROVE  StageType'
<1>0. StageType /\ TypeOK /\ BoundsAssumption
  BY TypeParts, BoundsAssumption DEF TypeInv
<1>1. "etl" \in Process /\ "ai" \in Process
  BY DEF Process
<1>2. CASE UNCHANGED vars
  BY <1>0, <1>2 DEF vars, etlVars, counters, StageType
<1>3. ASSUME NEW b \in Batches, Arrives(b)
      PROVE  StageType'
  BY <1>0, <1>3 DEF Arrives, etlVars, counters, StageType
<1>4. CASE Cleared \/ Export \/ WritesRecords \/ WritesPrompts \/ Inserts
  BY <1>0, <1>4 DEF Cleared, Export, WritesRecords, WritesPrompts, Inserts, etlVars, counters,
     StageType, EtlStage, BoundsAssumption
<1>5. CASE IndexesLedger \/ AltersAdvices \/ TruncatesBoth
  <2>1. locks' \in [Process -> SUBSET Lock]
    BY <1>0, <1>1, <1>5, GrantsType DEF IndexesLedger, AltersAdvices, TruncatesBoth, Table
  <2> QED
    BY <1>0, <1>5, <2>1 DEF IndexesLedger, AltersAdvices, TruncatesBoth, counters, StageType, EtlStage
<1>6. CASE Commits \/ EtlFails
  <2>1. EtlEnds
    BY <1>6 DEF Commits, EtlFails
  <2>2. locks' \in [Process -> SUBSET Lock] /\ etl' = "off"
    BY <1>0, <1>1, <2>1, ReleasesType DEF EtlEnds
  <2> QED
    BY <1>0, <1>6, <2>2 DEF Commits, EtlFails, counters, StageType, EtlStage, BoundsAssumption
<1>7. CASE BootsIndex
  <2>1. locks' \in [Process -> SUBSET Lock]
    BY <1>0, <1>1, <1>7, GrantsType DEF BootsIndex, Table
  <2> QED
    BY <1>0, <1>7, <2>1 DEF BootsIndex, etlVars, StageType, AiStage, BoundsAssumption
<1>8. CASE BootsAlter \/ AiCrashes
  <2>1. locks' \in [Process -> SUBSET Lock]
    BY <1>0, <1>1, <1>8, ReleasesType DEF BootsAlter, AiCrashes, AiDies
  <2> QED
    BY <1>0, <1>8, <2>1 DEF BootsAlter, AiCrashes, AiDies, etlVars, counters, StageType, AiStage,
       BoundsAssumption
<1>9. CASE Detects
  <2>1. locks' \in [Process -> SUBSET Lock]
    BY <1>0, <1>1, <1>9, ReleasesType DEF Detects, DeadlockEndsEtl, DeadlockEndsAi, AiDies, EtlEnds
  <2> QED
    BY <1>0, <1>9, <2>1 DEF Detects, DeadlockEndsEtl, DeadlockEndsAi, AiDies, EtlEnds, etlVars,
       counters, StageType, EtlStage, AiStage
<1>10. ASSUME NEW q \in Request, Posts(q) \/ Serves(q) \/ ReadFails(q) \/ SaveFails(q)
       PROVE  StageType'
  <2>1. UNCHANGED systemVars /\ faults' \in 0 .. MaxFaults
    <3>1. CASE Posts(q) \/ Serves(q)
      BY <1>0, <3>1 DEF Posts, Serves, getLedger, getContext, HasRead, GeminiAnswers, GeminiRefuses,
         GeminiFails, AppliesRules, saveAdvice, Replies, StageType
    <3>2. CASE ReadFails(q) \/ SaveFails(q)
      BY <1>0, <3>2 DEF ReadFails, SaveFails, StageType, BoundsAssumption
    <3> QED
      BY <1>10, <3>1, <3>2
  <2> QED
    BY <1>0, <2>1 DEF systemVars, etlVars, StageType
<1> QED
  BY <1>2, <1>3, <1>4, <1>5, <1>6, <1>7, <1>8, <1>9, <1>10 DEF Next, Loads

\* Next, sorted by what it does to the requests.
Handles(q) == Posts(q) \/ Serves(q) \/ ReadFails(q) \/ SaveFails(q)

LEMMA RequestSorted ==
    ASSUME [Next]_vars
    PROVE  \/ UNCHANGED requestVars
           \/ AiDies /\ UNCHANGED <<read, result, advices>>
           \/ \E q \in Request : Handles(q)
<1>1. CASE UNCHANGED vars
  BY <1>1 DEF vars
<1>2. ASSUME NEW b \in Batches, Arrives(b)
      PROVE  UNCHANGED requestVars
  BY <1>2 DEF Arrives
<1>3. CASE Cleared \/ Export \/ EtlFails \/ BootsIndex \/ BootsAlter \/ DeadlockEndsEtl
  BY <1>3 DEF Cleared, Export, EtlFails, BootsIndex, BootsAlter, DeadlockEndsEtl
<1>4. CASE Loads
  BY <1>4 DEF Loads, WritesRecords, WritesPrompts, IndexesLedger, AltersAdvices, TruncatesBoth,
     Inserts, Commits
<1>5. CASE AiCrashes \/ DeadlockEndsAi
  BY <1>5 DEF AiCrashes, DeadlockEndsAi
<1> QED
  BY <1>1, <1>2, <1>3, <1>4, <1>5 DEF Next, Detects, Handles

\* What a step of a request is.
LEMMA HandlesSorted ==
    ASSUME NEW q \in Request, Handles(q)
    PROVE  /\ UNCHANGED systemVars
           /\ \/ getLedger(q) \/ getContext(q)
              \/ GeminiAnswers(q) \/ AppliesRules(q)
              \/ saveAdvice(q) \/ SaveFails(q)
              \/ /\ UNCHANGED <<read, result, advices>>
                 /\ \/ /\ request[q] = "new"
                       /\ GoesTo(q, "400") \/ GoesTo(q, "reading")
                    \/ /\ request[q] \in {"reading", "gemini", "again"}
                       /\ GoesTo(q, "gemini") \/ GoesTo(q, "again") \/ GoesTo(q, "rules") \/ GoesTo(q, "500")
                    \/ request[q] = "reply" /\ GoesTo(q, "200")
<1>1. CASE Posts(q)
  BY <1>1 DEF Posts
<1>2. CASE HasRead(q) \/ GeminiRefuses(q) \/ GeminiFails(q) \/ Replies(q)
  BY <1>2 DEF HasRead, GeminiRefuses, GeminiFails, Replies, AfterBadRequest
<1>3. CASE ReadFails(q)
  BY <1>3 DEF ReadFails
<1>4. CASE getLedger(q) \/ getContext(q) \/ GeminiAnswers(q) \/ AppliesRules(q) \/ saveAdvice(q)
           \/ SaveFails(q)
  BY <1>4 DEF getLedger, getContext, GeminiAnswers, AppliesRules, saveAdvice, SaveFails
<1> QED
  BY <1>1, <1>2, <1>3, <1>4 DEF Handles, Serves

LEMMA ResultSet ==
    ASSUME ResultType, NEW q \in Request, NEW s, NEW c \in Allowed, NEW b,
           result' = [result EXCEPT ![q] = {[source |-> s, category |-> c, about |-> b]}]
    PROVE  ResultType'
<1> DEFINE a == [source |-> s, category |-> c, about |-> b]
<1>1. a.category \in Allowed /\ result' = [result EXCEPT ![q] = {a}]
  OBVIOUS
<1> HIDE DEF a
<1>2. result = [p \in Request |-> result[p]]
  BY DEF ResultType
<1>3. \A p \in Request : result'[p] = IF p = q THEN {a} ELSE result[p]
  BY <1>1, <1>2
<1>4. result' = [p \in Request |-> result'[p]]
  BY <1>1, <1>2
<1> QED
  BY <1>1, <1>3, <1>4 DEF ResultType

LEMMA RequestStep ==
    ASSUME TypeInv, [Next]_vars
    PROVE  RequestType'
<1>0. RequestType /\ RowsType /\ LoadInv
  BY TypeParts DEF TypeInv
<1>1. CASE UNCHANGED requestVars
  BY <1>0, <1>1 DEF requestVars, RequestType, ReadType, ResultType
<1>2. CASE AiDies /\ UNCHANGED <<read, result, advices>>
  <2>1. request' \in [Request -> RequestStage]
    BY <1>0, <1>2 DEF AiDies, RequestType, RequestStage
  <2> QED
    BY <1>0, <1>2, <2>1 DEF RequestType, ReadType, ResultType
<1>3. ASSUME NEW q \in Request, Handles(q)
      PROVE  RequestType'
  <2> DEFINE Seen == UNION {SUBSET {ContextOf(rows)} : rows \in SUBSET Row}
             ReadRecord == [done : SUBSET {"ledger", "context"}, ledger : SUBSET Row, context : Seen]
  <2>0. /\ request \in [Request -> RequestStage]
        /\ read \in [Request -> ReadRecord] /\ ResultType
        /\ \A v \in advices : v.id \in Request /\ v.advice.category \in Allowed
    BY <1>0 DEF RequestType, ReadType
  <2>1. CASE getLedger(q)
    <3> DEFINE d == read[q].done \cup {"ledger"}
               l == OfAccount(ledger, AccountOf[q])
    <3>1. read' = [read EXCEPT ![q].done = d, ![q].ledger = l] /\ UNCHANGED <<request, result, advices>>
      BY <2>1 DEF getLedger
    <3>2. read[q] \in ReadRecord /\ d \in SUBSET {"ledger", "context"} /\ l \in SUBSET Row
      BY <1>0, <2>0 DEF RowsType, OfAccount
    <3> HIDE DEF Seen, d, l
    <3>3. read' \in [Request -> ReadRecord]
      BY <2>0, <3>1, <3>2
    <3> QED
      BY <2>0, <3>1, <3>3 DEF RequestType, ReadType, ResultType, Seen
  <2>2. CASE getContext(q)
    <3> DEFINE d == read[q].done \cup {"context"}
               c == {contexts[a] : a \in DOMAIN contexts \cap {AccountOf[q]}}
    <3>1. read' = [read EXCEPT ![q].done = d, ![q].context = c] /\ UNCHANGED <<request, result, advices>>
      BY <2>2 DEF getContext
    <3>2. c \in Seen
      <4> DEFINE mine == OfAccount(ledger, AccountOf[q])
      <4>1. mine \in SUBSET Row /\ ledger \in SUBSET Row /\ contexts = Contexts(ledger)
        BY <1>0 DEF RowsType, OfAccount, LoadInv, ContextsMatchLedger
      <4>2. \A a \in DOMAIN contexts \cap {AccountOf[q]} : contexts[a] = ContextOf(mine)
        BY <4>1, ContextsType
      <4> HIDE DEF mine
      <4>3. c \in SUBSET {ContextOf(mine)}
        BY <4>2
      <4> QED
        BY <4>1, <4>3
    <3>3. read[q] \in ReadRecord /\ d \in SUBSET {"ledger", "context"}
      BY <2>0
    <3> HIDE DEF Seen, d, c
    <3>4. read' \in [Request -> ReadRecord]
      BY <2>0, <3>1, <3>2, <3>3
    <3> QED
      BY <2>0, <3>1, <3>4 DEF RequestType, ReadType, ResultType, Seen
  <2>3. CASE GeminiAnswers(q)
    <3>1. PICK c \in Allowed :
             result' = [result EXCEPT ![q] = {[source |-> "gemini", category |-> c, about |-> ""]}]
      BY <2>3, GeminiAssumption DEF GeminiAnswers
    <3>2. ResultType'
      BY <2>0, <3>1, ResultSet
    <3>3. request' \in [Request -> RequestStage] /\ UNCHANGED <<read, advices>>
      BY <2>0, <2>3 DEF GeminiAnswers, GoesTo, RequestStage
    <3> QED
      BY <1>0, <3>2, <3>3 DEF RequestType, ReadType
  <2>4. CASE AppliesRules(q)
    <3>1. PICK a \in buildAdvice(read[q].ledger, read[q].context, q \in LowBalance) :
            result' = [result EXCEPT ![q] =
                         {[source |-> "rules", category |-> a.category, about |-> a.about]}]
      BY <2>4 DEF AppliesRules
    <3>2. a.category \in Allowed
      BY AdviceAllowed
    <3>3. ResultType'
      BY <2>0, <3>1, <3>2, ResultSet
    <3>4. request' \in [Request -> RequestStage] /\ UNCHANGED <<read, advices>>
      BY <2>0, <2>4 DEF AppliesRules, GoesTo, RequestStage
    <3> QED
      BY <1>0, <3>3, <3>4 DEF RequestType, ReadType
  <2>5. CASE saveAdvice(q) \/ SaveFails(q)
    <3>1. \A v \in Saved(q) : v.id = q /\ v.advice \in result[q]
      BY DEF Saved
    <3>2. /\ advices' \subseteq advices \cup Saved(q) /\ UNCHANGED <<read, result>>
          /\ request' \in [Request -> RequestStage]
      BY <2>0, <2>5 DEF saveAdvice, SaveFails, GoesTo, RequestStage, AfterFailedSave
    <3>3. \A v \in advices' : v.id \in Request /\ v.advice.category \in Allowed
      BY <2>0, <3>1, <3>2 DEF ResultType
    <3> QED
      BY <1>0, <3>2, <3>3 DEF RequestType, ReadType, ResultType
  <2>6. CASE UNCHANGED <<read, result, advices>> /\ \E s \in RequestStage : GoesTo(q, s)
    <3>1. request' \in [Request -> RequestStage]
      BY <2>0, <2>6 DEF GoesTo
    <3> QED
      BY <1>0, <2>6, <3>1 DEF RequestType, ReadType, ResultType
  <2> QED
    BY <1>3, <2>1, <2>2, <2>3, <2>4, <2>5, <2>6, HandlesSorted DEF RequestStage
<1> QED
  BY <1>1, <1>2, <1>3, RequestSorted

LEMMA TypeInvariant == Spec => []TypeInv
<1>1. TypeInv /\ [Next]_vars => (RowsType /\ StageType /\ RequestType /\ LoadInv)'
  BY RowsStep, StageStep, RequestStep, LoadStep DEF TypeInv
<1>2. RowsType /\ StageType /\ RequestType /\ LoadInv <=> TypeInv
  BY TypeParts DEF TypeInv, RequestType
<1> QED
  BY <1>1, <1>2, InitTypes, PTL DEF Spec

\* Every variable keeps its type, for every set of rows, requests and bounds:
\* among others no request reads two contexts, and no advice is outside ALLOWED.
THEOREM AiTypeCorrect == Spec => []TypeOK
<1>1. TypeInv => TypeOK
  BY DEF TypeInv
<1> QED
  BY <1>1, TypeInvariant, PTL

----------------------------------------------------------------------------
(* Answers.                                                                *)

SavedOf(q) == {v.advice : v \in {w \in advices : w.id = q}}
Unsaved == {"new", "reading", "gemini", "again", "rules", "save", "400"}

\* Before its INSERT a request has no row, afterwards the one it will answer.
AnswerInv ==
    \A q \in Request : /\ request[q] \in Unsaved => SavedOf(q) = {}
                       /\ request[q] \in {"reply", "200"} => SavedOf(q) = result[q]

LEMMA AnswerStep ==
    ASSUME TypeInv, AnswerInv, [Next]_vars
    PROVE  AnswerInv'
<1>0. request \in [Request -> RequestStage] /\ result = [q \in Request |-> result[q]]
  BY DEF TypeInv, TypeOK, ResultType
<1>1. CASE UNCHANGED requestVars
  BY <1>1 DEF requestVars, AnswerInv, SavedOf
<1>2. CASE AiDies /\ UNCHANGED <<read, result, advices>>
  <2>1. \A q \in Request : request'[q] \in {request[q], "lost"}
    BY <1>0, <1>2 DEF AiDies
  <2>2. \A q \in Request : SavedOf(q)' = SavedOf(q)
    BY <1>2 DEF SavedOf
  <2> QED
    BY <1>2, <2>1, <2>2 DEF AnswerInv, Unsaved
<1>3. ASSUME NEW q \in Request, Handles(q)
      PROVE  AnswerInv'
  <2>1. CASE getLedger(q) \/ getContext(q)
    BY <2>1 DEF getLedger, getContext, AnswerInv, SavedOf
  <2>2. CASE GeminiAnswers(q) \/ AppliesRules(q)
    <3>1. /\ request[q] \in Unsaved /\ request' = [request EXCEPT ![q] = "save"] /\ UNCHANGED advices
          /\ \A p \in Request \ {q} : result'[p] = result[p]
      BY <1>0, <2>2 DEF GeminiAnswers, AppliesRules, GoesTo, Unsaved
    <3>2. \A p \in Request : SavedOf(p)' = SavedOf(p)
      BY <3>1 DEF SavedOf
    <3> QED
      BY <1>0, <3>1, <3>2 DEF AnswerInv, Unsaved
  <2>3. CASE saveAdvice(q) \/ SaveFails(q)
    <3>1. /\ request[q] = "save" /\ UNCHANGED result
          /\ \/ request' = [request EXCEPT ![q] = "reply"] /\ advices' = advices \cup Saved(q)
             \/ request' = [request EXCEPT ![q] = "500"] /\ advices' \subseteq advices \cup Saved(q)
          /\ advices \subseteq advices'
      BY <2>3 DEF saveAdvice, SaveFails, GoesTo, AfterFailedSave
    <3>2. \A v \in Saved(q) : v.id = q /\ v.advice \in result[q]
      BY DEF Saved
    <3>3. ASSUME NEW p \in Request \ {q}
          PROVE  SavedOf(p)' = SavedOf(p)
      <4>1. {w \in advices' : w.id = p} = {w \in advices : w.id = p}
        BY <3>1, <3>2
      <4> QED
        BY <4>1 DEF SavedOf
    <3>4. advices' = advices \cup Saved(q) => SavedOf(q)' = result[q]
      <4> SUFFICES ASSUME advices' = advices \cup Saved(q) PROVE SavedOf(q)' = result[q]
        OBVIOUS
      <4>1. \A w \in advices : w.id # q
        BY <3>1 DEF AnswerInv, SavedOf, Unsaved
      <4>2. {w \in advices' : w.id = q} = Saved(q)
        BY <3>2, <4>1
      <4>3. {v.advice : v \in Saved(q)} = result[q]
        <5>1. ASSUME NEW a \in result[q] PROVE \E v \in Saved(q) : v.advice = a
          <6>1. [id |-> q, advice |-> a] \in Saved(q)
            BY DEF Saved
          <6> QED
            BY <6>1
        <5> QED
          BY <3>2, <5>1
      <4> QED
        BY <4>2, <4>3 DEF SavedOf
    <3> QED
      BY <1>0, <3>1, <3>3, <3>4 DEF AnswerInv, Unsaved
  <2>4. CASE /\ UNCHANGED <<read, result, advices>>
             /\ \/ /\ request[q] = "new"
                   /\ GoesTo(q, "400") \/ GoesTo(q, "reading")
                \/ /\ request[q] \in {"reading", "gemini", "again"}
                   /\ GoesTo(q, "gemini") \/ GoesTo(q, "again") \/ GoesTo(q, "rules") \/ GoesTo(q, "500")
                \/ request[q] = "reply" /\ GoesTo(q, "200")
    <3>1. \A p \in Request : SavedOf(p)' = SavedOf(p)
      BY <2>4 DEF SavedOf
    <3> QED
      BY <1>0, <2>4, <3>1 DEF AnswerInv, Unsaved, GoesTo
  <2> QED
    BY <1>3, <2>1, <2>2, <2>3, <2>4, HandlesSorted
<1> QED
  BY <1>1, <1>2, <1>3, RequestSorted

\* A client that is told 200 finds its advice, and only that one, among the
\* saved ones, whichever reads, calls of Gemini, inserts and processes failed.
THEOREM AnswersAreSaved == Spec => []AnsweredIsSaved
<1>1. Init => AnswerInv
  BY DEF Init, AnswerInv, SavedOf
<1>2. TypeInv /\ AnswerInv /\ [Next]_vars => AnswerInv'
  BY AnswerStep
<1>3. AnswerInv => AnsweredIsSaved
  BY DEF AnswerInv, AnsweredIsSaved, SavedOf
<1> QED
  BY <1>1, <1>2, <1>3, TypeInvariant, PTL DEF Spec

----------------------------------------------------------------------------
(* Sums.  Amount folds over a set in the order CHOOSE gives; that the fold  *)
(* is defined at all, and a number, takes the induction below.              *)

Choice(s) == CHOOSE r \in s : TRUE
Sums(f, T) ==
    f = [s \in SUBSET T |-> IF s = {} THEN 0 ELSE Field[Choice(s)].amount + f[s \ {Choice(s)}]]
LEMMA SmallestSet ==
    ASSUME NEW T, IsFiniteSet(T), NEW Bad \in SUBSET (SUBSET T), Bad # {}
    PROVE  \E s \in Bad : \A u \in Bad : ~(u \subseteq s /\ u # s)
<1>1. IsWellFoundedOn(StrictSubsetOrdering(T), SUBSET T)
  BY FS_StrictSubsetOrderingWellFounded, FS_FiniteSubsetsOfFinite
<1>2. PICK s \in Bad : \A u \in Bad : ~(<<u, s>> \in StrictSubsetOrdering(T))
  BY <1>1, WFMin
<1> QED
  BY <1>2 DEF StrictSubsetOrdering

\* Two such sums agree wherever both are defined ...
LEMMA SumsAgree ==
    ASSUME NEW T, IsFiniteSet(T), NEW U \in SUBSET T, NEW f, NEW g, Sums(f, T), Sums(g, U)
    PROVE  \A s \in SUBSET U : f[s] = g[s]
<1> DEFINE Bad == {s \in SUBSET U : f[s] # g[s]}
<1> SUFFICES ASSUME Bad # {} PROVE FALSE
  OBVIOUS
<1>1. IsFiniteSet(U)
  BY FS_Subset
<1>2. PICK s \in Bad : \A u \in Bad : ~(u \subseteq s /\ u # s)
  <2>1. Bad \in SUBSET (SUBSET U)
    OBVIOUS
  <2> HIDE DEF Bad
  <2> QED
    BY <1>1, <2>1, SmallestSet
<1>3. s \in SUBSET T /\ s \in SUBSET U
  BY <1>2
<1>4. CASE s = {}
  BY <1>2, <1>3, <1>4 DEF Sums
<1>5. CASE s # {}
  <2>1. Choice(s) \in s
    BY <1>5 DEF Choice
  <2>2. s \ {Choice(s)} \notin Bad
    BY <1>2, <2>1
  <2>3. f[s \ {Choice(s)}] = g[s \ {Choice(s)}]
    BY <1>3, <2>2
  <2>4. f[s] = Field[Choice(s)].amount + f[s \ {Choice(s)}]
    BY <1>3, <1>5 DEF Sums
  <2>5. g[s] = Field[Choice(s)].amount + g[s \ {Choice(s)}]
    BY <1>3, <1>5 DEF Sums
  <2> QED
    BY <1>2, <2>3, <2>4, <2>5
<1> QED
  BY <1>4, <1>5

\* ... and there is one for every finite set.
LEMMA SumsExist ==
    ASSUME NEW T, IsFiniteSet(T)
    PROVE  \E f : Sums(f, T)
<1> DEFINE Bad == {s \in SUBSET T : ~ \E f : Sums(f, s)}
<1> SUFFICES ASSUME Bad # {} PROVE FALSE
  OBVIOUS
<1>1. PICK U \in Bad : \A u \in Bad : ~(u \subseteq U /\ u # U)
  <2>1. Bad \in SUBSET (SUBSET T)
    OBVIOUS
  <2> HIDE DEF Bad
  <2> QED
    BY <2>1, SmallestSet
<1>2. U \in SUBSET T /\ IsFiniteSet(U) /\ ~ \E f : Sums(f, U)
  BY <1>1, FS_Subset
<1> DEFINE part(u) == CHOOSE f : Sums(f, u)
           total == [s \in SUBSET U |->
                       IF s = {} THEN 0 ELSE Field[Choice(s)].amount + part(s \ {Choice(s)})[s \ {Choice(s)}]]
<1>3. \A u \in SUBSET U : u # U => Sums(part(u), u)
  <2> SUFFICES ASSUME NEW u \in SUBSET U, u # U PROVE \E f : Sums(f, u)
    OBVIOUS
  <2> QED
    BY <1>1
<1> HIDE DEF part, Bad
<1>4. ASSUME NEW u \in SUBSET U, u # U
      PROVE  total[u] = part(u)[u]
  <2>1. Sums(part(u), u)
    BY <1>3, <1>4
  <2>2. CASE u = {}
    BY <2>1, <2>2 DEF Sums
  <2>3. CASE u # {}
    <3>1. Choice(u) \in u
      BY <2>3 DEF Choice
    <3> DEFINE w == u \ {Choice(u)}
    <3>2. w \in SUBSET u /\ w \in SUBSET U /\ w # U
      BY <1>4, <3>1
    <3>3. Sums(part(w), w)
      BY <1>3, <3>2
    <3>4. IsFiniteSet(u)
      BY <1>2, FS_Subset
    <3> HIDE DEF w
    <3>5. part(u)[w] = part(w)[w]
      BY <2>1, <3>2, <3>3, <3>4, SumsAgree
    <3>6. part(u)[u] = Field[Choice(u)].amount + part(u)[w]
      BY <2>1, <2>3 DEF Sums, w
    <3>7. total[u] = Field[Choice(u)].amount + part(w)[w]
      BY <2>3 DEF w
    <3> QED
      BY <3>5, <3>6, <3>7
  <2> QED
    BY <2>2, <2>3
<1>5. Sums(total, U)
  <2>1. ASSUME NEW s \in SUBSET U, s # {}
        PROVE  total[s] = Field[Choice(s)].amount + total[s \ {Choice(s)}]
    <3>1. Choice(s) \in s
      BY <2>1 DEF Choice
    <3>2. s \ {Choice(s)} \in SUBSET U /\ s \ {Choice(s)} # U
      BY <3>1
    <3>3. total[s \ {Choice(s)}] = part(s \ {Choice(s)})[s \ {Choice(s)}]
      BY <1>4, <3>2
    <3> QED
      BY <2>1, <3>3
  <2>2. total[{}] = 0
    OBVIOUS
  <2>3. total = [s \in SUBSET U |-> total[s]]
    OBVIOUS
  <2> HIDE DEF total
  <2> QED
    BY <2>1, <2>2, <2>3 DEF Sums
<1> QED
  BY <1>2, <1>5

\* Amount takes the rows in the order CHOOSE gives ...
LEMMA AmountByChoice ==
    ASSUME NEW T, IsFiniteSet(T)
    PROVE  /\ Amount({}) = 0
           /\ T # {} => Choice(T) \in T /\ Amount(T) = Field[Choice(T)].amount + Amount(T \ {Choice(T)})
<1>1. \A U : Amount(U) = (CHOOSE f : Sums(f, U))[U]
  BY DEF Amount, MapThenSumSet, MapThenFoldSet, Sums, Choice
<1>2. \A U \in SUBSET T : Sums(CHOOSE f : Sums(f, U), U)
  BY SumsExist, FS_Subset
<1>3. {} \in SUBSET T /\ T \in SUBSET T
  OBVIOUS
<1>4. Amount({}) = 0
  <2>1. Sums(CHOOSE f : Sums(f, {}), {})
    BY <1>2, <1>3
  <2>2. (CHOOSE f : Sums(f, {}))[{}] = 0
    BY <2>1 DEF Sums
  <2> QED
    BY <1>1, <2>2
<1>5. ASSUME T # {}
      PROVE  Choice(T) \in T /\ Amount(T) = Field[Choice(T)].amount + Amount(T \ {Choice(T)})
  <2> DEFINE U == T \ {Choice(T)}
             f == CHOOSE h : Sums(h, T)
             g == CHOOSE h : Sums(h, U)
  <2>1. Choice(T) \in T
    BY <1>5 DEF Choice
  <2>2. U \in SUBSET T
    OBVIOUS
  <2>3. Sums(f, T) /\ Sums(g, U)
    BY <1>2, <1>3, <2>2
  <2>4. Amount(T) = f[T] /\ Amount(U) = g[U]
    BY <1>1
  <2> HIDE DEF f, g
  <2>5. f[T] = Field[Choice(T)].amount + f[U]
    BY <1>5, <2>3 DEF Sums
  <2> HIDE DEF U
  <2>6. f[U] = g[U]
    BY <2>2, <2>3, SumsAgree
  <2> QED
    BY <2>1, <2>4, <2>5, <2>6 DEF U
<1> QED
  BY <1>4, <1>5

\* ... and is a number.
LEMMA AmountType ==
    ASSUME NEW T \in SUBSET Row
    PROVE  Amount(T) \in Int
<1> DEFINE Bad == {s \in SUBSET T : Amount(s) \notin Int}
<1> SUFFICES ASSUME Bad # {} PROVE FALSE
  OBVIOUS
<1>1. PICK s \in Bad : \A u \in Bad : ~(u \subseteq s /\ u # s)
  <2>1. Bad \in SUBSET (SUBSET T)
    OBVIOUS
  <2>2. IsFiniteSet(T)
    BY RowAssumption, FS_Subset
  <2> HIDE DEF Bad
  <2> QED
    BY <2>1, <2>2, SmallestSet
<1>2. IsFiniteSet(s) /\ s \subseteq Row /\ Amount(s) \notin Int
  BY <1>1, FS_Subset, RowAssumption
<1>3. s # {}
  <2>1. Amount({}) = 0
    BY <1>2, AmountByChoice
  <2> QED
    BY <1>2, <2>1
<1>4. Choice(s) \in s /\ Amount(s) = Field[Choice(s)].amount + Amount(s \ {Choice(s)})
  BY <1>2, <1>3, AmountByChoice
<1>5. Amount(s \ {Choice(s)}) \in Int
  BY <1>1, <1>2, <1>4
<1> QED
  BY <1>2, <1>4, <1>5, RowAssumption

----------------------------------------------------------------------------
(* Spikes.                                                                 *)

\* A ratio of two, as the ETL rounds it, is a doubling but for the rounding.
LEMMA RatioDoubles ==
    ASSUME NEW c \in Int, NEW p \in Int, p > 0, ratio(c, p) >= 200
    PROVE  200 * c >= 399 * p
<1> DEFINE q == (200 * c + p) \div (2 * p)
<1>1. ratio(c, p) = q
  BY DEF ratio
<1>2. q \in Int /\ (2 * p) * q <= 200 * c + p
  OBVIOUS
<1>3. q >= 200
  BY <1>1
<1> HIDE DEF q
<1>4. (2 * p) * 200 <= (2 * p) * q
  BY <1>2, <1>3
<1> QED
  BY <1>2, <1>4

LEMMA SpentIsAmount ==
    ASSUME NEW l, NEW a, NEW k, NEW month
    PROVE  Amount(Debits(InCategory(OfAccount(l, a), k), month)) = Spent(l, a, k, month)
<1>1. Debits(InCategory(OfAccount(l, a), k), month) =
        {r \in l : /\ Field[r].account = a /\ Field[r].category = k /\ Field[r].month = month
                   /\ Field[r].nature = "D" /\ Field[r].status = "COMPLETED"}
  BY DEF Debits, Completed, InCategory, OfAccount
<1> QED
  BY <1>1 DEF Spent

\* A spike in a context of a ledger is a doubling in that ledger.
LEMMA SpikeDoubles ==
    ASSUME NEW l \in SUBSET Row, NEW a, NEW k \in Spikes(ContextOf(OfAccount(l, a)))
    PROVE  Doubled(l, a, k)
<1> DEFINE mine == OfAccount(l, a)
           c == ContextOf(mine)
           now == Amount(Debits(InCategory(mine, k), CurrentMonth))
           before == Amount(Debits(InCategory(mine, k), PreviousMonth))
<1>1. k \in DOMAIN c.categories /\ c.categories[k].previous > 0 /\ c.categories[k].ratio >= 200
  <2> HIDE DEF c
  <2> QED
    BY DEF c, Spikes, Top, Ranked
<1>2. c.categories = [x \in {Field[r].category : r \in mine} |-> Compared(InCategory(mine, x))]
  BY DEF ContextOf
<1> HIDE DEF c
<1>3. c.categories[k] = Compared(InCategory(mine, k))
  BY <1>1, <1>2
<1>4. c.categories[k].previous = before /\ c.categories[k].ratio = ratio(now, before)
  BY <1>3 DEF Compared
<1>5. now \in Int /\ before \in Int
  <2>1. \A month : Debits(InCategory(mine, k), month) \in SUBSET Row
    BY DEF Debits, Completed, InCategory, OfAccount
  <2> QED
    BY <2>1, AmountType
<1>6. 200 * now >= 399 * before /\ before > 0
  <2> HIDE DEF now, before
  <2> QED
    BY <1>1, <1>4, <1>5, RatioDoubles
<1>7. now = Spent(l, a, k, CurrentMonth) /\ before = Spent(l, a, k, PreviousMonth)
  BY SpentIsAmount
<1> HIDE DEF now, before
<1> QED
  BY <1>6, <1>7 DEF Doubled

LEMMA AdvisedSpike ==
    ASSUME NEW l, NEW context, NEW low, NEW a \in buildAdvice(l, context, low),
           a.category = "CATEGORY_SPIKE"
    PROVE  \E c \in context : a.about \in Spikes(c)
<1>1. ~thin(l, context)
  <2> SUFFICES ASSUME thin(l, context) PROVE FALSE
    OBVIOUS
  <2>1. a = says("NEED_MORE_DATA")
    BY DEF buildAdvice
  <2> QED
    BY <2>1 DEF says
<1>2. PICK c \in context :
         \/ \E k \in Spikes(c) : a = [category |-> "CATEGORY_SPIKE", about |-> k]
         \/ a = WithoutSpike(c, low)
  BY <1>1 DEF buildAdvice
<1>3. WithoutSpike(c, low).category # "CATEGORY_SPIKE"
  BY DEF WithoutSpike, says
<1> QED
  BY <1>2, <1>3

\* An advice that warns of a spike is about one.
Grounded(q, v) ==
    v.source = "rules" /\ v.category = "CATEGORY_SPIKE" =>
        \E l \in loads : Doubled(l, AccountOf[q], v.about)

\* What requests have read comes from loads that were committed.
SpikeInv ==
    /\ ledger \in loads
    /\ \A q \in Request : \A c \in read[q].context :
          \E l \in loads : c = ContextOf(OfAccount(l, AccountOf[q]))
    /\ \A q \in Request : \A v \in result[q] : Grounded(q, v)
    /\ \A v \in advices : Grounded(v.id, v.advice)

LEMMA SpikeStep ==
    ASSUME TypeInv, SpikeInv, [Next]_vars
    PROVE  SpikeInv'
<1>0. /\ read \in [Request -> [done : SUBSET {"ledger", "context"}, ledger : SUBSET Row,
                              context : UNION {SUBSET {ContextOf(rows)} : rows \in SUBSET Row}]]
      /\ result = [q \in Request |-> result[q]]
      /\ loads \subseteq SUBSET Row /\ contexts = Contexts(ledger) /\ ledger \in SUBSET Row
  BY DEF TypeInv, TypeOK, ResultType, ReadType, LoadInv, ContextsMatchLedger
<1>1. loads \subseteq loads' /\ ledger' \in loads'
  <2>1. CASE UNCHANGED dbVars
    BY <2>1 DEF dbVars, SpikeInv
  <2>2. CASE Commits
    BY <2>2 DEF Commits
  <2> QED
    BY <2>1, <2>2, NextSorted DEF Loads, Export, WritesRecords, WritesPrompts, IndexesLedger,
       AltersAdvices, TruncatesBoth, Truncate, Inserts, dbVars
<1>2. \A q, v : Grounded(q, v) => Grounded(q, v)'
  <2>1. \A l, a, c : Doubled(l, a, c)' = Doubled(l, a, c)
    BY DEF Doubled, Spent
  <2> QED
    BY <1>1, <2>1 DEF Grounded
<1>3. CASE UNCHANGED <<read, result, advices>>
  <2>1. \A q \in Request : \A c \in read'[q].context :
          \E l \in loads' : c = ContextOf(OfAccount(l, AccountOf[q]))
    BY <1>1, <1>3 DEF SpikeInv
  <2>2. \A q \in Request : \A v \in result'[q] : Grounded(q, v)'
    BY <1>1, <1>2, <1>3 DEF SpikeInv
  <2>3. \A v \in advices' : Grounded(v.id, v.advice)'
    BY <1>1, <1>2, <1>3 DEF SpikeInv
  <2> QED
    BY <1>1, <2>1, <2>2, <2>3 DEF SpikeInv
<1>4. ASSUME NEW q \in Request, Handles(q)
      PROVE  SpikeInv'
  <2>1. UNCHANGED <<ledger, contexts, loads>>
    BY <1>4, HandlesSorted DEF systemVars, dbVars
  <2>2. CASE getLedger(q)
    <3>1. UNCHANGED <<result, advices>> /\ \A p \in Request : read'[p].context = read[p].context
      BY <1>0, <2>2 DEF getLedger
    <3> QED
      BY <2>1, <3>1, <1>1, <1>2 DEF SpikeInv
  <2>3. CASE getContext(q)
    <3>1. /\ UNCHANGED <<result, advices>>
          /\ \A p \in Request \ {q} : read'[p].context = read[p].context
          /\ read'[q].context = {contexts[a] : a \in DOMAIN contexts \cap {AccountOf[q]}}
      BY <1>0, <2>3 DEF getContext
    <3>2. \A c \in read'[q].context : c = ContextOf(OfAccount(ledger, AccountOf[q]))
      <4>1. \A a \in DOMAIN contexts : contexts[a] = ContextOf(OfAccount(ledger, a))
        BY <1>0, ContextsType, Zenon
      <4> QED
        BY <3>1, <4>1
    <3>3. \A p \in Request : \A c \in read'[p].context :
            \E l \in loads : c = ContextOf(OfAccount(l, AccountOf[p]))
      BY <3>1, <3>2 DEF SpikeInv
    <3> QED
      BY <2>1, <3>1, <3>3, <1>1, <1>2 DEF SpikeInv
  <2>4. CASE GeminiAnswers(q)
    <3>1. PICK c : result' = [result EXCEPT ![q] = {[source |-> "gemini", category |-> c, about |-> ""]}]
      BY <2>4 DEF GeminiAnswers
    <3>2. \A v \in result'[q] : v.source = "gemini"
      <4> DEFINE g == [source |-> "gemini", category |-> c, about |-> ""]
      <4>1. result' = [result EXCEPT ![q] = {g}] /\ g.source = "gemini"
        BY <3>1
      <4> HIDE DEF g
      <4> QED
        BY <1>0, <4>1
    <3>3. UNCHANGED <<read, advices>> /\ \A p \in Request \ {q} : result'[p] = result[p]
      BY <1>0, <2>4, <3>1 DEF GeminiAnswers
    <3>4. \A p \in Request : \A v \in result'[p] : Grounded(p, v)
      BY <3>2, <3>3 DEF SpikeInv, Grounded
    <3> QED
      BY <2>1, <3>3, <3>4, <1>1, <1>2 DEF SpikeInv
  <2>5. CASE AppliesRules(q)
    <3>1. PICK a \in buildAdvice(read[q].ledger, read[q].context, q \in LowBalance) :
            result' = [result EXCEPT ![q] =
                         {[source |-> "rules", category |-> a.category, about |-> a.about]}]
      BY <2>5 DEF AppliesRules
    <3>2. \A v \in result'[q] : v.category = a.category /\ v.about = a.about
      BY <1>0, <3>1
    <3>3. a.category = "CATEGORY_SPIKE" => \E l \in loads : Doubled(l, AccountOf[q], a.about)
      <4> SUFFICES ASSUME a.category = "CATEGORY_SPIKE"
                   PROVE  \E l \in loads : Doubled(l, AccountOf[q], a.about)
        OBVIOUS
      <4>1. PICK c \in read[q].context : a.about \in Spikes(c)
        BY AdvisedSpike
      <4>2. PICK l \in loads : c = ContextOf(OfAccount(l, AccountOf[q]))
        BY <4>1 DEF SpikeInv
      <4>3. Doubled(l, AccountOf[q], a.about)
        BY <1>0, <4>1, <4>2, SpikeDoubles
      <4> QED
        BY <4>3
    <3>4. UNCHANGED <<read, advices>> /\ \A p \in Request \ {q} : result'[p] = result[p]
      BY <1>0, <2>5, <3>1 DEF AppliesRules
    <3>5. \A p \in Request : \A v \in result'[p] : Grounded(p, v)
      BY <3>2, <3>3, <3>4 DEF SpikeInv, Grounded
    <3> QED
      BY <2>1, <3>4, <3>5, <1>1, <1>2 DEF SpikeInv
  <2>6. CASE saveAdvice(q) \/ SaveFails(q)
    <3>1. UNCHANGED <<read, result>> /\ advices' \subseteq advices \cup Saved(q)
      BY <2>6 DEF saveAdvice, SaveFails
    <3>2. \A v \in Saved(q) : v.id = q /\ v.advice \in result[q]
      BY DEF Saved
    <3>3. \A v \in advices' : Grounded(v.id, v.advice)
      BY <3>1, <3>2 DEF SpikeInv
    <3> QED
      BY <2>1, <3>1, <3>3, <1>1, <1>2 DEF SpikeInv
  <2> QED
    BY <1>3, <1>4, <2>2, <2>3, <2>4, <2>5, <2>6, HandlesSorted
<1> QED
  BY <1>3, <1>4, RequestSorted DEF requestVars

\* When the rules warn of a category, spending in it doubled in a ledger that
\* was loaded, whatever two ledgers the request read its rows and context from.
THEOREM SpikesAreReal == Spec => []SpikeIsReal
<1>1. Init => SpikeInv
  BY DEF Init, SpikeInv, NothingRead
<1>2. TypeInv /\ SpikeInv /\ [Next]_vars => SpikeInv'
  BY SpikeStep
<1>3. SpikeInv => SpikeIsReal
  BY DEF SpikeInv, SpikeIsReal, Grounded
<1> QED
  BY <1>1, <1>2, <1>3, TypeInvariant, PTL DEF Spec
=============================================================================
