------------------------------ MODULE AiLedger ------------------------------
(***************************************************************************)
(* The AI database between its two users: the ETL, which reloads ledger    *)
(* and contexts in one transaction, and the AI service, which answers each *)
(* request from two separate reads and saves its advice.  One ETL run at a *)
(* time; every statement is a step, and so is a lock it waits for.         *)
(***************************************************************************)
EXTENDS EtlRules

CONSTANTS
    Batches,            \* sets of rows that reach raw_transactions together
    Sample,             \* rows of the CSV file that lies in testdata at first
    Request,            \* calls of POST /v1/recommend
    AccountOf,          \* [Request -> account number, or "" where it is missing]
    LowBalance,         \* requests whose balance is below 200
    geminiConfigured,   \* BOOLEAN
    GeminiSays,         \* categories Gemini may answer, filtered by ALLOWED
    MaxRuns,            \* bound: ETL runs
    MaxBoots,           \* bound: starts of the AI service
    MaxFaults           \* bound: crashes and failing statements

Allowed == {"CATEGORY_SPIKE", "MONTHLY_SPIKE", "CARD_REJECTION",
            "ALERT_LOW_BALANCE", "SPENDING_INSIGHT", "NEED_MORE_DATA"}

ASSUME RowsAssumption == Sample \subseteq Row /\ Batches \subseteq SUBSET Row
ASSUME GeminiAssumption == geminiConfigured \in BOOLEAN /\ GeminiSays \subseteq Allowed
ASSUME BoundsAssumption == MaxRuns \in Nat /\ MaxBoots \in Nat /\ MaxFaults \in Nat

VARIABLES
    raw,                \* raw_transactions of the bank database
    csv,                \* raw_transactions.csv: the last export, or the sample
    etl,                \* stage of the ETL process
    accepted,           \* its rows that passed transform()
    perAccount,         \* and their contexts
    records, prompts,   \* clean_transactions.json, prompt_contexts.json
    ledger, contexts,   \* ai_transactions, ai_prompt_contexts
    draft,              \* the same two, as the ETL's open transaction has them
    locks,              \* [process -> table locks its transaction holds]
    ai,                 \* stage of the AI service's process
    request,            \* [Request -> stage]
    read,               \* [Request -> what it has read so far]
    result,             \* [Request -> the advice it will save, as a set]
    advices,            \* rows of ai_advices
    loads,              \* every ledger that was ever committed
    runs, boots, faults \* counters for the bounds

sourceVars == <<raw, csv>>
fileVars == <<records, prompts>>
dbVars == <<ledger, contexts, loads>>
etlVars == <<etl, accepted, perAccount, draft>>
requestVars == <<request, read, result, advices>>
counters == <<runs, boots, faults>>
vars == <<sourceVars, fileVars, dbVars, etlVars, locks, ai, requestVars, counters>>

Process == {"etl", "ai"}
EtlStage == {"off", "rows", "files", "index", "alter", "truncate", "insert", "commit"}
AiStage == {"down", "alter", "up"}
RequestStage == {"new", "reading", "gemini", "again", "rules", "save", "reply", "200", "400", "500", "lost"}
InService == {"reading", "gemini", "again", "rules", "save", "reply"}

NothingRead == [done |-> {}, ledger |-> {}, context |-> {}]
NoDraft == [ledger |-> {}, contexts |-> Contexts({})]

Init ==
    /\ raw = {}
    /\ csv = Sample
    /\ etl = "off" /\ accepted = {} /\ perAccount = Contexts({}) /\ draft = NoDraft
    /\ records = {} /\ prompts = Contexts({})
    /\ ledger = {} /\ contexts = Contexts({}) /\ loads = {{}}
    /\ locks = [p \in Process |-> {}]
    /\ ai = "down"
    /\ request = [q \in Request |-> "new"]
    /\ read = [q \in Request |-> NothingRead]
    /\ result = [q \in Request |-> {}]
    /\ advices = {}
    /\ runs = 0 /\ boots = 0 /\ faults = 0

----------------------------------------------------------------------------
(* Table locks.  CREATE INDEX IF NOT EXISTS takes SHARE and ALTER TABLE and *)
(* TRUNCATE take ACCESS EXCLUSIVE, whether or not they find work to do.     *)

Other(p) == IF p = "etl" THEN "ai" ELSE "etl"

\* The other process holds none of the tables against this mode.
Grantable(p, tables, mode) ==
    \A l \in locks[Other(p)] : l.table \in tables => l.mode = "share" /\ mode = "share"

Grants(p, tables, mode) ==
    /\ Grantable(p, tables, mode)
    /\ locks' = [locks EXCEPT ![p] = @ \cup {[table |-> t, mode |-> mode] : t \in tables}]

Releases(p) == locks' = [locks EXCEPT ![p] = {}]

\* A SELECT or an INSERT of the pool passes SHARE locks of the ledger's index.
Accessible(table) ==
    \A p \in Process : [table |-> table, mode |-> "exclusive"] \notin locks[p]

----------------------------------------------------------------------------
(* Rows that reach the bank database, and clearAll.                        *)

Arrives(b) ==
    /\ ~(b \subseteq raw)
    /\ raw' = raw \cup b
    /\ UNCHANGED <<csv, fileVars, dbVars, etlVars, locks, ai, requestVars, counters>>

Cleared ==
    /\ raw # {}
    /\ raw' = {}
    /\ UNCHANGED <<csv, fileVars, dbVars, etlVars, locks, ai, requestVars, counters>>

----------------------------------------------------------------------------
(* transform.py --from-db.                                                 *)

\* An empty table leaves the CSV of the run before, or the sample, as input.
Export ==
    /\ etl = "off" /\ runs < MaxRuns
    /\ csv' = IF raw # {} THEN raw ELSE csv
    /\ accepted' = Accepted(csv')
    /\ perAccount' = Contexts(accepted')
    /\ etl' = "rows"
    /\ runs' = runs + 1
    /\ UNCHANGED <<raw, fileVars, dbVars, draft, locks, ai, requestVars, boots, faults>>

WritesRecords ==
    /\ etl = "rows"
    /\ records' = accepted
    /\ etl' = "files"
    /\ UNCHANGED <<sourceVars, prompts, dbVars, accepted, perAccount, draft, locks, ai, requestVars, counters>>

WritesPrompts ==
    /\ etl = "files"
    /\ prompts' = perAccount
    /\ etl' = "index"
    /\ UNCHANGED <<sourceVars, records, dbVars, accepted, perAccount, draft, locks, ai, requestVars, counters>>

IndexesLedger ==
    /\ etl = "index"
    /\ Grants("etl", {"ai_transactions"}, "share")
    /\ etl' = "alter"
    /\ UNCHANGED <<sourceVars, fileVars, dbVars, accepted, perAccount, draft, ai, requestVars, counters>>

AltersAdvices ==
    /\ etl = "alter"
    /\ Grants("etl", {"ai_advices"}, "exclusive")
    /\ etl' = "truncate"
    /\ UNCHANGED <<sourceVars, fileVars, dbVars, accepted, perAccount, draft, ai, requestVars, counters>>

\* Mutant of Truncate: the tables are emptied before the transaction.
TruncateAtOnce ==
    /\ draft' = NoDraft
    /\ ledger' = {} /\ contexts' = Contexts({}) /\ loads' = loads \cup {{}}

Truncate ==
    /\ draft' = NoDraft
    /\ UNCHANGED dbVars

TruncatesBoth ==
    /\ etl = "truncate"
    /\ Grants("etl", {"ai_transactions", "ai_prompt_contexts"}, "exclusive")
    /\ Truncate
    /\ etl' = "insert"
    /\ UNCHANGED <<sourceVars, fileVars, accepted, perAccount, ai, requestVars, counters>>

\* Mutant of Loaded: contexts are replaced one by one, never removed.
LoadedOverOld ==
    [ledger |-> accepted,
     contexts |-> [a \in DOMAIN perAccount \cup DOMAIN contexts |->
                      IF a \in DOMAIN perAccount THEN perAccount[a] ELSE contexts[a]]]

Loaded == [ledger |-> accepted, contexts |-> perAccount]

Inserts ==
    /\ etl = "insert"
    /\ draft' = Loaded
    /\ etl' = "commit"
    /\ UNCHANGED <<sourceVars, fileVars, dbVars, accepted, perAccount, locks, ai, requestVars, counters>>

\* The process ends, and its memory, transaction and locks with it.
EtlEnds ==
    /\ etl' = "off"
    /\ accepted' = {} /\ perAccount' = Contexts({}) /\ draft' = NoDraft
    /\ Releases("etl")

Commits ==
    /\ etl = "commit"
    /\ ledger' = draft.ledger /\ contexts' = draft.contexts
    /\ loads' = loads \cup {draft.ledger}
    /\ EtlEnds
    /\ UNCHANGED <<sourceVars, fileVars, ai, requestVars, counters>>

EtlFails ==
    /\ etl # "off"
    /\ EtlEnds
    /\ faults < MaxFaults /\ faults' = faults + 1
    /\ UNCHANGED <<sourceVars, fileVars, dbVars, ai, requestVars, runs, boots>>

----------------------------------------------------------------------------
(* The AI service starts: ensureSchema() is one implicit transaction.      *)

BootsIndex ==
    /\ ai = "down" /\ boots < MaxBoots
    /\ Grants("ai", {"ai_transactions"}, "share")
    /\ ai' = "alter"
    /\ boots' = boots + 1
    /\ UNCHANGED <<sourceVars, fileVars, dbVars, etlVars, requestVars, runs, faults>>

BootsAlter ==
    /\ ai = "alter"
    /\ Grantable("ai", {"ai_advices"}, "exclusive")
    /\ Releases("ai")
    /\ ai' = "up"
    /\ UNCHANGED <<sourceVars, fileVars, dbVars, etlVars, requestVars, counters>>

\* The process dies, and with it the requests it serves.
AiDies ==
    /\ ai' = "down"
    /\ Releases("ai")
    /\ request' = [q \in Request |-> IF request[q] \in InService THEN "lost" ELSE request[q]]

AiCrashes ==
    /\ ai # "down"
    /\ AiDies
    /\ faults < MaxFaults /\ faults' = faults + 1
    /\ UNCHANGED <<sourceVars, fileVars, dbVars, etlVars, read, result, advices, runs, boots>>

\* The ETL waits for the ledger's SHARE lock of the starting service, which
\* waits for ai_advices: PostgreSQL ends one of the two.
Deadlock ==
    /\ etl = "truncate" /\ ~Grantable("etl", {"ai_transactions"}, "exclusive")
    /\ ai = "alter" /\ ~Grantable("ai", {"ai_advices"}, "exclusive")

DeadlockEndsEtl ==
    /\ Deadlock
    /\ EtlEnds
    /\ UNCHANGED <<sourceVars, fileVars, dbVars, ai, requestVars, counters>>

DeadlockEndsAi ==
    /\ Deadlock
    /\ AiDies
    /\ UNCHANGED <<sourceVars, fileVars, dbVars, etlVars, read, result, advices, counters>>

----------------------------------------------------------------------------
(* POST /v1/recommend: advise().                                           *)

GoesTo(q, s) == request' = [request EXCEPT ![q] = s]
systemVars == <<sourceVars, fileVars, dbVars, etlVars, locks, ai, runs, boots>>

Posts(q) ==
    /\ ai = "up" /\ request[q] = "new"
    /\ GoesTo(q, IF AccountOf[q] = "" THEN "400" ELSE "reading")
    /\ UNCHANGED <<systemVars, read, result, advices, faults>>

getLedger(q) ==
    /\ request[q] = "reading" /\ "ledger" \notin read[q].done
    /\ Accessible("ai_transactions")
    /\ read' = [read EXCEPT ![q].done = @ \cup {"ledger"},
                            ![q].ledger = OfAccount(ledger, AccountOf[q])]
    /\ UNCHANGED <<systemVars, request, result, advices, faults>>

getContext(q) ==
    /\ request[q] = "reading" /\ "context" \notin read[q].done
    /\ Accessible("ai_prompt_contexts")
    /\ read' = [read EXCEPT ![q].done = @ \cup {"context"},
                            ![q].context = {contexts[a] : a \in DOMAIN contexts \cap {AccountOf[q]}}]
    /\ UNCHANGED <<systemVars, request, result, advices, faults>>

\* Promise.all resolves.
HasRead(q) ==
    /\ request[q] = "reading" /\ read[q].done = {"ledger", "context"}
    /\ GoesTo(q, IF geminiConfigured THEN "gemini" ELSE "rules")
    /\ UNCHANGED <<systemVars, read, result, advices, faults>>

GeminiAnswers(q) ==
    /\ request[q] \in {"gemini", "again"}
    /\ \E c \in GeminiSays :
         result' = [result EXCEPT ![q] = {[source |-> "gemini", category |-> c, about |-> ""]}]
    /\ GoesTo(q, "save")
    /\ UNCHANGED <<systemVars, read, advices, faults>>

\* Mutant of AfterBadRequest: every refusal turns the budget over.
TogglesBudget(s) == IF s = "gemini" THEN "again" ELSE "gemini"

AfterBadRequest(s) == IF s = "gemini" THEN "again" ELSE "rules"

\* HTTP 400: once more without the thinking budget.
GeminiRefuses(q) ==
    /\ request[q] \in {"gemini", "again"}
    /\ GoesTo(q, AfterBadRequest(request[q]))
    /\ UNCHANGED <<systemVars, read, result, advices, faults>>

\* Timeout, another status, an empty answer, or one that is no JSON.
GeminiFails(q) ==
    /\ request[q] \in {"gemini", "again"}
    /\ GoesTo(q, "rules")
    /\ UNCHANGED <<systemVars, read, result, advices, faults>>

AppliesRules(q) ==
    /\ request[q] = "rules"
    /\ \E a \in buildAdvice(read[q].ledger, read[q].context, q \in LowBalance) :
         result' = [result EXCEPT ![q] =
                       {[source |-> "rules", category |-> a.category, about |-> a.about]}]
    /\ GoesTo(q, "save")
    /\ UNCHANGED <<systemVars, read, advices, faults>>

Saved(q) == {[id |-> q, advice |-> a] : a \in result[q]}

saveAdvice(q) ==
    /\ request[q] = "save" /\ Accessible("ai_advices")
    /\ advices' = advices \cup Saved(q)
    /\ GoesTo(q, "reply")
    /\ UNCHANGED <<systemVars, read, result, faults>>

Replies(q) ==
    /\ request[q] = "reply"
    /\ GoesTo(q, "200")
    /\ UNCHANGED <<systemVars, read, result, advices, faults>>

\* Mutant of AfterFailedSave: the answer does not wait for the row.
AnswersAnyway == "200"

AfterFailedSave == "500"

\* A statement fails: Promise.all or advise() rejects.  The INSERT may have
\* taken effect.
ReadFails(q) ==
    /\ request[q] = "reading"
    /\ GoesTo(q, "500")
    /\ faults < MaxFaults /\ faults' = faults + 1
    /\ UNCHANGED <<systemVars, read, result, advices>>

SaveFails(q) ==
    /\ request[q] = "save"
    /\ GoesTo(q, AfterFailedSave)
    /\ advices' \in {advices, advices \cup Saved(q)}
    /\ faults < MaxFaults /\ faults' = faults + 1
    /\ UNCHANGED <<systemVars, read, result>>

Serves(q) ==
    \/ getLedger(q) \/ getContext(q) \/ HasRead(q)
    \/ GeminiAnswers(q) \/ GeminiRefuses(q) \/ GeminiFails(q) \/ AppliesRules(q)
    \/ saveAdvice(q) \/ Replies(q)

Loads ==
    \/ WritesRecords \/ WritesPrompts \/ IndexesLedger \/ AltersAdvices
    \/ TruncatesBoth \/ Inserts \/ Commits

Detects == DeadlockEndsEtl \/ DeadlockEndsAi

Next ==
    \/ \E b \in Batches : Arrives(b)
    \/ Cleared \/ Export \/ Loads \/ EtlFails
    \/ BootsIndex \/ BootsAlter \/ AiCrashes \/ Detects
    \/ \E q \in Request : Posts(q) \/ Serves(q) \/ ReadFails(q) \/ SaveFails(q)

Spec == Init /\ [][Next]_vars

\* An ETL run goes on, PostgreSQL finds deadlocks, and the event loop goes on
\* with a request, whose fetch has a timeout.  Nobody is obliged to start a run,
\* the service or a request.
FairSpec ==
    /\ Spec
    /\ WF_vars(Loads \/ Detects)
    /\ \A q \in Request : WF_vars(Serves(q))

----------------------------------------------------------------------------
(* Properties.                                                             *)

\* Every variable keeps its type.
TypeOK ==
    /\ raw \subseteq Row /\ csv \subseteq Row /\ accepted \subseteq Row
    /\ records \subseteq Row /\ ledger \subseteq Row /\ draft.ledger \subseteq Row
    /\ loads \subseteq SUBSET Row
    /\ \A c \in {prompts, contexts, perAccount, draft.contexts} : DOMAIN c \subseteq Account
    /\ etl \in EtlStage /\ ai \in AiStage
    /\ locks \in [Process -> SUBSET [table : {"ai_transactions", "ai_prompt_contexts", "ai_advices"},
                                     mode : {"share", "exclusive"}]]
    /\ request \in [Request -> RequestStage]
    /\ \A q \in Request : read[q].ledger \subseteq Row /\ Cardinality(read[q].context) <= 1
    /\ \A v \in advices : v.id \in Request /\ v.advice.category \in Allowed
    /\ runs \in 0 .. MaxRuns /\ boots \in 0 .. MaxBoots /\ faults \in 0 .. MaxFaults

\* Whatever run fails, dies or is the victim of a deadlock, the committed
\* contexts are those of the committed ledger: no account keeps a context of an
\* older run, none lacks its own (persist_to_ai_db).
ContextsMatchLedger == contexts = Contexts(ledger)

\* The ledger changes only from one whole run to the next, never to an empty or
\* half-loaded one, and what it changes to is what that run wrote to its files.
SwitchesWhole ==
    [][<<ledger, contexts>>' # <<ledger, contexts>> =>
           ledger' = records /\ contexts' = prompts]_<<ledger, contexts>>

\* A client that is told 200 finds its advice, and only that one, among the
\* saved advices of the account, although the row may be locked out by an ETL
\* run or its insert may fail (advise() saves before it answers).
AnsweredIsSaved ==
    \A q \in Request : request[q] = "200" =>
        {v.advice : v \in {w \in advices : w.id = q}} = result[q]

\* What an account really spent: money that left it in completed movements.
Spent(l, a, c, month) ==
    Amount({r \in l : /\ Field[r].account = a /\ Field[r].category = c /\ Field[r].month = month
                      /\ Field[r].nature = "D" /\ Field[r].status = "COMPLETED"})

\* It doubled, up to the rounding of the ratio to hundredths.
Doubled(l, a, c) ==
    /\ Spent(l, a, c, PreviousMonth) > 0
    /\ 200 * Spent(l, a, c, CurrentMonth) >= 399 * Spent(l, a, c, PreviousMonth)

\* When the rules warn of a category, spending in it did double in some ledger
\* that was loaded, even if the advice mixes two of them: a refused purchase, a
\* row for another account or a deposit never makes a spike.
SpikeIsReal ==
    \A v \in advices :
        v.advice.source = "rules" /\ v.advice.category = "CATEGORY_SPIKE" =>
            \E l \in loads : Doubled(l, AccountOf[v.id], v.advice.about)

\* The rules give firm advice only if some loaded ledger has history enough for
\* it; otherwise they ask for more data.
FirmIsGrounded ==
    \A v \in advices :
        v.advice.source = "rules" /\ v.advice.category # "NEED_MORE_DATA" =>
            \E l \in loads :
                LET mine == OfAccount(l, AccountOf[v.id])
                IN  ~thin(mine, {ContextOf(mine) : r \in mine})

\* A request the service accepted is answered, unless the process dies, through
\* ETL runs that lock its tables and a Gemini that never gives an answer.
EventuallyAnswered ==
    \A q \in Request : request[q] = "reading" ~> request[q] \in {"200", "500", "lost"}
=============================================================================
