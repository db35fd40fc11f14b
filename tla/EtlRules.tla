------------------------------ MODULE EtlRules ------------------------------
(***************************************************************************)
(* What the ETL makes of raw rows, and what the AI service makes of the    *)
(* result: the rows that enter the AI ledger, the context of an account,   *)
(* and the category of the advice of the rules engine.  Amounts are cents, *)
(* ratios hundredths, percentages thousandths.                             *)
(***************************************************************************)
EXTENDS Integers, FiniteSets, FiniteSetsExt

CONSTANTS
    Row,            \* rows of raw_transactions or of a CSV file
    Field,          \* [Row -> record of the columns, as normalised]
    Account,        \* account numbers that match ACCOUNT_PATTERN
    ProductTypes    \* PRODUCTO_TIPOS: [product -> types it allows]

\* What is no positive number counts as 0.
ASSUME RowAssumption == IsFiniteSet(Row) /\ \A r \in Row : Field[r].amount \in Nat

InfraMarkers == {"INFRA", "TIMEOUT", "INFRA_FAILURE", "CONNECTION_ERROR"}
BusinessStatuses == {"COMPLETED", "REJECTED"}

isInfra(r) == Field[r].status \in InfraMarkers

isValidCombo(type, product) ==
    /\ product \in DOMAIN ProductTypes
    /\ type \in ProductTypes[product]

\* Mutant of hasAccount: any number is taken.
HasAnyAccount(r) == Field[r].account # ""

hasAccount(r) == Field[r].account \in Account

\* transform() finds no reason to reject the row.  An amount that is no
\* positive number is 0, a month that is none is "", and "blank" says that the
\* counterpart or the uid is missing.
Accepts(r) ==
    /\ ~isInfra(r)
    /\ hasAccount(r)
    /\ Field[r].nature \in {"D", "C"}
    /\ isValidCombo(Field[r].type, Field[r].product)
    /\ Field[r].status \in BusinessStatuses
    /\ ~(Field[r].status = "REJECTED" /\ Field[r].reason = "ACCOUNT_NOT_FOUND")
    /\ Field[r].amount > 0
    /\ Field[r].currency = "USD"
    /\ Field[r].month # ""
    /\ ~Field[r].blank

Accepted(rows) == {r \in rows : Accepts(r)}

CurrentMonth == "2026-09"
PreviousMonth == "2026-08"

OfAccount(rows, a) == {r \in rows : Field[r].account = a}
Completed(rows) == {r \in rows : Field[r].status = "COMPLETED"}

\* Mutant of Debits: purchases the card refused count as spent.
DebitsAndRefusals(rows, month) ==
    {r \in rows : Field[r].month = month /\ Field[r].nature = "D"}

\* What an account spent in a month: its completed debits.
Debits(rows, month) ==
    {r \in Completed(rows) : Field[r].month = month /\ Field[r].nature = "D"}

Amount(rows) == MapThenSumSet(LAMBDA r : Field[r].amount, rows)
InCategory(rows, c) == {r \in rows : Field[r].category = c}

\* None where there is nothing to compare with.
None == -1
ratio(current, previous) ==
    IF previous <= 0 THEN None ELSE (200 * current + previous) \div (2 * previous)

Compared(rows) ==
    LET current == Amount(Debits(rows, CurrentMonth))
        previous == Amount(Debits(rows, PreviousMonth))
    IN  [current |-> current, previous |-> previous, ratio |-> ratio(current, previous)]

\* A row of ai_prompt_contexts.
ContextOf(rows) ==
    [total      |-> Compared(rows),
     categories |-> [c \in {Field[r].category : r \in rows} |-> Compared(InCategory(rows, c))],
     rejectedCards |-> Cardinality({r \in rows : /\ Field[r].product = "TJC"
                                                 /\ Field[r].status = "REJECTED"})]

ContextsOf ==
    [rows \in SUBSET Row |->
        [a \in {Field[r].account : r \in rows} |-> ContextOf(OfAccount(rows, a))]]

Contexts(rows) == ContextsOf[rows]

----------------------------------------------------------------------------
(* The AI service.  context is {} or the one context of the account.       *)

\* historyQuality().thin
thin(ledger, context) ==
    LET completed == Cardinality(Completed(ledger))
        months == Cardinality({Field[r].month : r \in Completed(ledger)})
    IN  \/ completed < 3
        \/ context = {}
        \/ \E c \in context :
             \/ months < 2 /\ c.total.previous <= 0 /\ completed < 8
             \/ c.total.previous <= 0 /\ c.total.current <= 0 /\ completed < 5

percentChange(d) ==
    (2000 * (d.current - d.previous) + d.previous) \div (2 * d.previous)

Ranked(context) == {k \in DOMAIN context.categories : context.categories[k].previous > 0}

\* The categories that can come first: sort() keeps the order of equal ones.
Top(context) ==
    {k \in Ranked(context) : \A o \in Ranked(context) :
        percentChange(context.categories[k]) >= percentChange(context.categories[o])}

Spikes(context) == {k \in Top(context) : context.categories[k].ratio >= 200}

says(category) == [category |-> category, about |-> ""]

\* The rest of buildAdvice(), when no category comes first with a spike.
WithoutSpike(context, low) ==
    IF context.total.ratio >= 150 THEN says("MONTHLY_SPIKE")
    ELSE IF context.rejectedCards > 0 THEN says("CARD_REJECTION")
    ELSE IF low THEN says("ALERT_LOW_BALANCE")
    ELSE says("SPENDING_INSIGHT")

\* buildAdvice(): the categories it can answer, with what each is about.
buildAdvice(ledger, context, low) ==
    IF thin(ledger, context)
    THEN {says("NEED_MORE_DATA")}
    ELSE UNION {{[category |-> "CATEGORY_SPIKE", about |-> k] : k \in Spikes(c)} \cup
                (IF Spikes(c) # {} /\ Spikes(c) = Top(c) THEN {} ELSE {WithoutSpike(c, low)})
                : c \in context}
=============================================================================
