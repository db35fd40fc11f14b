----------------------------- MODULE AiLedgerMC -----------------------------
(* Instances of AiLedger.                                                  *)
EXTENDS AiLedger

Tx(account, type, product, status, amount, month, category) ==
    [account |-> account, type |-> type, nature |-> "D", product |-> product,
     status |-> status, reason |-> IF status = "REJECTED" THEN "CARD_DECLINED" ELSE "",
     amount |-> amount, currency |-> "USD", month |-> month, category |-> category,
     blank |-> FALSE]

AllAccounts == {"a1", "a2"}
Catalog == [AHO |-> {"34", "71"}, CTE |-> {"34", "71", "72"}, TJC |-> {"08", "37"}]

\* With refused, food grows from 100 to 240, without it to 150; with dinner it
\* really more than doubles.  cheque is a combination UAFE does not know.
AllFields ==
    [august  |-> Tx("a1", "37", "TJC", "COMPLETED", 100, "2026-08", "food"),
     lunch   |-> Tx("a1", "37", "TJC", "COMPLETED", 150, "2026-09", "food"),
     cash    |-> Tx("a1", "71", "AHO", "COMPLETED", 20, "2026-09", "cash"),
     refused |-> Tx("a1", "37", "TJC", "REJECTED", 90, "2026-09", "food"),
     dinner  |-> Tx("a1", "08", "TJC", "COMPLETED", 80, "2026-09", "food"),
     cheque  |-> Tx("a2", "72", "AHO", "COMPLETED", 500, "2026-09", "cash"),
     lost    |-> Tx("a2", "34", "AHO", "TIMEOUT", 500, "2026-09", "transfer"),
     old     |-> Tx("a2", "34", "AHO", "COMPLETED", 10, "2026-08", "transfer"),
     stray   |-> Tx("N/A", "34", "AHO", "COMPLETED", 10, "2026-08", "transfer"),
     july    |-> Tx("a1", "71", "AHO", "COMPLETED", 30, "2026-08", "cash")]

AllRows == DOMAIN AllFields

OneMonthEach == {{"august", "lunch", "cash", "refused"}, {"dinner", "cheque"}}
FirstFile == {"lost", "old", "stray"}

\* Two completed rows with a month before, then three of one month.
TwoHistories == {{"august", "july"}, {"lunch", "cash", "dinner"}}

OnlyFirst == [q1 |-> "a1"]
=============================================================================
