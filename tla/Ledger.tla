------------------------------- MODULE Ledger -------------------------------
(***************************************************************************)
(* What the transfer API promises, with no process, lock or transaction in *)
(* sight: a transfer is posted at most once per idempotency key, in one    *)
(* step that moves the money and leaves the two events the worker needs.   *)
(* Transfers.tla, the code's step-by-step protocol, implements it.         *)
(***************************************************************************)
EXTENDS Integers

CONSTANTS
    Account,        \* the rows of table accounts
    AccountCurrency, \* [Account -> the account's currency]
    Opening,        \* their balances when the service starts
    MaxBalance,     \* the largest value of a DECIMAL(18,2) column
    Key,            \* idempotency keys
    Row,            \* the rows table transfers can hold
    NoTransfer,     \* "no row has this key"
    EventType       \* the kinds of outbox events of a transfer

VARIABLES
    balance,        \* [Account -> amount]
    transfers,      \* [Key -> row or NoTransfer]
    outbox          \* the events written, as rows of outbox_events

ledgerVars == <<balance, transfers, outbox>>

Init ==
    /\ balance = Opening
    /\ transfers = [k \in Key |-> NoTransfer]
    /\ outbox = {}

Moved(t) ==
    [balance EXCEPT ![t.from] = @ - t.amount, ![t.to] = @ + t.amount]

Post(k, t) ==
    /\ transfers[k] = NoTransfer
    /\ t.from \in Account /\ t.to \in Account /\ t.from # t.to
    /\ AccountCurrency[t.from] = t.currency /\ AccountCurrency[t.to] = t.currency
    /\ t.amount > 0
    /\ balance[t.from] >= t.amount
    /\ balance[t.to] + t.amount <= MaxBalance
    /\ balance' = Moved(t)
    /\ transfers' = [transfers EXCEPT ![k] = t]
    /\ outbox' = outbox \cup
         {[transfer |-> t.id, type |-> y, balanceAfter |-> balance[t.from] - t.amount] : y \in EventType}

Next == \E k \in Key, t \in Row : Post(k, t)

Spec == Init /\ [][Next]_ledgerVars
=============================================================================
