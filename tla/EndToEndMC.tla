------------------------------ MODULE EndToEndMC ------------------------------
(* Instances of EndToEnd for TLC.                                          *)
EXTENDS EndToEnd, TLC

CONSTANTS r1, r2, r3, r4

Ask(key, from, to, amount) ==
    [key |-> key, from |-> from, to |-> to, amount |-> amount, currency |-> "USD"]

\* Requests refused early (amount zero, the same account twice, an account in
\* another currency) under the key of one that is accepted.
EarlyRequest == {r1, r2, r3, r4}
EarlyBody == r1 :> Ask("k1", 1, 2, 0) @@ r2 :> Ask("k1", 2, 2, 1) @@
             r3 :> Ask("k1", 1, 2, 1) @@ r4 :> Ask("k1", 2, 3, 1)
EarlyAccount == {1, 2, 3}
EarlyOpening == [a \in EarlyAccount |-> 2]
EarlyCurrency == [a \in EarlyAccount |-> IF a = 3 THEN "EUR" ELSE "USD"]
OwnBucket == [k \in {"k1"} |-> k]
OneKey == <<"k1", "AI_RECOMMEND">> :> 1 @@ <<"k1", "BANCS_SIMULATED">> :> 2
=============================================================================
