---------------------------- MODULE TransfersMC ----------------------------
(* Instances of Transfers for TLC: who asks what of which accounts.        *)
EXTENDS Transfers, TLC

CONSTANTS r1, r2, r3, r4, r5, r6, r7

Ask(key, from, to, amount) ==
    [key |-> key, from |-> from, to |-> to, amount |-> amount, currency |-> "USD"]

\* Two copies of one request cross an opposite transfer over the same
\* rows, which must come first for the account to cover them.
CrossedRequest == {r1, r2, r3}
CrossedBody == r1 :> Ask("k1", 1, 2, 1) @@ r2 :> Ask("k1", 1, 2, 1) @@ r3 :> Ask("k2", 2, 1, 1)
CrossedAccount == {1, 2}
CrossedOpening == 1 :> 1 @@ 2 :> 1
OwnBucket == [k \in {"k1", "k2"} |-> k]
CrossedCurrency == [a \in CrossedAccount |-> "USD"]

\* Refusals of each kind, most of which depend on what the others did, under
\* keys whose hashtext collides.  r2 conflicts with r1 or overflows its
\* destination; r3 overdraws until r1 has paid; r4's correlation id is not a
\* UUID; r5 names a missing account and r6 one in another currency; r7 asks
\* for nothing.
RulesRequest == {r1, r2, r3, r4, r5, r6, r7}
RulesBody ==
    r1 :> Ask("k1", 1, 2, 2) @@ r2 :> Ask("k1", 1, 5, 2) @@ r3 :> Ask("k2", 2, 5, 1) @@
    r4 :> Ask("k3", 1, 2, 2) @@ r5 :> Ask("k3", 1, 9, 1) @@ r6 :> Ask("k3", 1, 4, 1) @@
    r7 :> Ask("k3", 1, 2, 0)
RulesTraced == RulesRequest \ {r4}
RulesAccount == {1, 2, 4, 5}
RulesOpening == 1 :> 4 @@ 2 :> 0 @@ 4 :> 1 @@ 5 :> 3
RulesCurrency == [a \in RulesAccount |-> IF a = 4 THEN "EUR" ELSE "USD"]
SharedBucket == [k \in {"k1", "k2", "k3"} |-> "b"]
=============================================================================
