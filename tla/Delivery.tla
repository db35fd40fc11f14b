------------------------------- MODULE Delivery -------------------------------
(***************************************************************************)
(* What a posted transfer is owed, with no outbox, lease or retry in       *)
(* sight: one recommendation and a call to Bancs, and neither for money    *)
(* that did not move.                                                      *)
(***************************************************************************)
EXTENDS Naturals

CONSTANT
    Key             \* idempotency keys

VARIABLES
    posted,         \* keys with a committed transfer
    recommended,    \* those with a recommendation
    told            \* those Bancs was called for

deliveryVars == <<posted, recommended, told>>

Init == posted = {} /\ recommended = {} /\ told = {}

Post(k) ==
    /\ k \notin posted
    /\ posted' = posted \cup {k}
    /\ UNCHANGED <<recommended, told>>

Recommend(k) ==
    /\ k \in posted \ recommended
    /\ recommended' = recommended \cup {k}
    /\ UNCHANGED <<posted, told>>

Tell(k) ==
    /\ k \in posted \ told
    /\ told' = told \cup {k}
    /\ UNCHANGED <<posted, recommended>>

Next == \E k \in Key : Post(k) \/ Recommend(k) \/ Tell(k)

Spec == Init /\ [][Next]_deliveryVars

\* Each posted transfer gets what it is owed.
EachGetsBoth == \A k \in Key : k \in posted ~> k \in recommended \cap told
=============================================================================
