-------------------------------- MODULE Intake --------------------------------
(***************************************************************************)
(* What POST /raw-transactions promises with its 202, with no buffer,      *)
(* queue or worker in sight: an accepted item may become a row, no other   *)
(* item does, and no two rows have one uid.  The operator may delete rows. *)
(***************************************************************************)
EXTENDS Naturals

CONSTANTS
    Item,       \* what clients post
    Uid         \* [Item -> uid in the payload]

VARIABLES
    accepted,   \* items answered with 202
    stored      \* items that are rows of raw_transactions

intakeVars == <<accepted, stored>>

Init == accepted = {} /\ stored = {}

Accept(i) == i \notin accepted /\ accepted' = accepted \cup {i} /\ UNCHANGED stored

Store(i) ==
    /\ i \in accepted
    /\ \A k \in stored : Uid[k] # Uid[i]
    /\ stored' = stored \cup {i}
    /\ UNCHANGED accepted

Clear == stored' \in SUBSET stored /\ UNCHANGED accepted

Next == Clear \/ \E i \in Item : Accept(i) \/ Store(i)

Spec == Init /\ [][Next]_intakeVars
=============================================================================
