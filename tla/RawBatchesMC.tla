----------------------------- MODULE RawBatchesMC -----------------------------
(* Instances of RawBatches for TLC.                                        *)
EXTENDS RawBatches, TLC

CONSTANTS p1, p2

\* Items 12 and 22 carry one uid, job 1 and item 21 another; job 2 and item 11
\* have payloads nothing can store.
MixedItems == p1 :> {11, 12} @@ p2 :> {21, 22}
MixedUid == 1 :> "u1" @@ 2 :> "u3" @@ 11 :> "u4" @@ 12 :> "u2" @@ 21 :> "u1" @@ 22 :> "u2"
=============================================================================
