--------------------------- MODULE OutboxWorkerMC ---------------------------
(* Instances of OutboxWorker for TLC.                                      *)
EXTENDS OutboxWorker

BothTypes == [j \in Job |-> IF j % 2 = 1 THEN "AI_RECOMMEND" ELSE "BANCS_SIMULATED"]
AllTypes == [j \in Job |-> IF j = 3 THEN "OTHER" ELSE BothTypes[j]]
=============================================================================
