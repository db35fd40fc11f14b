------------------------------ MODULE PipelineMC ------------------------------
(* Instances of Pipeline for TLC.                                          *)
EXTENDS Pipeline

\* A client posts one transaction twice.
OneUid == [i \in Item |-> "u1"]
=============================================================================
