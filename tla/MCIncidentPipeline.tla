------------------------ MODULE MCIncidentPipeline ------------------------
(* Instances of IncidentPipeline for TLC: every task has a log of its own, *)
(* and all tasks carry events of one fingerprint.                          *)
EXTENDS IncidentPipeline

CONSTANTS t1, t2, f1

MCLogOf == [t \in Task |-> t]
MCOneFp == [t \in Task |-> f1]
=============================================================================
