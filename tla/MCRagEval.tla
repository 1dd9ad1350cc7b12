------------------------------ MODULE MCRagEval ------------------------------
(* A small instance of RagEval. *)
EXTENDS RagEval

CONSTANTS withFiles, plain

MCKindOf == [j \in Jobs |-> "rageval"]
OneWorker == [q \in Queues |-> 1]
AllFaults == FaultKinds
=============================================================================
