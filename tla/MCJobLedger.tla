----------------------------- MODULE MCJobLedger -----------------------------
(* Small instances of JobLedger. *)
EXTENDS JobLedger

CONSTANTS embed, parse, image

MCKindOf == [j \in Jobs |-> CASE j = embed -> "embed"
                              [] j = parse -> "parse"
                              [] j = image -> "image"]
OneWorker == [q \in Queues |-> 1]
AllFaults == FaultKinds
=============================================================================
