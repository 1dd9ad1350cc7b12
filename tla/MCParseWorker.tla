---------------------------- MODULE MCParseWorker ----------------------------
(* Small instances of ParseWorker. *)
EXTENDS ParseWorker

CONSTANTS embed, parse1, parse2, image

MCKindOf == [j \in Jobs |-> CASE j = embed -> "embed"
                              [] j = image -> "image"
                              [] OTHER -> "parse"]
OneWorker == [q \in Queues |-> 1]
TwoFileWorkers == [q \in Queues |-> IF q = "file_ingest" THEN 2 ELSE 1]
AllFaults == FaultKinds
=============================================================================
