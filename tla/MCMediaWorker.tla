---------------------------- MODULE MCMediaWorker ----------------------------
(* A small instance of MediaWorker.  One video job: jobs share no data and  *)
(* an image job does what a video job does whose provider answers with an  *)
(* URL.                                                                    *)
EXTENDS MediaWorker

CONSTANT video

MCKindOf == [j \in Jobs |-> "video"]
OneWorker == [q \in Queues |-> 1]
AllFaults == FaultKinds
=============================================================================
