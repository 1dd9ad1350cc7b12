------------------------------ MODULE Memories ------------------------------
(***************************************************************************)
(* The memories of one user: rows of user_memories (the parents) and, per  *)
(* parent, one row in the table of its layer.  The ingest worker writes    *)
(* them, the persona worker reads them.  A memory is named by what wrote   *)
(* it: its job, attempt, layer and place in the model's reply.             *)
(*                                                                         *)
(* Both workers have no async_tasks row; they run under River alone.       *)
(***************************************************************************)
EXTENDS River, Sequences

VARIABLES
    parents,  \* the memories whose user_memories row is committed
    children  \* the memories whose layer row is committed

memoryVars == <<parents, children>>

(* What River keeps of a job does not change while its handler runs. *)
Unmoved == UNCHANGED <<jobState, attempt, expired>>

(* A call of a model or of the embedder.  It may always fail: the chat     *)
(* client turns a refused request, a status, an undecodable or an empty    *)
(* answer into an error, and so does a done context.                       *)
Call(j, Answer, Failure) == (j \notin expired /\ Answer) \/ Failure

(* A statement whose effect a rollback or a retry undoes: whether it was   *)
(* lost on the way or on the way back makes no difference.                 *)
Statement(j, Effect, Failure) ==
    \/ j \notin expired /\ Effect
    \/ (j \in expired \/ "db" \in Faults) /\ Failure

(* A commit may also take effect and have its answer lost.                 *)
CommitTx(j, Effect, Success, Failure) ==
    \/ j \notin expired /\ Effect /\ Success
    \/ (j \in expired \/ "db" \in Faults) /\ UNCHANGED memoryVars /\ Failure
    \/ j \notin expired /\ "ack" \in Faults /\ Effect /\ Failure
=============================================================================
