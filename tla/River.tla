-------------------------------- MODULE River --------------------------------
(***************************************************************************)
(* What the workers rely on of River, the job queue in Postgres, as the    *)
(* code configures and uses it: a job waits in river_job until a worker    *)
(* slot of its queue fetches it, its handler (Work) runs to a return, and  *)
(* River records the outcome or schedules another attempt.                 *)
(*                                                                         *)
(* The actions here leave room for a worker module's own variables: a      *)
(* worker module conjoins them with what it does to its own.               *)
(***************************************************************************)
EXTENDS Naturals, FiniteSets

CONSTANTS
    Jobs,         \* the jobs in river_job
    KindOf,       \* the worker a job belongs to
    MaxWorkers,   \* River's MaxWorkers for each queue
    MaxAttempts,  \* River's MaxAttempts
    Faults        \* the faults the environment may inject

Kinds == {"embed", "parse", "image", "video", "rageval", "ingest", "persona"}
Queues == {"file_ingest", "media_gen", "rag_eval", "memory_ingest", "persona_refresh"}
FaultKinds == {"db", "ack", "deadline", "crash", "delete"}

ASSUME RiverAssumption ==
    /\ KindOf \in [Jobs -> Kinds]
    /\ MaxWorkers \in [Queues -> Nat \ {0}]
    /\ MaxAttempts \in Nat \ {0}
    /\ Faults \subseteq FaultKinds

VARIABLES
    jobState,  \* river_job.state
    attempt,   \* river_job.attempt
    pc,        \* where the job's handler is; "none" when no handler runs
    expired    \* the jobs whose handler's context is done

riverVars == <<jobState, attempt, pc, expired>>

Waiting == {"available", "retryable"}
Final == {"completed", "cancelled", "discarded"}
Returns == {"returnNil", "returnErr", "returnCancel"}

QueueOf(j) ==
    CASE KindOf[j] \in {"embed", "parse"} -> "file_ingest"
      [] KindOf[j] \in {"image", "video"} -> "media_gen"
      [] KindOf[j] = "rageval" -> "rag_eval"
      [] KindOf[j] = "ingest" -> "memory_ingest"
      [] OTHER -> "persona_refresh"

(* The handlers the process runs for a queue: River keeps them within      *)
(* MaxWorkers.                                                             *)
Handlers(q) == {j \in Jobs : pc[j] # "none" /\ QueueOf(j) = q}

RiverTypeOK ==
    /\ jobState \in [Jobs -> Waiting \cup {"running"} \cup Final]
    /\ attempt \in [Jobs -> 0..MaxAttempts]
    /\ expired \subseteq Jobs

RiverInit ==
    /\ jobState = [j \in Jobs |-> "available"]
    /\ attempt = [j \in Jobs |-> 0]
    /\ pc = [j \in Jobs |-> "none"]
    /\ expired = {}

Goto(j, where) == pc' = [pc EXCEPT ![j] = where]

-----------------------------------------------------------------------------
(* Bug variant: no limit at all. *)
BugFetchUnlimited(j) ==
    /\ jobState[j] \in Waiting
    /\ jobState' = [jobState EXCEPT ![j] = "running"]
    /\ attempt' = [attempt EXCEPT ![j] = @ + 1]
    /\ Goto(j, "start")
    /\ expired' = expired \ {j}

(* River hands the job to a worker slot of its queue and counts the        *)
(* attempt.                                                                *)
FetchJob(j) ==
    /\ jobState[j] \in Waiting
    /\ Cardinality(Handlers(QueueOf(j))) < MaxWorkers[QueueOf(j)]
    /\ jobState' = [jobState EXCEPT ![j] = "running"]
    /\ attempt' = [attempt EXCEPT ![j] = @ + 1]
    /\ Goto(j, "start")
    /\ expired' = expired \ {j}

AfterFailure(j) == IF attempt[j] < MaxAttempts THEN "retryable" ELSE "discarded"

(* What River records for what Work returned. *)
OutcomeOf(j) == IF pc[j] = "returnNil" THEN "completed"
                ELSE IF pc[j] = "returnCancel" THEN "cancelled"
                ELSE AfterFailure(j)

CloseAttempt(j) ==
    /\ pc[j] \in Returns
    /\ jobState' = [jobState EXCEPT ![j] = OutcomeOf(j)]
    /\ Goto(j, "none")
    /\ expired' = expired \ {j}
    /\ UNCHANGED attempt

(* River's rescuer picks up a job left running by a dead process. *)
RescueJob(j) ==
    /\ jobState[j] = "running"
    /\ pc[j] = "none"
    /\ jobState' = [jobState EXCEPT ![j] = AfterFailure(j)]
    /\ UNCHANGED <<attempt, pc, expired>>

(* The deadline context.WithTimeout put on the handler passes. *)
DeadlinePasses(j) ==
    /\ "deadline" \in Faults
    /\ pc[j] # "none"
    /\ j \notin expired
    /\ expired' = expired \cup {j}
    /\ UNCHANGED <<jobState, attempt, pc>>

(* The process dies with every handler it runs. *)
ProcessDies ==
    /\ "crash" \in Faults
    /\ \E j \in Jobs : pc[j] # "none"
    /\ pc' = [j \in Jobs |-> "none"]
    /\ expired' = {}
    /\ UNCHANGED <<jobState, attempt>>
=============================================================================
