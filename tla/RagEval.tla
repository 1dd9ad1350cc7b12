------------------------------- MODULE RagEval -------------------------------
(***************************************************************************)
(* The RAG evaluation worker.  A job evaluates one record: embed its       *)
(* question, retrieve context, ask the chat model, store the answer.  The  *)
(* records of an evaluation are jobs of their own, and fail marks the      *)
(* evaluation they share.  There is no async_tasks row: the status columns *)
(* of the record and of its evaluation are what the user sees.             *)
(*                                                                         *)
(* Only its own job writes a record, so what a handler has read of it is   *)
(* what the record says, until the record is deleted.                      *)
(***************************************************************************)
EXTENDS River

CONSTANT WithFiles  \* the records whose dataset record names reference files

ASSUME RagAssumption == WithFiles \subseteq Jobs

VARIABLES
    status,      \* the record's status, or "gone" once it is deleted
    answered,    \* whether its answer column is set
    questionRef, \* question_embedding_id: the attempt that embedded it, or 0
    embedded,    \* the attempts that inserted an embedding of the question
    context,     \* whether its context column holds texts
    evaluation,  \* the status of the evaluation the records belong to
    disturbed    \* the jobs a fault other than a deletion has hit

recordVars == <<status, answered, questionRef, embedded, context, evaluation>>
vars == <<riverVars, recordVars, disturbed>>

RagTypeOK ==
    /\ RiverTypeOK
    /\ pc \in [Jobs -> {"none", "start", "embed", "insert", "setRef", "fetchVector",
                        "dataset", "retrieve", "saveContext", "answer", "persist",
                        "failUnread", "fail", "failEvaluation"} \cup Returns]
    /\ status \in [Jobs -> {"Pending", "Success", "Error", "gone"}]
    /\ answered \in [Jobs -> BOOLEAN]
    /\ questionRef \in [Jobs -> 0..MaxAttempts]
    /\ embedded \in [Jobs -> SUBSET (1..MaxAttempts)]
    /\ context \in [Jobs -> BOOLEAN]
    /\ evaluation \in {"Processing", "Error"}
    /\ disturbed \subseteq Jobs

RagInit ==
    /\ RiverInit
    /\ status = [j \in Jobs |-> "Pending"]
    /\ answered = [j \in Jobs |-> FALSE]
    /\ questionRef = [j \in Jobs |-> 0]
    /\ embedded = [j \in Jobs |-> {}]
    /\ context = [j \in Jobs |-> FALSE]
    /\ evaluation = "Processing"
    /\ disturbed = {}

-----------------------------------------------------------------------------
Exists(j) == status[j] # "gone"
Unmoved == UNCHANGED <<jobState, attempt, expired>>

(* A statement with an effect: answered, failed, or effective although its *)
(* answer was lost.                                                        *)
Statement(j, Effect, where, onError) ==
    /\ \/ /\ j \notin expired
          /\ Effect
          /\ Goto(j, where)
          /\ UNCHANGED disturbed
       \/ /\ \/ (j \in expired \/ "db" \in Faults) /\ UNCHANGED recordVars
             \/ j \notin expired /\ "ack" \in Faults /\ Effect
          /\ Goto(j, onError)
          /\ disturbed' = disturbed \cup {j}
    /\ Unmoved

(* An UPDATE of the record, which matches nothing once it is deleted. *)
SetRef(j) ==
    /\ questionRef' = [questionRef EXCEPT ![j] = IF Exists(j) THEN attempt[j] ELSE @]
    /\ UNCHANGED <<status, answered, embedded, context, evaluation>>

SetContext(j) ==
    /\ context' = [context EXCEPT ![j] = Exists(j) \/ @]
    /\ UNCHANGED <<status, answered, questionRef, embedded, evaluation>>

SetAnswer(j) ==
    /\ status' = [status EXCEPT ![j] = IF Exists(j) THEN "Success" ELSE @]
    /\ answered' = [answered EXCEPT ![j] = Exists(j) \/ @]
    /\ UNCHANGED <<questionRef, embedded, context, evaluation>>

SetError(j) ==
    /\ status' = [status EXCEPT ![j] = IF Exists(j) THEN "Error" ELSE @]
    /\ UNCHANGED <<answered, questionRef, embedded, context, evaluation>>

InsertEmbedding(j) ==
    /\ embedded' = [embedded EXCEPT ![j] = @ \cup {attempt[j]}]
    /\ UNCHANGED <<status, answered, questionRef, context, evaluation>>

EvaluationError ==
    /\ evaluation' = "Error"
    /\ UNCHANGED <<status, answered, questionRef, embedded, context>>

-----------------------------------------------------------------------------
(* Bug variant: the question is embedded anew by every attempt. *)
BugNeedsEmbedding(j) == TRUE

NeedsEmbedding(j) == questionRef[j] = 0

(* A missing record cancels the job.  After any other error fail does not  *)
(* know the evaluation.                                                    *)
FetchRecord(j) ==
    /\ pc[j] = "start"
    /\ Statement(j, UNCHANGED recordVars,
                 IF ~Exists(j) THEN "returnCancel"
                 ELSE IF NeedsEmbedding(j) THEN "embed" ELSE "fetchVector",
                 "failUnread")

(* A call of the embedder or of the chat model. *)
Call(j, from, where) ==
    /\ pc[j] = from
    /\ (j \notin expired /\ Goto(j, where)) \/ Goto(j, "fail")
    /\ Unmoved
    /\ UNCHANGED <<recordVars, disturbed>>

EmbedQuestion(j) == Call(j, "embed", "insert")
GenerateAnswer(j) == Call(j, "answer", "persist")

AfterVector(j) == IF context[j] THEN "answer" ELSE "dataset"

PersistEmbedding(j) ==
    /\ pc[j] = "insert"
    /\ Statement(j, InsertEmbedding(j), "setRef", "fail")

(* Bug variant: an error of the reference's update is only logged. *)
BugPersistRef(j) ==
    /\ pc[j] = "setRef"
    /\ Statement(j, SetRef(j), AfterVector(j), AfterVector(j))

PersistRef(j) ==
    /\ pc[j] = "setRef"
    /\ Statement(j, SetRef(j), AfterVector(j), "fail")

FetchEmbedding(j) ==
    /\ pc[j] = "fetchVector"
    /\ Statement(j, UNCHANGED recordVars, AfterVector(j), "fail")

FetchDataset(j) ==
    /\ pc[j] = "dataset"
    /\ Statement(j, UNCHANGED recordVars,
                 IF j \in WithFiles THEN "retrieve" ELSE "answer", "fail")

(* The search may find nothing: the record's context then stays empty. *)
RetrieveContext(j) ==
    /\ pc[j] = "retrieve"
    /\ \E where \in {"saveContext", "answer"} :
          Statement(j, UNCHANGED recordVars, where, "fail")

(* An error here is not fatal. *)
PersistContext(j) ==
    /\ pc[j] = "saveContext"
    /\ Statement(j, SetContext(j), "answer", "answer")

(* Bug variant: an error of persistResult is dropped. *)
BugPersistResult(j) ==
    /\ pc[j] = "persist"
    /\ Statement(j, SetAnswer(j), "returnNil", "returnNil")

PersistResult(j) ==
    /\ pc[j] = "persist"
    /\ Statement(j, SetAnswer(j), "returnNil", "fail")

(* fail marks the record.  Its payload is built with %q, whose escapes are *)
(* not all JSON, so Postgres may refuse it: that statement may fail in a   *)
(* healthy database.  An error is only logged.                             *)
Refused(j, where) ==
    /\ Goto(j, where)
    /\ Unmoved
    /\ UNCHANGED <<recordVars, disturbed>>

AfterMark(j) == IF pc[j] = "failUnread" THEN "returnErr" ELSE "failEvaluation"

(* Bug variant: fail returns at its first error. *)
BugFailRecord(j) ==
    /\ pc[j] \in {"failUnread", "fail"}
    /\ \/ Statement(j, SetError(j), AfterMark(j), "returnErr")
       \/ Refused(j, "returnErr")

FailRecord(j) ==
    /\ pc[j] \in {"failUnread", "fail"}
    /\ \/ Statement(j, SetError(j), AfterMark(j), AfterMark(j))
       \/ Refused(j, AfterMark(j))

FailEvaluation(j) ==
    /\ pc[j] = "failEvaluation"
    /\ Statement(j, EvaluationError, "returnErr", "returnErr")

-----------------------------------------------------------------------------
RagRun(j) ==
    \/ FetchRecord(j)
    \/ EmbedQuestion(j) \/ PersistEmbedding(j) \/ PersistRef(j) \/ FetchEmbedding(j)
    \/ FetchDataset(j) \/ RetrieveContext(j) \/ PersistContext(j)
    \/ GenerateAnswer(j) \/ PersistResult(j)
    \/ FailRecord(j) \/ FailEvaluation(j)

RagQueue(j) ==
    /\ FetchJob(j) \/ CloseAttempt(j) \/ RescueJob(j)
    /\ UNCHANGED <<recordVars, disturbed>>

RagDeadline(j) ==
    /\ DeadlinePasses(j)
    /\ disturbed' = disturbed \cup {j}
    /\ UNCHANGED recordVars

DeleteRecord(j) ==
    /\ "delete" \in Faults
    /\ Exists(j)
    /\ status' = [status EXCEPT ![j] = "gone"]
    /\ UNCHANGED <<riverVars, answered, questionRef, embedded, context, evaluation, disturbed>>

RagCrash ==
    /\ ProcessDies
    /\ disturbed' = disturbed \cup {j \in Jobs : pc[j] # "none"}
    /\ UNCHANGED recordVars

RagNext ==
    \/ \E j \in Jobs : RagRun(j) \/ RagQueue(j) \/ RagDeadline(j) \/ DeleteRecord(j)
    \/ RagCrash

RagSpec == RagInit /\ [][RagNext]_vars

-----------------------------------------------------------------------------
(* rageval.go:8, "Update the eval record with the answer and mark it       *)
(* Success": a job River closes as completed has left its record with an   *)
(* answer and the status Success, or the record was deleted; a cancelled   *)
(* one has no record.                                                      *)
OutcomeIsTrue ==
    \A j \in Jobs :
        /\ jobState[j] = "completed" => status[j] = "gone" \/ (status[j] = "Success" /\ answered[j])
        /\ jobState[j] = "cancelled" => status[j] = "gone"

(* The embedding a record refers to was inserted, whatever fault struck    *)
(* between the two statements; and an answered record refers to one, so    *)
(* that no answer was made from a vector that got lost.                    *)
AnswerHasEmbedding ==
    \A j \in Jobs :
        /\ questionRef[j] # 0 => questionRef[j] \in embedded[j]
        /\ answered[j] => questionRef[j] # 0

(* rageval.go:5, "Embed the question (if question_embedding_id is null)":  *)
(* a record that refers to an embedding keeps it, and no later attempt     *)
(* inserts another.                                                        *)
EmbeddedOnce ==
    [][\A j \in Jobs :
          questionRef[j] # 0 =>
              questionRef'[j] = questionRef[j] /\ embedded'[j] = embedded[j]]_vars

(* rageval.go:9, "On error, mark both the record and its parent            *)
(* evaluation as Error": the evaluation of a record whose job was given up *)
(* shows Error, unless a fault kept fail from reading or writing it.  The  *)
(* record itself may not, because of its payload.                          *)
GivenUpIsReported ==
    \A j \in Jobs :
        jobState[j] = "discarded" /\ j \notin disturbed => evaluation = "Error"
=============================================================================
