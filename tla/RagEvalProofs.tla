---------------------------- MODULE RagEvalProofs ----------------------------
(***************************************************************************)
(* The RAG evaluation worker leaves records and evaluations as its doc     *)
(* comment says (rageval.go:3-9), for any records, attempts and faults.    *)
(***************************************************************************)
EXTENDS RagEval, TLAPS

Places == {"none", "start", "embed", "insert", "setRef", "fetchVector", "dataset", "retrieve",
           "saveContext", "answer", "persist", "failUnread", "fail", "failEvaluation"}
             \cup Returns

(* A handler runs for a running job, which has an attempt. *)
AttemptsKnow(j) ==
    /\ pc[j] # "none" => jobState[j] = "running"
    /\ jobState[j] = "running" => attempt[j] > 0
    /\ jobState[j] \in Waiting => attempt[j] < MaxAttempts

Reported(j) == status[j] = "gone" \/ (status[j] = "Success" /\ answered[j])

(* A handler about to return, and River after it, know the record.         *)
OutcomeKnown(j) ==
    /\ pc[j] = "returnNil" \/ jobState[j] = "completed" => Reported(j)
    /\ pc[j] = "returnCancel" \/ jobState[j] = "cancelled" => status[j] = "gone"

(* A handler embeds the question only as long as the record refers to no   *)
(* embedding, and goes on only when it does.                               *)
EmbeddingKnown(j) ==
    /\ questionRef[j] # 0 => questionRef[j] \in embedded[j]
    /\ answered[j] => questionRef[j] # 0
    /\ pc[j] \in {"embed", "insert", "setRef"} => questionRef[j] = 0
    /\ pc[j] = "setRef" => attempt[j] \in embedded[j]
    /\ pc[j] \in {"fetchVector", "dataset", "retrieve", "saveContext", "answer", "persist"} =>
          questionRef[j] # 0 \/ status[j] = "gone"

(* An attempt that no fault has hit does not fail unreported.              *)
FailureKnown(j) ==
    j \notin disturbed =>
        /\ pc[j] # "failUnread"
        /\ jobState[j] = "running" => pc[j] # "none"
        /\ pc[j] = "returnErr" \/ jobState[j] \in {"retryable", "discarded"} =>
              evaluation = "Error"

RecordInv(j) ==
    AttemptsKnow(j) /\ OutcomeKnown(j) /\ EmbeddingKnown(j) /\ FailureKnown(j)

RagInv == RagTypeOK /\ \A j \in Jobs : RecordInv(j)

(* Records and jobs start out as the invariant says.                       *)
LEMMA RagInitInv == RagInit => RagInv
  <1> SUFFICES ASSUME RagInit PROVE RagInv
    OBVIOUS
  <1>1. RagTypeOK
    BY RiverAssumption DEF RagInit, RiverInit, RagTypeOK, RiverTypeOK, Waiting
  <1>2. ASSUME NEW j \in Jobs PROVE RecordInv(j)
    BY RiverAssumption DEF RagInit, RiverInit, RecordInv, AttemptsKnow, OutcomeKnown,
       EmbeddingKnown, FailureKnown, Waiting
  <1> QED
    BY <1>1, <1>2 DEF RagInv

(* A step that leaves everything about a job as it is keeps what the       *)
(* invariant says of it: nothing resets an evaluation.                     *)
LEMMA RecordUntouched ==
    ASSUME NEW k \in Jobs, RecordInv(k),
           jobState'[k] = jobState[k], attempt'[k] = attempt[k], pc'[k] = pc[k],
           status'[k] = status[k] \/ status'[k] = "gone",
           answered'[k] = answered[k],
           questionRef'[k] = questionRef[k], embedded'[k] = embedded[k],
           evaluation' \in {evaluation, "Error"},
           disturbed \subseteq disturbed'
    PROVE  RecordInv(k)'
  BY DEF RecordInv, AttemptsKnow, OutcomeKnown, EmbeddingKnown, FailureKnown, Reported

(* The types of a handler's variables. *)
LEMMA RagTypes ==
    ASSUME RagInv
    PROVE  /\ pc \in [Jobs -> Places]
           /\ jobState \in [Jobs -> Waiting \cup {"running"} \cup Final]
           /\ attempt \in [Jobs -> 0..MaxAttempts]
           /\ status \in [Jobs -> {"Pending", "Success", "Error", "gone"}]
           /\ answered \in [Jobs -> BOOLEAN]
           /\ questionRef \in [Jobs -> 0..MaxAttempts]
           /\ embedded \in [Jobs -> SUBSET (1..MaxAttempts)]
           /\ context \in [Jobs -> BOOLEAN]
           /\ evaluation \in {"Processing", "Error"}
           /\ disturbed \subseteq Jobs
           /\ \A j \in Jobs : RecordInv(j)
  BY DEF RagInv, RagTypeOK, RiverTypeOK, Places

(* What a handler's step may change: its own job and record, and the       *)
(* evaluation to Error.                                                    *)
OwnStep(j) ==
    /\ UNCHANGED <<jobState, attempt, expired>>
    /\ \E w \in Places \ {"none"} : pc' = [pc EXCEPT ![j] = w]
    /\ status' \in [Jobs -> {"Pending", "Success", "Error", "gone"}]
    /\ answered' \in [Jobs -> BOOLEAN]
    /\ questionRef' \in [Jobs -> 0..MaxAttempts]
    /\ embedded' \in [Jobs -> SUBSET (1..MaxAttempts)]
    /\ context' \in [Jobs -> BOOLEAN]
    /\ evaluation' \in {evaluation, "Error"}
    /\ disturbed' \in {disturbed, disturbed \cup {j}}
    /\ \A k \in Jobs \ {j} :
          /\ status'[k] = status[k] /\ answered'[k] = answered[k]
          /\ questionRef'[k] = questionRef[k] /\ embedded'[k] = embedded[k]

(* For a job's own step only that job's knowledge is to be shown.          *)
LEMMA OwnStepKeepsInv ==
    ASSUME RagInv, NEW j \in Jobs, OwnStep(j), pc[j] # "none",
           OutcomeKnown(j)', EmbeddingKnown(j)', FailureKnown(j)'
    PROVE  RagInv'
  <1> USE RagTypes
  <1>1. RagTypeOK'
    <2>1. pc' \in [Jobs -> Places]
      BY DEF OwnStep
    <2> QED
      BY <2>1 DEF OwnStep, RagTypeOK, RiverTypeOK, RagInv, Places
  <1>2. AttemptsKnow(j)'
    <2>1. AttemptsKnow(j)
      BY DEF RecordInv
    <2> QED
      BY <2>1 DEF OwnStep, AttemptsKnow
  <1>3. ASSUME NEW k \in Jobs \ {j} PROVE RecordInv(k)'
    BY RecordUntouched DEF OwnStep
  <1> QED
    BY <1>1, <1>2, <1>3 DEF RagInv, RecordInv

-----------------------------------------------------------------------------
(* The handler, step by step. *)

(* A handler has an attempt to name its embedding by. *)
LEMMA HandlerAttempt ==
    ASSUME RagInv, NEW j \in Jobs, pc[j] # "none"
    PROVE  jobState[j] = "running" /\ attempt[j] \in 1..MaxAttempts
  BY RagTypes, RiverAssumption DEF RecordInv, AttemptsKnow

(* What a step that writes nothing keeps of the record. *)
LEMMA ReadingKeeps ==
    ASSUME RagInv, NEW j \in Jobs, pc[j] # "none", UNCHANGED <<jobState, attempt, expired>>,
           UNCHANGED recordVars, NEW w \in Places \ {"none"}, pc' = [pc EXCEPT ![j] = w],
           disturbed' \in {disturbed, disturbed \cup {j}},
           w \notin {"returnNil", "setRef"},
           w = "returnCancel" => status[j] = "gone",
           w \in {"embed", "insert"} => questionRef[j] = 0,
           w \in {"fetchVector", "dataset", "retrieve", "saveContext", "answer", "persist"} =>
              questionRef[j] # 0 \/ status[j] = "gone",
           w = "failUnread" => j \in disturbed',
           w = "returnErr" => j \in disturbed' \/ evaluation = "Error"
    PROVE  RagInv'
  <1> USE RagTypes
  <1>1. OwnStep(j)
    BY DEF OwnStep, recordVars
  <1>2. jobState[j] = "running" /\ pc'[j] = w /\ RecordInv(j)
    BY HandlerAttempt
  <1>3. OutcomeKnown(j)' /\ EmbeddingKnown(j)' /\ FailureKnown(j)'
    BY <1>2 DEF recordVars, RecordInv, OutcomeKnown, EmbeddingKnown, FailureKnown
  <1> QED
    BY <1>1, <1>3, OwnStepKeepsInv

(* The steps that write nothing: the reads and the calls, and the mark     *)
(* Postgres refuses.                                                       *)
LEMMA ReadsKeepInv ==
    ASSUME RagInv, NEW j \in Jobs,
           \/ FetchRecord(j) \/ EmbedQuestion(j) \/ FetchEmbedding(j) \/ FetchDataset(j)
           \/ RetrieveContext(j) \/ GenerateAnswer(j)
    PROVE  RagInv'
  <1>1. EmbeddingKnown(j) /\ status[j] \in {"Pending", "Success", "Error", "gone"}
    BY RagTypes DEF RecordInv
  <1>2. /\ pc[j] # "none" /\ UNCHANGED <<jobState, attempt, expired>>
        /\ UNCHANGED recordVars
        /\ disturbed' \in {disturbed, disturbed \cup {j}}
    BY DEF FetchRecord, EmbedQuestion, FetchEmbedding, FetchDataset, RetrieveContext,
       GenerateAnswer, Statement, Call, Unmoved, recordVars
  <1>3. \E w \in {"embed", "fetchVector", "returnCancel", "failUnread", "insert", "fail",
                  "dataset", "retrieve", "saveContext", "answer", "persist"} :
           /\ pc' = [pc EXCEPT ![j] = w]
           /\ w = "returnCancel" => status[j] = "gone"
           /\ w \in {"embed", "insert"} => questionRef[j] = 0
           /\ w \in {"fetchVector", "dataset", "retrieve", "saveContext", "answer", "persist"} =>
                 questionRef[j] # 0 \/ status[j] = "gone"
           /\ w = "failUnread" => j \in disturbed'
    <2>1. CASE FetchRecord(j)
      BY <1>1, <2>1 DEF FetchRecord, Statement, Exists, NeedsEmbedding, Goto
    <2>2. CASE EmbedQuestion(j)
      BY <1>1, <2>2 DEF EmbedQuestion, Call, Goto, EmbeddingKnown
    <2>3. CASE FetchEmbedding(j)
      BY <1>1, <2>3 DEF FetchEmbedding, Statement, AfterVector, Goto, EmbeddingKnown
    <2>4. CASE FetchDataset(j)
      BY <1>1, <2>4 DEF FetchDataset, Statement, Goto, EmbeddingKnown
    <2>5. CASE RetrieveContext(j)
      BY <1>1, <2>5 DEF RetrieveContext, Statement, Goto, EmbeddingKnown
    <2>6. CASE GenerateAnswer(j)
      BY <1>1, <2>6 DEF GenerateAnswer, Call, Goto, EmbeddingKnown
    <2> QED
      BY <2>1, <2>2, <2>3, <2>4, <2>5, <2>6
  <1>4. {"embed", "fetchVector", "returnCancel", "failUnread", "insert", "fail", "dataset",
         "retrieve", "saveContext", "answer", "persist"} \subseteq Places \ {"none"}
    BY DEF Places, Returns
  <1> QED
    BY <1>2, <1>3, <1>4, ReadingKeeps

(* The embedding of a question and the reference to it are written in this *)
(* order, so that no fault between them leaves a reference to nothing.     *)
LEMMA EmbeddingKeepsInv ==
    ASSUME RagInv, NEW j \in Jobs, PersistEmbedding(j) \/ PersistRef(j)
    PROVE  RagInv'
  <1> USE RagTypes
  <1>1. pc[j] \in {"insert", "setRef"} /\ pc[j] # "none"
    BY DEF PersistEmbedding, PersistRef
  <1>2. RecordInv(j) /\ jobState[j] = "running" /\ attempt[j] \in 1..MaxAttempts
    BY <1>1, HandlerAttempt
  <1>3. PICK w \in {"setRef", "answer", "dataset", "fail"} : pc' = [pc EXCEPT ![j] = w]
    BY DEF PersistEmbedding, PersistRef, Statement, AfterVector, Goto
  <1>4. w \in Places \ {"none"} /\ pc'[j] = w
    BY <1>3 DEF Places
  <1>5. /\ UNCHANGED <<jobState, attempt, expired, status, answered, context, evaluation>>
        /\ disturbed' \in {disturbed, disturbed \cup {j}}
    BY DEF PersistEmbedding, PersistRef, Statement, InsertEmbedding, SetRef, Unmoved, recordVars
  <1>6. CASE PersistEmbedding(j)
    <2>1. /\ UNCHANGED questionRef /\ w \in {"setRef", "fail"}
          /\ \/ UNCHANGED embedded /\ w # "setRef"
             \/ embedded' = [embedded EXCEPT ![j] = @ \cup {attempt[j]}]
      BY <1>3, <1>4, <1>6 DEF PersistEmbedding, Statement, InsertEmbedding, Goto, recordVars
    <2>2. /\ embedded' \in [Jobs -> SUBSET (1..MaxAttempts)]
          /\ \A k \in Jobs \ {j} : embedded'[k] = embedded[k]
          /\ w = "setRef" => attempt[j] \in embedded'[j]
      <3>1. CASE UNCHANGED embedded /\ w # "setRef"
        BY <3>1
      <3>2. CASE embedded' = [embedded EXCEPT ![j] = @ \cup {attempt[j]}]
        <4>1. embedded[j] \cup {attempt[j]} \in SUBSET (1..MaxAttempts)
          BY <1>2
        <4> QED
          BY <3>2, <4>1
      <3> QED
        BY <2>1, <3>1, <3>2
    <2>3. OwnStep(j)
      BY <1>2, <1>3, <1>4, <1>5, <2>1, <2>2 DEF OwnStep
    <2>4. OutcomeKnown(j)' /\ FailureKnown(j)'
      BY <1>2, <1>4, <1>5 DEF RecordInv, OutcomeKnown, FailureKnown, Reported
    <2>5. EmbeddingKnown(j)'
      <3>1. questionRef[j] = 0
        BY <1>2, <1>6 DEF PersistEmbedding, RecordInv, EmbeddingKnown
      <3> QED
        BY <1>2, <1>4, <1>5, <2>1, <2>2, <3>1 DEF RecordInv, EmbeddingKnown
    <2> QED
      BY <1>1, <2>3, <2>4, <2>5, OwnStepKeepsInv
  <1>7. CASE PersistRef(j)
    <2>1. /\ UNCHANGED embedded
          /\ questionRef' \in {questionRef,
                 [questionRef EXCEPT ![j] = IF Exists(j) THEN attempt[j] ELSE @]}
          /\ w # "setRef"
          /\ w # "fail" =>
                questionRef' = [questionRef EXCEPT ![j] = IF Exists(j) THEN attempt[j] ELSE @]
      BY <1>3, <1>4, <1>7 DEF PersistRef, Statement, SetRef, AfterVector, Goto, recordVars
    <2>2. OwnStep(j)
      BY <1>2, <1>3, <1>4, <1>5, <2>1 DEF OwnStep
    <2>3. OutcomeKnown(j)' /\ FailureKnown(j)'
      BY <1>2, <1>4, <1>5 DEF RecordInv, OutcomeKnown, FailureKnown, Reported
    <2>4. EmbeddingKnown(j)'
      BY <1>2, <1>4, <1>5, <1>7, <2>1 DEF PersistRef, RecordInv, EmbeddingKnown, Exists
    <2> QED
      BY <1>1, <2>2, <2>3, <2>4, OwnStepKeepsInv
  <1> QED
    BY <1>6, <1>7

(* The context and the answer. *)
LEMMA AnsweringKeepsInv ==
    ASSUME RagInv, NEW j \in Jobs, PersistContext(j) \/ PersistResult(j)
    PROVE  RagInv'
  <1> USE RagTypes
  <1>1. pc[j] \in {"saveContext", "persist"} /\ pc[j] # "none"
    BY DEF PersistContext, PersistResult
  <1>2. RecordInv(j) /\ jobState[j] = "running" /\ attempt[j] \in 1..MaxAttempts
    BY <1>1, HandlerAttempt
  <1>3. PICK w \in {"answer", "returnNil", "fail"} : pc' = [pc EXCEPT ![j] = w]
    BY DEF PersistContext, PersistResult, Statement, Goto
  <1>4. w \in Places \ {"none"} /\ pc'[j] = w
    BY <1>3 DEF Places, Returns
  <1>5. /\ UNCHANGED <<jobState, attempt, expired, questionRef, embedded, evaluation>>
        /\ disturbed' \in {disturbed, disturbed \cup {j}}
    BY DEF PersistContext, PersistResult, Statement, SetContext, SetAnswer, Unmoved, recordVars
  <1>6. CASE PersistContext(j)
    <2>1. /\ UNCHANGED <<status, answered>>
          /\ context' \in {context, [context EXCEPT ![j] = Exists(j) \/ @]}
          /\ w = "answer"
      BY <1>3, <1>4, <1>6 DEF PersistContext, Statement, SetContext, Goto, recordVars
    <2>2. context' \in [Jobs -> BOOLEAN]
      BY <2>1
    <2>3. OwnStep(j)
      BY <1>2, <1>3, <1>4, <1>5, <2>1, <2>2 DEF OwnStep
    <2>4. OutcomeKnown(j)' /\ FailureKnown(j)' /\ EmbeddingKnown(j)'
      BY <1>2, <1>4, <1>5, <1>6, <2>1
         DEF PersistContext, RecordInv, OutcomeKnown, FailureKnown, EmbeddingKnown, Reported
    <2> QED
      BY <1>1, <2>3, <2>4, OwnStepKeepsInv
  <1>7. CASE PersistResult(j)
    <2>1. /\ UNCHANGED context
          /\ UNCHANGED <<status, answered>> \/ SetAnswer(j)
          /\ w \in {"returnNil", "fail"}
          /\ w = "returnNil" => SetAnswer(j)
      BY <1>3, <1>4, <1>7 DEF PersistResult, Statement, SetAnswer, Goto, recordVars
    <2>2. /\ status' \in [Jobs -> {"Pending", "Success", "Error", "gone"}]
          /\ answered' \in [Jobs -> BOOLEAN]
          /\ \A k \in Jobs \ {j} : status'[k] = status[k] /\ answered'[k] = answered[k]
          /\ status[j] = "gone" => status'[j] = "gone"
          /\ answered'[j] => answered[j] \/ status[j] # "gone"
          /\ w = "returnNil" => Reported(j)'
      <3>1. CASE UNCHANGED <<status, answered>> /\ w # "returnNil"
        BY <3>1
      <3>2. CASE SetAnswer(j)
        BY <3>2 DEF SetAnswer, Exists, Reported
      <3> QED
        BY <2>1, <3>1, <3>2
    <2>3. OwnStep(j)
      BY <1>2, <1>3, <1>4, <1>5, <2>1, <2>2 DEF OwnStep
    <2>4. OutcomeKnown(j)' /\ FailureKnown(j)'
      BY <1>2, <1>4, <1>5, <2>1, <2>2 DEF RecordInv, OutcomeKnown, FailureKnown
    <2>5. EmbeddingKnown(j)'
      BY <1>2, <1>4, <1>5, <1>7, <2>1, <2>2 DEF PersistResult, RecordInv, EmbeddingKnown
    <2> QED
      BY <1>1, <2>3, <2>4, <2>5, OwnStepKeepsInv
  <1> QED
    BY <1>6, <1>7

(* fail marks the record, and then the evaluation: it returns without the  *)
(* second mark only after a fault.                                         *)
LEMMA FailingKeepsInv ==
    ASSUME RagInv, NEW j \in Jobs, FailRecord(j) \/ FailEvaluation(j)
    PROVE  RagInv'
  <1> USE RagTypes
  <1>1. pc[j] \in {"failUnread", "fail", "failEvaluation"} /\ pc[j] # "none"
    BY DEF FailRecord, FailEvaluation
  <1>2. RecordInv(j) /\ jobState[j] = "running" /\ attempt[j] \in 1..MaxAttempts
    BY <1>1, HandlerAttempt
  <1>3. PICK w \in {"returnErr", "failEvaluation"} : pc' = [pc EXCEPT ![j] = w]
    BY DEF FailRecord, FailEvaluation, Statement, Refused, AfterMark, Goto
  <1>4. w \in Places \ {"none"} /\ pc'[j] = w
    BY <1>3 DEF Places, Returns
  <1>5. /\ UNCHANGED <<jobState, attempt, expired, answered, questionRef, embedded, context>>
        /\ disturbed' \in {disturbed, disturbed \cup {j}}
    BY DEF FailRecord, FailEvaluation, Statement, Refused, SetError, EvaluationError, Unmoved,
       recordVars
  <1>6. /\ status' \in [Jobs -> {"Pending", "Success", "Error", "gone"}]
        /\ \A k \in Jobs \ {j} : status'[k] = status[k]
        /\ status[j] = "gone" => status'[j] = "gone"
        /\ evaluation' \in {evaluation, "Error"}
        /\ w = "returnErr" => j \in disturbed' \/ evaluation' = "Error"
    <2>1. CASE FailRecord(j)
      <3>1. /\ status' \in {status, [status EXCEPT ![j] = IF Exists(j) THEN "Error" ELSE @]}
            /\ UNCHANGED evaluation
        BY <2>1 DEF FailRecord, Statement, Refused, SetError, recordVars
      <3>2. w = "returnErr" => pc[j] = "failUnread"
        BY <1>4, <2>1 DEF FailRecord, Statement, Refused, AfterMark, Goto
      <3>3. pc[j] = "failUnread" => j \in disturbed
        BY <1>2 DEF RecordInv, FailureKnown
      <3> QED
        BY <1>5, <3>1, <3>2, <3>3 DEF Exists
    <2>2. CASE FailEvaluation(j)
      BY <2>2 DEF FailEvaluation, Statement, EvaluationError, recordVars
    <2> QED
      BY <2>1, <2>2
  <1>7. OwnStep(j)
    BY <1>2, <1>3, <1>4, <1>5, <1>6 DEF OwnStep
  <1>8. OutcomeKnown(j)' /\ FailureKnown(j)' /\ EmbeddingKnown(j)'
    BY <1>2, <1>4, <1>5, <1>6
       DEF RecordInv, OutcomeKnown, FailureKnown, EmbeddingKnown, Reported
  <1> QED
    BY <1>1, <1>7, <1>8, OwnStepKeepsInv
-----------------------------------------------------------------------------
(* River and the environment. *)

(* River starts a handler, records what one returned, and picks up what a  *)
(* dead process has left.                                                  *)
LEMMA QueueKeepsInv ==
    ASSUME RagInv, NEW j \in Jobs, RagQueue(j)
    PROVE  RagInv'
  <1> USE RagTypes
  <1>1. RecordInv(j) /\ UNCHANGED <<recordVars, disturbed>>
    BY DEF RagQueue
  <1>2. /\ \E s \in Waiting \cup {"running"} \cup Final : jobState' = [jobState EXCEPT ![j] = s]
        /\ \E a \in 0..MaxAttempts : attempt' = [attempt EXCEPT ![j] = a]
        /\ \E w \in {"start", "none"} : pc' = [pc EXCEPT ![j] = w]
        /\ expired' \subseteq Jobs
        /\ RecordInv(j)'
    <2>1. CASE FetchJob(j)
      <3>1. attempt[j] + 1 \in 1..MaxAttempts
        BY <1>1, <2>1, RiverAssumption DEF FetchJob, RecordInv, AttemptsKnow
      <3>2. /\ jobState' = [jobState EXCEPT ![j] = "running"]
            /\ attempt' = [attempt EXCEPT ![j] = attempt[j] + 1]
            /\ pc' = [pc EXCEPT ![j] = "start"]
            /\ expired' \subseteq Jobs
        BY <2>1 DEF FetchJob, Goto, RagInv, RagTypeOK, RiverTypeOK
      <3>3. jobState'[j] = "running" /\ attempt'[j] = attempt[j] + 1 /\ pc'[j] = "start"
        BY <3>2
      <3>4. AttemptsKnow(j)' /\ OutcomeKnown(j)'
        BY <1>1, <3>1, <3>3 DEF RecordInv, AttemptsKnow, OutcomeKnown, Reported, recordVars,
           Waiting
      <3>5. EmbeddingKnown(j)' /\ FailureKnown(j)'
        BY <1>1, <3>3 DEF RecordInv, EmbeddingKnown, FailureKnown, recordVars
      <3>6. RecordInv(j)'
        BY <3>4, <3>5 DEF RecordInv
      <3>7. attempt[j] + 1 \in 0..MaxAttempts
        BY <3>1
      <3> QED
        BY <3>2, <3>6, <3>7
    <2>2. CASE CloseAttempt(j)
      <3>1. /\ jobState' = [jobState EXCEPT ![j] = OutcomeOf(j)]
            /\ attempt' = [attempt EXCEPT ![j] = attempt[j]]
            /\ pc' = [pc EXCEPT ![j] = "none"]
            /\ expired' \subseteq Jobs
        BY <2>2 DEF CloseAttempt, Goto, RagInv, RagTypeOK, RiverTypeOK
      <3>2. /\ OutcomeOf(j) \in {"completed", "cancelled", "retryable", "discarded"}
            /\ OutcomeOf(j) = "completed" <=> pc[j] = "returnNil"
            /\ OutcomeOf(j) = "cancelled" <=> pc[j] = "returnCancel"
            /\ OutcomeOf(j) = "retryable" => attempt[j] < MaxAttempts
            /\ OutcomeOf(j) \in {"retryable", "discarded"} => pc[j] = "returnErr"
        BY <2>2 DEF CloseAttempt, OutcomeOf, AfterFailure, Returns
      <3>3. jobState'[j] = OutcomeOf(j) /\ attempt'[j] = attempt[j] /\ pc'[j] = "none"
        BY <3>1, <3>2 DEF Waiting, Final
      <3>4. RecordInv(j)'
        BY <1>1, <3>2, <3>3 DEF RecordInv, AttemptsKnow, OutcomeKnown, EmbeddingKnown,
           FailureKnown, Reported, recordVars, Waiting
      <3> QED
        BY <3>1, <3>2, <3>4 DEF Waiting, Final
    <2>3. CASE RescueJob(j)
      <3>1. /\ jobState[j] = "running" /\ pc[j] = "none"
            /\ jobState' = [jobState EXCEPT ![j] = AfterFailure(j)]
            /\ attempt' = [attempt EXCEPT ![j] = attempt[j]]
            /\ pc' = [pc EXCEPT ![j] = "none"]
            /\ expired' \subseteq Jobs
        BY <2>3 DEF RescueJob, RagInv, RagTypeOK, RiverTypeOK
      <3>2. /\ AfterFailure(j) \in {"retryable", "discarded"}
            /\ AfterFailure(j) = "retryable" => attempt[j] < MaxAttempts
        BY DEF AfterFailure
      <3>3. jobState'[j] = AfterFailure(j) /\ attempt'[j] = attempt[j] /\ pc'[j] = "none"
        BY <3>1, <3>2 DEF Waiting, Final
      <3>4. RecordInv(j)'
        BY <1>1, <3>1, <3>2, <3>3 DEF RecordInv, AttemptsKnow, OutcomeKnown, EmbeddingKnown,
           FailureKnown, Reported, recordVars, Waiting
      <3> QED
        BY <3>1, <3>2, <3>4 DEF Waiting, Final
    <2> QED
      BY <2>1, <2>2, <2>3 DEF RagQueue
  <1>3. ASSUME NEW k \in Jobs \ {j} PROVE RecordInv(k)'
    BY <1>1, <1>2, RecordUntouched DEF recordVars
  <1>4. RagTypeOK'
    <2>1. /\ pc' \in [Jobs -> Places]
          /\ jobState' \in [Jobs -> Waiting \cup {"running"} \cup Final]
          /\ attempt' \in [Jobs -> 0..MaxAttempts]
      BY <1>2 DEF Places
    <2> QED
      BY <1>1, <1>2, <2>1 DEF RagTypeOK, RiverTypeOK, Places, recordVars
  <1> QED
    BY <1>2, <1>3, <1>4 DEF RagInv

(* A deadline, a deletion and a crash write no record; a crash leaves the  *)
(* jobs it stops disturbed.                                                *)
LEMMA FaultsKeepInv ==
    ASSUME RagInv,
           \/ \E j \in Jobs : RagDeadline(j) \/ DeleteRecord(j)
           \/ RagCrash
    PROVE  RagInv'
  <1> USE RagTypes
  <1>1. ASSUME NEW j \in Jobs, RagDeadline(j) PROVE RagInv'
    <2>1. ASSUME NEW k \in Jobs PROVE RecordInv(k)'
      BY <1>1, RecordUntouched DEF RagDeadline, DeadlinePasses, recordVars
    <2> QED
      BY <1>1, <2>1 DEF RagInv, RagDeadline, DeadlinePasses, RagTypeOK, RiverTypeOK, recordVars
  <1>2. ASSUME NEW j \in Jobs, DeleteRecord(j) PROVE RagInv'
    <2>1. ASSUME NEW k \in Jobs PROVE RecordInv(k)'
      BY <1>2, RecordUntouched DEF DeleteRecord, riverVars
    <2> QED
      BY <1>2, <2>1 DEF RagInv, DeleteRecord, riverVars, RagTypeOK, RiverTypeOK
  <1>3. ASSUME RagCrash PROVE RagInv'
    <2>1. ASSUME NEW k \in Jobs PROVE RecordInv(k)'
      <3>1. /\ UNCHANGED <<jobState, attempt, recordVars>> /\ pc'[k] = "none"
            /\ k \in disturbed' <=> k \in disturbed \/ pc[k] # "none"
        BY <1>3 DEF RagCrash, ProcessDies
      <3> QED
        BY <3>1 DEF RecordInv, AttemptsKnow, OutcomeKnown, EmbeddingKnown, FailureKnown,
           Reported, recordVars
    <2>2. pc' \in [Jobs -> Places]
      BY <1>3 DEF RagCrash, ProcessDies, Places
    <2> QED
      BY <1>3, <2>1, <2>2
         DEF RagInv, RagCrash, ProcessDies, RagTypeOK, RiverTypeOK, Places, recordVars
  <1> QED
    BY <1>1, <1>2, <1>3

(* Every step of the worker and of its environment keeps the invariant.    *)
LEMMA RagStep == RagInv /\ [RagNext]_vars => RagInv'
  <1> SUFFICES ASSUME RagInv, [RagNext]_vars PROVE RagInv'
    OBVIOUS
  <1>1. ASSUME NEW j \in Jobs, RagRun(j) PROVE RagInv'
    BY <1>1, ReadsKeepInv, EmbeddingKeepsInv, AnsweringKeepsInv, FailingKeepsInv DEF RagRun
  <1>2. ASSUME NEW j \in Jobs, RagQueue(j) PROVE RagInv'
    BY <1>2, QueueKeepsInv
  <1>3. CASE UNCHANGED vars
    <2>1. ASSUME NEW k \in Jobs PROVE RecordInv(k)'
      BY <1>3, RagTypes, RecordUntouched DEF vars, riverVars, recordVars
    <2> QED
      BY <1>3, <2>1 DEF vars, riverVars, recordVars, RagInv, RagTypeOK, RiverTypeOK
  <1> QED
    BY <1>1, <1>2, <1>3, FaultsKeepInv DEF RagNext

(* Every reachable state satisfies the invariant, from which what the      *)
(* runs check follows.                                                     *)
THEOREM RagInvariant == RagSpec => []RagInv
  BY RagInitInv, RagStep, PTL DEF RagSpec

(* Types. *)
THEOREM RagTypesKept == RagSpec => []RagTypeOK
  <1>1. RagInv => RagTypeOK
    BY DEF RagInv
  <1> QED
    BY <1>1, RagInvariant, PTL

(* rageval.go:8, "Update the eval record with the answer and mark it       *)
(* Success": whatever faults strike, a completed job has left its record   *)
(* answered and Success, or the record is gone; a cancelled job has none.  *)
THEOREM CompletedRecordsAreAnswered == RagSpec => []OutcomeIsTrue
  <1>1. RagInv => OutcomeIsTrue
    BY DEF RagInv, RecordInv, OutcomeKnown, Reported, OutcomeIsTrue
  <1> QED
    BY <1>1, RagInvariant, PTL

(* A record refers only to an embedding that was inserted, and an answered *)
(* record refers to one.                                                   *)
THEOREM ReferencesAreToEmbeddings == RagSpec => []AnswerHasEmbedding
  <1>1. RagInv => AnswerHasEmbedding
    BY DEF RagInv, RecordInv, EmbeddingKnown, AnswerHasEmbedding
  <1> QED
    BY <1>1, RagInvariant, PTL

(* rageval.go:9, "On error, mark both the record and its parent            *)
(* evaluation as Error": an undisturbed job that is given up has marked    *)
(* the evaluation.                                                         *)
THEOREM FailuresMarkTheEvaluation == RagSpec => []GivenUpIsReported
  <1>1. RagInv => GivenUpIsReported
    BY DEF RagInv, RecordInv, FailureKnown, GivenUpIsReported
  <1> QED
    BY <1>1, RagInvariant, PTL

-----------------------------------------------------------------------------
(* Only the two statements of the embedding write the reference and the    *)
(* embeddings, and they run only while there is no reference.              *)
LEMMA EmbeddedRecordsKept ==
    ASSUME RagInv, [RagNext]_vars, NEW j \in Jobs, questionRef[j] # 0
    PROVE  questionRef'[j] = questionRef[j] /\ embedded'[j] = embedded[j]
  <1> USE RagTypes
  <1>1. EmbeddingKnown(j)
    BY DEF RecordInv
  <1>2. ASSUME NEW k \in Jobs, RagRun(k)
        PROVE  questionRef'[j] = questionRef[j] /\ embedded'[j] = embedded[j]
    <2>1. CASE PersistEmbedding(k)
      <3>1. k # j
        BY <1>1, <2>1 DEF PersistEmbedding, EmbeddingKnown
      <3> QED
        BY <2>1, <3>1 DEF PersistEmbedding, Statement, InsertEmbedding, recordVars
    <2>2. CASE PersistRef(k)
      <3>1. k # j
        BY <1>1, <2>2 DEF PersistRef, EmbeddingKnown
      <3> QED
        BY <2>2, <3>1 DEF PersistRef, Statement, SetRef, recordVars
    <2>3. CASE ~PersistEmbedding(k) /\ ~PersistRef(k)
      <3>1. UNCHANGED <<questionRef, embedded>>
        BY <1>2, <2>3 DEF RagRun, FetchRecord, EmbedQuestion, FetchEmbedding, FetchDataset,
           RetrieveContext, PersistContext, GenerateAnswer, PersistResult, FailRecord,
           FailEvaluation, Call, Refused, Statement, SetContext, SetAnswer, SetError,
           EvaluationError, recordVars
      <3> QED
        BY <3>1
    <2> QED
      BY <2>1, <2>2, <2>3
  <1>3. CASE \/ \E k \in Jobs : RagQueue(k) \/ RagDeadline(k) \/ DeleteRecord(k)
             \/ RagCrash
             \/ UNCHANGED vars
    BY <1>3 DEF RagQueue, RagDeadline, DeleteRecord, RagCrash, recordVars, vars
  <1> QED
    BY <1>2, <1>3 DEF RagNext

(* rageval.go:5, "Embed the question (if question_embedding_id is null)":  *)
(* no step of any job replaces a record's embedding or adds another once   *)
(* the record refers to one.                                               *)
THEOREM QuestionsAreEmbeddedOnce == RagSpec => EmbeddedOnce
  <1>1. ASSUME RagInv, [RagNext]_vars
        PROVE  [\A j \in Jobs :
                  questionRef[j] # 0 =>
                      questionRef'[j] = questionRef[j] /\ embedded'[j] = embedded[j]]_vars
    BY <1>1, EmbeddedRecordsKept
  <1> QED
    BY <1>1, RagInvariant, PTL DEF RagSpec, EmbeddedOnce
=============================================================================
