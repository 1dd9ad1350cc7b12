--------------------------- MODULE ParseWorkerProofs ---------------------------
(***************************************************************************)
(* The parse worker follows the ledger protocol and never shows success    *)
(* for chunks that cannot be reached, for any jobs, limits and faults; and *)
(* the pool is live for any size above the number of file_ingest workers.  *)
(***************************************************************************)
EXTENDS ParseWorker, JobLedgerProofs, FiniteSetTheorems

(* Where a run is, what it holds, and what its attempt has written.        *)
(* Written(j): the job has linked its chunks and nothing made River run it *)
(* again.                                                                  *)
Linking(j) == pc[j] = "run" /\ stage[j] \in {"link", "linkSent"}
Written(j) == pc[j] \in {"markSuccess", "returnNil"} \/ jobState[j] = "completed"

RunKnows(j) ==
    /\ pc[j] # "run" \/ KindOf[j] # "parse" => stage[j] = "meta"
    /\ conns[j] = IF stage[j] = "link" THEN 1 ELSE IF stage[j] = "linkSent" THEN 2 ELSE 0
    /\ Linking(j) => attempt[j] \in chunked[j]
    /\ KindOf[j] = "parse" /\ applied[j] => chunked[j] \cap linked[j] # {}

(* A job that no fault has hit has written nothing, or its chunks without  *)
(* links, or both.  One whose file is deleted keeps the chunks it then had *)
(* and gets no further than reading the file's row.                        *)
OneCopy(j) ==
    KindOf[j] = "parse" /\ j \notin disturbed =>
        /\ j \notin lost =>
              chunked[j] = IF Linking(j) \/ Written(j) THEN {attempt[j]} ELSE {}
        /\ j \in lost =>
              /\ stage[j] = "meta" /\ ~Written(j)
              /\ \E a \in 1..MaxAttempts : chunked[j] = {a}
        /\ linked[j] = IF Written(j) THEN {attempt[j]} ELSE {}

ParseInv ==
    /\ LedgerInv
    /\ ParseTypeOK
    /\ \A j \in Jobs : RunKnows(j) /\ OneCopy(j)

(* A run that goes on, or ends, takes a step of the protocol or none.      *)
LEMMA RunFollowsProtocol ==
    ASSUME TypeOK, NEW j \in Jobs, ParseRun(j)
    PROVE  UNCHANGED ledgerVars \/ RunOk(j) \/ RunErr(j)
  <1>1. CASE FetchFileMeta(j) \/ FetchAndChunk(j) \/ InsertChunks(j) \/ SendLinks(j)
    BY <1>1 DEF FetchFileMeta, FetchAndChunk, InsertChunks, SendLinks, Step
  <1>2. CASE LinkChunks(j)
    BY <1>2 DEF LinkChunks
  <1>3. CASE ParseFails(j)
    <2>1. applied = [applied EXCEPT ![j] = applied[j]]
      BY DEF TypeOK
    <2>2. \E made \in {applied[j], TRUE} : applied' = [applied EXCEPT ![j] = made]
      BY <1>3, <2>1 DEF ParseFails, FileFails, StatementFails
    <2>3. Hit(j) \/ UNCHANGED disturbed
      BY <1>3 DEF ParseFails, FileFails, StatementFails
    <2> QED
      BY <1>3, <2>2, <2>3 DEF ParseFails, RunErr
  <1> QED
    BY <1>1, <1>2, <1>3 DEF ParseRun

(* Every step of the worker is a step of the protocol, or none.            *)
LEMMA ParseFollowsProtocol == TypeOK /\ [ParseNext]_vars => [Next]_ledgerVars
  <1> SUFFICES ASSUME TypeOK, [ParseNext]_vars PROVE [Next]_ledgerVars
    OBVIOUS
  <1>1. ASSUME NEW j \in Jobs, ParseRun(j) PROVE [Next]_ledgerVars
    BY <1>1, RunFollowsProtocol DEF Next
  <1>2. ASSUME NEW j \in Jobs, LedgerStep(j) PROVE [Next]_ledgerVars
    BY <1>2 DEF LedgerStep, Next, Handler
  <1>3. ASSUME NEW j \in Jobs, ParseEnvironment(j) PROVE [Next]_ledgerVars
    BY <1>3 DEF ParseEnvironment, Next
  <1>4. CASE ParseCrash
    BY <1>4 DEF ParseCrash, Next
  <1>5. CASE UNCHANGED vars
    BY <1>5 DEF vars, ledgerVars
  <1> QED
    BY <1>1, <1>2, <1>3, <1>4, <1>5 DEF ParseNext

-----------------------------------------------------------------------------
(* The worker's part of the invariant. *)

(* No run has begun and no chunk is written.                               *)
LEMMA ParseInitInv == ParseInit => ParseInv
  <1> SUFFICES ASSUME ParseInit PROVE ParseInv
    OBVIOUS
  <1>1. LedgerInv
    BY InitInv DEF ParseInit
  <1>2. ParseTypeOK
    BY DEF ParseInit, ParseTypeOK
  <1>3. ASSUME NEW j \in Jobs PROVE RunKnows(j) /\ OneCopy(j)
    BY DEF ParseInit, Init, RiverInit, RunKnows, OneCopy, Linking, Written
  <1> QED
    BY <1>1, <1>2, <1>3 DEF ParseInv

(* A step that leaves everything about a job as it is keeps what the       *)
(* invariant says of it.                                                   *)
LEMMA ParseUntouched ==
    ASSUME NEW k \in Jobs, RunKnows(k), OneCopy(k),
           jobState'[k] = jobState[k], attempt'[k] = attempt[k], pc'[k] = pc[k],
           applied'[k] = applied[k], disturbed \subseteq disturbed',
           stage'[k] = stage[k], conns'[k] = conns[k],
           chunked'[k] = chunked[k], linked'[k] = linked[k],
           k \in lost' <=> k \in lost
    PROVE  RunKnows(k)' /\ OneCopy(k)'
  BY DEF RunKnows, OneCopy, Linking, Written

(* A handler at work belongs to a running job on its first or a later      *)
(* attempt.                                                                *)
LEMMA RunningAttempt ==
    ASSUME ParseInv, NEW j \in Jobs, pc[j] # "none"
    PROVE  jobState[j] = "running" /\ attempt[j] \in 1..MaxAttempts
  BY RiverAssumption DEF ParseInv, LedgerInv, TypeOK, RiverTypeOK, HandlerKnows, AttemptsKnow

(* The variables of the invariant, for the steps below. *)
LEMMA ParseTypes ==
    ASSUME ParseInv
    PROVE  /\ jobState \in [Jobs -> Waiting \cup {"running"} \cup Final]
           /\ attempt \in [Jobs -> 0..MaxAttempts]
           /\ pc \in [Jobs -> {"none", "start", "run", "markSuccess", "markError"} \cup Returns]
           /\ applied \in [Jobs -> BOOLEAN]
           /\ disturbed \subseteq Jobs
           /\ ParseTypeOK
  BY DEF ParseInv, LedgerInv, TypeOK, RiverTypeOK

(* A run of the worker keeps the worker's part of the invariant. *)
LEMMA RunKeepsChunks ==
    ASSUME ParseInv, NEW j \in Jobs, ParseRun(j)
    PROVE  ParseTypeOK' /\ \A k \in Jobs : RunKnows(k)' /\ OneCopy(k)'
  <1> USE ParseTypes DEF ParseTypeOK
  <1>1. /\ KindOf[j] = "parse" /\ pc[j] = "run"
        /\ RunKnows(j) /\ OneCopy(j)
        /\ \A k \in Jobs : RunKnows(k) /\ OneCopy(k)
    BY DEF ParseInv, ParseRun, FetchFileMeta, FetchAndChunk, InsertChunks, SendLinks,
           LinkChunks, ParseFails, At
  <1>2. jobState[j] = "running" /\ attempt[j] \in 1..MaxAttempts
    BY <1>1, RunningAttempt
  <1>3. CASE FetchFileMeta(j) \/ FetchAndChunk(j) \/ InsertChunks(j) \/ SendLinks(j)
    <2>1. UNCHANGED ledgerVars
      BY <1>3 DEF FetchFileMeta, FetchAndChunk, InsertChunks, SendLinks, Step
    <2>2. ParseTypeOK'
      <3>1. CASE FetchFileMeta(j) \/ FetchAndChunk(j)
        BY <1>1, <3>1 DEF FetchFileMeta, FetchAndChunk, Step, At, RunKnows
      <3>2. CASE InsertChunks(j)
        BY <1>1, <1>2, <3>2 DEF InsertChunks, Step, At, RunKnows
      <3>3. CASE SendLinks(j)
        BY <1>1, <3>3 DEF SendLinks, Step, At, RunKnows
      <3> QED
        BY <1>3, <3>1, <3>2, <3>3
    <2>3. RunKnows(j)' /\ OneCopy(j)'
      <3>1. CASE FetchFileMeta(j) \/ FetchAndChunk(j)
        <4>1. RunKnows(j)'
          BY <1>1, <1>2, <2>1, <3>1 DEF FetchFileMeta, FetchAndChunk, Step, At, ledgerVars,
             RunKnows, Linking
        <4>2. OneCopy(j)'
          BY <1>1, <1>2, <2>1, <3>1 DEF FetchFileMeta, FetchAndChunk, Step, At, ledgerVars,
             OneCopy, Linking, Written
        <4> QED
          BY <4>1, <4>2
      <3>2. CASE InsertChunks(j)
        BY <1>1, <1>2, <2>1, <3>2 DEF InsertChunks, Step, At, ledgerVars,
           RunKnows, OneCopy, Linking, Written
      <3>3. CASE SendLinks(j)
        BY <1>1, <1>2, <2>1, <3>3 DEF SendLinks, Step, At, ledgerVars,
           RunKnows, OneCopy, Linking, Written
      <3> QED
        BY <1>3, <3>1, <3>2, <3>3
    <2>4. \A k \in Jobs \ {j} : RunKnows(k)' /\ OneCopy(k)'
      BY <1>1, <1>3, <2>1, ParseUntouched DEF FetchFileMeta, FetchAndChunk, InsertChunks,
         SendLinks, Step, ledgerVars
    <2> QED
      BY <2>2, <2>3, <2>4
  <1>4. CASE LinkChunks(j)
    <2>1. ParseTypeOK'
      BY <1>2, <1>4 DEF LinkChunks, EndRun
    <2>2. RunKnows(j)' /\ OneCopy(j)'
      BY <1>1, <1>2, <1>4 DEF LinkChunks, EndRun, RunOk, Goto, At, RunKnows, OneCopy, Linking, Written
    <2>3. \A k \in Jobs \ {j} : RunKnows(k)' /\ OneCopy(k)'
      BY <1>1, <1>4, ParseUntouched DEF LinkChunks, EndRun, RunOk, Goto
    <2> QED
      BY <2>1, <2>2, <2>3
  <1>5. CASE ParseFails(j)
    <2>1. ParseTypeOK'
      BY <1>2, <1>5 DEF ParseFails, FileFails, StatementFails, EndRun
    <2>2. CASE FileFails(j)
      BY <1>1, <1>2, <1>5, <2>2, ParseUntouched
         DEF ParseFails, FileFails, EndRun, Goto, RunKnows, OneCopy, Linking, Written
    <2>3. CASE StatementFails(j)
      <3>1. RunKnows(j)'
        BY <1>1, <1>2, <1>5, <2>3
           DEF ParseFails, StatementFails, EndRun, Goto, RunKnows, Linking
      <3>2. OneCopy(j)'
        BY <2>3 DEF StatementFails, Hit, OneCopy
      <3>3. \A k \in Jobs \ {j} : RunKnows(k)' /\ OneCopy(k)'
        BY <1>1, <1>5, <2>3, ParseUntouched DEF ParseFails, StatementFails, Hit, EndRun, Goto
      <3> QED
        BY <2>1, <3>1, <3>2, <3>3
    <2> QED
      BY <1>5, <2>1, <2>2, <2>3 DEF ParseFails
  <1> QED
    BY <1>3, <1>4, <1>5 DEF ParseRun

(* A statement of Work moves its job only, and hits it if it fails.        *)
LEMMA StatementsKeepChunks ==
    ASSUME ParseInv, NEW j \in Jobs, UNCHANGED parseVars,
           MarkProcessing(j) \/ MarkSuccess(j) \/ MarkError(j)
    PROVE  \A k \in Jobs : RunKnows(k)' /\ OneCopy(k)'
  <1> USE ParseTypes
  <1>1. \A k \in Jobs : RunKnows(k) /\ OneCopy(k)
    BY DEF ParseInv
  <1>2. jobState[j] = "running"
    BY RunningAttempt DEF MarkProcessing, MarkSuccess, MarkError
  <1>3. RunKnows(j)' /\ OneCopy(j)'
    BY <1>1, <1>2 DEF MarkProcessing, MarkSuccess, MarkError, Answered, Unanswered, Hit, Goto,
       parseVars, RunKnows, OneCopy, Linking, Written
  <1>4. \A k \in Jobs \ {j} : RunKnows(k)' /\ OneCopy(k)'
    BY <1>1, ParseUntouched DEF MarkProcessing, MarkSuccess, MarkError, Answered, Unanswered,
       Hit, Goto, parseVars
  <1> QED
    BY <1>3, <1>4

(* A job River takes up or gives back has written what it had written.     *)
LEMMA QueueKeepsChunks ==
    ASSUME ParseInv, NEW j \in Jobs, UNCHANGED parseVars, Return(j) \/ Queue(j)
    PROVE  \A k \in Jobs : RunKnows(k)' /\ OneCopy(k)'
  <1> USE ParseTypes
  <1>1. \A k \in Jobs : RunKnows(k) /\ OneCopy(k)
    BY DEF ParseInv
  <1>2. pc[j] # "none" => jobState[j] = "running"
    BY RunningAttempt
  <1>3. CASE Return(j)
    <2>1. RunKnows(j)' /\ OneCopy(j)'
      BY <1>1, <1>2, <1>3 DEF Return, CloseAttempt, OutcomeOf, AfterFailure, Returns, Goto,
         parseVars, RunKnows, OneCopy, Linking, Written
    <2>2. \A k \in Jobs \ {j} : RunKnows(k)' /\ OneCopy(k)'
      BY <1>1, <1>3, ParseUntouched DEF Return, CloseAttempt, Goto, parseVars
    <2> QED
      BY <2>1, <2>2
  <1>4. CASE Queue(j)
    <2>1. RunKnows(j)' /\ OneCopy(j)'
      <3>1. CASE Fetch(j)
        BY <1>1, <1>2, <3>1 DEF Fetch, FetchJob, Waiting, Goto, parseVars, RunKnows, OneCopy,
           Linking, Written
      <3>2. CASE Rescue(j)
        BY <1>1, <3>2 DEF Rescue, RescueJob, AfterFailure, parseVars, RunKnows, OneCopy,
           Linking, Written
      <3> QED
        BY <1>4, <3>1, <3>2 DEF Queue
    <2>2. \A k \in Jobs \ {j} : RunKnows(k)' /\ OneCopy(k)'
      BY <1>1, <1>4, ParseUntouched DEF Queue, Fetch, FetchJob, Rescue, RescueJob, Goto, parseVars
    <2> QED
      BY <2>1, <2>2
  <1> QED
    BY <1>3, <1>4

(* Every step keeps the invariant. *)
LEMMA ParseStep == ParseInv /\ [ParseNext]_vars => ParseInv'
  <1> SUFFICES ASSUME ParseInv, [ParseNext]_vars PROVE ParseInv'
    OBVIOUS
  <1>1. LedgerInv'
    BY ParseFollowsProtocol, StepInv DEF ParseInv, LedgerInv
  <1>2. ParseTypeOK /\ \A k \in Jobs : RunKnows(k) /\ OneCopy(k)
    BY DEF ParseInv
  <1>3. ASSUME NEW j \in Jobs, ParseRun(j) PROVE ParseInv'
    BY <1>1, <1>3, RunKeepsChunks DEF ParseInv
  <1>4. ASSUME NEW j \in Jobs, LedgerStep(j) PROVE ParseInv'
    <2>1. UNCHANGED parseVars
      BY <1>4 DEF LedgerStep
    <2>2. ParseTypeOK'
      BY <1>2, <2>1 DEF parseVars, ParseTypeOK
    <2> QED
      BY <1>1, <1>4, <2>1, <2>2, StatementsKeepChunks, QueueKeepsChunks DEF LedgerStep, ParseInv
  <1>5. ASSUME NEW j \in Jobs, ParseEnvironment(j) PROVE ParseInv'
    <2>1. ParseTypeOK'
      BY <1>2, <1>5 DEF ParseEnvironment, parseVars, ParseTypeOK
    <2>2. \A k \in Jobs : RunKnows(k)' /\ OneCopy(k)'
      BY <1>2, <1>5, ParseUntouched DEF ParseEnvironment, Environment, Deadline, DeadlinePasses,
         DeleteRow, Hit, parseVars
    <2> QED
      BY <1>1, <2>1, <2>2 DEF ParseInv
  <1>6. CASE ParseCrash
    <2>1. ParseTypeOK'
      BY <1>2, <1>6 DEF ParseCrash, ParseTypeOK
    <2>2. ASSUME NEW k \in Jobs PROVE RunKnows(k)' /\ OneCopy(k)'
      <3>1. RunKnows(k) /\ OneCopy(k)
        BY <1>2
      <3>2. pc'[k] = "none" /\ stage'[k] = "meta" /\ conns'[k] = 0
        BY <1>6 DEF ParseCrash, Crash, ProcessDies
      <3>3. k \notin disturbed' => k \notin disturbed /\ pc[k] = "none"
        BY <1>6 DEF ParseCrash, Crash
      <3>4. UNCHANGED <<jobState, attempt, applied, chunked, linked, lost>>
        BY <1>6 DEF ParseCrash, Crash, ProcessDies
      <3> QED
        BY <3>1, <3>2, <3>3, <3>4 DEF RunKnows, OneCopy, Linking, Written
    <2> QED
      BY <1>1, <2>1, <2>2 DEF ParseInv
  <1>7. CASE UNCHANGED vars
    <2>1. UNCHANGED <<ledgerVars, parseVars>>
      BY <1>7 DEF vars, ledgerVars, parseVars
    <2> QED
      BY <1>1, <1>2, <2>1, ParseUntouched DEF ledgerVars, parseVars, ParseTypeOK, ParseInv
  <1> QED
    BY <1>3, <1>4, <1>5, <1>6, <1>7 DEF ParseNext

(* The invariant holds in every reachable state. *)
THEOREM ParseInvariant == ParseSpec => []ParseInv
  <1> QED BY ParseInitInv, ParseStep, PTL DEF ParseSpec

(* The variables keep their types. *)
THEOREM ParseTypesKept == ParseSpec => []ParseTypeOK
  <1>1. ParseInv => ParseTypeOK BY DEF ParseInv
  <1> QED BY <1>1, ParseInvariant, PTL

(* The parse worker implements the ledger protocol, so that what is proved *)
(* of the protocol holds of it.                                            *)
THEOREM ParseImplementsLedger == ParseSpec => ImplementsLedger
  <1>1. ParseInit => Init
    BY DEF ParseInit
  <1>2. ParseInv => TypeOK
    BY DEF ParseInv, LedgerInv
  <1> QED
    BY <1>1, <1>2, ParseFollowsProtocol, ParseInvariant, PTL DEF ParseSpec, ImplementsLedger, Spec

(* The same of the board the BFF relies on: it is what parse tasks show.   *)
THEOREM ParseImplementsTaskBoard == ParseSpec => ImplementsTaskBoard
  <1> QED BY ParseImplementsLedger, LedgerImplementsTaskBoard, PTL DEF ImplementsLedger

(* A file whose task shows success has chunks that can be reached from it. *)
THEOREM SuccessfulFilesAreLinked == ParseSpec => []SuccessIsLinked
  <1>1. ParseInv => SuccessIsLinked
    BY DEF ParseInv, LedgerInv, RunKnows, SuccessIsLinked, ParseJobs
  <1> QED BY <1>1, ParseInvariant, PTL

(* Downloads that fail and rows that vanish leave one copy of the chunks,  *)
(* linked, or none.                                                        *)
THEOREM UndisturbedFilesHaveOneCopy == ParseSpec => []OneCopyOfChunks
  <1>1. ParseInv => OneCopyOfChunks
    <2> SUFFICES ASSUME ParseInv, NEW j \in ParseJobs \ disturbed
                 PROVE  /\ Cardinality(chunked[j]) <= 1
                        /\ jobState[j] \in Final => linked[j] = chunked[j] \/ j \in lost
      BY DEF OneCopyOfChunks
    <2>1. j \in Jobs /\ OneCopy(j) /\ KindOf[j] = "parse"
      BY DEF ParseInv, ParseJobs
    <2>2. Cardinality(chunked[j]) <= 1
      <3>1. CASE chunked[j] = {}
        BY <3>1, FS_EmptySet
      <3>2. ASSUME NEW a, chunked[j] = {a} PROVE Cardinality(chunked[j]) <= 1
        <4>1. Cardinality({a}) = 1
          BY FS_Singleton
        <4> QED
          BY <3>2, <4>1
      <3> QED
        BY <2>1, <3>1, <3>2 DEF OneCopy
    <2>3. jobState[j] \in Final => ~Linking(j)
      BY <2>1, RunningAttempt DEF Final, Linking
    <2> QED
      BY <2>1, <2>2, <2>3 DEF OneCopy
  <1> QED BY <1>1, ParseInvariant, PTL

-----------------------------------------------------------------------------
(* The pool. *)

(* No more runs hold a connection than file_ingest has workers.            *)
LEMMA HoldersAreHandlers ==
    ASSUME IsFiniteSet(Jobs), ParseInv, WithinLimits
    PROVE  /\ Cardinality(Holding(1)) \in Nat
           /\ Cardinality(Holding(1)) <= MaxWorkers["file_ingest"]
           /\ MaxWorkers["file_ingest"] \in Nat
           /\ \A j \in Holding(2) : pc[j] = "run"
  <1>1. ASSUME NEW j \in Jobs, conns[j] # 0 PROVE pc[j] = "run" /\ KindOf[j] = "parse"
    BY <1>1 DEF ParseInv, RunKnows
  <1>2. Holding(1) \subseteq Handlers("file_ingest")
    BY <1>1 DEF Holding, Handlers, QueueOf
  <1>3. IsFiniteSet(Handlers("file_ingest"))
    <2>1. Handlers("file_ingest") \subseteq Jobs
      BY DEF Handlers
    <2> QED
      BY <2>1, FS_Subset
  <1>4. /\ IsFiniteSet(Holding(1))
        /\ Cardinality(Holding(1)) <= Cardinality(Handlers("file_ingest"))
    BY <1>2, <1>3, FS_Subset
  <1>5. Cardinality(Holding(1)) \in Nat /\ Cardinality(Handlers("file_ingest")) \in Nat
    BY <1>3, <1>4, FS_CardinalityType
  <1>6. /\ Cardinality(Handlers("file_ingest")) <= MaxWorkers["file_ingest"]
        /\ MaxWorkers["file_ingest"] \in Nat
    BY RiverAssumption DEF WithinLimits, Queues
  <1>7. \A j \in Holding(2) : pc[j] = "run"
    BY <1>1 DEF Holding
  <1> QED
    BY <1>4, <1>5, <1>6, <1>7

(* With more connections than file_ingest workers the parse runs cannot    *)
(* all wait for each other.                                                *)
THEOREM PoolStaysLive == ASSUME IsFiniteSet(Jobs) PROVE ParseSpec => []PoolIsLive
  <1>1. ParseInv /\ WithinLimits => PoolIsLive
    <2> SUFFICES ASSUME ParseInv, WithinLimits, PoolSize > MaxWorkers["file_ingest"],
                        ~\E j \in Holding(2) : pc[j] = "run"
                 PROVE  Free > 0
      BY DEF PoolIsLive
    <2>1. Holding(2) = {}
      BY HoldersAreHandlers
    <2>2. Cardinality(Holding(2)) = 0
      BY <2>1, FS_EmptySet
    <2> QED
      BY <2>2, HoldersAreHandlers, PoolAssumption DEF Free
  <1>2. ParseSpec => []WithinLimits
    BY ParseImplementsLedger, QueuesKeepLimits, PTL DEF ImplementsLedger
  <1> QED
    BY <1>1, <1>2, ParseInvariant, PTL
=============================================================================
