--------------------------- MODULE JobLedgerProofs ---------------------------
(***************************************************************************)
(* The ledger protocol is correct for every set of jobs, every number of   *)
(* attempts, every limit of workers and every combination of faults.       *)
(***************************************************************************)
EXTENDS JobLedger, FiniteSetTheorems, TLAPS

(* What a statement of a handler leaves in the row, answered or not. *)
LEMMA WriteLemma ==
    ASSUME TypeOK, NEW j \in Jobs, NEW s \in {"processing", "success", "error"},
           Answered(j, s) \/ Unanswered(j, s)
    PROVE  /\ row' \in [Jobs -> {"pending", "processing", "success", "error", "gone"}]
           /\ row'[j] \in {row[j], s}
           /\ row[j] = "gone" => row'[j] = "gone"
           /\ Answered(j, s) => row'[j] = IF row[j] = "gone" THEN "gone" ELSE s
           /\ \A k \in Jobs \ {j} : row'[k] = row[k]
           /\ disturbed \subseteq disturbed' /\ disturbed' \subseteq Jobs
           /\ Unanswered(j, s) => j \in disturbed'
  BY DEF Answered, Unanswered, Write, Hit, TypeOK, RiverTypeOK

(* The initial ledgers satisfy the invariant. *)
LEMMA InitInv == Init => LedgerInv
  <1> SUFFICES ASSUME Init PROVE LedgerInv
    OBVIOUS
  <1> QED
    BY RiverAssumption DEF Init, RiverInit, LedgerInv, TypeOK, RiverTypeOK, OutcomeIsTrue,
       ProcessingIsAtWork, HandlerKnows, AttemptsKnow, Waiting, Final, Returns

(* What the invariant says of one job. *)
JobInv(j) ==
    /\ jobState[j] = "completed" => row[j] \in {"success", "gone"}
    /\ jobState[j] = "cancelled" => row[j] = "gone"
    /\ row[j] = "processing" /\ j \notin disturbed =>
          pc[j] \in {"run", "markSuccess", "markError"}
    /\ row[j] = "success" => applied[j]
    /\ HandlerKnows(j)
    /\ AttemptsKnow(j)

(* The invariant says of each job what it says of all.                     *)
LEMMA InvByJob == LedgerInv <=> TypeOK /\ \A j \in Jobs : JobInv(j)
  BY DEF LedgerInv, JobInv, OutcomeIsTrue, ProcessingIsAtWork

(* A step that leaves everything about a job as it is keeps what the       *)
(* invariant says of it.                                                   *)
LEMMA Untouched ==
    ASSUME NEW k \in Jobs, JobInv(k),
           jobState'[k] = jobState[k], attempt'[k] = attempt[k],
           row'[k] = row[k], pc'[k] = pc[k], applied'[k] = applied[k],
           disturbed \subseteq disturbed'
    PROVE  JobInv(k)'
  BY DEF JobInv, HandlerKnows, AttemptsKnow

(* Every step keeps the invariant. *)
LEMMA StepInv == LedgerInv /\ [Next]_ledgerVars => LedgerInv'
  <1> SUFFICES ASSUME TypeOK, \A j \in Jobs : JobInv(j), [Next]_ledgerVars
               PROVE  TypeOK' /\ \A k \in Jobs : JobInv(k)'
    BY InvByJob DEF LedgerInv, JobInv, OutcomeIsTrue, ProcessingIsAtWork, TypeOK, RiverTypeOK, HandlerKnows, AttemptsKnow
  <1> USE RiverAssumption
  <1>1. ASSUME NEW j \in Jobs, Fetch(j)
        PROVE  TypeOK' /\ \A k \in Jobs : JobInv(k)'
    <2>0. JobInv(j) BY DEF JobInv
    <2>1. attempt[j] \in 0..MaxAttempts /\ attempt[j] < MaxAttempts
      BY <1>1, <2>0 DEF Fetch, FetchJob, JobInv, AttemptsKnow, TypeOK, RiverTypeOK, Waiting
    <2>2. TypeOK'
      BY <1>1, <2>1 DEF Fetch, FetchJob, Goto, TypeOK, RiverTypeOK
    <2>3. JobInv(j)'
      BY <1>1, <2>0, <2>1 DEF Fetch, FetchJob, Goto, TypeOK, RiverTypeOK, JobInv, HandlerKnows, AttemptsKnow, Waiting
    <2>4. \A k \in Jobs \ {j} : JobInv(k)'
      BY <1>1, Untouched DEF Fetch, FetchJob, Goto, TypeOK, RiverTypeOK
    <2> QED BY <2>2, <2>3, <2>4
  <1>2. ASSUME NEW j \in Jobs, MarkProcessing(j)
        PROVE  TypeOK' /\ \A k \in Jobs : JobInv(k)'
    <2>0. JobInv(j) BY DEF JobInv
    <2>1. Answered(j, "processing") \/ Unanswered(j, "processing")
      BY <1>2 DEF MarkProcessing
    <2>2. TypeOK'
      BY <1>2, <2>1, WriteLemma DEF MarkProcessing, Goto, TypeOK, RiverTypeOK, Returns
    <2>3. JobInv(j)'
      BY <1>2, <2>0, <2>1, WriteLemma DEF MarkProcessing, Goto, TypeOK, RiverTypeOK, JobInv, HandlerKnows, AttemptsKnow
    <2>4. \A k \in Jobs \ {j} : JobInv(k)'
      BY <1>2, <2>1, WriteLemma, Untouched DEF MarkProcessing, Goto, TypeOK, RiverTypeOK
    <2> QED BY <2>2, <2>3, <2>4
  <1>3. ASSUME NEW j \in Jobs, RunOk(j) \/ RunErr(j)
        PROVE  TypeOK' /\ \A k \in Jobs : JobInv(k)'
    <2>0. JobInv(j) BY DEF JobInv
    <2>1. /\ \E made \in BOOLEAN : applied' = [applied EXCEPT ![j] = made]
          /\ \E w \in {"markSuccess", "markError"} : pc' = [pc EXCEPT ![j] = w]
          /\ disturbed' \in {disturbed, disturbed \cup {j}}
          /\ UNCHANGED <<jobState, attempt, row, expired>>
      BY <1>3 DEF RunOk, RunErr, Hit, Goto, TypeOK
    <2>2. TypeOK'
      BY <2>1 DEF TypeOK, RiverTypeOK
    <2>3. JobInv(j)'
      BY <1>3, <2>0 DEF RunOk, RunErr, Hit, Goto, TypeOK, RiverTypeOK, JobInv, HandlerKnows, AttemptsKnow
    <2>4. \A k \in Jobs \ {j} : JobInv(k)'
      BY <1>3, Untouched DEF RunOk, RunErr, Hit, Goto, TypeOK, RiverTypeOK
    <2> QED BY <2>2, <2>3, <2>4
  <1>4. ASSUME NEW j \in Jobs, MarkSuccess(j)
        PROVE  TypeOK' /\ \A k \in Jobs : JobInv(k)'
    <2>0. JobInv(j) BY DEF JobInv
    <2>1. Answered(j, "success") \/ Unanswered(j, "success")
      BY <1>4 DEF MarkSuccess
    <2>2. TypeOK'
      BY <1>4, <2>1, WriteLemma DEF MarkSuccess, Goto, TypeOK, RiverTypeOK, Returns
    <2>3. JobInv(j)'
      BY <1>4, <2>0, <2>1, WriteLemma DEF MarkSuccess, Goto, TypeOK, RiverTypeOK, JobInv, HandlerKnows, AttemptsKnow
    <2>4. \A k \in Jobs \ {j} : JobInv(k)'
      BY <1>4, <2>1, WriteLemma, Untouched DEF MarkSuccess, Goto, TypeOK, RiverTypeOK
    <2> QED BY <2>2, <2>3, <2>4
  <1>5. ASSUME NEW j \in Jobs, MarkError(j)
        PROVE  TypeOK' /\ \A k \in Jobs : JobInv(k)'
    <2>0. JobInv(j) BY DEF JobInv
    <2>1. Answered(j, "error") \/ Unanswered(j, "error")
      BY <1>5 DEF MarkError
    <2>2. TypeOK'
      BY <1>5, <2>1, WriteLemma DEF MarkError, Goto, TypeOK, RiverTypeOK, Returns
    <2>3. JobInv(j)'
      BY <1>5, <2>0, <2>1, WriteLemma DEF MarkError, Goto, TypeOK, RiverTypeOK, JobInv, HandlerKnows, AttemptsKnow
    <2>4. \A k \in Jobs \ {j} : JobInv(k)'
      BY <1>5, <2>1, WriteLemma, Untouched DEF MarkError, Goto, TypeOK, RiverTypeOK
    <2> QED BY <2>2, <2>3, <2>4
  <1>6. ASSUME NEW j \in Jobs, Return(j) \/ Rescue(j)
        PROVE  TypeOK' /\ \A k \in Jobs : JobInv(k)'
    <2>0. JobInv(j) BY DEF JobInv
    <2>1. /\ AfterFailure(j) \in {"retryable", "discarded"}
          /\ AfterFailure(j) = "retryable" => attempt[j] < MaxAttempts
      BY DEF AfterFailure, TypeOK, RiverTypeOK
    <2>2. TypeOK'
      BY <1>6, <2>1 DEF Return, CloseAttempt, OutcomeOf, Rescue, RescueJob, Goto, TypeOK, RiverTypeOK, Waiting, Final
    <2>3. JobInv(j)'
      BY <1>6, <2>0, <2>1 DEF Return, CloseAttempt, OutcomeOf, Rescue, RescueJob, Goto, TypeOK, RiverTypeOK, JobInv, HandlerKnows, AttemptsKnow, Returns
    <2>4. \A k \in Jobs \ {j} : JobInv(k)'
      BY <1>6, Untouched DEF Return, CloseAttempt, Rescue, RescueJob, Goto, TypeOK, RiverTypeOK
    <2> QED BY <2>2, <2>3, <2>4
  <1>7. ASSUME NEW j \in Jobs, Environment(j)
        PROVE  TypeOK' /\ \A k \in Jobs : JobInv(k)'
    <2>0. JobInv(j) BY DEF JobInv
    <2>2. TypeOK'
      BY <1>7 DEF Environment, Deadline, DeadlinePasses, Hit, DeleteRow, TypeOK, RiverTypeOK
    <2>3. JobInv(j)'
      BY <1>7, <2>0 DEF Environment, Deadline, DeadlinePasses, Hit, DeleteRow, TypeOK, RiverTypeOK, JobInv, HandlerKnows, AttemptsKnow
    <2>4. \A k \in Jobs \ {j} : JobInv(k)'
      BY <1>7, Untouched DEF Environment, Deadline, DeadlinePasses, Hit, DeleteRow, TypeOK, RiverTypeOK
    <2> QED BY <2>2, <2>3, <2>4
  <1>8. ASSUME Crash
        PROVE  TypeOK' /\ \A k \in Jobs : JobInv(k)'
    <2>1. TypeOK'
      BY <1>8 DEF Crash, ProcessDies, TypeOK, RiverTypeOK
    <2>2. ASSUME NEW k \in Jobs PROVE JobInv(k)'
      BY <1>8 DEF Crash, ProcessDies, JobInv, HandlerKnows, AttemptsKnow
    <2> QED BY <2>1, <2>2
  <1>9. CASE UNCHANGED ledgerVars
    BY <1>9 DEF ledgerVars, TypeOK, RiverTypeOK, JobInv, HandlerKnows, AttemptsKnow
  <1> QED
    BY <1>1, <1>2, <1>3, <1>4, <1>5, <1>6, <1>7, <1>8, <1>9 DEF Next, Handler, Queue

(* The invariant holds in every reachable state. *)
THEOREM LedgerInvariant == Spec => []LedgerInv
  <1> QED BY InitInv, StepInv, PTL DEF Spec

(* The variables keep their types. *)
THEOREM LedgerTypes == Spec => []TypeOK
  <1>1. LedgerInv => TypeOK BY DEF LedgerInv
  <1> QED BY <1>1, LedgerInvariant, PTL

(* What River records of a job agrees with what its row shows.             *)
THEOREM OutcomesAreTrue == Spec => []OutcomeIsTrue
  <1>1. LedgerInv => OutcomeIsTrue BY DEF LedgerInv
  <1> QED BY <1>1, LedgerInvariant, PTL

(* A row that says processing has a handler at work, unless a fault struck *)
(* the job: the handler that wrote it does not leave before it wrote       *)
(* another status, or an error of the database kept it from doing so.      *)
THEOREM ProcessingRowsAreAtWork == Spec => []ProcessingIsAtWork
  <1>1. LedgerInv => ProcessingIsAtWork BY DEF LedgerInv
  <1> QED BY <1>1, LedgerInvariant, PTL

(* A shown success is taken back only by a deletion or by the first        *)
(* statement of a later attempt: at every other point of a handler that    *)
(* writes the row, the row cannot be showing success.                      *)
THEOREM SuccessIsOnlyReopened == Spec => SuccessOnlyReopened
  <1> DEFINE Kept(j) == row[j] = "success" /\ row'[j] # "success" =>
                           \/ row'[j] = "gone"
                           \/ row'[j] = "processing" /\ pc[j] = "start" /\ attempt[j] > 1
  <1>1. LedgerInv /\ [Next]_ledgerVars => [\A j \in Jobs : Kept(j)]_ledgerVars
    <2> SUFFICES ASSUME LedgerInv, Next, NEW k \in Jobs PROVE Kept(k)
      OBVIOUS
    <2>0. TypeOK /\ JobInv(k)
      BY InvByJob
    <2>1. ASSUME NEW j \in Jobs, MarkProcessing(j) PROVE Kept(k)
      <3>1. Answered(j, "processing") \/ Unanswered(j, "processing")
        BY <2>1 DEF MarkProcessing
      <3>2. CASE j # k
        BY <2>0, <3>1, <3>2, WriteLemma
      <3>3. CASE j = k
        BY <2>0, <2>1, <3>1, <3>3, WriteLemma DEF MarkProcessing, JobInv, HandlerKnows
      <3> QED BY <3>2, <3>3
    <2>2. ASSUME NEW j \in Jobs, MarkSuccess(j) PROVE Kept(k)
      <3>1. Answered(j, "success") \/ Unanswered(j, "success")
        BY <2>2 DEF MarkSuccess
      <3> QED BY <2>0, <3>1, WriteLemma
    <2>3. ASSUME NEW j \in Jobs, MarkError(j) PROVE Kept(k)
      <3>1. Answered(j, "error") \/ Unanswered(j, "error")
        BY <2>3 DEF MarkError
      <3>2. CASE j # k
        BY <2>0, <3>1, <3>2, WriteLemma
      <3>3. CASE j = k
        BY <2>0, <2>3, <3>3 DEF MarkError, JobInv, HandlerKnows
      <3> QED BY <3>2, <3>3
    <2>4. ASSUME NEW j \in Jobs, DeleteRow(j) PROVE Kept(k)
      BY <2>0, <2>4 DEF DeleteRow, TypeOK, RiverTypeOK
    <2>5. ASSUME NEW j \in Jobs,
                 Return(j) \/ RunOk(j) \/ RunErr(j) \/ Queue(j) \/ Deadline(j) \/ Crash
          PROVE  Kept(k)
      BY <2>5 DEF Return, CloseAttempt, RunOk, RunErr, Queue, Fetch, FetchJob, Rescue, RescueJob, Deadline, DeadlinePasses, Crash, ProcessDies
    <2> QED
      BY <2>1, <2>2, <2>3, <2>4, <2>5 DEF Next, Handler, Environment
  <1> QED
    BY <1>1, LedgerInvariant, PTL DEF Spec, SuccessOnlyReopened

-----------------------------------------------------------------------------
(* River's limits: the handlers of a queue are never more than its workers *)
(* (main.go:121-130), whatever is rescued, returns or dies.                *)
WithinLimits == \A q \in Queues : Cardinality(Handlers(q)) <= MaxWorkers[q]

(* A step that starts no handler keeps the limits. *)
LEMMA FewerHandlers ==
    ASSUME IsFiniteSet(Jobs), WithinLimits,
           \A j \in Jobs : pc'[j] # "none" => pc[j] # "none"
    PROVE  WithinLimits'
  <1> SUFFICES ASSUME NEW q \in Queues
               PROVE  Cardinality(Handlers(q)') <= MaxWorkers[q]
    BY DEF WithinLimits
  <1>1. Handlers(q)' \subseteq Handlers(q) /\ Handlers(q) \subseteq Jobs
    BY DEF Handlers
  <1>2. IsFiniteSet(Handlers(q)) /\ IsFiniteSet(Handlers(q)')
    BY <1>1, FS_Subset
  <1>3. Cardinality(Handlers(q)') <= Cardinality(Handlers(q))
    BY <1>1, <1>2, FS_Subset
  <1>4. Cardinality(Handlers(q)') \in Nat /\ Cardinality(Handlers(q)) \in Nat
    BY <1>2, FS_CardinalityType
  <1>5. Cardinality(Handlers(q)) <= MaxWorkers[q] /\ MaxWorkers[q] \in Nat
    BY RiverAssumption DEF WithinLimits
  <1> QED
    BY <1>3, <1>4, <1>5

(* River fetches a job only for a free worker of its queue. *)
LEMMA FetchWithinLimits ==
    ASSUME IsFiniteSet(Jobs), WithinLimits, TypeOK, NEW j \in Jobs, FetchJob(j)
    PROVE  WithinLimits'
  <1> SUFFICES ASSUME NEW q \in Queues
               PROVE  Cardinality(Handlers(q)') <= MaxWorkers[q]
    BY DEF WithinLimits
  <1>1. IsFiniteSet(Handlers(q)) /\ Cardinality(Handlers(q)) \in Nat
    <2>1. Handlers(q) \subseteq Jobs
      BY DEF Handlers
    <2> QED
      BY <2>1, FS_Subset, FS_CardinalityType
  <1>2. Cardinality(Handlers(q)) <= MaxWorkers[q] /\ MaxWorkers[q] \in Nat
    BY RiverAssumption DEF WithinLimits
  <1>3. \A k \in Jobs : pc'[k] = IF k = j THEN "start" ELSE pc[k]
    BY DEF FetchJob, Goto, TypeOK
  <1>4. CASE q = QueueOf(j)
    <2>1. Cardinality(Handlers(q)) < MaxWorkers[q]
      BY <1>4 DEF FetchJob
    <2>2. Handlers(q)' = Handlers(q) \cup {j}
      BY <1>3, <1>4 DEF Handlers
    <2>3. Cardinality(Handlers(q) \cup {j}) =
             IF j \in Handlers(q) THEN Cardinality(Handlers(q)) ELSE Cardinality(Handlers(q)) + 1
      BY <1>1, FS_AddElement
    <2> QED
      BY <1>1, <1>2, <2>1, <2>2, <2>3
  <1>5. CASE q # QueueOf(j)
    <2>1. Handlers(q)' = Handlers(q)
      BY <1>3, <1>5 DEF Handlers
    <2> QED
      BY <1>2, <2>1
  <1> QED
    BY <1>4, <1>5

(* The queues keep their limits: what PoolIsLive of the parse worker and   *)
(* the separation of the queues rest on.                                   *)
THEOREM QueuesKeepLimits == ASSUME IsFiniteSet(Jobs) PROVE Spec => []WithinLimits
  <1>1. Init => WithinLimits
    <2> SUFFICES ASSUME Init, NEW q \in Queues
                 PROVE  Cardinality(Handlers(q)) <= MaxWorkers[q]
      BY DEF WithinLimits
    <2>1. Handlers(q) = {}
      BY DEF Init, RiverInit, Handlers
    <2>2. MaxWorkers[q] \in Nat
      BY RiverAssumption
    <2> QED
      BY <2>1, <2>2, FS_EmptySet
  <1>2. WithinLimits /\ TypeOK /\ [Next]_ledgerVars => WithinLimits'
    <2> SUFFICES ASSUME WithinLimits, TypeOK, [Next]_ledgerVars PROVE WithinLimits'
      OBVIOUS
    <2>1. ASSUME NEW j \in Jobs, Fetch(j) PROVE WithinLimits'
      BY <2>1, FetchWithinLimits DEF Fetch
    <2>2. ASSUME NEW j \in Jobs, Handler(j) \/ RunOk(j) \/ RunErr(j) PROVE WithinLimits'
      <3>1. \A k \in Jobs : pc'[k] # "none" => pc[k] # "none"
        BY <2>2 DEF TypeOK, Handler, MarkProcessing, MarkSuccess, MarkError, RunOk, RunErr,
           Return, CloseAttempt, Goto, Returns
      <3> QED
        BY <3>1, FewerHandlers
    <2>3. ASSUME NEW j \in Jobs, Rescue(j) \/ Environment(j) PROVE WithinLimits'
      <3>1. pc' = pc
        BY <2>3 DEF Rescue, RescueJob, Environment, Deadline, DeadlinePasses, DeleteRow
      <3> QED
        BY <3>1, FewerHandlers
    <2>4. CASE Crash \/ UNCHANGED ledgerVars
      <3>1. \A k \in Jobs : pc'[k] # "none" => pc[k] # "none"
        BY <2>4 DEF Crash, ProcessDies, ledgerVars
      <3> QED
        BY <3>1, FewerHandlers
    <2> QED
      BY <2>1, <2>2, <2>3, <2>4 DEF Next, Queue
  <1> QED
    BY <1>1, <1>2, LedgerTypes, PTL DEF Spec

-----------------------------------------------------------------------------
(* The refinement. *)

(* A fresh ledger shows pending tasks without an outcome.                  *)
LEMMA BoardInit == Init => Board!Init
  BY DEF Init, RiverInit, Board!Init, Final

(* A step that moves one job between open states, and touches neither its  *)
(* row nor its work, is a stutter of the board.                            *)
LEMMA BoardStutter ==
    ASSUME TypeOK, UNCHANGED <<row, applied>>, NEW j \in Jobs, NEW s,
           jobState' = [jobState EXCEPT ![j] = s],
           jobState[j] \notin Final, s \notin Final
    PROVE  UNCHANGED Board!vars
  <1>1. ASSUME NEW k \in Jobs
        PROVE  (IF jobState'[k] \in Final THEN jobState'[k] ELSE "open")
                  = (IF jobState[k] \in Final THEN jobState[k] ELSE "open")
    BY DEF TypeOK, RiverTypeOK
  <1> QED
    BY <1>1 DEF Board!vars

(* A statement of an open task's handler is a report, or changes nothing.  *)
LEMMA BoardReport ==
    ASSUME TypeOK, NEW j \in Jobs, NEW s \in {"processing", "success", "error"},
           jobState[j] = "running",
           s = "success" => applied[j],
           Answered(j, s) \/ Unanswered(j, s),
           UNCHANGED <<jobState, applied>>
    PROVE  Board!Report(j) \/ UNCHANGED Board!vars
  <1>1. CASE UNCHANGED row
    BY <1>1 DEF Board!vars
  <1>2. CASE row[j] # "gone" /\ Write(j, s)
    BY <1>2 DEF Board!Report, Write, TypeOK, RiverTypeOK, Final
  <1>3. CASE row[j] = "gone" /\ Write(j, s)
    BY <1>3 DEF Board!vars, Write, TypeOK, RiverTypeOK
  <1> QED
    BY <1>1, <1>2, <1>3 DEF Answered, Unanswered

(* Every step of the ledger is a step of the board, or none.               *)
LEMMA BoardStep == LedgerInv /\ [Next]_ledgerVars => [Board!Next]_(Board!vars)
  <1> SUFFICES ASSUME LedgerInv, [Next]_ledgerVars
               PROVE  (\E j \in Jobs : \/ Board!Report(j) \/ Board!Apply(j)
                                       \/ Board!Close(j) \/ Board!Delete(j))
                      \/ UNCHANGED Board!vars
    BY DEF Board!Next
  <1>0. TypeOK /\ \A j \in Jobs : JobInv(j)
    BY InvByJob
  <1>1. ASSUME NEW j \in Jobs, Queue(j) PROVE Board!Close(j) \/ UNCHANGED Board!vars
    <2>1. CASE Fetch(j)
      <3>1. jobState[j] \notin Final /\ "running" \notin Final
        BY <2>1 DEF Fetch, FetchJob, Waiting, Final
      <3> QED
        BY <1>0, <2>1, <3>1, BoardStutter DEF Fetch, FetchJob
    <2>2. CASE Rescue(j) /\ AfterFailure(j) = "retryable"
      <3>1. jobState[j] \notin Final /\ "retryable" \notin Final
        BY <2>2 DEF Rescue, RescueJob, Final
      <3> QED
        BY <1>0, <2>2, <3>1, BoardStutter DEF Rescue, RescueJob
    <2>3. CASE Rescue(j) /\ AfterFailure(j) = "discarded"
      BY <1>0, <2>3 DEF Rescue, RescueJob, TypeOK, RiverTypeOK, Final, Board!Close, Board!Outcomes
    <2> QED BY <1>1, <2>1, <2>2, <2>3 DEF Queue, AfterFailure
  <1>2. ASSUME NEW j \in Jobs, Return(j) PROVE Board!Close(j) \/ UNCHANGED Board!vars
    <2>0. jobState[j] = "running"
      BY <1>0, <1>2 DEF Return, CloseAttempt, Returns, JobInv, HandlerKnows
    <2>1. CASE OutcomeOf(j) = "retryable"
      <3>1. jobState[j] \notin Final /\ "retryable" \notin Final
        BY <2>0 DEF Final
      <3> QED
        BY <1>0, <1>2, <2>1, <3>1, BoardStutter DEF Return, CloseAttempt
    <2>2. CASE OutcomeOf(j) # "retryable"
      <3>1. /\ OutcomeOf(j) \in Final
            /\ OutcomeOf(j) = "completed" => row[j] \in {"success", "gone"}
            /\ OutcomeOf(j) = "cancelled" => row[j] = "gone"
        BY <1>0, <2>2 DEF OutcomeOf, AfterFailure, Final, JobInv, HandlerKnows
      <3> QED
        BY <1>0, <1>2, <2>0, <3>1 DEF Return, CloseAttempt, TypeOK, RiverTypeOK, Final, Board!Close, Board!Outcomes
    <2> QED BY <2>1, <2>2
  <1>3. ASSUME NEW j \in Jobs, MarkProcessing(j) \/ MarkSuccess(j) \/ MarkError(j)
        PROVE  Board!Report(j) \/ UNCHANGED Board!vars
    <2>1. /\ jobState[j] = "running"
          /\ MarkSuccess(j) => applied[j]
      BY <1>0, <1>3 DEF MarkProcessing, MarkSuccess, MarkError, JobInv, HandlerKnows
    <2> QED
      BY <1>0, <1>3, <2>1, BoardReport DEF MarkProcessing, MarkSuccess, MarkError
  <1>4. ASSUME NEW j \in Jobs, RunOk(j) \/ RunErr(j)
        PROVE  Board!Apply(j) \/ UNCHANGED Board!vars
    <2>1. jobState[j] = "running" /\ UNCHANGED <<jobState, row>>
      BY <1>0, <1>4 DEF RunOk, RunErr, JobInv, HandlerKnows
    <2>2. applied' = [applied EXCEPT ![j] = TRUE] \/ UNCHANGED applied
      BY <1>0, <1>4 DEF RunOk, RunErr, TypeOK, RiverTypeOK
    <2> QED
      BY <2>1, <2>2 DEF Board!Apply, Board!vars, Final
  <1>5. ASSUME NEW j \in Jobs, DeleteRow(j) PROVE Board!Delete(j)
    BY <1>5 DEF DeleteRow, Board!Delete
  <1>6. ASSUME Crash \/ (\E j \in Jobs : Deadline(j)) \/ UNCHANGED ledgerVars
        PROVE  UNCHANGED Board!vars
    BY <1>6 DEF Crash, ProcessDies, Deadline, DeadlinePasses, ledgerVars, Board!vars
  <1> QED
    BY <1>1, <1>2, <1>3, <1>4, <1>5, <1>6 DEF Next, Handler, Environment

(* The two ledgers together implement the board the BFF relies on.         *)
THEOREM LedgerImplementsTaskBoard == Spec => ImplementsTaskBoard
  <1> QED
    BY BoardInit, BoardStep, LedgerInvariant, PTL DEF Spec, ImplementsTaskBoard, Board!Spec
=============================================================================
