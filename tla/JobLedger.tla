------------------------------ MODULE JobLedger ------------------------------
(***************************************************************************)
(* The protocol every worker that owns an async_tasks row follows:         *)
(*                                                                         *)
(*   River fetches the job -> MarkProcessing -> run -> MarkSuccess or      *)
(*   MarkError -> Work returns -> River records the outcome.               *)
(*                                                                         *)
(* There are two ledgers: river_job (jobState, attempt) decides whether    *)
(* the job runs again; async_tasks (row) is what the user sees.  They are  *)
(* written by different statements, so a deadline, a database error, a     *)
(* lost acknowledgement, a crash of the process or a cascading delete can  *)
(* fall between any two of them.                                           *)
(*                                                                         *)
(* What run does is left to the worker modules: here it ends with the      *)
(* work applied, or with an error after which the work may or may not be.  *)
(***************************************************************************)
EXTENDS River

VARIABLES
    row,     \* async_tasks.status, or "gone" once the row is deleted
    applied, \* whether some attempt's run made the work durable
    disturbed \* history: the jobs a fault other than a deletion has hit

ledgerVars == <<jobState, attempt, row, pc, expired, applied, disturbed>>

(* Bug variant: the embed worker compares with == too. *)
BugNoRowsByIdentity(j) == FALSE

(* Store.updateStatus wraps pgx.ErrNoRows with %w.  The embed worker looks *)
(* for it with errors.Is; the other workers compare with ==, which a       *)
(* wrapped error never satisfies.                                          *)
SeesNoRows(j) == KindOf[j] = "embed"

TypeOK ==
    /\ RiverTypeOK
    /\ row \in [Jobs -> {"pending", "processing", "success", "error", "gone"}]
    /\ pc \in [Jobs -> {"none", "start", "run", "markSuccess", "markError"}
                         \cup Returns]
    /\ applied \in [Jobs -> BOOLEAN]
    /\ disturbed \subseteq Jobs

Init ==
    /\ RiverInit
    /\ row = [j \in Jobs |-> "pending"]
    /\ applied = [j \in Jobs |-> FALSE]
    /\ disturbed = {}

-----------------------------------------------------------------------------
(* One UPDATE of the task's row.  A deleted row matches nothing.           *)
Write(j, status) == row' = [row EXCEPT ![j] = IF @ = "gone" THEN @ ELSE status]

(* The statement reached the database and its result reached the worker.   *)
Answered(j, status) ==
    /\ j \notin expired
    /\ Write(j, status)
    /\ UNCHANGED disturbed

Hit(j) == disturbed' = disturbed \cup {j}

(* The worker gets an error: a done context or a database error before the *)
(* statement takes effect, or a connection lost after it did.              *)
Unanswered(j, status) ==
    /\ \/ (j \in expired \/ "db" \in Faults) /\ UNCHANGED row
       \/ j \notin expired /\ "ack" \in Faults /\ Write(j, status)
    /\ Hit(j)

-----------------------------------------------------------------------------
(* River's part in it. *)
Fetch(j) == FetchJob(j) /\ UNCHANGED <<row, applied, disturbed>>
Return(j) == CloseAttempt(j) /\ UNCHANGED <<row, applied, disturbed>>
Rescue(j) == RescueJob(j) /\ UNCHANGED <<row, applied, disturbed>>

(* Bug variant: any error of MarkProcessing cancels the job. *)
BugMarkProcessingCancels(j) ==
    /\ pc[j] = "start"
    /\ \/ /\ Answered(j, "processing")
          /\ Goto(j, IF row[j] = "gone" THEN "returnCancel" ELSE "run")
       \/ Unanswered(j, "processing") /\ Goto(j, "returnCancel")
    /\ UNCHANGED <<jobState, attempt, expired, applied>>

(* The first statement of Work.  A missing row makes the worker cancel the *)
(* job if it recognises the error, and return it as any other if not.      *)
MarkProcessing(j) ==
    /\ pc[j] = "start"
    /\ \/ /\ Answered(j, "processing")
          /\ Goto(j, IF row[j] # "gone" THEN "run"
                     ELSE IF SeesNoRows(j) THEN "returnCancel"
                     ELSE "returnErr")
       \/ Unanswered(j, "processing") /\ Goto(j, "returnErr")
    /\ UNCHANGED <<jobState, attempt, expired, applied>>

(* The worker's run returns nil: its work is durable. *)
RunOk(j) ==
    /\ pc[j] = "run"
    /\ applied' = [applied EXCEPT ![j] = TRUE]
    /\ Goto(j, "markSuccess")
    /\ UNCHANGED <<jobState, attempt, row, expired, disturbed>>

(* Bug variants: an error of run is dropped, or returned unreported. *)
BugRunErrDropped(j) ==
    /\ pc[j] = "run"
    /\ Goto(j, "markSuccess")
    /\ UNCHANGED <<jobState, attempt, row, expired, applied, disturbed>>

BugRunErrUnreported(j) ==
    /\ pc[j] = "run"
    /\ Goto(j, "returnErr")
    /\ UNCHANGED <<jobState, attempt, row, expired, applied, disturbed>>

(* The worker's run returns an error, because of a fault or for a reason   *)
(* of its own.  The statement that met it may have taken effect.           *)
RunErr(j) ==
    /\ pc[j] = "run"
    /\ \E made \in {applied[j], TRUE} : applied' = [applied EXCEPT ![j] = made]
    /\ Hit(j) \/ UNCHANGED disturbed
    /\ Goto(j, "markError")
    /\ UNCHANGED <<jobState, attempt, row, expired>>

(* Bug variants: an error of MarkSuccess is dropped, or reported like one  *)
(* of run.                                                                 *)
BugMarkSuccessDropsError(j) ==
    /\ pc[j] = "markSuccess"
    /\ Answered(j, "success") \/ Unanswered(j, "success")
    /\ Goto(j, "returnNil")
    /\ UNCHANGED <<jobState, attempt, expired, applied>>

BugMarkSuccessThenError(j) ==
    /\ pc[j] = "markSuccess"
    /\ \/ Answered(j, "success") /\ Goto(j, "returnNil")
       \/ Unanswered(j, "success") /\ Goto(j, "markError")
    /\ UNCHANGED <<jobState, attempt, expired, applied>>

(* MarkSuccess does not look at the number of rows it updated. *)
MarkSuccess(j) ==
    /\ pc[j] = "markSuccess"
    /\ \/ Answered(j, "success") /\ Goto(j, "returnNil")
       \/ Unanswered(j, "success") /\ Goto(j, "returnErr")
    /\ UNCHANGED <<jobState, attempt, expired, applied>>

(* MarkError runs under the context of the run that failed; its own error  *)
(* is logged and dropped.                                                  *)
MarkError(j) ==
    /\ pc[j] = "markError"
    /\ Answered(j, "error") \/ Unanswered(j, "error")
    /\ Goto(j, "returnErr")
    /\ UNCHANGED <<jobState, attempt, expired, applied>>

-----------------------------------------------------------------------------
Deadline(j) == DeadlinePasses(j) /\ Hit(j) /\ UNCHANGED <<row, applied>>

Crash ==
    /\ ProcessDies
    /\ disturbed' = disturbed \cup {j \in Jobs : pc[j] # "none"}
    /\ UNCHANGED <<row, applied>>

(* A delete cascade removes the task's row. *)
DeleteRow(j) ==
    /\ "delete" \in Faults
    /\ row[j] # "gone"
    /\ row' = [row EXCEPT ![j] = "gone"]
    /\ UNCHANGED <<jobState, attempt, pc, expired, applied, disturbed>>

-----------------------------------------------------------------------------
Handler(j) == MarkProcessing(j) \/ MarkSuccess(j) \/ MarkError(j) \/ Return(j)
Queue(j) == Fetch(j) \/ Rescue(j)
Environment(j) == Deadline(j) \/ DeleteRow(j)

Next ==
    \/ \E j \in Jobs :
          Handler(j) \/ RunOk(j) \/ RunErr(j) \/ Queue(j) \/ Environment(j)
    \/ Crash

Spec == Init /\ [][Next]_ledgerVars

(* A handler always comes to its end because its context has a deadline    *)
(* and its HTTP clients have timeouts; River keeps fetching and rescuing.  *)
(* No fairness for the faults.                                             *)
Fairness(j) ==
    /\ WF_ledgerVars(Handler(j))
    /\ WF_ledgerVars(RunOk(j) \/ RunErr(j))
    /\ WF_ledgerVars(Queue(j))

FairSpec == Spec /\ \A j \in Jobs : Fairness(j)

-----------------------------------------------------------------------------
(* A job that River closes as completed is one whose row says so (or is    *)
(* gone), and a cancelled one has no row: Work returns nil only after      *)
(* MarkSuccess was answered, JobCancel only on a missing row, and no later *)
(* attempt touches the row again.                                          *)
OutcomeIsTrue ==
    \A j \in Jobs :
        /\ jobState[j] = "completed" => row[j] \in {"success", "gone"}
        /\ jobState[j] = "cancelled" => row[j] = "gone"

(* Why it holds, and why "success" is never shown for work that was not    *)
(* done: what a handler at each point knows about both ledgers, and what   *)
(* a waiting job's attempt count says about its row.                       *)
HandlerKnows(j) ==
    /\ pc[j] # "none" => jobState[j] = "running"
    /\ pc[j] = "start" /\ row[j] \notin {"pending", "gone"} => attempt[j] > 1
    /\ pc[j] \in {"run", "markSuccess", "markError"} => row[j] \in {"processing", "gone"}
    /\ pc[j] = "markSuccess" => applied[j]
    /\ pc[j] = "returnNil" => row[j] \in {"success", "gone"}
    /\ pc[j] = "returnCancel" => row[j] = "gone"

AttemptsKnow(j) ==
    /\ jobState[j] = "available" => attempt[j] = 0 /\ row[j] \in {"pending", "gone"}
    /\ jobState[j] # "available" => attempt[j] > 0
    /\ jobState[j] = "retryable" => attempt[j] < MaxAttempts

(* embed_worker.go:60-61: on error the row is marked "error".  A row that   *)
(* says processing has a handler at work on it, and a job that waits, has  *)
(* ended or is about to return does not leave its row saying so.  Only a   *)
(* fault that struck the job itself can break this: never an error of run, *)
(* a deletion, or what happens to other jobs.                              *)
ProcessingIsAtWork ==
    \A j \in Jobs :
        row[j] = "processing" /\ j \notin disturbed =>
            pc[j] \in {"run", "markSuccess", "markError"}

LedgerInv ==
    /\ TypeOK
    /\ OutcomeIsTrue
    /\ ProcessingIsAtWork
    /\ \A j \in Jobs :
          /\ row[j] = "success" => applied[j]
          /\ HandlerKnows(j)
          /\ AttemptsKnow(j)

(* A success that was shown is taken back only by the first statement of a *)
(* later attempt (after a crash or a lost acknowledgement made River run   *)
(* the job again) or by a deletion: never by the attempt that showed it,   *)
(* and never by MarkError.                                                 *)
SuccessOnlyReopened ==
    [][\A j \in Jobs :
          row[j] = "success" /\ row'[j] # "success" =>
              \/ row'[j] = "gone"
              \/ row'[j] = "processing" /\ pc[j] = "start" /\ attempt[j] > 1]_ledgerVars

(* The two ledgers keep the promise the BFF relies on. *)
Board == INSTANCE TaskBoard WITH
    Tasks <- Jobs,
    shown <- row,
    outcome <- [j \in Jobs |-> IF jobState[j] \in Final THEN jobState[j] ELSE "open"]

ImplementsTaskBoard == Board!Spec


(* embed_worker.go:132-133, and the log line at parse_worker.go:129: a job *)
(* whose row is missing is cancelled, not retried, unless a fault keeps    *)
(* the worker from seeing it.                                              *)
MissingRowCancels(j) ==
    pc[j] = "start" /\ row[j] = "gone" ~> jobState[j] = "cancelled" \/ j \in disturbed

(* The embed worker does it. *)
EmbedCancelsMissingRow ==
    \A j \in Jobs : KindOf[j] = "embed" => MissingRowCancels(j)

(* Stated for every worker, it is not so.                                  *)
EveryMissingRowCancels == \A j \in Jobs : MissingRowCancels(j)
=============================================================================
