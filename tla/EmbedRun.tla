------------------------------- MODULE EmbedRun -------------------------------
(***************************************************************************)
(* One run of EmbedFileChunksWorker: the chunks of a file are cut into     *)
(* batches, a loop starts a goroutine per batch under a limit of w.conc,   *)
(* and a second loop drains the channel of errors.  The goroutines share   *)
(* workCtx, which the first failing one cancels.  They may outlive run.    *)
(*                                                                         *)
(* Each batch is one pgx batch, which the database commits as a whole, so  *)
(* a batch is durable or it is not.                                        *)
(***************************************************************************)
EXTENDS Naturals, FiniteSets

CONSTANTS
    MaxBatches,   \* bound on the batches a file is cut into
    Concurrency   \* w.conc

ASSUME EmbedAssumption ==
    /\ MaxBatches \in Nat
    /\ Concurrency \in Nat \ {0}

VARIABLES
    main,       \* where run is
    batches,    \* len(batches), known once the chunks are fetched
    next,       \* how many batches the dispatch loop has started
    stage,      \* where each batch's goroutine is
    errCh,      \* the batches whose error is in jobErrCh
    cancelled,  \* cancelWork was called
    expired,    \* the deadline of Work's context has passed
    persisted,  \* the batches whose embeddings are durable
    failed,     \* the batches that failed under a live context
    result      \* what run returned

vars == <<main, batches, next, stage, errCh, cancelled, expired, persisted,
          failed, result>>

Batches == 1..MaxBatches
Busy == {b \in Batches : stage[b] \notin {"idle", "done"}}
Writing == {b \in Batches : stage[b] = "write"}
WorkCtxDone == cancelled \/ expired

TypeOK ==
    /\ main \in {"fetch", "dispatch", "drain", "returned"}
    /\ batches \in 0..MaxBatches
    /\ next \in 0..batches
    /\ stage \in [Batches -> {"idle", "embed", "persist", "write", "fail",
                              "send", "release", "done"}]
    /\ errCh \subseteq Batches
    /\ cancelled \in BOOLEAN
    /\ expired \in BOOLEAN
    /\ persisted \subseteq Batches
    /\ failed \subseteq Batches
    /\ result \in {"none", "nil", "fetchErr", "ctxErr", "batchErr"}

Init ==
    /\ main = "fetch"
    /\ batches = 0
    /\ next = 0
    /\ stage = [b \in Batches |-> "idle"]
    /\ errCh = {}
    /\ cancelled = FALSE
    /\ expired = FALSE
    /\ persisted = {}
    /\ failed = {}
    /\ result = "none"

-----------------------------------------------------------------------------
(* run.  No chunks means no batches: both loops are then empty.            *)

FetchChunks ==
    /\ main = "fetch"
    /\ ~expired
    /\ batches' \in 0..MaxBatches
    /\ main' = "dispatch"
    /\ UNCHANGED <<next, stage, errCh, cancelled, expired, persisted, failed, result>>

(* Every return runs the deferred cancelWork, or comes before workCtx.     *)
ReturnWith(r) ==
    /\ main' = "returned"
    /\ result' = r
    /\ cancelled' = TRUE

FetchFails ==
    /\ main = "fetch"
    /\ ReturnWith("fetchErr")
    /\ UNCHANGED <<batches, next, stage, errCh, expired, persisted, failed>>

(* One turn of the dispatch loop: a slot and a done context may both be    *)
(* ready, and select picks either.                                         *)
Dispatch ==
    /\ main = "dispatch"
    /\ next < batches
    /\ Cardinality(Busy) < Concurrency
    /\ stage' = [stage EXCEPT ![next + 1] = "embed"]
    /\ next' = next + 1
    /\ UNCHANGED <<main, batches, errCh, cancelled, expired, persisted, failed, result>>

DispatchStops ==
    /\ main = "dispatch"
    /\ next < batches
    /\ WorkCtxDone
    /\ ReturnWith("ctxErr")
    /\ UNCHANGED <<batches, next, stage, errCh, expired, persisted, failed>>

(* Bug variant: the last batch is not dispatched. *)
BugEndDispatch ==
    /\ main = "dispatch"
    /\ next + 1 >= batches
    /\ main' = "drain"
    /\ UNCHANGED <<batches, next, stage, errCh, cancelled, expired, persisted,
                   failed, result>>

EndDispatch ==
    /\ main = "dispatch"
    /\ next = batches
    /\ main' = "drain"
    /\ UNCHANGED <<batches, next, stage, errCh, cancelled, expired, persisted,
                   failed, result>>

(* The turns of the drain loop that received a nil.  A batch that succeeds *)
(* sends nothing, so there are none.                                       *)
Drained == 0

ReturnNil ==
    /\ main = "drain"
    /\ Drained = batches
    /\ ReturnWith("nil")
    /\ UNCHANGED <<batches, next, stage, errCh, expired, persisted, failed>>

ReceiveError ==
    /\ main = "drain"
    /\ Drained < batches
    /\ \E b \in errCh : errCh' = errCh \ {b}
    /\ ReturnWith("batchErr")
    /\ UNCHANGED <<batches, next, stage, expired, persisted, failed>>

(* Bug variant: the drain loop does not watch the context. *)
BugDrainNeverStops == FALSE /\ UNCHANGED vars

DrainStops ==
    /\ main = "drain"
    /\ Drained < batches
    /\ expired
    /\ ReturnWith("ctxErr")
    /\ UNCHANGED <<batches, next, stage, errCh, expired, persisted, failed>>

-----------------------------------------------------------------------------
(* The goroutine of batch b.                                               *)

Move(b, from, to) ==
    /\ stage[b] = from
    /\ stage' = [stage EXCEPT ![b] = to]

EmbedOk(b) ==
    /\ ~WorkCtxDone
    /\ Move(b, "embed", "persist")
    /\ UNCHANGED <<main, batches, next, errCh, cancelled, expired, persisted,
                   failed, result>>

(* Bug variant: the batch is written under ctx, not workCtx. *)
BugSendBatchUnderCtx(b) ==
    /\ ~expired
    /\ Move(b, "persist", "write")
    /\ UNCHANGED <<main, batches, next, errCh, cancelled, expired, persisted,
                   failed, result>>

(* The pgx batch is on its way to the database. *)
SendBatch(b) ==
    /\ ~WorkCtxDone
    /\ Move(b, "persist", "write")
    /\ UNCHANGED <<main, batches, next, errCh, cancelled, expired, persisted,
                   failed, result>>

WriteOk(b) ==
    /\ Move(b, "write", "release")
    /\ persisted' = persisted \cup {b}
    /\ UNCHANGED <<main, batches, next, errCh, cancelled, expired, failed, result>>

(* An error of the embedder or of the database.  A write that was sent may *)
(* have been committed all the same.                                       *)
Fails(b) ==
    /\ stage[b] \in {"embed", "persist", "write"}
    /\ stage' = [stage EXCEPT ![b] = "fail"]
    /\ persisted' \in {persisted} \cup
                      (IF stage[b] = "write" THEN {persisted \cup {b}} ELSE {})
    /\ failed' = IF WorkCtxDone THEN failed ELSE failed \cup {b}
    /\ UNCHANGED <<main, batches, next, errCh, cancelled, expired, result>>

(* Bug variant: a failed batch cancels the work and reports nothing. *)
BugCancelWork(b) ==
    /\ Move(b, "fail", "release")
    /\ cancelled' = TRUE
    /\ UNCHANGED <<main, batches, next, errCh, expired, persisted, failed, result>>

CancelWork(b) ==
    /\ Move(b, "fail", "send")
    /\ cancelled' = TRUE
    /\ UNCHANGED <<main, batches, next, errCh, expired, persisted, failed, result>>

(* Bug variant: a channel sized by the number of goroutines at a time. *)
BugErrChCapacity == Concurrency

ErrChCapacity == batches

SendError(b) ==
    /\ Cardinality(errCh) < ErrChCapacity
    /\ Move(b, "send", "release")
    /\ errCh' = errCh \cup {b}
    /\ UNCHANGED <<main, batches, next, cancelled, expired, persisted, failed, result>>

(* Bug variant: cancelWork is deferred with the release of the slot. *)
BugReleaseCancels(b) ==
    /\ Move(b, "release", "done")
    /\ cancelled' = TRUE
    /\ UNCHANGED <<main, batches, next, errCh, expired, persisted, failed, result>>

(* The deferred <-slots. *)
Release(b) ==
    /\ Move(b, "release", "done")
    /\ UNCHANGED <<main, batches, next, errCh, cancelled, expired, persisted,
                   failed, result>>

-----------------------------------------------------------------------------
(* context.WithTimeout's deadline passes. *)
Deadline ==
    /\ ~expired
    /\ expired' = TRUE
    /\ UNCHANGED <<main, batches, next, stage, errCh, cancelled, persisted,
                   failed, result>>

Run ==
    \/ FetchChunks \/ FetchFails
    \/ Dispatch \/ DispatchStops \/ EndDispatch
    \/ ReturnNil \/ ReceiveError \/ DrainStops

Goroutine(b) ==
    \/ EmbedOk(b) \/ SendBatch(b) \/ WriteOk(b) \/ Fails(b)
    \/ CancelWork(b) \/ SendError(b) \/ Release(b)

Next == Run \/ (\E b \in Batches : Goroutine(b)) \/ Deadline

Spec == Init /\ [][Next]_vars

(* Go schedules every runnable goroutine; the calls a goroutine makes end  *)
(* because the HTTP client has a timeout and the queries have a context.   *)
(* Nothing makes the deadline pass.                                        *)
FairSpec ==
    /\ Spec
    /\ WF_vars(Run)
    /\ \A b \in Batches : WF_vars(Goroutine(b))

-----------------------------------------------------------------------------
(* The invariant that sizes the channel: only a batch that failed is in    *)
(* it, once, and never while its goroutine still has its send to do.  And  *)
(* run leaves no goroutine behind with a live context.                     *)
EmbedInv ==
    /\ TypeOK
    /\ \A b \in Batches : b > next => stage[b] = "idle"
    /\ \A b \in errCh : stage[b] \in {"release", "done"}
    /\ main = "drain" => next = batches
    /\ main = "fetch" => next = 0
    /\ main = "returned" => cancelled

(* jobErrCh, embed_worker.go:195: a goroutine never blocks on its send,   *)
(* not even after run has returned and nobody receives.                    *)
SendNeverBlocks ==
    \A b \in Batches : stage[b] = "send" => Cardinality(errCh) < ErrChCapacity

(* run does not fail by itself: an error it returns goes back to an error  *)
(* of the chunk query, to the deadline, or to a batch that failed before   *)
(* anything was cancelled.  cancelWork never starts a failure.             *)
FailureHasCause ==
    result \in {"ctxErr", "batchErr"} => expired \/ failed # {}

(* A goroutine may outlive run, and Work then reports the run and River    *)
(* repeats it: of the batches left behind, none starts to be written once  *)
(* run has returned.  Those already on their way may still commit.         *)
NoWriteAfterReturn == [][main = "returned" => Writing' \subseteq Writing]_vars

(* embed_worker.go:194, "Errors from any batch cancel the rest of the work *)
(* via context": a batch that fails ends run, wherever run is then,        *)
(* and no deadline is needed for it.                                       *)
FailureEndsRun == failed # {} ~> main = "returned"

(* No goroutine outlives run for ever, however run ended. *)
EveryGoroutineEnds == <>[](Busy = {})

(* A deadline ends run wherever it is. *)
DeadlineEndsRun == expired ~> main = "returned"

(* embed_worker.go:59-60, "5. Mark async_tasks.status = success": a run    *)
(* whose batches are all durable, and none of which failed, returns nil    *)
(* unless the deadline passes first.                                       *)
DurableRunSucceeds ==
    (main = "drain" /\ persisted = 1..batches /\ failed = {})
        ~> (result = "nil" \/ expired)
=============================================================================
