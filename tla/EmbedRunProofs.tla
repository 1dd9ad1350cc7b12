---------------------------- MODULE EmbedRunProofs ----------------------------
(***************************************************************************)
(* The run of the embed worker is safe for every number of batches and     *)
(* every concurrency.                                                      *)
(***************************************************************************)
EXTENDS EmbedRun, FiniteSetTheorems, TLAPS

(* run starts with nothing fetched and every goroutine yet to start. *)
LEMMA EmbedInit == Init => EmbedInv
  <1> SUFFICES ASSUME Init PROVE EmbedInv
    OBVIOUS
  <1>1. cancelled \in BOOLEAN /\ expired \in BOOLEAN
    BY Zenon DEF Init
  <1>2. stage \in [Batches -> {"idle", "embed", "persist", "write", "fail", "send",
                              "release", "done"}]
    BY DEF Init
  <1>3. batches \in 0..MaxBatches /\ next \in 0..batches
    BY EmbedAssumption DEF Init
  <1>4. TypeOK
    BY <1>1, <1>2, <1>3 DEF Init, TypeOK
  <1> QED
    BY <1>4 DEF Init, EmbedInv

(* Every step keeps the invariant: run's steps move no goroutine but the   *)
(* one they start, and a goroutine moves only itself.                      *)
LEMMA EmbedStep == EmbedInv /\ [Next]_vars => EmbedInv'
  <1> SUFFICES ASSUME EmbedInv, [Next]_vars PROVE EmbedInv'
    OBVIOUS
  <1> USE EmbedAssumption DEF EmbedInv, TypeOK, Batches
  <1>1. CASE FetchChunks
    BY <1>1 DEF FetchChunks
  <1>2. CASE FetchFails \/ DispatchStops \/ EndDispatch \/ ReturnNil \/ DrainStops
    BY <1>2 DEF FetchFails, DispatchStops, EndDispatch, ReturnNil, DrainStops, ReturnWith
  <1>3. CASE Dispatch
    BY <1>3 DEF Dispatch
  <1>4. CASE ReceiveError
    BY <1>4 DEF ReceiveError, ReturnWith
  <1>5. ASSUME NEW b \in Batches, EmbedOk(b) \/ SendBatch(b) \/ CancelWork(b)
        PROVE  EmbedInv'
    BY <1>5 DEF EmbedOk, SendBatch, CancelWork, Move
  <1>6. ASSUME NEW b \in Batches, WriteOk(b) \/ Fails(b)
        PROVE  EmbedInv'
    <2>1. CASE WriteOk(b)
      BY <2>1 DEF WriteOk, Move
    <2>2. CASE Fails(b)
      BY <2>2 DEF Fails, Move
    <2> QED
      BY <1>6, <2>1, <2>2
  <1>7. ASSUME NEW b \in Batches, SendError(b) \/ Release(b)
        PROVE  EmbedInv'
    BY <1>7 DEF SendError, Release, Move
  <1>8. CASE Deadline \/ UNCHANGED vars
    BY <1>8 DEF Deadline, vars
  <1> QED
    BY <1>1, <1>2, <1>3, <1>4, <1>5, <1>6, <1>7, <1>8 DEF Next, Run, Goroutine

(* The invariant holds in every reachable state. *)
THEOREM EmbedInvariant == Spec => []EmbedInv
  <1> QED BY EmbedInit, EmbedStep, PTL DEF Spec

(* jobErrCh has room for every send: it was made with a place for each     *)
(* batch, and a batch that has its send to do is not in it yet.            *)
THEOREM SendsNeverBlock == Spec => []SendNeverBlocks
  <1>1. EmbedInv => SendNeverBlocks
    <2> SUFFICES ASSUME EmbedInv, NEW b \in Batches, stage[b] = "send"
                 PROVE  Cardinality(errCh) < batches
      BY DEF SendNeverBlocks, ErrChCapacity
    <2> USE EmbedAssumption DEF EmbedInv, TypeOK, Batches
    <2>1. b \in 1..batches
      OBVIOUS
    <2>2. errCh \subseteq (1..batches) \ {b}
      OBVIOUS
    <2>3. /\ IsFiniteSet((1..batches) \ {b})
          /\ Cardinality((1..batches) \ {b}) = batches - 1
      <3>1. IsFiniteSet(1..batches) /\ Cardinality(1..batches) = batches
        <4>1. 0 \in Int /\ 1 \in Int /\ batches \in Int /\ batches \in Nat
          OBVIOUS
        <4>2. /\ IsFiniteSet(1..batches)
              /\ Cardinality(1..batches) = IF 1 > batches THEN 0 ELSE batches - 1 + 1
          BY <4>1, FS_Interval, Zenon
        <4> QED BY <4>1, <4>2
      <3>2. /\ IsFiniteSet((1..batches) \ {b})
            /\ Cardinality((1..batches) \ {b}) = Cardinality(1..batches) - 1
        BY <2>1, <3>1, FS_RemoveElement, Zenon
      <3> QED
        BY <3>1, <3>2
    <2>4. /\ IsFiniteSet(errCh)
          /\ Cardinality(errCh) <= Cardinality((1..batches) \ {b})
      BY <2>2, <2>3, FS_Subset, Zenon
    <2>5. Cardinality(errCh) \in Nat
      BY <2>4, FS_CardinalityType, Zenon
    <2> QED BY <2>3, <2>4, <2>5
  <1> QED BY <1>1, EmbedInvariant, PTL

-----------------------------------------------------------------------------
(* Before run returns, nothing is cancelled, failing or reported without a *)
(* cause: the deadline, or a batch that failed under a live context.       *)
Cause == expired \/ failed # {}

CauseInv ==
    /\ main # "returned" =>
          \/ Cause
          \/ ~cancelled /\ errCh = {} /\ \A b \in Batches : stage[b] \notin {"fail", "send"}
    /\ FailureHasCause

(* A step that keeps the causes, adds no cancellation and no failure of a  *)
(* batch, and does not set the result, keeps CauseInv.                     *)
LEMMA CauseKept ==
  ASSUME CauseInv, expired' = expired, failed' = failed, cancelled' = cancelled,
         errCh' \subseteq errCh, result' = result,
         main = "returned" => main' = "returned",
         \A b \in Batches : stage'[b] \in {"fail", "send"} => stage[b] \in {"fail", "send"}
  PROVE  CauseInv'
  <1>1. FailureHasCause'
    BY Zenon DEF CauseInv, FailureHasCause
  <1>2. ASSUME main' # "returned", ~Cause'
        PROVE  ~cancelled' /\ errCh' = {} /\ \A b \in Batches : stage'[b] \notin {"fail", "send"}
    <2>1. main # "returned" /\ ~Cause
      BY <1>2, Zenon DEF Cause
    <2>2. ~cancelled /\ errCh = {} /\ \A b \in Batches : stage[b] \notin {"fail", "send"}
      BY <2>1, Zenon DEF CauseInv
    <2>3. ~cancelled'
      BY <2>2, Zenon
    <2>4. errCh' = {}
      BY <2>2
    <2>5. \A b \in Batches : stage'[b] \notin {"fail", "send"}
      BY <2>2, Zenon
    <2> QED BY <2>3, <2>4, <2>5, Zenon
  <1> QED
    BY <1>1, <1>2, Zenon DEF CauseInv

(* Every step keeps CauseInv: the first failure of a run is a cause. *)
LEMMA CauseStep == EmbedInv /\ CauseInv /\ [Next]_vars => CauseInv'
  <1> SUFFICES ASSUME EmbedInv, CauseInv, [Next]_vars PROVE CauseInv'
    OBVIOUS
  <1> USE EmbedAssumption
      DEF EmbedInv, TypeOK, Batches, CauseInv, Cause, FailureHasCause, WorkCtxDone
  <1>1. CASE FetchChunks \/ Dispatch \/ EndDispatch
    <2>1. /\ expired' = expired /\ failed' = failed /\ cancelled' = cancelled
          /\ errCh' = errCh /\ result' = result /\ main # "returned"
          /\ \A b \in Batches : stage'[b] \in {stage[b], "embed"}
      BY <1>1 DEF FetchChunks, Dispatch, EndDispatch
    <2>2. \A b \in Batches : stage'[b] \in {"fail", "send"} => stage[b] \in {"fail", "send"}
      BY <2>1
    <2> QED BY <2>1, <2>2, CauseKept
  <1>2. CASE FetchFails \/ DispatchStops \/ ReturnNil \/ ReceiveError \/ DrainStops
    BY <1>2 DEF FetchFails, DispatchStops, ReturnNil, ReceiveError, DrainStops, ReturnWith
  <1>3. ASSUME NEW b \in Batches, EmbedOk(b) \/ SendBatch(b) \/ WriteOk(b) \/ Release(b)
        PROVE  CauseInv'
    <2>1. /\ expired' = expired /\ failed' = failed /\ cancelled' = cancelled
          /\ errCh' = errCh /\ result' = result /\ main' = main
      BY <1>3 DEF EmbedOk, SendBatch, WriteOk, Release
    <2>2. \A c \in Batches : stage'[c] \in {stage[c], "persist", "write", "release", "done"}
      BY <1>3 DEF EmbedOk, SendBatch, WriteOk, Release, Move
    <2>3. \A c \in Batches : stage'[c] \in {"fail", "send"} => stage[c] \in {"fail", "send"}
      BY <2>2
    <2> QED BY <2>1, <2>3, CauseKept
  <1>4. ASSUME NEW b \in Batches, Fails(b) PROVE CauseInv'
    BY <1>4 DEF Fails
  <1>5. ASSUME NEW b \in Batches, CancelWork(b) \/ SendError(b) PROVE CauseInv'
    BY <1>5 DEF CancelWork, SendError, Move
  <1>6. CASE Deadline
    <2>1. expired'
      BY <1>6, Zenon DEF Deadline
    <2> QED BY <2>1, Zenon DEF CauseInv, Cause, FailureHasCause
  <1>7. CASE UNCHANGED vars
    BY <1>7, CauseKept DEF vars
  <1> QED
    BY <1>1, <1>2, <1>3, <1>4, <1>5, <1>6, <1>7 DEF Next, Run, Goroutine

(* cancelWork never starts a failure of its own. *)
THEOREM FailuresHaveCauses == Spec => []FailureHasCause
  <1>1. Init => CauseInv
    BY DEF Init, CauseInv, FailureHasCause
  <1>2. CauseInv => FailureHasCause
    BY DEF CauseInv
  <1> QED
    BY <1>1, <1>2, EmbedInvariant, CauseStep, PTL DEF Spec

(* Of the goroutines that outlive run, none starts to write: whatever made *)
(* run return, its deferred cancelWork has ended their context.            *)
THEOREM NoWritesAfterReturn == Spec => NoWriteAfterReturn
  <1>1. EmbedInv /\ [Next]_vars => [main = "returned" => Writing' \subseteq Writing]_vars
    <2> SUFFICES ASSUME EmbedInv, Next, main = "returned" PROVE Writing' \subseteq Writing
      OBVIOUS
    <2>0. WorkCtxDone
      BY DEF EmbedInv, WorkCtxDone
    <2> USE EmbedAssumption DEF EmbedInv, TypeOK, Batches, Writing
    <2>1. CASE Run \/ Deadline
      BY <2>1 DEF Run, Deadline, FetchChunks, FetchFails, Dispatch, DispatchStops,
                  EndDispatch, ReturnNil, ReceiveError, DrainStops
    <2>2. ASSUME NEW b \in Batches, Goroutine(b) PROVE Writing' \subseteq Writing
      BY <2>0, <2>2 DEF Goroutine, EmbedOk, SendBatch, WriteOk, Fails, CancelWork, SendError,
                  Release, Move
    <2> QED BY <2>1, <2>2 DEF Next
  <1> QED
    BY <1>1, EmbedInvariant, PTL DEF Spec, NoWriteAfterReturn
=============================================================================
