--------------------------- MODULE MediaWorkerProofs ---------------------------
(***************************************************************************)
(* The image and video workers follow the ledger protocol, success shows a *)
(* file the provider really made, and only faults multiply files: for any  *)
(* jobs, attempts, polls, faults and however the provider behaves.         *)
(***************************************************************************)
EXTENDS MediaWorker, JobLedgerProofs

(* The job's file is in the database and nothing made River run it again.  *)
Delivered(j) == pc[j] \in {"markSuccess", "returnNil"} \/ jobState[j] = "completed"

(* What a run knows of the provider and what the tables say of each other. *)
(* The attempt at work has inserted no file yet: its provider's row may    *)
(* still be written.                                                       *)
RunKnows(j) ==
    /\ pc[j] # "run" => stage[j] = "call"
    /\ stage[j] \in {"download", "persist"} => provider[j][attempt[j]] = "done"
    /\ pc[j] \in {"start", "run"} => attempt[j] \notin files[j]

FilesAreMade(j) ==
    /\ \A a \in files[j] : provider[j][a] = "done" /\ a <= attempt[j]
    /\ asset[j] \in files[j] \cup {0}
    /\ j \in generations /\ files[j] # {} => asset[j] # 0
    /\ applied[j] => files[j] # {}

OneFile(j) ==
    j \notin disturbed => files[j] = IF Delivered(j) THEN {attempt[j]} ELSE {}

MediaJobInv(j) == RunKnows(j) /\ FilesAreMade(j) /\ OneFile(j)

MediaInv ==
    /\ LedgerInv
    /\ MediaTypeOK
    /\ \A j \in Jobs : MediaJobInv(j)

-----------------------------------------------------------------------------
(* A run that goes on, or ends, takes a step of the protocol or none.      *)
LEMMA RunFollowsProtocol ==
    ASSUME TypeOK, NEW j \in Jobs, MediaRun(j)
    PROVE  UNCHANGED ledgerVars \/ RunOk(j) \/ RunErr(j)
  <1>1. CASE \/ CallReturnsURL(j) \/ CallReturnsID(j) \/ PollPending(j)
             \/ PollDone(j) \/ Download(j)
    BY <1>1 DEF CallReturnsURL, CallReturnsID, PollPending, PollDone, Download
  <1>2. CASE Persist(j)
    BY <1>2 DEF Persist
  <1>3. CASE MediaFails(j)
    <2>1. applied = [applied EXCEPT ![j] = applied[j]]
      BY DEF TypeOK
    <2>2. \E made \in {applied[j], TRUE} : applied' = [applied EXCEPT ![j] = made]
      BY <1>3, <2>1 DEF MediaFails, CallFails, WaitFails, PersistFails
    <2>3. Hit(j) \/ UNCHANGED disturbed
      BY <1>3 DEF MediaFails, CallFails, WaitFails, PersistFails
    <2> QED
      BY <1>3, <2>2, <2>3 DEF MediaFails, RunErr
  <1> QED
    BY <1>1, <1>2, <1>3 DEF MediaRun

(* Every step of the workers is a step of the protocol, or none.           *)
LEMMA MediaFollowsProtocol == TypeOK /\ [MediaNext]_vars => [Next]_ledgerVars
  <1> SUFFICES ASSUME TypeOK, [MediaNext]_vars PROVE [Next]_ledgerVars
    OBVIOUS
  <1>1. ASSUME NEW j \in Jobs, MediaRun(j) PROVE [Next]_ledgerVars
    BY <1>1, RunFollowsProtocol DEF Next
  <1>2. ASSUME NEW j \in Jobs, MediaLedger(j) PROVE [Next]_ledgerVars
    BY <1>2 DEF MediaLedger, Next
  <1>3. ASSUME NEW j \in Jobs, MediaEnvironment(j) PROVE [Next]_ledgerVars
    BY <1>3 DEF MediaEnvironment, ProviderEnds, DeleteGeneration, Next
  <1>4. CASE MediaCrash
    BY <1>4 DEF MediaCrash, Next
  <1>5. CASE UNCHANGED vars
    BY <1>5 DEF vars, ledgerVars
  <1> QED
    BY <1>1, <1>2, <1>3, <1>4, <1>5 DEF MediaNext

-----------------------------------------------------------------------------
(* No run has begun and no file is written.                                *)
LEMMA MediaInitInv == MediaInit => MediaInv
  <1> SUFFICES ASSUME MediaInit PROVE MediaInv
    OBVIOUS
  <1>1. LedgerInv
    BY InitInv DEF MediaInit
  <1>2. MediaTypeOK
    BY RiverAssumption, MediaAssumption DEF MediaInit, MediaTypeOK, Attempts
  <1>3. ASSUME NEW j \in Jobs PROVE MediaJobInv(j)
    BY DEF MediaInit, Init, RiverInit, MediaJobInv, RunKnows, FilesAreMade, OneFile, Delivered
  <1> QED
    BY <1>1, <1>2, <1>3 DEF MediaInv

(* A step that leaves everything about a job as it is keeps what the       *)
(* invariant says of it.                                                   *)
LEMMA MediaUntouched ==
    ASSUME NEW k \in Jobs, MediaJobInv(k),
           jobState'[k] = jobState[k], attempt'[k] = attempt[k], pc'[k] = pc[k],
           applied'[k] = applied[k], disturbed \subseteq disturbed',
           stage'[k] = stage[k], provider'[k] = provider[k], files'[k] = files[k],
           asset'[k] = asset[k], generations' \subseteq generations
    PROVE  MediaJobInv(k)'
  BY DEF MediaJobInv, RunKnows, FilesAreMade, OneFile, Delivered

(* A handler at work belongs to a running job on its first or a later      *)
(* attempt.                                                                *)
LEMMA RunningAttempt ==
    ASSUME MediaInv, NEW j \in Jobs, pc[j] # "none"
    PROVE  jobState[j] = "running" /\ attempt[j] \in Attempts
  BY RiverAssumption
     DEF MediaInv, LedgerInv, TypeOK, RiverTypeOK, HandlerKnows, AttemptsKnow, Attempts

(* The variables of the invariant, for the steps below. *)
LEMMA MediaTypes ==
    ASSUME MediaInv
    PROVE  /\ jobState \in [Jobs -> Waiting \cup {"running"} \cup Final]
           /\ attempt \in [Jobs -> 0..MaxAttempts]
           /\ pc \in [Jobs -> {"none", "start", "run", "markSuccess", "markError"} \cup Returns]
           /\ applied \in [Jobs -> BOOLEAN]
           /\ disturbed \subseteq Jobs
           /\ MediaTypeOK
           /\ Attempts \subseteq Nat \ {0} /\ Attempts \subseteq 0..MaxAttempts
           /\ MaxAttempts \in Nat /\ MaxPolls \in Nat
  BY RiverAssumption, MediaAssumption DEF MediaInv, LedgerInv, TypeOK, RiverTypeOK, Attempts

(* What the provider did for an attempt, once it is written down.          *)
LEMMA ProviderWrites ==
    ASSUME MediaTypeOK, NEW j \in Jobs, NEW a \in Attempts, NEW what,
           provider' = [provider EXCEPT ![j][a] = what]
    PROVE  /\ provider'[j][a] = what
           /\ \A b \in Attempts \ {a} : provider'[j][b] = provider[j][b]
           /\ \A k \in Jobs \ {j} : provider'[k] = provider[k]
           /\ what \in {"none", "running", "done", "failed"} =>
                 provider' \in [Jobs -> [Attempts -> {"none", "running", "done", "failed"}]]
  BY DEF MediaTypeOK

(* A run that has not ended has inserted no file. *)
LEMMA AskingKeepsFiles ==
    ASSUME MediaInv, NEW j \in Jobs, pc[j] = "run",
           CallReturnsURL(j) \/ CallReturnsID(j) \/ PollPending(j) \/ PollDone(j) \/ Download(j)
    PROVE  MediaTypeOK' /\ \A k \in Jobs : MediaJobInv(k)'
  <1> USE MediaTypes
  <1>1. \A k \in Jobs : MediaJobInv(k)
    BY DEF MediaInv
  <1>2. jobState[j] = "running" /\ attempt[j] \in Attempts
    BY RunningAttempt
  <1>3. UNCHANGED <<ledgerVars, resultVars>>
    BY DEF CallReturnsURL, CallReturnsID, PollPending, PollDone, Download
  <1>4. CASE CallReturnsURL(j) \/ CallReturnsID(j)
    <2>1. PICK what \in {"done", "running"} :
             /\ provider' = [provider EXCEPT ![j][attempt[j]] = what]
             /\ stage' = [stage EXCEPT ![j] = IF what = "done" THEN "download" ELSE "poll"]
             /\ UNCHANGED polls
      BY <1>4 DEF CallReturnsURL, CallReturnsID, ProviderDid, Enter
    <2>2. /\ provider'[j][attempt[j]] = what
          /\ \A b \in Attempts \ {attempt[j]} : provider'[j][b] = provider[j][b]
          /\ \A k \in Jobs \ {j} : provider'[k] = provider[k]
          /\ provider' \in [Jobs -> [Attempts -> {"none", "running", "done", "failed"}]]
      <3>1. MediaTypeOK /\ attempt[j] \in Attempts /\ what \in {"none", "running", "done", "failed"}
        BY <1>2
      <3>2. provider \in [Jobs -> [Attempts -> {"none", "running", "done", "failed"}]]
        BY DEF MediaTypeOK
      <3>3. \A a \in Attempts : a = attempt[j] =>
                /\ provider'[j][a] = what
                /\ \A b \in Attempts \ {a} : provider'[j][b] = provider[j][b]
                /\ \A k \in Jobs \ {j} : provider'[k] = provider[k]
        BY <2>1, <3>2
      <3>4. provider' \in [Jobs -> [Attempts -> {"none", "running", "done", "failed"}]]
        BY <2>1, <3>1, <3>2
      <3> QED
        BY <3>1, <3>3, <3>4
    <2>3. MediaTypeOK'
      BY <1>3, <2>1, <2>2 DEF MediaTypeOK, resultVars
    <2>4. MediaJobInv(j)'
      <3>1. attempt[j] \notin files[j] /\ files[j] \subseteq Attempts
        BY <1>1 DEF MediaJobInv, RunKnows, MediaTypeOK
      <3>2. FilesAreMade(j)'
        BY <1>1, <1>3, <2>2, <3>1 DEF MediaJobInv, FilesAreMade, ledgerVars, resultVars
      <3>3. RunKnows(j)'
        BY <1>3, <2>1, <2>2, <3>1 DEF RunKnows, ledgerVars, resultVars, MediaTypeOK
      <3>4. OneFile(j)'
        BY <1>1, <1>3 DEF MediaJobInv, OneFile, Delivered, ledgerVars, resultVars
      <3> QED
        BY <3>2, <3>3, <3>4 DEF MediaJobInv
    <2>5. \A k \in Jobs \ {j} : MediaJobInv(k)'
      BY <1>1, <1>3, <2>1, <2>2, MediaUntouched DEF ledgerVars, resultVars, MediaTypeOK
    <2> QED
      BY <2>3, <2>4, <2>5
  <1>5. CASE PollPending(j) \/ PollDone(j) \/ Download(j)
    <2>1. /\ UNCHANGED provider
          /\ stage' \in [Jobs -> {"call", "poll", "download", "persist"}]
          /\ \A k \in Jobs \ {j} : stage'[k] = stage[k]
          /\ stage'[j] \in {"download", "persist"} => provider[j][attempt[j]] = "done"
      <3>1. CASE PollPending(j)
        BY <1>1, <3>1 DEF PollPending, At, MediaTypeOK
      <3>2. CASE PollDone(j)
        BY <3>2 DEF PollDone, Enter, Mine, MediaTypeOK
      <3>3. CASE Download(j)
        <4>1. provider[j][attempt[j]] = "done"
          BY <1>1, <3>3 DEF Download, At, MediaJobInv, RunKnows
        <4> QED
          BY <3>3, <4>1 DEF Download, Enter, MediaTypeOK
      <3> QED
        BY <1>5, <3>1, <3>2, <3>3
    <2>2. polls' \in [Jobs -> 0..MaxPolls]
      BY <1>5 DEF PollPending, PollDone, Download, MediaTypeOK
    <2>3. MediaTypeOK'
      BY <1>3, <2>1, <2>2 DEF MediaTypeOK, resultVars
    <2>4. MediaJobInv(j)'
      <3>1. RunKnows(j)'
        BY <1>1, <1>2, <1>3, <2>1
           DEF MediaJobInv, RunKnows, ledgerVars, resultVars
      <3>2. FilesAreMade(j)'
        BY <1>1, <1>3, <2>1 DEF MediaJobInv, FilesAreMade, ledgerVars, resultVars
      <3>3. OneFile(j)'
        BY <1>1, <1>3 DEF MediaJobInv, OneFile, Delivered, ledgerVars, resultVars
      <3> QED
        BY <3>1, <3>2, <3>3 DEF MediaJobInv
    <2>5. \A k \in Jobs \ {j} : MediaJobInv(k)'
      BY <1>1, <1>3, <2>1, MediaUntouched DEF ledgerVars, resultVars, MediaTypeOK
    <2> QED
      BY <2>3, <2>4, <2>5
  <1> QED
    BY <1>4, <1>5

(* The statement that saves the result is the first of its attempt to      *)
(* write files, and what it writes the provider has finished.              *)
LEMMA SavingShowsMedia ==
    ASSUME MediaInv, NEW j \in Jobs, At(j, "persist"), Saved(j)
    PROVE  /\ files' \in [Jobs -> SUBSET Attempts]
           /\ asset' \in [Jobs -> 0..MaxAttempts]
           /\ generations' = generations
           /\ files'[j] = files[j] \cup {attempt[j]}
           /\ j \notin disturbed => files[j] = {}
           /\ \A a \in files'[j] : provider[j][a] = "done" /\ a <= attempt[j]
           /\ asset'[j] \in files'[j] \cup {0}
           /\ j \in generations => asset'[j] # 0
           /\ \A k \in Jobs \ {j} : files'[k] = files[k] /\ asset'[k] = asset[k]
  <1> USE MediaTypes
  <1>1. jobState[j] = "running" /\ attempt[j] \in Attempts
    BY RunningAttempt DEF At
  <1>2. MediaJobInv(j)
    BY DEF MediaInv
  <1> QED
    BY <1>1, <1>2 DEF Saved, At, MediaTypeOK, MediaJobInv, RunKnows, FilesAreMade, OneFile, Delivered

(* A run that ends has saved its result, or not. *)
LEMMA EndingKeepsFiles ==
    ASSUME MediaInv, NEW j \in Jobs, Persist(j) \/ MediaFails(j)
    PROVE  MediaTypeOK' /\ \A k \in Jobs : MediaJobInv(k)'
  <1> USE MediaTypes
  <1>1. \A k \in Jobs : MediaJobInv(k)
    BY DEF MediaInv
  <1>2. pc[j] = "run"
    BY DEF Persist, MediaFails, At
  <1>3. jobState[j] = "running" /\ attempt[j] \in Attempts
    BY <1>2, RunningAttempt
  <1>4. /\ UNCHANGED <<jobState, attempt>>
        /\ \E w \in {"markSuccess", "markError"} :
              pc' = [pc EXCEPT ![j] = w] /\ (w = "markSuccess" => Persist(j))
        /\ stage' = [stage EXCEPT ![j] = "call"]
        /\ polls' = [polls EXCEPT ![j] = 0]
    BY DEF Persist, RunOk, MediaFails, EndRun, Enter, Goto
  <1>5. CASE /\ At(j, "persist") /\ Saved(j) /\ UNCHANGED provider
             /\ applied' = [applied EXCEPT ![j] = TRUE]
             /\ (Persist(j) /\ UNCHANGED disturbed) \/ (MediaFails(j) /\ Hit(j))
    <2>0. /\ files' \in [Jobs -> SUBSET Attempts] /\ asset' \in [Jobs -> 0..MaxAttempts]
          /\ generations' = generations
          /\ files'[j] = files[j] \cup {attempt[j]}
          /\ j \notin disturbed => files[j] = {}
          /\ \A a \in files'[j] : provider[j][a] = "done" /\ a <= attempt[j]
          /\ asset'[j] \in files'[j] \cup {0}
          /\ j \in generations => asset'[j] # 0
          /\ \A k \in Jobs \ {j} : files'[k] = files[k] /\ asset'[k] = asset[k]
      BY <1>5, SavingShowsMedia
    <2>1. MediaTypeOK'
      <3>1. /\ stage' \in [Jobs -> {"call", "poll", "download", "persist"}]
            /\ polls' \in [Jobs -> 0..MaxPolls]
        BY <1>4 DEF MediaTypeOK
      <3> QED
        BY <1>5, <2>0, <3>1 DEF MediaTypeOK
    <2>2. RunKnows(j)' /\ FilesAreMade(j)'
      <3>1. pc'[j] \in {"markSuccess", "markError"} /\ stage'[j] = "call"
        BY <1>4 DEF MediaTypeOK
      <3>2. RunKnows(j)'
        BY <3>1 DEF RunKnows
      <3>3. FilesAreMade(j)'
        BY <1>4, <1>5, <2>0 DEF FilesAreMade
      <3> QED
        BY <3>2, <3>3
    <2>3. OneFile(j)'
      <3>1. CASE Hit(j)
        BY <3>1 DEF Hit, OneFile
      <3>2. CASE Persist(j) /\ UNCHANGED disturbed
        BY <1>3, <1>4, <1>5, <2>0, <3>2
           DEF OneFile, Delivered, Persist, RunOk, Goto
      <3> QED
        BY <1>5, <3>1, <3>2
    <2>4. \A k \in Jobs \ {j} : MediaJobInv(k)'
      <3>1. /\ disturbed \subseteq disturbed' /\ generations' \subseteq generations
            /\ UNCHANGED <<jobState, attempt, provider>>
        BY <1>4, <1>5, <2>0 DEF Hit
      <3>2. \A k \in Jobs \ {j} :
               /\ pc'[k] = pc[k] /\ stage'[k] = stage[k] /\ applied'[k] = applied[k]
               /\ files'[k] = files[k] /\ asset'[k] = asset[k]
        BY <1>4, <1>5, <2>0 DEF MediaTypeOK
      <3> QED
        BY <1>1, <3>1, <3>2, MediaUntouched
    <2> QED
      BY <2>1, <2>2, <2>3, <2>4 DEF MediaJobInv
  <1>6. CASE /\ MediaFails(j) /\ UNCHANGED <<applied, files, asset, generations>>
             /\ Hit(j) \/ UNCHANGED disturbed
             /\ \/ UNCHANGED provider
                \/ \E what \in {"running", "done"} : ProviderDid(j, what)
    <2>1. /\ \A b \in Attempts \ {attempt[j]} : provider'[j][b] = provider[j][b]
          /\ \A k \in Jobs \ {j} : provider'[k] = provider[k]
          /\ provider' \in [Jobs -> [Attempts -> {"none", "running", "done", "failed"}]]
      <3>1. CASE UNCHANGED provider
        BY <3>1 DEF MediaTypeOK
      <3>2. ASSUME NEW what \in {"running", "done"}, ProviderDid(j, what)
            PROVE  <2>1!2 /\ <2>1!1 /\ <2>1!3
        <4> DEFINE a == attempt[j]
        <4>1. provider' = [provider EXCEPT ![j][a] = what] /\ a \in Attempts /\ MediaTypeOK
          BY <1>3, <3>2 DEF ProviderDid
        <4> HIDE DEF a
        <4>2. /\ \A b \in Attempts \ {a} : provider'[j][b] = provider[j][b]
              /\ \A k \in Jobs \ {j} : provider'[k] = provider[k]
              /\ provider' \in [Jobs -> [Attempts -> {"none", "running", "done", "failed"}]]
          BY <4>1, ProviderWrites
        <4> QED
          BY <4>2 DEF a
      <3> QED
        BY <1>6, <3>1, <3>2
    <2>2. MediaTypeOK'
      <3>1. /\ stage' \in [Jobs -> {"call", "poll", "download", "persist"}]
            /\ polls' \in [Jobs -> 0..MaxPolls]
        BY <1>4 DEF MediaTypeOK
      <3> QED
        BY <1>6, <2>1, <3>1 DEF MediaTypeOK
    <2>3. pc'[j] = "markError" /\ stage'[j] = "call"
      BY <1>4, <1>6 DEF MediaFails, Goto, MediaTypeOK
    <2>4. RunKnows(j)' /\ FilesAreMade(j)'
      <3>1. attempt[j] \notin files[j] /\ files[j] \subseteq Attempts
        BY <1>1, <1>2 DEF MediaJobInv, RunKnows, MediaTypeOK
      <3> QED
        BY <1>1, <1>4, <1>6, <2>1, <2>3, <3>1 DEF MediaJobInv, RunKnows, FilesAreMade
    <2>5. OneFile(j)'
      BY <1>1, <1>2, <1>3, <1>4, <1>6, <2>3 DEF MediaJobInv, OneFile, Delivered, Hit
    <2>6. \A k \in Jobs \ {j} : MediaJobInv(k)'
      BY <1>1, <1>4, <1>6, <2>1, MediaUntouched DEF MediaTypeOK, Hit
    <2> QED
      BY <2>2, <2>4, <2>5, <2>6 DEF MediaJobInv
  <1>7. CASE Persist(j)
    BY <1>5, <1>7 DEF Persist, RunOk
  <1>8. CASE MediaFails(j)
    <2>1. CASE CallFails(j)
      BY <1>6, <1>8, <2>1 DEF CallFails, resultVars
    <2>2. CASE WaitFails(j)
      BY <1>6, <1>8, <2>2 DEF WaitFails, resultVars
    <2>3. CASE PersistFails(j)
      BY <1>2, <1>5, <1>6, <1>8, <2>3 DEF PersistFails, resultVars, At
    <2> QED
      BY <1>8, <2>1, <2>2, <2>3 DEF MediaFails
  <1> QED
    BY <1>7, <1>8

(* A statement of Work moves its job only, and hits it if it fails.        *)
LEMMA StatementsKeepFiles ==
    ASSUME MediaInv, NEW j \in Jobs, UNCHANGED <<runVars, resultVars>>,
           MarkProcessing(j) \/ MarkSuccess(j) \/ MarkError(j)
    PROVE  \A k \in Jobs : MediaJobInv(k)'
  <1> USE MediaTypes
  <1>1. \A k \in Jobs : MediaJobInv(k)
    BY DEF MediaInv
  <1>2. jobState[j] = "running"
    BY RunningAttempt DEF MarkProcessing, MarkSuccess, MarkError
  <1>3. MediaJobInv(j)'
    BY <1>1, <1>2 DEF MarkProcessing, MarkSuccess, MarkError, Answered, Unanswered, Hit, Goto,
       runVars, resultVars, MediaTypeOK, MediaJobInv, RunKnows, FilesAreMade, OneFile, Delivered, Returns
  <1>4. \A k \in Jobs \ {j} : MediaJobInv(k)'
    BY <1>1, MediaUntouched DEF MarkProcessing, MarkSuccess, MarkError, Answered, Unanswered,
       Hit, Goto, runVars, resultVars
  <1> QED
    BY <1>3, <1>4

(* A job River takes up or gives back has the files it had.  The new       *)
(* attempt has inserted none.                                              *)
LEMMA QueueKeepsFiles ==
    ASSUME MediaInv, NEW j \in Jobs, UNCHANGED <<runVars, resultVars>>, Return(j) \/ Queue(j)
    PROVE  \A k \in Jobs : MediaJobInv(k)'
  <1> USE MediaTypes
  <1>1. \A k \in Jobs : MediaJobInv(k)
    BY DEF MediaInv
  <1>2. pc[j] # "none" => jobState[j] = "running"
    BY RunningAttempt
  <1>3. CASE Return(j)
    <2>1. MediaJobInv(j)'
      BY <1>1, <1>2, <1>3 DEF Return, CloseAttempt, OutcomeOf, AfterFailure, Returns, Goto,
         runVars, resultVars, MediaTypeOK, MediaJobInv, RunKnows, FilesAreMade, OneFile, Delivered
    <2>2. \A k \in Jobs \ {j} : MediaJobInv(k)'
      BY <1>1, <1>3, MediaUntouched DEF Return, CloseAttempt, Goto, runVars, resultVars
    <2> QED
      BY <2>1, <2>2
  <1>4. CASE Fetch(j)
    <2>1. /\ jobState[j] \in Waiting /\ jobState'[j] = "running"
          /\ attempt'[j] = attempt[j] + 1 /\ pc'[j] = "start" /\ pc[j] = "none"
          /\ UNCHANGED <<applied, disturbed>>
      BY <1>2, <1>4 DEF Fetch, FetchJob, Waiting, Goto
    <2>2. attempt'[j] \notin files[j]
      BY <1>1, <2>1 DEF MediaJobInv, FilesAreMade, MediaTypeOK
    <2>3. RunKnows(j)' /\ FilesAreMade(j)'
      BY <1>1, <2>1, <2>2 DEF MediaJobInv, RunKnows, FilesAreMade, runVars, resultVars, MediaTypeOK
    <2>4. OneFile(j)'
      BY <1>1, <2>1 DEF MediaJobInv, OneFile, Delivered, resultVars, Waiting
    <2>5. \A k \in Jobs \ {j} : MediaJobInv(k)'
      BY <1>1, <1>4, MediaUntouched DEF Fetch, FetchJob, Goto, runVars, resultVars
    <2> QED
      BY <2>3, <2>4, <2>5 DEF MediaJobInv
  <1>5. CASE Rescue(j)
    <2>1. /\ jobState[j] = "running" /\ jobState'[j] # "completed"
          /\ pc[j] = "none" /\ UNCHANGED <<attempt, pc, applied, disturbed>>
      BY <1>5 DEF Rescue, RescueJob, AfterFailure
    <2>2. MediaJobInv(j)'
      <3>1. RunKnows(j)'
        BY <1>1, <2>1 DEF runVars, resultVars, MediaJobInv, RunKnows
      <3>2. FilesAreMade(j)'
        BY <1>1, <2>1 DEF runVars, resultVars, MediaJobInv, FilesAreMade
      <3>3. OneFile(j)'
        BY <1>1, <2>1 DEF resultVars, MediaJobInv, OneFile, Delivered
      <3> QED
        BY <3>1, <3>2, <3>3 DEF MediaJobInv
    <2>3. \A k \in Jobs \ {j} : MediaJobInv(k)'
      BY <1>1, <1>5, MediaUntouched DEF Rescue, RescueJob, runVars, resultVars
    <2> QED
      BY <2>2, <2>3
  <1> QED
    BY <1>3, <1>4, <1>5 DEF Queue

(* The provider ends an inference at its own pace, and rows are deleted.   *)
LEMMA EnvironmentKeepsFiles ==
    ASSUME MediaInv, NEW j \in Jobs, MediaEnvironment(j)
    PROVE  MediaTypeOK' /\ \A k \in Jobs : MediaJobInv(k)'
  <1> USE MediaTypes
  <1>1. \A k \in Jobs : MediaJobInv(k)
    BY DEF MediaInv
  <1>2. CASE Environment(j) /\ UNCHANGED <<runVars, resultVars>>
    <2>1. MediaTypeOK'
      BY <1>2 DEF runVars, resultVars, MediaTypeOK
    <2>2. \A k \in Jobs : MediaJobInv(k)'
      BY <1>1, <1>2, MediaUntouched DEF Environment, Deadline, DeadlinePasses, DeleteRow, Hit,
         runVars, resultVars
    <2> QED
      BY <2>1, <2>2
  <1>3. CASE ProviderEnds(j)
    <2>1. PICK a \in Attempts, end \in {"done", "failed"} :
             provider[j][a] = "running" /\ provider' = [provider EXCEPT ![j][a] = end]
      BY <1>3 DEF ProviderEnds
    <2>2. /\ \A b \in Attempts \ {a} : provider'[j][b] = provider[j][b]
          /\ \A k \in Jobs \ {j} : provider'[k] = provider[k]
          /\ provider' \in [Jobs -> [Attempts -> {"none", "running", "done", "failed"}]]
      <3>1. MediaTypeOK /\ end \in {"none", "running", "done", "failed"}
        OBVIOUS
      <3> QED
        BY <2>1, <3>1, ProviderWrites
    <2>3. UNCHANGED <<ledgerVars, stage, polls, resultVars>>
      BY <1>3 DEF ProviderEnds
    <2>4. MediaTypeOK'
      BY <2>2, <2>3 DEF resultVars, MediaTypeOK
    <2>5. \A b \in Attempts : provider[j][b] = "done" => provider'[j][b] = "done"
      BY <2>1, <2>2
    <2>6. RunKnows(j)'
      <3>1. stage[j] \in {"download", "persist"} => attempt[j] \in Attempts
        BY <1>1, RunningAttempt DEF MediaJobInv, RunKnows
      <3> QED
        BY <1>1, <2>3, <2>5, <3>1 DEF MediaJobInv, RunKnows, ledgerVars, resultVars
    <2>7. FilesAreMade(j)' /\ OneFile(j)'
      BY <1>1, <2>3, <2>5
         DEF MediaJobInv, FilesAreMade, OneFile, Delivered, ledgerVars, resultVars, MediaTypeOK
    <2>8. \A k \in Jobs \ {j} : MediaJobInv(k)'
      BY <1>1, <2>2, <2>3, MediaUntouched DEF ledgerVars, resultVars
    <2> QED
      BY <2>4, <2>6, <2>7, <2>8 DEF MediaJobInv
  <1>4. CASE DeleteGeneration(j)
    <2>1. MediaTypeOK'
      BY <1>4 DEF DeleteGeneration, runVars, MediaTypeOK
    <2>2. \A k \in Jobs : MediaJobInv(k)'
      BY <1>1, <1>4, MediaUntouched DEF DeleteGeneration, runVars, ledgerVars
    <2> QED
      BY <2>1, <2>2
  <1> QED
    BY <1>2, <1>3, <1>4 DEF MediaEnvironment

(* A process that dies leaves tables and provider as they are. *)
LEMMA CrashKeepsFiles ==
    ASSUME MediaInv, MediaCrash
    PROVE  MediaTypeOK' /\ \A k \in Jobs : MediaJobInv(k)'
  <1>1. MediaTypeOK'
    BY MediaTypes DEF MediaCrash, resultVars, MediaTypeOK
  <1>2. ASSUME NEW k \in Jobs PROVE MediaJobInv(k)'
    <2>1. MediaJobInv(k)
      BY DEF MediaInv
    <2>2. pc'[k] = "none" /\ stage'[k] = "call"
      BY DEF MediaCrash, Crash, ProcessDies
    <2>3. k \notin disturbed' => k \notin disturbed /\ pc[k] = "none"
      BY DEF MediaCrash, Crash
    <2>4. UNCHANGED <<jobState, attempt, applied, provider, files, asset, generations>>
      BY DEF MediaCrash, Crash, ProcessDies, resultVars
    <2> QED
      BY <2>1, <2>2, <2>3, <2>4 DEF MediaJobInv, RunKnows, FilesAreMade, OneFile, Delivered
  <1> QED
    BY <1>1, <1>2

(* Every step keeps the invariant. *)
LEMMA MediaStep == MediaInv /\ [MediaNext]_vars => MediaInv'
  <1> SUFFICES ASSUME MediaInv, [MediaNext]_vars PROVE MediaInv'
    OBVIOUS
  <1>1. LedgerInv'
    BY MediaFollowsProtocol, StepInv DEF MediaInv, LedgerInv
  <1>2. ASSUME NEW j \in Jobs, MediaRun(j) PROVE MediaInv'
    <2>1. CASE Persist(j) \/ MediaFails(j)
      BY <1>1, <2>1, EndingKeepsFiles DEF MediaInv
    <2>2. CASE ~(Persist(j) \/ MediaFails(j))
      <3>1. pc[j] = "run"
        BY <1>2, <2>2 DEF MediaRun, CallReturnsURL, CallReturnsID, PollPending, PollDone, Download, At
      <3> QED
        BY <1>1, <1>2, <2>2, <3>1, AskingKeepsFiles DEF MediaRun, MediaInv
    <2> QED
      BY <2>1, <2>2
  <1>3. ASSUME NEW j \in Jobs, MediaLedger(j) PROVE MediaInv'
    <2>1. UNCHANGED <<runVars, resultVars>>
      BY <1>3 DEF MediaLedger
    <2>2. MediaTypeOK'
      BY <2>1, MediaTypes DEF runVars, resultVars, MediaTypeOK
    <2> QED
      BY <1>1, <1>3, <2>1, <2>2, StatementsKeepFiles, QueueKeepsFiles
         DEF MediaLedger, Handler, MediaInv
  <1>4. ASSUME NEW j \in Jobs, MediaEnvironment(j) PROVE MediaInv'
    BY <1>1, <1>4, EnvironmentKeepsFiles DEF MediaInv
  <1>5. CASE MediaCrash
    BY <1>1, <1>5, CrashKeepsFiles DEF MediaInv
  <1>6. CASE UNCHANGED vars
    <2>1. UNCHANGED <<ledgerVars, runVars, resultVars>>
      BY <1>6 DEF vars, ledgerVars, runVars, resultVars
    <2>2. \A k \in Jobs : MediaJobInv(k)'
      BY <2>1, MediaUntouched DEF ledgerVars, runVars, resultVars, MediaInv
    <2> QED
      BY <1>1, <2>1, <2>2 DEF runVars, resultVars, MediaTypeOK, MediaInv
  <1> QED
    BY <1>2, <1>3, <1>4, <1>5, <1>6 DEF MediaNext

(* The invariant holds in every reachable state. *)
THEOREM MediaInvariant == MediaSpec => []MediaInv
  <1> QED BY MediaInitInv, MediaStep, PTL DEF MediaSpec

(* The image and video workers implement the ledger protocol, so that what *)
(* is proved of the protocol holds of them.                                *)
THEOREM MediaImplementsLedger == MediaSpec => ImplementsLedger
  <1>1. MediaInit => Init
    BY DEF MediaInit
  <1>2. MediaInv => TypeOK
    BY DEF MediaInv, LedgerInv
  <1> QED
    BY <1>1, <1>2, MediaFollowsProtocol, MediaInvariant, PTL DEF MediaSpec, ImplementsLedger, Spec

(* The same of the board the BFF relies on: it is what media tasks show.   *)
THEOREM MediaImplementsTaskBoard == MediaSpec => ImplementsTaskBoard
  <1> QED BY MediaImplementsLedger, LedgerImplementsTaskBoard, PTL DEF ImplementsLedger

(* Under a task that shows success the generation, as long as it exists,   *)
(* shows a file that is in the database and that the provider finished.    *)
THEOREM SuccessAlwaysShowsMedia == MediaSpec => []SuccessShowsMedia
  <1>1. MediaInv => SuccessShowsMedia
    <2> SUFFICES ASSUME MediaInv, NEW j \in Jobs, row[j] = "success"
                 PROVE  /\ files[j] # {}
                        /\ j \in generations => /\ asset[j] \in files[j]
                                                /\ provider[j][asset[j]] = "done"
      BY DEF SuccessShowsMedia
    <2>1. FilesAreMade(j) /\ applied[j]
      BY DEF MediaInv, MediaJobInv, LedgerInv
    <2> QED
      BY <2>1 DEF FilesAreMade
  <1> QED BY <1>1, MediaInvariant, PTL

(* Only a fault makes a retry insert another file for a generation.        *)
THEOREM UndisturbedGenerationsHaveOneFile == MediaSpec => []OneFileUndisturbed
  <1>1. MediaInv => OneFileUndisturbed
    <2> SUFFICES ASSUME MediaInv, NEW j \in Jobs, j \notin disturbed
                 PROVE  Cardinality(files[j]) <= 1
      BY DEF OneFileUndisturbed
    <2>1. files[j] = {} \/ files[j] = {attempt[j]}
      BY DEF MediaInv, MediaJobInv, OneFile
    <2>2. Cardinality({}) = 0 /\ Cardinality({attempt[j]}) = 1
      BY FS_EmptySet, FS_Singleton
    <2> QED
      BY <2>1, <2>2
  <1> QED BY <1>1, MediaInvariant, PTL
=============================================================================
