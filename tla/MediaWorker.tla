----------------------------- MODULE MediaWorker -----------------------------
(***************************************************************************)
(* The runs of the image and video workers inside the ledger protocol, and *)
(* the provider that generates the media.                                  *)
(*                                                                         *)
(* run asks the provider, gets an URL or (video only) the ID of an         *)
(* inference to poll, downloads the result and writes one statement that   *)
(* inserts a files row and points the generation at it.  Each attempt asks *)
(* the provider anew; an inference goes on whether anyone polls it or not. *)
(***************************************************************************)
EXTENDS JobLedger

CONSTANT MaxPolls  \* the turns of the poll loop (120 in the code)

ASSUME MediaAssumption ==
    /\ \A j \in Jobs : KindOf[j] \in {"image", "video"}
    /\ MaxPolls \in Nat \ {0}

VARIABLES
    stage,        \* where a job's run is (while pc is "run")
    polls,        \* the turns its poll loop has made
    provider,     \* what the provider did for each attempt that asked it
    files,        \* the attempts that inserted a files row
    asset,        \* the attempt whose file the generation shows, or 0
    generations   \* the jobs whose generations row exists

runVars == <<stage, polls, provider>>
resultVars == <<files, asset, generations>>
vars == <<jobState, attempt, row, pc, expired, applied, disturbed,
          stage, polls, provider, files, asset, generations>>

Attempts == 1..MaxAttempts

MediaTypeOK ==
    /\ stage \in [Jobs -> {"call", "poll", "download", "persist"}]
    /\ polls \in [Jobs -> 0..MaxPolls]
    /\ provider \in [Jobs -> [Attempts -> {"none", "running", "done", "failed"}]]
    /\ files \in [Jobs -> SUBSET Attempts]
    /\ asset \in [Jobs -> 0..MaxAttempts]
    /\ generations \subseteq Jobs

MediaInit ==
    /\ Init
    /\ stage = [j \in Jobs |-> "call"]
    /\ polls = [j \in Jobs |-> 0]
    /\ provider = [j \in Jobs |-> [a \in Attempts |-> "none"]]
    /\ files = [j \in Jobs |-> {}]
    /\ asset = [j \in Jobs |-> 0]
    /\ generations = Jobs

-----------------------------------------------------------------------------
At(j, where) == pc[j] = "run" /\ stage[j] = where
Enter(j, where) == stage' = [stage EXCEPT ![j] = where]
Mine(j) == provider[j][attempt[j]]
ProviderDid(j, what) == provider' = [provider EXCEPT ![j][attempt[j]] = what]

(* The provider answers with the URL of the finished media. *)
CallReturnsURL(j) ==
    /\ At(j, "call")
    /\ j \notin expired
    /\ ProviderDid(j, "done")
    /\ Enter(j, "download")
    /\ UNCHANGED <<ledgerVars, polls, resultVars>>

(* It answers with the ID of an inference it has started.  The ID is also  *)
(* stored in the task's row, where nothing reads it and an error is only   *)
(* logged.                                                                 *)
CallReturnsID(j) ==
    /\ At(j, "call")
    /\ KindOf[j] = "video"
    /\ j \notin expired
    /\ ProviderDid(j, "running")
    /\ Enter(j, "poll")
    /\ UNCHANGED <<ledgerVars, polls, resultVars>>

(* Bug variant: the count of the loop's turns starts over. *)
BugPollStartsOver(j) ==
    /\ At(j, "poll")
    /\ polls[j] < MaxPolls
    /\ j \notin expired
    /\ polls' = [polls EXCEPT ![j] = (@ + 1) % MaxPolls]
    /\ UNCHANGED <<ledgerVars, stage, provider, resultVars>>

(* The status is not final, or the answer cannot be decoded, which counts  *)
(* as not final.                                                           *)
PollPending(j) ==
    /\ At(j, "poll")
    /\ polls[j] < MaxPolls
    /\ j \notin expired
    /\ polls' = [polls EXCEPT ![j] = @ + 1]
    /\ UNCHANGED <<ledgerVars, stage, provider, resultVars>>

(* Bug variant: every status the switch does not know ends the loop. *)
BugPollDone(j) ==
    /\ At(j, "poll")
    /\ polls[j] < MaxPolls
    /\ j \notin expired
    /\ Enter(j, "download")
    /\ UNCHANGED <<ledgerVars, polls, provider, resultVars>>

PollDone(j) ==
    /\ At(j, "poll")
    /\ polls[j] < MaxPolls
    /\ j \notin expired
    /\ Mine(j) = "done"
    /\ Enter(j, "download")
    /\ UNCHANGED <<ledgerVars, polls, provider, resultVars>>

Download(j) ==
    /\ At(j, "download")
    /\ j \notin expired
    /\ Enter(j, "persist")
    /\ UNCHANGED <<ledgerVars, polls, provider, resultVars>>

(* run returns; its variables are gone. *)
EndRun(j) ==
    /\ Enter(j, "call")
    /\ polls' = [polls EXCEPT ![j] = 0]

(* The one statement of persistResult.  Its INSERT does not depend on the  *)
(* UPDATE finding the generation.                                          *)
Saved(j) ==
    /\ files' = [files EXCEPT ![j] = @ \cup {attempt[j]}]
    /\ asset' = [asset EXCEPT ![j] = IF j \in generations THEN attempt[j] ELSE @]
    /\ UNCHANGED generations

(* Bug variant: a missing generation is an error. *)
BugPersist(j) ==
    /\ At(j, "persist")
    /\ j \notin expired
    /\ Saved(j)
    /\ RunOk(j) \/ (j \notin generations /\ RunErr(j))
    /\ EndRun(j)
    /\ UNCHANGED provider

Persist(j) ==
    /\ At(j, "persist")
    /\ j \notin expired
    /\ Saved(j)
    /\ RunOk(j)
    /\ EndRun(j)
    /\ UNCHANGED provider

(* The request may have reached the provider although the worker saw an    *)
(* error.                                                                  *)
CallFails(j) ==
    /\ stage[j] = "call"
    /\ \/ UNCHANGED provider
       \/ ProviderDid(j, IF KindOf[j] = "video" THEN "running" ELSE "done")
    /\ UNCHANGED <<applied, resultVars, disturbed>>

(* The provider reports a failure, the loop has made all its turns, or a   *)
(* request fails.                                                          *)
WaitFails(j) ==
    /\ stage[j] \in {"poll", "download"}
    /\ UNCHANGED <<applied, provider, resultVars, disturbed>>

PersistFails(j) ==
    /\ stage[j] = "persist"
    /\ \/ (j \in expired \/ "db" \in Faults) /\ UNCHANGED <<applied, resultVars>>
       \/ /\ j \notin expired /\ "ack" \in Faults
          /\ Saved(j)
          /\ applied' = [applied EXCEPT ![j] = TRUE]
    /\ Hit(j)
    /\ UNCHANGED provider

(* Bug variant: the error of run is dropped. *)
BugMediaFails(j) ==
    /\ pc[j] = "run"
    /\ CallFails(j) \/ WaitFails(j) \/ PersistFails(j)
    /\ Goto(j, "markSuccess")
    /\ EndRun(j)
    /\ UNCHANGED <<jobState, attempt, row, expired>>

MediaFails(j) ==
    /\ pc[j] = "run"
    /\ CallFails(j) \/ WaitFails(j) \/ PersistFails(j)
    /\ Goto(j, "markError")
    /\ EndRun(j)
    /\ UNCHANGED <<jobState, attempt, row, expired>>

-----------------------------------------------------------------------------
MediaRun(j) ==
    \/ CallReturnsURL(j) \/ CallReturnsID(j)
    \/ PollPending(j) \/ PollDone(j) \/ Download(j) \/ Persist(j)
    \/ MediaFails(j)

(* The statements of Work and River's steps. *)
MediaLedger(j) ==
    /\ Handler(j) \/ Queue(j)
    /\ UNCHANGED <<runVars, resultVars>>

(* The provider works at its own pace. *)
ProviderEnds(j) ==
    /\ \E a \in Attempts, end \in {"done", "failed"} :
          /\ provider[j][a] = "running"
          /\ provider' = [provider EXCEPT ![j][a] = end]
    /\ UNCHANGED <<ledgerVars, stage, polls, resultVars>>

DeleteGeneration(j) ==
    /\ "delete" \in Faults
    /\ j \in generations
    /\ generations' = generations \ {j}
    /\ UNCHANGED <<ledgerVars, runVars, files, asset>>

MediaEnvironment(j) ==
    \/ Environment(j) /\ UNCHANGED <<runVars, resultVars>>
    \/ ProviderEnds(j)
    \/ DeleteGeneration(j)

MediaCrash ==
    /\ Crash
    /\ stage' = [j \in Jobs |-> "call"]
    /\ polls' = [j \in Jobs |-> 0]
    /\ UNCHANGED <<provider, resultVars>>

MediaNext ==
    \/ \E j \in Jobs : MediaRun(j) \/ MediaLedger(j) \/ MediaEnvironment(j)
    \/ MediaCrash

MediaSpec == MediaInit /\ [][MediaNext]_vars

(* As in JobLedger.  Nothing makes the provider finish an inference. *)
MediaFairSpec ==
    /\ MediaSpec
    /\ \A j \in Jobs : WF_vars(MediaRun(j)) /\ WF_vars(MediaLedger(j))

-----------------------------------------------------------------------------
(* The two workers follow the ledger protocol.                             *)
ImplementsLedger == Spec

(* What the user sees: under a task that shows success the generation, as  *)
(* long as it exists, shows a file that is in the database, made from an   *)
(* inference the provider really finished.  Three tables and the provider  *)
(* agree, whichever attempts wrote them.                                   *)
SuccessShowsMedia ==
    \A j \in Jobs :
        row[j] = "success" =>
            /\ files[j] # {}
            /\ j \in generations => /\ asset[j] \in files[j]
                                    /\ provider[j][asset[j]] = "done"

(* A generation has one files row: retries insert another only after a     *)
(* fault hit the attempt that inserted the first.  Failing providers and   *)
(* downloads, and deletions, do not multiply files.                        *)
OneFileUndisturbed ==
    \A j \in Jobs : j \notin disturbed => Cardinality(files[j]) <= 1

(* mediagen.go:478: the poll loop gives up.  Every job ends although the   *)
(* provider may never finish an inference and no deadline has to pass.     *)
EveryMediaJobFinishes == \A j \in Jobs : <>(jobState[j] \in Final)
=============================================================================
