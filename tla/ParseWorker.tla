----------------------------- MODULE ParseWorker -----------------------------
(***************************************************************************)
(* The run of ParseFileToChunksWorker inside the ledger protocol, and the  *)
(* pool of database connections every handler and River itself share.      *)
(*                                                                         *)
(* run reads the file's row, downloads and chunks the content, and then    *)
(* writes two pgx batches: the chunk rows, and the file_chunks rows that   *)
(* link them to the file.  Each batch is a transaction of its own.  The    *)
(* first one's results stay open until persistChunks returns, so its       *)
(* connection is still taken when the second batch asks for another.       *)
(*                                                                         *)
(* The rows of an attempt stand together: an attempt's chunks are durable  *)
(* or not, and linked to the file or not.                                  *)
(***************************************************************************)
EXTENDS JobLedger

CONSTANT PoolSize  \* the connections of the pgx pool

ASSUME PoolAssumption == PoolSize \in Nat \ {0}

VARIABLES
    stage,    \* where a parse job's run is (while pc is "run")
    conns,    \* the connections a job's run holds between two statements
    chunked,  \* the attempts whose chunk rows are durable
    linked,   \* the attempts whose chunks were linked to the file
    lost      \* the jobs whose links found the row of public.files deleted

parseVars == <<stage, conns, chunked, linked, lost>>
vars == <<jobState, attempt, row, pc, expired, applied, disturbed,
          stage, conns, chunked, linked, lost>>

ParseJobs == {j \in Jobs : KindOf[j] = "parse"}
Holding(n) == {j \in Jobs : conns[j] = n}
Free == PoolSize - (Cardinality(Holding(1)) + 2 * Cardinality(Holding(2)))

ParseTypeOK ==
    /\ stage \in [Jobs -> {"meta", "content", "insert", "link", "linkSent"}]
    /\ conns \in [Jobs -> 0..2]
    /\ chunked \in [Jobs -> SUBSET (1..MaxAttempts)]
    /\ linked \in [Jobs -> SUBSET (1..MaxAttempts)]
    /\ lost \subseteq Jobs

ParseInit ==
    /\ Init
    /\ stage = [j \in Jobs |-> "meta"]
    /\ conns = [j \in Jobs |-> 0]
    /\ chunked = [j \in Jobs |-> {}]
    /\ linked = [j \in Jobs |-> {}]
    /\ lost = {}

-----------------------------------------------------------------------------
At(j, where) == KindOf[j] = "parse" /\ pc[j] = "run" /\ stage[j] = where

(* Go on within run, holding n connections more than before. *)
Step(j, where, n) ==
    /\ stage' = [stage EXCEPT ![j] = where]
    /\ conns' = [conns EXCEPT ![j] = @ + n]
    /\ UNCHANGED <<ledgerVars, lost>>

(* Bug variant: the rows of the query are not closed. *)
BugFetchFileMeta(j) ==
    /\ At(j, "meta")
    /\ j \notin expired \cup lost
    /\ Free > 0
    /\ Step(j, "content", 1)
    /\ UNCHANGED <<chunked, linked>>

FetchFileMeta(j) ==
    /\ At(j, "meta")
    /\ j \notin expired \cup lost
    /\ Free > 0
    /\ Step(j, "content", 0)
    /\ UNCHANGED <<chunked, linked>>

(* The file is downloaded and cut into at least one chunk. *)
FetchAndChunk(j) ==
    /\ At(j, "content")
    /\ j \notin expired
    /\ Step(j, "insert", 0)
    /\ UNCHANGED <<chunked, linked>>

InsertChunks(j) ==
    /\ At(j, "insert")
    /\ j \notin expired
    /\ Free > 0
    /\ Step(j, "link", 1)
    /\ chunked' = [chunked EXCEPT ![j] = @ \cup {attempt[j]}]
    /\ UNCHANGED linked

SendLinks(j) ==
    /\ At(j, "link")
    /\ j \notin expired
    /\ Free > 0
    /\ Step(j, "linkSent", 1)
    /\ UNCHANGED <<chunked, linked>>

(* Bug variant: one connection is given back, taken or not. *)
BugEndRun(j) ==
    /\ stage' = [stage EXCEPT ![j] = "meta"]
    /\ conns' = [conns EXCEPT ![j] = @ - 1]

(* run returns: the deferred Close calls give the connections back. *)
EndRun(j) ==
    /\ stage' = [stage EXCEPT ![j] = "meta"]
    /\ conns' = [conns EXCEPT ![j] = 0]

(* Bug variant: the results of the second batch are not looked at. *)
BugLinkChunksUnchecked(j) ==
    /\ At(j, "linkSent")
    /\ RunOk(j)
    /\ EndRun(j)
    /\ UNCHANGED <<chunked, linked, lost>>

LinkChunks(j) ==
    /\ At(j, "linkSent")
    /\ linked' = [linked EXCEPT ![j] = @ \cup {attempt[j]}]
    /\ RunOk(j)
    /\ EndRun(j)
    /\ UNCHANGED <<chunked, lost>>

(* Whether the statement run has come to is with the database: it has a    *)
(* connection, or there is one for it.                                     *)
Reaches(j) == stage[j] = "linkSent" \/ Free > 0

(* Errors of the file: it has no row, cannot be downloaded, has no text or *)
(* chunks Postgres refuses (the chunker cuts long lines between bytes), or *)
(* its row was deleted before the links that refer to it were written.     *)
FileFails(j) ==
    /\ \/ /\ \/ stage[j] = "content"
             \/ stage[j] \in {"meta", "insert"} /\ Reaches(j)
          /\ UNCHANGED lost
       \/ /\ stage[j] = "linkSent" /\ "delete" \in Faults
          /\ lost' = lost \cup {j}
    /\ UNCHANGED <<chunked, linked, applied, disturbed>>

(* A statement fails with its context, or because the database does.  One  *)
(* that waits for a connection fails with its context only.  A batch whose *)
(* error run meets may have been committed all the same.                   *)
StatementFails(j) ==
    /\ stage[j] # "content"
    /\ \/ j \in expired
       \/ Faults \cap {"db", "ack"} # {} /\ Reaches(j)
    /\ \/ UNCHANGED <<chunked, linked, applied>>
       \/ /\ stage[j] = "insert" /\ Reaches(j)
          /\ chunked' = [chunked EXCEPT ![j] = @ \cup {attempt[j]}]
          /\ UNCHANGED <<linked, applied>>
       \/ /\ stage[j] = "linkSent"
          /\ linked' = [linked EXCEPT ![j] = @ \cup {attempt[j]}]
          /\ applied' = [applied EXCEPT ![j] = TRUE]
          /\ UNCHANGED chunked
    /\ Hit(j)
    /\ UNCHANGED lost

(* Bug variants: the error of run is dropped; a failing persistChunks does *)
(* not close its batches.                                                  *)
BugParseFailsDropped(j) ==
    /\ KindOf[j] = "parse" /\ pc[j] = "run"
    /\ FileFails(j) \/ StatementFails(j)
    /\ Goto(j, "markSuccess")
    /\ EndRun(j)
    /\ UNCHANGED <<jobState, attempt, row, expired>>

BugParseFailsLeaks(j) ==
    /\ KindOf[j] = "parse" /\ pc[j] = "run"
    /\ FileFails(j) \/ StatementFails(j)
    /\ Goto(j, "markError")
    /\ stage' = [stage EXCEPT ![j] = "meta"]
    /\ UNCHANGED <<jobState, attempt, row, expired, conns>>

ParseFails(j) ==
    /\ KindOf[j] = "parse" /\ pc[j] = "run"
    /\ FileFails(j) \/ StatementFails(j)
    /\ Goto(j, "markError")
    /\ EndRun(j)
    /\ UNCHANGED <<jobState, attempt, row, expired>>

-----------------------------------------------------------------------------
ParseRun(j) ==
    \/ FetchFileMeta(j) \/ FetchAndChunk(j) \/ InsertChunks(j)
    \/ SendLinks(j) \/ LinkChunks(j) \/ ParseFails(j)

(* A statement of Work waits for a connection as long as its context       *)
(* allows.  River uses the same pool (queue.go:127).  Jobs of other kinds  *)
(* may be among Jobs, but what their run does is left out.                 *)
LedgerStep(j) ==
    /\ \/ (MarkProcessing(j) \/ MarkSuccess(j) \/ MarkError(j))
             /\ (Free > 0 \/ j \in expired)
       \/ (Return(j) \/ Queue(j)) /\ Free > 0
    /\ UNCHANGED parseVars

ParseEnvironment(j) == Environment(j) /\ UNCHANGED parseVars

ParseCrash ==
    /\ Crash
    /\ stage' = [j \in Jobs |-> "meta"]
    /\ conns' = [j \in Jobs |-> 0]
    /\ UNCHANGED <<chunked, linked, lost>>

ParseNext ==
    \/ \E j \in Jobs :
          ParseRun(j) \/ LedgerStep(j) \/ ParseEnvironment(j)
    \/ ParseCrash

ParseSpec == ParseInit /\ [][ParseNext]_vars

(* As in JobLedger: what has its connection, or finds one, goes on; what   *)
(* waits for one is not made to fail, since only its deadline could do     *)
(* that, and the deadline is not fair.                                     *)
ParseFairSpec ==
    /\ ParseSpec
    /\ \A j \in Jobs : WF_vars(ParseRun(j)) /\ WF_vars(LedgerStep(j))

-----------------------------------------------------------------------------
(* This worker follows the ledger protocol, so that what JobLedger         *)
(* promises holds of it.                                                   *)
ImplementsLedger == Spec

(* A file whose task shows success has chunks that can be reached from it: *)
(* the links are written after the chunks and before MarkSuccess.          *)
SuccessIsLinked ==
    \A j \in ParseJobs : row[j] = "success" => chunked[j] \cap linked[j] # {}

(* Retrying a parse job multiplies its chunks, and a failure between the   *)
(* batches leaves chunks nothing refers to.  Neither happens to a job that *)
(* no fault has hit: downloads that fail and rows that vanish leave one    *)
(* copy, linked, or none.  Only the copy of a file that is deleted between *)
(* the batches is left without links.                                      *)
OneCopyOfChunks ==
    \A j \in ParseJobs \ disturbed :
        /\ Cardinality(chunked[j]) <= 1
        /\ jobState[j] \in Final => linked[j] = chunked[j] \/ j \in lost

(* parse_worker.go:226-245: a run waits for its second connection while it *)
(* holds the first.  With more connections than file_ingest workers there  *)
(* is always a connection left, or a run at work that needs no other.      *)
PoolIsLive ==
    PoolSize > MaxWorkers["file_ingest"] =>
        Free > 0 \/ \E j \in Holding(2) : pc[j] = "run"

(* parse_worker.go:245: with a connection more than parse runs at once     *)
(* every job ends, although no deadline need ever break a wait for a       *)
(* connection: none waits for ever for one that another waiting run holds. *)
EveryJobFinishes == \A j \in Jobs : <>(jobState[j] \in Final)

(* asynctask.go:30-32: the queues are separate "so a backlog of embeddings *)
(* cannot starve image/video work".  A media job is taken up by its queue, *)
(* which has workers to spare.                                             *)
MediaStarts ==
    \A j \in Jobs : QueueOf(j) = "media_gen" => <>(jobState[j] # "available")
=============================================================================
