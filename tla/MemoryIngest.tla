---------------------------- MODULE MemoryIngest ----------------------------
(***************************************************************************)
(* The memory ingest worker.  A gatekeeper model decides whether a topic   *)
(* is worth remembering; then, layer by layer, an extractor model lists    *)
(* memories, and each one is embedded and stored in a transaction of its   *)
(* own.  Only the gatekeeper's error fails the job: whatever goes wrong    *)
(* later, a done context included, is logged and skipped.                  *)
(*                                                                         *)
(* A model's reply is a sequence of tokens: brackets, objects ("memory",   *)
(* or "blank" if the layer's filter drops it), strings ("tag") and "prose" *)
(* words.  The tags of an object stand behind it.                          *)
(***************************************************************************)
EXTENDS Memories

CONSTANTS
    Layers,   \* the number of layers (five in the code)
    Replies   \* the replies the extractor of each layer may give

Objects == {"memory", "blank"}
Tokens == Objects \cup {"[", "]", "tag", "prose"}

ASSUME IngestAssumption ==
    /\ Layers \in Nat \ {0}
    /\ Replies \in [1..Layers -> SUBSET Seq(Tokens)]

VARIABLES
    layer,   \* the layer whose extraction is at work
    todo,    \* the memories of that layer still to be stored, counted down
    tx,      \* the rows its open transaction has written
    owed,    \* history: the rows of the attempt's replies it has neither
             \* stored nor logged as failed
    cutOff   \* history: the jobs whose handler a crash has cut off

ingestVars == <<layer, todo, tx, owed, cutOff>>

IngestJobs == {j \in Jobs : KindOf[j] = "ingest"}

IngestInit ==
    /\ layer = [j \in Jobs |-> 1]
    /\ todo = [j \in Jobs |-> 0]
    /\ tx = [j \in Jobs |-> {}]
    /\ owed = [j \in Jobs |-> {}]
    /\ cutOff = {}

-----------------------------------------------------------------------------
(* Reading a reply. *)

(* The matches of \[[^\[\]]*\]: bracket pairs with no bracket between.     *)
Arrays(reply) ==
    {a \in (DOMAIN reply) \X (DOMAIN reply) :
        /\ a[1] < a[2] /\ reply[a[1]] = "[" /\ reply[a[2]] = "]"
        /\ \A i \in a[1]+1..a[2]-1 : reply[i] \notin {"[", "]"}}

FirstArray(reply) ==
    CHOOSE a \in Arrays(reply) : \A b \in Arrays(reply) : a[1] <= b[1]

Count(reply, from, to, token) == Cardinality({i \in from..to : reply[i] = token})

(* No match gives no rows, and a match that does not decode into objects   *)
(* an error, which the extractors log.                                     *)
Decodes(reply) ==
    Arrays(reply) # {} =>
        LET a == FirstArray(reply)
        IN  \A i \in a[1]+1..a[2]-1 : reply[i] \in Objects

ParseArrayReply(reply) ==
    IF Arrays(reply) = {} \/ ~Decodes(reply) THEN 0
    ELSE LET a == FirstArray(reply) IN Count(reply, a[1], a[2], "memory")

(* The rows of a sort that the model listed, and whether it did so in one  *)
(* array of objects that hold no array themselves, with only words around. *)
Listed(reply, sort) == 1..Count(reply, 1, Len(reply), sort)
Flat(reply) ==
    \E from, to \in DOMAIN reply :
        /\ from < to /\ reply[from] = "[" /\ reply[to] = "]"
        /\ \A i \in from+1..to-1 : reply[i] \in Objects
        /\ \A i \in (DOMAIN reply) \ (from..to) : reply[i] \notin Objects \cup {"[", "]"}

-----------------------------------------------------------------------------
(* The pipeline. *)
At(j, where) == KindOf[j] = "ingest" /\ pc[j] = where

Memory(j) == [job |-> j, attempt |-> attempt[j], layer |-> layer[j], nth |-> todo[j]]
Settle(j) ==
    owed' = [owed EXCEPT ![j] =
                {o \in @ : o.blank \/ o.layer # layer[j] \/ o.nth # todo[j]}]

(* An empty topic ends, without a call, like one that is not relevant.  A  *)
(* malformed answer counts as relevant.                                    *)
Gatekeeper(j) ==
    /\ At(j, "start")
    /\ Goto(j, "returnNil") \/ Call(j, Goto(j, "extract"), Goto(j, "returnErr"))
    /\ layer' = [layer EXCEPT ![j] = 1]
    /\ owed' = [owed EXCEPT ![j] = {}]
    /\ Unmoved
    /\ UNCHANGED <<memoryVars, todo, tx, cutOff>>

(* After the last layer the job is done, whatever was stored.              *)
NextLayer(j) ==
    IF layer[j] < Layers
    THEN Goto(j, "extract") /\ layer' = [layer EXCEPT ![j] = @ + 1]
    ELSE Goto(j, "returnNil") /\ UNCHANGED layer

(* Bug variant: an extractor's error fails the job. *)
BugExtractFails(j) ==
    /\ At(j, "extract")
    /\ Goto(j, "returnErr")
    /\ Unmoved
    /\ UNCHANGED <<memoryVars, ingestVars>>

(* The model cannot be asked: the layer is logged and skipped. *)
ExtractFails(j) ==
    /\ At(j, "extract")
    /\ NextLayer(j)
    /\ Unmoved
    /\ UNCHANGED <<memoryVars, todo, tx, owed, cutOff>>

(* What a reply adds to the account.  The loop behind the parser stores or *)
(* logs the rows it gets, and passes over blank ones without a log; rows   *)
(* the parser misses are logged only if what it found does not decode.     *)
Listing(reply, l) ==
    IF Decodes(reply)
    THEN UNION {[layer : {l}, nth : Listed(reply, sort),
                 blank : {sort = "blank"}, flat : {Flat(reply)}] : sort \in Objects}
    ELSE {}

Extract(j) ==
    /\ At(j, "extract")
    /\ j \notin expired
    /\ \E reply \in Replies[layer[j]] :
          /\ owed' = [owed EXCEPT ![j] = @ \cup Listing(reply, layer[j])]
          /\ todo' = [todo EXCEPT ![j] = ParseArrayReply(reply)]
          /\ IF ParseArrayReply(reply) > 0
             THEN Goto(j, "embed") /\ UNCHANGED layer
             ELSE NextLayer(j)
    /\ Unmoved
    /\ UNCHANGED <<memoryVars, tx, cutOff>>

(* Bug variant: the loop leaves the last memory out. *)
BugNextMemory(j) ==
    IF todo[j] > 2
    THEN Goto(j, "embed") /\ todo' = [todo EXCEPT ![j] = @ - 1] /\ UNCHANGED layer
    ELSE NextLayer(j) /\ todo' = [todo EXCEPT ![j] = 0]

(* The loop over a layer's memories. *)
NextMemory(j) ==
    IF todo[j] > 1
    THEN Goto(j, "embed") /\ todo' = [todo EXCEPT ![j] = @ - 1] /\ UNCHANGED layer
    ELSE NextLayer(j) /\ todo' = [todo EXCEPT ![j] = 0]

(* Bug variant: the memory is tried again. *)
BugDone(j) ==
    /\ Settle(j)
    /\ tx' = [tx EXCEPT ![j] = {}]
    /\ Goto(j, "embed") /\ UNCHANGED <<todo, layer>>

(* The loop is done with a memory, stored or not: one that cannot be       *)
(* stored is logged, and the deferred Rollback undoes its transaction.     *)
Done(j) ==
    /\ Settle(j)
    /\ tx' = [tx EXCEPT ![j] = {}]
    /\ NextMemory(j)

GoOn(j, where, rows) ==
    /\ Goto(j, where)
    /\ tx' = [tx EXCEPT ![j] = rows]
    /\ UNCHANGED <<layer, todo, owed>>

(* Without an embedder, or with a blank text, there is no call and the     *)
(* vector stays NULL.                                                      *)
Embed(j) ==
    /\ At(j, "embed")
    /\ GoOn(j, "insertParent", {}) \/ Done(j)
    /\ Unmoved
    /\ UNCHANGED <<memoryVars, cutOff>>

(* Bug variant: the parent is written to the pool, not to the transaction. *)
BugInsertParent(j) ==
    /\ At(j, "insertParent")
    /\ \/ /\ j \notin expired
          /\ GoOn(j, "insertChild", {"parent"})
          /\ parents' = parents \cup {Memory(j)}
       \/ (j \in expired \/ "db" \in Faults) /\ Done(j) /\ UNCHANGED parents
    /\ Unmoved
    /\ UNCHANGED <<children, cutOff>>

InsertParent(j) ==
    /\ At(j, "insertParent")
    /\ Statement(j, GoOn(j, "insertChild", {"parent"}), Done(j))
    /\ Unmoved
    /\ UNCHANGED <<memoryVars, cutOff>>

(* The database may refuse the row: an episodicDate comes from the model.  *)
InsertChild(j) ==
    /\ At(j, "insertChild")
    /\ Call(j, GoOn(j, "commit", tx[j] \cup {"child"}), Done(j))
    /\ Unmoved
    /\ UNCHANGED <<memoryVars, cutOff>>

Publish(j) ==
    /\ parents' = IF "parent" \in tx[j] THEN parents \cup {Memory(j)} ELSE parents
    /\ children' = IF "child" \in tx[j] THEN children \cup {Memory(j)} ELSE children

Commit(j) ==
    /\ At(j, "commit")
    /\ CommitTx(j, Publish(j), Done(j), Done(j))
    /\ Unmoved
    /\ UNCHANGED cutOff

-----------------------------------------------------------------------------
IngestRun(j) ==
    \/ Gatekeeper(j) \/ Extract(j) \/ ExtractFails(j)
    \/ Embed(j) \/ InsertParent(j) \/ InsertChild(j) \/ Commit(j)

(* A process that dies takes its handlers' variables and their open        *)
(* transactions with it.                                                   *)
IngestCrash ==
    /\ tx' = [j \in Jobs |-> {}]
    /\ cutOff' = cutOff \cup {j \in IngestJobs : pc[j] # "none"}
    /\ layer' = [j \in Jobs |-> 1]
    /\ todo' = [j \in Jobs |-> 0]
    /\ owed' = [j \in Jobs |-> IF pc[j] = "none" THEN owed[j] ELSE {}]

-----------------------------------------------------------------------------
Stored(j) == {m \in children : m.job = j}

(* persist.go:14-16, "so a partial failure can't orphan a parent": no      *)
(* memory is durable without its layer row, nor a layer row without its    *)
(* memory, whichever statement fails, and wherever the process dies.       *)
NoOrphan == parents = children

(* worker.go:190-252: errors are logged and the pipeline goes on.  A job   *)
(* that completes has stored or logged every row its models listed in a    *)
(* flat array, even if its context was done half way; all but the blank    *)
(* ones, which are passed over in silence (extractor.go:117-119), although *)
(* line 97 says "Malformed rows are dropped and logged".                   *)
Accounted ==
    \A j \in IngestJobs :
        jobState[j] = "completed" => \A o \in owed[j] : o.flat => o.blank

(* The price of swallowed errors is not paid twice: a retry stores a       *)
(* topic's memories again only if a crash cut the earlier attempt off.     *)
StoredOnce ==
    \A j \in IngestJobs \ cutOff :
        \A m, n \in Stored(j) : m.attempt = n.attempt

(* extractor.go:334-336, "arrayJSONLine finds the first JSON array in a    *)
(* reply ... The regex tolerates that": every memory listed in a reply is  *)
(* stored or logged, and so also in one of the shape the prompts ask for   *)
(* (extractor.go:90, "tags": ["<short label>", ...]).                      *)
ListedIsAccounted ==
    \A j \in IngestJobs : jobState[j] = "completed" => \A o \in owed[j] : o.blank
=============================================================================
