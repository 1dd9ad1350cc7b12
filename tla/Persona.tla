------------------------------- MODULE Persona -------------------------------
(***************************************************************************)
(* The persona worker.  It reads the user's recent memories and persona    *)
(* document, has a model merge them, and writes the next version of the    *)
(* document together with a row of its history.  Minutes lie between       *)
(* reading the document and writing it, and nothing in the transaction     *)
(* checks that it is still the one that was merged.  Of a document only    *)
(* its version is told apart.                                              *)
(***************************************************************************)
EXTENDS Memories

VARIABLES
    base,      \* the version of the document it has read, 0 if there is none
    previous,  \* the version its transaction has read
    draft,     \* the rows its transaction has written
    doc,       \* the version of the persona document, 0 if there is none
    history    \* its history rows, and the version each merge started from

documentVars == <<doc, history>>
personaVars == <<base, previous, draft, doc, history>>

PersonaJobs == {j \in Jobs : KindOf[j] = "persona"}

PersonaInit ==
    /\ base = [j \in Jobs |-> 0]
    /\ previous = [j \in Jobs |-> 0]
    /\ draft = [j \in Jobs |-> {}]
    /\ doc = 0
    /\ history = <<>>

-----------------------------------------------------------------------------
Refreshes(j, where) == KindOf[j] = "persona" /\ pc[j] = where

(* run returns: its variables are gone, its transaction is rolled back. *)
Finish(j, how) ==
    /\ Goto(j, how)
    /\ base' = [base EXCEPT ![j] = 0]
    /\ previous' = [previous EXCEPT ![j] = 0]
    /\ draft' = [draft EXCEPT ![j] = {}]

(* The recent memories: there may be none, also because the job names a    *)
(* day from which on they count.  A since that does not parse is an error. *)
ReadMemories(j) ==
    /\ Refreshes(j, "start")
    /\ Call(j, \/ /\ parents # {}
                  /\ Goto(j, "readPersona")
                  /\ UNCHANGED <<base, previous, draft>>
               \/ Finish(j, "returnNil"),
            Finish(j, "returnErr"))
    /\ Unmoved
    /\ UNCHANGED <<memoryVars, documentVars>>

ReadLatestPersona(j) ==
    /\ Refreshes(j, "readPersona")
    /\ Statement(j, /\ base' = [base EXCEPT ![j] = doc]
                    /\ Goto(j, "chat")
                    /\ UNCHANGED <<previous, draft>>,
                 Finish(j, "returnErr"))
    /\ Unmoved
    /\ UNCHANGED <<memoryVars, documentVars>>

(* A reply without JSON is the persona; an empty one writes nothing. *)
Merge(j) ==
    /\ Refreshes(j, "chat")
    /\ Call(j, \/ Goto(j, "readVersion") /\ UNCHANGED <<base, previous, draft>>
               \/ Finish(j, "returnNil"),
            Finish(j, "returnErr"))
    /\ Unmoved
    /\ UNCHANGED <<memoryVars, documentVars>>

-----------------------------------------------------------------------------
(* WritePersona. *)
InTx(j, from, where, rows) ==
    /\ Refreshes(j, from)
    /\ Statement(j, /\ Goto(j, where)
                    /\ draft' = [draft EXCEPT ![j] = rows]
                    /\ previous' = [previous EXCEPT ![j] =
                                       IF from = "readVersion" THEN doc ELSE @]
                    /\ UNCHANGED base,
                 Finish(j, "returnErr"))
    /\ Unmoved
    /\ UNCHANGED <<memoryVars, documentVars>>

ReadVersion(j) == InTx(j, "readVersion", "upsert", {})

(* Bug variant: the document is written to the pool, not to the transaction. *)
BugUpsertDocument(j) ==
    /\ Refreshes(j, "upsert")
    /\ j \notin expired
    /\ doc' = previous[j] + 1
    /\ Goto(j, "appendHistory")
    /\ Unmoved
    /\ UNCHANGED <<memoryVars, history, base, previous, draft>>

UpsertDocument(j) == InTx(j, "upsert", "appendHistory", {"document"})
AppendHistory(j) == InTx(j, "appendHistory", "commitPersona", draft[j] \cup {"history"})

NextVersion(j) == previous[j] + 1

WriteDocument(j) ==
    /\ doc' = IF "document" \in draft[j] THEN NextVersion(j) ELSE doc
    /\ history' = IF "history" \in draft[j]
                  THEN Append(history, [prev |-> previous[j], next |-> NextVersion(j),
                                        base |-> base[j]])
                  ELSE history

CommitPersona(j) ==
    /\ Refreshes(j, "commitPersona")
    /\ \/ j \notin expired /\ WriteDocument(j) /\ Finish(j, "returnNil")
       \/ /\ j \in expired \/ "db" \in Faults
          /\ UNCHANGED documentVars
          /\ Finish(j, "returnErr")
       \/ /\ j \notin expired /\ "ack" \in Faults
          /\ WriteDocument(j)
          /\ Finish(j, "returnErr")
    /\ Unmoved
    /\ UNCHANGED memoryVars

PersonaRun(j) ==
    \/ ReadMemories(j) \/ ReadLatestPersona(j) \/ Merge(j)
    \/ ReadVersion(j) \/ UpsertDocument(j) \/ AppendHistory(j) \/ CommitPersona(j)

PersonaCrash ==
    /\ base' = [j \in Jobs |-> 0]
    /\ previous' = [j \in Jobs |-> 0]
    /\ draft' = [j \in Jobs |-> {}]
    /\ UNCHANGED documentVars

-----------------------------------------------------------------------------
(* persona.go:328-329, "Bumps the version and writes a history row in the  *)
(* same transaction": the history tells every version of the document,     *)
(* each following on the one before, up to the one that is shown.          *)
HistoryIsComplete ==
    /\ doc = Len(history)
    /\ \A v \in DOMAIN history : history[v].prev = v - 1 /\ history[v].next = v

(* persona.go:193-196, "preserving any details from the previous persona": *)
(* each version was merged from the one it replaces, so that no merge is   *)
(* lost, although nothing but the queue's limit of one worker orders them. *)
NoMergeIsLost == \A v \in DOMAIN history : history[v].base = history[v].prev
=============================================================================
