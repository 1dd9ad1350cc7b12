--------------------------- MODULE UserMemoryProofs ---------------------------
(***************************************************************************)
(* No memory is ever stored in half, for any jobs, replies and faults, and *)
(* the history of the persona document is without a gap and no merge lost  *)
(* as long as its queue has one worker.                                    *)
(***************************************************************************)
EXTENDS UserMemory, FiniteSetTheorems, TLAPS

(* River's part of a step moves one job between "none" and "start".        *)
LEMMA QueueMoves ==
    ASSUME NEW j \in Jobs, pc \in [Jobs -> Places], MemoryQueue(j) \/ MemoryDeadline(j)
    PROVE  /\ pc' \in [Jobs -> Places]
           /\ \A i \in Jobs : pc'[i] = pc[i] \/ pc'[i] \in {"none", "start"}
           /\ UNCHANGED <<memoryVars, ingestVars, personaVars>>
BY DEF MemoryQueue, MemoryDeadline, FetchJob, CloseAttempt, RescueJob, DeadlinePasses,
       Goto, Places

(* After a memory the loop goes on, with no transaction open. *)
LEMMA DoneMoves ==
    ASSUME NEW j \in Jobs, Done(j)
    PROVE  /\ \E w \in {"embed", "extract", "returnNil"} : pc' = [pc EXCEPT ![j] = w]
           /\ tx' = [tx EXCEPT ![j] = {}]
BY DEF Done, NextMemory, NextLayer, Goto

-----------------------------------------------------------------------------
(* What the open transaction of an ingest job has written follows from     *)
(* where its handler is.                                                   *)
HalfWritten(j) ==
    /\ pc[j] = "insertChild" => tx[j] = {"parent"}
    /\ pc[j] = "commit" => tx[j] = {"parent", "child"}

TxInv ==
    /\ pc \in [Jobs -> Places]
    /\ tx \in [Jobs -> SUBSET {"parent", "child"}]
    /\ \A j \in IngestJobs : HalfWritten(j)
    /\ NoOrphan

(* A handler that moves itself and writes what belongs there keeps the     *)
(* transactions of all as they should be.                                  *)
LEMMA OwnTransaction ==
    ASSUME TxInv, NEW j \in Jobs, NEW w \in Places, NEW t \in SUBSET {"parent", "child"},
           pc' = [pc EXCEPT ![j] = w], tx' = [tx EXCEPT ![j] = t],
           w = "insertChild" => t = {"parent"},
           w = "commit" => t = {"parent", "child"},
           parents' = children'
    PROVE  TxInv'
<1>1. pc' \in [Jobs -> Places] /\ tx' \in [Jobs -> SUBSET {"parent", "child"}]
  BY DEF TxInv
<1>2. ASSUME NEW i \in IngestJobs PROVE HalfWritten(i)'
  <2>1. i \in Jobs
    BY DEF IngestJobs
  <2>2. CASE i = j
    BY <2>1, <2>2 DEF TxInv, HalfWritten
  <2>3. CASE i # j
    <3>1. pc'[i] = pc[i] /\ tx'[i] = tx[i]
      BY <2>1, <2>3 DEF TxInv
    <3> QED
      BY <3>1 DEF TxInv, HalfWritten
  <2> QED
    BY <2>2, <2>3
<1> QED
  BY <1>1, <1>2 DEF TxInv, NoOrphan, IngestJobs

(* A failed memory leaves nothing behind. *)
LEMMA DoneKeepsTx ==
    ASSUME TxInv, NEW j \in Jobs, Done(j), parents' = children'
    PROVE  TxInv'
<1>1. PICK w \in {"embed", "extract", "returnNil"} : pc' = [pc EXCEPT ![j] = w]
  BY DoneMoves
<1>2. tx' = [tx EXCEPT ![j] = {}]
  BY DoneMoves
<1>3. w \in Places
  BY DEF Places, Returns
<1> QED
  BY <1>1, <1>2, <1>3, OwnTransaction

(* No step of an ingest job leaves half a memory. *)
LEMMA IngestKeepsTx ==
    ASSUME TxInv, NEW j \in Jobs, IngestRun(j)
    PROVE  TxInv'
<1>1. parents = children /\ pc \in [Jobs -> Places] /\ tx \in [Jobs -> SUBSET {"parent", "child"}]
  BY DEF TxInv, NoOrphan
<1>2. tx[j] \in SUBSET {"parent", "child"} /\ tx = [tx EXCEPT ![j] = tx[j]]
  BY <1>1
<1>3. CASE Gatekeeper(j)
  <2>1. PICK w \in {"extract", "returnNil", "returnErr"} : pc' = [pc EXCEPT ![j] = w]
    BY <1>3 DEF Gatekeeper, Call, Goto
  <2>2. w \in Places
    BY DEF Places, Returns
  <2>3. tx' = [tx EXCEPT ![j] = tx[j]] /\ parents' = children'
    BY <1>1, <1>2, <1>3 DEF Gatekeeper, memoryVars
  <2> QED
    BY <1>2, <2>1, <2>2, <2>3, OwnTransaction
<1>4. CASE Extract(j) \/ ExtractFails(j)
  <2>1. PICK w \in {"embed", "extract", "returnNil"} : pc' = [pc EXCEPT ![j] = w]
    BY <1>4 DEF Extract, ExtractFails, NextLayer, Goto
  <2>2. w \in Places
    BY DEF Places, Returns
  <2>3. tx' = [tx EXCEPT ![j] = tx[j]] /\ parents' = children'
    BY <1>1, <1>2, <1>4 DEF Extract, ExtractFails, memoryVars
  <2> QED
    BY <1>2, <2>1, <2>2, <2>3, OwnTransaction
<1>5. CASE Embed(j)
  <2>1. parents' = children'
    BY <1>1, <1>5 DEF Embed, memoryVars
  <2>2. GoOn(j, "insertParent", {}) \/ Done(j)
    BY <1>5 DEF Embed, Call
  <2>3. CASE GoOn(j, "insertParent", {})
    <3>1. "insertParent" \in Places
      BY DEF Places
    <3> QED
      BY <2>1, <2>3, <3>1, OwnTransaction DEF GoOn, Goto
  <2> QED
    BY <2>1, <2>2, <2>3, DoneKeepsTx
<1>6. CASE InsertParent(j)
  <2>1. parents' = children'
    BY <1>1, <1>6 DEF InsertParent, memoryVars
  <2>2. GoOn(j, "insertChild", {"parent"}) \/ Done(j)
    BY <1>6 DEF InsertParent, Statement
  <2>3. CASE GoOn(j, "insertChild", {"parent"})
    <3>1. "insertChild" \in Places
      BY DEF Places
    <3> QED
      BY <2>1, <2>3, <3>1, OwnTransaction DEF GoOn, Goto
  <2> QED
    BY <2>1, <2>2, <2>3, DoneKeepsTx
<1>7. CASE InsertChild(j)
  <2>1. parents' = children'
    BY <1>1, <1>7 DEF InsertChild, memoryVars
  <2>2. tx[j] \cup {"child"} = {"parent", "child"}
    BY <1>7 DEF InsertChild, At, TxInv, HalfWritten, IngestJobs
  <2>3. GoOn(j, "commit", {"parent", "child"}) \/ Done(j)
    BY <1>7, <2>2 DEF InsertChild, Call
  <2>4. CASE GoOn(j, "commit", {"parent", "child"})
    <3>1. "commit" \in Places
      BY DEF Places
    <3> QED
      BY <2>1, <2>4, <3>1, OwnTransaction DEF GoOn, Goto
  <2> QED
    BY <2>1, <2>3, <2>4, DoneKeepsTx
<1>8. CASE Commit(j)
  <2>1. tx[j] = {"parent", "child"}
    BY <1>8 DEF Commit, At, TxInv, HalfWritten, IngestJobs
  <2>2. parents' = children'
    BY <1>1, <1>8, <2>1 DEF Commit, CommitTx, Publish, memoryVars
  <2>3. Done(j)
    BY <1>8 DEF Commit, CommitTx
  <2> QED
    BY <2>2, <2>3, DoneKeepsTx
<1> QED
  BY <1>3, <1>4, <1>5, <1>6, <1>7, <1>8 DEF IngestRun

(* Nothing is stored at first. *)
LEMMA TxInit == MemoryInit => TxInv
BY DEF MemoryInit, RiverInit, IngestInit, TxInv, HalfWritten, NoOrphan, IngestJobs, Places

(* The other steps leave the tables alone, and a crash every transaction.  *)
LEMMA OthersKeepTx ==
    ASSUME TxInv, pc' \in [Jobs -> Places], UNCHANGED memoryVars,
           \/ tx' = [i \in Jobs |-> {}] /\ \A i \in Jobs : pc'[i] = "none"
           \/ tx' = tx /\ \A i \in IngestJobs : pc'[i] = pc[i] \/ pc'[i] \in {"none", "start"}
    PROVE  TxInv'
BY DEF TxInv, HalfWritten, NoOrphan, IngestJobs, memoryVars

(* A step of the persona worker moves one of its jobs. *)
LEMMA RefreshMoves ==
    ASSUME NEW j \in Jobs, PersonaRun(j), pc \in [Jobs -> Places]
    PROVE  /\ KindOf[j] = "persona" /\ pc[j] # "none"
           /\ UNCHANGED memoryVars
           /\ \E w \in Places \ {"none"} : pc' = [pc EXCEPT ![j] = w]
<1>1. CASE ReadMemories(j)
  BY <1>1 DEF ReadMemories, Refreshes, Call, Finish, Goto, Places, Returns, memoryVars
<1>2. CASE ReadLatestPersona(j)
  BY <1>2 DEF ReadLatestPersona, Refreshes, Statement, Finish, Goto, Places, Returns, memoryVars
<1>3. CASE Merge(j)
  BY <1>3 DEF Merge, Refreshes, Call, Finish, Goto, Places, Returns, memoryVars
<1>4. CASE ReadVersion(j) \/ UpsertDocument(j) \/ AppendHistory(j)
  BY <1>4 DEF ReadVersion, UpsertDocument, AppendHistory, InTx, Refreshes, Statement,
              Finish, Goto, Places, Returns, memoryVars
<1>5. CASE CommitPersona(j)
  BY <1>5 DEF CommitPersona, Refreshes, Finish, Goto, Places, Returns, memoryVars
<1> QED
  BY <1>1, <1>2, <1>3, <1>4, <1>5 DEF PersonaRun

(* Every step keeps the memories whole. *)
LEMMA TxStep == TxInv /\ [MemoryNext]_vars => TxInv'
<1> SUFFICES ASSUME TxInv, [MemoryNext]_vars PROVE TxInv'
  OBVIOUS
<1>1. pc \in [Jobs -> Places]
  BY DEF TxInv
<1>2. ASSUME NEW j \in Jobs, Ingest(j) PROVE TxInv'
  BY <1>2, IngestKeepsTx DEF Ingest
<1>3. ASSUME NEW j \in Jobs, Refresh(j) PROVE TxInv'
  <2>1. /\ KindOf[j] = "persona" /\ UNCHANGED memoryVars
        /\ \E w \in Places \ {"none"} : pc' = [pc EXCEPT ![j] = w]
    BY <1>1, <1>3, RefreshMoves DEF Refresh
  <2>2. pc' \in [Jobs -> Places] /\ \A i \in IngestJobs : pc'[i] = pc[i]
    BY <1>1, <2>1 DEF IngestJobs
  <2>3. tx' = tx
    BY <1>3 DEF Refresh, ingestVars
  <2> QED
    BY <2>1, <2>2, <2>3, OthersKeepTx
<1>4. ASSUME NEW j \in Jobs, MemoryQueue(j) \/ MemoryDeadline(j) PROVE TxInv'
  BY <1>1, <1>4, QueueMoves, OthersKeepTx DEF ingestVars, IngestJobs
<1>5. CASE MemoryCrash
  BY <1>5, OthersKeepTx DEF MemoryCrash, ProcessDies, IngestCrash, Places
<1>6. CASE UNCHANGED vars
  BY <1>6 DEF vars, riverVars, memoryVars, ingestVars, TxInv, HalfWritten, NoOrphan, IngestJobs
<1> QED
  BY <1>2, <1>3, <1>4, <1>5, <1>6 DEF MemoryNext, Advance

(* No memory is durable without its layer row, nor the other way round.    *)
THEOREM MemoriesAreWhole == MemorySpec => []NoOrphan
<1>1. TxInv => NoOrphan
  BY DEF TxInv
<1> QED
  BY <1>1, TxInit, TxStep, PTL DEF MemorySpec

-----------------------------------------------------------------------------
(* A refresh between reading the document and committing has read its      *)
(* latest version, and its transaction has written what belongs there.     *)
Merging(j) ==
    /\ pc[j] \in {"chat", "readVersion", "upsert", "appendHistory", "commitPersona"}
          => base[j] = doc
    /\ pc[j] \in {"upsert", "appendHistory", "commitPersona"} => previous[j] = doc
    /\ pc[j] = "appendHistory" => draft[j] = {"document"}
    /\ pc[j] = "commitPersona" => draft[j] = {"document", "history"}

DocumentTypes ==
    /\ pc \in [Jobs -> Places]
    /\ base \in [Jobs -> Nat]
    /\ previous \in [Jobs -> Nat]
    /\ draft \in [Jobs -> SUBSET {"document", "history"}]
    /\ doc \in Nat
    /\ history \in Seq([prev : Nat, next : Nat, base : Nat])

OneRefresh == \A i, j \in PersonaJobs : pc[i] # "none" /\ pc[j] # "none" => i = j

MergeInv ==
    /\ DocumentTypes
    /\ OneRefresh
    /\ \A j \in PersonaJobs : Merging(j)
    /\ HistoryIsComplete
    /\ NoMergeIsLost

(* No refresh is under way at first. *)
LEMMA MergeInit == MemoryInit => MergeInv
BY DEF MemoryInit, RiverInit, PersonaInit, MergeInv, DocumentTypes, OneRefresh, Merging,
       HistoryIsComplete, NoMergeIsLost, PersonaJobs, Places

(* What only one refresh changes keeps the invariant if it holds for it.   *)
LEMMA OwnRefresh ==
    ASSUME MergeInv, NEW j \in PersonaJobs, pc[j] # "none",
           NEW w \in Places, pc' = [pc EXCEPT ![j] = w],
           DocumentTypes', Merging(j)', HistoryIsComplete', NoMergeIsLost'
    PROVE  MergeInv'
<1>1. ASSUME NEW i \in PersonaJobs, i # j PROVE pc'[i] = "none"
  BY <1>1 DEF MergeInv, OneRefresh, DocumentTypes, PersonaJobs
<1>2. OneRefresh'
  BY <1>1 DEF OneRefresh, PersonaJobs
<1>3. \A i \in PersonaJobs : Merging(i)'
  BY <1>1 DEF Merging
<1> QED
  BY <1>2, <1>3 DEF MergeInv, PersonaJobs

(* Until it commits, a refresh changes only what it has read itself.       *)
LEMMA Drafting ==
    ASSUME MergeInv, NEW j \in PersonaJobs, pc[j] # "none",
           NEW w \in Places, pc' = [pc EXCEPT ![j] = w],
           base' \in [Jobs -> Nat], previous' \in [Jobs -> Nat],
           draft' \in [Jobs -> SUBSET {"document", "history"}],
           UNCHANGED documentVars, Merging(j)'
    PROVE  MergeInv'
<1>1. DocumentTypes' /\ HistoryIsComplete' /\ NoMergeIsLost'
  BY DEF MergeInv, DocumentTypes, HistoryIsComplete, NoMergeIsLost, documentVars
<1> QED
  BY <1>1, OwnRefresh

(* A refresh that ends without a commit leaves the document as it was.     *)
LEMMA Finishing ==
    ASSUME MergeInv, NEW j \in PersonaJobs, pc[j] # "none",
           NEW how \in Returns, Finish(j, how), UNCHANGED documentVars
    PROVE  MergeInv'
<1>1. j \in Jobs /\ how \in Places /\ pc' = [pc EXCEPT ![j] = how]
  BY DEF PersonaJobs, Places, Finish, Goto
<1>2. /\ base' \in [Jobs -> Nat] /\ previous' \in [Jobs -> Nat]
      /\ draft' \in [Jobs -> SUBSET {"document", "history"}]
  BY DEF MergeInv, DocumentTypes, Finish
<1>3. pc'[j] = how
  BY <1>1 DEF MergeInv, DocumentTypes
<1>4. Merging(j)'
  BY <1>3 DEF Merging, Returns
<1> QED
  BY <1>1, <1>2, <1>4, Drafting

(* Committing appends the next version to the history. *)
LEMMA Committing ==
    ASSUME MergeInv, NEW j \in PersonaJobs, pc[j] = "commitPersona",
           NEW how \in Returns, Finish(j, how), WriteDocument(j)
    PROVE  MergeInv'
<1> DEFINE row == [prev |-> doc, next |-> doc + 1, base |-> doc]
<1>1. j \in Jobs /\ how \in Places /\ pc' = [pc EXCEPT ![j] = how] /\ pc[j] # "none"
  BY DEF PersonaJobs, Places, Finish, Goto
<1>2. previous[j] = doc /\ base[j] = doc /\ draft[j] = {"document", "history"} /\ doc \in Nat
  BY DEF MergeInv, Merging, DocumentTypes
<1>3. doc' = doc + 1 /\ history' = Append(history, row)
  BY <1>2 DEF WriteDocument, NextVersion
<1>4. /\ history \in Seq([prev : Nat, next : Nat, base : Nat])
      /\ doc = Len(history) /\ DOMAIN history = 1..doc
      /\ \A v \in 1..doc : /\ history[v].prev = v - 1 /\ history[v].next = v
                           /\ history[v].base = history[v].prev
  BY DEF MergeInv, DocumentTypes, HistoryIsComplete, NoMergeIsLost
<1>5. row \in [prev : Nat, next : Nat, base : Nat]
  BY <1>2
<1> HIDE DEF row
<1>6. /\ history' \in Seq([prev : Nat, next : Nat, base : Nat])
      /\ DOMAIN history' = 1..doc+1 /\ Len(history') = doc + 1
      /\ \A v \in 1..doc : history'[v] = history[v]
      /\ history'[doc+1] = row
  BY <1>2, <1>3, <1>4, <1>5
<1>7. row.prev = doc /\ row.next = doc + 1 /\ row.base = doc
  BY DEF row
<1>8. ASSUME NEW v \in 1..doc+1
      PROVE  /\ history'[v].prev = v - 1 /\ history'[v].next = v
             /\ history'[v].base = history'[v].prev
  <2>1. CASE v = doc + 1
    BY <1>2, <1>6, <1>7, <2>1
  <2>2. CASE v # doc + 1
    <3>1. v \in 1..doc
      BY <1>2, <2>2
    <3> QED
      BY <1>4, <1>6, <3>1
  <2> QED
    BY <2>1, <2>2
<1>9. HistoryIsComplete' /\ NoMergeIsLost'
  BY <1>3, <1>6, <1>8 DEF HistoryIsComplete, NoMergeIsLost
<1>10. DocumentTypes'
  BY <1>1, <1>2, <1>3, <1>6 DEF MergeInv, DocumentTypes, Finish
<1>11. Merging(j)'
  <2>1. pc'[j] = how
    BY <1>1 DEF MergeInv, DocumentTypes
  <2> QED
    BY <2>1 DEF Merging, Returns
<1> QED
  BY <1>1, <1>9, <1>10, <1>11, OwnRefresh

(* Every step of a refresh keeps the invariant. *)
LEMMA RefreshKeepsMerge ==
    ASSUME MergeInv, NEW j \in Jobs, PersonaRun(j)
    PROVE  MergeInv'
<1>1. j \in PersonaJobs /\ pc[j] # "none"
  BY RefreshMoves DEF MergeInv, DocumentTypes, PersonaJobs
<1>2. "returnNil" \in Returns /\ "returnErr" \in Returns
  BY DEF Returns
<1>3. /\ pc \in [Jobs -> Places] /\ base \in [Jobs -> Nat] /\ previous \in [Jobs -> Nat]
      /\ draft \in [Jobs -> SUBSET {"document", "history"}] /\ doc \in Nat
      /\ Merging(j)
  BY <1>1 DEF MergeInv, DocumentTypes
<1>4. CASE ReadMemories(j)
  <2>1. UNCHANGED documentVars
    BY <1>4 DEF ReadMemories
  <2>2. CASE \E how \in Returns : Finish(j, how)
    BY <1>1, <2>1, <2>2, Finishing
  <2>3. CASE pc' = [pc EXCEPT ![j] = "readPersona"] /\ UNCHANGED <<base, previous, draft>>
    <3>1. "readPersona" \in Places /\ Merging(j)'
      BY <1>3, <2>3 DEF Places, Merging
    <3> QED
      BY <1>1, <1>3, <2>1, <2>3, <3>1, Drafting
  <2> QED
    BY <1>2, <1>4, <2>2, <2>3 DEF ReadMemories, Call, Goto
<1>5. CASE ReadLatestPersona(j)
  <2>1. UNCHANGED documentVars
    BY <1>5 DEF ReadLatestPersona
  <2>2. CASE \E how \in Returns : Finish(j, how)
    BY <1>1, <2>1, <2>2, Finishing
  <2>3. CASE /\ pc' = [pc EXCEPT ![j] = "chat"] /\ base' = [base EXCEPT ![j] = doc]
             /\ UNCHANGED <<previous, draft>>
    <3>1. "chat" \in Places /\ base' \in [Jobs -> Nat] /\ Merging(j)'
      BY <1>3, <2>1, <2>3 DEF Places, Merging, documentVars
    <3> QED
      BY <1>1, <1>3, <2>1, <2>3, <3>1, Drafting
  <2> QED
    BY <1>2, <1>5, <2>2, <2>3 DEF ReadLatestPersona, Statement, Goto
<1>6. CASE Merge(j)
  <2>1. UNCHANGED documentVars
    BY <1>6 DEF Merge
  <2>2. CASE \E how \in Returns : Finish(j, how)
    BY <1>1, <2>1, <2>2, Finishing
  <2>3. CASE pc' = [pc EXCEPT ![j] = "readVersion"] /\ UNCHANGED <<base, previous, draft>>
    <3>1. "readVersion" \in Places /\ Merging(j)'
      BY <1>3, <1>6, <2>1, <2>3 DEF Places, Merging, documentVars, Merge, Refreshes
    <3> QED
      BY <1>1, <1>3, <2>1, <2>3, <3>1, Drafting
  <2> QED
    BY <1>2, <1>6, <2>2, <2>3 DEF Merge, Call, Goto
<1>7. CASE ReadVersion(j)
  <2>1. UNCHANGED documentVars
    BY <1>7 DEF ReadVersion, InTx
  <2>2. CASE \E how \in Returns : Finish(j, how)
    BY <1>1, <2>1, <2>2, Finishing
  <2>3. CASE /\ pc' = [pc EXCEPT ![j] = "upsert"] /\ draft' = [draft EXCEPT ![j] = {}]
             /\ previous' = [previous EXCEPT ![j] = doc] /\ UNCHANGED base
    <3>1. /\ "upsert" \in Places /\ previous' \in [Jobs -> Nat]
          /\ draft' \in [Jobs -> SUBSET {"document", "history"}]
      BY <1>3, <2>3 DEF Places
    <3>2. Merging(j)'
      BY <1>3, <1>7, <2>1, <2>3 DEF Merging, documentVars, ReadVersion, InTx, Refreshes
    <3> QED
      BY <1>1, <1>3, <2>1, <2>3, <3>1, <3>2, Drafting
  <2> QED
    BY <1>2, <1>7, <2>2, <2>3 DEF ReadVersion, InTx, Statement, Goto
<1>8. CASE UpsertDocument(j)
  <2>1. UNCHANGED documentVars
    BY <1>8 DEF UpsertDocument, InTx
  <2>2. CASE \E how \in Returns : Finish(j, how)
    BY <1>1, <2>1, <2>2, Finishing
  <2>3. CASE /\ pc' = [pc EXCEPT ![j] = "appendHistory"]
             /\ draft' = [draft EXCEPT ![j] = {"document"}]
             /\ UNCHANGED <<base, previous>>
    <3>1. /\ "appendHistory" \in Places
          /\ draft' \in [Jobs -> SUBSET {"document", "history"}]
      BY <1>3, <2>3 DEF Places
    <3>2. Merging(j)'
      BY <1>3, <1>8, <2>1, <2>3 DEF Merging, documentVars, UpsertDocument, InTx, Refreshes
    <3> QED
      BY <1>1, <1>3, <2>1, <2>3, <3>1, <3>2, Drafting
  <2>4. previous = [previous EXCEPT ![j] = previous[j]]
    BY <1>3
  <2> QED
    BY <1>2, <1>8, <2>2, <2>3, <2>4 DEF UpsertDocument, InTx, Statement, Goto
<1>9. CASE AppendHistory(j)
  <2>1. UNCHANGED documentVars
    BY <1>9 DEF AppendHistory, InTx
  <2>2. CASE \E how \in Returns : Finish(j, how)
    BY <1>1, <2>1, <2>2, Finishing
  <2>3. CASE /\ pc' = [pc EXCEPT ![j] = "commitPersona"]
             /\ draft' = [draft EXCEPT ![j] = draft[j] \cup {"history"}]
             /\ UNCHANGED <<base, previous>>
    <3>1. draft[j] = {"document"}
      BY <1>3, <1>9 DEF Merging, AppendHistory, InTx, Refreshes
    <3>2. /\ "commitPersona" \in Places
          /\ draft' \in [Jobs -> SUBSET {"document", "history"}]
          /\ draft'[j] = {"document", "history"}
      BY <1>1, <1>3, <2>3, <3>1 DEF Places, PersonaJobs
    <3>3. Merging(j)'
      BY <1>3, <1>9, <2>1, <2>3, <3>2
         DEF Merging, documentVars, AppendHistory, InTx, Refreshes
    <3> QED
      BY <1>1, <1>3, <2>1, <2>3, <3>2, <3>3, Drafting
  <2>4. previous = [previous EXCEPT ![j] = previous[j]]
    BY <1>3
  <2> QED
    BY <1>2, <1>9, <2>2, <2>3, <2>4 DEF AppendHistory, InTx, Statement, Goto
<1>10. CASE CommitPersona(j)
  <2>1. pc[j] = "commitPersona"
    BY <1>10 DEF CommitPersona, Refreshes
  <2>2. \E how \in Returns : Finish(j, how) /\ (WriteDocument(j) \/ UNCHANGED documentVars)
    BY <1>2, <1>10 DEF CommitPersona
  <2> QED
    BY <1>1, <2>1, <2>2, Finishing, Committing
<1> QED
  BY <1>4, <1>5, <1>6, <1>7, <1>8, <1>9, <1>10 DEF PersonaRun

(* What does not touch the document and moves no refresh, or only to where *)
(* it begins or ends, keeps the invariant, if it starts none beside        *)
(* another.                                                                *)
LEMMA OthersKeepMerge ==
    ASSUME MergeInv, pc' \in [Jobs -> Places], UNCHANGED personaVars,
           \A i \in PersonaJobs : pc'[i] = pc[i] \/ pc'[i] \in {"none", "start"} \cup Returns,
           OneRefresh'
    PROVE  MergeInv'
<1>1. DocumentTypes' /\ HistoryIsComplete' /\ NoMergeIsLost'
  BY DEF MergeInv, DocumentTypes, HistoryIsComplete, NoMergeIsLost, personaVars
<1>2. ASSUME NEW i \in PersonaJobs PROVE Merging(i)'
  BY DEF MergeInv, Merging, personaVars, Returns
<1> QED
  BY <1>1, <1>2 DEF MergeInv, PersonaJobs

(* River fetches a refresh only if no other is under way. *)
LEMMA FetchKeepsOneRefresh ==
    ASSUME IsFiniteSet(Jobs), MaxWorkers["persona_refresh"] = 1, MergeInv,
           NEW j \in Jobs, MemoryQueue(j)
    PROVE  OneRefresh'
<1>1. pc \in [Jobs -> Places] /\ OneRefresh
  BY DEF MergeInv, DocumentTypes
<1>2. CASE FetchJob(j) /\ j \in PersonaJobs
  <2>1. QueueOf(j) = "persona_refresh"
    BY <1>2 DEF QueueOf, PersonaJobs
  <2>2. Handlers("persona_refresh") = {}
    <3>1. Cardinality(Handlers("persona_refresh")) < 1
      BY <1>2, <2>1 DEF FetchJob
    <3>2. IsFiniteSet(Handlers("persona_refresh"))
      <4>1. Handlers("persona_refresh") \subseteq Jobs
        BY DEF Handlers
      <4> QED
        BY <4>1, FS_Subset
    <3>3. Cardinality(Handlers("persona_refresh")) = 0
      BY <3>1, <3>2, FS_CardinalityType
    <3> QED
      BY <3>2, <3>3, FS_EmptySet
  <2>3. \A i \in PersonaJobs : pc[i] = "none"
    BY <2>2 DEF Handlers, QueueOf, PersonaJobs
  <2>4. \A i \in PersonaJobs \ {j} : pc'[i] = "none"
    BY <1>1, <1>2, <2>3 DEF FetchJob, Goto, PersonaJobs
  <2> QED
    BY <2>4 DEF OneRefresh, PersonaJobs
<1>3. CASE FetchJob(j) /\ j \notin PersonaJobs
  <2>1. \A i \in PersonaJobs : pc'[i] = pc[i]
    BY <1>1, <1>3 DEF FetchJob, Goto, PersonaJobs
  <2> QED
    BY <1>1, <2>1 DEF OneRefresh, PersonaJobs
<1>4. CASE CloseAttempt(j) \/ RescueJob(j)
  <2>1. \A i \in Jobs : pc'[i] = pc[i] \/ pc'[i] = "none"
    BY <1>1, <1>4 DEF CloseAttempt, RescueJob, Goto
  <2> QED
    BY <1>1, <2>1 DEF OneRefresh, PersonaJobs
<1> QED
  BY <1>2, <1>3, <1>4 DEF MemoryQueue

(* A step of an ingest job moves no refresh. *)
LEMMA IngestMoves ==
    ASSUME NEW j \in Jobs, IngestRun(j), pc \in [Jobs -> Places]
    PROVE  /\ KindOf[j] = "ingest"
           /\ \E w \in Places : pc' = [pc EXCEPT ![j] = w]
<1>1. KindOf[j] = "ingest"
  BY DEF IngestRun, Gatekeeper, Extract, ExtractFails, Embed, InsertParent, InsertChild,
         Commit, At
<1>2. ASSUME Done(j) PROVE \E w \in Places : pc' = [pc EXCEPT ![j] = w]
  <2>1. PICK w \in {"embed", "extract", "returnNil"} : pc' = [pc EXCEPT ![j] = w]
    BY <1>2, DoneMoves
  <2>2. w \in Places
    BY DEF Places, Returns
  <2> QED
    BY <2>1, <2>2
<1>3. CASE Gatekeeper(j) \/ Extract(j) \/ ExtractFails(j)
  <2>1. PICK w \in {"embed", "extract", "returnNil", "returnErr"} : pc' = [pc EXCEPT ![j] = w]
    BY <1>3 DEF Gatekeeper, Extract, ExtractFails, Call, NextLayer, Goto
  <2>2. w \in Places
    BY DEF Places, Returns
  <2> QED
    BY <1>1, <2>1, <2>2
<1>4. CASE Embed(j) \/ InsertParent(j) \/ InsertChild(j)
  <2>1. \/ Done(j)
        \/ \E w \in {"insertParent", "insertChild", "commit"} : pc' = [pc EXCEPT ![j] = w]
    BY <1>4 DEF Embed, InsertParent, InsertChild, Call, Statement, GoOn, Goto
  <2>2. {"insertParent", "insertChild", "commit"} \subseteq Places
    BY DEF Places
  <2> QED
    BY <1>1, <1>2, <2>1, <2>2
<1>5. CASE Commit(j)
  BY <1>1, <1>2, <1>5 DEF Commit, CommitTx
<1> QED
  BY <1>3, <1>4, <1>5 DEF IngestRun

(* Every step keeps the invariant, if refreshes have one worker. *)
LEMMA MergeStep ==
    ASSUME IsFiniteSet(Jobs), MaxWorkers["persona_refresh"] = 1
    PROVE  MergeInv /\ [MemoryNext]_vars => MergeInv'
<1> SUFFICES ASSUME MergeInv, [MemoryNext]_vars PROVE MergeInv'
  OBVIOUS
<1>1. pc \in [Jobs -> Places] /\ OneRefresh
  BY DEF MergeInv, DocumentTypes
<1>2. ASSUME NEW j \in Jobs, Ingest(j) PROVE MergeInv'
  <2>1. /\ KindOf[j] = "ingest" /\ UNCHANGED personaVars
        /\ \E w \in Places : pc' = [pc EXCEPT ![j] = w]
    BY <1>1, <1>2, IngestMoves DEF Ingest
  <2>2. pc' \in [Jobs -> Places] /\ \A i \in PersonaJobs : pc'[i] = pc[i]
    BY <1>1, <2>1 DEF PersonaJobs
  <2>3. OneRefresh'
    BY <1>1, <2>2 DEF OneRefresh, PersonaJobs
  <2> QED
    BY <2>1, <2>2, <2>3, OthersKeepMerge
<1>3. ASSUME NEW j \in Jobs, Refresh(j) PROVE MergeInv'
  BY <1>3, RefreshKeepsMerge DEF Refresh
<1>4. ASSUME NEW j \in Jobs, MemoryQueue(j) PROVE MergeInv'
  <2>1. OneRefresh'
    BY <1>4, FetchKeepsOneRefresh
  <2> QED
    BY <1>1, <1>4, <2>1, QueueMoves, OthersKeepMerge DEF PersonaJobs
<1>5. ASSUME NEW j \in Jobs, MemoryDeadline(j) PROVE MergeInv'
  <2>1. pc' = pc
    BY <1>5 DEF MemoryDeadline, DeadlinePasses
  <2>2. OneRefresh'
    BY <1>1, <2>1 DEF OneRefresh, PersonaJobs
  <2> QED
    BY <1>1, <1>5, <2>1, <2>2, QueueMoves, OthersKeepMerge DEF PersonaJobs
<1>6. CASE MemoryCrash
  <2>1. \A i \in Jobs : pc'[i] = "none"
    BY <1>6 DEF MemoryCrash, ProcessDies
  <2>2. OneRefresh' /\ \A i \in PersonaJobs : Merging(i)'
    BY <2>1 DEF OneRefresh, Merging, PersonaJobs
  <2>3. DocumentTypes' /\ HistoryIsComplete' /\ NoMergeIsLost'
    BY <1>6 DEF MergeInv, DocumentTypes, HistoryIsComplete, NoMergeIsLost, documentVars,
                MemoryCrash, ProcessDies, PersonaCrash, Places
  <2> QED
    BY <2>2, <2>3 DEF MergeInv, PersonaJobs
<1>7. CASE UNCHANGED vars
  <2>1. pc' = pc /\ UNCHANGED personaVars
    BY <1>7 DEF vars, riverVars
  <2>2. OneRefresh'
    BY <1>1, <2>1 DEF OneRefresh, PersonaJobs
  <2> QED
    BY <1>1, <2>1, <2>2, OthersKeepMerge
<1> QED
  BY <1>2, <1>3, <1>4, <1>5, <1>6, <1>7 DEF MemoryNext, Advance

(* With one worker, the history of the document has no gap. *)
THEOREM HistoryHasNoGap ==
    ASSUME IsFiniteSet(Jobs), MaxWorkers["persona_refresh"] = 1
    PROVE  MemorySpec => []HistoryIsComplete
<1>1. MergeInv /\ [MemoryNext]_vars => MergeInv'
  BY MergeStep
<1>2. MergeInv => HistoryIsComplete
  BY DEF MergeInv
<1> QED
  BY <1>1, <1>2, MergeInit, PTL DEF MemorySpec

(* With one worker, every version is merged from the one it replaces. *)
THEOREM EveryMergeSurvives ==
    ASSUME IsFiniteSet(Jobs), MaxWorkers["persona_refresh"] = 1
    PROVE  MemorySpec => []NoMergeIsLost
<1>1. MergeInv /\ [MemoryNext]_vars => MergeInv'
  BY MergeStep
<1>2. MergeInv => NoMergeIsLost
  BY DEF MergeInv
<1> QED
  BY <1>1, <1>2, MergeInit, PTL DEF MemorySpec
=============================================================================
