----------------------------- MODULE UserMemory -----------------------------
(***************************************************************************)
(* The ingest and the persona worker on the memories of one user, each in  *)
(* its queue of the same process.                                          *)
(***************************************************************************)
EXTENDS MemoryIngest, Persona

vars == <<riverVars, memoryVars, ingestVars, personaVars>>

ASSUME UserMemoryAssumption == \A j \in Jobs : KindOf[j] \in {"ingest", "persona"}

MemoryNames ==
    [job : IngestJobs, attempt : 1..MaxAttempts, layer : 1..Layers, nth : Nat \ {0}]

Places == {"none", "start", "extract", "embed", "insertParent", "insertChild", "commit",
           "readPersona", "chat", "readVersion", "upsert", "appendHistory",
           "commitPersona"} \cup Returns

MemoryTypeOK ==
    /\ RiverTypeOK
    /\ pc \in [Jobs -> Places]
    /\ parents \subseteq MemoryNames
    /\ children \subseteq MemoryNames
    /\ layer \in [Jobs -> 1..Layers]
    /\ todo \in [Jobs -> Nat]
    /\ tx \in [Jobs -> SUBSET {"parent", "child"}]
    /\ \A j \in Jobs : \A o \in owed[j] :
          /\ o.layer \in 1..Layers /\ o.nth \in Nat \ {0}
          /\ o.blank \in BOOLEAN /\ o.flat \in BOOLEAN
    /\ cutOff \subseteq IngestJobs
    /\ base \in [Jobs -> Nat]
    /\ previous \in [Jobs -> Nat]
    /\ draft \in [Jobs -> SUBSET {"document", "history"}]
    /\ doc \in Nat
    /\ history \in Seq([prev : Nat, next : Nat, base : Nat])

MemoryInit ==
    /\ RiverInit
    /\ parents = {} /\ children = {}
    /\ IngestInit
    /\ PersonaInit

Ingest(j) == IngestRun(j) /\ UNCHANGED personaVars
Refresh(j) == PersonaRun(j) /\ UNCHANGED ingestVars

MemoryQueue(j) ==
    /\ FetchJob(j) \/ CloseAttempt(j) \/ RescueJob(j)
    /\ UNCHANGED <<memoryVars, ingestVars, personaVars>>

(* A job is fetched, or its handler takes a step, or returns, or is rescued. *)
Advance(j) == Ingest(j) \/ Refresh(j) \/ MemoryQueue(j)

MemoryDeadline(j) ==
    /\ DeadlinePasses(j)
    /\ UNCHANGED <<memoryVars, ingestVars, personaVars>>

MemoryCrash ==
    /\ ProcessDies
    /\ IngestCrash
    /\ PersonaCrash
    /\ UNCHANGED memoryVars

MemoryNext ==
    \/ \E j \in Jobs : Advance(j) \/ MemoryDeadline(j)
    \/ MemoryCrash

MemorySpec == MemoryInit /\ [][MemoryNext]_vars

(* A call ends with its handler's timeout, and River polls: as long as any *)
(* job can advance, some job does.                                         *)
MemoryFairSpec == MemorySpec /\ WF_vars(\E j \in Jobs : Advance(j))

-----------------------------------------------------------------------------
(* Every topic is done with and every refresh ends, although every call    *)
(* may fail, the loops of the ingest worker skip what fails, and no        *)
(* deadline has to pass.                                                   *)
EveryMemoryJobFinishes == <>(\A j \in Jobs : jobState[j] \in Final)
=============================================================================
