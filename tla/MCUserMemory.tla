---------------------------- MODULE MCUserMemory ----------------------------
(* Small instances of UserMemory. *)
EXTENDS UserMemory

CONSTANTS topic, persona1, persona2

MCKindOf == [j \in Jobs |-> IF j = topic THEN "ingest" ELSE "persona"]
QueueLimits == [q \in Queues |-> IF q = "memory_ingest" THEN 2 ELSE 1]
AllFaults == {"db", "ack", "deadline", "crash"}

Fenced == <<"prose", "[", "blank", "memory", "memory", "]", "prose">>
None == <<"[", "]">>
Tagged == <<"[", "memory", "[", "tag", "]", "]">>
Untagged == <<"[", "memory", "[", "]", "]">>
FencedThenNone == <<{Fenced}, {None}>>
TaggedOrNot == <<{Tagged, Untagged}>>
=============================================================================
