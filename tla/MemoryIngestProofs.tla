------------------------- MODULE MemoryIngestProofs -------------------------
(***************************************************************************)
(* For any jobs, replies and faults the ingest worker loses no row its     *)
(* models listed in a flat array, but for the blank ones it passes over,   *)
(* and stores a topic's memories once.                                     *)
(***************************************************************************)
EXTENDS UserMemoryProofs, WellFoundedInduction

-----------------------------------------------------------------------------
(* What the parser makes of a reply. *)

(* A set of numbers that is not empty has a smallest one. *)
LEMMA SmallestOf ==
    ASSUME NEW S \in SUBSET Nat, S # {}
    PROVE  \E n \in S : \A m \in S : n <= m
<1> DEFINE R == {ss \in Nat \X Nat : ss[1] < ss[2]}
<1>1. R = OpToRel(<, Nat)
  BY DEF OpToRel
<1>2. IsWellFoundedOn(R, Nat)
  BY <1>1, NatLessThanWellFounded
<1>3. \A a, b \in Nat : <<a, b>> \in R <=> a < b
  OBVIOUS
<1> HIDE DEF R
<1>4. PICK n \in S : \A m \in S : ~ (<<m, n>> \in R)
  <2>1. S \subseteq Nat
    OBVIOUS
  <2>2. \E n \in S : \A m \in S : ~ (<<m, n>> \in R)
    BY <1>2, <2>1, WFMin
  <2> QED
    BY <2>2
<1>5. ASSUME NEW m \in S PROVE n <= m
  <2>1. m \in Nat /\ n \in Nat /\ ~(m < n)
    BY <1>3, <1>4
  <2> QED
    BY <2>1
<1> QED
  BY <1>5

(* If the regular expression matches at all, it has a first match.         *)
LEMMA FirstArrayIsOne ==
    ASSUME NEW reply \in Seq(Tokens), Arrays(reply) # {}
    PROVE  /\ FirstArray(reply) \in Arrays(reply)
           /\ \A b \in Arrays(reply) : FirstArray(reply)[1] <= b[1]
<1> DEFINE S == {a[1] : a \in Arrays(reply)}
<1>1. \A a \in Arrays(reply) : a[1] \in Nat
  BY DEF Arrays
<1>2. S \in SUBSET Nat /\ S # {}
  BY <1>1
<1>3. PICK n \in S : \A m \in S : n <= m
  BY <1>2, SmallestOf
<1>4. PICK a \in Arrays(reply) : n = a[1]
  BY <1>3
<1>5. \A b \in Arrays(reply) : a[1] <= b[1]
  BY <1>3, <1>4
<1> QED
  BY <1>4, <1>5 DEF FirstArray

(* The number of a token's occurrences is a number. *)
LEMMA CountType ==
    ASSUME NEW reply, NEW from \in Nat, NEW to \in Nat, NEW token
    PROVE  Count(reply, from, to, token) \in Nat
<1>1. IsFiniteSet(from..to)
  BY FS_Interval
<1>2. IsFiniteSet({i \in from..to : reply[i] = token})
  BY <1>1, FS_Subset
<1> QED
  BY <1>2, FS_CardinalityType DEF Count

(* The parser returns a list, whatever it is given. *)
LEMMA ParseType ==
    ASSUME NEW reply \in Seq(Tokens)
    PROVE  ParseArrayReply(reply) \in Nat
<1>1. CASE Arrays(reply) = {} \/ ~Decodes(reply)
  BY <1>1 DEF ParseArrayReply
<1>2. CASE Arrays(reply) # {} /\ Decodes(reply)
  <2>1. FirstArray(reply) \in Arrays(reply)
    BY <1>2, FirstArrayIsOne
  <2>2. FirstArray(reply)[1] \in Nat /\ FirstArray(reply)[2] \in Nat
    BY <2>1 DEF Arrays
  <2>3. Count(reply, FirstArray(reply)[1], FirstArray(reply)[2], "memory") \in Nat
    BY <2>2, CountType
  <2> QED
    BY <1>2, <2>3 DEF ParseArrayReply
<1> QED
  BY <1>1, <1>2

(* The parser reads every memory of a flat reply. *)
LEMMA FlatIsRead ==
    ASSUME NEW reply \in Seq(Tokens), Flat(reply)
    PROVE  Listed(reply, "memory") = 1..ParseArrayReply(reply)
<1>1. PICK from, to \in DOMAIN reply :
          /\ from < to /\ reply[from] = "[" /\ reply[to] = "]"
          /\ \A i \in from+1..to-1 : reply[i] \in Objects
          /\ \A i \in (DOMAIN reply) \ (from..to) : reply[i] \notin Objects \cup {"[", "]"}
  BY DEF Flat
<1>2. DOMAIN reply = 1..Len(reply) /\ Len(reply) \in Nat
  OBVIOUS
<1>3. \A i \in DOMAIN reply : reply[i] = "[" => i = from
  BY <1>1, <1>2 DEF Objects
<1>4. \A i \in DOMAIN reply : reply[i] = "]" => i = to
  BY <1>1, <1>2 DEF Objects
<1>5. <<from, to>> \in Arrays(reply)
  BY <1>1, <1>2 DEF Arrays, Objects
<1>6. \A a \in Arrays(reply) : a = <<from, to>>
  BY <1>3, <1>4 DEF Arrays
<1>7. FirstArray(reply) = <<from, to>>
  BY <1>5, <1>6, FirstArrayIsOne
<1>8. Decodes(reply)
  BY <1>1, <1>7 DEF Decodes
<1>9. {i \in 1..Len(reply) : reply[i] = "memory"} = {i \in from..to : reply[i] = "memory"}
  BY <1>1, <1>2 DEF Objects
<1> QED
  <2>1. ParseArrayReply(reply) = Count(reply, from, to, "memory")
    BY <1>5, <1>7, <1>8 DEF ParseArrayReply
  <2> QED
    BY <1>9, <2>1 DEF Listed, Count

-----------------------------------------------------------------------------
(* The inductive invariant. *)

Listings ==
    [layer : 1..Layers, nth : Nat \ {0}, blank : BOOLEAN, flat : BOOLEAN]

IngestTypes ==
    /\ pc \in [Jobs -> Places]
    /\ jobState \in [Jobs -> Waiting \cup {"running"} \cup Final]
    /\ attempt \in [Jobs -> Nat]
    /\ layer \in [Jobs -> 1..Layers]
    /\ todo \in [Jobs -> Nat]
    /\ owed \in [Jobs -> SUBSET Listings]

Storing == {"embed", "insertParent", "insertChild", "commit"}

(* A handler runs for a running job, and a running job without one has     *)
(* lost it in a crash.                                                     *)
Handled(j) ==
    /\ pc[j] # "none" => jobState[j] = "running"
    /\ jobState[j] = "running" /\ pc[j] = "none" => j \in cutOff

(* What is owed from flat replies, blank rows aside, is of the layer at    *)
(* work and still to be done there; between two layers, and at the end,    *)
(* nothing is.                                                             *)
Owing(j) ==
    /\ pc[j] \in Storing =>
          \A o \in owed[j] : o.flat => o.blank \/ (o.layer = layer[j] /\ o.nth <= todo[j])
    /\ pc[j] \in {"extract", "returnNil"} \/ jobState[j] = "completed" =>
          \A o \in owed[j] : o.flat => o.blank

(* A job has stored something only in its latest attempt, and then either  *)
(* is at it or has completed.                                              *)
StoredLast(j) ==
    j \notin cutOff =>
        \A m \in Stored(j) :
            /\ m.attempt = attempt[j]
            /\ pc[j] \in Storing \cup {"extract", "returnNil"} \/ jobState[j] = "completed"

TopicInv(j) == Handled(j) /\ Owing(j) /\ StoredLast(j)

IngestInv == IngestTypes /\ \A j \in IngestJobs : TopicInv(j)

(* Nothing is stored or owed at first. *)
LEMMA AccountsStartEmpty == MemoryInit => IngestInv
<1> SUFFICES ASSUME MemoryInit PROVE IngestInv
  OBVIOUS
<1>1. IngestTypes
  BY IngestAssumption DEF MemoryInit, RiverInit, IngestInit, IngestTypes, Places, Waiting
<1>2. ASSUME NEW j \in IngestJobs PROVE TopicInv(j)
  BY DEF MemoryInit, RiverInit, IngestInit, IngestJobs, TopicInv, Handled, Owing, StoredLast,
         Stored, Storing
<1> QED
  BY <1>1, <1>2 DEF IngestInv

(* A job keeps its part of the invariant when a step changes nothing of it *)
(* and stores nothing for it.                                              *)
LEMMA TopicUntouched ==
    ASSUME NEW k \in IngestJobs, TopicInv(k),
           pc'[k] = pc[k], jobState'[k] = jobState[k], attempt'[k] = attempt[k],
           layer'[k] = layer[k], todo'[k] = todo[k], owed'[k] = owed[k],
           \A m \in children' : m.job = k => m \in children,
           cutOff \subseteq cutOff'
    PROVE  TopicInv(k)'
<1>1. Handled(k)' /\ Owing(k)'
  BY DEF TopicInv, Handled, Owing
<1>2. StoredLast(k)'
  BY DEF TopicInv, StoredLast, Stored
<1> QED
  BY <1>1, <1>2 DEF TopicInv

(* What a handler's step has to respect. *)
LEMMA OwnTopic ==
    ASSUME IngestInv, NEW j \in IngestJobs, pc[j] # "none",
           UNCHANGED <<jobState, attempt, cutOff>>,
           NEW w \in Places \ {"none"}, pc' = [pc EXCEPT ![j] = w],
           NEW l \in 1..Layers, layer' = [layer EXCEPT ![j] = l],
           NEW t \in Nat, todo' = [todo EXCEPT ![j] = t],
           NEW e \in SUBSET Listings, owed' = [owed EXCEPT ![j] = e],
           \A m \in children' : m \in children \/ (m.job = j /\ m.attempt = attempt[j]),
           \/ w \in Storing \cup {"extract", "returnNil"}
           \/ pc[j] = "start" /\ UNCHANGED children,
           Owing(j)'
    PROVE  IngestInv'
<1>1. IngestTypes /\ TopicInv(j) /\ j \in Jobs
  BY DEF IngestInv, IngestJobs
<1>2. IngestTypes'
  BY <1>1 DEF IngestTypes
<1>3. pc'[j] = w /\ jobState'[j] = "running" /\ attempt'[j] = attempt[j]
  BY <1>1 DEF IngestTypes, TopicInv, Handled
<1>4. Handled(j)'
  BY <1>3 DEF Handled
<1>5. StoredLast(j)'
  <2>1. CASE w \in Storing \cup {"extract", "returnNil"}
    BY <1>1, <1>3, <2>1 DEF TopicInv, StoredLast, Stored
  <2>2. CASE pc[j] = "start" /\ UNCHANGED children
    <3>1. j \notin cutOff => Stored(j) = {}
      BY <1>1, <2>2 DEF TopicInv, Handled, StoredLast, Storing
    <3> QED
      BY <2>2, <3>1 DEF StoredLast, Stored
  <2> QED
    BY <2>1, <2>2
<1>6. ASSUME NEW k \in IngestJobs, k # j PROVE TopicInv(k)'
  <2>1. k \in Jobs /\ TopicInv(k)
    BY DEF IngestInv, IngestJobs
  <2> QED
    BY <1>1, <1>6, <2>1, TopicUntouched DEF IngestTypes
<1>7. \A k \in IngestJobs : TopicInv(k)'
  BY <1>4, <1>5, <1>6 DEF TopicInv
<1> QED
  BY <1>2, <1>7 DEF IngestInv, IngestJobs

(* After a layer comes the next one or the end. *)
LEMMA NextLayerMoves ==
    ASSUME IngestInv, NEW j \in IngestJobs, NextLayer(j)
    PROVE  /\ \E w \in {"extract", "returnNil"} : pc' = [pc EXCEPT ![j] = w]
           /\ \E l \in 1..Layers : layer' = [layer EXCEPT ![j] = l]
<1>1. layer \in [Jobs -> 1..Layers] /\ layer[j] \in 1..Layers /\ Layers \in Nat
  BY IngestAssumption DEF IngestInv, IngestTypes, IngestJobs
<1>2. CASE layer[j] < Layers
  <2>1. layer[j] + 1 \in 1..Layers
    BY <1>1, <1>2
  <2> QED
    BY <1>2, <2>1 DEF NextLayer, Goto
<1>3. CASE ~(layer[j] < Layers)
  <2>1. layer = [layer EXCEPT ![j] = layer[j]]
    BY <1>1
  <2> QED
    BY <1>1, <1>3, <2>1 DEF NextLayer, Goto
<1> QED
  BY <1>2, <1>3

(* What a step of a job leaves alone. *)
LEMMA SameForTopic ==
    ASSUME IngestInv, NEW j \in IngestJobs
    PROVE  /\ j \in Jobs /\ IngestTypes /\ TopicInv(j)
           /\ layer[j] \in 1..Layers /\ layer = [layer EXCEPT ![j] = layer[j]]
           /\ todo[j] \in Nat /\ todo = [todo EXCEPT ![j] = todo[j]]
           /\ owed[j] \in SUBSET Listings /\ owed = [owed EXCEPT ![j] = owed[j]]
BY DEF IngestInv, IngestTypes, IngestJobs

(* The gatekeeper starts the attempt's account anew. *)
LEMMA GatekeeperKeepsInv ==
    ASSUME IngestInv, NEW j \in IngestJobs, Gatekeeper(j)
    PROVE  IngestInv'
<1>1. PICK w \in {"extract", "returnNil", "returnErr"} : pc' = [pc EXCEPT ![j] = w]
  BY DEF Gatekeeper, Call, Goto
<1>2. /\ UNCHANGED <<jobState, attempt, cutOff, children>> /\ pc[j] = "start"
      /\ layer' = [layer EXCEPT ![j] = 1] /\ todo' = [todo EXCEPT ![j] = todo[j]]
      /\ owed' = [owed EXCEPT ![j] = {}]
  BY SameForTopic DEF Gatekeeper, At, Unmoved, memoryVars
<1>3. 1 \in 1..Layers /\ w \in Places \ {"none"} /\ {} \in SUBSET Listings
  BY IngestAssumption DEF Places, Returns
<1>4. Owing(j)'
  BY <1>2, SameForTopic DEF Owing, IngestTypes
<1> QED
  BY <1>1, <1>2, <1>3, <1>4, SameForTopic, OwnTopic

(* An extraction adds what the reply lists to the account, and sets out to *)
(* store just that if the reply is flat.                                   *)
LEMMA ExtractKeepsInv ==
    ASSUME IngestInv, NEW j \in IngestJobs, Extract(j) \/ ExtractFails(j)
    PROVE  IngestInv'
<1>1. pc[j] = "extract" /\ UNCHANGED <<jobState, attempt, cutOff, children>>
  BY DEF Extract, ExtractFails, At, Unmoved, memoryVars
<1>2. {"embed", "extract", "returnNil"} \subseteq Places \ {"none"}
  BY DEF Places, Returns
<1>3. \A o \in owed[j] : o.flat => o.blank
  BY <1>1, SameForTopic DEF TopicInv, Owing
<1>4. CASE ExtractFails(j)
  <2>1. /\ todo' = [todo EXCEPT ![j] = todo[j]] /\ owed' = [owed EXCEPT ![j] = owed[j]]
        /\ NextLayer(j)
    BY <1>4, SameForTopic DEF ExtractFails
  <2>2. PICK w \in {"extract", "returnNil"} : pc' = [pc EXCEPT ![j] = w]
    BY <2>1, NextLayerMoves
  <2>3. PICK l \in 1..Layers : layer' = [layer EXCEPT ![j] = l]
    BY <2>1, NextLayerMoves
  <2>4. Owing(j)'
    BY <1>3, <2>1, <2>2, SameForTopic DEF Owing, IngestTypes, Storing
  <2> QED
    BY <1>1, <1>2, <2>1, <2>2, <2>3, <2>4, SameForTopic, OwnTopic
<1>5. CASE Extract(j)
  <2>1. PICK reply \in Replies[layer[j]] :
            /\ owed' = [owed EXCEPT ![j] = @ \cup Listing(reply, layer[j])]
            /\ todo' = [todo EXCEPT ![j] = ParseArrayReply(reply)]
            /\ IF ParseArrayReply(reply) > 0
               THEN Goto(j, "embed") /\ UNCHANGED layer
               ELSE NextLayer(j)
    BY <1>5 DEF Extract
  <2> DEFINE new == Listing(reply, layer[j])
             all == owed[j] \cup new
  <2>2. reply \in Seq(Tokens)
    BY SameForTopic, IngestAssumption
  <2>3. ParseArrayReply(reply) \in Nat
    BY <2>2, ParseType
  <2>4. ASSUME NEW o \in new
        PROVE  \E sort \in Objects :
                  o \in [layer : {layer[j]}, nth : Listed(reply, sort),
                         blank : {sort = "blank"}, flat : {Flat(reply)}]
    BY <2>4 DEF Listing
  <2>5. new \in SUBSET Listings
    <3> SUFFICES ASSUME NEW o \in new PROVE o \in Listings
      OBVIOUS
    <3>1. PICK sort \in Objects :
             o \in [layer : {layer[j]}, nth : Listed(reply, sort),
                    blank : {sort = "blank"}, flat : {Flat(reply)}]
      BY <2>4
    <3>2. Flat(reply) \in BOOLEAN /\ (sort = "blank") \in BOOLEAN
      BY DEF Flat
    <3>3. Len(reply) \in Nat /\ Count(reply, 1, Len(reply), sort) \in Nat
      BY <2>2, CountType
    <3>4. Listed(reply, sort) \subseteq Nat \ {0}
      BY <3>3 DEF Listed
    <3> QED
      BY <3>1, <3>2, <3>4, SameForTopic DEF Listings
  <2>6. \A o \in new :
            o.flat => o.blank \/ (o.layer = layer[j] /\ o.nth <= ParseArrayReply(reply))
    <3> SUFFICES ASSUME NEW o \in new, o.flat, ~o.blank
                 PROVE  o.layer = layer[j] /\ o.nth <= ParseArrayReply(reply)
      OBVIOUS
    <3>1. PICK sort \in Objects :
             o \in [layer : {layer[j]}, nth : Listed(reply, sort),
                    blank : {sort = "blank"}, flat : {Flat(reply)}]
      BY <2>4
    <3>2. sort = "memory" /\ Flat(reply) /\ o.layer = layer[j]
      BY <3>1 DEF Objects
    <3>3. o.nth \in 1..ParseArrayReply(reply)
      BY <2>2, <3>1, <3>2, FlatIsRead
    <3> QED
      BY <2>3, <3>2, <3>3
  <2>7. ParseArrayReply(reply) = 0 => \A o \in new : o.flat => o.blank
    <3>1. \A o \in new : o.nth \in Nat \ {0}
      BY <2>5 DEF Listings
    <3> QED
      BY <2>6, <3>1
  <2>8. owed' = [owed EXCEPT ![j] = all] /\ all \in SUBSET Listings
    BY <2>1, <2>5, SameForTopic
  <2>9. owed'[j] = all /\ todo'[j] = ParseArrayReply(reply)
    BY <2>1, <2>8, SameForTopic DEF IngestTypes
  <2>10. CASE ParseArrayReply(reply) > 0
    <3>1. pc' = [pc EXCEPT ![j] = "embed"] /\ layer' = [layer EXCEPT ![j] = layer[j]]
      BY <2>1, <2>10, SameForTopic DEF Goto
    <3>2. pc'[j] = "embed" /\ layer'[j] = layer[j] /\ jobState'[j] = "running"
      BY <1>1, <3>1, SameForTopic DEF IngestTypes, TopicInv, Handled
    <3>3. Owing(j)'
      BY <1>3, <2>6, <2>9, <3>2 DEF Owing
    <3>4. "embed" \in Storing
      BY DEF Storing
    <3> QED
      BY ZenonT(40), <1>1, <1>2, <2>1, <2>3, <2>8, <3>1, <3>3, <3>4, SameForTopic, OwnTopic
  <2>11. CASE ~(ParseArrayReply(reply) > 0)
    <3>1. NextLayer(j) /\ ParseArrayReply(reply) = 0
      BY <2>1, <2>3, <2>11
    <3>2. PICK w \in {"extract", "returnNil"} : pc' = [pc EXCEPT ![j] = w]
      BY <3>1, NextLayerMoves
    <3>3. PICK l \in 1..Layers : layer' = [layer EXCEPT ![j] = l]
      BY <3>1, NextLayerMoves
    <3>4. Owing(j)'
      BY <1>3, <2>7, <2>9, <3>1, <3>2, SameForTopic DEF Owing, IngestTypes, Storing
    <3> QED
      BY ZenonT(40), <1>1, <1>2, <2>1, <2>3, <2>8, <3>2, <3>3, <3>4, SameForTopic, OwnTopic
  <2> QED
    BY <2>10, <2>11
<1> QED
  BY <1>4, <1>5

(* The loop settles the memory it is done with, the last one too. *)
LEMMA DoneKeepsInv ==
    ASSUME IngestInv, NEW j \in IngestJobs, pc[j] \in Storing, Done(j),
           UNCHANGED <<jobState, attempt, cutOff>>,
           \A m \in children' : m \in children \/ (m.job = j /\ m.attempt = attempt[j])
    PROVE  IngestInv'
<1> DEFINE left == {o \in owed[j] : o.blank \/ o.layer # layer[j] \/ o.nth # todo[j]}
<1>1. owed' = [owed EXCEPT ![j] = left] /\ left \in SUBSET Listings
  BY SameForTopic DEF Done, Settle
<1>2. {"embed", "extract", "returnNil"} \subseteq Places \ {"none"} /\ pc[j] # "none"
  BY DEF Places, Returns, Storing
<1>3. \A o \in owed[j] : o.flat => o.blank \/ (o.layer = layer[j] /\ o.nth <= todo[j])
  BY SameForTopic DEF TopicInv, Owing
<1>4. \A o \in owed[j] : o.nth \in Nat \ {0}
  BY SameForTopic DEF Listings
<1>5. todo[j] \in Nat
  BY SameForTopic
<1>6. CASE todo[j] > 1
  <2>1. /\ pc' = [pc EXCEPT ![j] = "embed"] /\ todo' = [todo EXCEPT ![j] = todo[j] - 1]
        /\ layer' = [layer EXCEPT ![j] = layer[j]] /\ todo[j] - 1 \in Nat
    BY <1>5, <1>6, SameForTopic DEF Done, NextMemory, Goto
  <2>2. /\ pc'[j] = "embed" /\ todo'[j] = todo[j] - 1 /\ layer'[j] = layer[j]
        /\ owed'[j] = left /\ jobState'[j] = "running"
    BY <1>1, <1>2, <2>1, SameForTopic DEF IngestTypes, TopicInv, Handled
  <2>3. \A o \in left : o.flat => o.blank \/ (o.layer = layer[j] /\ o.nth <= todo[j] - 1)
    BY <1>3, <1>4, <1>5
  <2>4. Owing(j)'
    BY <2>2, <2>3 DEF Owing
  <2>5. "embed" \in Storing
    BY DEF Storing
  <2> HIDE DEF left
  <2> QED
    BY <1>1, <1>2, <2>1, <2>4, <2>5, SameForTopic, OwnTopic
<1>7. CASE ~(todo[j] > 1)
  <2>1. NextLayer(j) /\ todo' = [todo EXCEPT ![j] = 0]
    BY <1>7 DEF Done, NextMemory
  <2>2. PICK w \in {"extract", "returnNil"} : pc' = [pc EXCEPT ![j] = w]
    BY <2>1, NextLayerMoves
  <2>3. PICK l \in 1..Layers : layer' = [layer EXCEPT ![j] = l]
    BY <2>1, NextLayerMoves
  <2>4. \A o \in left : o.flat => o.blank
    BY <1>3, <1>4, <1>5, <1>7
  <2>5. owed'[j] = left /\ pc'[j] = w
    BY <1>1, <2>2, SameForTopic DEF IngestTypes
  <2>6. Owing(j)'
    BY <2>4, <2>5 DEF Owing, Storing
  <2> HIDE DEF left
  <2> QED
    BY <1>1, <1>2, <2>1, <2>2, <2>3, <2>6, SameForTopic, OwnTopic
<1> QED
  BY <1>6, <1>7

(* A statement that went through owes what was owed before it. *)
LEMMA GoOnKeepsInv ==
    ASSUME IngestInv, NEW j \in IngestJobs, pc[j] \in Storing,
           NEW w \in Storing, NEW rows, GoOn(j, w, rows),
           UNCHANGED <<jobState, attempt, cutOff, children>>
    PROVE  IngestInv'
<1>1. /\ pc' = [pc EXCEPT ![j] = w] /\ layer' = [layer EXCEPT ![j] = layer[j]]
      /\ todo' = [todo EXCEPT ![j] = todo[j]] /\ owed' = [owed EXCEPT ![j] = owed[j]]
      /\ UNCHANGED <<layer, todo, owed>>
  BY SameForTopic DEF GoOn, Goto
<1>2. w \in Places \ {"none"} /\ pc[j] # "none"
  BY DEF Storing, Places
<1>3. pc'[j] = w /\ jobState'[j] = "running"
  BY <1>1, <1>2, SameForTopic DEF IngestTypes, TopicInv, Handled
<1>4. Owing(j)'
  BY <1>1, <1>3, SameForTopic DEF TopicInv, Owing, Storing
<1> QED
  BY <1>1, <1>2, <1>4, SameForTopic, OwnTopic

(* Every step of an ingest job keeps the invariant. *)
LEMMA IngestKeepsInv ==
    ASSUME IngestInv, NEW j \in Jobs, IngestRun(j)
    PROVE  IngestInv'
<1>1. j \in IngestJobs
  BY DEF IngestRun, Gatekeeper, Extract, ExtractFails, Embed, InsertParent, InsertChild,
         Commit, At, IngestJobs
<1>2. {"insertParent", "insertChild", "commit"} \subseteq Storing
  BY DEF Storing
<1>3. CASE Embed(j) \/ InsertParent(j) \/ InsertChild(j)
  <2>1. pc[j] \in Storing /\ UNCHANGED <<jobState, attempt, cutOff, children>>
    BY <1>3 DEF Embed, InsertParent, InsertChild, At, Storing, Unmoved, memoryVars
  <2>2. \/ \E w \in {"insertParent", "insertChild", "commit"} : \E rows : GoOn(j, w, rows)
        \/ Done(j)
    BY <1>3 DEF Embed, InsertParent, InsertChild, Call, Statement
  <2> QED
    BY <1>1, <1>2, <2>1, <2>2, GoOnKeepsInv, DoneKeepsInv
<1>4. CASE Commit(j)
  <2>1. pc[j] \in Storing /\ UNCHANGED <<jobState, attempt, cutOff>> /\ Done(j)
    BY <1>4 DEF Commit, CommitTx, At, Storing, Unmoved
  <2>2. \A m \in children' : m \in children \/ m = Memory(j)
    BY <1>4 DEF Commit, CommitTx, Publish, memoryVars
  <2>3. Memory(j).job = j /\ Memory(j).attempt = attempt[j]
    BY DEF Memory
  <2> QED
    BY <1>1, <2>1, <2>2, <2>3, DoneKeepsInv
<1> QED
  BY <1>1, <1>3, <1>4, GatekeeperKeepsInv, ExtractKeepsInv DEF IngestRun

(* River's part of a step: an attempt starts with nothing stored, unless a *)
(* crash has cut an earlier one off.                                       *)
LEMMA QueueKeepsIngest ==
    ASSUME IngestInv, NEW j \in Jobs, MemoryQueue(j)
    PROVE  IngestInv'
<1>1. IngestTypes /\ UNCHANGED <<memoryVars, ingestVars>>
  BY DEF IngestInv, MemoryQueue
<1>2. PICK s \in Waiting \cup {"running"} \cup Final, a \in Nat, w \in {"start", "none"} :
          /\ jobState' = [jobState EXCEPT ![j] = s]
          /\ attempt' = [attempt EXCEPT ![j] = a]
          /\ pc' = [pc EXCEPT ![j] = w]
          /\ \/ w = "start" /\ s = "running" /\ jobState[j] \in Waiting
             \/ /\ w = "none" /\ s # "running" /\ a = attempt[j]
                /\ s = "completed" <=> pc[j] = "returnNil"
                /\ pc[j] \in Returns \/ (pc[j] = "none" /\ jobState[j] = "running")
  <2>1. CASE FetchJob(j)
    <3>1. attempt[j] + 1 \in Nat
      BY <1>1 DEF IngestTypes
    <3> QED
      BY <2>1, <3>1 DEF FetchJob, Goto
  <2>2. CASE CloseAttempt(j)
    <3>1. /\ OutcomeOf(j) \in {"completed", "cancelled", "retryable", "discarded"}
          /\ OutcomeOf(j) = "completed" <=> pc[j] = "returnNil"
      BY <2>2 DEF OutcomeOf, AfterFailure
    <3>2. attempt' = [attempt EXCEPT ![j] = attempt[j]] /\ attempt[j] \in Nat
      BY <1>1, <2>2 DEF CloseAttempt, IngestTypes
    <3> QED
      BY <2>2, <3>1, <3>2 DEF CloseAttempt, Goto, Waiting, Final, Returns
  <2>3. CASE RescueJob(j)
    <3>1. AfterFailure(j) \in {"retryable", "discarded"}
      BY DEF AfterFailure
    <3>2. /\ attempt' = [attempt EXCEPT ![j] = attempt[j]] /\ attempt[j] \in Nat
          /\ pc' = [pc EXCEPT ![j] = "none"]
      BY <1>1, <2>3 DEF RescueJob, IngestTypes
    <3> QED
      BY <2>3, <3>1, <3>2 DEF RescueJob, Waiting, Final
  <2> QED
    BY <2>1, <2>2, <2>3 DEF MemoryQueue
<1>3. IngestTypes'
  <2>1. pc' \in [Jobs -> Places]
    BY <1>1, <1>2 DEF IngestTypes, Places
  <2> QED
    BY <1>1, <1>2, <2>1 DEF IngestTypes, ingestVars
<1>4. ASSUME NEW k \in IngestJobs PROVE TopicInv(k)'
  <2>1. k \in Jobs /\ TopicInv(k)
    BY DEF IngestInv, IngestJobs
  <2>2. CASE k # j
    BY <1>1, <1>2, <2>1, <2>2, TopicUntouched DEF IngestTypes, memoryVars, ingestVars
  <2>3. CASE k = j
    <3>1. pc'[k] = w /\ jobState'[k] = s /\ attempt'[k] = a
      BY <1>1, <1>2, <2>1, <2>3 DEF IngestTypes
    <3>2. Handled(k)' /\ Owing(k)'
      BY <1>1, <1>2, <2>1, <2>3, <3>1
         DEF TopicInv, Handled, Owing, Storing, ingestVars, Waiting
    <3>3. StoredLast(k)'
      <4>1. ASSUME k \notin cutOff, w = "start" PROVE Stored(k) = {}
        BY <1>2, <2>1, <2>3, <4>1 DEF TopicInv, Handled, StoredLast, Storing, Waiting
      <4>2. ASSUME k \notin cutOff, w = "none", s # "completed" PROVE Stored(k) = {}
        BY <1>2, <2>1, <2>3, <4>2 DEF TopicInv, Handled, StoredLast, Storing, Returns
      <4> QED
        BY <1>1, <1>2, <2>1, <2>3, <3>1, <4>1, <4>2
           DEF TopicInv, StoredLast, Stored, memoryVars, ingestVars
    <3> QED
      BY <3>2, <3>3 DEF TopicInv
  <2> QED
    BY <2>2, <2>3
<1> QED
  BY <1>3, <1>4 DEF IngestInv, IngestJobs

(* A crash cuts off the attempts it finds, and forgets what they owed.     *)
LEMMA CrashKeepsIngest ==
    ASSUME IngestInv, MemoryCrash
    PROVE  IngestInv'
<1>1. /\ IngestTypes /\ UNCHANGED <<jobState, attempt, children>>
      /\ pc' = [i \in Jobs |-> "none"]
      /\ layer' = [i \in Jobs |-> 1] /\ todo' = [i \in Jobs |-> 0]
      /\ owed' = [i \in Jobs |-> IF pc[i] = "none" THEN owed[i] ELSE {}]
      /\ cutOff' = cutOff \cup {i \in IngestJobs : pc[i] # "none"}
  BY DEF IngestInv, MemoryCrash, ProcessDies, IngestCrash, memoryVars
<1>2. IngestTypes'
  BY <1>1, IngestAssumption DEF IngestTypes, Places
<1>3. ASSUME NEW k \in IngestJobs PROVE TopicInv(k)'
  <2>1. k \in Jobs /\ TopicInv(k)
    BY DEF IngestInv, IngestJobs
  <2>2. Handled(k)' /\ Owing(k)'
    BY <1>1, <2>1 DEF TopicInv, Handled, Owing, Storing
  <2>3. StoredLast(k)'
    BY <1>1, <2>1 DEF TopicInv, StoredLast, Stored, Storing
  <2> QED
    BY <2>2, <2>3 DEF TopicInv
<1> QED
  BY <1>2, <1>3 DEF IngestInv, IngestJobs

(* Every step of the system keeps the invariant. *)
LEMMA IngestStep == IngestInv /\ [MemoryNext]_vars => IngestInv'
<1> SUFFICES ASSUME IngestInv, [MemoryNext]_vars PROVE IngestInv'
  OBVIOUS
<1>1. ASSUME IngestTypes', UNCHANGED <<jobState, attempt, memoryVars, ingestVars>>,
             \A k \in IngestJobs : pc'[k] = pc[k]
      PROVE  IngestInv'
  <2>1. ASSUME NEW k \in IngestJobs PROVE TopicInv(k)'
    BY <1>1, TopicUntouched DEF IngestInv, memoryVars, ingestVars
  <2> QED
    BY <1>1, <2>1 DEF IngestInv, IngestJobs
<1>2. IngestTypes
  BY DEF IngestInv
<1>3. ASSUME NEW j \in Jobs, Ingest(j) PROVE IngestInv'
  BY <1>3, IngestKeepsInv DEF Ingest
<1>4. ASSUME NEW j \in Jobs, Refresh(j) PROVE IngestInv'
  <2>1. /\ KindOf[j] = "persona" /\ UNCHANGED memoryVars
        /\ \E w \in Places \ {"none"} : pc' = [pc EXCEPT ![j] = w]
    BY <1>2, <1>4, RefreshMoves DEF Refresh, IngestTypes
  <2>2. UNCHANGED <<jobState, attempt, ingestVars>>
    BY <1>4 DEF Refresh, PersonaRun, ReadMemories, ReadLatestPersona, Merge, ReadVersion,
       UpsertDocument, AppendHistory, InTx, CommitPersona, Unmoved
  <2>3. IngestTypes' /\ \A k \in IngestJobs : pc'[k] = pc[k]
    BY <1>2, <2>1, <2>2 DEF IngestTypes, IngestJobs, ingestVars
  <2> QED
    BY <1>1, <2>1, <2>2, <2>3
<1>5. ASSUME NEW j \in Jobs, MemoryDeadline(j) PROVE IngestInv'
  BY <1>1, <1>2, <1>5 DEF MemoryDeadline, DeadlinePasses, IngestTypes, ingestVars
<1>6. CASE UNCHANGED vars
  BY <1>1, <1>2, <1>6 DEF vars, riverVars, IngestTypes, ingestVars
<1> QED
  BY <1>3, <1>4, <1>5, <1>6, QueueKeepsIngest, CrashKeepsIngest DEF MemoryNext, Advance

(* Every reachable state satisfies the invariant. *)
THEOREM IngestInvariant == MemorySpec => []IngestInv
  BY AccountsStartEmpty, IngestStep, PTL DEF MemorySpec

(* worker.go:190-252, errors are logged and the pipeline goes on: whatever *)
(* failed, a job that completes has stored or logged every row its models  *)
(* listed in a flat array, but for the blank ones.                         *)
THEOREM FlatRepliesAreAccounted == MemorySpec => []Accounted
<1>1. IngestInv => Accounted
  BY DEF IngestInv, TopicInv, Owing, Accounted
<1> QED
  BY <1>1, IngestInvariant, PTL

(* A topic whose handler no crash has cut off is stored by one attempt     *)
(* only: the errors the worker swallows do not make River run it again.    *)
THEOREM TopicsAreStoredOnce == MemorySpec => []StoredOnce
<1>1. IngestInv => StoredOnce
  BY DEF IngestInv, TopicInv, StoredLast, StoredOnce
<1> QED
  BY <1>1, IngestInvariant, PTL
=============================================================================
