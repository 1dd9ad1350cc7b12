-------------------------- MODULE TextChunkerProofs --------------------------
(***************************************************************************)
(* The chunker neither loses nor misplaces anything, and its chunks stay   *)
(* below their bound, for every file and every cap.                        *)
(***************************************************************************)
EXTENDS TextChunker, SequenceTheorems, WellFoundedInduction, TLAPS

(* Every set of numbers that is not empty has a least one. *)
LEMMA LeastExists ==
    ASSUME NEW T, T \subseteq Nat, T # {}
    PROVE  \E x \in T : \A y \in T : x <= y
<1>1. PICK x \in T : \A y \in T : ~(<<y, x>> \in OpToRel(<, Nat))
  BY NatLessThanWellFounded, WFMin
<1>2. ASSUME NEW y \in T PROVE x <= y
  <2>1. x \in Nat /\ y \in Nat
    OBVIOUS
  <2>2. ~(y < x)
    BY <1>1, <2>1 DEF OpToRel
  <2> QED
    BY <2>1, <2>2
<1> QED
  BY <1>2

(* Min and Max of a set of places are places in it and enclose it. *)
LEMMA MinMax ==
    ASSUME NEW n \in Nat, NEW T, T \subseteq 1..n, T # {}
    PROVE  /\ Min(T) \in T /\ \A y \in T : Min(T) <= y
           /\ Max(T) \in T /\ \A y \in T : y <= Max(T)
<1> DEFINE M == {n - t : t \in T}
<1>1. PICK m \in M : \A y \in M : m <= y
  <2>1. PICK t \in T : TRUE
    OBVIOUS
  <2>2. n - t \in M
    OBVIOUS
  <2>3. M \subseteq Nat
    OBVIOUS
  <2> HIDE DEF M
  <2> QED
    BY <2>2, <2>3, LeastExists
<1>2. PICK x \in T : m = n - x
  BY <1>1
<1>3. ASSUME NEW y \in T PROVE x >= y
  <2>1. n - y \in M
    OBVIOUS
  <2>2. m <= n - y
    BY <2>1, <1>1
  <2> QED
    BY <1>2, <2>2
<1>4. Max(T) \in T /\ \A y \in T : Max(T) >= y
  BY <1>3, Zenon DEF Max
<1>5. \E z \in T : \A y \in T : z <= y
  <2>1. T \subseteq Nat
    OBVIOUS
  <2> QED
    BY <2>1, LeastExists
<1>6. Min(T) \in T /\ \A y \in T : Min(T) <= y
  BY <1>5, Zenon DEF Min
<1> QED
  BY <1>4, <1>6

(* TrimSpace leaves what lies between the first and the last byte that is  *)
(* not blank.                                                              *)
TrimsTo(bytes, from, to) ==
    /\ from \in 1..Len(bytes) /\ to \in 1..Len(bytes) /\ from <= to
    /\ \A i \in Inked(bytes) : from <= i /\ i <= to
    /\ Len(TrimSpace(bytes)) = to - from + 1
    /\ DOMAIN TrimSpace(bytes) = 1..to-from+1
    /\ \A i \in 1..to-from+1 : TrimSpace(bytes)[i] = bytes[from + i - 1]

(* It does so whenever there is such a byte. *)
LEMMA TrimmedPart ==
    ASSUME NEW S, NEW bytes \in Seq(S), Inked(bytes) # {}
    PROVE  /\ TrimSpace(bytes) \in Seq(S)
           /\ \E from, to \in Inked(bytes) : TrimsTo(bytes, from, to)
<1> DEFINE from == Min(Inked(bytes))
           to == Max(Inked(bytes))
           trimmed == SubSeq(bytes, from, to)
<1>1. Len(bytes) \in Nat /\ DOMAIN bytes = 1..Len(bytes)
  OBVIOUS
<1>2. Inked(bytes) \subseteq 1..Len(bytes)
  BY <1>1 DEF Inked
<1>3. /\ from \in Inked(bytes) /\ to \in Inked(bytes)
      /\ \A i \in Inked(bytes) : from <= i /\ i <= to
  BY <1>1, <1>2, MinMax
<1>4. TrimSpace(bytes) = trimmed
  BY DEF TrimSpace
<1> HIDE DEF from, to
<1>5. from \in 1..Len(bytes) /\ to \in 1..Len(bytes) /\ from <= to
  BY <1>2, <1>3
<1>6. \A i \in from..to : bytes[i] \in S
  BY <1>1, <1>5
<1>7. /\ trimmed \in Seq(S)
      /\ Len(trimmed) = to - from + 1
      /\ \A i \in 1..to-from+1 : trimmed[i] = bytes[from + i - 1]
  BY <1>5, <1>6, SubSeqProperties
<1>8. DOMAIN trimmed = 1..to-from+1
  BY <1>5, <1>7
<1> QED
  BY <1>3, <1>4, <1>5, <1>7, <1>8 DEF TrimsTo

(* TrimSpace drops only blanks, and what it leaves is a part of its input. *)
LEMMA Trimming ==
    ASSUME NEW S, S \subseteq Nat, NEW bytes \in Seq(S)
    PROVE  /\ TrimSpace(bytes) \in Seq(S)
           /\ Len(TrimSpace(bytes)) <= Len(bytes)
           /\ Range(TrimSpace(bytes)) \subseteq Range(bytes)
           /\ \A i \in Inked(bytes) : bytes[i] \in Range(TrimSpace(bytes))
<1>1. CASE Inked(bytes) = {}
  BY <1>1 DEF TrimSpace, Range
<1>2. CASE Inked(bytes) # {}
  <2>0. TrimSpace(bytes) \in Seq(S)
    BY <1>2, TrimmedPart
  <2>1. Len(bytes) \in Nat /\ DOMAIN bytes = 1..Len(bytes)
    OBVIOUS
  <2>2. PICK from, to \in Inked(bytes) : TrimsTo(bytes, from, to)
    BY <1>2, TrimmedPart
  <2> DEFINE trimmed == TrimSpace(bytes)
  <2> HIDE DEF trimmed
  <2>3. ASSUME NEW i \in 1..to-from+1 PROVE trimmed[i] \in Range(bytes)
    <3>1. from + i - 1 \in DOMAIN bytes
      BY <2>1, <2>2 DEF TrimsTo
    <3>2. trimmed[i] = bytes[from + i - 1]
      BY <2>2 DEF TrimsTo, trimmed
    <3> QED
      BY <3>1, <3>2 DEF Range
  <2>4. ASSUME NEW i \in Inked(bytes) PROVE bytes[i] \in Range(trimmed)
    <3>1. i \in from..to
      BY <2>1, <2>2 DEF Inked, TrimsTo
    <3>2. i - from + 1 \in 1..to-from+1
      BY <2>2, <3>1 DEF TrimsTo
    <3>3. trimmed[i - from + 1] = bytes[i]
      BY <2>2, <3>1, <3>2 DEF TrimsTo, trimmed
    <3> QED
      BY <2>2, <3>2, <3>3 DEF Range, TrimsTo, trimmed
  <2>5. Range(trimmed) \subseteq Range(bytes)
    BY <2>2, <2>3 DEF Range, TrimsTo, trimmed
  <2> QED
    BY <2>0, <2>1, <2>2, <2>4, <2>5 DEF TrimsTo, trimmed
<1> QED
  BY <1>1, <1>2

-----------------------------------------------------------------------------
(***************************************************************************)
(* What holds of the chunks and the bytes still in the buffer when the     *)
(* places below n have been read.                                          *)
(***************************************************************************)
Bound == 2 * (LineLimit - cap)

(* The scanner's limit leaves room for a line of twice the cap. *)
LEMMA Limits ==
    ASSUME cap \in Nat \ {0}
    PROVE  LineLimit \in Nat /\ LineLimit >= 2 * cap /\ Bound \in Nat /\ Bound >= 2 * cap
BY ChunkerAssumption DEF LineLimit, Bound

Placed(chunks, bytes, n) ==
    /\ chunks \in Seq(Seq(1..n-1))
    /\ bytes \in Seq(1..n-1)

Small(chunks, bytes) ==
    /\ \A k \in DOMAIN chunks : Len(chunks[k]) <= Bound
    /\ Len(bytes) <= Bound

InOrder(chunks, bytes) ==
    /\ \A k, l \in DOMAIN chunks :
          k < l => \A p \in Range(chunks[k]), q \in Range(chunks[l]) : p < q
    /\ \A k \in DOMAIN chunks :
          \A p \in Range(chunks[k]), q \in Range(bytes) : p < q

Apart(chunks, bytes, n) ==
    /\ \A k \in DOMAIN chunks : \A p, q \in Range(chunks[k]) :
          ~\E e \in p+1..q : EmptyLine(e)
    /\ \A p \in Range(bytes) : ~\E e \in p+1..n-1 : EmptyLine(e)

Complete(chunks, bytes, n) ==
    \A p \in 1..n-1 :
        Char(p) \in {"space", "newline"} \/ p \in Range(bytes)
            \/ \E k \in DOMAIN chunks : p \in Range(chunks[k])

Sound(chunks, bytes, n) ==
    /\ Placed(chunks, bytes, n) /\ Small(chunks, bytes) /\ InOrder(chunks, bytes)
    /\ Apart(chunks, bytes, n) /\ Complete(chunks, bytes, n)

(* The buffer may be replaced by a short enough one of the same bytes, but *)
(* for blanks.                                                             *)
LEMMA Rebuffer ==
    ASSUME NEW n \in Nat \ {0}, NEW chunks, NEW bytes, Sound(chunks, bytes, n),
           NEW other \in Seq(1..n-1), Len(other) <= Bound,
           Range(other) \subseteq Range(bytes),
           \A i \in Inked(bytes) : bytes[i] \in Range(other)
    PROVE  Sound(chunks, other, n)
<1>1. Placed(chunks, other, n) /\ Small(chunks, other)
  BY DEF Sound, Placed, Small
<1>2. InOrder(chunks, other)
  BY DEF Sound, InOrder
<1>3. Apart(chunks, other, n)
  BY DEF Sound, Apart
<1>4. ASSUME NEW p \in 1..n-1, Char(p) \notin {"space", "newline"}, p \in Range(bytes)
      PROVE  p \in Range(other)
  <2>1. PICK i \in DOMAIN bytes : p = bytes[i]
    BY <1>4 DEF Range
  <2> QED
    BY <1>4, <2>1 DEF Inked
<1>5. Complete(chunks, other, n)
  BY <1>4 DEF Sound, Complete
<1> QED
  BY <1>1, <1>2, <1>3, <1>5 DEF Sound

(* The places of a chunk that is appended, and those of the others. *)
LEMMA Appended ==
    ASSUME NEW S, NEW chunks \in Seq(S), NEW bytes \in S
    PROVE  /\ Append(chunks, bytes) \in Seq(S)
           /\ DOMAIN Append(chunks, bytes) = 1..Len(chunks)+1
           /\ DOMAIN chunks = 1..Len(chunks) /\ Len(chunks) \in Nat
           /\ \A k \in 1..Len(chunks) : Append(chunks, bytes)[k] = chunks[k]
           /\ Append(chunks, bytes)[Len(chunks)+1] = bytes
OBVIOUS

(* The bytes of the buffer may become a chunk. *)
LEMMA NewChunk ==
    ASSUME cap \in Nat \ {0}, NEW n \in Nat \ {0}, NEW chunks, NEW bytes,
           Sound(chunks, bytes, n)
    PROVE  Sound(Append(chunks, bytes), <<>>, n)
<1> DEFINE more == Append(chunks, bytes)
           last == Len(chunks) + 1
<1>1. chunks \in Seq(Seq(1..n-1)) /\ bytes \in Seq(1..n-1)
  BY DEF Sound, Placed
<1>2. /\ more \in Seq(Seq(1..n-1)) /\ DOMAIN more = 1..last
      /\ DOMAIN chunks = 1..last-1 /\ last \in Nat \ {0}
      /\ \A k \in 1..last-1 : more[k] = chunks[k]
      /\ more[last] = bytes
  BY <1>1, Appended
<1>3. Range(<<>>) = {}
  BY DEF Range
<1>4. \A k \in DOMAIN chunks : \A p \in Range(chunks[k]) : p \in 1..n-1
  BY <1>1 DEF Range
<1>5. \A p \in Range(bytes) : p \in 1..n-1
  BY <1>1 DEF Range
<1> HIDE DEF more, last
<1>6. Placed(more, <<>>, n)
  BY <1>2 DEF Placed
<1>7. Small(more, <<>>)
  <2>1. 0 <= Bound
    BY Limits
  <2> QED
    BY SMTT(30), <1>2, <2>1 DEF Sound, Small
<1>8. InOrder(more, <<>>)
  <2>1. ASSUME NEW k \in 1..last, NEW l \in 1..last, k < l
        PROVE  \A p \in Range(more[k]), q \in Range(more[l]) : p < q
    <3>1. k \in DOMAIN chunks /\ more[k] = chunks[k]
      BY <1>2, <2>1
    <3>2. CASE l = last
      BY <1>2, <3>1, <3>2 DEF Sound, InOrder
    <3>3. CASE l # last
      <4>1. l \in DOMAIN chunks /\ more[l] = chunks[l]
        BY <1>2, <3>3
      <4> QED
        BY <2>1, <3>1, <4>1 DEF Sound, InOrder
    <3> QED
      BY <3>2, <3>3
  <2> QED
    BY <1>2, <1>3, <2>1 DEF InOrder
<1>9. Apart(more, <<>>, n)
  <2>1. ASSUME NEW k \in 1..last, NEW p \in Range(more[k]), NEW q \in Range(more[k]),
               NEW e \in p+1..q
        PROVE  ~EmptyLine(e)
    <3>1. CASE k = last
      <4>1. p \in 1..n-1 /\ q \in 1..n-1 /\ p \in Range(bytes)
        BY <1>2, <1>5, <3>1
      <4>2. e \in p+1..n-1
        BY <4>1
      <4> QED
        BY <4>1, <4>2 DEF Sound, Apart
    <3>2. CASE k # last
      <4>1. k \in DOMAIN chunks /\ more[k] = chunks[k]
        BY <1>2, <3>2
      <4> QED
        BY <4>1 DEF Sound, Apart
    <3> QED
      BY <3>1, <3>2
  <2> QED
    BY <1>2, <1>3, <2>1 DEF Apart
<1>10. Complete(more, <<>>, n)
  <2>1. last \in DOMAIN more /\ \A k \in DOMAIN chunks : k \in DOMAIN more /\ more[k] = chunks[k]
    BY <1>2
  <2> QED
    BY <1>2, <2>1 DEF Sound, Complete
<1> QED
  BY <1>6, <1>7, <1>8, <1>9, <1>10 DEF Sound, more

(* So do they when the buffer is flushed. *)
LEMMA Flushing ==
    ASSUME cap \in Nat \ {0}, NEW n \in Nat \ {0}, NEW chunks, NEW bytes,
           Sound(chunks, bytes, n)
    PROVE  Sound(Flushed(chunks, bytes), <<>>, n)
<1>1. CASE bytes = <<>>
  BY <1>1 DEF Flushed
<1>2. CASE bytes # <<>>
  <2>1. bytes \in Seq(1..n-1) /\ Len(bytes) <= Bound
    BY DEF Sound, Placed, Small
  <2>2. /\ TrimSpace(bytes) \in Seq(1..n-1)
        /\ Len(TrimSpace(bytes)) <= Len(bytes)
        /\ Range(TrimSpace(bytes)) \subseteq Range(bytes)
        /\ \A i \in Inked(bytes) : bytes[i] \in Range(TrimSpace(bytes))
    <3>1. 1..n-1 \subseteq Nat
      OBVIOUS
    <3> QED
      BY <2>1, <3>1, Trimming
  <2>3. Len(TrimSpace(bytes)) <= Bound
    <3>1. Len(bytes) \in Nat /\ Len(TrimSpace(bytes)) \in Nat /\ Bound \in Nat
      BY <2>1, <2>2, Limits
    <3> QED
      BY <2>1, <2>2, <3>1
  <2>4. Sound(chunks, TrimSpace(bytes), n)
    BY <2>2, <2>3, Rebuffer
  <2> QED
    BY <1>2, <2>4, NewChunk DEF Flushed
<1> QED
  BY <1>1, <1>2

(* The places of a span. *)
LEMMA Spans ==
    ASSUME NEW from \in Nat \ {0}, NEW to \in Nat, to >= from - 1
    PROVE  /\ Span(from, to) \in Seq(1..to) /\ Len(Span(from, to)) = to - from + 1
           /\ Range(Span(from, to)) = from..to
<1>1. Len(Span(from, to)) = to - from + 1 /\ Span(from, to) \in Seq(1..to)
  BY DEF Span
<1>2. ASSUME NEW p \in from..to PROVE p \in Range(Span(from, to))
  <2>1. p - from + 1 \in 1..to-from+1
    OBVIOUS
  <2>2. Span(from, to)[p - from + 1] = p /\ DOMAIN Span(from, to) = 1..to-from+1
    BY <2>1 DEF Span
  <2> QED
    BY <2>1, <2>2 DEF Range
<1>3. Range(Span(from, to)) \subseteq from..to
  BY DEF Range, Span
<1> QED
  BY <1>1, <1>2, <1>3

(* The range of a concatenation. *)
LEMMA Joined ==
    ASSUME NEW S, NEW s \in Seq(S), NEW t \in Seq(S)
    PROVE  /\ s \o t \in Seq(S) /\ Len(s \o t) = Len(s) + Len(t)
           /\ Range(s \o t) = Range(s) \cup Range(t)
<1> DEFINE st == s \o t
<1>1. /\ st \in Seq(S) /\ Len(st) = Len(s) + Len(t) /\ DOMAIN st = 1..Len(s)+Len(t)
      /\ Len(s) \in Nat /\ Len(t) \in Nat
      /\ DOMAIN s = 1..Len(s) /\ DOMAIN t = 1..Len(t)
      /\ \A i \in 1..Len(s)+Len(t) : st[i] = IF i <= Len(s) THEN s[i] ELSE t[i - Len(s)]
  BY ConcatProperties
<1> HIDE DEF st
<1>2. ASSUME NEW i \in DOMAIN st PROVE st[i] \in Range(s) \cup Range(t)
  <2>1. CASE i <= Len(s)
    BY <1>1, <2>1 DEF Range
  <2>2. CASE i > Len(s)
    <3>1. i - Len(s) \in DOMAIN t /\ st[i] = t[i - Len(s)]
      BY <1>1, <2>2
    <3> QED
      BY <3>1 DEF Range
  <2> QED
    BY <1>1, <2>1, <2>2
<1>3. ASSUME NEW i \in DOMAIN s PROVE s[i] \in Range(st)
  <2>1. i \in DOMAIN st /\ st[i] = s[i]
    BY <1>1
  <2> QED
    BY <2>1 DEF Range
<1>4. ASSUME NEW i \in DOMAIN t PROVE t[i] \in Range(st)
  <2>1. i + Len(s) \in DOMAIN st /\ st[i + Len(s)] = t[i]
    BY <1>1
  <2> QED
    BY <2>1 DEF Range
<1>5. Range(st) = Range(s) \cup Range(t)
  BY <1>2, <1>3, <1>4 DEF Range
<1> QED
  BY <1>1, <1>5 DEF st

(* Places that are read, with no empty line among them, may be added to    *)
(* the buffer.                                                             *)
LEMMA Reading ==
    ASSUME cap \in Nat \ {0}, NEW n \in Nat \ {0}, NEW m \in Nat, m >= n - 1,
           NEW chunks, NEW bytes, Sound(chunks, bytes, n),
           Len(bytes) + (m - n + 1) <= Bound,
           \A e \in n..m : ~EmptyLine(e)
    PROVE  Sound(chunks, bytes \o Span(n, m), m + 1)
<1> DEFINE span == Span(n, m)
           longer == bytes \o span
<1>1. chunks \in Seq(Seq(1..n-1)) /\ bytes \in Seq(1..n-1)
  BY DEF Sound, Placed
<1>2. chunks \in Seq(Seq(1..m)) /\ bytes \in Seq(1..m)
  <2>1. 1..n-1 \subseteq 1..m
    OBVIOUS
  <2>2. Seq(1..n-1) \subseteq Seq(1..m)
    BY <2>1
  <2>3. Seq(Seq(1..n-1)) \subseteq Seq(Seq(1..m))
    BY <2>2
  <2> QED
    BY <1>1, <2>2, <2>3
<1>3. /\ longer \in Seq(1..m) /\ Len(longer) = Len(bytes) + (m - n + 1)
      /\ Range(longer) = Range(bytes) \cup n..m
  <2>1. span \in Seq(1..m) /\ Len(span) = m - n + 1 /\ Range(span) = n..m
    BY Spans
  <2> DEFINE S == 1..m
  <2>3. bytes \in Seq(S) /\ span \in Seq(S)
    BY <1>2, <2>1
  <2> HIDE DEF span, S
  <2>2. /\ longer \in Seq(S) /\ Len(longer) = Len(bytes) + Len(span)
        /\ Range(longer) = Range(bytes) \cup Range(span)
    BY <2>3, Joined
  <2> QED
    BY <2>1, <2>2 DEF S
<1>4. \A p \in Range(bytes) : p \in 1..n-1
  BY <1>1 DEF Range
<1>5. \A k \in DOMAIN chunks : \A p \in Range(chunks[k]) : p \in 1..n-1
  BY <1>1 DEF Range
<1> HIDE DEF longer
<1>6. Placed(chunks, longer, m + 1) /\ Small(chunks, longer)
  BY <1>2, <1>3 DEF Sound, Placed, Small
<1>7. InOrder(chunks, longer)
  BY <1>3, <1>5 DEF Sound, InOrder
<1>8. Apart(chunks, longer, m + 1)
  <2>1. ASSUME NEW p \in Range(bytes) \cup n..m, NEW e \in p+1..m PROVE ~EmptyLine(e)
    <3>1. CASE e >= n
      BY <1>4, <2>1, <3>1
    <3>2. CASE e < n
      <4>1. p \in Range(bytes) /\ e \in p+1..n-1
        BY <1>4, <3>2
      <4> QED
        BY <4>1 DEF Sound, Apart
    <3> QED
      BY <1>4, <3>1, <3>2
  <2> QED
    BY <1>3, <2>1 DEF Sound, Apart
<1>9. Complete(chunks, longer, m + 1)
  <2>1. \A p \in 1..m : p \in 1..n-1 \/ p \in n..m
    OBVIOUS
  <2> QED
    BY <1>3, <2>1 DEF Sound, Complete
<1> QED
  BY <1>6, <1>7, <1>8, <1>9 DEF Sound, longer, span

(* A newline may be read and dropped while the buffer is empty. *)
LEMMA Dropping ==
    ASSUME NEW n \in Nat \ {0}, NEW chunks, Sound(chunks, <<>>, n), Char(n) = "newline"
    PROVE  Sound(chunks, <<>>, n + 1)
<1>1. Placed(chunks, <<>>, n + 1)
  <2>1. 1..n-1 \subseteq 1..n+1-1
    OBVIOUS
  <2>2. Seq(1..n-1) \subseteq Seq(1..n+1-1)
    BY <2>1
  <2>3. Seq(Seq(1..n-1)) \subseteq Seq(Seq(1..n+1-1))
    BY <2>2
  <2> QED
    BY <2>3 DEF Sound, Placed
<1>2. Apart(chunks, <<>>, n + 1)
  <2>1. Range(<<>>) = {}
    BY DEF Range
  <2> QED
    BY <2>1 DEF Sound, Apart
<1>3. Complete(chunks, <<>>, n + 1)
  BY DEF Sound, Complete
<1> QED
  BY <1>1, <1>2, <1>3 DEF Sound

(* The end of an iteration leaves less than the cap in the buffer. *)
LEMMA Writing ==
    ASSUME cap \in Nat \ {0}, NEW n \in Nat \ {0}, NEW chunks, NEW bytes,
           Sound(chunks, bytes, n), Written(chunks, bytes)
    PROVE  Sound(rows', buf', n) /\ Len(buf') < cap
<1>1. Len(bytes) \in Nat
  BY DEF Sound, Placed
<1>2. CASE Len(bytes) >= cap
  <2>1. rows' = Flushed(chunks, bytes) /\ buf' = <<>>
    BY <1>2 DEF Written
  <2>2. Sound(rows', buf', n)
    BY <2>1, Flushing
  <2> QED
    BY <2>1, <2>2
<1>3. CASE ~(Len(bytes) >= cap)
  BY <1>1, <1>3 DEF Written
<1> QED
  BY <1>2, <1>3

-----------------------------------------------------------------------------
(* The inductive invariant: unless Chunk has failed, and then there are    *)
(* none, the chunks and the buffer are sound, and the buffer is below the  *)
(* cap between two lines.                                                  *)
ChunkerInv ==
    /\ content \in Seq(Characters) /\ cap \in Nat \ {0}
    /\ at \in 1..Len(content)+2
    /\ outcome \in {"start", "scan", "rows", "error"}
    /\ outcome # "error" => Sound(rows, buf, at)
    /\ outcome \in {"start", "error"} => rows = <<>> /\ buf = <<>>
    /\ Len(buf) < cap

(* Nothing has been read at first. *)
LEMMA ChunkerInit == Init => ChunkerInv
<1> SUFFICES ASSUME Init PROVE ChunkerInv
  OBVIOUS
<1>1. content \in Seq(Characters) /\ cap \in Nat \ {0} /\ at = 1
  BY ChunkerAssumption DEF Init
<1>2. rows = <<>> /\ buf = <<>> /\ DOMAIN rows = {} /\ Range(buf) = {} /\ Len(buf) = 0
  BY DEF Init, Range
<1>3. Placed(rows, buf, at)
  BY <1>1, <1>2 DEF Placed
<1>4. Small(rows, buf)
  BY <1>1, <1>2, Limits DEF Small
<1>5. InOrder(rows, buf) /\ Apart(rows, buf, at)
  BY <1>2 DEF InOrder, Apart
<1>6. Complete(rows, buf, at)
  BY <1>1 DEF Complete
<1>7. Len(content) \in Nat
  BY <1>1
<1> QED
  BY <1>1, <1>2, <1>3, <1>4, <1>5, <1>6, <1>7 DEF Init, ChunkerInv, Sound

(* The invariant after a step is a fact about the variables before it, as  *)
(* neither the file nor the cap changes.                                   *)
LEMMA Carried ==
    ASSUME content' = content, cap' = cap,
           content \in Seq(Characters), cap \in Nat \ {0},
           at' \in 1..Len(content)+2, outcome' \in {"scan", "rows"},
           Sound(rows', buf', at'), Len(buf') < cap
    PROVE  ChunkerInv'
<1>1. Sound(rows, buf, at)'
  BY DEF Sound, Placed, Small, InOrder, Apart, Complete, Bound, LineLimit, EmptyLine, Char
<1> QED
  BY <1>1 DEF ChunkerInv

(* No place of a line is an empty line, the line's newline included. *)
LEMMA LinesAreNotEmpty ==
    ASSUME NEW end \in Nat, at \in Nat \ {0}, end > at, EndsLine(end)
    PROVE  \A e \in at..end : ~EmptyLine(e)
<1> SUFFICES ASSUME NEW e \in at..end PROVE ~EmptyLine(e)
  OBVIOUS
<1>1. CASE e = at
  BY <1>1 DEF EndsLine, EmptyLine
<1>2. CASE e # at
  <2>1. e - 1 \in at..end-1 /\ e # 1
    BY <1>2
  <2> QED
    BY <2>1 DEF EndsLine, EmptyLine
<1> QED
  BY <1>1, <1>2

(* Every step keeps the invariant. *)
LEMMA ChunkerStep == ChunkerInv /\ [Next]_vars => ChunkerInv'
<1> SUFFICES ASSUME ChunkerInv, [Next]_vars PROVE ChunkerInv'
  OBVIOUS
<1>1. /\ content \in Seq(Characters) /\ cap \in Nat \ {0}
      /\ at \in Nat \ {0} /\ at \in 1..Len(content)+2 /\ Len(content) \in Nat
  BY DEF ChunkerInv
<1>2. LineLimit \in Nat /\ LineLimit >= 2 * cap /\ Bound \in Nat /\ Bound >= 2 * cap
  BY <1>1, Limits
<1>3. outcome # "error" => /\ Sound(rows, buf, at) /\ Len(buf) \in Nat /\ Len(buf) < cap
                           /\ Sound(Flushed(rows, buf), <<>>, at)
  <2>1. outcome # "error" => Sound(rows, buf, at) /\ Len(buf) \in Nat /\ Len(buf) < cap
    BY DEF ChunkerInv, Sound, Placed
  <2> QED
    BY <1>1, <2>1, Flushing
<1>4. CASE Open
  <2>1. UNCHANGED <<content, cap, at, rows, buf>> /\ outcome = "start"
    BY <1>4 DEF Open
  <2>2. CASE outcome' = "error"
    BY <2>1, <2>2 DEF ChunkerInv
  <2>3. CASE outcome' # "error"
    <3>1. outcome' \in {"scan", "rows"}
      BY <1>4, <2>3 DEF Open
    <3>2. Sound(rows', buf', at') /\ Len(buf') < cap
      BY <1>3, <2>1
    <3> QED
      BY <1>1, <2>1, <3>1, <3>2, Carried
  <2> QED
    BY <2>2, <2>3
<1>5. CASE BlankLine
  <2>1. /\ Char(at) = "newline" /\ at <= Len(content) /\ outcome = "scan"
        /\ rows' = Flushed(rows, buf) /\ buf' = <<>> /\ at' = at + 1
        /\ UNCHANGED <<content, cap, outcome>>
    BY <1>5 DEF BlankLine, EndsLine
  <2>2. Sound(rows', buf', at') /\ Len(buf') < cap
    BY <1>1, <1>3, <2>1, Dropping
  <2>3. at' \in 1..Len(content)+2 /\ outcome' \in {"scan", "rows"}
    BY <1>1, <2>1
  <2> QED
    BY <1>1, <2>1, <2>2, <2>3, Carried
<1>6. CASE ShortLine
  <2>1. PICK end \in LineEnds : /\ EndsLine(end) /\ end - at \in 1..cap
                                /\ Written(rows, buf \o Span(at, end))
                                /\ at' = end + 1
    BY <1>6 DEF ShortLine
  <2>2. outcome = "scan" /\ UNCHANGED <<content, cap, outcome>>
    BY <1>6 DEF ShortLine
  <2>3. end \in Nat /\ end > at /\ end <= Len(content) + 1 /\ end - at + 1 <= cap + 1
    BY <1>1, <2>1 DEF LineEnds
  <2>4. \A e \in at..end : ~EmptyLine(e)
    BY <1>1, <2>1, <2>3, LinesAreNotEmpty
  <2>5. Len(buf) + (end - at + 1) <= Bound
    BY <1>1, <1>2, <1>3, <2>2, <2>3
  <2>6. Sound(rows, buf \o Span(at, end), end + 1)
    BY <1>1, <1>3, <2>2, <2>3, <2>4, <2>5, Reading
  <2>7. Sound(rows', buf', at') /\ Len(buf') < cap
    BY <1>1, <2>1, <2>3, <2>6, Writing
  <2>8. at' \in 1..Len(content)+2 /\ outcome' \in {"scan", "rows"}
    BY <1>1, <2>1, <2>2, <2>3
  <2> QED
    BY <1>1, <2>2, <2>7, <2>8, Carried
<1>7. CASE OverlongLine
  <2>1. PICK end \in LineEnds :
           /\ EndsLine(end) /\ end - at > cap /\ end - at < LineLimit
           /\ Written(Append(Flushed(rows, buf), CutHead), CutTail(end) \o CutTail(end))
           /\ at' = end + 1
    BY <1>7 DEF OverlongLine
  <2>2. outcome = "scan" /\ UNCHANGED <<content, cap, outcome>>
    BY <1>7 DEF OverlongLine
  <2>3. end \in Nat /\ end > at + cap /\ end <= Len(content) + 1
    BY <1>1, <2>1 DEF LineEnds
  <2>4. \A e \in at..end : ~EmptyLine(e)
    BY <1>1, <2>1, <2>3, LinesAreNotEmpty
  <2> DEFINE cut == at + cap
             flushed == Flushed(rows, buf)
             tail == CutTail(end)
  <2>5. Sound(Append(flushed, CutHead), <<>>, cut)
    <3>1. /\ CutHead \in Seq(1..cut-1) /\ CutHead = <<>> \o Span(at, cut-1)
      <4>1. Span(at, cut-1) \in Seq(1..cut-1)
        BY <1>1, Spans
      <4>2. CutHead = Span(at, cut-1)
        BY <1>1 DEF CutHead
      <4>3. <<>> \o Span(at, cut-1) = Span(at, cut-1)
        BY <4>1, ConcatEmptySeq, Zenon
      <4> QED
        BY <4>1, <4>2, <4>3
    <3>2. Sound(flushed, <<>> \o Span(at, cut-1), cut-1+1)
      <4>1. \A e \in at..cut-1 : ~EmptyLine(e)
        BY <1>1, <2>3, <2>4
      <4>2. Len(<<>>) + (cut-1 - at + 1) <= Bound
        BY <1>1, <1>2
      <4>3. cut-1 \in Nat /\ cut-1 >= at-1
        BY <1>1
      <4> HIDE DEF cut, flushed
      <4>4. Sound(flushed, <<>>, at)
        BY <1>3, <2>2 DEF flushed
      <4> QED
        BY <1>1, <4>1, <4>2, <4>3, <4>4, Reading
    <3>3. cut-1+1 = cut /\ cut \in Nat \ {0}
      BY <1>1
    <3>4. Sound(flushed, CutHead, cut)
      BY <3>1, <3>2, <3>3
    <3> HIDE DEF cut, flushed
    <3> QED
      BY <1>1, <3>3, <3>4, NewChunk
  <2>6. tail \in Seq(1..end) /\ Len(tail) = end - cut + 1 /\ Range(tail) = cut..end
    <3>1. cut \in Nat \ {0} /\ end >= cut - 1 /\ tail = Span(cut, end)
      BY <1>1, <2>3 DEF CutTail
    <3> HIDE DEF cut, tail
    <3> QED
      BY <2>3, <3>1, Spans
  <2>7. Sound(Append(flushed, CutHead), tail, end + 1)
    <3>1. \A e \in cut..end : ~EmptyLine(e)
      BY <1>1, <2>3, <2>4
    <3>2. Len(<<>>) + (end - cut + 1) <= Bound
      BY <1>1, <1>2, <2>1, <2>3 DEF Bound
    <3>3. end >= cut - 1 /\ cut \in Nat \ {0}
      BY <1>1, <2>3
    <3>4. tail = <<>> \o Span(cut, end)
      <4>1. tail = Span(cut, end)
        BY DEF CutTail
      <4> QED
        BY <2>6, <4>1, ConcatEmptySeq, Zenon
    <3> HIDE DEF cut, flushed, tail
    <3>5. Sound(Append(flushed, CutHead), <<>> \o Span(cut, end), end + 1)
      BY <1>1, <2>3, <2>5, <3>1, <3>2, <3>3, Reading
    <3> QED
      BY <3>4, <3>5
  <2>8. /\ tail \o tail \in Seq(1..(end+1)-1) /\ Len(tail \o tail) <= Bound
        /\ Range(tail \o tail) = Range(tail)
    <3>1. (end+1)-1 = end /\ 2 * (end - cut + 1) <= Bound /\ Len(tail) \in Nat
      BY <1>1, <1>2, <2>1, <2>3, <2>6 DEF Bound
    <3> HIDE DEF cut, tail
    <3>2. /\ tail \o tail \in Seq(1..end) /\ Len(tail \o tail) = Len(tail) + Len(tail)
          /\ Range(tail \o tail) = Range(tail) \cup Range(tail)
      BY ZenonT(40), <2>6, Joined
    <3>3. Len(tail) + Len(tail) <= Bound
      BY <2>6, <3>1
    <3> QED
      BY <3>1, <3>2, <3>3
  <2>9. Sound(Append(flushed, CutHead), tail \o tail, end + 1)
    <3> DEFINE chunks == Append(flushed, CutHead)
               twice == tail \o tail
    <3> HIDE DEF cut, flushed, tail
    <3>1. \A i \in Inked(tail) : tail[i] \in Range(twice)
      <4>1. \A i \in DOMAIN tail : tail[i] \in Range(tail)
        BY DEF Range
      <4> QED
        BY <2>8, <4>1 DEF Inked
    <3>2. end + 1 \in Nat \ {0}
      BY <2>3
    <3>3. /\ Sound(chunks, tail, end + 1) /\ twice \in Seq(1..(end+1)-1)
          /\ Len(twice) <= Bound /\ Range(twice) \subseteq Range(tail)
      BY <2>7, <2>8
    <3> HIDE DEF chunks, twice
    <3>4. Sound(chunks, twice, end + 1)
      BY <2>3, <3>1, <3>2, <3>3, Rebuffer
    <3> QED
      BY <3>4 DEF chunks, twice
  <2>10. Sound(rows', buf', at') /\ Len(buf') < cap
    <3> HIDE DEF flushed, tail
    <3>1. Written(Append(flushed, CutHead), tail \o tail)
      BY <2>1 DEF flushed, tail
    <3> QED
      BY <1>1, <2>1, <2>3, <2>9, <3>1, Writing
  <2>11. at' \in 1..Len(content)+2 /\ outcome' \in {"scan", "rows"}
    BY <1>1, <2>1, <2>2, <2>3
  <2> QED
    BY <1>1, <2>2, <2>10, <2>11, Carried
<1>8. CASE TooLong
  BY <1>1, <1>8 DEF TooLong, ChunkerInv
<1>9. CASE EndOfFile
  <2>1. /\ outcome = "scan" /\ rows' = Flushed(rows, buf) /\ buf' = <<>>
        /\ outcome' = "rows" /\ UNCHANGED <<content, cap, at>>
    BY <1>9 DEF EndOfFile
  <2>2. Sound(rows', buf', at') /\ Len(buf') < cap
    BY <1>1, <1>3, <2>1
  <2> QED
    BY <1>1, <2>1, <2>2, Carried
<1>10. CASE UNCHANGED vars
  <2>1. CASE outcome \in {"scan", "rows"}
    <3>1. Sound(rows', buf', at') /\ Len(buf') < cap
      BY <1>3, <1>10, <2>1 DEF vars
    <3> QED
      BY <1>1, <1>10, <2>1, <3>1, Carried DEF vars
  <2>2. CASE outcome \notin {"scan", "rows"}
    <3>1. Sound(rows, buf, at)' <=> Sound(rows, buf, at)
      BY <1>10 DEF vars, Sound, Placed, Small, InOrder, Apart, Complete, Bound,
                   LineLimit, EmptyLine, Char
    <3> QED
      BY <1>10, <3>1 DEF vars, ChunkerInv
  <2> QED
    BY <2>1, <2>2
<1> QED
  BY <1>4, <1>5, <1>6, <1>7, <1>8, <1>9, <1>10 DEF Next

(* The invariant holds throughout. *)
THEOREM ChunkerInvariant == Spec => []ChunkerInv
<1>1. Init => ChunkerInv
  BY ChunkerInit
<1>2. ChunkerInv /\ [Next]_vars => ChunkerInv'
  BY ChunkerStep
<1> QED
  BY <1>1, <1>2, PTL DEF Spec

(* The variables stay within their sorts, and the chunks within the file. *)
THEOREM ChunkerTypes == Spec => []ChunkerTypeOK
<1>1. ChunkerInv => ChunkerTypeOK
  <2> SUFFICES ASSUME ChunkerInv PROVE ChunkerTypeOK
    OBVIOUS
  <2>1. CASE outcome = "error"
    BY <2>1 DEF ChunkerInv, ChunkerTypeOK
  <2>2. CASE outcome # "error"
    BY <2>2 DEF ChunkerInv, ChunkerTypeOK, Sound, Placed
  <2> QED
    BY <2>1, <2>2
<1> QED
  BY <1>1, ChunkerInvariant, PTL

(* No byte that is not blank is lost on the way into the chunks. *)
THEOREM ChunksLoseNothing == Spec => []NothingIsLost
<1>1. ChunkerInv => NothingIsLost
  BY DEF ChunkerInv, NothingIsLost, Sound, Complete
<1> QED
  BY <1>1, ChunkerInvariant, PTL

(* The chunks are disjoint and in the order of the file. *)
THEOREM ChunksAreInOrder == Spec => []ChunksFollowTheFile
<1>1. ChunkerInv => ChunksFollowTheFile
  <2> SUFFICES ASSUME ChunkerInv PROVE ChunksFollowTheFile
    OBVIOUS
  <2>1. CASE outcome = "error"
    BY <2>1 DEF ChunkerInv, ChunksFollowTheFile
  <2>2. CASE outcome # "error"
    BY <2>2 DEF ChunkerInv, ChunksFollowTheFile, Sound, InOrder
  <2> QED
    BY <2>1, <2>2
<1> QED
  BY <1>1, ChunkerInvariant, PTL

(* No chunk reaches over an empty line. *)
THEOREM ChunksKeepParagraphs == Spec => []ParagraphsStayApart
<1>1. ChunkerInv => ParagraphsStayApart
  <2> SUFFICES ASSUME ChunkerInv PROVE ParagraphsStayApart
    OBVIOUS
  <2>1. CASE outcome = "error"
    BY <2>1 DEF ChunkerInv, ParagraphsStayApart
  <2>2. CASE outcome # "error"
    BY <2>2 DEF ChunkerInv, ParagraphsStayApart, Sound, Apart
  <2> QED
    BY <2>1, <2>2
<1> QED
  BY <1>1, ChunkerInvariant, PTL

-----------------------------------------------------------------------------
(***************************************************************************)
(* What the cuts do to a chunk: which bytes are in it twice, and whether   *)
(* its characters are whole.                                               *)
(***************************************************************************)
Single(bytes) ==
    \A i, j \in DOMAIN bytes : i < j /\ bytes[i] = bytes[j] => InTail(bytes[i])

(* A cut through a character, with one of its halves among the bytes. *)
CutThrough(bytes) ==
    \E start \in DOMAIN content :
        /\ IsCut(start) /\ Char(start + cap) = "trail"
        /\ {start + cap - 1, start + cap} \cap Range(bytes) # {}

Pieces(bytes) == Single(bytes) /\ (Valid(bytes) \/ CutThrough(bytes))

(* The file is UTF-8: lead and trail bytes stand in pairs. *)
Paired ==
    \A p \in 1..Len(content) :
        /\ Char(p) = "lead" => p < Len(content) /\ Char(p+1) = "trail"
        /\ Char(p) = "trail" => p > 1 /\ Char(p-1) = "lead"

LineStart == at = 1 \/ Char(at-1) = "newline"

PiecesInv ==
    /\ ChunkerInv
    /\ outcome \in {"start", "scan"} => LineStart
    /\ outcome = "scan" => Paired
    /\ \A k \in DOMAIN rows : Pieces(rows[k])
    /\ Pieces(buf)

(* Every byte of a pair is in the file, and so is its other half. *)
LEMMA Pairs ==
    ASSUME content \in Seq(Characters), Paired, NEW p \in Nat
    PROVE  /\ Char(p) = "lead" => Char(p+1) = "trail"
           /\ Char(p) = "trail" => p > 1 /\ Char(p-1) = "lead"
<1>1. DOMAIN content = 1..Len(content) /\ Len(content) \in Nat
  OBVIOUS
<1>2. p \notin 1..Len(content) => Char(p) = "newline"
  BY <1>1 DEF Char
<1> QED
  BY <1>2 DEF Paired

(* Trimming neither doubles a byte nor breaks a character: both halves of  *)
(* one are no blanks.                                                      *)
LEMMA TrimmedPieces ==
    ASSUME content \in Seq(Characters), cap \in Nat \ {0}, Paired,
           NEW n \in Nat, NEW bytes \in Seq(1..n), Pieces(bytes)
    PROVE  Pieces(TrimSpace(bytes))
<1> DEFINE trimmed == TrimSpace(bytes)
<1>1. CASE Inked(bytes) = {}
  <2>1. trimmed = <<>>
    BY <1>1 DEF TrimSpace
  <2>2. DOMAIN trimmed = {}
    BY <2>1
  <2> QED
    BY <2>2 DEF Pieces, Single, Valid
<1>2. CASE Inked(bytes) # {}
  <2>1. PICK from, to \in Inked(bytes) : TrimsTo(bytes, from, to)
    BY <1>2, TrimmedPart
  <2>2. /\ DOMAIN bytes = 1..Len(bytes) /\ Len(bytes) \in Nat
        /\ \A i \in DOMAIN bytes : bytes[i] \in Nat
    OBVIOUS
  <2>3. /\ from \in 1..Len(bytes) /\ to \in 1..Len(bytes) /\ from <= to
        /\ \A i \in Inked(bytes) : from <= i /\ i <= to
        /\ Len(trimmed) = to - from + 1 /\ DOMAIN trimmed = 1..to-from+1
        /\ \A i \in 1..to-from+1 : trimmed[i] = bytes[from + i - 1]
    BY <2>1 DEF TrimsTo
  <2> HIDE DEF trimmed
  <2>4. \A i \in DOMAIN trimmed : /\ from + i - 1 \in DOMAIN bytes
                                  /\ trimmed[i] = bytes[from + i - 1]
    <3>1. \A i \in 1..to-from+1 : from + i - 1 \in 1..Len(bytes)
      BY <2>2, <2>3
    <3> QED
      BY <2>2, <2>3, <3>1
  <2>5. Single(trimmed)
    <3> SUFFICES ASSUME NEW i \in DOMAIN trimmed, NEW j \in DOMAIN trimmed, i < j,
                        trimmed[i] = trimmed[j]
                 PROVE  InTail(trimmed[i])
      BY DEF Single
    <3>1. from + i - 1 < from + j - 1
      BY <2>3
    <3> QED
      BY <2>4, <3>1 DEF Pieces, Single
  <2>6. ASSUME Valid(bytes) PROVE Valid(trimmed)
    <3> SUFFICES ASSUME NEW i \in DOMAIN trimmed
                 PROVE  /\ Char(trimmed[i]) = "lead" =>
                              i < Len(trimmed) /\ Char(trimmed[i+1]) = "trail"
                        /\ Char(trimmed[i]) = "trail" =>
                              i > 1 /\ Char(trimmed[i-1]) = "lead"
      BY DEF Valid
    <3> DEFINE h == from + i - 1
    <3>1. h \in DOMAIN bytes /\ trimmed[i] = bytes[h]
      BY <2>4
    <3>4. /\ i \in 1..to-from+1 /\ h \in 1..Len(bytes) /\ h = from + i - 1
          /\ from \in Nat /\ to \in Nat /\ Len(bytes) \in Nat
      BY <2>2, <2>3, <3>1
    <3> HIDE DEF h
    <3>2. ASSUME Char(bytes[h]) = "lead"
          PROVE  i < Len(trimmed) /\ Char(trimmed[i+1]) = "trail"
      <4>1. h < Len(bytes) /\ Char(bytes[h+1]) = "trail"
        BY <2>6, <3>1, <3>2 DEF Valid
      <4>2. h + 1 \in Inked(bytes)
        <5>1. h + 1 \in DOMAIN bytes
          BY SMTT(30), <2>2, <3>4, <4>1
        <5> QED
          BY <4>1, <5>1 DEF Inked
      <4>3. h + 1 <= to
        BY <2>3, <4>2
      <4>4. i + 1 \in 1..to-from+1 /\ h + 1 = from + (i + 1) - 1
        BY SMTT(30), <3>4, <4>3
      <4>5. trimmed[i+1] = bytes[h+1]
        <5>1. trimmed[i+1] = bytes[from + (i + 1) - 1]
          BY <2>3, <4>4
        <5> QED
          BY <4>4, <5>1
      <4>6. i < Len(trimmed)
        BY <2>3, <3>4, <4>4
      <4> QED
        BY <4>1, <4>5, <4>6
    <3>3. ASSUME Char(bytes[h]) = "trail"
          PROVE  i > 1 /\ Char(trimmed[i-1]) = "lead"
      <4>1. h > 1 /\ Char(bytes[h-1]) = "lead"
        BY <2>6, <3>1, <3>3 DEF Valid
      <4>2. h - 1 \in Inked(bytes)
        <5>1. h - 1 \in DOMAIN bytes
          BY SMTT(30), <2>2, <3>4, <4>1
        <5> QED
          BY <4>1, <5>1 DEF Inked
      <4>3. from <= h - 1
        BY <2>3, <4>2
      <4>4. i - 1 \in 1..to-from+1 /\ h - 1 = from + (i - 1) - 1
        BY SMTT(30), <3>4, <4>3
      <4>5. trimmed[i-1] = bytes[h-1]
        BY <2>3, <4>4
      <4>6. i > 1
        BY <3>4, <4>4
      <4> QED
        BY <4>1, <4>5, <4>6
    <3> QED
      BY <3>1, <3>2, <3>3
  <2>7. ASSUME CutThrough(bytes) PROVE CutThrough(trimmed)
    <3>1. PICK start \in DOMAIN content :
             /\ IsCut(start) /\ Char(start + cap) = "trail"
             /\ {start + cap - 1, start + cap} \cap Range(bytes) # {}
      BY <2>7 DEF CutThrough
    <3>2. PICK p \in {start + cap - 1, start + cap} : p \in Range(bytes)
      BY <3>1
    <3>3. Char(start + cap - 1) = "lead"
      <4>1. start + cap \in Nat
        BY <3>1
      <4>2. Char(start + cap - 1) = "lead"
        BY <3>1, <4>1, Pairs
      <4> QED
        BY <4>2
    <3>4. PICK i \in DOMAIN bytes : p = bytes[i]
      BY <3>2 DEF Range
    <3>5. i \in Inked(bytes)
      BY <3>1, <3>2, <3>3, <3>4 DEF Inked
    <3>6. p \in Range(trimmed)
      <4>1. 1..n \subseteq Nat
        OBVIOUS
      <4> QED
        BY <3>4, <3>5, <4>1, Trimming DEF trimmed
    <3> QED
      BY <3>1, <3>2, <3>6 DEF CutThrough
  <2> QED
    BY <2>5, <2>6, <2>7 DEF Pieces, trimmed
<1> QED
  BY <1>1, <1>2

(* Two pieces of whole characters make one; a byte is doubled in it only   *)
(* if it was in one of them or is in both.                                 *)
LEMMA JoinedPieces ==
    ASSUME NEW S, NEW s \in Seq(S), NEW t \in Seq(S)
    PROVE  /\ Valid(s) /\ Valid(t) => Valid(s \o t)
           /\ /\ Single(s) /\ Single(t)
              /\ \A p \in Range(s) \cap Range(t) : InTail(p)
              => Single(s \o t)
<1> DEFINE st == s \o t
           m == Len(s)
<1>1. /\ Len(st) = m + Len(t) /\ DOMAIN st = 1..m+Len(t)
      /\ m \in Nat /\ Len(t) \in Nat /\ DOMAIN s = 1..m /\ DOMAIN t = 1..Len(t)
      /\ \A i \in 1..m+Len(t) : st[i] = IF i <= m THEN s[i] ELSE t[i - m]
  BY ConcatProperties
<1>2. \A i \in 1..m : st[i] = s[i]
  BY <1>1
<1>3. \A i \in m+1..m+Len(t) : i - m \in 1..Len(t) /\ st[i] = t[i - m]
  BY <1>1
<1> HIDE DEF st, m
<1>4. ASSUME Valid(s), Valid(t) PROVE Valid(st)
  <2> SUFFICES ASSUME NEW i \in DOMAIN st
               PROVE  /\ Char(st[i]) = "lead" => i < Len(st) /\ Char(st[i+1]) = "trail"
                      /\ Char(st[i]) = "trail" => i > 1 /\ Char(st[i-1]) = "lead"
    BY DEF Valid
  <2>1. CASE i <= m
    <3>1. i \in 1..m /\ st[i] = s[i]
      BY <1>1, <1>2, <2>1
    <3>2. ASSUME Char(s[i]) = "lead" PROVE i < Len(st) /\ Char(st[i+1]) = "trail"
      <4>1. i < m /\ Char(s[i+1]) = "trail"
        BY <1>1, <1>4, <3>1, <3>2 DEF Valid, m
      <4>2. i + 1 \in 1..m
        BY <1>1, <3>1, <4>1
      <4>3. st[i+1] = s[i+1]
        BY <1>2, <4>2
      <4> QED
        BY <1>1, <3>1, <4>1, <4>3
    <3>3. ASSUME Char(s[i]) = "trail" PROVE i > 1 /\ Char(st[i-1]) = "lead"
      <4>1. i > 1 /\ Char(s[i-1]) = "lead"
        BY <1>1, <1>4, <3>1, <3>3 DEF Valid
      <4>2. i - 1 \in 1..m
        BY <1>1, <3>1, <4>1
      <4>3. st[i-1] = s[i-1]
        BY <1>2, <4>2
      <4> QED
        BY <4>1, <4>3
    <3> QED
      BY <3>1, <3>2, <3>3
  <2>2. CASE i > m
    <3> DEFINE h == i - m
    <3>1. h \in 1..Len(t) /\ st[i] = t[h] /\ i = h + m
      BY <1>1, <1>3, <2>2
    <3> HIDE DEF h
    <3>2. ASSUME Char(t[h]) = "lead" PROVE i < Len(st) /\ Char(st[i+1]) = "trail"
      <4>1. h < Len(t) /\ Char(t[h+1]) = "trail"
        BY <1>1, <1>4, <3>1, <3>2 DEF Valid
      <4>2. i + 1 \in m+1..m+Len(t) /\ (i + 1) - m = h + 1
        BY <1>1, <3>1, <4>1
      <4>3. st[i+1] = t[h+1]
        BY <1>3, <4>2
      <4> QED
        BY <1>1, <3>1, <4>1, <4>3
    <3>3. ASSUME Char(t[h]) = "trail" PROVE i > 1 /\ Char(st[i-1]) = "lead"
      <4>1. h > 1 /\ Char(t[h-1]) = "lead"
        BY <1>1, <1>4, <3>1, <3>3 DEF Valid
      <4>2. i - 1 \in m+1..m+Len(t) /\ (i - 1) - m = h - 1 /\ i > 1
        BY <1>1, <3>1, <4>1
      <4>3. st[i-1] = t[h-1]
        BY <1>3, <4>2
      <4> QED
        BY <4>1, <4>2, <4>3
    <3> QED
      BY <3>1, <3>2, <3>3
  <2> QED
    BY <1>1, <2>1, <2>2
<1>5. ASSUME Single(s), Single(t), \A p \in Range(s) \cap Range(t) : InTail(p)
      PROVE  Single(st)
  <2> SUFFICES ASSUME NEW i \in DOMAIN st, NEW j \in DOMAIN st, i < j, st[i] = st[j]
               PROVE  InTail(st[i])
    BY DEF Single
  <2>1. CASE j <= m
    <3>1. i \in 1..m /\ j \in 1..m
      BY <1>1, <2>1
    <3> QED
      BY <1>1, <1>2, <1>5, <3>1 DEF Single
  <2>2. CASE i > m
    <3>1. i \in m+1..m+Len(t) /\ j \in m+1..m+Len(t)
      BY <1>1, <2>2
    <3>2. i - m \in DOMAIN t /\ j - m \in DOMAIN t /\ i - m < j - m
      BY <1>1, <1>3, <3>1
    <3> QED
      BY <1>3, <1>5, <3>1, <3>2 DEF Single
  <2>3. CASE i <= m /\ j > m
    <3>1. i \in 1..m /\ j \in m+1..m+Len(t)
      BY <1>1, <2>3
    <3>2. st[i] \in Range(s)
      BY <1>1, <1>2, <3>1 DEF Range
    <3>3. st[j] \in Range(t)
      BY <1>1, <1>3, <3>1 DEF Range
    <3> QED
      BY <1>5, <3>2, <3>3
  <2> QED
    BY <1>1, <2>1, <2>2, <2>3
<1> QED
  BY <1>4, <1>5 DEF st

(* A span of the file has each of its bytes once, and its characters are   *)
(* whole if none is cut at its two ends.                                   *)
LEMMA SpanPieces ==
    ASSUME content \in Seq(Characters), Paired,
           NEW from \in Nat \ {0}, NEW to \in Nat, to >= from - 1
    PROVE  /\ Single(Span(from, to))
           /\ Char(from) # "trail" /\ Char(to+1) # "trail" => Valid(Span(from, to))
<1> DEFINE span == Span(from, to)
           m == to - from + 1
<1>1. /\ Len(span) = m /\ m \in Nat /\ DOMAIN span = 1..m
      /\ \A i \in 1..m : span[i] = from + i - 1
  BY DEF Span
<1> HIDE DEF span
<1>2. Single(span)
  BY <1>1 DEF Single
<1>3. ASSUME Char(from) # "trail", Char(to+1) # "trail" PROVE Valid(span)
  <2> SUFFICES ASSUME NEW i \in 1..m
               PROVE  /\ Char(span[i]) = "lead" => i < m /\ Char(span[i+1]) = "trail"
                      /\ Char(span[i]) = "trail" => i > 1 /\ Char(span[i-1]) = "lead"
    BY <1>1 DEF Valid
  <2> DEFINE p == from + i - 1
  <2>1. span[i] = p /\ p \in Nat /\ p \in from..to
    BY <1>1
  <2>2. ASSUME Char(p) = "lead" PROVE i < m /\ Char(span[i+1]) = "trail"
    <3>1. Char(p+1) = "trail"
      BY <2>1, <2>2, Pairs
    <3>2. p # to
      BY <1>3, <3>1
    <3>3. i + 1 \in 1..m /\ from + (i + 1) - 1 = p + 1 /\ i < m
      BY <2>1, <3>2
    <3>4. span[i+1] = p + 1
      BY <1>1, <3>3
    <3> QED
      BY <3>1, <3>3, <3>4
  <2>3. ASSUME Char(p) = "trail" PROVE i > 1 /\ Char(span[i-1]) = "lead"
    <3>1. p > 1 /\ Char(p-1) = "lead"
      BY <2>1, <2>3, Pairs
    <3>2. p # from
      BY <1>3, <2>3
    <3>3. i - 1 \in 1..m /\ from + (i - 1) - 1 = p - 1 /\ i > 1
      BY <2>1, <3>2
    <3>4. span[i-1] = p - 1
      BY <1>1, <3>3
    <3> QED
      BY <3>1, <3>3, <3>4
  <2> QED
    BY <2>1, <2>2, <2>3
<1> QED
  BY <1>2, <1>3 DEF span

(* A flush makes a chunk of pieces of them. *)
LEMMA FlushedPieces ==
    ASSUME content \in Seq(Characters), cap \in Nat \ {0}, Paired, NEW n \in Nat,
           NEW chunks \in Seq(Seq(1..n)), NEW bytes \in Seq(1..n),
           \A k \in DOMAIN chunks : Pieces(chunks[k]), Pieces(bytes)
    PROVE  /\ Flushed(chunks, bytes) \in Seq(Seq(1..n))
           /\ \A k \in DOMAIN Flushed(chunks, bytes) : Pieces(Flushed(chunks, bytes)[k])
<1>1. CASE bytes = <<>>
  BY <1>1 DEF Flushed
<1>2. CASE bytes # <<>>
  <2>1. TrimSpace(bytes) \in Seq(1..n)
    <3>1. 1..n \subseteq Nat
      OBVIOUS
    <3> QED
      BY <3>1, Trimming
  <2>2. Pieces(TrimSpace(bytes))
    BY TrimmedPieces
  <2>3. Flushed(chunks, bytes) = Append(chunks, TrimSpace(bytes))
    BY <1>2 DEF Flushed
  <2> DEFINE more == Append(chunks, TrimSpace(bytes))
  <2>4. /\ more \in Seq(Seq(1..n)) /\ DOMAIN more = 1..Len(chunks)+1
        /\ DOMAIN chunks = 1..Len(chunks) /\ Len(chunks) \in Nat
        /\ \A k \in 1..Len(chunks) : more[k] = chunks[k]
        /\ more[Len(chunks)+1] = TrimSpace(bytes)
    BY <2>1, Appended
  <2> HIDE DEF more
  <2>5. ASSUME NEW k \in DOMAIN more PROVE Pieces(more[k])
    <3>1. CASE k = Len(chunks) + 1
      BY <2>2, <2>4, <3>1
    <3>2. CASE k # Len(chunks) + 1
      <4>1. k \in DOMAIN chunks /\ more[k] = chunks[k]
        BY <2>4, <3>2
      <4> QED
        BY <4>1
    <3> QED
      BY <3>1, <3>2
  <2> QED
    BY <2>3, <2>4, <2>5 DEF more
<1> QED
  BY <1>1, <1>2

(* Nothing is no piece of anything. *)
LEMMA NoPieces == Pieces(<<>>)
BY DEF Pieces, Single, Valid

(* So does the end of an iteration. *)
LEMMA WrittenPieces ==
    ASSUME content \in Seq(Characters), cap \in Nat \ {0}, Paired, NEW n \in Nat,
           NEW chunks \in Seq(Seq(1..n)), NEW bytes \in Seq(1..n),
           \A k \in DOMAIN chunks : Pieces(chunks[k]), Pieces(bytes),
           Written(chunks, bytes)
    PROVE  /\ \A k \in DOMAIN rows' : Pieces(rows'[k])
           /\ Pieces(buf')
<1>1. CASE Len(bytes) >= cap
  <2>1. rows' = Flushed(chunks, bytes) /\ buf' = <<>>
    BY <1>1 DEF Written
  <2> QED
    BY <2>1, FlushedPieces, NoPieces
<1>2. CASE ~(Len(bytes) >= cap)
  BY <1>2 DEF Written
<1> QED
  BY <1>1, <1>2

(* A file that Open accepts is UTF-8. *)
LEMMA AcceptedIsPaired ==
    ASSUME content \in Seq(Characters), Valid(Span(1, Len(content)))
    PROVE  Paired
<1> DEFINE span == Span(1, Len(content))
           m == Len(content)
<1>1. /\ m \in Nat /\ Len(span) = m /\ DOMAIN span = 1..m
      /\ \A i \in 1..m : span[i] = i
  BY DEF Span
<1>2. /\ \A i \in 1..m : Char(span[i]) = "lead" => i < m /\ Char(span[i+1]) = "trail"
      /\ \A i \in 1..m : Char(span[i]) = "trail" => i > 1 /\ Char(span[i-1]) = "lead"
  BY <1>1 DEF Valid
<1> HIDE DEF span, m
<1>3. ASSUME NEW p \in 1..m
      PROVE  /\ Char(p) = "lead" => p < m /\ Char(p+1) = "trail"
             /\ Char(p) = "trail" => p > 1 /\ Char(p-1) = "lead"
  <2>1. p < m => p + 1 \in 1..m /\ span[p+1] = p + 1
    BY <1>1
  <2>2. p > 1 => p - 1 \in 1..m /\ span[p-1] = p - 1
    BY <1>1
  <2> QED
    BY <1>1, <1>2, <2>1, <2>2
<1> QED
  BY <1>3 DEF Paired, m

(* Neither a line nor what follows it begins in the middle of a character. *)
LEMMA LinesAreWhole ==
    ASSUME content \in Seq(Characters), Paired, LineStart, at \in Nat \ {0},
           NEW end \in Nat, Char(end) = "newline"
    PROVE  Char(at) # "trail" /\ Char(end+1) # "trail"
<1>1. Char(at) = "trail" => at > 1 /\ Char(at-1) = "lead"
  BY Pairs
<1>2. Char(end+1) = "trail" => Char((end+1)-1) = "lead"
  BY Pairs
<1>3. (end+1)-1 = end
  OBVIOUS
<1> QED
  BY <1>1, <1>2, <1>3 DEF LineStart

(* The line at hand is cut. *)
LEMMA ThisLineIsCut ==
    ASSUME at \in Nat \ {0}, cap \in Nat \ {0}, LineStart,
           NEW end \in Nat, EndsLine(end), end > at + cap
    PROVE  IsCut(at) /\ \A p \in at+cap..end : InTail(p)
<1>1. IsCut(at)
  <2>1. \A p \in at..at+cap : p \in at..end-1
    OBVIOUS
  <2> QED
    BY <2>1 DEF IsCut, LineStart, EndsLine
<1>2. ASSUME NEW p \in at+cap..end PROVE InTail(p)
  <2>1. at \in 1..p-cap /\ \A q \in at..p-1 : q \in at..end-1
    OBVIOUS
  <2> QED
    BY <1>1, <2>1 DEF InTail, EndsLine
<1> QED
  BY <1>1, <1>2

(* A line added to the buffer leaves it in pieces as they should be. *)
LEMMA LinePieces ==
    ASSUME content \in Seq(Characters), Paired, LineStart, at \in Nat \ {0},
           NEW end \in Nat, end > at, Char(end) = "newline",
           buf \in Seq(1..at-1), Pieces(buf)
    PROVE  /\ buf \o Span(at, end) \in Seq(1..end)
           /\ Pieces(buf \o Span(at, end))
<1> DEFINE span == Span(at, end)
           S == 1..end
<1>1. span \in Seq(S) /\ Range(span) = at..end
  BY Spans
<1>2. buf \in Seq(S)
  <2>1. 1..at-1 \subseteq 1..end
    OBVIOUS
  <2> QED
    BY <2>1
<1>3. Single(span) /\ Valid(span)
  BY SpanPieces, LinesAreWhole
<1>4. \A p \in Range(buf) : p \in 1..at-1
  BY DEF Range
<1>5. \A p \in Range(buf) \cap Range(span) : InTail(p)
  BY <1>1, <1>4
<1> HIDE DEF span, S
<1>6. Single(buf \o span)
  BY <1>1, <1>2, <1>3, <1>5, JoinedPieces DEF Pieces
<1>7. Valid(buf) => Valid(buf \o span)
  BY <1>1, <1>2, <1>3, JoinedPieces
<1>8. buf \o span \in Seq(S) /\ Range(buf \o span) = Range(buf) \cup Range(span)
  BY <1>1, <1>2, Joined
<1>9. CutThrough(buf) => CutThrough(buf \o span)
  BY <1>8 DEF CutThrough
<1> QED
  BY <1>6, <1>7, <1>8, <1>9 DEF Pieces, span, S

(* The head of a line that is cut, and its tail taken twice, are pieces as *)
(* they should be: the cut breaks one character at most.                   *)
LEMMA CutPieces ==
    ASSUME content \in Seq(Characters), Paired, LineStart, at \in Nat \ {0},
           cap \in Nat \ {0}, NEW end \in Nat, EndsLine(end), end > at + cap
    PROVE  /\ CutHead \in Seq(1..end) /\ Pieces(CutHead)
           /\ CutTail(end) \o CutTail(end) \in Seq(1..end)
           /\ Pieces(CutTail(end) \o CutTail(end))
<1> DEFINE head == Span(at, at + cap - 1)
           tail == Span(at + cap, end)
           twice == tail \o tail
           S == 1..end
<1>1. CutHead = head /\ CutTail(end) = tail
  BY DEF CutHead, CutTail
<1>2. IsCut(at) /\ \A p \in at+cap..end : InTail(p)
  BY ThisLineIsCut
<1>3. at \in DOMAIN content
  BY DEF EndsLine
<1>4. Char(at) # "trail" /\ Char(end+1) # "trail"
  BY LinesAreWhole DEF EndsLine
<1>5. head \in Seq(S) /\ Range(head) = at..at+cap-1
  <2>1. head \in Seq(1..at+cap-1) /\ Range(head) = at..at+cap-1
    <3>1. at + cap - 1 \in Nat /\ at + cap - 1 >= at - 1
      OBVIOUS
    <3> QED
      BY <3>1, Spans
  <2>2. 1..at+cap-1 \subseteq S
    OBVIOUS
  <2> HIDE DEF head, S
  <2>3. Seq(1..at+cap-1) \subseteq Seq(S)
    BY <2>2
  <2> QED
    BY <2>1, <2>3
<1>6. Single(head) /\ (Char(at+cap) # "trail" => Valid(head))
  <2>1. at + cap - 1 \in Nat /\ at + cap - 1 >= at - 1 /\ (at + cap - 1) + 1 = at + cap
    OBVIOUS
  <2> HIDE DEF head
  <2>2. /\ Single(head)
        /\ Char(at) # "trail" /\ Char((at + cap - 1) + 1) # "trail" => Valid(head)
    BY <2>1, SpanPieces DEF head
  <2> QED
    BY <1>4, <2>1, <2>2
<1>7. tail \in Seq(S) /\ Range(tail) = at+cap..end
  <2>1. at + cap \in Nat \ {0} /\ end >= (at + cap) - 1
    OBVIOUS
  <2> QED
    BY <2>1, Spans
<1>8. Single(tail) /\ (Char(at+cap) # "trail" => Valid(tail))
  <2>1. at + cap \in Nat \ {0} /\ end >= (at + cap) - 1
    OBVIOUS
  <2> QED
    BY <1>4, <2>1, SpanPieces
<1> HIDE DEF head, tail, S
<1>9. /\ twice \in Seq(S) /\ Range(twice) = Range(tail)
      /\ Single(twice) /\ (Char(at+cap) # "trail" => Valid(twice))
  <2>1. twice \in Seq(S) /\ Range(twice) = Range(tail) \cup Range(tail)
    BY <1>7, Joined
  <2>2. \A p \in Range(tail) \cap Range(tail) : InTail(p)
    BY <1>2, <1>7
  <2>3. Single(twice)
    BY <1>7, <1>8, <2>2, JoinedPieces
  <2>4. Valid(tail) => Valid(twice)
    BY <1>7, JoinedPieces
  <2> QED
    BY <1>8, <2>1, <2>3, <2>4
<1>10. Char(at+cap) = "trail" => CutThrough(head) /\ CutThrough(twice)
  <2>1. at + cap - 1 \in Range(head)
    BY <1>5
  <2>2. at + cap \in Range(twice)
    BY <1>7, <1>9
  <2> QED
    BY <1>2, <1>3, <2>1, <2>2 DEF CutThrough
<1> QED
  BY <1>1, <1>5, <1>6, <1>9, <1>10 DEF Pieces, S

(* As long as the file and the cap stay, pieces remain pieces. *)
LEMMA PiecesCarried ==
    ASSUME UNCHANGED <<content, cap>>, ChunkerInv',
           outcome' \in {"start", "scan"} => at' = 1 \/ Char(at'-1) = "newline",
           outcome' = "scan" => Paired,
           \A k \in DOMAIN rows' : Pieces(rows'[k]), Pieces(buf')
    PROVE  PiecesInv'
<1>1. \A k \in DOMAIN rows' : Pieces(rows[k])'
  BY DEF Pieces, Single, Valid, CutThrough, InTail, IsCut, Char
<1>2. Pieces(buf)'
  BY DEF Pieces, Single, Valid, CutThrough, InTail, IsCut, Char
<1>3. outcome' \in {"start", "scan"} => LineStart'
  BY DEF LineStart, Char
<1>4. outcome' = "scan" => Paired'
  BY DEF Paired, Char
<1> QED
  BY <1>1, <1>2, <1>3, <1>4 DEF PiecesInv

(* No chunk is there at first. *)
LEMMA PiecesInit == Init => PiecesInv
<1> SUFFICES ASSUME Init PROVE PiecesInv
  OBVIOUS
<1>1. ChunkerInv
  BY ChunkerInit
<1>2. rows = <<>> /\ DOMAIN rows = {} /\ buf = <<>> /\ at = 1 /\ outcome = "start"
  BY DEF Init
<1> QED
  BY <1>1, <1>2, NoPieces DEF PiecesInv, LineStart

(* Places in a part of the file are places in a longer part. *)
LEMMA MorePlaces ==
    ASSUME NEW m \in Nat, NEW n \in Nat, m <= n
    PROVE  Seq(1..m) \subseteq Seq(1..n) /\ Seq(Seq(1..m)) \subseteq Seq(Seq(1..n))
<1>1. 1..m \subseteq 1..n
  OBVIOUS
<1>2. Seq(1..m) \subseteq Seq(1..n)
  BY <1>1
<1>3. Seq(Seq(1..m)) \subseteq Seq(Seq(1..n))
  BY <1>2
<1> QED
  BY <1>2, <1>3

(* Every step keeps the pieces. *)
LEMMA PiecesStep == PiecesInv /\ [Next]_vars => PiecesInv'
<1> SUFFICES ASSUME PiecesInv, [Next]_vars PROVE PiecesInv'
  OBVIOUS
<1>1. ChunkerInv'
  BY ChunkerStep DEF PiecesInv
<1>2. /\ content \in Seq(Characters) /\ cap \in Nat \ {0} /\ at \in Nat \ {0}
      /\ Pieces(buf) /\ \A k \in DOMAIN rows : Pieces(rows[k])
  BY DEF PiecesInv, ChunkerInv
<1>3. outcome = "scan" =>
          /\ Paired /\ LineStart /\ at - 1 \in Nat
          /\ rows \in Seq(Seq(1..at-1)) /\ buf \in Seq(1..at-1)
  BY <1>2 DEF PiecesInv, ChunkerInv, Sound, Placed
<1>4. outcome = "scan" =>
          /\ Flushed(rows, buf) \in Seq(Seq(1..at-1))
          /\ \A k \in DOMAIN Flushed(rows, buf) : Pieces(Flushed(rows, buf)[k])
  BY <1>2, <1>3, FlushedPieces
<1>5. CASE Open
  <2>1. UNCHANGED <<content, cap, at, rows, buf>> /\ outcome = "start" /\ LineStart
    BY <1>5 DEF Open, PiecesInv
  <2>2. outcome' = "scan" => Paired
    BY <1>2, <1>5, AcceptedIsPaired DEF Open
  <2> QED
    BY <1>1, <1>2, <2>1, <2>2, PiecesCarried DEF LineStart
<1>6. CASE BlankLine
  <2>1. /\ Char(at) = "newline" /\ outcome = "scan"
        /\ rows' = Flushed(rows, buf) /\ buf' = <<>> /\ at' = at + 1
        /\ UNCHANGED <<content, cap, outcome>>
    BY <1>6 DEF BlankLine, EndsLine
  <2>2. Char(at'-1) = "newline"
    BY <1>2, <2>1
  <2> QED
    BY <1>1, <1>3, <1>4, <2>1, <2>2, NoPieces, PiecesCarried
<1>7. CASE ShortLine
  <2>1. PICK end \in LineEnds : /\ EndsLine(end) /\ end - at \in 1..cap
                                /\ Written(rows, buf \o Span(at, end))
                                /\ at' = end + 1
    BY <1>7 DEF ShortLine
  <2>2. outcome = "scan" /\ UNCHANGED <<content, cap, outcome>>
    BY <1>7 DEF ShortLine
  <2>3. end \in Nat /\ end > at /\ Char(end) = "newline" /\ at'-1 = end
    BY <1>2, <2>1 DEF LineEnds, EndsLine
  <2>4. /\ buf \o Span(at, end) \in Seq(1..end)
        /\ Pieces(buf \o Span(at, end))
    BY <1>2, <1>3, <2>2, <2>3, LinePieces
  <2>5. rows \in Seq(Seq(1..end))
    <3>1. at - 1 \in Nat /\ at - 1 <= end
      BY <1>2, <2>3
    <3>2. Seq(Seq(1..at-1)) \subseteq Seq(Seq(1..end))
      BY <2>3, <3>1, MorePlaces, Zenon
    <3> QED
      BY <1>3, <2>2, <3>2
  <2>6. (\A k \in DOMAIN rows' : Pieces(rows'[k])) /\ Pieces(buf')
    BY <1>2, <1>3, <2>1, <2>2, <2>3, <2>4, <2>5, WrittenPieces
  <2> QED
    BY <1>1, <1>3, <2>2, <2>3, <2>6, PiecesCarried
<1>8. CASE OverlongLine
  <2>1. PICK end \in LineEnds :
           /\ EndsLine(end) /\ end - at > cap /\ end - at < LineLimit
           /\ Written(Append(Flushed(rows, buf), CutHead), CutTail(end) \o CutTail(end))
           /\ at' = end + 1
    BY <1>8 DEF OverlongLine
  <2>2. outcome = "scan" /\ UNCHANGED <<content, cap, outcome>>
    BY <1>8 DEF OverlongLine
  <2>3. end \in Nat /\ end > at + cap /\ Char(end) = "newline" /\ at'-1 = end
    BY <1>2, <2>1 DEF LineEnds, EndsLine
  <2>4. /\ CutHead \in Seq(1..end) /\ Pieces(CutHead)
        /\ CutTail(end) \o CutTail(end) \in Seq(1..end)
        /\ Pieces(CutTail(end) \o CutTail(end))
    BY <1>2, <1>3, <2>1, <2>2, <2>3, CutPieces
  <2> DEFINE flushed == Flushed(rows, buf)
             chunks == Append(flushed, CutHead)
             twice == CutTail(end) \o CutTail(end)
  <2>5. flushed \in Seq(Seq(1..end)) /\ \A k \in DOMAIN flushed : Pieces(flushed[k])
    <3>1. at - 1 \in Nat /\ at - 1 <= end
      BY <1>2, <2>3
    <3>2. Seq(Seq(1..at-1)) \subseteq Seq(Seq(1..end))
      BY <2>3, <3>1, MorePlaces, Zenon
    <3> QED
      BY <1>4, <2>2, <3>2
  <2> HIDE DEF flushed
  <2>6. /\ chunks \in Seq(Seq(1..end)) /\ DOMAIN chunks = 1..Len(flushed)+1
        /\ DOMAIN flushed = 1..Len(flushed) /\ Len(flushed) \in Nat
        /\ \A k \in 1..Len(flushed) : chunks[k] = flushed[k]
        /\ chunks[Len(flushed)+1] = CutHead
    BY <2>4, <2>5, Appended
  <2>7. Written(chunks, twice)
    BY <2>1 DEF flushed
  <2>8. twice \in Seq(1..end) /\ Pieces(twice)
    BY <2>4
  <2> HIDE DEF chunks, twice
  <2>9. ASSUME NEW k \in DOMAIN chunks PROVE Pieces(chunks[k])
    <3>1. CASE k = Len(flushed) + 1
      BY <2>4, <2>6, <3>1
    <3>2. CASE k # Len(flushed) + 1
      <4>1. k \in DOMAIN flushed /\ chunks[k] = flushed[k]
        BY <2>6, <3>2
      <4> QED
        BY <2>5, <4>1
    <3> QED
      BY <3>1, <3>2
  <2>10. (\A k \in DOMAIN rows' : Pieces(rows'[k])) /\ Pieces(buf')
    BY <1>2, <1>3, <2>2, <2>3, <2>6, <2>7, <2>8, <2>9, WrittenPieces
  <2> QED
    BY <1>1, <1>3, <2>2, <2>3, <2>10, PiecesCarried
<1>9. CASE TooLong
  <2>1. /\ rows' = <<>> /\ DOMAIN rows' = {} /\ buf' = <<>> /\ outcome' = "error"
        /\ UNCHANGED <<content, cap>>
    BY <1>9 DEF TooLong
  <2> QED
    BY <1>1, <2>1, NoPieces, PiecesCarried
<1>10. CASE EndOfFile
  <2>1. /\ outcome = "scan" /\ rows' = Flushed(rows, buf) /\ buf' = <<>>
        /\ outcome' = "rows" /\ UNCHANGED <<content, cap>>
    BY <1>10 DEF EndOfFile
  <2> QED
    BY <1>1, <1>4, <2>1, NoPieces, PiecesCarried
<1>11. CASE UNCHANGED vars
  <2>1. UNCHANGED <<content, cap, at, rows, buf, outcome>>
    BY <1>11 DEF vars
  <2>2. /\ outcome' \in {"start", "scan"} => at' = 1 \/ Char(at'-1) = "newline"
        /\ outcome' = "scan" => Paired
    BY <2>1 DEF PiecesInv, LineStart
  <2> QED
    BY <1>1, <1>2, <2>1, <2>2, PiecesCarried
<1> QED
  BY <1>5, <1>6, <1>7, <1>8, <1>9, <1>10, <1>11 DEF Next

(* The invariant of the pieces holds throughout. *)
THEOREM PiecesInvariant == Spec => []PiecesInv
  BY PiecesInit, PiecesStep, PTL DEF Spec

(* text_chunker.go:70-78: a byte is in a chunk twice only if it is in the  *)
(* tail of an over-long line, whatever lines stand around it.              *)
THEOREM OnlyTailsAreTwice == Spec => []OnlyTailsAreDoubled
<1>1. PiecesInv => OnlyTailsAreDoubled
  BY DEF PiecesInv, Pieces, Single, OnlyTailsAreDoubled
<1> QED
  BY <1>1, PiecesInvariant, PTL

(* text_chunker.go:72: of a UTF-8 file no chunk has half a character but   *)
(* the two that a cut made of one, whatever trimming drops at their ends.  *)
THEOREM OnlyCutCharactersBreak == Spec => []OnlyCutsBreakCharacters
<1>1. PiecesInv => OnlyCutsBreakCharacters
  BY DEF PiecesInv, Pieces, CutThrough, OnlyCutsBreakCharacters
<1> QED
  BY <1>1, PiecesInvariant, PTL

-----------------------------------------------------------------------------
(***************************************************************************)
(* How long a chunk may be.                                                *)
(***************************************************************************)
Fits(bytes) ==
    \/ Len(bytes) < 2 * cap
    \/ Len(bytes) < Bound /\ \E p \in Range(bytes) : InTail(p)

Flushable(bytes) == bytes = <<>> \/ Fits(TrimSpace(bytes))

AllFit(chunks) == \A k \in DOMAIN chunks : Fits(chunks[k])

FitInv == PiecesInv /\ AllFit(rows)

(* A newline at the end does not survive the trimming. *)
LEMMA TrimmedIsShorter ==
    ASSUME NEW n \in Nat, NEW bytes \in Seq(1..n), Len(bytes) > 0,
           Char(bytes[Len(bytes)]) = "newline"
    PROVE  Len(TrimSpace(bytes)) < Len(bytes)
<1>1. CASE Inked(bytes) = {}
  BY <1>1 DEF TrimSpace
<1>2. CASE Inked(bytes) # {}
  <2>1. PICK from, to \in Inked(bytes) : TrimsTo(bytes, from, to)
    BY <1>2, TrimmedPart
  <2>2. to # Len(bytes)
    BY DEF Inked
  <2> QED
    BY <2>1, <2>2 DEF TrimsTo
<1> QED
  BY <1>1, <1>2

(* What is shorter than twice the cap may be flushed. *)
LEMMA ShortIsFlushable ==
    ASSUME cap \in Nat \ {0}, NEW n \in Nat, NEW bytes \in Seq(1..n),
           Len(bytes) < 2 * cap
    PROVE  Flushable(bytes)
<1>1. 1..n \subseteq Nat
  OBVIOUS
<1>2. TrimSpace(bytes) \in Seq(1..n) /\ Len(TrimSpace(bytes)) <= Len(bytes)
  BY <1>1, Trimming
<1>3. Len(TrimSpace(bytes)) \in Nat /\ Len(bytes) \in Nat
  BY <1>2
<1> QED
  BY <1>2, <1>3 DEF Flushable, Fits

(* A concatenation ends as its second part does. *)
LEMMA LastJoined ==
    ASSUME NEW S, NEW s \in Seq(S), NEW t \in Seq(S), Len(t) > 0
    PROVE  /\ s \o t \in Seq(S) /\ Len(s \o t) = Len(s) + Len(t)
           /\ (s \o t)[Len(s \o t)] = t[Len(t)]
<1>1. Len(s) \in Nat /\ Len(t) \in Nat
  OBVIOUS
<1>2. s \o t \in Seq(S) /\ Len(s \o t) = Len(s) + Len(t)
  OBVIOUS
<1>3. (s \o t)[Len(s) + Len(t)] = t[Len(t)]
  BY <1>1
<1> QED
  BY <1>2, <1>3

(* So may a buffer below the cap to which a line of at most the cap was    *)
(* added: only with the newline that is trimmed does it reach twice the    *)
(* cap.                                                                    *)
LEMMA LineIsFlushable ==
    ASSUME cap \in Nat \ {0}, at \in Nat \ {0}, NEW end \in Nat,
           end - at \in 1..cap, Char(end) = "newline",
           buf \in Seq(1..at-1), Len(buf) < cap
    PROVE  Flushable(buf \o Span(at, end))
<1> DEFINE span == Span(at, end)
           line == buf \o span
<1>1. /\ span \in Seq(1..end) /\ Len(span) = end - at + 1 /\ Len(span) > 0
      /\ span[Len(span)] = end
  BY DEF Span
<1>2. buf \in Seq(1..end) /\ Len(buf) \in Nat
  <2>1. 1..at-1 \subseteq 1..end
    OBVIOUS
  <2> QED
    BY <2>1
<1> HIDE DEF span
<1>3. /\ line \in Seq(1..end) /\ Len(line) = Len(buf) + Len(span)
      /\ line[Len(line)] = end
  <2> DEFINE places == 1..end
  <2>1. buf \in Seq(places) /\ span \in Seq(places) /\ Len(span) > 0
    BY <1>1, <1>2
  <2> HIDE DEF places
  <2>2. /\ buf \o span \in Seq(places)
        /\ Len(buf \o span) = Len(buf) + Len(span)
        /\ (buf \o span)[Len(buf \o span)] = span[Len(span)]
    BY <2>1, LastJoined
  <2> QED
    BY <1>1, <2>2 DEF places
<1> HIDE DEF line
<1>4. Len(line) > 0 /\ Len(line) <= 2 * cap
  <2>1. Len(span) \in Nat /\ Len(span) > 0 /\ Len(span) <= cap + 1
    BY <1>1
  <2>2. Len(buf) \in Nat /\ Len(buf) + 1 <= cap
    BY <1>2
  <2> QED
    BY <1>3, <2>1, <2>2
<1>5. Len(TrimSpace(line)) < Len(line)
  <2>1. Char(line[Len(line)]) = "newline"
    BY <1>3
  <2> QED
    BY <1>3, <1>4, <2>1, TrimmedIsShorter
<1>6. Len(TrimSpace(line)) \in Nat
  <2>1. 1..end \subseteq Nat
    OBVIOUS
  <2>2. TrimSpace(line) \in Seq(1..end)
    BY <1>3, <2>1, Trimming
  <2> QED
    BY <2>2
<1>7. Len(TrimSpace(line)) < 2 * cap
  BY <1>3, <1>4, <1>5, <1>6
<1> QED
  BY <1>7 DEF Flushable, Fits, line, span

(* So may the tail of an over-long line, twice: the scanner has let it     *)
(* through, and what is not trimmed of it is in the tail.                  *)
LEMMA TailIsFlushable ==
    ASSUME cap \in Nat \ {0}, at \in Nat \ {0}, LineStart, NEW end \in Nat,
           EndsLine(end), end > at + cap, end - at < LineLimit
    PROVE  Flushable(CutTail(end) \o CutTail(end))
<1> DEFINE tail == Span(at + cap, end)
           twice == tail \o tail
<1>1. /\ tail \in Seq(1..end) /\ Len(tail) = end - (at + cap) + 1 /\ Len(tail) > 0
      /\ tail[Len(tail)] = end
  BY DEF Span
<1>2. Range(tail) = at+cap..end
  BY Spans
<1> HIDE DEF tail
<1>3. /\ twice \in Seq(1..end) /\ Len(twice) = Len(tail) + Len(tail)
      /\ twice[Len(twice)] = end
  BY <1>1, LastJoined
<1>4. Range(twice) = at+cap..end
  <2>1. Range(twice) = Range(tail) \cup Range(tail)
    BY <1>1, Joined
  <2> QED
    BY <1>2, <2>1
<1>5. \A p \in Range(twice) : InTail(p)
  BY <1>4, ThisLineIsCut
<1> HIDE DEF twice
<1>6. Char(end) = "newline"
  BY DEF EndsLine
<1>7. Len(TrimSpace(twice)) < Len(twice)
  <2>1. Len(twice) > 0
    BY <1>1, <1>3
  <2> QED
    BY <1>3, <1>6, <2>1, TrimmedIsShorter
<1>8. /\ TrimSpace(twice) \in Seq(1..end)
      /\ Range(TrimSpace(twice)) \subseteq Range(twice)
  <2>1. 1..end \subseteq Nat
    OBVIOUS
  <2> QED
    BY <1>3, <2>1, Trimming
<1>9. Len(TrimSpace(twice)) < Bound
  <2>1. Len(TrimSpace(twice)) \in Nat
    BY <1>8
  <2>2. LineLimit \in Nat
    BY Limits
  <2> QED
    BY <1>1, <1>3, <1>7, <2>1, <2>2 DEF Bound
<1>10. CASE TrimSpace(twice) = <<>>
  BY <1>10 DEF Flushable, Fits, CutTail, twice, tail
<1>11. CASE TrimSpace(twice) # <<>>
  <2>1. TrimSpace(twice)[1] \in Range(TrimSpace(twice))
    BY <1>8, <1>11 DEF Range
  <2>2. Fits(TrimSpace(twice))
    BY <1>5, <1>8, <1>9, <2>1 DEF Fits
  <2> QED
    BY <2>2 DEF Flushable, CutTail, twice, tail
<1> QED
  BY <1>10, <1>11

(* A flush makes a chunk that fits of what may be flushed. *)
LEMMA FlushedFit ==
    ASSUME NEW n \in Nat, NEW chunks \in Seq(Seq(1..n)), NEW bytes \in Seq(1..n),
           AllFit(chunks), Flushable(bytes)
    PROVE  AllFit(Flushed(chunks, bytes))
<1>1. CASE bytes = <<>>
  BY <1>1 DEF Flushed
<1>2. CASE bytes # <<>>
  <2> DEFINE more == Append(chunks, TrimSpace(bytes))
  <2>1. TrimSpace(bytes) \in Seq(1..n)
    <3>1. 1..n \subseteq Nat
      OBVIOUS
    <3> QED
      BY <3>1, Trimming
  <2>2. /\ DOMAIN more = 1..Len(chunks)+1
        /\ DOMAIN chunks = 1..Len(chunks) /\ Len(chunks) \in Nat
        /\ \A k \in 1..Len(chunks) : more[k] = chunks[k]
        /\ more[Len(chunks)+1] = TrimSpace(bytes)
    BY <2>1, Appended
  <2> HIDE DEF more
  <2>3. \A k \in DOMAIN more : k \in DOMAIN chunks \/ k = Len(chunks) + 1
    BY <2>2
  <2>4. AllFit(more)
    BY <1>2, <2>2, <2>3 DEF AllFit, Flushable
  <2> QED
    BY <1>2, <2>4 DEF Flushed, more
<1> QED
  BY <1>1, <1>2

(* So does the end of an iteration. *)
LEMMA WrittenFit ==
    ASSUME NEW n \in Nat, NEW chunks \in Seq(Seq(1..n)), NEW bytes \in Seq(1..n),
           AllFit(chunks), Flushable(bytes), Written(chunks, bytes)
    PROVE  AllFit(rows')
<1>1. CASE Len(bytes) >= cap
  BY <1>1, FlushedFit DEF Written
<1>2. CASE ~(Len(bytes) >= cap)
  BY <1>2 DEF Written
<1> QED
  BY <1>1, <1>2

(* What fits still does after the step, as the file and the cap stay.      *)
LEMMA FitCarried ==
    ASSUME UNCHANGED <<content, cap>>, PiecesInv', AllFit(rows')
    PROVE  FitInv'
<1>1. AllFit(rows)'
  BY DEF AllFit, Fits, Bound, LineLimit, InTail, IsCut, Char
<1> QED
  BY <1>1 DEF FitInv

(* Every step leaves chunks that fit. *)
LEMMA FitStep == FitInv /\ [Next]_vars => FitInv'
<1> SUFFICES ASSUME FitInv, [Next]_vars PROVE FitInv'
  OBVIOUS
<1>1. PiecesInv /\ PiecesInv' /\ AllFit(rows)
  BY PiecesStep DEF FitInv
<1>2. cap \in Nat \ {0} /\ at \in Nat \ {0} /\ Len(buf) < cap
  BY <1>1 DEF PiecesInv, ChunkerInv
<1>3. outcome = "scan" =>
          /\ LineStart /\ at - 1 \in Nat
          /\ rows \in Seq(Seq(1..at-1)) /\ buf \in Seq(1..at-1)
  BY <1>1, <1>2 DEF PiecesInv, ChunkerInv, Sound, Placed
<1>4. outcome = "scan" =>
          /\ Flushed(rows, buf) \in Seq(Seq(1..at-1))
          /\ AllFit(Flushed(rows, buf))
  <2> SUFFICES ASSUME outcome = "scan"
               PROVE  /\ Flushed(rows, buf) \in Seq(Seq(1..at-1))
                      /\ AllFit(Flushed(rows, buf))
    OBVIOUS
  <2>1. Len(buf) \in Nat /\ Len(buf) < 2 * cap
    BY <1>2, <1>3
  <2>2. Flushable(buf)
    BY <1>2, <1>3, <2>1, ShortIsFlushable
  <2>3. AllFit(Flushed(rows, buf))
    BY <1>1, <1>3, <2>2, FlushedFit
  <2>4. TrimSpace(buf) \in Seq(1..at-1)
    <3>1. 1..at-1 \subseteq Nat
      OBVIOUS
    <3> QED
      BY <1>3, <3>1, Trimming
  <2>5. Flushed(rows, buf) \in Seq(Seq(1..at-1))
    <3>1. Append(rows, TrimSpace(buf)) \in Seq(Seq(1..at-1))
      BY <1>3, <2>4, Appended
    <3> QED
      BY <1>3, <3>1 DEF Flushed
  <2> QED
    BY <2>3, <2>5
<1>5. CASE Open
  <2>1. UNCHANGED <<content, cap, rows>>
    BY <1>5 DEF Open
  <2> QED
    BY <1>1, <2>1, FitCarried
<1>6. CASE BlankLine
  <2>1. outcome = "scan" /\ rows' = Flushed(rows, buf) /\ UNCHANGED <<content, cap>>
    BY <1>6 DEF BlankLine
  <2> QED
    BY <1>1, <1>4, <2>1, FitCarried
<1>7. CASE ShortLine
  <2>1. PICK end \in LineEnds : /\ EndsLine(end) /\ end - at \in 1..cap
                                /\ Written(rows, buf \o Span(at, end))
    BY <1>7 DEF ShortLine
  <2>2. outcome = "scan" /\ UNCHANGED <<content, cap>>
    BY <1>7 DEF ShortLine
  <2>3. end \in Nat /\ end > at /\ Char(end) = "newline"
    BY <1>2, <2>1 DEF LineEnds, EndsLine
  <2>4. Flushable(buf \o Span(at, end))
    BY <1>2, <1>3, <2>1, <2>2, <2>3, LineIsFlushable
  <2>5. at - 1 \in Nat /\ at - 1 <= end
    BY <1>2, <2>3
  <2>6. rows \in Seq(Seq(1..end)) /\ buf \in Seq(1..end)
    <3>1. /\ Seq(1..at-1) \subseteq Seq(1..end)
          /\ Seq(Seq(1..at-1)) \subseteq Seq(Seq(1..end))
      BY <2>3, <2>5, MorePlaces, Zenon
    <3> QED
      BY <1>3, <2>2, <3>1
  <2>7. buf \o Span(at, end) \in Seq(1..end)
    <3>1. Span(at, end) \in Seq(1..end)
      BY <1>2, <2>3, Spans
    <3> QED
      BY <2>6, <3>1
  <2>8. AllFit(rows')
    BY <1>1, <2>1, <2>3, <2>4, <2>6, <2>7, WrittenFit
  <2> QED
    BY <1>1, <2>2, <2>8, FitCarried
<1>8. CASE OverlongLine
  <2>1. PICK end \in LineEnds :
           /\ EndsLine(end) /\ end - at > cap /\ end - at < LineLimit
           /\ Written(Append(Flushed(rows, buf), CutHead), CutTail(end) \o CutTail(end))
    BY <1>8 DEF OverlongLine
  <2>2. outcome = "scan" /\ UNCHANGED <<content, cap>>
    BY <1>8 DEF OverlongLine
  <2>3. end \in Nat /\ end > at + cap
    BY <1>2, <2>1 DEF LineEnds
  <2> DEFINE flushed == Flushed(rows, buf)
             chunks == Append(flushed, CutHead)
             twice == CutTail(end) \o CutTail(end)
  <2>4. Flushable(twice)
    BY <1>2, <1>3, <2>1, <2>2, <2>3, TailIsFlushable
  <2>5. twice \in Seq(1..end)
    <3>1. at + cap \in Nat \ {0} /\ end >= (at + cap) - 1
      BY <1>2, <2>3
    <3>2. Span(at + cap, end) \in Seq(1..end)
      <4> DEFINE start == at + cap
      <4>1. start \in Nat \ {0} /\ end >= start - 1
        BY <3>1
      <4> HIDE DEF start
      <4>2. Span(start, end) \in Seq(1..end)
        BY <2>3, <4>1, Spans
      <4> QED
        BY <4>2 DEF start
    <3>3. CutTail(end) \in Seq(1..end)
      BY <3>2 DEF CutTail
    <3> QED
      BY <3>3
  <2>6. CutHead \in Seq(1..end) /\ Len(CutHead) = cap
    BY <1>2, <2>3 DEF CutHead, Span
  <2>7. flushed \in Seq(Seq(1..end)) /\ AllFit(flushed)
    <3>1. at - 1 \in Nat /\ at - 1 <= end
      BY <1>2, <2>3
    <3>2. Seq(Seq(1..at-1)) \subseteq Seq(Seq(1..end))
      BY <2>3, <3>1, MorePlaces, Zenon
    <3> QED
      BY <1>4, <2>2, <3>2
  <2>8. Written(chunks, twice)
    BY <2>1
  <2> HIDE DEF flushed
  <2>9. /\ chunks \in Seq(Seq(1..end)) /\ DOMAIN chunks = 1..Len(flushed)+1
        /\ DOMAIN flushed = 1..Len(flushed) /\ Len(flushed) \in Nat
        /\ \A k \in 1..Len(flushed) : chunks[k] = flushed[k]
        /\ chunks[Len(flushed)+1] = CutHead
    BY <2>6, <2>7, Appended
  <2> HIDE DEF chunks, twice
  <2>10. Fits(CutHead)
    BY <1>2, <2>6 DEF Fits
  <2>11. \A k \in DOMAIN chunks : k \in DOMAIN flushed \/ k = Len(flushed) + 1
    BY <2>9
  <2>12. AllFit(chunks)
    BY <2>7, <2>9, <2>10, <2>11 DEF AllFit
  <2>13. AllFit(rows')
    BY <2>3, <2>4, <2>5, <2>8, <2>9, <2>12, WrittenFit
  <2> QED
    BY <1>1, <2>2, <2>13, FitCarried
<1>9. CASE TooLong
  <2>1. rows' = <<>> /\ UNCHANGED <<content, cap>>
    BY <1>9 DEF TooLong
  <2>2. AllFit(rows')
    BY <2>1 DEF AllFit
  <2> QED
    BY <1>1, <2>1, <2>2, FitCarried
<1>10. CASE EndOfFile
  <2>1. outcome = "scan" /\ rows' = Flushed(rows, buf) /\ UNCHANGED <<content, cap>>
    BY <1>10 DEF EndOfFile
  <2> QED
    BY <1>1, <1>4, <2>1, FitCarried
<1>11. CASE UNCHANGED vars
  BY <1>1, <1>11, FitCarried DEF vars
<1> QED
  BY <1>5, <1>6, <1>7, <1>8, <1>9, <1>10, <1>11 DEF Next

(* text_chunker.go:23 and 79: a chunk stays below twice the cap, and one   *)
(* with bytes of the tail of an over-long line below twice what the        *)
(* scanner lets through of a line beyond the cap.                          *)
THEOREM ChunksAreBounded == Spec => []ChunkSizeBound
<1>1. Init => FitInv
  <2> SUFFICES ASSUME Init PROVE FitInv
    OBVIOUS
  <2>1. rows = <<>>
    BY DEF Init
  <2> QED
    BY <2>1, PiecesInit DEF FitInv, AllFit
<1>2. FitInv => ChunkSizeBound
  <2> SUFFICES ASSUME FitInv, NEW k \in DOMAIN rows
               PROVE  Len(rows[k]) < IF \E p \in Range(rows[k]) : InTail(p)
                                     THEN Bound ELSE 2 * cap
    BY DEF ChunkSizeBound, Bound
  <2>1. cap \in Nat \ {0} /\ Bound \in Nat /\ Bound >= 2 * cap
    BY Limits DEF FitInv, PiecesInv, ChunkerInv
  <2>2. Len(rows[k]) \in Nat
    BY DEF FitInv, PiecesInv, ChunkerInv, Sound, Placed
  <2>3. Fits(rows[k])
    BY DEF FitInv, AllFit
  <2>4. CASE \E p \in Range(rows[k]) : InTail(p)
    BY <2>1, <2>2, <2>3, <2>4 DEF Fits
  <2>5. CASE ~\E p \in Range(rows[k]) : InTail(p)
    BY <2>3, <2>5 DEF Fits
  <2> QED
    BY <2>4, <2>5
<1> QED
  BY <1>1, <1>2, FitStep, PTL DEF Spec
=============================================================================
