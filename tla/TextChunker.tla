----------------------------- MODULE TextChunker -----------------------------
(***************************************************************************)
(* The default chunker of the parse worker.  It scans a file line by line, *)
(* collects lines in a buffer, and ends a chunk at a blank line or when    *)
(* the buffer has reached the cap.  A line longer than the cap is cut      *)
(* once, and its tail is written to the buffer twice: before the break of  *)
(* the splitting loop and again behind the loop.                           *)
(*                                                                         *)
(* A file is a sequence of characters of five sorts: text, blank space,    *)
(* newline, and the lead and trail byte of a two-byte character.  A chunk  *)
(* is the sequence of the places in the file its bytes come from, so that  *)
(* a byte that is copied twice is told from two equal ones.                *)
(***************************************************************************)
EXTENDS Integers, Sequences, FiniteSetsExt

CONSTANTS
    Files,      \* the files that may be uploaded
    Caps,       \* the values of MaxChunkBytes (1500 where the field is 0)
    BufferSize  \* the capacity of the scanner's first buffer (64 KB)

Characters == {"text", "space", "newline", "lead", "trail"}

ASSUME ChunkerAssumption ==
    /\ Files \subseteq Seq(Characters)
    /\ Caps \subseteq Nat \ {0}
    /\ BufferSize \in Nat \ {0}

VARIABLES
    content,  \* in.Content
    cap,      \* the cap
    at,       \* the first place the scanner has not read
    rows,     \* the chunks
    buf,      \* what has been read and is in no chunk yet
    outcome   \* "start", "scan", or how Chunk returned: "rows" or "error"

vars == <<content, cap, at, rows, buf, outcome>>

Init ==
    /\ content \in Files
    /\ cap \in Caps
    /\ at = 1
    /\ rows = <<>>
    /\ buf = <<>>
    /\ outcome = "start"

-----------------------------------------------------------------------------
(* The last line ends with a newline, in the file or not.                  *)
Char(p) == IF p \in DOMAIN content THEN content[p] ELSE "newline"

Valid(bytes) ==
    \A i \in DOMAIN bytes :
        /\ Char(bytes[i]) = "lead" => i < Len(bytes) /\ Char(bytes[i+1]) = "trail"
        /\ Char(bytes[i]) = "trail" => i > 1 /\ Char(bytes[i-1]) = "lead"

Span(from, to) == [i \in 1..to-from+1 |-> from + i - 1]

(* The scanner fails on a line that fills its buffer without a newline; it *)
(* grows the buffer up to twice the cap, and never shrinks the first one.  *)
LineLimit == IF BufferSize > 2 * cap THEN BufferSize ELSE 2 * cap

(* strings.TrimSpace. *)
Inked(bytes) == {i \in DOMAIN bytes : Char(bytes[i]) \notin {"space", "newline"}}
TrimSpace(bytes) ==
    IF Inked(bytes) = {} THEN <<>>
    ELSE SubSeq(bytes, Min(Inked(bytes)), Max(Inked(bytes)))

Flushed(chunks, bytes) ==
    IF bytes = <<>> THEN chunks ELSE Append(chunks, TrimSpace(bytes))

(* The line to be scanned is at..end-1. *)
EndsLine(end) ==
    /\ at <= Len(content)
    /\ Char(end) = "newline"
    /\ \A p \in at..end-1 : Char(p) # "newline"

LineEnds == at..Len(content)+1

-----------------------------------------------------------------------------
(* Bug variant: the bytes are not looked at. *)
BugOpen ==
    /\ outcome = "start"
    /\ outcome' = IF content = <<>> THEN "rows" ELSE "scan"
    /\ UNCHANGED <<content, cap, at, rows, buf>>

(* An empty file has no chunks, and one that is not UTF-8 is refused (line *)
(* 40), although the comment above it (lines 35-37) says that binary files *)
(* "will surface as a single chunk containing the raw bytes".              *)
Open ==
    /\ outcome = "start"
    /\ outcome' = IF content = <<>> THEN "rows"
                  ELSE IF Valid(Span(1, Len(content))) THEN "scan" ELSE "error"
    /\ UNCHANGED <<content, cap, at, rows, buf>>

(* Bug variant: a blank line is skipped. *)
BugBlankLine ==
    /\ outcome = "scan"
    /\ EndsLine(at)
    /\ at' = at + 1
    /\ UNCHANGED <<content, cap, rows, buf, outcome>>

(* A blank line ends the paragraph. *)
BlankLine ==
    /\ outcome = "scan"
    /\ EndsLine(at)
    /\ rows' = Flushed(rows, buf) /\ buf' = <<>>
    /\ at' = at + 1
    /\ UNCHANGED <<content, cap, outcome>>

(* Bug variant: only a blank line ends a chunk. *)
BugWritten(chunks, bytes) == rows' = chunks /\ buf' = bytes

(* The end of an iteration: a buffer that has reached the cap is flushed.  *)
Written(chunks, bytes) ==
    IF Len(bytes) >= cap
    THEN rows' = Flushed(chunks, bytes) /\ buf' = <<>>
    ELSE rows' = chunks /\ buf' = bytes

(* Bug variant: every line is written twice. *)
BugShortLine ==
    /\ outcome = "scan"
    /\ \E end \in LineEnds :
          /\ EndsLine(end) /\ end - at \in 1..cap
          /\ Written(rows, buf \o Span(at, end) \o Span(at, end))
          /\ at' = end + 1
    /\ UNCHANGED <<content, cap, outcome>>

ShortLine ==
    /\ outcome = "scan"
    /\ \E end \in LineEnds :
          /\ EndsLine(end) /\ end - at \in 1..cap
          /\ Written(rows, buf \o Span(at, end))
          /\ at' = end + 1
    /\ UNCHANGED <<content, cap, outcome>>

CutHead == Span(at, at + cap - 1)

(* Bug variant: the tail takes a byte of the next line along.              *)
BugCutTail(end) == Span(at + cap, end + 1)
CutTail(end) == Span(at + cap, end)

(* Bug variant: the buffer is not flushed before the line is cut. *)
BugOverlongLine ==
    /\ outcome = "scan"
    /\ \E end \in LineEnds :
          /\ EndsLine(end) /\ end - at > cap /\ end - at < LineLimit
          /\ Written(Append(rows, CutHead), buf \o CutTail(end) \o CutTail(end))
          /\ at' = end + 1
    /\ UNCHANGED <<content, cap, outcome>>

(* A line longer than the cap: its head is a chunk, and its tail goes to   *)
(* the buffer twice, each time with a newline.                             *)
OverlongLine ==
    /\ outcome = "scan"
    /\ \E end \in LineEnds :
          /\ EndsLine(end) /\ end - at > cap /\ end - at < LineLimit
          /\ Written(Append(Flushed(rows, buf), CutHead), CutTail(end) \o CutTail(end))
          /\ at' = end + 1
    /\ UNCHANGED <<content, cap, outcome>>

(* bufio.ErrTooLong: the chunks made so far are dropped. *)
TooLong ==
    /\ outcome = "scan"
    /\ \E end \in LineEnds : EndsLine(end) /\ end - at >= LineLimit
    /\ rows' = <<>> /\ buf' = <<>>
    /\ outcome' = "error"
    /\ UNCHANGED <<content, cap, at>>

(* Bug variant: what is in the buffer is forgotten. *)
BugEndOfFile ==
    /\ outcome = "scan"
    /\ at > Len(content)
    /\ buf' = <<>>
    /\ outcome' = "rows"
    /\ UNCHANGED <<content, cap, at, rows>>

EndOfFile ==
    /\ outcome = "scan"
    /\ at > Len(content)
    /\ rows' = Flushed(rows, buf) /\ buf' = <<>>
    /\ outcome' = "rows"
    /\ UNCHANGED <<content, cap, at>>

Next == Open \/ BlankLine \/ ShortLine \/ OverlongLine \/ TooLong \/ EndOfFile

Spec == Init /\ [][Next]_vars

-----------------------------------------------------------------------------
ChunkerTypeOK ==
    /\ content \in Seq(Characters)
    /\ cap \in Nat \ {0}
    /\ at \in 1..Len(content)+2
    /\ rows \in Seq(Seq(1..at-1))
    /\ buf \in Seq(1..at-1)
    /\ outcome \in {"start", "scan", "rows", "error"}

(* text_chunker.go:83, the flush behind the loop, and 50-61: every byte    *)
(* that is not blank is in a chunk when Chunk returns rows, whatever       *)
(* blank, short and over-long lines came in which order.                   *)
NothingIsLost ==
    outcome \in {"scan", "rows"} =>
        \A p \in 1..at-1 :
            Char(p) \in {"space", "newline"} \/ p \in Range(buf)
                \/ \E k \in DOMAIN rows : p \in Range(rows[k])

(* The index of a chunk is its place in the file (text_chunker.go:57,72):  *)
(* what is in a chunk stands before all that is in the later ones, so that *)
(* no two chunks share a byte either.                                      *)
ChunksFollowTheFile ==
    \A k, l \in DOMAIN rows :
        k < l => \A p \in Range(rows[k]), q \in Range(rows[l]) : p < q

(* "splits UTF-8 text on double newlines (paragraph)" (line 11): no chunk  *)
(* reaches over an empty line.                                             *)
EmptyLine(p) == Char(p) = "newline" /\ (p = 1 \/ Char(p-1) = "newline")
ParagraphsStayApart ==
    \A k \in DOMAIN rows : \A p, q \in Range(rows[k]) :
        ~\E e \in p+1..q : EmptyLine(e)

(* Whether the line that begins at start is cut.                           *)
IsCut(start) ==
    /\ start = 1 \/ Char(start-1) = "newline"
    /\ \A p \in start..start+cap : Char(p) # "newline"

(* Whether p is in the tail of a line, its newline included.               *)
InTail(p) ==
    \E start \in 1..p-cap :
        IsCut(start) /\ \A q \in start..p-1 : Char(q) # "newline"

(* text_chunker.go:23 says that MaxChunkBytes "caps each chunk".  The code *)
(* looks at the size only after a line is written (line 79), and cuts a    *)
(* line only once: a chunk stays below twice the cap unless it has bytes   *)
(* of the tail of an over-long line, and one that has stays below twice    *)
(* all that the scanner lets through of a line beyond the cap.             *)
ChunkSizeBound ==
    \A k \in DOMAIN rows :
        Len(rows[k]) < IF \E p \in Range(rows[k]) : InTail(p)
                       THEN 2 * (LineLimit - cap) ELSE 2 * cap

(* text_chunker.go:70-78: the tail of an over-long line is in its chunk    *)
(* twice, and no other byte is in any chunk more than once.                *)
OnlyTailsAreDoubled ==
    \A k \in DOMAIN rows : \A i, j \in DOMAIN rows[k] :
        i < j /\ rows[k][i] = rows[k][j] => InTail(rows[k][i])

(* text_chunker.go:72, line[:cap] cuts between bytes: a character is in    *)
(* two pieces only if it stands at the cap of an over-long line.           *)
OnlyCutsBreakCharacters ==
    \A k \in DOMAIN rows :
        ~Valid(rows[k]) =>
            \E start \in DOMAIN content :
                /\ IsCut(start) /\ Char(start + cap) = "trail"
                /\ {start + cap - 1, start + cap} \cap Range(rows[k]) # {}
=============================================================================
