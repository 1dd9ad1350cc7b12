---------------------------- MODULE MCTextChunker ----------------------------
(* Small files for TextChunker: short ones of all characters, longer ones *)
(* of text and newlines, and some of both lead and trail bytes.           *)
EXTENDS TextChunker

Words(alphabet, lengths) == UNION {[1..n -> alphabet] : n \in lengths}

SmallFiles == Words(Characters, 0..5) \cup Words({"text", "newline"}, 6..11)
SmallCaps == {2, 5}
=============================================================================
