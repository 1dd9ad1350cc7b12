SPECIFICATION Spec
CONSTANTS
    Files <- SmallFiles
    Caps <- SmallCaps
    BufferSize = 5
INVARIANTS ChunkerTypeOK NothingIsLost ChunksFollowTheFile ParagraphsStayApart ChunkSizeBound OnlyTailsAreDoubled OnlyCutsBreakCharacters
CHECK_DEADLOCK FALSE
