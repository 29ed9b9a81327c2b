SPECIFICATION Spec
CONSTANTS
    a = a  b = b  c = c  x = x  y = y  old = old
    NULL = NULL  NOID = NOID  NOTASK = NOTASK
    Loc <- MCLoc
    NGem = 2
    GemOf <- MCGemOf
    Alts <- MCCrashAlts
    WORKERS = 2
    MAXSIZE = 2
    MAXINVALID = 3
    Vbo <- MCVbo
    OldId = {old}
    DumpRows <- MCDumpRows
    Prompt = TRUE
INVARIANT AllLocationsSearched
