SPECIFICATION FairSpec
CONSTANTS
    a = a  b = b  c = c  x = x  y = y  old = old
    NULL = NULL  NOID = NOID  NOTASK = NOTASK
    Loc <- MCLoc
    NGem = 2
    GemOf <- MCGemOf
    Alts <- MCLongAlts
    WORKERS = 1
    MAXSIZE = 2
    MAXINVALID = 2
    Vbo = {x}
    OldId = {old}
    DumpRows <- MCOneRow
    Prompt = FALSE
PROPERTY Terminates
