SPECIFICATION FairSpec
CONSTANTS
    Denominators = {1, 3}
    Items <- MCItems
    TypeErr <- MCTypeErr
    BATCH = 2
    Leftover <- MCOld
INVARIANTS TypeOK PagedUpToLast YayComplete YayExact
PROPERTIES Implements ShellEnds
