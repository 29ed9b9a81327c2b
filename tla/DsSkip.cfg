SPECIFICATION FairSpec
CONSTANTS
    Denominators = {3}
    Items <- MCItems
    TypeErr <- MCBadPage
    BATCH = 2
    Leftover <- MCNone
PROPERTY ShellEnds
