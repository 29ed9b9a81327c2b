SPECIFICATION FairSpec
CONSTANTS
    a1 = a1  a2 = a2  a3 = a3  orphan = orphan  v1 = v1  v2 = v2  NULL = NULL
    Act <- MCAct
    Ves = {v1, v2}
    owner <- MCowner
    Code <- MCCode
    Hier <- MCHier
    Zero <- MCZero
    Root <- MCRoot
    Long <- MCLong
    Below <- MCBelow
    CbsQa <- MCCbsQa
    Manual = {"4321"}
    KG <- MCKG
    ZeroCloser = {a1, orphan}
    Ones = {"1", "01"}
    Twos = {"2", "02"}
    ONE = "0001"
    TWO = "0002"
    MaxCrash = 1
    Dumps <- MCTwice
PROPERTY Finishes
