SPECIFICATION Spec
CONSTANTS
    v = v  w = w  m = m  n = n  k = k  l = l  p = p
    NULL = NULL  OLD = OLD  BAG = BAG  NOACT = NOACT
    Ves <- MCVes
    Mac <- MCMac
    Loc <- MCLoc
    Bezoek <- MCBezoek
    Post <- MCPost
    Ended = {}
    Acts <- MCActs
    RawCode <- MCRawCode
    Repaired <- MCRepaired
    Official = {"0111", "222"}
    Dump <- MCDump
    InAdam = {k, l}
    MaxMissing = 3
    MaxInvalid = 2
    GeoTarget = 7
    TOL = 1
    MaxManual = 2
    MaxScripts = 2
INVARIANTS TypeOK MapIsOneFill DoneMeansFresh
PROPERTIES HalfMapNoticed TornStops
CHECK_DEADLOCK FALSE
