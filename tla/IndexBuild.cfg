SPECIFICATION FairSpec
CONSTANTS
    denominator = 3
    batch_size = 2
    MaxCount = 7
    Stale <- MCStale
    OLD = OLD
INVARIANTS TypeOK OneWriter YayExact
PROPERTIES Implements Ends
