SPECIFICATION Spec
CONSTANTS
    m1 = m1  m2 = m2  v1 = v1  v2 = v2  v3 = v3  p1 = p1  p2 = p2  stranger = stranger
    MaxRuns = 3
    Dumps <- MCDumps
INVARIANTS TypeOK DoneExact EndsWellIffPassable RerunOrphans
CHECK_DEADLOCK FALSE
