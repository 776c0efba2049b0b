SPECIFICATION FairSpec
INVARIANTS TypeOK StuckOnlyWhenFull
PROPERTIES EveryoneServed
\* The system can stop: that is what StuckOnlyWhenFull is about.
CHECK_DEADLOCK FALSE
CONSTANTS
    t1 = t1
    t2 = t2
    w1 = w1
    q1 = q1
    j1 = j1
    j2 = j2
    Ticks = {t1, t2}
    Writers = {w1}
    Readers = {q1}
    Rows = {j1, j2}
    PoolSizes = {1, 2, 3, 4}
    MaxQueries = 2
    Nobody = Nobody
