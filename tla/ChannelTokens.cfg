SPECIFICATION Spec
SYMMETRY WorkerSymmetry
INVARIANTS TypeOK TokenStaysValid ServedIsRecent
\* Time is bounded.
CHECK_DEADLOCK FALSE
CONSTANTS
    a1 = a1
    a2 = a2
    t1 = t1
    t2 = t2
    l1 = l1
    l2 = l2
    Accounts = {a1}
    Ticks = {t1, t2}
    Loads = {l1, l2}
    Lifetime = 8
    Buffer = 6
    MaxDuration = 1
    TTL = 2
    MaxTime = 8
    MaxFailures = 2
    NoAccount = NoAccount
