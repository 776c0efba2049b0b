SPECIFICATION Spec
SYMMETRY AccessSymmetry
INVARIANTS TypeOK OnePrimary LastChoiceWins
\* The rows ever inserted are bounded.
CHECK_DEADLOCK FALSE
CONSTANTS
    a1 = a1
    a2 = a2
    c1 = c1
    c2 = c2
    ChannelAccounts = {a1, a2}
    Choices = {c1, c2}
    MaxAccesses = 4
    Nobody = Nobody
