SPECIFICATION Spec
SYMMETRY RequestSymmetry
INVARIANTS TypeOK OldSessionsOnlyByRace LockedAtLimit SingleUse
CONSTANTS
    r1 = r1
    r2 = r2
    r3 = r3
    p1 = p1
    p2 = p2
    v1 = v1
    i1 = i1
    Requests = {r1, r2}
    ResetTokens = {p1}
    VerificationTokens = {v1}
    Invitations = {i1}
    MaxFailedAttempts = 2
    MaxCounted = 4
    MaxPasswords = 3
    MaxTokens = 1
    MaxFailures = 1
