SPECIFICATION FairSpec
INVARIANTS TypeOK ExhaustedAfterAttempts BodilessOnlyByRace
PROPERTIES JourneyEnds
\* Everything ends once the journeys have.
CHECK_DEADLOCK FALSE
CONSTANTS
    j1 = j1
    j2 = j2
    e1 = e1
    e2 = e2
    t1 = t1
    t2 = t2
    Journeys = {j1}
    Editors = {e1, e2}
    Templates = {t1}
    MaxSteps = 2
    MaxEdits = 3
    MaxFailures = 1
    NoTemplate = NoTemplate
    Nobody = Nobody
    Deleter = Deleter
