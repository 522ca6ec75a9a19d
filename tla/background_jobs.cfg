SPECIFICATION FairSpec
CONSTANTS
    j1 = j1
    j2 = j2
    j3 = j3
    j4 = j4
    JOBS = {j1, j2, j3, j4}
    CONCURRENCY = 2
    RETRIES <- Retries
    HANGING = {j1}
INVARIANTS
    SlotsWellUsed
    TriedAsPromised
PROPERTIES
    EveryJobEnds
