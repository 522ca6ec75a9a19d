SPECIFICATION Spec
CONSTANTS
    p = p
    q = q
    r1 = r1
    r2 = r2
    r3 = r3
    r4 = r4
    Nobody = Nobody
    PROCESSES = {p, q}
    REQUESTS = {r1, r2, r3, r4}
    PLANS <- Batches
    TTL = 1
    COOLDOWN = 1
    TROUBLES <- Troubles
    HORIZON = 2
INVARIANTS
    OwnDeleteIsFinal
PROPERTIES
    ValuesDie
CHECK_DEADLOCK FALSE
