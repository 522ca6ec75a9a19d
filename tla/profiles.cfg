SPECIFICATION Spec
CONSTANTS
    p = p
    q = q
    r1 = r1
    r2 = r2
    r3 = r3
    r4 = r4
    old = old
    given = given
    new = new
    foreign = foreign
    copy = copy
    NoName = NoName
    NoPicture = NoPicture
    PROCESSES = {p, q}
    REQUESTS = {r1, r2, r3, r4}
    PLANS <- Batches
    NAMES = {old, given, new}
    GIVEN = given
    FOREIGN = foreign
    COPY = copy
    GOOGLE = TRUE
    FAILING = {q}
    MEMORY_TTL = 1
    REDIS_TTL = 1
    AVATAR_TTL = 1
    LATENCY = 0
    HORIZON = 3
PROPERTIES
    OldNameKeptByTasks
    UploadSettles
CHECK_DEADLOCK FALSE
