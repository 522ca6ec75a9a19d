SPECIFICATION Spec
CONSTANTS
    newbie = newbie
    friend = friend
    one = one
    two = two
    opaque = opaque
    code = code
    again = again
    r1 = r1
    r2 = r2
    r3 = r3
    r4 = r4
    NoOne = NoOne
    USERS = {newbie, friend}
    TOKENS = {one, two, opaque}
    CODES = {code, again}
    REQUESTS = {r1, r2, r3, r4}
    PLANS <- Edited
    OWNER <- Owner
    EXPIRES <- Expires
    OPAQUE = {opaque}
    COMPLETE = {newbie}
    REGISTERED = {}
    SUPABASE_FAILS = FALSE
    CHECK_TTL = 1
    EXISTS_TTL = 1
    MEMORY_TTL = 1
    USER_TTL = 2
    INDEX_TTL = 3
    FAST_TTL = 1
    TICKET_TTL = 1
    INDEX_LIMIT = 2
    WINDOW = 0
    LATENCY = 1
    HORIZON = 5
INVARIANTS
    EditDropsCachedUsers
CHECK_DEADLOCK FALSE
