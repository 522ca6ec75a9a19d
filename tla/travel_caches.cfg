SPECIFICATION Spec
CONSTANTS
    owner = owner
    guest = guest
    other = other
    p = p
    q = q
    r1 = r1
    r2 = r2
    r3 = r3
    r4 = r4
    r5 = r5
    NoOne = NoOne
    USERS = {owner, guest, other}
    PROCESSES = {p, q}
    REQUESTS = {r1, r2, r3, r4, r5}
    PLANS <- Batches
    FOUNDER = owner
    MEMBERS = {owner, guest}
    DETAIL_TTL = 1
    LIST_TTL = 1
    ROSTER_TTL = 1
    MEMORY_TTL = 1
    MEMBER_TTL = 1
    LATENCY = 0
    HORIZON = 5
PROPERTIES
    ViewsSoonTrue
    JoinerAdmitted
    DepartedKeptByUse
    ChangesSeenAtOnce
CHECK_DEADLOCK FALSE
