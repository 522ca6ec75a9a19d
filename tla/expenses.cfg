SPECIFICATION Spec
CONSTANTS
    author = author
    guest = guest
    p1 = p1
    p2 = p2
    add = add
    alter = alter
    erase = erase
    eraseToo = eraseToo
    look = look
    lookToo = lookToo
    quit = quit
    enter = enter
    NoValue = NoValue
    Old = Old
    USERS = {author, guest}
    MEMBERS = {author}
    AUTHOR = author
    PROCESSES = {p1, p2}
    REQUESTS = {add, alter, erase, eraseToo, look, quit, enter}
    KIND <- Kind
    CALLER <- Caller
    PROCESS <- Process
    SHARERS <- Sharers
    BATCHES <- Batches
INVARIANTS
    DeletedOnce
    FailedLeavesNothing
    ChargedWereMembers
    RedisFollows
PROPERTIES
    MemberAdmitted
