SPECIFICATION Spec
CONSTANTS
    founder = founder
    member = member
    guest = guest
    give = give
    giveToo = giveToo
    quit = quit
    expel = expel
    enter = enter
    erase = erase
    NoOne = NoOne
    USERS = {founder, member, guest}
    FOUNDER = founder
    MEMBERS = {member, guest}
    REQUESTS = {give, giveToo}
    KIND <- Kind
    CALLER <- Caller
    TARGET <- Target
INVARIANTS
    OneOwner
