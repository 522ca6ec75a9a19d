SPECIFICATION FairSpec
CONSTANTS
    founder = founder
    member = member
    guest = guest
    give = give
    giveToo = giveToo
    quit = quit
    expel = expel
    enter = enter
    erase = erase
    NoOne = NoOne
    USERS = {founder, member, guest}
    FOUNDER = founder
    MEMBERS = {member}
    REQUESTS = {give, giveToo, quit, expel, enter, erase}
    KIND <- Kind
    CALLER <- Caller
    TARGET <- Target
INVARIANTS
    OwnerAgreed
    NoMemberOfNothing
PROPERTIES
    OwnerNeverLeaves
    EveryRequestAnswered
