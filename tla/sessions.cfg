SPECIFICATION Spec
CONSTANTS
    ann = ann
    bob = bob
    eve = eve
    short = short
    spare = spare
    annByName = annByName
    bobByName = bobByName
    annMoves = annMoves
    bobMoves = bobMoves
    eveJoins = eveJoins
    first = first
    second = second
    renewal = renewal
    demotion = demotion
    own1 = own1
    own2 = own2
    own3 = own3
    manage1 = manage1
    manage2 = manage2
    manage3 = manage3
    old = old
    check = check
    call = call
    exit = exit
    exitJwt = exitJwt
    expel = expel
    FOREIGN = foreign
    NoName = NoName
    Nobody = Nobody
    USERS = {ann, bob, eve}
    NAMES = {short, spare}
    REQUESTS = {annByName, bobByName, annMoves, bobMoves, eveJoins, first, second, renewal, demotion, check, call, own1, own2, own3, manage1, manage2, manage3, exit, exitJwt, expel}
    KIND <- Kind
    PERSON <- Person
    NAME <- Name
    TOKEN <- Token
    BATCHES <- Batches
    FIRST_NAME <- FirstName
    FIRST_ROLE <- FirstRole
    OLD_TOKENS = {foreign, old}
    OLD_TOKEN <- OldToken
    ACCESS_TTL = 1
    REFRESH_TTL = 3
    IDENTIFIER_TTL = 1
    SESSION_TTL = 2
    CACHE_TTL = 1
    ROLE_TTL = 1
    BLACKLIST_TTL = 1
    LATENCY = 1
    HORIZON = 6
INVARIANTS
    RightfulOwnerRefusedBriefly
    GraceIsBounded
    RoleIsRecent
    LiveSessionsListed
CHECK_DEADLOCK FALSE
