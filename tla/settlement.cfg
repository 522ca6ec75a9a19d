SPECIFICATION FairSpec
CONSTANTS
    t1 = t1
    s1 = s1
    s2 = s2
    m1 = m1
    m2 = m2
    g1 = g1
    k1 = k1
    x1 = x1
    x2 = x2
    NoKey = NoKey
    Earlier = Earlier
    NoView = NoView
    ASKS <- Asks
    TRAVELS = {t1}
    SAVERS = {s1, s2}
    MARKERS = {m1}
    READERS = {}
    KEYS = {k1}
    LEDGERS = {0, 1}
    TRANSFERS = {x1, x2}
    PLAN <- Plan
    FIRST_PLANS <- BothTransfers
    DATABASES = {"rejects", "locks"}
INVARIANTS
    SecondSaveConflicts
    ErasesOnlyWhatItSaw
    AnsweredIsStored
    FailedLeavesNoTrace
PROPERTIES
    ImplementsBook
    EveryRequestAnswered
