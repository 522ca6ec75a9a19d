SPECIFICATION FairRatesSpec
CONSTANTS
    usdKrw = usdKrw
    usdTwd = usdTwd
    usdUsd = usdUsd
    frankfurter = frankfurter
    openER = openER
    r1 = r1
    r2 = r2
    f1 = f1
    f2 = f2
    Countries = Countries
    Default = Default
    Nothing = Nothing
    PAIRS = {usdKrw, usdTwd, usdUsd}
    LISTED = {usdKrw}
    SAME = {usdUsd}
    PROVIDERS = {frankfurter, openER}
    REQUESTS = {r1, r2}
    FETCHES = {f1, f2}
    WANTED <- Batches
    MAX_RATES = 1
    CHANGES <- Bound
PROPERTIES
    RatesMoveForward
    RatesCatchUp
    EveryRequestAnswered
