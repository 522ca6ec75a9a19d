----------------------------- MODULE ExchangeRates -----------------------------
(***************************************************************************)
(* MetaService: the exchange rates and the list of the countries that one  *)
(* process keeps.  An expired rate is answered and renewed behind the      *)
(* answer; a pair of currencies with a default rate is answered by it      *)
(* until a provider has answered; at most one fetch of a pair is under     *)
(* way, which asks two providers and takes the first answer.               *)
(*                                                                         *)
(* Time is not counted: an entry expires at some time.  A rate is known by *)
(* the provider it is from and by how many times that provider had changed *)
(* it; the default rates and the rate 1 of unlisted pairs are one value.   *)
(***************************************************************************)
EXTENDS Integers, Sequences

CONSTANTS
    PAIRS,
    LISTED,         \* the pairs with a default rate
    SAME,           \* the pairs of a currency with itself
    PROVIDERS,      \* Frankfurter and open.er-api
    REQUESTS,
    FETCHES,        \* identities of fetches; bound of the model: no more at a time
    WANTED,         \* what the requests ask for: functions REQUESTS -> pair or Countries
    MAX_RATES,      \* maxCacheSize
    CHANGES,        \* bound of the model: how often each provider changes its rates
    Countries, Default, Nothing

ASSUME ExchangeRatesAssumption ==
    /\ LISTED \subseteq PAIRS /\ SAME \subseteq PAIRS
    /\ WANTED \subseteq [REQUESTS -> PAIRS \cup {Countries}]
    /\ MAX_RATES \in Nat \ {0} /\ CHANGES \in [PROVIDERS -> Nat]
    /\ Countries \notin PAIRS \cup FETCHES /\ Nothing \notin PAIRS \cup FETCHES \cup {Countries}
    /\ Default \notin PROVIDERS /\ Nothing \notin PROVIDERS \cup {Default}

NoRate == [from |-> Nothing, version |-> 0]
DefaultRate == [from |-> Default, version |-> 0]

VARIABLES
    wanted,     \* what this behaviour is about, a member of WANTED
    version,    \* of each provider
    rate,       \* rateCache: the rate of each pair, or none
    fresh,      \* the pairs whose rate has not expired
    order,      \* the pairs of rateCache in the order they came in
    shared,     \* ratePromiseCache: the fetch of each pair
    pairOf,     \* the pair of each fetch,
    leg, found, \* and the state of its call to each provider, with the version that was read
    asks,       \* what a request has asked for and is not handled yet
    waits,      \* the fetch a request waits for, or Countries
    last,       \* history: the version of the last answer of each pair and provider
    countries,      \* countriesCache: none, fresh or expired
    countriesFetch  \* countriesFetchPromise: whether there is one

rates == <<rate, fresh, order>>
fetches == <<shared, pairOf, leg, found>>
list == <<countries, countriesFetch>>
ratesVars == <<wanted, version, rates, fetches, asks, waits, last, list>>

RatesInit ==
    /\ wanted \in WANTED
    /\ version = [x \in PROVIDERS |-> 0]
    /\ rate = [pair \in PAIRS |-> NoRate]
    /\ fresh = {}
    /\ order = <<>>
    /\ shared = [pair \in PAIRS |-> Nothing]
    /\ pairOf = [f \in FETCHES |-> Nothing]
    /\ leg = [f \in FETCHES |-> [x \in PROVIDERS |-> "asked"]]
    /\ found = [f \in FETCHES |-> [x \in PROVIDERS |-> 0]]
    /\ asks = [r \in REQUESTS |-> Nothing]
    /\ waits = [r \in REQUESTS |-> Nothing]
    /\ last = [pair \in PAIRS |-> [x \in PROVIDERS |-> 0]]
    /\ countries = "none"
    /\ countriesFetch = FALSE

-----------------------------------------------------------------------------
(* Time, the providers and the callers.                                      *)

Change(x) ==
    /\ version[x] < CHANGES[x]
    /\ version' = [version EXCEPT ![x] = @ + 1]
    /\ UNCHANGED <<wanted, rates, fetches, asks, waits, last, list>>

Expire(pair) ==
    /\ pair \in fresh
    /\ fresh' = fresh \ {pair}
    /\ UNCHANGED <<wanted, version, rate, order, fetches, asks, waits, last, list>>

ExpireCountries ==
    /\ countries = "fresh" /\ countries' = "expired"
    /\ UNCHANGED <<wanted, version, rates, fetches, asks, waits, last, countriesFetch>>

Ask(r) ==
    /\ asks[r] = Nothing /\ waits[r] = Nothing
    /\ asks' = [asks EXCEPT ![r] = wanted[r]]
    /\ UNCHANGED <<wanted, version, rates, fetches, waits, last, list>>

-----------------------------------------------------------------------------
(* getExchangeRate, in one go unless the pair is neither known nor listed.   *)

Answered(pair, known) ==
    last' = IF known.from \in PROVIDERS
            THEN [last EXCEPT ![pair][known.from] = known.version] ELSE last

Fetch(pair) ==
    \E f \in FETCHES :
       /\ pairOf[f] = Nothing /\ f = CHOOSE g \in FETCHES : pairOf[g] = Nothing
       /\ pairOf' = [pairOf EXCEPT ![f] = pair]
       /\ shared' = [shared EXCEPT ![pair] = f]
       /\ UNCHANGED <<leg, found>>

\* Mutant: a fetch for every request that needs one.
JoinAnew(pair) == Fetch(pair)

\* getOrCreateRatePromise: a fetch that is under way is shared.
Join(pair) == IF shared[pair] # Nothing THEN UNCHANGED fetches ELSE Fetch(pair)

Place(pair) == IF rate[pair] = NoRate THEN Append(order, pair) ELSE order

\* The rate is known, and if it has expired it is renewed behind the answer.
AnswerKnown(r, pair) ==
    /\ rate[pair] # NoRate
    /\ Answered(pair, rate[pair])
    /\ IF pair \in fresh THEN UNCHANGED fetches ELSE Join(pair)
    /\ UNCHANGED <<rates, waits>>

AnswerDefault(r, pair) ==
    /\ rate[pair] = NoRate /\ pair \in LISTED \cup SAME
    /\ rate' = [rate EXCEPT ![pair] = DefaultRate]
    /\ fresh' = fresh \cup {pair}
    /\ order' = Place(pair)
    /\ IF pair \in SAME THEN UNCHANGED fetches ELSE Join(pair)
    /\ UNCHANGED <<waits, last>>

AwaitRate(r, pair) ==
    /\ rate[pair] = NoRate /\ pair \notin LISTED \cup SAME
    /\ Join(pair)
    /\ waits' = [waits EXCEPT ![r] = shared'[pair]]
    /\ UNCHANGED <<rates, last>>

GetExchangeRate(r, pair) ==
    /\ asks[r] = pair
    /\ asks' = [asks EXCEPT ![r] = Nothing]
    /\ AnswerKnown(r, pair) \/ AnswerDefault(r, pair) \/ AwaitRate(r, pair)
    /\ UNCHANGED <<wanted, version, list>>

-----------------------------------------------------------------------------
(* fetchAndCacheRate and requestExchangeRate.                                *)

Read(f, x) ==
    /\ pairOf[f] # Nothing /\ leg[f][x] = "asked"
    /\ leg' = [leg EXCEPT ![f][x] = "read"]
    /\ found' = [found EXCEPT ![f][x] = version[x]]
    /\ UNCHANGED <<wanted, version, rates, shared, pairOf, asks, waits, last, list>>

\* No answer in time, a status other than 200, or an answer without the pair.
FailToRead(f, x) ==
    /\ pairOf[f] # Nothing /\ leg[f][x] = "asked"
    /\ leg' = [leg EXCEPT ![f][x] = "failed"]
    /\ UNCHANGED <<wanted, version, rates, shared, pairOf, found, asks, waits, last, list>>

\* A currency is worth one of itself, whoever says so.
Quote(f, x) == IF pairOf[f] \in SAME THEN DefaultRate ELSE [from |-> x, version |-> found[f][x]]

\* promiseAny: the first answer of a provider, and the default when each of them has failed,
\* which is stored like an answer.
Outcomes(f) ==
    IF \A x \in PROVIDERS : leg[f][x] = "failed" THEN {DefaultRate}
    ELSE {Quote(f, x) : x \in {y \in PROVIDERS : leg[f][y] = "read"}}

\* cleanupRateCache: what has expired leaves a cache that is too large, and if that is not
\* enough what came in first, even if it has just been renewed.
Cleaned(row, alive) ==
    LET kept == SelectSeq(row, LAMBDA pair : pair \in alive) IN
    IF Len(row) <= MAX_RATES THEN row
    ELSE IF Len(kept) <= MAX_RATES THEN kept
    ELSE SubSeq(kept, Len(kept) - MAX_RATES + 1, Len(kept))

Store(pair, known) ==
    LET row == Cleaned(Place(pair), fresh \cup {pair})
        inside == {row[i] : i \in DOMAIN row} IN
    /\ order' = row
    /\ rate' = [other \in PAIRS |-> IF other \notin inside THEN NoRate
                                    ELSE IF other = pair THEN known ELSE rate[other]]
    /\ fresh' = (fresh \cup {pair}) \cap inside

\* Mutant: the promise of a fetch that has ended is kept, and shared for ever.
ReleaseNothing(f) == UNCHANGED shared

Release(f) == shared' = [shared EXCEPT ![pairOf[f]] = Nothing]

Land(f) ==
    /\ pairOf[f] # Nothing
    /\ \E known \in Outcomes(f) :
          /\ Store(pairOf[f], known)
          /\ IF \E r \in REQUESTS : waits[r] = f THEN Answered(pairOf[f], known) ELSE UNCHANGED last
    /\ Release(f)
    /\ pairOf' = [pairOf EXCEPT ![f] = Nothing]
    /\ leg' = [leg EXCEPT ![f] = [x \in PROVIDERS |-> "asked"]]
    /\ found' = [found EXCEPT ![f] = [x \in PROVIDERS |-> 0]]
    /\ waits' = [r \in REQUESTS |-> IF waits[r] = f THEN Nothing ELSE waits[r]]
    /\ UNCHANGED <<wanted, version, asks, list>>

-----------------------------------------------------------------------------
(* getCountries: here an expired list is not answered, and a failure is.     *)

GetCountries(r) ==
    /\ asks[r] = Countries
    /\ asks' = [asks EXCEPT ![r] = Nothing]
    /\ IF countries = "fresh" THEN UNCHANGED <<waits, countriesFetch>>
       ELSE waits' = [waits EXCEPT ![r] = Countries] /\ countriesFetch' = TRUE
    /\ UNCHANGED <<wanted, version, rates, fetches, last, countries>>

\* Mutant: of a failure only the request that began the fetch hears.
LandForOne ==
    /\ countriesFetch /\ countriesFetch' = FALSE
    /\ \/ /\ countries' = "fresh"
          /\ waits' = [r \in REQUESTS |-> IF waits[r] = Countries THEN Nothing ELSE waits[r]]
       \/ /\ UNCHANGED countries
          /\ \E r \in REQUESTS : waits[r] = Countries /\ waits' = [waits EXCEPT ![r] = Nothing]
    /\ UNCHANGED <<wanted, version, rates, fetches, asks, last>>

LandCountries ==
    /\ countriesFetch /\ countriesFetch' = FALSE
    /\ countries' \in {"fresh", countries}
    /\ waits' = [r \in REQUESTS |-> IF waits[r] = Countries THEN Nothing ELSE waits[r]]
    /\ UNCHANGED <<wanted, version, rates, fetches, asks, last>>

-----------------------------------------------------------------------------

RatesNext ==
    \/ \E x \in PROVIDERS : Change(x)
    \/ \E pair \in PAIRS : Expire(pair)
    \/ ExpireCountries
    \/ \E r \in REQUESTS : \/ Ask(r)
                           \/ \E pair \in PAIRS : GetExchangeRate(r, pair)
                           \/ GetCountries(r)
    \/ \E f \in FETCHES : \/ \E x \in PROVIDERS : Read(f, x) \/ FailToRead(f, x)
                          \/ Land(f)
    \/ LandCountries

RatesSpec == RatesInit /\ [][RatesNext]_ratesVars

\* Requests are handled, calls of providers end (the headers come in three seconds or not at all,
\* the body within the time fetch allows), and entries expire.
Fairness ==
    /\ \A r \in REQUESTS : WF_ratesVars(GetCountries(r) \/ \E pair \in PAIRS : GetExchangeRate(r, pair))
    /\ \A f \in FETCHES : WF_ratesVars(Land(f) \/ \E x \in PROVIDERS : Read(f, x) \/ FailToRead(f, x))
    /\ \A pair \in PAIRS : WF_ratesVars(Expire(pair))
    /\ WF_ratesVars(LandCountries)

FairRatesSpec == RatesSpec /\ Fairness

-----------------------------------------------------------------------------
(* Properties.                                                                *)

\* Nobody is answered an older rate of a provider after a newer one of it, although answers come
\* from the cache and from fetches, old entries are overwritten by defaults or fall out of the
\* cache, and fetches take any time.
\* meta.service.ts:299 getOrCreateRatePromise, :314 fetchAndCacheRate.
RatesMoveForward ==
    [][\A pair \in PAIRS, x \in PROVIDERS : last'[pair][x] >= last[pair][x]]_ratesVars

Current(pair) == rate[pair].from \in PROVIDERS /\ rate[pair].version = version[rate[pair].from]

\* Once no fetch fails at every provider any more, what is cached for a pair that is asked for
\* again and again becomes and stays a rate that a provider has now: neither a default of a
\* failure nor an old rate stays, unless other pairs push it out of the cache.
\* meta.service.ts:201 getExchangeRate renews what has expired behind the answer.
RatesCatchUp ==
    \A pair \in PAIRS \ SAME :
       (/\ <>[](\A f \in FETCHES : \E x \in PROVIDERS : leg[f][x] # "failed")
        /\ []<>(\E r \in REQUESTS : asks[r] = pair)
        /\ <>[][rate[pair] # NoRate => rate'[pair] # NoRate]_ratesVars)
       => <>[]Current(pair)

\* Whoever asks for a rate or for the countries is answered, however many wait for one fetch and
\* however the calls to the providers end.
\* meta.service.ts:372 promiseAny, :173 getCountries.
EveryRequestAnswered ==
    \A r \in REQUESTS : asks[r] # Nothing \/ waits[r] # Nothing ~> asks[r] = Nothing /\ waits[r] = Nothing

=============================================================================
