---------------------------- MODULE MCExchangeRates ----------------------------
(* A pair with a default rate, one without, and a currency with itself; two   *)
(* providers, two requests that ask again and again.                          *)
EXTENDS ExchangeRates

CONSTANTS usdKrw, usdTwd, usdUsd, frankfurter, openER, r1, r2, f1, f2

Plan(first, second) == [r \in REQUESTS |-> IF r = r1 THEN first ELSE second]

Bound == [x \in PROVIDERS |-> IF x = frankfurter THEN 1 ELSE 0]

Batches == {
    Plan(usdKrw, usdKrw),
    Plan(usdTwd, usdTwd),
    Plan(usdKrw, usdUsd),
    Plan(Countries, Countries)}

=============================================================================
