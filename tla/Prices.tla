------------------------------- MODULE Prices -------------------------------
(***************************************************************************)
(* Where prices come from.  Four services ask the outside world, each on   *)
(* its own period and each with its own way to fail:                       *)
(*                                                                         *)
(*   - komodo_prices_provider: the price of every coin, every 30 s, asked  *)
(*     once more at the fallback address when the first answer is an error;*)
(*   - global_price_service: what a dollar is in the other fiat currencies,*)
(*     every 2 min, and for ever each second after an exception; each      *)
(*     answer then asks what a dollar is in the crypto currencies, a       *)
(*     bounded number of times;                                            *)
(*   - band_oracle_price_service: the price of one coin, every 5 min, used *)
(*     before the provider's while it is ready;                            *)
(*   - auto_update_maker_order_service: a client, which moves the price of *)
(*     a maker order to the price of its coin every 2 min.                 *)
(*                                                                         *)
(* Nothing is kept of a request while it is in flight, so a request and    *)
(* its answer are one step, at the time the answer is applied; an answer   *)
(* that another one overtook brings an earlier price.                      *)
(***************************************************************************)
EXTENDS Naturals, SequencesExt

CONSTANTS
    Coin,
    Oracled,    \* the coins the oracle is asked about
    Fiat,       \* available_fiat
    Crypto,     \* the currencies that are coins
    Dollar,     \* the currency prices are quoted in
    MaxQuote,   \* bound: prices are 1..MaxQuote, 0 is an unknown one
    MaxTry,     \* bound: tries of refresh_other_coins_rates, 10 in the code
    Scenarios   \* what the world does and how many times, and how it begins

ASSUME PricesAssumption ==
    /\ Oracled \subseteq Coin /\ Crypto \subseteq Coin
    /\ Dollar \in Fiat /\ Fiat \cap Coin = {}
    /\ {MaxQuote, MaxTry} \subseteq Nat \ {0}

VARIABLES
    quote,    \* the price of the coins that are not currencies, in dollars
    market,   \* m_market_registry: the price it was filled with
    fiats,    \* m_other_fiats_rates holds rates
    rate,     \* m_coin_rate_providers
    oracle,   \* m_oracle_price_result and m_oracle_ready
    again,    \* the fallback request, and the tries of the crypto currencies
    order,    \* the price mm2 has for the maker order
    world     \* the scenario of this behaviour, and what is left of it

sources == <<market, fiats, rate, oracle>>
priceVars == <<quote, market, fiats, rate, oracle, again, order, world>>

Currency == Fiat \cup Crypto

PricesTypeOK ==
    /\ quote \in 1..MaxQuote /\ {market, order} \subseteq 0..MaxQuote
    /\ fiats \in BOOLEAN
    /\ rate \in [Crypto -> {"unknown", "known", "zero"}]
    /\ oracle \in [ready : BOOLEAN, price : 0..MaxQuote]
    /\ again \in [fallback : {"no", "held", "sent"}, tries : 0..MaxTry]

\* Nothing is known when the program starts; a later beginning saves states.
PricesInit ==
    /\ world \in Scenarios
    /\ quote = 1
    /\ market = IF world.fresh THEN 0 ELSE quote
    /\ fiats = ~world.fresh
    /\ rate = [x \in Crypto |-> IF world.fresh THEN "unknown" ELSE "known"]
    /\ oracle = [ready |-> FALSE, price |-> IF world.fresh THEN 0 ELSE quote]
    /\ again = [fallback |-> "no", tries |-> 0]
    /\ order = 0

\* The services whose timers run are world.online.
\* The world does what the scenario has, as many times as it says.
Happens(kind) ==
    /\ kind \in world.kinds /\ world.left > 0
    /\ world' = [world EXCEPT !.left = @ - 1]

-----------------------------------------------------------------------------
(* Conversions.                                                            *)

IsFiat(x) == x \in Fiat

\* retrieve_if_this_ticker_supported.
Supported(c) == oracle.ready /\ c \in Oracled

\* Crypto currencies are worth a dollar in the model; 0 is an unknown price.
PriceInDollars(c) == IF Supported(c) THEN oracle.price
                     ELSE IF c \in Crypto /\ market > 0 THEN 1 ELSE market

(***************************************************************************)
(* get_rate_conversion.  Every failure is "0.00": a fiat without rates, a  *)
(* crypto currency without a rate, and a coin the oracle supports in a     *)
(* crypto currency the oracle knows nothing about.                         *)
(***************************************************************************)
RateConversion(x, c) ==
    CASE x = c -> 1
      [] x # c /\ x = Dollar -> PriceInDollars(c)
      [] x # c /\ x # Dollar /\ IsFiat(x) -> IF fiats THEN PriceInDollars(c) ELSE 0
      [] OTHER -> IF rate[x] = "known" /\ ~Supported(c) THEN PriceInDollars(c) ELSE 0

\* get_cex_rates of an oracled coin against a crypto currency.
CexRate(c, x) == IF PriceInDollars(x) = 0 THEN 0 ELSE PriceInDollars(c)

\* is_fiat_available and is_currency_available.
Available(x) ==
    \/ x = Dollar
    \/ IsFiat(x) /\ fiats
    \/ ~IsFiat(x) /\ rate[x] # "unknown"

-----------------------------------------------------------------------------
(* Requests.                                                               *)

Quote == /\ Happens("quote")
         /\ quote' \in 1..MaxQuote \ {quote}
         /\ UNCHANGED <<sources, again, order>>

\* An answer, an earlier one, an error or an exception.
Answer == {"served", "late", "refused", "broken"}
Answers(service, a) ==
    /\ service \in world.online
    /\ IF a = "served" THEN UNCHANGED world ELSE Happens(a)
Brought(a) == IF a = "late" THEN 1..MaxQuote ELSE {quote}

(***************************************************************************)
(* process_update.  The registry is replaced as a whole.  The first error  *)
(* asks the fallback address at once, the first exception after            *)
(* fiat_rate_updated (Portfolio), and the fallback does not ask again.     *)
(***************************************************************************)
MarketInfos(a) ==
    /\ again.fallback # "held" /\ Answers("market", a)
    /\ market' \in IF a \in {"refused", "broken"} THEN {market} ELSE Brought(a)
    /\ again' = [again EXCEPT !.fallback =
                   CASE again.fallback = "no" /\ a = "refused" -> "sent"
                     [] again.fallback = "no" /\ a = "broken"  -> "held"
                     [] OTHER -> "no"]
    /\ UNCHANGED <<quote, fiats, rate, oracle, order>>

\* The fallback request that waited for the event to be handled.
Release == IF again.fallback = "held" THEN [again EXCEPT !.fallback = "sent"] ELSE again

\* process_fetch_fiat_answer: an error is an answer without rates.
Fetched(a) == a # "refused"

\* Mutant of FiatRates: the other currencies are asked for once.
FiatRatesOnly(a) ==
    /\ Answers("fiats", a)
    /\ fiats' = IF a = "broken" THEN fiats ELSE Fetched(a)
    /\ again' = IF a = "broken" \/ \E x \in Crypto : rate[x] # "unknown" THEN again
                ELSE [again EXCEPT !.tries = 1]
    /\ UNCHANGED <<quote, market, rate, oracle, order>>

(***************************************************************************)
(* on_force_update_providers.  An error is parsed as no rates at all,      *)
(* which replace the good ones, and any answer asks for the crypto         *)
(* currencies (one such chain of requests at a time: a bound).  An         *)
(* exception only asks again, as the next period does.                     *)
(***************************************************************************)
FiatRates(a) ==
    /\ Answers("fiats", a) /\ (a = "broken" \/ again.tries = 0)
    /\ fiats' = IF a = "broken" THEN fiats ELSE Fetched(a)
    /\ again' = IF a = "broken" THEN again ELSE [again EXCEPT !.tries = 1]
    /\ UNCHANGED <<quote, market, rate, oracle, order>>

\* refresh_other_coins_rates: an error answer makes the rate "0.00".
CoinRates(a) ==
    /\ again.tries > 0 /\ Answers("fiats", a)
    /\ rate' = CASE a = "broken"  -> rate
                 [] a = "refused" -> [x \in Crypto |-> "zero"]
                 [] OTHER         -> [x \in Crypto |-> "known"]
    /\ again' = [again EXCEPT !.tries = IF a = "broken" /\ @ + 1 < MaxTry THEN @ + 1 ELSE 0]
    /\ UNCHANGED <<quote, market, fiats, oracle, order>>

\* fetch_oracle: only an answer tells whether the oracle is ready.
Oracle(a) ==
    /\ Answers("oracle", a)
    /\ IF a \in {"refused", "broken"} THEN UNCHANGED oracle
       ELSE \E p \in Brought(a) : oracle' = [ready |-> a = "served", price |-> p]
    /\ UNCHANGED <<quote, market, fiats, rate, again, order>>

\* Mutant of UpdateOrder: the order is moved away from no price only.
UpdateOrderOnce ==
    /\ "orders" \in world.online /\ order = 0
    /\ \E c \in Oracled, x \in Crypto : order' = CexRate(c, x)
    /\ UNCHANGED <<quote, sources, again, world>>

\* At no spread.
NewPriceFromOrder(c, x) == CexRate(c, x)

(***************************************************************************)
(* internal_update and update_order: the maker order, of an oracled coin   *)
(* against a crypto currency.  An unknown price is sent as 0,              *)
(* which mm2 refuses.                                                      *)
(***************************************************************************)
UpdateOrder ==
    /\ "orders" \in world.online
    /\ \E c \in Oracled, x \in Crypto :
         order' = IF NewPriceFromOrder(c, x) = 0 THEN order ELSE NewPriceFromOrder(c, x)
    /\ UNCHANGED <<quote, sources, again, world>>

PricesStep ==
    \/ Quote \/ UpdateOrder
    \/ \E a \in Answer : FiatRates(a) \/ CoinRates(a) \/ Oracle(a)

(***************************************************************************)
(* Timers run while the program does, and requests that fail are bounded.  *)
(***************************************************************************)
PricesFairness ==
    /\ WF_priceVars(FiatRates("served")) /\ WF_priceVars(CoinRates("served"))
    /\ WF_priceVars(Oracle("served")) /\ WF_priceVars(UpdateOrder)
=============================================================================
