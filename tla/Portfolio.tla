----------------------------- MODULE Portfolio -----------------------------
(***************************************************************************)
(* The portfolio page: a row per enabled coin with its balance and what it *)
(* is worth, the worth of all of them, the list the user checks coins to   *)
(* enable in, and the update of all this by                                *)
(*                                                                         *)
(*   - the GUI thread: coins enabled (tick) and disabled, a new currency;  *)
(*   - pool threads: fiat_rate_updated after each answer of Prices, and    *)
(*     ticker_balance_updated when mm2_service corrects a balance itself.  *)
(*                                                                         *)
(* A handler reads the settings, the prices and mm2's balances when it     *)
(* comes to them: the handlers of several threads interleave between rows  *)
(* and between the steps that make the totals.  An amount is kept with the *)
(* currency it was computed in; percents, which come from the two, the     *)
(* notifications and the charts, whose service is disabled for good by its *)
(* constructor, are left out.                                              *)
(***************************************************************************)
EXTENDS Prices

CONSTANTS
    Default,  \* the coins that cannot be disabled
    Pool,     \* bound: pool threads that run handlers
    Gui,      \* the GUI thread
    MaxBal,   \* bound: balances are 0..MaxBal
    MaxCoin   \* MaximumNbCoinsEnabled

ASSUME PortfolioAssumption ==
    /\ Default \subseteq Coin /\ Gui \notin Pool
    /\ {MaxBal, MaxCoin} \subseteq Nat

VARIABLES
    on, bal,    \* mm2_service: the coins it has enabled and their balances
    pending, leaving, \* coins asked to be enabled, or disabled, and not answered
    queue,      \* coins to be given a row by tick
    currency,   \* current_currency
    rows, cell, \* portfolio_model: m_ticker_registry, and the rows' contents
    enabled,    \* global_coins_cfg_model: m_enabled_coins
    total, main,\* m_current_balance_all, m_main_current_balance_all
    thread,     \* the handler each thread is in
    pick        \* the enable modal: what is checked, and m_checked_nb

nodeVars == <<on, bal, pending, leaving, queue>>
listVars == <<rows, cell, enabled>>
pageVars == <<nodeVars, currency, listVars, total, main, thread, pick>>
vars == <<priceVars, pageVars>>

Thread == Pool \cup {Gui}
Money == [cur : Currency, amount : Nat]
NoMoney == [cur |-> Dollar, amount |-> 0]
NoCell == [bal |-> 0, worth |-> NoMoney]

\* portfolio_data, as far as it changes with balances and prices.
PortfolioData == [bal : 0..MaxBal, worth : Money]
Roles == <<"worth", "bal">>

Done == [at |-> "done", todo |-> {}, cur |-> Dollar, sum |-> NoMoney, ok |-> TRUE, held |-> FALSE]
Closed == [state |-> "closed", checked |-> {}, nb |-> 0, shown |-> Coin]

TypeOK ==
    /\ PricesTypeOK
    /\ {on, pending, leaving, queue, rows, enabled, pick.checked, pick.shown} \subseteq SUBSET Coin
    /\ bal \in [Coin -> 0..MaxBal]
    /\ currency \in Currency /\ {total, main} \subseteq Money
    /\ cell \in [Coin -> PortfolioData]
    /\ thread \in [Thread -> [at : {"done", "init", "disable", "begin", "rows", "fake", "total", "set", "main"},
                              todo : SUBSET Coin, cur : Currency, sum : Money, ok : BOOLEAN, held : BOOLEAN]]
    /\ pick.state \in {"closed", "open", "closing"} /\ pick.nb \in 0..MaxCoin

Init ==
    /\ PricesInit
    /\ on = Default \cup world.on /\ queue = on /\ pending = {} /\ leaving = {}
    /\ bal = [c \in Coin |-> 1]
    /\ currency = Dollar
    /\ rows = {} /\ cell = [c \in Coin |-> NoCell] /\ enabled = {}
    /\ total = NoMoney /\ main = NoMoney
    /\ thread = [t \in Thread |-> Done]
    /\ pick = Closed

-----------------------------------------------------------------------------
(* What is shown.                                                          *)

\* get_price_in_fiat.
Worth(x, c) == [cur |-> x, amount |-> RateConversion(x, c) * bal[c]]

\* get_price_in_fiat_all: of the coins mm2 has enabled, with or without a row.
WorthOfAll(x) ==
    LET sum[S \in SUBSET Coin] ==
          IF S = {} THEN 0
          ELSE LET c == CHOOSE d \in S : TRUE IN Worth(x, c).amount + sum[S \ {c}]
    IN  [cur |-> x, amount |-> sum[on]]

\* Amounts are compared as strings: all zeros are the same.
SameText(a, b) == a.amount = b.amount /\ (a.cur = b.cur \/ a.amount = 0)

Cell(x, c) == [bal |-> bal[c], worth |-> Worth(x, c)]

\* The model's rows: roles are read, written, and written if they differ.
Data(row, role) == row[role]
SetData(row, role, value) == [row EXCEPT ![role] = value]
UpdateValue(row, role, value) ==
    IF Data(row, role) = value THEN row ELSE SetData(row, role, value)
UpdateRow(row, new) == FoldLeft(LAMBDA r, role : UpdateValue(r, role, Data(new, role)), row, Roles)

\* A coin without a row is passed over.
CellsWith(x, c) == IF c \in rows THEN [cell EXCEPT ![c] = UpdateRow(@, Cell(x, c))] ELSE cell

-----------------------------------------------------------------------------
(* The handlers, step by step.                                             *)

Handler(model) == [Done EXCEPT !.at = IF model THEN "begin" ELSE "total"]
FiatRateUpdated == Handler(TRUE)
TickerBalanceUpdated(c) == [Done EXCEPT !.at = "fake", !.todo = {c}]
Goes(t, frame) == thread' = [thread EXCEPT ![t] = frame]
At(t, step) == thread[t].at = step

\* The request that waited for this handler is sent.
Finish(t) ==
    /\ Goes(t, Done)
    /\ again' = IF thread[t].held THEN Release ELSE again

\* on_update_portfolio_values_event, with the model: update_currency_values.
Begin(t) ==
    /\ At(t, "begin")
    /\ Goes(t, [thread[t] EXCEPT !.cur = currency,
                   !.ok   = enabled \subseteq rows,
                   !.todo = IF enabled \subseteq rows THEN enabled ELSE {},
                   !.at   = IF enabled \subseteq rows /\ enabled # {} THEN "rows" ELSE "total"])
    /\ UNCHANGED <<priceVars, nodeVars, currency, listVars, total, main, pick>>

\* update_functor: one task per coin, with the currency of the beginning.
Row(t, c) ==
    /\ At(t, "rows") /\ c \in thread[t].todo
    /\ cell' = CellsWith(thread[t].cur, c)
    /\ Goes(t, [thread[t] EXCEPT !.todo = @ \ {c}, !.at = IF thread[t].todo = {c} THEN "total" ELSE @])
    /\ UNCHANGED <<priceVars, nodeVars, currency, rows, enabled, total, main, pick>>

\* on_ticker_balance_updated_event: update_balance_values of one coin.
BalanceRow(t, c) ==
    /\ At(t, "fake") /\ c \in thread[t].todo
    /\ cell' = CellsWith(currency, c)
    /\ Goes(t, IF c \in rows THEN Handler(FALSE) ELSE Done)
    /\ UNCHANGED <<priceVars, nodeVars, currency, rows, enabled, total, main, pick>>

\* The total is made even when the rows could not be, and then not used.
Total(t) ==
    /\ At(t, "total")
    /\ IF thread[t].ok
       THEN /\ Goes(t, [thread[t] EXCEPT !.at = "set", !.sum = WorthOfAll(currency)])
            /\ UNCHANGED again
       ELSE Finish(t)
    /\ UNCHANGED <<quote, sources, order, world, nodeVars, currency, listVars, total, main, pick>>

\* set_current_balance_fiat_all.
Set(t) ==
    /\ At(t, "set")
    /\ IF SameText(total, thread[t].sum)
       THEN Finish(t) /\ UNCHANGED total
       ELSE /\ total' = thread[t].sum
            /\ Goes(t, [thread[t] EXCEPT !.at = "main"])
            /\ UNCHANGED again
    /\ UNCHANGED <<quote, sources, order, world, nodeVars, currency, listVars, main, pick>>

\* ... and, after the currency is read again, the total of the charts.
Main(t) ==
    /\ At(t, "main")
    /\ main' = IF IsFiat(currency) THEN total ELSE main
    /\ Finish(t)
    /\ UNCHANGED <<quote, sources, order, world, nodeVars, currency, listVars, total, pick>>

-----------------------------------------------------------------------------
(* What starts them.                                                       *)

\* The answer of komodo_prices_provider, on a pool thread.
MarketAnswer(t, a) ==
    /\ t \in world.pool /\ At(t, "done")
    /\ MarketInfos(a)
    /\ Goes(t, [FiatRateUpdated EXCEPT !.held = (a = "broken" /\ again.fallback = "no")])
    /\ UNCHANGED <<nodeVars, currency, listVars, total, main, pick>>

\* process_balance_answer tells nobody: the rows wait for the next prices.
BalanceAnswer(c) ==
    /\ Happens("balance")
    /\ \E b \in 0..MaxBal \ {bal[c]} : bal' = [bal EXCEPT ![c] = b]
    /\ UNCHANGED <<quote, sources, again, order, on, pending, leaving, queue,
                   currency, listVars, total, main, thread, pick>>

\* decrease_fake_balance and reset_fake_balance_to_zero.
FakeBalance(t, c) ==
    /\ t \in world.pool /\ At(t, "done") /\ bal[c] > 0
    /\ Happens("fake")
    /\ bal' = [bal EXCEPT ![c] = @ - 1]
    /\ Goes(t, TickerBalanceUpdated(c))
    /\ UNCHANGED <<quote, sources, again, order, on, pending, leaving, queue,
                   currency, listVars, total, main, pick>>

\* settings_page::set_current_currency.
SetCurrency(x) ==
    /\ At(Gui, "done") /\ x # currency /\ Available(x)
    /\ Happens("currency")
    /\ currency' = x
    /\ Goes(Gui, Handler(TRUE))
    /\ UNCHANGED <<quote, sources, again, order, nodeVars, listVars, total, main, pick>>

\* mm2 answers what it was asked; CoinLifecycle says how.
NodeEnabled(c) ==
    /\ c \in pending
    /\ \/ on' = on \cup {c} /\ queue' = queue \cup {c} /\ UNCHANGED world
       \/ Happens("notEnabled") /\ UNCHANGED <<on, queue>>
    /\ pending' = pending \ {c}
    /\ UNCHANGED <<quote, sources, again, order, bal, leaving, currency, listVars, total, main, thread, pick>>

NodeDisabled(c) ==
    /\ c \in leaving
    /\ on' = on \ {c} /\ leaving' = leaving \ {c}
    /\ UNCHANGED <<priceVars, bal, pending, queue, currency, listVars, total, main, thread, pick>>

\* tick: the batch of coins enabled since the last one gets its rows ...
InitRows ==
    /\ At(Gui, "done") /\ queue # {}
    /\ rows' = rows \cup queue
    /\ cell' = [c \in Coin |-> IF c \in queue \ rows THEN Cell(currency, c) ELSE cell[c]]
    /\ Goes(Gui, [Done EXCEPT !.at = "init", !.todo = queue])
    /\ queue' = {}
    /\ UNCHANGED <<priceVars, on, bal, pending, leaving, currency, enabled, total, main, pick>>

\* ... and then its status.
InitStatus ==
    /\ At(Gui, "init")
    /\ enabled' = enabled \cup thread[Gui].todo
    /\ Goes(Gui, Handler(TRUE))
    /\ UNCHANGED <<priceVars, nodeVars, currency, rows, cell, total, main, pick>>

RemoveRows(S) == rows' = rows \ S /\ cell' = [c \in Coin |-> IF c \in S THEN NoCell ELSE cell[c]]

\* Disabling takes the row and then the status, and waits for mm2 to be told.
DisableRow(c) ==
    /\ At(Gui, "done") /\ c \in enabled \ Default /\ pick.state = "closed" \* it is modal
    /\ Happens("disable")
    /\ RemoveRows({c} \cap rows)
    /\ Goes(Gui, [Done EXCEPT !.at = "disable", !.todo = {c}])
    /\ UNCHANGED <<quote, sources, again, order, nodeVars, currency, enabled, total, main, pick>>

DisableStatus ==
    /\ At(Gui, "disable")
    /\ enabled' = enabled \ thread[Gui].todo
    /\ leaving' = leaving \cup thread[Gui].todo
    /\ Goes(Gui, Handler(FALSE))
    /\ UNCHANGED <<priceVars, on, bal, pending, queue, currency, rows, cell, total, main, pick>>

-----------------------------------------------------------------------------
(* The modal coins are enabled with (EnableCoinModal.qml).                 *)

Picked(p) == pick' = p /\ UNCHANGED <<quote, sources, again, order, on, bal, leaving, queue,
                                       currency, listVars, total, main, thread>>

SetCheckedNb(p, n) == [p EXCEPT !.nb = n]

\* set_all_state(false) sees the coins that are not enabled and match the filter.
Unchecked(p) == SetCheckedNb([p EXCEPT !.checked = @ \ (p.shown \ enabled)], 0)

\* Mutant of Open: only the number is reset.
OpenUnchecksNone ==
    /\ At(Gui, "done") /\ pick.state = "closed" /\ Happens("open")
    /\ Picked(SetCheckedNb([pick EXCEPT !.state = "open", !.shown = Coin], 0))
    /\ UNCHANGED pending

Open ==
    /\ At(Gui, "done") /\ pick.state = "closed" /\ Happens("open")
    /\ Picked(Unchecked([pick EXCEPT !.state = "open", !.shown = Coin]))
    /\ UNCHANGED pending

\* setData: the limit counts a coin that got enabled while checked twice.
Check(c) ==
    /\ At(Gui, "done") /\ pick.state = "open" /\ c \in pick.shown \ enabled
    /\ \/ /\ c \notin pick.checked /\ MaxCoin > Cardinality(enabled) + pick.nb
          /\ Picked([pick EXCEPT !.checked = @ \cup {c}, !.nb = @ + 1])
       \/ /\ c \in pick.checked
          /\ Picked([pick EXCEPT !.checked = @ \ {c}, !.nb = @ - 1])
    /\ UNCHANGED <<pending, world>>

Filter(S) ==
    /\ At(Gui, "done") /\ pick.state = "open" /\ Happens("filter")
    /\ Picked([pick EXCEPT !.shown = S])
    /\ UNCHANGED pending

\* get_checked_coins: shown or not.
CheckedCoins == {c \in Coin : c \in pick.checked}

\* enable_coins of all that is checked, unless it is too many.
Confirm ==
    /\ At(Gui, "done") /\ pick.state = "open" /\ pick.nb > 0
    /\ pick.checked \cap leaving = {}   \* bound: CoinLifecycle has that race
    /\ pending' = IF MaxCoin < Cardinality(CheckedCoins) + Cardinality(enabled) THEN pending
                  ELSE pending \cup CheckedCoins
    /\ Picked([Unchecked(pick) EXCEPT !.state = "closing"])
    /\ UNCHANGED world

Close ==
    /\ At(Gui, "done") /\ pick.state # "closed"
    /\ Picked(Unchecked([pick EXCEPT !.state = "closed", !.shown = Coin]))
    /\ UNCHANGED <<pending, world>>

-----------------------------------------------------------------------------

Step(t) == Begin(t) \/ Total(t) \/ Set(t) \/ Main(t) \/ \E c \in Coin : Row(t, c) \/ BalanceRow(t, c)

Next ==
    \/ PricesStep /\ UNCHANGED pageVars
    \/ \E t \in Thread : Step(t)
    \/ \E t \in Pool, a \in Answer : MarketAnswer(t, a)
    \/ \E t \in Pool, c \in Coin : FakeBalance(t, c)
    \/ \E c \in Coin : BalanceAnswer(c) \/ NodeEnabled(c) \/ NodeDisabled(c) \/ DisableRow(c) \/ Check(c)
    \/ \E x \in Currency : SetCurrency(x)
    \/ \E S \in SUBSET Coin : Filter(S)
    \/ InitRows \/ InitStatus \/ DisableStatus \/ Open \/ Confirm \/ Close

Spec == Init /\ [][Next]_vars

FairSpec ==
    /\ Spec
    /\ PricesFairness
    /\ \A t \in Thread : WF_vars(Step(t))
    /\ WF_vars(\E t \in Pool : MarketAnswer(t, "served"))
    /\ \A c \in Coin : WF_vars(NodeEnabled(c)) /\ WF_vars(NodeDisabled(c))
    /\ WF_vars(InitRows) /\ WF_vars(InitStatus) /\ WF_vars(DisableStatus)

-----------------------------------------------------------------------------
(* Properties.                                                             *)

\* What a coin is really worth, had every service its answer.
TrueWorth(x, c) == [cur |-> x, amount |-> bal[c] * (IF c \in Crypto \/ x = c THEN 1 ELSE quote)]
TrueTotal(x) ==
    LET sum[S \in SUBSET Coin] ==
          IF S = {} THEN 0
          ELSE LET c == CHOOSE d \in S : TRUE IN TrueWorth(x, c).amount + sum[S \ {c}]
    IN  [cur |-> x, amount |-> sum[on]]

(***************************************************************************)
(* The oracle has no rate for crypto currencies: a coin it prices counts   *)
(* for nothing in them, which the properties leave out.                    *)
(***************************************************************************)
Unpriced(x) == IF IsFiat(x) THEN {} ELSE {c \in Coin : Supported(c)}

(***************************************************************************)
(* The limit of enabled coins is kept with m_checked_nb, get_checked_coins *)
(* takes whatever is checked: while the user chooses no coin is checked    *)
(* that is neither counted nor already enabled, although one that was      *)
(* enabled by an earlier request while checked stays checked, also after it*)
(* is disabled (qt.global.coins.cfg.model.cpp).                            *)
(***************************************************************************)
CheckedAreCounted == pick.state = "open" => Cardinality(pick.checked \ enabled) <= pick.nb

(***************************************************************************)
(* However the handlers of several threads interleaved with changes of     *)
(* currency, balances, prices and coins, and whatever failed: once the     *)
(* world is quiet every row ends with the balance of its coin and what it  *)
(* is worth in the current currency (qt.portfolio.model.cpp), and the total*)
(* with what all coins are worth, which is made from other data by steps of*)
(* its own (qt.portfolio.page.cpp).  The total kept in a fiat currency,    *)
(* main, may not: it is left behind when the total of a pool thread is set *)
(* after the currency it was made in is no longer chosen and the same text *)
(* is computed when the user comes back to it.                             *)
(***************************************************************************)
PageCatchesUp ==
    "market" \in world.online => <>[]
        (/\ \A c \in rows \ Unpriced(currency) :
                cell[c] = [bal |-> bal[c], worth |-> TrueWorth(currency, c)]
         /\ Unpriced(currency) \cap on = {} => SameText(total, TrueTotal(currency)))

(***************************************************************************)
(* A maker order with automatic update ends at the market's price, also    *)
(* when a price was unknown at some of the updates                         *)
(* (auto.update.maker.order.service.cpp).                                  *)
(***************************************************************************)
OrderFollowsMarket == "orders" \in world.online => <>[](order = quote)
=============================================================================
