----------------------------- MODULE BookRows ------------------------------
(***************************************************************************)
(* What the rows of an orderbook model say of the orders of mm2, and what  *)
(* an order picked from a row makes the program send.                      *)
(*                                                                         *)
(* mm2 gives a price twice: as a text, that is shown and compared, and as  *)
(* a fraction, that a taker order is sent with.  A refresh brings a row up *)
(* to date role by role, through data and setData of the model.            *)
(*                                                                         *)
(* A text is the fraction it is written from; when answers come, and what  *)
(* becomes of a selection, is in TradingSync and SelectedOrder.            *)
(***************************************************************************)
EXTENDS Integers, SequencesExt

CONSTANTS
    None,
    Order,       \* uuids
    Price,       \* prices: fractions <<numer, denom>>
    Volume,      \* volumes
    TakerVol,    \* the max_taker_vol the funds of an order are compared with
    WalletOnly,  \* orders whose coin cannot be traded,
    Listed,      \* has a price provider's id,
    Thin,        \* is no SmartChain coin and was traded for less than 10000
    Cex,         \* and whose rate there is, or <<0, 1>>
    MaxChange    \* bound: changes of orders

\* What the constants are.
RowsConstants ==
    /\ Price \subseteq (Nat \ {0}) \X (Nat \ {0})
    /\ Volume \subseteq Nat \ {0} /\ TakerVol \in Nat
    /\ WalletOnly \cup Listed \cup Thin \subseteq Order
    /\ Cex \in [Order -> Nat \X (Nat \ {0})]
    /\ MaxChange \in Nat

VARIABLES
    kind,     \* m_current_orderbook_kind
    buying,   \* get_market_mode
    changes,
    market,   \* mm2's orders
    rows,     \* m_model_data
    picked,   \* m_preferred_order
    sent      \* the last order sent

vars == <<kind, buying, changes, market, rows, picked, sent>>
setting == <<kind, buying>>

Terms == [price : Price, min : Volume, max : Volume]

\* order_contents, as far as a trade needs it.
Contents == [price : Price, numer : Nat, denom : Nat, min : Nat, max : Nat, total : Nat]
Roles == <<"price", "numer", "denom", "max", "total", "min">>

\* order_contents::from_json; the total is price times volume.
FromJson(terms) ==
    [price |-> terms.price, numer |-> terms.price[1], denom |-> terms.price[2],
     min |-> terms.min, max |-> terms.max,
     total |-> (terms.price[1] * terms.max) \div terms.price[2]]

TypeOK ==
    /\ kind \in {"asks", "bids", "best_orders"} /\ buying \in BOOLEAN
    /\ changes \in 0..MaxChange
    /\ market \in [Order -> Terms \cup {None}]
    /\ rows \in [Order -> Contents \cup {None}]
    /\ picked \in Contents \cup {None}
    /\ sent = None \/ sent.shown \in Price

Init ==
    /\ kind \in {"asks", "bids", "best_orders"} /\ buying \in BOOLEAN
    /\ changes = 0
    /\ market = [o \in Order |-> None]
    /\ rows = [o \in Order |-> None]
    /\ picked = None /\ sent = None

-----------------------------------------------------------------------------
(* The model.                                                              *)

\* data, of a role that an update compares.
Data(row, role) == row[role]

\* setData; what it does of "numer" is not what data reads.
SetData(row, role, value) ==
    IF role = "numer" THEN [row EXCEPT !.denom = value] ELSE [row EXCEPT ![role] = value]

\* update_value: setData if data differs.
UpdateValue(row, role, value) ==
    IF Data(row, role) = value THEN row ELSE SetData(row, role, value)

\* update_order, role by role.
UpdateOrder(row, order) ==
    FoldLeft(LAMBDA r, role : UpdateValue(r, role, order[role]), row, Roles)

\* refresh_orderbook: updates, insertions and removals.
Refresh ==
    /\ rows' = [o \in Order |->
                   IF market[o] = None THEN None
                   ELSE IF rows[o] = None THEN FromJson(market[o])
                   ELSE UpdateOrder(rows[o], FromJson(market[o]))]
    /\ UNCHANGED <<setting, changes, market, picked, sent>>

\* reset_orderbook.
Reset ==
    /\ rows' = [o \in Order |-> IF market[o] = None THEN None ELSE FromJson(market[o])]
    /\ UNCHANGED <<setting, changes, market, picked, sent>>

\* The role enough_funds_to_pay_min_volume.
EnoughFunds(row) == row.min > 0 /\ TakerVol > row.min

\* The role cex_rates, over 100: only possible when buying.
RateOver100(o) ==
    buying /\ Cex[o][1] > 0
           /\ rows[o].price[1] * Cex[o][2] > 2 * rows[o].price[2] * Cex[o][1]

\* The role price_fiat: the price of what is sent for the volume, or 0.
HasFiatPrice(o) == Cex[o][1] > 0

\* filterAcceptsRow.
Accepted(o) ==
    kind = "best_orders"
        => /\ o \notin WalletOnly
           /\ o \in Listed => ~RateOver100(o) /\ HasFiatPrice(o) /\ o \notin Thin

-----------------------------------------------------------------------------
(* The world and the user.                                                 *)

\* An order is placed, updated or cancelled.
Change(o) ==
    /\ changes < MaxChange /\ changes' = changes + 1
    /\ \E terms \in {t \in Terms : t.min <= t.max} \cup {None} :
          market' = [market EXCEPT ![o] = terms]
    /\ UNCHANGED <<setting, rows, picked, sent>>

\* selectOrder, from the delegate of the books, with the roles of the row.
SelectOrder(o) ==
    /\ kind # "best_orders" /\ rows[o] # None
    /\ EnoughFunds(rows[o])
    /\ buying' = (kind = "asks")
    /\ picked' = rows[o]
    /\ UNCHANGED <<kind, changes, market, rows, sent>>

\* select_best_order.
SelectBestOrder(o) ==
    /\ kind = "best_orders" /\ rows[o] # None
    /\ Accepted(o)
    /\ picked' = rows[o]
    /\ UNCHANGED <<setting, changes, market, rows, sent>>

\* get_order_from_uuid, when the user accepts the offer of a better order.
AcceptBetterOrder(o) ==
    /\ kind = "bids" /\ ~buying /\ rows[o] # None /\ picked # None
    /\ rows[o].price[1] * picked.price[2] > picked.price[1] * rows[o].price[2]
    /\ picked' = rows[o]
    /\ UNCHANGED <<setting, changes, market, rows, sent>>

\* What both requests say of the price: the fraction, not the text.
Request(order) == [shown |-> order.price, price |-> <<order.numer, order.denom>>]

\* to_json of a buy_request: "the order is picked from the orderbook".
BuyRequest == buying /\ sent' = Request(picked)

\* to_json of a sell_request.
SellRequest == ~buying /\ sent' = Request(picked)

\* place_buy_order and place_sell_order, of a picked order.
PlaceOrder ==
    /\ picked # None
    /\ BuyRequest \/ SellRequest
    /\ picked' = None
    /\ UNCHANGED <<setting, changes, market, rows>>

Next ==
    \/ \E o \in Order : Change(o)
    \/ Refresh \/ Reset
    \/ \E o \in Order : SelectOrder(o) \/ SelectBestOrder(o) \/ AcceptBetterOrder(o)
    \/ PlaceOrder

Spec == Init /\ [][Next]_vars

-----------------------------------------------------------------------------
(* Properties.                                                             *)

\* "The order is picked from the orderbook price" (rpc.buy.cpp, rpc.sell.cpp): the
\* fraction that is sent is the price the user saw.
SentPriceIsShown ==
    sent # None => sent.price[1] * sent.shown[2] = sent.price[2] * sent.shown[1]
=============================================================================
