----------------------------- MODULE TradeForm -----------------------------
(***************************************************************************)
(* The order form of the trading page.  The setters of the page call one   *)
(* another: a new price may release the selected order, change the maximum *)
(* volume, cap the volume, raise the minimum volume and recompute the      *)
(* error, and each new volume asks mm2 for the fees.  They are operators   *)
(* here, from a form to a form, and the page's entry points are actions    *)
(* that apply them, on two threads:                                        *)
(*                                                                         *)
(*   - the GUI thread: the user, and process_action with the volumes of    *)
(*     the last orderbook answer (TradingSync says whose volumes);         *)
(*   - pool threads: the continuation of each order clears the form, that  *)
(*     of each preimage request stores the fees, and an orderbook answer   *)
(*     determines the maximum volume.                                      *)
(*                                                                         *)
(* Amounts are small naturals, divisions are rounded, and the margins that *)
(* the code adds to minimum volumes are left out.                          *)
(***************************************************************************)
EXTENDS Naturals, FiniteSetsExt

CONSTANTS
    None,
    Coin, Primary, Secondary,
    WalletOnly, \* coins that cannot be traded
    Empty,      \* coins with no balance
    Token,      \* coins with has_parent_fees_ticker
    Poor,       \* ... whose parent is disabled or has no balance
    Offer,      \* orders of the network: the other coin, price, base volumes
    Taker,      \* what mm2 says can be traded: set_both_taker_vol
    Target,     \* prices of the pairs that have trading settings
    Share,      \* their MinVolume, in percent
    Price, Volume, \* what the user types
    Slot,       \* bound: orders sent and not finished
    MaxUser     \* bound: what the user does

ASSUME FormAssumption ==
    /\ {Primary, Secondary} \subseteq Coin \ WalletOnly /\ Primary # Secondary
    /\ Poor \subseteq Token /\ Token \subseteq Coin /\ Empty \subseteq Coin
    /\ None \notin Coin
    /\ Offer \subseteq [coin : Coin \ WalletOnly, price : Nat, min : Nat, max : Nat]
    /\ \A o \in Offer : o.price > 0 /\ o.min <= o.max /\ o.max > 0
    /\ Taker \subseteq [coin : Coin, base : Nat, rel : Nat, minBase : Nat, minRel : Nat]
    /\ \A pair \in DOMAIN Target : Target[pair] \in Nat
    /\ Price \subseteq Nat /\ Volume \subseteq Nat
    /\ Share \in Nat /\ MaxUser \in Nat

VARIABLES
    form,  \* the fields of trading_page and of the orderbook widget
    busy,  \* m_rpc_buy_sell_busy
    calls, \* the orders sent, and how far their continuations are
    steps  \* what the user has done

vars == <<form, busy, calls, steps>>

NoOrder == [coin |-> None]
NoTaker == [coin |-> None, base |-> 0, rel |-> 0, minBase |-> 0, minRel |-> 0]
NoCall  == [stage |-> "free", late |-> FALSE]
Selected(f) == f.pref # NoOrder

\* A form nothing has been entered in; error is what determine_error_cases says.
Blank(l, r) ==
    [left |-> l, right |-> r, mode |-> "Sell", trading |-> "Pro",
     price |-> 0, volume |-> 0, max |-> 0, min |-> 0, error |-> "VolumeFieldNotFilled",
     pref |-> NoOrder, chosen |-> NoOrder, status |-> "None", post |-> TRUE,
     short |-> FALSE, asked |-> FALSE, w |-> NoTaker]

Stages == {"free", "sent", "clear", "settle", "unbusy"}
Errors == {"None", "ParentChain", "BalanceIsLessThanTheMinimalTradingAmount",
           "VolumeFieldNotFilled", "PriceFieldNotFilled", "VolumeIsLowerThanTheMinimum",
           "TotalFeesNotEnoughFunds"}

TypeOK ==
    /\ {form.left, form.right} \subseteq Coin /\ form.left # form.right
    /\ form.mode \in {"Sell", "Buy"} /\ form.trading \in {"Pro", "Simple"}
    /\ {form.price, form.volume, form.max, form.min} \subseteq Nat
    /\ form.error \in Errors
    /\ form.pref = NoOrder \/ form.pref.coin \in Coin
    /\ {form.asked, form.short, form.post, busy} \subseteq BOOLEAN
    /\ \A c \in Slot : calls[c].stage \in Stages

Init ==
    /\ form = Blank(Primary, Secondary)
    /\ busy = FALSE
    /\ calls = [c \in Slot |-> NoCall]
    /\ steps = 0

-----------------------------------------------------------------------------
(* The setters.                                                            *)

\* Only the left coin's parent is looked at when the left coin has one.
ParentTrouble(f) == IF f.left \in Token THEN f.left \in Poor ELSE f.right \in Poor

\* m_preferred_order takes a whole order or nothing.
IsMinMax(f) == Selected(f) /\ f.pref.min = f.pref.max

\* get_max_balance_without_dust.
MaxBalance(f) == IF f.mode = "Sell" THEN f.w.base ELSE f.w.rel

\* What is missing for the fees was found out when they were stored.
GenerateFeesError(f) == IF f.short THEN "TotalFeesNotEnoughFunds" ELSE "None"

ErrorOf(f) ==
    LET regularMin == IF f.mode = "Sell" THEN f.min ELSE f.w.minRel
    IN  CASE ParentTrouble(f) -> "ParentChain"
          [] ~ParentTrouble(f) /\ MaxBalance(f) < regularMin
                -> "BalanceIsLessThanTheMinimalTradingAmount"
          [] OTHER
                -> IF f.volume = 0 THEN "VolumeFieldNotFilled"
                   ELSE IF f.price = 0 THEN "PriceFieldNotFilled"
                   ELSE IF f.volume < f.min /\ ~IsMinMax(f) THEN "VolumeIsLowerThanTheMinimum"
                   ELSE GenerateFeesError(f)

SetTradingError(f, e) == [f EXCEPT !.error = e]

DetermineErrorCases(f) == SetTradingError(f, ErrorOf(f))

\* Requests in flight are not counted, and of the fees only error_fees is kept.
DetermineFees(f) == [f EXCEPT !.asked = TRUE]

DetermineTotalAmount(f) == IF f.w = NoTaker THEN f ELSE DetermineErrorCases(f)

PutVolume(f, v) == DetermineTotalAmount([f EXCEPT !.volume = v])

\* Mutant of CapVolume: the volume is left alone.
NeverCap(f) == f

CapVolume(f) ==
    IF f.volume > f.max /\ f.max # 0 THEN DetermineFees(PutVolume(f, f.max)) ELSE f

SetVolume(f, v) ==
    IF v = f.volume THEN f ELSE DetermineFees(CapVolume(PutVolume(f, v)))

SetMaxVolume(f, v) == [f EXCEPT !.max = v]

\* A selected order is capped once.
MaxToSell(f) ==
    IF f.w.base = 0 \/ f.w.coin # f.left THEN SetMaxVolume(f, 0)
    ELSE IF ~Selected(f) THEN SetMaxVolume(f, f.w.base)
    ELSE IF f.pref.capped THEN f
    ELSE [SetMaxVolume(f, Min({f.pref.max, f.w.base})) EXCEPT !.pref.capped = TRUE]

\* What the funds buy at the price of the selected order.
Affordable(f) == IF f.price > 0 THEN f.w.rel \div f.pref.price ELSE f.w.rel

\* Mutant of MaxToBuy: the quotient of the first determination is kept.
MaxToBuyOnce(f) ==
    IF ~Selected(f) THEN SetMaxVolume(f, IF f.price > 0 THEN f.w.rel \div f.price ELSE 0)
    ELSE IF f.w.rel = 0 THEN SetMaxVolume(f, 0)
    ELSE IF f.w.rel >= f.pref.max * f.pref.price THEN SetMaxVolume(f, f.pref.max)
    ELSE [SetMaxVolume(f, Affordable(f)) EXCEPT !.pref.rat = IF @ = 0 THEN Affordable(f) ELSE @]

\* The exact quotient is kept with the order, to be sent instead of the maximum.
MaxToBuy(f) ==
    IF ~Selected(f) THEN SetMaxVolume(f, IF f.price > 0 THEN f.w.rel \div f.price ELSE 0)
    ELSE IF f.w.rel = 0 THEN SetMaxVolume(f, 0)
    ELSE IF f.w.rel >= f.pref.max * f.pref.price THEN SetMaxVolume(f, f.pref.max)
    ELSE [SetMaxVolume(f, Affordable(f)) EXCEPT !.pref.rat = IF f.price > 0 THEN Affordable(f) ELSE @]

DetermineMaxVolume(f) ==
    IF f.mode = "Buy" THEN CapVolume(MaxToBuy(f))
    ELSE IF f.w = NoTaker THEN f ELSE CapVolume(MaxToSell(f))

\* The smallest volume both coins allow at price p.
Threshold(f, p) == Max({f.w.minBase, (f.w.minRel + p - 1) \div p})

CurrentMinTakerVol(f) ==
    IF Selected(f) THEN f.pref.min
    ELSE IF f.price = 0 THEN f.w.minBase ELSE Threshold(f, f.price)

SetMinTradeVol(f, v) ==
    LET m == Max({v, f.w.minBase, CurrentMinTakerVol(f)})
    IN  IF m = f.min THEN f ELSE DetermineErrorCases([f EXCEPT !.min = m])

AdjustMinVol(f) ==
    IF f.price > 0 /\ f.min < Threshold(f, f.price)
    THEN SetMinTradeVol(f, Threshold(f, f.price)) ELSE f

\* "releasing preferred order because price has been modified".
Release(f) ==
    IF Selected(f) /\ f.pref.locked THEN [f EXCEPT !.pref = NoOrder] ELSE f

Lock(f) == IF Selected(f) THEN [f EXCEPT !.pref.locked = TRUE] ELSE f

SetPrice(f, p) ==
    LET released == Release([f EXCEPT !.price = p])
        bounded  == IF f.mode = "Buy" THEN DetermineMaxVolume(released) ELSE released
    IN  IF p = f.price THEN f ELSE AdjustMinVol(Lock(DetermineTotalAmount(bounded)))

KeepsVolume(f) ==
    Selected(f) /\ f.trading = "Simple" /\ f.status = "OrderNotExistingAnymore"

\* An order picked in the pro view and applied in the simple one has no volume to
\* keep: clear_forms throws, and the program ends.
Throws(f) == KeepsVolume(f) /\ f.pref.initial = None

\* clear_forms up to set_trading_error(None), and what follows it.
Wipe(f) ==
    LET kept == IF KeepsVolume(f)
                THEN SetPrice(SetMaxVolume(SetVolume(f, f.pref.initial), f.w.base), 0)
                ELSE SetVolume([SetMaxVolume(SetPrice(f, 0), 0) EXCEPT !.min = 0], 0)
    IN  [SetTradingError(kept, "None") EXCEPT !.pref = NoOrder, !.short = FALSE, !.post = TRUE]

SetSelectedOrderStatus(f, s) == [f EXCEPT !.status = s]

SetFees(f, short) == [f EXCEPT !.short = short]
ResetFees(f) == DetermineErrorCases(SetFees(f, FALSE))

Settle(f) == ResetFees(SetSelectedOrderStatus(f, "None"))

ClearForms(f) == Settle(Wipe(f))

\* set_left_selected_coin, set_right_selected_coin.
SelectCoins(f, l, r) == [f EXCEPT !.left = l, !.right = r]

SetCurrentOrderbook(f, l, r) ==
    IF l \in WalletOnly \/ <<l, r>> = <<f.left, f.right>> THEN f
    ELSE ClearForms(SelectCoins(f, l, r))

SetMarketMode(f, m) == IF m = f.mode THEN f ELSE ClearForms([f EXCEPT !.mode = m])

SetTradingMode(f, t) == [SetMarketMode(ClearForms(f), "Sell") EXCEPT !.trading = t]

\* set_pair: a coin that is on the other side swaps the pair.
SetPair(f, isLeft, c) ==
    IF c = (IF isLeft THEN f.left ELSE f.right) THEN f
    ELSE IF c \in {f.left, f.right} THEN SetCurrentOrderbook(f, f.right, f.left)
    ELSE IF isLeft THEN SetCurrentOrderbook(f, c, f.right)
    ELSE SetCurrentOrderbook(f, f.left, c)

\* What a view makes of an order that is picked.
Picked(f, o) ==
    [coin |-> o.coin, price |-> o.price, min |-> o.min, max |-> o.max,
     initial |-> IF f.trading = "Simple" THEN f.volume ELSE None, rat |-> 0, capped |-> FALSE, locked |-> FALSE]

SetPreferredOrder(f, p) ==
    LET priced == SetPrice([f EXCEPT !.pref = p], p.price)
        low    == SetMinTradeVol(DetermineMaxVolume(priced), p.min)
    IN  DetermineFees(IF f.trading = "Pro" THEN SetVolume(low, p.max)
                      ELSE IF p.initial # None THEN SetVolume(low, p.initial) ELSE low)

\* select_best_order: the choice is kept for the reset that follows.
SelectBestOrder(f, o) ==
    LET g == [f EXCEPT !.chosen = Picked(f, o)]
    IN  IF o.coin = f.right THEN SetPreferredOrder(g, g.chosen) ELSE SetPair(g, FALSE, o.coin)

SetPreferredSettings(f) ==
    LET bounded == DetermineMaxVolume(SetPrice(f, Target[<<f.left, f.right>>]))
        filled  == SetVolume(bounded, bounded.max)
    IN  IF <<f.left, f.right>> \notin DOMAIN Target THEN f
        ELSE SetMinTradeVol(filled, (filled.volume * Share) \div 100)

\* adjust_functor: the first volumes after a clear fill the form.
Adjust(f) ==
    LET bounded == DetermineMaxVolume(f)
        filled  == SetVolume(bounded, bounded.max)
    IN  IF f.post /\ f.trading = "Pro" /\ f.min = 0 /\ MaxBalance(f) > 0
        THEN [SetMinTradeVol(filled, CurrentMinTakerVol(filled)) EXCEPT !.post = FALSE]
        ELSE f

-----------------------------------------------------------------------------
(* The GUI thread.                                                         *)

\* The user, through the views.
UserDoes(f) ==
    /\ steps < MaxUser /\ steps' = steps + 1
    /\ form' = f
    /\ UNCHANGED <<busy, calls>>

\* ... and what clears the form on the way.
UserClears(f) == ~Throws(form) /\ UserDoes(f)

\* filterAcceptsRow: what the list of one side offers.
Selectable(f, isLeft) ==
    {c \in Coin \ WalletOnly : isLeft /\ f.trading = "Simple" => c \notin Empty}

SelectPair ==
    \E isLeft \in BOOLEAN : \E c \in Selectable(form, isLeft) : UserClears(SetPair(form, isLeft, c))
SwapMarketPair == UserClears(SetCurrentOrderbook(form, form.right, form.left))
ChooseMarketMode == \E m \in {"Sell", "Buy"} \ {form.mode} : UserClears(SetMarketMode(form, m))
ChooseTradingMode == \E t \in {"Pro", "Simple"} \ {form.trading} : UserClears(SetTradingMode(form, t))

\* The price field is disabled while an order is selected, and only in the pro view.
EnterPrice ==
    /\ form.trading = "Pro" /\ ~Selected(form)
    /\ \E p \in Price \ {form.price} : UserDoes(SetPrice(form, p))

EnterVolume == \E v \in Volume \ {form.volume} : UserDoes(SetVolume(form, v))
EnterMinVolume == form.trading = "Pro" /\ \E v \in Volume : UserDoes(SetMinTradeVol(form, v))

\* An order of the pair's book: rows come with the volumes.
PickOffer ==
    /\ form.w # NoTaker
    /\ \E o \in Offer : o.coin = form.right /\ UserDoes(SetPreferredOrder(form, Picked(form, o)))

\* A best order of the left coin.
PickBestOrder ==
    /\ form.w # NoTaker
    /\ \E o \in Offer : o.coin # form.left /\ UserClears(SelectBestOrder(form, o))

ResetOrder == UserClears(ClearForms(form))

\* disable_coins sets the two coins itself, and set_current_orderbook then sees no
\* change: the form is not cleared.
DisableCoin ==
    /\ \E c \in {form.left, form.right} \ {Primary, Secondary} :
          UserDoes(SelectCoins(form, Secondary, Primary))

\* The volume a purchase sends: the whole order, its exact fraction, or what is shown.
BoughtVolume(f) ==
    LET isMax == f.volume = f.max
    IN  IF Selected(f) /\ isMax /\ f.max = f.pref.max THEN f.pref.max
        ELSE IF Selected(f) /\ isMax /\ f.pref.rat # 0 THEN f.pref.rat
        ELSE f.volume

\* ... and a sale: all that can be traded, but for an order of the simple view.
SoldVolume(f) ==
    IF Selected(f) /\ f.volume = f.pref.max THEN f.pref.max
    ELSE IF f.volume = f.max /\ (Selected(f) => f.trading = "Pro") THEN f.w.base
    ELSE f.volume

\* t_buy_request, t_sell_request.
Request(f) ==
    [stage |-> "sent", late |-> FALSE, buy |-> f.mode = "Buy", simple |-> f.trading = "Simple",
     shown |-> f.volume, volume |-> IF f.mode = "Buy" THEN BoughtVolume(f) ELSE SoldVolume(f),
     price |-> IF Selected(f) THEN f.pref.price ELSE f.price]

SetBuySellRpcBusy(status) == busy' = status

\* The confirm button is enabled when no order is in flight and there is no error.
PlaceOrder(c) ==
    /\ calls[c] = NoCall /\ ~busy /\ form.error = "None"
    /\ steps < MaxUser /\ steps' = steps + 1
    /\ SetBuySellRpcBusy(TRUE)
    /\ calls' = [calls EXCEPT ![c] = Request(form)]
    /\ UNCHANGED form

\* The form takes over the volumes v.
SetBothTakerVol(f, v) == [f EXCEPT !.w = v]

\* process_action, with the volumes v: a reset.
ProcessReset ==
    \E v \in Taker :
       LET known   == SetBothTakerVol(form, v)
           applied == IF known.chosen = NoOrder THEN known
                      ELSE [SetPreferredOrder(known, known.chosen) EXCEPT !.chosen = NoOrder]
       IN  /\ form' = DetermineErrorCases(IF form.trading = "Pro"
                                          THEN SetPreferredSettings(applied) ELSE Adjust(applied))
           /\ UNCHANGED <<busy, calls, steps>>

\* ... and a refresh, in which the bids may say that the selected order is gone.
ProcessRefresh ==
    \E v \in Taker, s \in {form.status, "OrderNotExistingAnymore", "BetterPriceAvailable"} :
       /\ s # form.status => Selected(form)
       /\ form' = DetermineErrorCases(Adjust(SetSelectedOrderStatus(SetBothTakerVol(form, v), s)))
       /\ UNCHANGED <<busy, calls, steps>>

-----------------------------------------------------------------------------
(* Pool threads.                                                           *)

\* on_process_orderbook_finished_event.
PoolMaxVolume ==
    /\ form' = DetermineMaxVolume(form)
    /\ UNCHANGED <<busy, calls, steps>>

\* A preimage answer; the error of the form is not recomputed.  Others may follow.
AnswerFees ==
    /\ form.asked
    /\ \E short, more \in BOOLEAN : form' = [SetFees(form, short) EXCEPT !.asked = more]
    /\ UNCHANGED <<busy, calls, steps>>

\* Mutant of AnswerOrder: the flag is left to the success path.
AnswerOrderStaysBusy(c) ==
    /\ calls[c].stage = "sent"
    /\ busy' = (busy /\ ~calls[c].buy)
    /\ calls' = [calls EXCEPT ![c].stage = "clear", ![c].late = FALSE]
    /\ UNCHANGED <<form, steps>>

\* mm2's answer, or none (failed).  A sell that is answered lowers the flag when
\* the form is cleared, the others before.
AnswerOrder(c) ==
    /\ calls[c].stage = "sent"
    /\ \E failed \in BOOLEAN :
          LET late == ~failed /\ ~calls[c].buy
          IN  /\ SetBuySellRpcBusy(busy /\ late)
              /\ calls' = [calls EXCEPT ![c].stage = "clear", ![c].late = late]
    /\ UNCHANGED <<form, steps>>

\* The GUI thread runs between the two halves of clear_forms.
WipeForm(c) ==
    /\ calls[c].stage = "clear" /\ ~Throws(form)
    /\ form' = Wipe(form)
    /\ calls' = [calls EXCEPT ![c].stage = "settle"]
    /\ UNCHANGED <<busy, steps>>

SettleForm(c) ==
    /\ calls[c].stage = "settle"
    /\ form' = Settle(form)
    /\ calls' = [calls EXCEPT ![c] = IF @.late THEN [@ EXCEPT !.stage = "unbusy"] ELSE NoCall]
    /\ UNCHANGED <<busy, steps>>

LowerBusy(c) ==
    /\ calls[c].stage = "unbusy"
    /\ SetBuySellRpcBusy(FALSE)
    /\ calls' = [calls EXCEPT ![c] = NoCall]
    /\ UNCHANGED <<form, steps>>

-----------------------------------------------------------------------------
UserStep ==
    \/ SelectPair \/ SwapMarketPair \/ ChooseMarketMode \/ ChooseTradingMode
    \/ EnterPrice \/ EnterVolume \/ EnterMinVolume
    \/ PickOffer \/ PickBestOrder \/ ResetOrder \/ DisableCoin
    \/ \E c \in Slot : PlaceOrder(c)

Continuation(c) == AnswerOrder(c) \/ WipeForm(c) \/ SettleForm(c) \/ LowerBusy(c)

Next ==
    \/ UserStep \/ ProcessReset \/ ProcessRefresh \/ PoolMaxVolume \/ AnswerFees
    \/ \E c \in Slot : Continuation(c)

Spec == Init /\ [][Next]_vars

-----------------------------------------------------------------------------
(* Properties.                                                             *)

\* The button's error, but for the time before the first volumes are known, when it
\* is seldom recomputed, and the middle of another thread's clear_forms, where it is
\* None and the fields are 0.
CanConfirm ==
    form.error = "None" /\ form.w # NoTaker /\ \A c \in Slot : calls[c].stage # "settle"

\* Who is capped: a purchase, the simple view, a selected order, and a form that the
\* refresh after a clear has filled.  A sale of the pro view is not before that: the
\* volume kept from an order that disappeared in the simple view outlives a change of
\* view, next to a maximum that clear_forms lowered without capping it.
Bounded(f) == f.mode = "Buy" \/ f.trading = "Simple" \/ Selected(f) \/ ~f.post

\* The volume of a capped form that can be confirmed never exceeds the maximum shown,
\* whichever of the price, the selected order, the balances and the pair changed last;
\* a maximum of 0 stands for "unknown".
VolumeWithinMax == CanConfirm /\ Bounded(form) /\ form.max # 0 => form.volume <= form.max

\* A buy, and a sale of the simple view, is sent with the volume the form showed,
\* also when an exact fraction computed earlier is sent in its place.  (Price 0: sent
\* from a form that another thread is clearing.)
SentIsShown ==
    \A c \in Slot :
       calls[c].stage = "sent" /\ calls[c].price # 0 /\ (calls[c].buy \/ calls[c].simple)
          => calls[c].volume = calls[c].shown

\* The flag that disables the confirm button is set only while an order's answer, or
\* the clearing of the form that a sale waits for, is still to come: it is lowered
\* at a different place for a purchase, a sale and a lost connection.
BusyMeansOrderInFlight == busy => \E c \in Slot : calls[c].stage = "sent" \/ calls[c].late
=============================================================================
