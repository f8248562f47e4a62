---------------------------- MODULE TradingSync ----------------------------
(***************************************************************************)
(* How the trading page of colliderDEX follows the pair its user selects.  *)
(* Three kinds of actors share the state:                                  *)
(*                                                                         *)
(*   - the GUI thread: the user selects pairs and fills the form, timers   *)
(*     send requests to mm2, process_action fills the page's models;       *)
(*   - the mm2 process, which answers orderbook and best_orders requests   *)
(*     in any order and has no state here;                                 *)
(*   - pplx pool threads, which run the continuation of each answer: they  *)
(*     store it, push an action for the GUI thread, say in a flag whether  *)
(*     that action is a reset, and recompute the form's maximum volume.    *)
(*                                                                         *)
(* A book, a volume or a list of best orders is named by what it is for: a *)
(* pair, a coin, or a coin and a mode.  mm2 is running throughout.         *)
(***************************************************************************)
EXTENDS Naturals, FiniteSets

CONSTANTS
    None,       \* "nothing yet"
    Coin,       \* coins enabled in the wallet
    Primary,    \* DEX_PRIMARY_COIN
    Secondary,  \* DEX_SECOND_PRIMARY_COIN
    Pair,       \* the pairs the user selects, of coins that are not wallet_only
    Mode,       \* the market modes the user selects
    BookCall,   \* slots for orderbook requests in flight: a bound
    ScanCall,   \* slots for best_orders requests in flight: a bound
    Fault,      \* "lost": no usable answer; "partial": some entries are errors
    MaxPending, \* bound on m_actions_queue
    Scenarios   \* bound: how the runs start, and how many slots and actions they have

\* A way to start: whether the user is on the trading page, the requests that may be
\* in flight at once, those among them that are (the resets of a pair just selected),
\* and how many things the user does and mm2 fails at.
Scenario == [on : BOOLEAN, slots : SUBSET (BookCall \cup ScanCall),
             asked : SUBSET BookCall, user : Nat]

ASSUME PairAssumption ==
    /\ Primary \in Coin /\ Secondary \in Coin /\ Primary # Secondary
    /\ None \notin Coin
    /\ Pair \subseteq {p \in Coin \X Coin : p[1] # p[2]}
    /\ Mode \subseteq {"Sell", "Buy"}
ASSUME BoundAssumption ==
    /\ BookCall \cap ScanCall = {}
    /\ Fault \subseteq {"lost", "partial"}
    /\ MaxPending \in Nat \ {0}
    /\ Scenarios \subseteq Scenario

VARIABLES
    pair,      \* the selected coins, and m_synchronized_ticker_pair
    mode,      \* m_market_mode
    trading,   \* m_orderbook_thread_active
    form,      \* which fields of the order form are set, and the maximum volume
    left,      \* how many things the user may still do, and how often mm2 may fail
    book,      \* mm2_service::m_orderbook
    vols,      \* m_synchronized_max_taker_vol and m_synchronized_min_taker_vol
    data,      \* orderbook_scanner_service::m_best_orders_infos
    busy,      \* orderbook_scanner_service::m_rpc_busy
    call,      \* the requests in flight and the continuations of the answers
    pending,   \* the length of m_actions_queue
    needReset, \* m_models_actions[orderbook_need_a_reset]
    rows,      \* the asks and bids models
    best,      \* the best orders model
    shown      \* the volumes the orderbook widget shows

vars == <<pair, mode, trading, form, left, book, vols, data, busy, call, pending,
          needReset, rows, best, shown>>

userVars    == <<pair, mode, trading, left>>
serviceVars == <<book, vols, data>>
queueVars   == <<pending, needReset>>
modelVars   == <<rows, best, shown>>

Call == BookCall \cup ScanCall
AnyPair == Pair \cup {<<Primary, Secondary>>, <<Secondary, Primary>>}
AnyMode == Mode \cup {"Sell"}
Volumes == [max : (Coin \cup {None}) \X (Coin \cup {None}),
            min : (Coin \cup {None}) \X (Coin \cup {None})]

NoVolumes == [max |-> <<None, None>>, min |-> <<None, None>>]
ClearForm == [price |-> FALSE, volume |-> FALSE, fits |-> FALSE, min |-> FALSE,
              fresh |-> TRUE, max |-> None]
Free == [stage |-> "free"]
Closed == [stage |-> "closed"]   \* a slot that the scenario does not have

\* A slot holds a request on its way, and then what its continuation still needs.
BookRequests == [stage : {"sent", "seen"}, pair : AnyPair, reset : BOOLEAN, seen : AnyPair]
ScanRequests == [stage : {"sent"}, coin : Coin, mode : AnyMode]
Continuations == [stage : {"stored"}, reset : BOOLEAN] \cup [stage : {"told", "checked"}]
Slot(c) == {Free, Closed} \cup Continuations
             \cup (IF c \in BookCall THEN BookRequests ELSE ScanRequests)
Forms == [price : BOOLEAN, volume : BOOLEAN, fits : BOOLEAN, min : BOOLEAN,
          fresh : BOOLEAN, max : Coin \cup {None}]

TypeOK ==
    /\ pair \in AnyPair
    /\ mode \in AnyMode
    /\ trading \in BOOLEAN
    /\ form \in Forms
    /\ left \in Nat
    /\ book \in AnyPair \cup {None}
    /\ vols \in Volumes
    /\ data \in (Coin \X AnyMode) \cup {None}
    /\ busy \in BOOLEAN
    /\ call \in [Call -> UNION {Slot(c) : c \in Call}]
    /\ \A c \in Call : call[c] \in Slot(c)
    /\ pending \in 0 .. MaxPending
    /\ needReset \in BOOLEAN
    /\ rows \in AnyPair \cup {None}
    /\ best \in (Coin \X AnyMode) \cup {None}
    /\ shown \in Volumes

-----------------------------------------------------------------------------
(* Requests.                                                               *)

Request(p, reset) == [stage |-> "sent", pair |-> p, reset |-> reset, seen |-> p]

Init ==
    /\ pair = <<Primary, Secondary>> /\ mode = "Sell"
    /\ \E s \in Scenarios : /\ trading = s.on /\ left = s.user
                           /\ call = [c \in Call |-> CASE c \in s.asked -> Request(pair, TRUE)
                                                     [] c \in s.slots \ s.asked -> Free
                                                     [] OTHER -> Closed]
    /\ form = [ClearForm EXCEPT !.fresh = FALSE]
    /\ book = None /\ vols = NoVolumes /\ data = None
    /\ busy = FALSE
    /\ pending = 0 /\ needReset = FALSE
    /\ rows = None /\ best = None /\ shown = NoVolumes

\* The best orders asked for are those of the selected coin, in the current mode.
ScanRequest == [stage |-> "sent", coin |-> pair[1], mode |-> mode]

\* process_orderbook: ask mm2 for the book of p and, for a reset, its volumes.
ProcessOrderbook(p, reset) ==
    \E c \in BookCall : /\ call[c] = Free
                        /\ call' = [call EXCEPT ![c] = Request(p, reset)]

\* on_refresh_orderbook; mm2 runs when the trading page is there.
OnRefreshOrderbook(p) == ProcessOrderbook(p, TRUE)

SendBestOrders(slots) ==
    /\ busy' = TRUE
    /\ \E c \in slots : call' = [call EXCEPT ![c] = ScanRequest]

FreeScan == {c \in ScanCall : call[c] = Free}

\* process_best_orders: one request at a time, and only on the trading page.
ProcessBestOrders ==
    IF busy \/ ~trading THEN UNCHANGED <<busy, call>> ELSE SendBestOrders(FreeScan)

\* determine_max_volume.  Selling, it compares the coin of the shown volume with
\* the selected one; buying, it divides whatever volume is shown by the price.
MaxVolume(f, v) ==
    IF mode = "Sell"
    THEN CASE v.max[1] = None    -> f.max
           [] v.max[1] = pair[1] -> pair[1]
           [] OTHER              -> None
    ELSE IF f.price THEN v.max[2] ELSE None

\* cap_volume then compares the volume with the maximum, if there is one: once
\* compared, the volume fits until either changes.
Determined(f, v) ==
    LET m == MaxVolume(f, v)
    IN  [f EXCEPT !.max = m, !.fits = f.volume /\ m # None]

\* May the volume of f exceed the maximum of d?  A volume that does is lowered.
MayExceed(f, d) == d.volume /\ d.max # None /\ ~(f.fits /\ f.max = d.max)

\* cap_volume calls set_volume, which scans.
CapVolume(f, d) ==
    \/ UNCHANGED <<busy, call>>
    \/ MayExceed(f, d) /\ ProcessBestOrders

-----------------------------------------------------------------------------
(* The user.                                                               *)

User == left > 0 /\ left' = left - 1

\* mm2 or the connection fails in one of the ways of Fault.
Fails(kind) == kind \in Fault /\ left > 0 /\ left' = left - 1

\* set_current_orderbook for another pair, through set_pair.  The models and
\* the form are cleared, the new book is asked for even off the trading page.
SelectPair(p) ==
    /\ User /\ p \in Pair /\ p # pair
    /\ pair' = p
    /\ rows' = None /\ best' = None /\ form' = ClearForm
    /\ OnRefreshOrderbook(p)
    /\ UNCHANGED <<mode, trading, serviceVars, busy, queueVars, shown>>

\* trading_page::disable_coins sets the selected coins before it calls
\* set_current_orderbook, which then sees no change and clears nothing.
DisableCoin(coin) ==
    /\ User /\ coin \notin {Primary, Secondary}
    /\ pair' = IF coin \in {pair[1], pair[2]} THEN <<Secondary, Primary>> ELSE pair
    /\ OnRefreshOrderbook(pair')
    /\ UNCHANGED <<mode, trading, form, serviceVars, busy, queueVars, modelVars>>

\* set_market_mode: clear_forms (which empties the best orders when there was a
\* volume), then set_current_orderbook for the same pair.
SetMarketMode(m) ==
    /\ User /\ m \in Mode /\ m # mode
    /\ mode' = m
    /\ form' = ClearForm
    /\ best' = IF form.volume THEN None ELSE best
    /\ OnRefreshOrderbook(pair)
    /\ UNCHANGED <<pair, trading, serviceVars, busy, queueVars, rows, shown>>

\* on_gui_enter_dex and on_gui_leave_dex.
EnterOrLeave ==
    /\ User
    /\ trading' = ~trading
    /\ UNCHANGED <<pair, mode, form, serviceVars, busy, call, queueVars, modelVars>>

\* set_price: adjust_min_vol then sees to a minimum volume.
SetPrice ==
    /\ User /\ ~form.price
    /\ LET f == [form EXCEPT !.price = TRUE, !.min = TRUE]
       IN  IF mode = "Buy" THEN form' = Determined(f, shown) /\ CapVolume(f, form')
                           ELSE form' = f /\ UNCHANGED <<busy, call>>
    /\ UNCHANGED <<pair, mode, trading, serviceVars, queueVars, modelVars>>

\* set_volume: refresh_best_orders scans, or clears when there is no volume.  A
\* volume that is above the maximum is capped.
SetVolume ==
    /\ User
    /\ \/ /\ form' = [form EXCEPT !.volume = TRUE, !.fits = form.max # None]
          /\ ProcessBestOrders /\ UNCHANGED best
       \/ /\ form.volume /\ form' = [form EXCEPT !.volume = FALSE, !.fits = FALSE]
          /\ best' = None
          /\ UNCHANGED <<busy, call>>
    /\ UNCHANGED <<pair, mode, trading, serviceVars, queueVars, rows, shown>>

-----------------------------------------------------------------------------
(* The timers of the GUI thread.                                           *)

\* fetch_current_orderbook_thread: on the trading page only.
FetchCurrentOrderbook == trading /\ ProcessOrderbook(pair, FALSE)

\* mm2_service::update, every 5 seconds.
FetchOrderbook ==
    /\ FetchCurrentOrderbook
    /\ UNCHANGED <<userVars, form, serviceVars, busy, queueVars, modelVars>>

\* Mutant of ScanBestOrders: only an empty list is scanned for.
ScanWhenEmpty ==
    /\ trading /\ ~busy /\ best = None
    /\ ProcessBestOrders
    /\ UNCHANGED <<userVars, form, serviceVars, queueVars, modelVars>>

\* orderbook_scanner_service::update, every 30 seconds.
ScanBestOrders ==
    /\ trading /\ ~busy
    /\ ProcessBestOrders
    /\ UNCHANGED <<userVars, form, serviceVars, queueVars, modelVars>>

\* Mutant of HasOrderbook: the compared pair is the swapped one.
HasOrderbookSwapped == book # None /\ book[1] = pair[2]

\* get_orderbook: its comparison of the pair takes rel from the pair itself.
HasOrderbook == book # None /\ book[1] = pair[1]

\* The adjust_functor of process_action, after a refresh of a cleared form: the
\* volume becomes the maximum, and the minimum is filled in.
Adjust(f, v) ==
    LET d == Determined(f, v)
    IN  [d EXCEPT !.volume = d.max # None, !.fits = d.max # None,
                  !.min = v.min[1] # None, !.fresh = FALSE]

Adjusts(f, v) == f.fresh /\ ~f.min /\ v.max[IF mode = "Buy" THEN 2 ELSE 1] # None

\* reset_orderbook of the widget: the best orders are asked for again.
ResetWidget ==
    /\ needReset
    /\ rows' = book /\ shown' = vols /\ best' = None
    /\ ProcessBestOrders
    /\ UNCHANGED form

\* refresh_orderbook of the widget, then adjust_functor.
RefreshWidget ==
    /\ ~needReset
    /\ rows' = book /\ shown' = vols
    /\ IF Adjusts(form, vols)
       THEN /\ form' = Adjust(form, vols)
            /\ best' = IF form.volume /\ ~form'.volume THEN None ELSE data
            /\ IF form'.volume THEN ProcessBestOrders ELSE UNCHANGED <<busy, call>>
       ELSE best' = data /\ UNCHANGED <<form, busy, call>>

\* trading_page::process_action, for one action per tick.
ProcessAction ==
    /\ pending > 0
    /\ pending' = pending - 1
    /\ IF HasOrderbook THEN ResetWidget \/ RefreshWidget
                       ELSE UNCHANGED <<form, busy, call, modelVars>>
    /\ UNCHANGED <<userVars, serviceVars, needReset>>

-----------------------------------------------------------------------------
(* The continuations, on pool threads.                                     *)

\* The answer is stored and an action pushed for it: the flag comes next.
Pushed(reset) == [stage |-> "stored", reset |-> reset]

\* The continuation of process_orderbook reads the pair selected by then.
ReadPair(c) ==
    /\ c \in BookCall /\ call[c].stage = "sent"
    /\ call' = [call EXCEPT ![c].stage = "seen", ![c].seen = pair]
    /\ UNCHANGED <<userVars, form, serviceVars, busy, queueVars, modelVars>>

\* Of the volumes of a reset, the maximum is kept only for a coin of that pair,
\* the minimum always.
Stored(r, ok) ==
    IF ~r.reset THEN vols
    ELSE [max |-> [i \in {1, 2} |->
                     IF i \in ok /\ r.seen[i] = r.pair[i] THEN r.pair[i] ELSE vols.max[i]],
          min |-> [i \in {1, 2} |-> IF i \in ok THEN r.pair[i] ELSE vols.min[i]]]

\* The answer is stored, whatever it is for, and an action is pushed; an answer
\* may lack the entries of some of the coins, and the book.
StoreBook(c) ==
    /\ c \in BookCall /\ call[c].stage = "seen"
    /\ pending < MaxPending
    /\ \/ /\ UNCHANGED left
          /\ vols' = Stored(call[c], {1, 2})
       \/ /\ Fails("partial")
          /\ \E ok \in SUBSET {1, 2} : vols' = Stored(call[c], ok)
    /\ \/ /\ book' = call[c].pair
          /\ pending' = pending + 1
          /\ call' = [call EXCEPT ![c] = Pushed(call[c].reset)]
       \/ /\ left' # left
          /\ call' = [call EXCEPT ![c] = Free]
          /\ UNCHANGED <<book, pending>>
    /\ UNCHANGED <<pair, mode, trading, form, data, busy, needReset, modelVars>>

\* The continuation of process_best_orders: a new request may start before its
\* process_orderbook_finished is handled.
StoreBest(c) ==
    /\ c \in ScanCall /\ call[c].stage = "sent"
    /\ pending < MaxPending
    /\ \/ data' = <<call[c].coin, call[c].mode>> /\ UNCHANGED left
       \/ Fails("partial") /\ UNCHANGED data
    /\ busy' = FALSE
    /\ pending' = pending + 1
    /\ call' = [call EXCEPT ![c] = Pushed(FALSE)]
    /\ UNCHANGED <<pair, mode, trading, form, book, vols, needReset, modelVars>>

\* Mutant of LoseAnswer: the error path of process_best_orders forgets the flag.
LoseAnswerStaysBusy(c) ==
    /\ Fails("lost") /\ call[c].stage = "sent"
    /\ \/ /\ c \in BookCall
          /\ call' = [call EXCEPT ![c] = Free]
          /\ UNCHANGED pending
       \/ /\ c \in ScanCall /\ pending < MaxPending
          /\ pending' = pending + 1
          /\ call' = [call EXCEPT ![c] = Pushed(TRUE)]
    /\ UNCHANGED <<pair, mode, trading, form, serviceVars, busy, needReset, modelVars>>

\* No usable answer.  Losing best orders is told to the page as a reset.
LoseAnswer(c) ==
    /\ Fails("lost") /\ call[c].stage = "sent"
    /\ \/ /\ c \in BookCall
          /\ call' = [call EXCEPT ![c] = Free]
          /\ UNCHANGED <<busy, pending>>
       \/ /\ c \in ScanCall /\ pending < MaxPending
          /\ busy' = FALSE
          /\ pending' = pending + 1
          /\ call' = [call EXCEPT ![c] = Pushed(TRUE)]
    /\ UNCHANGED <<pair, mode, trading, form, serviceVars, needReset, modelVars>>

\* on_process_orderbook_finished_event sets the flag after the push, for an
\* action the GUI thread may have handled already.
TellReset(c) ==
    /\ call[c].stage = "stored"
    /\ needReset' = call[c].reset
    /\ call' = [call EXCEPT ![c] = [stage |-> "told"]]
    /\ UNCHANGED <<userVars, form, serviceVars, busy, pending, modelVars>>

\* ... and determines the maximum volume.  When that lowers the volume, it scans:
\* m_rpc_busy is read here and set in PoolScan, the GUI thread runs in between.
PoolMaxVolume(c) ==
    /\ call[c].stage = "told"
    /\ form' = Determined(form, shown)
    /\ \/ call' = [call EXCEPT ![c] = Free]
       \/ /\ MayExceed(form, form') /\ trading /\ ~busy
          /\ call' = [call EXCEPT ![c] = [stage |-> "checked"]]
    /\ UNCHANGED <<userVars, serviceVars, busy, queueVars, modelVars>>

PoolScan(c) ==
    /\ call[c].stage = "checked"
    /\ busy' = TRUE
    /\ \E s \in FreeScan \cup ({c} \cap ScanCall) :
          call' = [d \in Call |-> IF d = s THEN ScanRequest
                                  ELSE IF d = c THEN Free ELSE call[d]]
    /\ UNCHANGED <<userVars, form, serviceVars, queueVars, modelVars>>

-----------------------------------------------------------------------------
UserStep ==
    \/ \E p \in Pair : SelectPair(p)
    \/ \E coin \in Coin : DisableCoin(coin)
    \/ \E m \in Mode : SetMarketMode(m)
    \/ EnterOrLeave \/ SetPrice \/ SetVolume

Continuation(c) ==
    ReadPair(c) \/ StoreBook(c) \/ StoreBest(c) \/ TellReset(c) \/ PoolMaxVolume(c) \/ PoolScan(c)

Next ==
    \/ UserStep \/ FetchOrderbook \/ ScanBestOrders \/ ProcessAction
    \/ \E c \in Call : Continuation(c) \/ LoseAnswer(c)

\* The timers fire, the pool runs every continuation and mm2 answers.  Strong
\* fairness where only a bound of the model (a free slot) can be in the way.
Fairness ==
    /\ SF_vars(FetchOrderbook) /\ SF_vars(ScanBestOrders) /\ SF_vars(ProcessAction)
    /\ \A c \in Call : SF_vars(Continuation(c))

Spec == Init /\ [][Next]_vars
FairSpec == Spec /\ Fairness

-----------------------------------------------------------------------------
(* Properties.                                                             *)

\* m_rpc_busy of the scanner (the spinner of the best orders) is set only while
\* a best_orders request is in flight, although two threads may both have read
\* it as false and the answer of either request clears it.
BusyMeansScanning == busy => \E c \in ScanCall : call[c].stage = "sent"

\* Whatever late answers, lost resets and overwritten flags came before, a user
\* who stays on the trading page ends up with the book of the selected pair.
BookCatchesUp == <>[](trading => rows = pair)

\* ... and with the best orders of the selected coin, in the selected mode,
\* although requests are dropped while one is in flight.
BestOrdersCatchUp == <>[](trading => best = <<pair[1], mode>>)
=============================================================================
