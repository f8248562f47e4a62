--------------------------- MODULE SelectedOrder ---------------------------
(***************************************************************************)
(* The order a user of the simple view has selected, and the bids model    *)
(* that watches it.  The user sells, and wants the highest price.          *)
(*                                                                         *)
(* The network of mm2 peers changes the orders of the pair at any time.    *)
(* Every few seconds a snapshot of them is asked for; snapshots may be     *)
(* stored out of order (see TradingSync).  The GUI thread applies the      *)
(* stored one to the rows of the model, row by row, and the model emits    *)
(* signals on the way: the view's handlers run inside them and change the  *)
(* selection while the rows are still being updated.                       *)
(*                                                                         *)
(* An order is its uuid; its data is its price, 0 when it does not exist.  *)
(***************************************************************************)
EXTENDS Naturals, FiniteSets

CONSTANTS
    Uuid,     \* uuids
    BidPrice,     \* the prices an order may have
    Events,    \* the sets of what else may happen, see EventKind
    MaxFlight, \* bound: snapshots in flight
    MaxChange  \* bound: how often the network changes, for each of Events

\* "reset": the model is reset although the pair is the same, because a coin was
\* disabled or a scan for best orders failed.  "stale": the user picks an order
\* from a list or an offer that is out of date.
EventKind == {"reset", "stale"}

ASSUME OrderAssumption ==
    /\ BidPrice \subseteq Nat \ {0}
    /\ Events \subseteq SUBSET EventKind
    /\ MaxFlight \in Nat
    /\ MaxChange \in [Events -> Nat]

VARIABLES
    events,    \* what else may happen in this behaviour
    live,      \* the orders on the network
    changes,   \* how often it has changed
    flight,    \* answers of mm2 that are not stored yet
    book,      \* mm2_service::m_orderbook
    pending,   \* an action is in m_actions_queue
    needReset, \* m_models_actions[orderbook_need_a_reset]
    rows,      \* m_model_data of the bids
    gui,       \* the refresh_orderbook the GUI thread is in
    sel,       \* m_preferred_order, and selectedOrder of the view
    offers,    \* the snackbars that offer a better order
    modal      \* the order that OrderRemovedModal is about

bidsVars ==
    <<events, live, changes, flight, book, pending, needReset, rows, gui, sel, offers, modal>>
feedVars == <<events, live, changes, flight, book, pending, needReset>>
viewVars == <<sel, offers, modal>>

Book    == [Uuid -> BidPrice \cup {0}]
Choice  == [uuid : Uuid, price : BidPrice]
NoBid == [uuid |-> "none"]
NoBook  == [o \in Uuid |-> 0]
Idle    == [op |-> "idle", todo |-> {}, target |-> NoBook]

BidsTypeOK ==
    /\ events \in Events
    /\ live \in Book
    /\ changes \in 0 .. MaxChange[events]
    /\ flight \subseteq [snap : Book, reset : BOOLEAN]
    /\ book \in Book
    /\ pending \in BOOLEAN
    /\ needReset \in BOOLEAN
    /\ rows \in Book
    /\ gui \in [op : {"idle", "refresh"}, todo : SUBSET Uuid, target : Book]
    /\ sel \in Choice \cup {NoBid}
    /\ offers \subseteq Choice
    /\ modal \in SUBSET Uuid

BidsInit ==
    /\ events \in Events
    /\ live \in Book /\ changes = 0
    /\ flight = {} /\ book = NoBook /\ pending = FALSE /\ needReset = FALSE
    /\ rows = NoBook
    /\ gui = Idle
    /\ sel = NoBid /\ offers = {} /\ modal = {}

-----------------------------------------------------------------------------
(* The network, mm2 and the continuations.                                 *)

\* An order is placed, changes its price, is matched or is cancelled.
NetworkChange(o) ==
    /\ changes < MaxChange[events]
    /\ changes' = changes + 1
    /\ \E p \in (BidPrice \cup {0}) \ {live[o]} : live' = [live EXCEPT ![o] = p]
    /\ UNCHANGED <<events, flight, book, pending, needReset, rows, gui, viewVars>>

\* Mutant of Answer: no refresh while an order is selected.
AnswerUnlessSelected ==
    /\ Cardinality(flight) < MaxFlight /\ sel = NoBid
    /\ flight' = flight \cup {[snap |-> live, reset |-> FALSE]}
    /\ UNCHANGED <<events, live, changes, book, pending, needReset, rows, gui, viewVars>>

\* mm2 answers an orderbook request.
Answer ==
    /\ Cardinality(flight) < MaxFlight
    /\ \E reset \in IF "reset" \in events THEN BOOLEAN ELSE {FALSE} :
          flight' = flight \cup {[snap |-> live, reset |-> reset]}
    /\ UNCHANGED <<events, live, changes, book, pending, needReset, rows, gui, viewVars>>

\* process_orderbook's continuation, in any order.
Store(a) ==
    /\ flight' = flight \ {a}
    /\ book' = a.snap
    /\ pending' = TRUE
    /\ needReset' = a.reset
    /\ UNCHANGED <<events, live, changes, rows, gui, viewVars>>

-----------------------------------------------------------------------------
(* The GUI thread: process_action.                                         *)

\* reset_orderbook: the rows are replaced, and the selection is not looked at.
Reset ==
    /\ gui.op = "idle" /\ pending /\ needReset
    /\ rows' = book
    /\ pending' = FALSE
    /\ UNCHANGED <<events, live, changes, flight, book, needReset, gui, viewVars>>

\* Mutant of StartRefresh: an order that has a row already is not updated.
StartInsertOnly ==
    /\ gui.op = "idle" /\ pending /\ ~needReset
    /\ gui' = [op |-> "refresh", target |-> book,
               todo |-> {o \in Uuid : book[o] # 0 /\ rows[o] = 0}]
    /\ pending' = FALSE
    /\ UNCHANGED <<events, live, changes, flight, book, needReset, rows, viewVars>>

StartRefresh ==
    /\ gui.op = "idle" /\ pending /\ ~needReset
    /\ gui' = [op |-> "refresh", todo |-> {o \in Uuid : book[o] # 0}, target |-> book]
    /\ pending' = FALSE
    /\ UNCHANGED <<events, live, changes, flight, book, needReset, rows, viewVars>>

\* betterOrderDetected: when the amounts fit, the view selects the better order,
\* otherwise it asks in a snackbar.
BetterFound(o, p) ==
    /\ \/ sel' = [uuid |-> o, price |-> p] /\ UNCHANGED offers
       \/ offers' = offers \cup {[uuid |-> o, price |-> p]} /\ UNCHANGED sel
    /\ UNCHANGED modal

\* OrderNotExistingAnymore: the view opens OrderRemovedModal and clears the form.
Removed ==
    /\ modal' = {sel.uuid}
    /\ sel' = NoBid
    /\ UNCHANGED offers

\* Mutant of Better: an order with the same price counts.
NotWorse(r) == {o \in Uuid : r[o] >= sel.price}

Better(r) == {o \in Uuid : r[o] > sel.price}

\* check_for_better_order, over the rows r.
CheckForBetterOrder(r) ==
    \/ \E o \in Better(r) : BetterFound(o, r[o])
    \/ Better(r) = {} /\ Removed

\* initialize_order, for an order of the answer that has no row.
InsertRow(o) ==
    /\ gui.op = "refresh" /\ o \in gui.todo /\ rows[o] = 0
    /\ gui' = [gui EXCEPT !.todo = @ \ {o}]
    /\ rows' = [rows EXCEPT ![o] = gui.target[o]]
    /\ IF sel # NoBid /\ rows'[o] > sel.price
       THEN BetterFound(o, rows'[o])
       ELSE UNCHANGED viewVars
    /\ UNCHANGED feedVars

\* update_order, for an order of the answer that has a row.
UpdateRow(o) ==
    /\ gui.op = "refresh" /\ o \in gui.todo /\ rows[o] # 0
    /\ gui' = [gui EXCEPT !.todo = @ \ {o}]
    /\ rows' = [rows EXCEPT ![o] = gui.target[o]]
    /\ IF sel = NoBid \/ rows'[o] = rows[o] THEN UNCHANGED viewVars
       ELSE IF rows'[o] > sel.price THEN BetterFound(o, rows'[o])
       ELSE IF sel.uuid = o THEN CheckForBetterOrder(rows')
       ELSE UNCHANGED viewVars
    /\ UNCHANGED feedVars

Vanished == {o \in Uuid : rows[o] # 0 /\ gui.target[o] = 0}

\* Mutant of RemoveRow: the selection is not looked at.
RemoveRowSilently(o) ==
    /\ gui.op = "refresh" /\ gui.todo = {} /\ o \in Vanished
    /\ rows' = [rows EXCEPT ![o] = 0]
    /\ UNCHANGED <<feedVars, gui, viewVars>>

\* removeRows, for a row that is not in the answer; the selection is checked
\* while the row is still there.
RemoveRow(o) ==
    /\ gui.op = "refresh" /\ gui.todo = {} /\ o \in Vanished
    /\ rows' = [rows EXCEPT ![o] = 0]
    /\ IF sel # NoBid /\ sel.uuid = o THEN CheckForBetterOrder(rows) ELSE UNCHANGED viewVars
    /\ UNCHANGED <<feedVars, gui>>

FinishRefresh ==
    /\ gui.op = "refresh" /\ gui.todo = {} /\ Vanished = {}
    /\ gui' = Idle
    /\ UNCHANGED <<feedVars, rows, viewVars>>

-----------------------------------------------------------------------------
(* The user, while the GUI thread is idle and no modal is open.            *)

UserReady == gui.op = "idle" /\ modal = {}

\* A choice the rows agree with, unless it was made from something older.
Fresh(c) == "stale" \in events \/ rows[c.uuid] = c.price

\* select_best_order, for an order of the selected pair.
Select ==
    /\ UserReady
    /\ \E c \in Choice : Fresh(c) /\ sel' = c
    /\ UNCHANGED <<feedVars, rows, gui, offers, modal>>

\* onAccept of a snackbar.
AcceptOffer ==
    /\ UserReady
    /\ \E c \in offers : Fresh(c) /\ sel' = c /\ offers' = offers \ {c}
    /\ UNCHANGED <<feedVars, rows, gui, modal>>

\* onClose of a snackbar, also after 10 seconds: the selection is dropped.
CloseOffer ==
    /\ gui.op = "idle"
    /\ \E c \in offers : offers' = offers \ {c}
    /\ sel' = NoBid
    /\ UNCHANGED <<feedVars, rows, gui, modal>>

\* reset_order.
Deselect ==
    /\ UserReady /\ sel # NoBid
    /\ sel' = NoBid
    /\ UNCHANGED <<feedVars, rows, gui, offers, modal>>

CloseModal ==
    /\ gui.op = "idle" /\ modal # {}
    /\ modal' = {}
    /\ UNCHANGED <<feedVars, rows, gui, sel, offers>>

-----------------------------------------------------------------------------
RefreshStep ==
    \/ StartRefresh \/ FinishRefresh
    \/ \E o \in Uuid : InsertRow(o) \/ UpdateRow(o) \/ RemoveRow(o)

UserSelects == Select \/ AcceptOffer \/ CloseOffer \/ Deselect \/ CloseModal

BidsNext ==
    \/ \E o \in Uuid : NetworkChange(o)
    \/ Answer \/ (\E a \in flight : Store(a))
    \/ Reset \/ RefreshStep \/ UserSelects

\* mm2 is asked every 5 seconds and answers, the pool stores every answer (here:
\* of each kind of content), the timer of the GUI thread fires.
BidsFairness ==
    /\ WF_bidsVars(Reset \/ RefreshStep)
    /\ SF_bidsVars(Answer)
    /\ \A a \in [snap : Book, reset : BOOLEAN] : WF_bidsVars(a \in flight /\ Store(a))

BidsSpec == BidsInit /\ [][BidsNext]_bidsVars
BidsFairSpec == BidsSpec /\ BidsFairness

-----------------------------------------------------------------------------
(* Properties.                                                             *)

\* Between two refreshes the rows are a snapshot, none is lost or left over:
\* refresh_orderbook's updates, insertions and removals amount to a reset.
RefreshIsExact == [][gui.op = "refresh" /\ gui'.op = "idle" => rows' = gui.target]_bidsVars

\* The selected order is in the bids at the selected price, or the user is being
\* asked, also half way through a refresh that moves the selection itself; a reset
\* of the same pair and a choice that is out of date break this.
SelectionFollowsRows ==
    events = {} /\ sel # NoBid /\ offers = {} => rows[sel.uuid] = sel.price

\* "Better price found": the view moves a selection only to a higher price.
MovesToBetterPrice ==
    [][gui.op = "refresh" /\ sel # NoBid /\ sel' # NoBid /\ sel' # sel
          => sel'.price > sel.price]_bidsVars

\* When the network has settled, so has the selection.
SelectionEventuallyReal ==
    <>[](events = {} /\ sel # NoBid /\ offers = {} => live[sel.uuid] = sel.price)
=============================================================================
