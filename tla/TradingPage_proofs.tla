------------------------- MODULE TradingPage_proofs -------------------------
(***************************************************************************)
(* Theorems about the trading page.                                        *)
(*                                                                         *)
(* SelectedOrder, for any set of orders and prices: its type is right, a   *)
(* refresh is exact, the view only moves a selection to a better price     *)
(* and, if nothing resets the rows behind the selection's back and the     *)
(* user picks what is shown, the selection follows the rows.               *)
(*                                                                         *)
(* TradeForm, for any coins, offers, amounts, trading settings and numbers *)
(* of orders: the volume that can be confirmed is within the maximum, the  *)
(* volume sent is the one shown, and the confirm button is disabled only   *)
(* while an order is under way.                                            *)
(***************************************************************************)
EXTENDS SelectedOrder, TradeForm, TLAPS


-----------------------------------------------------------------------------
(* Types.                                                                  *)

\* What a handler of the view does to the selection, seen by types alone.
ViewType ==
    /\ sel' \in Choice \cup {NoBid}
    /\ offers' \subseteq Choice
    /\ modal' \in SUBSET Uuid

\* A better order becomes the selection or an offer.
LEMMA BetterFoundType ==
    ASSUME BidsTypeOK, NEW o \in Uuid, NEW p \in BidPrice, BetterFound(o, p)
    PROVE  ViewType
  BY DEF BidsTypeOK, BetterFound, ViewType, Choice

\* check_for_better_order, for a selection that exists and rows that are a book.
LEMMA CheckType ==
    ASSUME BidsTypeOK, NEW r \in Book, sel \in Choice, CheckForBetterOrder(r)
    PROVE  ViewType
<1>1. ASSUME NEW o \in Better(r), BetterFound(o, r[o])
      PROVE  ViewType
  <2>1. o \in Uuid /\ r[o] > sel.price
    BY <1>1 DEF Better
  <2>2. sel.price \in Nat \ {0} /\ r[o] \in BidPrice \cup {0}
    BY <2>1, OrderAssumption DEF Choice, Book
  <2>3. r[o] \in BidPrice
    BY <2>1, <2>2
  <2> QED BY <1>1, <2>1, <2>3, BetterFoundType
<1>2. CASE Removed
  BY <1>2 DEF BidsTypeOK, Removed, ViewType, Choice
<1> QED BY <1>1, <1>2 DEF CheckForBetterOrder

\* The selection, when there is one, is a choice with a positive price.
LEMMA SelType ==
    ASSUME BidsTypeOK, sel # NoBid
    PROVE  sel \in Choice /\ sel.price \in Nat \ {0} /\ sel.uuid \in Uuid
  BY OrderAssumption DEF BidsTypeOK, Choice

\* The row that a refresh writes is a book again.
LEMMA WriteRow ==
    ASSUME BidsTypeOK, NEW o \in Uuid,
           rows' = [rows EXCEPT ![o] = gui.target[o]]
    PROVE  rows' \in Book /\ rows'[o] = gui.target[o] /\ gui.target[o] \in BidPrice \cup {0}
  BY DEF BidsTypeOK, Book

LEMMA TypeInit == BidsInit => BidsTypeOK
<1>1. NoBook \in Book
  BY DEF NoBook, Book
<1>2. Idle \in [op : {"idle", "refresh"}, todo : SUBSET Uuid, target : Book]
  BY <1>1 DEF Idle
<1>3. \A e \in Events : 0 \in 0 .. MaxChange[e]
  BY OrderAssumption
<1> QED BY <1>1, <1>2, <1>3, Zenon DEF BidsInit, BidsTypeOK

LEMMA TypeStep == BidsTypeOK /\ [BidsNext]_bidsVars => BidsTypeOK'
<1> SUFFICES ASSUME BidsTypeOK, [BidsNext]_bidsVars PROVE BidsTypeOK'
  OBVIOUS
<1> USE OrderAssumption
<1>1. ASSUME NEW o \in Uuid, NetworkChange(o) PROVE BidsTypeOK'
  BY <1>1 DEF BidsTypeOK, NetworkChange, viewVars, Book
<1>2. CASE Answer
  <2>1. PICK reset \in BOOLEAN : flight' = flight \cup {[snap |-> live, reset |-> reset]}
    BY <1>2 DEF Answer
  <2>2. [snap |-> live, reset |-> reset] \in [snap : Book, reset : BOOLEAN]
    BY DEF BidsTypeOK
  <2> QED BY <1>2, <2>1, <2>2 DEF BidsTypeOK, Answer, viewVars
<1>3. ASSUME NEW a \in flight, Store(a) PROVE BidsTypeOK'
  BY <1>3 DEF BidsTypeOK, Store, viewVars, Book
<1>4. CASE Reset
  BY <1>4 DEF BidsTypeOK, Reset, viewVars, Book
<1>5. CASE StartRefresh
  BY <1>5 DEF BidsTypeOK, StartRefresh, viewVars, Book
<1>6. CASE FinishRefresh
  BY <1>6 DEF BidsTypeOK, FinishRefresh, feedVars, viewVars, Book, Idle, NoBook
<1>7. ASSUME NEW o \in Uuid, InsertRow(o) PROVE BidsTypeOK'
  <2>1. rows' \in Book /\ rows'[o] \in BidPrice \cup {0}
    BY <1>7, WriteRow DEF InsertRow
  <2>2. gui' \in [op : {"idle", "refresh"}, todo : SUBSET Uuid, target : Book]
    BY <1>7 DEF InsertRow, BidsTypeOK
  <2>3. ViewType
    <3>1. CASE sel # NoBid /\ rows'[o] > sel.price
      <4>1. rows'[o] \in BidPrice
        BY <2>1, <3>1, SelType
      <4>2. BetterFound(o, rows'[o])
        BY <1>7, <3>1 DEF InsertRow
      <4> QED BY <4>1, <4>2, BetterFoundType
    <3>2. CASE ~(sel # NoBid /\ rows'[o] > sel.price)
      BY <1>7, <3>2 DEF InsertRow, viewVars, BidsTypeOK, ViewType
    <3> QED BY <3>1, <3>2
  <2> QED BY <1>7, <2>1, <2>2, <2>3 DEF InsertRow, feedVars, BidsTypeOK, ViewType
<1>8. ASSUME NEW o \in Uuid, UpdateRow(o) PROVE BidsTypeOK'
  <2>1. rows' \in Book /\ rows'[o] \in BidPrice \cup {0}
    BY <1>8, WriteRow DEF UpdateRow
  <2>2. gui' \in [op : {"idle", "refresh"}, todo : SUBSET Uuid, target : Book]
    BY <1>8 DEF UpdateRow, BidsTypeOK
  <2>3. ViewType
    <3>1. CASE sel = NoBid \/ rows'[o] = rows[o]
      BY <1>8, <3>1 DEF UpdateRow, viewVars, BidsTypeOK, ViewType
    <3>2. CASE sel # NoBid /\ rows'[o] # rows[o] /\ rows'[o] > sel.price
      <4>1. rows'[o] \in BidPrice
        BY <2>1, <3>2, SelType
      <4>2. BetterFound(o, rows'[o])
        BY <1>8, <3>2 DEF UpdateRow
      <4> QED BY <4>1, <4>2, BetterFoundType
    <3>3. CASE sel # NoBid /\ rows'[o] # rows[o] /\ ~(rows'[o] > sel.price) /\ sel.uuid = o
      <4>1. CheckForBetterOrder(rows')
        BY <1>8, <3>3 DEF UpdateRow
      <4> QED BY <2>1, <3>3, <4>1, CheckType, SelType
    <3>4. CASE sel # NoBid /\ rows'[o] # rows[o] /\ ~(rows'[o] > sel.price) /\ sel.uuid # o
      BY <1>8, <3>4 DEF UpdateRow, viewVars, BidsTypeOK, ViewType
    <3> QED BY <3>1, <3>2, <3>3, <3>4
  <2> QED BY <1>8, <2>1, <2>2, <2>3 DEF UpdateRow, feedVars, BidsTypeOK, ViewType
<1>9. ASSUME NEW o \in Uuid, RemoveRow(o) PROVE BidsTypeOK'
  <2>1. rows' \in Book
    BY <1>9 DEF RemoveRow, BidsTypeOK, Book
  <2>2. ViewType
    <3>1. CASE sel # NoBid /\ sel.uuid = o
      <4>1. CheckForBetterOrder(rows)
        BY <1>9, <3>1 DEF RemoveRow
      <4>2. rows \in Book
        BY DEF BidsTypeOK
      <4> QED BY <3>1, <4>1, <4>2, CheckType, SelType
    <3>2. CASE ~(sel # NoBid /\ sel.uuid = o)
      BY <1>9, <3>2 DEF RemoveRow, viewVars, BidsTypeOK, ViewType
    <3> QED BY <3>1, <3>2
  <2> QED BY <1>9, <2>1, <2>2 DEF RemoveRow, feedVars, BidsTypeOK, ViewType
<1>10. CASE UserSelects
  BY <1>10
     DEF UserSelects, Select, AcceptOffer, CloseOffer, Deselect, CloseModal, BidsTypeOK, feedVars
<1>11. CASE UNCHANGED bidsVars
  BY <1>11 DEF bidsVars, BidsTypeOK, Book
<1> QED
  BY <1>1, <1>2, <1>3, <1>4, <1>5, <1>6, <1>7, <1>8, <1>9, <1>10, <1>11
     DEF BidsNext, RefreshStep

\* Every variable keeps the type that the module gives it.
THEOREM SelectionTypeOK == BidsSpec => []BidsTypeOK
  BY TypeInit, TypeStep, PTL DEF BidsSpec

-----------------------------------------------------------------------------
(* The view moves a selection to a better price only.                      *)

\* check_for_better_order drops the selection or moves it to a higher price.
LEMMA CheckMovesUp ==
    ASSUME NEW r, CheckForBetterOrder(r), sel' # NoBid, sel' # sel
    PROVE  sel'.price > sel.price
  BY DEF CheckForBetterOrder, Better, BetterFound, Removed

\* MovesToBetterPrice, for every set of orders and prices.
THEOREM OnlyBetterPrices == BidsSpec => MovesToBetterPrice
<1>1. BidsTypeOK /\ [BidsNext]_bidsVars =>
        [gui.op = "refresh" /\ sel # NoBid /\ sel' # NoBid /\ sel' # sel
            => sel'.price > sel.price]_bidsVars
  <2> SUFFICES ASSUME BidsTypeOK, BidsNext, gui.op = "refresh",
                      sel # NoBid, sel' # NoBid, sel' # sel
               PROVE  sel'.price > sel.price
    OBVIOUS
  <2>1. ASSUME NEW o \in Uuid, InsertRow(o) PROVE sel'.price > sel.price
    BY <2>1 DEF InsertRow, BetterFound, viewVars
  <2>2. ASSUME NEW o \in Uuid, UpdateRow(o) PROVE sel'.price > sel.price
    <3>1. CASE rows'[o] # rows[o] /\ rows'[o] > sel.price
      BY <2>2, <3>1 DEF UpdateRow, BetterFound
    <3>2. CASE ~(rows'[o] # rows[o] /\ rows'[o] > sel.price)
      <4>1. CheckForBetterOrder(rows')
        BY <2>2, <3>2 DEF UpdateRow, viewVars
      <4> QED BY <4>1, CheckMovesUp
    <3> QED BY <3>1, <3>2
  <2>3. ASSUME NEW o \in Uuid, RemoveRow(o) PROVE sel'.price > sel.price
    <3>1. CheckForBetterOrder(rows)
      BY <2>3 DEF RemoveRow, viewVars
    <3> QED BY <3>1, CheckMovesUp
  <2>4. CASE StartRefresh \/ FinishRefresh \/ Reset \/ Answer
    BY <2>4 DEF StartRefresh, FinishRefresh, Reset, Answer, viewVars
  <2>5. CASE (\E o \in Uuid : NetworkChange(o)) \/ (\E a \in flight : Store(a))
    BY <2>5 DEF NetworkChange, Store, viewVars
  <2>6. CASE UserSelects
    BY <2>6 DEF UserSelects, Select, AcceptOffer, CloseOffer, Deselect, CloseModal, UserReady
  <2> QED BY <2>1, <2>2, <2>3, <2>4, <2>5, <2>6 DEF BidsNext, RefreshStep
<1> QED BY <1>1, SelectionTypeOK, PTL DEF BidsSpec, MovesToBetterPrice

-----------------------------------------------------------------------------
(* A refresh amounts to a reset.                                           *)

\* What is still to do is in the answer, what is done agrees with it.
RefreshInv ==
    gui.op = "refresh" =>
      \A o \in Uuid : /\ o \in gui.todo => gui.target[o] # 0
                      /\ o \notin gui.todo /\ gui.target[o] # 0 => rows[o] = gui.target[o]

LEMMA RefreshStep1 == BidsTypeOK /\ RefreshInv /\ [BidsNext]_bidsVars => RefreshInv'
<1> SUFFICES ASSUME BidsTypeOK, RefreshInv, [BidsNext]_bidsVars PROVE RefreshInv'
  OBVIOUS
<1>1. CASE StartRefresh
  BY <1>1 DEF StartRefresh, RefreshInv
<1>2. ASSUME NEW u \in Uuid, InsertRow(u) \/ UpdateRow(u) PROVE RefreshInv'
  <2>1. /\ gui.op = "refresh" /\ u \in gui.todo
        /\ gui' = [gui EXCEPT !.todo = @ \ {u}]
        /\ rows' = [rows EXCEPT ![u] = gui.target[u]]
    BY <1>2 DEF InsertRow, UpdateRow
  <2>2. gui'.target = gui.target /\ gui'.todo = gui.todo \ {u}
    BY <2>1 DEF BidsTypeOK
  <2>3. \A o \in Uuid : rows'[o] = IF o = u THEN gui.target[u] ELSE rows[o]
    BY <2>1 DEF BidsTypeOK, Book
  <2> QED BY <2>1, <2>2, <2>3 DEF RefreshInv
<1>3. ASSUME NEW u \in Uuid, RemoveRow(u) PROVE RefreshInv'
  <2>1. gui' = gui /\ gui.target[u] = 0 /\ rows' = [rows EXCEPT ![u] = 0]
    BY <1>3 DEF RemoveRow, Vanished
  <2>2. \A o \in Uuid : rows'[o] = IF o = u THEN 0 ELSE rows[o]
    BY <2>1 DEF BidsTypeOK, Book
  <2> QED BY <2>1, <2>2 DEF RefreshInv
<1>4. CASE FinishRefresh
  BY <1>4 DEF FinishRefresh, RefreshInv, Idle
<1>5. CASE Reset
  BY <1>5 DEF Reset, RefreshInv
<1>6. CASE UNCHANGED <<gui, rows>>
  BY <1>6 DEF RefreshInv
<1>7. ASSUME NEW o \in Uuid, NetworkChange(o) PROVE UNCHANGED <<gui, rows>>
  BY <1>7 DEF NetworkChange
<1>8. ASSUME Answer \/ (\E a \in flight : Store(a)) PROVE UNCHANGED <<gui, rows>>
  BY <1>8 DEF Answer, Store
<1>9. ASSUME UserSelects PROVE UNCHANGED <<gui, rows>>
  BY <1>9 DEF UserSelects, Select, AcceptOffer, CloseOffer, Deselect, CloseModal
<1>10. ASSUME UNCHANGED bidsVars PROVE UNCHANGED <<gui, rows>>
  BY <1>10 DEF bidsVars
<1> QED
  BY <1>1, <1>2, <1>3, <1>4, <1>5, <1>6, <1>7, <1>8, <1>9, <1>10 DEF BidsNext, RefreshStep

\* Only FinishRefresh ends a refresh.
LEMMA EndOfRefresh ==
    ASSUME BidsTypeOK, RefreshInv, BidsNext, gui.op = "refresh", gui'.op = "idle"
    PROVE  rows' = gui.target
<1>1. FinishRefresh
  <2>1. ASSUME NEW o \in Uuid, InsertRow(o) \/ UpdateRow(o) PROVE FALSE
    BY <2>1 DEF InsertRow, UpdateRow, BidsTypeOK
  <2>2. ASSUME NEW o \in Uuid, RemoveRow(o) PROVE FALSE
    BY <2>2 DEF RemoveRow
  <2>3. ASSUME NEW o \in Uuid, NetworkChange(o) PROVE FALSE
    BY <2>3 DEF NetworkChange
  <2>4. ASSUME Answer \/ (\E a \in flight : Store(a)) \/ Reset \/ StartRefresh PROVE FALSE
    BY <2>4 DEF Answer, Store, Reset, StartRefresh
  <2>5. ASSUME UserSelects PROVE FALSE
    BY <2>5 DEF UserSelects, Select, AcceptOffer, CloseOffer, Deselect, CloseModal
  <2> QED BY <2>1, <2>2, <2>3, <2>4, <2>5 DEF BidsNext, RefreshStep
<1>2. rows' = rows /\ gui.todo = {} /\ Vanished = {}
  BY <1>1 DEF FinishRefresh
<1>3. \A o \in Uuid : rows[o] = gui.target[o]
  BY <1>2 DEF RefreshInv, Vanished
<1> QED BY <1>2, <1>3 DEF BidsTypeOK, Book

\* RefreshIsExact, for every set of orders and prices.
THEOREM RefreshAmountsToReset == BidsSpec => RefreshIsExact
<1>1. BidsInit => RefreshInv
  BY DEF BidsInit, Idle, RefreshInv
<1>2. BidsTypeOK /\ RefreshInv /\ [BidsNext]_bidsVars =>
        [gui.op = "refresh" /\ gui'.op = "idle" => rows' = gui.target]_bidsVars
  BY EndOfRefresh
<1> QED BY <1>1, <1>2, RefreshStep1, SelectionTypeOK, PTL DEF BidsSpec, RefreshIsExact

-----------------------------------------------------------------------------
(* The selection follows the rows.                                         *)

\* What else may happen is settled from the beginning.
LEMMA EventsStay == ASSUME [BidsNext]_bidsVars PROVE events' = events
<1>1. ASSUME NEW o \in Uuid, NetworkChange(o) PROVE events' = events
  BY <1>1 DEF NetworkChange
<1>2. ASSUME Answer \/ \E a \in flight : Store(a) PROVE events' = events
  BY <1>2 DEF Answer, Store
<1>3. ASSUME Reset \/ RefreshStep PROVE events' = events
  BY <1>3 DEF Reset, RefreshStep, StartRefresh, FinishRefresh, InsertRow, UpdateRow,
              RemoveRow, feedVars
<1>4. ASSUME UserSelects PROVE events' = events
  BY <1>4 DEF UserSelects, Select, AcceptOffer, CloseOffer, Deselect, CloseModal, feedVars
<1>5. ASSUME UNCHANGED bidsVars PROVE events' = events
  BY <1>5 DEF bidsVars
<1> QED BY <1>1, <1>2, <1>3, <1>4, <1>5 DEF BidsNext

\* Without "reset", no reset is pending or in flight.
NoReset == events = {} => ~needReset /\ \A a \in flight : ~a.reset

LEMMA NoResetStep ==
    ASSUME events = {}, BidsTypeOK, NoReset, [BidsNext]_bidsVars PROVE NoReset'
<1>1. CASE Answer
  <2>1. PICK reset \in {FALSE} : flight' = flight \cup {[snap |-> live, reset |-> reset]}
    BY <1>1 DEF Answer
  <2>2. needReset' = needReset
    BY <1>1 DEF Answer
  <2>3. [snap |-> live, reset |-> reset].reset = FALSE
    OBVIOUS
  <2>4. ASSUME NEW a \in flight' PROVE ~a.reset
    <3>1. a \in flight \/ a = [snap |-> live, reset |-> reset]
      BY <2>1, <2>4
    <3> QED BY <2>3, <3>1, Zenon DEF NoReset
  <2> QED BY <2>2, <2>4 DEF NoReset
<1>2. ASSUME NEW a \in flight, Store(a) PROVE NoReset'
  BY <1>2 DEF Store, NoReset
<1>3. CASE UNCHANGED <<flight, needReset>>
  BY <1>3 DEF NoReset
<1>4. ASSUME NEW o \in Uuid, NetworkChange(o) PROVE UNCHANGED <<flight, needReset>>
  BY <1>4 DEF NetworkChange
<1>5. ASSUME Reset \/ RefreshStep PROVE UNCHANGED <<flight, needReset>>
  BY <1>5 DEF Reset, RefreshStep, StartRefresh, FinishRefresh, InsertRow, UpdateRow,
              RemoveRow, feedVars
<1>6. ASSUME UserSelects PROVE UNCHANGED <<flight, needReset>>
  BY <1>6 DEF UserSelects, Select, AcceptOffer, CloseOffer, Deselect, CloseModal, feedVars
<1>7. ASSUME UNCHANGED bidsVars PROVE UNCHANGED <<flight, needReset>>
  BY <1>7 DEF bidsVars
<1> QED BY <1>1, <1>2, <1>3, <1>4, <1>5, <1>6, <1>7 DEF BidsNext

\* A better order is followed at the price of its row, or offered.
LEMMA BetterFoundFollows ==
    ASSUME NEW o \in Uuid, BetterFound(o, rows'[o])
    PROVE  SelectionFollowsRows'
<1>1. CASE sel' = [uuid |-> o, price |-> rows'[o]]
  <2>1. sel'.uuid = o /\ sel'.price = rows'[o]
    BY <1>1
  <2> QED BY <2>1 DEF SelectionFollowsRows
<1>2. CASE offers' = offers \cup {[uuid |-> o, price |-> rows'[o]]}
  <2>1. offers' # {}
    BY <1>2
  <2> QED BY <2>1 DEF SelectionFollowsRows
<1> QED BY <1>1, <1>2 DEF BetterFound

\* check_for_better_order follows the rows it leaves, those of the better orders
\* being as it saw them.
LEMMA CheckFollows ==
    ASSUME NEW r, CheckForBetterOrder(r), \A o \in Better(r) : rows'[o] = r[o]
    PROVE  SelectionFollowsRows'
<1>1. CASE Removed
  BY <1>1 DEF Removed, SelectionFollowsRows
<1>2. ASSUME NEW o \in Better(r), BetterFound(o, r[o]) PROVE SelectionFollowsRows'
  BY <1>2, BetterFoundFollows DEF Better
<1> QED BY <1>1, <1>2 DEF CheckForBetterOrder

LEMMA FollowStep ==
    ASSUME events = {}, BidsTypeOK, NoReset, SelectionFollowsRows, [BidsNext]_bidsVars
    PROVE  SelectionFollowsRows'
<1>1. ASSUME NEW o \in Uuid, InsertRow(o) PROVE SelectionFollowsRows'
  <2>1. rows'[o] = gui.target[o] /\ \A u \in Uuid \ {o} : rows'[u] = rows[u]
    BY <1>1 DEF InsertRow, BidsTypeOK, Book
  <2>2. CASE sel # NoBid /\ rows'[o] > sel.price
    BY <1>1, <2>2, BetterFoundFollows DEF InsertRow
  <2>3. CASE UNCHANGED viewVars
    \* A selected order has a row, so that it is not inserted.
    <3>1. sel # NoBid /\ offers = {} => sel.uuid # o
      BY <1>1, SelType DEF InsertRow, SelectionFollowsRows
    <3> QED BY <2>1, <2>3, <3>1, SelType DEF SelectionFollowsRows, viewVars
  <2> QED BY <1>1, <2>2, <2>3 DEF InsertRow
<1>2. ASSUME NEW o \in Uuid, UpdateRow(o) PROVE SelectionFollowsRows'
  <2>1. \A u \in Uuid \ {o} : rows'[u] = rows[u]
    BY <1>2 DEF UpdateRow, BidsTypeOK, Book
  <2>2. CASE sel = NoBid \/ rows'[o] = rows[o]
    <3>1. UNCHANGED viewVars
      BY <1>2, <2>2 DEF UpdateRow
    <3> QED BY <2>1, <2>2, <3>1, SelType DEF SelectionFollowsRows, viewVars
  <2>3. CASE sel # NoBid /\ rows'[o] # rows[o] /\ rows'[o] > sel.price
    BY <1>2, <2>3, BetterFoundFollows DEF UpdateRow
  <2>4. CASE sel # NoBid /\ rows'[o] # rows[o] /\ ~(rows'[o] > sel.price) /\ sel.uuid = o
    <3>1. CheckForBetterOrder(rows')
      BY <1>2, <2>4 DEF UpdateRow
    <3> QED BY <3>1, CheckFollows
  <2>5. CASE sel # NoBid /\ rows'[o] # rows[o] /\ ~(rows'[o] > sel.price) /\ sel.uuid # o
    <3>1. UNCHANGED viewVars
      BY <1>2, <2>5 DEF UpdateRow
    <3> QED BY <2>1, <2>5, <3>1, SelType DEF SelectionFollowsRows, viewVars
  <2> QED BY <2>2, <2>3, <2>4, <2>5
<1>3. ASSUME NEW o \in Uuid, RemoveRow(o) PROVE SelectionFollowsRows'
  <2>1. \A u \in Uuid \ {o} : rows'[u] = rows[u]
    BY <1>3 DEF RemoveRow, BidsTypeOK, Book
  <2>2. CASE sel # NoBid /\ sel.uuid = o
    <3>1. CheckForBetterOrder(rows)
      BY <1>3, <2>2 DEF RemoveRow
    <3>2. CASE offers # {}
      \* An offer stays, whatever else the check does.
      BY <3>1, <3>2 DEF CheckForBetterOrder, BetterFound, Removed, SelectionFollowsRows
    <3>3. CASE offers = {}
      <4>1. o \notin Better(rows)
        BY <2>2, <3>3, SelType DEF Better, SelectionFollowsRows
      <4>2. \A u \in Better(rows) : rows'[u] = rows[u]
        BY <2>1, <4>1 DEF Better
      <4> QED BY <3>1, <4>2, CheckFollows
    <3> QED BY <3>2, <3>3
  <2>3. CASE ~(sel # NoBid /\ sel.uuid = o)
    <3>1. UNCHANGED viewVars
      BY <1>3, <2>3 DEF RemoveRow
    <3> QED BY <2>1, <2>3, <3>1, SelType DEF SelectionFollowsRows, viewVars
  <2> QED BY <2>2, <2>3
<1>4. CASE Select \/ AcceptOffer
  BY <1>4 DEF Select, AcceptOffer, Fresh, SelectionFollowsRows
<1>5. CASE CloseOffer \/ Deselect
  BY <1>5 DEF CloseOffer, Deselect, SelectionFollowsRows
<1>6. CASE Reset
  BY <1>6 DEF Reset, NoReset
<1>7. CASE UNCHANGED <<rows, sel, offers>>
  BY <1>7 DEF SelectionFollowsRows
<1>8. ASSUME NEW o \in Uuid, NetworkChange(o) PROVE UNCHANGED <<rows, sel, offers>>
  BY <1>8 DEF NetworkChange, viewVars
<1>9. ASSUME Answer \/ (\E a \in flight : Store(a)) PROVE UNCHANGED <<rows, sel, offers>>
  BY <1>9 DEF Answer, Store, viewVars
<1>10. ASSUME StartRefresh \/ FinishRefresh \/ CloseModal PROVE UNCHANGED <<rows, sel, offers>>
  BY <1>10 DEF StartRefresh, FinishRefresh, CloseModal, viewVars
<1>11. ASSUME UNCHANGED bidsVars PROVE UNCHANGED <<rows, sel, offers>>
  BY <1>11 DEF bidsVars
<1> QED
  BY <1>1, <1>2, <1>3, <1>4, <1>5, <1>6, <1>7, <1>8, <1>9, <1>10, <1>11
     DEF BidsNext, RefreshStep, UserSelects

\* SelectionFollowsRows, for every set of orders and prices: when the rows are
\* never reset behind its back and the user picks what is shown, the selected order
\* is in the bids at the selected price or the user is being asked.
THEOREM SelectionIsFollowed == BidsSpec => []SelectionFollowsRows
<1>1. BidsInit => NoReset /\ SelectionFollowsRows
  BY DEF BidsInit, NoReset, SelectionFollowsRows
<1>2. ASSUME BidsTypeOK, NoReset, SelectionFollowsRows, [BidsNext]_bidsVars
      PROVE  NoReset' /\ SelectionFollowsRows'
  <2>1. CASE events = {}
    BY <1>2, <2>1, NoResetStep, FollowStep
  <2>2. CASE events # {}
    <3>1. events' # {}
      BY <1>2, <2>2, EventsStay
    <3> QED BY <3>1 DEF NoReset, SelectionFollowsRows
  <2> QED BY <2>1, <2>2
<1> QED BY <1>1, <1>2, SelectionTypeOK, PTL DEF BidsSpec

-----------------------------------------------------------------------------
(***************************************************************************)
(* The form.  Each setter has a lemma that says what it makes of a form;   *)
(* those of the setters it calls are all its proof needs.  What a step     *)
(* keeps of the form is FormInv:                                           *)
(*   - an order is selected only when the volumes are known;               *)
(*   - a missing price or volume is an error (Strict), but in a form that  *)
(*     was just wiped, which has no price and no selected order (Sound);   *)
(*   - buying at a price, the maximum is 0, that of the order or the exact *)
(*     fraction kept with it (Exact);                                      *)
(*   - the simple view has no price without an order;                      *)
(*   - the volume is within the maximum, but in the simple view before an  *)
(*     order gives a price, and in a sale of the pro view with no order    *)
(*     before the refresh that follows a clear.                            *)
(***************************************************************************)

\* An order that has been picked: the first of its fields are those of an offer.
Order ==
    [coin : Coin, price : Nat \ {0}, min : Nat, max : Nat, initial : Nat \cup {None},
     rat : Nat, capped : BOOLEAN, locked : BOOLEAN]

\* ... and one whose price has not been taken over yet.
Pick == {o \in Order : ~o.locked}

Statuses == {"None", "OrderNotExistingAnymore", "BetterPriceAvailable"}

Form ==
    [left : Coin, right : Coin, mode : {"Sell", "Buy"}, trading : {"Pro", "Simple"},
     price : Nat, volume : Nat, max : Nat, min : Nat, error : Errors,
     pref : Order \cup {NoOrder}, chosen : Pick \cup {NoOrder}, status : Statuses,
     post : BOOLEAN, short : BOOLEAN, asked : BOOLEAN, w : Taker \cup {NoTaker}]

\* The volume is within the maximum, which 0 leaves open.
Capped(f) == f.max = 0 \/ f.volume <= f.max

\* A volume and a price have been entered.
Filled(f) == f.volume # 0 /\ f.price # 0

\* The error says so when they have not ...
Strict(f) == f.w # NoTaker /\ f.error = "None" => Filled(f)

\* ... but in a form that has just been wiped.
Sound(f) == f.w # NoTaker /\ f.error = "None" => Filled(f) \/ (f.price = 0 /\ ~Selected(f))

\* The maximum of a purchase is that of the order or its exact fraction.
Exact(f) ==
    Selected(f) /\ f.mode = "Buy" /\ f.price > 0 => f.max \in {0, f.pref.max, f.pref.rat}

\* What the setters of volumes and prices leave alone.
Frame(f, g) ==
    /\ f \in Form /\ g \in Form
    /\ g.left = f.left /\ g.right = f.right /\ g.mode = f.mode /\ g.trading = f.trading
    /\ g.chosen = f.chosen /\ g.status = f.status /\ g.post = f.post /\ g.w = f.w

\* A check that was made stays as good as it was.
Checked(f, g) == (Sound(f) => Sound(g)) /\ (Strict(f) => Strict(g))

\* The order is the same, but for what is remembered with it.
SameOrder(f, g) ==
    /\ Selected(g) <=> Selected(f)
    /\ Selected(f) => g.pref.max = f.pref.max /\ g.pref.locked = f.pref.locked /\ g.pref.initial = f.pref.initial

-----------------------------------------------------------------------------
(* The setters, in the order they call one another.                        *)

LEMMA QuotientNat == ASSUME NEW a \in Nat, NEW b \in Nat, b > 0 PROVE a \div b \in Nat
  OBVIOUS

LEMMA MaxNat ==
    ASSUME NEW a \in Nat, NEW b \in Nat, NEW c \in Nat
    PROVE  Max({a, b, c}) \in Nat /\ Max({a, b}) \in Nat
<1>1. ASSUME NEW S, S \subseteq Nat, \E x \in S : \A y \in S : x >= y
      PROVE  Max(S) \in Nat
  BY <1>1 DEF Max
<1>2. \E x \in {a, b, c} : \A y \in {a, b, c} : x >= y
  OBVIOUS
<1>3. \E x \in {a, b} : \A y \in {a, b} : x >= y
  OBVIOUS
<1> QED BY <1>1, <1>2, <1>3

LEMMA MinNat == ASSUME NEW a \in Nat, NEW b \in Nat PROVE Min({a, b}) \in Nat
<1>2. \E x \in {a, b} : \A y \in {a, b} : x <= y
  OBVIOUS
<1>3. Min({a, b}) \in {a, b}
  BY <1>2 DEF Min
<1> QED BY <1>3

LEMMA OrderSelected == ASSUME NEW o \in Order PROVE o # NoOrder
  BY FormAssumption DEF Order, NoOrder

LEMMA TakerKnown == ASSUME NEW v \in Taker PROVE v # NoTaker
  BY FormAssumption DEF NoTaker

LEMMA AmountsOf ==
    ASSUME NEW f \in Form
    PROVE  f.w.base \in Nat /\ f.w.rel \in Nat /\ f.w.minBase \in Nat /\ f.w.minRel \in Nat
  BY FormAssumption DEF Form, NoTaker

LEMMA ErrorOfForm ==
    ASSUME NEW f \in Form
    PROVE  ErrorOf(f) \in Errors /\ (ErrorOf(f) = "None" => Filled(f))
  BY DEF Form, ErrorOf, Errors, Filled, GenerateFeesError

LEMMA ErrorCases ==
    ASSUME NEW f \in Form, NEW g, g = DetermineErrorCases(f)
    PROVE  /\ Frame(f, g) /\ Strict(g)
           /\ g.price = f.price /\ g.volume = f.volume /\ g.max = f.max /\ g.min = f.min /\ g.pref = f.pref
  BY ErrorOfForm DEF DetermineErrorCases, SetTradingError, Frame, Form, Strict, Filled

LEMMA PutVolumeForm ==
    ASSUME NEW f \in Form, NEW v \in Nat, NEW g, g = PutVolume(f, v)
    PROVE  /\ Frame(f, g) /\ (f.w # NoTaker => Strict(g))
           /\ g.price = f.price /\ g.volume = v /\ g.max = f.max /\ g.min = f.min /\ g.pref = f.pref
<1> DEFINE h == [f EXCEPT !.volume = v]
<1>1. Frame(f, h) /\ h.price = f.price /\ h.volume = v /\ h.max = f.max /\ h.min = f.min /\ h.pref = f.pref
  BY DEF Frame, Form
<1>2. g = DetermineTotalAmount(h)
  BY DEF PutVolume
<1>3. CASE h.w = NoTaker
  BY <1>1, <1>2, <1>3 DEF DetermineTotalAmount, Frame
<1>4. CASE h.w # NoTaker
  <2>1. g = DetermineErrorCases(h) /\ h \in Form
    BY <1>1, <1>2, <1>4 DEF DetermineTotalAmount, Frame
  <2> HIDE DEF h
  <2>2. /\ Frame(h, g) /\ Strict(g)
        /\ g.price = h.price /\ g.volume = h.volume /\ g.max = h.max /\ g.min = h.min /\ g.pref = h.pref
    BY <2>1, ErrorCases
  <2> QED BY <1>1, <2>2 DEF Frame
<1> QED BY <1>3, <1>4

LEMMA CapVolumeForm ==
    ASSUME NEW f \in Form, NEW g, g = CapVolume(f)
    PROVE  /\ Frame(f, g) /\ Checked(f, g) /\ Capped(g) /\ (Capped(f) => g = f)
           /\ g.price = f.price /\ g.max = f.max /\ g.min = f.min /\ g.pref = f.pref
<1>1. CASE f.volume > f.max /\ f.max # 0
  <2> DEFINE h == PutVolume(f, f.max)
  <2>1. g = [h EXCEPT !.asked = TRUE]
    BY <1>1 DEF CapVolume, DetermineFees
  <2>2. f.max \in Nat /\ f.volume \in Nat
    BY DEF Form
  <2>3. /\ Frame(f, h) /\ (f.w # NoTaker => Strict(h))
        /\ h.price = f.price /\ h.volume = f.max /\ h.max = f.max /\ h.min = f.min /\ h.pref = f.pref
    BY <2>2, PutVolumeForm
  <2> HIDE DEF h
  <2>4. /\ g \in Form /\ \A x \in {"left", "right", "mode", "trading", "chosen", "status", "post", "w"} : g[x] = h[x]
        /\ g.price = h.price /\ g.volume = h.volume /\ g.max = h.max /\ g.min = h.min /\ g.pref = h.pref
        /\ g.error = h.error
    BY <2>1, <2>3 DEF Frame, Form
  <2>5. Frame(f, g)
    BY <2>3, <2>4 DEF Frame
  <2>6. f.w # NoTaker => Strict(g)
    BY <2>3, <2>4 DEF Strict, Filled
  <2> QED BY <1>1, <2>2, <2>3, <2>4, <2>5, <2>6 DEF Capped, Checked, Sound, Strict, Frame
<1>2. CASE ~(f.volume > f.max /\ f.max # 0)
  BY <1>2 DEF CapVolume, Frame, Checked, Capped, Form
<1> QED BY <1>1, <1>2

LEMMA SetVolumeForm ==
    ASSUME NEW f \in Form, NEW v \in Nat, NEW g, g = SetVolume(f, v)
    PROVE  /\ Frame(f, g) /\ Checked(f, g) /\ (Capped(f) => Capped(g))
           /\ g.price = f.price /\ g.max = f.max /\ g.min = f.min /\ g.pref = f.pref
<1>1. CASE v = f.volume
  BY <1>1 DEF SetVolume, Frame, Checked
<1>2. CASE v # f.volume
  <2> DEFINE h == PutVolume(f, v)
             k == CapVolume(h)
  <2>1. g = [k EXCEPT !.asked = TRUE]
    BY <1>2 DEF SetVolume, DetermineFees
  <2>2. /\ Frame(f, h) /\ (f.w # NoTaker => Strict(h))
        /\ h.price = f.price /\ h.max = f.max /\ h.min = f.min /\ h.pref = f.pref
    BY PutVolumeForm
  <2>3. /\ Frame(h, k) /\ Checked(h, k) /\ Capped(k)
        /\ k.price = h.price /\ k.max = h.max /\ k.min = h.min /\ k.pref = h.pref
    BY <2>2, CapVolumeForm DEF Frame
  <2> HIDE DEF h, k
  <2>4. /\ g \in Form /\ \A x \in {"left", "right", "mode", "trading", "chosen", "status", "post", "w"} : g[x] = k[x]
        /\ g.price = k.price /\ g.volume = k.volume /\ g.max = k.max /\ g.min = k.min /\ g.pref = k.pref
        /\ g.error = k.error
    BY <2>1, <2>3 DEF Frame, Form
  <2>5. Frame(f, g)
    BY <2>2, <2>3, <2>4 DEF Frame
  <2>6. f.w # NoTaker => Strict(g)
    BY <2>2, <2>3, <2>4 DEF Strict, Filled, Checked
  <2> QED BY <2>2, <2>3, <2>4, <2>5, <2>6 DEF Capped, Checked, Sound, Strict, Frame
<1> QED BY <1>1, <1>2

LEMMA MaxToSellForm ==
    ASSUME NEW f \in Form, NEW g, g = MaxToSell(f)
    PROVE  /\ Frame(f, g) /\ SameOrder(f, g)
           /\ g.price = f.price /\ g.volume = f.volume /\ g.min = f.min /\ g.error = f.error
<1>1. f.w.base \in Nat
  BY AmountsOf
<1>2. ASSUME NEW m \in Nat PROVE LET h == [f EXCEPT !.max = m]
                                 IN  /\ Frame(f, h) /\ SameOrder(f, h) /\ h.pref = f.pref
                                     /\ h.price = f.price /\ h.volume = f.volume /\ h.min = f.min /\ h.error = f.error
  BY DEF Frame, Form, SameOrder, Selected
<1>3. CASE f.w.base = 0 \/ f.w.coin # f.left
  BY <1>2, <1>3 DEF MaxToSell, SetMaxVolume
<1>4. CASE ~(f.w.base = 0 \/ f.w.coin # f.left) /\ ~Selected(f)
  BY <1>1, <1>2, <1>4 DEF MaxToSell, SetMaxVolume
<1>5. CASE ~(f.w.base = 0 \/ f.w.coin # f.left) /\ Selected(f) /\ f.pref.capped
  BY <1>5 DEF MaxToSell, Frame, SameOrder
<1>6. CASE ~(f.w.base = 0 \/ f.w.coin # f.left) /\ Selected(f) /\ ~f.pref.capped
  <2>1. f.pref \in Order
    BY <1>6 DEF Selected, Form
  <2> DEFINE m == Min({f.pref.max, f.w.base})
             h == [f EXCEPT !.max = m]
             o == [f.pref EXCEPT !.capped = TRUE]
  <2>2. m \in Nat
    BY <1>1, <2>1, MinNat DEF Order
  <2>3. g = [h EXCEPT !.pref.capped = TRUE]
    BY <1>6 DEF MaxToSell, SetMaxVolume
  <2>4. /\ Frame(f, h) /\ h.pref = f.pref
        /\ h.price = f.price /\ h.volume = f.volume /\ h.min = f.min /\ h.error = f.error
    BY <2>2, <1>2
  <2>5. o \in Order /\ o.max = f.pref.max /\ o.locked = f.pref.locked /\ o.initial = f.pref.initial
    BY <2>1 DEF Order
  <2> HIDE DEF h, m
  <2>6. g = [h EXCEPT !.pref = o]
    BY <2>3, <2>4
  <2> HIDE DEF o
  <2>7. /\ Frame(h, g) /\ g.pref = o
        /\ g.price = h.price /\ g.volume = h.volume /\ g.min = h.min /\ g.error = h.error
    BY <2>6, <2>5, <2>4 DEF Frame, Form
  <2> QED BY <2>4, <2>5, <2>7, <2>1, OrderSelected DEF Frame, SameOrder, Selected
<1> QED BY <1>3, <1>4, <1>5, <1>6

LEMMA MaxToBuyForm ==
    ASSUME NEW f \in Form, NEW g, g = MaxToBuy(f)
    PROVE  /\ Frame(f, g) /\ SameOrder(f, g) /\ Exact(g)
           /\ g.price = f.price /\ g.volume = f.volume /\ g.min = f.min /\ g.error = f.error
<1>1. f.w.rel \in Nat /\ f.price \in Nat
  BY AmountsOf DEF Form
<1>2. ASSUME NEW m \in Nat PROVE LET h == [f EXCEPT !.max = m]
                                 IN  /\ Frame(f, h) /\ SameOrder(f, h) /\ h.pref = f.pref /\ h.max = m
                                     /\ h.price = f.price /\ h.volume = f.volume /\ h.min = f.min /\ h.error = f.error
  BY DEF Frame, Form, SameOrder, Selected
<1>3. CASE ~Selected(f)
  <2>1. (IF f.price > 0 THEN f.w.rel \div f.price ELSE 0) \in Nat
    BY <1>1, QuotientNat
  <2> QED BY <1>2, <1>3, <2>1 DEF MaxToBuy, SetMaxVolume, Exact, SameOrder
<1>4. CASE Selected(f) /\ f.w.rel = 0
  BY <1>2, <1>4 DEF MaxToBuy, SetMaxVolume, Exact
<1> DEFINE whole == f.w.rel >= f.pref.max * f.pref.price
<1>5. CASE Selected(f) /\ f.w.rel # 0 /\ whole
  <2>1. f.pref.max \in Nat
    BY <1>5 DEF Selected, Form, Order
  <2> QED BY <1>2, <1>5, <2>1 DEF MaxToBuy, SetMaxVolume, Exact
<1>6. CASE Selected(f) /\ f.w.rel # 0 /\ ~whole
  <2>1. f.pref \in Order
    BY <1>6 DEF Selected, Form
  <2> DEFINE m == Affordable(f)
             h == [f EXCEPT !.max = m]
             o == [f.pref EXCEPT !.rat = IF f.price > 0 THEN m ELSE @]
  <2>2. m \in Nat
    <3>1. f.pref.price \in Nat /\ f.pref.price > 0
      BY <2>1 DEF Order
    <3> QED BY <1>1, <3>1, QuotientNat DEF Affordable
  <2>3. g = [h EXCEPT !.pref.rat = IF f.price > 0 THEN m ELSE @]
    BY <1>6 DEF MaxToBuy, SetMaxVolume
  <2>4. /\ Frame(f, h) /\ h.pref = f.pref /\ h.max = m
        /\ h.price = f.price /\ h.volume = f.volume /\ h.min = f.min /\ h.error = f.error
    BY <2>2, <1>2
  <2> HIDE DEF m
  <2>5. /\ o \in Order /\ o.max = f.pref.max /\ o.locked = f.pref.locked /\ o.initial = f.pref.initial
        /\ (f.price > 0 => o.rat = m)
    BY <2>1, <2>2 DEF Order
  <2> HIDE DEF h
  <2>6. g = [h EXCEPT !.pref = o]
    BY <2>3, <2>4
  <2> HIDE DEF o
  <2>7. /\ Frame(h, g) /\ g.pref = o /\ g.max = h.max
        /\ g.price = h.price /\ g.volume = h.volume /\ g.min = h.min /\ g.error = h.error
    BY <2>6, <2>5, <2>4 DEF Frame, Form
  <2>8. g.max = m /\ (g.price > 0 => g.pref.rat = m)
    BY <2>4, <2>5, <2>7
  <2>9. Exact(g)
    BY <2>8 DEF Exact
  <2> QED BY <2>4, <2>5, <2>7, <2>9, <2>1, OrderSelected DEF Frame, SameOrder, Selected
<1> QED BY <1>3, <1>4, <1>5, <1>6

LEMMA DetermineMaxVolumeForm ==
    ASSUME NEW f \in Form, NEW g, g = DetermineMaxVolume(f)
    PROVE  /\ Frame(f, g) /\ Checked(f, g) /\ SameOrder(f, g)
           /\ (f.mode = "Buy" => Exact(g))
           /\ (f.mode = "Buy" \/ f.w # NoTaker => Capped(g)) /\ (Capped(f) => Capped(g))
           /\ g.price = f.price /\ g.min = f.min
<1>1. ASSUME NEW h, Frame(f, h), SameOrder(f, h), h.price = f.price, h.volume = f.volume, h.min = f.min,
             h.error = f.error, f.mode = "Buy" => Exact(h), g = CapVolume(h)
      PROVE  /\ Frame(f, g) /\ Checked(f, g) /\ SameOrder(f, g) /\ Capped(g)
             /\ (f.mode = "Buy" => Exact(g)) /\ g.price = f.price /\ g.min = f.min
  <2>1. /\ Frame(h, g) /\ Checked(h, g) /\ Capped(g)
        /\ g.price = h.price /\ g.max = h.max /\ g.min = h.min /\ g.pref = h.pref
    BY <1>1, CapVolumeForm DEF Frame
  <2>2. Checked(f, h)
    BY <1>1 DEF Checked, Sound, Strict, Filled, Frame, SameOrder
  <2>3. f.mode = "Buy" => Exact(g)
    BY <1>1, <2>1 DEF Exact, Frame, Selected
  <2> QED BY <1>1, <2>1, <2>2, <2>3 DEF Frame, Checked, SameOrder, Selected
<1>2. CASE f.mode = "Buy"
  <2> DEFINE h == MaxToBuy(f)
  <2>1. /\ Frame(f, h) /\ SameOrder(f, h) /\ Exact(h)
        /\ h.price = f.price /\ h.volume = f.volume /\ h.min = f.min /\ h.error = f.error
    BY MaxToBuyForm
  <2>2. g = CapVolume(h)
    BY <1>2 DEF DetermineMaxVolume
  <2> HIDE DEF h
  <2> QED BY <2>1, <2>2, <1>1
<1>3. CASE f.mode # "Buy" /\ f.w = NoTaker
  BY <1>3 DEF DetermineMaxVolume, Frame, Checked, SameOrder
<1>4. CASE f.mode # "Buy" /\ f.w # NoTaker
  <2> DEFINE h == MaxToSell(f)
  <2>1. /\ Frame(f, h) /\ SameOrder(f, h)
        /\ h.price = f.price /\ h.volume = f.volume /\ h.min = f.min /\ h.error = f.error
    BY MaxToSellForm
  <2>2. g = CapVolume(h)
    BY <1>4 DEF DetermineMaxVolume
  <2> HIDE DEF h
  <2> QED BY <2>1, <2>2, <1>1, <1>4
<1> QED BY <1>2, <1>3, <1>4

LEMMA ThresholdNat == ASSUME NEW f \in Form, NEW p \in Nat, p > 0 PROVE Threshold(f, p) \in Nat
<1>1. f.w.minBase \in Nat /\ f.w.minRel + p - 1 \in Nat
  BY AmountsOf
<1>2. (f.w.minRel + p - 1) \div p \in Nat
  BY <1>1, QuotientNat
<1> DEFINE q == (f.w.minRel + p - 1) \div p
<1> HIDE DEF q
<1>3. Max({f.w.minBase, q}) \in Nat
  BY <1>1, <1>2, MaxNat DEF q
<1> QED BY <1>3 DEF Threshold, q

LEMMA CurrentMinNat == ASSUME NEW f \in Form PROVE CurrentMinTakerVol(f) \in Nat
<1>1. CASE Selected(f)
  BY <1>1 DEF CurrentMinTakerVol, Selected, Form, Order
<1>2. CASE ~Selected(f)
  <2>1. f.price \in Nat /\ f.w.minBase \in Nat
    BY AmountsOf DEF Form
  <2> QED BY <1>2, <2>1, ThresholdNat DEF CurrentMinTakerVol
<1> QED BY <1>1, <1>2

LEMMA SetMinForm ==
    ASSUME NEW f \in Form, NEW v \in Nat, NEW g, g = SetMinTradeVol(f, v)
    PROVE  /\ Frame(f, g) /\ Checked(f, g)
           /\ g.price = f.price /\ g.volume = f.volume /\ g.max = f.max /\ g.pref = f.pref
<1> DEFINE m == Max({v, f.w.minBase, CurrentMinTakerVol(f)})
<1>1. m \in Nat
  <2>1. f.w.minBase \in Nat /\ CurrentMinTakerVol(f) \in Nat
    BY AmountsOf, CurrentMinNat
  <2> QED BY <2>1, MaxNat
<1>2. g = IF m = f.min THEN f ELSE DetermineErrorCases([f EXCEPT !.min = m])
  BY DEF SetMinTradeVol
<1> HIDE DEF m
<1>3. CASE m = f.min
  BY <1>2, <1>3 DEF Frame, Checked
<1>4. CASE m # f.min
  <2> DEFINE h == [f EXCEPT !.min = m]
  <2>1. Frame(f, h) /\ h.price = f.price /\ h.volume = f.volume /\ h.max = f.max /\ h.pref = f.pref
    BY <1>1 DEF Frame, Form
  <2>2. g = DetermineErrorCases(h)
    BY <1>2, <1>4
  <2> HIDE DEF h
  <2>3. /\ Frame(h, g) /\ Strict(g)
        /\ g.price = h.price /\ g.volume = h.volume /\ g.max = h.max /\ g.pref = h.pref
    BY <2>1, <2>2, ErrorCases DEF Frame
  <2> QED BY <2>1, <2>3 DEF Frame, Checked, Sound, Strict
<1> QED BY <1>3, <1>4

LEMMA AdjustMinForm ==
    ASSUME NEW f \in Form, NEW g, g = AdjustMinVol(f)
    PROVE  /\ Frame(f, g) /\ Checked(f, g)
           /\ g.price = f.price /\ g.volume = f.volume /\ g.max = f.max /\ g.pref = f.pref
<1>1. CASE f.price > 0 /\ f.min < Threshold(f, f.price)
  <2>1. f.price \in Nat
    BY DEF Form
  <2>2. Threshold(f, f.price) \in Nat
    BY <1>1, <2>1, ThresholdNat
  <2>3. g = SetMinTradeVol(f, Threshold(f, f.price))
    BY <1>1 DEF AdjustMinVol
  <2> QED BY <2>2, <2>3, SetMinForm
<1>2. CASE ~(f.price > 0 /\ f.min < Threshold(f, f.price))
  BY <1>2 DEF AdjustMinVol, Frame, Checked
<1> QED BY <1>1, <1>2

\* A total amount is recomputed when the volumes are known.
LEMMA TotalAmountForm ==
    ASSUME NEW f \in Form, NEW g, g = DetermineTotalAmount(f)
    PROVE  /\ Frame(f, g) /\ Strict(g)
           /\ g.price = f.price /\ g.volume = f.volume /\ g.max = f.max /\ g.min = f.min /\ g.pref = f.pref
<1>1. CASE f.w = NoTaker
  BY <1>1 DEF DetermineTotalAmount, Frame, Strict
<1>2. CASE f.w # NoTaker
  <2>1. g = DetermineErrorCases(f)
    BY <1>2 DEF DetermineTotalAmount
  <2> QED BY <2>1, ErrorCases
<1> QED BY <1>1, <1>2

\* A new price: what it releases, what it determines and what it leaves.
LEMMA SetPriceForm ==
    ASSUME NEW f \in Form, NEW p \in Nat, NEW g, g = SetPrice(f, p)
    PROVE  /\ Frame(f, g) /\ Checked(f, g) /\ (p # f.price => Strict(g))
           /\ (Capped(f) => Capped(g)) /\ (Exact(f) => Exact(g))
           /\ (f.mode = "Sell" => g.max = f.max /\ g.volume = f.volume)
           /\ g.price = p
           /\ (Selected(g) => Selected(f) /\ g.pref.initial = f.pref.initial)
           /\ (Selected(f) /\ ~f.pref.locked => Selected(g))
<1>1. CASE p = f.price
  BY <1>1 DEF SetPrice, Frame, Checked
<1>2. CASE p # f.price
  <2> DEFINE a == [f EXCEPT !.price = p]
             b == Release(a)
             c == IF f.mode = "Buy" THEN DetermineMaxVolume(b) ELSE b
             d == DetermineTotalAmount(c)
             e == Lock(d)
  <2>1. g = AdjustMinVol(e)
    BY <1>2 DEF SetPrice
  <2>2. Frame(f, a) /\ a.price = p /\ a.volume = f.volume /\ a.max = f.max /\ a.pref = f.pref
    BY DEF Frame, Form
  <2> HIDE DEF a
  <2>3. /\ Frame(a, b) /\ b.price = a.price /\ b.volume = a.volume /\ b.max = a.max
        /\ (b.pref = a.pref \/ (b.pref = NoOrder /\ a.pref.locked /\ Selected(a)))
    <3>1. CASE Selected(a) /\ a.pref.locked
      BY <2>2, <3>1 DEF Release, Frame, Form
    <3>2. CASE ~(Selected(a) /\ a.pref.locked)
      BY <2>2, <3>2 DEF Release, Frame
    <3> QED BY <3>1, <3>2
  <2> HIDE DEF b
  <2>4. /\ Frame(b, c) /\ SameOrder(b, c) /\ c.price = b.price
        /\ (Capped(b) => Capped(c))
        /\ (f.mode = "Buy" => Exact(c)) /\ (f.mode = "Sell" => c.max = b.max /\ c.volume = b.volume)
    <3>1. CASE f.mode = "Buy"
      <4>1. c = DetermineMaxVolume(b) /\ b \in Form /\ b.mode = "Buy"
        BY <2>2, <2>3, <3>1 DEF Frame
      <4> HIDE DEF c
      <4> QED BY <4>1, <3>1, DetermineMaxVolumeForm
    <3>2. CASE f.mode # "Buy"
      BY <2>3, <3>2 DEF Frame, SameOrder
    <3> QED BY <3>1, <3>2
  <2> HIDE DEF c
  <2>5. /\ Frame(c, d) /\ Strict(d)
        /\ d.price = c.price /\ d.volume = c.volume /\ d.max = c.max /\ d.pref = c.pref
    BY <2>4, TotalAmountForm DEF Frame
  <2> HIDE DEF d
  <2>6. /\ Frame(d, e) /\ e.price = d.price /\ e.volume = d.volume /\ e.max = d.max /\ e.error = d.error
        /\ Selected(e) <=> Selected(d)
        /\ Selected(d) => e.pref.max = d.pref.max /\ e.pref.rat = d.pref.rat /\ e.pref.initial = d.pref.initial
    <3>1. CASE ~Selected(d)
      BY <3>1, <2>5 DEF Lock, Frame
    <3>2. CASE Selected(d)
      <4> DEFINE o == [d.pref EXCEPT !.locked = TRUE]
      <4>1. d.pref \in Order
        BY <3>2, <2>5 DEF Selected, Frame, Form
      <4>2. o \in Order /\ o.max = d.pref.max /\ o.rat = d.pref.rat /\ o.initial = d.pref.initial
        BY <4>1 DEF Order
      <4>3. e = [d EXCEPT !.pref = o]
        BY <3>2 DEF Lock
      <4> HIDE DEF o, e
      <4>4. Frame(d, e) /\ e.pref = o /\ e.price = d.price /\ e.volume = d.volume /\ e.max = d.max /\ e.error = d.error
        BY <4>2, <4>3, <2>5 DEF Frame, Form
      <4> QED BY <4>2, <4>4, <3>2, OrderSelected DEF Selected
    <3> QED BY <3>1, <3>2
  <2> HIDE DEF e
  <2>7. /\ Frame(e, g) /\ Checked(e, g)
        /\ g.price = e.price /\ g.volume = e.volume /\ g.max = e.max /\ g.pref = e.pref
    BY <2>1, <2>6, AdjustMinForm DEF Frame
  <2>8. Frame(f, g) /\ g.price = p
    BY <2>2, <2>3, <2>4, <2>5, <2>6, <2>7 DEF Frame
  <2>9. Strict(e)
    BY <2>5, <2>6 DEF Strict, Filled, Frame
  <2>10. Strict(g) /\ Checked(f, g)
    BY <2>7, <2>9 DEF Checked, Strict, Sound
  <2>11. Capped(f) => Capped(g)
    BY <2>2, <2>3, <2>4, <2>5, <2>6, <2>7 DEF Capped
  <2>12. f.mode = "Sell" => g.max = f.max /\ g.volume = f.volume
    BY <2>2, <2>3, <2>4, <2>5, <2>6, <2>7
  <2>13. Exact(g)
    <3>1. CASE f.mode = "Buy"
      BY <3>1, <2>4, <2>5, <2>6, <2>7 DEF Exact, Selected, Frame
    <3>2. CASE f.mode # "Buy"
      BY <3>2, <2>8 DEF Exact, Frame
    <3> QED BY <3>1, <3>2
  <2>14. Selected(g) => Selected(f) /\ g.pref.initial = f.pref.initial
    BY <2>2, <2>3, <2>4, <2>5, <2>6, <2>7 DEF Selected, SameOrder
  <2>15. Selected(f) /\ ~f.pref.locked => Selected(g)
    BY <2>2, <2>3, <2>4, <2>5, <2>6, <2>7 DEF Selected, SameOrder
  <2> QED BY <2>8, <2>10, <2>11, <2>12, <2>13, <2>14, <2>15
<1> QED BY <1>1, <1>2

-----------------------------------------------------------------------------
(* What clears the form, and what fills it again.                          *)

\* What every step keeps of the form, and half-way through a step too (Body).
Body(f) ==
    /\ f \in Form /\ f.left # f.right
    /\ Selected(f) => f.w # NoTaker
    /\ Exact(f)
    /\ f.trading = "Simple" /\ ~Selected(f) => f.price = 0
    /\ \/ Capped(f)
       \/ f.trading = "Simple" /\ f.price = 0
       \/ ~Bounded(f)

FormInv(f) == Body(f) /\ Sound(f)

Good(f, g) == FormInv(g) /\ (Strict(f) => Strict(g))

\* What clear_forms makes of a form.
Cleared(f, g) ==
    /\ f \in Form /\ g \in Form
    /\ g.left = f.left /\ g.right = f.right /\ g.mode = f.mode /\ g.trading = f.trading
    /\ g.chosen = f.chosen /\ g.w = f.w
    /\ g.price = 0 /\ g.pref = NoOrder /\ g.post = TRUE
    /\ f.trading = "Pro" \/ ~Selected(f) => Capped(g)

LEMMA MaxForm ==
    ASSUME NEW f \in Form, NEW m \in Nat, NEW g, g = SetMaxVolume(f, m)
    PROVE  Frame(f, g) /\ g.max = m /\ g.price = f.price /\ g.volume = f.volume /\ g.pref = f.pref
  BY DEF SetMaxVolume, Frame, Form

LEMMA WipeForms ==
    ASSUME NEW f \in Form, ~Throws(f), NEW g, g = Wipe(f)
    PROVE  Cleared(f, g)
<1> DEFINE k == IF KeepsVolume(f)
                THEN SetPrice(SetMaxVolume(SetVolume(f, f.pref.initial), f.w.base), 0)
                ELSE SetVolume([SetMaxVolume(SetPrice(f, 0), 0) EXCEPT !.min = 0], 0)
<1>1. g = [SetTradingError(k, "None") EXCEPT !.pref = NoOrder, !.short = FALSE, !.post = TRUE]
  BY DEF Wipe
<1>2. Frame(f, k) /\ k.price = 0 /\ (~KeepsVolume(f) => Capped(k))
  <2>1. CASE KeepsVolume(f)
    <3> DEFINE a == SetVolume(f, f.pref.initial)
               b == SetMaxVolume(a, f.w.base)
    <3>1. f.pref.initial \in Nat
      BY <2>1 DEF Throws, KeepsVolume, Selected, Form, Order
    <3>2. Frame(f, a)
      BY <3>1, SetVolumeForm
    <3>3. Frame(a, b)
      BY <3>2, AmountsOf, MaxForm DEF Frame
    <3>4. k = SetPrice(b, 0)
      BY <2>1
    <3> HIDE DEF a, b, k
    <3>5. Frame(b, k) /\ k.price = 0
      BY <3>3, <3>4, SetPriceForm DEF Frame
    <3> QED BY <2>1, <3>2, <3>3, <3>5 DEF Frame
  <2>2. CASE ~KeepsVolume(f)
    <3> DEFINE a == SetPrice(f, 0)
               b == SetMaxVolume(a, 0)
               c == [b EXCEPT !.min = 0]
    <3>1. Frame(f, a) /\ a.price = 0
      BY SetPriceForm
    <3>2. Frame(a, b) /\ b.max = 0 /\ b.price = a.price
      BY <3>1, MaxForm DEF Frame
    <3> HIDE DEF a, b
    <3>3. Frame(b, c) /\ c.max = 0 /\ c.price = b.price
      BY <3>2 DEF Frame, Form
    <3>4. k = SetVolume(c, 0)
      BY <2>2 DEF a, b
    <3> HIDE DEF c, k
    <3>5. Frame(c, k) /\ k.price = c.price /\ k.max = c.max
      BY <3>3, <3>4, SetVolumeForm DEF Frame
    <3> QED BY <3>1, <3>2, <3>3, <3>5 DEF Frame, Capped
  <2> QED BY <2>1, <2>2
<1> HIDE DEF k
<1>3. /\ g \in Form /\ g.pref = NoOrder /\ g.post = TRUE
      /\ \A x \in {"left", "right", "mode", "trading", "chosen", "w", "price", "volume", "max"} : g[x] = k[x]
  BY <1>1, <1>2 DEF SetTradingError, Frame, Form, Errors
<1>4. f.trading = "Pro" \/ ~Selected(f) => ~KeepsVolume(f)
  BY DEF KeepsVolume
<1> QED BY <1>2, <1>3, <1>4 DEF Cleared, Frame, Capped

LEMMA SettleForms ==
    ASSUME NEW f \in Form, NEW g, g = Settle(f)
    PROVE  /\ g \in Form /\ Strict(g)
           /\ g.left = f.left /\ g.right = f.right /\ g.mode = f.mode /\ g.trading = f.trading
           /\ g.chosen = f.chosen /\ g.post = f.post /\ g.w = f.w
           /\ g.price = f.price /\ g.volume = f.volume /\ g.max = f.max /\ g.pref = f.pref
<1> DEFINE h == SetFees(SetSelectedOrderStatus(f, "None"), FALSE)
<1>1. /\ h \in Form
      /\ \A x \in {"left", "right", "mode", "trading", "chosen", "post", "w", "price", "volume", "max", "pref"} :
            h[x] = f[x]
  BY DEF SetFees, SetSelectedOrderStatus, Form, Statuses
<1>2. g = DetermineErrorCases(h)
  BY DEF Settle, ResetFees
<1> HIDE DEF h
<1>3. /\ Frame(h, g) /\ Strict(g)
      /\ g.price = h.price /\ g.volume = h.volume /\ g.max = h.max /\ g.pref = h.pref
  BY <1>1, <1>2, ErrorCases
<1> QED BY <1>1, <1>3 DEF Frame

LEMMA ClearedForm ==
    ASSUME NEW f, NEW g, Cleared(f, g), f.left # f.right, Sound(g)
    PROVE  FormInv(g)
<1>1. ~Selected(g) /\ g.price = 0
  BY DEF Cleared, Selected
<1>2. g.trading \in {"Pro", "Simple"} /\ g.mode \in {"Buy", "Sell"} /\ f.trading = g.trading
  BY DEF Cleared, Form
<1>3. Exact(g)
  BY <1>1 DEF Exact
<1> QED BY <1>1, <1>2, <1>3 DEF FormInv, Body, Cleared

LEMMA ClearForm ==
    ASSUME NEW f \in Form, ~Throws(f), f.left # f.right, NEW g, g = ClearForms(f)
    PROVE  Cleared(f, g) /\ Strict(g) /\ FormInv(g)
<1> DEFINE h == Wipe(f)
<1>1. Cleared(f, h)
  BY WipeForms
<1>2. g = Settle(h)
  BY DEF ClearForms
<1> HIDE DEF h
<1>3. h \in Form
  BY <1>1 DEF Cleared
<1>4. /\ g \in Form /\ Strict(g)
      /\ g.left = h.left /\ g.right = h.right /\ g.mode = h.mode /\ g.trading = h.trading
      /\ g.chosen = h.chosen /\ g.post = h.post /\ g.w = h.w
      /\ g.price = h.price /\ g.volume = h.volume /\ g.max = h.max /\ g.pref = h.pref
  BY <1>2, <1>3, SettleForms
<1>5. Cleared(f, g)
  BY <1>1, <1>4 DEF Cleared, Capped
<1>6. Sound(g)
  BY <1>4 DEF Sound, Strict
<1> QED BY <1>4, <1>5, <1>6, ClearedForm

LEMMA CurrentOrderbookForm ==
    ASSUME NEW f, FormInv(f), ~Throws(f), NEW l \in Coin, NEW r \in Coin, l # r,
           NEW g, g = SetCurrentOrderbook(f, l, r)
    PROVE  Good(f, g)
<1>1. CASE l \in WalletOnly \/ <<l, r>> = <<f.left, f.right>>
  BY <1>1 DEF SetCurrentOrderbook, Good
<1>2. CASE ~(l \in WalletOnly \/ <<l, r>> = <<f.left, f.right>>)
  <2> DEFINE h == SelectCoins(f, l, r)
  <2>1. /\ h \in Form /\ h.left # h.right
        /\ h.pref = f.pref /\ h.trading = f.trading /\ h.status = f.status
    BY DEF FormInv, Body, SelectCoins, Form
  <2>2. g = ClearForms(h)
    BY <1>2 DEF SetCurrentOrderbook
  <2> HIDE DEF h
  <2>3. ~Throws(h)
    BY <2>1 DEF Throws, KeepsVolume, Selected
  <2> QED BY <2>1, <2>2, <2>3, ClearForm DEF Good
<1> QED BY <1>1, <1>2

LEMMA PairForm ==
    ASSUME NEW f, FormInv(f), ~Throws(f), NEW isLeft \in BOOLEAN, NEW c \in Coin, NEW g, g = SetPair(f, isLeft, c)
    PROVE  Good(f, g)
<1>1. f.left \in Coin /\ f.right \in Coin /\ f.left # f.right
  BY DEF FormInv, Body, Form
<1>2. CASE g = f
  BY <1>2 DEF Good
<1>3. CASE g = SetCurrentOrderbook(f, f.right, f.left)
  BY <1>1, <1>3, CurrentOrderbookForm
<1>4. CASE isLeft /\ c \notin {f.left, f.right} /\ g = SetCurrentOrderbook(f, c, f.right)
  BY <1>1, <1>4, CurrentOrderbookForm
<1>5. CASE ~isLeft /\ c \notin {f.left, f.right} /\ g = SetCurrentOrderbook(f, f.left, c)
  BY <1>1, <1>5, CurrentOrderbookForm
<1> QED BY <1>2, <1>3, <1>4, <1>5 DEF SetPair

LEMMA MarketModeForm ==
    ASSUME NEW f, FormInv(f), ~Throws(f), NEW m \in {"Sell", "Buy"}, NEW g, g = SetMarketMode(f, m)
    PROVE  Good(f, g) /\ g.trading = f.trading /\ g.mode = m /\ (m # f.mode => Cleared([f EXCEPT !.mode = m], g))
<1>1. CASE m = f.mode
  BY <1>1 DEF SetMarketMode, Good
<1>2. CASE m # f.mode
  <2> DEFINE h == [f EXCEPT !.mode = m]
  <2>1. /\ h \in Form /\ h.left # h.right /\ h.mode = m
        /\ h.pref = f.pref /\ h.trading = f.trading /\ h.status = f.status
    BY DEF FormInv, Body, Form
  <2>2. g = ClearForms(h)
    BY <1>2 DEF SetMarketMode
  <2> HIDE DEF h
  <2>3. ~Throws(h)
    BY <2>1 DEF Throws, KeepsVolume, Selected
  <2>4. Cleared(h, g) /\ Strict(g) /\ FormInv(g)
    BY <2>1, <2>2, <2>3, ClearForm
  <2> QED BY <2>1, <2>4 DEF Good, Cleared, h
<1> QED BY <1>1, <1>2

LEMMA TradingModeForm ==
    ASSUME NEW f, FormInv(f), ~Throws(f), NEW t \in {"Pro", "Simple"}, t # f.trading, NEW g, g = SetTradingMode(f, t)
    PROVE  Good(f, g)
<1> DEFINE a == ClearForms(f)
           b == SetMarketMode(a, "Sell")
<1>1. g = [b EXCEPT !.trading = t]
  BY DEF SetTradingMode
<1>2. f \in Form /\ f.left # f.right /\ f.trading \in {"Pro", "Simple"}
  BY DEF FormInv, Body, Form
<1>3. Cleared(f, a) /\ Strict(a) /\ FormInv(a)
  BY <1>2, ClearForm
<1> HIDE DEF a
<1>4. a \in Form /\ ~Throws(a)
  BY <1>3 DEF Cleared, Throws, KeepsVolume, Selected
<1>5. Good(a, b) /\ b.mode = "Sell" /\ b.trading = a.trading
      /\ (a.mode # "Sell" => Cleared([a EXCEPT !.mode = "Sell"], b))
  BY <1>3, <1>4, MarketModeForm
<1>6. /\ b \in Form /\ b.left # b.right /\ Strict(b) /\ b.price = 0 /\ b.pref = NoOrder /\ b.post = TRUE
      /\ f.trading = "Pro" => Capped(b)
  <2>1. CASE a.mode = "Sell"
    <3>1. b = a
      BY <2>1 DEF b, SetMarketMode
    <3> QED BY <3>1, <1>3 DEF FormInv, Body, Cleared
  <2>2. CASE a.mode # "Sell"
    <3> DEFINE h == [a EXCEPT !.mode = "Sell"]
    <3>1. h \in Form /\ h.pref = NoOrder
      BY <1>3, <1>4 DEF Cleared, Form
    <3> HIDE DEF h
    <3>2. Cleared(h, b)
      BY <1>5, <2>2 DEF h
    <3> QED BY <3>1, <3>2, <1>3, <1>5 DEF FormInv, Body, Cleared, Good, Selected
  <2> QED BY <2>1, <2>2
<1> HIDE DEF b
<1>7. /\ g \in Form /\ g.trading = t
      /\ \A x \in {"left", "right", "mode", "error", "price", "volume", "max", "pref", "w", "post"} : g[x] = b[x]
  BY <1>1, <1>6 DEF Form
<1>8. ~Selected(g) /\ g.price = 0 /\ g.mode = "Sell" /\ g.post = TRUE
  BY <1>5, <1>6, <1>7 DEF Selected
<1>9. Strict(g) /\ Sound(g) /\ Exact(g)
  BY <1>6, <1>7, <1>8 DEF Strict, Filled, Sound, Exact
<1>10. Capped(g) \/ (g.trading = "Simple" /\ g.price = 0) \/ ~Bounded(g)
  <2>1. CASE t = "Simple"
    BY <2>1, <1>7, <1>8
  <2>2. CASE t = "Pro"
    BY <2>2, <1>7, <1>8 DEF Bounded
  <2> QED BY <2>1, <2>2
<1> QED BY <1>6, <1>7, <1>8, <1>9, <1>10 DEF Good, FormInv, Body

LEMMA FeesAsked ==
    ASSUME NEW f \in Form, NEW g, g = DetermineFees(f)
    PROVE  /\ Frame(f, g) /\ Checked(f, g)
           /\ g.price = f.price /\ g.volume = f.volume /\ g.max = f.max /\ g.pref = f.pref
  BY DEF DetermineFees, Frame, Form, Checked, Sound, Strict, Filled, Selected

\* A selected order brings its price, and the volumes are capped for it.
LEMMA PreferredOrderForm ==
    ASSUME NEW f, Body(f), f.w # NoTaker, NEW p \in Pick, NEW g, g = SetPreferredOrder(f, p)
    PROVE  /\ Body(g) /\ (Sound(f) => Strict(g))
           /\ g.w = f.w /\ g.trading = f.trading /\ g.chosen = f.chosen
<1> DEFINE a == [f EXCEPT !.pref = p]
           b == SetPrice(a, p.price)
           c == DetermineMaxVolume(b)
           d == SetMinTradeVol(c, p.min)
           e == IF f.trading = "Pro" THEN SetVolume(d, p.max)
                ELSE IF p.initial # None THEN SetVolume(d, p.initial) ELSE d
<1>1. p \in Order /\ ~p.locked /\ p.price \in Nat \ {0} /\ p.min \in Nat /\ p.max \in Nat /\ p.initial \in Nat \cup {None}
  BY DEF Pick, Order
<1>2. f \in Form
  BY DEF Body
<1>3. /\ Frame(f, a) /\ a.pref = p
      /\ a.price = f.price /\ a.volume = f.volume /\ a.error = f.error
  BY <1>1, <1>2 DEF Frame, Form
<1>4. Selected(a)
  BY <1>1, <1>3, OrderSelected DEF Selected
<1>5. g = DetermineFees(e)
  BY DEF SetPreferredOrder
<1> HIDE DEF a
<1>6. /\ Frame(a, b) /\ Checked(a, b) /\ (p.price # a.price => Strict(b))
      /\ Selected(b) /\ b.price = p.price
  <2>1. a \in Form /\ p.price \in Nat /\ Selected(a) /\ ~a.pref.locked
    BY <1>1, <1>3, <1>4 DEF Frame
  <2> QED BY <2>1, SetPriceForm
<1>7. Sound(f) => Strict(b)
  <2>1. CASE p.price = a.price
    BY <2>1, <1>1, <1>3, <1>6 DEF Sound, Strict, Filled, Checked, Frame
  <2>2. CASE p.price # a.price
    BY <2>2, <1>6
  <2> QED BY <2>1, <2>2
<1> HIDE DEF b
<1>8. b.mode = f.mode /\ b.w = f.w /\ b \in Form /\ b.mode \in {"Sell", "Buy"}
  BY <1>3, <1>6 DEF Frame, Form
<1>9. /\ Frame(b, c) /\ Checked(b, c) /\ Selected(c) /\ Capped(c)
      /\ (b.mode = "Buy" => Exact(c)) /\ c.price = b.price
  BY <1>6, <1>8, DetermineMaxVolumeForm DEF SameOrder
<1> HIDE DEF c
<1>10. Exact(c)
  BY <1>8, <1>9 DEF Exact, Frame
<1>11. /\ Frame(c, d) /\ Checked(c, d)
       /\ d.price = c.price /\ d.volume = c.volume /\ d.max = c.max /\ d.pref = c.pref
  <2>1. c \in Form /\ p.min \in Nat
    BY <1>1, <1>9 DEF Frame
  <2> QED BY <2>1, SetMinForm
<1> HIDE DEF d
<1>12. d \in Form /\ Capped(d)
  BY <1>9, <1>11 DEF Frame, Capped
<1>13. /\ Frame(d, e) /\ Checked(d, e) /\ Capped(e)
       /\ e.price = d.price /\ e.max = d.max /\ e.pref = d.pref
  <2>1. CASE f.trading = "Pro"
    BY <2>1, <1>1, <1>12, SetVolumeForm
  <2>2. CASE f.trading # "Pro" /\ p.initial # None
    <3>1. p.initial \in Nat /\ e = SetVolume(d, p.initial)
      BY <2>2, <1>1
    <3> QED BY <3>1, <1>12, SetVolumeForm
  <2>3. CASE f.trading # "Pro" /\ p.initial = None
    BY <2>3, <1>12 DEF Frame, Checked
  <2> QED BY <2>1, <2>2, <2>3
<1> HIDE DEF e
<1>14. /\ Frame(e, g) /\ Checked(e, g)
       /\ g.price = e.price /\ g.volume = e.volume /\ g.max = e.max /\ g.pref = e.pref
  BY <1>5, <1>13, FeesAsked DEF Frame
<1>15. Sound(f) => Strict(g)
  BY <1>7, <1>9, <1>11, <1>13, <1>14 DEF Checked
<1>16. Frame(f, g)
  BY <1>3, <1>6, <1>9, <1>11, <1>13, <1>14 DEF Frame
<1>17. Selected(g) /\ Capped(g)
  BY <1>9, <1>11, <1>13, <1>14 DEF Selected, Capped
<1>18. Exact(g)
  BY <1>10, <1>11, <1>13, <1>14, <1>9 DEF Exact, Selected, Frame
<1> QED BY <1>15, <1>16, <1>17, <1>18 DEF Body, Frame

LEMMA PreferredSettingsForm ==
    ASSUME NEW f, Body(f), f.w # NoTaker, f.trading = "Pro", NEW g, g = SetPreferredSettings(f)
    PROVE  Body(g)
<1>1. CASE <<f.left, f.right>> \notin DOMAIN Target
  BY <1>1 DEF SetPreferredSettings
<1>2. CASE <<f.left, f.right>> \in DOMAIN Target
  <2> DEFINE t == Target[<<f.left, f.right>>]
             a == SetPrice(f, t)
             b == DetermineMaxVolume(a)
             c == SetVolume(b, b.max)
             v == (c.volume * Share) \div 100
  <2>1. t \in Nat
    BY <1>2, FormAssumption
  <2>2. g = SetMinTradeVol(c, v)
    BY <1>2 DEF SetPreferredSettings
  <2> HIDE DEF t
  <2>3. Frame(f, a)
    BY <2>1, SetPriceForm DEF Body
  <2> HIDE DEF a
  <2>4. a \in Form /\ a.w # NoTaker /\ a.mode \in {"Sell", "Buy"}
    BY <2>3 DEF Frame, Form
  <2>5. Frame(a, b) /\ Capped(b) /\ (a.mode = "Buy" => Exact(b))
    BY <2>4, DetermineMaxVolumeForm
  <2> HIDE DEF b
  <2>6. Exact(b)
    BY <2>4, <2>5 DEF Exact, Frame
  <2>7. b \in Form /\ b.max \in Nat
    BY <2>5 DEF Frame, Form
  <2>8. /\ Frame(b, c) /\ Capped(c)
        /\ c.price = b.price /\ c.max = b.max /\ c.pref = b.pref
    BY <2>5, <2>7, SetVolumeForm
  <2> HIDE DEF c
  <2>9. c \in Form /\ v \in Nat
    <3>1. c \in Form /\ c.volume \in Nat
      BY <2>8 DEF Frame, Form
    <3>2. c.volume * Share \in Nat
      BY <3>1, FormAssumption
    <3> QED BY <3>1, <3>2, QuotientNat
  <2> HIDE DEF v
  <2>10. /\ Frame(c, g)
         /\ g.price = c.price /\ g.volume = c.volume /\ g.max = c.max /\ g.pref = c.pref
    BY <2>2, <2>9, SetMinForm
  <2>11. Frame(f, g)
    BY <2>3, <2>5, <2>8, <2>10 DEF Frame
  <2>12. Capped(g) /\ Exact(g)
    BY <2>6, <2>8, <2>10 DEF Capped, Exact, Selected, Frame
  <2> QED BY <2>11, <2>12 DEF Body, Frame
<1> QED BY <1>1, <1>2

LEMMA AdjustForm ==
    ASSUME NEW f, Body(f), f.w # NoTaker, NEW g, g = Adjust(f)
    PROVE  Body(g)
<1> DEFINE b == DetermineMaxVolume(f)
           c == SetVolume(b, b.max)
           v == CurrentMinTakerVol(c)
           d == SetMinTradeVol(c, v)
<1>1. CASE g = f
  BY <1>1
<1>2. CASE f.trading = "Pro" /\ g = [d EXCEPT !.post = FALSE]
  <2>1. f \in Form /\ f.mode \in {"Sell", "Buy"}
    BY DEF Body, Form
  <2>2. Frame(f, b) /\ SameOrder(f, b) /\ Capped(b) /\ (f.mode = "Buy" => Exact(b)) /\ b.price = f.price
    BY <2>1, DetermineMaxVolumeForm
  <2> HIDE DEF b
  <2>3. Exact(b)
    BY <2>1, <2>2 DEF Exact, Frame
  <2>4. b \in Form /\ b.max \in Nat
    BY <2>2 DEF Frame, Form
  <2>5. /\ Frame(b, c) /\ Capped(c)
        /\ c.price = b.price /\ c.max = b.max /\ c.pref = b.pref
    BY <2>2, <2>4, SetVolumeForm
  <2> HIDE DEF c
  <2>6. c \in Form /\ v \in Nat
    BY <2>5, CurrentMinNat DEF Frame
  <2> HIDE DEF v
  <2>7. /\ Frame(c, d)
        /\ d.price = c.price /\ d.volume = c.volume /\ d.max = c.max /\ d.pref = c.pref
    BY <2>6, SetMinForm
  <2> HIDE DEF d
  <2>8. Frame(f, d) /\ Capped(d) /\ Exact(d)
    BY <2>2, <2>3, <2>5, <2>7 DEF Frame, Capped, Exact, Selected
  <2>9. /\ g \in Form
        /\ \A x \in {"left", "right", "mode", "trading", "price", "volume", "max", "pref", "w"} : g[x] = d[x]
    BY <1>2, <2>8 DEF Frame, Form
  <2>10. Capped(g) /\ Exact(g)
    BY <2>8, <2>9 DEF Capped, Exact, Selected
  <2> QED BY <1>2, <2>8, <2>9, <2>10 DEF Body, Frame
<1> QED BY <1>1, <1>2 DEF Adjust

LEMMA PickedOrder ==
    ASSUME NEW f \in Form, NEW o \in Offer
    PROVE  Picked(f, o) \in Pick
<1>1. o.coin \in Coin /\ o.price \in Nat \ {0} /\ o.min \in Nat /\ o.max \in Nat
  BY FormAssumption
<1>2. f.volume \in Nat
  BY DEF Form
<1> QED BY <1>1, <1>2 DEF Picked, Pick, Order

\* What is sent is what is shown: the exact fraction is the maximum, and a sale of the
\* simple view has a selected order.
LEMMA RequestShown ==
    ASSUME NEW f, FormInv(f), f.error = "None", NEW r, r = Request(f), r.price # 0, r.buy \/ r.simple
    PROVE  r.volume = r.shown
<1>1. r.shown = f.volume /\ r.volume = (IF f.mode = "Buy" THEN BoughtVolume(f) ELSE SoldVolume(f))
      /\ (r.buy <=> f.mode = "Buy") /\ (r.simple <=> f.trading = "Simple")
      /\ r.price = (IF Selected(f) THEN f.pref.price ELSE f.price)
  BY DEF Request
<1>2. CASE f.mode = "Buy" /\ Selected(f) /\ f.volume = f.max
  <2>1. Filled(f)
    BY <1>2 DEF FormInv, Body, Sound
  <2>2. f.price > 0 /\ f.max # 0
    BY <1>2, <2>1 DEF Filled, FormInv, Body, Form
  <2>3. f.max \in {f.pref.max, f.pref.rat}
    BY <1>2, <2>2 DEF FormInv, Body, Exact
  <2> QED BY <1>1, <1>2, <2>2, <2>3 DEF BoughtVolume
<1>3. CASE f.mode = "Buy" /\ ~(Selected(f) /\ f.volume = f.max)
  BY <1>1, <1>3 DEF BoughtVolume
<1>4. CASE f.mode # "Buy" /\ Selected(f)
  BY <1>1, <1>4 DEF SoldVolume
<1>5. CASE f.mode # "Buy" /\ ~Selected(f)
  BY <1>1, <1>5 DEF FormInv, Body
<1> QED BY <1>2, <1>3, <1>4, <1>5

-----------------------------------------------------------------------------
\* The form after each step.
LEMMA VolumeStep ==
    ASSUME NEW f, FormInv(f), NEW g, Frame(f, g), Checked(f, g), SameOrder(f, g), Exact(g),
           g.price = f.price, Capped(f) => Capped(g)
    PROVE  Good(f, g)
<1>1. Bounded(f) <=> Bounded(g)
  BY DEF Bounded, Frame, SameOrder
<1>2. Body(g)
  BY <1>1 DEF FormInv, Body, Frame, SameOrder
<1> QED BY <1>2 DEF Good, FormInv, Checked

LEMMA EnterPriceForm ==
    ASSUME NEW f, FormInv(f), f.trading = "Pro", ~Selected(f), NEW p \in Nat, NEW g, g = SetPrice(f, p)
    PROVE  Good(f, g)
<1>1. /\ Frame(f, g) /\ Checked(f, g) /\ (Capped(f) => Capped(g)) /\ (Exact(f) => Exact(g))
      /\ (f.mode = "Sell" => g.max = f.max /\ g.volume = f.volume)
      /\ ~Selected(g)
  BY SetPriceForm DEF FormInv, Body
<1>2. Capped(g) \/ ~Bounded(g)
  BY <1>1 DEF FormInv, Body, Bounded, Frame
<1>3. Body(g)
  BY <1>1, <1>2 DEF FormInv, Body, Frame
<1> QED BY <1>1, <1>3 DEF Good, FormInv, Checked

LEMMA EnterVolumeForm ==
    ASSUME NEW f, FormInv(f), NEW v \in Nat, NEW g, g = SetVolume(f, v) \/ g = SetMinTradeVol(f, v)
    PROVE  Good(f, g)
<1>1. /\ Frame(f, g) /\ Checked(f, g) /\ (Capped(f) => Capped(g))
      /\ g.price = f.price /\ g.max = f.max /\ g.pref = f.pref
  BY SetVolumeForm, SetMinForm DEF FormInv, Body, Capped
<1>2. SameOrder(f, g) /\ Exact(g)
  BY <1>1 DEF SameOrder, Selected, FormInv, Body, Exact, Frame
<1> QED BY <1>1, <1>2, VolumeStep

LEMMA PoolMaxVolumeForm ==
    ASSUME NEW f, FormInv(f), NEW g, g = DetermineMaxVolume(f)
    PROVE  Good(f, g)
<1>1. /\ Frame(f, g) /\ Checked(f, g) /\ SameOrder(f, g) /\ (f.mode = "Buy" => Exact(g))
      /\ (Capped(f) => Capped(g)) /\ g.price = f.price
  BY DetermineMaxVolumeForm DEF FormInv, Body
<1>2. Exact(g)
  BY <1>1 DEF Exact, Frame
<1> QED BY <1>1, <1>2, VolumeStep

LEMMA ChosenForm ==
    ASSUME NEW f, NEW o \in Pick \cup {NoOrder}, NEW g, g = [f EXCEPT !.chosen = o]
    PROVE  /\ Body(f) => Body(g) /\ g.chosen = o /\ g.w = f.w /\ g.pref = f.pref
                         /\ g.trading = f.trading /\ g.status = f.status /\ g.left = f.left /\ g.right = f.right
           /\ FormInv(f) => Good(f, g)
<1>1. ASSUME f \in Form
      PROVE  /\ g \in Form /\ g.chosen = o
             /\ \A x \in {"left", "right", "mode", "trading", "price", "volume", "max", "error", "pref", "status",
                          "post", "w"} : g[x] = f[x]
  BY <1>1 DEF Form
<1>2. ASSUME Body(f)
      PROVE  Body(g)
  BY <1>1, <1>2 DEF Body, Selected, Exact, Capped, Bounded
<1> QED BY <1>1, <1>2 DEF Body, FormInv, Good, Sound, Strict, Filled, Selected

LEMMA BestOrderForm ==
    ASSUME NEW f, FormInv(f), ~Throws(f), f.w # NoTaker, NEW o \in Offer, o.coin # f.left,
           NEW g, g = SelectBestOrder(f, o)
    PROVE  Good(f, g)
<1> DEFINE q == Picked(f, o)
           h == [f EXCEPT !.chosen = q]
<1>1. q \in Pick
  BY PickedOrder DEF FormInv, Body
<1> HIDE DEF q
<1>2. /\ Good(f, h) /\ h.chosen = q /\ h.w = f.w /\ h.pref = f.pref
      /\ h.trading = f.trading /\ h.status = f.status
  BY <1>1, ChosenForm DEF FormInv
<1>3. ~Throws(h)
  BY <1>2 DEF Throws, KeepsVolume, Selected
<1>4. g = IF o.coin = f.right THEN SetPreferredOrder(h, h.chosen) ELSE SetPair(h, FALSE, o.coin)
  BY DEF SelectBestOrder, q
<1> HIDE DEF h
<1>5. CASE o.coin = f.right
  <2>1. Body(g) /\ (Sound(h) => Strict(g))
    BY <1>1, <1>2, <1>4, <1>5, PreferredOrderForm DEF Good, FormInv
  <2> QED BY <2>1, <1>2 DEF Good, FormInv, Sound, Strict
<1>6. CASE o.coin # f.right
  <2>1. o.coin \in Coin
    BY FormAssumption
  <2>2. Good(h, g)
    BY <2>1, <1>2, <1>3, <1>4, <1>6, PairForm DEF Good
  <2> QED BY <1>2, <2>2 DEF Good
<1> QED BY <1>5, <1>6

LEMMA DisabledForm ==
    ASSUME NEW f, FormInv(f), NEW g, g = SelectCoins(f, Secondary, Primary)
    PROVE  Good(f, g)
<1>1. Primary \in Coin /\ Secondary \in Coin /\ Primary # Secondary
  BY FormAssumption
<1>2. /\ g \in Form /\ g.left # g.right
      /\ \A x \in {"mode", "trading", "price", "volume", "max", "error", "pref", "post", "w"} : g[x] = f[x]
  BY <1>1 DEF FormInv, Body, Form, SelectCoins
<1> QED BY <1>2 DEF FormInv, Body, Good, Sound, Strict, Filled, Selected, Exact, Capped, Bounded

LEMMA FeesForm ==
    ASSUME NEW f, FormInv(f), NEW short \in BOOLEAN, NEW more \in BOOLEAN,
           NEW g, g = [SetFees(f, short) EXCEPT !.asked = more]
    PROVE  Good(f, g)
<1>1. /\ g \in Form
      /\ \A x \in {"left", "right", "mode", "trading", "price", "volume", "max", "error", "pref", "post", "w"} : g[x] = f[x]
  BY DEF FormInv, Body, Form, SetFees
<1> QED BY <1>1 DEF FormInv, Body, Good, Sound, Strict, Filled, Selected, Exact, Capped, Bounded

LEMMA SettledForm ==
    ASSUME NEW f, Body(f), NEW g, g = Settle(f) \/ g = DetermineErrorCases(f)
    PROVE  FormInv(g) /\ Strict(g)
<1>1. /\ g \in Form /\ Strict(g)
      /\ g.left = f.left /\ g.right = f.right /\ g.mode = f.mode /\ g.trading = f.trading
      /\ g.post = f.post /\ g.w = f.w
      /\ g.price = f.price /\ g.volume = f.volume /\ g.max = f.max /\ g.pref = f.pref
  BY SettleForms, ErrorCases DEF Body, Frame
<1>2. Body(g)
  BY <1>1 DEF Body, Selected, Exact, Capped, Bounded
<1> QED BY <1>1, <1>2 DEF FormInv, Sound, Strict

LEMMA WipedForm ==
    ASSUME NEW f, FormInv(f), ~Throws(f), NEW g, g = Wipe(f)
    PROVE  FormInv(g)
<1>1. Cleared(f, g)
  BY WipeForms DEF FormInv, Body
<1>2. Sound(g)
  BY <1>1 DEF Cleared, Sound, Selected
<1> QED BY <1>1, <1>2, ClearedForm DEF FormInv, Body

\* The volumes of an orderbook answer.
LEMMA KnownForm ==
    ASSUME NEW f, Body(f), NEW v \in Taker, NEW g, g = SetBothTakerVol(f, v)
    PROVE  /\ Body(g) /\ g.w # NoTaker /\ g.chosen = f.chosen /\ g.trading = f.trading
<1>1. /\ g \in Form /\ g.w = v
      /\ \A x \in {"left", "right", "mode", "trading", "price", "volume", "max", "chosen", "pref", "post"} : g[x] = f[x]
  BY DEF Body, Form, SetBothTakerVol
<1> QED BY <1>1, TakerKnown DEF Body, Selected, Exact, Capped, Bounded

LEMMA StatusForm ==
    ASSUME NEW f, Body(f), NEW s \in Statuses, NEW g, g = SetSelectedOrderStatus(f, s)
    PROVE  Body(g) /\ g.w = f.w
<1>1. /\ g \in Form
      /\ \A x \in {"left", "right", "mode", "trading", "price", "volume", "max", "pref", "post", "w"} : g[x] = f[x]
  BY DEF Body, Form, SetSelectedOrderStatus
<1> QED BY <1>1 DEF Body, Selected, Exact, Capped, Bounded

LEMMA ResetForm ==
    ASSUME FormInv(form), ProcessReset
    PROVE  Good(form, form')
<1>1. PICK v \in Taker :
         LET known   == SetBothTakerVol(form, v)
             applied == IF known.chosen = NoOrder THEN known
                        ELSE [SetPreferredOrder(known, known.chosen) EXCEPT !.chosen = NoOrder]
         IN  form' = DetermineErrorCases(IF form.trading = "Pro" THEN SetPreferredSettings(applied) ELSE Adjust(applied))
  BY DEF ProcessReset
<1> DEFINE known   == SetBothTakerVol(form, v)
           ordered == SetPreferredOrder(known, known.chosen)
           applied == IF known.chosen = NoOrder THEN known ELSE [ordered EXCEPT !.chosen = NoOrder]
           filled  == IF form.trading = "Pro" THEN SetPreferredSettings(applied) ELSE Adjust(applied)
<1>2. form' = DetermineErrorCases(filled)
  BY <1>1
<1>3. Body(known) /\ known.w # NoTaker /\ known.chosen = form.chosen /\ known.trading = form.trading
  BY KnownForm DEF FormInv
<1> HIDE DEF known
<1>4. Body(applied) /\ applied.w # NoTaker /\ applied.trading = form.trading
  <2>1. CASE known.chosen = NoOrder
    BY <2>1, <1>3
  <2>2. CASE known.chosen # NoOrder
    <3>1. known.chosen \in Pick
      BY <2>2, <1>3 DEF Body, Form
    <3>2. Body(ordered) /\ ordered.w = known.w /\ ordered.trading = known.trading
      BY <3>1, <1>3, PreferredOrderForm
    <3>3. applied = [ordered EXCEPT !.chosen = NoOrder]
      BY <2>2
    <3> HIDE DEF ordered, applied
    <3> QED BY <3>2, <3>3, <1>3, ChosenForm
  <2> QED BY <2>1, <2>2
<1> HIDE DEF applied
<1>5. Body(filled)
  BY <1>4, PreferredSettingsForm, AdjustForm
<1> HIDE DEF filled
<1> QED BY <1>2, <1>5, SettledForm DEF Good

LEMMA RefreshForm ==
    ASSUME FormInv(form), ProcessRefresh
    PROVE  Good(form, form')
<1>1. PICK v \in Taker, s \in {form.status, "OrderNotExistingAnymore", "BetterPriceAvailable"} :
         form' = DetermineErrorCases(Adjust(SetSelectedOrderStatus(SetBothTakerVol(form, v), s)))
  BY DEF ProcessRefresh
<1> DEFINE known == SetBothTakerVol(form, v)
           told  == SetSelectedOrderStatus(known, s)
           ready == Adjust(told)
<1>2. s \in Statuses
  BY DEF FormInv, Body, Form, Statuses
<1>3. Body(known) /\ known.w # NoTaker
  BY KnownForm DEF FormInv
<1> HIDE DEF known
<1>4. Body(told) /\ told.w # NoTaker
  BY <1>2, <1>3, StatusForm
<1> HIDE DEF told
<1>5. Body(ready)
  BY <1>4, AdjustForm
<1>6. form' = DetermineErrorCases(ready)
  BY <1>1 DEF told, known
<1> HIDE DEF ready
<1> QED BY <1>5, <1>6, SettledForm DEF Good

-----------------------------------------------------------------------------
\* A call is a record that has at least the two fields that say how far it is.
Calls ==
    /\ DOMAIN calls = Slot /\ calls = [c \in Slot |-> calls[c]]
    /\ \A c \in Slot : /\ calls[c] = [x \in DOMAIN calls[c] |-> calls[c][x]]
                       /\ {"stage", "late"} \subseteq DOMAIN calls[c]
                       /\ calls[c].stage \in Stages

\* No continuation is between the two halves of clear_forms.
Settled == \A c \in Slot : calls[c].stage # "settle"

CallsInv == Calls /\ busy \in BOOLEAN /\ BusyMeansOrderInFlight /\ SentIsShown

Inv == CallsInv /\ FormInv(form) /\ (Settled => Strict(form))

LEMMA InvStill == ASSUME Inv, UNCHANGED <<calls, busy>>, Good(form, form') PROVE Inv'
<1>1. CallsInv'
  BY DEF Inv, CallsInv, Calls, BusyMeansOrderInFlight, SentIsShown
<1>2. Settled' => Settled
  BY DEF Settled
<1> QED BY <1>1, <1>2 DEF Inv, Good

\* The user's steps: only an order that is placed touches more than the form.
LEMMA InvUser == ASSUME Inv, UserStep, ~\E c \in Slot : PlaceOrder(c) PROVE Inv'
<1>1. FormInv(form) /\ form \in Form /\ form.left \in Coin /\ form.right \in Coin /\ form.left # form.right
  BY DEF Inv, FormInv, Body, Form
<1>2. ASSUME NEW f, UserDoes(f), Good(form, f) PROVE Inv'
  BY <1>2, InvStill DEF UserDoes
<1>3. ASSUME NEW f, UserClears(f), ~Throws(form) => Good(form, f) PROVE Inv'
  BY <1>2, <1>3 DEF UserClears
<1>4. CASE SelectPair
  <2>1. PICK isLeft \in BOOLEAN, c \in Coin : UserClears(SetPair(form, isLeft, c))
    BY <1>4 DEF SelectPair, Selectable
  <2>2. ~Throws(form) => Good(form, SetPair(form, isLeft, c))
    BY <1>1, PairForm
  <2> QED BY <2>1, <2>2, <1>3
<1>5. CASE SwapMarketPair
  <2>1. ~Throws(form) => Good(form, SetCurrentOrderbook(form, form.right, form.left))
    BY <1>1, CurrentOrderbookForm
  <2> QED BY <1>5, <2>1, <1>3 DEF SwapMarketPair
<1>6. CASE ChooseMarketMode
  <2>1. PICK m \in {"Sell", "Buy"} : UserClears(SetMarketMode(form, m))
    BY <1>6 DEF ChooseMarketMode
  <2>2. ~Throws(form) => Good(form, SetMarketMode(form, m))
    BY <1>1, MarketModeForm
  <2> QED BY <2>1, <2>2, <1>3
<1>7. CASE ChooseTradingMode
  <2>1. PICK t \in {"Pro", "Simple"} \ {form.trading} : UserClears(SetTradingMode(form, t))
    BY <1>7 DEF ChooseTradingMode
  <2>2. ~Throws(form) => Good(form, SetTradingMode(form, t))
    BY <1>1, TradingModeForm
  <2> QED BY <2>1, <2>2, <1>3
<1>8. CASE EnterPrice
  <2>1. PICK p \in Nat : UserDoes(SetPrice(form, p))
    BY <1>8, FormAssumption DEF EnterPrice
  <2>2. Good(form, SetPrice(form, p))
    BY <1>1, <1>8, EnterPriceForm DEF EnterPrice
  <2> QED BY <2>1, <2>2, <1>2
<1>9. CASE EnterVolume
  <2>1. PICK v \in Nat : UserDoes(SetVolume(form, v))
    BY <1>9, FormAssumption DEF EnterVolume
  <2>2. Good(form, SetVolume(form, v))
    BY <1>1, EnterVolumeForm
  <2> QED BY <2>1, <2>2, <1>2
<1>10. CASE EnterMinVolume
  <2>1. PICK v \in Nat : UserDoes(SetMinTradeVol(form, v))
    BY <1>10, FormAssumption DEF EnterMinVolume
  <2>2. Good(form, SetMinTradeVol(form, v))
    BY <1>1, EnterVolumeForm
  <2> QED BY <2>1, <2>2, <1>2
<1>11. CASE PickOffer
  <2>1. PICK o \in Offer : UserDoes(SetPreferredOrder(form, Picked(form, o)))
    BY <1>11 DEF PickOffer
  <2> DEFINE g == SetPreferredOrder(form, Picked(form, o))
  <2>2. Picked(form, o) \in Pick /\ form.w # NoTaker /\ Body(form) /\ Sound(form)
    BY <1>1, <1>11, PickedOrder DEF PickOffer, FormInv
  <2>3. Body(g) /\ Strict(g)
    BY <2>2, PreferredOrderForm
  <2> HIDE DEF g
  <2>4. Good(form, g)
    BY <2>3 DEF Good, FormInv, Sound, Strict
  <2> QED BY <2>1, <2>4, <1>2 DEF g
<1>12. CASE PickBestOrder
  <2>1. PICK o \in Offer : o.coin # form.left /\ UserClears(SelectBestOrder(form, o))
    BY <1>12 DEF PickBestOrder
  <2>2. ~Throws(form) => Good(form, SelectBestOrder(form, o))
    BY <1>1, <1>12, <2>1, BestOrderForm DEF PickBestOrder
  <2> QED BY <2>1, <2>2, <1>3
<1>13. CASE ResetOrder
  <2>1. ~Throws(form) => Good(form, ClearForms(form))
    BY <1>1, ClearForm DEF Good
  <2> QED BY <1>13, <2>1, <1>3 DEF ResetOrder
<1>14. CASE DisableCoin
  <2>1. Good(form, SelectCoins(form, Secondary, Primary))
    BY <1>1, DisabledForm
  <2> QED BY <1>14, <2>1, <1>2 DEF DisableCoin
<1> QED BY <1>4, <1>5, <1>6, <1>7, <1>8, <1>9, <1>10, <1>11, <1>12, <1>13, <1>14 DEF UserStep

LEMMA InvPlace == ASSUME Inv, NEW c \in Slot, PlaceOrder(c) PROVE Inv'
<1> DEFINE r == Request(form)
<1>1. r.stage = "sent" /\ {"stage", "late"} \subseteq DOMAIN r /\ r = [x \in DOMAIN r |-> r[x]]
  BY DEF Request
<1>2. r.price # 0 /\ (r.buy \/ r.simple) => r.volume = r.shown
  BY RequestShown DEF Inv, PlaceOrder
<1>3. calls' = [calls EXCEPT ![c] = r] /\ busy' = TRUE /\ form' = form
  BY DEF PlaceOrder, SetBuySellRpcBusy
<1> HIDE DEF r
<1>4. Calls' /\ calls'[c] = r /\ \A d \in Slot \ {c} : calls'[d] = calls[d]
  BY <1>1, <1>3 DEF Inv, CallsInv, Calls, Stages
<1>5. CallsInv'
  BY <1>1, <1>2, <1>3, <1>4 DEF Inv, CallsInv, BusyMeansOrderInFlight, SentIsShown
<1>6. Settled' => Settled
  BY <1>4, calls[c] = NoCall DEF Settled, PlaceOrder, NoCall
<1> QED BY <1>3, <1>5, <1>6 DEF Inv, PlaceOrder

LEMMA InvVolumes ==
    ASSUME Inv, ProcessReset \/ ProcessRefresh \/ PoolMaxVolume \/ AnswerFees PROVE Inv'
<1>1. FormInv(form)
  BY DEF Inv
<1>2. UNCHANGED <<calls, busy>>
  BY DEF ProcessReset, ProcessRefresh, PoolMaxVolume, AnswerFees
<1>3. CASE PoolMaxVolume
  <2>1. Good(form, form')
    BY <1>1, <1>3, PoolMaxVolumeForm DEF PoolMaxVolume
  <2> QED BY <1>2, <2>1, InvStill
<1>4. CASE AnswerFees
  <2>1. PICK short \in BOOLEAN, more \in BOOLEAN : form' = [SetFees(form, short) EXCEPT !.asked = more]
    BY <1>4 DEF AnswerFees
  <2>2. Good(form, form')
    BY <1>1, <2>1, FeesForm
  <2> QED BY <1>2, <2>2, InvStill
<1> QED BY <1>1, <1>2, <1>3, <1>4, ResetForm, RefreshForm, InvStill

\* A call that goes on to the stage of k, while the others wait.
LEMMA CallMoves ==
    ASSUME CallsInv, NEW c \in Slot, NEW k, calls' = [calls EXCEPT ![c] = k],
           k = [x \in DOMAIN k |-> k[x]], {"stage", "late"} \subseteq DOMAIN k,
           k.stage \in Stages \ {"sent"},
           busy' \in BOOLEAN, busy' => busy /\ (calls[c].stage = "sent" \/ calls[c].late => k.late)
    PROVE  CallsInv' /\ calls'[c] = k /\ \A d \in Slot \ {c} : calls'[d] = calls[d]
<1>1. Calls' /\ calls'[c] = k /\ \A d \in Slot \ {c} : calls'[d] = calls[d]
  BY DEF CallsInv, Calls
<1>2. BusyMeansOrderInFlight'
  <2>1. SUFFICES ASSUME busy' PROVE \E d \in Slot : calls'[d].stage = "sent" \/ calls'[d].late
    BY DEF BusyMeansOrderInFlight
  <2>2. PICK d \in Slot : calls[d].stage = "sent" \/ calls[d].late
    BY <2>1 DEF CallsInv, BusyMeansOrderInFlight
  <2> QED BY <1>1, <2>1, <2>2
<1>3. SentIsShown'
  BY <1>1 DEF CallsInv, SentIsShown
<1> QED BY <1>1, <1>2, <1>3 DEF CallsInv

LEMMA InvContinuation == ASSUME Inv, NEW c \in Slot, Continuation(c) PROVE Inv'
<1>1. CallsInv /\ FormInv(form) /\ (Settled => Strict(form)) /\ calls[c].stage \in Stages
  BY DEF Inv, CallsInv, Calls
<1>2. CASE AnswerOrder(c)
  <2>1. PICK failed \in BOOLEAN :
           LET late == ~failed /\ ~calls[c].buy
           IN  /\ busy' = (busy /\ late)
               /\ calls' = [calls EXCEPT ![c].stage = "clear", ![c].late = late]
    BY <1>2 DEF AnswerOrder, SetBuySellRpcBusy
  <2> DEFINE late == ~failed /\ ~calls[c].buy
             new == [calls[c] EXCEPT !.stage = "clear", !.late = late]
  <2>2. calls' = [calls EXCEPT ![c] = new]
    BY <2>1, <1>1 DEF CallsInv, Calls
  <2>3. /\ new = [x \in DOMAIN new |-> new[x]] /\ {"stage", "late"} \subseteq DOMAIN new
        /\ new.late = late /\ new.stage = "clear"
    BY <1>1 DEF CallsInv, Calls
  <2>4. busy' = (busy /\ late)
    BY <2>1
  <2> HIDE DEF new, late
  <2>5. busy' \in BOOLEAN /\ (busy' => busy /\ new.late)
    BY <2>3, <2>4, <1>1 DEF CallsInv
  <2>6. CallsInv' /\ calls'[c] = new /\ \A d \in Slot \ {c} : calls'[d] = calls[d]
    BY <1>1, <2>2, <2>3, <2>5, CallMoves DEF Stages
  <2>7. form' = form /\ (Settled' => Settled)
    BY <1>2, <2>6 DEF AnswerOrder, Settled
  <2> QED BY <1>1, <2>6, <2>7 DEF Inv
<1>3. CASE WipeForm(c)
  <2> DEFINE new == [calls[c] EXCEPT !.stage = "settle"]
  <2>1. calls' = [calls EXCEPT ![c] = new]
    BY <1>3, <1>1 DEF WipeForm, CallsInv, Calls
  <2>2. /\ new = [x \in DOMAIN new |-> new[x]] /\ {"stage", "late"} \subseteq DOMAIN new
        /\ new.late = calls[c].late /\ new.stage = "settle"
    BY <1>1 DEF CallsInv, Calls
  <2>3. busy' = busy /\ calls[c].stage = "clear"
    BY <1>3 DEF WipeForm
  <2> HIDE DEF new
  <2>4. CallsInv' /\ calls'[c] = new
    <3>1. busy' \in BOOLEAN /\ (busy' => busy /\ (calls[c].stage = "sent" \/ calls[c].late => new.late))
      BY <1>1, <2>2, <2>3 DEF CallsInv
    <3>2. new.stage \in Stages \ {"sent"}
      BY <2>2 DEF Stages
    <3> QED BY <1>1, <2>1, <2>2, <3>1, <3>2, CallMoves
  <2>5. ~Settled'
    BY <2>2, <2>4 DEF Settled
  <2>6. FormInv(form')
    BY <1>1, <1>3, WipedForm DEF WipeForm
  <2> QED BY <2>4, <2>5, <2>6 DEF Inv
<1>4. CASE SettleForm(c)
  <2> DEFINE new == IF calls[c].late THEN [calls[c] EXCEPT !.stage = "unbusy"] ELSE NoCall
  <2>1. calls' = [calls EXCEPT ![c] = new]
    BY <1>4, <1>1 DEF SettleForm, CallsInv, Calls
  <2>2. /\ new = [x \in DOMAIN new |-> new[x]] /\ {"stage", "late"} \subseteq DOMAIN new
        /\ (calls[c].late => new.late) /\ new.stage \in {"unbusy", "free"}
    BY <1>1 DEF CallsInv, Calls, NoCall
  <2>3. busy' = busy /\ calls[c].stage = "settle"
    BY <1>4 DEF SettleForm
  <2> HIDE DEF new
  <2>4. CallsInv'
    BY <1>1, <2>1, <2>2, <2>3, CallMoves DEF Stages, CallsInv
  <2>5. FormInv(form') /\ Strict(form')
    BY <1>1, <1>4, SettledForm DEF SettleForm, FormInv
  <2> QED BY <2>4, <2>5 DEF Inv
<1>5. CASE LowerBusy(c)
  <2>1. calls' = [calls EXCEPT ![c] = NoCall] /\ busy' = FALSE /\ form' = form /\ calls[c].stage = "unbusy"
    BY <1>5 DEF LowerBusy, SetBuySellRpcBusy
  <2>2. /\ NoCall = [x \in DOMAIN NoCall |-> NoCall[x]] /\ {"stage", "late"} \subseteq DOMAIN NoCall
        /\ NoCall.stage = "free"
    BY DEF NoCall
  <2>3. CallsInv' /\ \A d \in Slot \ {c} : calls'[d] = calls[d]
    BY <1>1, <2>1, <2>2, CallMoves DEF Stages
  <2>4. Settled' => Settled
    BY <2>1, <2>3 DEF Settled
  <2> QED BY <1>1, <2>1, <2>3, <2>4 DEF Inv
<1> QED BY <1>2, <1>3, <1>4, <1>5 DEF Continuation

LEMMA InvInitially == ASSUME Init PROVE Inv
<1>1. form \in Form /\ form.left # form.right /\ ~Selected(form) /\ form.max = 0 /\ form.price = 0
      /\ form.w = NoTaker
  BY FormAssumption DEF Init, Blank, Form, Selected, Errors, Statuses
<1>2. FormInv(form) /\ Strict(form)
  BY <1>1 DEF FormInv, Body, Sound, Strict, Exact, Capped
<1>3. CallsInv
  BY DEF Init, NoCall, Stages, CallsInv, Calls, BusyMeansOrderInFlight, SentIsShown
<1> QED BY <1>2, <1>3 DEF Inv

LEMMA InvNext == ASSUME Inv, [Next]_vars PROVE Inv'
<1>1. CASE UNCHANGED vars
  BY <1>1, InvStill DEF vars, Inv, Good
<1> QED BY <1>1, InvUser, InvPlace, InvVolumes, InvContinuation DEF Next, UserStep

LEMMA InvAlways == Spec => []Inv
  BY InvInitially, InvNext, PTL DEF Spec

\* The pair is always two coins, and amounts, modes, errors and continuations are what
\* they should be.
THEOREM FormTypeOK == Spec => []TypeOK
<1>1. Inv => TypeOK
  BY DEF Inv, CallsInv, Calls, FormInv, Body, Form, Order, TypeOK
<1> QED BY <1>1, InvAlways, PTL

\* What can be confirmed never exceeds the maximum that is shown, whatever changed last:
\* the setters that call one another always end with the cap, the one that skips it
\* has no price, and a form without a price or a volume has an error.
THEOREM VolumeAlwaysWithinMax == Spec => []VolumeWithinMax
<1>1. Inv => VolumeWithinMax
  <2> SUFFICES ASSUME Inv, CanConfirm, Bounded(form), form.max # 0 PROVE form.volume <= form.max
    BY DEF VolumeWithinMax
  <2>1. Filled(form)
    BY DEF Inv, CanConfirm, Settled, Strict
  <2> QED BY <2>1 DEF Inv, FormInv, Body, Capped, Filled
<1> QED BY <1>1, InvAlways, PTL

\* A purchase, and a sale of the simple view, asks mm2 for the volume the form showed:
\* the exact fraction kept with the selected order is never one of an earlier price or
\* of earlier funds.
THEOREM SentAlwaysShown == Spec => []SentIsShown
<1>1. Inv => SentIsShown
  BY DEF Inv, CallsInv
<1> QED BY <1>1, InvAlways, PTL

\* The button never stays disabled when no order is under way, although the flag is
\* lowered at one place for a purchase, at another for a sale, and at a third when the
\* connection is lost.
THEOREM BusyAlwaysMeansOrder == Spec => []BusyMeansOrderInFlight
<1>1. Inv => BusyMeansOrderInFlight
  BY DEF Inv, CallsInv
<1> QED BY <1>1, InvAlways, PTL

=============================================================================
