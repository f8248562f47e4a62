----------------------------- MODULE OrdersPage -----------------------------
(***************************************************************************)
(* Orders and swaps: mm2_service keeps the last answer (contents) to a     *)
(* batch of my_orders, my_recent_swaps and active_swaps; orders_model      *)
(* merges it into the rows of the orders page.  The page, the limit and    *)
(* the filter of the next request are read from the last answer.           *)
(*                                                                         *)
(*   - the GUI thread: the user, the timer of mm2_service::update (5 s),   *)
(*     and application::tick, which pops m_actions_queue;                  *)
(*   - mm2, which reads and answers a request (Read) at a time of its own; *)
(*   - pplx pool threads, which store the answers (Store).                 *)
(*                                                                         *)
(* Of an order its type and what is left of its amount matter, of a swap   *)
(* its events, from which its status is read.  The lists of an answer are  *)
(* sets: rows are found by their ids, and a list has each id once.         *)
(* Every inserted or changed swap makes the orderbook refresh: that is     *)
(* TradingSync's.                                                          *)
(***************************************************************************)
EXTENDS Naturals, Sequences, SequencesExt

CONSTANTS
    None,      \* "not answered yet"
    Id,        \* uuids
    Page,      \* page numbers the user may choose
    Limit,     \* what the items-per-page box offers
    Filter,    \* sets of swaps that filtering_infos may select
    Scenarios  \* bound: how sessions begin, and what may happen in each

Fault == {"reorder",    \* requests are read, and answers stored, out of order
          "slow",       \* answers take longer than the timer's period
          "pollLost",   \* a request of the timer has no usable answer
          "resetLost",  \* nor one of a change of page, limit or filter
          "refused",    \* some of the answers of a batch are errors
          "hasty"}      \* the user does not wait for what was asked last
Budget == [world : Nat, user : Nat, flight : Nat]
Event == {"Started", "Negotiated", "PaymentFailed", "PaymentWaitRefundStarted", "Finished"}
ErrorEvent == {"PaymentFailed"}   \* error_events
\* An order is a taker's until it is converted; of a maker's a part may be left.
Offer == {"taker", "maker", "part"}
Scenario == [orders : SUBSET Id, swaps : Seq(Id), events : [Id -> Seq(Event)],
             offers : [Id -> Offer], faults : SUBSET Fault, left : Budget]

VARIABLES
    faults, left,          \* what may happen, and what of the budget is left
    orders, offers,        \* mm2's orders, and what they offer
    swaps, events,         \* its swaps, newest first, and their events
    contents,              \* m_orders_and_swaps
    flight,                \* batches in flight, oldest first
    queue,                 \* m_actions_queue: whether an action is a reset's
    model,                 \* orders_model: m_model_data and the two registries
    busy,                  \* m_fetching_busy
    proxy,                 \* orders_proxy_model: m_is_history, the filters, can_i_apply
    cancelling,            \* the sets of orders whose cancel_order is in flight
    recover,               \* m_recover_funds_busy
    asked                  \* what the user asked last (for the properties only)

vars == <<faults, left, orders, offers, swaps, events, contents, flight, queue, model, busy,
          proxy, cancelling, recover, asked>>
worldVars == <<orders, offers, swaps, events>>
viewVars == <<model, busy>>
userVars == <<proxy, cancelling, recover, asked>>

Over == {"successful", "failed"}
Status == Over \cup {"matching", "matched", "ongoing", "refunding"}
Row == [id : Id, swap : BOOLEAN, status : Status, type : {"taker", "maker"}, maker : BOOLEAN,
        whole : BOOLEAN, cancellable : BOOLEAN, recoverable : BOOLEAN]
OrderRow == {r \in Row : ~r.swap}
SwapRow == {r \in Row : r.swap}
Params == [page : Nat \ {0}, limit : Limit, filter : Filter]
Contents == [orders : SUBSET OrderRow, swaps : SUBSET SwapRow, at : Params]
Model == [rows : Seq(Row), orders : SUBSET Id, swaps : SUBSET Id, at : Params]

ASSUME OrdersAssumption ==
    /\ None \notin Contents
    /\ 1 \in Page /\ Page \subseteq Nat \ {0}
    /\ Limit # {} /\ Limit \subseteq Nat \ {0} /\ IsFiniteSet(Limit)
    /\ Filter \subseteq SUBSET Id /\ Id \in Filter
    /\ Scenarios \subseteq Scenario
    /\ \A s \in Scenarios : IsFiniteSet(s.orders)

TypeOK ==
    /\ faults \subseteq Fault /\ left \in Budget
    /\ orders \subseteq Id /\ offers \in [Id -> Offer]
    /\ swaps \in Seq(Id) /\ events \in [Id -> Seq(Event)]
    /\ contents \in Contents
    /\ flight \in Seq([at : Params, reset : BOOLEAN, answer : Contents \cup {None}])
    /\ queue \in Seq(BOOLEAN)
    /\ model \in Model /\ busy \in BOOLEAN
    /\ proxy \in [history : BOOLEAN, filter : Filter, can_i_apply : BOOLEAN]
    /\ cancelling \subseteq SUBSET Id
    /\ recover \in BOOLEAN
    /\ asked \in Params

\* Contents with nothing in them yet.
Empty(at) == [orders |-> {}, swaps |-> {}, at |-> at]

First == [page |-> 1, limit |-> Max(Limit), filter |-> Id]

Init ==
    /\ \E s \in Scenarios : /\ faults = s.faults /\ left = s.left
                            /\ orders = s.orders /\ offers = s.offers
                            /\ swaps = s.swaps /\ events = s.events
    /\ contents = Empty(First)
    /\ flight = <<>> /\ queue = <<>>
    /\ model = [rows |-> <<>>, orders |-> {}, swaps |-> {}, at |-> First]
    /\ busy = FALSE
    /\ proxy = [history |-> FALSE, filter |-> Id, can_i_apply |-> FALSE]
    /\ cancelling = {} /\ recover = FALSE
    /\ asked = First

-----------------------------------------------------------------------------
(* mm2.                                                                    *)

Spend(kind) == left[kind] > 0 /\ left' = [left EXCEPT ![kind] = @ - 1]

othersOfWorld == <<faults, contents, flight, queue, viewVars, userVars>>

OrderAppears(id) ==
    /\ Spend("world")
    /\ id \notin orders \cup ToSet(swaps)
    /\ orders' = orders \cup {id}
    /\ UNCHANGED <<othersOfWorld, offers, swaps, events>>

\* Cancelled, filled or timed out; a matched one is still listed for a while.
OrderGoes(id) ==
    /\ id \in orders
    /\ IF id \in UNION cancelling \cup ToSet(swaps) THEN UNCHANGED left ELSE Spend("world")
    /\ orders' = orders \ {id}
    /\ UNCHANGED <<othersOfWorld, offers, swaps, events>>

\* A taker order that finds no match becomes a maker order; of a maker order a part
\* is sold.
OfferChanges(id) ==
    /\ Spend("world")
    /\ id \in orders \ ToSet(swaps) /\ offers[id] # "part"
    /\ offers' = [offers EXCEPT ![id] = IF @ = "taker" THEN "maker" ELSE "part"]
    /\ UNCHANGED <<othersOfWorld, orders, swaps, events>>

\* The swap of a taker order has its uuid.
SwapStarts(id) ==
    /\ Spend("world")
    /\ id \notin ToSet(swaps)
    /\ swaps' = <<id>> \o swaps
    /\ UNCHANGED <<othersOfWorld, orders, offers, events>>

IsOver(id) == events[id] # <<>> /\ Last(events[id]) = "Finished"

SwapGoesOn(id, event) ==
    /\ Spend("world")
    /\ id \in ToSet(swaps) \ orders /\ ~IsOver(id)
    /\ event = "Started" <=> events[id] = <<>>
    /\ events' = [events EXCEPT ![id] = Append(@, event)]
    /\ UNCHANGED <<othersOfWorld, orders, offers, swaps>>

\* determine_order_status_from_last_event.
StatusOf(seq) ==
    CASE seq = <<>> -> "matching"
      [] seq # <<>> /\ Last(seq) = "Started" -> "matched"
      [] seq # <<>> /\ Last(seq) = "PaymentWaitRefundStarted" -> "refunding"
      [] seq # <<>> /\ Last(seq) = "Finished" ->
            IF ToSet(seq) \cap ErrorEvent # {} THEN "failed" ELSE "successful"
      [] OTHER -> "ongoing"

\* recoverable is mm2's: a payment failed and was not given back.
SwapRows(ids) ==
    {[id |-> id, swap |-> TRUE, status |-> StatusOf(events[id]),
      type |-> "taker", maker |-> FALSE, whole |-> TRUE, cancellable |-> FALSE,
      recoverable |-> ToSet(events[id]) \cap ErrorEvent # {} /\ ~IsOver(id)] : id \in ids}

\* An order can be cancelled until it is matched.
OrderRows(ids) ==
    {[id |-> id, swap |-> FALSE, status |-> "matching",
      type |-> IF offers[id] = "taker" THEN "taker" ELSE "maker",
      maker |-> offers[id] # "taker", whole |-> offers[id] # "part",
      cancellable |-> id \notin ToSet(swaps), recoverable |-> FALSE] : id \in ids}

\* my_recent_swaps: a page of the swaps that pass the filter, newest first.
RecentSwaps(at) ==
    LET passed    == {i \in DOMAIN swaps : swaps[i] \in at.filter}
        before(i) == Cardinality({j \in passed : j < i})
    IN  {swaps[i] : i \in {i \in passed : before(i) \div at.limit + 1 = at.page}}

ActiveSwaps == {id \in ToSet(swaps) : ~IsOver(id)}

\* What of a batch may be answered by errors.
Refusals == IF "refused" \in faults THEN SUBSET {"my_orders", "my_recent_swaps", "active_swaps"}
            ELSE {{}}

\* The answers as the continuation combines them: the active swaps, and those of the
\* page that are not among them.  An error counts as an empty list; the page is that
\* of the answer of my_recent_swaps, 1 if it is an error.
Answer(at, refused) ==
    LET active == IF "active_swaps" \in refused THEN {} ELSE ActiveSwaps
        recent == IF "my_recent_swaps" \in refused THEN {} ELSE RecentSwaps(at)
    IN  [orders |-> IF "my_orders" \in refused THEN {} ELSE OrderRows(orders),
         swaps  |-> SwapRows(active \cup recent),
         at     |-> IF "my_recent_swaps" \in refused THEN [at EXCEPT !.page = 1] ELSE at]

InOrder(i) == "reorder" \in faults \/ \A j \in 1 .. i - 1 : flight[j].answer # None

Read(i) ==
    /\ i \in DOMAIN flight /\ flight[i].answer = None
    /\ InOrder(i)
    /\ \E refused \in Refusals :
          flight' = [flight EXCEPT ![i].answer = Answer(flight[i].at, refused)]
    /\ UNCHANGED <<faults, left, worldVars, contents, queue, viewVars, userVars>>

-----------------------------------------------------------------------------
(* mm2_service.                                                            *)

Batch(at, reset) == [at |-> at, reset |-> reset, answer |-> None]

Pending == Len(flight) + Len(queue)

\* Mutant of Poll: it always asks for the first page.
PollFirstPage ==
    /\ Pending < left.flight
    /\ "slow" \in faults \/ flight = <<>>
    /\ flight' = Append(flight, Batch([contents.at EXCEPT !.page = 1], FALSE))
    /\ UNCHANGED <<faults, left, worldVars, contents, queue, viewVars, userVars>>

\* batch_fetch_orders_and_swap, by the timer of mm2_service::update and after
\* changes of the currency and of a swap's coins.  Bound: left.flight batches.
Poll ==
    /\ Pending < left.flight
    /\ "slow" \in faults \/ flight = <<>>
    /\ flight' = Append(flight, Batch(contents.at, FALSE))
    /\ UNCHANGED <<faults, left, worldVars, contents, queue, viewVars, userVars>>

Unordered(i) == "reorder" \in faults \/ i = 1

\* Its continuation, which tells the application: an action is queued.
Store(i) ==
    /\ i \in DOMAIN flight /\ flight[i].answer # None
    /\ Unordered(i)
    /\ contents' = flight[i].answer
    /\ queue' = Append(queue, flight[i].reset)
    /\ flight' = RemoveAt(flight, i)
    /\ UNCHANGED <<faults, left, worldVars, viewVars, userVars>>

\* handle_exception_pplx_task: nothing is stored and nobody is told.
Lose(i) ==
    /\ i \in DOMAIN flight
    /\ (IF flight[i].reset THEN "resetLost" ELSE "pollLost") \in faults
    /\ flight' = RemoveAt(flight, i)
    /\ UNCHANGED <<faults, left, worldVars, contents, queue, viewVars, userVars>>

-----------------------------------------------------------------------------
(* orders_model.  A side is what its functions change: the model m, its     *)
(* busy flag b, the contents c and the batches in flight f.                 *)

Side == [m |-> model, b |-> busy, c |-> contents, f |-> flight]

Becomes(s) == model' = s.m /\ busy' = s.b /\ contents' = s.c /\ flight' = s.f

\* reset_backend keeps the limit and the filter, the page becomes 1.
ResetBackend(m) == [rows |-> <<>>, orders |-> {}, swaps |-> {}, at |-> [m.at EXCEPT !.page = 1]]

SetFetchingBusy(s, status) == [s EXCEPT !.b = status]

\* set_orders_and_swaps_pagination_infos.
SetPagination(s, at) == [s EXCEPT !.c = Empty(at), !.f = Append(@, Batch(at, TRUE))]

\* Mutant of Reload: the batch is fetched as the timer does.
ReloadUnmarked(s, page) ==
    LET at      == [s.m.at EXCEPT !.page = page]
        cleared == [SetFetchingBusy(s, TRUE) EXCEPT !.m = ResetBackend(@)]
    IN  [cleared EXCEPT !.c = Empty(at), !.f = Append(@, Batch(at, FALSE))]

Reload(s, page) ==
    LET at      == [s.m.at EXCEPT !.page = page]
        cleared == [SetFetchingBusy(s, TRUE) EXCEPT !.m = ResetBackend(@)]
    IN  SetPagination(cleared, at)

SetCurrentPage(s, page) == IF page = s.m.at.page THEN s ELSE Reload(s, page)

SetLimit(s, limit) ==
    IF limit = s.m.at.limit THEN s ELSE Reload([s EXCEPT !.m.at.limit = limit], 1)

\* reset lowers the flag that set_filtering_infos raises before it.
Reset(s) == SetFetchingBusy([s EXCEPT !.m = ResetBackend(@)], FALSE)

\* set_filtering_infos.
SetFilter(s, filter) ==
    LET filtered == [s EXCEPT !.m.at.filter = filter]
    IN  IF s.b THEN s
        ELSE IF s.m.at.page = 1 /\ proxy.history
             THEN SetPagination(Reset(SetFetchingBusy(filtered, TRUE)), filtered.m.at)
             ELSE SetCurrentPage(filtered, 1)

Ids(rows) == {r.id : r \in rows}

\* init_model: contents without rows are ignored, their page too.
InitModel(m, c) ==
    IF c.orders \cup c.swaps = {} THEN m
    ELSE [rows   |-> SetToSeq(c.orders) \o SetToSeq(c.swaps),
          orders |-> Ids(c.orders),
          swaps  |-> Ids(c.swaps),
          at     |-> c.at]

\* Mutant of Matches: the swap inserted last is found.
MatchesLastSwap(rows, i, id) == rows[i].swap /\ \A j \in i + 1 .. Len(rows) : ~rows[j].swap

\* match finds the first row with this id, be it an order's or a swap's.
Matches(rows, i, id) == rows[i].id = id /\ \A j \in 1 .. i - 1 : rows[j].id # id

Data(r, role) == r[role]

SetData(r, role, value) == [r EXCEPT ![role] = value]

\* update_value, with the answer u.
UpdateValue(r, role, u) ==
    IF Data(r, role) = Data(u, role) THEN r ELSE SetData(r, role, Data(u, role))

\* The rows that the ids of answers match are updated.
Updated(rows, answers, Update(_, _)) ==
    [i \in DOMAIN rows |->
        IF \E u \in answers : Matches(rows, i, u.id)
        THEN Update(rows[i], CHOOSE u \in answers : Matches(rows, i, u.id))
        ELSE rows[i]]

\* update_existing_order: the amounts are those of a maker's order.
UpdateExistingOrder(r, o) ==
    LET seen == UpdateValue(UpdateValue(UpdateValue(r, "cancellable", o), "maker", o), "type", o)
    IN  IF o.type = "maker" THEN UpdateValue(seen, "whole", o) ELSE seen

\* removeRows: the others stay, in their order.
RemoveRows(rows, gone) ==
    LET kept   == DOMAIN rows \ gone
        nth(k) == CHOOSE i \in kept : Cardinality(kept \cap 1 .. i) = k
    IN  [k \in 1 .. Cardinality(kept) |-> rows[nth(k)]]

\* remove_orders: the row that goes is the one that matches, and an order without a
\* row stays registered.
RemoveOrders(m, present) ==
    LET gone == {i \in DOMAIN m.rows : /\ m.rows[i].id \in m.orders \ present
                                       /\ Matches(m.rows, i, m.rows[i].id)}
    IN  [m EXCEPT !.rows = RemoveRows(@, gone), !.orders = @ \ {m.rows[i].id : i \in gone}]

Unknown(rows, ids) == {r \in rows : r.id \notin ids}
Known(rows, ids) == {r \in rows : r.id \in ids}

\* Mutant of UpdateOrInsertOrders: what of an order may change is not looked at.
InsertOrders(m, c) ==
    LET new == Unknown(c.orders, m.orders)
    IN  RemoveOrders([m EXCEPT !.rows = @ \o SetToSeq(new), !.orders = @ \cup Ids(new)], Ids(c.orders))

\* update_or_insert_orders.
UpdateOrInsertOrders(m, c) ==
    LET new == Unknown(c.orders, m.orders)
        old == Updated(m.rows, Known(c.orders, m.orders), UpdateExistingOrder)
    IN  RemoveOrders([m EXCEPT !.rows = old \o SetToSeq(new), !.orders = @ \cup Ids(new)],
                     Ids(c.orders))

UpdateSwap(r, u) == UpdateValue(UpdateValue(r, "recoverable", u), "status", u)

UpdateSwaps(m, c) == Updated(m.rows, Known(c.swaps, m.swaps), UpdateSwap)

\* Mutant of UpdateOrInsertSwaps: a known swap is inserted like a new one.
InsertSwaps(m, c) ==
    [m EXCEPT !.rows = UpdateSwaps(m, c) \o SetToSeq(c.swaps), !.swaps = @ \cup Ids(c.swaps)]

UpdateOrInsertSwaps(m, c) ==
    LET new == Unknown(c.swaps, m.swaps)
    IN  [m EXCEPT !.rows = UpdateSwaps(m, c) \o SetToSeq(new), !.swaps = @ \cup Ids(new)]

\* set_common_data: a limit or a page other than that of the contents is forced
\* by the functions that the user calls.
SetCommonData(s, c) == SetCurrentPage(SetLimit(s, c.at.limit), c.at.page)

\* refresh_or_insert; the contents were copied before.
RefreshOrInsert(s, reset) ==
    LET free == IF reset THEN SetFetchingBusy(s, FALSE) ELSE s
    IN  IF free.b THEN free
        ELSE IF s.m.rows = <<>> THEN [free EXCEPT !.m = InitModel(@, s.c)]
        ELSE [SetCommonData(free, s.c) EXCEPT
                 !.m = UpdateOrInsertSwaps(UpdateOrInsertOrders(@, s.c), s.c)]

Pop == queue # <<>> /\ queue' = Tail(queue)

\* application::tick.
Tick ==
    /\ Pop
    /\ Becomes(RefreshOrInsert(Side, Head(queue)))
    /\ UNCHANGED <<faults, left, worldVars, userVars>>

-----------------------------------------------------------------------------
(* The user.                                                               *)

othersOfUser == <<faults, worldVars, queue, cancelling, recover>>

Resetting == \/ \E i \in DOMAIN flight : flight[i].reset
             \/ \E i \in DOMAIN queue : queue[i]

\* Bound: no more than left.flight batches and actions.
Can == /\ Spend("user") /\ Pending < left.flight
       /\ "hasty" \in faults \/ (~Resetting /\ cancelling = {})

\* What the user does to the side is what it then asks for, if it asks.
UserMakes(s) ==
    /\ Becomes(s)
    /\ asked' = IF s.f = flight THEN asked ELSE s.c.at

ChoosePage(page) ==
    /\ Can /\ UserMakes(SetCurrentPage(Side, page))
    /\ UNCHANGED <<othersOfUser, proxy>>

ChooseLimit(limit) ==
    /\ Can /\ UserMakes(SetLimit(Side, limit))
    /\ UNCHANGED <<othersOfUser, proxy>>

\* set_coin_filter, and the dates: the list of the orders is filtered at once,
\* the history when the user applies it.
SetProxyFilter(filter) ==
    /\ Can /\ filter # proxy.filter
    /\ proxy' = [proxy EXCEPT !.filter = filter, !.can_i_apply = @ \/ proxy.history]
    /\ UNCHANGED <<othersOfUser, viewVars, contents, flight, asked>>

\* apply_all_filtering, by the button.
ApplyFilter ==
    /\ Can /\ proxy.can_i_apply
    /\ UserMakes(SetFilter(Side, proxy.filter))
    /\ proxy' = [proxy EXCEPT !.can_i_apply = FALSE]
    /\ UNCHANGED othersOfUser

\* set_is_history: the history opens at its first page.
SetHistory ==
    /\ Can /\ proxy' = [proxy EXCEPT !.history = ~@]
    /\ UserMakes(IF proxy'.history THEN SetCurrentPage(Side, 1) ELSE Side)
    /\ UNCHANGED othersOfUser

othersOfOrders == <<faults, worldVars, contents, queue, viewVars, proxy, asked>>

\* filterAcceptsRow: the history lists what is over, whatever the filter says; the
\* other page what is not and passes it.
Accepts(r) == IF proxy.history THEN r.status \in Over
              ELSE r.status \notin Over /\ r.id \in proxy.filter
Listed == {r \in ToSet(model.rows) : Accepts(r)}

Cancel(ids) ==
    /\ Can
    /\ cancelling' = cancelling \cup {ids}
    /\ UNCHANGED <<othersOfOrders, flight, recover>>

\* cancel_order, for one order or for get_filtered_ids.
CancelOrder(id) == (\E r \in Listed : r.id = id /\ r.cancellable) /\ Cancel({id})
CancelListed == Listed # {} /\ ~proxy.history /\ Cancel({r.id : r \in Listed})

\* mm2 has cancelled those of the orders that it could; the continuation fetches a
\* batch.
CancelAnswered(ids) ==
    /\ ids \in cancelling /\ ids \cap orders \subseteq ToSet(swaps)
    /\ Pending < left.flight
    /\ cancelling' = cancelling \ {ids}
    /\ flight' = Append(flight, Batch(contents.at, FALSE))
    /\ UNCHANGED <<othersOfOrders, left, recover>>

SetRecoverFundBusy(status) == recover' = status

\* recover_fund; refused while m_recover_funds_busy (OrderModal.qml).
RecoverFund ==
    /\ Spend("user") /\ ~recover
    /\ \E r \in Listed : r.recoverable /\ r.status # "refunding"
    /\ SetRecoverFundBusy(TRUE)
    /\ UNCHANGED <<othersOfOrders, flight, cancelling>>

\* An answer, or an exception in its continuation.
RecoverAnswered ==
    /\ recover /\ SetRecoverFundBusy(FALSE)
    /\ UNCHANGED <<othersOfOrders, flight, left, cancelling>>

-----------------------------------------------------------------------------
World ==
    \E id \in Id : \/ OrderAppears(id) \/ OrderGoes(id) \/ OfferChanges(id) \/ SwapStarts(id)
                  \/ \E event \in Event : SwapGoesOn(id, event)

User ==
    \/ \E page \in Page : ChoosePage(page)
    \/ \E limit \in Limit : ChooseLimit(limit)
    \/ \E filter \in Filter : SetProxyFilter(filter)
    \/ \E id \in Id : CancelOrder(id)
    \/ \E ids \in cancelling : CancelAnswered(ids)
    \/ ApplyFilter \/ CancelListed \/ SetHistory \/ RecoverFund \/ RecoverAnswered

Next ==
    \/ World \/ User \/ Poll \/ Tick
    \/ \E i \in DOMAIN flight : Read(i) \/ Store(i) \/ Lose(i)

\* The timers fire, continuations run, and mm2 answers; strongly, where a request
\* of the timer may be lost again and again.  Only Tick pops.
Fairness ==
    /\ WF_vars(Poll) /\ WF_queue(Pop)
    /\ SF_vars(Read(1)) /\ SF_vars(Store(1))
    /\ WF_vars(RecoverAnswered)

Spec == Init /\ [][Next]_vars
FairSpec == Spec /\ Fairness

-----------------------------------------------------------------------------
(* Properties.                                                             *)

\* Answers in any order: a swap is still shown once.
SwapsAreShownOnce ==
    \A i, j \in DOMAIN model.rows :
        model.rows[i].swap /\ model.rows[j].swap /\ model.rows[i].id = model.rows[j].id => i = j

\* The page says that it is loading only while the answer to a change of page, limit
\* or filter is awaited; if that request is lost, nothing ends it (Lose).
LoadingMeansAwaiting == busy => Resetting \/ "resetLost" \in faults

\* As long as no answer is overtaken by a later one ("reorder"), a swap that is over
\* is never shown as active again, or as over in another way, whatever pages, limits
\* and filters are asked for meanwhile and whatever answers are lost (update_swap
\* would notify the user of it).  An overtaken answer does show it as active again.
OverStaysOver ==
    [][ "reorder" \in faults
        \/ \A i \in DOMAIN model.rows, j \in DOMAIN model'.rows :
              LET r == model.rows[i] q == model'.rows[j]
              IN  r.swap /\ q.swap /\ r.id = q.id /\ r.status \in Over => q.status = r.status ]_vars

Calm == faults \subseteq {"pollLost"}

\* If mm2 answers in order and within the timer's period, the page ends up at the
\* page and limit the user asked for last, and not loading: the answer to a poll
\* of before the change neither reverts it nor ends the wait.
PageSettles ==
    <>[](Calm => /\ ~busy
                 /\ contents.at.page = asked.page /\ contents.at.limit = asked.limit
                 /\ model.rows # <<>> => /\ model.at.page = asked.page
                                         /\ model.at.limit = asked.limit)

\* ... and what is shown ends up right: the orders are those of mm2 with their type
\* and amounts, and the swaps of the last answer are there with their status.
RowsCatchUp ==
    <>[](Calm => /\ {r \in ToSet(model.rows) : ~r.swap} = OrderRows(orders)
                 /\ contents.swaps \subseteq ToSet(model.rows))

=============================================================================
