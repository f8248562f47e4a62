-------------------------- MODULE Portfolio_proofs --------------------------
(***************************************************************************)
(* Theorem about the window that enables coins, for any coins, limits,     *)
(* answers and threads: what is checked in it is counted.                  *)
(***************************************************************************)
EXTENDS Portfolio, FiniteSetTheorems, TLAPS

\* The window is modal: a coin is disabled only while it is closed.
Modal == At(Gui, "disable") => pick.state = "closed"

Picks ==
    [state : {"closed", "open", "closing"}, checked : SUBSET Coin, nb : Nat, shown : SUBSET Coin]

Threads == DOMAIN thread = Thread /\ \A t \in Thread : "at" \in DOMAIN thread[t]

Counted ==
    /\ Threads
    /\ pick \in Picks /\ IsFiniteSet(pick.checked)
    /\ Modal
    /\ CheckedAreCounted

pickVars == <<enabled, pick>>

LEMMA InitCounted == ASSUME Init PROVE Counted
<1>1. IsFiniteSet({})
  BY FS_EmptySet
<1> QED BY <1>1 DEF Init, Counted, Threads, Picks, Closed, Modal, CheckedAreCounted, At, Done

\* A step that leaves the window and the status of coins alone, and sends a thread
\* elsewhere than to disable one.
LEMMA Elsewhere ==
    ASSUME Counted, UNCHANGED pickVars, NEW t \in Thread, NEW frame, Goes(t, frame),
           "at" \in DOMAIN frame, frame.at # "disable"
    PROVE  Counted'
<1>1. Gui \in Thread
  BY DEF Thread
<1>2. Threads' /\ (thread'[Gui].at = "disable" => At(Gui, "disable"))
  BY <1>1 DEF Counted, Threads, Goes, At
<1> QED BY <1>2 DEF Counted, pickVars, Modal, CheckedAreCounted, At

LEMMA HandlerAt ==
    ASSUME NEW m \in BOOLEAN
    PROVE  "at" \in DOMAIN Handler(m) /\ Handler(m).at # "disable"
  BY DEF Handler, Done

LEMMA StepCounted == ASSUME Counted, NEW t \in Thread, Step(t) PROVE Counted'
<1> USE DEF pickVars, listVars
<1>1. "at" \in DOMAIN Done /\ Done.at # "disable"
  BY DEF Done
<1>2. "at" \in DOMAIN thread[t]
  BY DEF Counted, Threads
<1>3. CASE Begin(t)
  <2> DEFINE all == enabled \subseteq rows
             frame == [thread[t] EXCEPT
                          !.cur = currency, !.ok = all, !.todo = IF all THEN enabled ELSE {},
                          !.at = IF all /\ enabled # {} THEN "rows" ELSE "total"]
  <2>1. DOMAIN frame = DOMAIN thread[t]
    OBVIOUS
  <2>2. frame.at \in {"rows", "total"}
    BY <1>2
  <2>3. Goes(t, frame) /\ UNCHANGED pickVars
    BY <1>3 DEF Begin
  <2> HIDE DEF frame
  <2> QED BY <1>2, <2>1, <2>2, <2>3, Elsewhere
<1>4. CASE Total(t)
  <2> DEFINE frame == [thread[t] EXCEPT !.at = "set", !.sum = WorthOfAll(currency)]
  <2>1. DOMAIN frame = DOMAIN thread[t] /\ frame.at = "set"
    BY <1>2
  <2>2. (Goes(t, frame) \/ Goes(t, Done)) /\ UNCHANGED pickVars
    BY <1>4 DEF Total, Finish
  <2> HIDE DEF frame
  <2> QED BY <1>1, <1>2, <2>1, <2>2, Elsewhere
<1>5. CASE Set(t)
  <2> DEFINE frame == [thread[t] EXCEPT !.at = "main"]
  <2>1. DOMAIN frame = DOMAIN thread[t] /\ frame.at = "main"
    BY <1>2
  <2>2. (Goes(t, frame) \/ Goes(t, Done)) /\ UNCHANGED pickVars
    BY <1>5 DEF Set, Finish
  <2> HIDE DEF frame
  <2> QED BY <1>1, <1>2, <2>1, <2>2, Elsewhere
<1>6. CASE Main(t)
  BY <1>6, <1>1, Elsewhere DEF Main, Finish
<1>7. ASSUME NEW c \in Coin, Row(t, c) PROVE Counted'
  <2> DEFINE frame == [thread[t] EXCEPT !.todo = @ \ {c},
                                        !.at = IF thread[t].todo = {c} THEN "total" ELSE @]
  <2>1. DOMAIN frame = DOMAIN thread[t] /\ frame.at \in {"total", thread[t].at}
    BY <1>2
  <2>2. Goes(t, frame) /\ UNCHANGED pickVars /\ thread[t].at = "rows"
    BY <1>7 DEF Row, At
  <2> HIDE DEF frame
  <2> QED BY <1>2, <2>1, <2>2, Elsewhere
<1>8. ASSUME NEW c \in Coin, BalanceRow(t, c) PROVE Counted'
  <2>1. (Goes(t, Handler(FALSE)) \/ Goes(t, Done)) /\ UNCHANGED pickVars
    BY <1>8 DEF BalanceRow
  <2> QED BY <2>1, <1>1, HandlerAt, Elsewhere
<1> QED BY <1>3, <1>4, <1>5, <1>6, <1>7, <1>8 DEF Step

\* What starts a handler, or asks mm2, outside the window.
LEMMA StartCounted ==
    ASSUME Counted,
           \/ \E t \in Pool, a \in Answer : MarketAnswer(t, a)
           \/ \E t \in Pool, c \in Coin : FakeBalance(t, c)
           \/ \E c \in Coin : BalanceAnswer(c) \/ NodeEnabled(c) \/ NodeDisabled(c)
           \/ \E x \in Currency : SetCurrency(x)
           \/ InitRows
    PROVE  Counted'
<1> USE DEF pickVars, listVars
<1>1. Gui \in Thread /\ Pool \subseteq Thread
  BY DEF Thread
<1>2. ASSUME NEW t \in Pool, NEW a \in Answer, MarketAnswer(t, a) PROVE Counted'
  <2> DEFINE frame == [FiatRateUpdated EXCEPT !.held = (a = "broken" /\ again.fallback = "no")]
  <2>1. "at" \in DOMAIN frame /\ frame.at # "disable"
    BY HandlerAt DEF FiatRateUpdated, Handler, Done
  <2>2. Goes(t, frame) /\ UNCHANGED pickVars
    BY <1>2 DEF MarketAnswer
  <2> HIDE DEF frame
  <2> QED BY <1>1, <2>1, <2>2, Elsewhere
<1>3. ASSUME NEW t \in Pool, NEW c \in Coin, FakeBalance(t, c) PROVE Counted'
  <2>1. "at" \in DOMAIN TickerBalanceUpdated(c) /\ TickerBalanceUpdated(c).at # "disable"
    BY DEF TickerBalanceUpdated, Done
  <2> QED BY <1>1, <1>3, <2>1, Elsewhere DEF FakeBalance
<1>4. ASSUME UNCHANGED thread, UNCHANGED pickVars PROVE Counted'
  BY <1>4 DEF pickVars, Counted, Threads, Modal, CheckedAreCounted, At
<1>5. ASSUME NEW c \in Coin, BalanceAnswer(c) \/ NodeEnabled(c) \/ NodeDisabled(c) PROVE Counted'
  BY <1>4, <1>5 DEF BalanceAnswer, NodeEnabled, NodeDisabled
<1>6. ASSUME NEW x \in Currency, SetCurrency(x) PROVE Counted'
  BY <1>1, <1>6, HandlerAt, Elsewhere DEF SetCurrency
<1>7. CASE InitRows
  <2> DEFINE frame == [Done EXCEPT !.at = "init", !.todo = queue]
  <2>1. "at" \in DOMAIN frame /\ frame.at # "disable"
    BY DEF Done
  <2>2. Goes(Gui, frame) /\ UNCHANGED pickVars
    BY <1>7 DEF InitRows
  <2> HIDE DEF frame
  <2> QED BY <1>1, <2>1, <2>2, Elsewhere
<1> QED BY <1>2, <1>3, <1>5, <1>6, <1>7

\* More coins enabled, none of them by the window: fewer of those checked are to count.
LEMMA InitStatusCounted == ASSUME Counted, InitStatus PROVE Counted'
<1>1. Gui \in Thread /\ "at" \in DOMAIN Handler(TRUE) /\ Handler(TRUE).at # "disable"
  BY HandlerAt DEF Thread
<1>2. Threads' /\ ~At(Gui, "disable")'
  BY <1>1 DEF InitStatus, At, Goes, Counted, Threads
<1>3. pick' = pick /\ enabled \subseteq enabled'
  BY DEF InitStatus
<1>4. /\ IsFiniteSet(pick.checked \ enabled)
      /\ pick.checked \ enabled' \subseteq pick.checked \ enabled
  BY <1>3, FS_Subset DEF Counted
<1>5. Cardinality(pick.checked \ enabled') <= Cardinality(pick.checked \ enabled)
  BY <1>4, FS_Subset
<1>6. Cardinality(pick.checked \ enabled') \in Nat /\ Cardinality(pick.checked \ enabled) \in Nat
  BY <1>4, FS_Subset, FS_CardinalityType
<1>7. CheckedAreCounted'
  BY <1>3, <1>5, <1>6 DEF Counted, CheckedAreCounted, Picks
<1> QED BY <1>2, <1>3, <1>7 DEF Counted, Modal

LEMMA DisableCounted ==
    ASSUME Counted, (\E c \in Coin : DisableRow(c)) \/ DisableStatus
    PROVE  Counted'
<1>1. Gui \in Thread /\ "at" \in DOMAIN Handler(FALSE)
  BY HandlerAt DEF Thread
<1>2. ASSUME NEW c \in Coin, DisableRow(c) PROVE Counted'
  <2> DEFINE frame == [Done EXCEPT !.at = "disable", !.todo = {c}]
  <2>1. "at" \in DOMAIN frame
    BY DEF Done
  <2>2. Goes(Gui, frame) /\ UNCHANGED pickVars /\ pick.state = "closed"
    BY <1>2 DEF DisableRow, pickVars
  <2> HIDE DEF frame
  <2>3. Threads'
    BY <1>1, <2>1, <2>2 DEF Goes, Counted, Threads
  <2> QED BY <2>2, <2>3 DEF pickVars, Counted, Modal, CheckedAreCounted
<1>3. CASE DisableStatus
  <2>1. pick.state = "closed" /\ pick' = pick
    BY <1>3 DEF DisableStatus, Counted, Modal
  <2>2. Threads'
    BY <1>1, <1>3 DEF DisableStatus, Goes, Counted, Threads
  <2> QED BY <2>1, <2>2 DEF Counted, Modal, CheckedAreCounted
<1> QED BY <1>2, <1>3

\* What set_all_state leaves checked, when it sees all coins, is enabled.
LEMMA UncheckedIs ==
    ASSUME NEW p \in Picks, IsFiniteSet(p.checked)
    PROVE  /\ Unchecked(p) \in Picks /\ IsFiniteSet(Unchecked(p).checked)
           /\ Unchecked(p).state = p.state /\ Unchecked(p).nb = 0
           /\ p.shown = Coin => Unchecked(p).checked \ enabled = {}
<1> DEFINE q == [p EXCEPT !.checked = @ \ (p.shown \ enabled)]
<1>1. /\ q \in Picks /\ q.checked = p.checked \ (p.shown \ enabled)
      /\ q.state = p.state /\ q.shown = p.shown
  BY DEF Picks
<1>2. IsFiniteSet(p.checked \ (p.shown \ enabled))
  BY FS_Subset
<1>3. Unchecked(p) = [q EXCEPT !.nb = 0]
  BY DEF Unchecked, SetCheckedNb
<1> HIDE DEF q
<1>4. /\ Unchecked(p) \in Picks /\ Unchecked(p).checked = q.checked
      /\ Unchecked(p).state = p.state /\ Unchecked(p).nb = 0
  BY <1>1, <1>3 DEF Picks
<1>5. p.checked \subseteq Coin
  BY DEF Picks
<1> QED BY <1>1, <1>2, <1>4, <1>5

LEMMA OpenCounted ==
    ASSUME Counted, Open \/ Close \/ Confirm \/ \E S \in SUBSET Coin : Filter(S)
    PROVE  Counted'
<1>1. thread' = thread /\ enabled' = enabled /\ At(Gui, "done")
  BY DEF Open, Close, Confirm, Filter, Picked, listVars
<1>2. ~At(Gui, "disable")'
  BY <1>1 DEF At
<1>3. SUFFICES pick' \in Picks /\ IsFiniteSet(pick'.checked) /\ CheckedAreCounted'
  BY <1>1, <1>2 DEF Counted, Threads, Modal
<1>4. CASE Open
  <2> DEFINE p == [pick EXCEPT !.state = "open", !.shown = Coin]
  <2> DEFINE q == [pick EXCEPT !.state = "open"]
  <2>0. q \in Picks /\ q.checked = pick.checked /\ p = [q EXCEPT !.shown = Coin]
    BY DEF Counted, Picks
  <2>1. p \in Picks /\ p.checked = pick.checked /\ p.shown = Coin /\ IsFiniteSet(p.checked)
    <3> HIDE DEF q, p
    <3> QED BY <2>0 DEF Counted, Picks
  <2>2. pick' = Unchecked(p)
    BY <1>4 DEF Open, Picked
  <2> HIDE DEF p
  <2>3. /\ pick' \in Picks /\ IsFiniteSet(pick'.checked) /\ pick'.nb = 0
        /\ pick'.checked \ enabled = {}
    BY <2>1, <2>2, UncheckedIs
  <2>4. Cardinality({}) = 0
    BY FS_EmptySet
  <2> QED BY <1>1, <2>3, <2>4 DEF CheckedAreCounted
<1>5. CASE Close
  <2> DEFINE p == [pick EXCEPT !.state = "closed", !.shown = Coin]
  <2> DEFINE q == [pick EXCEPT !.state = "closed"]
  <2>0. /\ q \in Picks /\ q.checked = pick.checked /\ q.state = "closed"
        /\ p = [q EXCEPT !.shown = Coin]
    BY DEF Counted, Picks
  <2>1. p \in Picks /\ p.checked = pick.checked /\ p.state = "closed" /\ IsFiniteSet(p.checked)
    <3> HIDE DEF q, p
    <3> QED BY <2>0 DEF Counted, Picks
  <2>2. pick' = Unchecked(p)
    BY <1>5 DEF Close, Picked
  <2> HIDE DEF p
  <2> QED BY <2>1, <2>2, UncheckedIs DEF CheckedAreCounted
<1>6. CASE Confirm
  <2> DEFINE p == Unchecked(pick)
  <2>1. p \in Picks /\ IsFiniteSet(p.checked)
    BY UncheckedIs DEF Counted
  <2>2. pick' = [p EXCEPT !.state = "closing"]
    BY <1>6 DEF Confirm, Picked
  <2> HIDE DEF p
  <2> QED BY <2>1, <2>2 DEF CheckedAreCounted, Picks
<1>7. ASSUME NEW S \in SUBSET Coin, Filter(S)
      PROVE  pick' \in Picks /\ IsFiniteSet(pick'.checked) /\ CheckedAreCounted'
  <2>1. pick' = [pick EXCEPT !.shown = S]
    BY <1>7 DEF Filter, Picked
  <2> QED BY <1>1, <2>1 DEF Counted, Picks, CheckedAreCounted
<1> QED BY <1>4, <1>5, <1>6, <1>7

\* A coin checked or unchecked is not enabled: the number follows it.
LEMMA CheckCounted == ASSUME Counted, NEW c \in Coin, Check(c) PROVE Counted'
<1> DEFINE S == pick.checked \ enabled
<1>1. thread' = thread /\ enabled' = enabled /\ At(Gui, "done")
  BY DEF Check, Picked, listVars
<1>2. ~At(Gui, "disable")'
  BY <1>1 DEF At
<1>3. SUFFICES pick' \in Picks /\ IsFiniteSet(pick'.checked) /\ CheckedAreCounted'
  BY <1>1, <1>2 DEF Counted, Threads, Modal
<1>4. IsFiniteSet(S) /\ Cardinality(S) \in Nat /\ Cardinality(S) <= pick.nb
  BY FS_Subset, FS_CardinalityType DEF Counted, Check, CheckedAreCounted
<1>5. CASE c \notin pick.checked /\ pick' = [pick EXCEPT !.checked = @ \cup {c}, !.nb = @ + 1]
  <2> DEFINE q == [pick EXCEPT !.checked = @ \cup {c}]
  <2>0. /\ q \in Picks /\ q.nb = pick.nb /\ q.checked = pick.checked \cup {c}
        /\ pick' = [q EXCEPT !.nb = @ + 1]
    BY <1>5 DEF Counted, Picks
  <2>1. pick' \in Picks /\ pick'.nb = pick.nb + 1 /\ pick'.checked = pick.checked \cup {c}
    <3> HIDE DEF q
    <3> QED BY <2>0 DEF Picks
  <2>2. IsFiniteSet(pick'.checked)
    BY <2>1, FS_AddElement DEF Counted
  <2>3. pick'.checked \ enabled' = S \cup {c} /\ c \notin S
    BY <1>1, <1>5, <2>1 DEF Check
  <2>4. Cardinality(S \cup {c}) = Cardinality(S) + 1
    BY <1>4, <2>3, FS_AddElement
  <2> QED BY <1>4, <2>1, <2>2, <2>3, <2>4 DEF CheckedAreCounted, Counted, Picks
<1>6. CASE c \in pick.checked /\ pick' = [pick EXCEPT !.checked = @ \ {c}, !.nb = @ - 1]
  <2>1. c \in S
    BY <1>6 DEF Check
  <2>2. Cardinality(S \ {c}) = Cardinality(S) - 1 /\ IsFiniteSet(S \ {c})
    BY <1>4, <2>1, FS_RemoveElement
  <2>3. Cardinality(S \ {c}) \in Nat
    BY <2>2, FS_CardinalityType
  <2>4. pick'.nb = pick.nb - 1 /\ pick'.checked = pick.checked \ {c} /\ pick'.nb \in Nat
    BY <1>4, <1>6, <2>2, <2>3 DEF Counted, Picks
  <2>5. pick' \in Picks
    BY <1>6, <2>4 DEF Counted, Picks
  <2>6. IsFiniteSet(pick'.checked)
    BY <2>4, FS_Subset DEF Counted
  <2>7. pick'.checked \ enabled' = S \ {c}
    BY <1>1, <2>4
  <2>8. pick.nb \in Nat
    BY DEF Counted, Picks
  <2> HIDE DEF S
  <2>9. Cardinality(pick'.checked \ enabled') = Cardinality(S) - 1
    BY <2>2, <2>7, Zenon
  <2>10. Cardinality(S) - 1 <= pick.nb - 1
    BY <1>4, <2>8
  <2>11. Cardinality(pick'.checked \ enabled') <= pick'.nb
    BY <2>4, <2>9, <2>10
  <2> QED BY <2>5, <2>6, <2>11 DEF CheckedAreCounted
<1>7. \/ c \notin pick.checked /\ pick' = [pick EXCEPT !.checked = @ \cup {c}, !.nb = @ + 1]
      \/ c \in pick.checked /\ pick' = [pick EXCEPT !.checked = @ \ {c}, !.nb = @ - 1]
  BY Zenon DEF Check, Picked
<1> QED BY <1>5, <1>6, <1>7

LEMMA NextCounted == ASSUME Counted, [Next]_vars PROVE Counted'
<1>1. ASSUME UNCHANGED pageVars PROVE Counted'
  BY <1>1 DEF pageVars, listVars, Counted, Threads, Modal, CheckedAreCounted, At
<1>2. CASE PricesStep /\ UNCHANGED pageVars
  BY <1>1, <1>2
<1>3. CASE UNCHANGED vars
  BY <1>1, <1>3 DEF vars
<1>4. CASE Next
  BY <1>2, <1>4, StepCounted, StartCounted, InitStatusCounted, DisableCounted, OpenCounted,
     CheckCounted DEF Next
<1> QED BY <1>3, <1>4

\* However coins are enabled and disabled meanwhile, and whatever is filtered, checked
\* and unchecked: while the user chooses, m_checked_nb counts every coin that is
\* checked and not enabled.
THEOREM CheckedAlwaysCounted == Spec => []CheckedAreCounted
<1>1. Init => Counted
  BY InitCounted
<1>2. Counted /\ [Next]_vars => Counted'
  BY NextCounted
<1>3. Counted => CheckedAreCounted
  BY DEF Counted
<1> QED BY <1>1, <1>2, <1>3, PTL DEF Spec

=============================================================================
