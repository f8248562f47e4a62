--------------------------- MODULE CoinLifecycle ---------------------------
(***************************************************************************)
(* One wallet session of colliderDEX, from login to the coins shown in the *)
(* portfolio.  Four kinds of actors share the state:                       *)
(*                                                                         *)
(*   - the mm2 init thread (mm2_service::spawn_mm2_instance) waits for the *)
(*     mm2 process, then asks it to enable the wallet's active coins;      *)
(*   - the mm2 process (external) serves the requests it is sent;          *)
(*   - pplx pool threads run the continuation of each answered batch;      *)
(*   - the GUI thread enables and disables coins for the user, and its     *)
(*     timer (application::tick) drains m_portfolio_queue.                 *)
(*                                                                         *)
(* A batch is the set of pairs <<coin, tag>> it carries: the coin the      *)
(* request names, and the ticker that batch_enable_coins remembers for the *)
(* answer at that index.  The two need not be equal, see Asks.             *)
(***************************************************************************)
EXTENDS Naturals, Sequences, FiniteSets

CONSTANTS
    Coin,        \* tickers of the wallet's coins file
    Primary,     \* g_primary_dex_coin
    Secondary,   \* g_second_primary_dex_coin
    Custom,      \* coins the user added (is_custom_coin)
    Parent,      \* fees_ticker of each coin, itself when it has none
    Call,        \* slots for the batches in flight: a bound on their number
    Fault,       \* the external failures that may happen, see FaultKind
    MaxEnabled,  \* the setting MaximumNbCoinsEnabled
    MaxSelect,   \* bound: how many coins one GUI request names
    MaxTry       \* how often the init thread polls mm2 (30 in the code)

Default == {Primary, Secondary}

\* "poll": mm2 never comes up; "enable": it cannot activate a coin;
\* "lost": a batch has no usable answer; "refuse": a disable is refused for a
\* swap or a matched order; "other": it fails for any other reason.
FaultKind == {"poll", "enable", "lost", "refuse", "other"}

ASSUME CoinAssumption ==
    /\ Default \subseteq Coin
    /\ Custom \subseteq Coin \ Default
    /\ Parent \in [Coin -> Coin]
    /\ IsFiniteSet(Coin)
ASSUME BoundAssumption ==
    /\ Fault \subseteq FaultKind
    /\ MaxEnabled \in Nat
    /\ MaxSelect \in Nat
    /\ MaxTry \in Nat \ {0}

VARIABLES
    initpc,   \* where the mm2 init thread is
    tries,    \* nb_try of that thread
    initOut,  \* the batches the init thread still has to send
    running,  \* m_mm2_running
    status,   \* qt_wallet_manager::m_current_status
    enabled,  \* coins whose registry entry has currently_enabled
    active,   \* coins whose registry entry and coins file have active
    nodeOn,   \* coins the mm2 process has activated
    call,     \* the batches in flight
    queue,    \* tickers in m_portfolio_queue (drained whole, so a set)
    up,       \* default coins flagged m_*_coin_fully_enabled
    rows,     \* m_ticker_registry, the coins of the portfolio model
    gui       \* what the GUI thread is in the middle of

vars == <<initpc, tries, initOut, running, status, enabled, active, nodeOn,
          call, queue, up, rows, gui>>

initVars == <<initpc, tries, initOut>>
viewVars == <<queue, up, rows, status>>

Pair == Coin \X Coin
Free == [stage |-> "free", ask |-> {}, ok |-> {}]
Idle == [op |-> "idle", out |-> << >>, todo |-> {}, off |-> {}, sel |-> {}, del |-> {}]

Tags(pairs)  == {p[2] : p \in pairs}
Coins(pairs) == {p[1] : p \in pairs}

TypeOK ==
    /\ initpc \in {"logged_out", "polling", "initialized", "sending", "done", "failed"}
    /\ tries \in 0 .. MaxTry
    /\ initOut \in Seq(SUBSET Pair)
    /\ running \in BOOLEAN
    /\ status \in {"None", "initializing_mm2", "enabling_coins", "complete"}
    /\ enabled \subseteq Coin
    /\ active \subseteq Coin
    /\ nodeOn \subseteq Coin
    /\ call \in [Call -> [stage : {"free", "sent", "served", "handled"},
                          ask : SUBSET Pair, ok : SUBSET Pair]]
    /\ queue \subseteq Coin
    /\ up \subseteq Default
    /\ rows \subseteq Coin
    /\ gui \in [op : {"idle", "enable", "disable", "delete", "restart"},
                out : Seq(SUBSET Pair), todo : SUBSET Coin, off : SUBSET Coin,
                sel : SUBSET Coin, del : SUBSET Coin]

Init ==
    /\ initpc = "logged_out" /\ tries = 0 /\ initOut = << >>
    /\ running = FALSE
    /\ status = "None"
    /\ enabled = {} /\ nodeOn = {}
    /\ active \in {S \in SUBSET Coin : Default \subseteq S}
    /\ call = [c \in Call |-> Free]
    /\ queue = {} /\ up = {} /\ rows = {}
    /\ gui = Idle

-----------------------------------------------------------------------------
(* What batch_enable_coins sends.                                          *)

\* The orders in which the coins of T can be listed.
Listings(T) ==
    {s \in [1 .. Cardinality(T) -> T] : \A i, j \in DOMAIN s : s[i] = s[j] => i = j}

\* The one-coin batches made from the ticker list s.  copy_tickers takes every
\* ticker of s, batch_array only those that are not enabled yet, and the answer
\* to batch_array[k] is attributed to copy_tickers[k]: e[k] is the place in s
\* of the k-th coin that is really requested.
Asks(s) ==
    LET fresh == {i \in DOMAIN s : s[i] \notin enabled}
        n     == Cardinality(fresh)
    IN  {[k \in 1 .. n |-> {<<s[e[k]], s[k]>>}] :
            e \in {f \in [1 .. n -> fresh] : \A j, k \in 1 .. n : j < k => f[j] < f[k]}}

\* btc_kmd_batch asks for the secondary coin first and the primary one second,
\* but its answers are attributed to g_default_coins, in the opposite order.
DefaultAsk == {<<Secondary, Primary>>, <<Primary, Secondary>>}

Send(c, ask) ==
    /\ call[c] = Free
    /\ call' = [call EXCEPT ![c] = [stage |-> "sent", ask |-> ask, ok |-> {}]]

-----------------------------------------------------------------------------
(* The init thread.                                                        *)

\* qt_wallet_manager::login, on the GUI thread.
Login ==
    /\ initpc = "logged_out"
    /\ initpc' = "polling"
    /\ status' = "initializing_mm2"
    /\ UNCHANGED <<tries, initOut, running, enabled, active, nodeOn, call, queue,
                   up, rows, gui>>

\* rpc_version fails; at the last try the thread returns and nobody is told.
PollFails ==
    /\ initpc = "polling" /\ "poll" \in Fault
    /\ tries' = tries + 1
    /\ initpc' = IF tries' = MaxTry THEN "failed" ELSE "polling"
    /\ UNCHANGED <<initOut, running, status, enabled, active, nodeOn, call, queue,
                   up, rows, gui>>

\* mm2 answers: mm2_initialized is triggered, the GUI shows its dashboard.
Initialized ==
    /\ initpc = "polling"
    /\ initpc' = "initialized"
    /\ status' = "enabling_coins"
    /\ UNCHANGED <<tries, initOut, running, enabled, active, nodeOn, call, queue,
                   up, rows, gui>>

\* Mutant of EnableDefaults: batch_enable_coins is called without first_time.
EnableActiveOnly ==
    /\ initpc = "initialized"
    /\ initpc' = "sending"
    /\ \E s \in Listings(active \ Default) : initOut' \in Asks(s)
    /\ UNCHANGED <<tries, running, status, enabled, active, nodeOn, call, queue,
                   up, rows, gui>>

\* enable_default_coins: the default batch, then one batch per active coin.
EnableDefaults ==
    /\ initpc = "initialized"
    /\ initpc' = "sending"
    /\ \E s \in Listings(active \ Default) :
          \E asks \in Asks(s) : initOut' = <<DefaultAsk>> \o asks
    /\ UNCHANGED <<tries, running, status, enabled, active, nodeOn, call, queue,
                   up, rows, gui>>

InitSend ==
    /\ initpc = "sending" /\ initOut # << >>
    /\ \E c \in Call : Send(c, Head(initOut))
    /\ initOut' = Tail(initOut)
    /\ UNCHANGED <<initpc, tries, running, status, enabled, active, nodeOn, queue,
                   up, rows, gui>>

MarkRunning ==
    /\ initpc = "sending" /\ initOut = << >>
    /\ initpc' = "done"
    /\ running' = TRUE
    /\ UNCHANGED <<tries, initOut, status, enabled, active, nodeOn, call, queue,
                   up, rows, gui>>

-----------------------------------------------------------------------------
(* The mm2 process and the continuations of the batches it answers.        *)

\* mm2 activates the coins of a batch.  A coin it already has is an error
\* ("already initialized"), one it cannot reach is an error too.
NodeServe(c) ==
    /\ call[c].stage = "sent"
    /\ LET can == {p \in call[c].ask : p[1] \notin nodeOn}
       IN  \E ok \in (IF "enable" \in Fault THEN SUBSET can ELSE {can}) :
             /\ nodeOn' = nodeOn \cup Coins(ok)
             /\ call' = [call EXCEPT ![c].stage = "served", ![c].ok = ok]
    /\ UNCHANGED <<initVars, running, enabled, active, viewVars, gui>>

\* No usable answer: time out, broken connection, unreadable body.  Served or
\* not, the continuation only logs.
LoseAnswer(c) ==
    /\ "lost" \in Fault
    /\ call[c].stage \in {"sent", "served"}
    /\ call' = [call EXCEPT ![c] = Free]
    /\ UNCHANGED <<initVars, running, enabled, active, nodeOn, viewVars, gui>>

\* Mutant of RegisterAnswer: an error answer is taken for a success.
RegisterEveryAnswer(c) ==
    /\ call[c].stage = "served"
    /\ enabled' = enabled \cup Coins(call[c].ask)
    /\ call' = [call EXCEPT ![c].stage = "handled"]
    /\ UNCHANGED <<initVars, running, active, nodeOn, viewVars, gui>>

\* Mutant of RegisterAnswer: the ticker remembered for the answer is registered,
\* not the coin that the answer names.
RegisterTags(c) ==
    /\ call[c].stage = "served"
    /\ enabled' = enabled \cup Tags(call[c].ok)
    /\ call' = [call EXCEPT ![c].stage = "handled"]
    /\ UNCHANGED <<initVars, running, active, nodeOn, viewVars, gui>>

\* process_batch_enable_answer for each answer of the batch.
RegisterAnswer(c) ==
    /\ call[c].stage = "served"
    /\ enabled' = enabled \cup Coins(call[c].ok)
    /\ call' = [call EXCEPT ![c].stage = "handled"]
    /\ UNCHANGED <<initVars, running, active, nodeOn, viewVars, gui>>

\* The tickers of failed answers are erased, coin_fully_initialized is triggered
\* with the others, and its sink pushes them to m_portfolio_queue.
Publish(c) ==
    /\ call[c].stage = "handled"
    /\ queue' = queue \cup (Tags(call[c].ask) \ Tags(call[c].ask \ call[c].ok))
    /\ call' = [call EXCEPT ![c] = Free]
    /\ UNCHANGED <<initVars, running, status, enabled, active, nodeOn, up, rows, gui>>

-----------------------------------------------------------------------------
(* The GUI thread.                                                         *)

\* Mutant of Tick: every ticker is flagged, not only the default ones.
TickFlagsAll ==
    /\ running /\ queue # {}
    /\ queue' = {}
    /\ up' = up \cup queue
    /\ rows' = rows \cup queue
    /\ status' = IF up' = Default THEN "complete" ELSE status
    /\ UNCHANGED <<initVars, running, enabled, active, nodeOn, call, gui>>

\* application::tick: drains the queue once mm2 is running.
Tick ==
    /\ running /\ queue # {}
    /\ queue' = {}
    /\ up' = up \cup (queue \cap Default)
    /\ rows' = rows \cup queue
    /\ status' = IF up' = Default THEN "complete" ELSE status
    /\ UNCHANGED <<initVars, running, enabled, active, nodeOn, call, gui>>

\* has_parent_fees_ticker: a coin whose type says that another coin pays its fees.
HasParentFees(c) == Parent[c] # c

GuiReady == gui.op = "idle" /\ status \in {"enabling_coins", "complete"}

\* application::enable_coins on coins the portfolio does not show.  The fees
\* coin of a token is added when it is neither enabled nor active, without a
\* look at the limit nor at the selection, so that it may be listed twice.
EnableCoins ==
    /\ GuiReady
    /\ \E sel \in SUBSET (Coin \ rows) :
         LET extra == {Parent[d] : d \in {t \in sel : HasParentFees(t)}}
                        \ (enabled \cup active)
         IN  /\ sel # {} /\ Cardinality(sel) <= MaxSelect
             /\ Cardinality(sel) + Cardinality(rows) <= MaxEnabled
             /\ \E s \in Listings(sel \ Default), x \in Listings(extra \ Default) :
                  \E asks \in Asks(s \o x) :
                    gui' = [Idle EXCEPT !.op = "enable", !.out = asks,
                                        !.sel = sel \cup extra]
    /\ UNCHANGED <<initVars, running, enabled, active, nodeOn, call, viewVars>>

GuiSend ==
    /\ gui.op = "enable" /\ gui.out # << >>
    /\ \E c \in Call : Send(c, Head(gui.out))
    /\ gui' = [gui EXCEPT !.out = Tail(@)]
    /\ UNCHANGED <<initVars, running, enabled, active, nodeOn, viewVars>>

\* update_coin_status(true), for every coin that was asked for.
MarkActive ==
    /\ gui.op = "enable" /\ gui.out = << >>
    /\ active' = active \cup gui.sel
    /\ gui' = Idle
    /\ UNCHANGED <<initVars, running, enabled, nodeOn, call, viewVars>>

\* Mutant of Disablable: nothing protects the default coins.
DisablableAny(asked, swapping) == asked \ swapping

\* The coins application::disable_coins keeps: no default coin, no running swap.
Disablable(asked, swapping) == asked \ (Default \cup swapping)

\* swap_is_in_progress: the coins of those asked for that some swap is about.
Swapping(asked) == IF "refuse" \in Fault THEN SUBSET asked ELSE {{}}

\* application::disable_coins, perhaps for "Disable and Delete".  Default coins
\* and coins with a swap in progress are left out; the rest leave the portfolio
\* before mm2 is asked.
DisableCoins ==
    /\ GuiReady
    /\ \E asked \in SUBSET rows :
       \E swapping \in Swapping(asked) :
       \E del \in {{}} \cup {{c} : c \in Custom} :
         LET chosen == Disablable(asked, swapping)
         IN  /\ Cardinality(asked) <= MaxSelect
             /\ chosen # {} \/ del # {}
             /\ del # {} => asked = del
             /\ rows' = rows \ chosen
             /\ gui' = [Idle EXCEPT !.op = "disable", !.todo = chosen,
                                    !.sel = chosen, !.del = del]
    /\ UNCHANGED <<initVars, running, enabled, active, nodeOn, call, queue, up, status>>

\* disable_coin: tokens come first.  mm2 turns the coin off, or refuses for a
\* swap, a matched order or because it does not have the coin, or fails with an
\* error disable_coin does not know and takes for a success.
DisableRpc ==
    /\ gui.op = "disable" /\ gui.off = {}
    /\ \E c \in gui.todo :
         /\ (\E t \in gui.todo : HasParentFees(t)) => HasParentFees(c)
         /\ \/ /\ \/ c \notin enabled
                  \/ c \notin nodeOn
                  \/ "refuse" \in Fault
               /\ gui' = [gui EXCEPT !.todo = @ \ {c}]
               /\ UNCHANGED nodeOn
            \/ /\ c \in enabled \cap nodeOn
               /\ nodeOn' = nodeOn \ {c}
               /\ gui' = [gui EXCEPT !.todo = @ \ {c}, !.off = {c}]
            \/ /\ c \in enabled /\ "other" \in Fault
               /\ gui' = [gui EXCEPT !.todo = @ \ {c}, !.off = {c}]
               /\ UNCHANGED nodeOn
    /\ UNCHANGED <<initVars, running, enabled, active, call, viewVars>>

DisableCommit ==
    /\ gui.op = "disable" /\ gui.off # {}
    /\ enabled' = enabled \ gui.off
    /\ gui' = [gui EXCEPT !.off = {}]
    /\ UNCHANGED <<initVars, running, active, nodeOn, call, viewVars>>

\* update_coin_status(false), for the refused coins as well.
MarkInactive ==
    /\ gui.op = "disable" /\ gui.off = {} /\ gui.todo = {}
    /\ active' = active \ gui.sel
    /\ gui' = IF gui.del = {} THEN Idle ELSE [gui EXCEPT !.op = "delete", !.sel = {}]
    /\ UNCHANGED <<initVars, running, enabled, nodeOn, call, viewVars>>

\* remove_custom_coin erases the registry entry; a restart is then forced.
DeleteCoin ==
    /\ gui.op = "delete"
    /\ enabled' = enabled \ gui.del
    /\ active' = active \ gui.del
    /\ gui' = [Idle EXCEPT !.op = "restart"]
    /\ UNCHANGED <<initVars, running, nodeOn, call, viewVars>>

-----------------------------------------------------------------------------
InitThread == PollFails \/ Initialized \/ EnableDefaults \/ InitSend \/ MarkRunning
Answering(c) == RegisterAnswer(c) \/ Publish(c)
GuiUser == Login \/ EnableCoins \/ DisableCoins
GuiWork == GuiSend \/ MarkActive \/ DisableRpc \/ DisableCommit \/ MarkInactive \/ DeleteCoin

Next ==
    \/ InitThread \/ GuiUser \/ GuiWork \/ Tick
    \/ \E c \in Call : NodeServe(c) \/ LoseAnswer(c) \/ Answering(c)

\* A started thread goes on, mm2 serves what it is sent, the pool runs every
\* continuation and the Qt timer fires.  The user owes nothing.
Fairness ==
    /\ WF_vars(InitThread) /\ WF_vars(GuiWork) /\ WF_vars(Tick)
    /\ \A c \in Call : WF_vars(NodeServe(c)) /\ WF_vars(Answering(c))

Spec == Init /\ [][Next]_vars
FairSpec == Spec /\ Fairness

-----------------------------------------------------------------------------
(* Safety.                                                                 *)

\* When the wallet's status is "complete" (application::tick), both default
\* coins are on in mm2, enabled in the registry and shown in the portfolio.
\* It does not follow from one answer: each coin's flag is raised by the answer
\* for the other one, and no later disabling may take either coin away.
CompleteMeansDefaultsReady ==
    status = "complete" => Default \subseteq enabled \cap nodeOn \cap rows

\* mm2_service's registry never claims a coin mm2 does not have on, except for
\* the coin whose disable_coin answer is just being applied: whatever the order
\* in which the answers to several enable requests and disables arrive.
EnabledOnNode == enabled \ gui.off \subseteq nodeOn

\* The registry is a sound view of mm2's coins, step by step: a coin is counted on
\* only after mm2 has switched it on, and from the moment mm2 switches it off, the
\* answer to disable_coin not yet applied, it is not counted on.
Registry == INSTANCE NodeRegistry WITH known <- enabled \ gui.off, on <- nodeOn
RegistryIsSound == Registry!Spec

\* "Coin need to be disabled to be removed" (assert of remove_custom_coin).
RemovedCoinIsDisabled == gui.op = "delete" => gui.del \cap enabled = {}

\* Once mm2 answers everything, a login ends with the default coins ready.
DefaultsEventuallyReady == status = "initializing_mm2" ~> status = "complete"

=============================================================================
