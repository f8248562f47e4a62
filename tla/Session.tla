------------------------------ MODULE Session ------------------------------
(***************************************************************************)
(* Logging in and out, again and again, and the runs of the program. Every *)
(* login uses an mm2_service of its own: a log-out marks the current one,  *)
(* the next frame destroys it and makes another.  Services are numbered;   *)
(* the n-th login starts the n-th mm2 process, with a password of its own. *)
(*                                                                         *)
(*   - the GUI thread runs login, disconnect, exit_handler, and the timer's *)
(*     tick, each in the steps between which other threads may run;        *)
(*   - the init thread of a service waits for its mm2 process;             *)
(*   - pool threads run the continuations of the answers of mm2;           *)
(*   - mm2 processes (external) fight for one port.                        *)
(*                                                                         *)
(* The program ends when the user leaves it or restarts it, when it aborts *)
(* or is killed; the next run is a process of its own, that knows nothing  *)
(* of the mm2 processes an earlier one may have left.                      *)
(***************************************************************************)
EXTENDS Naturals, FiniteSets

CONSTANTS
    Primary,     \* g_primary_dex_coin
    Secondary,   \* g_second_primary_dex_coin
    Fault,       \* the external failures that may happen, see FaultKind
    MaxSession,  \* bound: how many services are made
    MaxTry,      \* the polls all the logins have together (30 in the code)
    NoNode       \* no process listens on the port of mm2

Default == {Primary, Secondary}
Service == 1 .. MaxSession

\* "start": mm2 may take its time or never come up; "outage": requests fail;
\* "signal", "kill": the program is told to end, or is ended.
FaultKind == {"start", "outage", "signal", "kill"}

ASSUME SessionAssumption ==
    /\ Primary # Secondary
    /\ Fault \subseteq FaultKind
    /\ MaxSession \in Nat \ {0}
    /\ MaxTry \in Nat \ {0}
    /\ NoNode \notin Service

VARIABLES
    run,      \* the first service of this run of the program
    heir,     \* the process restart has started
    svc,      \* the mm2_service of the system manager, or the one being replaced
    marked,   \* it is marked
    gui,      \* what the GUI thread is in the middle of
    refresh,  \* need_a_full_refresh_of_mm2
    exiting,  \* the program is about to exit
    sinks,    \* the application's handlers are connected to the dispatcher
    status,   \* qt_wallet_manager::m_current_status
    thread,   \* the init thread of each service
    tries,    \* nb_try, one counter for all of them
    running,  \* the services with m_mm2_running
    pass,     \* whose mm2 the rpc password in use is for, 0 before any login
    starting, \* the mm2 process that has been started and does not listen yet
    node,     \* the mm2 process that listens
    flight,   \* requests sent and continuations that have not finished
    queue,    \* m_portfolio_queue, each ticker with the service it is from
    acts,     \* m_actions_queue is not empty
    up,       \* default coins flagged m_*_coin_fully_enabled
    rows,     \* the portfolio, each coin with the service that announced it
    orders,   \* the services whose orders the orders model shows
    ready,    \* g_mm2_default_coins_ready
    alive,    \* is_internet_reacheable
    fatal     \* a fatalNotification signal is on its way to the GUI thread

runVars  == <<run, heir>>
mgrVars  == <<svc, marked, refresh, exiting, sinks>>
procVars == <<thread, tries, running, pass, starting, node>>
viewVars == <<queue, acts, up, rows, orders>>
netVars  == <<ready, alive, fatal>>
vars == <<runVars, mgrVars, gui, status, procVars, flight, viewVars, netVars>>

\* default: the batch that enables the default coins; orders: the periodic fetch
\* of orders and swaps; check: the orderbook asked by the internet checker.
Request == [from : Service, kind : {"default", "orders", "check"}, stage : {"sent", "answered"}]

TypeOK ==
    /\ run \in Service /\ heir \in {"none", "started", "cleaned"}
    /\ svc \in Service /\ marked \in BOOLEAN
    /\ gui \in {"idle", "unsink", "stop", "join", "create", "drain", "act", "exited"}
    /\ refresh \in BOOLEAN /\ exiting \in BOOLEAN /\ sinks \in BOOLEAN
    /\ status \in {"None", "initializing_mm2", "enabling_coins", "complete"}
    /\ thread \in [Service -> {"none", "polling", "initialized", "sent", "done", "failed"}]
    /\ tries \in 0 .. MaxTry
    /\ running \subseteq Service
    /\ pass \in {0} \cup Service
    /\ starting \subseteq Service
    /\ node \in Service \cup {NoNode}
    /\ flight \subseteq Request
    /\ queue \subseteq Service \X Default
    /\ acts \in BOOLEAN
    /\ up \subseteq Default
    /\ rows \subseteq Service \X Default
    /\ orders \subseteq Service
    /\ ready \in BOOLEAN /\ alive \in BOOLEAN /\ fatal \in BOOLEAN

Init ==
    /\ run = 1 /\ heir = "none"
    /\ svc = 1 /\ marked = FALSE /\ gui = "idle" /\ refresh = FALSE /\ exiting = FALSE
    /\ sinks = TRUE /\ status = "None"
    /\ thread = [n \in Service |-> "none"] /\ tries = 0 /\ running = {}
    /\ pass = 0 /\ starting = {} /\ node = NoNode
    /\ flight = {}
    /\ queue = {} /\ acts = FALSE /\ up = {} /\ rows = {} /\ orders = {}
    /\ ready = FALSE /\ alive = FALSE /\ fatal = FALSE

Sent(kind) == [from |-> svc, kind |-> kind, stage |-> "sent"]

-----------------------------------------------------------------------------
(* The GUI thread: login.                                                  *)

\* Mutant of Login: the password of the first login is kept.
LoginKeepPassword ==
    /\ gui = "idle" /\ status = "None" /\ ~refresh /\ ~fatal
    /\ thread[svc] = "none"
    /\ status' = "initializing_mm2"
    /\ pass' = IF pass = 0 THEN svc ELSE pass
    /\ starting' = starting \cup {svc}
    /\ thread' = [thread EXCEPT ![svc] = "polling"]
    /\ UNCHANGED <<runVars, mgrVars, gui, tries, running, node, flight, viewVars, netVars>>

\* qt_wallet_manager::login with the right password.  The user types it after a
\* frame has replaced the service, and after the signals posted before.
Login ==
    /\ gui = "idle" /\ status = "None" /\ ~refresh /\ ~fatal
    /\ thread[svc] = "none"
    /\ status' = "initializing_mm2"
    /\ pass' = svc
    /\ starting' = starting \cup {svc}
    /\ thread' = [thread EXCEPT ![svc] = "polling"]
    /\ UNCHANGED <<runVars, mgrVars, gui, tries, running, node, flight, viewVars, netVars>>

-----------------------------------------------------------------------------
(* The GUI thread: disconnect and exit_handler.                            *)

Disconnect ==
    /\ queue' = {} /\ acts' = FALSE
    /\ rows' = {} /\ orders' = {}
    /\ marked' = TRUE
    /\ gui' = "unsink"
    /\ UNCHANGED <<runVars, svc, refresh, exiting, sinks, status, procVars, flight, up, ready, alive>>

\* Mutant of Logout: it is offered from the start of the login.
LogoutEarly ==
    /\ gui = "idle" /\ status # "None" /\ svc < MaxSession
    /\ Disconnect
    /\ UNCHANGED fatal

\* "Logout" of the user menu, which the dashboard shows.
Logout ==
    /\ gui = "idle" /\ status \in {"enabling_coins", "complete"} /\ svc < MaxSession
    /\ Disconnect
    /\ UNCHANGED fatal

\* onFatalNotification of FatalErrorModal.
FatalNotified ==
    /\ gui = "idle" /\ fatal /\ svc < MaxSession
    /\ fatal' = FALSE
    /\ IF status # "None" THEN Disconnect
       ELSE UNCHANGED <<runVars, mgrVars, gui, status, procVars, flight, viewVars, ready, alive>>

\* The application and the notification manager leave the dispatcher, or join it.
ConnectSignals == sinks' = TRUE
DisconnectSignals == sinks' = FALSE

\* The handlers are disconnected, the flags and the status reset.
Unsink ==
    /\ gui = "unsink"
    /\ DisconnectSignals /\ refresh' = TRUE
    /\ up' = {} /\ status' = "None"
    /\ gui' = "idle"
    /\ UNCHANGED <<runVars, svc, marked, exiting, procVars, flight, queue, acts, rows, orders, netVars>>

\* exit_handler runs a frame of its own, and about_to_exit_app comes after.
Leave ==
    /\ gui = "idle" /\ ~exiting
    /\ exiting' = TRUE /\ marked' = TRUE
    /\ gui' = "stop"
    /\ UNCHANGED <<run, svc, refresh, sinks, status, procVars, flight, viewVars, netVars>>

Exit == Leave /\ UNCHANGED heir

\* restart starts the next run of the program, and does not wait for its own end.
Restart == Leave /\ svc < MaxSession /\ heir = "none" /\ heir' = "started"

-----------------------------------------------------------------------------
(* The GUI thread: a frame and the rest of tick.                           *)

\* update of mm2_service: every 5 seconds orders and swaps are fetched.
Periodic == IF svc \in running THEN {{}, {Sent("orders")}} ELSE {{}}

\* sweep_systems_ destroys what is marked.
Sweep == gui' = IF marked THEN "stop" ELSE "drain"

\* process_one_frame updates the systems, mm2_service among them, and sweeps.
Frame ==
    /\ gui = "idle" /\ ~exiting
    /\ Sweep
    /\ \E new \in Periodic : flight' = flight \cup new
    /\ UNCHANGED <<runVars, mgrVars, status, procVars, viewVars, netVars>>

\* fetch_internet_connection asks mm2 for an orderbook, once it has both coins.
MayCheck == ready /\ svc \in running

\* update of the internet checker, or retry.
CheckInternet ==
    /\ gui = "idle" /\ ~exiting /\ MayCheck
    /\ flight' = flight \cup {Sent("check")}
    /\ UNCHANGED <<runVars, mgrVars, gui, status, procVars, viewVars, netVars>>

\* What mm2_client::stop leaves: requests are cancelled, continuations go on.
NotCancelled == {r \in flight : r.from # svc \/ r.stage = "answered"}

\* ~mm2_service: mm2 is told to stop when it is known to run.
Stop ==
    /\ gui = "stop"
    /\ svc \in running => node # NoNode
    /\ node' = IF svc \in running /\ node = pass THEN NoNode ELSE node
    /\ running' = running \ {svc}
    /\ flight' = NotCancelled
    /\ alive' = (alive /\ Sent("check") \notin flight)
    /\ gui' = "join"
    /\ UNCHANGED <<runVars, mgrVars, status, thread, tries, pass, starting, viewVars, ready, fatal>>

\* The destructor ends when the init thread has.
JoinThread ==
    /\ gui = "join" /\ ~exiting
    /\ thread[svc] \in {"none", "done", "failed"}
    /\ gui' = "create"
    /\ UNCHANGED <<runVars, mgrVars, status, procVars, flight, viewVars, netVars>>

\* tick makes the next service, when disconnect has asked for it.
Create ==
    /\ gui = "create" /\ refresh
    /\ svc' = svc + 1 /\ marked' = FALSE
    /\ ConnectSignals /\ refresh' = FALSE
    /\ gui' = "drain"
    /\ UNCHANGED <<runVars, exiting, status, procVars, flight, viewVars, netVars>>

\* Mutant of Drain: the queue is emptied whether mm2 runs or not.
DrainAlways ==
    /\ gui = "drain"
    /\ LET coins == {q[2] : q \in queue} IN
       /\ up' = up \cup coins
       /\ status' = IF queue # {} /\ up' = Default THEN "complete" ELSE status
    /\ queue' = {} /\ rows' = rows \cup queue
    /\ gui' = "act"
    /\ UNCHANGED <<runVars, mgrVars, procVars, flight, acts, orders, netVars>>

\* Mutant of Drain: the tickers are popped before it looks whether mm2 runs.
DrainPopFirst ==
    /\ gui = "drain"
    /\ IF svc \in running
       THEN LET coins == {q[2] : q \in queue} IN
            /\ up' = up \cup coins
            /\ status' = IF queue # {} /\ up' = Default THEN "complete" ELSE status
            /\ rows' = rows \cup queue
       ELSE UNCHANGED <<up, status, rows>>
    /\ queue' = {}
    /\ gui' = "act"
    /\ UNCHANGED <<runVars, mgrVars, procVars, flight, acts, orders, netVars>>

\* The portfolio queue.
Drain ==
    /\ gui = "drain"
    /\ IF svc \in running
       THEN LET coins == {q[2] : q \in queue} IN
            /\ up' = up \cup coins
            /\ status' = IF queue # {} /\ up' = Default THEN "complete" ELSE status
            /\ queue' = {} /\ rows' = rows \cup queue
       ELSE UNCHANGED <<up, status, queue, rows>>
    /\ gui' = "act"
    /\ UNCHANGED <<runVars, mgrVars, procVars, flight, acts, orders, netVars>>

\* The actions queue; what is there while mm2 does not run is dropped.
Act ==
    /\ gui = "act"
    /\ acts' = FALSE
    /\ orders' = IF acts /\ svc \in running THEN orders \cup {svc} ELSE orders
    /\ gui' = "idle"
    /\ UNCHANGED <<runVars, mgrVars, status, procVars, flight, queue, up, rows, netVars>>

-----------------------------------------------------------------------------
(* The end of a run of the program, and the next one.                      *)

\* kill_executable("mm2"): of this user, whoever started it.
KillNodes == node' = NoNode /\ starting' = {}

\* What a process keeps ends with it; gone also is what it would have sent.
Ends ==
    /\ gui' = "exited"
    /\ marked' = FALSE /\ refresh' = FALSE /\ exiting' = FALSE /\ sinks' = TRUE /\ status' = "None"
    /\ thread' = [n \in Service |-> "none"] /\ tries' = 0 /\ running' = {} /\ pass' = 0
    /\ flight' = {} /\ queue' = {} /\ acts' = FALSE /\ up' = {} /\ rows' = {} /\ orders' = {}
    /\ ready' = FALSE /\ alive' = FALSE /\ fatal' = FALSE
    /\ UNCHANGED <<run, heir, svc>>

JoinExit ==
    /\ gui = "join" /\ exiting
    /\ thread[svc] \in {"none", "done", "failed"}
    /\ Ends /\ UNCHANGED <<node, starting>>

\* The request to stop fails: ~mm2_service throws, and the program aborts.
StopThrows ==
    /\ gui = "stop" /\ svc \in running
    /\ node = NoNode \/ "outage" \in Fault

\* signal_handler: the program aborts, or is told to end.
Signal ==
    /\ gui # "exited"
    /\ StopThrows \/ "signal" \in Fault
    /\ KillNodes /\ Ends

\* ... or it is not asked.
Killed ==
    /\ gui # "exited" /\ "kill" \in Fault
    /\ Ends /\ UNCHANGED <<node, starting>>

\* clean_previous_run, of the process that restart has started.
HeirCleans ==
    /\ heir = "started"
    /\ KillNodes
    /\ heir' = "cleaned"
    /\ UNCHANGED <<run, mgrVars, gui, status, thread, tries, running, pass, flight, viewVars, netVars>>

\* Mutant of Boot: the next run takes what it finds.
BootWithoutCleaning ==
    /\ gui = "exited" /\ svc < MaxSession /\ heir # "started"
    /\ run' = svc + 1 /\ svc' = svc + 1 /\ heir' = "none"
    /\ gui' = "idle"
    /\ UNCHANGED <<marked, refresh, exiting, sinks, status, procVars, flight, viewVars, netVars>>

\* run_app: mm2 is killed before there is a window.  A user takes longer to log in
\* than the process that was restarted to end.
Boot ==
    /\ gui = "exited" /\ svc < MaxSession /\ heir # "started"
    /\ IF heir = "none" THEN KillNodes ELSE UNCHANGED <<node, starting>>
    /\ run' = svc + 1 /\ svc' = svc + 1 /\ heir' = "none"
    /\ gui' = "idle"
    /\ UNCHANGED <<marked, refresh, exiting, sinks, status, thread, tries, running, pass,
                   flight, viewVars, netVars>>

-----------------------------------------------------------------------------
(* The init thread of service n, and the mm2 processes.                    *)

\* rpc_version: the process that listens must know the password.
Answers == node # NoNode /\ node = pass

PollFails(n) ==
    /\ thread[n] = "polling" /\ ~Answers
    /\ tries < MaxTry
    /\ tries' = tries + 1
    /\ thread' = [thread EXCEPT ![n] = IF tries' = MaxTry THEN "failed" ELSE @]
    /\ UNCHANGED <<runVars, mgrVars, gui, status, running, pass, starting, node, flight, viewVars, netVars>>

\* mm2_initialized is triggered.
Initialized(n) ==
    /\ thread[n] = "polling" /\ Answers
    /\ thread' = [thread EXCEPT ![n] = "initialized"]
    /\ status' = IF sinks THEN "enabling_coins" ELSE status
    /\ UNCHANGED <<runVars, mgrVars, gui, tries, running, pass, starting, node, flight, viewVars, netVars>>

\* enable_default_coins; once mm2_client::stop has been called, a new request of this
\* service is cancelled as well.
EnableDefaults(n) ==
    /\ thread[n] = "initialized"
    /\ thread' = [thread EXCEPT ![n] = "sent"]
    /\ flight' = IF gui = "join" THEN flight
                 ELSE flight \cup {[from |-> n, kind |-> k, stage |-> "sent"] : k \in {"default", "orders"}}
    /\ UNCHANGED <<runVars, mgrVars, gui, status, tries, running, pass, starting, node, viewVars, netVars>>

MarkRunning(n) ==
    /\ thread[n] = "sent"
    /\ thread' = [thread EXCEPT ![n] = "done"]
    /\ running' = running \cup {n}
    /\ UNCHANGED <<runVars, mgrVars, gui, status, tries, pass, starting, node, flight, viewVars, netVars>>

\* A started mm2 listens, unless another one does: then it exits.
NodeUp(n) ==
    /\ n \in starting
    /\ starting' = starting \ {n}
    /\ node' = IF node = NoNode THEN n ELSE node
    /\ UNCHANGED <<runVars, mgrVars, gui, status, thread, tries, running, pass, flight, viewVars, netVars>>

\* It fails to start.
NodeFails(n) ==
    /\ "start" \in Fault /\ n \in starting
    /\ starting' = starting \ {n}
    /\ UNCHANGED <<runVars, mgrVars, gui, status, thread, tries, running, pass, node, flight, viewVars, netVars>>

-----------------------------------------------------------------------------
(* The pool: the answers and their continuations.                          *)

\* The process that listens answers a request that has its password.
NodeAnswer(r) ==
    /\ r \in flight /\ r.stage = "sent" /\ node = r.from
    /\ flight' = (flight \ {r}) \cup {[r EXCEPT !.stage = "answered"]}
    /\ UNCHANGED <<runVars, mgrVars, gui, status, procVars, viewVars, netVars>>

\* fatal_notification, passed on to the GUI thread.
ReportFatal == fatal' = (fatal \/ (~alive /\ sinks))

\* The connection breaks.  A batch of mm2_service is given up, and reported as
\* fatal when the internet is known to be down; a check finds that it is.
RequestFails(r) ==
    /\ "outage" \in Fault /\ r \in flight /\ r.stage = "sent"
    /\ flight' = flight \ {r}
    /\ \/ r.kind = "check" /\ alive' = FALSE /\ UNCHANGED fatal
       \/ r.kind # "check" /\ ReportFatal /\ UNCHANGED alive
    /\ UNCHANGED <<runVars, mgrVars, gui, status, procVars, viewVars, ready>>

\* coin_fully_initialized: its handler, when connected, queues the tickers.
Announce(tickers) == queue' = IF sinks THEN queue \cup tickers ELSE queue

\* Which default coins mm2 has enabled: their tickers are announced.
DefaultsAnswered(r) ==
    /\ r \in flight /\ r.stage = "answered" /\ r.kind = "default"
    /\ flight' = flight \ {r}
    /\ \E ok \in IF "outage" \in Fault THEN SUBSET Default ELSE {Default} :
         /\ Announce({r.from} \X ok)
         /\ ready' = (ready \/ ok = Default)
    /\ UNCHANGED <<runVars, mgrVars, gui, status, procVars, acts, up, rows, orders, alive, fatal>>

OrdersAnswered(r) ==
    /\ r \in flight /\ r.stage = "answered" /\ r.kind = "orders"
    /\ flight' = flight \ {r}
    /\ acts' = (acts \/ sinks)
    /\ UNCHANGED <<runVars, mgrVars, gui, status, procVars, queue, up, rows, orders, netVars>>

\* Any answer of mm2 with status 200 shows that the internet is there.
CheckAnswered(r) ==
    /\ r \in flight /\ r.stage = "answered" /\ r.kind = "check"
    /\ flight' = flight \ {r}
    /\ alive' = TRUE
    /\ UNCHANGED <<runVars, mgrVars, gui, status, procVars, viewVars, ready, fatal>>

-----------------------------------------------------------------------------
Tick == Frame \/ Stop \/ JoinThread \/ JoinExit \/ Create \/ Drain \/ Act
User == Login \/ Logout \/ Exit \/ Restart \/ CheckInternet
InitThread(n) == PollFails(n) \/ Initialized(n) \/ EnableDefaults(n) \/ MarkRunning(n)
Answered(r) == DefaultsAnswered(r) \/ OrdersAnswered(r) \/ CheckAnswered(r)

Next ==
    \/ User \/ FatalNotified \/ Unsink \/ Tick
    \/ Signal \/ Killed \/ HeirCleans \/ Boot
    \/ \E n \in Service : InitThread(n) \/ NodeUp(n) \/ NodeFails(n)
    \/ \E r \in flight : NodeAnswer(r) \/ RequestFails(r) \/ Answered(r)

\* The GUI thread goes on and its timer fires; a started thread goes on.
Fairness ==
    /\ WF_vars(Tick \/ Unsink)
    /\ \A n \in Service : WF_vars(InitThread(n)) /\ WF_vars(NodeUp(n))

Spec == Init /\ [][Next]_vars
FairSpec == Spec /\ Fairness

-----------------------------------------------------------------------------
(* Properties.                                                             *)

\* While a service counts on mm2 (m_mm2_running), the process that listens is the
\* one its own login started: the wallet shown is the wallet of the passphrase,
\* whatever process an earlier session has left behind on the port.  Only the run
\* that restart has started may have ended that process too early.
RunningMeansOwnNode == svc \in running /\ heir # "cleaned" => node = svc

\* The first login of a run never meets an mm2 process of an earlier run, whether
\* that one ended well, aborted while it was destroying its service, was killed, or
\* is still exiting (clean_previous_run).  The next logins of a run may: a log-out
\* that comes before m_mm2_running leaves its process on the port.
FirstLoginMeetsNobody ==
    svc = run /\ thread[svc] # "none" => starting \cup {node} \subseteq {svc, NoNode}

\* While nobody is logged in (status "None"), nothing of the last wallet is left in
\* the portfolio, the orders or the flags, and nothing comes to them: neither from a
\* frame nor from a continuation of the service that is being destroyed.  What such a
\* continuation pushes after the queues were emptied stays in them (app.cpp:452).
LoggedOutIsClean == status = "None" => rows = {} /\ orders = {} /\ up = {}

\* The join of the init thread in ~mm2_service, which blocks the GUI thread, does not
\* wait for polls of mm2: the thread is past them.  The answer to "stop" is waited for
\* before that (mm2:309), which is part of Stop.
JoinPastPolls == gui \in {"stop", "join"} /\ ~exiting => thread[svc] \in {"initialized", "sent", "done"}

\* What is announced reaches the portfolio, or the wallet is logged out.
AnnouncedIsShown ==
    \A c \in Default : (<<svc, c>> \in queue /\ status = "enabling_coins")
                          ~> (<<svc, c>> \in rows \/ status = "None" \/ exiting)
=============================================================================
