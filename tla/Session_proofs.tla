--------------------------- MODULE Session_proofs ---------------------------
(***************************************************************************)
(* Theorems about Session for any number of logins and polls and for any   *)
(* failures: a service that counts on mm2 has its own, the first login of  *)
(* a run meets no other, a log-out leaves nothing of the wallet and does   *)
(* not wait for mm2.                                                       *)
(***************************************************************************)
EXTENDS Session, TLAPS

-----------------------------------------------------------------------------
(* The invariant.                                                          *)

\* An init thread that is past its polls.
Past(n) == thread[n] \in {"initialized", "sent", "done"}

\* Only the service in use has an init thread that is not at its end; it polls with
\* its own password; services that are to come have none.
ThreadsOfService ==
    /\ \A n \in Service : thread[n] \in {"polling", "initialized", "sent"} => n = svc
    /\ \A n \in Service : thread[n] = "polling" => pass = svc
    /\ \A n \in Service : n > svc => thread[n] = "none"
    /\ \A n \in running : thread[n] = "done"
    /\ gui = "create" => thread[svc] \in {"none", "done", "failed"}

\* Once its polls have been answered, the process that listens is its own.
OwnNode == heir # "cleaned" /\ (thread[svc] \in {"initialized", "sent"} \/ svc \in running) => node = svc

\* The process that restart has started kills while the old one is ending.
Heirs ==
    /\ exiting => gui \in {"stop", "join"}
    /\ heir # "none" => exiting \/ gui = "exited"
    /\ heir = "cleaned" => starting = {} /\ node = NoNode

FirstOfRun ==
    /\ run <= svc
    /\ svc = run /\ gui # "exited" => starting \cup {node} \subseteq {svc, NoNode}

\* When a service is marked, and what a log-out has reset by then.
Marks ==
    /\ gui \in {"drain", "act"} => ~marked
    /\ gui \in {"unsink", "stop", "join", "create"} => marked
    /\ marked /\ ~exiting => Past(svc)
    /\ marked /\ ~exiting /\ gui # "unsink" => status = "None" /\ ~sinks
    /\ refresh \/ gui = "unsink" => svc < MaxSession

\* Nobody is logged in: nothing is shown, and no service counts on mm2.
Clean ==
    /\ status = "None" => rows = {} /\ orders = {} /\ up = {}
    /\ gui = "unsink" => rows = {} /\ orders = {}
    /\ status = "None" /\ ~marked => thread[svc] = "none"

\* The dashboard, a request on its way and a fatal notification imply that the init
\* thread is past its polls.
PastPolls ==
    /\ status \in {"enabling_coins", "complete"} => Past(svc)
    /\ fatal => status = "None" \/ Past(svc)
    /\ \A r \in flight : r.stage = "sent" =>
          r.from = svc /\ thread[svc] \in {"sent", "done"} /\ gui \notin {"join", "create"}

\* Between two runs nothing of the program is left.
Exited ==
    gui = "exited" =>
        /\ thread = [n \in Service |-> "none"] /\ running = {} /\ flight = {}
        /\ ~marked /\ ~exiting /\ ~refresh /\ ~fatal /\ status = "None"

Inv ==
    /\ TypeOK
    /\ ThreadsOfService /\ OwnNode /\ Heirs /\ FirstOfRun
    /\ Marks /\ Clean /\ PastPolls /\ Exited

USE SessionAssumption DEF Service, runVars, mgrVars, procVars, viewVars, netVars

LEMMA InvInitially == ASSUME Init PROVE Inv
<1>1. TypeOK
  <2>1. run \in Service /\ svc \in Service /\ tries \in 0 .. MaxTry
    BY DEF Init
  <2>2. thread \in [Service -> {"none", "polling", "initialized", "sent", "done", "failed"}]
    BY DEF Init
  <2>3. /\ marked = FALSE /\ refresh = FALSE /\ exiting = FALSE /\ sinks = TRUE
        /\ acts = FALSE /\ ready = FALSE /\ alive = FALSE /\ fatal = FALSE
    BY DEF Init
  <2>4. /\ heir = "none" /\ gui = "idle" /\ status = "None" /\ pass = 0 /\ node = NoNode
        /\ running = {} /\ starting = {} /\ flight = {} /\ queue = {} /\ up = {}
        /\ rows = {} /\ orders = {}
    BY DEF Init
  <2> QED BY <2>1, <2>2, <2>3, <2>4 DEF TypeOK
<1>2. ThreadsOfService /\ OwnNode /\ Heirs /\ FirstOfRun
  BY DEF Init, ThreadsOfService, OwnNode, Heirs, FirstOfRun
<1>3. Marks /\ Clean /\ PastPolls /\ Exited
  BY DEF Init, Marks, Clean, PastPolls, Exited
<1> QED BY <1>1, <1>2, <1>3 DEF Inv

LEMMA InvLogin == Inv /\ Login => Inv'
  BY DEF Login, Inv, TypeOK, ThreadsOfService, OwnNode, Heirs, FirstOfRun, Marks, Clean,
         PastPolls, Exited, Past

LEMMA InvLogout == ASSUME Inv, Logout PROVE Inv'
<1>1. TypeOK'
  BY DEF Logout, Disconnect, Inv, TypeOK, ThreadsOfService, OwnNode, Heirs, FirstOfRun, Marks, Clean,
         PastPolls, Exited, Past
<1>2. ThreadsOfService'
  BY DEF Logout, Disconnect, Inv, TypeOK, ThreadsOfService, OwnNode, Heirs, FirstOfRun, Marks, Clean,
         PastPolls, Exited, Past
<1>3. OwnNode'
  BY DEF Logout, Disconnect, Inv, TypeOK, ThreadsOfService, OwnNode, Heirs, FirstOfRun, Marks, Clean,
         PastPolls, Exited, Past
<1>4. Heirs'
  BY DEF Logout, Disconnect, Inv, TypeOK, ThreadsOfService, OwnNode, Heirs, FirstOfRun, Marks, Clean,
         PastPolls, Exited, Past
<1>5. FirstOfRun'
  BY DEF Logout, Disconnect, Inv, TypeOK, ThreadsOfService, OwnNode, Heirs, FirstOfRun, Marks, Clean,
         PastPolls, Exited, Past
<1>6. Marks'
  BY DEF Logout, Disconnect, Inv, TypeOK, ThreadsOfService, OwnNode, Heirs, FirstOfRun, Marks, Clean,
         PastPolls, Exited, Past
<1>7. Clean'
  BY DEF Logout, Disconnect, Inv, TypeOK, ThreadsOfService, OwnNode, Heirs, FirstOfRun, Marks, Clean,
         PastPolls, Exited, Past
<1>8. PastPolls'
  BY DEF Logout, Disconnect, Inv, TypeOK, ThreadsOfService, OwnNode, Heirs, FirstOfRun, Marks, Clean,
         PastPolls, Exited, Past
<1>9. Exited'
  BY DEF Logout, Disconnect, Inv, TypeOK, ThreadsOfService, OwnNode, Heirs, FirstOfRun, Marks, Clean,
         PastPolls, Exited, Past
<1> QED BY <1>1, <1>2, <1>3, <1>4, <1>5, <1>6, <1>7, <1>8, <1>9 DEF Inv

LEMMA InvFatalNotified == ASSUME Inv, FatalNotified PROVE Inv'
<1>1. TypeOK'
  BY DEF FatalNotified, Disconnect, Inv, TypeOK, ThreadsOfService, OwnNode, Heirs, FirstOfRun, Marks, Clean,
         PastPolls, Exited, Past
<1>2. ThreadsOfService'
  BY DEF FatalNotified, Disconnect, Inv, TypeOK, ThreadsOfService, OwnNode, Heirs, FirstOfRun, Marks, Clean,
         PastPolls, Exited, Past
<1>3. OwnNode'
  BY DEF FatalNotified, Disconnect, Inv, TypeOK, ThreadsOfService, OwnNode, Heirs, FirstOfRun, Marks, Clean,
         PastPolls, Exited, Past
<1>4. Heirs'
  BY DEF FatalNotified, Disconnect, Inv, TypeOK, ThreadsOfService, OwnNode, Heirs, FirstOfRun, Marks, Clean,
         PastPolls, Exited, Past
<1>5. FirstOfRun'
  BY DEF FatalNotified, Disconnect, Inv, TypeOK, ThreadsOfService, OwnNode, Heirs, FirstOfRun, Marks, Clean,
         PastPolls, Exited, Past
<1>6. Marks'
  BY DEF FatalNotified, Disconnect, Inv, TypeOK, ThreadsOfService, OwnNode, Heirs, FirstOfRun, Marks, Clean,
         PastPolls, Exited, Past
<1>7. Clean'
  BY DEF FatalNotified, Disconnect, Inv, TypeOK, ThreadsOfService, OwnNode, Heirs, FirstOfRun, Marks, Clean,
         PastPolls, Exited, Past
<1>8. PastPolls'
  BY DEF FatalNotified, Disconnect, Inv, TypeOK, ThreadsOfService, OwnNode, Heirs, FirstOfRun, Marks, Clean,
         PastPolls, Exited, Past
<1>9. Exited'
  BY DEF FatalNotified, Disconnect, Inv, TypeOK, ThreadsOfService, OwnNode, Heirs, FirstOfRun, Marks, Clean,
         PastPolls, Exited, Past
<1> QED BY <1>1, <1>2, <1>3, <1>4, <1>5, <1>6, <1>7, <1>8, <1>9 DEF Inv

LEMMA InvUnsink == ASSUME Inv, Unsink PROVE Inv'
<1>1. TypeOK'
  BY DEF Unsink, DisconnectSignals, Inv, TypeOK, ThreadsOfService, OwnNode, Heirs, FirstOfRun, Marks, Clean,
         PastPolls, Exited, Past
<1>2. ThreadsOfService'
  BY DEF Unsink, DisconnectSignals, Inv, TypeOK, ThreadsOfService, OwnNode, Heirs, FirstOfRun, Marks, Clean,
         PastPolls, Exited, Past
<1>3. OwnNode'
  BY DEF Unsink, DisconnectSignals, Inv, TypeOK, ThreadsOfService, OwnNode, Heirs, FirstOfRun, Marks, Clean,
         PastPolls, Exited, Past
<1>4. Heirs'
  BY DEF Unsink, DisconnectSignals, Inv, TypeOK, ThreadsOfService, OwnNode, Heirs, FirstOfRun, Marks, Clean,
         PastPolls, Exited, Past
<1>5. FirstOfRun'
  BY DEF Unsink, DisconnectSignals, Inv, TypeOK, ThreadsOfService, OwnNode, Heirs, FirstOfRun, Marks, Clean,
         PastPolls, Exited, Past
<1>6. Marks'
  BY DEF Unsink, DisconnectSignals, Inv, TypeOK, ThreadsOfService, OwnNode, Heirs, FirstOfRun, Marks, Clean,
         PastPolls, Exited, Past
<1>7. Clean'
  BY DEF Unsink, DisconnectSignals, Inv, TypeOK, ThreadsOfService, OwnNode, Heirs, FirstOfRun, Marks, Clean,
         PastPolls, Exited, Past
<1>8. PastPolls'
  BY DEF Unsink, DisconnectSignals, Inv, TypeOK, ThreadsOfService, OwnNode, Heirs, FirstOfRun, Marks, Clean,
         PastPolls, Exited, Past
<1>9. Exited'
  BY DEF Unsink, DisconnectSignals, Inv, TypeOK, ThreadsOfService, OwnNode, Heirs, FirstOfRun, Marks, Clean,
         PastPolls, Exited, Past
<1> QED BY <1>1, <1>2, <1>3, <1>4, <1>5, <1>6, <1>7, <1>8, <1>9 DEF Inv

LEMMA InvExit == Inv /\ Exit => Inv'
  BY DEF Exit, Leave, Inv, TypeOK, ThreadsOfService, OwnNode, Heirs, FirstOfRun, Marks, Clean,
         PastPolls, Exited, Past

LEMMA InvRestart == Inv /\ Restart => Inv'
  BY DEF Restart, Leave, Inv, TypeOK, ThreadsOfService, OwnNode, Heirs, FirstOfRun, Marks, Clean,
         PastPolls, Exited, Past

LEMMA InvFrame == Inv /\ Frame => Inv'
  BY DEF Frame, Sweep, Periodic, Sent, Request, Inv, TypeOK, ThreadsOfService, OwnNode, Heirs, FirstOfRun, Marks, Clean,
         PastPolls, Exited, Past

LEMMA InvCheckInternet == Inv /\ CheckInternet => Inv'
  BY DEF CheckInternet, MayCheck, Sent, Request, Inv, TypeOK, ThreadsOfService, OwnNode, Heirs, FirstOfRun, Marks, Clean,
         PastPolls, Exited, Past

LEMMA InvStop == ASSUME Inv, Stop PROVE Inv'
<1>1. TypeOK'
  BY DEF Stop, NotCancelled, Sent, Request, Inv, TypeOK, ThreadsOfService, OwnNode, Heirs, FirstOfRun, Marks, Clean,
         PastPolls, Exited, Past
<1>2. ThreadsOfService'
  BY DEF Stop, NotCancelled, Sent, Request, Inv, TypeOK, ThreadsOfService, OwnNode, Heirs, FirstOfRun, Marks, Clean,
         PastPolls, Exited, Past
<1>3. OwnNode'
  BY DEF Stop, NotCancelled, Sent, Request, Inv, TypeOK, ThreadsOfService, OwnNode, Heirs, FirstOfRun, Marks, Clean,
         PastPolls, Exited, Past
<1>4. Heirs'
  BY DEF Stop, NotCancelled, Sent, Request, Inv, TypeOK, ThreadsOfService, OwnNode, Heirs, FirstOfRun, Marks, Clean,
         PastPolls, Exited, Past
<1>5. FirstOfRun'
  BY DEF Stop, NotCancelled, Sent, Request, Inv, TypeOK, ThreadsOfService, OwnNode, Heirs, FirstOfRun, Marks, Clean,
         PastPolls, Exited, Past
<1>6. Marks'
  BY DEF Stop, NotCancelled, Sent, Request, Inv, TypeOK, ThreadsOfService, OwnNode, Heirs, FirstOfRun, Marks, Clean,
         PastPolls, Exited, Past
<1>7. Clean'
  BY DEF Stop, NotCancelled, Sent, Request, Inv, TypeOK, ThreadsOfService, OwnNode, Heirs, FirstOfRun, Marks, Clean,
         PastPolls, Exited, Past
<1>8. PastPolls'
  BY DEF Stop, NotCancelled, Sent, Request, Inv, TypeOK, ThreadsOfService, OwnNode, Heirs, FirstOfRun, Marks, Clean,
         PastPolls, Exited, Past
<1>9. Exited'
  BY DEF Stop, NotCancelled, Sent, Request, Inv, TypeOK, ThreadsOfService, OwnNode, Heirs, FirstOfRun, Marks, Clean,
         PastPolls, Exited, Past
<1> QED BY <1>1, <1>2, <1>3, <1>4, <1>5, <1>6, <1>7, <1>8, <1>9 DEF Inv

LEMMA InvJoinThread == Inv /\ JoinThread => Inv'
  BY DEF JoinThread, Inv, TypeOK, ThreadsOfService, OwnNode, Heirs, FirstOfRun, Marks, Clean,
         PastPolls, Exited, Past

LEMMA InvCreate == ASSUME Inv, Create PROVE Inv'
<1>1. TypeOK'
  <2>1. svc' \in Service /\ svc' = svc + 1
    BY DEF Create, Inv, TypeOK, Marks
  <2> QED BY <2>1 DEF Create, ConnectSignals, Inv, TypeOK, Request
<1>2. ThreadsOfService'
  BY DEF Create, ConnectSignals, Inv, TypeOK, ThreadsOfService, OwnNode, Heirs, FirstOfRun, Marks, Clean,
         PastPolls, Exited, Past
<1>3. OwnNode'
  BY DEF Create, ConnectSignals, Inv, TypeOK, ThreadsOfService, OwnNode, Heirs, FirstOfRun, Marks, Clean,
         PastPolls, Exited, Past
<1>4. Heirs'
  BY DEF Create, ConnectSignals, Inv, TypeOK, ThreadsOfService, OwnNode, Heirs, FirstOfRun, Marks, Clean,
         PastPolls, Exited, Past
<1>5. FirstOfRun'
  BY DEF Create, ConnectSignals, Inv, TypeOK, ThreadsOfService, OwnNode, Heirs, FirstOfRun, Marks, Clean,
         PastPolls, Exited, Past
<1>6. Marks'
  BY DEF Create, ConnectSignals, Inv, TypeOK, ThreadsOfService, OwnNode, Heirs, FirstOfRun, Marks, Clean,
         PastPolls, Exited, Past
<1>7. Clean'
  BY DEF Create, ConnectSignals, Inv, TypeOK, ThreadsOfService, OwnNode, Heirs, FirstOfRun, Marks, Clean,
         PastPolls, Exited, Past
<1>8. PastPolls'
  BY DEF Create, ConnectSignals, Inv, TypeOK, ThreadsOfService, OwnNode, Heirs, FirstOfRun, Marks, Clean,
         PastPolls, Exited, Past
<1>9. Exited'
  BY DEF Create, ConnectSignals, Inv, TypeOK, ThreadsOfService, OwnNode, Heirs, FirstOfRun, Marks, Clean,
         PastPolls, Exited, Past
<1> QED BY <1>1, <1>2, <1>3, <1>4, <1>5, <1>6, <1>7, <1>8, <1>9 DEF Inv

LEMMA InvDrain == Inv /\ Drain => Inv'
  BY DEF Drain, Inv, TypeOK, ThreadsOfService, OwnNode, Heirs, FirstOfRun, Marks, Clean,
         PastPolls, Exited, Past

LEMMA InvAct == ASSUME Inv, Act PROVE Inv'
<1>1. TypeOK'
  BY DEF Act, Inv, TypeOK, ThreadsOfService, OwnNode, Heirs, FirstOfRun, Marks, Clean,
         PastPolls, Exited, Past
<1>2. ThreadsOfService'
  BY DEF Act, Inv, TypeOK, ThreadsOfService, OwnNode, Heirs, FirstOfRun, Marks, Clean,
         PastPolls, Exited, Past
<1>3. OwnNode'
  BY DEF Act, Inv, TypeOK, ThreadsOfService, OwnNode, Heirs, FirstOfRun, Marks, Clean,
         PastPolls, Exited, Past
<1>4. Heirs'
  BY DEF Act, Inv, TypeOK, ThreadsOfService, OwnNode, Heirs, FirstOfRun, Marks, Clean,
         PastPolls, Exited, Past
<1>5. FirstOfRun'
  BY DEF Act, Inv, TypeOK, ThreadsOfService, OwnNode, Heirs, FirstOfRun, Marks, Clean,
         PastPolls, Exited, Past
<1>6. Marks'
  BY DEF Act, Inv, TypeOK, ThreadsOfService, OwnNode, Heirs, FirstOfRun, Marks, Clean,
         PastPolls, Exited, Past
<1>7. Clean'
  BY DEF Act, Inv, TypeOK, ThreadsOfService, OwnNode, Heirs, FirstOfRun, Marks, Clean,
         PastPolls, Exited, Past
<1>8. PastPolls'
  BY DEF Act, Inv, TypeOK, ThreadsOfService, OwnNode, Heirs, FirstOfRun, Marks, Clean,
         PastPolls, Exited, Past
<1>9. Exited'
  BY DEF Act, Inv, TypeOK, ThreadsOfService, OwnNode, Heirs, FirstOfRun, Marks, Clean,
         PastPolls, Exited, Past
<1> QED BY <1>1, <1>2, <1>3, <1>4, <1>5, <1>6, <1>7, <1>8, <1>9 DEF Inv

\* However a run ends, the processes it leaves are some of those it had.
LEMMA InvEnds ==
    ASSUME Inv, Ends, starting' \in {starting, {}}, node' \in {node, NoNode},
           heir = "cleaned" => starting' = {} /\ node' = NoNode
    PROVE  Inv'
<1>1. run' \in Service /\ heir' \in {"none", "started", "cleaned"} /\ svc' \in Service
  BY DEF Ends, Inv, TypeOK
<1>2. marked' = FALSE /\ refresh' = FALSE /\ exiting' = FALSE /\ sinks' = TRUE /\ gui' = "exited" /\ status' = "None"
  BY DEF Ends, Inv, TypeOK
<1>3. thread' = [n \in Service |-> "none"] /\ tries' \in 0..MaxTry /\ running' = {} /\ pass' = 0
  BY DEF Ends, Inv, TypeOK
<1>4. starting' \subseteq Service /\ node' \in Service \cup {NoNode}
  BY DEF Ends, Inv, TypeOK
<1>5. flight' = {} /\ queue' = {} /\ up' = {} /\ rows' = {} /\ orders' = {}
  BY DEF Ends, Inv, TypeOK
<1>6. acts' = FALSE /\ ready' = FALSE /\ alive' = FALSE /\ fatal' = FALSE
  BY DEF Ends, Inv, TypeOK
<1>7. TypeOK'
  BY <1>1, <1>2, <1>3, <1>4, <1>5, <1>6 DEF TypeOK
<1>8. svc' = svc /\ run' = run /\ heir' = heir /\ run <= svc
  BY DEF Ends, Inv, FirstOfRun
<1>9. ThreadsOfService' /\ OwnNode' /\ Heirs' /\ FirstOfRun'
  BY <1>1, <1>2, <1>3, <1>8 DEF ThreadsOfService, OwnNode, Heirs, FirstOfRun
<1>10. thread'[svc'] = "none"
  BY <1>1, <1>3
<1>11. Marks' /\ Clean' /\ PastPolls'
  BY <1>2, <1>5, <1>6, <1>10 DEF Marks, Clean, PastPolls
<1>12. Exited'
  BY <1>2, <1>3, <1>5, <1>6 DEF Exited
<1> QED BY <1>7, <1>9, <1>11, <1>12 DEF Inv

LEMMA InvJoinExit == ASSUME Inv, JoinExit PROVE Inv'
  BY InvEnds DEF JoinExit, Inv, Heirs

LEMMA InvKilled == ASSUME Inv, Killed PROVE Inv'
  BY InvEnds DEF Killed, Inv, Heirs

LEMMA InvSignal == ASSUME Inv, Signal PROVE Inv'
  BY InvEnds DEF Signal, KillNodes

LEMMA InvHeirCleans == Inv /\ HeirCleans => Inv'
  BY DEF HeirCleans, KillNodes, Inv, TypeOK, ThreadsOfService, OwnNode, Heirs, FirstOfRun, Marks, Clean,
         PastPolls, Exited, Past

LEMMA InvBoot == ASSUME Inv, Boot PROVE Inv'
<1>1. TypeOK'
  <2>1. svc \in Service /\ svc < MaxSession /\ svc' = svc + 1 /\ run' = svc + 1
    BY DEF Boot, Inv, TypeOK
  <2>2. svc' \in Service /\ run' \in Service
    BY <2>1
  <2>3. starting' \in {starting, {}} /\ node' \in {node, NoNode} /\ heir' = "none" /\ gui' = "idle"
    BY DEF Boot, KillNodes
  <2>4. UNCHANGED <<marked, refresh, exiting, sinks, status, thread, tries, running, pass,
                    flight, viewVars, netVars>>
    BY DEF Boot
  <2> QED BY <2>2, <2>3, <2>4 DEF Inv, TypeOK
<1>2. ThreadsOfService'
  BY DEF Boot, KillNodes, Inv, TypeOK, ThreadsOfService, OwnNode, Heirs, FirstOfRun, Marks, Clean,
         PastPolls, Exited, Past
<1>3. OwnNode'
  BY DEF Boot, KillNodes, Inv, TypeOK, ThreadsOfService, OwnNode, Heirs, FirstOfRun, Marks, Clean,
         PastPolls, Exited, Past
<1>4. Heirs'
  BY DEF Boot, KillNodes, Inv, TypeOK, ThreadsOfService, OwnNode, Heirs, FirstOfRun, Marks, Clean,
         PastPolls, Exited, Past
<1>5. FirstOfRun'
  <2>1. heir \in {"none", "cleaned"}
    BY DEF Boot, Inv, TypeOK
  <2>2. starting' = {} /\ node' = NoNode
    BY <2>1 DEF Boot, KillNodes, Inv, Heirs
  <2> QED BY <2>2 DEF Boot, Inv, TypeOK, FirstOfRun
<1>6. Marks'
  BY DEF Boot, KillNodes, Inv, TypeOK, ThreadsOfService, OwnNode, Heirs, FirstOfRun, Marks, Clean,
         PastPolls, Exited, Past
<1>7. Clean'
  BY DEF Boot, KillNodes, Inv, TypeOK, ThreadsOfService, OwnNode, Heirs, FirstOfRun, Marks, Clean,
         PastPolls, Exited, Past
<1>8. PastPolls'
  BY DEF Boot, KillNodes, Inv, TypeOK, ThreadsOfService, OwnNode, Heirs, FirstOfRun, Marks, Clean,
         PastPolls, Exited, Past
<1>9. Exited'
  BY DEF Boot, KillNodes, Inv, TypeOK, ThreadsOfService, OwnNode, Heirs, FirstOfRun, Marks, Clean,
         PastPolls, Exited, Past
<1> QED BY <1>1, <1>2, <1>3, <1>4, <1>5, <1>6, <1>7, <1>8, <1>9 DEF Inv

LEMMA InvPollFails == ASSUME Inv, NEW n \in Service, PollFails(n) PROVE Inv'
  BY DEF PollFails, Answers, Request, Inv, TypeOK, ThreadsOfService, OwnNode, Heirs, FirstOfRun, Marks, Clean,
         PastPolls, Exited, Past

LEMMA InvInitialized == ASSUME Inv, NEW n \in Service, Initialized(n) PROVE Inv'
  BY DEF Initialized, Answers, Request, Inv, TypeOK, ThreadsOfService, OwnNode, Heirs, FirstOfRun, Marks, Clean,
         PastPolls, Exited, Past

LEMMA InvEnableDefaults == ASSUME Inv, NEW n \in Service, EnableDefaults(n) PROVE Inv'
  BY DEF EnableDefaults, Answers, Request, Inv, TypeOK, ThreadsOfService, OwnNode, Heirs, FirstOfRun, Marks, Clean,
         PastPolls, Exited, Past

LEMMA InvMarkRunning == ASSUME Inv, NEW n \in Service, MarkRunning(n) PROVE Inv'
  BY DEF MarkRunning, Answers, Request, Inv, TypeOK, ThreadsOfService, OwnNode, Heirs, FirstOfRun, Marks, Clean,
         PastPolls, Exited, Past

LEMMA InvNodeUp == ASSUME Inv, NEW n \in Service, NodeUp(n) PROVE Inv'
  BY DEF NodeUp, Answers, Request, Inv, TypeOK, ThreadsOfService, OwnNode, Heirs, FirstOfRun, Marks, Clean,
         PastPolls, Exited, Past

LEMMA InvNodeFails == ASSUME Inv, NEW n \in Service, NodeFails(n) PROVE Inv'
  BY DEF NodeFails, Answers, Request, Inv, TypeOK, ThreadsOfService, OwnNode, Heirs, FirstOfRun, Marks, Clean,
         PastPolls, Exited, Past

LEMMA InvNodeAnswer == ASSUME Inv, NEW r \in flight, NodeAnswer(r) PROVE Inv'
  BY DEF NodeAnswer, ReportFatal, Announce, Request, Inv, TypeOK, ThreadsOfService, OwnNode, Heirs, FirstOfRun, Marks, Clean,
         PastPolls, Exited, Past

LEMMA InvRequestFails == ASSUME Inv, NEW r \in flight, RequestFails(r) PROVE Inv'
<1>1. TypeOK'
  <2>1. flight' \subseteq flight /\ alive' \in BOOLEAN /\ fatal' \in BOOLEAN
    BY DEF RequestFails, ReportFatal, Inv, TypeOK
  <2>2. UNCHANGED <<runVars, mgrVars, gui, status, procVars, viewVars, ready>>
    BY DEF RequestFails
  <2> QED BY <2>1, <2>2 DEF Inv, TypeOK
<1>2. ThreadsOfService'
  BY DEF RequestFails, ReportFatal, Announce, Request, Inv, TypeOK, ThreadsOfService, OwnNode, Heirs, FirstOfRun, Marks, Clean,
         PastPolls, Exited, Past
<1>3. OwnNode'
  BY DEF RequestFails, ReportFatal, Announce, Request, Inv, TypeOK, ThreadsOfService, OwnNode, Heirs, FirstOfRun, Marks, Clean,
         PastPolls, Exited, Past
<1>4. Heirs'
  BY DEF RequestFails, ReportFatal, Announce, Request, Inv, TypeOK, ThreadsOfService, OwnNode, Heirs, FirstOfRun, Marks, Clean,
         PastPolls, Exited, Past
<1>5. FirstOfRun'
  BY DEF RequestFails, ReportFatal, Announce, Request, Inv, TypeOK, ThreadsOfService, OwnNode, Heirs, FirstOfRun, Marks, Clean,
         PastPolls, Exited, Past
<1>6. Marks'
  BY DEF RequestFails, ReportFatal, Announce, Request, Inv, TypeOK, ThreadsOfService, OwnNode, Heirs, FirstOfRun, Marks, Clean,
         PastPolls, Exited, Past
<1>7. Clean'
  BY DEF RequestFails, ReportFatal, Announce, Request, Inv, TypeOK, ThreadsOfService, OwnNode, Heirs, FirstOfRun, Marks, Clean,
         PastPolls, Exited, Past
<1>8. PastPolls'
  BY DEF RequestFails, ReportFatal, Announce, Request, Inv, TypeOK, ThreadsOfService, OwnNode, Heirs, FirstOfRun, Marks, Clean,
         PastPolls, Exited, Past
<1>9. Exited'
  BY DEF RequestFails, ReportFatal, Announce, Request, Inv, TypeOK, ThreadsOfService, OwnNode, Heirs, FirstOfRun, Marks, Clean,
         PastPolls, Exited, Past
<1> QED BY <1>1, <1>2, <1>3, <1>4, <1>5, <1>6, <1>7, <1>8, <1>9 DEF Inv

LEMMA InvDefaultsAnswered == ASSUME Inv, NEW r \in flight, DefaultsAnswered(r) PROVE Inv'
  BY DEF DefaultsAnswered, ReportFatal, Announce, Request, Inv, TypeOK, ThreadsOfService, OwnNode, Heirs, FirstOfRun, Marks, Clean,
         PastPolls, Exited, Past

LEMMA InvOrdersAnswered == ASSUME Inv, NEW r \in flight, OrdersAnswered(r) PROVE Inv'
  BY DEF OrdersAnswered, ReportFatal, Announce, Request, Inv, TypeOK, ThreadsOfService, OwnNode, Heirs, FirstOfRun, Marks, Clean,
         PastPolls, Exited, Past

LEMMA InvCheckAnswered == ASSUME Inv, NEW r \in flight, CheckAnswered(r) PROVE Inv'
  BY DEF CheckAnswered, ReportFatal, Announce, Request, Inv, TypeOK, ThreadsOfService, OwnNode, Heirs, FirstOfRun, Marks, Clean,
         PastPolls, Exited, Past

LEMMA InvStutter == ASSUME Inv, UNCHANGED vars PROVE Inv'
  BY DEF vars, Inv, TypeOK, ThreadsOfService, OwnNode, Heirs, FirstOfRun, Marks, Clean,
         PastPolls, Exited, Past

LEMMA InvNext == ASSUME Inv, [Next]_vars PROVE Inv'
<1>1. CASE UNCHANGED vars
  BY <1>1, InvStutter
<1>2. CASE User \/ FatalNotified \/ Unsink
  BY <1>2, InvLogin, InvLogout, InvExit, InvRestart, InvCheckInternet, InvFatalNotified, InvUnsink
     DEF User
<1>3. CASE Tick
  BY <1>3, InvFrame, InvStop, InvJoinThread, InvJoinExit, InvCreate, InvDrain, InvAct DEF Tick
<1>4. CASE Signal \/ Killed \/ HeirCleans \/ Boot
  BY <1>4, InvSignal, InvKilled, InvHeirCleans, InvBoot
<1>5. ASSUME NEW n \in Service, InitThread(n) \/ NodeUp(n) \/ NodeFails(n) PROVE Inv'
  BY <1>5, InvPollFails, InvInitialized, InvEnableDefaults, InvMarkRunning, InvNodeUp, InvNodeFails
     DEF InitThread
<1>6. ASSUME NEW r \in flight, NodeAnswer(r) \/ RequestFails(r) \/ Answered(r) PROVE Inv'
  BY <1>6, InvNodeAnswer, InvRequestFails, InvDefaultsAnswered, InvOrdersAnswered, InvCheckAnswered
     DEF Answered
<1> QED BY <1>1, <1>2, <1>3, <1>4, <1>5, <1>6 DEF Next

LEMMA InvAlways == Spec => []Inv
  BY InvInitially, InvNext, PTL DEF Spec

-----------------------------------------------------------------------------
(* The theorems.                                                           *)

\* A service that counts on mm2 has the process its own login started.
THEOREM RunningAlwaysOwnsNode == Spec => []RunningMeansOwnNode
<1>1. Inv => RunningMeansOwnNode
  BY DEF Inv, OwnNode, RunningMeansOwnNode
<1> QED BY <1>1, InvAlways, PTL

\* No process of an earlier run of the program is met by the first login of a run.
THEOREM FirstLoginAlwaysAlone == Spec => []FirstLoginMeetsNobody
<1>1. Inv => FirstLoginMeetsNobody
  BY DEF Inv, FirstOfRun, Exited, TypeOK, FirstLoginMeetsNobody
<1> QED BY <1>1, InvAlways, PTL

\* While nobody is logged in there are no rows, no orders and no flags of a wallet,
\* whatever threads and continuations of the last session still do.
THEOREM LoggedOutAlwaysClean == Spec => []LoggedOutIsClean
<1>1. Inv => LoggedOutIsClean
  BY DEF Inv, Clean, LoggedOutIsClean
<1> QED BY <1>1, InvAlways, PTL

\* When a log-out joins the init thread, that thread is past its polls of mm2.
THEOREM JoinAlwaysPastPolls == Spec => []JoinPastPolls
<1>1. Inv => JoinPastPolls
  BY DEF Inv, Marks, Past, JoinPastPolls
<1> QED BY <1>1, InvAlways, PTL
=============================================================================
