------------------------ MODULE CoinLifecycle_proofs ------------------------
(***************************************************************************)
(* Proofs about CoinLifecycle, for every set of coins, every number of     *)
(* batches in flight and every combination of failures.                    *)
(***************************************************************************)
EXTENDS CoinLifecycle, FiniteSetTheorems, SequenceTheorems, TLAPS

-----------------------------------------------------------------------------
(* The inductive invariant.                                                *)

\* The batches that are ever sent: a pair is either one of the crossed pairs of
\* the default batch, or has nothing to do with the default coins.
GoodAsk == {ask \in SUBSET Pair :
              \A p \in ask : \/ p \in DefaultAsk
                             \/ p[1] \notin Default /\ p[2] \notin Default}

Stage == {"free", "sent", "served", "handled"}

Shape ==
    /\ initpc \in {"logged_out", "polling", "initialized", "sending", "done", "failed"}
    /\ tries \in 0 .. MaxTry
    /\ initpc \in {"logged_out", "polling"} => tries < MaxTry
    /\ initOut \in Seq(GoodAsk)
    /\ running \in BOOLEAN
    /\ status \in {"None", "initializing_mm2", "enabling_coins", "complete"}
    /\ enabled \subseteq Coin
    /\ active \subseteq Coin
    /\ nodeOn \subseteq Coin
    /\ call \in [Call -> [stage : Stage, ask : GoodAsk, ok : SUBSET Pair]]
    /\ \A c \in Call : call[c].ok \subseteq call[c].ask
    /\ queue \subseteq Coin
    /\ up \subseteq Default
    /\ rows \subseteq Coin
    /\ gui \in [op : {"idle", "enable", "disable", "delete", "restart"},
                out : Seq(GoodAsk), todo : SUBSET (Coin \ Default),
                off : SUBSET (Coin \ Default), sel : SUBSET Coin,
                del : SUBSET (Coin \ Default)]
    /\ gui.op # "disable" => gui.off = {}

\* The coins of the successful answers that no continuation has read yet.
Fresh(c) == IF call[c].stage = "served" THEN Coins(call[c].ok) ELSE {}

\* Such a coin is on in mm2, the registry does not know it yet, and no other
\* answer in flight says so too.
NodeInv ==
    /\ EnabledOnNode
    /\ \A c \in Call : Fresh(c) \subseteq nodeOn \ (enabled \ gui.off)
    /\ \A c, d \in Call : c # d => Fresh(c) \cap Fresh(d) = {}

\* A default coin's ticker is only published once the other default coin is
\* enabled, and nothing takes either away.
DefaultInv ==
    /\ status = "complete" => up = Default
    /\ up \subseteq rows
    /\ \A p \in DefaultAsk : p[2] \in up \cup queue => p[1] \in enabled
    /\ \A c \in Call : call[c].stage = "handled" => Coins(call[c].ok) \subseteq enabled \cup (Coin \ Default)

IInv == Shape /\ NodeInv /\ DefaultInv

-----------------------------------------------------------------------------
(* Lemmas on the operators.                                                *)

\* A listing of some coins is a sequence of them.
LEMMA ListingsSeq ==
    ASSUME NEW T \in SUBSET Coin, NEW s \in Listings(T)
    PROVE  s \in Seq(T)
  <1>1. IsFiniteSet(T)
    BY CoinAssumption, FS_Subset
  <1>2. Cardinality(T) \in Nat
    BY <1>1, FS_CardinalityType
  <1> QED
    BY <1>2 DEF Listings

\* No batch built by Asks names a default coin.
LEMMA AsksGood ==
    ASSUME NEW s \in Seq(Coin \ Default), NEW a \in Asks(s)
    PROVE  a \in Seq(GoodAsk)
  <1> DEFINE fresh == {i \in DOMAIN s : s[i] \notin enabled}
             n     == Cardinality(fresh)
  <1>1. /\ Len(s) \in Nat
        /\ DOMAIN s = 1 .. Len(s)
        /\ \A i \in DOMAIN s : s[i] \in Coin \ Default
    BY LenProperties
  <1>2. /\ IsFiniteSet(1 .. Len(s))
        /\ Cardinality(1 .. Len(s)) = Len(s)
    <2>1. 1 \in Int /\ Len(s) \in Int
      BY <1>1
    <2>2. /\ IsFiniteSet(1 .. Len(s))
          /\ Cardinality(1 .. Len(s)) = IF 1 > Len(s) THEN 0 ELSE Len(s) - 1 + 1
      BY <2>1, FS_Interval
    <2> QED
      BY <1>1, <2>2
  <1>3. IsFiniteSet(fresh) /\ n <= Len(s)
    <2>1. fresh \in SUBSET (1 .. Len(s))
      BY <1>1
    <2> QED
      BY <2>1, <1>2, FS_Subset
  <1>4. n \in Nat
    BY <1>3, FS_CardinalityType
  <1>5. PICK e \in [1 .. n -> fresh] : a = [k \in 1 .. n |-> {<<s[e[k]], s[k]>>}]
    BY DEF Asks
  <1>6. ASSUME NEW k \in 1 .. n
        PROVE  {<<s[e[k]], s[k]>>} \in GoodAsk
    <2>1. s[e[k]] \in Coin \ Default
      BY <1>1, <1>5
    <2>2. s[k] \in Coin \ Default
      BY <1>1, <1>3, <1>4
    <2> QED
      BY <2>1, <2>2 DEF GoodAsk, Pair
  <1> HIDE DEF n, fresh
  <1>7. a \in [1 .. n -> GoodAsk]
    BY <1>5, <1>6
  <1> QED
    BY <1>4, <1>7

LEMMA DefaultAskGood == DefaultAsk \in GoodAsk /\ {} \in GoodAsk
  BY CoinAssumption DEF DefaultAsk, GoodAsk, Pair, Default

-----------------------------------------------------------------------------
(* Type correctness.                                                       *)

LEMMA ShapeInit == Init => Shape
  <1> SUFFICES ASSUME Init PROVE Shape
    OBVIOUS
  <1> USE DEF Init
  <1>1. call \in [Call -> [stage : Stage, ask : GoodAsk, ok : SUBSET Pair]]
    BY DefaultAskGood DEF Free, Stage
  <1>2. \A c \in Call : call[c].ok \subseteq call[c].ask
    BY DEF Free
  <1>3. /\ gui \in [op : {"idle", "enable", "disable", "delete", "restart"},
                out : Seq(GoodAsk), todo : SUBSET (Coin \ Default),
                off : SUBSET (Coin \ Default), sel : SUBSET Coin,
                del : SUBSET (Coin \ Default)]
        /\ gui.off = {}
    BY EmptySeq DEF Idle
  <1>4. tries \in 0 .. MaxTry /\ tries < MaxTry
    BY BoundAssumption
  <1>5. initOut \in Seq(GoodAsk)
    BY EmptySeq
  <1> QED
    BY <1>1, <1>2, <1>3, <1>4, <1>5 DEF Shape

\* Sending a good batch keeps the in-flight batches well-formed.
LEMMA SendShape ==
    ASSUME NEW c \in Call, NEW ask \in GoodAsk, Shape, Send(c, ask)
    PROVE  /\ call' \in [Call -> [stage : Stage, ask : GoodAsk, ok : SUBSET Pair]]
           /\ \A d \in Call : call'[d].ok \subseteq call'[d].ask
  BY DEF Send, Shape, Stage

LEMMA ShapeStep == Shape /\ [Next]_vars => Shape'
  <1> SUFFICES ASSUME Shape, [Next]_vars PROVE Shape'
    OBVIOUS
  <1> USE CoinAssumption, BoundAssumption
  <1>1. CASE Login
    BY <1>1 DEF Login, Shape
  <1>2. CASE PollFails
    BY <1>2 DEF PollFails, Shape
  <1>3. CASE Initialized
    BY <1>3 DEF Initialized, Shape
  <1>4. CASE EnableDefaults
    <2> PICK s \in Listings(active \ Default) :
           \E a \in Asks(s) : initOut' = <<DefaultAsk>> \o a
      BY <1>4 DEF EnableDefaults
    <2>1. PICK a \in Asks(s) : initOut' = <<DefaultAsk>> \o a
      OBVIOUS
    <2>2. s \in Seq(Coin \ Default)
      <3>1. s \in Seq(active \ Default)
        BY ListingsSeq DEF Shape
      <3> QED
        BY <3>1, SeqMonotonic DEF Shape
    <2>3. initOut' \in Seq(GoodAsk)
      BY <2>1, <2>2, AsksGood, DefaultAskGood, ConcatProperties
    <2> QED
      BY <1>4, <2>3 DEF EnableDefaults, Shape
  <1>5. CASE InitSend
    <2>1. Head(initOut) \in GoodAsk /\ Tail(initOut) \in Seq(GoodAsk)
      BY <1>5, HeadTailProperties DEF InitSend, Shape
    <2> QED
      BY <1>5, <2>1, SendShape DEF InitSend, Shape
  <1>6. CASE MarkRunning
    BY <1>6 DEF MarkRunning, Shape
  <1>7. CASE EnableCoins
    <2>0. PICK sel \in SUBSET (Coin \ rows), extra \in SUBSET Coin :
            \E s \in Listings(sel \ Default), x \in Listings(extra \ Default) :
              \E asks \in Asks(s \o x) :
                gui' = [Idle EXCEPT !.op = "enable", !.out = asks, !.sel = sel \cup extra]
      <3>1. PICK sel \in SUBSET (Coin \ rows) :
              LET extra == {Parent[d] : d \in {t \in sel : HasParentFees(t)}}
                             \ (enabled \cup active)
              IN  \E s \in Listings(sel \ Default), x \in Listings(extra \ Default) :
                    \E asks \in Asks(s \o x) :
                      gui' = [Idle EXCEPT !.op = "enable", !.out = asks,
                                          !.sel = sel \cup extra]
        BY <1>7 DEF EnableCoins
      <3> DEFINE extra == {Parent[d] : d \in {t \in sel : HasParentFees(t)}}
                            \ (enabled \cup active)
      <3>2. extra \in SUBSET Coin
        OBVIOUS
      <3> HIDE DEF extra
      <3> QED
        BY <3>1, <3>2 DEF extra
    <2> PICK s \in Listings(sel \ Default), x \in Listings(extra \ Default) :
           \E asks \in Asks(s \o x) :
             gui' = [Idle EXCEPT !.op = "enable", !.out = asks, !.sel = sel \cup extra]
      BY <2>0
    <2>1. PICK a \in Asks(s \o x) :
            gui' = [Idle EXCEPT !.op = "enable", !.out = a, !.sel = sel \cup extra]
      OBVIOUS
    <2>2. s \o x \in Seq(Coin \ Default)
      <3>1. s \in Seq(sel \ Default) /\ x \in Seq(extra \ Default)
        BY ListingsSeq
      <3>2. s \in Seq(Coin \ Default) /\ x \in Seq(Coin \ Default)
        BY <3>1, SeqMonotonic
      <3> QED
        BY <3>2, ConcatProperties
    <2>3. a \in Seq(GoodAsk)
      BY <2>1, <2>2, AsksGood
    <2> QED
      BY <1>7, <2>1, <2>3 DEF EnableCoins, Shape, Idle, initVars, viewVars
  <1>8. CASE GuiSend
    <2>1. Head(gui.out) \in GoodAsk /\ Tail(gui.out) \in Seq(GoodAsk)
      BY <1>8, HeadTailProperties DEF GuiSend, Shape
    <2> QED
      BY <1>8, <2>1, SendShape DEF GuiSend, Shape, initVars, viewVars
  <1>9. CASE MarkActive
    BY <1>9, EmptySeq DEF MarkActive, Shape, Idle, initVars, viewVars
  <1>10. CASE DisableCoins
    <2>1. PICK asked \in SUBSET rows, swapping \in SUBSET rows,
               del \in {{}} \cup {{c} : c \in Custom} :
            /\ rows' = rows \ Disablable(asked, swapping)
            /\ gui' = [Idle EXCEPT !.op = "disable", !.todo = Disablable(asked, swapping),
                                   !.sel = Disablable(asked, swapping), !.del = del]
      BY <1>10, Zenon DEF DisableCoins, Swapping
    <2>2. Disablable(asked, swapping) \subseteq Coin \ Default
      BY DEF Disablable, Shape
    <2>3. del \subseteq Coin \ Default
      OBVIOUS
    <2>4. /\ gui' \in [op : {"idle", "enable", "disable", "delete", "restart"},
                out : Seq(GoodAsk), todo : SUBSET (Coin \ Default),
                off : SUBSET (Coin \ Default), sel : SUBSET Coin,
                del : SUBSET (Coin \ Default)]
          /\ gui'.op = "disable"
      BY <2>1, <2>2, <2>3, EmptySeq DEF Idle
    <2> QED
      BY <1>10, <2>1, <2>4 DEF DisableCoins, Shape, initVars
  <1>11. CASE DisableRpc
    <2>1. PICK c \in gui.todo :
            /\ gui' \in {[gui EXCEPT !.todo = @ \ {c}],
                          [gui EXCEPT !.todo = @ \ {c}, !.off = {c}]}
            /\ nodeOn' \in {nodeOn, nodeOn \ {c}}
      BY <1>11 DEF DisableRpc
    <2>2. gui.op = "disable"
      BY <1>11 DEF DisableRpc
    <2>3. /\ gui' \in [op : {"idle", "enable", "disable", "delete", "restart"},
                out : Seq(GoodAsk), todo : SUBSET (Coin \ Default),
                off : SUBSET (Coin \ Default), sel : SUBSET Coin,
                del : SUBSET (Coin \ Default)]
          /\ gui'.op = "disable"
      <3>1. c \in Coin \ Default /\ {c} \subseteq Coin \ Default
        BY DEF Shape
      <3>2. CASE gui' = [gui EXCEPT !.todo = @ \ {c}]
        BY <2>2, <3>2 DEF Shape
      <3>3. CASE gui' = [gui EXCEPT !.todo = @ \ {c}, !.off = {c}]
        BY <2>2, <3>1, <3>3 DEF Shape
      <3> QED
        BY <2>1, <3>2, <3>3
    <2> QED
      BY <1>11, <2>1, <2>3 DEF DisableRpc, Shape, initVars, viewVars
  <1>12. CASE DisableCommit
    BY <1>12 DEF DisableCommit, Shape, initVars, viewVars
  <1>13. CASE MarkInactive
    BY <1>13, EmptySeq DEF MarkInactive, Shape, Idle, initVars, viewVars
  <1>14. CASE DeleteCoin
    BY <1>14, EmptySeq DEF DeleteCoin, Shape, Idle, initVars, viewVars
  <1>15. CASE Tick
    BY <1>15 DEF Tick, Shape, initVars
  <1>16. ASSUME NEW c \in Call, NodeServe(c) PROVE Shape'
    <2>1. PICK ok \in SUBSET call[c].ask :
            /\ nodeOn' = nodeOn \cup Coins(ok)
            /\ call' = [call EXCEPT ![c].stage = "served", ![c].ok = ok]
      BY <1>16 DEF NodeServe
    <2>2. call[c].ask \in SUBSET Pair
      BY DEF Shape, GoodAsk
    <2>3. nodeOn' \subseteq Coin
      BY <2>1, <2>2 DEF Shape, Coins, Pair
    <2>4. /\ call' \in [Call -> [stage : Stage, ask : GoodAsk, ok : SUBSET Pair]]
          /\ \A d \in Call : call'[d].ok \subseteq call'[d].ask
      <3>1. call[c] \in [stage : Stage, ask : GoodAsk, ok : SUBSET Pair]
        BY DEF Shape
      <3>2. /\ DOMAIN call' = Call
            /\ \A d \in Call : d # c => call'[d] = call[d]
            /\ call'[c] = [stage |-> "served", ask |-> call[c].ask, ok |-> ok]
            /\ call' = [d \in Call |-> call'[d]]
        BY <2>1, <3>1 DEF Shape
      <3>3. call'[c] \in [stage : Stage, ask : GoodAsk, ok : SUBSET Pair]
        BY <2>2, <3>1, <3>2 DEF Stage
      <3>4. call'[c].ok \subseteq call'[c].ask
        BY <3>2
      <3>5. \A d \in Call : /\ call'[d] \in [stage : Stage, ask : GoodAsk, ok : SUBSET Pair]
                             /\ call'[d].ok \subseteq call'[d].ask
        BY <3>2, <3>3, <3>4 DEF Shape
      <3> QED
        BY <3>2, <3>5
    <2> QED
      BY <1>16, <2>3, <2>4 DEF NodeServe, Shape, initVars, viewVars
  <1>17. ASSUME NEW c \in Call, LoseAnswer(c) PROVE Shape'
    BY <1>17, DefaultAskGood DEF LoseAnswer, Shape, Stage, Free, initVars, viewVars
  <1>18. ASSUME NEW c \in Call, RegisterAnswer(c) PROVE Shape'
    <2>1. enabled' \subseteq Coin
      BY <1>18 DEF RegisterAnswer, Shape, Coins, Pair
    <2>2. /\ call' \in [Call -> [stage : Stage, ask : GoodAsk, ok : SUBSET Pair]]
          /\ \A d \in Call : call'[d].ok \subseteq call'[d].ask
      BY <1>18 DEF RegisterAnswer, Shape, Stage
    <2> QED
      BY <1>18, <2>1, <2>2 DEF RegisterAnswer, Shape, initVars, viewVars
  <1>19. ASSUME NEW c \in Call, Publish(c) PROVE Shape'
    BY <1>19, DefaultAskGood DEF Publish, Shape, Stage, Free, Tags, GoodAsk, Pair, initVars
  <1>20. CASE UNCHANGED vars
    BY <1>20 DEF vars, Shape
  <1> QED
    BY <1>1, <1>2, <1>3, <1>4, <1>5, <1>6, <1>7, <1>8, <1>9, <1>10, <1>11, <1>12,
       <1>13, <1>14, <1>15, <1>16, <1>17, <1>18, <1>19, <1>20
    DEF Next, InitThread, Answering, GuiUser, GuiWork

\* Every variable keeps its type: m_current_status, the registry flags, the
\* batches in flight and the GUI thread's work are always well-formed.
THEOREM TypeCorrect == Spec => []TypeOK
  <1>1. Shape => TypeOK
    <2>1. GoodAsk \subseteq SUBSET Pair
      BY DEF GoodAsk
    <2>2. Seq(GoodAsk) \subseteq Seq(SUBSET Pair)
      BY <2>1, SeqMonotonic
    <2> QED
      BY <2>1, <2>2 DEF Shape, TypeOK, Stage
  <1> QED
    BY <1>1, ShapeInit, ShapeStep, PTL DEF Spec

-----------------------------------------------------------------------------
(* The registry against the mm2 process.                                   *)

\* A step that turns nothing off in mm2, registers nothing and makes no new
\* successful answer keeps NodeInv.
LEMMA NodeFrame ==
    ASSUME NodeInv,
           enabled' \ gui'.off \subseteq enabled \ gui.off,
           nodeOn \subseteq nodeOn',
           \A c \in Call : Fresh(c)' \subseteq Fresh(c)
    PROVE  NodeInv'
  <1>1. EnabledOnNode'
    BY DEF NodeInv, EnabledOnNode
  <1>2. ASSUME NEW c \in Call
        PROVE  Fresh(c)' \subseteq nodeOn' \ (enabled' \ gui'.off)
    BY DEF NodeInv
  <1>3. ASSUME NEW c \in Call, NEW d \in Call, c # d
        PROVE  Fresh(c)' \cap Fresh(d)' = {}
    <2>1. Fresh(c) \cap Fresh(d) = {}
      BY <1>3 DEF NodeInv
    <2> QED
      BY <2>1
  <1> QED
    BY <1>1, <1>2, <1>3 DEF NodeInv

LEMMA NodeInit == Init => NodeInv
  BY DEF Init, NodeInv, EnabledOnNode, Fresh, Free

LEMMA NodeStep == Shape /\ NodeInv /\ [Next]_vars => NodeInv'
  <1> SUFFICES ASSUME Shape, NodeInv, [Next]_vars PROVE NodeInv'
    OBVIOUS
  <1>1. CASE UNCHANGED <<enabled, nodeOn, call, gui>>
    BY <1>1, NodeFrame DEF Fresh
  <1>2. CASE Login \/ PollFails \/ Initialized \/ EnableDefaults \/ MarkRunning \/ Tick
    BY <1>1, <1>2 DEF Login, PollFails, Initialized, EnableDefaults, MarkRunning, Tick
  <1>3. ASSUME UNCHANGED <<enabled, nodeOn, gui.off>>,
               NEW c \in Call, NEW ask, Send(c, ask)
        PROVE  NodeInv'
    <2>1. \A d \in Call : Fresh(d)' \subseteq Fresh(d)
      BY <1>3 DEF Send, Fresh, Shape
    <2> QED
      BY <1>3, <2>1, NodeFrame
  <1>4. CASE InitSend \/ GuiSend
    <2>1. UNCHANGED <<enabled, nodeOn, gui.off>>
      BY <1>4 DEF InitSend, GuiSend, Shape
    <2> QED
      BY <1>3, <1>4, <2>1 DEF InitSend, GuiSend
  <1>5. CASE EnableCoins \/ DisableCoins \/ MarkActive \/ MarkInactive
    <2>1. UNCHANGED <<enabled, nodeOn, call>>
      BY <1>5 DEF EnableCoins, DisableCoins, MarkActive, MarkInactive
    <2>2. gui.off = {}
      BY <1>5 DEF EnableCoins, DisableCoins, MarkActive, MarkInactive, Shape, GuiReady
    <2>3. gui'.off = {}
      <3>1. CASE EnableCoins
        BY <3>1 DEF EnableCoins, Idle
      <3>2. CASE DisableCoins
        BY <3>2 DEF DisableCoins, Idle
      <3>3. CASE MarkActive
        BY <3>3 DEF MarkActive, Idle
      <3>4. CASE MarkInactive
        BY <2>2, <3>4 DEF MarkInactive, Idle, Shape
      <3> QED
        BY <1>5, <3>1, <3>2, <3>3, <3>4
    <2> QED
      BY <2>1, <2>2, <2>3, NodeFrame DEF Fresh
  <1>6. CASE DisableRpc
    <2>1. /\ UNCHANGED <<enabled, call>>
          /\ gui.off = {}
      BY <1>6 DEF DisableRpc
    <2>2. PICK c \in gui.todo :
            \/ /\ gui' = [gui EXCEPT !.todo = @ \ {c}]
               /\ UNCHANGED nodeOn
            \/ /\ c \in enabled
               /\ nodeOn' \in {nodeOn, nodeOn \ {c}}
               /\ gui' = [gui EXCEPT !.todo = @ \ {c}, !.off = {c}]
      BY <1>6 DEF DisableRpc
    <2>3. CASE gui' = [gui EXCEPT !.todo = @ \ {c}] /\ UNCHANGED nodeOn
      <3>1. gui'.off = gui.off
        BY <2>3 DEF Shape
      <3> QED
        BY <2>1, <2>3, <3>1, NodeFrame DEF Fresh
    <2>4. CASE /\ c \in enabled
               /\ nodeOn' \in {nodeOn, nodeOn \ {c}}
               /\ gui' = [gui EXCEPT !.todo = @ \ {c}, !.off = {c}]
      <3>1. gui'.off = {c}
        BY <2>4 DEF Shape
      <3>2. EnabledOnNode'
        BY <2>1, <2>4, <3>1 DEF NodeInv, EnabledOnNode
      <3>3. \A d \in Call : Fresh(d)' = Fresh(d)
        BY <2>1 DEF Fresh
      <3>4. \A d \in Call : Fresh(d) \subseteq nodeOn' \ (enabled' \ gui'.off)
        BY <2>1, <2>4, <3>1 DEF NodeInv
      <3> QED
        BY <3>2, <3>3, <3>4 DEF NodeInv
    <2> QED
      BY <2>2, <2>3, <2>4
  <1>7. CASE DisableCommit
    <2>1. gui'.off = {}
      BY <1>7 DEF DisableCommit, Shape
    <2> QED
      BY <1>7, <2>1, NodeFrame DEF DisableCommit, Fresh
  <1>8. CASE DeleteCoin
    <2>1. gui.off = {} /\ gui'.off = {}
      BY <1>8 DEF DeleteCoin, Shape, Idle
    <2> QED
      BY <1>8, <2>1, NodeFrame DEF DeleteCoin, Fresh
  <1>9. ASSUME NEW c \in Call, NodeServe(c) PROVE NodeInv'
    <2>1. PICK ok \in SUBSET call[c].ask :
            /\ \A p \in ok : p[1] \notin nodeOn
            /\ nodeOn' = nodeOn \cup Coins(ok)
            /\ call' = [call EXCEPT ![c].stage = "served", ![c].ok = ok]
      BY <1>9 DEF NodeServe
    <2>2. UNCHANGED <<enabled, gui>>
      BY <1>9 DEF NodeServe
    <2>3. Fresh(c)' = Coins(ok) /\ Coins(ok) \cap nodeOn = {}
      BY <2>1 DEF Fresh, Shape, Coins
    <2>4. \A d \in Call : d # c => Fresh(d)' = Fresh(d)
      BY <2>1 DEF Fresh, Shape
    <2>5. EnabledOnNode'
      BY <2>1, <2>2 DEF NodeInv, EnabledOnNode
    <2>6. \A d \in Call : Fresh(d)' \subseteq nodeOn' \ (enabled' \ gui'.off)
      BY <2>1, <2>2, <2>3, <2>4 DEF NodeInv, EnabledOnNode
    <2>7. \A d \in Call : d # c => Fresh(d)' \cap Fresh(c)' = {}
      BY <2>3, <2>4 DEF NodeInv
    <2>8. \A b, d \in Call : b # d => Fresh(b)' \cap Fresh(d)' = {}
      BY <2>4, <2>7 DEF NodeInv
    <2> QED
      BY <2>5, <2>6, <2>8 DEF NodeInv
  <1>10. ASSUME NEW c \in Call, RegisterAnswer(c) PROVE NodeInv'
    <2>1. /\ UNCHANGED <<nodeOn, gui>>
          /\ enabled' = enabled \cup Fresh(c)
      BY <1>10 DEF RegisterAnswer, Fresh
    <2>2. Fresh(c)' = {} /\ \A d \in Call : d # c => Fresh(d)' = Fresh(d)
      BY <1>10 DEF RegisterAnswer, Fresh, Shape
    <2>3. EnabledOnNode'
      BY <2>1 DEF NodeInv, EnabledOnNode
    <2>4. \A d \in Call : Fresh(d)' \subseteq nodeOn' \ (enabled' \ gui'.off)
      BY <2>1, <2>2 DEF NodeInv
    <2> QED
      BY <2>2, <2>3, <2>4 DEF NodeInv
  <1>11. ASSUME NEW c \in Call, LoseAnswer(c) \/ Publish(c) PROVE NodeInv'
    <2>1. \A d \in Call : Fresh(d)' \subseteq Fresh(d)
      BY <1>11 DEF LoseAnswer, Publish, Free, Fresh, Shape
    <2> QED
      BY <1>11, <2>1, NodeFrame DEF LoseAnswer, Publish
  <1>12. CASE UNCHANGED vars
    BY <1>1, <1>12 DEF vars
  <1> QED
    BY <1>2, <1>4, <1>5, <1>6, <1>7, <1>8, <1>9, <1>10, <1>11, <1>12
    DEF Next, InitThread, Answering, GuiUser, GuiWork

\* Whatever the order of requests and answers, the registry never claims a coin
\* that mm2 does not have on, the one being disabled excepted.
THEOREM RegistryAgreesWithNode == Spec => []EnabledOnNode
  <1>1. NodeInv => EnabledOnNode
    BY DEF NodeInv
  <1> QED
    BY <1>1, ShapeInit, ShapeStep, NodeInit, NodeStep, PTL DEF Spec

-----------------------------------------------------------------------------
(* The default coins.                                                      *)

\* A step that disables no default coin, publishes nothing and handles no answer
\* keeps DefaultInv.
LEMMA DefaultFrame ==
    ASSUME Shape, DefaultInv,
           status' = "complete" => status = "complete",
           up' = up, queue' = queue,
           up \subseteq rows',
           enabled \cap Default \subseteq enabled',
           \A c \in Call : call'[c].stage = "handled" => call'[c] = call[c]
    PROVE  DefaultInv'
  <1>1. status' = "complete" => up' = Default
    BY DEF DefaultInv
  <1>2. \A p \in DefaultAsk : p[2] \in up' \cup queue' => p[1] \in enabled'
    BY DEF DefaultInv, DefaultAsk, Default
  <1>3. ASSUME NEW c \in Call, call'[c].stage = "handled"
        PROVE  Coins(call'[c].ok) \subseteq enabled' \cup (Coin \ Default)
    <2>1. Coins(call[c].ok) \subseteq enabled \cup (Coin \ Default)
      BY <1>3 DEF DefaultInv
    <2>2. enabled \subseteq enabled' \cup (Coin \ Default)
      BY DEF Shape
    <2> QED
      BY <1>3, <2>1, <2>2
  <1> QED
    BY <1>1, <1>2, <1>3 DEF DefaultInv

LEMMA DefaultInit == Init => DefaultInv
  BY DEF Init, DefaultInv, Free, DefaultAsk

LEMMA DefaultStep == Shape /\ DefaultInv /\ [Next]_vars => DefaultInv'
  <1> SUFFICES ASSUME Shape, DefaultInv, [Next]_vars PROVE DefaultInv'
    OBVIOUS
  <1>0. up \subseteq rows
    BY DEF DefaultInv
  <1>1. CASE Login \/ PollFails \/ Initialized \/ EnableDefaults \/ MarkRunning
    BY <1>0, <1>1, DefaultFrame
    DEF Login, PollFails, Initialized, EnableDefaults, MarkRunning
  <1>2. CASE InitSend \/ GuiSend
    <2>1. PICK c \in Call : \E ask : Send(c, ask)
      BY <1>2 DEF InitSend, GuiSend
    <2>2. \A d \in Call : call'[d].stage = "handled" => call'[d] = call[d]
      BY <2>1 DEF Send, Shape
    <2> QED
      BY <1>0, <1>2, <2>2, DefaultFrame DEF InitSend, GuiSend, viewVars
  <1>3. CASE EnableCoins \/ MarkActive \/ MarkInactive \/ DisableRpc
    BY <1>0, <1>3, DefaultFrame
    DEF EnableCoins, MarkActive, MarkInactive, DisableRpc, viewVars
  <1>4. CASE DisableCoins
    <2>1. PICK asked \in SUBSET rows, swapping \in SUBSET rows :
            rows' = rows \ Disablable(asked, swapping)
      BY <1>4, Zenon DEF DisableCoins, Swapping
    <2>2. up \subseteq rows'
      BY <1>0, <2>1 DEF Disablable, Shape
    <2> QED
      BY <1>4, <2>2, DefaultFrame DEF DisableCoins
  <1>5. CASE DisableCommit \/ DeleteCoin
    <2>1. enabled \cap Default \subseteq enabled'
      BY <1>5 DEF DisableCommit, DeleteCoin, Shape
    <2> QED
      BY <1>0, <1>5, <2>1, DefaultFrame DEF DisableCommit, DeleteCoin, viewVars
  <1>6. CASE Tick
    <2>1. status' = "complete" => up' = Default
      BY <1>6 DEF Tick, DefaultInv, Shape
    <2>2. up' \subseteq rows'
      BY <1>0, <1>6 DEF Tick
    <2>3. \A p \in DefaultAsk : p[2] \in up' \cup queue' => p[1] \in enabled'
      BY <1>6 DEF Tick, DefaultInv
    <2> QED
      BY <1>6, <2>1, <2>2, <2>3 DEF Tick, DefaultInv
  <1>7. ASSUME NEW c \in Call, NodeServe(c) \/ LoseAnswer(c) PROVE DefaultInv'
    <2>1. \A d \in Call : call'[d].stage = "handled" => call'[d] = call[d]
      BY <1>7 DEF NodeServe, LoseAnswer, Free, Shape
    <2> QED
      BY <1>0, <1>7, <2>1, DefaultFrame DEF NodeServe, LoseAnswer, viewVars
  <1>8. ASSUME NEW c \in Call, RegisterAnswer(c) PROVE DefaultInv'
    <2>1. /\ UNCHANGED <<queue, up, rows, status>>
          /\ enabled' = enabled \cup Coins(call[c].ok)
      BY <1>8 DEF RegisterAnswer, viewVars
    <2>2. call'[c].ok = call[c].ok /\ \A d \in Call : d # c => call'[d] = call[d]
      BY <1>8 DEF RegisterAnswer, Shape
    <2>3. \A d \in Call : Coins(call[d].ok) \subseteq Coin
      BY DEF Shape, GoodAsk, Coins, Pair
    <2>4. \A d \in Call : call'[d].stage = "handled" =>
             Coins(call'[d].ok) \subseteq enabled' \cup (Coin \ Default)
      BY <2>1, <2>2, <2>3 DEF DefaultInv
    <2> QED
      BY <2>1, <2>4 DEF DefaultInv
  <1>9. ASSUME NEW c \in Call, Publish(c) PROVE DefaultInv'
    <2>1. /\ UNCHANGED <<enabled, up, rows, status>>
          /\ call[c].stage = "handled"
          /\ queue' = queue \cup (Tags(call[c].ask) \ Tags(call[c].ask \ call[c].ok))
      BY <1>9 DEF Publish
    <2>2. \A d \in Call : call'[d].stage = "handled" => call'[d] = call[d]
      BY <1>9 DEF Publish, Free, Shape
    <2>3. ASSUME NEW p \in DefaultAsk,
                 p[2] \in Tags(call[c].ask) \ Tags(call[c].ask \ call[c].ok)
          PROVE  p[1] \in enabled
      <3>1. PICK q \in call[c].ok : q \in call[c].ask /\ q[2] = p[2]
        BY <2>3 DEF Tags, Shape
      <3>2. p[2] \in Default /\ p[1] \in Default
        BY DEF DefaultAsk, Default
      <3>3. q \in DefaultAsk
        BY <3>1, <3>2 DEF Shape, GoodAsk
      <3>4. q[1] = p[1]
        BY <3>1, <3>3 DEF DefaultAsk
      <3>5. p[1] \in Coins(call[c].ok)
        BY <3>1, <3>4 DEF Coins
      <3> QED
        BY <2>1, <3>2, <3>5 DEF DefaultInv
    <2>4. \A p \in DefaultAsk : p[2] \in up' \cup queue' => p[1] \in enabled'
      BY <2>1, <2>3 DEF DefaultInv
    <2> QED
      BY <2>1, <2>2, <2>4 DEF DefaultInv
  <1>10. CASE UNCHANGED vars
    BY <1>0, <1>10, DefaultFrame DEF vars
  <1> QED
    BY <1>1, <1>2, <1>3, <1>4, <1>5, <1>6, <1>7, <1>8, <1>9, <1>10
    DEF Next, InitThread, Answering, GuiUser, GuiWork

\* A wallet that is "complete" has both default coins on in mm2, enabled in the
\* registry and shown in the portfolio, whatever the user and mm2 did before.
THEOREM CompleteMeansReady == Spec => []CompleteMeansDefaultsReady
  <1>1. IInv => CompleteMeansDefaultsReady
    <2> SUFFICES ASSUME IInv, status = "complete", NEW d \in Default
                 PROVE  d \in enabled \cap nodeOn \cap rows
      BY DEF CompleteMeansDefaultsReady
    <2>1. up = Default /\ d \in rows
      BY DEF IInv, DefaultInv
    <2>2. d \in enabled
      <3>1. PICK p \in DefaultAsk : p[1] = d /\ p[2] \in Default
        BY DEF DefaultAsk, Default
      <3> QED
        BY <2>1, <3>1 DEF IInv, DefaultInv
    <2>3. d \notin gui.off
      BY DEF IInv, Shape
    <2> QED
      BY <2>1, <2>2, <2>3 DEF IInv, NodeInv, EnabledOnNode
  <1>2. Init => IInv
    BY ShapeInit, NodeInit, DefaultInit DEF IInv
  <1>3. IInv /\ [Next]_vars => IInv'
    BY ShapeStep, NodeStep, DefaultStep DEF IInv
  <1> QED
    BY <1>1, <1>2, <1>3, PTL DEF Spec

-----------------------------------------------------------------------------
(* Refinement: the registry is a sound view of the node.                   *)

\* A step that changes neither the coins counted on nor those of the node.
LEMMA RegistryStutters ==
    (enabled \ gui.off)' = enabled \ gui.off /\ nodeOn' = nodeOn => UNCHANGED Registry!vars
  BY DEF Registry!vars

\* Every step of the session is one of the abstract registry, or none.
LEMMA RegistryStep == Shape /\ NodeInv /\ [Next]_vars => [Registry!Next]_(Registry!vars)
  <1> SUFFICES ASSUME Shape, NodeInv, [Next]_vars
               PROVE  Registry!Next \/ UNCHANGED Registry!vars
    OBVIOUS
  <1>1. CASE InitThread
    BY <1>1, RegistryStutters
    DEF InitThread, PollFails, Initialized, EnableDefaults, InitSend, MarkRunning
  <1>2. CASE GuiUser
    BY <1>2, RegistryStutters DEF GuiUser, Login, EnableCoins, DisableCoins, GuiReady, Idle, Shape
  <1>3. CASE Tick
    BY <1>3, RegistryStutters DEF Tick
  <1>4. CASE GuiSend \/ MarkActive \/ MarkInactive
    <2>1. enabled' = enabled /\ nodeOn' = nodeOn
      BY <1>4 DEF GuiSend, MarkActive, MarkInactive
    <2>2. gui'.off = gui.off
      <3>1. CASE GuiSend
        BY <3>1 DEF GuiSend, Shape
      <3>2. CASE MarkActive
        BY <3>2 DEF MarkActive, Idle, Shape
      <3>3. CASE MarkInactive
        BY <3>3 DEF MarkInactive, Idle, Shape
      <3> QED
        BY <1>4, <3>1, <3>2, <3>3
    <2> QED
      BY <2>1, <2>2, RegistryStutters
  <1>5. CASE DisableRpc
    <2>1. PICK c \in gui.todo :
            \/ gui' = [gui EXCEPT !.todo = @ \ {c}] /\ UNCHANGED nodeOn
            \/ /\ c \in enabled \cap nodeOn /\ nodeOn' = nodeOn \ {c}
               /\ gui' = [gui EXCEPT !.todo = @ \ {c}, !.off = {c}]
            \/ /\ c \in enabled
               /\ gui' = [gui EXCEPT !.todo = @ \ {c}, !.off = {c}] /\ UNCHANGED nodeOn
      BY <1>5 DEF DisableRpc
    <2>2. gui.off = {} /\ enabled' = enabled /\ c \in Coin
      BY <1>5 DEF DisableRpc, Shape
    <2>3. CASE gui' = [gui EXCEPT !.todo = @ \ {c}] /\ UNCHANGED nodeOn
      BY <2>2, <2>3, RegistryStutters DEF Shape
    <2>4. CASE /\ c \in enabled \cap nodeOn /\ nodeOn' = nodeOn \ {c}
               /\ gui' = [gui EXCEPT !.todo = @ \ {c}, !.off = {c}]
      <3>1. gui'.off = {c}
        BY <2>4 DEF Shape
      <3>2. Registry!SwitchOff(c)
        BY <2>2, <2>4, <3>1 DEF Registry!SwitchOff
      <3> QED
        BY <2>2, <3>2 DEF Registry!Next
    <2>5. CASE /\ c \in enabled
               /\ gui' = [gui EXCEPT !.todo = @ \ {c}, !.off = {c}] /\ UNCHANGED nodeOn
      <3>1. gui'.off = {c}
        BY <2>5 DEF Shape
      <3>2. Registry!Forget({c})
        BY <2>2, <2>5, <3>1 DEF Registry!Forget
      <3> QED
        BY <2>2, <3>2 DEF Registry!Next
    <2> QED
      BY <2>1, <2>3, <2>4, <2>5
  <1>6. CASE DisableCommit
    <2>1. enabled' = enabled \ gui.off /\ gui'.off = {} /\ nodeOn' = nodeOn
      BY <1>6 DEF DisableCommit, Shape
    <2> QED
      BY <2>1, RegistryStutters
  <1>7. CASE DeleteCoin
    <2>1. /\ enabled' = enabled \ gui.del /\ gui'.off = {} /\ nodeOn' = nodeOn
          /\ gui.off = {} /\ gui.del \in SUBSET Coin
      BY <1>7 DEF DeleteCoin, Idle, Shape
    <2>2. Registry!Forget(gui.del)
      BY <2>1 DEF Registry!Forget
    <2> QED
      BY <2>1, <2>2 DEF Registry!Next
  <1>8. ASSUME NEW c \in Call, NodeServe(c) PROVE Registry!Next
    <2>1. PICK ok \in SUBSET call[c].ask : nodeOn' = nodeOn \cup Coins(ok)
      BY <1>8 DEF NodeServe
    <2>2. Coins(ok) \in SUBSET Coin
      BY <2>1 DEF Shape, GoodAsk, Coins, Pair
    <2>3. Registry!SwitchOn(Coins(ok))
      BY <1>8, <2>1 DEF NodeServe, Registry!SwitchOn
    <2> QED
      BY <2>2, <2>3 DEF Registry!Next
  <1>9. ASSUME NEW c \in Call, RegisterAnswer(c) PROVE Registry!Next
    <2> DEFINE S == Coins(call[c].ok) \ gui.off
    <2>1. /\ enabled' = enabled \cup Coins(call[c].ok) /\ UNCHANGED <<nodeOn, gui>>
          /\ call[c].stage = "served"
      BY <1>9 DEF RegisterAnswer
    <2>2. S \subseteq nodeOn
      BY <2>1 DEF NodeInv, Fresh
    <2>3. S \in SUBSET Coin
      BY DEF Shape, Coins, Pair
    <2>4. Registry!Learn(S)
      BY <2>1, <2>2 DEF Registry!Learn
    <2> QED
      BY <2>3, <2>4 DEF Registry!Next
  <1>10. ASSUME NEW c \in Call, LoseAnswer(c) \/ Publish(c) PROVE UNCHANGED Registry!vars
    BY <1>10, RegistryStutters DEF LoseAnswer, Publish
  <1>11. CASE UNCHANGED vars
    BY <1>11, RegistryStutters DEF vars
  <1> QED
    BY <1>1, <1>2, <1>3, <1>4, <1>5, <1>6, <1>7, <1>8, <1>9, <1>10, <1>11
    DEF Next, Answering, GuiWork

\* CoinLifecycle implements NodeRegistry: whatever the order of enable requests,
\* disables and answers, the wallet counts on a coin only between the moment mm2
\* switches it on and the moment mm2 switches it off.
THEOREM RegistryRefined == Spec => RegistryIsSound
  <1>1. Init => Registry!Init
    BY DEF Init, Idle, Registry!Init
  <1>2. Init => Shape /\ NodeInv
    BY ShapeInit, NodeInit
  <1>3. Shape /\ NodeInv /\ [Next]_vars => (Shape /\ NodeInv)'
    BY ShapeStep, NodeStep
  <1> QED
    BY <1>1, <1>2, <1>3, RegistryStep, PTL DEF Spec, RegistryIsSound, Registry!Spec

=============================================================================
