------------------------- MODULE WalletPage_proofs --------------------------
(***************************************************************************)
(* Theorems about WalletPage for any coins, amounts, budgets and failures: *)
(* the flags that disable the buttons are up only while a request is in    *)
(* flight, and what is to be confirmed has been prepared.                  *)
(***************************************************************************)
EXTENDS WalletPage, TLAPS

\* A request in flight is one of the kinds, and only a broadcast goes on in a second
\* step, with the balance it has read.
WellFormed(op) ==
    /\ DOMAIN op = {"kind", "coin", "amount", "read"}
    /\ op = [x \in DOMAIN op |-> op[x]]
    /\ op.read # None => op.kind \in {"broadcast", "throw"}

Inv ==
    /\ \A op \in ops : WellFormed(op)
    /\ BusyMeansWaiting
    /\ ConfirmedHasTransaction

LEMMA RequestIsWellFormed ==
    ASSUME Inv, NEW kind, NEW c, NEW a, Request(kind, c, a)
    PROVE  /\ \A op \in ops' : WellFormed(op)
           /\ \E op \in ops' : op.kind = kind
           /\ ops \subseteq ops'
<1> DEFINE new == [kind |-> kind, coin |-> c, amount |-> a, read |-> None]
<1>1. WellFormed(new) /\ new.kind = kind
  BY DEF WellFormed
<1>2. ops' = ops \cup {new}
  BY DEF Request
<1> HIDE DEF new
<1> QED BY <1>1, <1>2 DEF Inv

USE DEF worldVars, txVars, balVars, modalVars, pageVars, sessVars, othersOfSending, othersOfHistory

\* What does not touch the requests, the flags and the modal.
LEMMA InvStill ==
    ASSUME Inv, UNCHANGED <<ops, busy, page, result>> PROVE Inv'
  BY DEF Inv, BusyMeansWaiting, ConfirmedHasTransaction

\* A request is sent, and the flag of its kind is raised.
LEMMA InvRequest ==
    ASSUME Inv, NEW kind, NEW c, NEW a, NEW flag, Raise(flag), Request(kind, c, a),
           flag = (IF kind = "throw" THEN "broadcast" ELSE kind), UNCHANGED <<page, result>>
    PROVE  Inv'
  BY RequestIsWellFormed DEF Inv, Raise, BusyMeansWaiting, ConfirmedHasTransaction

LEMMA InvWorld == ASSUME Inv, World PROVE Inv'
  BY InvStill DEF World, BalanceChanges, TransactionArrives, TransactionConfirms

LEMMA InvUser == ASSUME Inv, User PROVE Inv'
<1>1. ASSUME NEW c \in Coin, SelectTicker(c) \/ EnableCoin(c) PROVE Inv'
  BY <1>1, InvStill DEF SelectTicker, EnableCoin
<1>2. CASE OpenOrLeave \/ OpenModal \/ CloseModal \/ Back
  BY <1>2 DEF OpenOrLeave, OpenModal, CloseModal, Back, Inv, BusyMeansWaiting, ConfirmedHasTransaction
<1>3. CASE Prepare
  BY <1>3, InvRequest DEF Prepare
<1>4. CASE Claim
  BY <1>4, InvRequest DEF Claim
<1>5. CASE BroadcastClaim
  BY <1>5, InvRequest DEF BroadcastClaim
<1>6. CASE ClaimFaucet
  BY <1>6, InvRequest DEF ClaimFaucet
<1>7. CASE PrepThrow
  BY <1>7, InvRequest DEF PrepThrow
<1>8. CASE FetchMore
  BY <1>8, InvStill DEF FetchMore
<1>9. ASSUME NEW a \in Amount \ {0}, Broadcast(a) PROVE Inv'
  BY <1>9, InvRequest DEF Broadcast
<1> QED BY <1>1, <1>2, <1>3, <1>4, <1>5, <1>6, <1>7, <1>8, <1>9 DEF User

LEMMA InvTimer == ASSUME Inv, Timer PROVE Inv'
<1>1. CASE FetchInfos \/ UpdatePage \/ RefreshTickerInfos
  BY <1>1, InvStill DEF FetchInfos, UpdatePage, RefreshTickerInfos
<1>2. ASSUME NEW a \in Amount \ {0}, BroadcastThrow(a) PROVE Inv'
  <2>1. CASE thrown = None
    BY <1>2, <2>1, InvStill DEF BroadcastThrow
  <2>2. CASE thrown # None
    BY <1>2, <2>2, InvRequest DEF BroadcastThrow
  <2> QED BY <2>1, <2>2
<1> QED BY <1>1, <1>2 DEF Timer

\* An answer that is not the last of its kind finds its flag lowered all the same.
LEMMA InvAnswered ==
    ASSUME Inv, NEW op \in ops, ops' = ops \ {op},
           busy' = busy \ {IF op.kind = "throw" THEN "broadcast" ELSE op.kind},
           ConfirmedHasTransaction'
    PROVE  Inv'
  BY DEF Inv, BusyMeansWaiting

LEMMA InvContinuation == ASSUME Inv, Continuation PROVE Inv'
<1>1. ASSUME NEW b \in balances, CheckBalance(b) \/ StoreBalance(b) PROVE Inv'
  BY <1>1, InvStill DEF CheckBalance, StoreBalance
<1>2. ASSUME NEW h \in histories, StoreHistory(h) \/ StoreScan(h) \/ TellAgain(h) PROVE Inv'
  BY <1>2, InvStill DEF StoreHistory, StoreScan, TellAgain
<1>3. ASSUME NEW op \in ops, SendAnswered(op) PROVE Inv'
  <2>1. PICK c \in Withdrawn(op) : ShowPrepared(c)
    BY <1>3 DEF SendAnswered
  <2>2. ConfirmedHasTransaction'
    BY <2>1 DEF ShowPrepared, Inv, ConfirmedHasTransaction
  <2> QED BY <1>3, <2>2, InvAnswered DEF SendAnswered
<1>4. ASSUME NEW op \in ops, ClaimAnswered(op) PROVE Inv'
  <2>1. ConfirmedHasTransaction'
    BY <1>4 DEF ClaimAnswered, Inv, ConfirmedHasTransaction
  <2> QED BY <1>4, <2>1, InvAnswered DEF ClaimAnswered
<1>5. ASSUME NEW op \in ops, FaucetAnswered(op) PROVE Inv'
  BY <1>5 DEF FaucetAnswered, Inv, BusyMeansWaiting, ConfirmedHasTransaction
<1>6. ASSUME NEW op \in ops, BroadcastAnswered(op) PROVE Inv'
  <2>1. ASSUME NEW pages, pages \subseteq {"fill", "done"}, ShowBroadcast(pages)
        PROVE  ConfirmedHasTransaction'
    BY <2>1 DEF ShowBroadcast, Inv, ConfirmedHasTransaction
  <2>2. ConfirmedHasTransaction'
    BY <1>6, <2>1 DEF BroadcastAnswered
  <2>3. CASE busy' = busy \ {"broadcast"} /\ ops' = ops \ {op}
    BY <1>6, <2>2, <2>3 DEF BroadcastAnswered, Inv, BusyMeansWaiting
  <2>4. CASE /\ busy' = busy /\ pin /\ known[BroadcastCoin(op)] # None
             /\ ops' = (ops \ {op}) \cup
                   {[op EXCEPT !.coin = BroadcastCoin(op), !.read = known[BroadcastCoin(op)]]}
    <3> DEFINE new == [op EXCEPT !.coin = BroadcastCoin(op), !.read = known[BroadcastCoin(op)]]
    <3>1. WellFormed(op) /\ op.kind \in {"broadcast", "throw"}
      BY <1>6 DEF Inv, BroadcastAnswered
    <3>2. WellFormed(new) /\ new.kind = op.kind
      BY <3>1 DEF WellFormed
    <3> HIDE DEF new
    <3>3. ops' = (ops \ {op}) \cup {new}
      BY <2>4 DEF new
    <3> QED BY <2>2, <2>4, <3>1, <3>2, <3>3 DEF Inv, BusyMeansWaiting
  <2> QED BY <1>6, <2>3, <2>4 DEF BroadcastAnswered
<1>7. ASSUME NEW op \in ops, DecreaseBalance(op) PROVE Inv'
  <2>1. op.kind \in {"broadcast", "throw"}
    BY <1>7 DEF Inv, WellFormed, DecreaseBalance
  <2>2. ConfirmedHasTransaction'
    BY <1>7 DEF DecreaseBalance, Inv, ConfirmedHasTransaction
  <2> QED BY <1>7, <2>1, <2>2 DEF DecreaseBalance, Inv, BusyMeansWaiting
<1> QED BY <1>1, <1>2, <1>3, <1>4, <1>5, <1>6, <1>7 DEF Continuation

LEMMA InvInitially == ASSUME Init PROVE Inv
  BY DEF Init, Inv, BusyMeansWaiting, ConfirmedHasTransaction

LEMMA InvNext == ASSUME Inv, [Next]_vars PROVE Inv'
<1>1. CASE UNCHANGED vars
  BY <1>1, InvStill DEF vars
<1>2. ASSUME NEW r \in asked, Answer(r) \/ LoseAnswer(r) PROVE Inv'
  BY <1>2, InvStill DEF Answer, LoseAnswer
<1> QED BY <1>1, <1>2, InvWorld, InvUser, InvTimer, InvContinuation DEF Next

-----------------------------------------------------------------------------
(* The theorems.                                                           *)

\* Whatever fails, and in whatever order the answers come, no button stays disabled
\* when nothing is in flight any more.
THEOREM BusyAlwaysWaits == Spec => []BusyMeansWaiting
<1>1. Inv => BusyMeansWaiting
  BY DEF Inv
<1> QED BY <1>1, InvInitially, InvNext, PTL DEF Spec

\* The page that asks to confirm never lacks a transaction.
THEOREM ConfirmedAlwaysHasTransaction == Spec => []ConfirmedHasTransaction
<1>1. Inv => ConfirmedHasTransaction
  BY DEF Inv
<1> QED BY <1>1, InvInitially, InvNext, PTL DEF Spec
=============================================================================
