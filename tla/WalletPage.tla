----------------------------- MODULE WalletPage -----------------------------
(***************************************************************************)
(* The wallet page: balances and the transaction history of the selected   *)
(* coin, preparing, confirming and broadcasting a transaction, and the     *)
(* games page that sends ("throws") by timer through the same page.        *)
(*                                                                         *)
(*   - the GUI thread: the user, the timers of mm2_service::update (30 s), *)
(*     wallet_page::update (1 s) and AutoHedge.qml;                        *)
(*   - mm2 and the token scanner, which read what they answer (Answer) at  *)
(*     a time of their own;                                                *)
(*   - pplx pool threads, which run the continuations in any order.        *)
(*                                                                         *)
(* Amounts are small numbers, a prepared transaction is the coin it is of, *)
(* a history is the sequence of its transactions, newest first.  Answers   *)
(* of the same content that are in flight together are one.                *)
(***************************************************************************)
EXTENDS Naturals, Sequences, FiniteSets, SequencesExt

CONSTANTS
    None,      \* "nothing yet"
    Coin,      \* coins of the coins file; those enabled are on
    Erc,       \* is_erc_family: their history comes from a scanner
    FeesCoin,  \* fees_ticker: the coin that pays a coin's fees
    AutoCoin,  \* General.apCurrentTicker
    MaxAmount, \* amounts are 0 .. MaxAmount
    Limit,     \* g_file_count_limit
    Tx,        \* 1 .. some number of transactions
    Scenarios, \* bound: how sessions begin, and what may happen in each
    Fault      \* "lost": no usable answer; "refused": mm2 answers an error

Budget == [tx : Nat, change : Nat, select : Nat, act : Nat, late : Nat]
Scenario == [pin : BOOLEAN, on : SUBSET Coin, ticker : Coin, left : Budget]

ASSUME CoinAssumption ==
    /\ None \notin Coin
    /\ Erc \subseteq Coin
    /\ FeesCoin \in [Coin -> Coin]
    /\ AutoCoin \in Coin
ASSUME BoundAssumption ==
    /\ MaxAmount \in Nat \ {0}
    /\ Limit \in Nat \ {0}
    /\ Tx = 1 .. Cardinality(Tx)
    /\ \A s \in Scenarios : s \in Scenario /\ s.ticker \in s.on
    /\ Fault \subseteq {"lost", "refused"}

Amount == 0 .. MaxAmount

\* What mm2 tells of a transaction: all is 0 until it is confirmed.  A row has the
\* time of the answer for one that is not.
Now == 2
Transaction == [tx_hash : Tx, timestamp : 0 .. 1, confirmations : 0 .. 1, block_height : 0 .. 1]
Row == [tx_hash : Tx, timestamp : {1, Now}, confirmations : 0 .. 1, block_height : 0 .. 1,
        unconfirmed : BOOLEAN]

Prepared == Coin \cup {None}      \* the coin of a prepared transaction
Op == {"send", "broadcast", "throw", "claim", "faucet"}

VARIABLES
    real, chain,   \* what mm2 has: balances, and histories (confirmed or not)
    left,          \* what of the budget is left
    pin,           \* is_pin_cfg_enabled: balances are fake
    on,            \* the coins that are enabled
    ticker,        \* m_current_ticker
    infos,         \* ticker_infos as the views have read it last
    known,         \* m_balance_informations
    history,       \* m_tx_informations: one entry for all coins that are not Erc
    rows, shown,   \* transactions_model: m_model_data, m_file_count
    fetching,      \* m_tx_fetching_busy
    busy,          \* the raised flags among m_is_send_busy, m_is_broadcast_busy, ...
    open,          \* m_page_open
    avail,         \* m_send_available and m_current_ticker_fees_coin_enabled
    page,          \* the user's SendModal and its current page
    result,        \* its send_result
    throw,         \* the timers of AutoHedge: which of them runs
    thrown,        \* send_result of its SendModal
    claimed,       \* prepare_claim_rewards_result
    asked,         \* balance and history requests mm2 has not read
    balances,      \* their answers; checked: past the test of the pin mode
    histories,     \* ... and lists; None for an event that has nothing to store
    ops            \* the other requests; read: the balance that is decreased

vars == <<real, chain, left, pin, on, ticker, infos, known, history, rows, shown, fetching, busy,
          open, avail, page, result, throw, thrown, claimed, asked, balances, histories, ops>>

worldVars  == <<real, chain>>
txVars     == <<history, rows, shown, fetching, histories>>
balVars    == <<known, balances>>
modalVars  == <<page, result, throw, thrown, claimed>>
pageVars   == <<open, avail>>
sessVars   == <<pin, on, ticker, infos>>

Key(c) == IF c \in Erc THEN c ELSE None  \* None stands for "result"

TypeOK ==
    /\ real \in [Coin -> Amount]
    /\ chain \in [Coin -> [new : Seq(Tx), old : Seq(Tx)]]
    /\ left \in Budget
    /\ pin \in BOOLEAN /\ on \subseteq Coin /\ ticker \in Coin
    /\ infos \in [ticker : Coin, balance : Amount]
    /\ known \in [Coin -> Amount \cup {None}]
    /\ history \in [Erc \cup {None} -> Seq(Row)]
    /\ rows \in Seq(Row) /\ shown \in Nat /\ fetching \in BOOLEAN
    /\ busy \subseteq {"send", "broadcast", "claim", "faucet"}
    /\ open \in BOOLEAN
    /\ avail \in [send : BOOLEAN, fees : BOOLEAN]
    /\ page \in {"closed", "fill", "confirm", "done"}
    /\ result \in Prepared /\ thrown \in Prepared /\ claimed \in Prepared
    /\ throw \in {"idle", "prepared"}
    /\ asked \subseteq [kind : {"balance", "history"}, coin : Coin]
    /\ balances \subseteq [coin : Coin, val : Amount, checked : BOOLEAN]
    /\ histories \subseteq [coin : Coin, list : Seq(Transaction) \cup {None}]
    /\ ops \subseteq [kind : Op, coin : Coin, amount : Amount, read : Amount \cup {None}]

Init ==
    /\ real = [c \in Coin |-> 1]
    /\ chain = [c \in Coin |-> [new |-> <<>>, old |-> <<>>]]
    /\ \E s \in Scenarios : left = s.left /\ pin = s.pin /\ on = s.on /\ ticker = s.ticker
                            /\ infos = [ticker |-> s.ticker, balance |-> 0]
    /\ known = [c \in Coin |-> None]
    /\ history = [k \in Erc \cup {None} |-> <<>>]
    /\ rows = <<>> /\ shown = 0 /\ fetching = FALSE
    /\ busy = {} /\ open = FALSE
    /\ avail = [send |-> FALSE, fees |-> TRUE]
    /\ page = "closed" /\ result = None
    /\ throw = "idle" /\ thrown = None /\ claimed = None
    /\ asked = {} /\ balances = {} /\ histories = {} /\ ops = {}

-----------------------------------------------------------------------------
(* mm2 and the chains.                                                     *)

Spend(kind) == left[kind] > 0 /\ left' = [left EXCEPT ![kind] = @ - 1]

BalanceChanges(c, v) ==
    /\ Spend("change") /\ v # real[c]
    /\ real' = [real EXCEPT ![c] = v]
    /\ UNCHANGED <<chain, sessVars, txVars, balVars, busy, pageVars, modalVars, asked, ops>>

\* A new transaction of c; the budget numbers them.
TransactionArrives(c) ==
    /\ left.tx \in Tx /\ Spend("tx")
    /\ chain' = [chain EXCEPT ![c].new = <<left.tx>> \o @]
    /\ UNCHANGED <<real, sessVars, txVars, balVars, busy, pageVars, modalVars, asked, ops>>

TransactionConfirms(c) ==
    /\ chain[c].new # <<>>
    /\ LET n == Len(chain[c].new)
       IN  chain' = [chain EXCEPT ![c] = [new |-> SubSeq(@.new, 1, n - 1),
                                          old |-> <<@.new[n]>> \o @.old]]
    /\ UNCHANGED <<real, left, sessVars, txVars, balVars, busy, pageVars, modalVars, asked, ops>>

\* my_tx_history lists what is not confirmed first; the scanner only lists what is.
Listed(seq, n) ==
    [i \in 1 .. Len(seq) |->
        [tx_hash |-> seq[i], timestamp |-> n, confirmations |-> n, block_height |-> n]]
History(c) == IF c \in Erc THEN Listed(chain[c].old, 1)
              ELSE Listed(chain[c].new, 0) \o Listed(chain[c].old, 1)

Late(answers, c) == Cardinality({x \in answers : x.coin = c})

\* Bound: left.late answers of a kind are in flight for a coin.
Answer(r) ==
    /\ r \in asked
    /\ asked' = asked \ {r}
    /\ \/ /\ r.kind = "balance" /\ Late(balances, r.coin) < left.late
          /\ balances' = balances \cup {[coin |-> r.coin, val |-> real[r.coin], checked |-> ~pin]}
          /\ UNCHANGED histories
       \/ /\ r.kind = "history" /\ Late(histories, r.coin) < left.late
          /\ histories' = histories \cup {[coin |-> r.coin, list |-> History(r.coin)]}
          /\ UNCHANGED balances
    /\ UNCHANGED <<worldVars, left, sessVars, known, history, rows, shown, fetching, busy, pageVars,
                   modalVars, ops>>

-----------------------------------------------------------------------------
(* Balances.                                                               *)

HistoryRequest == {[kind |-> "history", coin |-> ticker]}

\* fetch_single_balance asks for every enabled coin; in pin mode only for those
\* whose balance is not known.
BalanceRequests ==
    {[kind |-> "balance", coin |-> c] : c \in {d \in on : pin => known[d] = None}}

\* prepare_batch_balance_and_tx; fetch_infos_thread asks for the same, one by one.
Batch == BalanceRequests \cup HistoryRequest

\* fetch_infos_thread, by the timer of mm2_service::update.  The next round
\* waits until mm2 has read the last one, which is a bound of the model.
FetchInfos ==
    /\ asked = {}
    /\ asked' = Batch
    /\ UNCHANGED <<worldVars, left, sessVars, txVars, balVars, busy, pageVars, modalVars, ops>>

\* process_balance_answer in pin mode: the test and the write are under
\* separate locks.
CheckBalance(b) ==
    /\ b \in balances /\ ~b.checked
    /\ balances' = (balances \ {b})
                     \cup IF known[b.coin] = None THEN {[b EXCEPT !.checked = TRUE]} ELSE {}
    /\ UNCHANGED <<worldVars, left, sessVars, txVars, known, busy, pageVars, modalVars, asked, ops>>

\* In pin mode the amount is multiplied by a factor below 1.
Shown(v) == IF pin /\ v > 0 THEN 1 .. v ELSE {v}

\* Mutant of StoreBalance: the first balance is kept, with or without pin.
StoreFirstBalance(b) ==
    /\ b \in balances /\ b.checked
    /\ balances' = balances \ {b}
    /\ \E v \in Shown(b.val) : known' = [known EXCEPT ![b.coin] = IF @ = None THEN v ELSE @]
    /\ UNCHANGED <<worldVars, left, sessVars, txVars, busy, pageVars, modalVars, asked, ops>>

StoreBalance(b) ==
    /\ b \in balances /\ b.checked
    /\ balances' = balances \ {b}
    /\ \E v \in Shown(b.val) : known' = [known EXCEPT ![b.coin] = v]
    /\ UNCHANGED <<worldVars, left, sessVars, txVars, busy, pageVars, modalVars, asked, ops>>

Balance(c) == IF known[c] = None THEN 0 ELSE known[c]

\* check_send_availability: without the coin that pays the fees, the page offers
\* to enable it instead.
Availability(t) ==
    LET fees == FeesCoin[t]
    IN  IF Balance(t) = 0 THEN [send |-> FALSE, fees |-> TRUE]
        ELSE IF fees = t THEN [send |-> TRUE, fees |-> TRUE]
        ELSE IF fees \notin on THEN [send |-> TRUE, fees |-> FALSE]
        ELSE [send |-> Balance(fees) > 0, fees |-> TRUE]

\* get_ticker_infos; the views read it again at each tickerInfosChanged.
TickerInfos == [ticker |-> ticker, balance |-> Balance(ticker)]

\* on_update_portfolio_values_event, with the timer of the fiat rates.
RefreshTickerInfos ==
    /\ infos' = TickerInfos
    /\ UNCHANGED <<worldVars, left, pin, on, ticker, txVars, balVars, busy, pageVars, modalVars,
                   asked, ops>>

\* Mutant of UpdatePage: the coin that pays the fees is not looked at.
UpdateFunds ==
    /\ open
    /\ avail' = [avail EXCEPT !.send = Balance(ticker) > 0]
    /\ UNCHANGED <<worldVars, left, sessVars, txVars, balVars, busy, open, modalVars, asked, ops>>

\* wallet_page::update, every second while the page is open.
UpdatePage ==
    /\ open
    /\ avail' = Availability(ticker)
    /\ UNCHANGED <<worldVars, left, sessVars, txVars, balVars, busy, open, modalVars, asked, ops>>

-----------------------------------------------------------------------------
(* The transactions model, filled by the handler of tx_fetch_finished on the *)
(* thread of the continuation.                                               *)

Least(m, n) == IF m < n THEN m ELSE n

\* fetchMore: the view asks for more rows than it is shown.
MoreShown(n, s) == s + Least(Limit, n - s)

\* init_transactions: rows of a model that has some are inserted at its end or
\* after the first Limit, although they are announced after the rows shown.
InitTransactions(rs, s, list) ==
    IF rs = <<>> THEN [rows |-> list, shown |-> Least(Len(list), Limit)]
    ELSE LET at  == Least(Limit, Len(rs))
             new == SubSeq(rs, 1, at) \o list \o SubSeq(rs, at + 1, Len(rs))
             n   == s + Len(list)
         IN  [rows  |-> new,
              shown |-> IF n < Len(new) /\ Len(new) >= Limit THEN MoreShown(Len(new), n) ELSE n]

\* match: the first of the rows shown that has the hash.
Matches(rs, s, hash) ==
    {i \in 1 .. s : rs[i].tx_hash = hash /\ \A j \in 1 .. i - 1 : rs[j].tx_hash # hash}

\* data, of the roles that an update looks at.
Data(row, role) == row[role]

\* setData: a row keeps its hash, its amounts and its addresses, whatever it is told.
SetData(row, role, value) ==
    IF role \in {"timestamp", "block_height", "confirmations", "unconfirmed"}
    THEN [row EXCEPT ![role] = value] ELSE row

\* update_value: a role that has the value is not told so.
UpdateValue(row, role, value) ==
    IF Data(row, role) = value THEN row ELSE SetData(row, role, value)

\* update_transaction: the height of the block is not among what is updated.
UpdateTransaction(row, tx) ==
    FoldLeft(LAMBDA r, role : UpdateValue(r, role, tx[role]), row,
             <<"timestamp", "confirmations", "unconfirmed">>)

\* ... of the rows that match, for the transactions of the list after the first d.
UpdateTransactions(rs, s, list, d) ==
    FoldLeft(LAMBDA r, tx : [i \in DOMAIN r |-> IF i \in Matches(r, s, tx.tx_hash)
                                                THEN UpdateTransaction(r[i], tx) ELSE r[i]],
             rs, SubSeq(list, d + 1, Len(list)))

\* The unconfirmed transactions at the front of the list that match no row.
Unmatched(rs, s, list) ==
    SelectSeq(list, LAMBDA t : t.unconfirmed /\ Matches(rs, s, t.tx_hash) = {})

\* update_or_insert_transactions.
UpdateOrInsert(rs, s, list) ==
    IF Len(rs) > Len(list) THEN [rows |-> rs, shown |-> s]
    ELSE LET d       == Len(list) - Len(rs)
             new     == IF d = 0 THEN <<>>
                        ELSE IF Unmatched(rs, s, list) # <<>> THEN Unmatched(rs, s, list)
                        ELSE SubSeq(list, 1, d)
             updated == UpdateTransactions(rs, s, list, d)
         IN  IF new = <<>> THEN [rows |-> updated, shown |-> s]
             ELSE InitTransactions(updated, s, new)

\* reset.
NoRows == [rows |-> <<>>, shown |-> 0]

\* Mutant of TxFetchFinished: nothing is done for a history without transactions.
TxFetchFinishedUnlessEmpty(stored, error) ==
    LET list == stored[Key(ticker)]
        next == IF error THEN NoRows
                ELSE IF shown = 0 THEN InitTransactions(rows, shown, list)
                ELSE UpdateOrInsert(rows, shown, list)
    IN  /\ rows' = next.rows /\ shown' = next.shown
        /\ fetching' = (fetching /\ list = <<>>)

\* on_tx_fetch_finished: the history that is stored for the coin selected by then.
TxFetchFinished(stored, error) ==
    LET list == stored[Key(ticker)]
        next == IF error THEN NoRows
                ELSE IF shown = 0 THEN InitTransactions(rows, shown, list)
                ELSE UpdateOrInsert(rows, shown, list)
    IN  /\ rows' = next.rows /\ shown' = next.shown
        /\ fetching' = FALSE

othersOfHistory == <<worldVars, left, sessVars, balVars, busy, pageVars, modalVars, ops>>

\* What process_tx_answer and the scanner's continuation make of a list.
Informations(list) ==
    [i \in DOMAIN list |->
        LET tx == list[i]
        IN  [tx_hash |-> tx.tx_hash, timestamp |-> IF tx.timestamp = 0 THEN Now ELSE tx.timestamp,
             confirmations |-> tx.confirmations, block_height |-> tx.block_height,
             unconfirmed |-> tx.timestamp = 0]]

\* process_tx_answer.
StoreHistory(h) ==
    /\ h \in histories /\ h.list # None /\ h.coin \notin Erc
    /\ history' = [history EXCEPT ![None] = Informations(h.list)]
    /\ TxFetchFinished(history', FALSE)
    /\ histories' = histories \ {h}
    /\ UNCHANGED <<othersOfHistory, asked>>

\* The continuation of process_tx_tokenscan, after which another one triggers the
\* event a second time.
StoreScan(h) ==
    /\ h \in histories /\ h.list # None /\ h.coin \in Erc
    /\ history' = [history EXCEPT ![h.coin] = Informations(h.list)]
    /\ TxFetchFinished(history', FALSE)
    /\ histories' = (histories \ {h}) \cup {[coin |-> h.coin, list |-> None]}
    /\ UNCHANGED <<othersOfHistory, asked>>

TellAgain(h) ==
    /\ h \in histories /\ h.list = None
    /\ TxFetchFinished(history, FALSE)
    /\ histories' = histories \ {h}
    /\ UNCHANGED <<othersOfHistory, history, asked>>

\* No usable answer.  A request that fails says nothing, of a token neither: its
\* history is only asked of the scanner once mm2 has answered the batch.  An answer of
\* mm2 that is an error, or that cannot be read, empties the model, a balance's too
\* when it is part of a batch.  The scanner's failure is told like a success, once or,
\* when it answered, twice.
LoseAnswer(r) ==
    /\ r \in asked
    /\ asked' = asked \ {r}
    /\ \/ "lost" \in Fault /\ UNCHANGED txVars
       \/ "refused" \in Fault
          /\ TxFetchFinished(history, TRUE)
          /\ UNCHANGED <<history, histories>>
       \/ Fault # {} /\ r.kind = "history" /\ r.coin \in Erc
          /\ TxFetchFinished(history, FALSE)
          /\ histories' \in {histories, histories \cup {[coin |-> r.coin, list |-> None]}}
          /\ UNCHANGED history
    /\ UNCHANGED othersOfHistory

\* The view scrolls to the last row.
FetchMore ==
    /\ shown < Len(rows)
    /\ shown' = MoreShown(Len(rows), shown)
    /\ UNCHANGED <<othersOfHistory, history, rows, fetching, histories, asked>>

-----------------------------------------------------------------------------
(* The user.                                                               *)

\* set_current_ticker.
SelectTicker(c) ==
    /\ Spend("select") /\ c \in on /\ c # ticker
    /\ page = "closed"
    /\ ticker' = c /\ infos' = [ticker |-> c, balance |-> Balance(c)]
    /\ fetching' = TRUE /\ rows' = NoRows.rows /\ shown' = NoRows.shown
    /\ asked' = asked \cup {[kind |-> "history", coin |-> c]}
    /\ avail' = Availability(c)
    /\ UNCHANGED <<worldVars, pin, on, history, histories, balVars, busy, open, modalVars, ops>>

\* The wallet page is created or destroyed (Wallet.qml).
OpenOrLeave ==
    /\ Spend("act")
    /\ open' = ~open
    /\ page' = "closed" /\ result' = None
    /\ UNCHANGED <<worldVars, sessVars, txVars, balVars, busy, avail, throw, thrown, claimed, asked, ops>>

\* A coin is enabled; mm2's answer has its balance (CoinLifecycle has the rest).
EnableCoin(c) ==
    /\ Spend("select") /\ c \notin on
    /\ on' = on \cup {c} /\ infos' = TickerInfos
    /\ balances' = balances \cup {[coin |-> c, val |-> real[c], checked |-> ~pin]}
    /\ UNCHANGED <<worldVars, pin, ticker, txVars, known, busy, pageVars, modalVars, asked, ops>>

-----------------------------------------------------------------------------
(* Sending.  SendModal has the pages "fill", "confirm" and "done"; closing   *)
(* destroys it.  A second SendModal, never shown, belongs to AutoHedge, and  *)
(* both get every answer.                                                    *)

othersOfSending == <<worldVars, sessVars, txVars, pageVars>>

Raise(flag) == busy' = busy \cup {flag}
Request(kind, c, a) == ops' = ops \cup {[kind |-> kind, coin |-> c, amount |-> a, read |-> None]}

\* The button of the wallet page, or the address book, which does not ask
\* whether the page is available.
OpenModal ==
    /\ Spend("act") /\ page = "closed"
    /\ page' = "fill" /\ result' = None
    /\ UNCHANGED <<othersOfSending, balVars, busy, throw, thrown, claimed, asked, ops>>

CloseModal ==
    /\ page # "closed"
    /\ page' = "closed" /\ result' = None
    /\ UNCHANGED <<othersOfSending, left, balVars, busy, throw, thrown, claimed, asked, ops>>

\* Prepare calls send, which asks mm2 to "withdraw".
Prepare ==
    /\ page = "fill" /\ "send" \notin busy
    /\ Raise("send") /\ Request("send", ticker, 0)
    /\ UNCHANGED <<othersOfSending, left, balVars, modalVars, asked>>

Back ==
    /\ page = "confirm" /\ "broadcast" \notin busy
    /\ page' = "fill"
    /\ UNCHANGED <<othersOfSending, left, balVars, busy, result, throw, thrown, claimed, asked, ops>>

\* Send calls broadcast for the coin selected now, with the amount of the form.
Broadcast(a) ==
    /\ page = "confirm" /\ "broadcast" \notin busy
    /\ Raise("broadcast") /\ Request("broadcast", ticker, a)
    /\ UNCHANGED <<othersOfSending, left, balVars, modalVars, asked>>

\* claim_rewards prepares a transaction too; broadcasting it has no amount.
Claim ==
    /\ Spend("act") /\ "claim" \notin busy
    /\ claimed' = None
    /\ Raise("claim") /\ Request("claim", ticker, 0)
    /\ UNCHANGED <<othersOfSending, balVars, page, result, throw, thrown, asked>>

BroadcastClaim ==
    /\ claimed # None /\ "broadcast" \notin busy
    /\ Raise("broadcast") /\ Request("broadcast", ticker, 0)
    /\ UNCHANGED <<othersOfSending, left, balVars, modalVars, asked>>

\* The Faucet button, which the page does not disable.
ClaimFaucet ==
    /\ Spend("act")
    /\ Raise("faucet") /\ Request("faucet", ticker, 0)
    /\ UNCHANGED <<othersOfSending, balVars, modalVars, asked>>

\* AutoHedge: prepThrow calls send_ap, whatever is in flight.
PrepThrow ==
    /\ Spend("act") /\ throw = "idle" /\ AutoCoin \in on
    /\ throw' = "prepared"
    /\ Raise("send") /\ Request("send", AutoCoin, 0)
    /\ UNCHANGED <<othersOfSending, balVars, page, result, thrown, claimed, asked>>

\* broadcastThrow waits for the flag, then broadcasts what its modal holds; after
\* an error there is no transaction in it, and the timers stop.
BroadcastThrow(a) ==
    /\ throw = "prepared" /\ "send" \notin busy
    /\ throw' = "idle"
    /\ IF thrown = None THEN UNCHANGED <<busy, ops>>
                        ELSE Raise("broadcast") /\ Request("throw", AutoCoin, a)
    /\ UNCHANGED <<othersOfSending, left, balVars, page, result, thrown, claimed, asked>>

\* The view takes an answer only while the flag is up.
ShowPrepared(c) ==
    IF "send" \notin busy THEN UNCHANGED <<page, result, thrown>>
    ELSE /\ thrown' = c
         /\ IF page = "closed" THEN UNCHANGED <<page, result>>
            ELSE /\ page' = IF c = None THEN "closed" ELSE "confirm"
                 /\ result' = c

\* The withdraw_answer: a transaction of the coin, or mm2's error, which stands also
\* for a request that failed.
Withdrawn(op) == {op.coin, None}

\* Mutant of SendAnswered: the page shows the second page before it looks.
SendAnsweredBlindly(op) ==
    /\ op \in ops /\ op.kind = "send"
    /\ \E c \in Withdrawn(op) :
          /\ thrown' = c /\ result' = c
          /\ page' = IF page = "closed" THEN page ELSE "confirm"
    /\ busy' = busy \ {"send"} /\ ops' = ops \ {op}
    /\ UNCHANGED <<othersOfSending, left, balVars, throw, claimed, asked>>

\* Mutant of SendAnswered: an error does not clear the flag.
SendAnsweredStaysBusy(op) ==
    /\ op \in ops /\ op.kind = "send"
    /\ \E c \in Withdrawn(op) :
          /\ ShowPrepared(c)
          /\ busy' = IF c = None THEN busy ELSE busy \ {"send"}
    /\ ops' = ops \ {op}
    /\ UNCHANGED <<othersOfSending, left, balVars, throw, claimed, asked>>

\* The continuations of send and send_ap: a transaction, or an error also when
\* the request failed.
SendAnswered(op) ==
    /\ op \in ops /\ op.kind = "send"
    /\ \E c \in Withdrawn(op) : ShowPrepared(c)
    /\ busy' = busy \ {"send"} /\ ops' = ops \ {op}
    /\ UNCHANGED <<othersOfSending, left, balVars, throw, claimed, asked>>

ClaimAnswered(op) ==
    /\ op \in ops /\ op.kind = "claim"
    /\ claimed' \in Withdrawn(op)
    /\ busy' = busy \ {"claim"} /\ ops' = ops \ {op}
    /\ UNCHANGED <<othersOfSending, left, balVars, page, result, throw, thrown, asked>>

\* get_claim_result: any status but 200 is an error to show, while a body that is not
\* what it should be is an exception, which is only logged: the flag stays up.
FaucetAnswered(op) ==
    /\ op \in ops /\ op.kind = "faucet"
    /\ ops' = ops \ {op}
    /\ \/ busy' = busy \ {"faucet"}
       \/ "lost" \in Fault /\ UNCHANGED busy
    /\ UNCHANGED <<othersOfSending, left, balVars, modalVars, asked>>

\* onBroadcast_resultChanged: back to the form if the answer says "error".
ShowBroadcast(pages) ==
    IF page = "closed" \/ "broadcast" \notin busy THEN UNCHANGED <<page, result>>
    ELSE \E p \in pages : /\ page' = p
                          /\ result' = IF p = "fill" THEN None ELSE result

BroadcastCoin(op) == IF op.kind = "broadcast" THEN ticker ELSE op.coin

\* The continuation of broadcast and broadcast_ap.  In pin mode a transaction
\* with an amount goes on to DecreaseBalance; the coin of the former is the one
\* selected by now, and a balance that is not known is an exception.
BroadcastAnswered(op) ==
    /\ op \in ops /\ op.kind \in {"broadcast", "throw"} /\ op.read = None
    /\ \/ /\ pin /\ op.amount > 0 /\ known[BroadcastCoin(op)] # None
          /\ ShowBroadcast({"done"})
          /\ ops' = (ops \ {op}) \cup
                      {[op EXCEPT !.coin = BroadcastCoin(op), !.read = known[BroadcastCoin(op)]]}
          /\ UNCHANGED <<busy, asked>>
       \/ /\ ~(pin /\ op.amount > 0)
          /\ ShowBroadcast({"done"})
          /\ asked' = asked \cup Batch
          /\ busy' = busy \ {"broadcast"} /\ ops' = ops \ {op}
       \/ /\ Fault # {} \/ known[BroadcastCoin(op)] = None
          /\ ShowBroadcast({"fill", "done"})
          /\ busy' = busy \ {"broadcast"} /\ ops' = ops \ {op}
          /\ UNCHANGED asked
    /\ UNCHANGED <<othersOfSending, left, balVars, throw, thrown, claimed>>

\* decrease_fake_balance writes what it computed from the balance it read, or
\* reset_fake_balance_to_zero; then fetch_infos_thread.
DecreaseBalance(op) ==
    /\ op \in ops /\ op.read # None
    /\ known' = [known EXCEPT ![op.coin] = IF op.read < op.amount THEN 0 ELSE op.read - op.amount]
    /\ asked' = asked \cup Batch
    /\ busy' = busy \ {"broadcast"} /\ ops' = ops \ {op}
    /\ UNCHANGED <<worldVars, pin, on, ticker, txVars, pageVars, left, balances, modalVars>>
    /\ infos' = TickerInfos'

-----------------------------------------------------------------------------
World ==
    \/ \E c \in Coin, v \in Amount : BalanceChanges(c, v)
    \/ \E c \in Coin : TransactionArrives(c) \/ TransactionConfirms(c)

User ==
    \/ \E c \in Coin : SelectTicker(c) \/ EnableCoin(c)
    \/ OpenOrLeave \/ OpenModal \/ CloseModal \/ Prepare \/ Back
    \/ Claim \/ BroadcastClaim \/ ClaimFaucet \/ PrepThrow \/ FetchMore
    \/ \E a \in Amount \ {0} : Broadcast(a)

Timer == FetchInfos \/ UpdatePage \/ RefreshTickerInfos \/ \E a \in Amount \ {0} : BroadcastThrow(a)

Continuation ==
    \/ \E b \in balances : CheckBalance(b) \/ StoreBalance(b)
    \/ \E h \in histories : StoreHistory(h) \/ StoreScan(h) \/ TellAgain(h)
    \/ \E op \in ops : \/ SendAnswered(op) \/ ClaimAnswered(op) \/ FaucetAnswered(op)
                       \/ BroadcastAnswered(op) \/ DecreaseBalance(op)

Next == World \/ User \/ Timer \/ Continuation \/ \E r \in asked : Answer(r) \/ LoseAnswer(r)

\* The timers fire and the continuations run (weakly); mm2 answers a request for a
\* coin if it is asked again and again, also when some of the answers are lost
\* (strongly).
Fairness ==
    /\ WF_vars(FetchInfos) /\ WF_vars(UpdatePage) /\ WF_vars(RefreshTickerInfos)
    /\ \A c \in Coin : SF_vars(Answer([kind |-> "balance", coin |-> c]))
    /\ \A c \in Coin : SF_vars(Answer([kind |-> "history", coin |-> c]))
    /\ \A c \in Coin :
          WF_vars(\E v \in Amount : StoreBalance([coin |-> c, val |-> v, checked |-> TRUE]))
    /\ WF_vars(\E h \in histories : StoreHistory(h) \/ StoreScan(h) \/ TellAgain(h))

Spec == Init /\ [][Next]_vars
FairSpec == Spec /\ Fairness

-----------------------------------------------------------------------------
(* Properties.                                                             *)

\* The flags of send, broadcast and claim are up only while such a request is in
\* flight: whatever fails, and although two modals share each flag, the buttons
\* they disable come back (the error functors of wallet_page).
BusyMeansWaiting ==
    /\ "send" \in busy => \E op \in ops : op.kind = "send"
    /\ "broadcast" \in busy => \E op \in ops : op.kind \in {"broadcast", "throw"}
    /\ "claim" \in busy => \E op \in ops : op.kind = "claim"

\* The page that asks to confirm shows a transaction that was prepared: its Send
\* button reads tx_hex, although the modal may have been closed, reopened, and
\* reached by the answers to AutoHedge's requests.
ConfirmedHasTransaction == page = "confirm" => result # None

\* Without pin mode the balances of the enabled coins end up those of mm2, although
\* answers are lost and stored in any order.
BalancesCatchUp == <>[](\A c \in on : pin \/ known[c] = real[c])

\* The spinner of the history ends, also when the answer it waits for is lost and
\* nobody is told, or a batch fails before the scanner is asked: the next poll ends it.
HistoryFetchEnds == fetching ~> ~fetching

\* What the pages show of the selected coin, and on the wallet page what the Send
\* button says, ends up true of the balances.
AvailabilityCatchesUp ==
    <>[](infos = TickerInfos /\ (open => avail = Availability(ticker)))
=============================================================================
