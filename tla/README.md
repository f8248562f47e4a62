# Verification of colliderDEX Desktop

colliderDEX Desktop is a Qt wallet and exchange front end. The exchange itself
is another process, **mm2**, which the program starts and drives with batches of
JSON requests over HTTP. This directory holds TLA+ models of what is hard to
test in the program: several threads and one remote process, answers that come
late, in another order or never, files written one after the other by a program
that may die between two of them, and pages that show one thing while another is
being sent; TLC configurations that check the models on small instances; and
theorems, checked by TLAPS, for instances of any size.

Paths below are relative to `src/src/core/atomicdex/` unless they begin with
`app` (`src/src/app/`) or `Dex` (`src/atomic_defi_design/Dex/`). Short names of
files: mm2 `services/mm2/mm2.service.cpp`, tp `pages/qt.trading.page.cpp`, ob
`models/qt.orderbook.model.cpp`, obw `pages/widgets/dex/qt.orderbook.cpp`, orm
`models/qt.orders.model.cpp`, opx `models/qt.orders.proxy.model.cpp`, wp
`pages/qt.wallet.page.cpp`, tx `models/qt.wallet.transactions.model.cpp`, sp
`pages/qt.settings.page.cpp`, pre `app/main.prerequisites.hpp`, pf
`models/qt.portfolio.model.cpp`, pp `pages/qt.portfolio.page.cpp`, gp
`services/price/global.provider.cpp`, abc
`models/qt.addressbook.contact.model.cpp`.

## 1. Inventory

### Who runs

| Actor | What it executes |
|---|---|
| GUI thread | QML handlers and the `Q_INVOKABLE`s they call; the Qt timer that calls `application::tick`; `update()` of every system once per frame (`mm2_service`, `orderbook_scanner_service`, `trading_page::process_action`, `wallet_page`, the price services, ...) |
| mm2 init thread | one per login, `mm2_service::spawn_mm2_instance`: polls mm2, then enables the active coins |
| pplx pool threads | the continuation (`.then`) of every HTTP request; the handlers of the events that a continuation triggers |
| mm2 (external) | answers each batch, in any order; one process per login, which may outlive it |
| scanners, price servers, oracle (external) | answer, refuse, or say nothing |
| the operating system | signals, kills, and a disk that may hold half a file |

There is no ordering between continuations, and the only synchronisation is a
mutex per container (`synchronized_value`, `m_coin_cfg_mutex`), lock-free queues
from the pool to the GUI thread, and atomic flags. The parts interact through the
`entt` dispatcher (synchronous calls, on the caller's thread), direct calls
between systems, the queues `m_portfolio_queue` (`application`) and
`m_actions_queue` (`application` and `trading_page`), and files.

### Parts

| Part | State it keeps | Operations | Hard because | Correct when |
|---|---|---|---|---|
| Coin lifecycle: mm2, `app.cpp`, pf | coin registry, `m_mm2_running`, portfolio queue and rows, "fully enabled" flags, status | login, enable, disable, delete; init thread; answers; `tick` | answers are matched to tickers by index, batches overlap, each failure path differs | the registry agrees with mm2; "complete" means that the default coins are there, and is reached |
| Wallet sessions: `app.cpp`, `managers/qt.wallet.manager.cpp`, pre, mm2, `services/internet` | the services and their marks, sinks, queues, the processes | log in and out, exit, restart, abort | an ended session's threads and process live on; statics | nothing of a session reaches the next |
| Orderbook synchronisation: mm2, tp, obw | pair, book, volumes, actions queue and reset flag, models | select a pair or mode, fetch, `process_action`, answers | an answer may be for the previous pair; one flag for a queue of actions | the models end up those of the selection |
| Best-orders scanner: `services/price/orderbook.scanner.service.cpp` | busy flag, last answer | `process_best_orders` from three threads | check-then-set flag, dropped requests | never busy for ever; the list catches up |
| Orderbook model: ob, its proxy, the simple view | rows by uuid, the selected order | reset, refresh, the view's handlers inside | signals change the selection in the middle of a refresh | a refresh amounts to a reset; the selection follows the rows |
| Trade form: tp, obw | mode, price, volumes, maximum, minimum, chosen order, error, busy flag | setters, preimage, place an order, reset and refresh | answers fill or clear a form the user has changed | what is confirmed is what is shown, and within bounds |
| Orders and swaps: mm2 1086-1197, orm, opx | page, limit, filter, orders, swaps, rows and registries | poll, page, filter, cancel, recover | late answers bring back an old page; rows merged from three lists | the page shown is the one asked for, each swap once |
| Balances and transactions: mm2, wp, tx | balance and history per coin, busy flags, what may be sent | poll, prepare, confirm, claim, faucet | read-modify-write by several continuations; two modals share one page | a balance is mm2's in the end; no flag is stuck |
| Address of a send: wp, `Dex/Wallet/SendModal.qml` | the text, the last verdict and conversion | edit, validate, convert | verdicts of earlier texts | the verdict shown is of the text |
| Wallet manager, coin files, settings: `qt.wallet.manager.cpp`, mm2, sp, pre, `config/` | a dozen files, the registry, the settings | create, import, delete, log in, upgrade, add and remove tokens, reset | crash between two writes; coins.json shared by all wallets | a wallet's choices are kept |
| Address book: `managers/addressbook.manager.cpp`, its models | a file per wallet, `m_data`, rows | edit contacts, save, log in and out | three copies changed one by one, by name | they agree, and stay in their wallet |
| Prices, automatic orders: gp, `services/price/`, `auto.update.maker.order.service.cpp` | quotes, rates, retries | timers, fall back, retry | rates that come one by one, or not | worth and order follow the market |
| Portfolio page: pp, pf, `models/qt.global.coins.cfg.model.cpp` | rows, totals, checked coins | update values, enable, disable, check | handlers of pool threads interleave with the GUI's | rows and totals end at what is true |
| Internet checker, notifications, system manager, mm2 API types, version and IP checkers, charts, QML layout | little or none | forwarding, requests at start, conversions | - | - |

## 2. Modules

| Module | Models | Proofs |
|---|---|---|
| `CoinLifecycle` | one session, from login to the coins in the portfolio | `CoinLifecycle_proofs` |
| `NodeRegistry` | abstract: what the registry promises of mm2 | refined by `CoinLifecycle`, proved |
| `Session` | logging in and out, runs of the program, mm2 processes | `Session_proofs` |
| `TradingSync` | trading page, orderbook requests, scanner | `TradingSync_proofs` |
| `TradeForm` | the form, from the pair to the order sent | `TradingPage_proofs` |
| `SelectedOrder` | the bids and the order selected in the simple view | `TradingPage_proofs` |
| `BookRows` | what a row of a book says, role by role, and what an order picked from it sends | - |
| `OrdersPage` | the page of orders, the history | `OrdersPage_proofs` |
| `WalletPage` | balances, history, sending | `WalletPage_proofs` |
| `AddressCheck` | the address field of the send window | `WalletData_proofs` |
| `Wallets` | the wallets, and what a torn file is, for the three modules about their files | |
| `WalletFiles` | the files that outlive a run | `WalletData_proofs`, whose invariant is in `WalletKept` |
| `ChoiceStore` | abstract: a wallet's choices, as one variable | refined by `WalletFiles`, proved |
| `AddressBook` | file, `m_data`, rows, edit window | `WalletData_proofs` |
| `Prices` | quotes, rates, oracle, automatic order | - |
| `Portfolio` | extends `Prices`: rows, totals, currencies, the window that enables coins | `Portfolio_proofs` |
| `MC...` | small instances: coins, pairs, orders, scenarios, symmetry | |

The modules share no variable but are cut where the code's parts meet: an answer
stored out of date is shown to happen by `TradingSync` and assumed by
`SelectedOrder` (`Store` in any order) and by `TradeForm` (volumes of any answer);
`CoinLifecycle` is one session, `Session` many, with coins reduced to the default
ones; `Portfolio` composes the prices with the page; `MCWalletData` extends
`WalletFiles`, `AddressBook` and `AddressCheck`, which share the wallets of `Wallets`, and
lets one of the three move while the others stand still, since the code shares
nothing else between them. A module of proofs may likewise be about several models
(`WalletData_proofs`, `TradingPage_proofs`), which is why their definitions have
different names (`CheckInit`, `BidsInit`, ...).

### CoinLifecycle and NodeRegistry

`enabled` and `active` are the fields `currently_enabled` and `active` of the
registry, `nodeOn` is what mm2 has activated, `rows` the portfolio, `queue` the
tickers in `m_portfolio_queue`, `up` the flags `m_*_coin_fully_enabled`, `status`
the wallet manager's status. A batch in flight (`call`) is a set of pairs
`<<coin, tag>>`: the coin a request names, and the ticker `batch_enable_coins`
remembers for the answer at that index. They differ for the two default coins,
which are asked for in one order and attributed in the other, and whenever a coin
of the list was enabled already (`Asks`). `NodeServe` is mm2; `RegisterAnswer` and
`Publish` are the two halves of the continuation, on a pool thread;
`EnableDefaults`, `InitSend`, `MarkRunning` are the init thread; `Tick`, `EnableCoins`,
`DisableRpc`, `DisableCommit`, `DeleteCoin` are the GUI thread, whose position inside
`disable_coins` is `gui`.

`NodeRegistry` knows two sets: the coins that are on, and those known to be. A coin
is turned on before it is known and forgotten before it is turned off. The
refinement maps `known` to `enabled \ gui.off`: between mm2's answer to a disable
and the registry's update, the coin being disabled is the one exception.

### Session

A service is a number, one per login; `thread`, `running`, `starting` and `flight` are
indexed by it, so that what belongs to an ended session can be told from what
belongs to the current one. `gui` is where the GUI thread is inside a log-out
(disconnect sinks, stop mm2, join the init thread, create the next service); `node`
is the process that listens on the port. An exit, restart, abort or kill ends the
`run`; the next run (`heir`) kills what it finds before it logs in. `marked`, `pass`
are the marks and the frame of the system manager. Events of the ended session
arrive until the sinks are gone; rows, notifications, `m_actions_queue` and the
portfolio queue carry the number of the service they came from.

### TradingSync

A book, a volume or a list of best orders is represented by what it is *for*: a
pair, a coin, or a coin and a mode. That is all the properties tell apart. A
request in flight goes through the stages of its continuation: `sent`, `seen` (the
continuation has read the pair that is selected by then), `stored`, `told` (the reset
flag is written, after the action was pushed), and `checked` (the scanner's flag was
read as false, not yet set). Amounts are abstracted to whether the form has a price
and a volume and whether the volume has been compared with the maximum since either
changed (`fits`). `ProcessAction` is the whole of `process_action` with everything
it calls, including the scan it starts.

### TradeForm

`form` is the record of everything the page shows and sends: pair, mode, view,
price, volume, minimum and maximum, the order picked (`pref`) and the best order
remembered until the next reset (`chosen`), the error, the fees. Every setter of tp
is an operator from a form to a form, so that a user's action, `process_action` and
a continuation are the same chains of calls as in the code: `SetVolume`,
`DetermineMaxVolume`, `DetermineErrorCases`, `SetPreferredOrder`, ... A `Slot` is an order
being placed, through the stages of its continuation; it clears the form from a
pool thread. `PoolMaxVolume` sets the maximum and caps the volume in one step, which the pool
thread does one after the other (tp:788, 793): an order confirmed in between sends what one
confirmed just before would. Amounts are small numbers; a coin stands for each way in which coins
differ (default, token, without balance, wallet-only).

### SelectedOrder

An order is its uuid and its price, 0 standing for "none". The network changes the
orders; snapshots are taken by `Answer` and stored by `Store` in any order.
`refresh_orderbook` is several steps of the GUI thread, one per row, because the
signals of one row let the view's handlers run: they select the better order
(`BetterFound`) or clear the form (`Removed`) before the next row is looked at.
Orders within a refresh come in any order, since neither mm2's answer nor the
registry (an `unordered_set`) has one. The user acts only between refreshes.

### BookRows

The contents of a row as mm2 sends them (fractions), what `data` says of each role,
what `update_order` refreshes of it and which roles it announces, and the order sent
when a row is picked. It serves one violated property.

### OrdersPage

`contents` is `m_orders_and_swaps` in the service (rows and the page, limit and
filter they are for), `model` what the page shows, with the registries of ids that
decide whether a row is inserted or updated; `flight` are the batches in flight and
`queue` the events for the GUI thread. An answer is a set of orders and a set of
swaps, since the program does not rely on the order in which mm2 lists them; the
rows of the model are a sequence, in the order in which they were inserted. The
rows of orders and swaps are computed from mm2's events as `mm2.cpp` does (`OrderRows`,
`SwapRows`, the status, whether an order can be cancelled). `Tick` is the handler:
`refresh_or_insert`, with inserts, updates (`Matches`, `UpdateValue`), removals
(`RemoveRows`) and the forced change of page. `asked` is not in the code: the page,
limit and filter the user asked for last, for the property to compare with.

### WalletPage and AddressCheck

`real` and `chain` are the truth; `known`, `history`, `infos`, `rows` are the copies in
mm2_service, in the page and in the model. `asked` are requests that mm2 has yet
to answer, `balances` and `histories` answers not yet stored, `ops` operations in
flight (prepare, broadcast, claim, faucet, AutoHedge's send). `page` is the send modal. A history is
fetched from mm2 for UTXO coins and, in a second request, from a scanner for tokens, if
mm2 answers the batch before it. Rows carry what `update_transaction` looks at and what it leaves
alone (times, confirmations, heights), which shows in the differences of section 5; the
properties are about the spinner and the balances, none is about these fields.
`AddressCheck` keeps the field's text, the requests in flight per text, the two busy
flags, the last verdict and the last conversion.

### WalletFiles and ChoiceStore

`disk` maps each file (the shipped and own coins files of a wallet, of this and of
the precedent version, custom tokens, coins.json, cfg.json, cfg.ini, the seed) to its
content, `Absent` or `Torn`. Each of three threads (GUI, init, a pool thread) has a
list `todo` of steps, each of which reads, writes or removes one file; `Killed` may come
between any two and, with fault "torn", in the middle of a write. `registry` and
`rawReg` are the copies in memory. The coins files of the two versions need not have the
same coins (`OldCoins`, `Coins`): the precedent one may lack a coin that is shipped
now, have one as shipped that no longer is, or have custom ones, which the upgrade copies
as they are (`Merge`), also over a coin that is shipped by now. `ChoiceStore` has one
variable, the choice of each wallet, and says who may change it: only its own session
chooses or resets. The refinement reads the choice from the files as the next login
would (`ChoiceOf`, which is stated without `Merge`: coin by coin, the file that decides),
which is what makes the states in the middle of an upgrade comparable with those before
and after it. In scenarios with the risk
"hasty", in which the user goes on while a switch to segwit is stored, the mapping
promises nothing (`ChoicesKept`; section 5, Coins, says why).

### AddressBook

`file` per wallet, `book` (`m_data`) and `rows` (the models) are sequences of contacts,
each with its tags and the addresses by slot (a type and a key; `Label` is the text
made of both, which may coincide). An address carries the wallet it was entered in.
`row` and `stage` are the edit window, which works on the row and writes to `m_data` when
saved; `known` are the types that the coins file of the session has, by which the
row's addresses are loaded.

### Prices and Portfolio

`quote` is the market; `market`, `fiats`, `rate`, `oracle` are what the services have of
it, `again` the fallback and retry chains. `CexRate` and `RateConversion` are the
functions of gp, with small numbers for prices and 0 for an unknown one. In `Portfolio`, a sum
of money is a currency and an amount, `total` and `main` are the two totals, `cell` what the row of
a coin shows; `thread` is where each thread is inside the handlers that the event
`update_portfolio_values` and its relatives start, so that a handler of a pool
thread stops between its reads and writes. `pick` is the window that enables coins.

## 3. Runs

| Run | Properties | What it shows |
|---|---|---|
| `coins_safety` | `CompleteMeansDefaultsReady`, `EnabledOnNode`, `RegistryIsSound` | with every failure and any overlap, "complete" means that the default coins are on in mm2, in the registry and in the portfolio, the registry never claims a coin mm2 does not have, and `NodeRegistry` is implemented |
| `coins_live` | `DefaultsEventuallyReady` | if mm2 comes up and answers, a login ends in "complete" |
| `coins_remove` | `RemovedCoinIsDisabled` **violated** | a custom coin mm2 refused to disable is deleted |
| `session` | `RunningMeansOwnNode`, `FirstLoginMeetsNobody`, `LoggedOutIsClean`, `JoinPastPolls`, `AnnouncedIsShown` | two logins in one run or in two, with processes that are slow, fail or are left behind: the service in use has its own mm2, while nobody is logged in there are no rows, orders or flags of the last wallet, the join of a log-out waits for no poll, coins announced in a session are shown in it |
| `trading` | `BusyMeansScanning`, `BookCatchesUp`, `BestOrdersCatchUp` | through pair and mode changes, answers lost, partial or late, and racing scans: a busy flag has its request, and the models end up those of the selection |
| `trade_form` | `VolumeWithinMax`, `SentIsShown`, `BusyMeansOrderInFlight` | every sequence of four user actions, with resets, refreshes and two orders in flight: what can be confirmed is within the maximum, but in the sale that section 5 (Trading) describes, and what is sent is what was shown |
| `selected` | `RefreshIsExact`, `MovesToBetterPrice`, `SelectionFollowsRows`, `SelectionEventuallyReal` | a refresh is exact in whichever order rows are touched; without resets and out-of-date choices the selection is a row at its price and ends up an order that exists |
| `book_rows` | `SentPriceIsShown` **violated** | the price sent with a picked order is not the price shown, once it has changed |
| `orders_page` | `SwapsAreShownOnce`, `LoadingMeansAwaiting`, `OverStaysOver`, `PageSettles`, `RowsCatchUp` | late, lost, refused and reordered answers; in order and in time, the page settles at what was asked for and at mm2's orders |
| `wallet_page` | `BusyMeansWaiting`, `ConfirmedHasTransaction`, `BalancesCatchUp`, `HistoryFetchEnds`, `AvailabilityCatchesUp` | balances and what may be sent end up true, spinners end, and what is confirmed is a transaction |
| `wallet_data` | `MemoryIsStored`, `CustomCoinsAreReAdded`, `ChoicesAreKept`; `FileIsBook`, `ShownIsStored`, `OfferedHaveAnAddress`, `AddressesStayHome`; `VerdictIsOfText` | two wallets, restarts, an upgrade and crashes between any two writes; their address books; the address field |
| `portfolio` | `CheckedAreCounted`, `PageCatchesUp`, `OrderFollowsMarket` | rows, totals and the automatic order end at what the world says |

The violated ones are stated from a comment or message of the code, quoted in
`PROJECT.json`; the code does otherwise.

### Bounds, and why they are enough

- `CoinLifecycle`: the two default coins, a coin `A` and its token `B`. Interference
  needs a default coin, one that is not, and one with a parent. `Call` has two slots:
  the effects of batches on a coin are pairwise, and each slot is used again and
  again. `MaxTry` is 2 for the code's 30: the polls do nothing but count.
- `Session`: two logins (`MaxSession`), which is one session that has ended and one it
  may disturb; the safety properties were also run with three (8.1 million
  states). `MaxTry` 2.
- `TradingSync`: two pairs that share their base (the case in which the code's own
  check tells nothing), both modes, and one place in the queue, whose actions are all
  alike. Two scenarios: `TwoScans` has one book request and two scans in flight and
  three user steps; `TwoBooks` has two book requests and a scan, and starts on the trading
  page while the reset of the first pair is under way. A change of the pair or of the
  mode, or the timer, then meets the late answer of the pair before, or another reset.
- `TradeForm`: four user actions: pick a pair, an order, a volume, and confirm. Two
  orders in flight, two offers and two sets of volumes, chosen so that an order is
  covered by one and not by the other.
- `SelectedOrder`: two orders (the selected one and another) at two prices, two
  snapshots in flight; two changes of the network in the calm scenario, one when
  resets and stale choices happen too.
- `OrdersPage`: three ids, two pages and two limits, so that a page can be full, short
  and empty; two batches in flight. `WalletPage`: a UTXO coin and a token whose fees it
  pays, either of which is selected first; two transactions; at most two late answers. `WalletFiles`: two wallets, two
  official coins, two custom ones, up to two crashes; precedent files with the coins shipped
  now, with one of them missing and two others (one custom, one not), and with a shipped
  one as custom; tokens files that are absent, have one of these or a shipped one. `AddressBook`: two wallets, three
  slots of which two have the same label, seven steps. `Portfolio`: two coins, two
  quotes, two pool threads.
- The last ones start from **scenarios**: records in the `MC` modules that say how
  things stand, which failures may happen and how often the user, the world and
  the failures act. They split one instance that is too large into several that TLC
  exhausts, each with the failures that interact. Failures that never interact are
  not combined.

Deadlock is checked in `orders_page`, whose timer goes on for ever. Elsewhere the
user's budget is used up, or mm2 never came up, and nothing is left to happen;
the cfg says so.

`TypeOK` of every module holds on its instance, and is part of the proved invariants
where a proof needs it. It is no property of a run: a violation would be one of the
model, not of the code.

### Fairness

Nothing is assumed of the user, and no failure is assumed to stop, unless a
scenario bounds it.

- `CoinLifecycle`, `Session`: weak fairness of a started thread, of the GUI thread's
  current call and of the timer; in `CoinLifecycle` also of mm2 and of each
  continuation, which is what "if mm2 comes up and answers" means; in `Session` a
  started mm2 comes up or fails.
- `TradingSync`, `SelectedOrder`: timers and continuations are always able to run in
  the code; in the model a step waits for a free slot that others may take in turn, so
  strong fairness is what the code gives. Every stored answer is seen (weak).
- `OrdersPage`, `WalletPage`: timers are weakly fair. An answer is strongly fair: if
  the program asks again and again, not all of the answers are lost.
- `Portfolio`, `Prices`: timers of the services that a scenario says are online, and
  every thread inside a handler (weak). `TradeForm` and `WalletFiles` state no liveness.

## 4. Proofs

Thirty-one listed theorems in eight modules, for every value of the constants, under the
named assumptions: the default coins are coins and not custom ones, fees coins are
coins, the set of coins is finite (`CoinAssumption`); pairs are of two different coins
and kinds of requests have different slots (`PairAssumption`, `BoundAssumption`);
prices are positive (`OrderAssumption`); the two default coins differ, and there is
at least one session and one poll (`SessionAssumption`); the form's coins are known
ones and every offer has a price, and a positive maximum not below its minimum
(`FormAssumption`); pages and limits are positive numbers, one of the filters lets
everything through and a scenario begins with finitely many orders
(`OrdersAssumption`); the default coins are coins and the limit is a number
(`PortfolioAssumption`); `FilesAssumption` (a coin
is official or custom, not both; finitely many are custom; a file that is absent or torn
holds nothing, no choices in particular; "none" is no wallet, coin or file); `BookConstants` and `AddressConstants` say what slots, names,
texts and reasons are. All hold of the instances: TLC evaluates them.

| Theorem | Argument |
|---|---|
| `CoinLifecycle_proofs!TypeCorrect` | `Shape`, which says besides the types that no list sent to mm2 mixes default coins and others; so the answers of the default batch can only be taken for one another |
| `...!RegistryAgreesWithNode` | `NodeInv`: `EnabledOnNode` is not inductive, because a batch in flight carries coins that mm2 has enabled and the registry does not know. Those are on in mm2, not enabled, and in no two batches at once: mm2 refuses a second activation |
| `...!CompleteMeansReady` | `DefaultInv`: a default coin's ticker is queued only after the *other* default coin is registered, and neither is ever taken away |
| `...!RegistryRefined` | every step is one of `NodeRegistry`, or leaves `known` and `nodeOn` alone; by `NodeInv` a registered coin is one that is on |
| `TradingSync_proofs!TypeCorrect`, `BusyIsTruthful` | `TypeOK /\ BusyMeansScanning` is inductive; each operator of the model is shown once to keep both (`ScanType`), whoever calls it |
| `TradingPage_proofs!SelectionTypeOK`, `OnlyBetterPrices` | types of the rows and of the selection; a step that moves a selection goes through `Better` or a comparison |
| `...!RefreshAmountsToReset` | `RefreshInv`: during a refresh, every order in `todo` is in the answer, and an order of the answer that is not in `todo` has its row already as the answer has it; the last step removes the rest |
| `...!SelectionIsFollowed` | `NoReset` (no reset pending or in flight, when nothing else happens) and `SelectionFollowsRows` itself |
| `Session_proofs!RunningAlwaysOwnsNode`, `FirstLoginAlwaysAlone`, `LoggedOutAlwaysClean`, `JoinAlwaysPastPolls` | one inductive `Inv`, the conjunction of named facts: whose threads exist (`ThreadsOfService`), that a thread past its polls has met its own process (`OwnNode`, `PastPolls`), what the next run finds (`Heirs`, `FirstOfRun`), what a frame's marks mean (`Marks`), what a log-out has already cleared at each of its steps (`Clean`), and what an exit leaves (`Exited`). Each is kept with the help of the others, which is why they are proved together |
| `WalletData_proofs!FileIsAlwaysBook`, `AddressesAlwaysStayHome` | `Kept`: what a login would load of the session's wallet is what `m_data` holds, and every contact of file, `m_data` and rows is one whose addresses were entered in that wallet. `Stored` says of an operation that it changes neither file nor `m_data`, or writes the file from the new `m_data`: all but the window's unsaved edits, which touch rows only |
| `...!ShownAlwaysStored` | `Matching`: files and contacts have distinct names, and row k is contact k as the session's types show it (`Alike`), but for the row in the window. A contact is looked up by name: distinct names make that one the contact of the row (`FirstIsOnly`). Adding, putting and removing keep it, each by a lemma about sequences |
| `...!OfferedAlwaysHaveAnAddress` | the two proxies filter the same addresses, one by contact and one by address |
| `...!VerdictAlwaysOfText` | `Waits`: a user who waits has only the current text validated or converted, one at a time, with the flag up meanwhile; and once the flag is down the view says what the text is (`Told`) |
| `...!MemoryIsAlwaysStored`, `CustomCoinsAreAlwaysReAdded` | `FilesInv` (module `WalletKept`): what is in a file is what was written last, so what matters is what has yet to be written. It lists, for each place of the program and each thread, the lists of steps it may have left (`Lists`, `LoginList`), and says what comes of the files once they are done: the settings are stored or are the next write (`CfgStored`), an entry of coins.json is there or on the init thread's list (`Provided`), and the coins file and the tokens file, once the pending list of the only thread that writes them is through, are the registry (`AgreeAfter`). What a thread removes from coins.json must be there until it does (`Removals`). Each action has a lemma; a thread's reads and writes have one for each place |
| `...!ChoicesAlwaysKept` | the refinement of `ChoiceStore`. `ChoiceInv` (module `WalletKept`) adds to `FilesInv` what each pending step does to what would be read: in a session, the first step of a list is the same choice for a set of coins, and the coins file is written as it is by the second (`Sets`); a reset has all tokens off before the coins file goes (`Resets`); the upgrade writes the two files merged, removes the precedent one only when the other is what the merge would be, and then writes the same again (`Upgrades`): a merged file is merged again without a change (`MergeTwice`), and is read alone as it is with the precedent one, and as the two were before (`MergeReads`); the shipped file is copied where it would be read anyway (`Copies`); one thread at a time writes choices. Each write is then a `Choose`, a `Reset` or a stutter (`SavedChooses`), the end of the process in a write a `Lose` (`EndsLoses`), every other step a stutter |
| `WalletPage_proofs!BusyAlwaysWaits`, `ConfirmedAlwaysHasTransaction` | requests in flight are well-formed, a flag is raised only with its request, and the page moves to "confirm" only with an answer |
| `TradingPage_proofs!VolumeAlwaysWithinMax` | `FormInv`: each setter has a lemma that says what it makes of a form, from the lemmas of the setters it calls. The bound alone is not kept, because a maximum is computed from a price and a selected order: the maximum of a purchase is that of the order or the exact fraction kept with it (`Exact`), an order is selected only when the volumes are known, and an error is absent only when price and volume are there (`Sound`, `Strict`) |
| `...!SentAlwaysShown`, `BusyAlwaysMeansOrder` | a call is a record that says how far it is (`Calls`) and holds what was shown when it was made; the flag is raised with a request, and the setters, which change the form alone, are out of the way by one lemma |
| `OrdersPage_proofs!SwapsAlwaysShownOnce` | `Registered`: each shown swap is in the model's registry, so an answer can only update it; and a list of an answer names no swap twice (`Fine`). What the merge of rows does is said once by `OrdersMerged` and `SwapsMerged`, in terms of which rows it keeps (`RemoveRowsKeeps`) and where each row comes from |
| `...!LoadingAlwaysMeansAwaiting` | inductive: a forced change of page raises the flag and sends the reset; setters call one another, so their effect is stated as a relation that composes (`Turns`) |
| `...!OverAlwaysStaysOver` | `Ordered`: what is shown is older than what is stored, and that than each answer in flight, in their order; and a swap that is over in any list is over for mm2, which never changes its mind |
| `Portfolio_proofs!CheckedAlwaysCounted` | `Counted`: `CheckedAreCounted` with finitely many coins checked, and `Modal`: a coin is being disabled only while the window is closed. Without it, a coin that is checked and enabled would stop being enabled without being counted |

The theorem modules are separate from the models, so that TLC's runs and the proofs
read the same definitions.

Only model-checked:

- liveness under fairness, which the prover cannot do: `DefaultsEventuallyReady`,
  `BookCatchesUp`, `BestOrdersCatchUp`, `SelectionEventuallyReal`, `BalancesCatchUp`,
  `HistoryFetchEnds`, `AvailabilityCatchesUp`, `PageSettles`, `RowsCatchUp`,
  `AnnouncedIsShown`, `PageCatchesUp`, `OrderFollowsMarket`;
- what recursive functions compute, which needs induction over data: the totals of
  `Portfolio` (in `PageCatchesUp`).

The attempts to prove the last ones corrected the models in four places. The
volume of `TradeForm` is *not* within the maximum in one case, which four user actions
were too few to reach (section 5, Trading). The lists of an answer in `OrdersPage` were
sequences made from sets, about which nothing could be said and on whose order
nothing depends: they are sets. And `FormAssumption` and `OrdersAssumption` did not say
that an offer has something to offer, or that orders are finitely many. `ChoiceStore`
is *not* implemented for a user who goes on while a switch to segwit is stored
(section 5, Coins): no scenario had that risk, and one has it now.

## 5. Differences met

Besides the two violated properties, reading and checking the code turned up
places where it does something else than its comments, messages or names say. They
are recorded here because a model has to decide for one side, and decides for the
code.

**Coins.** The default coins are asked for secondary first (mm2:598-614), but their
answers are attributed to `g_default_coins`, which lists the primary first, by index
(mm2:690-719): when one fails, `coin_fully_initialized` announces the other
(comment at `app.cpp:398`). A backed-up entry of a custom token is empty when coins.json
has the token already, and the token is then never re-added (sp:502; sp:403 does it right; comment at
mm2:660). A precedent cfg.ini that cannot be copied is removed all the same (pre:274-300).
`change_segwit_status` stores, on a pool thread, every `active` of the files it has
read (mm2:125-199): coins enabled or disabled meanwhile, even several at once, go back
to what they were, in the files though not in memory. (The switch is hidden today.)
A custom coin that the upgrade has copied into the coins file (mm2:88-95) is looked for
among the tokens by `update_coin_status` (mm2:160), which throws when it is not there:
enabling or disabling it ends the program, and so does removing it. When it is there too,
its status is stored with the tokens and read from the coins file, which comes first
(mm2:230-250). `load_wallet_cfg` throws on a torn file. After a password of the wrong kind,
`confirm_password` and `login` look for one of two error codes only.

**Trading.** `get_orderbook` compares `rel` with itself, so that only `base` is checked and a
late answer of the previous pair fills the book (mm2:794). Buying, the maximum is not
checked against the coin of the volume it is computed from (tp:845; selling is,
tp:755). A selected order whose price fell is announced as cancelled or matched
(ob:530, 706-709), and a reset for the same pair loses a selected order silently
(ob:391). A best order of a pair may be applied by the reset of another (obw:110). The
fees of an earlier, slower preimage answer may be shown; an exception in one leaves the
form waiting (tp:1203). The continuation of an order clears a form edited meanwhile
(tp:232). An order applied again by a reset leaves the form unlocked, so that saved
settings may then show another price than is sent (tp:627). Clearing the form in the
simple view after its order has disappeared keeps the volume and lowers the maximum
without comparing them (tp:661-668; the comment at tp:862 is about this): in the pro
view, with a price entered, that volume can be confirmed until the next refresh of
the book compares them (`Bounded`). `disable_coins` sets the
coins before `set_current_orderbook` compares them, and the form is not cleared
(tp:433). An order update never refreshes `quantity_denom` and `quantity_numer`.

**Orders.** `set_common_data` forces a page change and `refresh_or_insert` then inserts the old
contents, so that the page may reload for ever (orm:591-594, 638). The history's
upper date is the *start* of that day (opx:316-326). A filter set while a fetch is
busy is dropped, and its button disabled (orm:663-693, opx:352-355). A lost answer to a
reset leaves the spinner on. A late answer overtaken by a later one replaces it, and a
swap that was shown as over is shown as active again until the next poll (mm2:1187):
`OverStaysOver` holds, and is stated, for answers that are not overtaken.

**Wallet.** `update_transaction` never updates the block height (tx:231-243). After a switch, the
history of another UTXO coin may be shown until the next poll (tx:245-250). A correction
of a balance may be made for the wrong coin (wp:685) and undone by the second answer
(mm2:1555-1571). An exception in a continuation leaves its busy flag up, which the
properties `BusyMeans...` name as the exception.

**Address book.** Renaming does not look for a contact of the same name (`careful` in the
model): later edits go to the first of the two. Addresses of a type that the coins
file no longer has are lost at the next save (abc:262-283). A torn file is read as empty
and written over at log-out. A wallet created under a deleted wallet's name inherits
its address book.

**Session.** A log-out waits, on the GUI thread, for mm2's answer to `stop` (mm2:309), however
long that takes: one step of the model. Tickers that a pool thread pushes between app.cpp:452,
where the queues are emptied, and the disconnection of the sinks are still queued when the next wallet
logs in, and the tick then handles them: `LoggedOutIsClean` is about the time in between,
`AnnouncedIsShown` about what the next session announces itself. The poll counter is a static that all logins share. A cancelled check of the
connection at log-out says that there is none. mm2 is left running by a log-out before
it was announced, and a restart does not wait for the old process: `RunningMeansOwnNode`
holds because the next login asks it to stop.

**Portfolio.** The percentage of a coin whose worth becomes 0 stays (pf:543). The total in the
other currency is not refreshed when the first one fails (pp:80-89). An answer that is not
200 replaces good fiat rates by none (gp:452). A coin enabled while checked stays
checked and counts twice towards the limit. The automatic order is sent at price 0 while
its price is unknown, which mm2 refuses.

## 6. Plan

1. The proxies' order of rows, whose `lessThan` is not a strict order for two unknown rates.
2. The minimum volumes of two answers in `TradingSync`, as they are in `TradeForm`.

## 7. Not modelled, and why

- mm2, the scanners and the price servers are external: they are modelled by what the
  program relies on (`PROJECT.json` marks them).
- Never reached: the SegWit switch of the wallet page (`Dex/Wallet/Main.qml:143` hides it; wp 1159-1260),
  `disable_no_balance_coins`, `common_cancel_all_orders`, `refresh_orders_and_swaps` (no
  QML calls them), `add_invis_contact` and `set_contact_wallet_info` of the address book's
  model (called only by functions of `AutoHedge.qml:405-436` that nothing calls), the self-updater (its button is commented out,
  `Dex/Components/NewUpdateModal.qml:125`), the charts (their service disables itself in its
  constructor), the coingecko and coinpaprika providers (nothing creates them).
- Removing a coin that is shipped by now and that an upgrade has made a custom one
  (`RemoveCustomCoin` is for the coins in `Custom`): unless it is among the tokens too,
  `update_coin_status` ends the program first, as in `DisableCoin`.
- Nothing interleaves with them: version and IP checkers, the export of the history, and
  the notes of transactions, which no page edits.
- Showing the seed and the private keys, and the encryption of the seed: a right
  password is an external choice, and no property is about what is displayed.
- Data the properties do not tell apart: percentages, sparklines, depth, wording,
  formatting, the margins of 1e-8 and 5 % on minimum volumes, most field-by-field
  conversions of the mm2 API types.
- Undefined behaviour without an outcome to enumerate: a continuation that uses a
  destroyed service's memory, torn reads of a `QString`. `Session` models what such a
  continuation would do to state that still exists.
