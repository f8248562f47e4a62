------------------------- MODULE TradingSync_proofs -------------------------
(***************************************************************************)
(* Theorems about TradingSync for any coins, pairs, numbers of requests in *)
(* flight and failures: its type is right, and the scanner is busy only    *)
(* while a request is in flight that will say that it is not.              *)
(***************************************************************************)
EXTENDS TradingSync, TLAPS

-----------------------------------------------------------------------------
(* The operators keep the types.                                           *)

LEMMA Pairs ==
    /\ AnyPair \subseteq Coin \X Coin
    /\ <<Primary, Secondary>> \in AnyPair /\ <<Secondary, Primary>> \in AnyPair
  BY PairAssumption DEF AnyPair

LEMMA FreeIsFree ==
    /\ Free.stage = "free" /\ Closed.stage = "closed"
    /\ \A c \in Call : Free \in Slot(c)
  BY DEF Free, Closed, Slot

\* A request is well formed and on its way.
LEMMA RequestType ==
    ASSUME NEW p \in AnyPair, NEW reset \in BOOLEAN, NEW c \in BookCall
    PROVE  Request(p, reset) \in Slot(c) /\ Request(p, reset).stage = "sent"
  BY DEF Request, BookRequests, Slot

LEMMA ScanRequestType ==
    ASSUME TypeOK, NEW c \in ScanCall
    PROVE  ScanRequest \in Slot(c) /\ ScanRequest.stage = "sent"
<1>1. pair[1] \in Coin
  BY Pairs DEF TypeOK
<1>2. c \notin BookCall
  BY BoundAssumption
<1> QED BY <1>1, <1>2 DEF TypeOK, ScanRequest, ScanRequests, Slot

\* Determining the maximum volume leaves a form a form.
LEMMA MaxVolumeType ==
    ASSUME TypeOK, NEW f \in Forms, NEW v \in Volumes
    PROVE  MaxVolume(f, v) \in Coin \cup {None}
<1>1. pair[1] \in Coin /\ pair[2] \in Coin
  BY Pairs DEF TypeOK
<1>2. f.max \in Coin \cup {None} /\ v.max[2] \in Coin \cup {None}
  BY DEF Forms, Volumes
<1> QED BY <1>1, <1>2 DEF MaxVolume

LEMMA DeterminedType ==
    ASSUME TypeOK, NEW f \in Forms, NEW v \in Volumes
    PROVE  Determined(f, v) \in Forms
  BY MaxVolumeType DEF Determined, Forms

LEMMA AdjustType ==
    ASSUME TypeOK, NEW f \in Forms, NEW v \in Volumes
    PROVE  Adjust(f, v) \in Forms
  BY DeterminedType DEF Adjust, Forms

\* What the handlers may do to the requests, seen by types and by BusyMeansScanning.
CallType == /\ call' \in [Call -> UNION {Slot(c) : c \in Call}]
            /\ \A c \in Call : call'[c] \in Slot(c)
ScanType == busy' \in BOOLEAN /\ CallType /\ (BusyMeansScanning => BusyMeansScanning')

\* Calls stay calls when what each slot gets belongs there.
LEMMA CallsFit ==
    ASSUME TypeOK, NEW f, call' = [d \in Call |-> f[d]], \A d \in Call : f[d] \in Slot(d)
    PROVE  CallType
<1>1. \A d \in Call : f[d] \in UNION {Slot(c) : c \in Call}
  OBVIOUS
<1> QED BY <1>1 DEF CallType

LEMMA OneFits ==
    ASSUME TypeOK, NEW c \in Call, NEW r \in Slot(c), call' = [call EXCEPT ![c] = r]
    PROVE  CallType
<1>1. call' = [d \in Call |-> IF d = c THEN r ELSE call[d]]
  BY DEF TypeOK
<1>2. call' = [d \in Call |-> call'[d]] /\ \A d \in Call : call'[d] \in Slot(d)
  BY <1>1 DEF TypeOK
<1> QED BY <1>2, CallsFit

LEMMA ScanUnchanged ==
    ASSUME TypeOK, UNCHANGED <<busy, call>> PROVE ScanType
  BY DEF TypeOK, ScanType, CallType, BusyMeansScanning

LEMMA ProcessOrderbookType ==
    ASSUME TypeOK, NEW p \in AnyPair, NEW reset \in BOOLEAN,
           ProcessOrderbook(p, reset), UNCHANGED busy
    PROVE  ScanType
<1>1. PICK c \in BookCall : call' = [call EXCEPT ![c] = Request(p, reset)]
  BY DEF ProcessOrderbook
<1>3. CallType
  BY <1>1, RequestType, OneFits DEF Call
<1>4. \A d \in ScanCall : call'[d] = call[d]
  BY <1>1, BoundAssumption DEF TypeOK, Call
<1> QED BY <1>3, <1>4 DEF TypeOK, ScanType, BusyMeansScanning

LEMMA SendBestOrdersType ==
    ASSUME TypeOK, SendBestOrders(FreeScan) PROVE ScanType
<1>1. PICK c \in ScanCall : call' = [call EXCEPT ![c] = ScanRequest]
  BY DEF SendBestOrders, FreeScan
<1>2. ScanRequest \in Slot(c) /\ ScanRequest.stage = "sent"
  BY ScanRequestType
<1>3. CallType
  BY <1>1, <1>2, OneFits DEF Call
<1>4. call'[c].stage = "sent"
  BY <1>1, <1>2 DEF TypeOK, Call
<1> QED BY <1>3, <1>4 DEF SendBestOrders, ScanType, BusyMeansScanning

LEMMA ProcessBestOrdersType ==
    ASSUME TypeOK, ProcessBestOrders PROVE ScanType
  BY ScanUnchanged, SendBestOrdersType DEF ProcessBestOrders

LEMMA CapVolumeType ==
    ASSUME TypeOK, NEW f, NEW d, CapVolume(f, d) PROVE ScanType
  BY ScanUnchanged, ProcessBestOrdersType DEF CapVolume

\* A request that is not on its way may become anything.
LEMMA LaterType ==
    ASSUME TypeOK, NEW c \in Call, NEW r \in Slot(c),
           call' = [call EXCEPT ![c] = r], UNCHANGED busy,
           c \in BookCall \/ call[c].stage # "sent"
    PROVE  ScanType
<1>1. CallType
  BY OneFits
<1>2. \A d \in ScanCall : call[d].stage = "sent" => call'[d] = call[d]
  BY BoundAssumption DEF TypeOK, Call
<1> QED BY <1>1, <1>2 DEF TypeOK, ScanType, BusyMeansScanning

\* Nor is the scanner busy once it says so.
LEMMA IdleType ==
    ASSUME TypeOK, NEW c \in Call, NEW r \in Slot(c),
           call' = [call EXCEPT ![c] = r], busy' = FALSE
    PROVE  ScanType
  BY OneFits DEF TypeOK, ScanType, BusyMeansScanning

-----------------------------------------------------------------------------
(* One lemma per group of actions: the types are kept, and so is           *)
(* BusyMeansScanning.                                                      *)

Kept == TypeOK' /\ ScanType

LEMMA TypeInit == Init => TypeOK /\ BusyMeansScanning
<1> SUFFICES ASSUME Init PROVE TypeOK /\ BusyMeansScanning
  OBVIOUS
<1>1. form \in Forms
  BY DEF Init, ClearForm, Forms
<1>2. /\ call \in [Call -> UNION {Slot(c) : c \in Call}]
      /\ \A c \in Call : call[c] \in Slot(c)
  <2>1. pair \in AnyPair
    BY Pairs DEF Init
  <2>2. PICK s \in Scenarios :
           call = [c \in Call |-> CASE c \in s.asked -> Request(pair, TRUE)
                                    [] c \in s.slots \ s.asked -> Free
                                    [] OTHER -> Closed]
    BY DEF Init
  <2>3. \A c \in Call : c \in s.asked => c \in BookCall
    BY BoundAssumption DEF Scenario
  <2>4. \A c \in Call : call[c] \in Slot(c)
    BY <2>1, <2>2, <2>3, RequestType DEF Slot
  <2> QED BY <2>2, <2>4
<1>5. left \in Nat /\ trading \in BOOLEAN
  BY BoundAssumption DEF Init, Scenario
<1>3. NoVolumes \in Volumes
  BY DEF NoVolumes, Volumes
<1>4. 0 \in 0 .. MaxPending
  BY BoundAssumption
<1> QED
  BY <1>1, <1>2, <1>3, <1>4, <1>5, Pairs DEF Init, TypeOK, AnyMode, BusyMeansScanning

\* The user's steps that ask for a book.
LEMMA AskType ==
    ASSUME TypeOK,
           \/ \E p \in Pair : SelectPair(p)
           \/ \E coin \in Coin : DisableCoin(coin)
           \/ \E m \in Mode : SetMarketMode(m)
    PROVE  Kept
<1>1. left > 0 => left - 1 \in Nat
  BY BoundAssumption DEF TypeOK
<1>2. ClearForm \in Forms
  BY DEF ClearForm, Forms
<1>3. CASE \E p \in Pair : SelectPair(p)
  <2>1. PICK p \in Pair : SelectPair(p)
    BY <1>3
  <2>2. p \in AnyPair
    BY DEF AnyPair
  <2>3. ScanType
    BY <2>1, <2>2, ProcessOrderbookType DEF SelectPair, OnRefreshOrderbook
  <2> QED
    BY <1>1, <1>2, <2>1, <2>2, <2>3
       DEF SelectPair, User, Kept, TypeOK, ScanType, CallType, serviceVars, queueVars
<1>4. CASE \E coin \in Coin : DisableCoin(coin)
  <2>1. PICK coin \in Coin : DisableCoin(coin)
    BY <1>4
  <2>2. pair' \in AnyPair
    BY <2>1, Pairs DEF DisableCoin, TypeOK
  <2>3. ScanType
    BY <2>1, <2>2, ProcessOrderbookType DEF DisableCoin, OnRefreshOrderbook
  <2> QED
    BY <1>1, <2>1, <2>2, <2>3
       DEF DisableCoin, User, Kept, TypeOK, ScanType, CallType, serviceVars, queueVars, modelVars
<1>5. CASE \E m \in Mode : SetMarketMode(m)
  <2>1. PICK m \in Mode : SetMarketMode(m)
    BY <1>5
  <2>2. ScanType
    BY <2>1, ProcessOrderbookType DEF SetMarketMode, OnRefreshOrderbook, TypeOK
  <2> QED
    BY <1>1, <1>2, <2>1, <2>2
       DEF SetMarketMode, User, Kept, TypeOK, AnyMode, ScanType, CallType, serviceVars, queueVars
<1> QED BY <1>3, <1>4, <1>5

\* The user's other steps.
LEMMA FillType ==
    ASSUME TypeOK, EnterOrLeave \/ SetPrice \/ SetVolume PROVE Kept
<1>1. left > 0 => left - 1 \in Nat
  BY BoundAssumption DEF TypeOK
<1>2. CASE EnterOrLeave
  BY <1>1, <1>2, ScanUnchanged
     DEF EnterOrLeave, User, Kept, TypeOK, serviceVars, queueVars, modelVars
<1>3. CASE SetPrice
  <2> DEFINE f == [form EXCEPT !.price = TRUE, !.min = TRUE]
  <2>1. f \in Forms
    BY DEF TypeOK, Forms
  <2>2. form' = Determined(f, shown) \/ form' = f
    BY <1>3 DEF SetPrice
  <2>3. form' \in Forms
    BY <2>1, <2>2, DeterminedType DEF TypeOK
  <2>4. ScanType
    BY <1>3, CapVolumeType, ScanUnchanged DEF SetPrice
  <2> QED
    BY <1>1, <1>3, <2>3, <2>4
       DEF SetPrice, User, Kept, TypeOK, ScanType, CallType, serviceVars, queueVars, modelVars
<1>4. CASE SetVolume
  <2>1. form' \in Forms
    BY <1>4 DEF SetVolume, TypeOK, Forms
  <2>2. ScanType
    BY <1>4, ProcessBestOrdersType, ScanUnchanged DEF SetVolume
  <2>3. best' \in (Coin \X AnyMode) \cup {None}
    BY <1>4 DEF SetVolume, TypeOK
  <2> QED
    BY <1>1, <1>4, <2>1, <2>2, <2>3
       DEF SetVolume, User, Kept, TypeOK, ScanType, CallType, serviceVars, queueVars
<1> QED BY <1>2, <1>3, <1>4

\* The timers of the GUI thread.
LEMMA TimerType ==
    ASSUME TypeOK, FetchOrderbook \/ ScanBestOrders \/ ProcessAction PROVE Kept
<1>1. CASE FetchOrderbook
  <2>1. ScanType
    BY <1>1, ProcessOrderbookType DEF FetchOrderbook, FetchCurrentOrderbook, TypeOK
  <2> QED
    BY <1>1, <2>1 DEF FetchOrderbook, Kept, TypeOK, ScanType, CallType, userVars,
                      serviceVars, queueVars, modelVars
<1>2. CASE ScanBestOrders
  <2>1. ScanType
    BY <1>2, ProcessBestOrdersType DEF ScanBestOrders
  <2> QED
    BY <1>2, <2>1 DEF ScanBestOrders, Kept, TypeOK, ScanType, CallType, userVars,
                      serviceVars, queueVars, modelVars
<1>3. CASE ProcessAction
  <2>1. pending' \in 0 .. MaxPending
    BY <1>3, BoundAssumption DEF ProcessAction, TypeOK
  <2>2. ScanType /\ form' \in Forms /\ rows' \in AnyPair \cup {None}
        /\ best' \in (Coin \X AnyMode) \cup {None} /\ shown' \in Volumes
    <3>1. CASE ResetWidget
      <4>1. ScanType
        BY <3>1, ProcessBestOrdersType DEF ResetWidget
      <4> QED BY <3>1, <4>1 DEF ResetWidget, TypeOK
    <3>2. CASE RefreshWidget
      <4>1. ScanType
        BY <3>2, ProcessBestOrdersType, ScanUnchanged DEF RefreshWidget
      <4>2. form' = Adjust(form, vols) \/ form' = form
        BY <3>2 DEF RefreshWidget
      <4>3. form' \in Forms
        BY <4>2, AdjustType DEF TypeOK
      <4>4. best' \in (Coin \X AnyMode) \cup {None}
        BY <3>2 DEF RefreshWidget, TypeOK
      <4> QED BY <3>2, <4>1, <4>3, <4>4 DEF RefreshWidget, TypeOK
    <3>3. CASE UNCHANGED <<form, busy, call, modelVars>>
      BY <3>3, ScanUnchanged DEF TypeOK, modelVars
    <3> QED BY <1>3, <3>1, <3>2, <3>3 DEF ProcessAction
  <2> QED
    BY <1>3, <2>1, <2>2
       DEF ProcessAction, Kept, TypeOK, ScanType, CallType, userVars, serviceVars
<1> QED BY <1>1, <1>2, <1>3

\* The requests of a slot that is in use.
LEMMA InUse ==
    ASSUME TypeOK, NEW c \in Call
    PROVE  /\ call[c].stage = "stored" => call[c].reset \in BOOLEAN
           /\ c \in BookCall /\ call[c].stage \in {"sent", "seen"} =>
                 /\ call[c] \in BookRequests
                 /\ call[c].pair \in AnyPair /\ call[c].reset \in BOOLEAN
           /\ c \in ScanCall /\ call[c].stage = "sent" =>
                 call[c].coin \in Coin /\ call[c].mode \in AnyMode
<1>1. c \in ScanCall => c \notin BookCall
  BY BoundAssumption
<1>2. call[c] \in Slot(c)
  BY DEF TypeOK
<1> QED BY <1>1, <1>2 DEF Slot, Free, Closed, BookRequests, ScanRequests, Continuations

\* What they become.
LEMMA LaterFits ==
    ASSUME NEW c \in Call
    PROVE  /\ \A reset \in BOOLEAN : Pushed(reset) \in Slot(c)
           /\ [stage |-> "told"] \in Slot(c) /\ [stage |-> "checked"] \in Slot(c)
  BY DEF Pushed, Continuations, Slot

\* A function on {1, 2} is a pair.
LEMMA TwoIsPair ==
    ASSUME NEW S, NEW f, f = [i \in {1, 2} |-> f[i]], f[1] \in S, f[2] \in S
    PROVE  f \in S \X S
<1>1. f = <<f[1], f[2]>>
  <2>1. {1, 2} = 1 .. 2
    OBVIOUS
  <2> QED BY <2>1
<1> QED BY <1>1

LEMMA StoredType ==
    ASSUME TypeOK, NEW r \in BookRequests, NEW ok PROVE Stored(r, ok) \in Volumes
<1> DEFINE C == Coin \cup {None}
           max == [i \in {1, 2} |->
                     IF i \in ok /\ r.seen[i] = r.pair[i] THEN r.pair[i] ELSE vols.max[i]]
           min == [i \in {1, 2} |-> IF i \in ok THEN r.pair[i] ELSE vols.min[i]]
<1>1. vols.max \in C \X C /\ vols.min \in C \X C /\ r.pair \in Coin \X Coin
  BY Pairs DEF TypeOK, Volumes, BookRequests
<1>2. \A i \in {1, 2} : r.pair[i] \in C /\ vols.max[i] \in C /\ vols.min[i] \in C
  BY <1>1
<1>3. max[1] \in C /\ max[2] \in C /\ min[1] \in C /\ min[2] \in C
  BY <1>2
<1>4. max \in C \X C
  BY <1>3, TwoIsPair
<1>5. min \in C \X C
  BY <1>3, TwoIsPair
<1>6. vols \in Volumes
  BY DEF TypeOK
<1>7. Stored(r, ok) = IF ~r.reset THEN vols ELSE [max |-> max, min |-> min]
  BY DEF Stored
<1> HIDE DEF max, min
<1> QED BY <1>4, <1>5, <1>6, <1>7 DEF Volumes

\* The budget of user actions and failures stays within its bound.
LEMMA LeftType ==
    ASSUME TypeOK, UNCHANGED left \/ Fails("lost") \/ Fails("partial")
    PROVE  left' \in Nat
<1>1. left \in Nat
  BY DEF TypeOK
<1>2. left' = left \/ (left > 0 /\ left' = left - 1)
  BY DEF Fails
<1> QED BY <1>1, <1>2, BoundAssumption

\* The continuations that store an answer.
LEMMA StoreType ==
    ASSUME TypeOK, NEW c \in Call, ReadPair(c) \/ StoreBook(c) \/ StoreBest(c)
    PROVE  Kept
<1>1. CASE ReadPair(c)
  <2>1. c \in BookCall /\ call[c].stage = "sent"
    BY <1>1 DEF ReadPair
  <2>2. call' = [call EXCEPT ![c] = [call[c] EXCEPT !.stage = "seen", !.seen = pair]]
    BY <1>1 DEF ReadPair
  <2>4. call[c] \in BookRequests
    BY <2>1, InUse
  <2>5. [call[c] EXCEPT !.stage = "seen", !.seen = pair] \in Slot(c)
    BY <2>1, <2>4 DEF TypeOK, BookRequests, Slot
  <2>3. ScanType
    BY <1>1, <2>1, <2>2, <2>5, LaterType DEF ReadPair
  <2> QED
    BY <1>1, <2>3 DEF ReadPair, Kept, TypeOK, ScanType, CallType, userVars,
                      serviceVars, queueVars, modelVars
<1>2. CASE StoreBook(c)
  <2>1. c \in BookCall /\ call[c].stage = "seen"
    BY <1>2 DEF StoreBook
  <2>6. call[c] \in BookRequests /\ call[c].pair \in AnyPair /\ call[c].reset \in BOOLEAN
    BY <2>1, InUse
  <2>7. \E ok \in SUBSET {1, 2} : vols' = Stored(call[c], ok)
    <3>1. \/ vols' = Stored(call[c], {1, 2})
          \/ \E ok \in SUBSET {1, 2} : vols' = Stored(call[c], ok)
      BY <1>2 DEF StoreBook
    <3> QED BY <3>1
  <2>9. left' \in Nat
    BY <1>2, LeftType DEF StoreBook
  <2>2. vols' \in Volumes
    BY <2>6, <2>7, StoredType
  <2>8. pending < MaxPending /\ (pending' = pending + 1 \/ pending' = pending)
    BY <1>2 DEF StoreBook
  <2>3. book' \in AnyPair \cup {None} /\ pending' \in 0 .. MaxPending
    <3>1. book' \in AnyPair \cup {None}
      BY <1>2, <2>6 DEF StoreBook, TypeOK
    <3>2. pending \in 0 .. MaxPending
      BY DEF TypeOK
    <3> QED BY <2>8, <3>1, <3>2, BoundAssumption
  <2>4. \/ call' = [call EXCEPT ![c] = Pushed(call[c].reset)]
        \/ call' = [call EXCEPT ![c] = Free]
    BY <1>2 DEF StoreBook
  <2>5. ScanType
    BY <1>2, <2>1, <2>4, <2>6, LaterFits, FreeIsFree, LaterType DEF StoreBook
  <2> QED
    BY <1>2, <2>2, <2>3, <2>5, <2>9
       DEF StoreBook, Kept, TypeOK, ScanType, CallType, userVars, modelVars
<1>3. CASE StoreBest(c)
  <2>1. c \in ScanCall /\ call[c].stage = "sent"
    BY <1>3 DEF StoreBest
  <2>2. data' \in (Coin \X AnyMode) \cup {None} /\ pending' \in 0 .. MaxPending
    <3>1. call[c].coin \in Coin /\ call[c].mode \in AnyMode
      BY <2>1, InUse
    <3>2. <<call[c].coin, call[c].mode>> \in Coin \X AnyMode
      BY <3>1
    <3>3. data' = <<call[c].coin, call[c].mode>> \/ data' = data
      BY <1>3 DEF StoreBest
    <3>4. data \in (Coin \X AnyMode) \cup {None} /\ pending \in 0 .. MaxPending
      BY DEF TypeOK
    <3>5. pending < MaxPending /\ pending' = pending + 1
      BY <1>3 DEF StoreBest
    <3> QED BY <3>2, <3>3, <3>4, <3>5, BoundAssumption
  <2>3. call' = [call EXCEPT ![c] = Pushed(FALSE)] /\ busy' = FALSE
    BY <1>3 DEF StoreBest
  <2>4. ScanType
    BY <2>3, LaterFits, IdleType
  <2>5. left' \in Nat
    BY <1>3, LeftType DEF StoreBest
  <2> QED
    BY <1>3, <2>2, <2>4, <2>5
       DEF StoreBest, Kept, TypeOK, ScanType, CallType, userVars, modelVars
<1> QED BY <1>1, <1>2, <1>3

\* The steps after an answer was stored, and the loss of one.
LEMMA TellType ==
    ASSUME TypeOK, NEW c \in Call, TellReset(c) \/ PoolMaxVolume(c) PROVE Kept
<1>1. CASE TellReset(c)
  <2>1. call[c].stage = "stored" /\ call[c].reset \in BOOLEAN
    BY <1>1, InUse DEF TellReset
  <2>2. call' = [call EXCEPT ![c] = [stage |-> "told"]]
    BY <1>1 DEF TellReset
  <2>3. ScanType
    BY <1>1, <2>1, <2>2, LaterFits, LaterType DEF TellReset
  <2> QED
    BY <1>1, <2>1, <2>3 DEF TellReset, Kept, TypeOK, ScanType, CallType, userVars,
                            serviceVars, modelVars
<1>2. CASE PoolMaxVolume(c)
  <2>1. call[c].stage = "told"
    BY <1>2 DEF PoolMaxVolume
  <2>3. \/ call' = [call EXCEPT ![c] = [stage |-> "checked"]]
        \/ call' = [call EXCEPT ![c] = Free]
    BY <1>2 DEF PoolMaxVolume
  <2>4. ScanType
    BY <1>2, <2>1, <2>3, LaterFits, FreeIsFree, LaterType DEF PoolMaxVolume
  <2>5. form' \in Forms
    BY <1>2, DeterminedType DEF PoolMaxVolume, TypeOK
  <2> QED
    BY <1>2, <2>4, <2>5 DEF PoolMaxVolume, Kept, TypeOK, ScanType, CallType, userVars,
                            serviceVars, queueVars, modelVars
<1> QED BY <1>1, <1>2

LEMMA PoolScanType ==
    ASSUME TypeOK, NEW c \in Call, PoolScan(c) PROVE Kept
<1>1. PICK s \in FreeScan \cup ({c} \cap ScanCall) :
         call' = [d \in Call |-> IF d = s THEN ScanRequest
                                 ELSE IF d = c THEN Free ELSE call[d]]
  BY DEF PoolScan
<1>2. s \in ScanCall /\ s \in Call
  BY <1>1 DEF FreeScan, Call
<1>3. ScanRequest \in Slot(s) /\ ScanRequest.stage = "sent"
  BY <1>2, ScanRequestType
<1>4. CallType
  <2>1. call' = [d \in Call |-> call'[d]] /\ \A d \in Call : call'[d] \in Slot(d)
    BY <1>1, <1>3, FreeIsFree DEF TypeOK
  <2> QED BY <2>1, CallsFit
<1>5. call'[s].stage = "sent"
  BY <1>1, <1>2, <1>3
<1>6. busy' = TRUE
  BY DEF PoolScan
<1>7. ScanType
  BY <1>2, <1>4, <1>5, <1>6 DEF ScanType, BusyMeansScanning
<1> QED
  BY <1>7 DEF PoolScan, Kept, TypeOK, ScanType, CallType, userVars, serviceVars,
              queueVars, modelVars

LEMMA LoseType ==
    ASSUME TypeOK, NEW c \in Call, LoseAnswer(c) PROVE Kept
<1>1. \/ /\ c \in BookCall /\ call' = [call EXCEPT ![c] = Free]
         /\ UNCHANGED <<busy, pending>>
      \/ /\ pending < MaxPending /\ busy' = FALSE /\ pending' = pending + 1
         /\ call' = [call EXCEPT ![c] = Pushed(TRUE)]
  BY DEF LoseAnswer
<1>2. ScanType
  BY <1>1, LaterFits, FreeIsFree, LaterType, IdleType
<1>3. pending \in 0 .. MaxPending
  BY DEF TypeOK
<1>4. pending' \in 0 .. MaxPending
  <2>1. pending' = pending \/ (pending < MaxPending /\ pending' = pending + 1)
    BY <1>1
  <2> QED BY <1>3, <2>1, BoundAssumption
<1>5. left' \in Nat
  BY LeftType DEF LoseAnswer
<1> QED
  BY <1>2, <1>4, <1>5 DEF LoseAnswer, Kept, TypeOK, ScanType, CallType, userVars,
                    serviceVars, modelVars

-----------------------------------------------------------------------------
(* The theorems.                                                           *)

LEMMA StepKeeps ==
    ASSUME TypeOK, BusyMeansScanning, [Next]_vars
    PROVE  TypeOK' /\ BusyMeansScanning'
<1>1. ASSUME UNCHANGED vars PROVE TypeOK' /\ BusyMeansScanning'
  BY <1>1 DEF vars, TypeOK, BusyMeansScanning
<1>2. ASSUME UserStep PROVE Kept
  BY <1>2, AskType, FillType DEF UserStep
<1>3. ASSUME FetchOrderbook \/ ScanBestOrders \/ ProcessAction PROVE Kept
  BY <1>3, TimerType
<1>4. ASSUME NEW c \in Call, Continuation(c) PROVE Kept
  BY <1>4, StoreType, TellType, PoolScanType DEF Continuation
<1>5. ASSUME NEW c \in Call, LoseAnswer(c) PROVE Kept
  BY <1>5, LoseType
<1> QED BY <1>1, <1>2, <1>3, <1>4, <1>5 DEF Next, Kept, ScanType

LEMMA Invariance == Spec => [](TypeOK /\ BusyMeansScanning)
  BY TypeInit, StepKeeps, PTL DEF Spec

\* Every variable keeps its type, for any coins, pairs and numbers of requests.
THEOREM TypeCorrect == Spec => []TypeOK
  BY Invariance, PTL

\* The scanner says that it is busy only while a request is in flight whose answer
\* or failure will say that it is not, whichever threads raced for the flag.
THEOREM BusyIsTruthful == Spec => []BusyMeansScanning
  BY Invariance, PTL
=============================================================================
