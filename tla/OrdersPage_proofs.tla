-------------------------- MODULE OrdersPage_proofs -------------------------
(***************************************************************************)
(* Theorems about OrdersPage for any orders, swaps, pages, limits, filters *)
(* and faults: a swap is shown once; the page only says that it is loading *)
(* while an answer is awaited, or was lost; and a swap that is over stays  *)
(* so, if answers are read and stored in order.                            *)
(***************************************************************************)
EXTENDS OrdersPage, SequenceTheorems, FiniteSetTheorems, WellFoundedInduction, TLAPS

-----------------------------------------------------------------------------
(* Sequences and finite sets.                                              *)

\* A set of naturals that is not empty has a least element.
LEMMA LeastOf ==
    ASSUME NEW S \in SUBSET Nat, S # {}
    PROVE  \E i \in S : \A j \in S : ~(j < i)
<1> DEFINE R == OpToRel(<, Nat)
<1>1. IsWellFoundedOn(R, Nat)
  BY NatLessThanWellFounded
<1>2. PICK i \in S : \A j \in S : <<j, i>> \notin R
  <2> HIDE DEF R
  <2> QED BY <1>1, WFMin
<1>3. \A j \in S : j < i => <<j, i>> \in R
  BY DEF OpToRel
<1> QED BY <1>2, <1>3

\* The rows that stay, in their order: row k of q was row g[k].
Stays(rows, q, g) ==
    /\ g \in [DOMAIN q -> DOMAIN rows]
    /\ \A k \in DOMAIN q : q[k] = rows[g[k]]
    /\ \A k, l \in DOMAIN q : g[k] = g[l] => k = l

LEMMA NthKept ==
    ASSUME NEW n \in Nat, NEW kept \in SUBSET (1 .. n), NEW k \in 1 .. Cardinality(kept)
    PROVE  \E i \in kept : Cardinality(kept \cap 1 .. i) = k
<1> DEFINE card(i) == Cardinality(kept \cap 1 .. i)
           S == {i \in Nat : i <= n /\ k <= card(i)}
<1>1. IsFiniteSet(kept) /\ Cardinality(kept) \in Nat
  <2>1. IsFiniteSet(1 .. n)
    BY FS_Interval
  <2> QED BY <2>1, FS_Subset, FS_CardinalityType
<1>2. \A i \in Nat : IsFiniteSet(kept \cap 1 .. i) /\ card(i) \in Nat
  BY <1>1, FS_Intersection, FS_CardinalityType
<1>3. kept \cap 1 .. n = kept
  OBVIOUS
<1>4. n \in S
  BY <1>1, <1>3
<1>5. PICK i \in S : \A j \in S : ~(j < i)
  BY <1>4, LeastOf
<1>6. card(0) = 0
  <2>1. kept \cap 1 .. 0 = {}
    OBVIOUS
  <2> QED BY <2>1, FS_EmptySet
<1>7. i \in Nat \ {0} /\ i <= n /\ k <= card(i) /\ i - 1 \in Nat
  BY <1>1, <1>5, <1>6
<1>8. card(i - 1) < k
  <2>1. i - 1 \notin S
    BY <1>5, <1>7
  <2>2. card(i - 1) \in Nat
    BY <1>2, <1>7
  <2> HIDE DEF card
  <2> QED BY <1>1, <1>7, <2>1, <2>2
<1>9. i \in kept
  <2>1. CASE i \notin kept
    <3>1. kept \cap 1 .. i = kept \cap 1 .. (i - 1)
      BY <1>7, <2>1
    <3> QED BY <1>2, <1>7, <1>8, <3>1
  <2> QED BY <2>1
<1>10. card(i) = card(i - 1) + 1
  <2>1. kept \cap 1 .. i = (kept \cap 1 .. (i - 1)) \cup {i} /\ i \notin kept \cap 1 .. (i - 1)
    BY <1>7, <1>9
  <2>2. IsFiniteSet(kept \cap 1 .. (i - 1))
    BY <1>2, <1>7
  <2> QED BY <2>1, <2>2, FS_AddElement
<1>11. card(i) = k
  <2>1. card(i) \in Nat /\ card(i - 1) \in Nat
    BY <1>2, <1>7
  <2> HIDE DEF card
  <2> QED BY <1>1, <1>7, <1>8, <1>10, <2>1
<1> QED BY <1>9, <1>11

LEMMA RemoveRowsKeeps ==
    ASSUME NEW K, NEW rows \in Seq(K), NEW gone, NEW q, q = RemoveRows(rows, gone)
    PROVE  q \in Seq(K) /\ \E g : Stays(rows, q, g)
<1> DEFINE kept == DOMAIN rows \ gone
           n == Cardinality(kept)
           nth(k) == CHOOSE i \in kept : Cardinality(kept \cap 1 .. i) = k
           g == [k \in 1 .. n |-> nth(k)]
<1>1. DOMAIN rows = 1 .. Len(rows) /\ Len(rows) \in Nat /\ kept \in SUBSET (1 .. Len(rows))
  BY LenProperties
<1>2. n \in Nat
  <2>1. IsFiniteSet(1 .. Len(rows))
    BY <1>1, FS_Interval
  <2>2. IsFiniteSet(kept)
    BY <1>1, <2>1, FS_Subset
  <2> QED BY <2>2, FS_CardinalityType
<1>3. ASSUME NEW k \in 1 .. n
      PROVE  nth(k) \in kept /\ Cardinality(kept \cap 1 .. nth(k)) = k
  <2>1. \E i \in kept : Cardinality(kept \cap 1 .. i) = k
    BY <1>1, <1>3, NthKept
  <2> QED BY <2>1
<1>4. q = [k \in 1 .. n |-> rows[nth(k)]]
  BY DEF RemoveRows
<1>5. \A k \in 1 .. n : nth(k) \in DOMAIN rows
  BY <1>3
<1>6. \A k, l \in 1 .. n : nth(k) = nth(l) => k = l
  BY <1>3
<1> HIDE DEF nth, n
<1>7. \A k \in 1 .. n : rows[nth(k)] \in K
  BY <1>1, <1>5
<1>8. q \in Seq(K)
  BY <1>2, <1>4, <1>7
<1>9. DOMAIN q = 1 .. n
  BY <1>4
<1>10. Stays(rows, q, g)
  BY <1>4, <1>5, <1>6, <1>9 DEF Stays
<1> QED BY <1>8, <1>10

\* A finite set as a sequence: each of its elements once.
LEMMA SetAsSequence ==
    ASSUME NEW S, IsFiniteSet(S), NEW q, q = SetToSeq(S)
    PROVE  q \in Seq(S) /\ \A i, j \in DOMAIN q : q[i] = q[j] => i = j
<1>1. Cardinality(S) \in Nat
  BY FS_CardinalityType
<1>2. PICK f : f \in Bijection(1 .. Cardinality(S), S)
  BY FS_CardinalityType DEF ExistsBijection
<1>3. f \in [1 .. Cardinality(S) -> S] /\ \A i, j \in DOMAIN f : f[i] = f[j] => i = j
  BY <1>2 DEF Bijection, Injection, IsInjective
<1>4. \E h \in [1 .. Cardinality(S) -> S] : IsInjective(h)
  BY <1>3 DEF IsInjective
<1>5. q \in [1 .. Cardinality(S) -> S] /\ IsInjective(q)
  BY <1>4 DEF SetToSeq
<1> QED BY <1>1, <1>5 DEF IsInjective

\* What is left of a sequence when the element at i is removed.
LEMMA RemovedAt ==
    ASSUME NEW K, NEW c \in Seq(K), NEW k \in 1 .. Len(c), NEW d, d = RemoveAt(c, k)
    PROVE  /\ d \in Seq(K)
           /\ Len(d) = Len(c) - 1
           /\ \A i \in 1 .. Len(c) - 1 : d[i] = c[IF i < k THEN i ELSE i + 1]
<1> DEFINE a == SubSeq(c, 1, k - 1)
           b == SubSeq(c, k + 1, Len(c))
<1>1. Len(c) \in Nat
  BY LenProperties
<1>2. (\A i \in 1..(k - 1) : c[i] \in K) /\ (\A i \in (k + 1)..Len(c) : c[i] \in K)
  BY <1>1
<1>3. a \in Seq(K) /\ Len(a) = k - 1 /\ \A i \in 1..(k - 1) : a[i] = c[i]
  BY <1>1, <1>2, SubSeqProperties
<1>4. b \in Seq(K) /\ Len(b) = Len(c) - k /\ \A i \in 1..(Len(c) - k) : b[i] = c[k + i]
  BY <1>1, <1>2, SubSeqProperties
<1>5. d = a \o b
  BY DEF RemoveAt
<1> HIDE DEF a, b
<1>6. d \in Seq(K) /\ Len(d) = Len(a) + Len(b)
  BY <1>3, <1>4, <1>5, ConcatProperties
<1>7. \A i \in 1..(Len(a) + Len(b)) : d[i] = IF i <= Len(a) THEN a[i] ELSE b[i - Len(a)]
  BY <1>3, <1>4, <1>5, ConcatProperties
<1>8. Len(d) = Len(c) - 1
  BY <1>1, <1>3, <1>4, <1>6
<1>9. ASSUME NEW i \in 1..(Len(c) - 1) PROVE d[i] = c[IF i < k THEN i ELSE i + 1]
  <2>1. i \in 1..(Len(a) + Len(b))
    BY <1>1, <1>3, <1>4
  <2>2. CASE i < k
    <3>1. i <= Len(a) /\ i \in 1..(k - 1)
      BY <1>1, <1>3, <2>2
    <3>2. d[i] = a[i]
      BY <1>7, <2>1, <3>1
    <3> QED BY <1>3, <2>2, <3>1, <3>2
  <2>3. CASE ~(i < k)
    <3>1. ~(i <= Len(a)) /\ i - Len(a) \in 1..(Len(c) - k) /\ k + (i - Len(a)) = i + 1
      BY <1>1, <1>3, <2>3
    <3>2. d[i] = b[i - Len(a)]
      BY <1>7, <2>1, <3>1
    <3> QED BY <1>4, <2>3, <3>1, <3>2
  <2> QED BY <2>2, <2>3
<1> QED BY <1>6, <1>8, <1>9

-----------------------------------------------------------------------------
(* The invariant.                                                          *)

Flight == [at : Params, reset : BOOLEAN, answer : Contents \cup {None}]
Proxy == [history : BOOLEAN, filter : Filter, can_i_apply : BOOLEAN]

\* No swap has two rows.
Once(rows) ==
    \A i, j \in DOMAIN rows :
        rows[i].swap /\ rows[j].swap /\ rows[i].id = rows[j].id => i = j

\* The rows of a list of an answer are told apart by their ids.
Single(list) == \A u, v \in list : u.id = v.id => u = v

Fine(c) == IsFiniteSet(c.orders) /\ IsFiniteSet(c.swaps) /\ Single(c.swaps)

\* The model shows no swap twice, and has registered those it shows.
Registered(m) ==
    /\ Once(m.rows)
    /\ \A i \in DOMAIN m.rows : m.rows[i].swap => m.rows[i].id \in m.swaps

Answered(f, i) == f[i].answer # None

Shown ==
    /\ IsFiniteSet(orders) /\ Fine(contents)
    /\ \A i \in DOMAIN flight : Answered(flight, i) => Fine(flight[i].answer)
    /\ Registered(model)

\* The rows of swaps.
SwapsOf(rows) == {rows[i] : i \in {j \in DOMAIN rows : rows[j].swap}}

\* A swap that is over in the earlier list has the same status in the later one.
After(earlier, later) ==
    \A r \in earlier, q \in later : r.id = q.id /\ r.status \in Over => q.status = r.status

\* A swap that is over in the list is so for mm2, with the same status.
Current(list) ==
    \A r \in list : r.status \in Over => IsOver(r.id) /\ r.status = StatusOf(events[r.id])

\* What is shown was read before what is stored, and that before the answers in
\* flight, one after the other.
InFlight(f, i) ==
    /\ After(SwapsOf(model.rows), f[i].answer.swaps)
    /\ After(contents.swaps, f[i].answer.swaps)
    /\ Current(f[i].answer.swaps)
    /\ \A j \in 1 .. i - 1 : Answered(f, j) /\ After(f[j].answer.swaps, f[i].answer.swaps)

Ordered ==
    /\ After(SwapsOf(model.rows), contents.swaps)
    /\ Current(SwapsOf(model.rows)) /\ Current(contents.swaps)
    /\ \A i \in DOMAIN flight : Answered(flight, i) => InFlight(flight, i)

Inv ==
    /\ TypeOK
    /\ Shown
    /\ LoadingMeansAwaiting
    /\ "reorder" \notin faults => Ordered

-----------------------------------------------------------------------------
(* The lists of mm2.                                                       *)

\* A finite set of naturals has a greatest element: of the sets that had none, one
\* would be smallest.
LEMMA GreatestOf ==
    ASSUME NEW S \in SUBSET Nat, S # {}, IsFiniteSet(S)
    PROVE  Max(S) \in S
<1> DEFINE Least(T) == \A x \in T : \E y \in T : ~(x >= y)
           B == {k \in Nat : \E T \in SUBSET Nat : /\ T # {} /\ IsFiniteSet(T)
                                                   /\ Cardinality(T) = k /\ Least(T)}
<1>1. SUFFICES ASSUME B # {} PROVE FALSE
  <2>1. CASE Least(S)
    <3>1. Cardinality(S) \in B
      BY <2>1, FS_CardinalityType
    <3> QED BY <1>1, <3>1
  <2>2. CASE ~Least(S)
    BY <2>2 DEF Max
  <2> QED BY <2>1, <2>2
<1>2. PICK k \in B : \A j \in B : ~(j < k)
  BY <1>1, LeastOf
<1>3. PICK T \in SUBSET Nat : /\ T # {} /\ IsFiniteSet(T) /\ Cardinality(T) = k /\ Least(T)
  BY <1>2
<1>4. PICK x \in T : TRUE
  BY <1>3
<1> DEFINE U == T \ {x}
<1>5. IsFiniteSet(U) /\ Cardinality(U) = k - 1 /\ Cardinality(U) \in Nat
  BY <1>3, <1>4, FS_RemoveElement, FS_CardinalityType
<1>6. U # {}
  <2>1. PICK y \in T : ~(x >= y)
    BY <1>3, <1>4
  <2> QED BY <2>1, <1>4
<1>7. k - 1 \notin B
  BY <1>2, <1>5
<1>8. ~Least(U)
  BY <1>3, <1>5, <1>6, <1>7
<1>9. PICK z \in U : \A y \in U : z >= y
  BY <1>8
<1>10. x \in Nat /\ z \in Nat /\ z \in T
  BY <1>3, <1>4, <1>9
<1>11. CASE x >= z
  <2>1. \A y \in T : x >= y
    <3>1. ASSUME NEW y \in T, y # x PROVE x >= y
      BY <1>3, <1>9, <1>10, <1>11, <3>1
    <3> QED BY <1>10, <3>1
  <2> QED BY <1>3, <1>4, <2>1
<1>12. CASE ~(x >= z)
  <2>1. \A y \in T : z >= y
    BY <1>9, <1>10, <1>12
  <2> QED BY <1>3, <1>10, <2>1
<1> QED BY <1>11, <1>12

LEMMA FirstType == First \in Params
<1>1. Max(Limit) \in Limit
  BY OrdersAssumption, GreatestOf
<1> QED BY <1>1, OrdersAssumption DEF First, Params

\* A swap that is over has a last event, which finished it.
LEMMA StatusOfEvents ==
    ASSUME NEW e \in Seq(Event)
    PROVE  /\ StatusOf(e) \in Status
           /\ StatusOf(e) \in Over => e # <<>> /\ Last(e) = "Finished"
BY DEF StatusOf, Status, Over

\* The image of a finite set of ids is finite.
LEMMA OrderRowsType ==
    ASSUME TypeOK, NEW ids \in SUBSET Id, IsFiniteSet(ids)
    PROVE  OrderRows(ids) \in SUBSET OrderRow /\ IsFiniteSet(OrderRows(ids))
<1> DEFINE row(id) == [id |-> id, swap |-> FALSE, status |-> "matching",
                       type |-> IF offers[id] = "taker" THEN "taker" ELSE "maker",
                       maker |-> offers[id] # "taker", whole |-> offers[id] # "part",
                       cancellable |-> id \notin ToSet(swaps), recoverable |-> FALSE]
           f == [id \in ids |-> row(id)]
<1>1. OrderRows(ids) = {row(id) : id \in ids}
  BY DEF OrderRows
<1>2. \A id \in ids : row(id) \in OrderRow
  BY DEF OrderRow, Row, Status
<1> HIDE DEF row
<1>3. f \in Surjection(ids, OrderRows(ids))
  BY <1>1 DEF Surjection
<1>4. IsFiniteSet(OrderRows(ids))
  BY <1>3, FS_Surjection
<1> QED BY <1>1, <1>2, <1>4

LEMMA SwapRowsType ==
    ASSUME TypeOK, NEW ids \in SUBSET Id, IsFiniteSet(ids)
    PROVE  /\ SwapRows(ids) \in SUBSET SwapRow /\ IsFiniteSet(SwapRows(ids))
           /\ Single(SwapRows(ids))
           /\ \A r \in SwapRows(ids) : r.status = StatusOf(events[r.id])
<1> DEFINE row(id) == [id |-> id, swap |-> TRUE, status |-> StatusOf(events[id]),
                       type |-> "taker", maker |-> FALSE, whole |-> TRUE, cancellable |-> FALSE,
                       recoverable |-> ToSet(events[id]) \cap ErrorEvent # {} /\ ~IsOver(id)]
           f == [id \in ids |-> row(id)]
<1>1. SwapRows(ids) = {row(id) : id \in ids}
  BY DEF SwapRows
<1>2. \A id \in ids : /\ row(id) \in SwapRow /\ row(id).id = id
                      /\ row(id).status = StatusOf(events[id])
  <2>1. ASSUME NEW id \in ids PROVE StatusOf(events[id]) \in Status
    <3>1. events[id] \in Seq(Event)
      BY DEF TypeOK
    <3> QED BY <3>1, StatusOfEvents
  <2> QED BY <2>1 DEF SwapRow, Row
<1> HIDE DEF row
<1>3. f \in Surjection(ids, SwapRows(ids))
  BY <1>1 DEF Surjection
<1>4. IsFiniteSet(SwapRows(ids))
  BY <1>3, FS_Surjection
<1>5. Single(SwapRows(ids))
  BY <1>1, <1>2 DEF Single
<1> QED BY <1>1, <1>2, <1>4, <1>5

\* What occurs in a sequence is finite.
LEMMA OccurFinite ==
    ASSUME NEW K, NEW q \in Seq(K)
    PROVE  IsFiniteSet(ToSet(q)) /\ ToSet(q) \in SUBSET K
<1>1. q \in Surjection(1 .. Len(q), ToSet(q))
  BY LenProperties DEF Surjection, ToSet
<1>2. IsFiniteSet(1 .. Len(q))
  BY LenProperties, FS_Interval
<1> QED BY <1>1, <1>2, FS_Surjection DEF ToSet

\* An answer is a list of each kind, and tells what mm2 has now.
LEMMA AnswerIsCurrent ==
    ASSUME TypeOK, IsFiniteSet(orders), NEW at \in Params, NEW refused, NEW c, c = Answer(at, refused)
    PROVE  /\ c \in Contents /\ Fine(c)
           /\ \A r \in c.swaps : r.status = StatusOf(events[r.id])
           /\ Current(c.swaps)
<1> DEFINE active == IF "active_swaps" \in refused THEN {} ELSE ActiveSwaps
           recent == IF "my_recent_swaps" \in refused THEN {} ELSE RecentSwaps(at)
           ids == active \cup recent
<1>1. IsFiniteSet(ToSet(swaps)) /\ ToSet(swaps) \in SUBSET Id
  BY OccurFinite DEF TypeOK
<1>2. ids \in SUBSET ToSet(swaps)
  BY DEF ActiveSwaps, RecentSwaps, ToSet
<1>3. IsFiniteSet(ids) /\ ids \in SUBSET Id
  BY <1>1, <1>2, FS_Subset
<1>4. /\ c.orders = (IF "my_orders" \in refused THEN {} ELSE OrderRows(orders))
      /\ c.swaps = SwapRows(ids)
      /\ c.at = (IF "my_recent_swaps" \in refused THEN [at EXCEPT !.page = 1] ELSE at)
      /\ c = [orders |-> c.orders, swaps |-> c.swaps, at |-> c.at]
  BY DEF Answer
<1>5. c.orders \in SUBSET OrderRow /\ IsFiniteSet(c.orders)
  BY <1>4, OrderRowsType, FS_EmptySet DEF TypeOK
<1>6. c.at \in Params
  BY <1>4 DEF Params
<1> HIDE DEF ids
<1>7. /\ c.swaps \in SUBSET SwapRow /\ IsFiniteSet(c.swaps) /\ Single(c.swaps)
      /\ \A r \in c.swaps : r.status = StatusOf(events[r.id])
  BY <1>3, <1>4, SwapRowsType
<1>8. c \in Contents
  BY <1>4, <1>5, <1>6, <1>7 DEF Contents
<1>9. Current(c.swaps)
  <2> SUFFICES ASSUME NEW r \in c.swaps, r.status \in Over PROVE IsOver(r.id)
    BY <1>7 DEF Current
  <2>1. r.id \in Id
    BY <1>7 DEF SwapRow, Row
  <2>2. events[r.id] \in Seq(Event)
    BY <2>1 DEF TypeOK
  <2> QED BY <1>7, <2>2, StatusOfEvents DEF IsOver
<1> QED BY <1>5, <1>7, <1>8, <1>9 DEF Fine

-----------------------------------------------------------------------------
(* The rows.                                                               *)

\* Row i is of the same swap as row j, or of an order as it is.
Alike(r, q) == r.id = q.id /\ r.swap = q.swap /\ r.status = q.status

\* Every swap of the rows has the status of one of the sources.
ComesFrom(rows, sources) == \A r \in SwapsOf(rows) : \E q \in sources : q.id = r.id /\ q.status = r.status

LEMMA UpdateExistingOrderKeeps ==
    ASSUME NEW r \in Row, NEW o \in Row, NEW s, s = UpdateExistingOrder(r, o)
    PROVE  s \in Row /\ Alike(s, r)
<1> DEFINE a == UpdateValue(r, "cancellable", o)
           b == UpdateValue(a, "maker", o)
           d == UpdateValue(b, "type", o)
<1>0. s = IF o.type = "maker" THEN UpdateValue(d, "whole", o) ELSE d
  BY DEF UpdateExistingOrder
<1>1. a \in Row /\ Alike(a, r)
  BY DEF UpdateValue, Data, SetData, Row, Alike
<1> HIDE DEF a
<1>2. b \in Row /\ Alike(b, r)
  BY <1>1 DEF UpdateValue, Data, SetData, Row, Alike
<1> HIDE DEF b
<1>3. d \in Row /\ Alike(d, r)
  BY <1>2 DEF UpdateValue, Data, SetData, Row, Alike
<1> HIDE DEF d
<1>4. CASE o.type = "maker"
  BY <1>0, <1>3, <1>4 DEF UpdateValue, Data, SetData, Row, Alike
<1> QED BY <1>0, <1>3, <1>4

LEMMA UpdateSwapKeeps ==
    ASSUME NEW r \in Row, NEW u \in Row, NEW s, s = UpdateSwap(r, u)
    PROVE  s \in Row /\ s.id = r.id /\ s.swap = r.swap /\ s.status = u.status
<1> DEFINE a == UpdateValue(r, "recoverable", u)
<1>1. a \in Row /\ Alike(a, r)
  BY DEF UpdateValue, Data, SetData, Row, Alike
<1>2. s = UpdateValue(a, "status", u)
  BY DEF UpdateSwap
<1> HIDE DEF a
<1> QED BY <1>1, <1>2 DEF UpdateValue, Data, SetData, Row, Alike

\* The rows after the answers about known orders.
LEMMA OrdersUpdated ==
    ASSUME NEW rows \in Seq(Row), NEW answers \in SUBSET Row,
           NEW q, q = Updated(rows, answers, UpdateExistingOrder)
    PROVE  q \in Seq(Row) /\ Len(q) = Len(rows) /\ \A i \in DOMAIN rows : Alike(q[i], rows[i])
<1>1. DOMAIN rows = 1 .. Len(rows) /\ Len(rows) \in Nat
  BY LenProperties
<1>2. q = [i \in DOMAIN rows |->
             IF \E u \in answers : Matches(rows, i, u.id)
             THEN UpdateExistingOrder(rows[i], CHOOSE u \in answers : Matches(rows, i, u.id))
             ELSE rows[i]]
  BY DEF Updated
<1>3. ASSUME NEW i \in DOMAIN rows PROVE q[i] \in Row /\ Alike(q[i], rows[i])
  <2>1. rows[i] \in Row
    BY <1>1, <1>3
  <2>2. CASE \E u \in answers : Matches(rows, i, u.id)
    <3> DEFINE v == CHOOSE u \in answers : Matches(rows, i, u.id)
    <3>1. v \in answers
      BY <2>2
    <3>2. q[i] = UpdateExistingOrder(rows[i], v)
      BY <1>2, <1>3, <2>2
    <3> HIDE DEF v
    <3> QED BY <2>1, <3>1, <3>2, UpdateExistingOrderKeeps
  <2>3. CASE ~\E u \in answers : Matches(rows, i, u.id)
    BY <1>2, <2>1, <2>3 DEF Alike
  <2> QED BY <2>2, <2>3
<1>4. DOMAIN q = 1 .. Len(rows)
  BY <1>1, <1>2
<1>5. q \in [1 .. Len(rows) -> Row]
  BY <1>1, <1>2, <1>3, <1>4
<1>6. q \in Seq(Row) /\ Len(q) = Len(rows)
  BY <1>1, <1>5
<1> QED BY <1>3, <1>6

\* ... and about known swaps: a row may get the status of an answer with its id.
LEMMA SwapsUpdated ==
    ASSUME NEW rows \in Seq(Row), NEW answers \in SUBSET Row,
           NEW q, q = Updated(rows, answers, UpdateSwap)
    PROVE  /\ q \in Seq(Row) /\ Len(q) = Len(rows)
           /\ \A i \in DOMAIN rows :
                /\ q[i].id = rows[i].id /\ q[i].swap = rows[i].swap
                /\ \/ q[i].status = rows[i].status
                   \/ \E u \in answers : u.id = rows[i].id /\ u.status = q[i].status
<1>1. DOMAIN rows = 1 .. Len(rows) /\ Len(rows) \in Nat
  BY LenProperties
<1>2. q = [i \in DOMAIN rows |->
             IF \E u \in answers : Matches(rows, i, u.id)
             THEN UpdateSwap(rows[i], CHOOSE u \in answers : Matches(rows, i, u.id))
             ELSE rows[i]]
  BY DEF Updated
<1>3. ASSUME NEW i \in DOMAIN rows
      PROVE  /\ q[i] \in Row /\ q[i].id = rows[i].id /\ q[i].swap = rows[i].swap
             /\ \/ q[i].status = rows[i].status
                \/ \E u \in answers : u.id = rows[i].id /\ u.status = q[i].status
  <2>1. rows[i] \in Row
    BY <1>1, <1>3
  <2>2. CASE \E u \in answers : Matches(rows, i, u.id)
    <3> DEFINE v == CHOOSE u \in answers : Matches(rows, i, u.id)
    <3>1. v \in answers /\ v.id = rows[i].id
      BY <2>2 DEF Matches
    <3>2. q[i] = UpdateSwap(rows[i], v)
      BY <1>2, <1>3, <2>2
    <3> HIDE DEF v
    <3>3. q[i] \in Row /\ q[i].id = rows[i].id /\ q[i].swap = rows[i].swap /\ q[i].status = v.status
      BY <2>1, <3>1, <3>2, UpdateSwapKeeps
    <3> QED BY <3>1, <3>3
  <2>3. CASE ~\E u \in answers : Matches(rows, i, u.id)
    BY <1>2, <2>1, <2>3
  <2> QED BY <2>2, <2>3
<1>4. DOMAIN q = 1 .. Len(rows)
  BY <1>1, <1>2
<1>5. q \in [1 .. Len(rows) -> Row]
  BY <1>1, <1>2, <1>3, <1>4
<1>6. q \in Seq(Row) /\ Len(q) = Len(rows)
  BY <1>1, <1>5
<1> QED BY <1>3, <1>6

\* Two lists of rows, one after the other.
LEMMA Joined ==
    ASSUME NEW a \in Seq(Row), NEW b \in Seq(Row), NEW q, q = a \o b
    PROVE  /\ q \in Seq(Row)
           /\ \A i \in DOMAIN q : \/ i \in DOMAIN a /\ q[i] = a[i]
                                  \/ /\ i - Len(a) \in DOMAIN b /\ i \notin DOMAIN a
                                     /\ q[i] = b[i - Len(a)]
           /\ Len(a) \in Nat /\ DOMAIN q \in SUBSET Nat
BY ConcatProperties, LenProperties

\* update_or_insert_orders leaves the swaps alone.
LEMMA OrdersMerged ==
    ASSUME NEW m \in Model, NEW c \in Contents, Registered(m), Fine(c),
           NEW n, n = UpdateOrInsertOrders(m, c)
    PROVE  n \in Model /\ Registered(n) /\ n.swaps = m.swaps /\ ComesFrom(n.rows, SwapsOf(m.rows))
<1> DEFINE new == Unknown(c.orders, m.orders)
           known == Known(c.orders, m.orders)
           old == Updated(m.rows, known, UpdateExistingOrder)
           added == SetToSeq(new)
           all == old \o added
           p == [m EXCEPT !.rows = all, !.orders = @ \cup Ids(new)]
           gone == {i \in DOMAIN p.rows : /\ p.rows[i].id \in p.orders \ Ids(c.orders)
                                          /\ Matches(p.rows, i, p.rows[i].id)}
           left2 == RemoveRows(p.rows, gone)
<1>1. m.rows \in Seq(Row) /\ m.orders \in SUBSET Id /\ m.swaps \in SUBSET Id /\ m.at \in Params
  BY DEF Model
<1>2. new \in SUBSET OrderRow /\ known \in SUBSET Row /\ IsFiniteSet(new)
  BY FS_Subset DEF Unknown, Known, Contents, Fine, OrderRow
<1>3. old \in Seq(Row) /\ Len(old) = Len(m.rows) /\ \A i \in DOMAIN m.rows : Alike(old[i], m.rows[i])
  BY <1>1, <1>2, OrdersUpdated
<1>4. added \in Seq(new)
  BY <1>2, SetAsSequence
<1>5. added \in Seq(Row) /\ \A i \in DOMAIN added : ~added[i].swap
  <2>1. \A i \in DOMAIN added : added[i] \in new
    BY <1>4
  <2> QED BY <1>2, <1>4, <2>1, SeqMonotonic DEF OrderRow
<1>6. DOMAIN old = DOMAIN m.rows
  BY <1>1, <1>3, LenProperties
<1> HIDE DEF old, added
<1>7. /\ all \in Seq(Row)
      /\ \A i \in DOMAIN all : \/ i \in DOMAIN old /\ all[i] = old[i]
                               \/ i - Len(old) \in DOMAIN added /\ all[i] = added[i - Len(old)]
  BY <1>3, <1>5, Joined
<1>8. \A i \in DOMAIN all : all[i].swap => i \in DOMAIN m.rows /\ Alike(all[i], m.rows[i])
  BY <1>3, <1>5, <1>6, <1>7
<1> HIDE DEF all
<1>9. /\ p.rows = all /\ p.orders = m.orders \cup Ids(new) /\ p.swaps = m.swaps /\ p.at = m.at
      /\ p = [rows |-> p.rows, orders |-> p.orders, swaps |-> p.swaps, at |-> p.at]
  <2> DEFINE e == [m EXCEPT !.rows = all]
  <2>1. e = [rows |-> all, orders |-> m.orders, swaps |-> m.swaps, at |-> m.at]
    BY DEF Model
  <2>2. p = [e EXCEPT !.orders = m.orders \cup Ids(new)]
    OBVIOUS
  <2> HIDE DEF e, p
  <2>3. p = [rows |-> all, orders |-> m.orders \cup Ids(new), swaps |-> m.swaps, at |-> m.at]
    BY <2>1, <2>2
  <2> QED BY <2>3
<1>10. n = [p EXCEPT !.rows = left2, !.orders = @ \ {p.rows[i].id : i \in gone}]
  BY DEF UpdateOrInsertOrders, RemoveOrders, all, old, added
<1>11. p.orders \in SUBSET Id
  BY <1>1, <1>2, <1>9 DEF Ids, OrderRow, Row
<1> HIDE DEF p, gone
<1>12. /\ n.rows = left2 /\ n.swaps = m.swaps
       /\ n = [rows |-> n.rows, orders |-> n.orders, swaps |-> n.swaps, at |-> n.at]
       /\ n.orders \in SUBSET Id /\ n.at = m.at
  BY <1>9, <1>10, <1>11
<1>13. left2 \in Seq(Row) /\ \E g : Stays(all, left2, g)
  BY <1>7, <1>9, RemoveRowsKeeps
<1> HIDE DEF left2
<1>14. PICK g : Stays(all, left2, g)
  BY <1>13
<1>15. n \in Model
  BY <1>1, <1>12, <1>13 DEF Model
<1>16. \A k \in DOMAIN n.rows : n.rows[k].swap => g[k] \in DOMAIN m.rows /\ Alike(n.rows[k], m.rows[g[k]])
  BY <1>8, <1>12, <1>14 DEF Stays
<1>17. Once(n.rows)
  <2> SUFFICES ASSUME NEW i \in DOMAIN n.rows, NEW j \in DOMAIN n.rows,
                      n.rows[i].swap, n.rows[j].swap, n.rows[i].id = n.rows[j].id
               PROVE  i = j
    BY DEF Once
  <2>1. g[i] = g[j]
    BY <1>16 DEF Registered, Once, Alike
  <2> QED BY <1>12, <1>14, <2>1 DEF Stays
<1>18. \A i \in DOMAIN n.rows : n.rows[i].swap => n.rows[i].id \in n.swaps
  BY <1>12, <1>16 DEF Registered, Alike
<1>19. ComesFrom(n.rows, SwapsOf(m.rows))
  BY <1>16 DEF ComesFrom, SwapsOf, Alike
<1> QED BY <1>12, <1>15, <1>17, <1>18, <1>19 DEF Registered

\* update_or_insert_swaps inserts the swaps that it has not registered.
LEMMA SwapsMerged ==
    ASSUME NEW m \in Model, NEW c \in Contents, Registered(m), Fine(c),
           NEW n, n = UpdateOrInsertSwaps(m, c)
    PROVE  n \in Model /\ Registered(n) /\ ComesFrom(n.rows, SwapsOf(m.rows) \cup c.swaps)
<1> DEFINE new == Unknown(c.swaps, m.swaps)
           known == Known(c.swaps, m.swaps)
           old == Updated(m.rows, known, UpdateSwap)
           added == SetToSeq(new)
           all == old \o added
<1>1. m.rows \in Seq(Row) /\ m.orders \in SUBSET Id /\ m.swaps \in SUBSET Id /\ m.at \in Params
  BY DEF Model
<1>2. /\ new \in SUBSET SwapRow /\ new \in SUBSET c.swaps /\ IsFiniteSet(new)
      /\ known \in SUBSET Row /\ known \in SUBSET c.swaps
      /\ \A r \in new : r.id \notin m.swaps
  BY FS_Subset DEF Unknown, Known, Contents, Fine, SwapRow
<1>3. /\ old \in Seq(Row) /\ Len(old) = Len(m.rows)
      /\ \A i \in DOMAIN m.rows :
            /\ old[i].id = m.rows[i].id /\ old[i].swap = m.rows[i].swap
            /\ \/ old[i].status = m.rows[i].status
               \/ \E u \in known : u.id = m.rows[i].id /\ u.status = old[i].status
  BY <1>1, <1>2, SwapsUpdated
<1>4. added \in Seq(new) /\ \A i, j \in DOMAIN added : added[i] = added[j] => i = j
  BY <1>2, SetAsSequence
<1>5. added \in Seq(Row) /\ \A i \in DOMAIN added : added[i] \in new
  <2>1. new \in SUBSET Row
    BY <1>2 DEF SwapRow
  <2> QED BY <1>4, <2>1, SeqMonotonic
<1>6. DOMAIN old = DOMAIN m.rows
  BY <1>1, <1>3, LenProperties
<1> HIDE DEF old, added, new, known
<1>7. /\ all \in Seq(Row) /\ DOMAIN all \in SUBSET Nat /\ Len(old) \in Nat
      /\ \A i \in DOMAIN all : \/ i \in DOMAIN m.rows /\ all[i] = old[i]
                               \/ /\ i - Len(old) \in DOMAIN added /\ i \notin DOMAIN m.rows
                                  /\ all[i] = added[i - Len(old)]
  BY <1>3, <1>5, <1>6, Joined
<1> HIDE DEF all
<1>8. /\ n.rows = all /\ n.swaps = m.swaps \cup Ids(new) /\ n.orders = m.orders /\ n.at = m.at
      /\ n = [rows |-> n.rows, orders |-> n.orders, swaps |-> n.swaps, at |-> n.at]
  BY DEF UpdateOrInsertSwaps, UpdateSwaps, Model, all, old, added, new, known
<1>9. n.swaps \in SUBSET Id
  BY <1>1, <1>2, <1>8 DEF Ids, SwapRow, Row
<1>10. n \in Model
  BY <1>1, <1>7, <1>8, <1>9 DEF Model
<1>11. Once(n.rows)
  <2> SUFFICES ASSUME NEW i \in DOMAIN all, NEW j \in DOMAIN all,
                      all[i].swap, all[j].swap, all[i].id = all[j].id
               PROVE  i = j
    BY <1>8 DEF Once
  <2>1. CASE i \in DOMAIN m.rows /\ all[i] = old[i] /\ j \in DOMAIN m.rows /\ all[j] = old[j]
    BY <1>3, <2>1 DEF Registered, Once
  <2>2. ASSUME NEW x \in DOMAIN all, NEW y \in DOMAIN all, all[x].swap, all[y].swap,
               all[x].id = all[y].id, x \in DOMAIN m.rows, all[x] = old[x],
               y - Len(old) \in DOMAIN added, all[y] = added[y - Len(old)]
        PROVE  FALSE
    BY <1>2, <1>3, <1>5, <2>2 DEF Registered
  <2>3. CASE /\ i - Len(old) \in DOMAIN added /\ all[i] = added[i - Len(old)]
             /\ j - Len(old) \in DOMAIN added /\ all[j] = added[j - Len(old)]
    <3>1. all[i] = all[j]
      BY <1>2, <1>5, <2>3 DEF Fine, Single
    <3>2. i - Len(old) = j - Len(old)
      BY <1>4, <2>3, <3>1
    <3> QED BY <1>7, <3>2
  <2> QED BY <1>7, <2>1, <2>2, <2>3
<1>12. \A i \in DOMAIN n.rows : n.rows[i].swap => n.rows[i].id \in n.swaps
  BY <1>3, <1>5, <1>7, <1>8 DEF Registered, Ids
<1>13. ComesFrom(n.rows, SwapsOf(m.rows) \cup c.swaps)
  <2> SUFFICES ASSUME NEW i \in DOMAIN all, all[i].swap
               PROVE  \E q \in SwapsOf(m.rows) \cup c.swaps : q.id = all[i].id /\ q.status = all[i].status
    BY <1>8 DEF ComesFrom, SwapsOf
  <2>1. CASE i \in DOMAIN m.rows /\ all[i] = old[i]
    <3>1. m.rows[i] \in SwapsOf(m.rows)
      BY <1>3, <2>1 DEF SwapsOf
    <3> QED BY <1>2, <1>3, <2>1, <3>1
  <2>2. CASE i - Len(old) \in DOMAIN added /\ all[i] = added[i - Len(old)]
    BY <1>2, <1>5, <2>2
  <2> QED BY <1>7, <2>1, <2>2
<1> QED BY <1>10, <1>11, <1>12, <1>13 DEF Registered

\* Both, of the contents of an answer.
LEMMA Merged ==
    ASSUME NEW m \in Model, NEW c \in Contents, Registered(m), Fine(c),
           NEW n, n = UpdateOrInsertSwaps(UpdateOrInsertOrders(m, c), c)
    PROVE  n \in Model /\ Registered(n) /\ ComesFrom(n.rows, SwapsOf(m.rows) \cup c.swaps)
<1> DEFINE o == UpdateOrInsertOrders(m, c)
<1>1. o \in Model /\ Registered(o) /\ ComesFrom(o.rows, SwapsOf(m.rows))
  BY OrdersMerged
<1>2. n = UpdateOrInsertSwaps(o, c)
  OBVIOUS
<1> HIDE DEF o
<1>3. n \in Model /\ Registered(n) /\ ComesFrom(n.rows, SwapsOf(o.rows) \cup c.swaps)
  BY <1>1, <1>2, SwapsMerged
<1>4. ComesFrom(n.rows, SwapsOf(m.rows) \cup c.swaps)
  BY <1>1, <1>3 DEF ComesFrom
<1> QED BY <1>3, <1>4

\* init_model: nothing was shown.
LEMMA Initialised ==
    ASSUME NEW m \in Model, NEW c \in Contents, Registered(m), Fine(c), NEW n, n = InitModel(m, c)
    PROVE  n \in Model /\ Registered(n) /\ ComesFrom(n.rows, SwapsOf(m.rows) \cup c.swaps)
<1>1. CASE c.orders \cup c.swaps = {}
  <2>1. n = m
    BY <1>1 DEF InitModel
  <2> QED BY <2>1 DEF ComesFrom
<1>2. CASE c.orders \cup c.swaps # {}
  <2> DEFINE a == SetToSeq(c.orders)
             b == SetToSeq(c.swaps)
             all == a \o b
  <2>1. c.orders \in SUBSET OrderRow /\ c.swaps \in SUBSET SwapRow /\ c.at \in Params
    BY DEF Contents
  <2>2. a \in Seq(c.orders) /\ b \in Seq(c.swaps) /\ \A i, j \in DOMAIN b : b[i] = b[j] => i = j
    BY SetAsSequence DEF Fine
  <2>3. c.orders \in SUBSET Row /\ c.swaps \in SUBSET Row
    BY <2>1 DEF OrderRow, SwapRow
  <2>4. a \in Seq(Row) /\ b \in Seq(Row)
    BY <2>2, <2>3, SeqMonotonic
  <2>5. (\A i \in DOMAIN a : ~a[i].swap) /\ (\A i \in DOMAIN b : b[i] \in c.swaps)
    <3>1. \A i \in DOMAIN a : a[i] \in c.orders
      BY <2>2
    <3> QED BY <2>1, <2>2, <3>1 DEF OrderRow
  <2> HIDE DEF a, b
  <2>6. /\ all \in Seq(Row) /\ DOMAIN all \in SUBSET Nat /\ Len(a) \in Nat
        /\ \A i \in DOMAIN all : \/ i \in DOMAIN a /\ all[i] = a[i]
                                 \/ i - Len(a) \in DOMAIN b /\ all[i] = b[i - Len(a)]
    BY <2>4, Joined
  <2> HIDE DEF all
  <2>7. n = [rows |-> all, orders |-> Ids(c.orders), swaps |-> Ids(c.swaps), at |-> c.at]
    BY <1>2 DEF InitModel, all, a, b
  <2>8. Ids(c.orders) \in SUBSET Id /\ Ids(c.swaps) \in SUBSET Id
    BY <2>3 DEF Ids, Row
  <2>9. n \in Model
    BY <2>1, <2>6, <2>7, <2>8 DEF Model
  <2>10. \A i \in DOMAIN all : all[i].swap =>
            i - Len(a) \in DOMAIN b /\ all[i] = b[i - Len(a)] /\ all[i] \in c.swaps
    BY <2>5, <2>6
  <2>11. Once(all)
    <3> SUFFICES ASSUME NEW i \in DOMAIN all, NEW j \in DOMAIN all,
                        all[i].swap, all[j].swap, all[i].id = all[j].id
                 PROVE  i = j
      BY DEF Once
    <3>1. all[i] = all[j]
      BY <2>10 DEF Fine, Single
    <3>2. i - Len(a) = j - Len(a)
      BY <2>2, <2>10, <3>1
    <3> QED BY <2>6, <3>2
  <2>12. Registered(n)
    BY <2>7, <2>10, <2>11 DEF Registered, Ids
  <2>13. ComesFrom(n.rows, SwapsOf(m.rows) \cup c.swaps)
    BY <2>7, <2>10 DEF ComesFrom, SwapsOf
  <2> QED BY <2>9, <2>12, <2>13
<1> QED BY <1>1, <1>2

-----------------------------------------------------------------------------
(* What the functions of orders_model do to a side.                        *)

Sides == [m : Model, b : BOOLEAN, c : Contents, f : Seq(Flight)]

\* Batches that are not answered yet were added.
Extends(f, g) ==
    /\ DOMAIN f \subseteq DOMAIN g
    /\ \A i \in DOMAIN f : g[i] = f[i]
    /\ \A i \in DOMAIN g \ DOMAIN f : g[i].answer = None

\* The rows and the contents stay or are cleared, and the page only says that it is
\* loading after a reset was asked for.
Turns(s, t) ==
    /\ t \in Sides
    /\ Extends(s.f, t.f)
    /\ t.c = s.c \/ (t.c.orders = {} /\ t.c.swaps = {})
    /\ t.m.rows = <<>> \/ (t.m.rows = s.m.rows /\ t.m.swaps = s.m.swaps)
    /\ t.b => s.b \/ \E i \in DOMAIN t.f : t.f[i].reset

LEMMA TurnsReflexive ==
    ASSUME NEW s \in Sides PROVE Turns(s, s)
BY DEF Turns, Extends

LEMMA TurnsTransitive ==
    ASSUME NEW s, NEW t, NEW u, Turns(s, t), Turns(t, u)
    PROVE  Turns(s, u)
<1>1. Extends(s.f, u.f)
  <2>1. ASSUME NEW i \in DOMAIN u.f \ DOMAIN s.f PROVE u.f[i].answer = None
    <3>1. CASE i \in DOMAIN t.f
      BY <2>1, <3>1 DEF Turns, Extends
    <3>2. CASE i \notin DOMAIN t.f
      BY <2>1, <3>2 DEF Turns, Extends
    <3> QED BY <3>1, <3>2
  <2> QED BY <2>1 DEF Turns, Extends
<1>2. u.b => s.b \/ \E i \in DOMAIN u.f : u.f[i].reset
  BY DEF Turns, Extends
<1> QED BY <1>1, <1>2 DEF Turns

\* The changes of one part of a side.
LEMMA Sidewise ==
    ASSUME NEW s \in Sides
    PROVE  /\ \A x : [s EXCEPT !.m = x] = [m |-> x, b |-> s.b, c |-> s.c, f |-> s.f]
           /\ \A x : [s EXCEPT !.b = x] = [m |-> s.m, b |-> x, c |-> s.c, f |-> s.f]
           /\ \A x : [s EXCEPT !.c = x] = [m |-> s.m, b |-> s.b, c |-> x, f |-> s.f]
           /\ \A x : [s EXCEPT !.f = x] = [m |-> s.m, b |-> s.b, c |-> s.c, f |-> x]
BY DEF Sides

LEMMA SideParts ==
    ASSUME NEW s \in Sides
    PROVE  s.m \in Model /\ s.b \in BOOLEAN /\ s.c \in Contents /\ s.f \in Seq(Flight)
BY DEF Sides

LEMMA SideMade ==
    ASSUME NEW m \in Model, NEW b \in BOOLEAN, NEW c \in Contents, NEW f \in Seq(Flight),
           NEW t, t = [m |-> m, b |-> b, c |-> c, f |-> f]
    PROVE  t \in Sides /\ t.m = m /\ t.b = b /\ t.c = c /\ t.f = f
BY DEF Sides

\* A batch that is not answered yet.
LEMMA Batched ==
    ASSUME NEW f \in Seq(Flight), NEW a \in Flight, a.answer = None, NEW g, g = Append(f, a)
    PROVE  /\ g \in Seq(Flight) /\ Extends(f, g)
           /\ Len(g) = Len(f) + 1 /\ Len(g) \in DOMAIN g /\ g[Len(g)] = a
           /\ \A i \in DOMAIN g : i \in DOMAIN f \/ i = Len(g)
<1>1. /\ g \in Seq(Flight) /\ Len(g) = Len(f) + 1
      /\ \A i \in 1 .. Len(f) : g[i] = f[i]
      /\ g[Len(f) + 1] = a
  BY AppendProperties
<1>2. Len(f) \in Nat /\ DOMAIN f = 1 .. Len(f) /\ DOMAIN g = 1 .. Len(g)
  BY <1>1, LenProperties
<1> QED BY <1>1, <1>2 DEF Extends

LEMMA EmptyType ==
    ASSUME NEW at \in Params
    PROVE  Empty(at) \in Contents /\ Empty(at).orders = {} /\ Empty(at).swaps = {} /\ Fine(Empty(at))
BY FS_EmptySet DEF Empty, Contents, OrderRow, SwapRow, Fine, Single

LEMMA ResetType ==
    ASSUME NEW m \in Model
    PROVE  ResetBackend(m) \in Model /\ ResetBackend(m).rows = <<>>
<1>1. [m.at EXCEPT !.page = 1] \in Params
  BY DEF Model, Params
<1>2. <<>> \in Seq(Row)
  BY EmptySeq
<1> QED BY <1>1, <1>2 DEF ResetBackend, Model

\* SetFetchingBusy(s, FALSE).
LEMMA NotBusyTurns ==
    ASSUME NEW s \in Sides, NEW t, t = [s EXCEPT !.b = FALSE]
    PROVE  /\ Turns(s, t) /\ ~t.b
           /\ t.m = s.m /\ t.c = s.c /\ t.f = s.f
<1>1. t = [m |-> s.m, b |-> FALSE, c |-> s.c, f |-> s.f]
  BY Sidewise
<1>2. t \in Sides /\ t.m = s.m /\ t.b = FALSE /\ t.c = s.c /\ t.f = s.f
  BY <1>1, SideParts DEF Sides
<1> QED BY <1>2 DEF Turns, Extends

\* The filter or the limit of the next request.
LEMMA SetAtTurns ==
    ASSUME NEW s \in Sides, NEW at \in Params, NEW t, t = [s EXCEPT !.m = [s.m EXCEPT !.at = at]]
    PROVE  Turns(s, t) /\ t.m.at = at /\ t.b = s.b /\ t.f = s.f /\ t.c = s.c
<1> DEFINE n == [s.m EXCEPT !.at = at]
<1>1. s.m \in Model
  BY SideParts
<1>2. n \in Model /\ n.rows = s.m.rows /\ n.swaps = s.m.swaps /\ n.at = at
  BY <1>1 DEF Model
<1> HIDE DEF n
<1>3. t = [m |-> n, b |-> s.b, c |-> s.c, f |-> s.f]
  BY Sidewise DEF n
<1>4. t \in Sides /\ t.m = n /\ t.b = s.b /\ t.c = s.c /\ t.f = s.f
  BY <1>2, <1>3, SideParts DEF Sides
<1> QED BY <1>2, <1>4 DEF Turns, Extends

LEMMA SetPaginationTurns ==
    ASSUME NEW s \in Sides, NEW at \in Params, NEW t, t = SetPagination(s, at)
    PROVE  Turns(s, t) /\ t.m = s.m /\ t.b = s.b /\ t.c = Empty(at)
           /\ \E i \in DOMAIN t.f : t.f[i].reset
<1> DEFINE a == [at |-> at, reset |-> TRUE, answer |-> None]
           g == Append(s.f, a)
           e == [s EXCEPT !.c = Empty(at)]
<1>1. e = [m |-> s.m, b |-> s.b, c |-> Empty(at), f |-> s.f]
  BY Sidewise
<1>2. t = [e EXCEPT !.f = Append(e.f, a)]
  BY DEF SetPagination, Batch
<1>3. a \in Flight /\ a.answer = None
  BY DEF Flight
<1>9. a.reset
  OBVIOUS
<1> HIDE DEF a
<1>4. e \in Sides /\ e.m = s.m /\ e.b = s.b /\ e.c = Empty(at) /\ e.f = s.f
  BY <1>1, SideParts, EmptyType DEF Sides
<1> HIDE DEF e
<1>5. t = [m |-> s.m, b |-> s.b, c |-> Empty(at), f |-> g]
  <2>1. [e EXCEPT !.f = g] = [m |-> e.m, b |-> e.b, c |-> e.c, f |-> g]
    BY <1>4, Sidewise
  <2> QED BY <1>2, <1>4, <2>1
<1>6. g \in Seq(Flight) /\ Extends(s.f, g) /\ Len(g) \in DOMAIN g /\ g[Len(g)].reset
  <2>1. s.f \in Seq(Flight)
    BY SideParts
  <2>2. g \in Seq(Flight) /\ Extends(s.f, g) /\ Len(g) \in DOMAIN g /\ g[Len(g)] = a
    <3> HIDE DEF g
    <3>1. g = Append(s.f, a)
      BY DEF g
    <3> QED BY <1>3, <2>1, <3>1, Batched
  <2> QED BY <1>9, <2>2
<1> HIDE DEF g
<1>7. t \in Sides /\ t.m = s.m /\ t.b = s.b /\ t.c = Empty(at) /\ t.f = g
  BY <1>5, <1>6, SideParts, EmptyType DEF Sides
<1>8. Extends(s.f, t.f) /\ \E i \in DOMAIN t.f : t.f[i].reset
  BY <1>6, <1>7
<1> QED BY <1>7, <1>8, EmptyType DEF Turns

LEMMA ReloadTurns ==
    ASSUME NEW s \in Sides, NEW page \in Nat \ {0}, NEW t, t = Reload(s, page)
    PROVE  Turns(s, t)
<1> DEFINE at == [s.m.at EXCEPT !.page = page]
           e == [s EXCEPT !.b = TRUE]
           d == [e EXCEPT !.m = ResetBackend(e.m)]
<1>1. s.m \in Model /\ at \in Params
  BY SideParts DEF Model, Params
<1>2. e = [m |-> s.m, b |-> TRUE, c |-> s.c, f |-> s.f]
  BY Sidewise
<1>3. e \in Sides /\ e.m = s.m /\ e.c = s.c /\ e.f = s.f
  BY <1>2, SideParts DEF Sides
<1>4. t = SetPagination(d, at)
  BY DEF Reload, SetFetchingBusy
<1> HIDE DEF e, at
<1>5. d = [m |-> ResetBackend(s.m), b |-> e.b, c |-> s.c, f |-> s.f]
  BY <1>3, Sidewise
<1> HIDE DEF d
<1>6. d \in Sides /\ d.m.rows = <<>> /\ d.c = s.c /\ d.f = s.f
  BY <1>1, <1>3, <1>5, SideParts, ResetType DEF Sides
<1>7. Turns(d, t) /\ t.m = d.m /\ \E i \in DOMAIN t.f : t.f[i].reset
  BY <1>1, <1>4, <1>6, SetPaginationTurns
<1> QED BY <1>6, <1>7 DEF Turns

LEMMA SetCurrentPageTurns ==
    ASSUME NEW s \in Sides, NEW page \in Nat \ {0}, NEW t, t = SetCurrentPage(s, page)
    PROVE  Turns(s, t)
<1>1. CASE page = s.m.at.page
  BY <1>1, TurnsReflexive DEF SetCurrentPage
<1>2. CASE page # s.m.at.page
  <2>1. t = Reload(s, page)
    BY <1>2 DEF SetCurrentPage
  <2> QED BY <2>1, ReloadTurns
<1> QED BY <1>1, <1>2

LEMMA SetLimitTurns ==
    ASSUME NEW s \in Sides, NEW limit \in Limit, NEW t, t = SetLimit(s, limit)
    PROVE  Turns(s, t)
<1>1. CASE limit = s.m.at.limit
  BY <1>1, TurnsReflexive DEF SetLimit
<1>2. CASE limit # s.m.at.limit
  <2> DEFINE at == [s.m.at EXCEPT !.limit = limit]
             e == [s EXCEPT !.m = [s.m EXCEPT !.at = at]]
  <2>1. t = Reload([s EXCEPT !.m.at.limit = limit], 1)
    BY <1>2 DEF SetLimit
  <2>2. [s EXCEPT !.m.at.limit = limit] = e
    OBVIOUS
  <2>3. at \in Params
    BY SideParts DEF Model, Params
  <2> HIDE DEF at
  <2>4. Turns(s, e)
    BY <2>3, SetAtTurns
  <2> HIDE DEF e
  <2>5. Turns(e, t)
    BY <2>1, <2>2, <2>4, ReloadTurns DEF Turns
  <2> QED BY <2>4, <2>5, TurnsTransitive
<1> QED BY <1>1, <1>2

\* set_common_data.
LEMMA SetCommonDataTurns ==
    ASSUME NEW s \in Sides, NEW c \in Contents, NEW t, t = SetCommonData(s, c)
    PROVE  Turns(s, t)
<1> DEFINE e == SetLimit(s, c.at.limit)
<1>1. c.at.limit \in Limit /\ c.at.page \in Nat \ {0}
  BY DEF Contents, Params
<1>2. Turns(s, e)
  BY <1>1, SetLimitTurns
<1>3. t = SetCurrentPage(e, c.at.page)
  BY DEF SetCommonData
<1> HIDE DEF e
<1>4. e \in Sides
  BY <1>2 DEF Turns
<1>5. Turns(e, t)
  BY <1>1, <1>3, <1>4, SetCurrentPageTurns
<1> QED BY <1>2, <1>5, TurnsTransitive

LEMMA ResetTurns ==
    ASSUME NEW e \in Sides, NEW d,
           d = [[[e EXCEPT !.b = TRUE] EXCEPT !.m = ResetBackend([e EXCEPT !.b = TRUE].m)] EXCEPT !.b = FALSE]
    PROVE  Turns(e, d)
<1> DEFINE a == [e EXCEPT !.b = TRUE]
           b == [a EXCEPT !.m = ResetBackend(a.m)]
<1>1. a = [m |-> e.m, b |-> TRUE, c |-> e.c, f |-> e.f]
  BY Sidewise
<1>2. a \in Sides /\ a.m = e.m /\ a.c = e.c /\ a.f = e.f
  BY <1>1, SideParts DEF Sides
<1>3. d = [b EXCEPT !.b = FALSE]
  OBVIOUS
<1> HIDE DEF a
<1>4. b = [m |-> ResetBackend(e.m), b |-> a.b, c |-> e.c, f |-> e.f]
  BY <1>2, Sidewise
<1> HIDE DEF b
<1>5. b \in Sides /\ b.m.rows = <<>> /\ b.c = e.c /\ b.f = e.f
  BY <1>2, <1>4, SideParts, ResetType DEF Sides
<1>6. Turns(b, d) /\ ~d.b /\ d.m = b.m
  BY <1>3, <1>5, NotBusyTurns
<1> QED BY <1>5, <1>6 DEF Turns

LEMMA SetFilterTurns ==
    ASSUME NEW s \in Sides, NEW filter \in Filter, NEW t, t = SetFilter(s, filter)
    PROVE  Turns(s, t)
<1> DEFINE at == [s.m.at EXCEPT !.filter = filter]
           e == [s EXCEPT !.m = [s.m EXCEPT !.at = at]]
           d == [[[e EXCEPT !.b = TRUE] EXCEPT !.m = ResetBackend([e EXCEPT !.b = TRUE].m)] EXCEPT !.b = FALSE]
<1>1. [s EXCEPT !.m.at.filter = filter] = e
  OBVIOUS
<1>2. at \in Params
  BY SideParts DEF Model, Params
<1>3. t = IF s.b THEN s
          ELSE IF s.m.at.page = 1 /\ proxy.history THEN SetPagination(d, e.m.at)
          ELSE SetCurrentPage(e, 1)
  BY <1>1 DEF SetFilter, Reset, SetFetchingBusy
<1> HIDE DEF at
<1>4. Turns(s, e) /\ e.m.at = at
  BY <1>2, SetAtTurns
<1>5. e \in Sides
  BY <1>4 DEF Turns
<1> HIDE DEF e
<1>6. Turns(e, d)
  BY <1>5, ResetTurns
<1>7. d \in Sides
  BY <1>6 DEF Turns
<1> HIDE DEF d
<1>8. CASE s.b
  BY <1>3, <1>8, TurnsReflexive
<1>9. CASE ~s.b /\ s.m.at.page = 1 /\ proxy.history
  <2>1. t = SetPagination(d, at)
    BY <1>3, <1>4, <1>9
  <2>2. Turns(d, t)
    BY <1>2, <1>7, <2>1, SetPaginationTurns
  <2>3. Turns(s, d)
    BY <1>4, <1>6, TurnsTransitive
  <2> QED BY <2>2, <2>3, TurnsTransitive
<1>10. CASE ~s.b /\ ~(s.m.at.page = 1 /\ proxy.history)
  <2>1. t = SetCurrentPage(e, 1)
    BY <1>3, <1>10
  <2>2. Turns(e, t)
    BY <1>5, <2>1, SetCurrentPageTurns
  <2> QED BY <1>4, <2>2, TurnsTransitive
<1> QED BY <1>8, <1>9, <1>10

\* What the timer and the user make of a side: what is shown comes from what was
\* shown and from the contents.
Moves(s, t) ==
    /\ t \in Sides
    /\ Extends(s.f, t.f)
    /\ t.c = s.c \/ (t.c.orders = {} /\ t.c.swaps = {})
    /\ Registered(t.m)
    /\ ComesFrom(t.m.rows, SwapsOf(s.m.rows) \cup s.c.swaps)

LEMMA TurnsMoves ==
    ASSUME NEW s, NEW t, Turns(s, t), Registered(s.m)
    PROVE  Moves(s, t)
<1>1. CASE t.m.rows = <<>>
  <2>1. DOMAIN t.m.rows = {}
    BY <1>1
  <2> QED BY <2>1 DEF Turns, Moves, Registered, Once, ComesFrom, SwapsOf
<1>2. CASE t.m.rows = s.m.rows /\ t.m.swaps = s.m.swaps
  BY <1>2 DEF Turns, Moves, Registered, ComesFrom
<1> QED BY <1>1, <1>2 DEF Turns

\* refresh_or_insert.
LEMMA RefreshMoves ==
    ASSUME NEW s \in Sides, NEW reset \in BOOLEAN, Registered(s.m), Fine(s.c),
           NEW t, t = RefreshOrInsert(s, reset)
    PROVE  /\ Moves(s, t)
           /\ t.b => (s.b /\ ~reset) \/ \E i \in DOMAIN t.f : t.f[i].reset
<1> DEFINE free == IF reset THEN [s EXCEPT !.b = FALSE] ELSE s
           init == [free EXCEPT !.m = InitModel(free.m, s.c)]
           e == SetCommonData(free, s.c)
           n == UpdateOrInsertSwaps(UpdateOrInsertOrders(e.m, s.c), s.c)
           merge == [e EXCEPT !.m = n]
<1>1. t = IF free.b THEN free ELSE IF s.m.rows = <<>> THEN init ELSE merge
  BY DEF RefreshOrInsert, SetFetchingBusy
<1>2. /\ Turns(s, free) /\ free.m = s.m /\ free.c = s.c /\ free.f = s.f
      /\ free.b => s.b /\ ~reset
  <2>1. CASE reset
    BY <2>1, NotBusyTurns
  <2>2. CASE ~reset
    BY <2>2, TurnsReflexive
  <2> QED BY <2>1, <2>2
<1>3. s.m \in Model /\ s.c \in Contents
  BY SideParts
<1> HIDE DEF free
<1>4. free \in Sides
  BY <1>2 DEF Turns
<1>5. CASE free.b
  BY <1>1, <1>2, <1>5, TurnsMoves
<1>6. CASE ~free.b /\ s.m.rows = <<>>
  <2> DEFINE k == InitModel(free.m, s.c)
  <2>1. k \in Model /\ Registered(k) /\ ComesFrom(k.rows, SwapsOf(s.m.rows) \cup s.c.swaps)
    BY <1>2, <1>3, Initialised
  <2>2. t = init
    BY <1>1, <1>6
  <2> HIDE DEF k
  <2>3. t = [m |-> k, b |-> free.b, c |-> free.c, f |-> free.f]
    BY <1>4, <2>2, Sidewise DEF k
  <2>4. t \in Sides /\ t.m = k /\ t.b = free.b /\ t.c = s.c /\ t.f = s.f
    BY <1>2, <1>4, <2>1, <2>3, SideParts DEF Sides
  <2> QED BY <1>6, <2>1, <2>4 DEF Moves, Extends
<1>7. CASE ~free.b /\ s.m.rows # <<>>
  <2>1. t = merge
    BY <1>1, <1>7
  <2>2. Turns(free, e)
    BY <1>3, <1>4, SetCommonDataTurns
  <2> HIDE DEF e
  <2>3. e \in Sides
    BY <2>2 DEF Turns
  <2>4. Moves(free, e)
    BY <1>2, <2>2, TurnsMoves
  <2>5. n \in Model /\ Registered(n) /\ ComesFrom(n.rows, SwapsOf(e.m.rows) \cup s.c.swaps)
    <3>1. e.m \in Model /\ Registered(e.m)
      BY <2>3, <2>4, SideParts DEF Moves
    <3> QED BY <1>3, <3>1, Merged
  <2> HIDE DEF n
  <2>6. t = [m |-> n, b |-> e.b, c |-> e.c, f |-> e.f]
    BY <2>1, <2>3, Sidewise
  <2>7. t \in Sides /\ t.m = n /\ t.b = e.b /\ t.c = e.c /\ t.f = e.f
    BY <2>3, <2>5, <2>6, SideParts DEF Sides
  <2>8. ComesFrom(t.m.rows, SwapsOf(s.m.rows) \cup s.c.swaps)
    BY <1>2, <2>4, <2>5, <2>7 DEF Moves, ComesFrom
  <2>9. Moves(s, t)
    BY <1>2, <2>4, <2>5, <2>7, <2>8 DEF Moves
  <2>10. t.b => \E i \in DOMAIN t.f : t.f[i].reset
    BY <1>7, <2>2, <2>7 DEF Turns
  <2> QED BY <2>9, <2>10
<1> QED BY <1>5, <1>6, <1>7

-----------------------------------------------------------------------------
(* The invariant is kept.                                                  *)

\* OverStaysOver, of one step.
StaysOver == "reorder" \in faults \/ After(SwapsOf(model.rows), SwapsOf(model'.rows))

LEMMA SideType ==
    ASSUME TypeOK
    PROVE  Side \in Sides /\ Side.m = model /\ Side.b = busy /\ Side.c = contents /\ Side.f = flight
<1>1. flight \in Seq(Flight)
  BY DEF TypeOK, Flight
<1> QED BY <1>1 DEF TypeOK, Side, Sides

LEMMA FlightSpan ==
    ASSUME TypeOK
    PROVE  /\ flight \in Seq(Flight) /\ Len(flight) \in Nat /\ DOMAIN flight = 1 .. Len(flight)
           /\ \A i \in DOMAIN flight : flight[i] \in Flight
<1>1. flight \in Seq(Flight)
  BY DEF TypeOK, Flight
<1> QED BY <1>1, LenProperties

\* What is shown, where it came from what was shown and stored.
LEMMA ViewKeeps ==
    ASSUME Inv, NEW t, Moves(Side, t), Becomes(t), UNCHANGED <<faults, worldVars>>
    PROVE  Shown' /\ ("reorder" \notin faults => Ordered') /\ StaysOver
<1>1. TypeOK /\ Shown
  BY DEF Inv
<1>2. /\ t \in Sides /\ Extends(flight, t.f)
      /\ t.c = contents \/ (t.c.orders = {} /\ t.c.swaps = {})
      /\ Registered(t.m) /\ ComesFrom(t.m.rows, SwapsOf(model.rows) \cup contents.swaps)
  BY <1>1, SideType DEF Moves
<1>3. /\ model' = t.m /\ busy' = t.b /\ contents' = t.c /\ flight' = t.f
      /\ faults' = faults /\ orders' = orders /\ events' = events
  BY DEF Becomes, worldVars
<1>4. /\ DOMAIN flight = 1 .. Len(flight) /\ Len(flight) \in Nat
      /\ DOMAIN flight' = 1 .. Len(flight') /\ Len(flight') \in Nat
  BY <1>1, <1>2, <1>3, FlightSpan, SideParts, LenProperties
<1>5. \A i \in DOMAIN flight' : Answered(flight', i) =>
          /\ i \in DOMAIN flight /\ Answered(flight, i)
          /\ \A j \in 1 .. i : j \in DOMAIN flight /\ flight'[j] = flight[j]
  <2> SUFFICES ASSUME NEW i \in DOMAIN flight', Answered(flight', i)
               PROVE  /\ i \in DOMAIN flight /\ Answered(flight, i)
                      /\ \A j \in 1 .. i : j \in DOMAIN flight /\ flight'[j] = flight[j]
    OBVIOUS
  <2>1. i \in DOMAIN flight
    BY <1>2, <1>3 DEF Extends, Answered
  <2>2. \A j \in 1 .. i : j \in DOMAIN flight
    BY <1>4, <2>1
  <2> QED BY <1>2, <1>3, <1>4, <2>1, <2>2 DEF Extends, Answered
<1>6. Fine(contents')
  <2>1. CASE t.c = contents
    BY <1>1, <1>3, <2>1 DEF Shown
  <2>2. CASE t.c.orders = {} /\ t.c.swaps = {}
    BY <1>3, <2>2, FS_EmptySet DEF Fine, Single
  <2> QED BY <1>2, <2>1, <2>2
<1>7. Shown'
  <2>1. \A i \in DOMAIN flight' : Answered(flight', i) => Fine(flight'[i].answer)
    <3> SUFFICES ASSUME NEW i \in DOMAIN flight', Answered(flight', i) PROVE Fine(flight'[i].answer)
      OBVIOUS
    <3>1. i \in DOMAIN flight /\ Answered(flight, i) /\ flight'[i] = flight[i]
      BY <1>4, <1>5
    <3> QED BY <1>1, <3>1 DEF Shown
  <2> QED BY <1>1, <1>2, <1>3, <1>6, <2>1 DEF Shown
<1>8. contents'.swaps \in SUBSET contents.swaps
  BY <1>2, <1>3
<1>9. ASSUME "reorder" \notin faults PROVE Ordered' /\ StaysOver
  <2> DEFINE old == SwapsOf(model.rows)
             new == SwapsOf(model'.rows)
  <2>1. Ordered
    BY <1>9 DEF Inv
  <2>2. \A r \in new : \E q \in old \cup contents.swaps : q.id = r.id /\ q.status = r.status
    BY <1>2, <1>3 DEF ComesFrom
  <2>3. After(old, old) /\ After(old, contents.swaps) /\ After(contents.swaps, contents.swaps)
    <3>1. After(old, old)
      BY <1>1 DEF Shown, Registered, Once, SwapsOf, After
    <3>2. After(contents.swaps, contents.swaps)
      BY <1>1 DEF Shown, Fine, Single, After
    <3> QED BY <2>1, <3>1, <3>2 DEF Ordered
  <2>4. Current(old) /\ Current(contents.swaps)
    BY <2>1 DEF Ordered
  <2>5. StaysOver
    BY <2>2, <2>3 DEF After, StaysOver
  <2>6. ASSUME NEW list, After(old, list), After(contents.swaps, list) PROVE After(new, list)
    BY <2>2, <2>6 DEF After
  <2>7. ASSUME NEW list, Current(list) PROVE \A r \in list : r.status \in Over =>
            /\ events'[r.id] # <<>> /\ Last(events'[r.id]) = "Finished"
            /\ r.status = StatusOf(events'[r.id])
    BY <1>3, <2>7 DEF Current, IsOver
  <2>8. \A r \in new : r.status \in Over =>
            /\ events'[r.id] # <<>> /\ Last(events'[r.id]) = "Finished"
            /\ r.status = StatusOf(events'[r.id])
    BY <2>2, <2>4, <2>7
  <2> HIDE DEF old, new
  <2>9. After(SwapsOf(model.rows)', contents'.swaps) /\ Current(SwapsOf(model.rows))' /\ Current(contents.swaps)'
    <3>1. After(new, contents'.swaps)
      BY <1>8, <2>3, <2>6 DEF After
    <3>2. \A r \in contents'.swaps : r.status \in Over =>
            /\ events'[r.id] # <<>> /\ Last(events'[r.id]) = "Finished"
            /\ r.status = StatusOf(events'[r.id])
      BY <1>8, <2>4, <2>7
    <3> QED BY <2>8, <3>1, <3>2 DEF Current, IsOver, new
  <2>10. ASSUME NEW i \in DOMAIN flight', Answered(flight', i) PROVE InFlight(flight, i)'
    <3>1. /\ i \in DOMAIN flight /\ Answered(flight, i) /\ flight'[i] = flight[i]
          /\ \A j \in 1 .. i - 1 : flight'[j] = flight[j]
      BY <1>4, <1>5, <2>10
    <3> DEFINE list == flight[i].answer.swaps
    <3>2. /\ After(old, list) /\ After(contents.swaps, list) /\ Current(list)
          /\ \A j \in 1 .. i - 1 : Answered(flight, j) /\ After(flight[j].answer.swaps, list)
      BY <2>1, <3>1 DEF Ordered, InFlight, old
    <3>3. After(new, list) /\ After(contents'.swaps, list)
      BY <1>8, <2>6, <3>2 DEF After
    <3>4. \A r \in list : r.status \in Over =>
            /\ events'[r.id] # <<>> /\ Last(events'[r.id]) = "Finished"
            /\ r.status = StatusOf(events'[r.id])
      BY <2>7, <3>2
    <3>5. \A j \in 1 .. i - 1 : Answered(flight', j) /\ After(flight'[j].answer.swaps, list)
      BY <3>1, <3>2 DEF Answered
    <3> QED BY <3>1, <3>3, <3>4, <3>5 DEF InFlight, Answered, Current, IsOver, new
  <2> QED BY <2>5, <2>9, <2>10 DEF Ordered, Answered
<1>10. StaysOver
  BY <1>9 DEF StaysOver
<1> QED BY <1>7, <1>9, <1>10

\* A step that changes what is shown as ViewKeeps says keeps the invariant.
LEMMA GroupKeeps ==
    ASSUME Inv, NEW t, Moves(Side, t), Becomes(t), UNCHANGED <<faults, worldVars>>,
           left' \in Budget, queue' \in Seq(BOOLEAN), proxy' \in Proxy,
           cancelling' \subseteq SUBSET Id, recover' \in BOOLEAN, asked' \in Params,
           LoadingMeansAwaiting'
    PROVE  Inv' /\ StaysOver
<1>1. Shown' /\ ("reorder" \notin faults => Ordered') /\ StaysOver
  BY ViewKeeps
<1>2. /\ t.m \in Model /\ t.b \in BOOLEAN /\ t.c \in Contents /\ t.f \in Seq(Flight)
  BY SideParts DEF Moves
<1>3. TypeOK'
  BY <1>2 DEF Inv, TypeOK, Becomes, worldVars, Flight, Proxy
<1> QED BY <1>1, <1>3 DEF Inv

\* The user's steps do not touch the queue.
LEMMA TurnKeeps ==
    ASSUME Inv, NEW t, Turns(Side, t), Becomes(t), UNCHANGED <<faults, worldVars, queue>>,
           left' \in Budget, proxy' \in Proxy,
           cancelling' \subseteq SUBSET Id, recover' \in BOOLEAN, asked' \in Params
    PROVE  Inv' /\ StaysOver
<1>1. TypeOK /\ Registered(model) /\ LoadingMeansAwaiting
  BY DEF Inv, Shown
<1>2. Moves(Side, t)
  BY <1>1, SideType, TurnsMoves
<1>3. LoadingMeansAwaiting'
  <2>1. busy' => busy \/ \E i \in DOMAIN flight' : flight'[i].reset
    BY <1>1, SideType DEF Turns, Becomes
  <2>2. \A i \in DOMAIN flight : i \in DOMAIN flight' /\ flight'[i] = flight[i]
    BY <1>1, SideType DEF Turns, Becomes, Extends
  <2> QED BY <1>1, <2>1, <2>2 DEF LoadingMeansAwaiting, Resetting
<1>4. queue' \in Seq(BOOLEAN)
  BY <1>1 DEF TypeOK
<1> QED BY <1>2, <1>3, <1>4, GroupKeeps

\* Nothing that is shown changes.
LEMMA RestKeeps ==
    ASSUME Inv, UNCHANGED <<faults, worldVars, queue, contents, flight, viewVars>>,
           left' \in Budget, proxy' \in Proxy,
           cancelling' \subseteq SUBSET Id, recover' \in BOOLEAN, asked' \in Params
    PROVE  Inv' /\ StaysOver
<1>1. TypeOK
  BY DEF Inv
<1> DEFINE t == Side
<1>2. t \in Sides
  BY <1>1, SideType
<1>3. Becomes(t)
  BY <1>1, SideType DEF Becomes, viewVars
<1> HIDE DEF t
<1>4. Turns(t, t)
  BY <1>2, TurnsReflexive
<1>5. Turns(Side, t)
  BY <1>4 DEF t
<1> QED BY <1>3, <1>5, TurnKeeps

\* A batch of the timer's kind is asked for.
LEMMA AppendKeeps ==
    ASSUME Inv, flight' = Append(flight, Batch(contents.at, FALSE)),
           UNCHANGED <<faults, worldVars, queue, contents, viewVars>>,
           left' \in Budget, proxy' \in Proxy,
           cancelling' \subseteq SUBSET Id, recover' \in BOOLEAN, asked' \in Params
    PROVE  Inv' /\ StaysOver
<1>1. TypeOK
  BY DEF Inv
<1> DEFINE a == [at |-> contents.at, reset |-> FALSE, answer |-> None]
           g == Append(flight, a)
           t == [m |-> model, b |-> busy, c |-> contents, f |-> g]
<1>2. a \in Flight /\ a.answer = None
  BY <1>1 DEF Flight, TypeOK, Contents
<1>3. flight' = g
  BY DEF Batch
<1>4. flight \in Seq(Flight)
  BY <1>1, FlightSpan
<1> HIDE DEF a
<1>5. g \in Seq(Flight) /\ Extends(flight, g)
  BY <1>2, <1>4, Batched
<1> HIDE DEF g
<1>6. t \in Sides /\ t.m = model /\ t.b = busy /\ t.c = contents /\ t.f = g
  BY <1>1, <1>5 DEF Sides, TypeOK
<1> HIDE DEF t
<1>7. Becomes(t)
  BY <1>3, <1>6 DEF Becomes, viewVars
<1>8. Turns(Side, t)
  BY <1>1, <1>5, <1>6, SideType DEF Turns
<1> QED BY <1>7, <1>8, TurnKeeps

LEMMA SpendType ==
    ASSUME TypeOK, NEW kind \in {"world", "user", "flight"}, Spend(kind)
    PROVE  left' \in Budget
BY DEF TypeOK, Spend, Budget

-----------------------------------------------------------------------------
(* mm2's steps: a swap that is over does not change.                       *)

\* What the lists are about has an id.
LEMMA ListsHaveIds ==
    ASSUME TypeOK
    PROVE  /\ \A r \in SwapsOf(model.rows) : r.id \in Id
           /\ \A r \in contents.swaps : r.id \in Id
           /\ \A i \in DOMAIN flight : Answered(flight, i) =>
                 flight[i].answer \in Contents /\ \A r \in flight[i].answer.swaps : r.id \in Id
<1>1. \A c \in Contents : \A r \in c.swaps : r.id \in Id
  BY DEF Contents, SwapRow, Row
<1>2. \A r \in SwapsOf(model.rows) : r.id \in Id
  <2>1. model.rows \in Seq(Row)
    BY DEF TypeOK, Model
  <2>2. \A i \in DOMAIN model.rows : model.rows[i] \in Row
    BY <2>1
  <2> QED BY <2>2 DEF SwapsOf, Row
<1>3. \A i \in DOMAIN flight : Answered(flight, i) => flight[i].answer \in Contents
  BY FlightSpan DEF Answered, Flight
<1>4. contents \in Contents
  BY DEF TypeOK
<1> QED BY <1>1, <1>2, <1>3, <1>4

LEMMA WorldChanges ==
    ASSUME Inv, UNCHANGED othersOfWorld,
           left' \in Budget, orders' \subseteq Id, IsFiniteSet(orders'), offers' \in [Id -> Offer],
           swaps' \in Seq(Id), events' \in [Id -> Seq(Event)],
           \A id \in Id : IsOver(id) => events'[id] = events[id]
    PROVE  Inv' /\ StaysOver
<1>1. TypeOK /\ Shown /\ LoadingMeansAwaiting
  BY DEF Inv
<1>2. /\ faults' = faults /\ contents' = contents /\ flight' = flight /\ queue' = queue
      /\ model' = model /\ busy' = busy /\ proxy' = proxy /\ cancelling' = cancelling
      /\ recover' = recover /\ asked' = asked
  BY DEF othersOfWorld, viewVars, userVars
<1>3. TypeOK'
  BY <1>1, <1>2 DEF TypeOK
<1>4. Shown'
  BY <1>1, <1>2 DEF Shown, Answered
<1>5. LoadingMeansAwaiting'
  BY <1>1, <1>2 DEF LoadingMeansAwaiting, Resetting
<1>6. ASSUME "reorder" \notin faults PROVE Ordered'
  <2>1. Ordered
    BY <1>6 DEF Inv
  <2>2. ASSUME NEW list, Current(list), \A r \in list : r.id \in Id
        PROVE  \A r \in list : r.status \in Over =>
                  /\ events'[r.id] # <<>> /\ Last(events'[r.id]) = "Finished"
                  /\ r.status = StatusOf(events'[r.id])
    BY <2>2 DEF Current, IsOver
  <2>3. Current(SwapsOf(model.rows))' /\ Current(contents.swaps)'
    <3> DEFINE old == SwapsOf(model.rows)
    <3>1. Current(old) /\ Current(contents.swaps)
      BY <2>1 DEF Ordered
    <3>2. (\A r \in old : r.id \in Id) /\ (\A r \in contents.swaps : r.id \in Id)
      BY <1>1, ListsHaveIds
    <3> HIDE DEF old
    <3>3. /\ \A r \in old : r.status \in Over =>
                /\ events'[r.id] # <<>> /\ Last(events'[r.id]) = "Finished"
                /\ r.status = StatusOf(events'[r.id])
          /\ \A r \in contents.swaps : r.status \in Over =>
                /\ events'[r.id] # <<>> /\ Last(events'[r.id]) = "Finished"
                /\ r.status = StatusOf(events'[r.id])
      BY <2>2, <3>1, <3>2
    <3>4. SwapsOf(model.rows)' = old
      BY <1>2 DEF old, SwapsOf
    <3> QED BY <1>2, <3>3, <3>4 DEF Current, IsOver
  <2>4. ASSUME NEW i \in DOMAIN flight', Answered(flight', i) PROVE InFlight(flight, i)'
    <3> DEFINE list == flight[i].answer.swaps
    <3>1. i \in DOMAIN flight /\ Answered(flight, i)
      BY <1>2, <2>4 DEF Answered
    <3>2. InFlight(flight, i)
      BY <2>1, <3>1 DEF Ordered
    <3>3. \A r \in list : r.id \in Id
      BY <1>1, <3>1, ListsHaveIds
    <3>4. Current(list)
      BY <3>2 DEF InFlight
    <3>5. \A r \in list : r.status \in Over =>
                /\ events'[r.id] # <<>> /\ Last(events'[r.id]) = "Finished"
                /\ r.status = StatusOf(events'[r.id])
      BY <2>2, <3>3, <3>4
    <3> QED BY <1>2, <3>2, <3>5 DEF InFlight, Answered, Current, IsOver, SwapsOf
  <2>5. After(SwapsOf(model.rows), contents.swaps)'
    BY <1>2, <2>1 DEF Ordered, SwapsOf
  <2> QED BY <1>2, <2>3, <2>4, <2>5 DEF Ordered, Answered
<1>7. StaysOver
  BY <1>1, <1>2 DEF StaysOver, After, SwapsOf, Shown, Registered, Once
<1> QED BY <1>2, <1>3, <1>4, <1>5, <1>6, <1>7 DEF Inv

LEMMA WorldKeeps ==
    ASSUME Inv, World
    PROVE  Inv' /\ StaysOver
<1>1. TypeOK /\ IsFiniteSet(orders)
  BY DEF Inv, Shown
<1>2. /\ orders \subseteq Id /\ offers \in [Id -> Offer] /\ swaps \in Seq(Id)
      /\ events \in [Id -> Seq(Event)] /\ left \in Budget
  BY <1>1 DEF TypeOK
<1>3. ASSUME NEW id \in Id, OrderAppears(id) PROVE Inv' /\ StaysOver
  <2>1. left' \in Budget
    BY <1>1, <1>3, SpendType DEF OrderAppears
  <2>2. IsFiniteSet(orders')
    BY <1>1, <1>3, FS_AddElement DEF OrderAppears
  <2> QED BY <1>2, <1>3, <2>1, <2>2, WorldChanges DEF OrderAppears
<1>4. ASSUME NEW id \in Id, OrderGoes(id) PROVE Inv' /\ StaysOver
  <2>1. left' \in Budget
    BY <1>1, <1>2, <1>4, SpendType DEF OrderGoes
  <2>2. IsFiniteSet(orders')
    BY <1>1, <1>4, FS_RemoveElement DEF OrderGoes
  <2> QED BY <1>2, <1>4, <2>1, <2>2, WorldChanges DEF OrderGoes
<1>5. ASSUME NEW id \in Id, OfferChanges(id) PROVE Inv' /\ StaysOver
  <2>1. left' \in Budget
    BY <1>1, <1>5, SpendType DEF OfferChanges
  <2>2. offers' \in [Id -> Offer]
    BY <1>2, <1>5 DEF OfferChanges, Offer
  <2> QED BY <1>1, <1>2, <1>5, <2>1, <2>2, WorldChanges DEF OfferChanges
<1>6. ASSUME NEW id \in Id, SwapStarts(id) PROVE Inv' /\ StaysOver
  <2>1. left' \in Budget
    BY <1>1, <1>6, SpendType DEF SwapStarts
  <2>2. swaps' \in Seq(Id)
    BY <1>2, <1>6, ConcatProperties DEF SwapStarts
  <2> QED BY <1>1, <1>2, <1>6, <2>1, <2>2, WorldChanges DEF SwapStarts
<1>7. ASSUME NEW id \in Id, NEW event \in Event, SwapGoesOn(id, event) PROVE Inv' /\ StaysOver
  <2>1. left' \in Budget
    BY <1>1, <1>7, SpendType DEF SwapGoesOn
  <2>2. events[id] \in Seq(Event)
    BY <1>2
  <2>3. Append(events[id], event) \in Seq(Event)
    BY <2>2, AppendProperties
  <2>4. events' \in [Id -> Seq(Event)] /\ \A x \in Id : IsOver(x) => events'[x] = events[x]
    BY <1>2, <1>7, <2>3 DEF SwapGoesOn
  <2> QED BY <1>1, <1>2, <1>7, <2>1, <2>4, WorldChanges DEF SwapGoesOn
<1> QED BY <1>3, <1>4, <1>5, <1>6, <1>7 DEF World

-----------------------------------------------------------------------------
(* Answers are read, stored and lost.                                      *)

LEMMA ReadKeeps ==
    ASSUME Inv, NEW i \in DOMAIN flight, Read(i)
    PROVE  Inv' /\ StaysOver
<1>1. TypeOK /\ Shown /\ LoadingMeansAwaiting
  BY DEF Inv
<1>2. PICK refused \in Refusals :
         flight' = [flight EXCEPT ![i].answer = Answer(flight[i].at, refused)]
  BY DEF Read
<1> DEFINE a == Answer(flight[i].at, refused)
           old == SwapsOf(model.rows)
<1>3. /\ faults' = faults /\ left' = left /\ contents' = contents /\ queue' = queue
      /\ model' = model /\ busy' = busy /\ proxy' = proxy /\ cancelling' = cancelling
      /\ recover' = recover /\ asked' = asked
      /\ orders' = orders /\ offers' = offers /\ swaps' = swaps /\ events' = events
  BY DEF Read, viewVars, userVars, worldVars
<1>4. /\ flight \in Seq(Flight) /\ Len(flight) \in Nat /\ DOMAIN flight = 1 .. Len(flight)
      /\ \A k \in DOMAIN flight : flight[k] \in Flight
  BY <1>1, FlightSpan
<1>5. flight[i].answer = None /\ InOrder(i)
  BY DEF Read
<1>6. flight[i].at \in Params
  BY <1>4 DEF Flight
<1>7. /\ a \in Contents /\ Fine(a) /\ Current(a.swaps)
      /\ \A r \in a.swaps : r.status = StatusOf(events[r.id])
  BY <1>1, <1>6, AnswerIsCurrent DEF Shown
<1> HIDE DEF a
<1> DEFINE b == [flight[i] EXCEPT !.answer = a]
<1>8. b \in Flight /\ b.answer = a /\ b.reset = flight[i].reset
  BY <1>4, <1>7 DEF Flight
<1>9. flight' = [flight EXCEPT ![i] = b]
  BY <1>2 DEF a
<1> HIDE DEF b
<1>10. /\ flight' \in Seq(Flight) /\ DOMAIN flight' = DOMAIN flight /\ flight'[i] = b
       /\ \A k \in DOMAIN flight \ {i} : flight'[k] = flight[k]
  BY <1>4, <1>8, <1>9, ExceptSeq
<1>11. a # None /\ Answered(flight', i) /\ flight'[i].answer = a
  BY <1>7, <1>8, <1>10, OrdersAssumption DEF Answered
<1>12. TypeOK'
  BY <1>1, <1>3, <1>10 DEF TypeOK, Flight
<1>13. Shown'
  <2>1. ASSUME NEW k \in DOMAIN flight', Answered(flight', k) PROVE Fine(flight'[k].answer)
    <3>1. CASE k = i
      BY <1>7, <1>11, <3>1
    <3>2. CASE k # i
      BY <1>1, <1>10, <2>1, <3>2 DEF Shown, Answered
    <3> QED BY <3>1, <3>2
  <2> QED BY <1>1, <1>3, <2>1 DEF Shown, Answered
<1>14. LoadingMeansAwaiting'
  <2>1. \A k \in DOMAIN flight : flight'[k].reset = flight[k].reset
    BY <1>8, <1>10
  <2> QED BY <1>1, <1>3, <1>10, <2>1 DEF LoadingMeansAwaiting, Resetting
<1>15. ASSUME "reorder" \notin faults PROVE Ordered'
  <2>1. Ordered
    BY <1>15 DEF Inv
  <2>2. \A j \in 1 .. i - 1 : Answered(flight, j)
    BY <1>5, <1>15 DEF InOrder, Answered
  <2>3. ASSUME NEW list, Current(list) PROVE After(list, a.swaps)
    BY <1>7, <2>3 DEF Current, After
  <2>4. ASSUME NEW k \in DOMAIN flight', Answered(flight', k)
        PROVE  /\ After(old, flight'[k].answer.swaps)
               /\ After(contents.swaps, flight'[k].answer.swaps)
               /\ Current(flight'[k].answer.swaps)
               /\ \A j \in 1 .. k - 1 :
                     Answered(flight', j) /\ After(flight'[j].answer.swaps, flight'[k].answer.swaps)
    <3>1. CASE k = i
      <4>1. After(old, a.swaps) /\ After(contents.swaps, a.swaps)
        BY <2>1, <2>3 DEF Ordered
      <4>2. ASSUME NEW j \in 1 .. i - 1
            PROVE  Answered(flight', j) /\ After(flight'[j].answer.swaps, a.swaps)
        <5>1. j \in DOMAIN flight \ {i} /\ Answered(flight, j)
          BY <1>4, <2>2
        <5>2. flight'[j] = flight[j]
          BY <1>10, <5>1
        <5>3. Current(flight[j].answer.swaps)
          BY <2>1, <5>1 DEF Ordered, InFlight
        <5> QED BY <2>3, <5>1, <5>2, <5>3 DEF Answered
      <4> QED BY <1>7, <1>11, <3>1, <4>1, <4>2
    <3>2. CASE k # i
      <4>1. k \in DOMAIN flight /\ Answered(flight, k) /\ flight'[k] = flight[k]
        BY <1>10, <2>4, <3>2 DEF Answered
      <4>2. InFlight(flight, k)
        BY <2>1, <4>1 DEF Ordered
      <4>3. k < i
        <5>1. ASSUME i < k PROVE FALSE
          <6>1. i \in 1 .. k - 1
            BY <1>4, <4>1, <5>1
          <6> QED BY <1>5, <4>2, <6>1 DEF InFlight, Answered
        <5> QED BY <1>4, <3>2, <4>1, <5>1
      <4>4. \A j \in 1 .. k - 1 : flight'[j] = flight[j]
        BY <1>4, <1>10, <4>1, <4>3
      <4> QED BY <4>1, <4>2, <4>4 DEF InFlight, Answered
    <3> QED BY <3>1, <3>2
  <2>5. ASSUME NEW k \in DOMAIN flight', Answered(flight', k) PROVE InFlight(flight, k)'
    BY <1>3, <2>4, <2>5 DEF InFlight, Answered, Current, IsOver, SwapsOf
  <2> QED BY <1>3, <2>1, <2>5 DEF Ordered, Answered, Current, IsOver, SwapsOf
<1>16. StaysOver
  BY <1>1, <1>3 DEF StaysOver, After, SwapsOf, Shown, Registered, Once
<1> QED BY <1>3, <1>12, <1>13, <1>14, <1>15, <1>16 DEF Inv

\* What stays in flight, in its order.
Shifted(i, k) == IF k < i THEN k ELSE k + 1

LEMMA Removed ==
    ASSUME TypeOK, NEW i \in DOMAIN flight, flight' = RemoveAt(flight, i)
    PROVE  /\ flight' \in Seq(Flight)
           /\ \A k \in DOMAIN flight' :
                 /\ Shifted(i, k) \in DOMAIN flight \ {i} /\ flight'[k] = flight[Shifted(i, k)]
                 /\ k \in 1 .. Shifted(i, k)
                 /\ \A j \in 1 .. k - 1 : j \in DOMAIN flight' /\ Shifted(i, j) \in 1 .. Shifted(i, k) - 1
           /\ \A k \in DOMAIN flight \ {i} : \E j \in DOMAIN flight' : flight'[j] = flight[k]
<1>1. flight \in Seq(Flight) /\ Len(flight) \in Nat /\ DOMAIN flight = 1 .. Len(flight)
  BY FlightSpan
<1>2. /\ flight' \in Seq(Flight) /\ Len(flight') = Len(flight) - 1
      /\ \A k \in 1 .. Len(flight) - 1 : flight'[k] = flight[IF k < i THEN k ELSE k + 1]
  <2>1. i \in 1 .. Len(flight)
    BY <1>1
  <2> DEFINE d == flight'
  <2>2. d = RemoveAt(flight, i)
    OBVIOUS
  <2> HIDE DEF d
  <2>3. /\ d \in Seq(Flight) /\ Len(d) = Len(flight) - 1
        /\ \A k \in 1 .. Len(flight) - 1 : d[k] = flight[IF k < i THEN k ELSE k + 1]
    BY <1>1, <2>1, <2>2, RemovedAt
  <2> QED BY <2>3 DEF d
<1>3. DOMAIN flight' = 1 .. Len(flight) - 1
  BY <1>2, LenProperties
<1>4. ASSUME NEW k \in DOMAIN flight \ {i} PROVE \E j \in DOMAIN flight' : flight'[j] = flight[k]
  <2>1. CASE k < i
    <3>1. k \in 1 .. Len(flight) - 1
      BY <1>1, <2>1
    <3> QED BY <1>2, <1>3, <2>1, <3>1
  <2>2. CASE ~(k < i)
    <3>1. k - 1 \in 1 .. Len(flight) - 1 /\ ~(k - 1 < i) /\ (k - 1) + 1 = k
      BY <1>1, <2>2
    <3> QED BY <1>2, <1>3, <3>1
  <2> QED BY <2>1, <2>2
<1>5. ASSUME NEW k \in DOMAIN flight'
      PROVE  /\ Shifted(i, k) \in DOMAIN flight \ {i} /\ flight'[k] = flight[Shifted(i, k)]
             /\ k \in 1 .. Shifted(i, k)
             /\ \A j \in 1 .. k - 1 : j \in DOMAIN flight' /\ Shifted(i, j) \in 1 .. Shifted(i, k) - 1
  BY <1>1, <1>2, <1>3 DEF Shifted
<1> QED BY <1>2, <1>4, <1>5

\* The flights that stay were answered before, and keep their order.
LEMMA RemovedOrdered ==
    ASSUME TypeOK, Ordered, NEW i \in DOMAIN flight, flight' = RemoveAt(flight, i),
           NEW k \in DOMAIN flight', Answered(flight', k)
    PROVE  /\ Shifted(i, k) \in DOMAIN flight \ {i} /\ Answered(flight, Shifted(i, k))
           /\ flight'[k] = flight[Shifted(i, k)] /\ InFlight(flight, Shifted(i, k))
           /\ \A j \in 1 .. k - 1 :
                 Answered(flight', j) /\ After(flight'[j].answer.swaps, flight'[k].answer.swaps)
<1>1. /\ Shifted(i, k) \in DOMAIN flight \ {i} /\ flight'[k] = flight[Shifted(i, k)]
      /\ \A j \in 1 .. k - 1 : j \in DOMAIN flight' /\ Shifted(i, j) \in 1 .. Shifted(i, k) - 1
  BY Removed
<1>2. Answered(flight, Shifted(i, k))
  BY <1>1 DEF Answered
<1>3. InFlight(flight, Shifted(i, k))
  BY <1>1, <1>2 DEF Ordered
<1>4. ASSUME NEW j \in 1 .. k - 1
      PROVE  Answered(flight', j) /\ After(flight'[j].answer.swaps, flight'[k].answer.swaps)
  <2>1. j \in DOMAIN flight' /\ Shifted(i, j) \in 1 .. Shifted(i, k) - 1
    BY <1>1
  <2>2. flight'[j] = flight[Shifted(i, j)]
    BY <2>1, Removed
  <2> QED BY <1>1, <1>3, <2>1, <2>2 DEF InFlight, Answered
<1> QED BY <1>1, <1>2, <1>3, <1>4

LEMMA LoseKeeps ==
    ASSUME Inv, NEW i \in DOMAIN flight, Lose(i)
    PROVE  Inv' /\ StaysOver
<1>1. TypeOK /\ Shown /\ LoadingMeansAwaiting
  BY DEF Inv
<1>2. /\ faults' = faults /\ left' = left /\ contents' = contents /\ queue' = queue
      /\ model' = model /\ busy' = busy /\ proxy' = proxy /\ cancelling' = cancelling
      /\ recover' = recover /\ asked' = asked
      /\ orders' = orders /\ offers' = offers /\ swaps' = swaps /\ events' = events
      /\ flight' = RemoveAt(flight, i)
  BY DEF Lose, viewVars, userVars, worldVars
<1>3. /\ flight' \in Seq(Flight)
      /\ \A k \in DOMAIN flight' : Shifted(i, k) \in DOMAIN flight /\ flight'[k] = flight[Shifted(i, k)]
      /\ \A k \in DOMAIN flight \ {i} : \E j \in DOMAIN flight' : flight'[j] = flight[k]
  BY <1>1, <1>2, Removed
<1>4. TypeOK'
  BY <1>1, <1>2, <1>3 DEF TypeOK, Flight
<1>5. Shown'
  BY <1>1, <1>2, <1>3 DEF Shown, Answered
<1>6. LoadingMeansAwaiting'
  <2>1. CASE flight[i].reset
    BY <1>2, <2>1 DEF Lose, LoadingMeansAwaiting
  <2>2. CASE ~flight[i].reset
    BY <1>1, <1>2, <1>3, <2>2 DEF LoadingMeansAwaiting, Resetting
  <2> QED BY <2>1, <2>2
<1>7. ASSUME "reorder" \notin faults PROVE Ordered'
  <2>1. Ordered
    BY <1>7 DEF Inv
  <2>2. ASSUME NEW k \in DOMAIN flight', Answered(flight', k) PROVE InFlight(flight, k)'
    <3>1. /\ flight'[k] = flight[Shifted(i, k)] /\ InFlight(flight, Shifted(i, k))
          /\ \A j \in 1 .. k - 1 :
                 Answered(flight', j) /\ After(flight'[j].answer.swaps, flight'[k].answer.swaps)
      BY <1>1, <1>2, <2>1, <2>2, RemovedOrdered
    <3> QED BY <1>2, <3>1 DEF InFlight, Answered, Current, IsOver, SwapsOf
  <2> QED BY <1>2, <2>1, <2>2 DEF Ordered, Answered, Current, IsOver, SwapsOf
<1>8. StaysOver
  BY <1>1, <1>2 DEF StaysOver, After, SwapsOf, Shown, Registered, Once
<1> QED BY <1>2, <1>4, <1>5, <1>6, <1>7, <1>8 DEF Inv

\* An answer is stored: when nothing is out of order, it is the oldest.
LEMMA StoreKeeps ==
    ASSUME Inv, NEW i \in DOMAIN flight, Store(i)
    PROVE  Inv' /\ StaysOver
<1>1. TypeOK /\ Shown /\ LoadingMeansAwaiting
  BY DEF Inv
<1>2. /\ faults' = faults /\ left' = left
      /\ model' = model /\ busy' = busy /\ proxy' = proxy /\ cancelling' = cancelling
      /\ recover' = recover /\ asked' = asked
      /\ orders' = orders /\ offers' = offers /\ swaps' = swaps /\ events' = events
      /\ flight' = RemoveAt(flight, i) /\ contents' = flight[i].answer
      /\ queue' = Append(queue, flight[i].reset)
      /\ Answered(flight, i) /\ Unordered(i)
  BY DEF Store, viewVars, userVars, worldVars, Answered
<1>3. /\ flight' \in Seq(Flight)
      /\ \A k \in DOMAIN flight' : Shifted(i, k) \in DOMAIN flight /\ flight'[k] = flight[Shifted(i, k)]
      /\ \A k \in DOMAIN flight \ {i} : \E j \in DOMAIN flight' : flight'[j] = flight[k]
  BY <1>1, <1>2, Removed
<1>4. flight[i] \in Flight
  BY <1>1, FlightSpan
<1>5. contents' \in Contents /\ flight[i].reset \in BOOLEAN
  BY <1>2, <1>4 DEF Flight, Answered
<1>6. /\ queue' \in Seq(BOOLEAN) /\ Len(queue) \in Nat
      /\ Len(queue') = Len(queue) + 1 /\ queue'[Len(queue) + 1] = flight[i].reset
      /\ \A k \in 1 .. Len(queue) : queue'[k] = queue[k]
      /\ DOMAIN queue = 1 .. Len(queue) /\ DOMAIN queue' = 1 .. Len(queue')
  <2>1. queue \in Seq(BOOLEAN)
    BY <1>1 DEF TypeOK
  <2>2. /\ queue' \in Seq(BOOLEAN) /\ Len(queue') = Len(queue) + 1
        /\ queue'[Len(queue) + 1] = flight[i].reset
        /\ \A k \in 1 .. Len(queue) : queue'[k] = queue[k]
    BY <1>2, <1>5, <2>1, AppendProperties
  <2> QED BY <2>1, <2>2, LenProperties
<1>7. TypeOK'
  BY <1>1, <1>2, <1>3, <1>5, <1>6 DEF TypeOK, Flight
<1>8. Shown'
  BY <1>1, <1>2, <1>3 DEF Shown, Answered
<1>9. LoadingMeansAwaiting'
  <2>1. CASE flight[i].reset
    <3>1. Len(queue) + 1 \in DOMAIN queue' /\ queue'[Len(queue) + 1]
      BY <1>6, <2>1
    <3> QED BY <3>1 DEF LoadingMeansAwaiting, Resetting
  <2>2. CASE ~flight[i].reset
    <3>1. (\E k \in DOMAIN flight : flight[k].reset) => \E k \in DOMAIN flight' : flight'[k].reset
      BY <1>3, <2>2
    <3>2. (\E k \in DOMAIN queue : queue[k]) => \E k \in DOMAIN queue' : queue'[k]
      BY <1>6
    <3> QED BY <1>1, <1>2, <3>1, <3>2 DEF LoadingMeansAwaiting, Resetting
  <2> QED BY <2>1, <2>2
<1>10. ASSUME "reorder" \notin faults PROVE Ordered'
  <2>1. Ordered /\ i = 1
    BY <1>2, <1>10 DEF Inv, Unordered
  <2>2. InFlight(flight, i)
    BY <1>2, <2>1 DEF Ordered
  <2>3. ASSUME NEW k \in DOMAIN flight', Answered(flight', k) PROVE InFlight(flight, k)'
    <3> DEFINE n == Shifted(i, k)
    <3>1. /\ n \in DOMAIN flight \ {i} /\ flight'[k] = flight[n] /\ InFlight(flight, n)
          /\ \A j \in 1 .. k - 1 :
                 Answered(flight', j) /\ After(flight'[j].answer.swaps, flight'[k].answer.swaps)
      BY <1>1, <1>2, <2>1, <2>3, RemovedOrdered
    <3> HIDE DEF n
    <3>2. i \in 1 .. n - 1
      BY <1>1, <2>1, <3>1, FlightSpan
    <3>3. After(flight[i].answer.swaps, flight[n].answer.swaps)
      BY <3>1, <3>2 DEF InFlight
    <3> QED BY <1>2, <3>1, <3>3 DEF InFlight, Answered, Current, IsOver, SwapsOf
  <2>4. After(SwapsOf(model.rows), contents.swaps)' /\ Current(contents.swaps)'
    BY <1>2, <2>2 DEF InFlight, Current, IsOver, SwapsOf
  <2> QED BY <1>2, <2>1, <2>3, <2>4 DEF Ordered, Answered, Current, IsOver, SwapsOf
<1>11. StaysOver
  BY <1>1, <1>2 DEF StaysOver, After, SwapsOf, Shown, Registered, Once
<1> QED BY <1>2, <1>7, <1>8, <1>9, <1>10, <1>11 DEF Inv

-----------------------------------------------------------------------------
(* The timer and the user.                                                 *)

LEMMA PollKeeps == ASSUME Inv, Poll PROVE Inv' /\ StaysOver
<1>1. TypeOK
  BY DEF Inv
<1> QED BY <1>1, AppendKeeps DEF Poll, TypeOK, userVars, Proxy

LEMMA TickKeeps == ASSUME Inv, Tick PROVE Inv' /\ StaysOver
<1> DEFINE reset == Head(queue)
           t == RefreshOrInsert(Side, reset)
<1>1. TypeOK /\ Registered(model) /\ Fine(contents) /\ LoadingMeansAwaiting
  BY DEF Inv, Shown
<1>2. /\ queue # <<>> /\ queue' = Tail(queue)
      /\ UNCHANGED <<faults, left, worldVars, userVars>>
  BY DEF Tick, Pop
<1>3. Becomes(t)
  BY DEF Tick
<1>4. queue \in Seq(BOOLEAN)
  BY <1>1 DEF TypeOK
<1>5. /\ reset \in BOOLEAN /\ queue' \in Seq(BOOLEAN)
      /\ Len(queue') = Len(queue) - 1 /\ \A k \in 1 .. Len(queue') : queue'[k] = queue[k + 1]
  BY <1>2, <1>4, HeadTailProperties
<1>6. /\ DOMAIN queue = 1 .. Len(queue) /\ DOMAIN queue' = 1 .. Len(queue') /\ Len(queue) \in Nat
      /\ reset = queue[1]
  BY <1>4, <1>5, LenProperties
<1> HIDE DEF reset
<1>7. /\ Moves(Side, t)
      /\ t.b => (Side.b /\ ~reset) \/ \E k \in DOMAIN t.f : t.f[k].reset
  BY <1>1, <1>5, SideType, RefreshMoves
<1> HIDE DEF t
<1>8. LoadingMeansAwaiting'
  <2> SUFFICES ASSUME busy', ~\E k \in DOMAIN flight' : flight'[k].reset, "resetLost" \notin faults'
               PROVE  \E k \in DOMAIN queue' : queue'[k]
    BY DEF LoadingMeansAwaiting, Resetting
  <2>1. busy /\ ~reset
    BY <1>1, <1>3, <1>7, SideType DEF Becomes
  <2>2. \A k \in DOMAIN flight : ~flight[k].reset
    BY <1>1, <1>3, <1>7, SideType DEF Becomes, Moves, Extends
  <2>3. PICK k \in DOMAIN queue : queue[k]
    BY <1>1, <1>2, <2>1, <2>2 DEF LoadingMeansAwaiting, Resetting
  <2>4. k # 1
    BY <1>6, <2>1, <2>3
  <2>5. k - 1 \in DOMAIN queue' /\ queue'[k - 1] = queue[k]
    BY <1>5, <1>6, <2>4
  <2> QED BY <2>3, <2>5
<1>9. /\ left' \in Budget /\ proxy' \in Proxy /\ cancelling' \subseteq SUBSET Id
      /\ recover' \in BOOLEAN /\ asked' \in Params
  BY <1>1, <1>2 DEF TypeOK, userVars, Proxy
<1> QED BY <1>2, <1>3, <1>5, <1>7, <1>8, <1>9, GroupKeeps

\* What the user asks of the side.
LEMMA UserMakesKeeps ==
    ASSUME Inv, NEW t, Turns(Side, t), UserMakes(t), Can, proxy' \in Proxy, UNCHANGED othersOfUser
    PROVE  Inv' /\ StaysOver
<1>1. TypeOK
  BY DEF Inv
<1>2. left' \in Budget
  BY <1>1, SpendType DEF Can
<1>3. t.c.at \in Params
  <2>1. t.c \in Contents
    BY SideParts DEF Turns
  <2> QED BY <2>1 DEF Contents
<1>4. asked' \in Params
  BY <1>1, <1>3 DEF UserMakes, TypeOK
<1>5. /\ UNCHANGED <<faults, worldVars, queue>>
      /\ cancelling' \subseteq SUBSET Id /\ recover' \in BOOLEAN
  BY <1>1 DEF othersOfUser, TypeOK
<1> QED BY <1>2, <1>4, <1>5, TurnKeeps DEF UserMakes

LEMMA UserKeeps == ASSUME Inv, User PROVE Inv' /\ StaysOver
<1>1. TypeOK
  BY DEF Inv
<1>2. /\ Side \in Sides /\ proxy \in Proxy
      /\ cancelling \subseteq SUBSET Id /\ recover \in BOOLEAN /\ asked \in Params /\ left \in Budget
  BY <1>1, SideType DEF TypeOK, Proxy
<1>3. ASSUME NEW page \in Page, ChoosePage(page) PROVE Inv' /\ StaysOver
  <2> DEFINE t == SetCurrentPage(Side, page)
  <2>1. Turns(Side, t)
    BY <1>2, OrdersAssumption, SetCurrentPageTurns
  <2>2. UserMakes(t) /\ Can /\ proxy' = proxy /\ UNCHANGED othersOfUser
    BY <1>3 DEF ChoosePage
  <2> HIDE DEF t
  <2> QED BY <1>2, <2>1, <2>2, UserMakesKeeps
<1>4. ASSUME NEW limit \in Limit, ChooseLimit(limit) PROVE Inv' /\ StaysOver
  <2> DEFINE t == SetLimit(Side, limit)
  <2>1. Turns(Side, t)
    BY <1>2, SetLimitTurns
  <2>2. UserMakes(t) /\ Can /\ proxy' = proxy /\ UNCHANGED othersOfUser
    BY <1>4 DEF ChooseLimit
  <2> HIDE DEF t
  <2> QED BY <1>2, <2>1, <2>2, UserMakesKeeps
<1>5. ASSUME NEW filter \in Filter, SetProxyFilter(filter) PROVE Inv' /\ StaysOver
  <2>1. proxy' \in Proxy
    BY <1>2, <1>5 DEF SetProxyFilter, Proxy
  <2>2. left' \in Budget
    BY <1>1, <1>5, SpendType DEF SetProxyFilter, Can
  <2> QED BY <1>2, <1>5, <2>1, <2>2, RestKeeps DEF SetProxyFilter, othersOfUser
<1>6. CASE ApplyFilter
  <2> DEFINE t == SetFilter(Side, proxy.filter)
  <2>1. proxy.filter \in Filter /\ proxy' \in Proxy
    BY <1>2, <1>6 DEF ApplyFilter, Proxy
  <2>2. Turns(Side, t)
    BY <1>2, <2>1, SetFilterTurns
  <2>3. UserMakes(t) /\ Can /\ UNCHANGED othersOfUser
    BY <1>6 DEF ApplyFilter
  <2> HIDE DEF t
  <2> QED BY <2>1, <2>2, <2>3, UserMakesKeeps
<1>7. CASE SetHistory
  <2> DEFINE t == IF proxy'.history THEN SetCurrentPage(Side, 1) ELSE Side
  <2>1. proxy' \in Proxy
    BY <1>2, <1>7 DEF SetHistory, Proxy
  <2>2. UserMakes(t) /\ Can /\ UNCHANGED othersOfUser
    BY <1>7 DEF SetHistory
  <2>3. Turns(Side, t)
    <3>1. Turns(Side, SetCurrentPage(Side, 1))
      BY <1>2, SetCurrentPageTurns
    <3>2. Turns(Side, Side)
      BY <1>2, TurnsReflexive
    <3> QED BY <3>1, <3>2
  <2> HIDE DEF t
  <2> QED BY <2>1, <2>2, <2>3, UserMakesKeeps
<1>8. ASSUME NEW ids \in SUBSET Id, Cancel(ids) PROVE Inv' /\ StaysOver
  <2>1. left' \in Budget
    BY <1>1, <1>8, SpendType DEF Cancel, Can
  <2> QED BY <1>2, <1>8, <2>1, RestKeeps DEF Cancel, othersOfOrders
<1>9. \A r \in Listed : r.id \in Id
  <2>1. model.rows \in Seq(Row)
    BY <1>1 DEF TypeOK, Model
  <2>2. \A r \in ToSet(model.rows) : r \in Row
    BY <2>1 DEF ToSet
  <2> QED BY <2>2 DEF Listed, Row
<1>10. ASSUME NEW id \in Id, CancelOrder(id) PROVE Inv' /\ StaysOver
  <2>1. {id} \in SUBSET Id
    OBVIOUS
  <2> QED BY <1>8, <1>10, <2>1 DEF CancelOrder
<1>11. CASE CancelListed
  <2>1. {r.id : r \in Listed} \in SUBSET Id
    BY <1>9
  <2> QED BY <1>8, <1>11, <2>1 DEF CancelListed
<1>12. ASSUME NEW ids \in cancelling, CancelAnswered(ids) PROVE Inv' /\ StaysOver
  BY <1>2, <1>12, AppendKeeps DEF CancelAnswered, othersOfOrders
<1>13. CASE RecoverFund
  <2>1. left' \in Budget
    BY <1>1, <1>13, SpendType DEF RecoverFund
  <2>2. recover' \in BOOLEAN
    BY <1>13 DEF RecoverFund, SetRecoverFundBusy
  <2> QED BY <1>2, <1>13, <2>1, <2>2, RestKeeps DEF RecoverFund, othersOfOrders
<1>14. CASE RecoverAnswered
  <2>1. recover' \in BOOLEAN
    BY <1>14 DEF RecoverAnswered, SetRecoverFundBusy
  <2> QED BY <1>2, <1>14, <2>1, RestKeeps DEF RecoverAnswered, othersOfOrders
<1> QED BY <1>3, <1>4, <1>5, <1>6, <1>7, <1>10, <1>11, <1>12, <1>13, <1>14 DEF User

-----------------------------------------------------------------------------
(* The theorems.                                                           *)

LEMMA InitInv == ASSUME Init PROVE Inv
<1>1. First \in Params /\ <<>> \in Seq(Flight) /\ <<>> \in Seq(BOOLEAN) /\ <<>> \in Seq(Row)
  BY FirstType, EmptySeq
<1>2. PICK s \in Scenarios : /\ faults = s.faults /\ left = s.left
                             /\ orders = s.orders /\ offers = s.offers
                             /\ swaps = s.swaps /\ events = s.events
  BY DEF Init
<1>3. s \in Scenario /\ IsFiniteSet(s.orders)
  BY OrdersAssumption
<1>4. /\ faults \subseteq Fault /\ left \in Budget /\ orders \subseteq Id
      /\ offers \in [Id -> Offer] /\ swaps \in Seq(Id) /\ events \in [Id -> Seq(Event)]
      /\ IsFiniteSet(orders)
  BY <1>2, <1>3 DEF Scenario
<1>5. contents \in Contents /\ Fine(contents) /\ contents.swaps = {}
  BY <1>1, EmptyType DEF Init
<1>6. /\ model.rows = <<>> /\ flight = <<>> /\ queue = <<>> /\ busy = FALSE
      /\ model = [rows |-> <<>>, orders |-> {}, swaps |-> {}, at |-> First]
      /\ proxy = [history |-> FALSE, filter |-> Id, can_i_apply |-> FALSE]
      /\ cancelling = {} /\ recover = FALSE /\ asked = First
  BY DEF Init
<1>7. model \in Model /\ proxy \in Proxy
  BY <1>1, <1>6, OrdersAssumption DEF Model, Proxy
<1>8. TypeOK
  BY <1>1, <1>4, <1>5, <1>6, <1>7 DEF TypeOK, Flight, Proxy
<1>9. DOMAIN model.rows = {} /\ DOMAIN flight = {} /\ SwapsOf(model.rows) = {}
  BY <1>6 DEF SwapsOf
<1>10. Shown
  BY <1>4, <1>5, <1>9 DEF Shown, Registered, Once
<1>11. Ordered
  BY <1>5, <1>9 DEF Ordered, After, Current
<1>12. LoadingMeansAwaiting
  BY <1>6 DEF LoadingMeansAwaiting
<1> QED BY <1>8, <1>10, <1>11, <1>12 DEF Inv

LEMMA NextInv == ASSUME Inv, [Next]_vars PROVE Inv' /\ StaysOver
<1>1. CASE World
  BY <1>1, WorldKeeps
<1>2. CASE User
  BY <1>2, UserKeeps
<1>3. CASE Poll
  BY <1>3, PollKeeps
<1>4. CASE Tick
  BY <1>4, TickKeeps
<1>5. ASSUME NEW i \in DOMAIN flight, Read(i) \/ Store(i) \/ Lose(i) PROVE Inv' /\ StaysOver
  BY <1>5, ReadKeeps, StoreKeeps, LoseKeeps
<1>6. CASE UNCHANGED vars
  <2>1. TypeOK
    BY DEF Inv
  <2>2. /\ UNCHANGED <<faults, worldVars, queue, contents, flight, viewVars>>
        /\ left' \in Budget /\ proxy' \in Proxy
        /\ cancelling' \subseteq SUBSET Id /\ recover' \in BOOLEAN /\ asked' \in Params
    BY <1>6, <2>1 DEF vars, worldVars, viewVars, TypeOK, Proxy
  <2> QED BY <2>2, RestKeeps
<1> QED BY <1>1, <1>2, <1>3, <1>4, <1>5, <1>6 DEF Next

LEMMA AlwaysInv == Spec => []Inv
<1>1. Init => Inv
  BY InitInv
<1>2. Inv /\ [Next]_vars => Inv'
  BY NextInv
<1> QED BY <1>1, <1>2, PTL DEF Spec

\* The variables have their types: the lists of an answer hold rows of their kind,
\* and what is requested is a page, a limit and a filter of those offered.
THEOREM OrdersTypeOK == Spec => []TypeOK
<1>1. Inv => TypeOK
  BY DEF Inv
<1> QED BY <1>1, AlwaysInv, PTL

\* Whatever is refused, lost or out of order, and whatever the user does meanwhile,
\* no swap has two rows: the registry of orders_model knows every swap that is shown.
THEOREM SwapsAlwaysShownOnce == Spec => []SwapsAreShownOnce
<1>1. Inv => SwapsAreShownOnce
  BY DEF Inv, Shown, Registered, Once, SwapsAreShownOnce
<1> QED BY <1>1, AlwaysInv, PTL

\* m_fetching_busy is up only while the answer to a change of page, limit or filter
\* is in flight or queued, or one was lost.
THEOREM LoadingAlwaysMeansAwaiting == Spec => []LoadingMeansAwaiting
<1>1. Inv => LoadingMeansAwaiting
  BY DEF Inv
<1> QED BY <1>1, AlwaysInv, PTL

\* No step of the timer, of an answer or of the user shows a swap that is over as
\* active again, or as over in another way, if answers are read and stored in order:
\* what is shown is older than what is stored, and that than what is in flight.
THEOREM OverAlwaysStaysOver == Spec => OverStaysOver
<1> DEFINE Kept == "reorder" \in faults
                   \/ \A i \in DOMAIN model.rows, j \in DOMAIN model'.rows :
                         LET r == model.rows[i] q == model'.rows[j]
                         IN  r.swap /\ q.swap /\ r.id = q.id /\ r.status \in Over => q.status = r.status
<1>1. StaysOver => Kept
  BY DEF StaysOver, After, SwapsOf
<1>2. Inv /\ [Next]_vars => [Kept]_vars
  BY <1>1, NextInv
<1> HIDE DEF Kept
<1>3. Spec => [][Kept]_vars
  BY <1>2, AlwaysInv, PTL DEF Spec
<1> QED BY <1>3 DEF OverStaysOver, Kept

=============================================================================
