------------------------- MODULE WalletData_proofs --------------------------
(***************************************************************************)
(* Theorems about AddressBook, AddressCheck and WalletFiles for any        *)
(* wallets, names, addresses, coins, texts, conversions, failures and      *)
(* numbers of steps: what a login would read is what the session holds,    *)
(* the contacts of a wallet stay in that wallet, what is shown is what is  *)
(* stored, a user who waits for each verdict is shown that of the text in  *)
(* the field, and the coins, tokens and settings in memory are those in    *)
(* the files whenever nothing is left to write, where the choices of a     *)
(* wallet change as those of ChoiceStore do.                               *)
(***************************************************************************)
EXTENDS AddressBook, AddressCheck, WalletKept, SequenceTheorems, FiniteSetTheorems,
        WellFoundedInduction, TLAPS

-----------------------------------------------------------------------------
(* Looking a contact up by its name.                                       *)

\* A set of naturals that is not empty has a least element.
LEMMA LeastOf ==
    ASSUME NEW S \in SUBSET Nat, S # {}
    PROVE  \E i \in S : \A j \in S : ~(j < i)
<1> DEFINE R == OpToRel(<, Nat)
<1>1. IsWellFoundedOn(R, Nat)
  BY NatLessThanWellFounded
<1>2. PICK i \in S : \A j \in S : <<j, i>> \notin R
  <2> HIDE DEF R
  <2> QED BY <1>1, WFMin
<1>3. \A j \in S : j < i => <<j, i>> \in R
  BY DEF OpToRel
<1> QED BY <1>2, <1>3

LEMMA FirstIsThere ==
    ASSUME NEW K, NEW c \in Seq(K), NEW n, Has(c, n)
    PROVE  First(c, n) \in 1..Len(c) /\ c[First(c, n)].name = n
<1> DEFINE S == {i \in 1..Len(c) : c[i].name = n}
<1>1. DOMAIN c = 1..Len(c) /\ Len(c) \in Nat
  BY LenProperties
<1>2. S \in SUBSET Nat /\ S # {}
  BY <1>1 DEF Has
<1>3. PICK i \in S : \A j \in S : ~(j < i)
  BY <1>2, LeastOf
<1>4. \A j \in 1..(i - 1) : j \in 1..Len(c) /\ j < i
  BY <1>1, <1>3
<1>5. c[i].name = n /\ \A j \in 1..(i - 1) : c[j].name # n
  BY <1>3, <1>4
<1> QED BY <1>1, <1>3, <1>5 DEF First

-----------------------------------------------------------------------------
(* The contacts of wallet w, whose addresses were all entered in it, and   *)
(* the operators that keep them so.                                        *)

AtHome(w) == UNION {[S -> {w} \X Text] : S \in SUBSET Slot}
Of(w) == [name : Name, tags : SUBSET Tag, at : AtHome(w)]

LEMMA OfIsContact ==
    ASSUME NEW w \in Wallet
    PROVE  Of(w) \subseteq Contact /\ Seq(Of(w)) \subseteq Seq(Contact)
<1>1. AtHome(w) \subseteq Addresses
  BY DEF AtHome, Addresses, Address
<1>2. Of(w) \subseteq Contact
  BY <1>1 DEF Of, Contact
<1> QED BY <1>2, SeqMonotonic

LEMMA HomeIsFrom ==
    ASSUME NEW w \in Wallet, NEW c \in Seq(Of(w))
    PROVE  From(w, c)
<1> SUFFICES ASSUME NEW i \in DOMAIN c, NEW s \in DOMAIN c[i].at
             PROVE  c[i].at[s][1] = w
  BY DEF From
<1>1. c[i] \in Of(w)
  OBVIOUS
<1>2. c[i].at \in AtHome(w)
  BY <1>1 DEF Of
<1> QED BY <1>2 DEF AtHome

LEMMA MakeHome ==
    ASSUME NEW w, NEW S \in SUBSET Slot, NEW f \in [S -> {w} \X Text]
    PROVE  f \in AtHome(w)
  BY DEF AtHome

\* A restriction of addresses, and addresses put together.
LEMMA Restricted ==
    ASSUME NEW w \in Wallet, NEW f \in AtHome(w), NEW S \in SUBSET DOMAIN f
    PROVE  [s \in S |-> f[s]] \in AtHome(w)
  BY DEF AtHome

LEMMA NewIsOf ==
    ASSUME NEW w \in Wallet, NEW n \in Name
    PROVE  New(n) \in Of(w)
<1>1. Nowhere \in [{} -> {w} \X Text] /\ {} \in SUBSET Slot
  BY DEF Nowhere
<1>2. Nowhere \in AtHome(w)
  BY <1>1, MakeHome
<1> QED BY <1>2 DEF New, Of

LEMMA ShownIsOf ==
    ASSUME NEW w \in Wallet, NEW c \in Of(w), NEW types
    PROVE  Shown(c, types) \in Of(w)
<1> DEFINE S == {s \in DOMAIN c.at : TypeOf[s] \in types}
<1>1. c.at \in AtHome(w)
  BY DEF Of
<1>2. [s \in S |-> c.at[s]] \in AtHome(w)
  BY <1>1, Restricted
<1> QED BY <1>2 DEF Shown, Of

LEMMA PopulateIsOf ==
    ASSUME NEW w \in Wallet, NEW c \in Seq(Of(w)), NEW types
    PROVE  Populate(c, types) \in Seq(Of(w))
<1> DEFINE e(i) == Shown(c[First(c, c[i].name)], types)
<1>1. DOMAIN c = 1..Len(c) /\ Len(c) \in Nat
  BY LenProperties
<1>2. ASSUME NEW i \in 1..Len(c) PROVE e(i) \in Of(w)
  <2>1. Has(c, c[i].name)
    BY <1>1 DEF Has
  <2>2. First(c, c[i].name) \in 1..Len(c)
    BY <2>1, FirstIsThere
  <2>3. c[First(c, c[i].name)] \in Of(w)
    BY <2>2
  <2> QED BY <2>3, ShownIsOf
<1>3. Populate(c, types) = [i \in 1..Len(c) |-> e(i)]
  BY <1>1 DEF Populate
<1>4. \A i \in 1..Len(c) : e(i) \in Of(w)
  BY <1>2
<1> HIDE DEF e
<1>5. [i \in 1..Len(c) |-> e(i)] \in Seq(Of(w))
  BY <1>1, <1>4
<1> QED BY <1>3, <1>5

LEMMA WithoutIsOf ==
    ASSUME NEW w \in Wallet, NEW c \in Seq(Of(w)), NEW n
    PROVE  Without(c, n) \in Seq(Of(w))
<1>1. CASE Has(c, n)
  <2>1. First(c, n) \in 1..Len(c)
    BY <1>1, FirstIsThere
  <2>2. \A i \in 1..(First(c, n) - 1) : c[i] \in Of(w)
    BY <2>1
  <2>3. \A i \in (First(c, n) + 1)..Len(c) : c[i] \in Of(w)
    BY <2>1
  <2>4. SubSeq(c, 1, First(c, n) - 1) \in Seq(Of(w))
    BY <2>1, <2>2, SubSeqProperties
  <2>5. SubSeq(c, First(c, n) + 1, Len(c)) \in Seq(Of(w))
    BY <2>1, <2>3, SubSeqProperties
  <2> QED BY <1>1, <2>4, <2>5, ConcatProperties DEF Without, RemoveAt
<1>2. CASE ~Has(c, n)
  BY <1>2 DEF Without
<1> QED BY <1>1, <1>2

LEMMA PutIsOf ==
    ASSUME NEW w \in Wallet, NEW f \in AtHome(w), NEW s \in Slot, NEW t \in Text
    PROVE  Put(f, s, <<w, t>>) \in AtHome(w)
<1> DEFINE g == [r \in DOMAIN f \cup {s} |-> IF r = s THEN <<w, t>> ELSE f[r]]
<1>1. PICK S \in SUBSET Slot : f \in [S -> {w} \X Text]
  BY DEF AtHome
<1>2. g \in [S \cup {s} -> {w} \X Text] /\ S \cup {s} \in SUBSET Slot
  BY <1>1
<1>3. g \in AtHome(w)
  BY <1>2, MakeHome
<1> QED BY <1>3 DEF Put

LEMMA DropIsOf ==
    ASSUME NEW w \in Wallet, NEW f \in AtHome(w), NEW s
    PROVE  Drop(f, s) \in AtHome(w)
  BY Restricted DEF Drop

\* What Save makes of a contact: the tags and the addresses of the row.
LEMMA SavedIsOf ==
    ASSUME NEW w \in Wallet, NEW c \in Of(w), NEW d \in Of(w)
    PROVE  SetWalletInfo(RemoveEveryWalletInfo(AddCategories(ResetCategories(c), d.tags)), d.at)
              \in Of(w)
<1> DEFINE g == [s \in DOMAIN d.at \cup DOMAIN Nowhere |->
                   IF s \in DOMAIN d.at THEN d.at[s] ELSE Nowhere[s]]
<1>1. d.at \in AtHome(w) /\ d.tags \in SUBSET Tag
  BY DEF Of
<1>2. PICK S \in SUBSET Slot : d.at \in [S -> {w} \X Text]
  BY <1>1 DEF AtHome
<1>3. g \in [S -> {w} \X Text]
  BY <1>2 DEF Nowhere
<1>4. g \in AtHome(w)
  BY <1>3, MakeHome
<1> QED BY <1>1, <1>4 DEF SetWalletInfo, RemoveEveryWalletInfo, AddCategories, ResetCategories, Of

-----------------------------------------------------------------------------
(* The invariant.                                                          *)

\* Every file holds contacts of its wallet, if anything; m_data and the rows hold
\* those of the session's wallet, and m_data what a login would read.
Kept ==
    /\ wallet \in Wallet \cup {None}
    /\ DOMAIN file = Wallet
    /\ file = [w \in Wallet |-> file[w]]
    /\ \A w \in Wallet : file[w] = Torn \/ file[w] \in Seq(Of(w))
    /\ LoggedIn => /\ book \in Seq(Of(wallet))
                   /\ rows \in Seq(Of(wallet))
                   /\ Load(wallet) = book
    /\ ~LoggedIn => rows = <<>> /\ stage = "closed"
    /\ stage # "closed" => row \in 1..Len(rows)

\* What an operation of the session may do: the file is that of m_data, or neither
\* of them has changed.
Stored ==
    \/ UNCHANGED <<file, book>>
    \/ SaveConfiguration(book') /\ book' \in Seq(Of(wallet))

LEMMA StoredKeeps ==
    ASSUME BookConstants, Kept, LoggedIn, Stored, UNCHANGED wallet,
           rows' \in Seq(Of(wallet)), (stage' # "closed" => row' \in 1..Len(rows'))
    PROVE  Kept'
<1>1. wallet \in Wallet /\ wallet' \in Wallet /\ wallet # None /\ LoggedIn'
  BY DEF Kept, LoggedIn
<1>2. Torn \notin Seq(Of(wallet))
  BY <1>1, OfIsContact DEF BookConstants
<1>3. CASE UNCHANGED <<file, book>>
  BY <1>1, <1>3 DEF Kept, Load, LoggedIn
<1>4. CASE SaveConfiguration(book') /\ book' \in Seq(Of(wallet))
  <2>1. file'[wallet] = book' /\ \A w \in Wallet \ {wallet} : file'[w] = file[w]
    BY <1>1, <1>4 DEF Kept, SaveConfiguration
  <2>2. DOMAIN file' = Wallet /\ file' = [w \in Wallet |-> file'[w]]
    BY <1>1, <1>4 DEF Kept, SaveConfiguration
  <2>3. Load(wallet)' = book'
    BY <1>2, <1>4, <2>1 DEF Load
  <2> QED BY <1>1, <1>4, <2>1, <2>2, <2>3 DEF Kept
<1> QED BY <1>3, <1>4 DEF Stored

\* The end of the program, with a file that may be left torn.
LEMMA DiesKeeps ==
    ASSUME BookConstants, Kept, LoggedIn, Dies, UNCHANGED file \/ SaveConfiguration(Torn)
    PROVE  Kept'
<1>1. wallet \in Wallet /\ ~LoggedIn' /\ rows' = <<>> /\ stage' = "closed" /\ wallet' = None
  BY DEF Kept, LoggedIn, Dies
<1>2. /\ DOMAIN file' = Wallet /\ file' = [w \in Wallet |-> file'[w]]
      /\ \A w \in Wallet : file'[w] = Torn \/ file'[w] = file[w]
  BY <1>1 DEF Kept, SaveConfiguration
<1> QED BY <1>1, <1>2 DEF Kept

LEMMA SessionKeeps ==
    ASSUME BookConstants, Kept, Session PROVE Kept'
<1>1. ASSUME NEW w \in Wallet, OnPostLogin(w) PROVE Kept'
  <2>1. wallet' = w /\ w # None /\ rows = <<>> /\ UNCHANGED <<file, row, stage>> /\ stage = "closed"
    BY <1>1 DEF OnPostLogin, Kept, BookConstants
  <2>2. Load(w) \in Seq(Of(w)) /\ book' = Load(w)
    BY <1>1 DEF Load, Kept, OnPostLogin
  <2>3. Populate(Load(w), known') \in Seq(Of(w))
    BY <2>2, PopulateIsOf
  <2>4. rows' \in Seq(Of(w))
    BY <1>1, <2>1, <2>3, ConcatProperties DEF OnPostLogin
  <2>5. Load(w)' = Load(w)
    BY <2>1 DEF Load
  <2> QED BY <2>1, <2>2, <2>4, <2>5 DEF Kept, LoggedIn
<1>2. CASE Clear
  <2>1. wallet \in Wallet /\ book \in Seq(Of(wallet)) /\ wallet' = None /\ rows' = <<>>
        /\ stage' = "closed"
    BY <1>2 DEF Clear, Kept, LoggedIn
  <2>2. /\ DOMAIN file' = Wallet /\ file' = [w \in Wallet |-> file'[w]]
        /\ \A w \in Wallet : file'[w] = file[w] \/ (w = wallet /\ file'[w] = book)
    BY <1>2, <2>1 DEF Clear, SaveConfiguration, Kept
  <2> QED BY <2>1, <2>2 DEF Kept, LoggedIn
<1>3. CASE Crash
  BY <1>3, DiesKeeps DEF Crash
<1>4. CASE CrashInWrite
  BY <1>4, DiesKeeps DEF CrashInWrite
<1> QED BY <1>1, <1>2, <1>3, <1>4 DEF Session

LEMMA ContactsKeep ==
    ASSUME BookConstants, Kept, Contacts PROVE Kept'
<1>1. ASSUME NEW n \in Name, AddContact(n) PROVE Kept'
  <2>1. LoggedIn /\ wallet \in Wallet /\ UNCHANGED <<wallet, row, stage>> /\ stage = "closed"
    BY <1>1 DEF AddContact, Browsing, session, window, Kept, LoggedIn
  <2>2. book \in Seq(Of(wallet)) /\ rows \in Seq(Of(wallet))
    BY <2>1 DEF Kept
  <2>3. New(n) \in Of(wallet) /\ Shown(New(n), known) \in Of(wallet)
    BY <2>1, NewIsOf, ShownIsOf
  <2>4. book' \in Seq(Of(wallet)) /\ rows' \in Seq(Of(wallet))
    BY <1>1, <2>2, <2>3, AppendProperties DEF AddContact
  <2>5. Stored
    BY <1>1, <2>4 DEF AddContact, Stored
  <2> QED BY <2>1, <2>4, <2>5, StoredKeeps
<1>2. ASSUME NEW n \in Name, RemoveContact(n) PROVE Kept'
  <2>1. LoggedIn /\ wallet \in Wallet /\ UNCHANGED <<wallet, row, stage>> /\ stage = "closed"
    BY <1>2 DEF RemoveContact, Browsing, session, window, Kept, LoggedIn
  <2>2. book \in Seq(Of(wallet)) /\ rows \in Seq(Of(wallet))
    BY <2>1 DEF Kept
  <2>3. book' \in Seq(Of(wallet)) /\ rows' \in Seq(Of(wallet))
    BY <1>2, <2>1, <2>2, WithoutIsOf DEF RemoveContact
  <2>4. Stored
    BY <1>2, <2>3 DEF RemoveContact, Stored
  <2> QED BY <2>1, <2>3, <2>4, StoredKeeps
<1>3. ASSUME NEW i \in DOMAIN rows, OpenEdit(i) PROVE Kept'
  <2>1. LoggedIn /\ UNCHANGED <<wallet, file, book, rows>> /\ row' = i
    BY <1>3 DEF OpenEdit, Browsing, session
  <2>2. rows \in Seq(Of(wallet)) /\ i \in 1..Len(rows)
    BY <2>1, <1>3, LenProperties DEF Kept
  <2> QED BY <2>1, <2>2, StoredKeeps DEF Stored
<1> QED BY <1>1, <1>2, <1>3 DEF Contacts

LEMMA EditedIsOf ==
    ASSUME Kept, stage # "closed"
    PROVE  LoggedIn /\ wallet \in Wallet /\ Edited \in Of(wallet) /\ row \in 1..Len(rows)
  BY DEF Kept, LoggedIn, Edited

\* In the edit window, a contact of the wallet takes the place of the one edited.
LEMMA RowPut ==
    ASSUME Kept, stage # "closed", NEW c \in Of(wallet)
    PROVE  /\ [rows EXCEPT ![row] = c] \in Seq(Of(wallet))
           /\ Len([rows EXCEPT ![row] = c]) = Len(rows)
  BY ExceptSeq DEF Kept, LoggedIn, Edited

LEMMA EditsKeep ==
    ASSUME BookConstants, Kept, NEW c \in Of(wallet), Edits(c)
    PROVE  Kept'
<1>1. stage # "closed" /\ UNCHANGED <<wallet, file, book, row, stage>>
      /\ rows' = [rows EXCEPT ![row] = c]
  BY DEF Edits, session, window
<1>2. LoggedIn /\ rows' \in Seq(Of(wallet)) /\ row' \in 1..Len(rows')
  BY <1>1, RowPut, EditedIsOf
<1> QED BY <1>1, <1>2, StoredKeeps DEF Stored

LEMMA AddressEdits ==
    ASSUME BookConstants, Kept, NEW s \in Slot, NEW r \in Slot, NEW t \in Text,
           AddAddressEntry(s, t) \/ ReplaceAddressEntry(r, s, t)
    PROVE  Kept'
<1>1. stage # "closed"
  BY DEF AddAddressEntry, ReplaceAddressEntry, Edits
<1>2. wallet \in Wallet /\ Edited \in Of(wallet) /\ Edited.at \in AtHome(wallet)
  BY <1>1, EditedIsOf DEF Of
<1>3. CASE AddAddressEntry(s, t)
  <2>1. Put(Edited.at, s, <<wallet, t>>) \in AtHome(wallet)
    BY <1>2, PutIsOf
  <2>2. [Edited EXCEPT !.at = Put(@, s, <<wallet, t>>)] \in Of(wallet)
    BY <1>2, <2>1 DEF Of
  <2> QED BY <1>3, <2>2, EditsKeep DEF AddAddressEntry
<1>4. CASE ReplaceAddressEntry(r, s, t)
  <2>1. Put(Drop(Edited.at, r), s, <<wallet, t>>) \in AtHome(wallet)
    BY <1>2, DropIsOf, PutIsOf
  <2>2. [Edited EXCEPT !.at = Put(Drop(@, r), s, <<wallet, t>>)] \in Of(wallet)
    BY <1>2, <2>1 DEF Of
  <2> QED BY <1>4, <2>2, EditsKeep DEF ReplaceAddressEntry
<1> QED BY <1>3, <1>4

LEMMA RemovalKeeps ==
    ASSUME BookConstants, Kept, NEW s \in Slot, RemoveAddressEntry(s) PROVE Kept'
<1>1. stage # "closed"
  BY DEF RemoveAddressEntry
<1>2. wallet \in Wallet /\ Edited \in Of(wallet) /\ Edited.at \in AtHome(wallet)
  BY <1>1, EditedIsOf DEF Of
<1>3. Drop(Edited.at, s) \in AtHome(wallet)
  BY <1>2, DropIsOf
<1>4. [Edited EXCEPT !.at = Drop(@, s)] \in Of(wallet)
  BY <1>2, <1>3 DEF Of
<1> QED BY <1>4, EditsKeep DEF RemoveAddressEntry

LEMMA CategoryEdits ==
    ASSUME BookConstants, Kept, NEW t \in Tag, AddCategory(t) \/ RemoveCategory(t)
    PROVE  Kept'
<1>1. stage # "closed"
  BY DEF AddCategory, RemoveCategory, Edits
<1>2. Edited \in Of(wallet)
  BY <1>1, EditedIsOf
<1>3. CASE AddCategory(t)
  <2>1. [Edited EXCEPT !.tags = @ \cup {t}] \in Of(wallet)
    BY <1>2 DEF Of
  <2> QED BY <1>3, <2>1, EditsKeep DEF AddCategory
<1>4. CASE RemoveCategory(t)
  <2>1. [Edited EXCEPT !.tags = @ \ {t}] \in Of(wallet)
    BY <1>2 DEF Of
  <2> QED BY <1>4, <2>1, EditsKeep DEF RemoveCategory
<1> QED BY <1>3, <1>4

LEMMA SetNameKeeps ==
    ASSUME BookConstants, Kept, NEW n \in Name, SetName(n) PROVE Kept'
<1>1. stage # "closed" /\ UNCHANGED <<wallet, row>>
  BY DEF SetName, session
<1>2. LoggedIn /\ wallet \in Wallet /\ Edited \in Of(wallet) /\ row \in 1..Len(rows)
  BY <1>1, EditedIsOf
<1>3. [Edited EXCEPT !.name = n] \in Of(wallet)
  BY <1>2 DEF Of
<1>4. rows' = [rows EXCEPT ![row] = [Edited EXCEPT !.name = n]]
  BY <1>2 DEF SetName, Edited
<1>5. rows' \in Seq(Of(wallet)) /\ Len(rows') = Len(rows)
  BY <1>1, <1>3, <1>4, RowPut
<1>6. Stored
  <2>1. CASE UNCHANGED <<file, book>>
    BY <2>1 DEF Stored
  <2>2. CASE ~(UNCHANGED <<file, book>>)
    <3> DEFINE i == First(book, Edited.name)
    <3>1. /\ Has(book, Edited.name)
          /\ book' = [book EXCEPT ![i].name = n]
          /\ SaveConfiguration(book')
      BY <2>2 DEF SetName
    <3>2. book \in Seq(Of(wallet))
      BY <1>2 DEF Kept
    <3>3. i \in 1..Len(book)
      BY <3>1, <3>2, FirstIsThere
    <3>4. [book[i] EXCEPT !.name = n] \in Of(wallet)
      <4>1. book[i] \in Of(wallet)
        BY <3>2, <3>3
      <4> QED BY <4>1 DEF Of
    <3>5. book' = [book EXCEPT ![i] = [book[i] EXCEPT !.name = n]]
      BY <3>1, <3>2, <3>3
    <3> HIDE DEF i
    <3>6. book' \in Seq(Of(wallet))
      BY <3>2, <3>3, <3>4, <3>5, ExceptSeq
    <3> QED BY <3>1, <3>6 DEF Stored
  <2> QED BY <2>1, <2>2
<1> QED BY <1>1, <1>2, <1>5, <1>6, StoredKeeps

\* The window closes, over the contact of m_data that has the name of the row.
LEMMA ReloadRows ==
    ASSUME Kept, stage # "closed", NEW c \in Seq(Of(wallet)), Has(c, Edited.name), Reload(c)
    PROVE  LoggedIn /\ rows' \in Seq(Of(wallet)) /\ stage' = "closed"
<1>1. LoggedIn /\ wallet \in Wallet
  BY EditedIsOf
<1>2. First(c, Edited.name) \in 1..Len(c)
  BY FirstIsThere
<1>3. c[First(c, Edited.name)] \in Of(wallet)
  BY <1>2
<1>4. Shown(c[First(c, Edited.name)], known) \in Of(wallet)
  BY <1>1, <1>3, ShownIsOf
<1> QED BY <1>1, <1>4, RowPut DEF Reload

LEMMA SaveKeeps ==
    ASSUME BookConstants, Kept, Save PROVE Kept'
<1> DEFINE i == First(book, Edited.name)
           d == SetWalletInfo(RemoveEveryWalletInfo(
                    AddCategories(ResetCategories(book[i]), Edited.tags)), Edited.at)
<1>1. /\ stage # "closed" /\ UNCHANGED wallet /\ Has(book, Edited.name)
      /\ SaveConfiguration(book') /\ Reload(book')
  BY DEF Save, session
<1>2. LoggedIn /\ wallet \in Wallet /\ Edited \in Of(wallet) /\ book \in Seq(Of(wallet))
  BY <1>1, EditedIsOf DEF Kept
<1>3. i \in 1..Len(book) /\ book[i].name = Edited.name
  BY <1>1, <1>2, FirstIsThere
<1>4. book[i] \in Of(wallet)
  BY <1>2, <1>3
<1>5. d \in Of(wallet)
  BY <1>2, <1>4, SavedIsOf
<1>6. book' = [book EXCEPT ![i] = d]
  BY <1>2, <1>3 DEF Save
<1>7. d.name = Edited.name
  BY <1>3, <1>4 DEF SetWalletInfo, RemoveEveryWalletInfo, AddCategories, ResetCategories, Of
<1> HIDE DEF i, d
<1>8. book' \in Seq(Of(wallet)) /\ Len(book') = Len(book) /\ book'[i] = d
  BY <1>2, <1>3, <1>5, <1>6, ExceptSeq
<1>9. Has(book', Edited.name)
  BY <1>3, <1>7, <1>8, LenProperties DEF Has
<1>10. rows' \in Seq(Of(wallet)) /\ stage' = "closed"
  BY <1>1, <1>8, <1>9, ReloadRows
<1> QED BY <1>1, <1>2, <1>8, <1>10, StoredKeeps DEF Stored

LEMMA WindowKeeps ==
    ASSUME BookConstants, Kept, Window PROVE Kept'
<1>1. CASE Save
  BY <1>1, SaveKeeps
<1>2. CASE Cancel
  <2>1. stage # "closed" /\ UNCHANGED <<wallet, file, book>>
        /\ Has(book, Edited.name) /\ Reload(book)
    BY <1>2 DEF Cancel, session
  <2>2. book \in Seq(Of(wallet))
    BY <2>1, EditedIsOf DEF Kept
  <2> QED BY <2>1, <2>2, ReloadRows, StoredKeeps DEF Stored
<1>3. CASE GetContactThrows
  <2>1. LoggedIn
    BY <1>3, EditedIsOf DEF GetContactThrows
  <2> QED BY <1>3, <2>1, DiesKeeps DEF GetContactThrows
<1>4. ASSUME NEW s \in Slot, NEW t \in Text, AddAddressEntry(s, t) PROVE Kept'
  BY <1>4, AddressEdits
<1>5. ASSUME NEW s \in Slot, NEW t \in Text, NEW r \in Slot, ReplaceAddressEntry(r, s, t)
      PROVE  Kept'
  BY <1>5, AddressEdits
<1>6. ASSUME NEW s \in Slot, RemoveAddressEntry(s) PROVE Kept'
  BY <1>6, RemovalKeeps
<1>7. ASSUME NEW t \in Tag, AddCategory(t) \/ RemoveCategory(t) PROVE Kept'
  BY <1>7, CategoryEdits
<1>8. ASSUME NEW n \in Name, SetName(n) PROVE Kept'
  BY <1>8, SetNameKeeps
<1> QED BY <1>1, <1>2, <1>3, <1>4, <1>5, <1>6, <1>7, <1>8 DEF Window

-----------------------------------------------------------------------------
(* While no two contacts have the same name, the rows are m_data.          *)

\* No two contacts of a list have the same name, and none has the name "".
Distinct(c) ==
    \A i \in DOMAIN c : c[i].name # Empty /\ \A j \in DOMAIN c : c[j].name = c[i].name => j = i

\* The rows r show the contacts c, but for what is edited in row k.
Alike(r, c, k, types) ==
    /\ Len(r) = Len(c)
    /\ \A i \in 1..Len(r) : r[i].name = c[i].name
    /\ \A i \in 1..Len(r) : i # k => r[i] = Shown(c[i], types)

Matching ==
    /\ stage = "closed" => row = 0
    /\ careful => \A w \in Wallet : file[w] = Torn \/ Distinct(file[w])
    /\ careful /\ LoggedIn => Alike(rows, book, row, known)

LEMMA FirstIsOnly ==
    ASSUME NEW K, NEW c \in Seq(K), Distinct(c), NEW i \in 1..Len(c), NEW n, c[i].name = n
    PROVE  Has(c, n) /\ First(c, n) = i
<1>1. DOMAIN c = 1..Len(c)
  BY LenProperties
<1>2. Has(c, n)
  BY <1>1 DEF Has
<1>3. First(c, n) \in 1..Len(c) /\ c[First(c, n)].name = n
  BY <1>2, FirstIsThere
<1> QED BY <1>1, <1>2, <1>3 DEF Distinct

LEMMA ShownName ==
    ASSUME NEW w, NEW c \in Of(w), NEW types
    PROVE  Shown(c, types).name = c.name
  BY DEF Shown, Of

LEMMA PopulateIsAlike ==
    ASSUME NEW w \in Wallet, NEW c \in Seq(Of(w)), Distinct(c), NEW types
    PROVE  Alike(Populate(c, types), c, 0, types)
<1> DEFINE r == Populate(c, types)
<1>1. DOMAIN c = 1..Len(c) /\ Len(c) \in Nat
  BY LenProperties
<1>2. r \in Seq(Of(w))
  BY PopulateIsOf
<1>3. DOMAIN r = 1..Len(c)
  BY <1>1 DEF Populate
<1>4. Len(r) = Len(c)
  BY <1>1, <1>2, <1>3, LenProperties
<1>5. ASSUME NEW i \in 1..Len(c)
      PROVE  r[i] = Shown(c[i], types) /\ r[i].name = c[i].name
  <2>1. First(c, c[i].name) = i
    BY FirstIsOnly
  <2>2. r[i] = Shown(c[First(c, c[i].name)], types)
    BY <1>1 DEF Populate
  <2>3. c[i] \in Of(w)
    OBVIOUS
  <2> HIDE DEF r
  <2> QED BY <2>1, <2>2, <2>3, ShownName
<1> HIDE DEF r
<1>6. Alike(r, c, 0, types)
  BY <1>4, <1>5 DEF Alike
<1> QED BY <1>6 DEF r

\* A contact takes the place of one, in both lists.
LEMMA AlikePut ==
    ASSUME NEW w, NEW r \in Seq(Of(w)), NEW c \in Seq(Of(w)), NEW types,
           NEW k \in 1..Len(r), Alike(r, c, k, types),
           NEW x \in Of(w), NEW y \in Of(w), x.name = y.name,
           NEW j \in {0, k}, j = 0 => x = Shown(y, types),
           NEW d, d = [c EXCEPT ![k] = y]
    PROVE  Alike([r EXCEPT ![k] = x], d, j, types)
<1> DEFINE s == [r EXCEPT ![k] = x]
<1>1. k \in 1..Len(c) /\ Len(r) = Len(c)
  BY DEF Alike
<1>2. Len(s) = Len(r) /\ \A i \in 1..Len(r) : s[i] = IF i = k THEN x ELSE r[i]
  BY ExceptSeq, LenProperties
<1>3. Len(d) = Len(c) /\ \A i \in 1..Len(c) : d[i] = IF i = k THEN y ELSE c[i]
  BY <1>1, ExceptSeq, LenProperties
<1> HIDE DEF s
<1>4. Alike(s, d, j, types)
  BY <1>1, <1>2, <1>3 DEF Alike
<1> QED BY <1>4 DEF s

LEMMA DistinctPut ==
    ASSUME NEW w, NEW c \in Seq(Of(w)), Distinct(c), NEW k \in 1..Len(c), NEW y,
           y.name = c[k].name \/ (y.name # Empty /\ ~Has(c, y.name))
    PROVE  Distinct([c EXCEPT ![k] = y])
<1> DEFINE d == [c EXCEPT ![k] = y]
<1>1. DOMAIN c = 1..Len(c) /\ DOMAIN d = 1..Len(c)
  BY LenProperties
<1>2. \A i \in 1..Len(c) : d[i] = IF i = k THEN y ELSE c[i]
  BY <1>1
<1> HIDE DEF d
<1>3. Distinct(d)
  BY <1>1, <1>2 DEF Distinct, Has
<1> QED BY <1>3 DEF d

LEMMA DistinctAppend ==
    ASSUME NEW w, NEW c \in Seq(Of(w)), Distinct(c),
           NEW y \in Of(w), y.name # Empty, ~Has(c, y.name)
    PROVE  Distinct(Append(c, y))
<1> DEFINE d == Append(c, y)
<1>1. DOMAIN c = 1..Len(c) /\ Len(c) \in Nat
  BY LenProperties
<1>2. DOMAIN d = 1..(Len(c) + 1) /\ \A i \in 1..Len(c) : d[i] = c[i]
  BY <1>1, AppendProperties, LenProperties
<1>3. d[Len(c) + 1] = y
  BY AppendProperties
<1> HIDE DEF d
<1>4. \A i \in DOMAIN d : i \in 1..Len(c) \/ i = Len(c) + 1
  BY <1>1, <1>2
<1>5. Distinct(d)
  BY <1>1, <1>2, <1>3, <1>4 DEF Distinct, Has
<1> QED BY <1>5 DEF d

LEMMA AlikeAppend ==
    ASSUME NEW w, NEW r \in Seq(Of(w)), NEW c \in Seq(Of(w)), NEW types, Alike(r, c, 0, types),
           NEW y \in Of(w), Shown(y, types) \in Of(w)
    PROVE  Alike(Append(r, Shown(y, types)), Append(c, y), 0, types)
<1> DEFINE s == Append(r, Shown(y, types))
           d == Append(c, y)
           n == Len(c)
<1>1. n \in Nat /\ Len(r) = n
  BY LenProperties DEF Alike
<1>2. Len(s) = n + 1 /\ s[n + 1] = Shown(y, types) /\ \A i \in 1..n : s[i] = r[i]
  BY <1>1, AppendProperties
<1>3. Len(d) = n + 1 /\ d[n + 1] = y /\ \A i \in 1..n : d[i] = c[i]
  BY <1>1, AppendProperties
<1>4. Shown(y, types).name = y.name
  BY ShownName
<1>5. \A i \in 1..n : r[i].name = c[i].name /\ r[i] = Shown(c[i], types)
  BY <1>1 DEF Alike
<1> HIDE DEF s, d, n
<1>6. \A i \in 1..(n + 1) : i \in 1..n \/ i = n + 1
  BY <1>1
<1>7. Alike(s, d, 0, types)
  BY <1>1, <1>2, <1>3, <1>4, <1>5, <1>6 DEF Alike
<1> QED BY <1>7 DEF s, d

\* What is left when the contact at k is removed.
LEMMA RemovedAt ==
    ASSUME NEW K, NEW c \in Seq(K), NEW k \in 1..Len(c), NEW d, d = RemoveAt(c, k)
    PROVE  /\ d \in Seq(K)
           /\ Len(d) = Len(c) - 1
           /\ \A i \in 1..(Len(c) - 1) : d[i] = c[IF i < k THEN i ELSE i + 1]
<1> DEFINE a == SubSeq(c, 1, k - 1)
           b == SubSeq(c, k + 1, Len(c))
<1>1. Len(c) \in Nat
  BY LenProperties
<1>2. (\A i \in 1..(k - 1) : c[i] \in K) /\ (\A i \in (k + 1)..Len(c) : c[i] \in K)
  BY <1>1
<1>3. a \in Seq(K) /\ Len(a) = k - 1 /\ \A i \in 1..(k - 1) : a[i] = c[i]
  BY <1>1, <1>2, SubSeqProperties
<1>4. b \in Seq(K) /\ Len(b) = Len(c) - k /\ \A i \in 1..(Len(c) - k) : b[i] = c[k + i]
  BY <1>1, <1>2, SubSeqProperties
<1>5. d = a \o b
  BY DEF RemoveAt
<1> HIDE DEF a, b
<1>6. d \in Seq(K) /\ Len(d) = Len(a) + Len(b)
  BY <1>3, <1>4, <1>5, ConcatProperties
<1>7. \A i \in 1..(Len(a) + Len(b)) : d[i] = IF i <= Len(a) THEN a[i] ELSE b[i - Len(a)]
  BY <1>3, <1>4, <1>5, ConcatProperties
<1>8. Len(d) = Len(c) - 1
  BY <1>1, <1>3, <1>4, <1>6
<1>9. ASSUME NEW i \in 1..(Len(c) - 1) PROVE d[i] = c[IF i < k THEN i ELSE i + 1]
  <2>1. i \in 1..(Len(a) + Len(b))
    BY <1>1, <1>3, <1>4
  <2>2. CASE i < k
    <3>1. i <= Len(a) /\ i \in 1..(k - 1)
      BY <1>1, <1>3, <2>2
    <3>2. d[i] = a[i]
      BY <1>7, <2>1, <3>1
    <3> QED BY <1>3, <2>2, <3>1, <3>2
  <2>3. CASE ~(i < k)
    <3>1. ~(i <= Len(a)) /\ i - Len(a) \in 1..(Len(c) - k) /\ k + (i - Len(a)) = i + 1
      BY <1>1, <1>3, <2>3
    <3>2. d[i] = b[i - Len(a)]
      BY <1>7, <2>1, <3>1
    <3> QED BY <1>4, <2>3, <3>1, <3>2
  <2> QED BY <2>2, <2>3
<1> QED BY <1>6, <1>8, <1>9

LEMMA RemovedAlike ==
    ASSUME NEW w, NEW r \in Seq(Of(w)), NEW c \in Seq(Of(w)), NEW types, Alike(r, c, 0, types),
           Distinct(c), NEW k \in 1..Len(c)
    PROVE  Alike(RemoveAt(r, k), RemoveAt(c, k), 0, types) /\ Distinct(RemoveAt(c, k))
<1> DEFINE s == RemoveAt(r, k)
           d == RemoveAt(c, k)
           n == Len(c) - 1
           to(i) == IF i < k THEN i ELSE i + 1
<1>1. Len(c) \in Nat /\ Len(r) = Len(c) /\ n \in Nat /\ DOMAIN c = 1..Len(c)
  BY LenProperties DEF Alike
<1>2. Len(s) = n /\ \A i \in 1..n : s[i] = r[to(i)]
  <2>1. k \in 1..Len(r)
    BY <1>1
  <2>2. Len(s) = Len(r) - 1 /\ \A i \in 1..(Len(r) - 1) : s[i] = r[to(i)]
    BY <2>1, RemovedAt
  <2> QED BY <1>1, <2>2
<1>3. d \in Seq(Of(w)) /\ Len(d) = n /\ \A i \in 1..n : d[i] = c[to(i)]
  BY RemovedAt
<1>4. \A i \in 1..n : to(i) \in 1..Len(c)
  BY <1>1
<1>5. \A i, j \in 1..n : to(i) = to(j) => i = j
  BY <1>1
<1>6. \A i \in 1..Len(c) : r[i].name = c[i].name /\ r[i] = Shown(c[i], types)
  BY <1>1 DEF Alike
<1>7. DOMAIN d = 1..n
  BY <1>3, LenProperties
<1> HIDE DEF s, d, n, to
<1>8. Alike(s, d, 0, types)
  BY <1>2, <1>3, <1>4, <1>6 DEF Alike
<1>9. Distinct(d)
  BY <1>1, <1>3, <1>4, <1>5, <1>7 DEF Distinct
<1> QED BY <1>8, <1>9 DEF s, d

-----------------------------------------------------------------------------
(* Every step keeps the rows and m_data alike.                             *)

LEMMA BookIsDistinct ==
    ASSUME Kept, Matching, careful, LoggedIn
    PROVE  Distinct(book)
<1>1. wallet \in Wallet /\ Load(wallet) = book
  BY DEF Kept, LoggedIn
<1>2. CASE file[wallet] = Torn
  <2>1. book = <<>>
    BY <1>1, <1>2 DEF Load
  <2> QED BY <2>1 DEF Distinct
<1>3. CASE file[wallet] # Torn
  BY <1>1, <1>3 DEF Load, Matching
<1> QED BY <1>2, <1>3

\* What is written is torn, or has no two contacts of one name.
LEMMA FilesStayDistinct ==
    ASSUME Kept, Matching, careful, LoggedIn,
           NEW c, UNCHANGED file \/ SaveConfiguration(c), c = Torn \/ Distinct(c)
    PROVE  \A w \in Wallet : file'[w] = Torn \/ Distinct(file'[w])
<1>1. \A w \in Wallet : file'[w] = file[w] \/ file'[w] = c
  BY DEF Kept, LoggedIn, SaveConfiguration
<1>2. \A w \in Wallet : file[w] = Torn \/ Distinct(file[w])
  BY DEF Matching
<1> QED BY <1>1, <1>2

LEMMA DiesMatches ==
    ASSUME Kept, Matching, LoggedIn, Dies, UNCHANGED file \/ SaveConfiguration(Torn)
    PROVE  Matching'
<1>1. row' = 0 /\ ~LoggedIn' /\ careful' = careful
  BY DEF Dies, LoggedIn
<1>2. careful => \A w \in Wallet : file'[w] = Torn \/ Distinct(file'[w])
  BY FilesStayDistinct
<1> QED BY <1>1, <1>2 DEF Matching

LEMMA SessionMatches ==
    ASSUME BookConstants, Kept, Matching, Session PROVE Matching'
<1>1. ASSUME NEW w \in Wallet, OnPostLogin(w) PROVE Matching'
  <2>1. rows = <<>> /\ stage = "closed" /\ row = 0 /\ UNCHANGED <<careful, file, row, stage>>
        /\ book' = Load(w) /\ Load(w) \in Seq(Of(w))
    BY <1>1 DEF OnPostLogin, Kept, Matching, Load
  <2>2. Populate(Load(w), known') \in Seq(Of(w))
    BY <2>1, PopulateIsOf
  <2>3. rows' = Populate(Load(w), known')
    BY <1>1, <2>1, <2>2, ConcatEmptySeq DEF OnPostLogin
  <2>4. ASSUME careful PROVE Distinct(Load(w))
    BY <2>4 DEF Matching, Load, Distinct
  <2>5. ASSUME careful PROVE Alike(rows', book', row', known')
    BY <2>1, <2>3, <2>4, <2>5, PopulateIsAlike
  <2> QED BY <2>1, <2>5 DEF Matching
<1>2. CASE Clear
  <2>1. LoggedIn /\ ~LoggedIn' /\ UNCHANGED <<careful, row, stage>> /\ SaveConfiguration(book)
    BY <1>2 DEF Clear, LoggedIn
  <2>2. careful => \A w \in Wallet : file'[w] = Torn \/ Distinct(file'[w])
    BY <2>1, BookIsDistinct, FilesStayDistinct
  <2> QED BY <2>1, <2>2 DEF Matching
<1>3. CASE Crash
  BY <1>3, DiesMatches DEF Crash
<1>4. CASE CrashInWrite
  BY <1>4, DiesMatches DEF CrashInWrite
<1> QED BY <1>1, <1>2, <1>3, <1>4 DEF Session

\* A step of the session: the file is that of m_data, or neither has changed.
LEMMA StepMatches ==
    ASSUME Kept, Matching, LoggedIn, UNCHANGED <<careful, known, wallet>>,
           UNCHANGED file \/ SaveConfiguration(book'),
           stage' = "closed" => row' = 0,
           careful => Distinct(book') /\ Alike(rows', book', row', known)
    PROVE  Matching'
<1>1. careful => \A w \in Wallet : file'[w] = Torn \/ Distinct(file'[w])
  BY FilesStayDistinct
<1> QED BY <1>1 DEF Matching

LEMMA ContactsMatch ==
    ASSUME BookConstants, Kept, Matching, Contacts PROVE Matching'
<1>1. ASSUME NEW n \in Name, AddContact(n) PROVE Matching'
  <2>1. /\ LoggedIn /\ wallet \in Wallet /\ UNCHANGED <<careful, known, wallet, row, stage>>
        /\ row = 0 /\ n # Empty /\ ~Has(book, n) /\ SaveConfiguration(book')
    BY <1>1 DEF AddContact, Browsing, session, window, Kept, LoggedIn, Matching
  <2>2. book \in Seq(Of(wallet)) /\ rows \in Seq(Of(wallet))
    BY <2>1 DEF Kept
  <2>3. New(n) \in Of(wallet) /\ Shown(New(n), known) \in Of(wallet) /\ New(n).name = n
    BY <2>1, NewIsOf, ShownIsOf DEF New
  <2>4. book' = Append(book, New(n)) /\ rows' = Append(rows, Shown(New(n), known))
    BY <1>1 DEF AddContact
  <2>5. ASSUME careful PROVE Distinct(book') /\ Alike(rows', book', 0, known)
    <3>1. Distinct(book) /\ Alike(rows, book, 0, known)
      BY <2>1, <2>5, BookIsDistinct DEF Matching
    <3> QED BY <2>1, <2>2, <2>3, <2>4, <3>1, DistinctAppend, AlikeAppend
  <2> QED BY <2>1, <2>5, StepMatches
<1>2. ASSUME NEW n \in Name, RemoveContact(n) PROVE Matching'
  <2>1. /\ LoggedIn /\ wallet \in Wallet /\ UNCHANGED <<careful, known, wallet, row, stage>>
        /\ row = 0 /\ Has(rows, n) /\ SaveConfiguration(book')
    BY <1>2 DEF RemoveContact, Browsing, session, window, Kept, LoggedIn, Matching
  <2>2. book \in Seq(Of(wallet)) /\ rows \in Seq(Of(wallet))
    BY <2>1 DEF Kept
  <2>3. ASSUME careful PROVE Distinct(book') /\ Alike(rows', book', 0, known)
    <3> DEFINE k == First(rows, n)
    <3>1. Distinct(book) /\ Alike(rows, book, 0, known)
      BY <2>1, <2>3, BookIsDistinct DEF Matching
    <3>2. k \in 1..Len(rows) /\ rows[k].name = n
      BY <2>1, <2>2, FirstIsThere
    <3>3. k \in 1..Len(book) /\ book[k].name = n
      BY <3>1, <3>2 DEF Alike
    <3>4. Has(book, n) /\ First(book, n) = k
      BY <2>2, <3>1, <3>3, FirstIsOnly
    <3>5. book' = RemoveAt(book, k) /\ rows' = RemoveAt(rows, k)
      BY <1>2, <2>1, <3>4 DEF RemoveContact, Without
    <3> HIDE DEF k
    <3> QED BY <2>2, <3>1, <3>3, <3>5, RemovedAlike
  <2> QED BY <2>1, <2>3, StepMatches
<1>3. ASSUME NEW i \in DOMAIN rows, OpenEdit(i) PROVE Matching'
  <2>1. LoggedIn /\ row = 0 /\ UNCHANGED <<careful, known, wallet, file, book, rows>>
        /\ row' = i /\ stage' = "open"
    BY <1>3 DEF OpenEdit, Browsing, session, Matching
  <2>2. rows \in Seq(Of(wallet)) /\ Len(rows) \in Nat
    BY <2>1, LenProperties DEF Kept
  <2>3. ASSUME careful PROVE Distinct(book) /\ Alike(rows, book, i, known)
    BY <2>1, <2>2, <2>3, BookIsDistinct DEF Matching, Alike
  <2> QED BY <2>1, <2>3, StepMatches
<1> QED BY <1>1, <1>2, <1>3 DEF Contacts

\* In the edit window, the row being edited has the name of the contact of m_data at
\* the same place, and no other contact has it.
LEMMA EditedIsFirst ==
    ASSUME Kept, Matching, careful, stage # "closed"
    PROVE  /\ Distinct(book) /\ Alike(rows, book, row, known)
           /\ row \in 1..Len(book) /\ book[row].name = Edited.name /\ Edited.name # Empty
           /\ Has(book, Edited.name) /\ First(book, Edited.name) = row
<1>1. LoggedIn /\ row \in 1..Len(rows) /\ book \in Seq(Of(wallet))
  BY EditedIsOf DEF Kept
<1>2. Distinct(book) /\ Alike(rows, book, row, known)
  BY <1>1, BookIsDistinct DEF Matching
<1>3. row \in 1..Len(book) /\ book[row].name = Edited.name
  BY <1>1, <1>2 DEF Alike, Edited
<1>4. Edited.name # Empty
  BY <1>1, <1>2, <1>3, LenProperties DEF Distinct
<1> QED BY <1>1, <1>2, <1>3, <1>4, FirstIsOnly

LEMMA EditsMatch ==
    ASSUME Kept, Matching, NEW c \in Of(wallet), c.name = Edited.name, Edits(c)
    PROVE  Matching'
<1>1. stage # "closed" /\ UNCHANGED <<careful, known, wallet, file, book, row, stage>>
      /\ rows' = [rows EXCEPT ![row] = c]
  BY DEF Edits, session, window
<1>2. LoggedIn /\ row \in 1..Len(rows) /\ book \in Seq(Of(wallet)) /\ rows \in Seq(Of(wallet))
  BY <1>1, EditedIsOf DEF Kept
<1>3. ASSUME careful PROVE Distinct(book) /\ Alike(rows', book, row, known)
  <2>1. /\ Distinct(book) /\ Alike(rows, book, row, known)
        /\ row \in 1..Len(book) /\ book[row].name = Edited.name
    BY <1>1, <1>3, EditedIsFirst
  <2>2. book[row] \in Of(wallet) /\ book = [book EXCEPT ![row] = book[row]]
    BY <1>2, <2>1
  <2>3. Alike([rows EXCEPT ![row] = c], book, row, known)
    BY <1>2, <2>1, <2>2, AlikePut
  <2> QED BY <1>1, <2>1, <2>3
<1> QED BY <1>1, <1>2, <1>3, StepMatches DEF Matching

LEMMA AtEditsMatch ==
    ASSUME Kept, Matching, NEW f \in AtHome(wallet), Edits([Edited EXCEPT !.at = f])
    PROVE  Matching'
<1>1. Edited \in Of(wallet)
  BY EditedIsOf DEF Edits
<1>2. [Edited EXCEPT !.at = f] \in Of(wallet) /\ [Edited EXCEPT !.at = f].name = Edited.name
  BY <1>1 DEF Of
<1> QED BY <1>2, EditsMatch

LEMMA AddressEditsMatch ==
    ASSUME Kept, Matching, NEW s \in Slot, NEW r \in Slot, NEW t \in Text,
           AddAddressEntry(s, t) \/ ReplaceAddressEntry(r, s, t)
    PROVE  Matching'
<1>1. stage # "closed"
  BY DEF AddAddressEntry, ReplaceAddressEntry, Edits
<1>2. wallet \in Wallet /\ Edited \in Of(wallet) /\ Edited.at \in AtHome(wallet)
  BY <1>1, EditedIsOf DEF Of
<1>4. CASE AddAddressEntry(s, t)
  <2>1. Put(Edited.at, s, <<wallet, t>>) \in AtHome(wallet)
    BY <1>2, PutIsOf
  <2>2. Edits([Edited EXCEPT !.at = Put(Edited.at, s, <<wallet, t>>)])
    BY <1>4 DEF AddAddressEntry
  <2> QED BY <2>1, <2>2, AtEditsMatch
<1>5. CASE ReplaceAddressEntry(r, s, t)
  <2>1. Put(Drop(Edited.at, r), s, <<wallet, t>>) \in AtHome(wallet)
    BY <1>2, DropIsOf, PutIsOf
  <2>2. Edits([Edited EXCEPT !.at = Put(Drop(Edited.at, r), s, <<wallet, t>>)])
    BY <1>5 DEF ReplaceAddressEntry
  <2> QED BY <2>1, <2>2, AtEditsMatch
<1> QED BY <1>4, <1>5

LEMMA RemovalMatches ==
    ASSUME Kept, Matching, NEW s \in Slot, RemoveAddressEntry(s) PROVE Matching'
<1>1. wallet \in Wallet /\ Edited.at \in AtHome(wallet)
  BY EditedIsOf DEF RemoveAddressEntry, Of
<1>2. Drop(Edited.at, s) \in AtHome(wallet)
  BY <1>1, DropIsOf
<1>3. Edits([Edited EXCEPT !.at = Drop(Edited.at, s)])
  BY DEF RemoveAddressEntry
<1> QED BY <1>2, <1>3, AtEditsMatch

LEMMA CategoryEditsMatch ==
    ASSUME Kept, Matching, NEW t \in Tag, AddCategory(t) \/ RemoveCategory(t)
    PROVE  Matching'
<1>1. Edited \in Of(wallet)
  BY EditedIsOf DEF AddCategory, RemoveCategory, Edits
<1>2. ASSUME NEW T \in SUBSET Tag
      PROVE  [Edited EXCEPT !.tags = T] \in Of(wallet)
             /\ [Edited EXCEPT !.tags = T].name = Edited.name
  BY <1>1 DEF Of
<1>3. Edited.tags \in SUBSET Tag
  BY <1>1 DEF Of
<1>4. CASE AddCategory(t)
  <2>1. Edits([Edited EXCEPT !.tags = Edited.tags \cup {t}])
    BY <1>4 DEF AddCategory
  <2> QED BY <1>2, <1>3, <2>1, EditsMatch
<1>5. CASE RemoveCategory(t)
  <2>1. Edits([Edited EXCEPT !.tags = Edited.tags \ {t}])
    BY <1>5 DEF RemoveCategory
  <2> QED BY <1>2, <1>3, <2>1, EditsMatch
<1> QED BY <1>4, <1>5

LEMMA SetNameMatches ==
    ASSUME Kept, Matching, NEW n \in Name, SetName(n) PROVE Matching'
<1>1. /\ stage # "closed" /\ stage' # "closed" /\ UNCHANGED <<careful, known, wallet, row>>
      /\ UNCHANGED file \/ SaveConfiguration(book')
  BY DEF SetName, session
<1>2. /\ LoggedIn /\ row \in 1..Len(rows) /\ Edited \in Of(wallet)
      /\ book \in Seq(Of(wallet)) /\ rows \in Seq(Of(wallet))
  BY <1>1, EditedIsOf DEF Kept
<1>3. ASSUME careful PROVE Distinct(book') /\ Alike(rows', book', row, known)
  <2> DEFINE x == [Edited EXCEPT !.name = n]
             y == [book[row] EXCEPT !.name = n]
  <2>1. /\ Distinct(book) /\ Alike(rows, book, row, known)
        /\ row \in 1..Len(book) /\ book[row].name = Edited.name /\ Edited.name # Empty
        /\ Has(book, Edited.name) /\ First(book, Edited.name) = row
    BY <1>1, <1>3, EditedIsFirst
  <2>2. book[row] \in Of(wallet)
    BY <1>2, <2>1
  <2>3. x \in Of(wallet) /\ x.name = n /\ y \in Of(wallet) /\ y.name = n
    BY <1>2, <2>2 DEF Of
  <2>4. n = Edited.name => y = book[row]
    BY <2>1, <2>2 DEF Of
  <2>5. rows' = [rows EXCEPT ![row] = x]
    BY <1>2 DEF SetName, Edited
  <2>6. book' = [book EXCEPT ![row] = y]
    <3>1. CASE n = Edited.name
      BY <1>2, <2>1, <2>4, <3>1 DEF SetName
    <3>2. CASE n # Edited.name
      BY <1>2, <2>1, <3>2 DEF SetName
    <3> QED BY <3>1, <3>2
  <2>7. y.name = book[row].name \/ (y.name # Empty /\ ~Has(book, y.name))
    BY <1>3, <2>1, <2>3 DEF SetName
  <2> HIDE DEF x, y
  <2>8. Distinct(book')
    BY <1>2, <2>1, <2>6, <2>7, DistinctPut
  <2>9. x.name = y.name /\ row \in {0, row} /\ (row = 0 => x = Shown(y, known))
    BY <1>2, <2>3
  <2>10. Alike([rows EXCEPT ![row] = x], book', row, known)
    BY <1>2, <2>1, <2>3, <2>6, <2>9, AlikePut
  <2> QED BY <2>5, <2>8, <2>10
<1> QED BY <1>1, <1>2, <1>3, StepMatches

\* The window closes: the row shows what m_data now has in its place.
LEMMA ReloadMatches ==
    ASSUME Kept, Matching, stage # "closed", UNCHANGED <<careful, known, wallet>>,
           UNCHANGED file \/ SaveConfiguration(book'), Reload(book'),
           careful => \E d \in Of(wallet) :
                         d.name = Edited.name /\ book' = [book EXCEPT ![row] = d]
    PROVE  Matching'
<1>1. /\ LoggedIn /\ wallet \in Wallet /\ row \in 1..Len(rows)
      /\ book \in Seq(Of(wallet)) /\ rows \in Seq(Of(wallet))
      /\ row' = 0 /\ stage' = "closed"
  BY EditedIsOf DEF Kept, Reload
<1>2. ASSUME careful PROVE Distinct(book') /\ Alike(rows', book', 0, known)
  <2>1. /\ Distinct(book) /\ Alike(rows, book, row, known)
        /\ row \in 1..Len(book) /\ book[row].name = Edited.name
    BY <1>2, EditedIsFirst
  <2>2. PICK d \in Of(wallet) : d.name = Edited.name /\ book' = [book EXCEPT ![row] = d]
    BY <1>2
  <2>3. Distinct(book')
    BY <1>1, <2>1, <2>2, DistinctPut
  <2>4. book' \in Seq(Of(wallet)) /\ Len(book') = Len(book) /\ book'[row] = d
    BY <1>1, <2>1, <2>2, ExceptSeq
  <2>5. First(book', Edited.name) = row
    <3> DEFINE c == book'
               n == Edited.name
    <3>1. c \in Seq(Of(wallet)) /\ Distinct(c) /\ row \in 1..Len(c) /\ c[row].name = n
      BY <2>1, <2>2, <2>3, <2>4
    <3> HIDE DEF c, n
    <3>2. First(c, n) = row
      BY <3>1, FirstIsOnly
    <3> QED BY <3>2 DEF c, n
  <2>6. rows' = [rows EXCEPT ![row] = Shown(d, known)]
    BY <2>4, <2>5 DEF Reload
  <2>7. Shown(d, known) \in Of(wallet) /\ Shown(d, known).name = d.name
    BY <1>1, ShownIsOf, ShownName
  <2>8. Alike(rows', book', 0, known)
    BY <1>1, <2>1, <2>2, <2>6, <2>7, AlikePut
  <2> QED BY <2>3, <2>8
<1> QED BY <1>1, <1>2, StepMatches

LEMMA SaveMatches ==
    ASSUME Kept, Matching, Save PROVE Matching'
<1> DEFINE d == SetWalletInfo(RemoveEveryWalletInfo(
                    AddCategories(ResetCategories(book[row]), Edited.tags)), Edited.at)
<1>1. /\ stage # "closed" /\ UNCHANGED <<careful, known, wallet>>
      /\ SaveConfiguration(book') /\ Reload(book')
  BY DEF Save, session
<1>2. LoggedIn /\ wallet \in Wallet /\ Edited \in Of(wallet) /\ book \in Seq(Of(wallet))
  BY <1>1, EditedIsOf DEF Kept
<1>3. ASSUME careful PROVE d \in Of(wallet) /\ d.name = Edited.name
                           /\ book' = [book EXCEPT ![row] = d]
  <2>1. /\ row \in 1..Len(book) /\ book[row].name = Edited.name
        /\ First(book, Edited.name) = row
    BY <1>1, <1>3, EditedIsFirst
  <2>2. book[row] \in Of(wallet)
    BY <1>2, <2>1
  <2>3. d \in Of(wallet)
    BY <1>2, <2>2, SavedIsOf
  <2>4. d.name = Edited.name
    BY <2>1, <2>2 DEF SetWalletInfo, RemoveEveryWalletInfo, AddCategories, ResetCategories, Of
  <2>5. book' = [book EXCEPT ![row] = d]
    BY <1>2, <2>1 DEF Save
  <2> QED BY <2>3, <2>4, <2>5
<1> HIDE DEF d
<1> QED BY <1>1, <1>3, ReloadMatches

LEMMA WindowMatches ==
    ASSUME Kept, Matching, Window PROVE Matching'
<1>1. CASE Save
  BY <1>1, SaveMatches
<1>2. CASE Cancel
  <2>1. /\ stage # "closed" /\ UNCHANGED <<careful, known, wallet, file, book>> /\ Reload(book)
    BY <1>2 DEF Cancel, session
  <2>2. ASSUME careful
        PROVE  book[row] \in Of(wallet) /\ book[row].name = Edited.name
               /\ book' = [book EXCEPT ![row] = book[row]]
    <3>1. row \in 1..Len(book) /\ book[row].name = Edited.name
      BY <2>1, <2>2, EditedIsFirst
    <3>2. book \in Seq(Of(wallet))
      BY <2>1, EditedIsOf DEF Kept
    <3> QED BY <2>1, <3>1, <3>2
  <2>3. Reload(book')
    BY <2>1 DEF Reload
  <2> QED BY <2>1, <2>2, <2>3, ReloadMatches
<1>3. CASE GetContactThrows
  <2>1. LoggedIn
    BY <1>3, EditedIsOf DEF GetContactThrows
  <2> QED BY <1>3, <2>1, DiesMatches DEF GetContactThrows
<1>4. ASSUME NEW s \in Slot, NEW t \in Text, AddAddressEntry(s, t) PROVE Matching'
  BY <1>4, AddressEditsMatch
<1>5. ASSUME NEW s \in Slot, NEW t \in Text, NEW r \in Slot, ReplaceAddressEntry(r, s, t)
      PROVE  Matching'
  BY <1>5, AddressEditsMatch
<1>6. ASSUME NEW s \in Slot, RemoveAddressEntry(s) PROVE Matching'
  BY <1>6, RemovalMatches
<1>7. ASSUME NEW t \in Tag, AddCategory(t) \/ RemoveCategory(t) PROVE Matching'
  BY <1>7, CategoryEditsMatch
<1>8. ASSUME NEW n \in Name, SetName(n) PROVE Matching'
  BY <1>8, SetNameMatches
<1> QED BY <1>1, <1>2, <1>3, <1>4, <1>5, <1>6, <1>7, <1>8 DEF Window

-----------------------------------------------------------------------------
(* Checking an address.                                                    *)

\* The verdict shown is that of the text.
Told ==
    /\ ReasonOf[text] # "" => view.error
    /\ ReasonOf[text] = "" /\ faults = {} => ~view.error

\* While the user waits only the text of the field is validated or converted, not both
\* at once, and a flag is up as long as an answer may come.
Waits ==
    /\ validating \subseteq {text} /\ converting \subseteq {text}
    /\ validating # {} => "validate" \in busy
    /\ converting # {} => "convert" \in busy /\ "validate" \notin busy
    /\ "validate" \notin busy /\ text # Blank => Told

Views == [error : BOOLEAN, needFix : BOOLEAN]

CheckInv ==
    /\ text \in Entered /\ converted \in Entered /\ view \in Views
    /\ busy \subseteq {"validate", "convert"}
    /\ patient => Waits

\* What a view of two truth values is.
LEMMA ViewOf ==
    ASSUME NEW e \in BOOLEAN, NEW n \in BOOLEAN
    PROVE  /\ [error |-> e, needFix |-> n] \in Views
           /\ [error |-> e, needFix |-> n].error = e
  BY DEF Views

LEMMA CheckInitially == ASSUME AddressConstants, CheckInit PROVE CheckInv
  BY DEF AddressConstants, CheckInit, CheckInv, Views, Waits

LEMMA CheckEnter == ASSUME CheckInv, NEW t \in Entered, Enter(t) PROVE CheckInv'
  BY DEF Enter, Acts, Validate, scenario, CheckInv, Waits

LEMMA CheckReopen == ASSUME AddressConstants, CheckInv, Reopen PROVE CheckInv'
  BY DEF AddressConstants, Reopen, Acts, NewModal, scenario, CheckInv, Views, Waits

LEMMA CheckValidateAnswered == ASSUME CheckInv, NEW t \in Entered, ValidateAnswered(t) PROVE CheckInv'
<1>1. PICK reason \in Answers(t) :
         /\ data' = SetValidateAddressData(reason)
         /\ busy' = busy \ {"validate"}
         /\ IF "validate" \notin busy THEN UNCHANGED <<view, format>>
            ELSE VerdictRead(data') /\ format' = data'.convertible
  BY DEF ValidateAnswered
<1>2. t \in validating /\ validating' = validating \ {t}
      /\ UNCHANGED <<patient, faults, text, converting, converted>>
  BY DEF ValidateAnswered, scenario
<1>d. data'.reason = reason
  BY <1>1 DEF SetValidateAddressData
<1>v. ASSUME "validate" \in busy PROVE view' \in Views /\ view'.error = (reason # "")
  <2> DEFINE e == reason # ""
             n == view.needFix \/ data'.convertible
  <2>1. view' = [error |-> e, needFix |-> n]
    BY <1>1, <1>d, <1>v DEF VerdictRead
  <2>2. e \in BOOLEAN /\ n \in BOOLEAN
    OBVIOUS
  <2> HIDE DEF e, n
  <2>3. view' \in Views /\ view'.error = e
    BY <2>1, <2>2, ViewOf
  <2> QED BY <2>3 DEF e
<1>3. view' \in Views
  BY <1>1, <1>v DEF CheckInv
<1>4. ASSUME patient PROVE Waits'
  <2>1. t = text /\ "validate" \in busy /\ converting = {}
    BY <1>2, <1>4 DEF CheckInv, Waits
  <2>2. view'.error = (reason # "")
    BY <1>v, <2>1
  <2>3. Told'
    BY <1>2, <2>1, <2>2 DEF Told, Answers
  <2> QED BY <1>1, <1>2, <1>4, <2>1, <2>3 DEF CheckInv, Waits
<1> QED BY <1>1, <1>2, <1>3, <1>4 DEF CheckInv

LEMMA CheckFix == ASSUME CheckInv, Fix PROVE CheckInv'
  BY DEF Fix, Acts, scenario, CheckInv, Waits, Told

LEMMA CheckConvertAnswered ==
    ASSUME AddressConstants, CheckInv, NEW t \in Entered, ConvertAnswered(t) PROVE CheckInv'
<1>1. t \in converting /\ converting' = converting \ {t} /\ UNCHANGED <<patient, faults>>
  BY DEF ConvertAnswered, scenario
<1>2. converted' \in Entered
  <2>1. Converted[t] \in Entered /\ converted \in Entered
    BY DEF AddressConstants, CheckInv
  <2>2. converted' = Converted[t] \/ converted' = converted
    BY DEF ConvertAnswered, Conversions
  <2> QED BY <2>1, <2>2
<1>3. CASE "convert" \in busy /\ view.needFix
  <2>1. /\ view' = [view EXCEPT !.needFix = FALSE] /\ text' = converted'
        /\ busy' = (busy \ {"convert"}) \cup IF converted' = text THEN {} ELSE {"validate"}
        /\ validating' = validating \cup ({converted'} \ {text})
    BY <1>3 DEF ConvertAnswered
  <2>2. view' \in Views /\ view'.error = view.error
    BY <2>1 DEF CheckInv, Views
  <2>3. ASSUME patient PROVE Waits'
    <3>1. validating = {} /\ converting' = {} /\ "validate" \notin busy
      BY <1>1, <2>3 DEF CheckInv, Waits
    <3>2. CASE converted' = text
      BY <1>1, <2>1, <2>2, <2>3, <3>1, <3>2 DEF CheckInv, Waits, Told
    <3>3. CASE converted' # text
      BY <2>1, <3>1, <3>3 DEF Waits
    <3> QED BY <3>2, <3>3
  <2> QED BY <1>1, <1>2, <2>1, <2>2, <2>3 DEF CheckInv
<1>4. CASE ~("convert" \in busy /\ view.needFix)
  BY <1>1, <1>2, <1>4 DEF ConvertAnswered, CheckInv, Waits, Told
<1> QED BY <1>3, <1>4

LEMMA CheckStep == ASSUME AddressConstants, CheckInv, [CheckNext]_checkVars PROVE CheckInv'
<1>1. CASE UNCHANGED checkVars
  BY <1>1 DEF checkVars, CheckInv, Waits, Told
<1>2. ASSUME NEW t \in Entered, AnswerLost(t) PROVE CheckInv'
  BY <1>2 DEF AnswerLost, scenario, CheckInv, Waits, Told
<1> QED BY <1>1, <1>2, CheckEnter, CheckReopen, CheckValidateAnswered, CheckFix, CheckConvertAnswered DEF CheckNext

-----------------------------------------------------------------------------
(* The theorems.                                                           *)

LEMMA KeptInitially == ASSUME BookConstants, Init PROVE Kept
  BY DEF Init, Kept, LoggedIn

LEMMA KeptByStep ==
    ASSUME BookConstants, Kept, [Next]_vars PROVE Kept'
<1>1. CASE UNCHANGED vars
  BY <1>1 DEF vars, Kept, LoggedIn, Load
<1> QED BY <1>1, SessionKeeps, ContactsKeep, WindowKeeps DEF Next

LEMMA KeptImplies ==
    ASSUME Kept PROVE FileIsBook /\ AddressesStayHome
<1>1. FileIsBook
  BY DEF Kept, FileIsBook
<1>2. \A w \in Wallet : file[w] # Torn => From(w, file[w])
  BY HomeIsFrom DEF Kept
<1>3. LoggedIn => From(wallet, rows) /\ From(wallet, book)
  BY HomeIsFrom DEF Kept, LoggedIn
<1> QED BY <1>1, <1>2, <1>3 DEF AddressesStayHome

\* While a wallet is open, its file always tells what m_data holds, whatever is edited,
\* renamed or lost in a crash.
THEOREM FileIsAlwaysBook ==
    ASSUME BookConstants
    PROVE  Spec => []FileIsBook
<1>1. Init => Kept
  BY KeptInitially
<1>2. Kept /\ [Next]_vars => Kept'
  BY KeptByStep
<1>3. Kept => FileIsBook
  BY KeptImplies
<1> QED BY <1>1, <1>2, <1>3, PTL DEF Spec

\* What was entered in a wallet is shown and stored in that wallet alone.
THEOREM AddressesAlwaysStayHome ==
    ASSUME BookConstants
    PROVE  Spec => []AddressesStayHome
<1>1. Init => Kept
  BY KeptInitially
<1>2. Kept /\ [Next]_vars => Kept'
  BY KeptByStep
<1>3. Kept => AddressesStayHome
  BY KeptImplies
<1> QED BY <1>1, <1>2, <1>3, PTL DEF Spec

\* While no contact gets the name of another one, or "", the rows are m_data.
THEOREM ShownAlwaysStored ==
    ASSUME BookConstants
    PROVE  Spec => []ShownIsStored
<1>1. Init => Kept /\ Matching
  <2>1. Init => Matching
    BY DEF Init, Matching, LoggedIn
  <2> QED BY <2>1, KeptInitially
<1>2. Kept /\ Matching /\ [Next]_vars => (Kept /\ Matching)'
  <2>1. ASSUME Matching, UNCHANGED vars PROVE Matching'
    BY <2>1 DEF vars, Matching, LoggedIn
  <2> QED BY <2>1, KeptByStep, SessionMatches, ContactsMatch, WindowMatches DEF Next
<1>3. Kept /\ Matching => ShownIsStored
  <2> SUFFICES ASSUME Kept, Matching, careful, LoggedIn
               PROVE  ShownIsStored
    BY DEF ShownIsStored
  <2>1. DOMAIN rows = 1..Len(rows)
    BY LenProperties DEF Kept
  <2> QED BY <2>1 DEF Matching, Alike, ShownIsStored
<1> QED BY <1>1, <1>2, <1>3, PTL DEF Spec

\* In every state the two lists of recipients agree: a contact is offered exactly if one
\* of its addresses is.
THEOREM OfferedAlwaysHaveAnAddress ==
    Spec => []OfferedHaveAnAddress
<1>1. OfferedHaveAnAddress
  <2> SUFFICES ASSUME NEW i \in DOMAIN rows, NEW filter \in Type
               PROVE  ContactListed(rows[i], filter) <=>
                          \E s \in DOMAIN rows[i].at : AddressListed(TypeOf[s], filter)
    BY DEF OfferedHaveAnAddress
  <2>1. ASSUME NEW t PROVE (\/ t = filter
                            \/ t \in CoinType /\ IsOfKind(filter, t)
                            \/ t \notin CoinType /\ filter \in CoinType /\ IsOfKind(t, filter))
                           <=> AddressListed(t, filter)
    BY DEF AddressListed, IsOfKind
  <2> QED BY <2>1 DEF ContactListed
<1> QED BY <1>1, PTL

\* When no flag is up, Prepare is offered for an address and for nothing else.
THEOREM VerdictAlwaysOfText ==
    ASSUME AddressConstants
    PROVE  CheckSpec => []VerdictIsOfText
<1>1. CheckInit => CheckInv
  BY CheckInitially
<1>2. CheckInv /\ [CheckNext]_checkVars => CheckInv'
  BY CheckStep
<1>3. CheckInv => VerdictIsOfText
  BY DEF CheckInv, Waits, Told, VerdictIsOfText
<1> QED BY <1>1, <1>2, <1>3, PTL DEF CheckSpec

-----------------------------------------------------------------------------
(* The files of a wallet are not one another, and the lists of steps.       *)

\* The paths of the files are paths, and no two of them are the same.
LEMMA FileFacts ==
    /\ {RawFile, CfgFile, IniFile, OldIniFile} \subseteq File
    /\ RawFile # CfgFile /\ IniFile \notin {RawFile, CfgFile} /\ OldIniFile \notin {RawFile, CfgFile}
    /\ \A w \in Wallet :
          /\ {CoinsFile(w), TokensFile(w), OldFile(w), SeedFile(w), ObjectFile(w)} \subseteq File
          /\ {RawFile, CfgFile, IniFile, OldIniFile} \cap
             {CoinsFile(w), TokensFile(w), OldFile(w), SeedFile(w), ObjectFile(w)} = {}
    /\ \A v, w \in Wallet :
          /\ CoinsFile(v) \notin {TokensFile(w), OldFile(w), SeedFile(w), ObjectFile(w)}
          /\ TokensFile(v) \notin {OldFile(w), SeedFile(w), ObjectFile(w)}
          /\ OldFile(v) \notin {SeedFile(w), ObjectFile(w)}
          /\ CoinsFile(v) = CoinsFile(w) => v = w
BY DEF File, RawFile, CfgFile, IniFile, OldIniFile, CoinsFile, TokensFile, OldFile, SeedFile,
       ObjectFile

LEMMA ListOf ==
    ASSUME NEW S, NEW q \in Seq(S)
    PROVE  IsList(q)
<1>1. DOMAIN q = 1..Len(q) /\ Len(q) \in Nat /\ \A i \in 1..Len(q) : q[i] \in S
  BY LenProperties, ElementOfSeq
<1>2. q = [i \in 1..Len(q) |-> q[i]]
  BY <1>1
<1>3. q \in [1..Len(q) -> {q[i] : i \in DOMAIN q}]
  BY <1>1, <1>2
<1> QED BY <1>1, <1>3, SeqDef DEF IsList

LEMMA ListFacts ==
    ASSUME NEW q, IsList(q)
    PROVE  Len(q) \in Nat /\ DOMAIN q = 1..Len(q) /\ (q = <<>> <=> Len(q) = 0)
BY EmptySeq, LenProperties DEF IsList

LEMMA TailOfList ==
    ASSUME NEW q, IsList(q), q # <<>>
    PROVE  /\ IsList(Tail(q)) /\ Len(Tail(q)) = Len(q) - 1
           /\ \A i \in 1..(Len(q) - 1) : Tail(q)[i] = q[i + 1]
<1> DEFINE S == {q[i] : i \in DOMAIN q}
<1>1. q \in Seq(S)
  BY DEF IsList
<1>2. Tail(q) \in Seq(S) /\ Len(Tail(q)) = Len(q) - 1
      /\ \A i \in 1..(Len(q) - 1) : Tail(q)[i] = q[i + 1]
  <2> HIDE DEF S
  <2> QED BY <1>1, HeadTailProperties
<1>3. IsList(Tail(q))
  BY <1>2, ListOf
<1> QED BY <1>2, <1>3

LEMMA BothLists ==
    ASSUME NEW p, NEW q, IsList(p), IsList(q)
    PROVE  /\ IsList(p \o q) /\ Len(p \o q) = Len(p) + Len(q)
           /\ \A i \in 1..Len(p) : (p \o q)[i] = p[i]
           /\ \A i \in 1..Len(q) : (p \o q)[Len(p) + i] = q[i]
           /\ p = <<>> => p \o q = q
           /\ q = <<>> => p \o q = p
<1> DEFINE S == {p[i] : i \in DOMAIN p} \cup {q[i] : i \in DOMAIN q}
<1>1. p \in Seq(S) /\ q \in Seq(S)
  BY SeqMonotonic DEF IsList
<1> HIDE DEF S
<1>2. p \o q \in Seq(S) /\ Len(p \o q) = Len(p) + Len(q)
      /\ (\A i \in 1..Len(p) + Len(q) :
            (p \o q)[i] = IF i <= Len(p) THEN p[i] ELSE q[i - Len(p)])
  BY <1>1, ConcatProperties
<1>3. Len(p) \in Nat /\ Len(q) \in Nat
  BY <1>1, LenProperties
<1>4. \A i \in 1..Len(q) : (p \o q)[Len(p) + i] = q[i]
  BY <1>2, <1>3
<1>5. (p = <<>> => p \o q = q) /\ (q = <<>> => p \o q = p)
  BY <1>1, ConcatEmptySeq
<1>6. IsList(p \o q)
  BY <1>2, ListOf
<1> QED BY <1>2, <1>3, <1>4, <1>5, <1>6

LEMMA Appended ==
    ASSUME NEW p, IsList(p), NEW e
    PROVE  Append(p, e) = p \o <<e>>
<1> DEFINE S == {p[i] : i \in DOMAIN p} \cup {e}
<1>1. p \in Seq(S) /\ e \in S
  BY SeqMonotonic DEF IsList
<1> HIDE DEF S
<1> QED BY <1>1, AppendIsConcat

LEMMA OneAndOne == ASSUME NEW d, NEW e PROVE <<d>> \o <<e>> = <<d, e>>
<1> DEFINE a == <<d>>
           b == <<e>>
           c == <<d, e>>
           S == {d, e}
<1>1. a \in Seq(S) /\ Len(a) = 1 /\ a[1] = d
  OBVIOUS
<1>2. b \in Seq(S) /\ Len(b) = 1 /\ b[1] = e
  OBVIOUS
<1>3. c \in Seq(S) /\ Len(c) = 2 /\ c[1] = d /\ c[2] = e
  OBVIOUS
<1> HIDE DEF a, b, c, S
<1>4. /\ a \o b \in Seq(S) /\ Len(a \o b) = 2
      /\ \A i \in 1..2 : (a \o b)[i] = IF i <= 1 THEN a[i] ELSE b[i - 1]
  BY <1>1, <1>2, ConcatProperties
<1>5. (a \o b)[1] = d /\ (a \o b)[2] = e
  BY <1>1, <1>2, <1>4
<1>6. a \o b = c
  BY <1>3, <1>4, <1>5, SeqEqual
<1> QED BY <1>6 DEF a, b, c

LEMMA ShortLists ==
    /\ IsList(<<>>) /\ Len(<<>>) = 0
    /\ \A d : IsList(<<d>>) /\ Len(<<d>>) = 1 /\ <<d>>[1] = d
    /\ \A d, e : IsList(<<d, e>>) /\ Len(<<d, e>>) = 2 /\ <<d, e>>[1] = d /\ <<d, e>>[2] = e
    /\ \A d, e, f : /\ IsList(<<d, e, f>>) /\ Len(<<d, e, f>>) = 3
                    /\ <<d, e, f>>[1] = d /\ <<d, e, f>>[2] = e /\ <<d, e, f>>[3] = f
<1>1. <<>> \in Seq({}) /\ Len(<<>>) = 0
  OBVIOUS
<1>2. \A d : <<d>> \in Seq({d}) /\ Len(<<d>>) = 1 /\ <<d>>[1] = d
  OBVIOUS
<1>3. \A d, e : /\ <<d, e>> \in Seq({d, e}) /\ Len(<<d, e>>) = 2
                /\ <<d, e>>[1] = d /\ <<d, e>>[2] = e
  OBVIOUS
<1>4. \A d, e, f : /\ <<d, e, f>> \in Seq({d, e, f}) /\ Len(<<d, e, f>>) = 3
                   /\ <<d, e, f>>[1] = d /\ <<d, e, f>>[2] = e /\ <<d, e, f>>[3] = f
  OBVIOUS
<1> QED BY <1>1, <1>2, <1>3, <1>4, ListOf

\* What a thread has read of the tokens file.
\* What a coins file, or a tokens file, holds of each coin.
LEMMA TokensAre ==
    ASSUME NEW T
    PROVE  T \in Tokens <=> \E S \in SUBSET Coin : T \in [S -> {e \in Entry : e.custom}]
BY DEF Tokens

LEMMA TokensHold ==
    ASSUME NEW T \in Tokens
    PROVE  DOMAIN T \subseteq Coin /\ \A x \in DOMAIN T : T[x] \in Entry /\ T[x].custom
<1>1. PICK S \in SUBSET Coin : T \in [S -> {e \in Entry : e.custom}]
  BY TokensAre
<1> QED BY <1>1

LEMMA CoinsAre ==
    ASSUME NEW f
    PROVE  f \in OldCoins <=> \E S \in SUBSET Coin : f \in [S -> Entry]
BY DEF OldCoins

LEMMA CoinsHold ==
    ASSUME NEW f \in OldCoins
    PROVE  DOMAIN f \subseteq Coin /\ \A x \in DOMAIN f : f[x] \in Entry
<1>1. PICK S \in SUBSET Coin : f \in [S -> Entry]
  BY CoinsAre
<1> QED BY <1>1

LEMMA CoinsOwn ==
    ASSUME NEW f \in Coins
    PROVE  /\ f \in OldCoins /\ Official \subseteq DOMAIN f
           /\ \A c \in Custom \cap DOMAIN f : f[c].custom
BY DEF Coins

LEMMA TokensTyped ==
    ASSUME NEW w \in Wallet, Holds(TokensFile(w), disk[TokensFile(w)]), disk[TokensFile(w)] # Torn
    PROVE  TokensOf(w) \in Tokens
<1>1. NoCoins \in [{} -> {e \in Entry : e.custom}]
  BY DEF NoCoins
<1>2. NoCoins \in Tokens
  BY <1>1, TokensAre
<1> QED BY <1>2 DEF TokensOf, Holds, Bad

\* A file in which coins are switched on, or off.
LEMMA SwitchedEntry ==
    ASSUME NEW e \in Entry, NEW on \in BOOLEAN
    PROVE  /\ [e EXCEPT !.active = on] \in Entry
           /\ [e EXCEPT !.active = on].active = on
           /\ [e EXCEPT !.active = on].custom = e.custom
           /\ [e EXCEPT !.active = on].backup = e.backup
BY DEF Entry

LEMMA SwitchedIs ==
    ASSUME NEW held, \A x \in DOMAIN held : held[x] \in Entry, NEW S, NEW on \in BOOLEAN,
           NEW g, g = Switched(held, S, on)
    PROVE  /\ g = [x \in DOMAIN held |-> g[x]] /\ DOMAIN g = DOMAIN held
           /\ \A x \in DOMAIN held :
                 /\ g[x] \in Entry /\ g[x].custom = held[x].custom
                 /\ g[x].active = IF x \in S THEN on ELSE held[x].active
<1>1. g = [x \in DOMAIN held |-> IF x \in S THEN [held[x] EXCEPT !.active = on] ELSE held[x]]
  BY DEF Switched
<1>2. g = [x \in DOMAIN held |-> g[x]] /\ DOMAIN g = DOMAIN held
  BY <1>1
<1>3. ASSUME NEW x \in DOMAIN held
      PROVE  /\ g[x] \in Entry /\ g[x].custom = held[x].custom
             /\ g[x].active = IF x \in S THEN on ELSE held[x].active
  <2>1. g[x] = IF x \in S THEN [held[x] EXCEPT !.active = on] ELSE held[x]
    BY <1>1, <1>3
  <2>2. held[x] \in Entry
    BY <1>3
  <2>3. CASE x \in S
    <3>1. g[x] = [held[x] EXCEPT !.active = on]
      BY <2>1, <2>3
    <3> QED BY <2>2, <2>3, <3>1, SwitchedEntry
  <2>4. CASE x \notin S
    BY <2>1, <2>2, <2>4
  <2> QED BY <2>3, <2>4
<1> QED BY <1>2, <1>3

LEMMA SwitchedCoins ==
    ASSUME NEW held \in Coins, NEW S, NEW on \in BOOLEAN
    PROVE  Switched(held, S, on) \in Coins
<1>1. PICK g : g = Switched(held, S, on)
  OBVIOUS
<1>2. held \in OldCoins /\ Official \subseteq DOMAIN held
      /\ \A c \in Custom \cap DOMAIN held : held[c].custom
  BY CoinsOwn
<1>3. DOMAIN held \subseteq Coin /\ \A x \in DOMAIN held : held[x] \in Entry
  BY <1>2, CoinsHold
<1>4. /\ g = [x \in DOMAIN held |-> g[x]] /\ DOMAIN g = DOMAIN held
      /\ \A x \in DOMAIN held : g[x] \in Entry /\ g[x].custom = held[x].custom
  BY <1>1, <1>3, SwitchedIs
<1>5. g \in [DOMAIN held -> Entry]
  BY <1>4
<1>6. g \in OldCoins
  BY <1>3, <1>5, CoinsAre
<1> QED BY <1>1, <1>2, <1>4, <1>6 DEF Coins

LEMMA SwitchedTokens ==
    ASSUME NEW held \in Tokens, NEW S, NEW on \in BOOLEAN
    PROVE  Switched(held, S, on) \in Tokens
<1>1. PICK g : g = Switched(held, S, on)
  OBVIOUS
<1>2. DOMAIN held \subseteq Coin /\ \A x \in DOMAIN held : held[x] \in Entry /\ held[x].custom
  BY TokensHold
<1>3. /\ g = [x \in DOMAIN held |-> g[x]] /\ DOMAIN g = DOMAIN held
      /\ \A x \in DOMAIN held : g[x] \in Entry /\ g[x].custom = held[x].custom
  BY <1>1, <1>2, SwitchedIs
<1>4. g \in [DOMAIN held -> {e \in Entry : e.custom}]
  BY <1>2, <1>3
<1> QED BY <1>1, <1>2, <1>4, TokensAre

\* Of coin c, what update_coin_status looks for in the coins file.
ShownOf(c) == {x \in {c} \cap DOMAIN registry : ~registry[x].custom}

LEMMA StatusWrites ==
    ASSUME owner \in Wallet, NEW c, NEW on \in BOOLEAN,
           disk[CoinsFile(owner)] \in Coins, TokensOf(owner) \in Tokens,
           NEW q, q = UpdateCoinStatus(c, on)
    PROVE  /\ IsList(q) /\ Updates(q) /\ StoresCoins(q[1]) /\ Len(q) \in {1, 2}
           /\ q[1].as = Switched(disk[CoinsFile(owner)], ShownOf(c), on)
           /\ Len(q) = 1 => TokensOf(owner) = NoCoins
           /\ Len(q) = 2 => q[2].as = Switched(TokensOf(owner), {c} \ ShownOf(c), on)
<1> DEFINE coins  == disk[CoinsFile(owner)]
           tokens == TokensOf(owner)
           first  == Write(CoinsFile(owner), Switched(coins, ShownOf(c), on))
           second == Write(TokensFile(owner), Switched(tokens, {c} \ ShownOf(c), on))
<1>1. Switched(coins, ShownOf(c), on) \in Coins
  BY SwitchedCoins
<1>2. Switched(tokens, {c} \ ShownOf(c), on) \in Tokens
  BY SwitchedTokens
<1>3. q = <<first>> \o (IF tokens = NoCoins THEN <<>> ELSE <<second>>)
  BY DEF UpdateCoinStatus, ShownOf
<1>4. /\ first.do = "save" /\ first.file = CoinsFile(owner)
      /\ first.as = Switched(coins, ShownOf(c), on)
  BY DEF Write, SaveAs
<1>5. /\ second.do = "save" /\ second.file = TokensFile(owner)
      /\ second.as = Switched(tokens, {c} \ ShownOf(c), on)
  BY DEF Write, SaveAs
<1>6. StoresCoins(first) /\ StoresTokens(second)
  BY <1>1, <1>2, <1>4, <1>5 DEF StoresCoins, StoresTokens
<1> HIDE DEF first, second, coins, tokens
<1>7. CASE tokens = NoCoins
  <2>1. q = <<first>>
    BY <1>3, <1>7, BothLists, ShortLists
  <2>2. IsList(q) /\ Len(q) = 1 /\ q[1] = first
    BY <2>1, ShortLists
  <2> QED BY <1>4, <1>6, <1>7, <2>2 DEF Updates, coins, tokens
<1>8. CASE tokens # NoCoins
  <2>1. q = <<first>> \o <<second>>
    BY <1>3, <1>8
  <2>2. IsList(q) /\ Len(q) = 2 /\ q[1] = first /\ q[2] = second
    BY <2>1, BothLists, ShortLists
  <2> QED BY <1>4, <1>5, <1>6, <2>2 DEF Updates, coins, tokens
<1> QED BY <1>7, <1>8

\* What is then stored agrees with what is then known.
LEMMA StatusAgrees ==
    ASSUME NEW coins \in Coins, NEW tokens \in Tokens, NEW reg, NEW after,
           Agrees(reg, coins, tokens), NEW c \in DOMAIN reg, NEW on \in BOOLEAN,
           c \in IF reg[c].custom THEN DOMAIN tokens ELSE DOMAIN coins,
           DOMAIN after = DOMAIN reg,
           \A d \in DOMAIN reg :
              /\ after[d].custom = reg[d].custom
              /\ after[d].active = IF d = c THEN on ELSE reg[d].active,
           NEW shown, shown = {x \in {c} \cap DOMAIN reg : ~reg[x].custom},
           NEW coins2, coins2 = Switched(coins, shown, on),
           NEW tokens2, tokens2 = Switched(tokens, {c} \ shown, on)
    PROVE  Agrees(after, coins2, tokens2)
<1>1. (\A x \in DOMAIN coins : coins[x] \in Entry) /\ (\A x \in DOMAIN tokens : tokens[x] \in Entry)
  BY CoinsOwn, CoinsHold, TokensHold
<1>2. /\ DOMAIN coins2 = DOMAIN coins
      /\ \A x \in DOMAIN coins :
            /\ coins2[x].custom = coins[x].custom
            /\ coins2[x].active = IF x \in shown THEN on ELSE coins[x].active
  BY <1>1, SwitchedIs
<1>3. /\ DOMAIN tokens2 = DOMAIN tokens
      /\ \A x \in DOMAIN tokens :
            tokens2[x].active = IF x \in {c} \ shown THEN on ELSE tokens[x].active
  BY <1>1, SwitchedIs
<1>4. /\ DOMAIN reg = DOMAIN coins \cup DOMAIN tokens
      /\ \A x \in DOMAIN coins : reg[x].custom = coins[x].custom
      /\ \A x \in DOMAIN coins \ (CustomIn(coins) \cap DOMAIN tokens) :
            reg[x].active = coins[x].active
      /\ \A x \in DOMAIN tokens \ DOMAIN coins :
            reg[x].custom /\ reg[x].active = tokens[x].active
  BY DEF Agrees
<1>5. \A x \in DOMAIN coins : after[x].custom = coins2[x].custom
  BY <1>2, <1>4
<1>6. CustomIn(coins2) = CustomIn(coins)
  BY <1>2 DEF CustomIn
<1>7. ASSUME NEW x \in DOMAIN coins \ (CustomIn(coins) \cap DOMAIN tokens)
      PROVE  after[x].active = coins2[x].active
  <2>1. x = c => ~reg[x].custom
    BY <1>4, <1>7 DEF CustomIn
  <2>2. x = c => x \in shown
    BY <2>1
  <2>3. x # c => x \notin shown
    OBVIOUS
  <2> QED BY <1>2, <1>4, <1>7, <2>2, <2>3
<1>8. ASSUME NEW x \in DOMAIN tokens \ DOMAIN coins
      PROVE  after[x].custom /\ after[x].active = tokens2[x].active
  <2>1. x \notin shown
    BY <1>4, <1>8
  <2> QED BY <1>3, <1>4, <1>8, <2>1
<1>9. DOMAIN after = DOMAIN coins2 \cup DOMAIN tokens2
  BY <1>2, <1>3, <1>4
<1>10. \A x \in DOMAIN coins2 \ (CustomIn(coins2) \cap DOMAIN tokens2) :
          after[x].active = coins2[x].active
  <2> SUFFICES ASSUME NEW x \in DOMAIN coins2 \ (CustomIn(coins2) \cap DOMAIN tokens2)
               PROVE  after[x].active = coins2[x].active
    OBVIOUS
  <2>1. x \in DOMAIN coins \ (CustomIn(coins) \cap DOMAIN tokens)
    BY <1>2, <1>3, <1>6
  <2> QED BY <1>7, <2>1
<1>11. \A x \in DOMAIN tokens2 \ DOMAIN coins2 :
          after[x].custom /\ after[x].active = tokens2[x].active
  BY <1>2, <1>3, <1>8
<1>12. \A x \in DOMAIN coins2 : after[x].custom = coins2[x].custom
  BY <1>2, <1>5
<1> QED BY <1>9, <1>10, <1>11, <1>12 DEF Agrees

\* A status of no coin leaves it as it is.
LEMMA CopyAgrees ==
    ASSUME NEW coins \in Coins, NEW tokens \in Tokens, NEW reg,
           Agrees(reg, coins, tokens), NEW on \in BOOLEAN,
           NEW coins2, coins2 = Switched(coins, {}, on),
           NEW tokens2, NEW S, S \cap DOMAIN tokens = {}, tokens2 = Switched(tokens, S, on)
    PROVE  Agrees(reg, coins2, tokens2)
<1>1. (\A x \in DOMAIN coins : coins[x] \in Entry) /\ (\A x \in DOMAIN tokens : tokens[x] \in Entry)
  BY CoinsOwn, CoinsHold, TokensHold
<1>2. /\ DOMAIN coins2 = DOMAIN coins
      /\ \A x \in DOMAIN coins : /\ coins2[x].custom = coins[x].custom
                                 /\ coins2[x].active = coins[x].active
  BY <1>1, SwitchedIs
<1>3. /\ DOMAIN tokens2 = DOMAIN tokens
      /\ \A x \in DOMAIN tokens : tokens2[x].active = tokens[x].active
  <2>1. /\ DOMAIN tokens2 = DOMAIN tokens
        /\ \A x \in DOMAIN tokens : tokens2[x].active = IF x \in S THEN on ELSE tokens[x].active
    BY <1>1, SwitchedIs
  <2> QED BY <2>1
<1>4. CustomIn(coins2) = CustomIn(coins)
  BY <1>2 DEF CustomIn
<1> QED BY <1>2, <1>3, <1>4 DEF Agrees

\* The elements of a finite set in some order, each of them once.
LEMMA SetInOrder ==
    ASSUME NEW S, IsFiniteSet(S), NEW q, q = SetToSeq(S)
    PROVE  /\ IsList(q) /\ Len(q) = Cardinality(S)
           /\ \A i \in 1..Len(q) : q[i] \in S
           /\ \A x \in S : \E i \in 1..Len(q) : q[i] = x
<1> DEFINE n == Cardinality(S)
<1>1. n \in Nat
  BY FS_CardinalityType
<1>2. PICK f : f \in Bijection(1..n, S)
  BY FS_CardinalityType DEF ExistsBijection
<1>3. f \in [1..n -> S] /\ IsInjective(f)
  BY <1>2 DEF Bijection, Injection, IsInjective
<1>4. q \in [1..n -> S] /\ IsInjective(q)
  BY <1>3 DEF SetToSeq
<1>5. q \in Injection(1..n, S)
  BY <1>4 DEF Injection, IsInjective
<1>6. Cardinality(1..n) = n
  <2> HIDE DEF n
  <2> QED BY <1>1, FS_Interval
<1>7. q \in Surjection(1..n, S)
  <2> HIDE DEF n
  <2>1. n = Cardinality(S)
    BY DEF n
  <2> QED BY <1>5, <1>6, <2>1, FS_Injection
<1>8. q \in Seq(S) /\ Len(q) = n
  BY <1>1, <1>4
<1> QED BY <1>4, <1>7, <1>8, ListOf DEF Surjection

LEMMA ReAdded ==
    ASSUME NEW S, NEW q, q = ReAdd(S)
    PROVE  /\ IsList(q)
           /\ \A i \in 1..Len(q) : Adds(q[i]) /\ q[i].coin \in Missing(S)
           /\ \A c \in Missing(S) : \E i \in 1..Len(q) : q[i].do = "add" /\ q[i].coin = c
           /\ \A c : S = {c} => Len(q) = IF c \in Missing({c}) THEN 1 ELSE 0
<1> DEFINE M == Missing(S)
           E == {Edit("add", c, TRUE) : c \in M}
<1>1. M \subseteq Custom /\ M \subseteq S
  BY DEF Missing
<1>2. IsFiniteSet(M)
  BY <1>1, FS_Subset, FilesAssumption
<1>3. IsFiniteSet(E)
  <2> DEFINE f == [c \in M |-> Edit("add", c, TRUE)]
  <2>1. f \in Surjection(M, E)
    BY DEF Surjection
  <2> HIDE DEF f, M, E
  <2> QED BY <1>2, <2>1, FS_Surjection
<1>4. \A e \in E : e.do = "add" /\ e.coin \in M
  BY DEF Edit
<1>5. \A c \in M : \E e \in E : e.do = "add" /\ e.coin = c
  <2> SUFFICES ASSUME NEW c \in M
               PROVE  \E e \in E : e.do = "add" /\ e.coin = c
    OBVIOUS
  <2> DEFINE e == Edit("add", c, TRUE)
  <2>1. e \in E
    OBVIOUS
  <2>2. e.do = "add" /\ e.coin = c
    BY DEF Edit
  <2> HIDE DEF e, E
  <2> QED BY <2>1, <2>2
<1>6. \A c : S = {c} => Cardinality(E) = IF c \in M THEN 1 ELSE 0
  <2> SUFFICES ASSUME NEW c, S = {c}
               PROVE  Cardinality(E) = IF c \in M THEN 1 ELSE 0
    OBVIOUS
  <2>1. CASE c \in M
    <3>1. M = {c}
      BY <1>1, <2>1
    <3>2. E = {Edit("add", c, TRUE)}
      BY <3>1
    <3> QED BY <2>1, <3>2, FS_Singleton
  <2>2. CASE c \notin M
    <3>1. M = {}
      BY <1>1, <2>2
    <3>2. E = {}
      BY <3>1
    <3> QED BY <2>2, <3>2, FS_EmptySet
  <2> QED BY <2>1, <2>2
<1>7. q = SetToSeq(E)
  BY DEF ReAdd
<1> HIDE DEF E
<1>8. /\ IsList(q) /\ Len(q) = Cardinality(E)
      /\ \A i \in 1..Len(q) : q[i] \in E
      /\ \A x \in E : \E i \in 1..Len(q) : q[i] = x
  BY <1>3, <1>7, SetInOrder
<1>9. \A c : S = {c} => Len(q) = IF c \in Missing({c}) THEN 1 ELSE 0
  <2> SUFFICES ASSUME NEW c, S = {c}
               PROVE  Len(q) = IF c \in Missing({c}) THEN 1 ELSE 0
    OBVIOUS
  <2>1. M = Missing({c})
    OBVIOUS
  <2> HIDE DEF M
  <2> QED BY <1>6, <1>8, <2>1
<1>10. \A i \in 1..Len(q) : Adds(q[i]) /\ q[i].coin \in M
  <2> HIDE DEF M
  <2> QED BY <1>1, <1>4, <1>8 DEF Adds
<1>11. \A c \in M : \E i \in 1..Len(q) : q[i].do = "add" /\ q[i].coin = c
  <2> HIDE DEF M
  <2> QED BY <1>5, <1>8
<1> QED BY <1>8, <1>9, <1>10, <1>11

-----------------------------------------------------------------------------
(* FilesInv holds at first, and where the program ends.                     *)

LEMMA StoredInitially == FilesInit => FilesInv
<1> SUFFICES ASSUME FilesInit
             PROVE  FilesInv
  OBVIOUS
<1>1. PICK s \in Standings :
          /\ risks = s.faults /\ budget = s.left
          /\ disk = [f \in File |->
                CASE f[1] = "old" -> s.old[f[2]]
                  [] f[1] = "tokens" -> s.tokens[f[2]]
                  [] f = OldIniFile -> s.ini
                  [] f[1] \in {"seed", "object"} -> IF f[2] \in s.seeds THEN Whole ELSE Absent
                  [] OTHER -> Absent]
  BY DEF FilesInit
<1>2. \A w \in Wallet : s.old[w] \in OldCoins \cup {Absent} /\ s.tokens[w] \in Tokens \cup {Absent}
  BY FilesAssumption DEF Standing
<1>3. DOMAIN disk = File
  BY <1>1
<1>10. ASSUME NEW f \in File
       PROVE  /\ f[1] \notin {"old", "tokens", "seed", "object"} /\ f # OldIniFile => disk[f] = Absent
              /\ f[1] = "old" => disk[f] = s.old[f[2]]
              /\ f[1] = "tokens" => disk[f] = s.tokens[f[2]]
  <2>1. disk[f] = CASE f[1] = "old" -> s.old[f[2]]
                    [] f[1] = "tokens" -> s.tokens[f[2]]
                    [] f = OldIniFile -> s.ini
                    [] f[1] \in {"seed", "object"} -> IF f[2] \in s.seeds THEN Whole ELSE Absent
                    [] OTHER -> Absent
    BY <1>1, <1>10
  <2>2. OldIniFile[1] = "old cfg.ini"
    BY DEF OldIniFile
  <2> QED BY <2>1, <2>2
<1>11. RawFile[1] = "coins.json" /\ CfgFile[1] = "cfg.json"
  BY DEF RawFile, CfgFile
<1>12. \A w \in Wallet : /\ CoinsFile(w)[1] = "coins" /\ TokensFile(w)[1] = "tokens"
                         /\ OldFile(w)[1] = "old" /\ TokensFile(w)[2] = w /\ OldFile(w)[2] = w
  BY DEF CoinsFile, TokensFile, OldFile
<1>4. disk[RawFile] = Absent /\ disk[CfgFile] = Absent
  BY <1>10, <1>11, FileFacts
<1>5. \A w \in Wallet : /\ disk[CoinsFile(w)] = Absent
                        /\ disk[TokensFile(w)] \in Tokens \cup {Absent}
                        /\ disk[OldFile(w)] \in OldCoins \cup {Absent}
  <2> SUFFICES ASSUME NEW w \in Wallet
               PROVE  /\ disk[CoinsFile(w)] = Absent
                      /\ disk[TokensFile(w)] \in Tokens \cup {Absent}
                      /\ disk[OldFile(w)] \in OldCoins \cup {Absent}
    OBVIOUS
  <2>1. {CoinsFile(w), TokensFile(w), OldFile(w)} \subseteq File /\ CoinsFile(w) # OldIniFile
    BY FileFacts
  <2>2. disk[CoinsFile(w)] = Absent
    BY <1>10, <1>12, <2>1
  <2>3. disk[TokensFile(w)] = s.tokens[w] /\ disk[OldFile(w)] = s.old[w]
    BY <1>10, <1>12, <2>1
  <2> QED BY <1>2, <2>2, <2>3
<1>6. \A f \in File : Holds(f, disk[f])
  BY <1>4, <1>5 DEF Holds, Bad
<1>7. DOMAIN todo = Thread /\ \A t \in Thread : todo[t] = <<>>
  BY DEF Thread, FilesInit
<1>8. Typed
  BY <1>3, <1>6, <1>7, ShortLists DEF Typed, Place, NoCoins, FilesInit
<1>9. Lists
  BY <1>7 DEF Lists, Thread, FilesInit
<1> QED BY <1>8, <1>9 DEF FilesInv, CfgStored, RawStored, Upgraded, RegistryStored, FilesInit

LEMMA EndsKeeps == ASSUME FilesInv, Ends PROVE FilesInv'
<1> USE DEF Ends
<1>1. PICK torn : disk' = [f \in File |-> IF f \in torn THEN Torn ELSE disk[f]]
  OBVIOUS
<1>2. \A f \in File : Holds(f, disk[f])
  BY DEF FilesInv, Typed
<1>3. \A f \in File : Holds(f, disk'[f])
  BY <1>1, <1>2 DEF Holds, Bad
<1>4. DOMAIN todo' = Thread /\ \A t \in Thread : todo'[t] = <<>>
  OBVIOUS
<1>5. Typed'
  BY <1>1, <1>3, <1>4, ShortLists DEF Typed, Place, NoCoins, Holds
<1>6. Lists'
  BY <1>4 DEF Lists, Thread
<1> QED BY <1>5, <1>6 DEF FilesInv, CfgStored, RawStored, Upgraded, RegistryStored

\* Nothing changes but a file that the invariant does not mention, and the token.
LEMMA ElsewhereKeeps ==
    ASSUME FilesInv, UNCHANGED <<risks, at, config, owner, registry, rawReg, init, todo>>,
           DOMAIN disk' = File, \A f \in File : Holds(f, disk'[f]),
           disk'[RawFile] = disk[RawFile], disk'[CfgFile] = disk[CfgFile],
           \A w \in Wallet : /\ disk'[CoinsFile(w)] = disk[CoinsFile(w)]
                             /\ disk'[OldFile(w)] = disk[OldFile(w)]
                             /\ disk'[TokensFile(w)] = disk[TokensFile(w)],
           token' \in TokenData \cup {None}, request' \in Custom \cup {None}
    PROVE  FilesInv'
<1> USE DEF FilesInv
<1>1. Typed'
  BY DEF Typed, Holds
<1>2. Lists'
  BY DEF Lists, Typed, Idle, Plain, Stores, Holds, GuiList, InitList, PoolList, Updates, Thing, Adds, StoresCoins,
     StoresTokens, StoresRaw, StoresCfg, Switches, Chooses, Removals, HasEntry
<1>3. CfgStored'
  BY DEF CfgStored, StoresCfg
<1>4. RawStored'
  BY DEF RawStored, Provided, Active
<1>5. Upgraded'
  BY DEF Upgraded, LoginList, Cleared, RemovesOld, StoresCoins, Migrates, Typed
<1>6. RegistryStored'
  <2> SUFFICES ASSUME at = "in", risks \cap {"hasty", "noRemove"} = {}
               PROVE  RegistryStored'
    BY DEF RegistryStored
  <2>1. owner \in Wallet
    BY DEF Typed
  <2>2. /\ disk'[CoinsFile(owner)] = disk[CoinsFile(owner)]
        /\ disk'[OldFile(owner)] = disk[OldFile(owner)]
        /\ disk'[TokensFile(owner)] = disk[TokensFile(owner)]
    BY <2>1
  <2>3. \A q : AgreeAfter(q)' <=> AgreeAfter(q)
    BY <2>2 DEF AgreeAfter, Agree, StoresCoins, StoresTokens, TokensOf
  <2> QED BY <2>2, <2>3 DEF RegistryStored
<1> QED BY <1>1, <1>2, <1>3, <1>4, <1>5, <1>6

-----------------------------------------------------------------------------
(* What the user asks for is stored in the order the invariant lists.       *)

\* The user asks for something else to be stored.
LEMMA UserStarts ==
    ASSUME FilesInv, Waiting, UNCHANGED <<risks, disk, memory, at>>,
           token' \in TokenData \cup {None}, request' \in Custom \cup {None},
           NEW q, IsList(q), GuiList(q),
           Len(q) > 0 => (q[1].do # "save" \/ q[1].file = ObjectFile(owner)),
           Does("gui", q)
    PROVE  FilesInv'
<1> USE DEF FilesInv, memory, sessionVars
<1>1. /\ at = "in" /\ init = "done" /\ todo["init"] = <<>> /\ todo["gui"] = <<>>
      /\ todo["pool"] = <<>> \/ "hasty" \in risks
  BY DEF Waiting
<1>2. /\ DOMAIN todo = Thread /\ \A t \in Thread : IsList(todo[t])
      /\ owner \in Wallet
  BY <1>1 DEF Typed
<1>3. todo["gui"] \o q = q
  BY <1>1, BothLists, ShortLists
<1>4. /\ todo' = [todo EXCEPT !["gui"] = q]
  BY <1>3 DEF Does
<1>5. /\ todo'["gui"] = q /\ todo'["init"] = <<>> /\ todo'["pool"] = todo["pool"]
      /\ DOMAIN todo' = Thread /\ \A t \in Thread : IsList(todo'[t])
  BY <1>1, <1>2, <1>4 DEF Thread
<1>6. Typed'
  BY <1>5 DEF Typed, Holds
<1>7. GuiList(q)'
  BY <1>2 DEF GuiList, Updates, StoresCoins, StoresTokens, StoresRaw, StoresCfg, Switches, Adds, Chooses
<1>8. PoolList(todo["pool"])'
  <2>1. \A l : PoolList(l)' <=> PoolList(l)
    BY DEF PoolList, Updates, StoresCoins, StoresTokens
  <2>2. PoolList(todo["pool"])
    BY <1>1 DEF Lists
  <2> QED BY <1>5, <2>1, <2>2
<1>9. Lists'
  BY <1>1, <1>5, <1>7, <1>8, ShortLists DEF Lists, InitList
<1>10. CfgStored'
  <2>1. disk[CfgFile] = config
    BY <1>1 DEF CfgStored
  <2> QED BY <2>1 DEF CfgStored
<1>11. RawStored'
  BY <1>1, <1>5, ShortLists DEF RawStored, Provided, Active
<1>12. Upgraded'
  BY <1>1 DEF Upgraded
<1>13. RegistryStored'
  <2> SUFFICES ASSUME risks \cap {"hasty", "noRemove"} = {}
               PROVE  RegistryStored'
    BY DEF RegistryStored
  <2>1. \A l : AgreeAfter(l)' <=> AgreeAfter(l)
    BY DEF AgreeAfter, Agree, StoresCoins, StoresTokens, TokensOf
  <2>2. todo["pool"] = <<>>
    BY <1>1
  <2>3. AgreeAfter(<<>>)
    BY <1>1, <2>2 DEF RegistryStored
  <2>4. Len(q) \in Nat
    BY ListFacts
  <2>5. Len(q) > 0 => ~StoresCoins(q[1]) /\ ~StoresTokens(q[1])
    BY <1>2, FileFacts DEF StoresCoins, StoresTokens
  <2>6. AgreeAfter(q)
    BY <2>3, <2>4, <2>5, ShortLists DEF AgreeAfter
  <2> QED BY <1>1, <1>5, <2>1, <2>2, <2>6 DEF RegistryStored
<1> QED BY <1>6, <1>9, <1>10, <1>11, <1>12, <1>13

\* The user does what a restart follows.
LEMMA ModalStarts ==
    ASSUME FilesInv, Waiting, UNCHANGED <<risks, disk, memory>>, at' = "modal",
           token' \in TokenData \cup {None}, request' \in Custom \cup {None},
           NEW q, IsList(q), \A i \in 1..Len(q) : Thing(q[i]), Removals(q),
           Does("gui", q)
    PROVE  FilesInv'
<1> USE DEF FilesInv, memory, sessionVars
<1>1. at = "in" /\ init = "done" /\ todo["init"] = <<>> /\ todo["gui"] = <<>>
  BY DEF Waiting
<1>2. /\ DOMAIN todo = Thread /\ \A t \in Thread : IsList(todo[t])
      /\ owner \in Wallet
  BY <1>1 DEF Typed
<1>3. todo["gui"] \o q = q
  BY <1>1, BothLists, ShortLists
<1>4. todo' = [todo EXCEPT !["gui"] = q]
  BY <1>3 DEF Does
<1>5. /\ todo'["gui"] = q /\ todo'["init"] = <<>> /\ todo'["pool"] = todo["pool"]
      /\ DOMAIN todo' = Thread /\ \A t \in Thread : IsList(todo'[t])
  BY <1>1, <1>2, <1>4 DEF Thread
<1>6. Typed'
  BY <1>1, <1>5 DEF Typed, Holds, Place
<1>7. \A i \in 1..Len(q) : Thing(q[i])'
  BY DEF Thing, Stores, Holds, Adds
<1>8. PoolList(todo["pool"])'
  <2>1. \A l : PoolList(l)' <=> PoolList(l)
    BY DEF PoolList, Updates, StoresCoins, StoresTokens
  <2>2. PoolList(todo["pool"])
    BY <1>1 DEF Lists
  <2> QED BY <1>5, <2>1, <2>2
<1>9. Removals(todo["gui"])'
  <2>1. Removals(q)'
    BY DEF Removals, HasEntry
  <2> QED BY <1>5, <2>1
<1>10. Lists'
  BY <1>5, <1>7, <1>8, <1>9 DEF Lists
<1>11. CfgStored'
  <2>1. disk[CfgFile] = config
    BY <1>1 DEF CfgStored
  <2> QED BY <2>1 DEF CfgStored
<1> QED BY <1>6, <1>10, <1>11 DEF RawStored, Upgraded, RegistryStored

LEMMA EnableKeeps == ASSUME FilesInv, NEW c \in Coin, EnableCoin(c) PROVE FilesInv'
<1> DEFINE p == ReAdd({c})
           e == Edit("status", c, TRUE)
           q == Append(p, e)
<1>1. /\ Waiting /\ UNCHANGED <<risks, disk, memory, at, token, request>>
      /\ c \in DOMAIN registry /\ Does("gui", q)
  BY DEF EnableCoin, Ready, othersOfUser, tokenVars
<1>2. token \in TokenData \cup {None} /\ request \in Custom \cup {None}
  BY DEF FilesInv, Typed
<1>3. /\ IsList(p) /\ \A i \in 1..Len(p) : Adds(p[i]) /\ p[i].coin \in Missing({c})
      /\ Len(p) = IF c \in Missing({c}) THEN 1 ELSE 0
  BY ReAdded
<1>4. Missing({c}) \subseteq {c}
  BY DEF Missing
<1>5. e.do = "status" /\ e.coin = c /\ e.value = TRUE
  BY DEF Edit
<1> HIDE DEF p, e
<1>6. q = p \o <<e>>
  BY <1>3, Appended
<1> HIDE DEF q
<1>7. /\ IsList(q) /\ Len(q) = Len(p) + 1
      /\ \A i \in 1..Len(p) : q[i] = p[i]
      /\ q[Len(p) + 1] = e
  <2> DEFINE r == <<e>>
  <2>1. IsList(r) /\ Len(r) = 1 /\ r[1] = e
    BY ShortLists
  <2>2. q = p \o r
    BY <1>6
  <2> HIDE DEF r
  <2>3. 1 \in 1..Len(r)
    BY <2>1
  <2>4. /\ IsList(p \o r) /\ Len(p \o r) = Len(p) + Len(r)
        /\ \A i \in 1..Len(p) : (p \o r)[i] = p[i]
        /\ \A i \in 1..Len(r) : (p \o r)[Len(p) + i] = r[i]
    <3>1. IsList(p) /\ IsList(r)
      BY <1>3, <2>1
    <3> QED BY <3>1, BothLists
  <2>5. (p \o r)[Len(p) + 1] = r[1]
    BY <2>3, <2>4
  <2> QED BY <2>1, <2>2, <2>4, <2>5
<1>8. GuiList(q)
  <2>1. CASE c \in Missing({c})
    <3>1. Len(q) = 2 /\ q[1] = p[1] /\ q[2] = e /\ Adds(q[1]) /\ q[1].coin = c
      BY <1>3, <1>4, <1>7, <2>1
    <3> QED BY <1>1, <1>5, <3>1 DEF GuiList
  <2>2. CASE c \notin Missing({c})
    <3>1. Len(q) = 1 /\ q[1] = e
      BY <1>3, <1>7, <2>2
    <3>2. (c \in Custom /\ registry[c].backup) => c \in rawReg
      BY <2>2 DEF Missing
    <3>3. (c \in Custom /\ registry[c].backup) => HasEntry(disk[RawFile], c)
      BY <1>1, <3>2 DEF FilesInv, RawStored, Waiting
    <3>4. Switches(e, disk[RawFile])
      BY <1>1, <1>5, <3>3 DEF Switches
    <3> QED BY <3>1, <3>4 DEF GuiList
  <2> QED BY <2>1, <2>2
<1>9. q[1].do # "save"
  <2>1. CASE Len(p) = 0
    BY <1>5, <1>7, <2>1
  <2>2. CASE Len(p) # 0
    <3>1. Len(p) = 1
      BY <1>3, <2>2
    <3>2. q[1] = p[1] /\ Adds(p[1])
      BY <1>3, <1>7, <3>1
    <3> QED BY <3>2 DEF Adds
  <2> QED BY <2>1, <2>2
<1> QED BY <1>1, <1>2, <1>7, <1>8, <1>9, UserStarts

LEMMA DisableKeeps == ASSUME FilesInv, NEW c \in Coin, DisableCoin(c) PROVE FilesInv'
<1> DEFINE e == Edit("status", c, FALSE)
           q == <<e>>
<1>1. /\ Waiting /\ UNCHANGED <<risks, disk, memory, at, token, request>>
      /\ c \in Active /\ Does("gui", q)
  BY DEF DisableCoin, Ready, othersOfUser, tokenVars
<1>2. token \in TokenData \cup {None} /\ request \in Custom \cup {None}
  BY DEF FilesInv, Typed
<1>3. e.do = "status" /\ e.coin = c /\ e.value = FALSE
  BY DEF Edit
<1>4. c \in DOMAIN registry
  BY <1>1 DEF Active
<1> HIDE DEF e
<1>5. IsList(q) /\ Len(q) = 1 /\ q[1] = e
  BY ShortLists
<1> HIDE DEF q
<1>6. Switches(e, disk[RawFile])
  BY <1>3, <1>4 DEF Switches
<1>7. GuiList(q) /\ q[1].do # "save"
  BY <1>3, <1>5, <1>6 DEF GuiList
<1> QED BY <1>1, <1>2, <1>5, <1>7, UserStarts

LEMMA CurrencyKeeps ==
    ASSUME FilesInv, NEW c \in Fiat \cup Crypto, SetCurrency(c)
    PROVE  FilesInv'
<1> DEFINE e == Edit("currency", None, c)
           q == <<e>>
<1>1. /\ Waiting /\ UNCHANGED <<risks, disk, memory, at, token, request>> /\ Does("gui", q)
  BY DEF SetCurrency, othersOfUser, tokenVars
<1>2. token \in TokenData \cup {None} /\ request \in Custom \cup {None}
  BY DEF FilesInv, Typed
<1>3. e.do = "currency" /\ e.value = c
  BY DEF Edit
<1> HIDE DEF e
<1>4. IsList(q) /\ Len(q) = 1 /\ q[1] = e
  BY ShortLists
<1> HIDE DEF q
<1>5. GuiList(q) /\ q[1].do # "save"
  BY <1>3, <1>4 DEF GuiList, Chooses
<1> QED BY <1>1, <1>2, <1>4, <1>5, UserStarts

LEMMA FiatKeeps == ASSUME FilesInv, NEW f \in Fiat, SetFiat(f) PROVE FilesInv'
<1> DEFINE d == Edit("fiat", None, f)
           e == Edit("currency", None, f)
           p == IF f # config.currency THEN <<e>> ELSE <<>>
           q == <<d>> \o p
<1>1. /\ Waiting /\ UNCHANGED <<risks, disk, memory, at, token, request>> /\ Does("gui", q)
  BY DEF SetFiat, othersOfUser, tokenVars
<1>2. token \in TokenData \cup {None} /\ request \in Custom \cup {None}
  BY DEF FilesInv, Typed
<1>3. d.do = "fiat" /\ d.value = f /\ e.do = "currency" /\ e.value = f
  BY DEF Edit
<1> HIDE DEF d, e
<1>4. /\ IsList(q) /\ q[1] = d
      /\ Len(q) = 1 \/ (Len(q) = 2 /\ q[2] = e)
  <2>1. CASE f # config.currency
    <3>1. q = <<d>> \o <<e>>
      BY <2>1
    <3> HIDE DEF q, p
    <3> QED BY <3>1, BothLists, ShortLists
  <2>2. CASE f = config.currency
    <3>1. q = <<d>> \o <<>>
      BY <2>2
    <3> HIDE DEF q, p
    <3>2. q = <<d>>
      BY <3>1, BothLists, ShortLists
    <3> QED BY <3>2, ShortLists
  <2> QED BY <2>1, <2>2
<1> HIDE DEF q
<1>5. GuiList(q) /\ q[1].do # "save"
  BY <1>3, <1>4 DEF GuiList, Chooses
<1> QED BY <1>1, <1>2, <1>4, <1>5, UserStarts

LEMMA PasswordKeeps == ASSUME FilesInv, SetEmergencyPassword PROVE FilesInv'
<1> DEFINE e == Write(ObjectFile(owner), Whole)
           q == <<e>>
<1>1. /\ Waiting /\ UNCHANGED <<risks, disk, memory, at, token, request>> /\ Does("gui", q)
  BY DEF SetEmergencyPassword, othersOfUser, tokenVars
<1>2. token \in TokenData \cup {None} /\ request \in Custom \cup {None}
  BY DEF FilesInv, Typed
<1>3. e.do = "save" /\ e.file = ObjectFile(owner)
  BY DEF Write, SaveAs
<1> HIDE DEF e
<1>4. IsList(q) /\ Len(q) = 1 /\ q[1] = e
  BY ShortLists
<1> HIDE DEF q
<1>5. GuiList(q)
  BY <1>3, <1>4 DEF GuiList
<1> QED BY <1>1, <1>2, <1>3, <1>4, <1>5, UserStarts

LEMMA SubmitKeeps == ASSUME FilesInv, Submit PROVE FilesInv'
<1> DEFINE d == Edit("token", token.coin, token.backup)
           e == Edit("add", token.coin, TRUE)
           p == IF token.adex /\ token.coin \notin DOMAIN registry THEN <<d>> ELSE <<>>
           r == IF token.mm2 /\ token.coin \notin rawReg THEN <<e>> ELSE <<>>
           q == p \o r
<1>1. /\ Waiting /\ UNCHANGED <<risks, disk, memory, request>> /\ at' = "modal"
      /\ token # None /\ token' = None /\ Does("gui", q)
  BY DEF Submit, Ready, othersOfUser
<1>2. token \in TokenData /\ request \in Custom \cup {None}
  BY <1>1 DEF FilesInv, Typed
<1>3. token.coin \in Custom /\ token.backup \in BOOLEAN
  BY <1>2 DEF TokenData
<1>4. Thing(d) /\ Thing(e) /\ d.do # "del" /\ e.do # "del"
  BY <1>3 DEF Thing, Adds, Edit
<1> HIDE DEF d, e
<1>5. IsList(p) /\ \A i \in 1..Len(p) : Thing(p[i]) /\ p[i].do # "del"
  BY <1>4, ShortLists
<1>6. IsList(r) /\ \A i \in 1..Len(r) : Thing(r[i]) /\ r[i].do # "del"
  BY <1>4, ShortLists
<1> HIDE DEF p, r
<1>7. /\ IsList(q) /\ Len(q) = Len(p) + Len(r) /\ Len(p) \in Nat /\ Len(r) \in Nat
      /\ \A i \in 1..Len(p) : q[i] = p[i]
      /\ \A i \in 1..Len(r) : q[Len(p) + i] = r[i]
  BY <1>5, <1>6, BothLists, ListFacts
<1> HIDE DEF q
<1>8. \A i \in 1..Len(q) : Thing(q[i]) /\ q[i].do # "del"
  <2> SUFFICES ASSUME NEW i \in 1..Len(q)
               PROVE  Thing(q[i]) /\ q[i].do # "del"
    OBVIOUS
  <2>1. CASE i <= Len(p)
    BY <1>5, <1>7, <2>1
  <2>2. CASE i > Len(p)
    <3>1. i - Len(p) \in 1..Len(r) /\ i = Len(p) + (i - Len(p))
      BY <1>7, <2>2
    <3>2. q[i] = r[i - Len(p)]
      BY <1>7, <3>1
    <3> QED BY <1>6, <3>1, <3>2
  <2> QED BY <1>7, <2>1, <2>2
<1>9. Removals(q)
  BY <1>8 DEF Removals
<1> QED BY <1>1, <1>2, <1>7, <1>8, <1>9, ModalStarts

LEMMA RemovalStarts ==
    ASSUME FilesInv, NEW c \in Custom, RemoveCustomCoin(c)
    PROVE  FilesInv'
<1> DEFINE d == Edit("status", c, FALSE)
           e == Edit("untoken", c, TRUE)
           f == Edit("del", c, TRUE)
           q == <<d, e, f>>
<1>1. /\ Waiting /\ UNCHANGED <<risks, disk, memory, token, request>> /\ at' = "modal"
      /\ Does("gui", q)
  BY DEF RemoveCustomCoin, Ready, othersOfUser, tokenVars
<1>2. token \in TokenData \cup {None} /\ request \in Custom \cup {None}
  BY DEF FilesInv, Typed
<1>3. Thing(d) /\ Thing(e) /\ Thing(f)
  BY DEF Thing, Edit, Coin
<1>4. d.do = "status" /\ e.do = "untoken" /\ f.coin = c
  BY DEF Edit
<1>5. HasEntry(disk[RawFile], c)
  BY <1>1 DEF RemoveCustomCoin, FilesInv, RawStored, Waiting
<1> HIDE DEF d, e, f
<1>6. IsList(q) /\ Len(q) = 3 /\ q[1] = d /\ q[2] = e /\ q[3] = f
  BY ShortLists
<1> HIDE DEF q
<1>7. \A i \in 1..Len(q) : Thing(q[i])
  BY <1>3, <1>6
<1>8. Removals(q)
  BY <1>4, <1>5, <1>6 DEF Removals
<1> QED BY <1>1, <1>2, <1>6, <1>7, <1>8, ModalStarts

LEMMA ResetKeeps == ASSUME FilesInv, ResetCoinCfg PROVE FilesInv'
<1> DEFINE d == Edit("deactivate", None, TRUE)
           e == Delete(CoinsFile(owner))
           f == Delete(RawFile)
           q == <<d, e, f>>
<1>1. /\ Waiting /\ UNCHANGED <<risks, disk, memory, token, request>> /\ at' = "modal"
      /\ Does("gui", q)
  BY DEF ResetCoinCfg, Ready, othersOfUser, tokenVars
<1>2. token \in TokenData \cup {None} /\ request \in Custom \cup {None} /\ owner \in Wallet
  BY <1>1 DEF FilesInv, Typed, Waiting
<1>3. Thing(d) /\ d.do # "del"
  BY DEF Thing, Edit
<1>4. Absent \in Bad
  BY DEF Bad
<1>5. /\ e.do = "save" /\ e.file = CoinsFile(owner) /\ e.as = Absent
      /\ f.do = "save" /\ f.file = RawFile /\ f.as = Absent
  BY DEF Delete, SaveAs
<1> HIDE DEF d, e, f
<1>6. Thing(e) /\ Thing(f)
  BY <1>2, <1>4, <1>5, FileFacts DEF Thing, Stores, Holds
<1>7. IsList(q) /\ \A i \in 1..Len(q) : Thing(q[i]) /\ q[i].do # "del"
  BY <1>3, <1>5, <1>6, ShortLists
<1> HIDE DEF q
<1>8. Removals(q)
  BY <1>7 DEF Removals
<1> QED BY <1>1, <1>2, <1>7, <1>8, ModalStarts

-----------------------------------------------------------------------------
(* What other threads and other files do leaves it as it was.               *)

LEMMA SegwitStarts ==
    ASSUME FilesInv, NEW c \in Coin, ChangeSegwitStatus(c)
    PROVE  FilesInv'
<1> USE DEF FilesInv, memory, sessionVars, tokenVars, othersOfUser
<1> DEFINE e == Edit("segwit", c, TRUE)
           q == <<e>>
<1>1. /\ at = "in" /\ init = "done" /\ todo["init"] = <<>> /\ todo["gui"] = <<>>
      /\ todo["pool"] = <<>> /\ Does("pool", q)
      /\ UNCHANGED <<risks, disk, memory, at, token, request>>
  BY DEF ChangeSegwitStatus, Ready, Waiting
<1>2. /\ DOMAIN todo = Thread /\ \A t \in Thread : IsList(todo[t])
      /\ owner \in Wallet
  BY <1>1 DEF Typed
<1>3. IsList(q) /\ Len(q) = 1 /\ q[1] = e /\ e.do = "segwit" /\ e.value \in BOOLEAN
  BY ShortLists DEF Edit
<1> HIDE DEF e, q
<1>4. todo["pool"] \o q = q
  BY <1>1, <1>3, BothLists, ShortLists
<1>5. todo' = [todo EXCEPT !["pool"] = q]
  BY <1>1, <1>4 DEF Does
<1>6. /\ todo'["pool"] = q /\ todo'["init"] = <<>> /\ todo'["gui"] = <<>>
      /\ DOMAIN todo' = Thread /\ \A t \in Thread : IsList(todo'[t])
  BY <1>1, <1>2, <1>3, <1>5 DEF Thread
<1>7. Typed'
  BY <1>1, <1>6 DEF Typed, Holds
<1>8. Lists'
  <2>1. GuiList(<<>>)' /\ InitList(<<>>)' /\ PoolList(q)'
    BY <1>3, ShortLists DEF InitList, GuiList, PoolList
  <2> QED BY <1>1, <1>6, <2>1 DEF Lists
<1>9. CfgStored'
  <2>1. disk[CfgFile] = config
    BY <1>1 DEF CfgStored
  <2> QED BY <1>1, <2>1 DEF CfgStored
<1>10. RawStored'
  BY <1>1, <1>6, ShortLists DEF RawStored, Provided, Active
<1>11. Upgraded'
  BY <1>1 DEF Upgraded
<1>12. RegistryStored'
  <2> SUFFICES ASSUME risks \cap {"hasty", "noRemove"} = {}
               PROVE  RegistryStored'
    BY <1>1 DEF RegistryStored
  <2>1. \A l : AgreeAfter(l)' <=> AgreeAfter(l)
    BY <1>1 DEF AgreeAfter, Agree, StoresCoins, StoresTokens, TokensOf
  <2>2. AgreeAfter(<<>>)
    BY <1>1 DEF RegistryStored
  <2>3. AgreeAfter(q)
    BY <1>3, <2>2, ShortLists DEF AgreeAfter, StoresCoins, StoresTokens
  <2>4. AgreeAfter(todo["pool"])'
    BY <1>6, <2>1, <2>3
  <2> QED BY <1>1, <1>6, <2>4 DEF RegistryStored
<1> QED BY <1>7, <1>8, <1>9, <1>10, <1>11, <1>12

LEMMA TokenKeeps == ASSUME FilesInv, \/ \E c \in Custom : Preview(c)
                                     \/ TokenAnswered
                    PROVE  FilesInv'
<1> USE DEF FilesInv, Typed, memory, sessionVars
<1>1. UNCHANGED <<risks, disk, at, config, owner, registry, rawReg, init, todo>>
  BY DEF Preview, TokenAnswered, othersOfUser
<1>2. CASE \E c \in Custom : Preview(c)
  <2>1. token' \in TokenData \cup {None} /\ request' \in Custom \cup {None}
    BY <1>2 DEF Preview
  <2> QED BY <1>1, <2>1, ElsewhereKeeps
<1>3. CASE TokenAnswered
  <2>1. request \in Custom /\ request' = None
    BY <1>3 DEF TokenAnswered
  <2>2. DataOf(request) \in TokenData
    BY <2>1 DEF DataOf, TokenData
  <2>3. token' \in TokenData \cup {None}
    BY <1>3, <2>2 DEF TokenAnswered
  <2> QED BY <1>1, <2>1, <2>3, ElsewhereKeeps
<1> QED BY <1>2, <1>3

LEMMA OtherFileKeeps ==
    ASSUME FilesInv, UNCHANGED <<risks, at, memory, todo, tokenVars>>,
           NEW f \in File, NEW v, disk' = [disk EXCEPT ![f] = v],
           \/ f = IniFile
           \/ \E w \in Wallet : f = SeedFile(w)
    PROVE  FilesInv'
<1> USE DEF FilesInv, memory, sessionVars, tokenVars
<1>1. /\ f \notin {RawFile, CfgFile}
      /\ \A w \in Wallet : f \notin {CoinsFile(w), OldFile(w), TokensFile(w)}
  BY FileFacts
<1>2. DOMAIN disk = File /\ \A g \in File : Holds(g, disk[g])
  BY DEF Typed
<1>3. Holds(f, v)
  BY <1>1 DEF Holds
<1>4. DOMAIN disk' = File /\ \A g \in File : disk'[g] = IF g = f THEN v ELSE disk[g]
  BY <1>2
<1>5. \A g \in File : Holds(g, disk'[g])
  BY <1>2, <1>3, <1>4
<1>6. /\ disk'[RawFile] = disk[RawFile] /\ disk'[CfgFile] = disk[CfgFile]
      /\ \A w \in Wallet : /\ disk'[CoinsFile(w)] = disk[CoinsFile(w)]
                           /\ disk'[OldFile(w)] = disk[OldFile(w)]
                           /\ disk'[TokensFile(w)] = disk[TokensFile(w)]
  BY <1>1, <1>4, FileFacts
<1>7. token \in TokenData \cup {None} /\ request \in Custom \cup {None}
  BY DEF Typed
<1> QED BY <1>4, <1>5, <1>6, <1>7, ElsewhereKeeps

LEMMA LanguageKeeps == ASSUME FilesInv, NEW l \in Language, SetCurrentLang(l) PROVE FilesInv'
BY OtherFileKeeps, FileFacts DEF SetCurrentLang

LEMMA DeletionKeeps == ASSUME FilesInv, NEW w \in Wallet, DeleteWallet(w) PROVE FilesInv'
BY OtherFileKeeps, FileFacts DEF DeleteWallet

LEMMA RawParsed ==
    ASSUME NEW files, DOMAIN files = File, ParseRaw(files), Holds(RawFile, disk[RawFile])
    PROVE  /\ DOMAIN disk' = File /\ disk'[RawFile] \in Counts \cup {Torn}
           /\ \A f \in File \ {RawFile} : disk'[f] = files[f]
           /\ \A c \in Custom \cap rawReg' : HasEntry(disk'[RawFile], c)
<1> DEFINE zero == [c \in Custom |-> 0]
           raw == Supplied(RawFile, zero)
<1>1. zero \in Counts
  BY DEF Counts
<1>2. raw \in Counts \cup {Torn}
  BY <1>1 DEF Supplied, Holds, Bad
<1>3. disk' = [files EXCEPT ![RawFile] = raw]
      /\ rawReg' = IF raw = Torn THEN {} ELSE RawRegistry(raw)
  BY DEF ParseRaw
<1> HIDE DEF raw
<1>4. DOMAIN disk' = File /\ disk'[RawFile] = raw /\ \A f \in File \ {RawFile} : disk'[f] = files[f]
  BY <1>3, FileFacts
<1>5. \A c \in Custom \cap rawReg' : HasEntry(raw, c)
  BY <1>2, <1>3 DEF RawRegistry, HasEntry
<1> QED BY <1>2, <1>4, <1>5

LEMMA LaunchKeeps == ASSUME FilesInv, Launch PROVE FilesInv'
<1> USE DEF FilesInv, memory, sessionVars, tokenVars
<1>1. PICK fails \in BOOLEAN : todo' = [todo EXCEPT !["gui"] = CheckSettings(fails)]
  BY DEF Launch
<1>2. at = "down" /\ at' = "starting" /\ UNCHANGED <<risks, disk, memory, tokenVars>>
  BY DEF Launch
<1> PICK q : q = CheckSettings(fails)
  OBVIOUS
<1>3. IsList(q) /\ \A i \in 1..Len(q) : Plain(q[i])
  <2> DEFINE d == Write(IniFile, disk[OldIniFile])
             e == Delete(OldIniFile)
             p == IF fails THEN <<>> ELSE <<d>>
  <2>1. Plain(d) /\ Plain(e)
    BY FileFacts DEF Plain, Stores, Holds, Write, Delete, SaveAs
  <2>2. q = <<>> \/ q = p \o <<e>>
    BY DEF CheckSettings
  <2> HIDE DEF d, e
  <2>3. CASE q = <<>>
    BY <2>3, ShortLists
  <2>4. CASE q = <<>> \o <<e>>
    <3>1. q = <<e>>
      BY <2>4, BothLists, ShortLists
    <3> QED BY <2>1, <3>1, ShortLists
  <2>5. CASE q = <<d>> \o <<e>>
    <3>1. q = <<d, e>>
      BY <2>5, OneAndOne
    <3> QED BY <2>1, <3>1, ShortLists
  <2> QED BY <2>2, <2>3, <2>4, <2>5
<1>4. \A t \in Thread : todo[t] = <<>>
  BY <1>2 DEF Lists, Thread
<1>5. /\ todo'["gui"] = q /\ todo'["init"] = <<>> /\ todo'["pool"] = <<>>
      /\ DOMAIN todo' = Thread /\ \A t \in Thread : IsList(todo'[t])
  BY <1>1, <1>3, <1>4 DEF Typed, Thread
<1>6. Typed'
  BY <1>2, <1>5 DEF Typed, Holds, Place
<1>7. \A i \in 1..Len(q) : Plain(q[i])'
  BY <1>3 DEF Plain, Stores, Holds
<1>8. Lists'
  BY <1>2, <1>5, <1>7 DEF Lists
<1> QED BY <1>2, <1>6, <1>8 DEF CfgStored, RawStored, Upgraded, RegistryStored

-----------------------------------------------------------------------------
(* Launch, the menu, and what leads out of a wallet and into one.           *)

\* Nothing is left to do, and the menu is, or comes to be, shown.
LEMMA MenuShown ==
    ASSUME FilesInv, Idle, UNCHANGED todo, at' = "menu", UNCHANGED tokenVars,
           DOMAIN registry' \subseteq Coin, \A c \in DOMAIN registry' : registry'[c] \in Entry,
           init' \in {"none", "starting", "done"},
           DOMAIN disk' = File, \A f \in File : Holds(f, disk'[f]),
           config' \in Settings, disk'[CfgFile] = config',
           \A c \in Custom \cap rawReg' : HasEntry(disk'[RawFile], c)
    PROVE  FilesInv'
<1> USE DEF tokenVars
<1>1. \A t \in Thread : todo[t] = <<>>
  BY DEF Idle
<1>2. Typed'
  BY DEF FilesInv, Typed, Place, Holds
<1>3. Lists'
  BY <1>1, ShortLists DEF Lists, Thread
<1>4. CfgStored' /\ RawStored' /\ Upgraded' /\ RegistryStored'
  BY DEF CfgStored, RawStored, Upgraded, RegistryStored
<1> QED BY <1>2, <1>3, <1>4 DEF FilesInv

LEMMA StartKeeps == ASSUME FilesInv, Start PROVE FilesInv'
<1> USE DEF FilesInv
<1>1. at = "starting" /\ todo["gui"] = <<>> /\ UNCHANGED <<risks, sessionVars, todo, tokenVars>>
  BY DEF Start
<1>2. Idle
  BY <1>1 DEF Lists, Idle, Thread
<1>3. DOMAIN disk = File /\ \A f \in File : Holds(f, disk[f])
  BY DEF Typed
<1>4. Holds(RawFile, disk[RawFile]) /\ Holds(CfgFile, disk[CfgFile])
  BY <1>3, FileFacts
<1>5. LoadCfg \in Settings \cup {Torn}
  <2>1. [currency |-> Shipped, fiat |-> Shipped, sign |-> Shipped] \in Settings
    BY FilesAssumption DEF Settings
  <2> QED BY <1>4, <2>1 DEF LoadCfg, Supplied, Holds, Bad
<1>6. /\ DOMAIN registry \subseteq Coin /\ \A c \in DOMAIN registry : registry[c] \in Entry
      /\ init \in {"none", "starting", "done"}
  BY DEF Typed
<1>7. CASE LoadCfg # Torn /\ at' = "menu"
  <2> DEFINE files == [disk EXCEPT ![CfgFile] = LoadCfg, ![IniFile] = HandleSettings]
  <2>1. config' = LoadCfg /\ ParseRaw(files) /\ LoadCfg \in Settings
    BY <1>5, <1>7 DEF Start
  <2>2. /\ DOMAIN files = File /\ files[CfgFile] = LoadCfg
        /\ \A f \in File \ {CfgFile, IniFile} : files[f] = disk[f]
    BY <1>3, FileFacts
  <2> HIDE DEF files
  <2>3. /\ DOMAIN disk' = File /\ disk'[RawFile] \in Counts \cup {Torn}
        /\ \A f \in File \ {RawFile} : disk'[f] = files[f]
        /\ \A c \in Custom \cap rawReg' : HasEntry(disk'[RawFile], c)
    BY <1>4, <2>1, <2>2, RawParsed
  <2>4. disk'[CfgFile] = config'
    BY <2>1, <2>2, <2>3, FileFacts
  <2>5. \A f \in File : Holds(f, disk'[f])
    <3> SUFFICES ASSUME NEW f \in File
                 PROVE  Holds(f, disk'[f])
      OBVIOUS
    <3>1. CASE f = RawFile
      BY <2>3, <3>1, FileFacts DEF Holds, Bad
    <3>2. CASE f = CfgFile
      BY <2>1, <2>4, <3>2, FileFacts DEF Holds
    <3>3. CASE f = IniFile
      BY <3>3, FileFacts DEF Holds
    <3>4. CASE f \notin {RawFile, CfgFile, IniFile}
      BY <1>3, <2>2, <2>3, <3>4
    <3> QED BY <3>1, <3>2, <3>3, <3>4
  <2> QED BY <1>1, <1>2, <1>6, <1>7, <2>1, <2>3, <2>4, <2>5, MenuShown DEF sessionVars
<1>8. CASE LoadCfg = Torn /\ at' = "down"
  <2> DEFINE raw == Supplied(RawFile, [c \in Custom |-> 0])
  <2>1. disk' = [disk EXCEPT ![RawFile] = raw] /\ UNCHANGED config
    BY <1>7, <1>8 DEF Start
  <2>2. raw \in Counts \cup Bad
    BY <1>4 DEF Supplied, Holds, Counts
  <2> HIDE DEF raw
  <2>3. DOMAIN disk' = File /\ \A f \in File : disk'[f] = IF f = RawFile THEN raw ELSE disk[f]
    BY <1>3, <2>1
  <2>4. \A f \in File : Holds(f, disk'[f])
    BY <1>3, <2>2, <2>3, FileFacts DEF Holds
  <2>5. Typed'
    BY <1>1, <1>8, <2>1, <2>3, <2>4 DEF Typed, Place, sessionVars, tokenVars, Holds
  <2>6. Lists'
    BY <1>1, <1>2, <1>8 DEF Lists, Idle, Thread
  <2> QED BY <1>8, <2>5, <2>6 DEF CfgStored, RawStored, Upgraded, RegistryStored
<1> QED BY <1>7, <1>8 DEF Start

LEMMA DisconnectKeeps == ASSUME FilesInv, Disconnect PROVE FilesInv'
<1> USE DEF FilesInv
<1>1. at = "in" /\ Idle /\ UNCHANGED <<config, todo, tokenVars>>
      /\ at' = "menu" /\ registry' = NoCoins /\ init' = "none"
  BY DEF Disconnect
<1>2. PICK files : /\ ParseRaw(files)
                   /\ files \in {disk, [disk EXCEPT ![SeedFile(owner)] = Absent]}
  BY DEF Disconnect
<1>3. DOMAIN disk = File /\ owner \in Wallet /\ \A f \in File : Holds(f, disk[f])
  BY <1>1 DEF Typed
<1>4. DOMAIN files = File /\ \A f \in File : files[f] = disk[f] \/ f = SeedFile(owner)
  BY <1>2, <1>3
<1>5. Holds(RawFile, disk[RawFile])
  BY <1>3, FileFacts
<1>6. /\ DOMAIN disk' = File /\ disk'[RawFile] \in Counts \cup {Torn}
      /\ \A f \in File \ {RawFile} : disk'[f] = files[f]
      /\ \A c \in Custom \cap rawReg' : HasEntry(disk'[RawFile], c)
  BY <1>2, <1>4, <1>5, RawParsed
<1>7. config \in Settings /\ disk[CfgFile] = config
  <2>1. todo["gui"] = <<>>
    BY <1>1 DEF Idle, Thread
  <2>2. config \in Settings
    BY <1>1 DEF Typed
  <2> QED BY <1>1, <2>1, <2>2 DEF CfgStored
<1>8. disk'[CfgFile] = config
  BY <1>3, <1>4, <1>6, <1>7, FileFacts
<1>9. \A f \in File : Holds(f, disk'[f])
  <2> SUFFICES ASSUME NEW f \in File
               PROVE  Holds(f, disk'[f])
    OBVIOUS
  <2>1. CASE f = RawFile
    BY <1>6, <2>1, FileFacts DEF Holds, Bad
  <2>2. CASE f = SeedFile(owner)
    BY <1>3, <2>2, FileFacts DEF Holds
  <2>3. CASE f \notin {RawFile, SeedFile(owner)}
    BY <1>3, <1>4, <1>6, <2>3
  <2> QED BY <2>1, <2>2, <2>3
<1>10. DOMAIN registry' \subseteq Coin /\ \A c \in DOMAIN registry' : registry'[c] \in Entry
  BY <1>1 DEF NoCoins
<1>11. UNCHANGED tokenVars /\ UNCHANGED todo /\ config' = config
  BY <1>1
<1> QED BY <1>1, <1>6, <1>7, <1>8, <1>9, <1>10, <1>11, MenuShown

\* Files of a wallet are written while the menu is shown.
LEMMA MenuStarts ==
    ASSUME FilesInv, at = "menu", Idle, UNCHANGED <<risks, disk, at, memory, tokenVars>>,
           NEW q, IsList(q), \A i \in 1..Len(q) : Plain(q[i]),
           Does("gui", q)
    PROVE  FilesInv'
<1> USE DEF FilesInv, memory, sessionVars, tokenVars
<1>1. todo["gui"] = <<>> /\ todo["init"] = <<>> /\ todo["pool"] = <<>>
  BY DEF Idle, Thread
<1>2. DOMAIN todo = Thread /\ \A t \in Thread : IsList(todo[t])
  BY DEF Typed
<1>3. todo["gui"] \o q = q
  BY <1>1, BothLists, ShortLists
<1>4. todo' = [todo EXCEPT !["gui"] = q]
  BY <1>3 DEF Does
<1>5. /\ todo'["gui"] = q /\ todo'["init"] = <<>> /\ todo'["pool"] = <<>>
      /\ DOMAIN todo' = Thread /\ \A t \in Thread : IsList(todo'[t])
  BY <1>1, <1>2, <1>4 DEF Thread
<1>6. Typed'
  BY <1>5 DEF Typed, Holds
<1>7. \A i \in 1..Len(q) : Plain(q[i])'
  BY DEF Plain, Stores, Holds
<1>8. Lists'
  BY <1>5, <1>7 DEF Lists
<1>9. CfgStored' /\ RawStored' /\ Upgraded' /\ RegistryStored'
  BY DEF CfgStored, RawStored, Upgraded, RegistryStored
<1> QED BY <1>6, <1>8, <1>9

LEMMA AssetCoins ==
    /\ Asset \in Coins /\ DOMAIN Asset = Official
    /\ \A c \in Official : Asset[c].active = (c \in OnByDefault) /\ ~Asset[c].custom
<1>1. Asset = [c \in Official |-> [active |-> c \in OnByDefault, custom |-> FALSE, backup |-> FALSE]]
  BY DEF Asset
<1>2. \A c \in Official : Asset[c] \in Entry
  BY <1>1 DEF Entry
<1>3. Asset \in [Official -> Entry] /\ Official \in SUBSET Coin
  BY <1>1, <1>2 DEF Coin
<1>4. Asset \in OldCoins
  BY <1>3, CoinsAre
<1>5. Custom \cap DOMAIN Asset = {}
  BY <1>1, FilesAssumption
<1>6. \A c \in Official : Asset[c].active = (c \in OnByDefault) /\ ~Asset[c].custom
  BY <1>1
<1> QED BY <1>1, <1>4, <1>5, <1>6 DEF Coins

LEMMA Copied ==
    ASSUME NEW w \in Wallet, NEW q, q = CopiedCoins(w)
    PROVE  \/ q = <<>> /\ disk[CoinsFile(w)] # Absent
           \/ \E d : /\ q = <<d>> /\ disk[CoinsFile(w)] = Absent /\ Plain(d)
                     /\ d.do = "save" /\ d.file = CoinsFile(w) /\ d.as \in Coins
<1> DEFINE d == Write(CoinsFile(w), Asset)
<1>1. Asset \in Coins
  BY AssetCoins
<1>2. d.do = "save" /\ d.file = CoinsFile(w) /\ d.as \in Coins
  BY <1>1 DEF Write, SaveAs
<1>3. CopiedCoins(w) = IF disk[CoinsFile(w)] = Absent THEN <<d>> ELSE <<>>
  BY DEF CopiedCoins
<1> HIDE DEF d
<1>4. Plain(d)
  BY <1>2, FileFacts DEF Plain, Stores, Holds
<1> QED BY <1>2, <1>3, <1>4

LEMMA CreateKeeps == ASSUME FilesInv, NEW w \in Wallet, Create(w) PROVE FilesInv'
<1> DEFINE d == Write(SeedFile(w), Whole)
           e == Write(ObjectFile(w), Whole)
           r == <<d, e>>
<1>1. /\ at = "menu" /\ Idle /\ UNCHANGED <<risks, disk, at, memory, tokenVars>>
      /\ Does("gui", CopiedCoins(w) \o r)
  BY DEF Create
<1>2. PICK p : p = CopiedCoins(w)
  OBVIOUS
<1>3. Plain(d) /\ Plain(e)
  BY FileFacts DEF Plain, Stores, Holds, Write, SaveAs
<1> HIDE DEF d, e
<1>4. IsList(r) /\ Len(r) = 2 /\ \A i \in 1..2 : Plain(r[i])
  BY <1>3, ShortLists
<1>5. IsList(p) /\ Len(p) \in Nat /\ \A i \in 1..Len(p) : Plain(p[i])
  BY <1>2, Copied, ShortLists
<1>6. PICK q : q = p \o r
  OBVIOUS
<1> HIDE DEF r
<1>7. /\ IsList(q) /\ Len(q) = Len(p) + 2
      /\ \A i \in 1..Len(p) : q[i] = p[i]
      /\ \A i \in 1..2 : q[Len(p) + i] = r[i]
  <2>1. /\ IsList(p \o r) /\ Len(p \o r) = Len(p) + Len(r)
        /\ \A i \in 1..Len(p) : (p \o r)[i] = p[i]
        /\ \A i \in 1..Len(r) : (p \o r)[Len(p) + i] = r[i]
    <3>1. IsList(p) /\ IsList(r)
      BY <1>4, <1>5
    <3> QED BY <3>1, BothLists
  <2> QED BY <1>4, <1>6, <2>1
<1>8. \A i \in 1..Len(q) : Plain(q[i])
  <2> SUFFICES ASSUME NEW i \in 1..Len(q)
               PROVE  Plain(q[i])
    OBVIOUS
  <2>1. CASE i <= Len(p)
    BY <1>5, <1>7, <2>1
  <2>2. CASE i > Len(p)
    <3>1. i - Len(p) \in 1..2 /\ i = Len(p) + (i - Len(p))
      BY <1>5, <1>7, <2>2
    <3>2. q[i] = r[i - Len(p)]
      BY <1>7, <3>1
    <3> QED BY <1>4, <3>1, <3>2
  <2> QED BY <1>5, <1>7, <2>1, <2>2
<1> QED BY <1>1, <1>2, <1>6, <1>7, <1>8, MenuStarts

LEMMA LoginKeeps == ASSUME FilesInv, NEW w \in Wallet, Login(w) PROVE FilesInv'
<1> USE DEF FilesInv
<1> DEFINE e == Edit("migrate", None, w)
<1>1. /\ at = "menu" /\ Idle
      /\ UNCHANGED <<risks, disk, config, registry, rawReg, init, tokenVars>>
  BY DEF Login
<1>2. PICK p : p = CopiedCoins(w)
  OBVIOUS
<1>3. \/ p = <<>> /\ disk[CoinsFile(w)] # Absent
      \/ \E d : /\ p = <<d>> /\ disk[CoinsFile(w)] = Absent /\ Plain(d)
                /\ d.do = "save" /\ d.file = CoinsFile(w) /\ d.as \in Coins
  BY <1>2, Copied
<1>4. CASE UNCHANGED <<at, owner>> /\ Does("gui", CopiedCoins(w))
  <2>1. IsList(p) /\ \A i \in 1..Len(p) : Plain(p[i])
    BY <1>3, ShortLists
  <2> QED BY <1>1, <1>2, <1>4, <2>1, MenuStarts DEF memory, sessionVars
<1>5. CASE at' = "login" /\ owner' = w /\ Does("gui", Append(CopiedCoins(w), e))
  <2>1. IsList(p)
    BY <1>3, ShortLists
  <2>2. e.do = "migrate" /\ e.value = w
    BY DEF Edit
  <2>3. PICK a : a = e
    OBVIOUS
  <2> HIDE DEF e
  <2>4. PICK q : q = Append(p, a)
    OBVIOUS
  <2>5. q = p \o <<a>>
    BY <2>1, <2>4, Appended
  <2>6. LoginList(q)' /\ IsList(q)
    <3>1. CASE p = <<>> /\ disk[CoinsFile(w)] # Absent
      <4>1. q = <<a>>
        BY <2>5, <3>1, BothLists, ShortLists
      <4> QED BY <1>1, <1>5, <2>2, <2>3, <3>1, <4>1, ShortLists DEF LoginList, Migrates
    <3>2. ASSUME NEW d, p = <<d>>, d.do = "save", d.file = CoinsFile(w), d.as \in Coins
          PROVE  LoginList(q)' /\ IsList(q)
      <4>1. q = <<d, a>>
        BY <2>5, <3>2, OneAndOne
      <4> QED BY <1>5, <2>2, <2>3, <3>2, <4>1, ShortLists DEF LoginList, Migrates, StoresCoins
    <3> QED BY <1>3, <3>1, <3>2
  <2>7. todo["gui"] = <<>> /\ todo["init"] = <<>> /\ todo["pool"] = <<>>
    BY <1>1 DEF Idle, Thread
  <2>8. todo["gui"] \o q = q
    BY <2>6, <2>7, BothLists, ShortLists
  <2>9. todo' = [todo EXCEPT !["gui"] = q]
    BY <1>2, <1>5, <2>3, <2>4, <2>8 DEF Does
  <2>10. /\ todo'["gui"] = q /\ todo'["init"] = <<>> /\ todo'["pool"] = <<>>
         /\ DOMAIN todo' = Thread /\ \A t \in Thread : IsList(todo'[t])
    BY <2>6, <2>7, <2>9 DEF Typed, Thread
  <2>11. Typed'
    BY <1>1, <1>5, <2>10 DEF Typed, Holds, Place, tokenVars
  <2>12. Lists'
    BY <1>5, <2>10 DEF Lists
  <2>13. CfgStored' /\ RawStored' /\ RegistryStored'
    BY <1>1, <1>5 DEF CfgStored, RawStored, RegistryStored
  <2>14. Upgraded'
    BY <2>6, <2>10 DEF Upgraded
  <2> QED BY <2>11, <2>12, <2>13, <2>14
<1> QED BY <1>4, <1>5 DEF Login

-----------------------------------------------------------------------------
(* The login goes on.                                                       *)

LEMMA RetrieveKeeps == ASSUME FilesInv, Retrieve PROVE FilesInv'
<1> USE DEF FilesInv
<1>1. at = "login" /\ todo["gui"] = <<>> /\ UNCHANGED risks
  BY DEF Retrieve
<1>2. owner \in Wallet /\ \A f \in File : Holds(f, disk[f])
  BY <1>1 DEF Typed
<1>3. disk[CoinsFile(owner)] # Absent /\ (Cleared \/ disk[CoinsFile(owner)] = Torn)
  BY <1>1, ShortLists DEF Upgraded, LoginList
<1>4. CASE Ends
  BY <1>4, EndsKeeps
<1>5. CASE /\ Torn \notin {disk[CoinsFile(owner)], disk[TokensFile(owner)]}
           /\ registry' = RegistryOf(owner) /\ at' = "in" /\ init' = "starting"
           /\ UNCHANGED <<disk, config, owner, rawReg, todo, tokenVars>>
  <2> DEFINE official == disk[CoinsFile(owner)]
             custom == TokensOf(owner)
  <2>1. Holds(CoinsFile(owner), disk[CoinsFile(owner)]) /\ Holds(TokensFile(owner), disk[TokensFile(owner)])
    BY <1>2, FileFacts
  <2>2. official \in Coins
    BY <1>2, <1>3, <1>5, <2>1 DEF Holds, Bad
  <2>3. custom \in Tokens
    BY <1>2, <1>5, <2>1, TokensTyped
  <2>4. /\ DOMAIN official \subseteq Coin /\ \A c \in DOMAIN official : official[c] \in Entry
        /\ DOMAIN custom \subseteq Coin /\ \A c \in DOMAIN custom : custom[c] \in Entry /\ custom[c].custom
    BY <2>2, <2>3, CoinsOwn, CoinsHold, TokensHold
  <2>5. /\ DOMAIN registry' = DOMAIN official \cup DOMAIN custom
        /\ \A c \in DOMAIN registry' :
              registry'[c] = IF c \in DOMAIN official THEN official[c] ELSE custom[c]
    BY <1>5 DEF RegistryOf
  <2> HIDE DEF official, custom
  <2>6. \A c \in DOMAIN registry' : registry'[c] \in Entry
    BY <2>4, <2>5
  <2>7. DOMAIN registry' \subseteq Coin
    BY <2>4, <2>5
  <2>8. Typed'
    BY <1>1, <1>5, <2>6, <2>7 DEF Typed, Place, tokenVars, Holds
  <2>9. todo["gui"] = <<>> /\ todo["init"] = <<>> /\ todo["pool"] = <<>>
    BY <1>1 DEF Lists
  <2>10. Lists'
    <3>1. GuiList(<<>>)' /\ InitList(<<>>)' /\ PoolList(<<>>)'
      BY ShortLists DEF GuiList, InitList, PoolList
    <3>2. Idle'
      BY <1>5, <2>9 DEF Idle, Thread
    <3> QED BY <1>5, <2>9, <3>1, <3>2 DEF Lists
  <2>11. CfgStored'
    <3>1. disk[CfgFile] = config
      BY <1>1 DEF CfgStored
    <3> QED BY <1>5, <3>1 DEF CfgStored
  <2>12. RawStored'
    BY <1>1, <1>5 DEF RawStored
  <2>13. Upgraded'
    BY <1>5 DEF Upgraded
  <2>14. RegistryStored'
    <3> SUFFICES ASSUME risks \cap {"hasty", "noRemove"} = {}
                 PROVE  RegistryStored'
      BY <1>1 DEF RegistryStored
    <3>1. disk[OldFile(owner)] \in Bad
      BY <1>3, <1>5 DEF Cleared
    <3>2. Agrees(registry', official, custom)
      BY <2>4, <2>5 DEF Agrees
    <3>3. TokensOf(owner)' = custom
      BY <1>5 DEF TokensOf, custom
    <3>4. disk'[CoinsFile(owner')] = official
      BY <1>5 DEF official
    <3>5. AgreeAfter(<<>>)'
      <4>1. Agree(disk[CoinsFile(owner)], TokensOf(owner))'
        BY <3>2, <3>3, <3>4 DEF Agree
      <4> QED BY <4>1, ShortLists DEF AgreeAfter
    <3>6. disk'[CoinsFile(owner')] \in Coins /\ disk'[TokensFile(owner')] # Torn
      BY <1>5, <2>2 DEF official
    <3> QED BY <1>5, <2>9, <3>1, <3>5, <3>6 DEF RegistryStored
  <2> QED BY <2>8, <2>10, <2>11, <2>12, <2>13, <2>14
<1> QED BY <1>4, <1>5 DEF Retrieve

LEMMA DefaultsKeep == ASSUME FilesInv, EnableDefaultCoins PROVE FilesInv'
<1> USE DEF FilesInv
<1>1. /\ at = "in" /\ init = "starting" /\ init' = "done" /\ Does("init", ReAdd(Active))
      /\ UNCHANGED <<risks, disk, at, config, owner, registry, rawReg, tokenVars>>
  BY DEF EnableDefaultCoins
<1>2. PICK q : q = ReAdd(Active)
  OBVIOUS
<1>3. /\ IsList(q) /\ \A i \in 1..Len(q) : Adds(q[i])
      /\ \A c \in Missing(Active) : \E i \in 1..Len(q) : q[i].do = "add" /\ q[i].coin = c
  BY <1>2, ReAdded
<1>4. todo["gui"] = <<>> /\ todo["init"] = <<>> /\ todo["pool"] = <<>>
  BY <1>1 DEF Lists, Idle, Thread
<1>5. todo["init"] \o q = q
  BY <1>3, <1>4, BothLists, ShortLists
<1>6. todo' = [todo EXCEPT !["init"] = q]
  BY <1>1, <1>2, <1>5 DEF Does
<1>7. /\ todo'["init"] = q /\ todo'["gui"] = <<>> /\ todo'["pool"] = <<>>
      /\ DOMAIN todo' = Thread /\ \A t \in Thread : IsList(todo'[t])
  BY <1>3, <1>4, <1>6 DEF Typed, Thread
<1>8. Typed'
  BY <1>1, <1>7 DEF Typed, tokenVars, Holds
<1>9. Lists'
  <2>1. GuiList(<<>>)' /\ InitList(q)' /\ PoolList(<<>>)'
    BY <1>3, ShortLists DEF GuiList, InitList, PoolList, Adds
  <2> QED BY <1>1, <1>7, <2>1 DEF Lists
<1>10. CfgStored'
  <2>1. disk[CfgFile] = config
    BY <1>1, <1>4 DEF CfgStored
  <2> QED BY <1>1, <2>1 DEF CfgStored
<1>11. RawStored'
  <2>1. \A c \in Custom \cap rawReg : HasEntry(disk[RawFile], c)
    BY <1>1 DEF RawStored
  <2>2. ASSUME NEW c \in Custom \cap Active, registry[c].backup
        PROVE  HasEntry(disk[RawFile], c) \/ \E i \in 1..Len(q) : q[i].do = "add" /\ q[i].coin = c
    <3>1. CASE c \in rawReg
      BY <2>1, <3>1
    <3>2. CASE c \notin rawReg
      <4>1. c \in Missing(Active)
        BY <2>2, <3>2 DEF Missing
      <4> QED BY <1>3, <4>1
    <3> QED BY <3>1, <3>2
  <2> QED BY <1>1, <1>7, <2>1, <2>2 DEF RawStored, Provided, Active
<1>12. Upgraded'
  BY <1>1 DEF Upgraded
<1>13. RegistryStored'
  <2> SUFFICES ASSUME risks \cap {"hasty", "noRemove"} = {}
               PROVE  RegistryStored'
    BY <1>1 DEF RegistryStored
  <2>1. \A l : AgreeAfter(l)' <=> AgreeAfter(l)
    BY <1>1 DEF AgreeAfter, Agree, StoresCoins, StoresTokens, TokensOf
  <2>2. AgreeAfter(<<>>)
    BY <1>1, <1>4 DEF RegistryStored
  <2> QED BY <1>1, <1>7, <2>1, <2>2 DEF RegistryStored
<1> QED BY <1>8, <1>9, <1>10, <1>11, <1>12, <1>13

-----------------------------------------------------------------------------
(* A write of a thread stores what its file may hold.                       *)

LEMMA UpdateStores ==
    ASSUME owner \in Wallet, NEW e, StoresCoins(e) \/ StoresTokens(e)
    PROVE  Stores(e) /\ e.file \notin {RawFile, CfgFile, OldFile(owner)}
BY FileFacts DEF StoresCoins, StoresTokens, Stores, Holds

\* What is written is what the file may hold.
LEMMA SavedIsStored ==
    ASSUME FilesInv, NEW t \in Thread, todo[t] # <<>>, todo[t][1].do = "save"
    PROVE  Stores(todo[t][1])
<1> DEFINE q == todo[t]
<1> USE DEF FilesInv
<1>1. IsList(q) /\ Len(q) \in Nat /\ Len(q) > 0
  BY ListFacts DEF Typed
<1>2. 1 \in 1..Len(q)
  BY <1>1
<1>3. CASE t = "gui" /\ at \in {"starting", "menu", "modal"}
  <2>1. Plain(q[1]) \/ Thing(q[1])
    BY <1>2, <1>3 DEF Lists
  <2> QED BY <2>1 DEF Plain, Thing, Adds
<1>4. CASE t = "gui" /\ at = "login"
  <2>1. owner \in Wallet /\ LoginList(q)
    BY <1>4 DEF Typed, Upgraded
  <2>2. StoresCoins(q[1]) \/ RemovesOld(q[1])
    BY <1>1, <2>1 DEF LoginList, Migrates
  <2> QED BY <2>1, <2>2, UpdateStores, FileFacts DEF RemovesOld, Stores, Holds, Bad
<1>5. CASE t = "gui" /\ at = "in"
  <2>1. owner \in Wallet /\ GuiList(q) /\ config \in Settings
    BY <1>5 DEF Typed, Lists
  <2>2. \/ StoresCoins(q[1]) \/ StoresTokens(q[1]) \/ StoresRaw(q[1]) \/ StoresCfg(q[1])
        \/ q[1].file = ObjectFile(owner)
    BY <1>1, <2>1 DEF GuiList, Updates, Switches, Chooses, Adds
  <2> QED BY <2>1, <2>2, UpdateStores, FileFacts DEF StoresRaw, StoresCfg, Stores, Holds
<1>6. CASE t = "init" /\ at = "in"
  <2>1. StoresRaw(q[1])
    BY <1>2, <1>6 DEF Lists, InitList, Adds
  <2> QED BY <2>1, FileFacts DEF StoresRaw, Stores, Holds
<1>7. CASE t = "pool" /\ at \in {"in", "modal"}
  <2>1. owner \in Wallet /\ PoolList(q)
    BY <1>7 DEF Typed, Lists
  <2>2. StoresCoins(q[1]) \/ StoresTokens(q[1])
    BY <1>1, <2>1 DEF PoolList, Updates
  <2> QED BY <2>1, <2>2, UpdateStores
<1>8. at \in Place /\ t \in {"gui", "init", "pool"}
  BY DEF Typed, Thread
<1>9. /\ at = "down" => todo["gui"] = <<>>
      /\ at # "in" => todo["init"] = <<>>
      /\ at \notin {"in", "modal"} => todo["pool"] = <<>>
  BY DEF Lists
<1> QED BY <1>3, <1>4, <1>5, <1>6, <1>7, <1>8, <1>9 DEF Place

\* What a write does.
LEMMA SavedDoes ==
    ASSUME FilesInv, NEW t \in Thread, Saved(t), NEW q, q = todo[t]
    PROVE  /\ q # <<>> /\ q[1].do = "save" /\ Stores(q[1])
           /\ IsList(q) /\ Len(q) \in Nat \ {0}
           /\ IsList(todo'[t]) /\ Len(todo'[t]) = Len(q) - 1
           /\ \A i \in 1..(Len(q) - 1) : todo'[t][i] = q[i + 1]
           /\ \A u \in Thread \ {t} : todo'[u] = todo[u]
           /\ DOMAIN disk' = File
           /\ \A f \in File : disk'[f] = IF f = q[1].file THEN q[1].as ELSE disk[f]
           /\ UNCHANGED <<risks, at, config, owner, registry, rawReg, init>>
           /\ Typed'
<1> USE DEF FilesInv
<1>1. /\ q # <<>> /\ q[1].do = "save"
      /\ disk' = [disk EXCEPT ![q[1].file] = q[1].as]
      /\ todo' = [todo EXCEPT ![t] = Tail(q)]
      /\ UNCHANGED <<risks, at, memory, tokenVars>>
  BY DEF Saved
<1>2. Stores(q[1])
  BY <1>1, SavedIsStored
<1>3. IsList(q) /\ Len(q) \in Nat \ {0}
  BY <1>1, ListFacts DEF Typed
<1>4. /\ IsList(Tail(q)) /\ Len(Tail(q)) = Len(q) - 1
      /\ \A i \in 1..(Len(q) - 1) : Tail(q)[i] = q[i + 1]
  BY <1>1, <1>3, TailOfList
<1>5. /\ DOMAIN todo = Thread /\ DOMAIN disk = File
      /\ \A f \in File : Holds(f, disk[f])
      /\ \A u \in Thread : IsList(todo[u])
  BY DEF Typed
<1>6. todo'[t] = Tail(q) /\ DOMAIN todo' = Thread /\ \A u \in Thread \ {t} : todo'[u] = todo[u]
  BY <1>1, <1>5
<1>7. /\ DOMAIN disk' = File
      /\ \A f \in File : disk'[f] = IF f = q[1].file THEN q[1].as ELSE disk[f]
  BY <1>1, <1>5
<1>8. \A f \in File : Holds(f, disk'[f])
  BY <1>2, <1>5, <1>7 DEF Stores
<1>9. \A u \in Thread : IsList(todo'[u])
  BY <1>4, <1>5, <1>6
<1>10. Typed'
  BY <1>1, <1>6, <1>7, <1>8, <1>9 DEF Typed, memory, sessionVars, tokenVars, Holds
<1> QED BY <1>1, <1>2, <1>3, <1>4, <1>6, <1>7, <1>10 DEF memory, sessionVars

-----------------------------------------------------------------------------
(* A write while the menu is shown, at login, and while the user is told.   *)

LEMMA NotBad ==
    /\ \A v \in Coins : v \notin Bad
    /\ \A v \in OldCoins : v \notin Bad
    /\ \A v \in Tokens : v \notin Bad
    /\ Absent \in Bad /\ Torn \in Bad
BY FilesAssumption, CoinsOwn DEF Bad

\* A write of update_coin_status leaves what comes of them all as it was.
LEMMA AgreesStill ==
    ASSUME owner \in Wallet, UNCHANGED <<owner, registry>>,
           NEW q, NEW r, Len(r) \in Nat, Updates(q), AgreeAfter(q),
           Len(r) = Len(q) - 1, \A i \in 1..(Len(q) - 1) : r[i] = q[i + 1],
           \A f \in File : disk'[f] = IF f = q[1].file THEN q[1].as ELSE disk[f]
    PROVE  AgreeAfter(r)' /\ (Len(r) = 0 \/ Updates(r)')
<1> DEFINE C == CoinsFile(owner)
           T == TokensFile(owner)
<1>1. C \in File /\ T \in File /\ C # T
  BY FileFacts
<1>2. CASE Len(q) = 1 /\ StoresCoins(q[1])
  <2>1. /\ disk'[C] = q[1].as /\ disk'[T] = disk[T]
    BY <1>1, <1>2 DEF StoresCoins
  <2>2. TokensOf(owner)' = TokensOf(owner)
    BY <2>1 DEF TokensOf
  <2>3. ~StoresTokens(q[1])
    BY <1>1, <1>2 DEF StoresCoins, StoresTokens
  <2>4. Agree(q[1].as, TokensOf(owner))
    BY <1>2, <2>3 DEF AgreeAfter
  <2>5. Agree(disk[CoinsFile(owner)], TokensOf(owner))'
    BY <2>1, <2>2, <2>4 DEF Agree
  <2>6. Len(r) = 0
    BY <1>2
  <2>7. ~(Len(r) > 0) /\ Len(r) # 1 /\ Len(r) # 2
    <3>1. PICK n \in Nat : n = Len(r)
      OBVIOUS
    <3>2. n = 0
      BY <2>6, <3>1
    <3>3. ~(n > 0) /\ n # 1 /\ n # 2
      BY <3>2
    <3> QED BY <3>1, <3>3, Zenon
  <2>8. Agree(disk[CoinsFile(owner)], TokensOf(owner))'
    BY <2>5
  <2> QED BY <2>6, <2>7, <2>8 DEF AgreeAfter
<1>3. CASE Len(q) = 1 /\ StoresTokens(q[1])
  <2>1. /\ disk'[T] = q[1].as /\ disk'[C] = disk[C]
    BY <1>1, <1>3 DEF StoresTokens
  <2>2. TokensOf(owner)' = q[1].as
    <3>1. q[1].as # Absent
      BY <1>3, NotBad DEF StoresTokens
    <3> QED BY <2>1, <3>1 DEF TokensOf
  <2>3. ~StoresCoins(q[1])
    BY <1>1, <1>3 DEF StoresCoins, StoresTokens
  <2>4. Agree(disk[C], q[1].as)
    BY <1>3, <2>3 DEF AgreeAfter
  <2>5. Agree(disk[CoinsFile(owner)], TokensOf(owner))'
    BY <2>1, <2>2, <2>4 DEF Agree
  <2>6. Len(r) = 0
    BY <1>3
  <2>7. ~(Len(r) > 0) /\ Len(r) # 1 /\ Len(r) # 2
    <3>1. PICK n \in Nat : n = Len(r)
      OBVIOUS
    <3>2. n = 0
      BY <2>6, <3>1
    <3>3. ~(n > 0) /\ n # 1 /\ n # 2
      BY <3>2
    <3> QED BY <3>1, <3>3, Zenon
  <2>8. Agree(disk[CoinsFile(owner)], TokensOf(owner))'
    BY <2>5
  <2> QED BY <2>6, <2>7, <2>8 DEF AgreeAfter
<1>4. CASE Len(q) = 2 /\ StoresCoins(q[1]) /\ StoresTokens(q[2])
  <2>1. disk'[C] = q[1].as
    BY <1>1, <1>4 DEF StoresCoins
  <2>2. Agree(q[1].as, q[2].as)
    BY <1>4 DEF AgreeAfter
  <2>3. Len(r) = 1 /\ r[1] = q[2]
    BY <1>4
  <2>4. StoresTokens(r[1])' /\ ~StoresCoins(r[1])'
    BY <1>1, <1>4, <2>3 DEF StoresTokens, StoresCoins
  <2>5. disk'[CoinsFile(owner')] = q[1].as
    BY <2>1
  <2>6. Agrees(registry', disk'[CoinsFile(owner')], r[1].as)
    BY <2>2, <2>3, <2>5 DEF Agree
  <2>7. AgreeAfter(r)'
    BY <2>3, <2>4, <2>6 DEF AgreeAfter, Agree
  <2> QED BY <2>3, <2>4, <2>7 DEF Updates
<1> QED BY <1>2, <1>3, <1>4 DEF Updates

LEMMA MenuSaved ==
    ASSUME FilesInv, NEW t \in Thread, Saved(t), at \in {"starting", "menu"}
    PROVE  FilesInv'
<1> USE DEF FilesInv
<1> DEFINE q == todo["gui"]
<1>1. t = "gui"
  BY DEF Lists, Saved, Thread
<1>2. PICK p : p = q
  OBVIOUS
<1>3. /\ Stores(p[1]) /\ Len(p) \in Nat \ {0}
      /\ Len(todo'["gui"]) = Len(p) - 1
      /\ \A i \in 1..(Len(p) - 1) : todo'["gui"][i] = p[i + 1]
      /\ \A u \in Thread \ {"gui"} : todo'[u] = todo[u]
      /\ DOMAIN disk' = File
      /\ \A f \in File : disk'[f] = IF f = p[1].file THEN p[1].as ELSE disk[f]
      /\ UNCHANGED <<risks, at, config, owner, registry, rawReg, init>>
      /\ Typed'
  BY <1>1, <1>2, SavedDoes
<1>4. \A i \in 1..Len(p) : Plain(p[i])
  BY <1>2 DEF Lists
<1>5. p[1].file \notin {RawFile, CfgFile}
  BY <1>3, <1>4 DEF Plain
<1>6. disk'[RawFile] = disk[RawFile] /\ disk'[CfgFile] = disk[CfgFile]
  BY <1>3, <1>5, FileFacts
<1>7. todo'["init"] = <<>> /\ todo'["pool"] = <<>>
  BY <1>3 DEF Lists, Thread
<1>8. \A i \in 1..Len(todo'["gui"]) : Plain(todo["gui"][i])'
  <2>1. \A e : Plain(e)' <=> Plain(e)
    BY DEF Plain, Stores, Holds
  <2>2. \A i \in 1..Len(todo'["gui"]) : Plain(todo'["gui"][i])
    BY <1>3, <1>4
  <2> QED BY <2>1, <2>2
<1>9. Lists'
  BY <1>3, <1>7, <1>8 DEF Lists
<1> QED BY <1>3, <1>6, <1>9 DEF CfgStored, RawStored, Upgraded, RegistryStored

LEMMA ModalSaved ==
    ASSUME FilesInv, Saved("gui"), at = "modal"
    PROVE  FilesInv'
<1> USE DEF FilesInv
<1>1. PICK p : p = todo["gui"]
  OBVIOUS
<1>2. /\ Stores(p[1]) /\ Len(p) \in Nat \ {0} /\ p[1].do = "save"
      /\ Len(todo'["gui"]) = Len(p) - 1
      /\ \A i \in 1..(Len(p) - 1) : todo'["gui"][i] = p[i + 1]
      /\ \A u \in Thread \ {"gui"} : todo'[u] = todo[u]
      /\ DOMAIN disk' = File
      /\ \A f \in File : disk'[f] = IF f = p[1].file THEN p[1].as ELSE disk[f]
      /\ UNCHANGED <<risks, at, config, owner, registry, rawReg, init>>
      /\ Typed'
  BY <1>1, SavedDoes DEF Thread
<1>3. \A i \in 1..Len(p) : Thing(p[i])
  BY <1>1 DEF Lists
<1>4. p[1].file # CfgFile
  BY <1>2, <1>3 DEF Thing, Adds
<1>5. disk'[CfgFile] = disk[CfgFile]
  BY <1>2, <1>4, FileFacts
<1>6. todo'["init"] = <<>> /\ todo'["pool"] = todo["pool"]
  BY <1>2 DEF Lists, Thread
<1>7. \A i \in 1..Len(todo'["gui"]) : Thing(todo["gui"][i])'
  <2>1. \A e : Thing(e)' <=> Thing(e)
    BY DEF Thing, Stores, Holds, Adds
  <2>2. \A i \in 1..Len(todo'["gui"]) : Thing(todo'["gui"][i])
    <3> SUFFICES ASSUME NEW i \in 1..Len(todo'["gui"])
                 PROVE  Thing(todo'["gui"][i])
      OBVIOUS
    <3>1. i + 1 \in 1..Len(p) /\ todo'["gui"][i] = p[i + 1]
      BY <1>2
    <3>2. Thing(p[i + 1])
      BY <1>3, <3>1
    <3> QED BY <3>1, <3>2, Zenon
  <2> QED BY <2>1, <2>2
<1>8. PoolList(todo["pool"])'
  <2>1. \A l : PoolList(l)' <=> PoolList(l)
    BY <1>2 DEF PoolList, Updates, StoresCoins, StoresTokens
  <2>2. PoolList(todo["pool"])
    BY DEF Lists
  <2> QED BY <1>6, <2>1, <2>2
<1>9. Removals(todo["gui"])'
  <2>1. Removals(p)
    BY <1>1 DEF Lists
  <2> SUFFICES ASSUME NEW i \in 1..Len(todo'["gui"]), todo'["gui"][i].do = "del"
               PROVE  /\ HasEntry(disk'[RawFile], todo'["gui"][i].coin)
                      /\ \A j \in 1..(i - 1) :
                            /\ todo'["gui"][j].do \notin {"add", "del"}
                            /\ todo'["gui"][j].do = "save" => todo'["gui"][j].file # RawFile
    BY DEF Removals, HasEntry
  <2>2. /\ i + 1 \in 1..Len(p) /\ p[i + 1].do = "del" /\ todo'["gui"][i] = p[i + 1]
        /\ 1 \in 1..i /\ Len(p) \in Nat
    BY <1>2
  <2>3. /\ HasEntry(disk[RawFile], p[i + 1].coin)
        /\ \A j \in 1..i : /\ p[j].do \notin {"add", "del"}
                           /\ p[j].do = "save" => p[j].file # RawFile
    BY <2>1, <2>2 DEF Removals
  <2>4. disk'[RawFile] = disk[RawFile]
    BY <1>2, <2>2, <2>3, FileFacts
  <2>5. \A j \in 1..(i - 1) : j + 1 \in 1..i /\ todo'["gui"][j] = p[j + 1]
    BY <1>2
  <2> QED BY <2>2, <2>3, <2>4, <2>5
<1>10. Lists'
  BY <1>2, <1>6, <1>7, <1>8, <1>9 DEF Lists
<1>11. CfgStored'
  BY <1>2, <1>5 DEF CfgStored
<1> QED BY <1>2, <1>10, <1>11 DEF RawStored, Upgraded, RegistryStored

LEMMA LoginSaved ==
    ASSUME FilesInv, NEW t \in Thread, Saved(t), at = "login"
    PROVE  FilesInv'
<1> USE DEF FilesInv
<1>1. t = "gui"
  BY DEF Lists, Saved, Thread
<1>2. PICK p : p = todo["gui"]
  OBVIOUS
<1>3. PICK r : r = todo'["gui"]
  OBVIOUS
<1>4. /\ Stores(p[1]) /\ Len(p) \in Nat \ {0} /\ p[1].do = "save"
      /\ Len(r) = Len(p) - 1
      /\ \A i \in 1..(Len(p) - 1) : r[i] = p[i + 1]
      /\ \A u \in Thread \ {"gui"} : todo'[u] = todo[u]
      /\ DOMAIN disk' = File
      /\ \A f \in File : disk'[f] = IF f = p[1].file THEN p[1].as ELSE disk[f]
      /\ UNCHANGED <<risks, at, config, owner, registry, rawReg, init>>
      /\ Typed'
  BY <1>1, <1>2, <1>3, SavedDoes
<1>5. owner \in Wallet /\ LoginList(p)
  BY <1>2 DEF Typed, Upgraded
<1> DEFINE C == CoinsFile(owner)
           O == OldFile(owner)
<1>6. C \in File /\ O \in File /\ C # O /\ {RawFile, CfgFile} \subseteq File
      /\ C \notin {RawFile, CfgFile} /\ O \notin {RawFile, CfgFile}
  <2>1. PICK w \in Wallet : w = owner
    BY <1>5
  <2> QED BY <2>1, FileFacts
<1>7. StoresCoins(p[1]) \/ RemovesOld(p[1])
  BY <1>4, <1>5 DEF LoginList, Migrates
<1>8. disk'[RawFile] = disk[RawFile] /\ disk'[CfgFile] = disk[CfgFile]
  BY <1>4, <1>6, <1>7 DEF StoresCoins, RemovesOld
<1>9. StoresCoins(p[1]) => disk'[C] # Absent /\ disk'[O] = disk[O]
  BY <1>4, <1>6, NotBad DEF StoresCoins
<1>10. RemovesOld(p[1]) => disk'[O] = Absent /\ disk'[C] = disk[C]
  BY <1>4, <1>6 DEF RemovesOld
<1>11. \A e : /\ StoresCoins(e)' <=> StoresCoins(e)
              /\ RemovesOld(e)' <=> RemovesOld(e)
              /\ Migrates(e)' <=> Migrates(e)
  BY <1>4 DEF StoresCoins, RemovesOld, Migrates
<1>12. /\ StoresCoins(p[1]) /\ Cleared => Cleared'
       /\ RemovesOld(p[1]) => Cleared'
  BY <1>4, <1>9, <1>10, NotBad DEF Cleared
<1>13. /\ ~(StoresCoins(p[1]) /\ RemovesOld(p[1])) /\ ~Migrates(p[1])
  BY <1>4, <1>6 DEF StoresCoins, RemovesOld, Migrates
<1>14. LoginList(r)'
  <2>1. CASE Len(p) = 1
    <3>1. Len(r) = 0 /\ StoresCoins(p[1]) /\ Cleared
      BY <1>4, <1>5, <1>13, <2>1 DEF LoginList
    <3> QED BY <1>4, <1>9, <1>12, <3>1 DEF LoginList
  <2>2. CASE Len(p) = 2
    <3>1. Len(r) = 1 /\ r[1] = p[2]
      BY <1>4, <2>2
    <3>2. \/ StoresCoins(p[1]) /\ Migrates(p[2])
          \/ RemovesOld(p[1]) /\ StoresCoins(p[2]) /\ disk[C] # Absent
      BY <1>5, <2>2 DEF LoginList
    <3>3. disk'[C] # Absent
      BY <1>9, <1>10, <3>2
    <3>4. Migrates(r[1])' \/ (StoresCoins(r[1])' /\ Cleared')
      BY <1>11, <1>12, <3>1, <3>2
    <3> QED BY <1>4, <3>1, <3>3, <3>4 DEF LoginList
  <2>3. CASE Len(p) = 3
    <3>1. Len(r) = 2 /\ r[1] = p[2] /\ r[2] = p[3]
      BY <1>4, <2>3
    <3>2. StoresCoins(p[1]) /\ RemovesOld(p[2]) /\ StoresCoins(p[3])
      BY <1>5, <2>3 DEF LoginList
    <3>3. disk'[C] # Absent /\ RemovesOld(r[1])' /\ StoresCoins(r[2])'
      BY <1>9, <1>11, <3>1, <3>2
    <3> QED BY <1>4, <3>1, <3>3 DEF LoginList
  <2> QED BY <1>4, <1>5, <2>1, <2>2, <2>3 DEF LoginList
<1>15. Lists'
  BY <1>4 DEF Lists, Thread
<1>16. Upgraded'
  <2>1. LoginList(todo["gui"])'
    BY <1>3, <1>14
  <2> QED BY <2>1 DEF Upgraded
<1> QED BY <1>4, <1>8, <1>15, <1>16 DEF CfgStored, RawStored, RegistryStored

-----------------------------------------------------------------------------
(* A write while the user is in a wallet.                                   *)

\* What the invariant says of a list, where what it refers to has not changed.
LEMMA SameLists ==
    ASSUME UNCHANGED <<owner, registry, config>>
    PROVE  /\ \A e : /\ StoresCoins(e)' <=> StoresCoins(e)
                     /\ StoresTokens(e)' <=> StoresTokens(e)
                     /\ StoresCfg(e)' <=> StoresCfg(e)
                     /\ Adds(e)' <=> Adds(e)
                     /\ Chooses(e)' <=> Chooses(e)
                     /\ Thing(e)' <=> Thing(e)
           /\ \A q : /\ Updates(q)' <=> Updates(q)
                     /\ PoolList(q)' <=> PoolList(q)
           /\ disk'[RawFile] = disk[RawFile] =>
                 \A q : /\ GuiList(q)' <=> GuiList(q)
                        /\ InitList(q)' <=> InitList(q)
                        /\ Removals(q)' <=> Removals(q)
<1>1. \A e : /\ StoresCoins(e)' <=> StoresCoins(e)
             /\ StoresTokens(e)' <=> StoresTokens(e)
             /\ StoresCfg(e)' <=> StoresCfg(e)
             /\ Adds(e)' <=> Adds(e)
             /\ Chooses(e)' <=> Chooses(e)
  BY DEF StoresCoins, StoresTokens, StoresCfg, Adds, Chooses
<1>2. \A e : Thing(e)' <=> Thing(e)
  BY DEF Thing, Stores, Holds, Adds
<1>3. \A q : Updates(q)' <=> Updates(q)
  BY <1>1 DEF Updates
<1>4. \A q : PoolList(q)' <=> PoolList(q)
  BY <1>3 DEF PoolList
<1>5. ASSUME disk'[RawFile] = disk[RawFile]
      PROVE  \A q : /\ GuiList(q)' <=> GuiList(q)
                    /\ InitList(q)' <=> InitList(q)
                    /\ Removals(q)' <=> Removals(q)
  <2>1. \A e : StoresRaw(e)' <=> StoresRaw(e)
    BY <1>5 DEF StoresRaw, HasEntry
  <2>2. \A e, raw : Switches(e, raw)' <=> Switches(e, raw)
    BY DEF Switches, HasEntry
  <2>3. \A q : InitList(q)' <=> InitList(q)
    BY <2>1, <1>1 DEF InitList
  <2>4. \A q : GuiList(q)' <=> GuiList(q)
    <3> SUFFICES ASSUME NEW q
                 PROVE  GuiList(q)' <=> GuiList(q)
      OBVIOUS
    <3>1. PICK raw : raw = disk[RawFile]
      OBVIOUS
    <3>2. \A e : Switches(e, disk[RawFile])' <=> Switches(e, raw)
      BY <1>5, <3>1 DEF Switches, HasEntry
    <3>3. \A e : Switches(e, disk[RawFile]) <=> Switches(e, raw)
      BY <3>1
    <3>4. Switches(q[2], q[1].as)' <=> Switches(q[2], q[1].as)
      BY <2>2
    <3> QED BY <1>1, <1>3, <2>1, <3>2, <3>3, <3>4 DEF GuiList
  <2>5. \A q : Removals(q)' <=> Removals(q)
    BY <1>5 DEF Removals, HasEntry
  <2> QED BY <2>3, <2>4, <2>5
<1> QED BY <1>1, <1>2, <1>3, <1>4, <1>5

\* Agreement, where the two files have not changed.
LEMMA SameAgreement ==
    ASSUME UNCHANGED <<owner, registry>>,
           disk'[CoinsFile(owner)] = disk[CoinsFile(owner)],
           disk'[TokensFile(owner)] = disk[TokensFile(owner)]
    PROVE  \A q : AgreeAfter(q)' <=> AgreeAfter(q)
BY DEF AgreeAfter, Agree, StoresCoins, StoresTokens, TokensOf

\* A list of the GUI thread whose first step is a write.
LEMMA GuiWrites ==
    ASSUME NEW q, GuiList(q), q[1].do = "save", Len(q) \in Nat \ {0}
    PROVE  \/ Updates(q)
           \/ Len(q) = 1 /\ (StoresCfg(q[1]) \/ q[1].file = ObjectFile(owner))
           \/ Len(q) = 2 /\ StoresRaw(q[1]) /\ Switches(q[2], q[1].as)
           \/ Len(q) = 2 /\ StoresCfg(q[1]) /\ Chooses(q[2])
BY DEF GuiList, Switches, Chooses, Adds

LEMMA RawGrows ==
    ASSUME NEW e, StoresRaw(e), \A f \in File : disk'[f] = IF f = e.file THEN e.as ELSE disk[f]
    PROVE  /\ disk'[RawFile] = e.as
           /\ \A c \in Custom : HasEntry(disk[RawFile], c) => HasEntry(disk'[RawFile], c)
BY FileFacts DEF StoresRaw, HasEntry

LEMMA InSaved ==
    ASSUME FilesInv, Saved("gui"), at = "in"
    PROVE  FilesInv'
<1> USE DEF FilesInv
<1>1. PICK q : q = todo["gui"]
  OBVIOUS
<1>2. PICK r : r = todo'["gui"]
  OBVIOUS
<1>3. /\ q # <<>> /\ q[1].do = "save" /\ Stores(q[1])
      /\ Len(q) \in Nat \ {0}
      /\ IsList(r) /\ Len(r) = Len(q) - 1
      /\ \A i \in 1..(Len(q) - 1) : r[i] = q[i + 1]
      /\ \A u \in Thread \ {"gui"} : todo'[u] = todo[u]
      /\ DOMAIN disk' = File
      /\ \A f \in File : disk'[f] = IF f = q[1].file THEN q[1].as ELSE disk[f]
      /\ UNCHANGED <<risks, at, config, owner, registry, rawReg, init>>
      /\ Typed'
  BY <1>1, <1>2, SavedDoes DEF Thread
<1>4. /\ GuiList(q) /\ PoolList(todo["pool"]) /\ owner \in Wallet /\ init # "starting"
  BY <1>1, <1>3 DEF Lists, Idle, Thread, Typed
<1>5. todo["init"] = <<>> /\ todo'["init"] = <<>> /\ todo'["pool"] = todo["pool"]
  BY <1>1, <1>3 DEF Lists, Thread
<1> DEFINE C == CoinsFile(owner)
           T == TokensFile(owner)
           O == OldFile(owner)
<1>6. /\ {C, T, O, RawFile, CfgFile} \subseteq File
      /\ C \notin {T, O, RawFile, CfgFile} /\ T \notin {O, RawFile, CfgFile}
      /\ O \notin {RawFile, CfgFile} /\ RawFile # CfgFile
      /\ ObjectFile(owner) \notin {C, T, O, RawFile, CfgFile}
  BY <1>4, FileFacts
<1>7. CfgStored
  OBVIOUS
<1> DEFINE Goes ==
              /\ GuiList(r)'
              /\ disk'[CfgFile] = config /\ disk'[O] = disk[O]
              /\ \A c \in Custom : HasEntry(disk[RawFile], c) => HasEntry(disk'[RawFile], c)
              /\ disk'[C] \in Coins \/ disk'[C] = disk[C]
              /\ disk'[T] # Torn \/ disk'[T] = disk[T]
              /\ AgreeAfter(q) => AgreeAfter(r)'
<1>8. ASSUME Updates(q)
      PROVE  Goes
  <2>1. StoresCoins(q[1]) \/ StoresTokens(q[1])
    BY <1>8 DEF Updates
  <2>2. UNCHANGED <<disk[RawFile], disk[CfgFile], disk[O]>>
    BY <1>3, <1>6, <2>1 DEF StoresCoins, StoresTokens
  <2>3. ~StoresCfg(q[1])
    BY <1>6, <2>1 DEF StoresCoins, StoresTokens, StoresCfg
  <2>4. \/ disk'[C] \in Coins /\ disk'[T] = disk[T]
        \/ disk'[C] = disk[C] /\ disk'[T] # Torn
    BY <1>3, <1>6, <2>1, NotBad DEF StoresCoins, StoresTokens
  <2>5. AgreeAfter(q) => AgreeAfter(r)'
    BY <1>3, <1>4, <1>8, AgreesStill
  <2>6. Len(r) = 0 \/ Updates(r)'
    <3>1. Updates(r)' <=> Updates(r)
      BY <1>3, SameLists
    <3>2. CASE Len(q) = 1
      BY <1>3, <3>2
    <3>3. CASE Len(q) = 2 /\ StoresTokens(q[2])
      <4>1. Len(r) = 1 /\ r[1] = q[2]
        BY <1>3, <3>3
      <4> QED BY <3>1, <3>3, <4>1 DEF Updates
    <3> QED BY <1>8, <3>2, <3>3 DEF Updates
  <2>7. GuiList(r)'
    BY <2>6 DEF GuiList
  <2>8. disk'[CfgFile] = config
    BY <1>1, <1>3, <1>7, <2>2, <2>3 DEF CfgStored
  <2> QED BY <1>3, <2>2, <2>4, <2>5, <2>7, <2>8
<1>9. ASSUME q[1].file \notin {C, T}, ~Updates(q), Len(q) = 2 => ~StoresCoins(q[2]),
             Len(r) = 1 => ~StoresCoins(r[1]) /\ ~StoresTokens(r[1]), Len(r) < 2
      PROVE  AgreeAfter(q) => AgreeAfter(r)'
  <2>1. UNCHANGED <<disk[C], disk[T]>>
    BY <1>3, <1>6, <1>9
  <2>2. AgreeAfter(r)' <=> AgreeAfter(r)
    BY <1>3, <2>1, SameAgreement
  <2>3. ~StoresCoins(q[1]) /\ ~StoresTokens(q[1])
    BY <1>9 DEF StoresCoins, StoresTokens
  <2>4. AgreeAfter(q) <=> Agree(disk[C], TokensOf(owner))
    BY <2>3 DEF AgreeAfter
  <2>5. PICK n \in Nat : n = Len(r)
    BY <1>3
  <2>6. n = 0 \/ n = 1
    BY <1>9, <2>5
  <2>7. (n > 0 => n = 1) /\ n # 2
    BY <2>6
  <2>8. AgreeAfter(r) <=> Agree(disk[C], TokensOf(owner))
    BY <1>9, <2>5, <2>7, Zenon DEF AgreeAfter
  <2> QED BY <2>2, <2>4, <2>8
<1>10. ASSUME StoresCfg(q[1]) /\ (Len(q) = 1 \/ (Len(q) = 2 /\ Chooses(q[2])))
      PROVE  Goes
  <2>1. q[1].file = CfgFile /\ disk'[CfgFile] = config
    BY <1>3, <1>6, <1>10 DEF StoresCfg
  <2>2. UNCHANGED <<disk[C], disk[T], disk[O], disk[RawFile]>>
    BY <1>3, <1>6, <2>1
  <2>3. Len(r) = 0 \/ (Len(r) = 1 /\ r[1] = q[2] /\ Chooses(r[1]))
    BY <1>3, <1>10
  <2>4. GuiList(r)
    BY <2>3 DEF GuiList
  <2>5. GuiList(r)'
    BY <1>3, <2>2, <2>4, SameLists
  <2>6. Len(r) = 1 => ~StoresCoins(r[1]) /\ ~StoresTokens(r[1])
    BY <2>3 DEF Chooses, StoresCoins, StoresTokens
  <2>7. /\ q[1].file \notin {C, T} /\ ~Updates(q) /\ Len(r) < 2
        /\ Len(q) = 2 => ~StoresCoins(q[2])
    BY <1>6, <1>10, <2>1, <2>3 DEF Updates, StoresCoins, StoresTokens, Chooses
  <2>8. AgreeAfter(q) => AgreeAfter(r)'
    BY <1>9, <2>6, <2>7
  <2> QED BY <1>3, <2>1, <2>2, <2>5, <2>8
<1>11. ASSUME Len(q) = 1 /\ q[1].file = ObjectFile(owner)
      PROVE  Goes
  <2>1. UNCHANGED <<disk[C], disk[T], disk[O], disk[RawFile], disk[CfgFile]>>
    BY <1>3, <1>6, <1>11
  <2>2. Len(r) = 0
    BY <1>3, <1>11
  <2>3. GuiList(r)'
    BY <2>2 DEF GuiList
  <2>4. ~StoresCfg(q[1]) /\ q[1].file \notin {C, T} /\ ~Updates(q)
    BY <1>6, <1>11 DEF StoresCfg, Updates, StoresCoins, StoresTokens
  <2>5. AgreeAfter(q) => AgreeAfter(r)'
    BY <1>9, <1>11, <2>2, <2>4
  <2>6. disk'[CfgFile] = config
    BY <1>1, <1>3, <1>7, <2>1, <2>4 DEF CfgStored
  <2> QED BY <1>3, <2>1, <2>3, <2>5, <2>6
<1>12. ASSUME Len(q) = 2 /\ StoresRaw(q[1]) /\ Switches(q[2], q[1].as)
      PROVE  Goes
  <2>1. q[1].file = RawFile /\ q[1].do = "save"
    BY <1>12 DEF StoresRaw
  <2>2. UNCHANGED <<disk[C], disk[T], disk[O], disk[CfgFile]>>
    BY <1>3, <1>6, <2>1
  <2>3. /\ disk'[RawFile] = q[1].as
        /\ \A c \in Custom : HasEntry(disk[RawFile], c) => HasEntry(disk'[RawFile], c)
    BY <1>3, <1>12, RawGrows
  <2>4. Len(r) = 1 /\ r[1] = q[2] /\ Switches(r[1], disk'[RawFile])
    BY <1>3, <1>12, <2>3
  <2>5. Switches(r[1], disk[RawFile])'
    BY <1>3, <2>4 DEF Switches, HasEntry
  <2>6. GuiList(r)'
    BY <2>4, <2>5 DEF GuiList
  <2>7. ~StoresCfg(q[1]) /\ q[1].file \notin {C, T} /\ ~Updates(q) /\ ~StoresCoins(q[2])
    BY <1>6, <1>12, <2>1 DEF StoresCfg, Updates, StoresCoins, StoresTokens, Switches
  <2>8. ~StoresCoins(r[1]) /\ ~StoresTokens(r[1])
    BY <2>4 DEF StoresCoins, StoresTokens, Switches
  <2>9. AgreeAfter(q) => AgreeAfter(r)'
    BY <1>9, <2>4, <2>7, <2>8
  <2>10. disk'[CfgFile] = config
    BY <1>1, <1>3, <1>7, <2>2, <2>7 DEF CfgStored
  <2> QED BY <1>3, <2>2, <2>3, <2>6, <2>9, <2>10
<1>13. Goes
  <2>1. \/ Updates(q)
        \/ StoresCfg(q[1]) /\ (Len(q) = 1 \/ (Len(q) = 2 /\ Chooses(q[2])))
        \/ Len(q) = 1 /\ q[1].file = ObjectFile(owner)
        \/ Len(q) = 2 /\ StoresRaw(q[1]) /\ Switches(q[2], q[1].as)
    BY <1>3, <1>4, GuiWrites
  <2> HIDE DEF Goes
  <2> QED BY <1>8, <1>10, <1>11, <1>12, <2>1
<1>14. PoolList(todo["pool"])' /\ InitList(todo["init"])'
  <2>1. \A l : PoolList(l)' <=> PoolList(l)
    BY <1>3, SameLists
  <2>2. PoolList(todo'["pool"])
    BY <1>4, <1>5
  <2>3. \A l : Len(l) = 0 => InitList(l)'
    BY DEF InitList
  <2>4. Len(todo'["init"]) = 0
    BY <1>5
  <2> QED BY <2>1, <2>2, <2>3, <2>4
<1>15. GuiList(todo["gui"])'
  BY <1>2, <1>13
<1>16. Lists'
  BY <1>3, <1>4, <1>5, <1>14, <1>15 DEF Lists
<1>17. CfgStored'
  BY <1>3, <1>13 DEF CfgStored
<1>18. RawStored'
  <2>1. \A c \in Custom \cap rawReg : HasEntry(disk[RawFile], c)
    BY <1>3 DEF RawStored
  <2>2. (init = "done") => \A c \in Custom \cap Active :
            registry[c].backup => HasEntry(disk[RawFile], c)
    BY <1>3, <1>5, EmptySeq DEF RawStored, Provided
  <2>3. Active' = Active
    BY <1>3 DEF Active
  <2> QED BY <1>3, <1>13, <2>1, <2>2, <2>3 DEF RawStored, Provided, HasEntry
<1>19. RegistryStored'
  <2> SUFFICES ASSUME risks \cap {"hasty", "noRemove"} = {}
               PROVE  RegistryStored'
    BY <1>3 DEF RegistryStored
  <2>1. /\ disk[C] \in Coins /\ disk[T] # Torn /\ disk[O] \in Bad
        /\ todo["pool"] = <<>> /\ AgreeAfter(q)
    BY <1>1, <1>3 DEF RegistryStored
  <2>2. /\ disk'[C] \in Coins /\ disk'[T] # Torn /\ disk'[O] \in Bad
        /\ todo'["pool"] = <<>> /\ AgreeAfter(r)'
    BY <1>5, <1>13, <2>1
  <2> QED BY <1>2, <1>3, <2>2 DEF RegistryStored
<1> QED BY <1>3, <1>16, <1>17, <1>18, <1>19 DEF Upgraded

LEMMA InitSaved ==
    ASSUME FilesInv, Saved("init"), at = "in"
    PROVE  FilesInv'
<1> USE DEF FilesInv
<1>1. PICK q : q = todo["init"]
  OBVIOUS
<1>2. PICK r : r = todo'["init"]
  OBVIOUS
<1>3. /\ q # <<>> /\ q[1].do = "save"
      /\ Len(q) \in Nat \ {0}
      /\ IsList(r) /\ Len(r) = Len(q) - 1
      /\ \A i \in 1..(Len(q) - 1) : r[i] = q[i + 1]
      /\ \A u \in Thread \ {"init"} : todo'[u] = todo[u]
      /\ DOMAIN disk' = File
      /\ \A f \in File : disk'[f] = IF f = q[1].file THEN q[1].as ELSE disk[f]
      /\ UNCHANGED <<risks, at, config, owner, registry, rawReg, init>>
      /\ Typed'
  BY <1>1, <1>2, SavedDoes DEF Thread
<1>4. /\ InitList(q) /\ PoolList(todo["pool"]) /\ owner \in Wallet /\ init # "starting"
  BY <1>1, <1>3 DEF Lists, Idle, Thread, Typed
<1>5. todo["gui"] = <<>> /\ todo'["gui"] = <<>> /\ todo'["pool"] = todo["pool"]
  BY <1>1, <1>3 DEF Lists, Thread
<1>6. StoresRaw(q[1]) /\ \A i \in 2..Len(q) : Adds(q[i])
  BY <1>3, <1>4 DEF InitList, Adds
<1>7. /\ disk'[RawFile] = q[1].as /\ q[1].as \in Counts
      /\ \A c \in Custom : HasEntry(disk[RawFile], c) => HasEntry(disk'[RawFile], c)
  BY <1>3, <1>6, RawGrows DEF StoresRaw
<1> DEFINE C == CoinsFile(owner)
           T == TokensFile(owner)
           O == OldFile(owner)
<1>8. UNCHANGED <<disk[C], disk[T], disk[O], disk[CfgFile]>>
  BY <1>3, <1>4, <1>6, FileFacts DEF StoresRaw
<1>9. \A i \in 1..Len(r) : Adds(r[i])
  BY <1>3, <1>6
<1>10. Lists'
  <2>1. \A e : Adds(e)' <=> Adds(e)
    BY DEF Adds
  <2>2. InitList(r)'
    BY <1>9, <2>1 DEF InitList
  <2>3. InitList(todo["init"])'
    BY <1>2, <2>2
  <2>4. PoolList(todo["pool"])'
    BY <1>3, <1>4, <1>5, SameLists
  <2>5. GuiList(todo["gui"])'
    BY <1>5 DEF GuiList
  <2> QED BY <1>3, <1>4, <1>5, <2>3, <2>4, <2>5 DEF Lists
<1>11. CfgStored'
  BY <1>3, <1>5, <1>8 DEF CfgStored
<1>12. RawStored'
  <2>1. \A c \in Custom \cap rawReg : HasEntry(disk[RawFile], c)
    BY <1>3 DEF RawStored
  <2>2. (init = "done") => \A c \in Custom \cap Active : registry[c].backup => Provided(c)
    BY <1>3 DEF RawStored
  <2>3. Active' = Active
    BY <1>3 DEF Active
  <2>4. ASSUME NEW c \in Custom, Provided(c)
        PROVE  Provided(c)'
    <3>1. CASE HasEntry(disk[RawFile], c)
      BY <1>7, <3>1 DEF Provided, HasEntry
    <3>2. CASE \E i \in 1..Len(q) : q[i].do = "add" /\ q[i].coin = c
      <4>1. PICK i \in 1..Len(q) : q[i].do = "add" /\ q[i].coin = c
        BY <3>2
      <4>2. i # 1
        BY <1>3, <4>1
      <4>3. i - 1 \in 1..Len(r) /\ r[i - 1] = q[i]
        BY <1>3, <4>2
      <4>4. \E j \in 1..Len(r) : r[j].do = "add" /\ r[j].coin = c
        BY <4>1, <4>3
      <4> QED BY <1>2, <4>4 DEF Provided
    <3>3. CASE \E i \in 1..Len(q) : q[i].do = "save" /\ q[i].as[c] > 0
      <4>1. PICK i \in 1..Len(q) : q[i].do = "save" /\ q[i].as[c] > 0
        BY <3>3
      <4>2. i = 1
        BY <1>3, <1>6, <4>1 DEF Adds
      <4>3. HasEntry(disk'[RawFile], c)
        BY <1>7, <4>1, <4>2 DEF HasEntry
      <4> QED BY <4>3 DEF Provided, HasEntry
    <3> QED BY <1>1, <2>4, <3>1, <3>2, <3>3 DEF Provided
  <2> QED BY <1>3, <1>7, <2>1, <2>2, <2>3, <2>4 DEF RawStored, HasEntry
<1>13. RegistryStored'
  <2> SUFFICES ASSUME risks \cap {"hasty", "noRemove"} = {}
               PROVE  RegistryStored'
    BY <1>3 DEF RegistryStored
  <2>1. /\ disk[C] \in Coins /\ disk[T] # Torn /\ disk[O] \in Bad
        /\ todo["pool"] = <<>> /\ AgreeAfter(todo["gui"])
    BY <1>1, <1>3 DEF RegistryStored
  <2>2. \A l : AgreeAfter(l)' <=> AgreeAfter(l)
    BY <1>3, <1>8, SameAgreement
  <2>3. AgreeAfter(todo["gui"])'
    BY <1>5, <2>1, <2>2
  <2> QED BY <1>3, <1>5, <1>8, <2>1, <2>3 DEF RegistryStored
<1> QED BY <1>3, <1>10, <1>11, <1>12, <1>13 DEF Upgraded

LEMMA PoolSaved ==
    ASSUME FilesInv, Saved("pool"), at \in {"in", "modal"}
    PROVE  FilesInv'
<1> USE DEF FilesInv
<1>1. PICK q : q = todo["pool"]
  OBVIOUS
<1>2. PICK r : r = todo'["pool"]
  OBVIOUS
<1>3. /\ q # <<>> /\ q[1].do = "save"
      /\ Len(q) \in Nat \ {0}
      /\ IsList(r) /\ Len(r) = Len(q) - 1
      /\ \A i \in 1..(Len(q) - 1) : r[i] = q[i + 1]
      /\ \A u \in Thread \ {"pool"} : todo'[u] = todo[u]
      /\ DOMAIN disk' = File
      /\ \A f \in File : disk'[f] = IF f = q[1].file THEN q[1].as ELSE disk[f]
      /\ UNCHANGED <<risks, at, config, owner, registry, rawReg, init>>
      /\ Typed'
  BY <1>1, <1>2, SavedDoes DEF Thread
<1>4. /\ PoolList(q) /\ owner \in Wallet /\ (at = "in" => init # "starting")
  BY <1>1, <1>3 DEF Lists, Idle, Thread, Typed
<1>5. todo'["gui"] = todo["gui"] /\ todo'["init"] = todo["init"]
  BY <1>3 DEF Thread
<1>6. Updates(q)
  <2>1. q[1].do # "segwit" /\ Len(q) # 0
    BY <1>3
  <2> QED BY <1>4, <2>1 DEF PoolList
<1> DEFINE C == CoinsFile(owner)
           T == TokensFile(owner)
           O == OldFile(owner)
<1>7. /\ {C, T, O, RawFile, CfgFile} \subseteq File
      /\ C \notin {T, O, RawFile, CfgFile} /\ T \notin {O, RawFile, CfgFile}
      /\ O \notin {RawFile, CfgFile} /\ RawFile # CfgFile
  <2>1. owner \in Wallet
    BY <1>4
  <2> QED BY <2>1, FileFacts
<1>8. StoresCoins(q[1]) \/ StoresTokens(q[1])
  BY <1>6 DEF Updates
<1>9. UNCHANGED <<disk[RawFile], disk[CfgFile], disk[O]>>
  BY <1>3, <1>7, <1>8 DEF StoresCoins, StoresTokens
<1>10. \/ disk'[C] \in Coins /\ disk'[T] = disk[T]
       \/ disk'[C] = disk[C] /\ disk'[T] # Torn
  BY <1>3, <1>7, <1>8, NotBad DEF StoresCoins, StoresTokens
<1>11. Len(r) = 0 \/ Updates(r)
  <2>1. CASE Len(q) = 1
    BY <1>3, <2>1
  <2>2. CASE Len(q) = 2 /\ StoresTokens(q[2])
    <3>1. Len(r) = 1 /\ r[1] = q[2]
      BY <1>3, <2>2
    <3> QED BY <2>2, <3>1 DEF Updates
  <2> QED BY <1>6, <2>1, <2>2 DEF Updates
<1>12. PoolList(r)
  BY <1>11 DEF PoolList
<1>13. Lists'
  <2>1. PoolList(todo["pool"])'
    BY <1>2, <1>3, <1>12, SameLists
  <2>2. CASE at = "in"
    <3>1. GuiList(todo["gui"])' /\ InitList(todo["init"])'
      <4>1. GuiList(todo["gui"]) /\ InitList(todo["init"])
        BY <2>2 DEF Lists
      <4>2. \A l : (GuiList(l)' <=> GuiList(l)) /\ (InitList(l)' <=> InitList(l))
        BY <1>3, <1>9, SameLists
      <4> QED BY <1>5, <4>1, <4>2
    <3>2. todo'["init"] # <<>> => todo'["gui"] = <<>>
      BY <1>5 DEF Lists
    <3> QED BY <1>3, <1>4, <2>1, <2>2, <3>1, <3>2 DEF Lists
  <2>3. CASE at = "modal"
    <3>1. \A i \in 1..Len(todo["gui"]) : Thing(todo["gui"][i])
      BY <2>3 DEF Lists
    <3>2. \A e : Thing(e)' <=> Thing(e)
      BY <1>3, SameLists
    <3>3. \A i \in 1..Len(todo'["gui"]) : Thing(todo["gui"][i])'
      BY <1>5, <3>1, <3>2
    <3>4. todo'["init"] = <<>>
      BY <1>5, <2>3 DEF Lists
    <3>5. Removals(todo["gui"])'
      <4>1. Removals(todo["gui"])
        BY <2>3 DEF Lists
      <4> QED BY <1>3, <1>5, <1>9, <4>1, SameLists
    <3> QED BY <1>3, <2>1, <2>3, <3>3, <3>4, <3>5 DEF Lists
  <2> QED BY <2>2, <2>3
<1>14. CfgStored'
  BY <1>3, <1>5, <1>9 DEF CfgStored, StoresCfg
<1>15. RawStored'
  BY <1>3, <1>5, <1>9 DEF RawStored, Provided, Active, HasEntry
<1>16. RegistryStored'
  <2> SUFFICES ASSUME at = "in", risks \cap {"hasty", "noRemove"} = {}
               PROVE  RegistryStored'
    BY <1>3 DEF RegistryStored
  <2>1. /\ disk[C] \in Coins /\ disk[T] # Torn /\ disk[O] \in Bad
        /\ todo["gui"] = <<>> /\ todo["init"] = <<>> /\ AgreeAfter(q)
    BY <1>1, <1>3 DEF RegistryStored
  <2>2. AgreeAfter(r)'
    BY <1>3, <1>4, <1>6, <2>1, AgreesStill
  <2>3. AgreeAfter(todo["pool"])'
    BY <1>2, <2>2
  <2>4. disk'[C] \in Coins /\ disk'[T] # Torn /\ disk'[O] \in Bad
    BY <1>3, <1>9, <1>10, <2>1
  <2> QED BY <1>3, <1>5, <2>1, <2>3, <2>4 DEF RegistryStored
<1> QED BY <1>3, <1>13, <1>14, <1>15, <1>16 DEF Upgraded

LEMMA SavedKeeps ==
    ASSUME FilesInv, NEW t \in Thread, Saved(t)
    PROVE  FilesInv'
<1>1. todo[t] # <<>>
  BY DEF Saved
<1>2. /\ at = "down" => todo["gui"] = <<>>
      /\ at # "in" => todo["init"] = <<>>
      /\ at \notin {"in", "modal"} => todo["pool"] = <<>>
      /\ at \in Place
  BY DEF FilesInv, Lists, Typed
<1>3. t \in {"gui", "init", "pool"} /\ at # "down"
  BY <1>1, <1>2 DEF Thread
<1>4. CASE at \in {"starting", "menu"}
  BY <1>4, MenuSaved
<1>5. CASE at = "login"
  BY <1>5, LoginSaved
<1>6. CASE at = "modal" /\ t = "gui"
  BY <1>6, ModalSaved
<1>7. CASE at = "in" /\ t = "gui"
  BY <1>7, InSaved
<1>8. CASE at = "in" /\ t = "init"
  BY <1>8, InitSaved
<1>9. CASE at \in {"in", "modal"} /\ t = "pool"
  BY <1>9, PoolSaved
<1> QED BY <1>1, <1>2, <1>3, <1>4, <1>5, <1>6, <1>7, <1>8, <1>9 DEF Place

-----------------------------------------------------------------------------
(* A thread that reads goes on with what it has to write: at login.         *)

\* A thread that reads what it needs goes on with what it has to write.
LEMMA GoesOn ==
    ASSUME NEW q, IsList(q), q # <<>>, NEW s, IsList(s), NEW r, r = s \o Tail(q)
    PROVE  /\ IsList(r) /\ Len(q) \in Nat \ {0} /\ Len(s) \in Nat
           /\ Len(r) = Len(s) + (Len(q) - 1)
           /\ \A i \in 1..Len(s) : r[i] = s[i]
           /\ \A i \in 1..(Len(q) - 1) : r[Len(s) + i] = q[i + 1]
<1>1. Len(q) \in Nat \ {0} /\ Len(s) \in Nat
  BY ListFacts
<1>2. PICK p : p = Tail(q)
  OBVIOUS
<1>3. /\ IsList(p) /\ Len(p) = Len(q) - 1
      /\ \A i \in 1..(Len(q) - 1) : p[i] = q[i + 1]
  BY <1>2, TailOfList
<1>4. /\ IsList(s \o p) /\ Len(s \o p) = Len(s) + Len(p)
      /\ \A i \in 1..Len(s) : (s \o p)[i] = s[i]
      /\ \A i \in 1..Len(p) : (s \o p)[Len(s) + i] = p[i]
  <2>1. IsList(s) /\ IsList(p)
    BY <1>3
  <2> QED BY <2>1, BothLists
<1>5. r = s \o p
  BY <1>2
<1> QED BY <1>1, <1>3, <1>4, <1>5

LEMMA ReadsDoes ==
    ASSUME FilesInv, NEW t \in Thread, Reads(t), ~Stops(todo[t][1]),
           NEW s, IsList(s), s = Saves(todo[t][1])
    PROVE  /\ IsList(todo[t]) /\ todo[t] # <<>> /\ todo[t][1].do # "save"
           /\ todo'[t] = s \o Tail(todo[t]) /\ IsList(todo'[t])
           /\ \A u \in Thread \ {t} : todo'[u] = todo[u]
           /\ DOMAIN todo' = Thread /\ \A u \in Thread : IsList(todo'[u])
           /\ registry' = Registered(todo[t][1]) /\ config' = Configured(todo[t][1])
           /\ UNCHANGED <<risks, disk, at, owner, rawReg, init, token, request>>
<1>1. DOMAIN todo = Thread /\ \A u \in Thread : IsList(todo[u])
  BY DEF FilesInv, Typed
<1>2. /\ todo[t] # <<>> /\ todo[t][1].do # "save"
      /\ todo' = [todo EXCEPT ![t] = Saves(todo[t][1]) \o Tail(@)]
      /\ registry' = Registered(todo[t][1]) /\ config' = Configured(todo[t][1])
      /\ UNCHANGED <<risks, disk, at, owner, rawReg, init, token, request>>
  BY DEF Reads, tokenVars
<1>3. PICK r : r = s \o Tail(todo[t])
  OBVIOUS
<1>4. IsList(r)
  <2>1. IsList(todo[t]) /\ todo[t] # <<>> /\ IsList(s)
    BY <1>1, <1>2
  <2> QED BY <1>3, <2>1, GoesOn
<1>5. todo' = [todo EXCEPT ![t] = r]
  BY <1>2, <1>3
<1>6. /\ DOMAIN todo' = Thread /\ todo'[t] = r
      /\ \A u \in Thread \ {t} : todo'[u] = todo[u]
  BY <1>1, <1>5
<1> QED BY <1>1, <1>2, <1>3, <1>4, <1>6

\* What two files are merged into.
IsMerge(g, old, new) ==
    /\ g \in [DOMAIN new \cup CustomIn(old) -> Entry]
    /\ DOMAIN g = DOMAIN new \cup CustomIn(old)
    /\ \A c \in CustomIn(old) : g[c] = old[c]
    /\ \A c \in DOMAIN new \ CustomIn(old) :
          g[c] = IF c \in DOMAIN old THEN [new[c] EXCEPT !.active = old[c].active] ELSE new[c]

LEMMA MergeHolds ==
    ASSUME NEW old \in OldCoins, NEW new \in Coins, NEW g, g = Merge(old, new)
    PROVE  IsMerge(g, old, new)
<1>1. /\ \A c \in DOMAIN old : old[c] \in Entry
      /\ \A c \in DOMAIN new : new[c] \in Entry
  BY CoinsOwn, CoinsHold
<1>2. g = [c \in DOMAIN new \cup CustomIn(old) |->
              IF c \in CustomIn(old) THEN old[c]
              ELSE IF c \in DOMAIN old THEN [new[c] EXCEPT !.active = old[c].active] ELSE new[c]]
  BY DEF Merge
<1>3. CustomIn(old) \subseteq DOMAIN old
  BY DEF CustomIn
<1>4. ASSUME NEW c \in DOMAIN new \cup CustomIn(old)
      PROVE  g[c] \in Entry
  <2>1. CASE c \in CustomIn(old)
    BY <1>1, <1>2, <1>3, <2>1
  <2>2. CASE c \notin CustomIn(old) /\ c \in DOMAIN old
    <3>1. g[c] = [new[c] EXCEPT !.active = old[c].active]
      BY <1>2, <2>2
    <3>2. old[c].active \in BOOLEAN /\ new[c] \in Entry
      BY <1>1, <2>2 DEF Entry
    <3> QED BY <3>1, <3>2, SwitchedEntry
  <2>3. CASE c \notin CustomIn(old) /\ c \notin DOMAIN old
    BY <1>1, <1>2, <2>3
  <2> QED BY <2>1, <2>2, <2>3
<1> QED BY <1>2, <1>4 DEF IsMerge

LEMMA MergeCoins ==
    ASSUME NEW old \in OldCoins, NEW new \in Coins
    PROVE  Merge(old, new) \in Coins
<1>1. PICK g : g = Merge(old, new)
  OBVIOUS
<1>7. IsMerge(g, old, new)
  BY <1>1, MergeHolds
<1>2. /\ g \in [DOMAIN new \cup CustomIn(old) -> Entry]
      /\ DOMAIN g = DOMAIN new \cup CustomIn(old)
      /\ \A c \in CustomIn(old) : g[c] = old[c]
      /\ \A c \in DOMAIN new \ CustomIn(old) :
            g[c] = IF c \in DOMAIN old THEN [new[c] EXCEPT !.active = old[c].active] ELSE new[c]
  BY <1>7 DEF IsMerge
<1>3. /\ DOMAIN old \subseteq Coin /\ \A c \in DOMAIN old : old[c] \in Entry
      /\ DOMAIN new \subseteq Coin /\ \A c \in DOMAIN new : new[c] \in Entry
      /\ Official \subseteq DOMAIN new /\ \A c \in Custom \cap DOMAIN new : new[c].custom
  BY CoinsOwn, CoinsHold
<1>4. DOMAIN new \cup CustomIn(old) \in SUBSET Coin
  BY <1>3 DEF CustomIn
<1>5. g \in OldCoins
  BY <1>2, <1>4, CoinsAre
<1>6. ASSUME NEW c \in Custom \cap DOMAIN g
      PROVE  g[c].custom
  <2>1. CASE c \in CustomIn(old)
    BY <1>2, <2>1 DEF CustomIn
  <2>2. CASE c \notin CustomIn(old) /\ c \in DOMAIN old
    <3>1. c \in DOMAIN new /\ g[c] = [new[c] EXCEPT !.active = old[c].active]
      BY <1>2, <2>2
    <3>2. old[c].active \in BOOLEAN /\ new[c] \in Entry /\ new[c].custom
      BY <1>3, <2>2, <3>1 DEF Entry
    <3> QED BY <3>1, <3>2, SwitchedEntry
  <2>3. CASE c \notin CustomIn(old) /\ c \notin DOMAIN old
    BY <1>2, <1>3, <2>3
  <2> QED BY <2>1, <2>2, <2>3
<1> QED BY <1>1, <1>2, <1>3, <1>5, <1>6 DEF Coins

\* A file that has been merged is merged again without a change.
LEMMA MergeTwice ==
    ASSUME NEW old \in OldCoins, NEW new \in Coins, NEW g, g = Merge(old, new)
    PROVE  Merge(old, g) = g
<1>1. g \in Coins
  BY MergeCoins
<1>2. PICK h : h = Merge(old, g)
  OBVIOUS
<1>3. IsMerge(g, old, new) /\ IsMerge(h, old, g)
  BY <1>1, <1>2, MergeHolds
<1>4. \A c \in DOMAIN new : new[c] \in Entry
  BY CoinsHold, CoinsOwn
<1>5. DOMAIN h = DOMAIN g /\ DOMAIN g = DOMAIN new \cup CustomIn(old)
  BY <1>3 DEF IsMerge
<1>6. ASSUME NEW c \in DOMAIN g
      PROVE  h[c] = g[c]
  <2>1. CASE c \in CustomIn(old)
    BY <1>3, <2>1 DEF IsMerge
  <2>2. CASE c \notin CustomIn(old) /\ c \notin DOMAIN old
    BY <1>3, <1>5, <2>2 DEF IsMerge
  <2>3. CASE c \notin CustomIn(old) /\ c \in DOMAIN old
    <3>1. g[c] = [new[c] EXCEPT !.active = old[c].active]
      BY <1>3, <1>5, <2>3 DEF IsMerge
    <3>2. h[c] = [g[c] EXCEPT !.active = old[c].active]
      BY <1>3, <2>3 DEF IsMerge
    <3>3. new[c] \in Entry
      BY <1>4, <1>5, <2>3
    <3> QED BY <3>1, <3>2, <3>3 DEF Entry
  <2> QED BY <2>1, <2>2, <2>3
<1>7. g \in [DOMAIN g -> Entry] /\ h \in [DOMAIN g -> Entry]
  BY <1>3, <1>5 DEF IsMerge
<1> QED BY <1>2, <1>6, <1>7

\* check_for_reconfiguration.
LEMMA MigrationWrites ==
    ASSUME NEW w \in Wallet, w = owner, NEW s, s = Migration(w),
           disk[OldFile(w)] \in OldCoins \cup Bad, disk[CoinsFile(w)] \in Coins \cup Bad
    PROVE  /\ IsList(s) /\ Len(s) \in {0, 1, 3}
           /\ Len(s) = 0 => disk[OldFile(w)] \in Bad \/ disk[CoinsFile(w)] \in Bad
           /\ Len(s) = 1 => StoresCoins(s[1]) /\ "noRemove" \in risks
           /\ Len(s) = 3 => StoresCoins(s[1]) /\ RemovesOld(s[2]) /\ StoresCoins(s[3])
<1> DEFINE old    == disk[OldFile(w)]
           new    == disk[CoinsFile(w)]
           merged == Write(CoinsFile(w), Merge(old, new))
           remove == SaveAs(OldFile(w), Absent, CoinsFile(w))
<1>1. CASE old \in Bad \/ new \in Bad
  <2>1. s = <<>>
    BY <1>1 DEF Migration
  <2> QED BY <1>1, <2>1, ShortLists
<1>2. CASE ~(old \in Bad \/ new \in Bad)
  <2>1. old \in OldCoins /\ new \in Coins
    BY <1>2
  <2>2. Merge(old, new) \in Coins
    BY <2>1, MergeCoins
  <2>3. StoresCoins(merged)
    BY <2>2 DEF StoresCoins, Write, SaveAs
  <2>4. RemovesOld(remove)
    BY DEF RemovesOld, SaveAs
  <2>5. s = IF "noRemove" \in risks THEN <<merged>> ELSE <<merged, remove, merged>>
    BY <1>2 DEF Migration
  <2> HIDE DEF merged, remove
  <2>6. CASE "noRemove" \in risks
    <3>1. IsList(s) /\ Len(s) = 1 /\ s[1] = merged
      BY <2>5, <2>6, ShortLists
    <3> QED BY <2>3, <2>6, <3>1
  <2>7. CASE "noRemove" \notin risks
    <3>1. IsList(s) /\ Len(s) = 3 /\ s[1] = merged /\ s[2] = remove /\ s[3] = merged
      BY <2>5, <2>7, ShortLists
    <3> QED BY <2>3, <2>4, <3>1
  <2> QED BY <2>6, <2>7
<1> QED BY <1>1, <1>2

LEMMA LoginReads ==
    ASSUME FilesInv, Reads("gui"), at = "login", ~Stops(todo["gui"][1])
    PROVE  FilesInv'
<1> USE DEF FilesInv
<1>1. PICK q : q = todo["gui"]
  OBVIOUS
<1>2. IsList(q) /\ q # <<>> /\ q[1].do # "save" /\ LoginList(q) /\ owner \in Wallet
  BY <1>1 DEF Reads, Typed, Thread, Upgraded
<1>3. Len(q) = 1 /\ Migrates(q[1]) /\ disk[CoinsFile(owner)] # Absent
  <2>1. Len(q) # 0
    BY <1>2, ListFacts
  <2> QED BY <1>2, <2>1 DEF LoginList, StoresCoins, RemovesOld
<1>4. q[1].do = "migrate" /\ q[1].value = owner
  BY <1>3 DEF Migrates
<1>5. PICK s : s = Migration(owner)
  OBVIOUS
<1>6. Saves(q[1]) = s /\ Registered(q[1]) = registry /\ Configured(q[1]) = config
  BY <1>4, <1>5 DEF Saves, Registered, Configured
<1>8. disk[OldFile(owner)] \in OldCoins \cup Bad /\ disk[CoinsFile(owner)] \in Coins \cup Bad
  BY <1>2, FileFacts DEF Typed, Holds
<1>9. /\ IsList(s) /\ Len(s) \in {0, 1, 3}
      /\ Len(s) = 0 => disk[OldFile(owner)] \in Bad \/ disk[CoinsFile(owner)] \in Bad
      /\ Len(s) = 1 => StoresCoins(s[1]) /\ "noRemove" \in risks
      /\ Len(s) = 3 => StoresCoins(s[1]) /\ RemovesOld(s[2]) /\ StoresCoins(s[3])
  BY <1>2, <1>5, <1>8, MigrationWrites
<1>10. PICK r : r = todo'["gui"]
  OBVIOUS
<1>7. /\ r = s \o Tail(q)
      /\ \A u \in Thread \ {"gui"} : todo'[u] = todo[u]
      /\ DOMAIN todo' = Thread /\ \A u \in Thread : IsList(todo'[u])
      /\ UNCHANGED <<risks, disk, at, config, owner, registry, rawReg, init, token, request>>
  <2>1. "gui" \in Thread
    BY DEF Thread
  <2> QED BY <1>1, <1>6, <1>9, <1>10, <2>1, ReadsDoes
<1>11. Len(r) = Len(s) /\ \A i \in 1..Len(s) : r[i] = s[i]
  <2>1. IsList(q) /\ q # <<>> /\ IsList(s) /\ r = s \o Tail(q)
    BY <1>2, <1>7, <1>9
  <2>2. /\ Len(s) \in Nat /\ Len(r) = Len(s) + (Len(q) - 1)
        /\ \A i \in 1..Len(s) : r[i] = s[i]
    BY <2>1, GoesOn
  <2> QED BY <1>3, <2>2
<1>12. LoginList(r)
  <2>1. CASE Len(s) = 0
    <3>1. Cleared \/ disk[CoinsFile(owner)] = Torn
      BY <1>3, <1>9, <2>1 DEF Cleared, Bad
    <3> QED BY <1>3, <1>11, <2>1, <3>1 DEF LoginList
  <2>2. CASE Len(s) = 1
    <3>1. StoresCoins(r[1]) /\ Cleared
      BY <1>9, <1>11, <2>2 DEF Cleared
    <3> QED BY <1>3, <1>11, <2>2, <3>1 DEF LoginList
  <2>3. CASE Len(s) = 3
    <3>1. StoresCoins(r[1]) /\ RemovesOld(r[2]) /\ StoresCoins(r[3])
      BY <1>9, <1>11, <2>3
    <3> QED BY <1>3, <1>11, <2>3, <3>1 DEF LoginList
  <2> QED BY <1>9, <2>1, <2>2, <2>3
<1>13. LoginList(r)'
  BY <1>7, <1>12 DEF LoginList, Cleared, StoresCoins, RemovesOld, Migrates
<1>14. LoginList(todo["gui"])'
  BY <1>10, <1>13
<1>15. Typed'
  BY <1>7, <1>11 DEF Typed, Holds
<1>16. Lists'
  BY <1>7, <1>11 DEF Lists, Thread
<1> QED BY <1>7, <1>14, <1>15, <1>16 DEF CfgStored, RawStored, Upgraded, RegistryStored

-----------------------------------------------------------------------------
(* The steps that read, one kind at a time.                                 *)

LEMMA Registers ==
    ASSUME \A d \in DOMAIN registry : registry[d] \in Entry,
           NEW c, NEW on \in BOOLEAN, NEW g, g = [registry EXCEPT ![c].active = on]
    PROVE  /\ DOMAIN g = DOMAIN registry
           /\ \A d \in DOMAIN registry :
                 /\ g[d] \in Entry /\ g[d].backup = registry[d].backup
                 /\ g[d].custom = registry[d].custom
                 /\ g[d].active = IF d = c THEN on ELSE registry[d].active
<1>1. PICK v : v = [registry[c] EXCEPT !.active = on]
  OBVIOUS
<1>2. g = [registry EXCEPT ![c] = v]
  BY <1>1, Zenon
<1>3. c \in DOMAIN registry =>
        /\ v \in Entry /\ v.backup = registry[c].backup /\ v.active = on
        /\ v.custom = registry[c].custom
  BY <1>1 DEF Entry
<1>4. DOMAIN g = DOMAIN registry
  BY <1>2
<1>5. \A d \in DOMAIN registry : g[d] = IF d = c THEN v ELSE registry[d]
  BY <1>2
<1> QED BY <1>3, <1>4, <1>5

\* add_new_coin.
LEMMA AddWrites ==
    ASSUME NEW e, Adds(e), disk[RawFile] \in Counts, NEW s, s = Saves(e)
    PROVE  /\ IsList(s) /\ Len(s) = 1 /\ StoresRaw(s[1]) /\ s[1].as[e.coin] > 0
           /\ Registered(e) = registry /\ Configured(e) = config
<1> DEFINE raw == disk[RawFile]
           new == [raw EXCEPT ![e.coin] = @ + 1]
           w   == Write(RawFile, new)
<1>1. e.do = "add" /\ e.coin \in Custom
  BY DEF Adds
<1>2. s = <<w>> /\ Registered(e) = registry /\ Configured(e) = config
  BY <1>1 DEF Saves, Registered, Configured
<1>3. /\ new \in Counts /\ new[e.coin] > 0
      /\ \A c \in Custom : HasEntry(raw, c) => new[c] > 0
  BY <1>1 DEF Counts, HasEntry
<1>4. w.do = "save" /\ w.file = RawFile /\ w.as = new
  BY DEF Write, SaveAs
<1> HIDE DEF w, new
<1>5. StoresRaw(w)
  BY <1>3, <1>4 DEF StoresRaw
<1>6. IsList(s) /\ Len(s) = 1 /\ s[1] = w
  BY <1>2, ShortLists
<1> QED BY <1>2, <1>3, <1>4, <1>5, <1>6

\* change_currency and change_fiat.
LEMMA ChoiceWrites ==
    ASSUME NEW e, Chooses(e), config \in Settings, NEW s, s = Saves(e)
    PROVE  /\ IsList(s) /\ Len(s) = 1
           /\ s[1].do = "save" /\ s[1].file = CfgFile /\ s[1].as = Configured(e)
           /\ Configured(e) \in Settings /\ Registered(e) = registry
<1>1. \/ e.do = "fiat" /\ e.value \in Fiat
      \/ e.do = "currency" /\ e.value \in Fiat \cup Crypto
  BY DEF Chooses
<1>2. Registered(e) = registry /\ s = UpgradeCfg(e)
  BY <1>1 DEF Registered, Saves
<1>3. Configured(e) \in Settings
  BY <1>1 DEF Configured, Settings
<1> DEFINE w == Write(CfgFile, Configured(e))
<1>4. s = <<w>> /\ w.do = "save" /\ w.file = CfgFile /\ w.as = Configured(e)
  BY <1>2 DEF UpgradeCfg, Write, SaveAs
<1> HIDE DEF w
<1>5. IsList(s) /\ Len(s) = 1 /\ s[1] = w
  BY <1>4, ShortLists
<1> QED BY <1>2, <1>3, <1>4, <1>5

LEMMA StatusReads ==
    ASSUME FilesInv, at = "in", Reads("gui"), ~Stops(todo["gui"][1]),
           Len(todo["gui"]) = 1, Switches(todo["gui"][1], disk[RawFile])
    PROVE  FilesInv'
<1> USE DEF FilesInv
<1>1. PICK q : q = todo["gui"]
  OBVIOUS
<1>2. PICK e : e = q[1]
  OBVIOUS
<1>3. /\ e.do = "status" /\ e.coin \in DOMAIN registry /\ e.value \in BOOLEAN
      /\ (e.value /\ e.coin \in Custom /\ registry[e.coin].backup) =>
            HasEntry(disk[RawFile], e.coin)
  BY <1>1, <1>2 DEF Switches
<1> DEFINE C == CoinsFile(owner)
           T == TokensFile(owner)
           O == OldFile(owner)
<1>4. /\ owner \in Wallet
      /\ \A f \in File : Holds(f, disk[f])
      /\ \A d \in DOMAIN registry : registry[d] \in Entry
      /\ DOMAIN todo = Thread /\ \A u \in Thread : IsList(todo[u])
      /\ DOMAIN registry \subseteq Coin
  BY DEF Typed
<1>5. disk[C] \in Coins /\ TokensOf(owner) \in Tokens
  <2>1. disk[C] \notin Bad /\ disk[T] # Torn
    BY <1>1, <1>2, <1>3 DEF Stops
  <2>2. {C, T} \subseteq File
    BY <1>4, FileFacts
  <2>3. Holds(C, disk[C]) /\ Holds(T, disk[T])
    BY <1>4, <2>2
  <2> QED BY <1>4, <2>1, <2>3, TokensTyped DEF Holds
<1>21. e.coin \in IF registry[e.coin].custom THEN DOMAIN TokensOf(owner) ELSE DOMAIN disk[C]
  BY <1>1, <1>2, <1>3 DEF Stops
<1>6. PICK s : s = UpdateCoinStatus(e.coin, e.value)
  OBVIOUS
<1>7. Saves(e) = s /\ Configured(e) = config
      /\ Registered(e) = [registry EXCEPT ![e.coin].active = e.value]
  BY <1>3, <1>6 DEF Saves, Configured, Registered
<1>8. /\ IsList(s) /\ Updates(s) /\ StoresCoins(s[1]) /\ Len(s) \in {1, 2}
      /\ s[1].as = Switched(disk[C], ShownOf(e.coin), e.value)
      /\ Len(s) = 1 => TokensOf(owner) = NoCoins
      /\ Len(s) = 2 =>
            s[2].as = Switched(TokensOf(owner), {e.coin} \ ShownOf(e.coin), e.value)
  BY <1>3, <1>4, <1>5, <1>6, StatusWrites
<1>9. /\ IsList(q) /\ q # <<>> /\ todo'["gui"] = s \o Tail(q)
      /\ \A u \in Thread \ {"gui"} : todo'[u] = todo[u]
      /\ DOMAIN todo' = Thread /\ \A u \in Thread : IsList(todo'[u])
      /\ registry' = [registry EXCEPT ![e.coin].active = e.value]
      /\ UNCHANGED <<risks, disk, at, config, owner, rawReg, init, token, request>>
  <2>1. "gui" \in Thread
    BY DEF Thread
  <2> QED BY <1>1, <1>2, <1>7, <1>8, <2>1, ReadsDoes
<1>10. PICK r : r = todo'["gui"]
  OBVIOUS
<1>11. Len(r) = Len(s) /\ \A i \in 1..Len(s) : r[i] = s[i]
  <2>1. IsList(q) /\ q # <<>> /\ IsList(s) /\ r = s \o Tail(q)
    BY <1>8, <1>9, <1>10
  <2>2. /\ Len(s) \in Nat /\ Len(r) = Len(s) + (Len(q) - 1)
        /\ \A i \in 1..Len(s) : r[i] = s[i]
    BY <2>1, GoesOn
  <2> QED BY <1>1, <2>2
<1>12. /\ DOMAIN registry' = DOMAIN registry
       /\ \A d \in DOMAIN registry :
             /\ registry'[d] \in Entry /\ registry'[d].backup = registry[d].backup
             /\ registry'[d].custom = registry[d].custom
             /\ registry'[d].active = IF d = e.coin THEN e.value ELSE registry[d].active
  <2>1. PICK g : g = registry'
    OBVIOUS
  <2>2. g = [registry EXCEPT ![e.coin].active = e.value]
    BY <1>9, <2>1
  <2> QED BY <1>3, <1>4, <2>1, <2>2, Registers
<1>13. Typed'
  BY <1>4, <1>9, <1>12 DEF Typed, Holds
<1>14. todo["init"] = <<>> /\ init # "starting"
  BY <1>1, <1>9 DEF Lists, Idle, Thread
<1>15. todo'["init"] = <<>> /\ todo'["pool"] = todo["pool"]
  BY <1>9, <1>14 DEF Thread
<1>16. Updates(r)
  BY <1>8, <1>11 DEF Updates
<1>17. Lists'
  <2>1. \A l : (PoolList(l)' <=> PoolList(l)) /\ (Updates(l)' <=> Updates(l))
    BY <1>9 DEF PoolList, Updates, StoresCoins, StoresTokens
  <2>2. GuiList(r)'
    BY <1>16, <2>1 DEF GuiList
  <2>3. GuiList(todo["gui"])'
    BY <1>10, <2>2
  <2>4. PoolList(todo["pool"])'
    BY <1>15, <2>1 DEF Lists
  <2>5. InitList(todo["init"])'
    BY <1>15 DEF InitList
  <2> QED BY <1>9, <1>14, <1>15, <2>3, <2>4, <2>5 DEF Lists
<1>18. CfgStored'
  <2>1. disk[CfgFile] = config
    BY <1>1, <1>2, <1>3 DEF CfgStored, StoresCfg
  <2> QED BY <1>9, <2>1 DEF CfgStored
<1>19. RawStored'
  <2>1. \A c \in Custom \cap rawReg : HasEntry(disk[RawFile], c)
    BY DEF RawStored
  <2>2. (init = "done") => \A c \in Custom \cap Active :
            registry[c].backup => HasEntry(disk[RawFile], c)
    BY <1>14, EmptySeq DEF RawStored, Provided
  <2>3. ASSUME init = "done", NEW c \in Custom, c \in Active', registry'[c].backup
        PROVE  HasEntry(disk[RawFile], c)
    <3>1. c \in DOMAIN registry /\ registry'[c].active /\ registry[c].backup
      BY <1>12, <2>3 DEF Active
    <3>2. CASE c = e.coin
      BY <1>3, <1>12, <3>1, <3>2
    <3>3. CASE c # e.coin
      <4>1. c \in Active
        BY <1>12, <3>1, <3>3 DEF Active
      <4> QED BY <2>2, <2>3, <3>1, <4>1
    <3> QED BY <3>2, <3>3
  <2> QED BY <1>9, <2>1, <2>3 DEF RawStored, Provided, HasEntry
<1>20. RegistryStored'
  <2> SUFFICES ASSUME risks \cap {"hasty", "noRemove"} = {}
               PROVE  RegistryStored'
    BY <1>9 DEF RegistryStored
  <2>1. /\ disk[C] \in Coins /\ disk[T] # Torn /\ disk[O] \in Bad
        /\ todo["pool"] = <<>> /\ AgreeAfter(q)
    BY <1>1, <1>9 DEF RegistryStored
  <2>2. Agree(disk[C], TokensOf(owner))
    BY <1>1, <1>2, <1>3, <2>1 DEF AgreeAfter, StoresCoins, StoresTokens
  <2>3. PICK tokens : tokens = TokensOf(owner)
    OBVIOUS
  <2>4. PICK shown, others :
            /\ shown = {x \in {e.coin} \cap DOMAIN registry : ~registry[x].custom}
            /\ others = Switched(tokens, {e.coin} \ shown, e.value)
    OBVIOUS
  <2>5. Agrees(registry', r[1].as, others)
    <3>1. shown = ShownOf(e.coin)
      BY <2>4 DEF ShownOf
    <3>2. r[1].as = Switched(disk[C], shown, e.value)
      BY <1>8, <1>11, <3>1
    <3>3. Agrees(registry, disk[C], tokens)
      BY <2>2, <2>3 DEF Agree
    <3>4. PICK after : after = registry'
      OBVIOUS
    <3>5. /\ DOMAIN after = DOMAIN registry
          /\ \A d \in DOMAIN registry :
                /\ after[d].custom = registry[d].custom
                /\ after[d].active = IF d = e.coin THEN e.value ELSE registry[d].active
      BY <1>12, <3>4
    <3>6. disk[C] \in Coins /\ tokens \in Tokens
          /\ e.coin \in IF registry[e.coin].custom THEN DOMAIN tokens ELSE DOMAIN disk[C]
      BY <1>5, <1>21, <2>3
    <3>7. Agrees(after, r[1].as, others)
      BY <1>3, <2>4, <3>2, <3>3, <3>5, <3>6, StatusAgrees
    <3> QED BY <3>4, <3>7
  <2>6. TokensOf(owner)' = tokens /\ ~StoresTokens(r[1])' /\ StoresCoins(r[1])'
    <3>1. StoresCoins(r[1])
      BY <1>8, <1>11
    <3>2. StoresCoins(r[1])'
      BY <1>9, <3>1 DEF StoresCoins
    <3>3. ~StoresTokens(r[1])'
      BY <1>4, <1>9, <3>1, FileFacts DEF StoresCoins, StoresTokens
    <3> QED BY <1>9, <2>3, <3>2, <3>3 DEF TokensOf
  <2>7. CASE Len(s) = 1
    <3>1. others = tokens
      <4>1. tokens = NoCoins
        BY <1>8, <2>3, <2>7
      <4> QED BY <2>4, <4>1 DEF Switched, NoCoins
    <3>2. Agree(r[1].as, TokensOf(owner))'
      BY <2>5, <2>6, <3>1 DEF Agree
    <3>3. AgreeAfter(r)'
      BY <1>11, <2>6, <2>7, <3>2 DEF AgreeAfter
    <3> QED BY <1>9, <1>10, <1>15, <2>1, <3>3 DEF RegistryStored
  <2>8. CASE Len(s) = 2
    <3>1. r[2].as = others
      <4>1. ShownOf(e.coin) = shown
        BY <2>4 DEF ShownOf
      <4> QED BY <1>8, <1>11, <2>3, <2>4, <2>8, <4>1
    <3>2. Agree(r[1].as, r[2].as)'
      BY <2>5, <3>1 DEF Agree
    <3>3. AgreeAfter(r)'
      BY <1>11, <2>6, <2>8, <3>2 DEF AgreeAfter
    <3> QED BY <1>9, <1>10, <1>15, <2>1, <3>3 DEF RegistryStored
  <2> QED BY <1>8, <2>7, <2>8
<1> QED BY <1>9, <1>13, <1>17, <1>18, <1>19, <1>20 DEF Upgraded

-----------------------------------------------------------------------------
(* The GUI thread reads while the user is in a wallet.                      *)

\* The GUI thread goes on, and only the settings change in memory.
LEMMA GuiGoesOn ==
    ASSUME FilesInv, at = "in", NEW q, q = todo["gui"], q # <<>>,
           UNCHANGED <<risks, disk, at, owner, registry, rawReg, init, token, request>>,
           config' \in Settings,
           NEW r, r = todo'["gui"], DOMAIN todo' = Thread, \A u \in Thread : IsList(todo'[u]),
           \A u \in Thread \ {"gui"} : todo'[u] = todo[u],
           GuiList(r)', disk[CfgFile] = config' \/ (r # <<>> /\ StoresCfg(r[1])'),
           AgreeAfter(q) => AgreeAfter(r)'
    PROVE  FilesInv'
<1> USE DEF FilesInv
<1>1. Typed'
  BY DEF Typed, Holds
<1>2. todo["init"] = <<>> /\ init # "starting"
  BY DEF Lists, Idle, Thread
<1>3. todo'["init"] = <<>> /\ todo'["pool"] = todo["pool"]
  BY <1>2 DEF Thread
<1>4. Lists'
  <2>1. \A l : PoolList(l)' <=> PoolList(l)
    BY DEF PoolList, Updates, StoresCoins, StoresTokens
  <2>2. PoolList(todo["pool"])'
    BY <1>3, <2>1 DEF Lists
  <2>3. InitList(todo["init"])'
    BY <1>3 DEF InitList
  <2>4. GuiList(todo["gui"])'
    OBVIOUS
  <2> QED BY <1>2, <1>3, <2>2, <2>3, <2>4 DEF Lists
<1>5. CfgStored'
  BY DEF CfgStored
<1>6. RawStored'
  BY <1>2, <1>3 DEF RawStored, Provided, Active, HasEntry
<1>7. RegistryStored'
  <2> SUFFICES ASSUME risks \cap {"hasty", "noRemove"} = {}
               PROVE  RegistryStored'
    BY DEF RegistryStored
  <2>1. /\ disk[CoinsFile(owner)] \in Coins /\ disk[TokensFile(owner)] # Torn
        /\ disk[OldFile(owner)] \in Bad /\ todo["pool"] = <<>> /\ AgreeAfter(r)'
    BY DEF RegistryStored
  <2>2. AgreeAfter(todo["gui"])'
    BY <2>1
  <2> QED BY <1>3, <2>1, <2>2 DEF RegistryStored
<1> QED BY <1>1, <1>4, <1>5, <1>6, <1>7 DEF Upgraded

\* Nothing that the registry needs is written: it agrees with the files as before.
LEMMA AgreesAsBefore ==
    ASSUME UNCHANGED <<disk, owner, registry>>,
           NEW q, Len(q) \in {1, 2}, ~StoresCoins(q[1]), ~StoresTokens(q[1]),
           NEW r, Len(r) \in {1, 2}, ~StoresCoins(r[1]), ~StoresTokens(r[1])
    PROVE  AgreeAfter(q) => AgreeAfter(r)'
<1>1. AgreeAfter(q) <=> Agree(disk[CoinsFile(owner)], TokensOf(owner))
  BY DEF AgreeAfter
<1>2. AgreeAfter(r) <=> Agree(disk[CoinsFile(owner)], TokensOf(owner))
  BY DEF AgreeAfter
<1>3. AgreeAfter(r)' <=> AgreeAfter(r)
  BY DEF AgreeAfter, Agree, StoresCoins, StoresTokens, TokensOf
<1> QED BY <1>1, <1>2, <1>3

LEMMA ChoiceReads ==
    ASSUME FilesInv, at = "in", Reads("gui"), ~Stops(todo["gui"][1]),
           Chooses(todo["gui"][1]),
           Len(todo["gui"]) = 1 \/ (Len(todo["gui"]) = 2 /\ Chooses(todo["gui"][2]))
    PROVE  FilesInv'
<1>1. PICK q : q = todo["gui"]
  OBVIOUS
<1>2. PICK s : s = Saves(q[1])
  OBVIOUS
<1>3. config \in Settings /\ owner \in Wallet
  BY DEF FilesInv, Typed
<1>4. /\ IsList(s) /\ Len(s) = 1
      /\ s[1].do = "save" /\ s[1].file = CfgFile /\ s[1].as = Configured(q[1])
      /\ Configured(q[1]) \in Settings /\ Registered(q[1]) = registry
  BY <1>1, <1>2, <1>3, ChoiceWrites
<1>5. /\ IsList(q) /\ q # <<>> /\ todo'["gui"] = s \o Tail(q)
      /\ \A u \in Thread \ {"gui"} : todo'[u] = todo[u]
      /\ DOMAIN todo' = Thread /\ \A u \in Thread : IsList(todo'[u])
      /\ config' = Configured(q[1])
      /\ UNCHANGED <<risks, disk, at, owner, registry, rawReg, init, token, request>>
  <2>1. "gui" \in Thread
    BY DEF Thread
  <2> QED BY <1>1, <1>2, <1>4, <2>1, ReadsDoes
<1>6. PICK r : r = todo'["gui"]
  OBVIOUS
<1>7. Len(r) = Len(q) /\ r[1] = s[1] /\ (Len(r) = 2 => r[2] = q[2])
  <2>1. IsList(q) /\ q # <<>> /\ IsList(s) /\ r = s \o Tail(q)
    BY <1>4, <1>5, <1>6
  <2>2. /\ Len(q) \in Nat /\ Len(r) = Len(s) + (Len(q) - 1)
        /\ \A i \in 1..Len(s) : r[i] = s[i]
        /\ \A i \in 1..(Len(q) - 1) : r[Len(s) + i] = q[i + 1]
    BY <2>1, GoesOn
  <2> QED BY <1>4, <2>2
<1>8. StoresCfg(r[1])'
  BY <1>4, <1>5, <1>7 DEF StoresCfg
<1>9. r # <<>>
  BY <1>1, <1>7
<1>10. GuiList(r)'
  <2>1. Len(r) = 1 \/ (Len(r) = 2 /\ Chooses(r[2])')
    BY <1>1, <1>7 DEF Chooses
  <2> QED BY <1>8, <2>1 DEF GuiList
<1>11. AgreeAfter(q) => AgreeAfter(r)'
  <2>1. ~StoresCoins(q[1]) /\ ~StoresTokens(q[1])
    BY <1>1 DEF Chooses, StoresCoins, StoresTokens
  <2>2. ~StoresCoins(r[1]) /\ ~StoresTokens(r[1])
    BY <1>3, <1>4, <1>7, FileFacts DEF StoresCoins, StoresTokens
  <2>3. Len(q) \in {1, 2} /\ Len(r) \in {1, 2}
    BY <1>1, <1>7
  <2> QED BY <1>5, <2>1, <2>2, <2>3, AgreesAsBefore
<1> QED BY <1>1, <1>4, <1>5, <1>6, <1>8, <1>9, <1>10, <1>11, GuiGoesOn

LEMMA CopyReads ==
    ASSUME FilesInv, at = "in", Reads("gui"), ~Stops(todo["gui"][1]),
           Len(todo["gui"]) = 2, Adds(todo["gui"][1]), todo["gui"][2].do = "status",
           todo["gui"][2].coin = todo["gui"][1].coin,
           todo["gui"][2].coin \in DOMAIN registry, todo["gui"][2].value \in BOOLEAN
    PROVE  FilesInv'
<1>1. PICK q : q = todo["gui"]
  OBVIOUS
<1>2. PICK s : s = Saves(q[1])
  OBVIOUS
<1>3. config \in Settings /\ owner \in Wallet /\ disk[RawFile] \in Counts
  <2>1. Holds(RawFile, disk[RawFile]) /\ disk[RawFile] \notin Bad
    BY FileFacts DEF FilesInv, Typed, Stops, Adds
  <2> QED BY <2>1 DEF FilesInv, Typed, Holds
<1>4. /\ IsList(s) /\ Len(s) = 1 /\ StoresRaw(s[1]) /\ s[1].as[q[1].coin] > 0
      /\ Registered(q[1]) = registry /\ Configured(q[1]) = config
  BY <1>1, <1>2, <1>3, AddWrites
<1>5. /\ IsList(q) /\ q # <<>> /\ todo'["gui"] = s \o Tail(q)
      /\ \A u \in Thread \ {"gui"} : todo'[u] = todo[u]
      /\ DOMAIN todo' = Thread /\ \A u \in Thread : IsList(todo'[u])
      /\ UNCHANGED <<risks, disk, at, config, owner, registry, rawReg, init, token, request>>
  <2>1. "gui" \in Thread
    BY DEF Thread
  <2> QED BY <1>1, <1>2, <1>4, <2>1, ReadsDoes
<1>6. PICK r : r = todo'["gui"]
  OBVIOUS
<1>7. Len(r) = 2 /\ r[1] = s[1] /\ r[2] = q[2]
  <2>1. IsList(q) /\ q # <<>> /\ IsList(s) /\ r = s \o Tail(q)
    BY <1>4, <1>5, <1>6
  <2>2. /\ Len(q) \in Nat /\ Len(r) = Len(s) + (Len(q) - 1)
        /\ \A i \in 1..Len(s) : r[i] = s[i]
        /\ \A i \in 1..(Len(q) - 1) : r[Len(s) + i] = q[i + 1]
    BY <2>1, GoesOn
  <2>3. Len(s) = 1 /\ Len(q) = 2
    BY <1>1, <1>4
  <2>4. r[1] = s[1]
    BY <2>2, <2>3
  <2>5. r[2] = q[2]
    BY <2>2, <2>3
  <2> QED BY <2>2, <2>3, <2>4, <2>5
<1>8. GuiList(r)'
  <2>1. StoresRaw(r[1])'
    BY <1>4, <1>5, <1>7 DEF StoresRaw, HasEntry
  <2>2. Switches(r[2], r[1].as)'
    BY <1>1, <1>4, <1>5, <1>7 DEF Switches, HasEntry, StoresRaw
  <2> QED BY <1>7, <2>1, <2>2 DEF GuiList
<1>9. disk[CfgFile] = config'
  BY <1>1, <1>5 DEF FilesInv, CfgStored, StoresCfg, Adds
<1>10. AgreeAfter(q) => AgreeAfter(r)'
  <2>1. ~StoresCoins(q[1]) /\ ~StoresTokens(q[1])
    BY <1>1 DEF Adds, StoresCoins, StoresTokens
  <2>2. ~StoresCoins(r[1]) /\ ~StoresTokens(r[1])
    BY <1>3, <1>4, <1>7, FileFacts DEF StoresRaw, StoresCoins, StoresTokens
  <2>3. Len(q) \in {1, 2} /\ Len(r) \in {1, 2}
    BY <1>1, <1>7
  <2> QED BY <1>5, <2>1, <2>2, <2>3, AgreesAsBefore
<1> QED BY <1>1, <1>3, <1>5, <1>6, <1>8, <1>9, <1>10, GuiGoesOn

LEMMA GuiReads ==
    ASSUME FilesInv, at = "in", Reads("gui"), ~Stops(todo["gui"][1])
    PROVE  FilesInv'
<1>1. PICK q : q = todo["gui"]
  OBVIOUS
<1>2. q # <<>> /\ IsList(q) /\ q[1].do # "save" /\ GuiList(q)
  BY <1>1 DEF Reads, FilesInv, Typed, Lists, Thread
<1>3. Len(q) # 0
  BY <1>2, ListFacts
<1>4. \/ Len(q) = 1 /\ Switches(q[1], disk[RawFile])
      \/ Len(q) = 1 /\ Chooses(q[1])
      \/ /\ Len(q) = 2 /\ Adds(q[1]) /\ q[2].do = "status" /\ q[2].coin = q[1].coin
         /\ q[2].coin \in DOMAIN registry /\ q[2].value \in BOOLEAN
      \/ Len(q) = 2 /\ Chooses(q[1]) /\ Chooses(q[2])
  BY <1>2, <1>3 DEF GuiList, Updates, StoresCoins, StoresTokens, StoresRaw, StoresCfg
<1> QED BY <1>1, <1>4, StatusReads, ChoiceReads, CopyReads

-----------------------------------------------------------------------------
(* The initialisation and the pool read.                                    *)

LEMMA InitReads ==
    ASSUME FilesInv, at = "in", Reads("init"), ~Stops(todo["init"][1])
    PROVE  FilesInv'
<1>1. PICK q : q = todo["init"]
  OBVIOUS
<1>2. PICK s : s = Saves(q[1])
  OBVIOUS
<1>3. /\ q # <<>> /\ IsList(q) /\ Len(q) \in Nat \ {0} /\ q[1].do # "save" /\ InitList(q)
      /\ owner \in Wallet /\ config \in Settings /\ todo["gui"] = <<>> /\ init # "starting"
  <2>1. q # <<>> /\ IsList(q)
    BY <1>1 DEF Reads, FilesInv, Typed, Thread
  <2> QED BY <1>1, <2>1, ListFacts DEF Reads, FilesInv, Typed, Lists, Idle, Thread
<1>4. \A i \in 1..Len(q) : Adds(q[i])
  BY <1>3 DEF InitList, StoresRaw
<1>5. Adds(q[1]) /\ disk[RawFile] \in Counts
  <2>1. Adds(q[1])
    BY <1>3, <1>4
  <2>2. Holds(RawFile, disk[RawFile]) /\ disk[RawFile] \notin Bad
    BY <1>1, <2>1, FileFacts DEF FilesInv, Typed, Stops, Adds
  <2> QED BY <2>1, <2>2 DEF Holds
<1>6. /\ IsList(s) /\ Len(s) = 1 /\ StoresRaw(s[1]) /\ s[1].as[q[1].coin] > 0
      /\ Registered(q[1]) = registry /\ Configured(q[1]) = config
  BY <1>2, <1>5, AddWrites
<1>7. /\ todo'["init"] = s \o Tail(q)
      /\ \A u \in Thread \ {"init"} : todo'[u] = todo[u]
      /\ DOMAIN todo' = Thread /\ \A u \in Thread : IsList(todo'[u])
      /\ UNCHANGED <<risks, disk, at, config, owner, registry, rawReg, init, token, request>>
  <2>1. "init" \in Thread
    BY DEF Thread
  <2> QED BY <1>1, <1>2, <1>6, <2>1, ReadsDoes
<1>8. PICK r : r = todo'["init"]
  OBVIOUS
<1>9. Len(r) = Len(q) /\ r[1] = s[1] /\ \A i \in 2..Len(q) : r[i] = q[i]
  <2>1. IsList(q) /\ q # <<>> /\ IsList(s) /\ r = s \o Tail(q)
    BY <1>3, <1>6, <1>7, <1>8
  <2>2. /\ Len(r) = Len(s) + (Len(q) - 1)
        /\ \A i \in 1..Len(s) : r[i] = s[i]
        /\ \A i \in 1..(Len(q) - 1) : r[Len(s) + i] = q[i + 1]
    BY <2>1, GoesOn
  <2>3. Len(r) = Len(q) /\ r[1] = s[1]
    BY <1>3, <1>6, <2>2
  <2>4. ASSUME NEW i \in 2..Len(q)
        PROVE  r[i] = q[i]
    <3>1. i - 1 \in 1..(Len(q) - 1) /\ Len(s) + (i - 1) = i /\ (i - 1) + 1 = i
      BY <1>3, <1>6
    <3> QED BY <2>2, <3>1
  <2> QED BY <2>3, <2>4
<1>10. Typed'
  BY <1>7 DEF FilesInv, Typed, Holds
<1>11. todo'["gui"] = <<>> /\ todo'["pool"] = todo["pool"]
  BY <1>3, <1>7 DEF Thread
<1>12. Lists'
  <2>1. InitList(r)
    <3>1. \A i \in 1..Len(r) : i = 1 \/ i \in 2..Len(q)
      BY <1>3, <1>9
    <3> QED BY <1>4, <1>6, <1>9, <3>1 DEF InitList
  <2>2. InitList(r)' /\ PoolList(todo["pool"])'
    <3>1. PoolList(todo["pool"])
      BY DEF FilesInv, Lists
    <3> QED BY <1>7, <1>11, <2>1, <3>1, SameLists
  <2>3. InitList(todo["init"])'
    BY <1>8, <2>2
  <2>4. GuiList(todo["gui"])'
    BY <1>11 DEF GuiList
  <2> QED BY <1>3, <1>7, <1>11, <2>2, <2>3, <2>4 DEF FilesInv, Lists
<1>13. CfgStored'
  BY <1>3, <1>7 DEF FilesInv, CfgStored
<1>14. RawStored'
  <2>1. \A c \in Custom \cap rawReg : HasEntry(disk[RawFile], c)
    BY DEF FilesInv, RawStored
  <2>2. (init = "done") => \A c \in Custom \cap Active : registry[c].backup => Provided(c)
    BY DEF FilesInv, RawStored
  <2>3. ASSUME NEW c \in Custom, Provided(c)
        PROVE  Provided(c)'
    <3>1. CASE HasEntry(disk[RawFile], c)
      BY <1>7, <3>1 DEF Provided, HasEntry
    <3>2. CASE \E i \in 1..Len(q) : \/ q[i].do = "add" /\ q[i].coin = c
                                    \/ q[i].do = "save" /\ q[i].as[c] > 0
      <4>1. PICK i \in 1..Len(q) : q[i].coin = c
        BY <1>4, <3>2 DEF Adds
      <4>2. CASE i = 1
        <5>1. r[1].do = "save" /\ r[1].as[c] > 0 /\ 1 \in 1..Len(r)
          BY <1>3, <1>6, <1>9, <4>1, <4>2 DEF StoresRaw
        <5> QED BY <1>8, <5>1 DEF Provided
      <4>3. CASE i # 1
        <5>1. i \in 1..Len(r) /\ r[i] = q[i] /\ q[i].do = "add"
          BY <1>3, <1>4, <1>9, <4>3 DEF Adds
        <5> QED BY <1>8, <4>1, <5>1 DEF Provided
      <4> QED BY <4>2, <4>3
    <3> QED BY <1>1, <2>3, <3>1, <3>2 DEF Provided
  <2>4. Active' = Active
    BY <1>7 DEF Active
  <2> QED BY <1>7, <2>1, <2>2, <2>3, <2>4 DEF RawStored, HasEntry
<1>15. RegistryStored'
  <2> SUFFICES ASSUME risks \cap {"hasty", "noRemove"} = {}
               PROVE  RegistryStored'
    BY <1>7 DEF RegistryStored
  <2>1. /\ disk[CoinsFile(owner)] \in Coins /\ disk[TokensFile(owner)] # Torn
        /\ disk[OldFile(owner)] \in Bad
        /\ todo["pool"] = <<>> /\ AgreeAfter(todo["gui"])
    BY <1>1, <1>3 DEF FilesInv, RegistryStored
  <2>2. AgreeAfter(todo["gui"])'
    BY <1>3, <1>7, <1>11, <2>1, SameAgreement
  <2> QED BY <1>7, <1>11, <2>1, <2>2 DEF RegistryStored
<1> QED BY <1>7, <1>10, <1>12, <1>13, <1>14, <1>15 DEF FilesInv, Upgraded

\* The continuation goes on.
LEMMA PoolGoesOn ==
    ASSUME FilesInv, at \in {"in", "modal"}, NEW q, q = todo["pool"], q # <<>>,
           UNCHANGED <<risks, disk, at, config, owner, registry, rawReg, init, token, request>>,
           NEW r, r = todo'["pool"], DOMAIN todo' = Thread, \A u \in Thread : IsList(todo'[u]),
           \A u \in Thread \ {"pool"} : todo'[u] = todo[u],
           PoolList(r), AgreeAfter(q) => AgreeAfter(r)'
    PROVE  FilesInv'
<1> USE DEF FilesInv
<1>1. Typed'
  BY DEF Typed, Holds
<1>2. todo'["init"] = todo["init"] /\ todo'["gui"] = todo["gui"]
  BY DEF Thread
<1>3. Lists'
  <2>1. PoolList(todo["pool"])'
    BY SameLists
  <2>2. CASE at = "in"
    <3>1. GuiList(todo["gui"]) /\ InitList(todo["init"])
      BY <2>2 DEF Lists
    <3>2. GuiList(todo["gui"])' /\ InitList(todo["init"])'
      BY <1>2, <3>1, SameLists
    <3>3. init # "starting" /\ (todo'["init"] # <<>> => todo'["gui"] = <<>>)
      BY <1>2, <2>2 DEF Lists, Idle, Thread
    <3> QED BY <2>1, <2>2, <3>2, <3>3 DEF Lists
  <2>3. CASE at = "modal"
    <3>1. /\ \A i \in 1..Len(todo["gui"]) : Thing(todo["gui"][i])
          /\ Removals(todo["gui"]) /\ todo["init"] = <<>>
      BY <2>3 DEF Lists
    <3>2. \A e : Thing(e)' <=> Thing(e)
      BY SameLists
    <3>3. \A i \in 1..Len(todo'["gui"]) : Thing(todo["gui"][i])'
      BY <1>2, <3>1, <3>2
    <3>4. Removals(todo["gui"])'
      BY <1>2, <3>1, SameLists
    <3> QED BY <1>2, <2>1, <2>3, <3>1, <3>3, <3>4 DEF Lists
  <2> QED BY <2>2, <2>3
<1>4. CfgStored'
  BY <1>2 DEF CfgStored, StoresCfg
<1>5. RawStored'
  BY <1>2 DEF RawStored, Provided, Active, HasEntry
<1>6. RegistryStored'
  <2> SUFFICES ASSUME at = "in", risks \cap {"hasty", "noRemove"} = {}
               PROVE  RegistryStored'
    BY DEF RegistryStored
  <2>1. /\ disk[CoinsFile(owner)] \in Coins /\ disk[TokensFile(owner)] # Torn
        /\ disk[OldFile(owner)] \in Bad
        /\ todo["gui"] = <<>> /\ todo["init"] = <<>> /\ AgreeAfter(r)'
    BY DEF RegistryStored
  <2>2. AgreeAfter(todo["pool"])'
    BY <2>1
  <2> QED BY <1>2, <2>1, <2>2 DEF RegistryStored
<1> QED BY <1>1, <1>3, <1>4, <1>5, <1>6 DEF Upgraded

LEMMA PoolReads ==
    ASSUME FilesInv, at \in {"in", "modal"}, Reads("pool"), ~Stops(todo["pool"][1])
    PROVE  FilesInv'
<1>1. PICK q : q = todo["pool"]
  OBVIOUS
<1>2. PICK e : e = q[1]
  OBVIOUS
<1>3. /\ q # <<>> /\ IsList(q) /\ Len(q) = 1 /\ e.do = "segwit" /\ e.value \in BOOLEAN
      /\ owner \in Wallet
  <2>1. q # <<>> /\ IsList(q) /\ q[1].do # "save" /\ PoolList(q) /\ owner \in Wallet
    BY <1>1 DEF Reads, FilesInv, Typed, Lists, Thread
  <2>2. Len(q) # 0
    BY <2>1, ListFacts
  <2>3. ~Updates(q)
    BY <2>1 DEF Updates, StoresCoins, StoresTokens
  <2> QED BY <1>2, <2>1, <2>2, <2>3 DEF PoolList
<1> DEFINE C == CoinsFile(owner)
           T == TokensFile(owner)
<1>4. disk[C] \in Coins /\ TokensOf(owner) \in Tokens
  <2>1. disk[C] \notin Bad /\ disk[T] # Torn
    BY <1>1, <1>2, <1>3 DEF Stops
  <2>2. {C, T} \subseteq File
    BY <1>3, FileFacts
  <2>3. Holds(C, disk[C]) /\ Holds(T, disk[T])
    BY <2>2 DEF FilesInv, Typed
  <2> QED BY <1>3, <2>1, <2>3, TokensTyped DEF Holds
<1>5. PICK s : s = UpdateCoinStatus(None, e.value)
  OBVIOUS
<1>6. Saves(e) = s /\ Configured(e) = config /\ Registered(e) = registry
  BY <1>3, <1>5 DEF Saves, Configured, Registered
<1>7. /\ IsList(s) /\ Updates(s) /\ StoresCoins(s[1]) /\ Len(s) \in {1, 2}
      /\ s[1].as = Switched(disk[C], ShownOf(None), e.value)
      /\ Len(s) = 1 => TokensOf(owner) = NoCoins
      /\ Len(s) = 2 => s[2].as = Switched(TokensOf(owner), {None} \ ShownOf(None), e.value)
  BY <1>3, <1>4, <1>5, StatusWrites
<1>8. /\ todo'["pool"] = s \o Tail(q)
      /\ \A u \in Thread \ {"pool"} : todo'[u] = todo[u]
      /\ DOMAIN todo' = Thread /\ \A u \in Thread : IsList(todo'[u])
      /\ UNCHANGED <<risks, disk, at, config, owner, registry, rawReg, init, token, request>>
  <2>1. "pool" \in Thread
    BY DEF Thread
  <2> QED BY <1>1, <1>2, <1>6, <1>7, <2>1, ReadsDoes
<1>9. PICK r : r = todo'["pool"]
  OBVIOUS
<1>10. Len(r) = Len(s) /\ \A i \in 1..Len(s) : r[i] = s[i]
  <2>1. IsList(q) /\ q # <<>> /\ IsList(s) /\ r = s \o Tail(q)
    BY <1>3, <1>7, <1>8, <1>9
  <2>2. /\ Len(s) \in Nat /\ Len(r) = Len(s) + (Len(q) - 1)
        /\ \A i \in 1..Len(s) : r[i] = s[i]
    BY <2>1, GoesOn
  <2> QED BY <1>3, <2>2
<1>11. Updates(r)
  BY <1>7, <1>10 DEF Updates
<1>12. AgreeAfter(q) => AgreeAfter(r)'
  <2> SUFFICES ASSUME AgreeAfter(q)
               PROVE  AgreeAfter(r)'
    OBVIOUS
  <2>1. PICK tokens : tokens = TokensOf(owner)
    OBVIOUS
  <2>2. Agrees(registry, disk[C], tokens)
    BY <1>2, <1>3, <2>1 DEF AgreeAfter, Agree, StoresCoins, StoresTokens
  <2>3. ShownOf(None) = {} /\ None \notin DOMAIN tokens
    <3>1. None \notin Coin /\ DOMAIN registry \subseteq Coin
      BY FilesAssumption DEF FilesInv, Typed
    <3>2. DOMAIN tokens \subseteq Coin
      BY <1>4, <2>1, TokensHold
    <3> QED BY <3>1, <3>2 DEF ShownOf
  <2>8. PICK others : others = Switched(tokens, {None} \ {}, e.value)
    OBVIOUS
  <2>4. Agrees(registry, r[1].as, others)
    <3>1. disk[C] \in Coins /\ tokens \in Tokens
      BY <1>4, <2>1
    <3>2. r[1].as = Switched(disk[C], {}, e.value)
      BY <1>7, <1>10, <2>3
    <3>3. ({None} \ {}) \cap DOMAIN tokens = {}
      BY <2>3
    <3> QED BY <1>3, <2>2, <2>8, <3>1, <3>2, <3>3, CopyAgrees
  <2>5. TokensOf(owner)' = tokens /\ ~StoresTokens(r[1])' /\ StoresCoins(r[1])'
    <3>1. StoresCoins(r[1])
      BY <1>7, <1>10
    <3>2. StoresCoins(r[1])'
      BY <1>8, <3>1 DEF StoresCoins
    <3>3. ~StoresTokens(r[1])'
      BY <1>3, <1>8, <3>1, FileFacts DEF StoresCoins, StoresTokens
    <3> QED BY <1>8, <2>1, <3>2, <3>3 DEF TokensOf
  <2>6. CASE Len(s) = 1
    <3>1. others = tokens
      <4>1. tokens = NoCoins
        BY <1>7, <2>1, <2>6
      <4> QED BY <2>8, <4>1 DEF Switched, NoCoins
    <3>2. Agree(r[1].as, TokensOf(owner))'
      BY <1>8, <2>4, <2>5, <3>1 DEF Agree
    <3> QED BY <1>10, <2>5, <2>6, <3>2 DEF AgreeAfter
  <2>7. CASE Len(s) = 2
    <3>1. r[2].as = others
      BY <1>7, <1>10, <2>1, <2>3, <2>7, <2>8
    <3>2. Agree(r[1].as, r[2].as)'
      BY <1>8, <2>4, <3>1 DEF Agree
    <3> QED BY <1>10, <2>5, <2>7, <3>2 DEF AgreeAfter
  <2> QED BY <1>7, <2>6, <2>7
<1>13. PoolList(r)
  BY <1>11 DEF PoolList
<1> QED BY <1>1, <1>3, <1>8, <1>9, <1>12, <1>13, PoolGoesOn

\* An exception in the continuation is caught.
LEMMA PoolStops ==
    ASSUME FilesInv, at \in {"in", "modal"}, Reads("pool"), Stops(todo["pool"][1])
    PROVE  FilesInv'
<1>1. PICK q : q = todo["pool"]
  OBVIOUS
<1>2. /\ q # <<>> /\ q[1].do # "save" /\ IsList(q) /\ PoolList(q)
      /\ DOMAIN todo = Thread /\ \A u \in Thread : IsList(todo[u])
  BY <1>1 DEF Reads, FilesInv, Typed, Lists, Thread
<1>3. /\ todo' = [todo EXCEPT !["pool"] = <<>>]
      /\ UNCHANGED <<risks, disk, at, config, owner, registry, rawReg, init, token, request>>
  BY DEF Reads, memory, sessionVars, tokenVars
<1>4. PICK r : r = todo'["pool"]
  OBVIOUS
<1>5. /\ r = <<>> /\ DOMAIN todo' = Thread /\ \A u \in Thread : IsList(todo'[u])
      /\ \A u \in Thread \ {"pool"} : todo'[u] = todo[u]
  BY <1>2, <1>3, <1>4, ShortLists DEF Thread
<1>6. ~Updates(q) /\ ~StoresCoins(q[1]) /\ ~StoresTokens(q[1]) /\ Len(q) = 1
  <2>1. ~Updates(q) /\ ~StoresCoins(q[1]) /\ ~StoresTokens(q[1])
    BY <1>2 DEF Updates, StoresCoins, StoresTokens
  <2>2. Len(q) # 0
    BY <1>2, ListFacts
  <2> QED BY <1>2, <2>1, <2>2 DEF PoolList
<1>7. AgreeAfter(q) => AgreeAfter(r)'
  <2>1. AgreeAfter(q) <=> Agree(disk[CoinsFile(owner)], TokensOf(owner))
    BY <1>6 DEF AgreeAfter
  <2>2. AgreeAfter(r) <=> Agree(disk[CoinsFile(owner)], TokensOf(owner))
    <3>1. Len(r) = 0
      BY <1>5
    <3>2. ~(Len(r) > 0) /\ Len(r) # 1 /\ Len(r) # 2
      <4>1. PICK n \in Nat : n = Len(r) /\ n = 0
        BY <3>1
      <4>2. ~(n > 0) /\ n # 1 /\ n # 2
        BY <4>1
      <4> QED BY <4>1, <4>2, Zenon
    <3> QED BY <3>2, Zenon DEF AgreeAfter
  <2>3. AgreeAfter(r)' <=> AgreeAfter(r)
    BY <1>3, SameAgreement
  <2> QED BY <2>1, <2>2, <2>3
<1>8. PoolList(r)
  BY <1>5 DEF PoolList
<1> QED BY <1>1, <1>2, <1>3, <1>4, <1>5, <1>7, <1>8, PoolGoesOn

-----------------------------------------------------------------------------
(* The GUI thread reads while the user is told of a restart.                *)

\* While the user is told of a restart, the GUI thread goes on.
LEMMA ModalGoesOn ==
    ASSUME FilesInv, at = "modal", Reads("gui"), ~Stops(todo["gui"][1]),
           NEW e, e = todo["gui"][1], NEW s, s = Saves(e), IsList(s),
           \A i \in 1..Len(s) : /\ Stores(s[i]) /\ s[i].file # CfgFile
                                /\ s[i].file = RawFile => e.do \in {"add", "del"},
           Configured(e) = config,
           DOMAIN Registered(e) \subseteq Coin,
           \A c \in DOMAIN Registered(e) : Registered(e)[c] \in Entry
    PROVE  FilesInv'
<1> USE DEF FilesInv
<1>1. PICK q : q = todo["gui"]
  OBVIOUS
<1>2. PICK g : g = registry'
  OBVIOUS
<1>3. /\ IsList(q) /\ q # <<>> /\ q[1].do # "save" /\ todo'["gui"] = s \o Tail(q)
      /\ \A u \in Thread \ {"gui"} : todo'[u] = todo[u]
      /\ DOMAIN todo' = Thread /\ \A u \in Thread : IsList(todo'[u])
      /\ registry' = Registered(e)
      /\ UNCHANGED <<risks, disk, at, config, owner, rawReg, init, token, request>>
  <2>1. "gui" \in Thread
    BY DEF Thread
  <2> QED BY <1>1, <2>1, ReadsDoes
<1>4. PICK r : r = todo'["gui"]
  OBVIOUS
<1>5. /\ Len(q) \in Nat \ {0} /\ Len(s) \in Nat
      /\ Len(r) = Len(s) + (Len(q) - 1)
      /\ \A i \in 1..Len(s) : r[i] = s[i]
      /\ \A i \in 1..(Len(q) - 1) : r[Len(s) + i] = q[i + 1]
  <2>1. IsList(q) /\ q # <<>> /\ IsList(s) /\ r = s \o Tail(q)
    BY <1>3, <1>4
  <2> HIDE DEF FilesInv
  <2> QED BY <2>1, GoesOn
<1>6. \A i \in 1..Len(q) : Thing(q[i])
  BY <1>1 DEF Lists
<1>7. Removals(q)
  BY <1>1 DEF Lists
<1>8. \A i \in 1..Len(r) :
          \/ i \in 1..Len(s) /\ r[i] = s[i]
          \/ i > Len(s) /\ i - Len(s) + 1 \in 2..Len(q) /\ r[i] = q[i - Len(s) + 1]
  <2> SUFFICES ASSUME NEW i \in 1..Len(r), i \notin 1..Len(s)
               PROVE  i > Len(s) /\ i - Len(s) + 1 \in 2..Len(q) /\ r[i] = q[i - Len(s) + 1]
    BY <1>5
  <2>1. i - Len(s) \in 1..(Len(q) - 1) /\ Len(s) + (i - Len(s)) = i
    BY <1>5
  <2>2. r[i] = q[(i - Len(s)) + 1]
    BY <1>5, <2>1
  <2> QED BY <1>5, <2>1, <2>2
<1>9. \A i \in 1..Len(r) : Thing(r[i])
  <2> SUFFICES ASSUME NEW i \in 1..Len(r)
               PROVE  Thing(r[i])
    OBVIOUS
  <2>1. CASE i \in 1..Len(s) /\ r[i] = s[i]
    BY <2>1 DEF Thing
  <2>2. CASE i - Len(s) + 1 \in 2..Len(q) /\ r[i] = q[i - Len(s) + 1]
    <3>1. PICK k \in 1..Len(q) : r[i] = q[k]
      BY <1>5, <2>2
    <3> QED BY <1>6, <3>1
  <2> QED BY <1>8, <2>1, <2>2
<1>10. Removals(r)
  <2> SUFFICES ASSUME NEW i \in 1..Len(r), r[i].do = "del"
               PROVE  /\ HasEntry(disk[RawFile], r[i].coin)
                      /\ \A j \in 1..(i - 1) : /\ r[j].do \notin {"add", "del"}
                                               /\ r[j].do = "save" => r[j].file # RawFile
    BY DEF Removals
  <2>1. i > Len(s) /\ i - Len(s) + 1 \in 2..Len(q) /\ r[i] = q[i - Len(s) + 1]
    BY <1>8 DEF Stores
  <2>2. PICK k \in 2..Len(q) : k = i - Len(s) + 1 /\ r[i] = q[k]
    BY <2>1
  <2>3. k \in 1..Len(q) /\ q[k].do = "del" /\ 1 \in 1..(k - 1)
    BY <1>5, <2>2
  <2>4. /\ HasEntry(disk[RawFile], q[k].coin)
        /\ \A j \in 1..(k - 1) : /\ q[j].do \notin {"add", "del"}
                                 /\ q[j].do = "save" => q[j].file # RawFile
    BY <1>7, <2>3 DEF Removals
  <2>5. \A j \in 1..Len(s) : r[j].do = "save" /\ r[j].file # RawFile
    BY <1>1, <1>5, <2>3, <2>4 DEF Stores
  <2>6. \A j \in 1..(i - 1) : j \in 1..Len(s) \/ j - Len(s) + 1 \in 1..(k - 1)
    BY <1>5, <2>2
  <2>7. \A j \in 1..(i - 1) : j \in 1..Len(r)
    BY <1>5
  <2>8. ASSUME NEW j \in 1..(i - 1)
        PROVE  /\ r[j].do \notin {"add", "del"}
               /\ r[j].do = "save" => r[j].file # RawFile
    <3>1. CASE j \in 1..Len(s)
      BY <2>5, <3>1
    <3>2. CASE j \notin 1..Len(s)
      <4>1. r[j] = q[j - Len(s) + 1] /\ j - Len(s) + 1 \in 1..(k - 1)
        BY <1>8, <2>6, <2>7, <3>2
      <4> QED BY <2>4, <4>1
    <3> QED BY <3>1, <3>2
  <2> QED BY <2>2, <2>4, <2>8
<1>11. todo'["init"] = <<>> /\ todo'["pool"] = todo["pool"]
  BY <1>3 DEF Lists, Thread
<1>12. Typed'
  BY <1>3 DEF Typed, Holds
<1>13. Lists'
  <2>1. \A l : PoolList(l)' <=> PoolList(l)
    BY <1>3 DEF PoolList, Updates, StoresCoins, StoresTokens
  <2>2. PoolList(todo["pool"])'
    BY <1>11, <2>1 DEF Lists
  <2>3. \A i \in 1..Len(todo'["gui"]) : Thing(todo["gui"][i])'
    <3>1. \A x : Thing(x)' <=> Thing(x)
      BY DEF Thing, Stores, Holds, Adds
    <3> QED BY <1>4, <1>9, <3>1
  <2>4. Removals(todo["gui"])'
    <3>1. \A l : Removals(l)' <=> Removals(l)
      BY <1>3 DEF Removals, HasEntry
    <3> QED BY <1>4, <1>10, <3>1
  <2> QED BY <1>3, <1>11, <2>2, <2>3, <2>4 DEF Lists
<1>14. CfgStored'
  BY <1>3 DEF CfgStored
<1> QED BY <1>3, <1>12, <1>13, <1>14 DEF RawStored, Upgraded, RegistryStored

\* What an edit stores, and the registry then, while the user is told of a restart.
LEMMA ThingWrites ==
    ASSUME FilesInv, at = "modal", NEW e, Thing(e), e.do # "save", ~Stops(e),
           e.do = "del" => e.coin \in Custom /\ HasEntry(disk[RawFile], e.coin),
           NEW s, s = Saves(e)
    PROVE  /\ IsList(s)
           /\ \A i \in 1..Len(s) : /\ Stores(s[i]) /\ s[i].file # CfgFile
                                   /\ s[i].file = RawFile => e.do \in {"add", "del"}
           /\ Configured(e) = config
           /\ DOMAIN Registered(e) \subseteq Coin
           /\ \A c \in DOMAIN Registered(e) : Registered(e)[c] \in Entry
<1>1. /\ owner \in Wallet /\ \A f \in File : Holds(f, disk[f])
      /\ DOMAIN registry \subseteq Coin /\ \A c \in DOMAIN registry : registry[c] \in Entry
  BY DEF FilesInv, Typed
<1> DEFINE C == CoinsFile(owner)
           T == TokensFile(owner)
<1>2. {C, T, RawFile} \subseteq File
  BY <1>1, FileFacts
<1>3. Holds(C, disk[C]) /\ Holds(T, disk[T]) /\ Holds(RawFile, disk[RawFile])
  BY <1>1, <1>2
<1>4. Configured(e) = config
  BY DEF Configured, Thing, Stores, Adds
<1>5. \/ Adds(e)
      \/ e.do \in {"del", "untoken"} /\ e.coin \in Custom
      \/ e.do = "token" /\ e.coin \in Custom /\ e.value \in BOOLEAN
      \/ e.do = "status" /\ e.coin \in Coin /\ e.value \in BOOLEAN
      \/ e.do = "deactivate"
  BY DEF Thing, Stores
<1>6. \A w : StoresCoins(w) \/ StoresTokens(w) =>
                 Stores(w) /\ w.file # CfgFile /\ w.file # RawFile
  BY <1>1, UpdateStores
<1> DEFINE Good ==
              /\ IsList(s)
              /\ \A i \in 1..Len(s) : /\ Stores(s[i]) /\ s[i].file # CfgFile
                                      /\ s[i].file = RawFile => e.do \in {"add", "del"}
              /\ DOMAIN Registered(e) \subseteq Coin
              /\ \A c \in DOMAIN Registered(e) : Registered(e)[c] \in Entry
<1>7. ASSUME Adds(e)
      PROVE  Good
  <2>1. e.do = "add" /\ disk[RawFile] \in Counts
    BY <1>3, <1>7 DEF Adds, Stops, Holds
  <2>2. IsList(s) /\ Len(s) = 1 /\ StoresRaw(s[1]) /\ Registered(e) = registry
    BY <1>7, <2>1, AddWrites
  <2>3. Stores(s[1]) /\ s[1].file # CfgFile
    BY <1>2, <2>2, FileFacts DEF StoresRaw, Stores, Holds
  <2> QED BY <1>1, <2>1, <2>2, <2>3
<1>8. ASSUME e.do = "del", e.coin \in Custom, HasEntry(disk[RawFile], e.coin)
      PROVE  Good
  <2> DEFINE raw == disk[RawFile]
             new == [raw EXCEPT ![e.coin] = @ - 1]
             w   == Write(RawFile, new)
  <2>1. new \in Counts
    BY <1>8 DEF HasEntry, Counts
  <2>2. s = <<w>> /\ Registered(e) = registry
    BY <1>8 DEF Saves, Registered
  <2>3. w.do = "save" /\ w.file = RawFile /\ w.as = new
    BY DEF Write, SaveAs
  <2> HIDE DEF w, new
  <2>4. Stores(w) /\ w.file # CfgFile
    BY <1>2, <2>1, <2>3, FileFacts DEF Stores, Holds
  <2>5. IsList(s) /\ Len(s) = 1 /\ s[1] = w
    BY <2>2, ShortLists
  <2> QED BY <1>1, <1>8, <2>2, <2>4, <2>5
<1>9. ASSUME NEW v, v \in Tokens, s = <<Write(T, v)>>,
             DOMAIN Registered(e) \subseteq DOMAIN registry,
             \A c \in DOMAIN Registered(e) : Registered(e)[c] = registry[c]
      PROVE  Good
  <2> DEFINE w == Write(T, v)
  <2>1. StoresTokens(w)
    BY <1>9 DEF StoresTokens, Write, SaveAs
  <2> HIDE DEF w
  <2>2. IsList(s) /\ Len(s) = 1 /\ s[1] = w
    BY <1>9, ShortLists DEF w
  <2> QED BY <1>1, <1>6, <1>9, <2>1, <2>2
<1>10. disk[T] # Torn => TokensOf(owner) \in Tokens
  BY <1>1, <1>3, TokensTyped
<1>11. ASSUME e.do = "untoken"
       PROVE  Good
  <2> DEFINE rest == DOMAIN TokensOf(owner) \ {e.coin}
             new == [x \in rest |-> TokensOf(owner)[x]]
  <2>1. TokensOf(owner) \in Tokens
    BY <1>10, <1>11 DEF Stops, Bad
  <2>2. new \in Tokens
    <3>1. PICK S \in SUBSET Coin : TokensOf(owner) \in [S -> {x \in Entry : x.custom}]
      BY <2>1, TokensAre
    <3>2. new \in [S \ {e.coin} -> {x \in Entry : x.custom}] /\ S \ {e.coin} \in SUBSET Coin
      BY <3>1
    <3> HIDE DEF new
    <3> QED BY <3>2, TokensAre
  <2>3. s = <<Write(T, new)>>
    BY <1>11 DEF Saves
  <2>4. Registered(e) = [c \in DOMAIN registry \ {e.coin} |-> registry[c]]
    BY <1>11 DEF Registered
  <2>5. /\ DOMAIN Registered(e) \subseteq DOMAIN registry
        /\ \A c \in DOMAIN Registered(e) : Registered(e)[c] = registry[c]
    BY <2>4
  <2> HIDE DEF new, Good
  <2> QED BY <1>9, <2>2, <2>3, <2>5
<1>12. ASSUME e.do = "token", e.coin \in Custom, e.value \in BOOLEAN
       PROVE  Good
  <2> DEFINE rest == DOMAIN TokensOf(owner) \ {e.coin}
             new == [x \in rest \cup {e.coin} |->
                        IF x = e.coin THEN [active |-> TRUE, custom |-> TRUE, backup |-> e.value]
                        ELSE TokensOf(owner)[x]]
  <2>1. TokensOf(owner) \in Tokens
    BY <1>10, <1>12 DEF Stops
  <2>2. new \in Tokens
    <3>1. PICK S \in SUBSET Coin : TokensOf(owner) \in [S -> {x \in Entry : x.custom}]
      BY <2>1, TokensAre
    <3>2. [active |-> TRUE, custom |-> TRUE, backup |-> e.value] \in {x \in Entry : x.custom}
      BY <1>12 DEF Entry
    <3>3. new \in [S \cup {e.coin} -> {x \in Entry : x.custom}] /\ S \cup {e.coin} \in SUBSET Coin
      BY <1>12, <3>1, <3>2 DEF Coin
    <3> HIDE DEF new
    <3> QED BY <3>3, TokensAre
  <2>3. s = <<Write(T, new)>>
    BY <1>12 DEF Saves
  <2>4. Registered(e) = registry
    BY <1>12 DEF Registered
  <2>5. /\ DOMAIN Registered(e) \subseteq DOMAIN registry
        /\ \A c \in DOMAIN Registered(e) : Registered(e)[c] = registry[c]
    BY <2>4
  <2> HIDE DEF new, Good
  <2> QED BY <1>9, <2>2, <2>3, <2>5
<1>13. ASSUME e.do = "deactivate"
       PROVE  Good
  <2> DEFINE off == Switched(TokensOf(owner), DOMAIN TokensOf(owner), FALSE)
  <2>1. TokensOf(owner) \in Tokens
    BY <1>10, <1>13 DEF Stops
  <2>2. off \in Tokens
    BY <2>1, SwitchedTokens
  <2>3. s = IF disk[T] = Absent THEN <<>> ELSE <<Write(T, off)>>
    BY <1>13 DEF Saves
  <2>4. Registered(e) = registry
    BY <1>13 DEF Registered
  <2>5. /\ DOMAIN Registered(e) \subseteq DOMAIN registry
        /\ \A c \in DOMAIN Registered(e) : Registered(e)[c] = registry[c]
    BY <2>4
  <2> HIDE DEF off
  <2>6. CASE disk[T] = Absent
    <3>1. s = <<>> /\ IsList(s) /\ Len(s) = 0
      BY <2>3, <2>6, ShortLists
    <3> QED BY <1>1, <2>4, <3>1
  <2>7. CASE disk[T] # Absent
    <3> HIDE DEF Good
    <3> QED BY <1>9, <2>2, <2>3, <2>5, <2>7
  <2> QED BY <2>6, <2>7
<1>14. ASSUME e.do = "status", e.coin \in Coin, e.value \in BOOLEAN
       PROVE  Good
  <2>1. disk[C] \in Coins /\ TokensOf(owner) \in Tokens
    BY <1>1, <1>3, <1>10, <1>14 DEF Stops, Holds
  <2>2. s = UpdateCoinStatus(e.coin, e.value)
        /\ Registered(e) = [registry EXCEPT ![e.coin].active = e.value]
    BY <1>14 DEF Saves, Registered
  <2>3. IsList(s) /\ Updates(s) /\ Len(s) \in {1, 2}
    BY <1>1, <1>14, <2>1, <2>2, StatusWrites
  <2>4. \A i \in 1..Len(s) : StoresCoins(s[i]) \/ StoresTokens(s[i])
    BY <2>3 DEF Updates
  <2>5. /\ DOMAIN Registered(e) = DOMAIN registry
        /\ \A c \in DOMAIN registry : Registered(e)[c] \in Entry
    <3>1. PICK g : g = Registered(e)
      OBVIOUS
    <3> QED BY <1>1, <1>14, <2>2, <3>1, Registers
  <2> QED BY <1>1, <1>6, <2>3, <2>4, <2>5
<1>15. CASE e.do = "del"
  BY <1>4, <1>8, <1>15
<1> QED BY <1>4, <1>5, <1>7, <1>11, <1>12, <1>13, <1>14, <1>15

-----------------------------------------------------------------------------
(* Every step keeps the invariant, and what the invariant implies.          *)

LEMMA ModalReads ==
    ASSUME FilesInv, at = "modal", Reads("gui"), ~Stops(todo["gui"][1])
    PROVE  FilesInv'
<1>1. PICK q : q = todo["gui"]
  OBVIOUS
<1>2. PICK e : e = q[1]
  OBVIOUS
<1>3. PICK s : s = Saves(e)
  OBVIOUS
<1>4. q # <<>> /\ IsList(q) /\ e.do # "save"
  BY <1>1, <1>2 DEF Reads, FilesInv, Typed, Thread
<1>5. Len(q) \in Nat /\ Len(q) # 0
  BY <1>4, ListFacts
<1>6. 1 \in 1..Len(q)
  BY <1>5
<1>7. Thing(e)
  BY <1>1, <1>2, <1>6 DEF FilesInv, Lists
<1>8. e.do = "del" => e.coin \in Custom /\ HasEntry(disk[RawFile], e.coin)
  BY <1>1, <1>2, <1>6, <1>7 DEF FilesInv, Lists, Removals, Thing, Adds, Stores
<1>9. /\ IsList(s)
      /\ \A i \in 1..Len(s) : /\ Stores(s[i]) /\ s[i].file # CfgFile
                              /\ s[i].file = RawFile => e.do \in {"add", "del"}
      /\ Configured(e) = config
      /\ DOMAIN Registered(e) \subseteq Coin
      /\ \A c \in DOMAIN Registered(e) : Registered(e)[c] \in Entry
  BY <1>1, <1>2, <1>3, <1>4, <1>7, <1>8, ThingWrites
<1> QED BY <1>1, <1>2, <1>3, <1>9, ModalGoesOn

LEMMA ReadsKeeps ==
    ASSUME FilesInv, NEW t \in Thread, Reads(t)
    PROVE  FilesInv'
<1>1. todo[t] # <<>> /\ todo[t][1].do # "save" /\ IsList(todo[t])
  BY DEF Reads, FilesInv, Typed
<1>2. Len(todo[t]) \in Nat /\ Len(todo[t]) # 0
  BY <1>1, ListFacts
<1>3. 1 \in 1..Len(todo[t])
  BY <1>2
<1>4. /\ at = "down" => todo["gui"] = <<>>
      /\ at # "in" => todo["init"] = <<>>
      /\ at \notin {"in", "modal"} => todo["pool"] = <<>>
      /\ at \in Place
  BY DEF FilesInv, Lists, Typed
<1>5. ~(t = "gui" /\ at \in {"starting", "menu"})
  BY <1>1, <1>3 DEF FilesInv, Lists, Plain, Stores
<1>6. \/ at = "login" /\ t = "gui"
      \/ at = "in" /\ t \in {"gui", "init"}
      \/ at = "modal" /\ t = "gui"
      \/ at \in {"in", "modal"} /\ t = "pool"
  BY <1>1, <1>4, <1>5 DEF Place, Thread
<1>7. CASE Stops(todo[t][1]) /\ t # "pool"
  <2>1. Ends
    BY <1>7 DEF Reads
  <2> QED BY <2>1, EndsKeeps
<1>8. CASE Stops(todo[t][1]) /\ t = "pool"
  BY <1>6, <1>8, PoolStops
<1>9. CASE ~Stops(todo[t][1])
  BY <1>6, <1>9, LoginReads, GuiReads, InitReads, ModalReads, PoolReads
<1> QED BY <1>7, <1>8, <1>9

\* Every step keeps the invariant.
LEMMA FilesStep == ASSUME FilesInv, [FilesNext]_filesVars PROVE FilesInv'
<1>1. CASE Process
  <2>1. CASE Launch \/ Start \/ Disconnect \/ Retrieve \/ EnableDefaultCoins
    BY <2>1, LaunchKeeps, StartKeeps, DisconnectKeeps, RetrieveKeeps, DefaultsKeep
  <2>2. CASE Killed \/ Restart
    <3>1. Ends
      BY <2>2 DEF Killed, Restart
    <3> QED BY <3>1, EndsKeeps
  <2> QED BY <1>1, <2>1, <2>2 DEF Process
<1>2. CASE Threads
  BY <1>2, ReadsKeeps, SavedKeeps DEF Threads
<1>3. CASE User
  <2>1. ASSUME NEW w \in Wallet, Create(w) \/ DeleteWallet(w) \/ Login(w) \/ CannotLoad(w)
        PROVE  FilesInv'
    <3>1. CASE Create(w) \/ DeleteWallet(w) \/ Login(w)
      BY <3>1, CreateKeeps, DeletionKeeps, LoginKeeps
    <3>2. CASE CannotLoad(w)
      <4>1. Ends
        BY <3>2 DEF CannotLoad
      <4> QED BY <4>1, EndsKeeps
    <3> QED BY <2>1, <3>1, <3>2
  <2>2. ASSUME NEW c \in Coin, EnableCoin(c) \/ DisableCoin(c) \/ ChangeSegwitStatus(c)
        PROVE  FilesInv'
    BY <2>2, EnableKeeps, DisableKeeps, SegwitStarts
  <2>3. ASSUME NEW c \in Custom, Preview(c) \/ RemoveCustomCoin(c)
        PROVE  FilesInv'
    BY <2>3, TokenKeeps, RemovalStarts
  <2>4. ASSUME NEW c \in Fiat \cup Crypto, SetCurrency(c)
        PROVE  FilesInv'
    BY <2>4, CurrencyKeeps
  <2>5. ASSUME NEW f \in Fiat, SetFiat(f)
        PROVE  FilesInv'
    BY <2>5, FiatKeeps
  <2>6. ASSUME NEW l \in Language, SetCurrentLang(l)
        PROVE  FilesInv'
    BY <2>6, LanguageKeeps
  <2>7. CASE Submit \/ ResetCoinCfg \/ SetEmergencyPassword
    BY <2>7, SubmitKeeps, ResetKeeps, PasswordKeeps
  <2> QED BY <1>3, <2>1, <2>2, <2>3, <2>4, <2>5, <2>6, <2>7 DEF User
<1>4. CASE TokenAnswered
  BY <1>4, TokenKeeps
<1>5. CASE UNCHANGED filesVars
  <2>1. \A f \in File : Holds(f, disk[f])
    BY DEF FilesInv, Typed
  <2>2. /\ UNCHANGED <<risks, disk, at, config, owner, registry, rawReg, init, todo, token, request>>
        /\ DOMAIN disk = File
        /\ token \in TokenData \cup {None} /\ request \in Custom \cup {None}
    BY <1>5 DEF filesVars, FilesInv, Typed
  <2> QED BY <2>1, <2>2, ElsewhereKeeps
<1> QED BY <1>1, <1>2, <1>3, <1>4, <1>5 DEF FilesNext

LEMMA StoredThen == FilesInv => MemoryIsStored
<1> SUFFICES ASSUME FilesInv
             PROVE  MemoryIsStored
  OBVIOUS
<1>1. ASSUME at \notin {"down", "starting"}, Idle
      PROVE  disk[CfgFile] = config
  BY <1>1 DEF FilesInv, CfgStored, Idle, Thread
<1>2. ASSUME at = "in", Idle, risks \cap {"hasty", "noRemove"} = {}
      PROVE  /\ DOMAIN registry = DOMAIN disk[CoinsFile(owner)] \cup DOMAIN TokensOf(owner)
             /\ \A c \in DOMAIN registry :
                   \/ registry[c].active = ChoiceOf(owner)[c]
                   \/ c \in CustomIn(disk[CoinsFile(owner)]) \cap DOMAIN TokensOf(owner)
  <2> DEFINE C == CoinsFile(owner)
             T == TokensFile(owner)
             O == OldFile(owner)
  <2>1. todo["gui"] = <<>> /\ todo["pool"] = <<>>
    BY <1>2 DEF Idle, Thread
  <2>2. /\ disk[C] \in Coins /\ disk[T] # Torn /\ disk[O] \in Bad
        /\ AgreeAfter(<<>>)
    BY <1>2, <2>1 DEF FilesInv, RegistryStored
  <2>3. PICK tokens : tokens = TokensOf(owner)
    OBVIOUS
  <2>4. /\ owner \in Wallet /\ DOMAIN registry \subseteq Coin
        /\ \A f \in File : Holds(f, disk[f])
    BY <1>2 DEF FilesInv, Typed
  <2>5. tokens \in Tokens
    <3>1. Holds(T, disk[T])
      BY <2>4, FileFacts
    <3> QED BY <2>2, <2>3, <2>4, <3>1, TokensTyped
  <2>6. /\ DOMAIN registry = DOMAIN disk[C] \cup DOMAIN tokens
        /\ \A c \in DOMAIN disk[C] \ (CustomIn(disk[C]) \cap DOMAIN tokens) :
              registry[c].active = disk[C][c].active
        /\ \A c \in DOMAIN tokens \ DOMAIN disk[C] : registry[c].active = tokens[c].active
    <3>1. Len(<<>>) = 0
      OBVIOUS
    <3>2. Agree(disk[C], TokensOf(owner))
      BY <2>2, <3>1 DEF AgreeAfter
    <3> QED BY <2>3, <3>2 DEF Agree, Agrees
  <2>7. ChoiceOf(owner) = [c \in Coin |-> IF c \in DOMAIN disk[C] THEN disk[C][c].active
                                          ELSE c \in DOMAIN tokens /\ tokens[c].active]
    <3>1. Torn \notin {disk[C], disk[T]} /\ disk[C] # Absent
      BY <2>2, NotBad
    <3>2. PICK choice : choice = ChoiceOf(owner)
      OBVIOUS
    <3>3. choice = [c \in Coin |->
             CASE c \in TakenOver(NoCoins, disk[C]) -> NoCoins[c].active
               [] c \in DOMAIN disk[C] \ TakenOver(NoCoins, disk[C]) -> disk[C][c].active
               [] OTHER -> c \in DOMAIN tokens /\ tokens[c].active]
      BY <2>2, <2>3, <3>1, <3>2 DEF ChoiceOf
    <3>4. TakenOver(NoCoins, disk[C]) = {}
      BY DEF TakenOver, CustomIn, NoCoins
    <3> QED BY <3>2, <3>3, <3>4
  <2>8. ASSUME NEW c \in DOMAIN registry, c \notin CustomIn(disk[C]) \cap DOMAIN tokens
        PROVE  registry[c].active = ChoiceOf(owner)[c]
    <3>1. CASE c \in DOMAIN disk[C]
      BY <2>4, <2>6, <2>7, <2>8, <3>1
    <3>2. CASE c \notin DOMAIN disk[C]
      <4>1. c \in DOMAIN tokens /\ tokens[c].active \in BOOLEAN
        BY <2>5, <2>6, <3>2, TokensHold DEF Entry
      <4>2. ChoiceOf(owner)[c] = (c \in DOMAIN tokens /\ tokens[c].active)
        BY <2>4, <2>7, <3>2
      <4> QED BY <2>6, <3>2, <4>1, <4>2
    <3> QED BY <3>1, <3>2
  <2> QED BY <2>3, <2>6, <2>8
<1> QED BY <1>1, <1>2 DEF MemoryIsStored

LEMMA ReAddedThen == FilesInv => CustomCoinsAreReAdded
<1> SUFFICES ASSUME FilesInv, at = "in", init = "done", Idle,
                    NEW c \in Custom \cap Active, registry[c].backup
             PROVE  disk[RawFile][c] > 0
  BY DEF CustomCoinsAreReAdded
<1>1. Provided(c)
  BY DEF FilesInv, RawStored
<1>2. todo["init"] = <<>>
  BY DEF Idle, Thread
<1> QED BY <1>1, <1>2 DEF Provided, HasEntry

LEMMA FilesInvariant == FilesSpec => []FilesInv
<1>1. FilesInit => FilesInv
  BY StoredInitially
<1>2. FilesInv /\ [FilesNext]_filesVars => FilesInv'
  BY FilesStep
<1> QED BY <1>1, <1>2, PTL DEF FilesSpec

\* Once no thread has anything left to write, the files hold what is in memory: the
\* settings of the next start, and the coins of the next login with their choices,
\* whatever crash, upgrade, removal or reset came before, but for a switch to segwit
\* stored while the user went on, a precedent file that could not be removed, and the
\* choice for a custom coin that is both in the coins file and among the tokens.
\* (change_currency, update_coin_status, check_for_reconfiguration.)
THEOREM MemoryIsAlwaysStored == FilesSpec => []MemoryIsStored
BY FilesInvariant, StoredThen, PTL

\* And a custom coin that is enabled, and of which there is a copy of mm2's entry, has
\* its entry in coins.json: no other wallet, reset or crash has left it out.
\* (batch_enable_coins.)
THEOREM CustomCoinsAreAlwaysReAdded == FilesSpec => []CustomCoinsAreReAdded
BY FilesInvariant, ReAddedThen, PTL

-----------------------------------------------------------------------------
(* The files of the choices, and what leaves ChoiceInv as it was.          *)

\* The three files of the choices of each wallet.
LEMMA OfWallets ==
    /\ \A f \in ChoiceFile : \E w \in Wallet : f \in {CoinsFile(w), TokensFile(w), OldFile(w)}
    /\ \A w \in Wallet : {CoinsFile(w), TokensFile(w), OldFile(w)} \subseteq ChoiceFile
<1> USE DEF ChoiceFile, CoinsFile, TokensFile, OldFile
<1>1. ASSUME NEW f \in ChoiceFile
      PROVE  \E w \in Wallet : f \in {CoinsFile(w), TokensFile(w), OldFile(w)}
  <2>1. PICK a \in {"old", "coins", "tokens"} : \E w \in Wallet : f = <<a, w>>
    OBVIOUS
  <2>2. PICK w \in Wallet : f = <<a, w>>
    BY <2>1
  <2> QED BY <2>2
<1>2. ASSUME NEW w \in Wallet
      PROVE  {CoinsFile(w), TokensFile(w), OldFile(w)} \subseteq ChoiceFile
  OBVIOUS
<1> QED BY <1>1, <1>2

LEMMA ChoiceFiles ==
    /\ ChoiceFile \subseteq File
    /\ \A f \in ChoiceFile : /\ f \notin {RawFile, CfgFile, IniFile, OldIniFile}
                             /\ \A w \in Wallet : f \notin {SeedFile(w), ObjectFile(w)}
    /\ \A w \in Wallet : {CoinsFile(w), TokensFile(w), OldFile(w)} \subseteq ChoiceFile
<1>1. ASSUME NEW f \in ChoiceFile
      PROVE  /\ f \in File /\ f \notin {RawFile, CfgFile, IniFile, OldIniFile}
             /\ \A w \in Wallet : f \notin {SeedFile(w), ObjectFile(w)}
  <2>1. PICK v \in Wallet : f \in {CoinsFile(v), TokensFile(v), OldFile(v)}
    BY OfWallets
  <2> QED BY <2>1, FileFacts
<1> QED BY <1>1, OfWallets

\* The language is in none of them.
LEMMA LanguageFiles ==
    /\ LanguageFile \subseteq File /\ IniFile # OldIniFile
    /\ \A f \in LanguageFile : f \notin {RawFile, CfgFile}
    /\ \A f \in LanguageFile, w \in Wallet :
          f \notin {CoinsFile(w), TokensFile(w), OldFile(w), SeedFile(w), ObjectFile(w)}
<1>1. IniFile # OldIniFile
  BY DEF IniFile, OldIniFile
<1> QED BY <1>1, FileFacts DEF LanguageFile

\* No file of the choices is None, and no two wallets share one.
LEMMA OwnFiles ==
    /\ \A w \in Wallet : None \notin {CoinsFile(w), TokensFile(w), OldFile(w)}
    /\ \A v, w \in Wallet : /\ TokensFile(v) = TokensFile(w) => v = w
                            /\ OldFile(v) = OldFile(w) => v = w
<1>1. \A w \in Wallet : {CoinsFile(w), TokensFile(w), OldFile(w)} \subseteq File
  BY FileFacts
<1>2. \A w \in Wallet : None \notin {CoinsFile(w), TokensFile(w), OldFile(w)}
  BY <1>1, FilesAssumption
<1>3. \A v, w \in Wallet : /\ TokensFile(v) = TokensFile(w) => v = w
                           /\ OldFile(v) = OldFile(w) => v = w
  BY DEF TokensFile, OldFile
<1> QED BY <1>2, <1>3

\* Every step of one list after another is a step of one of them.
LEMMA Joined ==
    ASSUME NEW p, NEW q, IsList(p), IsList(q)
    PROVE  \A i \in 1..Len(p \o q) :
              \/ i \in 1..Len(p) /\ (p \o q)[i] = p[i]
              \/ i - Len(p) \in 1..Len(q) /\ (p \o q)[i] = q[i - Len(p)]
<1> SUFFICES ASSUME NEW i \in 1..Len(p \o q)
             PROVE  \/ i \in 1..Len(p) /\ (p \o q)[i] = p[i]
                    \/ i - Len(p) \in 1..Len(q) /\ (p \o q)[i] = q[i - Len(p)]
  OBVIOUS
<1>1. /\ Len(p) \in Nat /\ Len(q) \in Nat /\ Len(p \o q) = Len(p) + Len(q)
      /\ \A j \in 1..Len(p) : (p \o q)[j] = p[j]
      /\ \A j \in 1..Len(q) : (p \o q)[Len(p) + j] = q[j]
  BY BothLists, ListFacts
<1>2. CASE i <= Len(p)
  BY <1>1, <1>2
<1>3. CASE i > Len(p)
  <2>1. i - Len(p) \in 1..Len(q) /\ i = Len(p) + (i - Len(p))
    BY <1>1, <1>3
  <2> QED BY <1>1, <2>1
<1> QED BY <1>1, <1>2, <1>3

\* What the GUI thread, which has nothing left to do, starts.
LEMMA Starts ==
    ASSUME FilesInv, NEW t \in Thread, todo[t] = <<>>, NEW q, IsList(q), Does(t, q)
    PROVE  /\ todo'[t] = q /\ \A u \in Thread \ {t} : todo'[u] = todo[u]
           /\ DOMAIN todo' = Thread /\ \A u \in Thread : IsList(todo'[u])
<1>1. DOMAIN todo = Thread /\ \A u \in Thread : IsList(todo[u])
  BY DEF FilesInv, Typed
<1>2. todo[t] \o q = q
  BY BothLists, ShortLists
<1>3. todo' = [todo EXCEPT ![t] = q]
  BY <1>2 DEF Does
<1> QED BY <1>1, <1>3

\* A failure that is spent leaves the choices as they were.
LEMMA SpendKeeps ==
    ASSUME budget \in Budget, NEW k \in {"user", "settings", "session", "crash"}, Spend(k)
    PROVE  budget' \in Budget /\ budget'[k] < budget[k]
BY DEF Budget, Spend

\* Where the files of the choices and the one who chooses are as they were, so are
\* what the steps of a list do to them.
LEMMA SameChoices ==
    ASSUME FilesInv, at \in {"login", "in", "modal"}, UNCHANGED owner,
           \A f \in ChoiceFile : disk'[f] = disk[f]
    PROVE  /\ \A e : (SetsCoins(e)' <=> SetsCoins(e)) /\ (SetsTokens(e)' <=> SetsTokens(e))
           /\ \A q : (Sets(q)' <=> Sets(q)) /\ (Resets(q)' <=> Resets(q))
           /\ \A q, i : Upgrades(q, i)' <=> Upgrades(q, i)
           /\ TokensOf(owner)' = TokensOf(owner)
<1>1. owner \in Wallet
  BY DEF FilesInv, Typed
<1>2. /\ disk'[CoinsFile(owner)] = disk[CoinsFile(owner)]
      /\ disk'[TokensFile(owner)] = disk[TokensFile(owner)]
      /\ disk'[OldFile(owner)] = disk[OldFile(owner)]
  BY <1>1, ChoiceFiles
<1>3. TokensOf(owner)' = TokensOf(owner)
  BY <1>2 DEF TokensOf
<1>4. \A e : (SetsCoins(e)' <=> SetsCoins(e)) /\ (SetsTokens(e)' <=> SetsTokens(e))
  BY <1>2, <1>3 DEF SetsCoins, SetsTokens
<1>5. \A q : Sets(q)' <=> Sets(q)
  BY <1>4 DEF Sets, Aside
<1>6. \A q : Resets(q)' <=> Resets(q)
  BY <1>3, <1>4 DEF Resets
<1>7. \A q, i : Upgrades(q, i)' <=> Upgrades(q, i)
  <2>1. Merged' = Merged
    BY <1>2 DEF Merged, Merge, CustomIn
  <2> QED BY <1>2, <2>1 DEF Upgrades, RemovesOld
<1> QED BY <1>3, <1>4, <1>5, <1>6, <1>7

\* So is what a copy of the shipped file does.
LEMMA SameCopies ==
    ASSUME \A f \in ChoiceFile : disk'[f] = disk[f]
    PROVE  \A e : Copies(e)' <=> Copies(e)
BY ChoiceFiles DEF Copies

\* An operation on other files leaves it as it was.
LEMMA HeldElsewhere ==
    ASSUME FilesInv, ChoiceInv, budget' \in Budget, UNCHANGED <<risks, at, owner, todo>>,
           \A f \in ChoiceFile : disk'[f] = disk[f], at # "starting",
           "torn" \notin risks => \A f \in LanguageFile : disk'[f] \in Language \cup {Absent}
    PROVE  ChoiceInv'
<1>1. LanguageHeld'
  BY DEF ChoiceInv, LanguageHeld
<1>2. ASSUME "hasty" \notin risks PROVE ChoicesHeld'
  <2> USE <1>2 DEF ChoiceInv
  <2>1. CASE at \in {"login", "in", "modal"}
    <3>1. owner \in Wallet
      BY <2>1 DEF FilesInv, Typed
    <3>2. /\ disk'[CoinsFile(owner)] = disk[CoinsFile(owner)]
          /\ disk'[TokensFile(owner)] = disk[TokensFile(owner)]
      BY <3>1, ChoiceFiles
    <3> QED BY <2>1, <3>2, SameChoices, SameCopies DEF ChoicesHeld, Aside, Opens
  <2>2. CASE at \notin {"login", "in", "modal"}
    BY <2>2, SameCopies DEF ChoicesHeld, Aside, Opens
  <2> QED BY <2>1, <2>2
<1> QED BY <1>1, <1>2 DEF ChoiceInv

\* So does what leaves the files and the threads alone.
LEMMA StandsHeld ==
    ASSUME ChoiceInv, UNCHANGED <<risks, budget, disk, at, owner, todo>>
    PROVE  ChoiceInv'
<1>1. Merged' = Merged /\ TokensOf(owner)' = TokensOf(owner)
  BY DEF Merged, Merge, CustomIn, TokensOf
<1>2. /\ \A e : (SetsCoins(e)' <=> SetsCoins(e)) /\ (SetsTokens(e)' <=> SetsTokens(e))
      /\ \A e : (RemovesOld(e)' <=> RemovesOld(e)) /\ (Copies(e)' <=> Copies(e))
      /\ \A e : (Aside(e)' <=> Aside(e)) /\ (Opens(e)' <=> Opens(e))
  BY <1>1 DEF SetsCoins, SetsTokens, RemovesOld, Copies, Aside, Opens
<1>3. /\ \A q : (Sets(q)' <=> Sets(q)) /\ (Resets(q)' <=> Resets(q))
      /\ \A q, i : Upgrades(q, i)' <=> Upgrades(q, i)
  BY <1>1, <1>2 DEF Sets, Resets, Upgrades
<1>4. ChoicesHeld' <=> ChoicesHeld
  BY <1>1, <1>2, <1>3 DEF ChoicesHeld
<1>5. LanguageHeld' <=> LanguageHeld
  BY DEF LanguageHeld, UpgradesLanguage
<1> QED BY <1>4, <1>5 DEF ChoiceInv

LEMMA OtherFilesHeld ==
    ASSUME FilesInv, ChoiceInv,
           \/ \E c \in Custom : Preview(c)
           \/ TokenAnswered
           \/ \E w \in Wallet : DeleteWallet(w)
           \/ \E l \in Language : SetCurrentLang(l)
    PROVE  ChoiceInv'
<1>1. budget \in Budget
  BY DEF ChoiceInv
<1>2. "torn" \notin risks => \A f \in LanguageFile : disk[f] \in Language \cup {Absent}
  BY DEF ChoiceInv, LanguageHeld
<1>3. DOMAIN disk = File
  BY DEF FilesInv, Typed
<1>4. CASE \E c \in Custom : Preview(c)
  <2>1. UNCHANGED <<risks, at, owner, todo, disk>> /\ Spend("user") /\ at = "in"
    BY <1>4 DEF Preview, Ready, Waiting, othersOfUser, memory, sessionVars
  <2> QED BY <1>1, <1>2, <2>1, SpendKeeps, HeldElsewhere
<1>5. CASE TokenAnswered /\ at # "starting"
  <2>1. UNCHANGED <<risks, at, owner, todo, disk, budget>>
    BY <1>5 DEF TokenAnswered, memory, sessionVars
  <2> QED BY <1>1, <1>2, <1>5, <2>1, HeldElsewhere
<1>6. CASE TokenAnswered /\ at = "starting"
  <2>1. UNCHANGED <<risks, at, owner, todo, disk, budget>>
    BY <1>6 DEF TokenAnswered, memory, sessionVars
  <2> QED BY <2>1, StandsHeld
<1>7. ASSUME NEW w \in Wallet, DeleteWallet(w) PROVE ChoiceInv'
  <2>1. /\ UNCHANGED <<risks, at, owner, todo>> /\ Spend("user") /\ at = "menu"
        /\ disk' = [disk EXCEPT ![SeedFile(w)] = Absent]
    BY <1>7 DEF DeleteWallet, memory, sessionVars
  <2>2. /\ \A f \in ChoiceFile : disk'[f] = disk[f]
        /\ \A f \in LanguageFile : disk'[f] = disk[f]
    BY <1>3, <2>1, ChoiceFiles, LanguageFiles
  <2> QED BY <1>1, <1>2, <2>1, <2>2, SpendKeeps, HeldElsewhere
<1>8. ASSUME NEW l \in Language, SetCurrentLang(l) PROVE ChoiceInv'
  <2>1. /\ UNCHANGED <<risks, at, owner, todo>> /\ Spend("settings") /\ at # "starting"
        /\ disk' = [disk EXCEPT ![IniFile] = l]
    BY <1>8 DEF SetCurrentLang, memory, sessionVars
  <2>2. \A f \in ChoiceFile : disk'[f] = disk[f]
    BY <1>3, <2>1, ChoiceFiles
  <2>3. \A f \in LanguageFile : disk'[f] \in {disk[f], l}
    BY <1>3, <2>1, ChoiceFiles
  <2> QED BY <1>1, <1>2, <2>1, <2>2, <2>3, SpendKeeps, HeldElsewhere
<1> QED BY <1>4, <1>5, <1>6, <1>7, <1>8

-----------------------------------------------------------------------------
(* ChoiceInv when the user, in a wallet, starts something.                 *)

\* A list of edits writes nothing yet.
OnlyEdits(q) == IsList(q) /\ \A i \in 1..Len(q) : q[i].do # "save"

LEMMA NothingEdited == OnlyEdits(<<>>) /\ Sets(<<>>)
BY ShortLists DEF OnlyEdits, Sets

\* One edit, or two, write no choice yet.
LEMMA OneEdit ==
    ASSUME NEW e, e.do # "save"
    PROVE  OnlyEdits(<<e>>)
BY ShortLists DEF OnlyEdits

LEMMA BothEdits ==
    ASSUME NEW p, NEW q, OnlyEdits(p), OnlyEdits(q)
    PROVE  OnlyEdits(p \o q)
<1>1. IsList(p) /\ IsList(q)
  BY DEF OnlyEdits
<1>2. IsList(p \o q)
  BY <1>1, BothLists
<1>3. \A i \in 1..Len(p \o q) :
         \/ i \in 1..Len(p) /\ (p \o q)[i] = p[i]
         \/ i - Len(p) \in 1..Len(q) /\ (p \o q)[i] = q[i - Len(p)]
  BY <1>1, Joined
<1> QED BY <1>2, <1>3 DEF OnlyEdits

\* The user, in a wallet, starts something: edits, the wallet object, or a reset.
LEMMA HeldStarts ==
    ASSUME FilesInv, ChoiceInv, Waiting, budget' \in Budget, UNCHANGED <<risks, disk, owner>>,
           at' \in {"in", "modal"}, NEW q, IsList(q), Does("gui", q),
           \A i \in 1..Len(q) : q[i].do = "save" => q[i].file \notin LanguageFile,
           \A i \in 1..Len(q) : Opens(q[i]),
           (\A i \in 1..Len(q) : Aside(q[i])) \/ (at' = "modal" /\ Resets(q))
    PROVE  ChoiceInv'
<1>1. /\ at = "in" /\ todo["init"] = <<>> /\ todo["gui"] = <<>>
      /\ todo["pool"] = <<>> \/ "hasty" \in risks
  BY DEF Waiting
<1>2. /\ todo'["gui"] = q /\ \A u \in Thread \ {"gui"} : todo'[u] = todo[u]
  BY <1>1, Starts DEF Thread
<1>3. LanguageHeld'
  <2>1. \A t \in Thread : \A i \in 1..Len(todo'[t]) :
            todo'[t][i].do = "save" => todo'[t][i].file \notin LanguageFile
    BY <1>1, <1>2 DEF ChoiceInv, LanguageHeld, Thread
  <2> QED BY <2>1 DEF ChoiceInv, LanguageHeld
<1>4. ASSUME "hasty" \notin risks PROVE ChoicesHeld'
  <2>1. todo'["init"] = <<>> /\ todo'["pool"] = <<>>
    BY <1>1, <1>2, <1>4 DEF Thread
  <2>2. \A t \in Thread : \A i \in 1..Len(todo'[t]) : Opens(todo'[t][i])
    BY <1>2, <2>1, ShortLists DEF Thread, Opens
  <2>3. Torn \notin {disk[CoinsFile(owner)], disk[TokensFile(owner)]}
        /\ disk[CoinsFile(owner)] # Absent
    BY <1>1, <1>4 DEF ChoiceInv, ChoicesHeld
  <2>4. \A f \in ChoiceFile : disk'[f] = disk[f]
    OBVIOUS
  <2>5. /\ \A l : (Sets(l)' <=> Sets(l)) /\ (Resets(l)' <=> Resets(l))
    BY <1>1, <2>4, SameChoices
  <2>6. Sets(q)' \/ (at' = "modal" /\ Resets(q)')
    BY <2>5 DEF Sets
  <2>7. Sets(<<>>)'
    BY <2>5, NothingEdited
  <2> QED BY <1>2, <2>1, <2>2, <2>3, <2>6, <2>7 DEF ChoicesHeld
<1> QED BY <1>3, <1>4 DEF ChoiceInv

LEMMA EditsStart ==
    ASSUME FilesInv, ChoiceInv, Waiting, budget' \in Budget, UNCHANGED <<risks, disk, owner>>,
           at' \in {"in", "modal"}, NEW q, OnlyEdits(q), Does("gui", q)
    PROVE  ChoiceInv'
BY HeldStarts DEF OnlyEdits, Aside, Opens

\* One lemma for each operation of a user in a wallet.
LEMMA CoinsHeld ==
    ASSUME FilesInv, ChoiceInv, NEW c \in Coin, EnableCoin(c) \/ DisableCoin(c)
    PROVE  ChoiceInv'
<1>1. Waiting /\ UNCHANGED <<risks, disk, owner, at>> /\ Spend("user") /\ at' \in {"in", "modal"}
  BY DEF EnableCoin, DisableCoin, Ready, Waiting, othersOfUser, memory, sessionVars
<1>2. budget' \in Budget
  BY <1>1, SpendKeeps DEF ChoiceInv
<1>3. ASSUME DisableCoin(c) PROVE ChoiceInv'
  <2>1. PICK e : e = Edit("status", c, FALSE)
    OBVIOUS
  <2>2. OnlyEdits(<<e>>) /\ Does("gui", <<e>>)
    BY <1>3, <2>1, OneEdit DEF DisableCoin, Edit
  <2> QED BY <1>1, <1>2, <2>2, EditsStart
<1>4. ASSUME EnableCoin(c) PROVE ChoiceInv'
  <2>1. PICK e : e = Edit("status", c, TRUE)
    OBVIOUS
  <2>2. PICK p : p = ReAdd({c})
    OBVIOUS
  <2>3. IsList(p) /\ OnlyEdits(p)
    BY <2>2, ReAdded DEF OnlyEdits, Adds
  <2>4. Append(p, e) = p \o <<e>>
    BY <2>3, Appended
  <2>5. OnlyEdits(<<e>>)
    BY <2>1, OneEdit DEF Edit
  <2>6. OnlyEdits(p \o <<e>>) /\ Does("gui", p \o <<e>>)
    BY <1>4, <2>1, <2>2, <2>3, <2>4, <2>5, BothEdits DEF EnableCoin
  <2> QED BY <1>1, <1>2, <2>6, EditsStart
<1> QED BY <1>3, <1>4

LEMMA SettingsHeld ==
    ASSUME FilesInv, ChoiceInv,
           \/ \E c \in Fiat \cup Crypto : SetCurrency(c)
           \/ \E f \in Fiat : SetFiat(f)
           \/ SetEmergencyPassword
    PROVE  ChoiceInv'
<1>1. /\ Waiting /\ UNCHANGED <<risks, disk, owner, at>> /\ Spend("settings")
      /\ at' \in {"in", "modal"}
  BY DEF SetCurrency, SetFiat, SetEmergencyPassword, Waiting, othersOfUser, memory, sessionVars
<1>2. budget' \in Budget
  BY <1>1, SpendKeeps DEF ChoiceInv
<1>3. ASSUME NEW c \in Fiat \cup Crypto, SetCurrency(c) PROVE ChoiceInv'
  <2>1. PICK e : e = Edit("currency", None, c)
    OBVIOUS
  <2>2. OnlyEdits(<<e>>) /\ Does("gui", <<e>>)
    BY <1>3, <2>1, OneEdit DEF SetCurrency, Edit
  <2> QED BY <1>1, <1>2, <2>2, EditsStart
<1>4. ASSUME NEW f \in Fiat, SetFiat(f) PROVE ChoiceInv'
  <2>1. PICK e : e = Edit("fiat", None, f)
    OBVIOUS
  <2>2. PICK d : d = Edit("currency", None, f)
    OBVIOUS
  <2>3. PICK r : r = IF f # config.currency THEN <<d>> ELSE <<>>
    OBVIOUS
  <2>4. OnlyEdits(<<e>>) /\ OnlyEdits(r)
    BY <2>1, <2>2, <2>3, OneEdit, NothingEdited DEF Edit
  <2>5. OnlyEdits(<<e>> \o r) /\ Does("gui", <<e>> \o r)
    BY <1>4, <2>1, <2>2, <2>3, <2>4, BothEdits DEF SetFiat
  <2> QED BY <1>1, <1>2, <2>5, EditsStart
<1>5. ASSUME SetEmergencyPassword PROVE ChoiceInv'
  <2>1. PICK e : e = Write(ObjectFile(owner), Whole)
    OBVIOUS
  <2>2. owner \in Wallet
    BY <1>1 DEF FilesInv, Typed, Waiting
  <2>3. e.do = "save" /\ e.file = ObjectFile(owner) /\ e.open = ObjectFile(owner)
    BY <2>1 DEF Write, SaveAs
  <2>4. e.file \notin LanguageFile /\ Aside(e)
    BY <2>2, <2>3, ChoiceFiles, LanguageFiles DEF Aside
  <2>5. Opens(e)
    BY <2>2, <2>3, FileFacts DEF Opens
  <2>6. PICK q : q = <<e>>
    OBVIOUS
  <2>7. IsList(q) /\ Len(q) = 1 /\ q[1] = e /\ Does("gui", q)
    BY <1>5, <2>1, <2>6, ShortLists DEF SetEmergencyPassword
  <2> QED BY <1>1, <1>2, <2>4, <2>5, <2>7, HeldStarts
<1> QED BY <1>3, <1>4, <1>5

LEMMA RestartsHeld ==
    ASSUME FilesInv, ChoiceInv, Submit \/ \E c \in Custom : RemoveCustomCoin(c)
    PROVE  ChoiceInv'
<1>1. /\ Waiting /\ UNCHANGED <<risks, disk, owner>> /\ Spend("user")
      /\ at' \in {"in", "modal"}
  BY DEF Submit, RemoveCustomCoin, Ready, othersOfUser, memory, sessionVars
<1>2. budget' \in Budget
  BY <1>1, SpendKeeps DEF ChoiceInv
<1>3. ASSUME Submit PROVE ChoiceInv'
  <2>1. PICK d : d = Edit("token", token.coin, token.backup)
    OBVIOUS
  <2>2. PICK e : e = Edit("add", token.coin, TRUE)
    OBVIOUS
  <2>3. PICK p : p = IF token.adex /\ token.coin \notin DOMAIN registry THEN <<d>> ELSE <<>>
    OBVIOUS
  <2>4. PICK r : r = IF token.mm2 /\ token.coin \notin rawReg THEN <<e>> ELSE <<>>
    OBVIOUS
  <2>5. OnlyEdits(p) /\ OnlyEdits(r)
    BY <2>1, <2>2, <2>3, <2>4, OneEdit, NothingEdited DEF Edit
  <2>6. OnlyEdits(p \o r) /\ Does("gui", p \o r)
    BY <1>3, <2>1, <2>2, <2>3, <2>4, <2>5, BothEdits DEF Submit
  <2> QED BY <1>1, <1>2, <2>6, EditsStart
<1>4. ASSUME NEW c \in Custom, RemoveCustomCoin(c) PROVE ChoiceInv'
  <2>1. PICK d : d = Edit("status", c, FALSE)
    OBVIOUS
  <2>2. PICK e : e = Edit("untoken", c, TRUE)
    OBVIOUS
  <2>3. PICK f : f = Edit("del", c, TRUE)
    OBVIOUS
  <2>4. d.do # "save" /\ e.do # "save" /\ f.do # "save"
    BY <2>1, <2>2, <2>3 DEF Edit
  <2>5. PICK q : q = <<d, e, f>>
    OBVIOUS
  <2>6. IsList(q) /\ Len(q) = 3 /\ q[1] = d /\ q[2] = e /\ q[3] = f
    BY <2>5, ShortLists
  <2>7. OnlyEdits(q)
    BY <2>4, <2>6 DEF OnlyEdits
  <2>8. Does("gui", q)
    BY <1>4, <2>1, <2>2, <2>3, <2>5 DEF RemoveCustomCoin
  <2> QED BY <1>1, <1>2, <2>7, <2>8, EditsStart
<1> QED BY <1>3, <1>4

LEMMA ResetHeld == ASSUME FilesInv, ChoiceInv, ResetCoinCfg PROVE ChoiceInv'
<1>1. /\ Waiting /\ UNCHANGED <<risks, disk, owner>> /\ Spend("user") /\ at' = "modal"
  BY DEF ResetCoinCfg, Ready, othersOfUser, memory, sessionVars
<1>2. budget' \in Budget
  BY <1>1, SpendKeeps DEF ChoiceInv
<1>3. owner \in Wallet
  BY <1>1 DEF FilesInv, Typed, Waiting
<1>4. PICK d : d = Edit("deactivate", None, TRUE)
  OBVIOUS
<1>5. PICK e : e = Delete(CoinsFile(owner))
  OBVIOUS
<1>6. PICK f : f = Delete(RawFile)
  OBVIOUS
<1>7. PICK q : q = <<d, e, f>>
  OBVIOUS
<1>8. IsList(q) /\ Len(q) = 3 /\ q[1] = d /\ q[2] = e /\ q[3] = f
  BY <1>7, ShortLists
<1>9. Does("gui", q)
  BY <1>4, <1>5, <1>6, <1>7 DEF ResetCoinCfg
<1>10. /\ d.do = "deactivate" /\ e.file = CoinsFile(owner) /\ f.file = RawFile
       /\ e.open = None /\ f.open = None
  BY <1>4, <1>5, <1>6 DEF Edit, Delete, SaveAs
<1>11. Resets(q)
  BY <1>5, <1>6, <1>8, <1>10 DEF Resets
<1>12. \A i \in 1..Len(q) : Opens(q[i])
  <2>1. \A w \in Wallet : None # OldFile(w)
    BY OwnFiles
  <2>2. Opens(d) /\ Opens(e) /\ Opens(f)
    BY <1>10, <2>1 DEF Opens
  <2> QED BY <1>8, <2>2
<1>13. \A i \in 1..Len(q) : q[i].do = "save" => q[i].file \notin LanguageFile
  BY <1>3, <1>8, <1>10, LanguageFiles
<1> QED BY <1>1, <1>2, <1>8, <1>9, <1>11, <1>12, <1>13, HeldStarts

\* A switch to segwit, which is stored by the pool.
LEMMA SegwitHeld ==
    ASSUME FilesInv, ChoiceInv, NEW c \in Coin, ChangeSegwitStatus(c)
    PROVE  ChoiceInv'
<1>1. PICK e : e = Edit("segwit", c, TRUE)
  OBVIOUS
<1>2. PICK q : q = <<e>>
  OBVIOUS
<1>3. /\ Waiting /\ UNCHANGED <<risks, disk, owner, at>> /\ Spend("user") /\ Does("pool", q)
      /\ todo["pool"] = <<>>
  BY <1>1, <1>2 DEF ChangeSegwitStatus, Ready, othersOfUser, memory, sessionVars
<1>4. OnlyEdits(q)
  BY <1>1, <1>2, OneEdit DEF Edit
<1>5. budget' \in Budget
  BY <1>3, SpendKeeps DEF ChoiceInv
<1>6. at = "in" /\ todo["init"] = <<>> /\ todo["gui"] = <<>>
  BY <1>3 DEF Waiting
<1>7. /\ todo'["pool"] = q /\ \A u \in Thread \ {"pool"} : todo'[u] = todo[u]
  BY <1>3, <1>4, Starts DEF Thread, OnlyEdits
<1>8. todo'["gui"] = <<>> /\ todo'["init"] = <<>>
  BY <1>6, <1>7 DEF Thread
<1>9. \A t \in Thread : OnlyEdits(todo'[t])
  BY <1>4, <1>7, <1>8, NothingEdited DEF Thread
<1>10. LanguageHeld'
  BY <1>3, <1>6, <1>9 DEF ChoiceInv, LanguageHeld, OnlyEdits
<1>11. ASSUME "hasty" \notin risks PROVE ChoicesHeld'
  <2>1. Torn \notin {disk[CoinsFile(owner)], disk[TokensFile(owner)]}
        /\ disk[CoinsFile(owner)] # Absent
    BY <1>6, <1>11 DEF ChoiceInv, ChoicesHeld
  <2>2. \A l : OnlyEdits(l) => Sets(l)'
    BY DEF Sets, OnlyEdits, Aside
  <2>3. Sets(q)' /\ Sets(<<>>)'
    BY <1>4, <2>2, NothingEdited
  <2>4. \A t \in Thread : \A i \in 1..Len(todo'[t]) : Opens(todo'[t][i])
    BY <1>9 DEF OnlyEdits, Opens
  <2> QED BY <1>3, <1>6, <1>7, <1>8, <2>1, <2>3, <2>4 DEF ChoicesHeld
<1> QED BY <1>3, <1>5, <1>10, <1>11 DEF ChoiceInv

-----------------------------------------------------------------------------
(* ChoiceInv at first, and where the program launches, ends, logs in or out. *)

\* Nothing is left to do.
LEMMA NothingLeft ==
    ASSUME ChoiceInv, budget' \in Budget, UNCHANGED risks, at' \in {"down", "menu"},
           \A t \in Thread : todo'[t] = <<>>,
           "torn" \notin risks => \A f \in LanguageFile : disk'[f] \in Language \cup {Absent}
    PROVE  ChoiceInv'
<1>1. \A t \in Thread : Len(todo'[t]) = 0
  BY ShortLists
<1>2. LanguageHeld'
  BY <1>1 DEF LanguageHeld
<1>3. ChoicesHeld'
  BY <1>1 DEF ChoicesHeld, Thread
<1> QED BY <1>2, <1>3 DEF ChoiceInv

\* What the end of the process does to the files.
LEMMA EndsTears ==
    ASSUME FilesInv, Ends
    PROVE  /\ at' = "down" /\ \A t \in Thread : todo'[t] = <<>>
           /\ \A f \in File :
                 \/ disk'[f] = disk[f]
                 \/ /\ disk'[f] = Torn /\ "torn" \in risks
                    /\ \E t \in Thread : /\ todo[t] # <<>> /\ todo[t][1].do = "save"
                                         /\ todo[t][1].open = f
<1>1. at' = "down" /\ \A t \in Thread : todo'[t] = <<>>
  BY DEF Ends
<1>2. PICK torn \in SUBSET {todo[t][1].open : t \in {u \in Thread : /\ todo[u] # <<>>
                                                                  /\ todo[u][1].do = "save"}} :
          /\ torn = {} \/ "torn" \in risks
          /\ disk' = [f \in File |-> IF f \in torn THEN Torn ELSE disk[f]]
  BY DEF Ends
<1>3. ASSUME NEW f \in File
      PROVE  \/ disk'[f] = disk[f]
             \/ /\ disk'[f] = Torn /\ "torn" \in risks
                /\ \E t \in Thread : /\ todo[t] # <<>> /\ todo[t][1].do = "save"
                                     /\ todo[t][1].open = f
  <2>1. CASE f \notin torn
    BY <1>2, <2>1
  <2>2. CASE f \in torn
    <3>1. \E t \in {u \in Thread : todo[u] # <<>> /\ todo[u][1].do = "save"} : f = todo[t][1].open
      BY <1>2, <2>2
    <3> QED BY <1>2, <2>2, <3>1
  <2> QED BY <2>1, <2>2
<1> QED BY <1>1, <1>3

\* The process ends, whichever way.
LEMMA EndsHeld ==
    ASSUME FilesInv, ChoiceInv, Ends, UNCHANGED risks, budget' \in Budget
    PROVE  ChoiceInv'
<1>1. "torn" \notin risks => \A f \in LanguageFile : disk'[f] = disk[f]
  BY EndsTears, LanguageFiles
<1> QED BY <1>1, EndsTears, NothingLeft DEF ChoiceInv, LanguageHeld

LEMMA ProcessEndsHeld ==
    ASSUME FilesInv, ChoiceInv, Killed \/ Restart \/ \E w \in Wallet : CannotLoad(w)
    PROVE  ChoiceInv'
<1>1. budget \in Budget
  BY DEF ChoiceInv
<1>2. ASSUME Killed PROVE ChoiceInv'
  BY <1>1, <1>2, SpendKeeps, EndsHeld DEF Killed
<1>3. ASSUME Restart PROVE ChoiceInv'
  BY <1>1, <1>3, EndsHeld DEF Restart
<1>4. ASSUME NEW w \in Wallet, CannotLoad(w) PROVE ChoiceInv'
  BY <1>1, <1>4, EndsHeld DEF CannotLoad
<1> QED BY <1>2, <1>3, <1>4

LEMMA LaunchHeld == ASSUME FilesInv, ChoiceInv, Launch PROVE ChoiceInv'
<1>1. /\ at = "down" /\ Spend("session") /\ at' = "starting"
      /\ UNCHANGED <<risks, disk, owner>>
  BY DEF Launch, memory, sessionVars
<1>2. PICK fails \in BOOLEAN :
          /\ fails => "noCopy" \in risks
          /\ todo' = [todo EXCEPT !["gui"] = CheckSettings(fails)]
  BY DEF Launch
<1>3. budget' \in Budget
  BY <1>1, SpendKeeps DEF ChoiceInv
<1>4. PICK q : q = CheckSettings(fails)
  OBVIOUS
<1>5. /\ todo'["gui"] = q /\ todo'["init"] = <<>> /\ todo'["pool"] = <<>>
  BY <1>1, <1>2, <1>4 DEF FilesInv, Typed, Lists, Thread
<1>6. PICK d : d = Delete(OldIniFile)
  OBVIOUS
<1>7. PICK e : e = Write(IniFile, disk[OldIniFile])
  OBVIOUS
<1>8. \/ q = <<>> /\ (disk[OldIniFile] = Absent \/ disk[IniFile] # Absent)
      \/ q = <<d>> /\ "noCopy" \in risks
      \/ q = <<e, d>> /\ disk[OldIniFile] # Absent /\ disk[IniFile] = Absent
  <2>1. CASE disk[OldIniFile] = Absent \/ disk[IniFile] # Absent
    BY <1>4, <2>1 DEF CheckSettings
  <2>2. CASE ~(disk[OldIniFile] = Absent \/ disk[IniFile] # Absent)
    <3>1. q = (IF fails THEN <<>> ELSE <<e>>) \o <<d>>
      BY <1>4, <1>6, <1>7, <2>2 DEF CheckSettings
    <3>2. CASE fails
      <4>1. q = <<>> \o <<d>>
        BY <3>1, <3>2
      <4>2. q = <<d>>
        BY <4>1, BothLists, ShortLists
      <4> QED BY <1>2, <3>2, <4>2
    <3>3. CASE ~fails
      <4>1. q = <<e>> \o <<d>>
        BY <3>1, <3>3
      <4> QED BY <2>2, <4>1, OneAndOne
    <3> QED BY <3>2, <3>3
  <2> QED BY <2>1, <2>2
<1>9. UpgradesLanguage(q)
  BY <1>6, <1>7, <1>8, ShortLists DEF UpgradesLanguage
<1>10. Opens(d) /\ Opens(e) /\ Aside(d) /\ Aside(e)
  <2>1. \A w \in Wallet : None # OldFile(w) /\ IniFile # OldFile(w)
    BY OwnFiles, FileFacts
  <2>2. d.open = None /\ d.file = OldIniFile /\ e.open = IniFile /\ e.file = IniFile
    BY <1>6, <1>7 DEF Delete, Write, SaveAs
  <2> QED BY <2>1, <2>2, ChoiceFiles DEF Opens, Aside
<1>11. \A i \in 1..Len(q) : Opens(q[i]) /\ Aside(q[i])
  BY <1>8, <1>10, ShortLists
<1>12. LanguageHeld'
  <2>1. UpgradesLanguage(q)'
    BY <1>1, <1>9 DEF UpgradesLanguage
  <2> QED BY <1>1, <1>5, <2>1 DEF ChoiceInv, LanguageHeld
<1>13. ChoicesHeld'
  BY <1>1, <1>5, <1>11, ShortLists DEF ChoicesHeld, Thread
<1> QED BY <1>3, <1>12, <1>13 DEF ChoiceInv

LEMMA StartHeld == ASSUME FilesInv, ChoiceInv, Start PROVE ChoiceInv'
<1>1. /\ at = "starting" /\ todo["gui"] = <<>> /\ UNCHANGED <<risks, budget, todo>>
      /\ at' \in {"down", "menu"}
  BY DEF Start
<1>2. \A t \in Thread : todo'[t] = <<>>
  BY <1>1 DEF FilesInv, Lists, Thread
<1>3. DOMAIN disk = File
  BY DEF FilesInv, Typed
<1>4. \/ disk' = [disk EXCEPT ![RawFile] = Supplied(RawFile, [c \in Custom |-> 0])]
      \/ disk' = [[disk EXCEPT ![CfgFile] = LoadCfg, ![IniFile] = HandleSettings]
                     EXCEPT ![RawFile] = Supplied(RawFile, [c \in Custom |-> 0])]
  BY DEF Start, ParseRaw
<1>5. \A f \in LanguageFile : disk'[f] \in {disk[f], HandleSettings}
  BY <1>3, <1>4, LanguageFiles
<1>6. ASSUME "torn" \notin risks
      PROVE  \A f \in LanguageFile : disk'[f] \in Language \cup {Absent}
  <2>1. \A f \in LanguageFile : disk[f] \in Language \cup {Absent}
    BY <1>6 DEF ChoiceInv, LanguageHeld
  <2>2. HandleSettings \in Language \cup {Absent}
    BY <2>1, FilesAssumption DEF HandleSettings, LanguageFile
  <2> QED BY <1>5, <2>1, <2>2
<1> QED BY <1>1, <1>2, <1>6, NothingLeft DEF ChoiceInv

LEMMA DisconnectHeld == ASSUME FilesInv, ChoiceInv, Disconnect PROVE ChoiceInv'
<1>1. /\ at = "in" /\ Idle /\ at' = "menu" /\ Spend("session") /\ UNCHANGED <<risks, todo>>
  BY DEF Disconnect
<1>2. DOMAIN disk = File /\ owner \in Wallet
  BY <1>1 DEF FilesInv, Typed
<1>3. budget' \in Budget
  BY <1>1, SpendKeeps DEF ChoiceInv
<1>4. PICK files \in {disk, [disk EXCEPT ![SeedFile(owner)] = Absent]} : ParseRaw(files)
  BY DEF Disconnect
<1>5. \A f \in LanguageFile : disk'[f] = disk[f]
  BY <1>2, <1>4, LanguageFiles DEF ParseRaw
<1> QED BY <1>1, <1>3, <1>5, NothingLeft DEF ChoiceInv, LanguageHeld, Idle

LEMMA MenuHeld ==
    ASSUME FilesInv, ChoiceInv, at = "menu", Idle, at' \in {"menu", "login"},
           UNCHANGED <<risks, disk>>, budget' \in Budget,
           NEW q, IsList(q), Does("gui", q),
           \A i \in 1..Len(q) : /\ Opens(q[i])
                                /\ q[i].do = "save" => q[i].file \notin LanguageFile
                                /\ Aside(q[i]) \/ (i = 1 /\ Copies(q[1]))
    PROVE  ChoiceInv'
<1>1. \A t \in Thread : todo[t] = <<>>
  BY DEF Idle
<1>2. todo'["gui"] = q /\ todo'["init"] = <<>> /\ todo'["pool"] = <<>>
  BY <1>1, Starts DEF Thread
<1>3. LanguageHeld'
  BY <1>2, ShortLists DEF ChoiceInv, LanguageHeld, Thread
<1>4. ChoicesHeld'
  <2>1. \A e : Copies(e)' <=> Copies(e)
    BY SameCopies
  <2> QED BY <1>2, <2>1, ShortLists DEF ChoicesHeld, Thread
<1> QED BY <1>3, <1>4 DEF ChoiceInv

LEMMA CopiedHeld ==
    ASSUME NEW w \in Wallet, NEW p, p = CopiedCoins(w)
    PROVE  /\ IsList(p)
           /\ \A i \in 1..Len(p) : /\ i = 1 /\ Copies(p[1]) /\ Opens(p[i])
                                   /\ p[i].file \notin LanguageFile
<1>1. PICK d : d = Write(CoinsFile(w), Asset)
  OBVIOUS
<1>2. d.do = "save" /\ d.file = CoinsFile(w) /\ d.as = Asset /\ d.open = CoinsFile(w)
  BY <1>1 DEF Write, SaveAs
<1>3. Opens(d) /\ d.file \notin LanguageFile
  BY <1>2, FileFacts, LanguageFiles DEF Opens
<1>4. CASE disk[CoinsFile(w)] = Absent
  <2>1. p = <<d>>
    BY <1>1, <1>4 DEF CopiedCoins
  <2>2. Copies(d)
    BY <1>2, <1>4 DEF Copies
  <2> QED BY <1>3, <2>1, <2>2, ShortLists
<1>5. CASE disk[CoinsFile(w)] # Absent
  <2>1. p = <<>>
    BY <1>5 DEF CopiedCoins
  <2> QED BY <2>1, ShortLists
<1> QED BY <1>4, <1>5

LEMMA CreateHeld == ASSUME FilesInv, ChoiceInv, NEW w \in Wallet, Create(w) PROVE ChoiceInv'
<1>1. PICK p : p = CopiedCoins(w)
  OBVIOUS
<1>2. PICK d : d = Write(SeedFile(w), Whole)
  OBVIOUS
<1>3. PICK e : e = Write(ObjectFile(w), Whole)
  OBVIOUS
<1>4. PICK r : r = <<d, e>>
  OBVIOUS
<1>5. PICK q : q = p \o r
  OBVIOUS
<1>6. /\ at = "menu" /\ Idle /\ Spend("user") /\ Does("gui", q)
      /\ UNCHANGED <<risks, disk, at>>
  BY <1>1, <1>2, <1>3, <1>4, <1>5 DEF Create
<1>7. budget' \in Budget
  BY <1>6, SpendKeeps DEF ChoiceInv
<1>8. \A f \in {d, e} : Opens(f) /\ f.file \notin LanguageFile /\ Aside(f)
  <2>1. /\ d.file = SeedFile(w) /\ d.open = SeedFile(w)
        /\ e.file = ObjectFile(w) /\ e.open = ObjectFile(w)
    BY <1>2, <1>3 DEF Write, SaveAs
  <2> QED BY <2>1, FileFacts, ChoiceFiles, LanguageFiles DEF Opens, Aside
<1>9. IsList(r) /\ \A i \in 1..Len(r) : r[i] \in {d, e}
  BY <1>4, ShortLists
<1>10. /\ IsList(p)
       /\ \A i \in 1..Len(p) : /\ i = 1 /\ Copies(p[1]) /\ Opens(p[i])
                               /\ p[i].file \notin LanguageFile
  BY <1>1, CopiedHeld
<1>11. IsList(q)
  BY <1>5, <1>9, <1>10, BothLists
<1>12. \A i \in 1..Len(q) : \/ i \in 1..Len(p) /\ q[i] = p[i]
                            \/ i - Len(p) \in 1..Len(r) /\ q[i] = r[i - Len(p)]
  BY <1>5, <1>9, <1>10, Joined
<1>13. \A i \in 1..Len(q) : /\ Opens(q[i])
                            /\ q[i].do = "save" => q[i].file \notin LanguageFile
                            /\ Aside(q[i]) \/ (i = 1 /\ Copies(q[1]))
  <2> SUFFICES ASSUME NEW i \in 1..Len(q)
               PROVE  /\ Opens(q[i])
                      /\ q[i].do = "save" => q[i].file \notin LanguageFile
                      /\ Aside(q[i]) \/ (i = 1 /\ Copies(q[1]))
    OBVIOUS
  <2>1. CASE i \in 1..Len(p) /\ q[i] = p[i]
    BY <1>10, <2>1
  <2>2. CASE i - Len(p) \in 1..Len(r) /\ q[i] = r[i - Len(p)]
    <3>1. q[i] \in {d, e}
      BY <1>9, <2>2
    <3> QED BY <1>8, <3>1
  <2> QED BY <1>12, <2>1, <2>2
<1> QED BY <1>6, <1>7, <1>11, <1>13, MenuHeld

LEMMA LoginHeld == ASSUME FilesInv, ChoiceInv, NEW w \in Wallet, Login(w) PROVE ChoiceInv'
<1>1. PICK p : p = CopiedCoins(w)
  OBVIOUS
<1>2. PICK e : e = Edit("migrate", None, w)
  OBVIOUS
<1>3. PICK r : r = <<e>>
  OBVIOUS
<1>4. PICK q : q = p \o r
  OBVIOUS
<1>5. /\ at = "menu" /\ Idle /\ UNCHANGED <<risks, disk, budget>>
  BY DEF Login
<1>6. budget' \in Budget
  BY <1>5 DEF ChoiceInv
<1>7. /\ IsList(p)
      /\ \A i \in 1..Len(p) : /\ i = 1 /\ Copies(p[1]) /\ Opens(p[i])
                              /\ p[i].file \notin LanguageFile
  BY <1>1, CopiedHeld
<1>8. CASE UNCHANGED <<at, owner>> /\ Does("gui", CopiedCoins(w))
  BY <1>1, <1>5, <1>6, <1>7, <1>8, MenuHeld
<1>9. CASE at' = "login" /\ Does("gui", Append(CopiedCoins(w), Edit("migrate", None, w)))
  <2>1. Append(p, e) = p \o <<e>>
    BY <1>7, Appended
  <2>2. Does("gui", q)
    BY <1>1, <1>2, <1>3, <1>4, <1>9, <2>1
  <2>3. IsList(r) /\ Len(r) = 1 /\ r[1] = e
    BY <1>3, ShortLists
  <2>4. IsList(q)
    BY <1>4, <1>7, <2>3, BothLists
  <2>5. \A i \in 1..Len(q) : \/ i \in 1..Len(p) /\ q[i] = p[i]
                             \/ i - Len(p) \in 1..Len(r) /\ q[i] = r[i - Len(p)]
    BY <1>4, <1>7, <2>3, Joined
  <2>6. Opens(e) /\ Aside(e) /\ e.do # "save"
    BY <1>2 DEF Opens, Aside, Edit
  <2>7. \A i \in 1..Len(q) : /\ Opens(q[i])
                             /\ q[i].do = "save" => q[i].file \notin LanguageFile
                             /\ Aside(q[i]) \/ (i = 1 /\ Copies(q[1]))
    <3> SUFFICES ASSUME NEW i \in 1..Len(q)
                 PROVE  /\ Opens(q[i])
                        /\ q[i].do = "save" => q[i].file \notin LanguageFile
                        /\ Aside(q[i]) \/ (i = 1 /\ Copies(q[1]))
      OBVIOUS
    <3>1. CASE i \in 1..Len(p) /\ q[i] = p[i]
      BY <1>7, <3>1
    <3>2. CASE i - Len(p) \in 1..Len(r) /\ q[i] = r[i - Len(p)]
      <4>1. q[i] = e
        BY <2>3, <3>2
      <4> QED BY <2>6, <4>1
    <3> QED BY <2>5, <3>1, <3>2
  <2> QED BY <1>5, <1>6, <1>9, <2>2, <2>4, <2>7, MenuHeld
<1> QED BY <1>8, <1>9 DEF Login

LEMMA RetrieveHeld == ASSUME FilesInv, ChoiceInv, Retrieve PROVE ChoiceInv'
<1>1. /\ at = "login" /\ todo["gui"] = <<>> /\ UNCHANGED <<risks, budget>>
  BY DEF Retrieve
<1>2. \A t \in Thread : todo[t] = <<>>
  BY <1>1 DEF FilesInv, Lists, Thread
<1>3. disk[CoinsFile(owner)] # Absent
  BY <1>1, ShortLists DEF FilesInv, Upgraded, LoginList
<1>4. CASE Ends
  BY <1>1, <1>4, EndsHeld DEF ChoiceInv
<1>5. CASE /\ Torn \notin {disk[CoinsFile(owner)], disk[TokensFile(owner)]}
           /\ at' = "in" /\ UNCHANGED <<disk, owner, todo>>
  <2>1. LanguageHeld'
    BY <1>1, <1>5 DEF ChoiceInv, LanguageHeld
  <2>2. Sets(<<>>)'
    BY ShortLists DEF Sets
  <2>3. ChoicesHeld'
    BY <1>2, <1>3, <1>5, <2>2, ShortLists DEF ChoicesHeld, Thread
  <2> QED BY <1>1, <2>1, <2>3 DEF ChoiceInv
<1> QED BY <1>4, <1>5 DEF Retrieve

LEMMA DefaultsHeld == ASSUME FilesInv, ChoiceInv, EnableDefaultCoins PROVE ChoiceInv'
<1>1. PICK q : q = ReAdd(Active)
  OBVIOUS
<1>2. /\ at = "in" /\ init = "starting" /\ Does("init", q)
      /\ UNCHANGED <<risks, budget, disk, at, owner>>
  BY <1>1 DEF EnableDefaultCoins
<1>3. OnlyEdits(q)
  BY <1>1, ReAdded DEF OnlyEdits, Adds
<1>4. \A t \in Thread : todo[t] = <<>>
  BY <1>2 DEF FilesInv, Lists, Idle
<1>5. todo'["init"] = q /\ todo'["gui"] = <<>> /\ todo'["pool"] = <<>>
  BY <1>2, <1>3, <1>4, Starts DEF Thread, OnlyEdits
<1>6. \A t \in Thread : OnlyEdits(todo'[t])
  BY <1>3, <1>5, NothingEdited DEF Thread
<1>7. LanguageHeld'
  BY <1>2, <1>6 DEF ChoiceInv, LanguageHeld, OnlyEdits
<1>8. ASSUME "hasty" \notin risks PROVE ChoicesHeld'
  <2>1. Torn \notin {disk[CoinsFile(owner)], disk[TokensFile(owner)]}
        /\ disk[CoinsFile(owner)] # Absent
    BY <1>2, <1>8 DEF ChoiceInv, ChoicesHeld
  <2>2. \A l : OnlyEdits(l) => Sets(l)'
    BY DEF Sets, OnlyEdits, Aside
  <2>3. Sets(q)' /\ Sets(<<>>)'
    BY <1>3, <2>2, NothingEdited
  <2>4. \A t \in Thread : \A i \in 1..Len(todo'[t]) : Opens(todo'[t][i])
    BY <1>6 DEF OnlyEdits, Opens
  <2> QED BY <1>2, <1>5, <2>1, <2>3, <2>4 DEF ChoicesHeld
<1> QED BY <1>2, <1>7, <1>8 DEF ChoiceInv

LEMMA HeldInitially == FilesInit => ChoiceInv
<1> SUFFICES ASSUME FilesInit
             PROVE  ChoiceInv
  OBVIOUS
<1>1. PICK s \in Standings :
          /\ risks = s.faults /\ budget = s.left
          /\ disk = [f \in File |->
                CASE f[1] = "old" -> s.old[f[2]]
                  [] f[1] = "tokens" -> s.tokens[f[2]]
                  [] f = OldIniFile -> s.ini
                  [] f[1] \in {"seed", "object"} -> IF f[2] \in s.seeds THEN Whole ELSE Absent
                  [] OTHER -> Absent]
  BY DEF FilesInit
<1>2. at = "down" /\ todo = [t \in Thread |-> <<>>]
  BY DEF FilesInit
<1>3. s.ini \in Language \cup {Absent} /\ s.left \in Budget
  BY FilesAssumption DEF Standing
<1>4. disk[OldIniFile] = s.ini /\ disk[IniFile] = Absent
  BY <1>1, LanguageFiles DEF LanguageFile, OldIniFile, IniFile
<1>5. \A t \in Thread : todo[t] = <<>> /\ Len(todo[t]) = 0
  BY <1>2, ShortLists
<1>6. LanguageHeld
  BY <1>2, <1>3, <1>4, <1>5 DEF LanguageHeld, LanguageFile
<1>7. ChoicesHeld
  BY <1>2, <1>5 DEF ChoicesHeld, Thread
<1> QED BY <1>1, <1>3, <1>6, <1>7 DEF ChoiceInv

-----------------------------------------------------------------------------
(* ChoiceInv after a write, of the language and of the choices.            *)

\* A write of no choice leaves the files of the choices as they were.
LEMMA SavedAside ==
    ASSUME FilesInv, NEW t \in Thread, Saved(t), NEW q, q = todo[t]
    PROVE  /\ Aside(q[1]) => \A f \in ChoiceFile : disk'[f] = disk[f]
           /\ q[1].file \notin LanguageFile => \A f \in LanguageFile : disk'[f] = disk[f]
<1>1. q[1].do = "save" /\ \A f \in File : disk'[f] = IF f = q[1].file THEN q[1].as ELSE disk[f]
  BY SavedDoes
<1> QED BY <1>1, ChoiceFiles, LanguageFiles DEF Aside

\* What is left to open, and the other threads.
LEMMA SavedOpens ==
    ASSUME FilesInv, NEW t \in Thread, Saved(t),
           \A u \in Thread : \A i \in 1..Len(todo[u]) : Opens(todo[u][i])
    PROVE  \A u \in Thread : \A i \in 1..Len(todo'[u]) : Opens(todo'[u][i])
<1>1. PICK q : q = todo[t]
  OBVIOUS
<1>2. /\ Len(q) \in Nat \ {0} /\ Len(todo'[t]) = Len(q) - 1
      /\ \A i \in 1..(Len(q) - 1) : todo'[t][i] = q[i + 1]
      /\ \A u \in Thread \ {t} : todo'[u] = todo[u]
  BY <1>1, SavedDoes
<1>3. \A i \in 1..Len(todo'[t]) : Opens(todo'[t][i])
  <2> TAKE i \in 1..Len(todo'[t])
  <2>1. i + 1 \in 1..Len(q) /\ todo'[t][i] = q[i + 1]
    BY <1>2
  <2> QED BY <1>1, <2>1
<1> QED BY <1>2, <1>3

\* The language, once a write is done.
LEMMA SavedLanguage ==
    ASSUME FilesInv, ChoiceInv, NEW t \in Thread, Saved(t)
    PROVE  LanguageHeld'
<1>1. PICK q : q = todo[t]
  OBVIOUS
<1>2. PICK r : r = todo'[t]
  OBVIOUS
<1>3. /\ Len(q) \in Nat \ {0} /\ Len(r) = Len(q) - 1 /\ q[1].do = "save"
      /\ \A i \in 1..(Len(q) - 1) : r[i] = q[i + 1]
      /\ \A u \in Thread \ {t} : todo'[u] = todo[u]
      /\ \A f \in File : disk'[f] = IF f = q[1].file THEN q[1].as ELSE disk[f]
      /\ UNCHANGED <<risks, at>>
  BY <1>1, <1>2, SavedDoes
<1>4. LanguageHeld
  BY DEF ChoiceInv
<1>5. CASE at # "starting"
  <2>1. q[1].file \notin LanguageFile
    BY <1>1, <1>3, <1>4, <1>5 DEF LanguageHeld
  <2>2. \A f \in LanguageFile : disk'[f] = disk[f]
    BY <1>1, <2>1, SavedAside
  <2>3. \A i \in 1..Len(r) : r[i].do = "save" => r[i].file \notin LanguageFile
    <3> TAKE i \in 1..Len(r)
    <3>1. i + 1 \in 1..Len(q) /\ r[i] = q[i + 1]
      BY <1>3
    <3> QED BY <1>1, <1>4, <1>5, <3>1 DEF LanguageHeld
  <2>4. \A u \in Thread : \A i \in 1..Len(todo'[u]) :
            todo'[u][i].do = "save" => todo'[u][i].file \notin LanguageFile
    BY <1>2, <1>3, <1>4, <1>5, <2>3 DEF LanguageHeld
  <2> QED BY <1>3, <1>4, <1>5, <2>2, <2>4 DEF LanguageHeld
<1>6. CASE at = "starting"
  <2>1. todo["init"] = <<>> /\ todo["pool"] = <<>>
    BY <1>6 DEF FilesInv, Lists
  <2>2. t = "gui"
    BY <1>1, <1>3, <2>1, ShortLists DEF Thread
  <2>3. UpgradesLanguage(q)
    BY <1>1, <1>4, <1>6, <2>2 DEF LanguageHeld
  <2>4. IniFile \in File /\ OldIniFile \in File /\ IniFile # OldIniFile
    BY LanguageFiles DEF LanguageFile
  <2>5. CASE Len(q) = 1 /\ q[1] = Delete(OldIniFile)
    <3>1. q[1].file = OldIniFile /\ q[1].as = Absent
      BY <2>5 DEF Delete, SaveAs
    <3>2. Len(r) = 0
      BY <1>3, <2>5
    <3>3. disk'[OldIniFile] = Absent /\ disk'[IniFile] = disk[IniFile]
      BY <1>3, <2>4, <3>1
    <3>4. UpgradesLanguage(r)'
      BY <1>3, <3>2, <3>3 DEF UpgradesLanguage
    <3> QED BY <1>2, <1>3, <1>4, <1>6, <2>2, <3>3, <3>4 DEF LanguageHeld, LanguageFile
  <2>6. CASE /\ Len(q) = 2 /\ q[1] = Write(IniFile, disk[OldIniFile])
             /\ q[2] = Delete(OldIniFile)
             /\ disk[IniFile] = Absent /\ disk[OldIniFile] # Absent
    <3>1. q[1].file = IniFile /\ q[1].as = disk[OldIniFile]
      BY <2>6 DEF Write, SaveAs
    <3>2. Len(r) = 1 /\ r[1] = q[2]
      BY <1>3, <2>6
    <3>3. disk'[IniFile] = disk[OldIniFile] /\ disk'[OldIniFile] = disk[OldIniFile]
      BY <1>3, <2>4, <3>1
    <3>4. UpgradesLanguage(r)'
      BY <2>6, <3>2, <3>3 DEF UpgradesLanguage
    <3> QED BY <1>2, <1>3, <1>4, <1>6, <2>2, <3>3, <3>4 DEF LanguageHeld, LanguageFile
  <2> QED BY <1>3, <2>3, <2>5, <2>6 DEF UpgradesLanguage
<1> QED BY <1>5, <1>6

\* The tail of the writes of a choice.
LEMMA SavedSets ==
    ASSUME FilesInv, at \in {"in", "modal"}, NEW t \in Thread, Saved(t), Sets(todo[t]),
           NEW r, r = todo'[t],
           Torn \notin {disk[CoinsFile(owner)], disk[TokensFile(owner)]}
    PROVE  /\ Sets(r)'
           /\ Torn \notin {disk'[CoinsFile(owner)], disk'[TokensFile(owner)]}
           /\ disk[CoinsFile(owner)] # Absent => disk'[CoinsFile(owner)] # Absent
<1>1. PICK q : q = todo[t]
  OBVIOUS
<1>2. /\ Len(q) \in Nat \ {0} /\ Len(r) = Len(q) - 1 /\ q[1].do = "save"
      /\ \A i \in 1..(Len(q) - 1) : r[i] = q[i + 1]
      /\ \A f \in File : disk'[f] = IF f = q[1].file THEN q[1].as ELSE disk[f]
      /\ UNCHANGED owner
  BY <1>1, SavedDoes
<1>3. owner \in Wallet /\ CoinsFile(owner) \in File /\ TokensFile(owner) \in File
      /\ CoinsFile(owner) # TokensFile(owner)
  BY FileFacts DEF FilesInv, Typed
<1>4. \A i \in 1..Len(r) : i + 1 \in 1..Len(q) /\ r[i] = q[i + 1] /\ i + 1 # 1
  BY <1>2
<1>5. \A i \in 1..Len(q) :
         \/ Aside(q[i])
         \/ i = 1 /\ (SetsCoins(q[1]) \/ SetsTokens(q[1]))
         \/ i = 2 /\ SetsTokens(q[2]) /\ q[1].do = "save" /\ q[1].file = CoinsFile(owner)
  BY <1>1 DEF Sets
<1>6. CASE q[1].file # CoinsFile(owner)
  <2>1. \A i \in 1..Len(r) : Aside(r[i])
    BY <1>4, <1>5, <1>6
  <2>2. Sets(r)'
    BY <2>1 DEF Sets, Aside
  <2>3. Aside(q[1]) \/ SetsTokens(q[1])
    BY <1>2, <1>5, <1>6 DEF SetsCoins
  <2>4. CASE Aside(q[1])
    <3>1. \A f \in ChoiceFile : disk'[f] = disk[f]
      BY <1>1, <2>4, SavedAside
    <3> QED BY <1>2, <1>3, <2>2, <3>1, ChoiceFiles
  <2>5. CASE SetsTokens(q[1])
    <3>1. disk'[TokensFile(owner)] = q[1].as /\ q[1].as \in Tokens
          /\ disk'[CoinsFile(owner)] = disk[CoinsFile(owner)]
      BY <1>2, <1>3, <2>5 DEF SetsTokens
    <3>2. q[1].as # Torn
      BY <3>1, NotBad
    <3> QED BY <1>2, <2>2, <3>1, <3>2
  <2> QED BY <2>3, <2>4, <2>5
<1>7. CASE q[1].file = CoinsFile(owner)
  <2>1. ~Aside(q[1]) /\ ~SetsTokens(q[1])
    BY <1>2, <1>3, <1>7, ChoiceFiles DEF Aside, SetsTokens
  <2>2. SetsCoins(q[1])
    BY <1>2, <1>5, <2>1
  <2>3. q[1].as \in Coins
    BY <2>2, SwitchedCoins DEF SetsCoins
  <2>4. disk'[CoinsFile(owner)] = q[1].as /\ disk'[TokensFile(owner)] = disk[TokensFile(owner)]
    BY <1>2, <1>3, <1>7
  <2>5. TokensOf(owner)' = TokensOf(owner)
    BY <1>2, <2>4 DEF TokensOf
  <2>6. \A e : SetsTokens(e)' <=> SetsTokens(e)
    BY <1>2, <2>5 DEF SetsTokens
  <2>7. \A i \in 1..Len(r) : Aside(r[i]) \/ (i = 1 /\ SetsTokens(r[1]))
    <3> TAKE i \in 1..Len(r)
    <3>1. i + 1 \in 1..Len(q) /\ r[i] = q[i + 1] /\ i + 1 # 1 /\ i \in Nat
      BY <1>4
    <3>2. Aside(q[i + 1]) \/ (i + 1 = 2 /\ SetsTokens(q[2]))
      BY <1>5, <3>1
    <3>3. CASE i + 1 = 2 /\ SetsTokens(q[2])
      <4>1. i = 1
        BY <3>1, <3>3
      <4> QED BY <3>1, <3>3, <4>1
    <3> QED BY <3>1, <3>2, <3>3
  <2>8. Sets(r)'
    BY <2>6, <2>7 DEF Sets, Aside
  <2>9. q[1].as \notin {Torn, Absent}
    BY <2>3, NotBad
  <2> QED BY <1>2, <2>4, <2>8, <2>9
<1> QED BY <1>6, <1>7

\* A write by a thread, the only one with anything to do.
LEMMA InSavedHeld ==
    ASSUME FilesInv, ChoiceInv, NEW t \in Thread, Saved(t), at = "in", "hasty" \notin risks
    PROVE  ChoicesHeld'
<1>1. PICK r : r = todo'[t]
  OBVIOUS
<1>2. ChoicesHeld
  BY DEF ChoiceInv
<1>3. /\ todo[t] # <<>> /\ \A u \in Thread \ {t} : todo'[u] = todo[u]
      /\ UNCHANGED <<risks, at, owner>>
  BY SavedDoes
<1>4. \A u \in Thread \ {t} : todo[u] = <<>>
  BY <1>2, <1>3 DEF ChoicesHeld, FilesInv, Lists, Thread
<1>5. \A u \in Thread \ {t} : todo'[u] = <<>>
  BY <1>3, <1>4
<1>6. /\ Torn \notin {disk[CoinsFile(owner)], disk[TokensFile(owner)]}
      /\ disk[CoinsFile(owner)] # Absent /\ Sets(todo[t])
  BY <1>2 DEF ChoicesHeld, Thread
<1>7. /\ Sets(r)'
      /\ Torn \notin {disk'[CoinsFile(owner)], disk'[TokensFile(owner)]}
      /\ disk'[CoinsFile(owner)] # Absent
  BY <1>1, <1>6, SavedSets
<1>8. Sets(<<>>)'
  BY ShortLists DEF Sets
<1>9. \A u \in Thread : \A i \in 1..Len(todo'[u]) : Opens(todo'[u][i])
  BY <1>2, SavedOpens DEF ChoicesHeld
<1>10. Sets(todo["gui"])' /\ Sets(todo["init"])' /\ Sets(todo["pool"])'
  <2>1. CASE t = "gui"
    BY <1>1, <1>5, <1>7, <1>8, <2>1 DEF Thread
  <2>2. CASE t = "init"
    BY <1>1, <1>5, <1>7, <1>8, <2>2 DEF Thread
  <2>3. CASE t = "pool"
    BY <1>1, <1>5, <1>7, <1>8, <2>3 DEF Thread
  <2> QED BY <2>1, <2>2, <2>3 DEF Thread
<1>11. todo'["pool"] # <<>> => todo'["gui"] = <<>> /\ todo'["init"] = <<>>
  <2>1. todo'["pool"] # <<>> => t = "pool"
    BY <1>5 DEF Thread
  <2> QED BY <1>5, <2>1 DEF Thread
<1> QED BY <1>3, <1>7, <1>9, <1>10, <1>11 DEF ChoicesHeld

\* The same while the user is told of a restart.
LEMMA ModalSavedHeld ==
    ASSUME FilesInv, ChoiceInv, NEW t \in Thread, Saved(t), at = "modal", "hasty" \notin risks
    PROVE  ChoicesHeld'
<1>1. PICK q : q = todo[t]
  OBVIOUS
<1>2. PICK r : r = todo'[t]
  OBVIOUS
<1>3. /\ q # <<>> /\ \A u \in Thread \ {t} : todo'[u] = todo[u]
      /\ Len(q) \in Nat \ {0} /\ Len(r) = Len(q) - 1 /\ q[1].do = "save"
      /\ \A i \in 1..(Len(q) - 1) : r[i] = q[i + 1]
      /\ \A f \in File : disk'[f] = IF f = q[1].file THEN q[1].as ELSE disk[f]
      /\ UNCHANGED <<risks, at, owner>>
  BY <1>1, <1>2, SavedDoes
<1>4. ChoicesHeld
  BY DEF ChoiceInv
<1>5. todo["init"] = <<>> /\ todo["pool"] = <<>>
  BY <1>4 DEF ChoicesHeld, FilesInv, Lists
<1>6. t = "gui" /\ todo'["init"] = <<>> /\ todo'["pool"] = <<>>
  BY <1>1, <1>3, <1>5 DEF Thread
<1>7. /\ Torn \notin {disk[CoinsFile(owner)], disk[TokensFile(owner)]}
      /\ Sets(q) \/ Resets(q)
  BY <1>1, <1>4, <1>6 DEF ChoicesHeld
<1>8. Sets(<<>>)'
  BY ShortLists DEF Sets
<1>9. \A u \in Thread : \A i \in 1..Len(todo'[u]) : Opens(todo'[u][i])
  BY <1>4, SavedOpens DEF ChoicesHeld
<1>10. owner \in Wallet /\ CoinsFile(owner) \in File /\ TokensFile(owner) \in File
       /\ CoinsFile(owner) # TokensFile(owner) /\ RawFile \notin ChoiceFile
  BY FileFacts, ChoiceFiles DEF FilesInv, Typed
<1>11. /\ Sets(r)' \/ Resets(r)'
       /\ Torn \notin {disk'[CoinsFile(owner)], disk'[TokensFile(owner)]}
  <2>1. CASE Sets(q)
    BY <1>1, <1>2, <1>7, <2>1, SavedSets
  <2>2. CASE /\ Len(q) = 3 /\ q[2] = Delete(CoinsFile(owner)) /\ q[3] = Delete(RawFile)
             /\ SetsTokens(q[1]) /\ AllOff(q[1].as)
    <3>1. q[1].file = TokensFile(owner) /\ q[1].as \in Tokens
      BY <2>2 DEF SetsTokens
    <3>2. Len(r) = 2 /\ r[1] = q[2] /\ r[2] = q[3]
      BY <1>3, <2>2
    <3>3. disk'[TokensFile(owner)] = q[1].as /\ disk'[CoinsFile(owner)] = disk[CoinsFile(owner)]
      BY <1>3, <1>10, <3>1
    <3>4. q[1].as # Torn /\ q[1].as # Absent
      BY <3>1, NotBad
    <3>5. TokensOf(owner)' = q[1].as
      BY <1>3, <3>3, <3>4 DEF TokensOf
    <3>6. Resets(r)'
      BY <1>3, <2>2, <3>2, <3>5 DEF Resets
    <3> QED BY <1>3, <1>7, <3>3, <3>4, <3>6
  <2>3. CASE Len(q) = 2 /\ q[1] = Delete(CoinsFile(owner)) /\ q[2] = Delete(RawFile)
    <3>1. q[1].file = CoinsFile(owner) /\ q[1].as = Absent /\ q[2].file = RawFile
      BY <2>3 DEF Delete, SaveAs
    <3>2. Len(r) = 1 /\ r[1] = q[2]
      BY <1>3, <2>3
    <3>3. Aside(r[1])
      BY <1>10, <3>1, <3>2 DEF Aside
    <3>4. \A i \in 1..Len(r) : Aside(r[i])
      BY <3>2, <3>3
    <3>5. Sets(r)'
      BY <3>4 DEF Sets, Aside
    <3>6. disk'[CoinsFile(owner)] = Absent /\ disk'[TokensFile(owner)] = disk[TokensFile(owner)]
      BY <1>3, <1>10, <3>1
    <3> QED BY <1>3, <1>7, <3>5, <3>6, FilesAssumption
  <2> QED BY <1>3, <1>7, <2>1, <2>2, <2>3 DEF Resets
<1> QED BY <1>2, <1>3, <1>6, <1>8, <1>9, <1>11 DEF ChoicesHeld

\* Before a wallet is logged in only the GUI thread writes.
LEMMA GuiSaved ==
    ASSUME FilesInv, NEW t \in Thread, Saved(t), at \notin {"in", "modal"}
    PROVE  /\ t = "gui" /\ todo'["init"] = <<>> /\ todo'["pool"] = <<>>
           /\ \A i \in 1..Len(todo'["gui"]) :
                 /\ i \in Nat \ {0} /\ i + 1 \in 1..Len(todo["gui"]) /\ i + 1 # 1
                 /\ todo'["gui"][i] = todo["gui"][i + 1]
<1>1. PICK q : q = todo[t]
  OBVIOUS
<1>2. /\ q # <<>> /\ \A u \in Thread \ {t} : todo'[u] = todo[u]
      /\ Len(q) \in Nat \ {0} /\ Len(todo'[t]) = Len(q) - 1
      /\ \A i \in 1..(Len(q) - 1) : todo'[t][i] = q[i + 1]
  BY <1>1, SavedDoes
<1>3. todo["init"] = <<>> /\ todo["pool"] = <<>>
  BY DEF FilesInv, Lists
<1>4. t = "gui" /\ todo'["init"] = <<>> /\ todo'["pool"] = <<>>
  BY <1>1, <1>2, <1>3 DEF Thread
<1>5. \A i \in 1..Len(todo'[t]) :
         /\ i \in Nat \ {0} /\ i + 1 \in 1..Len(q) /\ i + 1 # 1
         /\ todo'[t][i] = q[i + 1]
  BY <1>2
<1> QED BY <1>1, <1>4, <1>5

LEMMA MenuSavedHeld ==
    ASSUME FilesInv, ChoiceInv, NEW t \in Thread, Saved(t), at \notin {"login", "in", "modal"},
           "hasty" \notin risks
    PROVE  ChoicesHeld'
<1>1. ChoicesHeld
  BY DEF ChoiceInv
<1>2. UNCHANGED <<at, owner>>
  BY SavedDoes
<1>3. \A u \in Thread : \A i \in 1..Len(todo'[u]) : Opens(todo'[u][i])
  BY <1>1, SavedOpens DEF ChoicesHeld
<1>4. ASSUME at \in {"starting", "menu"} PROVE \A i \in 1..Len(todo'["gui"]) : Aside(todo'["gui"][i])
  <2>1. \A i \in 2..Len(todo["gui"]) : Aside(todo["gui"][i])
    BY <1>1, <1>4 DEF ChoicesHeld
  <2> TAKE i \in 1..Len(todo'["gui"])
  <2>2. i + 1 \in 2..Len(todo["gui"]) /\ todo'["gui"][i] = todo["gui"][i + 1]
    BY <1>4, GuiSaved
  <2> QED BY <2>1, <2>2
<1> QED BY <1>2, <1>3, <1>4, GuiSaved DEF ChoicesHeld

\* An upgrade of the precedent file, after one of its writes.
LEMMA LoginSavedHeld ==
    ASSUME FilesInv, ChoiceInv, NEW t \in Thread, Saved(t), at = "login", "hasty" \notin risks
    PROVE  ChoicesHeld'
<1>1. PICK q : q = todo["gui"]
  OBVIOUS
<1>2. PICK r : r = todo'["gui"]
  OBVIOUS
<1>3. ChoicesHeld
  BY DEF ChoiceInv
<1>4. t = "gui" /\ todo'["init"] = <<>> /\ todo'["pool"] = <<>>
  BY GuiSaved
<1>5. /\ Len(q) \in Nat \ {0} /\ Len(r) = Len(q) - 1 /\ q[1].do = "save"
      /\ \A i \in 1..(Len(q) - 1) : r[i] = q[i + 1]
      /\ \A f \in File : disk'[f] = IF f = q[1].file THEN q[1].as ELSE disk[f]
      /\ UNCHANGED <<risks, at, owner>>
  BY <1>1, <1>2, <1>4, SavedDoes
<1>6. \A u \in Thread : \A i \in 1..Len(todo'[u]) : Opens(todo'[u][i])
  BY <1>3, SavedOpens DEF ChoicesHeld
<1>7. \A i \in 1..Len(q) : Aside(q[i]) \/ (i = 1 /\ Copies(q[1])) \/ Upgrades(q, i)
  BY <1>1, <1>3 DEF ChoicesHeld
<1>8. LoginList(q)
  BY <1>1 DEF FilesInv, Upgraded
<1>9. /\ owner \in Wallet /\ CoinsFile(owner) \in ChoiceFile /\ OldFile(owner) \in ChoiceFile
      /\ CoinsFile(owner) \in File /\ OldFile(owner) \in File
      /\ CoinsFile(owner) # OldFile(owner)
  BY FileFacts, ChoiceFiles DEF FilesInv, Typed
<1>10. \A e : (StoresCoins(e) \/ RemovesOld(e)) => ~Aside(e)
  BY <1>9 DEF StoresCoins, RemovesOld, Aside
<1>11. \A i \in 1..Len(r) : i \in Nat \ {0} /\ i + 1 \in 1..Len(q) /\ r[i] = q[i + 1]
  BY <1>5
<1>12. Absent \notin Coins /\ Torn \notin Coins /\ (\A v \in Coins : v \notin Bad) /\ Absent \in Bad
  BY NotBad
<1>13. \A i \in 1..Len(r) : Aside(r[i]) \/ Upgrades(r, i)'
  <2>1. CASE Len(q) = 1
    BY <1>5, <2>1
  <2>2. CASE Len(q) = 2 /\ StoresCoins(q[1]) /\ Migrates(q[2])
    <3>1. Len(r) = 1 /\ r[1] = q[2]
      BY <1>5, <2>2
    <3>2. Aside(r[1])
      BY <2>2, <3>1 DEF Migrates, Aside
    <3> QED BY <3>1, <3>2
  <2>3. CASE Len(q) = 2 /\ RemovesOld(q[1]) /\ StoresCoins(q[2])
    <3>1. Len(r) = 1 /\ r[1] = q[2]
      BY <1>5, <2>3
    <3>2. q[1].file = OldFile(owner) /\ q[1].as = Absent /\ q[2].file = CoinsFile(owner)
      BY <2>3 DEF RemovesOld, StoresCoins
    <3>3. ~Copies(q[1])
      BY <3>2, FileFacts, <1>9 DEF Copies
    <3>4. Upgrades(q, 1) /\ Upgrades(q, 2)
      BY <1>7, <1>10, <2>3, <3>3
    <3>5. disk[CoinsFile(owner)] \in Coins /\ disk[CoinsFile(owner)] = Merged
      BY <1>9, <3>2, <3>4 DEF Upgrades
    <3>6. q[2].do = "save" /\ q[2].as = disk[CoinsFile(owner)]
      BY <1>9, <3>2, <3>4, <3>5 DEF Upgrades, RemovesOld
    <3>7. disk'[OldFile(owner)] = Absent /\ disk'[CoinsFile(owner)] = disk[CoinsFile(owner)]
      BY <1>5, <1>9, <3>2
    <3>8. Upgrades(r, 1)'
      BY <1>5, <1>12, <3>1, <3>2, <3>5, <3>6, <3>7 DEF Upgrades, Merged
    <3> QED BY <3>1, <3>8
  <2>4. CASE /\ Len(q) = 3 /\ disk[CoinsFile(owner)] # Absent
             /\ StoresCoins(q[1]) /\ RemovesOld(q[2]) /\ StoresCoins(q[3])
    <3>1. Len(r) = 2 /\ r[1] = q[2] /\ r[2] = q[3]
      BY <1>5, <2>4
    <3>2. /\ q[1].file = CoinsFile(owner) /\ q[1].as \in Coins
          /\ q[2].file = OldFile(owner) /\ q[3].file = CoinsFile(owner)
      BY <2>4 DEF RemovesOld, StoresCoins
    <3>3. Upgrades(q, 2) /\ Upgrades(q, 3)
      BY <1>7, <1>10, <2>4
    <3>4. /\ disk[CoinsFile(owner)] \in Coins /\ disk[OldFile(owner)] \in OldCoins
          /\ q[1].as = Merged
      BY <1>9, <3>2, <3>3 DEF Upgrades
    <3>5. q[3].do = "save" /\ q[3].as = Merged
      BY <1>9, <3>2, <3>3 DEF Upgrades, RemovesOld
    <3>6. /\ disk'[CoinsFile(owner)] = q[1].as
          /\ disk'[OldFile(owner)] = disk[OldFile(owner)]
      BY <1>5, <1>9, <3>2
    <3>7. RemovesOld(r[1])'
      BY <1>5, <2>4, <3>1 DEF RemovesOld
    <3>8. r[1].do = "save"
      BY <2>4, <3>1 DEF RemovesOld
    <3>9. Merged' = q[1].as
      <4>1. PICK old \in OldCoins : old = disk[OldFile(owner)]
        BY <3>4
      <4>2. PICK new \in Coins : new = disk[CoinsFile(owner)]
        BY <3>4
      <4>3. PICK g : g = q[1].as
        OBVIOUS
      <4>4. old \notin Bad
        BY NotBad
      <4>5. g = Merge(old, new)
        BY <3>4, <4>1, <4>2, <4>3, <4>4 DEF Merged
      <4>6. Merge(old, g) = g
        BY <4>5, MergeTwice
      <4>7. Merged' = IF old \in Bad THEN g ELSE Merge(old, g)
        BY <1>5, <3>6, <4>1, <4>3 DEF Merged
      <4> QED BY <4>3, <4>4, <4>6, <4>7
    <3>10. Upgrades(r, 1)' /\ Upgrades(r, 2)'
      BY <1>5, <3>1, <3>2, <3>4, <3>5, <3>6, <3>7, <3>8, <3>9 DEF Upgrades
    <3>11. \A i \in 1..Len(r) : i = 1 \/ i = 2
      BY <3>1
    <3> QED BY <3>10, <3>11
  <2> QED BY <1>5, <1>8, <2>1, <2>2, <2>3, <2>4 DEF LoginList
<1> QED BY <1>2, <1>4, <1>5, <1>6, <1>13 DEF ChoicesHeld

\* A write by any thread, wherever the user is.
LEMMA SavedHeld ==
    ASSUME FilesInv, ChoiceInv, NEW t \in Thread, Saved(t)
    PROVE  ChoiceInv'
<1>1. UNCHANGED <<risks, budget>>
  BY DEF Saved
<1>2. LanguageHeld'
  BY SavedLanguage
<1>3. ASSUME "hasty" \notin risks PROVE ChoicesHeld'
  BY <1>3, MenuSavedHeld, LoginSavedHeld, InSavedHeld, ModalSavedHeld
<1> QED BY <1>1, <1>2, <1>3 DEF ChoiceInv

-----------------------------------------------------------------------------
(* What the steps that read go on to write.                                *)

\* Writes that open no precedent file of a wallet, and leave the language alone.
Fresh(s) ==
    /\ IsList(s)
    /\ \A i \in 1..Len(s) : s[i].do = "save" /\ s[i].file \notin LanguageFile /\ Opens(s[i])

\* One such write, two, or none.
LEMMA OneFresh ==
    ASSUME owner \in Wallet, NEW f \in {RawFile, CfgFile, CoinsFile(owner), TokensFile(owner)},
           NEW v, NEW s, s = <<Write(f, v)>>
    PROVE  Fresh(s) /\ Len(s) = 1 /\ s[1].do = "save" /\ s[1].file = f /\ s[1].as = v
<1>1. PICK e : e = Write(f, v)
  OBVIOUS
<1>2. e.do = "save" /\ e.file = f /\ e.as = v /\ e.open = f
  BY <1>1 DEF Write, SaveAs
<1>3. e.file \notin LanguageFile /\ Opens(e)
  BY <1>2, FileFacts, LanguageFiles DEF Opens
<1>4. IsList(s) /\ Len(s) = 1 /\ s[1] = e
  BY <1>1, ShortLists
<1> QED BY <1>2, <1>3, <1>4 DEF Fresh

LEMMA BothFresh ==
    ASSUME NEW p, NEW q, Fresh(p), Fresh(q)
    PROVE  Fresh(p \o q)
<1>1. IsList(p) /\ IsList(q)
  BY DEF Fresh
<1>2. IsList(p \o q)
  BY <1>1, BothLists
<1>3. \A i \in 1..Len(p \o q) :
         \/ i \in 1..Len(p) /\ (p \o q)[i] = p[i]
         \/ i - Len(p) \in 1..Len(q) /\ (p \o q)[i] = q[i - Len(p)]
  BY <1>1, Joined
<1> QED BY <1>2, <1>3 DEF Fresh

LEMMA NoneFresh == Fresh(<<>>)
BY ShortLists DEF Fresh

\* What a change of a status writes sets it, and nothing else.
LEMMA StatusFresh ==
    ASSUME owner \in Wallet, NEW c, NEW on, NEW s, s = UpdateCoinStatus(c, on)
    PROVE  Fresh(s)
<1>1. PICK off : off = Switched(disk[CoinsFile(owner)], ShownOf(c), on)
  OBVIOUS
<1>2. PICK new : new = Switched(TokensOf(owner), {c} \ ShownOf(c), on)
  OBVIOUS
<1>3. PICK p : p = <<Write(CoinsFile(owner), off)>>
  OBVIOUS
<1>4. PICK q : q = <<Write(TokensFile(owner), new)>>
  OBVIOUS
<1>5. Fresh(p) /\ Fresh(q)
  BY <1>3, <1>4, OneFresh
<1>6. s = p \o (IF TokensOf(owner) = NoCoins THEN <<>> ELSE q)
  BY <1>1, <1>2, <1>3, <1>4 DEF UpdateCoinStatus, ShownOf
<1>7. CASE TokensOf(owner) = NoCoins
  <2>1. s = p \o <<>>
    BY <1>6, <1>7
  <2> QED BY <1>5, <2>1, BothFresh, NoneFresh
<1>8. CASE TokensOf(owner) # NoCoins
  <2>1. s = p \o q
    BY <1>6, <1>8
  <2> QED BY <1>5, <2>1, BothFresh
<1> QED BY <1>7, <1>8

LEMMA MigrationFresh ==
    ASSUME owner \in Wallet, NEW s, s = Migration(owner)
    PROVE  Fresh(s)
<1>1. PICK d : d = Write(CoinsFile(owner), Merge(disk[OldFile(owner)], disk[CoinsFile(owner)]))
  OBVIOUS
<1>2. PICK e : e = SaveAs(OldFile(owner), Absent, CoinsFile(owner))
  OBVIOUS
<1>3. s \in {<<>>, <<d>>, <<d, e, d>>}
  BY <1>1, <1>2 DEF Migration
<1>4. /\ d.do = "save" /\ d.file = CoinsFile(owner) /\ d.open = CoinsFile(owner)
      /\ e.do = "save" /\ e.file = OldFile(owner) /\ e.open = CoinsFile(owner)
  BY <1>1, <1>2 DEF Write, SaveAs
<1>5. \A w \in Wallet : CoinsFile(owner) # OldFile(w)
  BY FileFacts
<1>6. \A f \in {d, e} : f.do = "save" /\ f.file \notin LanguageFile /\ Opens(f)
  BY <1>4, <1>5, LanguageFiles DEF Opens
<1>7. CASE s = <<>>
  BY <1>7, NoneFresh
<1>8. CASE s = <<d>>
  <2>1. IsList(s) /\ Len(s) = 1 /\ s[1] = d
    BY <1>8, ShortLists
  <2> QED BY <1>6, <2>1 DEF Fresh
<1>9. CASE s = <<d, e, d>>
  <2>1. IsList(s) /\ Len(s) = 3 /\ s[1] = d /\ s[2] = e /\ s[3] = d
    BY <1>9, ShortLists
  <2> QED BY <1>6, <2>1 DEF Fresh
<1> QED BY <1>3, <1>7, <1>8, <1>9

LEMMA SavesFresh ==
    ASSUME owner \in Wallet, NEW e, e.do = "migrate" => e.value = owner,
           NEW s, s = Saves(e)
    PROVE  Fresh(s)
<1> DEFINE raw    == disk[RawFile]
           tokens == TokensOf(owner)
           rest   == DOMAIN tokens \ {e.coin}
           off    == Switched(tokens, DOMAIN tokens, FALSE)
<1>1. CASE e.do = "add"
  <2>1. s = <<Write(RawFile, [raw EXCEPT ![e.coin] = @ + 1])>>
    BY <1>1 DEF Saves
  <2> QED BY <2>1, OneFresh
<1>2. CASE e.do = "del"
  <2>1. s = <<Write(RawFile, [raw EXCEPT ![e.coin] = @ - 1])>>
    BY <1>2 DEF Saves
  <2> QED BY <2>1, OneFresh
<1>3. CASE e.do = "token"
  <2>1. s = <<Write(TokensFile(owner),
                    [x \in rest \cup {e.coin} |->
                        IF x = e.coin THEN [active |-> TRUE, custom |-> TRUE, backup |-> e.value]
                        ELSE tokens[x]])>>
    BY <1>3 DEF Saves
  <2> QED BY <2>1, OneFresh
<1>4. CASE e.do = "untoken"
  <2>1. s = <<Write(TokensFile(owner), [x \in rest |-> tokens[x]])>>
    BY <1>4 DEF Saves
  <2> QED BY <2>1, OneFresh
<1>5. CASE e.do = "status"
  <2>1. s = UpdateCoinStatus(e.coin, e.value)
    BY <1>5 DEF Saves
  <2> QED BY <2>1, StatusFresh
<1>6. CASE e.do = "segwit"
  <2>1. s = UpdateCoinStatus(None, e.value)
    BY <1>6 DEF Saves
  <2> QED BY <2>1, StatusFresh
<1>7. CASE e.do = "deactivate"
  <2>1. s = IF disk[TokensFile(owner)] = Absent THEN <<>> ELSE <<Write(TokensFile(owner), off)>>
    BY <1>7 DEF Saves
  <2>2. CASE disk[TokensFile(owner)] = Absent
    BY <2>1, <2>2, NoneFresh
  <2>3. CASE disk[TokensFile(owner)] # Absent
    <3>1. s = <<Write(TokensFile(owner), off)>>
      BY <2>1, <2>3
    <3> QED BY <3>1, OneFresh
  <2> QED BY <2>2, <2>3
<1>8. CASE e.do = "migrate"
  <2>1. s = Migration(owner)
    BY <1>8 DEF Saves
  <2> QED BY <2>1, MigrationFresh
<1>9. CASE e.do \in {"fiat", "currency"}
  <2>1. s = <<Write(CfgFile, Configured(e))>>
    BY <1>9 DEF Saves, UpgradeCfg
  <2> QED BY <2>1, OneFresh
<1>10. CASE e.do \notin {"add", "del", "token", "untoken", "status", "segwit", "deactivate",
                         "migrate", "fiat", "currency"}
  <2>1. s = <<>>
    BY <1>10 DEF Saves
  <2> QED BY <2>1, NoneFresh
<1> QED BY <1>1, <1>2, <1>3, <1>4, <1>5, <1>6, <1>7, <1>8, <1>9, <1>10

\* The coins that a switch is about, and what it does to the tokens.
LEMMA CoinsDomain == \A f \in OldCoins \cup Coins : DOMAIN f \subseteq Coin
BY CoinsOwn, CoinsAre

LEMMA SwitchedWithin ==
    ASSUME NEW held, NEW S, NEW on, NEW D, DOMAIN held \subseteq D
    PROVE  Switched(held, S, on) = Switched(held, D \cap S, on)
<1>1. \A x \in DOMAIN held : x \in S <=> x \in D \cap S
  OBVIOUS
<1> QED BY <1>1 DEF Switched

LEMMA SwitchedOn ==
    ASSUME NEW tokens \in Tokens, NEW S, NEW on \in BOOLEAN
    PROVE  \E R \in SUBSET Coin : \A x \in Coin :
              On(Switched(tokens, S, on), x) = IF x \in R THEN on ELSE On(tokens, x)
<1>1. PICK g : g = Switched(tokens, S, on)
  OBVIOUS
<1>2. DOMAIN tokens \subseteq Coin /\ \A x \in DOMAIN tokens : tokens[x] \in Entry
  BY TokensHold
<1>3. /\ DOMAIN g = DOMAIN tokens
      /\ \A x \in DOMAIN tokens : g[x].active = IF x \in S THEN on ELSE tokens[x].active
  BY <1>1, <1>2, SwitchedIs
<1>4. PICK R \in SUBSET Coin : R = S \cap DOMAIN tokens
  BY <1>2
<1>5. ASSUME NEW x \in Coin
      PROVE  On(g, x) = IF x \in R THEN on ELSE On(tokens, x)
  BY <1>3, <1>4 DEF On
<1> QED BY <1>1, <1>5

\* A change of a status sets the same choice for some coins.
LEMMA StatusSets ==
    ASSUME owner \in Wallet, NEW c, NEW on \in BOOLEAN,
           disk[CoinsFile(owner)] \in Coins, TokensOf(owner) \in Tokens,
           NEW s, s = UpdateCoinStatus(c, on)
    PROVE  Sets(s)
<1>1. /\ Updates(s) /\ StoresCoins(s[1]) /\ Len(s) \in {1, 2}
      /\ s[1].as = Switched(disk[CoinsFile(owner)], ShownOf(c), on)
      /\ Len(s) = 2 => s[2].as = Switched(TokensOf(owner), {c} \ ShownOf(c), on)
  BY StatusWrites
<1>2. SetsCoins(s[1])
  <2>1. s[1].do = "save" /\ s[1].file = CoinsFile(owner)
    BY <1>1 DEF StoresCoins
  <2>2. s[1].as = Switched(disk[CoinsFile(owner)], Coin \cap ShownOf(c), on)
    <3>1. PICK f \in Coins : f = disk[CoinsFile(owner)]
      OBVIOUS
    <3>2. DOMAIN f \subseteq Coin
      BY CoinsDomain
    <3>3. Switched(f, ShownOf(c), on) = Switched(f, Coin \cap ShownOf(c), on)
      BY <3>2, SwitchedWithin
    <3> QED BY <1>1, <3>1, <3>3
  <2> QED BY <2>1, <2>2 DEF SetsCoins
<1>3. ASSUME Len(s) = 2
      PROVE  SetsTokens(s[2]) /\ s[1].do = "save" /\ s[1].file = CoinsFile(owner)
  <2>1. /\ s[2].do = "save" /\ s[2].file = TokensFile(owner) /\ s[2].as \in Tokens
        /\ s[1].do = "save" /\ s[1].file = CoinsFile(owner)
    BY <1>1, <1>3 DEF Updates, StoresTokens, StoresCoins
  <2>2. \E S \in SUBSET Coin : \A x \in Coin :
           On(s[2].as, x) = IF x \in S THEN on ELSE On(TokensOf(owner), x)
    BY <1>1, <1>3, SwitchedOn
  <2> QED BY <2>1, <2>2 DEF SetsTokens
<1>4. PICK n \in {1, 2} : n = Len(s)
  BY <1>1
<1>5. \A i \in 1..n : i = 1 \/ (i = 2 /\ n = 2)
  OBVIOUS
<1> QED BY <1>2, <1>3, <1>4, <1>5 DEF Sets

\* One write of the tokens, the same choice for those in S.
LEMMA OneSets ==
    ASSUME owner \in Wallet, NEW v \in Tokens, NEW S \in SUBSET Coin, NEW on \in BOOLEAN,
           \A c \in Coin : On(v, c) = IF c \in S THEN on ELSE On(TokensOf(owner), c),
           NEW s, s = <<Write(TokensFile(owner), v)>>
    PROVE  Sets(s) /\ SetsTokens(s[1]) /\ Len(s) = 1 /\ s[1].as = v
<1>1. Len(s) = 1 /\ s[1].do = "save" /\ s[1].file = TokensFile(owner) /\ s[1].as = v
  BY OneFresh
<1>2. SetsTokens(s[1])
  BY <1>1 DEF SetsTokens
<1> QED BY <1>1, <1>2 DEF Sets

LEMMA OneAside ==
    ASSUME owner \in Wallet, NEW f \in {RawFile, CfgFile}, NEW v, NEW s, s = <<Write(f, v)>>
    PROVE  Sets(s)
<1>1. Len(s) = 1 /\ s[1].file = f
  BY OneFresh
<1>2. Aside(s[1])
  BY <1>1, ChoiceFiles DEF Aside
<1> QED BY <1>1, <1>2 DEF Sets

\* So does the addition or the removal of a custom coin.
LEMMA TokenSets ==
    ASSUME owner \in Wallet, TokensOf(owner) \in Tokens, NEW e, e.do \in {"token", "untoken"},
           e.do = "token" => e.coin \in Custom /\ e.value \in BOOLEAN,
           NEW s, s = Saves(e)
    PROVE  Sets(s)
<1>1. PICK D \in SUBSET Coin : TokensOf(owner) \in [D -> {x \in Entry : x.custom}]
  BY TokensAre
<1>2. PICK S \in SUBSET Coin : S = {e.coin} \cap Coin
  OBVIOUS
<1>3. CASE e.do = "token"
  <2>1. PICK v : v = [x \in (D \ {e.coin}) \cup {e.coin} |->
                         IF x = e.coin THEN [active |-> TRUE, custom |-> TRUE, backup |-> e.value]
                         ELSE TokensOf(owner)[x]]
    OBVIOUS
  <2>2. PICK n : n = [active |-> TRUE, custom |-> TRUE, backup |-> e.value]
    OBVIOUS
  <2>3. n \in {x \in Entry : x.custom} /\ n.active = TRUE
    BY <1>3, <2>2 DEF Entry
  <2>4. v = [x \in D \cup {e.coin} |-> IF x = e.coin THEN n ELSE TokensOf(owner)[x]]
    BY <2>1, <2>2
  <2>5. v \in [D \cup {e.coin} -> {x \in Entry : x.custom}] /\ D \cup {e.coin} \in SUBSET Coin
    BY <1>1, <1>3, <2>3, <2>4 DEF Coin
  <2>6. v \in Tokens
    BY <2>5, TokensAre
  <2>7. \A c \in Coin : On(v, c) = IF c \in S THEN TRUE ELSE On(TokensOf(owner), c)
    BY <1>1, <1>2, <2>3, <2>4, <2>5 DEF On
  <2>8. s = <<Write(TokensFile(owner), v)>>
    BY <1>1, <1>3, <2>1 DEF Saves
  <2> QED BY <2>6, <2>7, <2>8, OneSets
<1>4. CASE e.do = "untoken"
  <2>1. PICK v : v = [x \in D \ {e.coin} |-> TokensOf(owner)[x]]
    OBVIOUS
  <2>2. v \in [D \ {e.coin} -> {x \in Entry : x.custom}] /\ D \ {e.coin} \in SUBSET Coin
    BY <1>1, <2>1
  <2>3. v \in Tokens
    BY <2>2, TokensAre
  <2>4. \A c \in Coin : On(v, c) = IF c \in S THEN FALSE ELSE On(TokensOf(owner), c)
    BY <1>1, <1>2, <2>1, <2>2 DEF On
  <2>5. s = <<Write(TokensFile(owner), v)>>
    BY <1>1, <1>4, <2>1 DEF Saves
  <2> QED BY <2>3, <2>4, <2>5, OneSets
<1> QED BY <1>3, <1>4

\* Switching all tokens off, before the coins are reset.
LEMMA DeactivateSets ==
    ASSUME owner \in Wallet, TokensOf(owner) \in Tokens, NEW e, e.do = "deactivate",
           NEW s, s = Saves(e)
    PROVE  /\ Sets(s)
           /\ \/ s = <<>> /\ AllOff(TokensOf(owner))
              \/ Len(s) = 1 /\ SetsTokens(s[1]) /\ AllOff(s[1].as)
<1>1. PICK v : v = Switched(TokensOf(owner), DOMAIN TokensOf(owner), FALSE)
  OBVIOUS
<1>2. s = IF disk[TokensFile(owner)] = Absent THEN <<>> ELSE <<Write(TokensFile(owner), v)>>
  BY <1>1 DEF Saves
<1>3. CASE disk[TokensFile(owner)] = Absent
  <2>1. TokensOf(owner) = NoCoins
    BY <1>3 DEF TokensOf
  <2>2. AllOff(TokensOf(owner))
    BY <2>1 DEF AllOff, On, NoCoins
  <2> QED BY <1>2, <1>3, <2>2, NothingEdited
<1>4. CASE disk[TokensFile(owner)] # Absent
  <2>1. PICK T \in Tokens : T = TokensOf(owner)
    OBVIOUS
  <2>2. DOMAIN v = DOMAIN T /\ \A x \in DOMAIN v : v[x].active = FALSE
    <3>1. \A x \in DOMAIN T : T[x] \in Entry
      BY TokensHold
    <3>2. PICK on \in BOOLEAN : on = FALSE
      OBVIOUS
    <3>3. PICK S : S = DOMAIN T
      OBVIOUS
    <3>4. v = Switched(T, S, on)
      BY <1>1, <2>1, <3>2, <3>3
    <3>5. /\ DOMAIN v = DOMAIN T
          /\ \A x \in DOMAIN T : v[x].active = IF x \in S THEN on ELSE T[x].active
      BY <3>1, <3>4, SwitchedIs
    <3> QED BY <3>2, <3>3, <3>5
  <2>3. v \in Tokens
    BY <1>1, SwitchedTokens
  <2>4. \A c \in Coin : ~On(v, c)
    BY <2>2 DEF On
  <2>5. PICK S \in SUBSET Coin : S = Coin
    OBVIOUS
  <2>6. \A c \in Coin : On(v, c) = IF c \in S THEN FALSE ELSE On(TokensOf(owner), c)
    BY <2>4, <2>5 DEF On
  <2>7. s = <<Write(TokensFile(owner), v)>>
    BY <1>2, <1>4
  <2>8. Sets(s) /\ SetsTokens(s[1]) /\ Len(s) = 1 /\ s[1].as = v
    BY <2>3, <2>6, <2>7, OneSets
  <2> QED BY <2>4, <2>8 DEF AllOff
<1> QED BY <1>3, <1>4

\* What is read in a session.
Proper(e) ==
    /\ e.do \notin {"save", "migrate"}
    /\ e.do \in {"status", "segwit", "token"} => e.value \in BOOLEAN
    /\ e.do = "token" => e.coin \in Custom

LEMMA ReadsProper ==
    ASSUME FilesInv, at \in {"in", "modal"}, NEW t \in Thread, NEW q, q = todo[t],
           q # <<>>, q[1].do # "save"
    PROVE  Proper(q[1])
<1>1. IsList(q) /\ Len(q) \in Nat \ {0} /\ 1 \in 1..Len(q)
  <2>1. IsList(q)
    BY DEF FilesInv, Typed
  <2>2. Len(q) \in Nat /\ Len(q) # 0
    BY <2>1, ListFacts
  <2> QED BY <2>1, <2>2
<1>2. \A e : e.do # "save" /\ (Adds(e) \/ Thing(e) \/ Chooses(e)) => Proper(e)
  BY DEF Adds, Thing, Stores, Chooses, Proper
<1>3. \A e : ~(e.do # "save" /\ (StoresCoins(e) \/ StoresTokens(e) \/ StoresRaw(e) \/ StoresCfg(e)))
  BY DEF StoresCoins, StoresTokens, StoresRaw, StoresCfg
<1>4. CASE t = "pool"
  <2>1. PoolList(q)
    BY <1>4 DEF FilesInv, Lists
  <2> QED BY <1>1, <1>3, <2>1 DEF PoolList, Updates, Proper
<1>5. CASE t = "init"
  <2>1. at = "in" /\ InitList(q)
    BY <1>5 DEF FilesInv, Lists
  <2>2. Adds(q[1]) \/ StoresRaw(q[1])
    BY <1>1, <2>1 DEF InitList
  <2> QED BY <1>2, <1>3, <2>2
<1>6. CASE t = "gui" /\ at = "in"
  <2>1. GuiList(q)
    BY <1>6 DEF FilesInv, Lists
  <2>2. CASE \E raw : Switches(q[1], raw)
    BY <2>2 DEF Switches, Proper
  <2>3. CASE Adds(q[1]) \/ Chooses(q[1])
    BY <1>2, <2>3
  <2> QED BY <1>1, <1>3, <2>1, <2>2, <2>3 DEF GuiList, Updates
<1>7. CASE t = "gui" /\ at = "modal"
  <2>1. Thing(q[1])
    BY <1>1, <1>7 DEF FilesInv, Lists
  <2> QED BY <1>2, <2>1
<1> QED BY <1>4, <1>5, <1>6, <1>7 DEF Thread

\* Every read of a session goes on to writes of a choice or of none.
LEMMA SavesSets ==
    ASSUME FilesInv, at \in {"in", "modal"}, NEW e, Proper(e), ~Stops(e), NEW s, s = Saves(e)
    PROVE  /\ Sets(s)
           /\ e.do = "deactivate" =>
                 \/ s = <<>> /\ AllOff(TokensOf(owner))
                 \/ Len(s) = 1 /\ SetsTokens(s[1]) /\ AllOff(s[1].as)
<1>1. /\ owner \in Wallet /\ CoinsFile(owner) \in File /\ TokensFile(owner) \in File
  BY FileFacts DEF FilesInv, Typed
<1>2. Holds(CoinsFile(owner), disk[CoinsFile(owner)]) /\ Holds(TokensFile(owner), disk[TokensFile(owner)])
  BY <1>1 DEF FilesInv, Typed
<1>3. disk[TokensFile(owner)] # Torn => TokensOf(owner) \in Tokens
  BY <1>1, <1>2, TokensTyped
<1>4. disk[CoinsFile(owner)] \notin Bad => disk[CoinsFile(owner)] \in Coins
  BY <1>1, <1>2 DEF Holds
<1>5. CASE e.do \in {"add", "del"}
  <2>1. PICK v : s = <<Write(RawFile, v)>>
    BY <1>5 DEF Saves
  <2> QED BY <1>1, <1>5, <2>1, OneAside
<1>6. CASE e.do \in {"token", "untoken"}
  <2>1. disk[TokensFile(owner)] # Torn
    BY <1>6 DEF Stops, Bad
  <2> QED BY <1>1, <1>3, <1>6, <2>1, TokenSets DEF Proper
<1>7. CASE e.do \in {"status", "segwit"}
  <2>1. disk[CoinsFile(owner)] \notin Bad /\ disk[TokensFile(owner)] # Torn
    BY <1>7 DEF Stops
  <2>2. PICK c : s = UpdateCoinStatus(c, e.value)
    BY <1>7 DEF Saves
  <2> QED BY <1>1, <1>3, <1>4, <1>7, <2>1, <2>2, StatusSets DEF Proper
<1>8. CASE e.do = "deactivate"
  <2>1. disk[TokensFile(owner)] # Torn
    BY <1>8 DEF Stops
  <2> QED BY <1>1, <1>3, <1>8, <2>1, DeactivateSets
<1>9. CASE e.do \in {"fiat", "currency"}
  <2>1. s = <<Write(CfgFile, Configured(e))>>
    BY <1>9 DEF Saves, UpgradeCfg
  <2> QED BY <1>1, <1>9, <2>1, OneAside
<1>10. CASE e.do \notin {"add", "del", "token", "untoken", "status", "segwit", "deactivate",
                         "migrate", "fiat", "currency"}
  <2>1. s = <<>>
    BY <1>10 DEF Saves
  <2> QED BY <1>10, <2>1, NothingEdited
<1> QED BY <1>5, <1>6, <1>7, <1>8, <1>9, <1>10 DEF Proper

\* A read before other steps, of which none is a choice.
LEMMA SetsGoOn ==
    ASSUME NEW q, IsList(q), q # <<>>, q[1].do # "save", Sets(q),
           NEW s, IsList(s), Sets(s), NEW r, r = s \o Tail(q)
    PROVE  Sets(r)
<1>1. IsList(Tail(q)) /\ Len(Tail(q)) = Len(q) - 1 /\ Len(q) \in Nat \ {0}
      /\ \A i \in 1..(Len(q) - 1) : Tail(q)[i] = q[i + 1]
  BY TailOfList, ListFacts
<1>2. \A i \in 2..Len(q) : Aside(q[i])
  BY <1>1 DEF Sets
<1>3. \A i \in 1..Len(Tail(q)) : Aside(Tail(q)[i])
  <2> TAKE i \in 1..Len(Tail(q))
  <2>1. i + 1 \in 2..Len(q) /\ Tail(q)[i] = q[i + 1]
    BY <1>1
  <2> QED BY <1>2, <2>1
<1>4. PICK p : p = Tail(q)
  OBVIOUS
<1>5. Len(s) \in Nat
  BY ListFacts
<1>6. \A i \in 1..Len(s) : r[i] = s[i]
  BY <1>1, BothLists
<1>7. \A i \in 1..Len(r) : \/ i \in 1..Len(s) /\ r[i] = s[i]
                           \/ i - Len(s) \in 1..Len(p) /\ r[i] = p[i - Len(s)]
  BY <1>1, <1>4, Joined
<1>8. ASSUME NEW i \in 1..Len(r)
      PROVE  \/ Aside(r[i])
             \/ i = 1 /\ (SetsCoins(r[1]) \/ SetsTokens(r[1]))
             \/ i = 2 /\ SetsTokens(r[2]) /\ r[1].do = "save" /\ r[1].file = CoinsFile(owner)
  <2>1. CASE i \in 1..Len(s) /\ r[i] = s[i]
    <3>1. i = 2 => 1 \in 1..Len(s)
      BY <1>5, <2>1
    <3>2. i = 2 => r[1] = s[1]
      BY <1>6, <3>1
    <3> QED BY <2>1, <3>2 DEF Sets
  <2>2. CASE i - Len(s) \in 1..Len(p) /\ r[i] = p[i - Len(s)]
    BY <1>3, <1>4, <2>2
  <2> QED BY <1>7, <2>1, <2>2
<1> QED BY <1>8 DEF Sets

LEMMA FreshGoesOn ==
    ASSUME NEW q, IsList(q), q # <<>>, NEW s, Fresh(s), NEW r, r = s \o Tail(q)
    PROVE  /\ (\A i \in 1..Len(q) : Opens(q[i])) => \A i \in 1..Len(r) : Opens(r[i])
           /\ (\A i \in 1..Len(q) : q[i].do = "save" => q[i].file \notin LanguageFile) =>
                 \A i \in 1..Len(r) : r[i].do = "save" => r[i].file \notin LanguageFile
<1>1. IsList(Tail(q)) /\ Len(Tail(q)) = Len(q) - 1 /\ Len(q) \in Nat \ {0}
      /\ \A i \in 1..(Len(q) - 1) : Tail(q)[i] = q[i + 1]
  BY TailOfList, ListFacts
<1>2. \A i \in 1..Len(Tail(q)) : i + 1 \in 1..Len(q) /\ Tail(q)[i] = q[i + 1]
  BY <1>1
<1>3. PICK p : p = Tail(q)
  OBVIOUS
<1>4. \A i \in 1..Len(r) : \/ i \in 1..Len(s) /\ r[i] = s[i]
                           \/ i - Len(s) \in 1..Len(p) /\ r[i] = p[i - Len(s)]
  BY <1>1, <1>3, Joined DEF Fresh
<1>5. \A i \in 1..Len(r) : \/ Opens(r[i]) /\ r[i].file \notin LanguageFile
                           \/ \E j \in 1..Len(q) : r[i] = q[j]
  BY <1>2, <1>3, <1>4 DEF Fresh
<1> QED BY <1>5

\* What a read is replaced by, and that the language is not in it.
LEMMA ReadsPlace ==
    ASSUME FilesInv, NEW t \in Thread, Reads(t), NEW q, q = todo[t]
    PROVE  /\ IsList(q) /\ q # <<>> /\ q[1].do # "save" /\ Len(q) \in Nat \ {0}
           /\ at \in {"login", "in", "modal"} /\ owner \in Wallet
           /\ at = "login" => /\ t = "gui" /\ Len(q) = 1
                              /\ q[1].do = "migrate" /\ q[1].value = owner
<1>1. IsList(q) /\ q # <<>> /\ q[1].do # "save" /\ Len(q) \in Nat \ {0}
  <2>1. IsList(q) /\ q # <<>> /\ q[1].do # "save"
    BY DEF FilesInv, Typed, Reads
  <2>2. Len(q) \in Nat /\ Len(q) # 0
    BY <2>1, ListFacts
  <2> QED BY <2>1, <2>2
<1>2. at \in Place
  BY DEF FilesInv, Typed
<1>3. at \notin {"in", "modal"} => t = "gui"
  BY <1>1 DEF FilesInv, Lists, Thread
<1>4. at # "down"
  BY <1>1, <1>3 DEF FilesInv, Lists
<1>5. at \notin {"starting", "menu"}
  <2>1. ASSUME at \in {"starting", "menu"} PROVE FALSE
    <3>1. Plain(q[1])
      BY <1>1, <1>3, <2>1 DEF FilesInv, Lists
    <3> QED BY <1>1, <3>1 DEF Plain, Stores
  <2> QED BY <2>1
<1>6. ASSUME at = "login"
      PROVE  Len(q) = 1 /\ q[1].do = "migrate" /\ q[1].value = owner
  <2>1. LoginList(q)
    BY <1>3, <1>6 DEF FilesInv, Upgraded
  <2>2. Len(q) = 1 /\ Migrates(q[1])
    BY <1>1, <2>1 DEF LoginList, StoresCoins, RemovesOld
  <2> QED BY <2>2 DEF Migrates
<1>7. at \in {"login", "in", "modal"}
  BY <1>2, <1>4, <1>5 DEF Place
<1> QED BY <1>1, <1>3, <1>6, <1>7 DEF FilesInv, Typed

LEMMA ReadsLanguage ==
    ASSUME FilesInv, ChoiceInv, NEW t \in Thread, Reads(t), UNCHANGED <<risks, disk, at>>,
           \A u \in Thread \ {t} : todo'[u] = todo[u],
           \A i \in 1..Len(todo'[t]) :
              todo'[t][i].do = "save" => todo'[t][i].file \notin LanguageFile
    PROVE  LanguageHeld'
<1>1. at # "starting"
  BY ReadsPlace
<1> QED BY <1>1 DEF ChoiceInv, LanguageHeld

\* What a migration writes is what the precedent file holds.
LEMMA MigrationUpgrades ==
    ASSUME FilesInv, owner \in Wallet, NEW s, s = Migration(owner)
    PROVE  \A i \in 1..Len(s) : Upgrades(s, i)
<1>1. /\ CoinsFile(owner) \in File /\ OldFile(owner) \in File
      /\ CoinsFile(owner) # OldFile(owner)
  BY FileFacts
<1>2. disk[CoinsFile(owner)] \in Coins \cup Bad /\ disk[OldFile(owner)] \in OldCoins \cup Bad
  BY <1>1 DEF FilesInv, Typed, Holds
<1>3. PICK d : d = Write(CoinsFile(owner), Merge(disk[OldFile(owner)], disk[CoinsFile(owner)]))
  OBVIOUS
<1>4. PICK e : e = SaveAs(OldFile(owner), Absent, CoinsFile(owner))
  OBVIOUS
<1>5. CASE disk[OldFile(owner)] \in Bad \/ disk[CoinsFile(owner)] \in Bad
  <2>1. s = <<>>
    BY <1>5 DEF Migration
  <2> QED BY <2>1, ShortLists
<1>6. CASE ~(disk[OldFile(owner)] \in Bad \/ disk[CoinsFile(owner)] \in Bad)
  <2>1. disk[OldFile(owner)] \in OldCoins /\ disk[CoinsFile(owner)] \in Coins
    BY <1>2, <1>6
  <2>2. Merged = Merge(disk[OldFile(owner)], disk[CoinsFile(owner)])
    BY <1>6 DEF Merged
  <2>3. /\ d.do = "save" /\ d.file = CoinsFile(owner) /\ d.as = Merged
        /\ RemovesOld(e) /\ e.do = "save"
    BY <1>3, <1>4, <2>2 DEF Write, SaveAs, RemovesOld
  <2>5. s = <<d>> \/ s = <<d, e, d>>
    BY <1>3, <1>4, <1>6 DEF Migration
  <2>6. CASE s = <<d>>
    <3>1. Len(s) = 1 /\ s[1] = d
      BY <2>6, ShortLists
    <3> QED BY <2>1, <2>3, <3>1 DEF Upgrades
  <2>7. CASE s = <<d, e, d>>
    <3>1. Len(s) = 3 /\ s[1] = d /\ s[2] = e /\ s[3] = d
      BY <2>7, ShortLists
    <3>2. Upgrades(s, 1) /\ Upgrades(s, 2) /\ Upgrades(s, 3)
      BY <2>1, <2>3, <3>1 DEF Upgrades
    <3>3. \A i \in 1..Len(s) : i = 1 \/ i = 2 \/ i = 3
      BY <3>1
    <3> QED BY <3>2, <3>3
  <2> QED BY <2>5, <2>6, <2>7
<1> QED BY <1>5, <1>6

\* The reads of a login, and those of a session.
LEMMA LoginReadsHeld ==
    ASSUME FilesInv, ChoicesHeld, NEW t \in Thread, Reads(t), at = "login", ~Stops(todo[t][1])
    PROVE  ChoicesHeld'
<1>1. PICK q : q = todo[t]
  OBVIOUS
<1>2. /\ IsList(q) /\ q # <<>> /\ owner \in Wallet /\ t = "gui" /\ Len(q) = 1
      /\ q[1].do = "migrate" /\ q[1].value = owner
  BY <1>1, ReadsPlace
<1>3. PICK s : s = Saves(q[1])
  OBVIOUS
<1>4. Fresh(s) /\ s = Migration(owner)
  BY <1>2, <1>3, SavesFresh DEF Saves
<1>5. /\ todo'[t] = s \o Tail(q) /\ \A u \in Thread \ {t} : todo'[u] = todo[u]
      /\ UNCHANGED <<risks, disk, at, owner>>
  BY <1>1, <1>3, <1>4, ReadsDoes DEF Fresh
<1>6. todo'[t] = s
  <2>1. IsList(Tail(q)) /\ Len(Tail(q)) = 0
    BY <1>2, TailOfList
  <2>2. Tail(q) = <<>>
    BY <2>1, ListFacts
  <2> QED BY <1>4, <1>5, <2>1, <2>2, BothLists DEF Fresh
<1>7. \A i \in 1..Len(s) : Upgrades(s, i)
  BY <1>2, <1>4, MigrationUpgrades
<1>8. \A i \in 1..Len(s) : Upgrades(s, i)'
  <2>1. \A f \in ChoiceFile : disk'[f] = disk[f]
    BY <1>5
  <2>2. \A i : Upgrades(s, i)' <=> Upgrades(s, i)
    BY <1>5, <2>1, SameChoices
  <2> QED BY <1>7, <2>2
<1>9. \A u \in Thread : \A i \in 1..Len(todo'[u]) : Opens(todo'[u][i])
  BY <1>4, <1>5, <1>6 DEF ChoicesHeld, Fresh
<1>10. todo'["gui"] = s /\ todo'["init"] = <<>> /\ todo'["pool"] = <<>>
  BY <1>2, <1>5, <1>6 DEF FilesInv, Lists, Thread
<1> QED BY <1>5, <1>8, <1>9, <1>10 DEF ChoicesHeld

-----------------------------------------------------------------------------
(* Every step keeps ChoiceInv.                                             *)

LEMMA SessionReadsHeld ==
    ASSUME FilesInv, ChoicesHeld, NEW t \in Thread, Reads(t), at \in {"in", "modal"},
           ~Stops(todo[t][1])
    PROVE  ChoicesHeld'
<1>1. PICK q : q = todo[t]
  OBVIOUS
<1>2. IsList(q) /\ q # <<>> /\ q[1].do # "save" /\ Len(q) \in Nat \ {0} /\ owner \in Wallet
  BY <1>1, ReadsPlace
<1>3. Proper(q[1])
  BY <1>1, <1>2, ReadsProper
<1>4. PICK s : s = Saves(q[1])
  OBVIOUS
<1>5. Fresh(s) /\ IsList(s)
  BY <1>2, <1>3, <1>4, SavesFresh DEF Proper, Fresh
<1>6. PICK r : r = s \o Tail(q)
  OBVIOUS
<1>7. /\ todo'[t] = r /\ \A u \in Thread \ {t} : todo'[u] = todo[u]
      /\ UNCHANGED <<risks, disk, at, owner>>
  BY <1>1, <1>4, <1>5, <1>6, ReadsDoes
<1>8. \A u \in Thread : \A i \in 1..Len(todo'[u]) : Opens(todo'[u][i])
  <2>1. \A i \in 1..Len(q) : Opens(q[i])
    BY <1>1 DEF ChoicesHeld
  <2>2. \A i \in 1..Len(r) : Opens(r[i])
    BY <1>2, <1>5, <1>6, <2>1, FreshGoesOn
  <2> QED BY <1>7, <2>2 DEF ChoicesHeld
<1>9. \A f \in ChoiceFile : disk'[f] = disk[f]
  BY <1>7
<1>10. \A l : (Sets(l)' <=> Sets(l)) /\ (Resets(l)' <=> Resets(l))
  BY <1>7, <1>9, SameChoices
<1>11. /\ Sets(s)
       /\ q[1].do = "deactivate" =>
             \/ s = <<>> /\ AllOff(TokensOf(owner))
             \/ Len(s) = 1 /\ SetsTokens(s[1]) /\ AllOff(s[1].as)
  BY <1>1, <1>3, <1>4, SavesSets
<1>12. Sets(q) => Sets(r)
  BY <1>2, <1>5, <1>6, <1>11, SetsGoOn
<1>13. CASE at = "in"
  <2>1. Sets(q) /\ Sets(todo["gui"]) /\ Sets(todo["init"]) /\ Sets(todo["pool"])
    BY <1>1, <1>13 DEF ChoicesHeld, Thread
  <2>2. \A u \in Thread \ {t} : todo[u] = <<>>
    BY <1>1, <1>2 DEF ChoicesHeld, FilesInv, Lists, Thread
  <2>3. Sets(r)' /\ Sets(<<>>)'
    BY <1>10, <1>12, <2>1, NothingEdited
  <2>4. Sets(todo["gui"])' /\ Sets(todo["init"])' /\ Sets(todo["pool"])'
    <3>1. CASE t = "gui"
      BY <1>7, <2>2, <2>3, <3>1 DEF Thread
    <3>2. CASE t = "init"
      BY <1>7, <2>2, <2>3, <3>2 DEF Thread
    <3>3. CASE t = "pool"
      BY <1>7, <2>2, <2>3, <3>3 DEF Thread
    <3> QED BY <3>1, <3>2, <3>3 DEF Thread
  <2>5. todo'["pool"] # <<>> => todo'["gui"] = <<>> /\ todo'["init"] = <<>>
    <3>1. todo'["pool"] # <<>> => t = "pool"
      BY <1>7, <2>2 DEF Thread
    <3> QED BY <1>7, <2>2, <3>1 DEF Thread
  <2> QED BY <1>7, <1>8, <1>13, <2>4, <2>5 DEF ChoicesHeld
<1>14. CASE at = "modal"
  <2>1. todo["init"] = <<>> /\ todo["pool"] = <<>>
    BY <1>14 DEF ChoicesHeld, FilesInv, Lists
  <2>2. t = "gui" /\ todo'["init"] = <<>> /\ todo'["pool"] = <<>>
    BY <1>1, <1>2, <1>7, <2>1 DEF Thread
  <2>3. Sets(q) \/ Resets(q)
    BY <1>1, <1>14, <2>2 DEF ChoicesHeld
  <2>4. ASSUME Resets(q) PROVE Resets(r) \/ Sets(r)
    <3>1. CASE Len(q) = 2 /\ q[1] = Delete(CoinsFile(owner))
      BY <1>2, <3>1 DEF Delete, SaveAs
    <3>2. CASE /\ Len(q) = 3 /\ q[2] = Delete(CoinsFile(owner)) /\ q[3] = Delete(RawFile)
               /\ q[1].do = "deactivate"
      <4>1. /\ Len(r) = Len(s) + (Len(q) - 1) /\ Len(s) \in Nat
            /\ \A i \in 1..Len(s) : r[i] = s[i]
            /\ \A i \in 1..(Len(q) - 1) : r[Len(s) + i] = q[i + 1]
        BY <1>2, <1>5, <1>6, GoesOn
      <4>2. CASE s = <<>> /\ AllOff(TokensOf(owner))
        <5>1. Len(s) = 0
          BY <4>2, ShortLists
        <5>2. Len(r) = 2 /\ r[1] = q[2] /\ r[2] = q[3]
          BY <3>2, <4>1, <5>1
        <5> QED BY <3>2, <4>2, <5>2 DEF Resets
      <4>3. CASE Len(s) = 1 /\ SetsTokens(s[1]) /\ AllOff(s[1].as)
        <5>1. Len(r) = 3 /\ r[1] = s[1] /\ r[2] = q[2] /\ r[3] = q[3]
          BY <3>2, <4>1, <4>3
        <5> QED BY <3>2, <4>3, <5>1 DEF Resets
      <4> QED BY <1>11, <3>2, <4>2, <4>3
    <3> QED BY <1>2, <2>4, <3>1, <3>2 DEF Resets, SetsTokens
  <2>5. Sets(r)' \/ Resets(r)'
    BY <1>10, <1>12, <2>3, <2>4
  <2>6. Sets(<<>>)'
    BY <1>10, NothingEdited
  <2> QED BY <1>7, <1>8, <1>14, <2>2, <2>5, <2>6 DEF ChoicesHeld
<1> QED BY <1>13, <1>14

\* The pool gives up: its exceptions are caught.
LEMMA GivesUpHeld ==
    ASSUME FilesInv, ChoiceInv, Reads("pool"), budget' \in Budget,
           todo' = [todo EXCEPT !["pool"] = <<>>], UNCHANGED <<risks, disk, at, owner>>
    PROVE  ChoiceInv'
<1>1. /\ todo'["pool"] = <<>> /\ \A u \in Thread \ {"pool"} : todo'[u] = todo[u]
  BY DEF FilesInv, Typed, Thread
<1>2. /\ todo'["gui"] = todo["gui"] /\ todo'["init"] = todo["init"]
      /\ \A u \in Thread : todo'[u] = <<>> \/ todo'[u] = todo[u]
  BY <1>1 DEF Thread
<1>3. at \in {"in", "modal"} /\ "pool" \in Thread
  BY ReadsPlace DEF Thread
<1>4. LanguageHeld'
  BY <1>1, <1>3, ReadsLanguage, ShortLists
<1>5. ASSUME "hasty" \notin risks PROVE ChoicesHeld'
  <2>1. ChoicesHeld
    BY <1>5 DEF ChoiceInv
  <2>2. \A f \in ChoiceFile : disk'[f] = disk[f]
    OBVIOUS
  <2>3. \A l : (Sets(l)' <=> Sets(l)) /\ (Resets(l)' <=> Resets(l))
    BY <1>3, <2>2, SameChoices
  <2>4. \A u \in Thread : \A i \in 1..Len(todo'[u]) : Opens(todo'[u][i])
    BY <1>2, <2>1, ShortLists DEF ChoicesHeld
  <2>5. Sets(todo["pool"])'
    BY <1>1, <2>3, NothingEdited
  <2>6. Sets(todo["init"])'
    BY <1>2, <1>3, <2>1, <2>3 DEF ChoicesHeld
  <2>7. at = "in" => Sets(todo["gui"])'
    BY <1>2, <2>1, <2>3 DEF ChoicesHeld
  <2>8. at = "modal" => Sets(todo["gui"])' \/ Resets(todo["gui"])'
    BY <1>2, <2>1, <2>3 DEF ChoicesHeld
  <2> QED BY <1>1, <1>3, <2>1, <2>4, <2>5, <2>6, <2>7, <2>8 DEF ChoicesHeld
<1> QED BY <1>4, <1>5 DEF ChoiceInv

LEMMA ReadsHeld ==
    ASSUME FilesInv, ChoiceInv, NEW t \in Thread, Reads(t)
    PROVE  ChoiceInv'
<1>1. UNCHANGED <<risks, budget>> /\ budget \in Budget
  BY DEF Reads, ChoiceInv
<1>2. CASE Ends
  BY <1>1, <1>2, EndsHeld
<1>3. CASE t = "pool" /\ todo' = [todo EXCEPT ![t] = <<>>] /\ UNCHANGED <<disk, at, memory>>
  BY <1>1, <1>3, GivesUpHeld DEF memory, sessionVars
<1>4. CASE ~Stops(todo[t][1])
  <2>1. PICK q : q = todo[t]
    OBVIOUS
  <2>2. /\ IsList(q) /\ q # <<>> /\ owner \in Wallet /\ at \in {"login", "in", "modal"}
        /\ q[1].do = "migrate" => q[1].value = owner
    <3>1. /\ IsList(q) /\ q # <<>> /\ q[1].do # "save" /\ owner \in Wallet
          /\ at \in {"login", "in", "modal"}
          /\ at = "login" => q[1].do = "migrate" /\ q[1].value = owner
      BY <2>1, ReadsPlace
    <3>2. at # "login" => q[1].do # "migrate"
      BY <2>1, <3>1, ReadsProper DEF Proper
    <3> QED BY <3>1, <3>2
  <2>3. PICK s : s = Saves(q[1])
    OBVIOUS
  <2>4. Fresh(s) /\ IsList(s)
    BY <2>2, <2>3, SavesFresh DEF Fresh
  <2>5. PICK r : r = s \o Tail(q)
    OBVIOUS
  <2>6. /\ todo'[t] = r /\ \A u \in Thread \ {t} : todo'[u] = todo[u]
        /\ UNCHANGED <<disk, at, owner>>
    BY <1>4, <2>1, <2>3, <2>4, <2>5, ReadsDoes
  <2>7. \A i \in 1..Len(q) : q[i].do = "save" => q[i].file \notin LanguageFile
    BY <2>1, <2>2 DEF ChoiceInv, LanguageHeld
  <2>8. \A i \in 1..Len(r) : r[i].do = "save" => r[i].file \notin LanguageFile
    BY <2>2, <2>4, <2>5, <2>7, FreshGoesOn
  <2>9. LanguageHeld'
    BY <1>1, <2>6, <2>8, ReadsLanguage
  <2>10. ASSUME "hasty" \notin risks PROVE ChoicesHeld'
    BY <1>4, <2>2, <2>10, LoginReadsHeld, SessionReadsHeld DEF ChoiceInv
  <2> QED BY <1>1, <2>9, <2>10 DEF ChoiceInv
<1> QED BY <1>2, <1>3, <1>4 DEF Reads

\* Every step keeps it.
LEMMA ChoiceStep == ASSUME FilesInv, ChoiceInv, [FilesNext]_filesVars PROVE ChoiceInv'
<1>1. CASE Process
  <2>1. CASE Launch \/ Start \/ Disconnect \/ Retrieve \/ EnableDefaultCoins
    BY <2>1, LaunchHeld, StartHeld, DisconnectHeld, RetrieveHeld, DefaultsHeld
  <2>2. CASE Killed \/ Restart
    BY <2>2, ProcessEndsHeld
  <2> QED BY <1>1, <2>1, <2>2 DEF Process
<1>2. CASE Threads
  BY <1>2, ReadsHeld, SavedHeld DEF Threads
<1>3. CASE User
  <2>1. ASSUME NEW w \in Wallet, Create(w) \/ DeleteWallet(w) \/ Login(w) \/ CannotLoad(w)
        PROVE  ChoiceInv'
    BY <2>1, CreateHeld, OtherFilesHeld, LoginHeld, ProcessEndsHeld
  <2>2. ASSUME NEW c \in Coin, EnableCoin(c) \/ DisableCoin(c) \/ ChangeSegwitStatus(c)
        PROVE  ChoiceInv'
    BY <2>2, CoinsHeld, SegwitHeld
  <2>3. ASSUME NEW c \in Custom, Preview(c) \/ RemoveCustomCoin(c)
        PROVE  ChoiceInv'
    BY <2>3, OtherFilesHeld, RestartsHeld
  <2>4. CASE (\E c \in Fiat \cup Crypto : SetCurrency(c)) \/ \E f \in Fiat : SetFiat(f)
    BY <2>4, SettingsHeld
  <2>5. CASE \E l \in Language : SetCurrentLang(l)
    BY <2>5, OtherFilesHeld
  <2>6. CASE Submit \/ ResetCoinCfg \/ SetEmergencyPassword
    BY <2>6, RestartsHeld, ResetHeld, SettingsHeld
  <2> QED BY <1>3, <2>1, <2>2, <2>3, <2>4, <2>5, <2>6 DEF User
<1>4. CASE TokenAnswered
  BY <1>4, OtherFilesHeld
<1>5. CASE UNCHANGED filesVars
  BY <1>5, StandsHeld DEF filesVars
<1> QED BY <1>1, <1>2, <1>3, <1>4, <1>5 DEF FilesNext

LEMMA ChoiceInvariant == FilesSpec => [](FilesInv /\ ChoiceInv)
<1>1. FilesInit => FilesInv /\ ChoiceInv
  BY StoredInitially, HeldInitially
<1>2. FilesInv /\ ChoiceInv /\ [FilesNext]_filesVars => (FilesInv /\ ChoiceInv)'
  BY FilesStep, ChoiceStep
<1> QED BY <1>1, <1>2, PTL DEF FilesSpec

\* The steps that touch what is read of the choices and the language.
LEMMA Touches ==
    ASSUME FilesInv, [FilesNext]_filesVars
    PROVE  /\ UNCHANGED risks
           /\ \/ Ends \/ (\E t \in Thread : Saved(t)) \/ Start
              \/ \E l \in Language : SetCurrentLang(l)
              \/ \A f \in ChoiceFile \cup LanguageFile : disk'[f] = disk[f]
<1>1. CASE UNCHANGED <<risks, disk>>
  BY <1>1
<1>2. CASE Ends /\ UNCHANGED risks
  BY <1>2
<1>3. DOMAIN disk = File
  BY DEF FilesInv, Typed
<1>4. CASE Process
  <2>1. CASE Launch \/ EnableDefaultCoins
    BY <1>1, <2>1 DEF Launch, EnableDefaultCoins
  <2>2. CASE Killed \/ Restart
    BY <1>2, <2>2 DEF Killed, Restart
  <2>3. CASE Retrieve
    BY <1>1, <1>2, <2>3 DEF Retrieve
  <2>4. CASE Start
    BY <2>4 DEF Start
  <2>5. CASE Disconnect
    <3>1. owner \in Wallet /\ UNCHANGED risks
      BY <2>5 DEF Disconnect, FilesInv, Typed
    <3>2. PICK files \in {disk, [disk EXCEPT ![SeedFile(owner)] = Absent]} : ParseRaw(files)
      BY <2>5 DEF Disconnect
    <3>3. \A f \in ChoiceFile \cup LanguageFile : disk'[f] = disk[f]
      BY <1>3, <3>1, <3>2, ChoiceFiles, LanguageFiles DEF ParseRaw
    <3> QED BY <3>1, <3>3
  <2> QED BY <1>4, <2>1, <2>2, <2>3, <2>4, <2>5 DEF Process
<1>5. CASE Threads
  <2>1. ASSUME NEW t \in Thread, Reads(t)
        PROVE  UNCHANGED risks /\ (Ends \/ UNCHANGED disk)
    BY <2>1 DEF Reads
  <2>2. ASSUME NEW t \in Thread, Saved(t)
        PROVE  UNCHANGED risks
    BY <2>2 DEF Saved
  <2> QED BY <1>1, <1>2, <1>5, <2>1, <2>2 DEF Threads
<1>6. CASE User
  <2>1. ASSUME NEW w \in Wallet, Create(w) \/ Login(w)
        PROVE  UNCHANGED <<risks, disk>>
    BY <2>1 DEF Create, Login
  <2>2. ASSUME NEW w \in Wallet, DeleteWallet(w)
        PROVE  UNCHANGED risks /\ \A f \in ChoiceFile \cup LanguageFile : disk'[f] = disk[f]
    BY <1>3, <2>2, ChoiceFiles, LanguageFiles DEF DeleteWallet
  <2>3. ASSUME NEW w \in Wallet, CannotLoad(w)
        PROVE  Ends /\ UNCHANGED risks
    BY <2>3 DEF CannotLoad
  <2>4. ASSUME NEW c \in Coin, EnableCoin(c) \/ DisableCoin(c) \/ ChangeSegwitStatus(c)
        PROVE  UNCHANGED <<risks, disk>>
    BY <2>4 DEF EnableCoin, DisableCoin, ChangeSegwitStatus, othersOfUser
  <2>5. ASSUME NEW c \in Custom, Preview(c) \/ RemoveCustomCoin(c)
        PROVE  UNCHANGED <<risks, disk>>
    BY <2>5 DEF Preview, RemoveCustomCoin, othersOfUser
  <2>6. ASSUME NEW c, SetCurrency(c) \/ SetFiat(c)
        PROVE  UNCHANGED <<risks, disk>>
    BY <2>6 DEF SetCurrency, SetFiat, othersOfUser
  <2>7. ASSUME NEW l \in Language, SetCurrentLang(l)
        PROVE  UNCHANGED risks
    BY <2>7 DEF SetCurrentLang
  <2>8. CASE Submit \/ ResetCoinCfg \/ SetEmergencyPassword
    BY <1>1, <2>8 DEF Submit, ResetCoinCfg, SetEmergencyPassword, othersOfUser
  <2> QED BY <1>1, <1>2, <1>6, <2>1, <2>2, <2>3, <2>4, <2>5, <2>6, <2>7, <2>8 DEF User
<1>7. CASE TokenAnswered
  BY <1>1, <1>7 DEF TokenAnswered
<1>8. CASE UNCHANGED filesVars
  BY <1>1, <1>8 DEF filesVars
<1> QED BY <1>4, <1>5, <1>6, <1>7, <1>8 DEF FilesNext

-----------------------------------------------------------------------------
(* What is chosen, read of the three files of a wallet.                    *)

\* The three files of a wallet's choices, and those of two wallets.
LEMMA WalletFilesApart ==
    ASSUME NEW v \in Wallet, NEW w \in Wallet
    PROVE  /\ CoinsFile(w) \in File /\ TokensFile(w) \in File /\ OldFile(w) \in File
           /\ CoinsFile(v) \notin {TokensFile(w), OldFile(w)} /\ TokensFile(v) # OldFile(w)
           /\ TokensFile(v) # CoinsFile(w) /\ OldFile(v) \notin {CoinsFile(w), TokensFile(w)}
           /\ CoinsFile(v) = CoinsFile(w) => v = w
           /\ TokensFile(v) = TokensFile(w) => v = w
           /\ OldFile(v) = OldFile(w) => v = w
BY FileFacts, OwnFiles

\* The choices of a wallet depend on its three files only.
LEMMA SameChoice ==
    ASSUME NEW w \in Wallet, disk'[CoinsFile(w)] = disk[CoinsFile(w)],
           disk'[TokensFile(w)] = disk[TokensFile(w)], disk'[OldFile(w)] = disk[OldFile(w)]
    PROVE  ChoiceOf(w)' = ChoiceOf(w)
BY DEF ChoiceOf, TokensOf

\* What is read of a precedent file, if there is one, of a coins file and of the tokens.
ReadOf(old, coins, tokens) ==
    [c \in Coin |-> IF c \in TakenOver(old, coins) THEN old[c].active
                    ELSE IF c \in DOMAIN coins THEN coins[c].active ELSE On(tokens, c)]
OldOf(old) == IF old \in Bad THEN NoCoins ELSE old
BaseOf(coins) == IF coins = Absent THEN Asset ELSE coins
KnownOf(tokens) == IF tokens = Absent THEN NoCoins ELSE tokens

\* What is read of three files that are not torn.
Reading(coins, tokens, old) == ReadOf(OldOf(old), BaseOf(coins), KnownOf(tokens))

LEMMA ReadIsBoolean ==
    ASSUME NEW old \in OldCoins, NEW coins \in Coins, NEW tokens \in Tokens
    PROVE  ReadOf(old, coins, tokens) \in [Coin -> BOOLEAN]
<1>1. \A c \in DOMAIN old : old[c].active \in BOOLEAN
  BY CoinsHold DEF Entry
<1>2. \A c \in DOMAIN coins : coins[c].active \in BOOLEAN
  BY CoinsHold, CoinsOwn DEF Entry
<1>3. \A c \in Coin : On(tokens, c) \in BOOLEAN
  BY TokensHold DEF Entry, On
<1>4. TakenOver(old, coins) \subseteq DOMAIN old
  BY DEF TakenOver, CustomIn
<1>5. ASSUME NEW c \in Coin
      PROVE  (IF c \in TakenOver(old, coins) THEN old[c].active
              ELSE IF c \in DOMAIN coins THEN coins[c].active ELSE On(tokens, c)) \in BOOLEAN
  BY <1>1, <1>2, <1>3, <1>4
<1> QED BY <1>5 DEF ReadOf

LEMMA ChoiceIsReading ==
    ASSUME NEW w \in Wallet
    PROVE  /\ Torn \notin {disk[CoinsFile(w)], disk[TokensFile(w)]} =>
                 ChoiceOf(w) = Reading(disk[CoinsFile(w)], disk[TokensFile(w)], disk[OldFile(w)])
           /\ Torn \notin {disk'[CoinsFile(w)], disk'[TokensFile(w)]} =>
                 ChoiceOf(w)' = Reading(disk'[CoinsFile(w)], disk'[TokensFile(w)], disk'[OldFile(w)])
<1>1. ASSUME NEW old, NEW coins, NEW tokens
      PROVE  [c \in Coin |-> CASE c \in TakenOver(old, coins) -> old[c].active
                              [] c \in DOMAIN coins \ TakenOver(old, coins) -> coins[c].active
                              [] OTHER -> c \in DOMAIN tokens /\ tokens[c].active]
             = ReadOf(old, coins, tokens)
  BY DEF ReadOf, On
<1>2. ASSUME Torn \notin {disk[CoinsFile(w)], disk[TokensFile(w)]}
      PROVE  ChoiceOf(w) = Reading(disk[CoinsFile(w)], disk[TokensFile(w)], disk[OldFile(w)])
  BY <1>1, <1>2 DEF ChoiceOf, TokensOf, Reading, OldOf, BaseOf, KnownOf
<1>3. ASSUME Torn \notin {disk'[CoinsFile(w)], disk'[TokensFile(w)]}
      PROVE  ChoiceOf(w)' = Reading(disk'[CoinsFile(w)], disk'[TokensFile(w)], disk'[OldFile(w)])
  BY <1>1, <1>3 DEF ChoiceOf, TokensOf, Reading, OldOf, BaseOf, KnownOf
<1> QED BY <1>2, <1>3

Untorn(w) == Torn \notin {disk[CoinsFile(w)], disk[TokensFile(w)]}

\* What is chosen, from what the files hold.
LEMMA Choice ==
    ASSUME FilesInv, NEW w \in Wallet
    PROVE  /\ ~Untorn(w) => ChoiceOf(w) = Lost
           /\ Untorn(w) => /\ BaseOf(disk[CoinsFile(w)]) \in Coins
                          /\ KnownOf(disk[TokensFile(w)]) \in Tokens
                          /\ OldOf(disk[OldFile(w)]) \in OldCoins
                          /\ ChoiceOf(w) \in [Coin -> BOOLEAN]
<1>1. ~Untorn(w) => ChoiceOf(w) = Lost
  BY DEF Untorn, ChoiceOf
<1>2. ASSUME Untorn(w)
      PROVE  /\ BaseOf(disk[CoinsFile(w)]) \in Coins
             /\ KnownOf(disk[TokensFile(w)]) \in Tokens
             /\ OldOf(disk[OldFile(w)]) \in OldCoins
             /\ ChoiceOf(w) \in [Coin -> BOOLEAN]
  <2>1. /\ CoinsFile(w) \in File /\ TokensFile(w) \in File /\ OldFile(w) \in File
    BY FileFacts
  <2>2. /\ disk[CoinsFile(w)] \in Coins \cup Bad /\ disk[OldFile(w)] \in OldCoins \cup Bad
        /\ Holds(TokensFile(w), disk[TokensFile(w)])
    BY <2>1 DEF FilesInv, Typed, Holds
  <2>3. disk[CoinsFile(w)] # Torn /\ disk[TokensFile(w)] # Torn
    BY <1>2 DEF Untorn
  <2>4. PICK base \in Coins : base = BaseOf(disk[CoinsFile(w)])
    BY <2>2, <2>3, AssetCoins DEF BaseOf, Bad
  <2>5. PICK tokens \in Tokens : tokens = KnownOf(disk[TokensFile(w)])
    BY <2>2, <2>3, TokensTyped DEF KnownOf, TokensOf
  <2>6. NoCoins \in OldCoins
    <3>1. NoCoins \in [{} -> Entry]
      BY DEF NoCoins
    <3> QED BY <3>1, CoinsAre
  <2>7. PICK old \in OldCoins : old = OldOf(disk[OldFile(w)])
    BY <2>2, <2>6 DEF OldOf
  <2>8. ReadOf(old, base, tokens) \in [Coin -> BOOLEAN]
    BY ReadIsBoolean
  <2>9. ChoiceOf(w) = ReadOf(old, base, tokens)
    BY <2>3, <2>4, <2>5, <2>7, ChoiceIsReading DEF Reading
  <2> QED BY <2>4, <2>5, <2>7, <2>8, <2>9
<1> QED BY <1>1, <1>2

LEMMA LostIsNone == \A f \in [Coin -> BOOLEAN] : f # Lost
BY FilesAssumption DEF Lost, Bad

\* The initial states map to initial states.
LEMMA StoreStarts == ASSUME FilesInv PROVE Store!Init
<1>1. \A w \in Wallet : ChoiceOf(w) \in [Coin -> BOOLEAN] \cup {Lost}
  BY Choice
<1>2. ChoicesKept \in [Wallet -> [Coin -> BOOLEAN] \cup {Lost}]
  BY <1>1 DEF ChoicesKept
<1> QED BY <1>2 DEF Store!Init

\* A user who is logged in.
LEMMA InSession == at \in {"in", "modal"} => SessionOf = owner
BY DEF SessionOf

\* Of a hasty user nothing is asked.
LEMMA HastyKeeps ==
    ASSUME UNCHANGED risks, "hasty" \in risks
    PROVE  UNCHANGED ChoicesKept
BY DEF ChoicesKept

LEMMA CarefulKeeps ==
    ASSUME UNCHANGED risks, \A w \in Wallet : ChoiceOf(w)' = ChoiceOf(w)
    PROVE  UNCHANGED ChoicesKept
<1>1. ChoicesKept = [w \in Wallet |-> IF "hasty" \in risks THEN Lost ELSE ChoiceOf(w)]
  BY DEF ChoicesKept
<1>2. ChoicesKept' = [w \in Wallet |-> IF "hasty" \in risks' THEN Lost ELSE ChoiceOf(w)']
  BY DEF ChoicesKept, Lost
<1> QED BY <1>1, <1>2

LEMMA ElsewhereKept ==
    ASSUME UNCHANGED risks, \A f \in ChoiceFile : disk'[f] = disk[f]
    PROVE  UNCHANGED ChoicesKept
<1>1. \A w \in Wallet : ChoiceOf(w)' = ChoiceOf(w)
  BY SameChoice, ChoiceFiles
<1> QED BY <1>1, CarefulKeeps

\* The end of the process: what is torn is lost.
LEMMA EndsLoses ==
    ASSUME FilesInv, ChoiceInv, Ends, UNCHANGED risks, "hasty" \notin risks
    PROVE  \E S \in SUBSET Wallet : Store!Lose(S)
<1>1. \A f \in File :
         \/ disk'[f] = disk[f]
         \/ /\ disk'[f] = Torn
            /\ \E t \in Thread : /\ todo[t] # <<>> /\ todo[t][1].do = "save"
                                 /\ todo[t][1].open = f
  BY EndsTears
<1>2. \A t \in Thread : todo[t] # <<>> => 1 \in 1..Len(todo[t])
  <2> SUFFICES ASSUME NEW t \in Thread, todo[t] # <<>>
               PROVE  1 \in 1..Len(todo[t])
    OBVIOUS
  <2>1. IsList(todo[t])
    BY DEF FilesInv, Typed
  <2>2. Len(todo[t]) \in Nat /\ Len(todo[t]) # 0
    BY <2>1, ListFacts
  <2> QED BY <2>2
<1>3. \A t \in Thread : todo[t] # <<>> => Opens(todo[t][1])
  BY <1>2 DEF ChoiceInv, ChoicesHeld
<1>4. PICK S \in SUBSET Wallet :
         S = {w \in Wallet : Torn \in {disk'[CoinsFile(w)], disk'[TokensFile(w)]}}
  OBVIOUS
<1>5. ASSUME NEW w \in Wallet
      PROVE  ChoiceOf(w)' = IF w \in S THEN Lost ELSE ChoiceOf(w)
  <2>1. /\ CoinsFile(w) \in File /\ TokensFile(w) \in File /\ OldFile(w) \in File
    BY FileFacts
  <2>2. disk'[OldFile(w)] = disk[OldFile(w)]
    BY <1>1, <1>3, <2>1 DEF Opens
  <2>3. CASE w \in S
    BY <1>4, <2>3 DEF ChoiceOf, Lost
  <2>4. CASE w \notin S
    <3>1. disk'[CoinsFile(w)] = disk[CoinsFile(w)] /\ disk'[TokensFile(w)] = disk[TokensFile(w)]
      BY <1>1, <1>4, <2>1, <2>4
    <3> QED BY <2>2, <2>4, <3>1, SameChoice
  <2> QED BY <2>3, <2>4
<1>6. \A w \in Wallet : ChoicesKept[w] = ChoiceOf(w)
  BY DEF ChoicesKept
<1>7. ChoicesKept' = [w \in Wallet |-> IF w \in S THEN Lost ELSE ChoicesKept[w]]
  <2>1. ChoicesKept' = [w \in Wallet |-> IF "hasty" \in risks' THEN Lost ELSE ChoiceOf(w)']
    BY DEF ChoicesKept, Lost
  <2> QED BY <1>5, <1>6, <2>1
<1> QED BY <1>7 DEF Store!Lose

\* A write of one of the three files of one wallet.
LEMMA OthersKeep ==
    ASSUME FilesInv, NEW t \in Thread, Saved(t), NEW v \in Wallet,
           todo[t][1].file \in {CoinsFile(v), TokensFile(v), OldFile(v)}
    PROVE  /\ \A w \in Wallet \ {v} : ChoiceOf(w)' = ChoiceOf(w)
           /\ \A f \in {CoinsFile(v), TokensFile(v), OldFile(v)} :
                 disk'[f] = IF f = todo[t][1].file THEN todo[t][1].as ELSE disk[f]
<1>1. PICK e : e = todo[t][1]
  OBVIOUS
<1>2. \A f \in File : disk'[f] = IF f = e.file THEN e.as ELSE disk[f]
  BY <1>1, SavedDoes
<1>3. \A w \in Wallet \ {v} : ChoiceOf(w)' = ChoiceOf(w)
  <2> TAKE w \in Wallet \ {v}
  <2>1. \A f \in {CoinsFile(w), TokensFile(w), OldFile(w)} : f \in File /\ f # e.file
    BY <1>1, WalletFilesApart
  <2>2. \A f \in {CoinsFile(w), TokensFile(w), OldFile(w)} : disk'[f] = disk[f]
    BY <1>2, <2>1
  <2> QED BY <2>2, SameChoice
<1> QED BY <1>1, <1>2, <1>3, WalletFilesApart

\* The choices of one wallet, and so the whole of them.
LEMMA OneStays ==
    ASSUME UNCHANGED risks, NEW v \in Wallet, ChoiceOf(v)' = ChoiceOf(v),
           \A w \in Wallet \ {v} : ChoiceOf(w)' = ChoiceOf(w)
    PROVE  UNCHANGED ChoicesKept
BY CarefulKeeps

LEMMA OneChanges ==
    ASSUME UNCHANGED risks, "hasty" \notin risks, NEW v \in Wallet, NEW x, ChoiceOf(v)' = x,
           \A w \in Wallet \ {v} : ChoiceOf(w)' = ChoiceOf(w)
    PROVE  ChoicesKept[v] = ChoiceOf(v) /\ ChoicesKept' = [ChoicesKept EXCEPT ![v] = x]
<1>1. ChoicesKept = [w \in Wallet |-> ChoiceOf(w)]
  BY DEF ChoicesKept
<1>2. ChoicesKept' = [w \in Wallet |-> ChoiceOf(w)']
  BY DEF ChoicesKept
<1> HIDE DEF ChoicesKept
<1>3. \A w \in Wallet : ChoiceOf(w)' = IF w = v THEN x ELSE ChoiceOf(w)
  OBVIOUS
<1>4. ChoicesKept' = [w \in Wallet |-> IF w = v THEN x ELSE ChoiceOf(w)]
  BY <1>2, <1>3
<1> QED BY <1>1, <1>4

\* A write of choices chooses, unless the precedent file hides it.
LEMMA CoinsChoose ==
    ASSUME FilesInv, NEW t \in Thread, Saved(t), "hasty" \notin risks, UNCHANGED risks,
           at \in {"in", "modal"}, owner \in Wallet,
           Torn \notin {disk[CoinsFile(owner)], disk[TokensFile(owner)]},
           SetsCoins(todo[t][1])
    PROVE  Store!Next
<1>1. PICK e : e = todo[t][1]
  OBVIOUS
<1>2. PICK v \in Wallet : v = owner
  OBVIOUS
<1>3. e.file = CoinsFile(v) /\ disk[CoinsFile(v)] \in Coins
  BY <1>1, <1>2 DEF SetsCoins
<1>4. PICK C \in Coins : C = disk[CoinsFile(v)]
  BY <1>3
<1>5. PICK S \in SUBSET Coin, on \in BOOLEAN : e.as = Switched(C, S, on)
  BY <1>1, <1>2, <1>4 DEF SetsCoins
<1>6. PICK D : D = e.as
  OBVIOUS
<1>7. D \in Coins /\ C \notin Bad /\ D \notin Bad
  BY <1>5, <1>6, SwitchedCoins, NotBad
<1>8. /\ DOMAIN D = DOMAIN C
      /\ \A c \in DOMAIN C : D[c].active = IF c \in S THEN on ELSE C[c].active
  <2>1. \A c \in DOMAIN C : C[c] \in Entry
    BY CoinsHold, CoinsOwn
  <2> QED BY <1>5, <1>6, <2>1, SwitchedIs
<1>9. /\ \A w \in Wallet \ {v} : ChoiceOf(w)' = ChoiceOf(w)
      /\ disk'[CoinsFile(v)] = D /\ disk'[TokensFile(v)] = disk[TokensFile(v)]
      /\ disk'[OldFile(v)] = disk[OldFile(v)]
  BY <1>1, <1>3, <1>6, OthersKeep, WalletFilesApart
<1>10. PICK T : T = KnownOf(disk[TokensFile(v)])
  OBVIOUS
<1>11. PICK O : O = OldOf(disk[OldFile(v)])
  OBVIOUS
<1>12. BaseOf(C) = C /\ BaseOf(D) = D
  BY <1>7 DEF BaseOf, Bad
<1>13. ChoiceOf(v) = ReadOf(O, C, T) /\ ChoiceOf(v)' = ReadOf(O, D, T)
  BY <1>2, <1>4, <1>7, <1>9, <1>10, <1>11, <1>12, ChoiceIsReading DEF Bad, Reading
<1>14. PICK R \in SUBSET Coin : R = {c \in S : c \in DOMAIN C \ TakenOver(O, C)}
  OBVIOUS
<1>15. ReadOf(O, D, T) = [c \in Coin |-> IF c \in R THEN on ELSE ReadOf(O, C, T)[c]]
  <2>1. TakenOver(O, D) = TakenOver(O, C)
    BY <1>8 DEF TakenOver
  <2>2. ASSUME NEW c \in Coin
        PROVE  ReadOf(O, D, T)[c] = IF c \in R THEN on ELSE ReadOf(O, C, T)[c]
    BY <1>8, <1>14, <2>1 DEF ReadOf
  <2> QED BY <2>2 DEF ReadOf
<1>16. /\ ChoicesKept[v] = ChoiceOf(v)
       /\ ChoicesKept' = [ChoicesKept EXCEPT ![v] = ReadOf(O, D, T)]
  BY <1>9, <1>13, OneChanges
<1>17. ChoicesKept[v] # Lost
  BY <1>2, <1>16, Choice, LostIsNone DEF Untorn
<1>18. Store!Choose(v, R, on)
  BY <1>2, <1>13, <1>15, <1>16, <1>17, InSession DEF Store!Choose
<1> QED BY <1>18 DEF Store!Next

LEMMA TokensChoose ==
    ASSUME FilesInv, NEW t \in Thread, Saved(t), "hasty" \notin risks, UNCHANGED risks,
           at \in {"in", "modal"}, owner \in Wallet,
           Torn \notin {disk[CoinsFile(owner)], disk[TokensFile(owner)]},
           SetsTokens(todo[t][1])
    PROVE  Store!Next
<1>1. PICK e : e = todo[t][1]
  OBVIOUS
<1>2. PICK v \in Wallet : v = owner
  OBVIOUS
<1>3. PICK S \in SUBSET Coin, on \in BOOLEAN :
         \A c \in Coin : On(e.as, c) = IF c \in S THEN on ELSE On(TokensOf(v), c)
  BY <1>1, <1>2 DEF SetsTokens
<1>4. e.file = TokensFile(v) /\ e.as \in Tokens
  BY <1>1, <1>2 DEF SetsTokens
<1>5. /\ \A w \in Wallet \ {v} : ChoiceOf(w)' = ChoiceOf(w)
      /\ disk'[TokensFile(v)] = e.as /\ disk'[CoinsFile(v)] = disk[CoinsFile(v)]
      /\ disk'[OldFile(v)] = disk[OldFile(v)]
  BY <1>1, <1>4, OthersKeep, WalletFilesApart
<1>6. PICK C : C = BaseOf(disk[CoinsFile(v)])
  OBVIOUS
<1>7. PICK T : T = KnownOf(disk[TokensFile(v)])
  OBVIOUS
<1>8. PICK O : O = OldOf(disk[OldFile(v)])
  OBVIOUS
<1>9. PICK N : N = e.as
  OBVIOUS
<1>10. N # Absent /\ N # Torn
  BY <1>4, <1>9, NotBad DEF Bad
<1>11. KnownOf(N) = N /\ TokensOf(v) = T
  BY <1>7, <1>10 DEF KnownOf, TokensOf
<1>12. ChoiceOf(v) = ReadOf(O, C, T) /\ ChoiceOf(v)' = ReadOf(O, C, N)
  BY <1>2, <1>5, <1>6, <1>7, <1>8, <1>9, <1>10, <1>11, ChoiceIsReading DEF Reading
<1>13. PICK R \in SUBSET Coin : R = {c \in S : c \notin TakenOver(O, C) \cup DOMAIN C}
  OBVIOUS
<1>14. ReadOf(O, C, N) = [c \in Coin |-> IF c \in R THEN on ELSE ReadOf(O, C, T)[c]]
  <2>1. ASSUME NEW c \in Coin
        PROVE  ReadOf(O, C, N)[c] = IF c \in R THEN on ELSE ReadOf(O, C, T)[c]
    <3>1. On(N, c) = IF c \in S THEN on ELSE On(T, c)
      BY <1>3, <1>9, <1>11
    <3> QED BY <1>13, <3>1 DEF ReadOf
  <2> QED BY <2>1 DEF ReadOf
<1>15. /\ ChoicesKept[v] = ChoiceOf(v)
       /\ ChoicesKept' = [ChoicesKept EXCEPT ![v] = ReadOf(O, C, N)]
  BY <1>5, <1>12, OneChanges
<1>16. ChoicesKept[v] # Lost
  BY <1>2, <1>15, Choice, LostIsNone DEF Untorn
<1>17. Store!Choose(v, R, on)
  BY <1>2, <1>12, <1>14, <1>15, <1>16, InSession DEF Store!Choose
<1> QED BY <1>17 DEF Store!Next

\* The removal of the coins file, once all tokens are off, resets.
LEMMA RemovalResets ==
    ASSUME FilesInv, NEW t \in Thread, Saved(t), "hasty" \notin risks, UNCHANGED risks,
           at \in {"in", "modal"}, owner \in Wallet,
           Torn \notin {disk[CoinsFile(owner)], disk[TokensFile(owner)]},
           todo[t][1] = Delete(CoinsFile(owner)), AllOff(TokensOf(owner))
    PROVE  Store!Next
<1>1. PICK e : e = todo[t][1]
  OBVIOUS
<1>2. PICK v \in Wallet : v = owner
  OBVIOUS
<1>3. e.file = CoinsFile(v) /\ e.as = Absent
  BY <1>1, <1>2 DEF Delete, SaveAs
<1>4. /\ \A w \in Wallet \ {v} : ChoiceOf(w)' = ChoiceOf(w)
      /\ disk'[CoinsFile(v)] = Absent /\ disk'[TokensFile(v)] = disk[TokensFile(v)]
      /\ disk'[OldFile(v)] = disk[OldFile(v)]
  BY <1>1, <1>3, OthersKeep, WalletFilesApart
<1>5. PICK T : T = KnownOf(disk[TokensFile(v)])
  OBVIOUS
<1>6. PICK O : O = OldOf(disk[OldFile(v)])
  OBVIOUS
<1>7. PICK C \in Coins : C = BaseOf(disk[CoinsFile(v)])
  BY <1>2, Choice DEF Untorn
<1>8. /\ ChoiceOf(v) = ReadOf(O, C, T) /\ ChoiceOf(v)' = ReadOf(O, Asset, T)
  <2>1. BaseOf(Absent) = Asset /\ Absent # Torn
    BY FilesAssumption DEF BaseOf
  <2> QED BY <1>2, <1>4, <1>5, <1>6, <1>7, <2>1, ChoiceIsReading DEF Reading
<1>9. \A c \in Coin : ~On(T, c)
  BY <1>2, <1>5 DEF AllOff, TokensOf, KnownOf
<1>10. PICK R \in SUBSET Coin : R = Coin \ (CustomIn(O) \cup (Official \cap DOMAIN O))
  OBVIOUS
<1>11. ReadOf(O, Asset, T) = [c \in Coin |-> IF c \in R THEN c \in OnByDefault
                                            ELSE ReadOf(O, C, T)[c]]
  <2>1. /\ DOMAIN Asset = Official /\ Official \subseteq DOMAIN C
        /\ \A c \in Official : Asset[c].active = (c \in OnByDefault)
    BY AssetCoins, CoinsOwn
  <2>2. TakenOver(O, Asset) = CustomIn(O) \cup (Official \cap DOMAIN O)
    BY <2>1 DEF TakenOver
  <2>3. TakenOver(O, Asset) \subseteq TakenOver(O, C)
    BY <2>1, <2>2 DEF TakenOver
  <2>4. OnByDefault \subseteq Official
    BY FilesAssumption
  <2>5. ASSUME NEW c \in Coin
        PROVE  ReadOf(O, Asset, T)[c] = IF c \in R THEN c \in OnByDefault
                                        ELSE ReadOf(O, C, T)[c]
    <3>1. CASE c \notin R
      <4>1. c \in TakenOver(O, Asset) /\ c \in TakenOver(O, C)
        BY <1>10, <2>2, <2>3, <3>1
      <4> QED BY <3>1, <4>1 DEF ReadOf
    <3>2. CASE c \in R /\ c \in Official
      <4>1. c \notin TakenOver(O, Asset) /\ c \in DOMAIN Asset
        BY <1>10, <2>1, <2>2, <3>2
      <4>2. ReadOf(O, Asset, T)[c] = Asset[c].active
        BY <4>1 DEF ReadOf
      <4> QED BY <2>1, <3>2, <4>2
    <3>3. CASE c \in R /\ c \notin Official
      <4>1. c \notin TakenOver(O, Asset) /\ c \notin DOMAIN Asset
        BY <1>10, <2>1, <2>2, <3>3
      <4>2. ReadOf(O, Asset, T)[c] = On(T, c)
        BY <4>1 DEF ReadOf
      <4>3. (c \in OnByDefault) = FALSE /\ On(T, c) = FALSE
        BY <1>9, <2>4, <3>3 DEF On
      <4>4. (IF c \in R THEN c \in OnByDefault ELSE ReadOf(O, C, T)[c]) = FALSE
        BY <3>3, <4>3
      <4> QED BY <4>2, <4>3, <4>4
    <3> QED BY <3>1, <3>2, <3>3
  <2> QED BY <2>5 DEF ReadOf
<1>12. /\ ChoicesKept[v] = ChoiceOf(v)
       /\ ChoicesKept' = [ChoicesKept EXCEPT ![v] = ReadOf(O, Asset, T)]
  BY <1>4, <1>8, OneChanges
<1>13. ChoicesKept[v] # Lost
  BY <1>2, <1>12, Choice, LostIsNone DEF Untorn
<1>14. Store!Reset(v, R)
  BY <1>2, <1>8, <1>11, <1>12, <1>13, InSession DEF Store!Reset
<1> QED BY <1>14 DEF Store!Next

-----------------------------------------------------------------------------
(* WalletFiles implements ChoiceStore.                                     *)

\* A copy of the shipped coins file, where there is none.
LEMMA CopyKeeps ==
    ASSUME FilesInv, NEW t \in Thread, Saved(t), UNCHANGED risks, Copies(todo[t][1])
    PROVE  UNCHANGED ChoicesKept
<1>1. PICK e : e = todo[t][1]
  OBVIOUS
<1>2. PICK v \in Wallet : e.file = CoinsFile(v) /\ disk[CoinsFile(v)] = Absent /\ e.as = Asset
  BY <1>1 DEF Copies
<1>3. /\ \A w \in Wallet \ {v} : ChoiceOf(w)' = ChoiceOf(w)
      /\ disk'[CoinsFile(v)] = Asset /\ disk'[TokensFile(v)] = disk[TokensFile(v)]
      /\ disk'[OldFile(v)] = disk[OldFile(v)]
  BY <1>1, <1>2, OthersKeep, WalletFilesApart
<1>4. Asset \notin Bad /\ Absent # Torn
  BY AssetCoins, NotBad, FilesAssumption
<1>5. PICK T : T = disk[TokensFile(v)]
  OBVIOUS
<1>6. PICK O : O = disk[OldFile(v)]
  OBVIOUS
<1>7. CASE T = Torn
  <2>1. ChoiceOf(v) = Lost /\ ChoiceOf(v)' = Lost
    BY <1>3, <1>5, <1>7 DEF ChoiceOf, Lost
  <2> QED BY <1>3, <2>1, OneStays
<1>8. CASE T # Torn
  <2>1. ChoiceOf(v) = Reading(Absent, T, O) /\ ChoiceOf(v)' = Reading(Asset, T, O)
    BY <1>2, <1>3, <1>4, <1>5, <1>6, <1>8, ChoiceIsReading DEF Bad
  <2>2. Reading(Asset, T, O) = Reading(Absent, T, O)
    BY <1>4 DEF Reading, BaseOf, Bad
  <2> QED BY <1>3, <2>1, <2>2, OneStays
<1> QED BY <1>7, <1>8

\* With or without the precedent file, the merged one reads as the two did.
LEMMA MergeReads ==
    ASSUME NEW old \in OldCoins, NEW new \in Coins, NEW g, g = Merge(old, new), NEW tokens
    PROVE  /\ ReadOf(old, g, tokens) = ReadOf(old, new, tokens)
           /\ ReadOf(NoCoins, g, tokens) = ReadOf(old, new, tokens)
<1>1. IsMerge(g, old, new)
  BY MergeHolds
<1>2. DOMAIN g = DOMAIN new \cup CustomIn(old) /\ CustomIn(old) \subseteq DOMAIN old
  BY <1>1 DEF IsMerge, CustomIn
<1>3. TakenOver(old, g) = TakenOver(old, new)
  BY <1>2 DEF TakenOver
<1>4. TakenOver(NoCoins, g) = {}
  BY DEF TakenOver, CustomIn, NoCoins
<1>5. ASSUME NEW c \in TakenOver(old, new)
      PROVE  c \in DOMAIN g /\ g[c].active = old[c].active
  <2>1. CASE c \in CustomIn(old)
    BY <1>1, <1>2, <2>1 DEF IsMerge
  <2>2. CASE c \notin CustomIn(old)
    <3>1. c \in DOMAIN old /\ c \in DOMAIN new /\ c \in DOMAIN g
      BY <1>2, <2>2 DEF TakenOver
    <3>2. g[c] = [new[c] EXCEPT !.active = old[c].active]
      BY <1>1, <2>2, <3>1 DEF IsMerge
    <3>3. new[c] \in Entry
      BY <3>1, CoinsHold, CoinsOwn
    <3>4. "active" \in DOMAIN new[c]
      BY <3>3 DEF Entry
    <3> QED BY <3>1, <3>2, <3>4
  <2> QED BY <2>1, <2>2
<1>6. ASSUME NEW c \in DOMAIN g, c \notin TakenOver(old, new)
      PROVE  c \in DOMAIN new /\ g[c] = new[c]
  BY <1>1, <1>2, <1>6 DEF IsMerge, TakenOver
<1>7. ASSUME NEW c \in Coin
      PROVE  /\ ReadOf(old, g, tokens)[c] = ReadOf(old, new, tokens)[c]
             /\ ReadOf(NoCoins, g, tokens)[c] = ReadOf(old, new, tokens)[c]
  <2>1. CASE c \in TakenOver(old, new)
    BY <1>3, <1>4, <1>5, <2>1 DEF ReadOf
  <2>2. CASE c \notin TakenOver(old, new) /\ c \in DOMAIN g
    BY <1>3, <1>4, <1>6, <2>2 DEF ReadOf
  <2>3. CASE c \notin TakenOver(old, new) /\ c \notin DOMAIN g
    BY <1>2, <1>3, <1>4, <2>3 DEF ReadOf
  <2> QED BY <2>1, <2>2, <2>3
<1> QED BY <1>7 DEF ReadOf

\* An upgrade of the precedent file.
LEMMA UpgradeKeeps ==
    ASSUME FilesInv, NEW t \in Thread, Saved(t), UNCHANGED risks, owner \in Wallet,
           Upgrades(todo[t], 1)
    PROVE  UNCHANGED ChoicesKept
<1>1. PICK e : e = todo[t][1]
  OBVIOUS
<1>2. PICK v \in Wallet : v = owner
  OBVIOUS
<1>3. PICK C \in Coins : C = disk[CoinsFile(v)]
  BY <1>2 DEF Upgrades
<1>4. PICK T : T = disk[TokensFile(v)]
  OBVIOUS
<1>5. PICK O : O = disk[OldFile(v)]
  OBVIOUS
<1>6. C # Torn /\ C # Absent
  BY NotBad DEF Bad
<1>7. \/ e.file = CoinsFile(v) /\ e.as = IF O \in Bad THEN C ELSE Merge(O, C)
      \/ e.file = OldFile(v) /\ e.as = Absent /\ O \in OldCoins /\ C = Merge(O, C)
  <2>1. Merged = IF O \in Bad THEN C ELSE Merge(O, C)
    BY <1>2, <1>3, <1>5 DEF Merged
  <2> QED BY <1>1, <1>2, <1>3, <1>5, <2>1, NotBad DEF Upgrades, RemovesOld
<1>8. \A w \in Wallet \ {v} : ChoiceOf(w)' = ChoiceOf(w)
  BY <1>1, <1>7, OthersKeep
<1>9. disk'[TokensFile(v)] = T
  BY <1>1, <1>4, <1>7, OthersKeep, WalletFilesApart
<1>10. CASE T = Torn
  <2>1. ChoiceOf(v) = Lost /\ ChoiceOf(v)' = Lost
    BY <1>4, <1>9, <1>10 DEF ChoiceOf, Lost
  <2> QED BY <1>8, <2>1, OneStays
<1>11. PICK K : K = KnownOf(T)
  OBVIOUS
<1>12. BaseOf(C) = C
  BY <1>6 DEF BaseOf
<1>13. CASE T # Torn /\ e.file = CoinsFile(v) /\ e.as = IF O \in Bad THEN C ELSE Merge(O, C)
  <2>1. PICK D : D = e.as
    OBVIOUS
  <2>2. disk'[CoinsFile(v)] = D /\ disk'[OldFile(v)] = O
    BY <1>1, <1>5, <1>13, <2>1, OthersKeep, WalletFilesApart
  <2>3. O \in OldCoins \cup Bad
    BY <1>5, WalletFilesApart DEF FilesInv, Typed, Holds
  <2>4. D \in Coins
    BY <1>13, <2>1, <2>3, MergeCoins
  <2>5. BaseOf(D) = D /\ D # Torn
    BY <2>4, NotBad DEF BaseOf, Bad
  <2>6. ChoiceOf(v) = ReadOf(OldOf(O), C, K) /\ ChoiceOf(v)' = ReadOf(OldOf(O), D, K)
    BY <1>3, <1>4, <1>5, <1>6, <1>9, <1>11, <1>12, <1>13, <2>2, <2>5, ChoiceIsReading DEF Reading
  <2>7. ReadOf(OldOf(O), D, K) = ReadOf(OldOf(O), C, K)
    <3>1. CASE O \in Bad
      BY <1>13, <2>1, <3>1
    <3>2. CASE O \notin Bad
      BY <1>13, <2>1, <2>3, <3>2, MergeReads DEF OldOf
    <3> QED BY <3>1, <3>2
  <2> QED BY <1>8, <2>6, <2>7, OneStays
<1>14. CASE T # Torn /\ e.file = OldFile(v) /\ e.as = Absent /\ O \in OldCoins /\ C = Merge(O, C)
  <2>1. disk'[CoinsFile(v)] = C /\ disk'[OldFile(v)] = Absent
    BY <1>1, <1>3, <1>14, OthersKeep, WalletFilesApart
  <2>2. OldOf(O) = O /\ OldOf(Absent) = NoCoins
    BY <1>14, NotBad DEF OldOf
  <2>3. ChoiceOf(v) = ReadOf(O, C, K) /\ ChoiceOf(v)' = ReadOf(NoCoins, C, K)
    BY <1>3, <1>4, <1>5, <1>6, <1>9, <1>11, <1>12, <1>14, <2>1, <2>2, ChoiceIsReading DEF Reading
  <2>4. ReadOf(NoCoins, C, K) = ReadOf(O, C, K)
    BY <1>14, MergeReads
  <2> QED BY <1>8, <2>3, <2>4, OneStays
<1> QED BY <1>7, <1>10, <1>13, <1>14

\* Every write is a choice, a reset or nothing to the choices.
LEMMA SavedChooses ==
    ASSUME FilesInv, ChoiceInv, NEW t \in Thread, Saved(t), "hasty" \notin risks
    PROVE  Store!Next \/ UNCHANGED ChoicesKept
<1>1. PICK q : q = todo[t]
  OBVIOUS
<1>2. /\ Len(q) \in Nat \ {0} /\ 1 \in 1..Len(q) /\ q # <<>> /\ q[1].do = "save"
      /\ UNCHANGED risks
  BY <1>1, SavedDoes
<1>3. ChoicesHeld
  BY DEF ChoiceInv
<1>4. at \in Place \ {"down"}
  BY <1>1, <1>2 DEF FilesInv, Typed, Lists, Thread
<1>5. CASE Aside(q[1])
  <2>1. \A f \in ChoiceFile : disk'[f] = disk[f]
    BY <1>1, <1>5, SavedAside
  <2> QED BY <1>2, <2>1, ElsewhereKept
<1>6. CASE Copies(q[1])
  BY <1>1, <1>2, <1>6, CopyKeeps
<1>7. CASE at \in {"starting", "menu", "login"}
  <2>1. t = "gui"
    BY <1>7, GuiSaved
  <2>2. \/ Aside(q[1]) \/ Copies(q[1])
        \/ at = "login" /\ Upgrades(q, 1)
    BY <1>1, <1>2, <1>3, <1>7, <2>1 DEF ChoicesHeld
  <2>3. at = "login" => owner \in Wallet
    BY DEF FilesInv, Typed
  <2> QED BY <1>1, <1>2, <1>5, <1>6, <2>2, <2>3, UpgradeKeeps
<1>8. CASE at \in {"in", "modal"}
  <2>1. owner \in Wallet /\ Torn \notin {disk[CoinsFile(owner)], disk[TokensFile(owner)]}
    BY <1>3, <1>8 DEF ChoicesHeld, FilesInv, Typed
  <2>2. Sets(q) \/ (at = "modal" /\ Resets(q))
    BY <1>1, <1>3, <1>8 DEF ChoicesHeld, Thread
  <2>3. \/ Aside(q[1]) \/ SetsCoins(q[1]) \/ SetsTokens(q[1])
        \/ q[1] = Delete(CoinsFile(owner)) /\ AllOff(TokensOf(owner))
    BY <1>2, <2>2 DEF Sets, Resets
  <2> QED BY <1>1, <1>2, <1>5, <1>8, <2>1, <2>3, CoinsChoose, TokensChoose, RemovalResets
<1> QED BY <1>4, <1>7, <1>8 DEF Place

\* Every step maps to a step or a stutter.
LEMMA StoreStep ==
    ASSUME FilesInv, ChoiceInv, [FilesNext]_filesVars
    PROVE  Store!Next \/ UNCHANGED ChoicesKept
<1>1. UNCHANGED risks
  BY Touches
<1>2. CASE "hasty" \in risks
  BY <1>1, <1>2, HastyKeeps
<1>3. CASE "hasty" \notin risks
  <2>1. CASE Ends
    BY <1>1, <1>3, <2>1, EndsLoses DEF Store!Next
  <2>2. CASE \E t \in Thread : Saved(t)
    BY <1>3, <2>2, SavedChooses
  <2>3. DOMAIN disk = File
    BY DEF FilesInv, Typed
  <2>4. CASE Start
    <3>1. \A f \in ChoiceFile : disk'[f] = disk[f]
      BY <2>3, <2>4, ChoiceFiles DEF Start, ParseRaw
    <3> QED BY <1>1, <3>1, ElsewhereKept
  <2>5. ASSUME NEW l \in Language, SetCurrentLang(l)
        PROVE  UNCHANGED ChoicesKept
    <3>1. \A f \in ChoiceFile : disk'[f] = disk[f]
      BY <2>3, <2>5, ChoiceFiles DEF SetCurrentLang
    <3> QED BY <1>1, <3>1, ElsewhereKept
  <2>6. CASE \A f \in ChoiceFile \cup LanguageFile : disk'[f] = disk[f]
    BY <1>1, <2>6, ElsewhereKept
  <2> QED BY <2>1, <2>2, <2>4, <2>5, <2>6, Touches
<1> QED BY <1>2, <1>3

LEMMA SameLanguage ==
    ASSUME \A f \in LanguageFile : disk'[f] = disk[f]
    PROVE  LanguageRead' = LanguageRead
BY DEF LanguageRead, HandleSettings, LanguageFile

\* And the language is kept.
LEMMA LanguageStep ==
    ASSUME FilesInv, ChoiceInv, [FilesNext]_filesVars
    PROVE  LanguageIsKept
<1> SUFFICES ASSUME risks \cap {"torn", "noCopy"} = {}
             PROVE  LanguageRead' = LanguageRead \/ budget'.settings < budget.settings
  BY DEF LanguageIsKept
<1>1. \A f \in LanguageFile : disk[f] \in Language \cup {Absent}
  BY DEF ChoiceInv, LanguageHeld
<1>2. /\ DOMAIN disk = File /\ IniFile \in File /\ OldIniFile \in File /\ IniFile # OldIniFile
      /\ {IniFile, OldIniFile} = LanguageFile /\ RawFile \notin LanguageFile
      /\ CfgFile \notin LanguageFile
  BY LanguageFiles DEF FilesInv, Typed, LanguageFile
<1>3. Bad \cap Language = {} /\ English \in Language /\ Absent \in Bad
  BY FilesAssumption DEF Bad
<1>4. CASE Ends
  <2>1. \A f \in LanguageFile : disk'[f] = disk[f]
    BY <1>4, EndsTears, LanguageFiles
  <2> QED BY <2>1, SameLanguage
<1>5. ASSUME NEW t \in Thread, Saved(t)
      PROVE  LanguageRead' = LanguageRead
  <2>1. PICK q : q = todo[t]
    OBVIOUS
  <2>2. /\ Len(q) \in Nat \ {0} /\ 1 \in 1..Len(q) /\ q[1].do = "save"
        /\ \A f \in File : disk'[f] = IF f = q[1].file THEN q[1].as ELSE disk[f]
    BY <1>5, <2>1, SavedDoes
  <2>3. CASE at # "starting"
    <3>1. q[1].file \notin LanguageFile
      BY <2>1, <2>2, <2>3 DEF ChoiceInv, LanguageHeld
    <3>2. \A f \in LanguageFile : disk'[f] = disk[f]
      BY <1>5, <2>1, <3>1, SavedAside
    <3> QED BY <3>2, SameLanguage
  <2>4. CASE at = "starting"
    <3>1. t = "gui"
      BY <1>5, <2>4, GuiSaved
    <3>2. UpgradesLanguage(q)
      BY <2>1, <2>4, <3>1 DEF ChoiceInv, LanguageHeld
    <3>3. CASE q[1] = Delete(OldIniFile) /\ disk[IniFile] # Absent
      <4>1. q[1].file = OldIniFile
        BY <3>3 DEF Delete, SaveAs
      <4>2. disk'[IniFile] = disk[IniFile]
        BY <1>2, <2>2, <4>1
      <4> QED BY <3>3, <4>2 DEF LanguageRead, HandleSettings
    <3>4. CASE /\ q[1] = Write(IniFile, disk[OldIniFile])
               /\ disk[IniFile] = Absent /\ disk[OldIniFile] # Absent
      <4>1. q[1].file = IniFile /\ q[1].as = disk[OldIniFile]
        BY <3>4 DEF Write, SaveAs
      <4>2. disk'[IniFile] = disk[OldIniFile]
        BY <1>2, <2>2, <4>1
      <4>3. disk[OldIniFile] \in Language /\ disk[OldIniFile] \notin Bad
        BY <1>1, <1>2, <1>3, <3>4
      <4>4. LanguageRead = disk[OldIniFile]
        BY <3>4 DEF LanguageRead
      <4>5. LanguageRead' = disk[OldIniFile]
        BY <3>4, <4>2, <4>3 DEF LanguageRead, HandleSettings
      <4> QED BY <4>4, <4>5
    <3> QED BY <2>2, <3>2, <3>3, <3>4 DEF UpgradesLanguage
  <2> QED BY <2>3, <2>4
<1>6. CASE Start
  <2>1. at = "starting" /\ todo["gui"] = <<>>
    BY <1>6 DEF Start
  <2>2. disk[IniFile] # Absent \/ disk[OldIniFile] = Absent
    BY <2>1, ShortLists DEF ChoiceInv, LanguageHeld, UpgradesLanguage
  <2>3. LanguageRead = HandleSettings
    BY <2>2 DEF LanguageRead
  <2>4. HandleSettings \in Language
    BY <1>1, <1>2, <1>3 DEF HandleSettings
  <2>5. CASE disk' = [disk EXCEPT ![RawFile] = Supplied(RawFile, [c \in Custom |-> 0])]
    <3>1. \A f \in LanguageFile : disk'[f] = disk[f]
      BY <1>2, <2>5
    <3> QED BY <3>1, SameLanguage
  <2>6. CASE disk' = [[disk EXCEPT ![CfgFile] = LoadCfg, ![IniFile] = HandleSettings]
                         EXCEPT ![RawFile] = Supplied(RawFile, [c \in Custom |-> 0])]
    <3>1. disk'[IniFile] = HandleSettings
      BY <1>2, <2>6
    <3>2. PICK l \in Language : l = HandleSettings
      BY <2>4
    <3>3. l \notin Bad /\ disk'[IniFile] = l
      BY <1>3, <3>1, <3>2
    <3>4. LanguageRead' = l
      BY <1>3, <3>3 DEF LanguageRead, HandleSettings
    <3> QED BY <2>3, <3>2, <3>4
  <2> QED BY <1>6, <2>5, <2>6 DEF Start, ParseRaw
<1>7. ASSUME NEW l \in Language, SetCurrentLang(l)
      PROVE  budget'.settings < budget.settings
  BY <1>7, SpendKeeps DEF SetCurrentLang, ChoiceInv
<1>8. CASE \A f \in ChoiceFile \cup LanguageFile : disk'[f] = disk[f]
  BY <1>8, SameLanguage
<1> QED BY <1>4, <1>5, <1>6, <1>7, <1>8, Touches

\* WalletFiles implements ChoiceStore: unless the user goes on while a switch to segwit
\* is stored, what is read of the files of any wallet changes only in a session of that
\* wallet, by a choice of the user, one for a set of its coins at once, or a reset to the
\* defaults, or by a loss of the whole file, and the language changes only by a choice or a
\* loss; no upgrade, whatever coins, custom ones too, only one of the two versions has, and
\* no login, copy, removal or crash between two steps changes either.
\* (update_coin_status, add_new_coin, remove_custom_coin, reset_coin_cfg,
\* check_for_reconfiguration, check_settings_reconfiguration.)
THEOREM ChoicesAlwaysKept == FilesSpec => ChoicesAreKept
<1>1. FilesInit => Store!Init
  BY StoredInitially, StoreStarts
<1>2. FilesInv /\ ChoiceInv /\ [FilesNext]_filesVars => [Store!Next]_ChoicesKept
  BY StoreStep
<1>3. FilesInv /\ ChoiceInv /\ [FilesNext]_filesVars => [LanguageIsKept]_filesVars
  BY LanguageStep
<1> QED BY <1>1, <1>2, <1>3, ChoiceInvariant, PTL DEF FilesSpec, ChoicesAreKept, Store!Spec
=============================================================================
