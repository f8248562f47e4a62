---------------------------- MODULE AddressBook ----------------------------
(***************************************************************************)
(* The address book: one file per wallet; what addressbook_manager holds   *)
(* of it (m_data); the rows that addressbook_model and its contact models  *)
(* show; and the window in which a contact is edited.  All of it is run by *)
(* the GUI thread; the program may die at any moment, also in the middle   *)
(* of the writing of a file.                                               *)
(*                                                                         *)
(* m_data and the rows are two lists that each operation changes on its    *)
(* own, looking contacts up by their name.                                 *)
(***************************************************************************)
EXTENDS Wallets, Naturals, Sequences, SequencesExt

\* A file that is not there and one that is not whole are read alike: Torn.
CONSTANTS
    Name, Empty,     \* the names of contacts; "", which only an edit can give
    Slot,            \* the type and the key of an address ...
    Type, TypeOf,    \* ... its type: a ticker, or a type of coins ...
    CoinType, KindOf, \* ... those types of coins, and each ticker's
    Label,           \* ... and AddressTypeAndKeyRole, the two texts put together
    Text, Tag,       \* what the user may write as an address, and as a tag
    Configs,         \* the types a coins file may know (a custom coin may be gone)
    MaxSteps         \* bound: what the user may do, and crashes

VARIABLES
    careful,         \* the user only renames to a name that no contact has
    left,            \* what is left of MaxSteps
    file,            \* the files
    wallet,          \* the wallet of the session; None: logged out
    known,           \* the types of its coins file
    book,            \* m_data
    rows,            \* m_model_data
    row, stage       \* the edit window: the row it shows, and where it is

vars == <<careful, left, file, wallet, known, book, rows, row, stage>>
session == <<careful, wallet, known>>
window == <<row, stage>>

\* An address: the wallet in which it was entered is part of it.
Address == Wallet \X Text
Addresses == UNION {[S -> Address] : S \in SUBSET Slot}
Contact == [name : Name, tags : SUBSET Tag, at : Addresses]
Nowhere == [s \in {} |-> None]

\* What the constants are; the theorems about this module assume it.
BookConstants ==
    /\ None \notin Wallet /\ Empty \in Name
    /\ Torn \notin Seq(Contact)
    /\ TypeOf \in [Slot -> Type] /\ DOMAIN Label = Slot
    /\ CoinType \subseteq Type /\ KindOf \in [Type \ CoinType -> CoinType]
    /\ Configs \subseteq SUBSET Type
    /\ MaxSteps \in Nat

TypeOK ==
    /\ careful \in BOOLEAN /\ left \in 0..MaxSteps
    /\ DOMAIN file = Wallet
    /\ \A w \in Wallet : file[w] = Torn \/ file[w] \in Seq(Contact)
    /\ wallet \in Wallet \cup {None} /\ known \subseteq Type
    /\ book \in Seq(Contact) /\ rows \in Seq(Contact)
    /\ row \in Nat /\ stage \in {"closed", "open", "named"}

Init ==
    /\ careful \in BOOLEAN /\ left = MaxSteps
    /\ file = [w \in Wallet |-> Torn]
    /\ wallet = None /\ known = {}
    /\ book = <<>> /\ rows = <<>>
    /\ row = 0 /\ stage = "closed"

LoggedIn == wallet # None
Step == left > 0 /\ left' = left - 1

\* save_configuration: the file of the current wallet is written over.
SaveConfiguration(contacts) == file' = [file EXCEPT ![wallet] = contacts]

\* load_addressbook_cfg: of a file that cannot be parsed, an empty book.
Load(w) == IF file[w] = Torn THEN <<>> ELSE file[w]

Has(contacts, name) == \E i \in DOMAIN contacts : contacts[i].name = name

\* get_contact, match: the first contact of that name.
First(contacts, name) ==
    CHOOSE i \in DOMAIN contacts :
        contacts[i].name = name /\ \A j \in 1..(i - 1) : contacts[j].name # name

\* remove_contact: the first one, if there is one.
Without(contacts, name) ==
    IF Has(contacts, name) THEN RemoveAt(contacts, First(contacts, name)) ELSE contacts

New(name) == [name |-> name, tags |-> {}, at |-> Nowhere]

\* populate, of a contact model: tags, and the addresses whose type the coins
\* file knows, as a ticker or as a type of coins.
Shown(contact, types) ==
    [contact EXCEPT !.at =
        [s \in {s \in DOMAIN contact.at : TypeOf[s] \in types} |-> contact.at[s]]]

\* populate, of the model: a contact model finds its contact by its name.
Populate(contacts, types) ==
    [i \in DOMAIN contacts |->
        Shown(contacts[First(contacts, contacts[i].name)], types)]

-----------------------------------------------------------------------------
(* The session.                                                            *)

\* on_post_login; the rows of the last session were removed at its end.
OnPostLogin(w) ==
    /\ ~LoggedIn /\ Step
    /\ wallet' = w
    /\ known' \in Configs
    /\ book' = Load(w)
    /\ rows' = rows \o Populate(Load(w), known')
    /\ UNCHANGED <<careful, file, row, stage>>

\* Mutant of Clear: the rows stay.
ClearKeepsRows ==
    /\ LoggedIn /\ stage = "closed" /\ Step
    /\ SaveConfiguration(book)
    /\ wallet' = None
    /\ UNCHANGED <<careful, known, book, rows, row, stage>>

\* clear, called by disconnect, which then drops the wallet's name; m_data stays.
Clear ==
    /\ LoggedIn /\ stage = "closed" /\ Step
    /\ SaveConfiguration(book)
    /\ rows' = <<>>
    /\ wallet' = None
    /\ UNCHANGED <<careful, known, book, row, stage>>

\* The program ends, or dies, and is started again.
Dies ==
    /\ wallet' = None
    /\ book' = <<>> /\ rows' = <<>>
    /\ row' = 0 /\ stage' = "closed"
    /\ UNCHANGED <<careful, known>>

Crash == LoggedIn /\ Step /\ Dies /\ UNCHANGED file

\* ... between the truncation of the file and the end of its writing.
CrashInWrite == LoggedIn /\ Step /\ Dies /\ SaveConfiguration(Torn)

-----------------------------------------------------------------------------
(* The list of contacts.                                                   *)

Browsing == LoggedIn /\ stage = "closed"

AddContact(name) ==
    /\ Browsing /\ Step
    /\ name # Empty /\ ~Has(book, name)
    /\ book' = Append(book, New(name))
    /\ SaveConfiguration(book')
    /\ rows' = Append(rows, Shown(New(name), known))
    /\ UNCHANGED <<session, window>>

\* Mutant of RemoveContact: nothing is saved.
RemoveContactUnsaved(name) ==
    /\ Browsing /\ Step
    /\ Has(rows, name)
    /\ book' = Without(book, name)
    /\ rows' = Without(rows, name)
    /\ UNCHANGED <<session, file, window>>

\* remove_contact, of the row's delegate.
RemoveContact(name) ==
    /\ Browsing /\ Step
    /\ Has(rows, name)
    /\ book' = Without(book, name)
    /\ SaveConfiguration(book')
    /\ rows' = Without(rows, name)
    /\ UNCHANGED <<session, window>>

-----------------------------------------------------------------------------
(* Choosing an address to send a coin to: two lists with the same filter.  *)

\* get_coin_info(t).type, of a ticker the coins file knows.
IsOfKind(t, kind) == t \in known \ CoinType /\ KindOf[t] = kind

\* filterAcceptsRow of the contacts, with a type filter.
ContactListed(contact, filter) ==
    \E s \in DOMAIN contact.at :
        \/ TypeOf[s] = filter
        \/ TypeOf[s] \in CoinType /\ IsOfKind(filter, TypeOf[s])
        \/ TypeOf[s] \notin CoinType /\ filter \in CoinType /\ IsOfKind(TypeOf[s], filter)

\* Mutant of AddressListed: only the very type.
AddressOfTypeListed(type, filter) == filter = type

\* filterAcceptsRow of the addresses of a contact.
AddressListed(type, filter) ==
    \/ filter = type
    \/ filter \in CoinType /\ IsOfKind(type, filter)
    \/ filter \notin CoinType /\ type \in CoinType /\ IsOfKind(filter, type)

-----------------------------------------------------------------------------
(* The edit window; what is edited is the row, until it is saved.          *)

OpenEdit(i) ==
    /\ Browsing
    /\ i \in DOMAIN rows
    /\ row' = i /\ stage' = "open"
    /\ UNCHANGED <<session, left, file, book, rows>>

Edited == rows[row]
Edits(contact) ==
    /\ stage = "open" /\ Step
    /\ rows' = [rows EXCEPT ![row] = contact]
    /\ UNCHANGED <<session, file, book, window>>

\* add_address_entry: false if there is an entry of that label.
Put(at, s, address) ==
    IF \E r \in DOMAIN at : Label[r] = Label[s] THEN at
    ELSE [r \in DOMAIN at \cup {s} |-> IF r = s THEN address ELSE at[r]]

\* remove_address_entry, by its label.
Drop(at, s) == [r \in {r \in DOMAIN at : Label[r] # Label[s]} |-> at[r]]

AddAddressEntry(s, text) == Edits([Edited EXCEPT !.at = Put(@, s, <<wallet, text>>)])

RemoveAddressEntry(s) ==
    /\ stage = "open" /\ s \in DOMAIN Edited.at
    /\ Edits([Edited EXCEPT !.at = Drop(@, s)])

\* The address window, in edition mode: the old entry goes before the new one is
\* added, and whether or not it is.
ReplaceAddressEntry(s, r, text) ==
    /\ stage = "open" /\ s \in DOMAIN Edited.at
    /\ Edits([Edited EXCEPT !.at = Put(Drop(@, s), r, <<wallet, text>>)])

AddCategory(t) == Edits([Edited EXCEPT !.tags = @ \cup {t}])
RemoveCategory(t) ==
    /\ stage = "open" /\ t \in Edited.tags
    /\ Edits([Edited EXCEPT !.tags = @ \ {t}])

\* set_name, the first half of Confirm.  A contact whose name is "" gets its name in
\* the row, but not in m_data.
SetName(name) ==
    /\ stage = "open" /\ Step
    /\ careful => name = Edited.name \/ (name # Empty /\ ~Has(book, name))
    /\ IF name = Edited.name \/ Edited.name = Empty THEN UNCHANGED <<file, book>>
       ELSE /\ Has(book, Edited.name)
            /\ book' = [book EXCEPT ![First(book, Edited.name)].name = name]
            /\ SaveConfiguration(book')
    /\ rows' = [rows EXCEPT ![row].name = name]
    /\ stage' = "named"
    /\ UNCHANGED <<session, row>>

\* Mutant of Reload: the model is not cleared first.
ReloadAdds(contacts) ==
    LET stored == Shown(contacts[First(contacts, Edited.name)], known)
    IN  /\ rows' = [rows EXCEPT ![row] = [stored EXCEPT !.at =
                        [s \in DOMAIN stored.at \cup DOMAIN Edited.at |->
                            IF s \in DOMAIN stored.at THEN stored.at[s] ELSE Edited.at[s]]]]
        /\ row' = 0 /\ stage' = "closed"

\* reload: what was edited and not saved is gone.
Reload(contacts) ==
    /\ rows' = [rows EXCEPT ![row] = Shown(contacts[First(contacts, Edited.name)], known)]
    /\ row' = 0 /\ stage' = "closed"

ResetCategories(contact) == [contact EXCEPT !.tags = {}]
AddCategories(contact, tags) == [contact EXCEPT !.tags = @ \cup tags]
RemoveEveryWalletInfo(contact) == [contact EXCEPT !.at = Nowhere]
SetWalletInfo(contact, at) ==
    [contact EXCEPT !.at = [s \in DOMAIN at \cup DOMAIN contact.at |->
                               IF s \in DOMAIN at THEN at[s] ELSE contact.at[s]]]

\* save, the second half of Confirm, after which the window closes: the tags and the
\* addresses of the row replace those of the first contact of its name.
Save ==
    /\ stage = "named" /\ Has(book, Edited.name)
    /\ LET tagged(contact) == AddCategories(ResetCategories(contact), Edited.tags)
       IN  book' = [book EXCEPT ![First(book, Edited.name)] =
                        SetWalletInfo(RemoveEveryWalletInfo(tagged(@)), Edited.at)]
    /\ SaveConfiguration(book')
    /\ Reload(book')
    /\ UNCHANGED <<session, left>>

Cancel ==
    /\ stage = "open" /\ Has(book, Edited.name)
    /\ Reload(book)
    /\ UNCHANGED <<session, left, file, book>>

\* get_contact throws if there is no contact of that name, out of a handler of the
\* interface: Confirm and Cancel both end there.
GetContactThrows ==
    /\ stage # "closed" /\ ~Has(book, Edited.name)
    /\ Dies /\ UNCHANGED <<left, file>>

-----------------------------------------------------------------------------
Session == (\E w \in Wallet : OnPostLogin(w)) \/ Clear \/ Crash \/ CrashInWrite

Contacts ==
    \/ \E n \in Name : AddContact(n) \/ RemoveContact(n)
    \/ \E i \in DOMAIN rows : OpenEdit(i)

Window ==
    \/ \E s \in Slot, text \in Text :
          \/ AddAddressEntry(s, text)
          \/ \E r \in Slot : ReplaceAddressEntry(r, s, text)
    \/ \E s \in Slot : RemoveAddressEntry(s)
    \/ \E t \in Tag : AddCategory(t) \/ RemoveCategory(t)
    \/ \E n \in Name : SetName(n)
    \/ Save \/ GetContactThrows \/ Cancel

Next == Session \/ Contacts \/ Window

Spec == Init /\ [][Next]_vars

-----------------------------------------------------------------------------
(* Properties.                                                             *)

\* What a login would read is what the session holds: no operation on m_data is left
\* without its save_configuration, between the two halves of Confirm neither, and a
\* file that is not whole is read as the empty book the session started with.
FileIsBook == LoggedIn => Load(wallet) = book

\* While the user gives no contact the name of another one, and none the name "", the
\* rows are m_data: same contacts in the same order, and in each of them what is
\* stored and the coins file knows, but for the row being edited.  So nothing that
\* was edited and cancelled is shown, and what Confirm replaces is the contact shown.
ShownIsStored ==
    (careful /\ LoggedIn) =>
        /\ Len(rows) = Len(book)
        /\ \A i \in DOMAIN rows :
              /\ rows[i].name = book[i].name
              /\ i # row => rows[i] = Shown(book[i], known)

\* A contact is offered as a recipient of a coin exactly if one of its addresses is
\* offered then: SendModalContactList gives both lists the same filter, and says
\* "1 address" of a contact that has none or one.
OfferedHaveAnAddress ==
    \A i \in DOMAIN rows, filter \in Type :
        ContactListed(rows[i], filter) <=>
            \E s \in DOMAIN rows[i].at : AddressListed(TypeOf[s], filter)

\* Every address of contacts was entered in wallet w.
From(w, contacts) ==
    \A i \in DOMAIN contacts : \A s \in DOMAIN contacts[i].at : contacts[i].at[s][1] = w

\* The contacts of a wallet are shown and stored in that wallet alone, though m_data
\* outlives the session, the page saves once more at its end, and the next login only
\* adds rows.  (addressbook_page::clear, on_post_login.)
AddressesStayHome ==
    /\ \A w \in Wallet : file[w] # Torn => From(w, file[w])
    /\ LoggedIn => From(wallet, rows) /\ From(wallet, book)

=============================================================================
