--------------------------- MODULE MCWalletData ----------------------------
(***************************************************************************)
(* What the program keeps of a wallet on disk: the files of its coins, and *)
(* its address book; and how the addresses of the latter and of the send   *)
(* window are checked.  They share nothing but the wallets, so a behaviour *)
(* is one of one module, while the others stand still.                     *)
(***************************************************************************)
EXTENDS AddressBook, AddressCheck, WalletFiles, TLC

CONSTANTS w1, w2, a, b, x, y

VARIABLE part  \* whose behaviour it is

NoFile == [w \in Wallet |-> Absent]
Known(on, isCustom) == [active |-> on, custom |-> isCustom, backup |-> isCustom]
Chosen == [c \in Official |-> Known(c = b, FALSE)]

\* The precedent version did not know a, had x as a custom coin and y as one of its own;
\* or had b as a custom coin.  The user had added tokens; one is shipped now, one is in
\* both files.
Other == [c \in {b, x, y} |-> Known(TRUE, c = x)]
Promoted == [c \in {a, b} |-> Known(c = b, c = b)]
Added(S) == [c \in S |-> Known(c # x, TRUE)]

\* How a wallet stands that is new, and what the user may do, and restart, and crash.
Stand(seedFiles, what, user, starts, crash) ==
    [old |-> NoFile, tokens |-> NoFile, seeds |-> seedFiles, ini |-> Absent, faults |-> what,
     left |-> [user |-> user, settings |-> 0, session |-> starts, crash |-> crash]]
Upgrade(old, what, user, starts, crash) ==
    [Stand({w1}, what, user, starts, crash) EXCEPT !.old[w1] = old]
Having(S, stand) == [stand EXCEPT !.tokens[w1] = Added(S)]
Choosing(stand, n, ini) == [stand EXCEPT !.left.settings = n, !.ini = ini]
MCStandings ==
    {\* two wallets share coins.json
     Stand(Wallet, {}, 6, 4, 0),
     \* an upgrade, with crashes; the precedent file may stay
     Upgrade(Chosen, {}, 2, 4, 2),
     Upgrade(Other, {}, 3, 4, 1),
     Upgrade(Other, {"noRemove"}, 3, 3, 1),
     Having({a, y}, Upgrade(Other, {}, 3, 3, 1)),
     Having({x}, Upgrade(Other, {}, 3, 3, 1)),
     Upgrade(Promoted, {}, 3, 3, 1),
     \* a token is added, with crashes that may tear a file
     Stand({w1}, {}, 4, 4, 1),
     Upgrade(Chosen, {"torn"}, 3, 3, 1),
     \* wallets come and go
     Stand({}, {"throws"}, 4, 3, 0),
     Stand({}, {"torn"}, 2, 4, 1),
     \* a switch to segwit is stored while the user goes on
     Stand({w1}, {"hasty"}, 3, 1, 0),
     \* settings are changed
     Choosing(Stand({w1}, {"torn"}, 1, 3, 1), 2, "fr"),
     Choosing(Stand({}, {}, 0, 3, 2), 1, "fr"),
     Choosing(Stand({}, {"noCopy"}, 0, 2, 1), 1, "fr")}

\* Three slots: a type of coins, a coin always known, and a custom token of that
\* type; the labels of the second and the third are the same text.
Kinds == [t \in Type \ CoinType |-> IF t = "token" THEN "ERC20" ELSE "UTXO"]
TypeOfSlot == [s \in Slot |-> CASE s = 1 -> "ERC20" [] s = 2 -> "coin" [] s = 3 -> "token"]
LabelOfSlot == [s \in Slot |-> IF s = 1 THEN 1 ELSE 2]
KnownTypes == {Type \ {"token"}, Type}

\* Two addresses, each of which may be entered in lower case, and what is none.
Reasons == [t \in Entered |->
    CASE t = "other" -> "Invalid input length"
      [] t \in {"lower 1", "lower 2"} -> "Invalid address checksum"
      [] OTHER -> ""]
Mixed == [t \in Entered |-> IF t = "lower 2" THEN "address 2" ELSE "address 1"]
Checked ==
    {[steps |-> 5, patient |-> TRUE, faults |-> {}],
     [steps |-> 4, patient |-> TRUE, faults |-> {"lost", "refused"}],
     [steps |-> 3, patient |-> FALSE, faults |-> {"refused"}]}

ASSUME BookConstants /\ AddressConstants

\* Of a module that stands still, one initial state is enough.
AnyInit ==
    /\ part \in {"files", "book", "check"} /\ FilesInit /\ Init /\ CheckInit
    /\ part # "book" => careful
    /\ part # "files" => risks = {"throws"}
    /\ part # "check" => ~patient

AnyNext ==
    \/ part = "files" /\ FilesNext /\ UNCHANGED <<part, vars, checkVars>>
    \/ part = "book" /\ Next /\ UNCHANGED <<part, filesVars, checkVars>>
    \/ part = "check" /\ CheckNext /\ UNCHANGED <<part, vars, filesVars>>

AnySpec == AnyInit /\ [][AnyNext]_<<part, vars, filesVars, checkVars>>
=============================================================================
