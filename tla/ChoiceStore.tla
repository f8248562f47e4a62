---------------------------- MODULE ChoiceStore ----------------------------
(***************************************************************************)
(* What the files of a wallet promise, however many they are: for each     *)
(* coin a choice, made by the user, that changes only in a session of that *)
(* wallet, when the user chooses again or resets it.  Files that a crash   *)
(* has torn may be Lost; nothing else is ever lost, and nothing lost comes *)
(* back.                                                                   *)
(***************************************************************************)
CONSTANTS
    Wallet, Coin,
    OnByDefault,  \* the coins that are on in a new wallet
    Lost          \* the choices of a wallet whose files cannot be read

VARIABLES
    choice,       \* for each wallet and coin, whether the next login switches it on
    session       \* the wallet that the user is logged into, if any

Init == choice \in [Wallet -> [Coin -> BOOLEAN] \cup {Lost}]

Choose(w, S, on) ==
    /\ session = w /\ choice[w] # Lost
    /\ choice' = [choice EXCEPT ![w] = [c \in Coin |-> IF c \in S THEN on ELSE @[c]]]

\* All coins that the wallet knows only from the files that the reset removes.
Reset(w, S) ==
    /\ session = w /\ choice[w] # Lost
    /\ choice' = [choice EXCEPT ![w] = [c \in Coin |-> IF c \in S THEN c \in OnByDefault ELSE @[c]]]

Lose(S) == choice' = [w \in Wallet |-> IF w \in S THEN Lost ELSE choice[w]]

Next ==
    \/ \E w \in Wallet : \/ \E S \in SUBSET Coin, on \in BOOLEAN : Choose(w, S, on)
                         \/ \E S \in SUBSET Coin : Reset(w, S)
    \/ \E S \in SUBSET Wallet : Lose(S)

Spec == Init /\ [][Next]_choice
=============================================================================
