---------------------------- MODULE NodeRegistry ----------------------------
(***************************************************************************)
(* What the wallet promises about the coins of the mm2 process: a coin it  *)
(* counts on is one that mm2 has on.  mm2 switches coins on by itself; the *)
(* wallet learns of them later, if at all, and may forget them; a coin is  *)
(* switched off only for the wallet, which stops counting on it with that. *)
(***************************************************************************)
CONSTANT Coin

VARIABLES
    known,  \* the coins the wallet counts on
    on      \* the coins that mm2 has on

vars == <<known, on>>

Init == known = {} /\ on = {}

SwitchOn(S) == on' = on \cup S /\ UNCHANGED known

Learn(S) == S \subseteq on /\ known' = known \cup S /\ UNCHANGED on

Forget(S) == known' = known \ S /\ UNCHANGED on

SwitchOff(c) == c \in known /\ known' = known \ {c} /\ on' = on \ {c}

Next == \/ \E S \in SUBSET Coin : SwitchOn(S) \/ Learn(S) \/ Forget(S)
        \/ \E c \in Coin : SwitchOff(c)

Spec == Init /\ [][Next]_vars
=============================================================================
