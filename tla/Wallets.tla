------------------------------ MODULE Wallets ------------------------------
(* What the modules about a wallet's files have in common.                 *)

CONSTANTS
    Wallet,
    None,   \* no wallet, and no value
    Torn    \* what a file holds that a crash has left half written
=============================================================================
