---------------------------- MODULE MCWalletPage ----------------------------
(* Two coins: the token a, whose history comes from a scanner and whose fees *)
(* are paid by b.                                                            *)
EXTENDS WalletPage

CONSTANTS a, b

MCFeesCoin == [c \in Coin |-> b]
MCTx == 1 .. 2
Few == [tx |-> 0, change |-> 0, select |-> 0, act |-> 0, late |-> 1]
Session(withPin, coins, first, budget) ==
    [pin |-> withPin, on |-> coins, ticker |-> first, left |-> budget]
MCScenarios ==
    {\* histories, of one coin and of two; the spinner waits for that of a, or of b
     Session(FALSE, {b}, b, [Few EXCEPT !.tx = 2, !.late = 2]),
     Session(FALSE, {a, b}, b, [Few EXCEPT !.tx = 1, !.select = 1]),
     Session(FALSE, {a, b}, a, [Few EXCEPT !.select = 1]),
     \* balances; the coin that pays the fees may be enabled, and selected
     Session(FALSE, {a}, a, [Few EXCEPT !.change = 1, !.act = 1, !.late = 2]),
     Session(FALSE, {a}, a, [Few EXCEPT !.select = 1, !.act = 1]),
     \* the user and AutoHedge send, claim and ask
     Session(FALSE, {b}, b, [Few EXCEPT !.act = 2]),
     Session(TRUE, {b}, b, [Few EXCEPT !.act = 2])}
=============================================================================
