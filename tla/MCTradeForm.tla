---------------------------- MODULE MCTradeForm ----------------------------
(* A small instance of TradeForm: the default coins, a token A without a    *)
(* balance and a coin W that cannot be traded; the pair kmd/A has trading   *)
(* settings.  Buying, the balances cover the order of btc or part of the    *)
(* order of A.                                                              *)
EXTENDS TradeForm, TLC

CONSTANTS kmd, btc, A, W

MCOffer ==
    {[coin |-> btc, price |-> 2, min |-> 1, max |-> 1],
     [coin |-> A, price |-> 1, min |-> 1, max |-> 3]}
MCTaker ==
    {[coin |-> kmd, base |-> 2, rel |-> 2, minBase |-> 1, minRel |-> 2],
     [coin |-> kmd, base |-> 4, rel |-> 1, minBase |-> 0, minRel |-> 1]}
MCTarget == (<<kmd, A>> :> 1)

SlotSymmetry == Permutations(Slot)
=============================================================================
