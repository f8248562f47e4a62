-------------------------- MODULE MCCoinLifecycle --------------------------
(* Small instances of CoinLifecycle: two default coins, a token B, and the *)
(* coin A that pays the fees of B.                                         *)
EXTENDS CoinLifecycle, TLC

CONSTANTS kmd, btc, A, B

MCCoin   == {kmd, btc, A, B}
MCParent == [c \in MCCoin |-> IF c = B THEN A ELSE c]

CallSymmetry == Permutations(Call)
=============================================================================
