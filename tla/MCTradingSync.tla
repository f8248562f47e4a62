--------------------------- MODULE MCTradingSync ---------------------------
(* A small instance of TradingSync: the two default coins and a coin A, in  *)
(* two pairs that share their base.                                         *)
EXTENDS TradingSync

CONSTANTS kmd, btc, A, b1, b2, s1, s2

SameBase == {<<kmd, btc>>, <<kmd, A>>}

\* Two scans race for the busy flag, from the login on.
TwoScans == [on |-> FALSE, slots |-> {b1, s1, s2}, asked |-> {}, user |-> 3]

\* On the trading page two answers of orderbooks overlap: of two pairs, of two
\* resets, or of a reset and a timer.  The reset of the first pair is under way.
TwoBooks == [on |-> TRUE, slots |-> {b1, b2, s1}, asked |-> {b1}, user |-> 1]

RacingRequests == {TwoScans, TwoBooks}
=============================================================================
