---------------------------- MODULE MCPortfolio ----------------------------
EXTENDS Portfolio
CONSTANTS kmd, band, usd, eur, p1, p2, gui

Services == {"market", "fiats", "orders"}
Begins(fresh, enabling, online) ==
    [fresh |-> fresh, on |-> enabling, online |-> online, pool |-> {p1}, kinds |-> {}, left |-> 0]
\* What changes, what fails, and who answers late, a few at a time.
MCScenarios ==
    {[Begins(TRUE, {band}, Services) EXCEPT !.kinds = {"quote", "late"}, !.left = 1],
     [Begins(TRUE, {band}, {"market", "oracle"}) EXCEPT !.kinds = {"quote", "refused", "broken"}, !.left = 2],
     [Begins(FALSE, {}, {"market"}) EXCEPT !.kinds = {"currency", "balance", "fake"}, !.left = 2],
     [Begins(FALSE, {}, {"market"}) EXCEPT !.kinds = {"currency", "fake"}, !.left = 1, !.pool = Pool],
     [Begins(TRUE, {band}, {"market", "fiats"}) EXCEPT !.kinds = {"currency", "refused", "broken"}, !.left = 2],
     [Begins(FALSE, {}, {}) EXCEPT !.kinds = {"open", "filter", "notEnabled"}, !.left = 4],
     [Begins(FALSE, {}, {}) EXCEPT !.kinds = {"open", "disable"}, !.left = 4],
     [Begins(FALSE, {}, {"market"}) EXCEPT !.kinds = {"open", "disable"}, !.left = 2]}
=============================================================================
