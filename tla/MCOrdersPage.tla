---------------------------- MODULE MCOrdersPage ----------------------------
EXTENDS OrdersPage

MCPage == 1 .. 2
MCFilter == {Id, {1, 2}}
Few == [world |-> 0, user |-> 0, flight |-> 2]
Finished == <<"Started", "Finished">>
Session(ords, list, over, what, budget) ==
    [orders |-> ords, swaps |-> list, faults |-> what, left |-> budget,
     offers |-> [id \in Id |-> "taker"],
     events |-> [id \in Id |-> IF id \in over THEN Finished
                               ELSE IF id \in ToSet(list) THEN <<"Started", "Negotiated">>
                               ELSE <<>>]]
MCScenarios ==
    {\* calm: the user turns pages and filters; orders and swaps come and go
     Session({}, <<2, 1>>, {1, 2}, {"pollLost"}, [Few EXCEPT !.user = 3]),
     Session({3}, <<2, 1>>, {1}, {"pollLost"}, [Few EXCEPT !.user = 2, !.world = 2]),
     \* answers late, refused or lost, and a user who does not wait
     Session({3}, <<2, 1>>, {1}, {"slow", "hasty"}, [Few EXCEPT !.user = 2]),
     Session({3}, <<2, 1>>, {1}, Fault \ {"reorder", "hasty"}, [Few EXCEPT !.user = 1]),
     \* answers in any order
     Session({3}, <<2, 1>>, {1}, {"reorder"}, [Few EXCEPT !.user = 1, !.world = 1]),
     Session({}, <<2, 1>>, {1}, Fault, [Few EXCEPT !.user = 1])}
=============================================================================
