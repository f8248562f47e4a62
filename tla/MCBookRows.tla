---------------------------- MODULE MCBookRows -----------------------------
EXTENDS BookRows

CONSTANTS o1, o2

MCPrice == {<<1, 2>>, <<3, 4>>}
MCCex == [o \in Order |-> IF o = o1 THEN <<1, 2>> ELSE <<0, 1>>]
=============================================================================
