------------------------- MODULE MCQueryTransactions -------------------------
(* A buffer of three statements, the second about a table without transactions, and a single *)
(* statement.                                                                                 *)
EXTENDS QueryTransactions

CONSTANTS b1, s1

MCSize         == [j \in Job |-> IF j = b1 THEN 3 ELSE 1]
MCUntransacted == {<<b1, 2>>}
===============================================================================
