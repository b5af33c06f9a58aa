----------------------------- MODULE MCWorldLogin -----------------------------
(* Small instances of WorldLogin: connections 1 and 2 log in to one account, and *)
(* a client may send a second login packet on connection 1.                     *)
EXTENDS WorldLogin

CONSTANTS a, b, c

MCAccountOf == [s \in Sock |-> <<a, a, b, c>>[s]]
MCFrom == [r \in Request |-> <<1, 1, 2, 3>>[r]]
=============================================================================
