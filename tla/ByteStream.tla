------------------------------ MODULE ByteStream ------------------------------
(***************************************************************************)
(* What a CircularBuffer promises its owner: a first-in first-out stream of *)
(* bytes.  A byte is known by its position in the stream.                   *)
(***************************************************************************)
EXTENDS Integers

VARIABLES written,   \* bytes put into the stream so far
          taken,     \* bytes taken out of it so far
          block      \* the bytes the last Take delivered, in order

vars == <<written, taken, block>>

Init == written = 0 /\ taken = 0 /\ block = [i \in {} |-> 0]

Put == /\ written' \in Nat /\ written' >= written
       /\ UNCHANGED <<taken, block>>

\* the oldest n bytes, in the order they were put
Take == \E n \in 0 .. written - taken :
          /\ block' = [i \in 0 .. n - 1 |-> taken + i]
          /\ taken' = taken + n
          /\ UNCHANGED written

Spec == Init /\ [][Put \/ Take]_vars
=============================================================================
