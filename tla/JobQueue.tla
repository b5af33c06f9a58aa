------------------------------- MODULE JobQueue -------------------------------
(***************************************************************************)
(* What Database promises of the statements handed to Execute and of the   *)
(* buffers handed to AddQueryBuffer, whatever threads perform them: each   *)
(* is performed at most once and, until the threads are told to end, in    *)
(* the order in which they were handed over.  From then on the order is no *)
(* longer promised, and a job may be performed by the one that brings it.  *)
(***************************************************************************)
EXTENDS Sequences, SequencesExt

CONSTANT Job

VARIABLES
  waiting,     \* jobs handed over and not performed, in the order of arrival
  performed,   \* jobs performed
  closing      \* EndThreads has been called

vars == <<waiting, performed, closing>>

Init == waiting = <<>> /\ performed = {} /\ closing = FALSE

New(j) == j \notin performed /\ j \notin Range(waiting)

Accept(j) ==
  /\ New(j)
  /\ waiting' = Append(waiting, j)
  /\ UNCHANGED <<performed, closing>>

Perform ==
  /\ waiting # <<>> /\ Head(waiting) \notin performed
  /\ performed' = performed \cup {Head(waiting)}
  /\ waiting' = Tail(waiting)
  /\ UNCHANGED closing

PerformNow(j) ==
  /\ closing /\ New(j)
  /\ performed' = performed \cup {j}
  /\ UNCHANGED <<waiting, closing>>

Close == closing' = TRUE /\ UNCHANGED <<waiting, performed>>

Shuffle ==
  /\ closing
  /\ Len(waiting') = Len(waiting) /\ Range(waiting') = Range(waiting)
  /\ UNCHANGED <<performed, closing>>

Next == Perform \/ Close \/ Shuffle \/ \E j \in Job : Accept(j) \/ PerformNow(j)

Spec == Init /\ [][Next]_vars
===============================================================================
