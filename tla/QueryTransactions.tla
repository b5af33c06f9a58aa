-------------------------- MODULE QueryTransactions --------------------------
(***************************************************************************)
(* What a thread does on its connection to perform a job: the transaction  *)
(* of a QueryBuffer (PerformQueryBuffer) or a single statement, the        *)
(* reconnect when the connection was lost and the second sending of the    *)
(* statement (MySQLDatabase::_SendQuery, _HandleError, _Reconnect).        *)
(*                                                                         *)
(* The server is external: a statement in a transaction is kept until the  *)
(* COMMIT, unless its table has no transactions; another one is stored at  *)
(* once; a lost connection rolls its transaction back, at any time, also   *)
(* between a statement and its answer; a statement may fail by itself, and *)
(* as a victim of a deadlock it takes the transaction with it.             *)
(***************************************************************************)
EXTENDS Naturals, Sequences, FiniteSets

CONSTANTS
  Job,        \* QueryBuffers and single statements; each is performed once
  Size,       \* [Job -> Nat \ {0}]: the number of its statements
  Buffer,     \* the jobs that are QueryBuffers; the others have one statement
  Untransacted, \* the statements about tables without transactions (MyISAM)
  Thread, Conn,
  None        \* no connection, no job, no transaction

Stmt == UNION {{j} \X (1..Size[j]) : j \in Job}

ASSUME TransactionAssumption ==
  /\ Buffer \subseteq Job /\ Size \in [Job -> Nat \ {0}]
  /\ \A j \in Job \ Buffer : Size[j] = 1
  /\ Untransacted \subseteq Stmt
  /\ None \notin Job \cup Conn \cup Stmt

VARIABLES
  link,      \* [Conn -> BOOLEAN]: the connection works
  tx,        \* [Conn -> statements of the transaction open on it], or <<None>>
  at,        \* [Thread -> [job, conn, pos, try]]: the statement being sent, and
             \* whether it is its first or second sending or a reconnect before that
  done,      \* jobs performed
  stored,    \* sequence of the statements whose effect is in the database
  unanswered,\* history: statements that had an effect, but whose answer was lost
  troubled   \* history: jobs in which a statement failed or the connection was gone

vars == <<link, tx, at, done, stored, unanswered, troubled>>

NoTx == <<None>>
Idle == [job |-> None, conn |-> None, pos |-> 0, try |-> "first"]
Busy(t) == at[t].job # None

\* What is at a position of a job: of a QueryBuffer 0 is START TRANSACTION and the one
\* after the last statement is COMMIT.
Begins(t)  == at[t].pos = 0
Commits(t) == at[t].pos > Size[at[t].job]
Current(t) == <<at[t].job, at[t].pos>>

TypeOK ==
  /\ link \in [Conn -> BOOLEAN] /\ tx \in [Conn -> Seq(Stmt) \cup {NoTx}]
  /\ at \in [Thread -> [job : Job \cup {None}, conn : Conn \cup {None}, pos : Nat,
                        try : {"first", "reconnect", "second"}]]
  /\ \A t \in Thread : at[t].job \in Job =>
       at[t].conn \in Conn /\ at[t].pos \in (IF at[t].job \in Buffer THEN 0..Size[at[t].job] + 1
                                                                     ELSE {1})
  /\ done \subseteq Job /\ stored \in Seq(Stmt)
  /\ unanswered \subseteq Stmt /\ troubled \subseteq Job

Init ==
  /\ link = [k \in Conn |-> TRUE] /\ tx = [k \in Conn |-> NoTx]
  /\ at = [t \in Thread |-> Idle]
  /\ done = {} /\ stored = <<>> /\ unanswered = {} /\ troubled = {}

-------------------------------------------------------------------------------
Last(j) == IF j \in Buffer THEN Size[j] + 1 ELSE 1

\* _SendQuery has returned, whatever its result: the next position, or the end of the job.
Advance(t) ==
  IF at[t].pos = Last(at[t].job)
  THEN /\ at' = [at EXCEPT ![t] = Idle]
       /\ done' = done \cup {at[t].job}
  ELSE /\ at' = [at EXCEPT ![t].pos = @ + 1, ![t].try = "first"]
       /\ UNCHANGED done

\* Mutant: the buffer begins with its first statement, not with START TRANSACTION.
StartsBare(t) ==
  \E j \in Job, k \in Conn :
    /\ ~Busy(t) /\ j \notin done
    /\ \A u \in Thread : at[u].job # j /\ at[u].conn # k
    /\ at' = [at EXCEPT ![t] = [job |-> j, conn |-> k, pos |-> 1, try |-> "first"]]
    /\ UNCHANGED <<link, tx, done, stored, unanswered, troubled>>

\* A connection the thread has acquired is its own until the job ends.
Start(t) ==
  \E j \in Job, k \in Conn :
    /\ ~Busy(t) /\ j \notin done
    /\ \A u \in Thread : at[u].job # j /\ at[u].conn # k
    /\ at' = [at EXCEPT ![t] = [job |-> j, conn |-> k,
                                pos |-> IF j \in Buffer THEN 0 ELSE 1, try |-> "first"]]
    /\ UNCHANGED <<link, tx, done, stored, unanswered, troubled>>

\* The server: what is stored and what is open on the connection once it has done what it
\* was sent.  A COMMIT outside of a transaction changes nothing, and a transaction has no
\* hold on a row of playerspells, playerskills or playerreputations.
Open(t)   == tx[at[t].conn]
Defers(t) == Open(t) # NoTx /\ Current(t) \notin Untransacted

StoredBy(t) ==
  CASE Begins(t)  -> stored
    [] Commits(t) -> IF Open(t) = NoTx THEN stored ELSE stored \o Open(t)
    [] OTHER      -> IF Defers(t) THEN stored ELSE Append(stored, Current(t))

OpenedBy(t) ==
  CASE Begins(t)  -> <<>>
    [] Commits(t) -> NoTx
    [] OTHER      -> IF Defers(t) THEN Append(Open(t), Current(t)) ELSE Open(t)

Sending(t) == Busy(t) /\ at[t].try # "reconnect"

\* A statement whose answer is an error that is none of a lost connection is given up.
Send(t) ==
  /\ Sending(t) /\ link[at[t].conn]
  /\ stored' = StoredBy(t) /\ tx' = [tx EXCEPT ![at[t].conn] = OpenedBy(t)]
  /\ Advance(t)
  /\ UNCHANGED <<link, unanswered, troubled>>

\* Mutant: the job is left when a statement fails.
GivesUp(t) ==
  /\ Sending(t) /\ link[at[t].conn] /\ ~Begins(t) /\ ~Commits(t)
  /\ at' = [at EXCEPT ![t] = Idle] /\ done' = done \cup {at[t].job}
  /\ \E whole \in BOOLEAN : tx' = IF whole THEN [tx EXCEPT ![at[t].conn] = NoTx] ELSE tx
  /\ troubled' = troubled \cup {at[t].job}
  /\ UNCHANGED <<link, stored, unanswered>>

Rejected(t) ==
  /\ Sending(t) /\ link[at[t].conn] /\ ~Begins(t) /\ ~Commits(t)
  /\ Advance(t)
  /\ \E whole \in BOOLEAN : tx' = IF whole THEN [tx EXCEPT ![at[t].conn] = NoTx] ELSE tx
  /\ troubled' = troubled \cup {at[t].job}
  /\ UNCHANGED <<link, stored, unanswered>>

\* Errors 2006, 2008, 2013 and 2055: the first time the thread reconnects.
NotSent(t) ==
  IF at[t].try = "first"
  THEN at' = [at EXCEPT ![t].try = "reconnect"] /\ UNCHANGED done
  ELSE Advance(t)

SendFails(t) ==
  /\ Sending(t) /\ ~link[at[t].conn]
  /\ NotSent(t)
  /\ troubled' = troubled \cup {at[t].job}
  /\ UNCHANGED <<link, tx, stored, unanswered>>

\* The server has done it, but the connection is lost before the answer.
AnswerLost(t) ==
  /\ Sending(t) /\ link[at[t].conn]
  /\ stored' = StoredBy(t) /\ tx' = [tx EXCEPT ![at[t].conn] = NoTx]
  /\ link' = [link EXCEPT ![at[t].conn] = FALSE]
  /\ NotSent(t)
  /\ unanswered' = unanswered \cup ({Current(t)} \cap Stmt)
  /\ troubled' = troubled \cup {at[t].job}

\* Mutant: the whole job is sent again after the reconnect.
StartsOver(t) ==
  /\ Busy(t) /\ at[t].try = "reconnect"
  /\ \/ /\ at' = [at EXCEPT ![t].try = "second",
                            ![t].pos = IF at[t].job \in Buffer THEN 0 ELSE 1]
        /\ link' = [link EXCEPT ![at[t].conn] = TRUE]
        /\ UNCHANGED done
     \/ Advance(t) /\ UNCHANGED link
  /\ UNCHANGED <<tx, stored, unanswered, troubled>>

\* _Reconnect: mPort is never assigned, so that it may fail though the server is there.
Reconnect(t) ==
  /\ Busy(t) /\ at[t].try = "reconnect"
  /\ \/ /\ at' = [at EXCEPT ![t].try = "second"]
        /\ link' = [link EXCEPT ![at[t].conn] = TRUE]
        /\ UNCHANGED done
     \/ Advance(t) /\ UNCHANGED link
  /\ UNCHANGED <<tx, stored, unanswered, troubled>>

\* The connection breaks; the server rolls back what was open on it.
Lost(k) ==
  /\ link[k]
  /\ link' = [link EXCEPT ![k] = FALSE]
  /\ tx' = [tx EXCEPT ![k] = NoTx]
  /\ troubled' = troubled \cup {j \in Job : \E t \in Thread : at[t].job = j /\ at[t].conn = k}
  /\ UNCHANGED <<at, done, stored, unanswered>>

\* MYSQL_OPT_RECONNECT: the library may connect again by itself, and tells nobody.
Revived(k) ==
  /\ ~link[k]
  /\ link' = [link EXCEPT ![k] = TRUE]
  /\ UNCHANGED <<tx, at, done, stored, unanswered, troubled>>

-------------------------------------------------------------------------------
Step(t) == Send(t) \/ Rejected(t) \/ SendFails(t) \/ AnswerLost(t) \/ Reconnect(t)

Next == (\E t \in Thread : Start(t) \/ Step(t)) \/ (\E k \in Conn : Lost(k) \/ Revived(k))

Spec == Init /\ [][Next]_vars

-------------------------------------------------------------------------------
Times(s) == Cardinality({n \in DOMAIN stored : stored[n] = s})

StmtsOf(j) == {s \in Stmt : s[1] = j}

\* A connection on which no job is performed has no transaction open, whatever failed in
\* the jobs before: the next one to acquire it is not drawn into another's transaction.
FreeIsClean ==
  \A k \in Conn : (\A t \in Thread : at[t].conn # k) => tx[k] = NoTx

\* A QueryBuffer in which no statement failed and whose connection was there all the time
\* has all its effects, once each, when it was performed, and none before; but for the rows
\* of the tables without transactions, which are there before the COMMIT.
WholeUnlessTroubled ==
  \A j \in Job \ troubled : \A s \in StmtsOf(j) :
    /\ j \in done => Times(s) = 1
    /\ j \notin done /\ s \notin Untransacted => Times(s) = 0

\* A statement has its effect twice only if the connection was lost before its answer,
\* and never three times.
TwiceOnlyIfUnanswered ==
  \A s \in Stmt : Times(s) <= IF s \in unanswered THEN 2 ELSE 1

===============================================================================
