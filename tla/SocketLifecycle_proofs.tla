----------------------- MODULE SocketLifecycle_proofs -----------------------
(***************************************************************************)
(* Proofs about SocketLifecycle: any number of sockets and descriptors.      *)
(***************************************************************************)
EXTENDS SocketLifecycle, TLAPS

Acting  == {"add", "disconnect", "remove", "callback", "delete", "close", "read", "posted",
            "write", "drained", "post"}
Homes   == {"loop", "idle", "run"}
PC      == Acting \cup Homes \cup {"next", "closed"}
Then    == {"posted", "drained", "next"}
Frames  == [pc : PC, sock : Sock \cup {None}, ret : Homes \cup Then, closing : BOOLEAN]

\* What each thread is doing; the main thread never runs again once it calls CloseAll.
Typed ==
  /\ fd \in [Sock -> Fd \cup {None}] /\ fds \in [Fd -> Sock \cup {None}]
  /\ file \in [Fd -> Sock \cup {None}]
  /\ deleted \subseteq Sock /\ trash \subseteq Sock /\ freed \subseteq Sock
  /\ index \in 1 .. NFd + 1
  /\ at \in [Thread -> Frames]
  /\ \A t \in Thread : (at[t].pc \in Acting => at[t].sock # None) /\ at[t].ret \in {Home(t)} \cup Then
  /\ at["main"].ret = "run" => at["main"].pc \in {"run", "next", "closed"}
  /\ at["main"].pc = "run" => index = 1
  /\ at["main"].pc # "add"

\* A descriptor and the socket it was opened for belong together until the socket is in
\* the hands of the garbage collector.
Files ==
  /\ \A s \in Sock : fd[s] # None /\ s \notin trash \cup freed => file[fd[s]] = s
  /\ \A f \in Fd : file[f] # None => fd[file[f]] = f /\ file[f] \notin trash \cup freed
  /\ trash \cup freed \subseteq deleted
  /\ \A s \in deleted : fd[s] # None

\* A socket in a slot was opened for that descriptor; what a thread has is open or closed,
\* but neither freed nor still to be made.
Held ==
  /\ \A f \in Fd : fds[f] # None => fd[fds[f]] = f /\ fds[f] \notin freed
  /\ \A t \in Thread : at[t].sock # None => fd[at[t].sock] # None /\ at[t].sock \notin freed

\* The one thread that set m_deleted closes the socket, and has not done it yet.
Closer ==
  /\ \A t \in Thread : at[t].closing \/ at[t].pc = "close" =>
       /\ at[t].closing /\ at[t].sock \in deleted \ (trash \cup freed)
       /\ at[t].pc \in {"disconnect", "remove", "callback", "close"}
  /\ \A t, u \in Thread : at[t].closing /\ at[u].closing /\ at[t].sock = at[u].sock => t = u

\* A socket that is being added is known to nobody else.
Adding ==
  \A t \in Thread : at[t].pc = "add" =>
    /\ at[t].sock \notin deleted /\ \A f \in Fd : fds[f] # at[t].sock
    /\ \A u \in Thread \ {t} : at[u].sock # at[t].sock

\* While the server runs a socket is taken out of its slot before it is closed.
Leaving ==
  Running => \A t \in Thread : at[t].closing \/ at[t].pc \in {"callback", "delete", "close"} =>
                                 fds[fd[at[t].sock]] # at[t].sock

IInv == Typed /\ Files /\ Held /\ Closer /\ Adding /\ Leaving /\ TableIsLive

-----------------------------------------------------------------------------
LEMMA LifecycleInit == LifecycleAssumption /\ Init => IInv
<1> SUFFICES ASSUME LifecycleAssumption, Init PROVE IInv
  OBVIOUS
<1>1. \A t \in Thread : /\ at[t].pc = Home(t) /\ at[t].sock = None /\ at[t].ret = Home(t)
                        /\ ~at[t].closing
  BY DEF Init, Resting, Frame
<1>2. \A t \in Thread : Home(t) \in Homes /\ Home(t) \notin Acting
  BY DEF Home, Thread, Homes, Acting
<1>3. at["main"].pc = "run" /\ Home("main") = "run" /\ "main" \in Thread
  BY <1>1 DEF Home, Thread
<1>4. at \in [Thread -> Frames]
  <2>1. \A t \in Thread : Resting(t) \in Frames
    BY <1>2 DEF Resting, Frame, Frames, PC
  <2>2. QED BY <2>1 DEF Init
<1>5. Typed
  <2>1. /\ fd \in [Sock -> Fd \cup {None}] /\ fds \in [Fd -> Sock \cup {None}]
        /\ file \in [Fd -> Sock \cup {None}]
        /\ deleted \subseteq Sock /\ trash \subseteq Sock /\ freed \subseteq Sock
        /\ index = 1 /\ 1 \in 1 .. NFd + 1
    BY DEF Init, LifecycleAssumption
  <2>2. \A t \in Thread : at[t].pc \notin Acting /\ at[t].ret = Home(t)
    BY <1>1, <1>2
  <2>3. \A t \in Thread : /\ at[t].pc \in Acting => at[t].sock # None
                          /\ at[t].ret \in {Home(t)} \cup Then
    BY <2>2
  <2>4. QED BY <1>3, <1>4, <2>1, <2>3 DEF Typed
<1>6. Files /\ Held
  BY <1>1 DEF Init, Files, Held
<1>7. Closer /\ Adding /\ Leaving
  BY <1>1, <1>2 DEF Closer, Adding, Leaving, Homes
<1>8. TableIsLive
  BY DEF Init, TableIsLive
<1>9. QED BY <1>5, <1>6, <1>7, <1>8 DEF IInv

\* A thread that goes from one call to the next, with the socket it has or with one it has
\* just looked up.
LEMMA MoveKeeps ==
  ASSUME LifecycleAssumption, IInv, NEW t \in Thread,
         NEW p \in PC, NEW s \in Sock \cup {None}, NEW r \in {Home(t)} \cup Then, NEW c \in BOOLEAN,
         at' = [at EXCEPT ![t] = Frame(p, s, r, c)],
         UNCHANGED <<fd, deleted, fds, trash, freed, file>>, index' \in 1 .. NFd + 1,
         p # "add", p \in Acting => s # None,
         s # None => /\ fd[s] # None /\ s \notin freed
                     /\ \A u \in Thread \ {t} : at[u].pc = "add" => at[u].sock # s,
         c \/ p = "close" => /\ c /\ at[t].closing /\ s = at[t].sock
                             /\ p \in {"disconnect", "remove", "callback", "close"},
         t = "main" => p # "run" /\ (r = "run" => p \in {"next", "closed"}),
         t = "main" \/ UNCHANGED index,
         Running /\ t # "main" /\ (c \/ p \in {"callback", "delete", "close"}) => fds[fd[s]] # s
  PROVE  IInv'
<1>1. Frame(p, s, r, c) \in Frames
  <2>1. Home(t) \in Homes
    BY DEF Home, Thread, Homes
  <2>2. QED BY <2>1 DEF Frame, Frames
<1>2. /\ at' \in [Thread -> Frames] /\ at'[t] = Frame(p, s, r, c)
      /\ \A u \in Thread \ {t} : at'[u] = at[u]
  BY <1>1 DEF IInv, Typed
<1>3. at'[t].pc = p /\ at'[t].sock = s /\ at'[t].ret = r /\ at'[t].closing = c
  BY <1>2 DEF Frame
<1>4. Running' => Running
  BY <1>2, <1>3 DEF Running, AtHome, Home, Thread, IInv, Typed
<1>5. Typed'
  BY <1>2, <1>3 DEF IInv, Typed
<1>6. Files'
  BY DEF IInv, Files
<1>7. Held'
  BY <1>2, <1>3 DEF IInv, Held
<1>8. Closer'
  BY <1>2, <1>3 DEF IInv, Closer
<1>9. Adding'
  BY <1>2, <1>3 DEF IInv, Adding, Typed, Acting
<1>10. Leaving' /\ TableIsLive'
  <2>1. CASE t = "main"
    <3>1. ~Running'
      BY <1>3, <2>1 DEF Running, AtHome, Home
    <3>2. QED BY <3>1 DEF Leaving, TableIsLive
  <2>2. CASE t # "main"
    BY <1>2, <1>3, <1>4, <2>2 DEF IInv, Leaving, TableIsLive
  <2>3. QED BY <2>1, <2>2
<1>11. QED BY <1>5, <1>6, <1>7, <1>8, <1>9, <1>10 DEF IInv

\* The frame of a step within a call, and of its end.
LEMMA StepFrame ==
  ASSUME Typed, NEW t \in Thread, NEW p, Step(t, p)
  PROVE  at' = [at EXCEPT ![t] = Frame(p, at[t].sock, at[t].ret, at[t].closing)]
<1>1. at[t] \in Frames
  BY DEF Typed
<1>2. [at[t] EXCEPT !.pc = p] = Frame(p, at[t].sock, at[t].ret, at[t].closing)
  BY <1>1 DEF Frames, Frame
<1>3. QED BY <1>2 DEF Step, Goto

LEMMA FrameFacts ==
  ASSUME IInv, NEW t \in Thread
  PROVE  /\ at[t].pc \in PC /\ at[t].sock \in Sock \cup {None} /\ at[t].closing \in BOOLEAN
         /\ at[t].ret \in {Home(t)} \cup Then
         /\ at[t].pc \in Acting => at[t].sock \in Sock /\ fd[at[t].sock] \in Fd
         /\ at[t].sock # None =>
              /\ at[t].sock \in Sock /\ fd[at[t].sock] # None /\ at[t].sock \notin freed
              /\ \A u \in Thread \ {t} : at[u].pc = "add" => at[u].sock # at[t].sock
         /\ at[t].closing => /\ at[t].sock \in deleted \ (trash \cup freed)
                             /\ at[t].pc \in {"disconnect", "remove", "callback", "close"}
         /\ t = "main" /\ at[t].pc \in Acting => at[t].ret # "run"
<1>1. at[t] \in Frames
  BY DEF IInv, Typed
<1>2. /\ at[t].pc \in PC /\ at[t].sock \in Sock \cup {None} /\ at[t].closing \in BOOLEAN
      /\ at[t].ret \in {Home(t)} \cup Then
  BY <1>1 DEF IInv, Typed, Frames
<1>3. at[t].sock # None => /\ at[t].sock \in Sock /\ fd[at[t].sock] # None
                           /\ at[t].sock \notin freed
  BY <1>2 DEF IInv, Held
<1>4. at[t].pc \in Acting => at[t].sock \in Sock /\ fd[at[t].sock] \in Fd
  BY <1>2, <1>3 DEF IInv, Typed
<1>5. \A u \in Thread \ {t} : at[u].pc = "add" => at[u].sock # at[t].sock
  BY DEF IInv, Adding
<1>6. at[t].closing => /\ at[t].sock \in deleted \ (trash \cup freed)
                       /\ at[t].pc \in {"disconnect", "remove", "callback", "close"}
  BY DEF IInv, Closer
<1>7. t = "main" /\ at[t].pc \in Acting => at[t].ret # "run"
  BY DEF IInv, Typed, Acting
<1>8. QED BY <1>2, <1>3, <1>4, <1>5, <1>6, <1>7

LEMMA HomeFacts ==
  ASSUME NEW t \in Thread
  PROVE  /\ Home(t) \in PC /\ Home(t) \notin Acting /\ Home(t) # "add"
         /\ Home(t) = "run" <=> t = "main"
         /\ Home(t) # "close"
BY DEF Home, Thread, PC, Homes, Acting

\* Nothing changes but what the kernel reports.
LEMMA KernelKeeps ==
  ASSUME IInv, UNCHANGED <<fd, deleted, fds, trash, freed, file, at, index>>
  PROVE  IInv'
BY DEF IInv, Typed, Files, Held, Closer, Adding, Leaving, TableIsLive, Running, AtHome

LEMMA RestKeeps ==
  ASSUME LifecycleAssumption, IInv, NEW t \in Thread, t # "main", Rest(t),
         UNCHANGED <<fd, deleted, fds, trash, freed, file, index>>
  PROVE  IInv'
<1>1. at' = [at EXCEPT ![t] = Frame(Home(t), None, Home(t), FALSE)]
  BY DEF Rest, Resting, Goto
<1>2. index' \in 1 .. NFd + 1
  BY DEF IInv, Typed
<1>3. Home(t) \notin {"add", "close", "callback", "delete"} /\ Home(t) \notin Acting
  BY DEF Home, Thread, Acting
<1>4. QED BY <1>1, <1>2, <1>3, HomeFacts, MoveKeeps

\* A thread looks a socket up in its slot.
LEMMA LookUpKeeps ==
  ASSUME LifecycleAssumption, IInv, NEW t \in Thread, t # "main", NEW f \in Fd, fds[f] # None,
         NEW p \in {"disconnect", "read", "write", "post"}, Do(t, p, fds[f], Home(t)),
         UNCHANGED <<fd, deleted, fds, trash, freed, file, index>>
  PROVE  IInv'
<1>1. at' = [at EXCEPT ![t] = Frame(p, fds[f], Home(t), FALSE)]
  BY DEF Do, Goto
<1>2. index' \in 1 .. NFd + 1 /\ fds[f] \in Sock
  BY DEF IInv, Typed
<1>3. /\ fd[fds[f]] # None /\ fds[f] \notin freed
      /\ \A u \in Thread \ {t} : at[u].pc = "add" => at[u].sock # fds[f]
  BY <1>2 DEF IInv, Held, Adding, LifecycleAssumption
<1>4. p \in PC
  BY DEF PC, Acting
<1>5. QED BY <1>1, <1>2, <1>3, <1>4, MoveKeeps

\* Disconnect or Delete returns.
LEMMA ReturnKeeps ==
  ASSUME LifecycleAssumption, IInv, NEW t \in Thread, Return(t),
         at[t].pc \in {"disconnect", "callback", "delete"},
         UNCHANGED <<fd, deleted, fds, trash, freed, file, index>>
  PROVE  IInv'
<1>1. at[t].pc \in Acting /\ index' \in 1 .. NFd + 1
  BY DEF Acting, IInv, Typed
<1>2. CASE at[t].closing
  <2>1. at' = [at EXCEPT ![t] = Frame("close", at[t].sock, at[t].ret, TRUE)]
    BY <1>2, StepFrame, FrameFacts DEF Return, IInv
  <2>2. Running => fds[fd[at[t].sock]] # at[t].sock
    BY <1>2 DEF IInv, Leaving
  <2>3. "close" \in PC
    BY DEF PC, Acting
  <2>4. t = "main" => at[t].ret # "run"
    BY <1>1, FrameFacts
  <2>5. at[t].sock # None
    BY <1>1 DEF IInv, Typed
  <2>6. QED BY <1>1, <1>2, <2>1, <2>2, <2>3, <2>4, <2>5, FrameFacts, MoveKeeps
<1>3. CASE ~at[t].closing /\ at[t].ret = Home(t)
  <2>1. t # "main" /\ Rest(t)
    BY <1>1, <1>3, FrameFacts DEF Return, Home
  <2>2. QED BY <2>1, RestKeeps
<1>4. CASE ~at[t].closing /\ at[t].ret # Home(t)
  <2>1. at' = [at EXCEPT ![t] = Frame(at[t].ret, at[t].sock, at[t].ret, FALSE)]
    BY <1>4, StepFrame, FrameFacts DEF Return, IInv
  <2>2. at[t].ret \in Then
    BY <1>4, FrameFacts
  <2>3. at[t].ret \in PC /\ at[t].ret \notin {"add", "close", "run", "callback", "delete"}
    BY <2>2 DEF Then, PC, Acting
  <2>4. at[t].sock # None
    BY <1>1 DEF IInv, Typed
  <2>5. QED BY <1>1, <1>4, <2>1, <2>2, <2>3, <2>4, FrameFacts, MoveKeeps
<1>5. QED BY <1>2, <1>3, <1>4

\* A call goes on, with no promise about the table.
LEMMA StepTo ==
  ASSUME LifecycleAssumption, IInv, NEW t \in Thread, at[t].pc \in Acting,
         NEW p \in {"remove", "posted", "drained"}, Step(t, p), at[t].closing => p = "remove",
         UNCHANGED <<fd, deleted, fds, trash, freed, file, index>>
  PROVE  IInv'
<1>1. at' = [at EXCEPT ![t] = Frame(p, at[t].sock, at[t].ret, at[t].closing)]
  BY StepFrame DEF IInv
<1>2. p \in PC /\ p \notin {"add", "run", "close", "callback", "delete"}
  BY DEF PC, Acting
<1>3. index' \in 1 .. NFd + 1 /\ at[t].sock # None
  BY DEF IInv, Typed
<1>4. at[t].closing => (Running => fds[fd[at[t].sock]] # at[t].sock)
  BY DEF IInv, Leaving
<1>5. QED BY <1>1, <1>2, <1>3, <1>4, FrameFacts, MoveKeeps

\* The worker disconnects the socket it is reading from or writing to.
LEMMA CallKeeps ==
  ASSUME LifecycleAssumption, IInv, NEW t \in Thread, t # "main", at[t].pc \in Acting,
         NEW r \in Then, Do(t, "disconnect", at[t].sock, r),
         UNCHANGED <<fd, deleted, fds, trash, freed, file, index>>
  PROVE  IInv'
<1>1. at' = [at EXCEPT ![t] = Frame("disconnect", at[t].sock, r, FALSE)]
  BY DEF Do, Goto
<1>2. "disconnect" \in PC
  BY DEF PC, Acting
<1>3. index' \in 1 .. NFd + 1 /\ at[t].sock # None
  BY DEF IInv, Typed
<1>4. /\ at[t].sock \in Sock \cup {None} /\ fd[at[t].sock] # None /\ at[t].sock \notin freed
      /\ \A u \in Thread \ {t} : at[u].pc = "add" => at[u].sock # at[t].sock
  BY <1>3, FrameFacts
<1>5. QED BY <1>1, <1>2, <1>3, <1>4, MoveKeeps

-----------------------------------------------------------------------------
(* Steps that leave the descriptors, the table and the garbage alone *)

LEMMA WorkerKeeps == ASSUME LifecycleAssumption, IInv, Worker PROVE IInv'
<1> "worker" \in Thread /\ "worker" # "main" /\ Home("worker") = "loop"
  BY DEF Thread, Home
<1> DEFINE s == at["worker"].sock
<1>1. CASE EpollWait
  BY <1>1, KernelKeeps DEF EpollWait, socket
<1>2. CASE AcceptNothing
  BY <1>2, KernelKeeps DEF AcceptNothing, socket, kernel
<1>3. ASSUME NEW e \in Event, Handle(e) PROVE IInv'
  <2>1. e.fd \in Fd
    BY <1>3 DEF Handle, Event, Listen
  <2>2. UNCHANGED <<fd, deleted, fds, trash, freed, file, index>>
    BY <1>3 DEF Handle, socket, kernel
  <2>3. CASE fds[e.fd] = None
    <3>1. UNCHANGED at
      BY <1>3, <2>3 DEF Handle
    <3>2. QED BY <2>2, <3>1, KernelKeeps
  <2>4. CASE fds[e.fd] # None
    <3>1. e.ev \in {"in", "out", "hup"}
      BY <1>3 DEF Event, Handle, Listen
    <3>2. PICK p \in {"disconnect", "read", "write"} : Do("worker", p, fds[e.fd], "loop")
      BY <1>3, <2>4, <3>1 DEF Handle
    <3>3. QED BY <2>1, <2>2, <2>4, <3>2, LookUpKeeps
  <2>5. QED BY <2>3, <2>4
<1>4. CASE ReadCallback
  <2>1. /\ at["worker"].pc = "read" /\ ~at["worker"].closing
        /\ UNCHANGED <<fd, deleted, fds, trash, freed, file, index>>
    BY <1>4, FrameFacts DEF ReadCallback, In, socket
  <2>2. CASE Step("worker", "posted")
    BY <2>1, <2>2, StepTo DEF Acting
  <2>3. CASE Do("worker", "disconnect", s, "posted")
    BY <2>1, <2>3, CallKeeps DEF Acting, Then
  <2>4. QED BY <1>4, <2>2, <2>3 DEF ReadCallback
<1>5. CASE AfterRead
  BY <1>5, RestKeeps DEF AfterRead, socket
<1>6. CASE WriteCallback
  <2>1. /\ at["worker"].pc = "write" /\ ~at["worker"].closing
        /\ UNCHANGED <<fd, deleted, fds, trash, freed, file, index>>
    BY <1>6, FrameFacts DEF WriteCallback, In, socket, kernel
  <2>2. CASE Step("worker", "drained")
    BY <2>1, <2>2, StepTo DEF Acting
  <2>3. CASE Do("worker", "disconnect", s, "drained")
    BY <2>1, <2>3, CallKeeps DEF Acting, Then
  <2>4. QED BY <1>6, <2>2, <2>3 DEF WriteCallback
<1>7. CASE AfterWrite
  BY <1>7, RestKeeps DEF AfterWrite, socket
<1>8. QED BY <1>1, <1>2, <1>3, <1>4, <1>5, <1>6, <1>7 DEF Worker

LEMMA PeersKeep ==
  ASSUME LifecycleAssumption, IInv, NEW s \in Sock, PeerSends(s) \/ PeerCloses(s) \/ PeerResets(s)
  PROVE  IInv'
BY KernelKeeps DEF PeerSends, PeerCloses, PeerResets, socket

LEMMA GameKeeps ==
  ASSUME LifecycleAssumption, IInv, NEW s \in Sock, SendBegin(s) \/ Kick(s) \/ BurstPush
  PROVE  IInv'
<1> "game" \in Thread /\ "game" # "main" /\ Home("game") = "idle"
  BY DEF Thread, Home
<1>1. CASE SendBegin(s) \/ Kick(s)
  <2>1. PICK f \in Fd : fds[f] = s
    BY <1>1 DEF SendBegin, Kick, Known
  <2>2. PICK p \in {"post", "disconnect"} : Do("game", p, fds[f], "idle")
    BY <1>1, <2>1 DEF SendBegin, Kick
  <2>3. UNCHANGED <<fd, deleted, fds, trash, freed, file, index>>
    BY <1>1 DEF SendBegin, Kick, socket, kernel
  <2>4. s # None
    BY DEF LifecycleAssumption
  <2>5. QED BY <2>1, <2>2, <2>3, <2>4, LookUpKeeps
<1>2. CASE BurstPush
  BY <1>2, RestKeeps DEF BurstPush, socket
<1>3. QED BY <1>1, <1>2

\* CloseAll looks at the next slot, or has seen them all.
LEMMA CloseAllKeeps == ASSUME LifecycleAssumption, IInv, CloseAll PROVE IInv'
<1> "main" \in Thread /\ Home("main") = "run"
  BY DEF Thread, Home
<1>1. /\ UNCHANGED <<fd, deleted, fds, trash, freed, file>>
      /\ at["main"].pc \in {"run", "next"} /\ ~at["main"].closing
  BY FrameFacts DEF CloseAll, socket, kernel, AtHome, In
<1>2. "main" = "main" /\ "delete" \in PC /\ "next" \in PC /\ "closed" \in PC
  BY DEF PC, Acting
<1>3. ASSUME NEW p \in {"next", "closed"}, Step("main", p), index' \in 1 .. NFd + 1
      PROVE  IInv'
  <2>1. at' = [at EXCEPT !["main"] = Frame(p, at["main"].sock, at["main"].ret, FALSE)]
    BY <1>1, <1>3, StepFrame, FrameFacts DEF IInv
  <2>2. p \in PC /\ p \notin Acting /\ p \notin {"add", "run", "close", "callback", "delete"}
    BY <1>2, <1>3 DEF Acting
  <2>3. /\ at["main"].sock \in Sock \cup {None} /\ at["main"].ret \in {Home("main")} \cup Then
        /\ at["main"].sock # None =>
             /\ fd[at["main"].sock] # None /\ at["main"].sock \notin freed
             /\ \A u \in Thread \ {"main"} : at[u].pc = "add" => at[u].sock # at["main"].sock
    BY FrameFacts
  <2>4. QED BY <1>1, <1>3, <2>1, <2>2, <2>3, MoveKeeps
<1>4. CASE index > NFd
  BY <1>3, <1>4 DEF CloseAll, IInv, Typed
<1>5. CASE ~(index > NFd)
  <2>1. index \in Fd /\ index' \in 1 .. NFd + 1
    BY <1>5 DEF CloseAll, NextSlot, IInv, Typed, Fd, LifecycleAssumption
  <2>2. CASE fds[index] = None
    BY <1>3, <1>5, <2>1, <2>2 DEF CloseAll
  <2>3. CASE fds[index] # None
    <3>1. at' = [at EXCEPT !["main"] = Frame("delete", fds[index], "next", FALSE)]
      BY <1>5, <2>3 DEF CloseAll, Do, Goto
    <3>2. /\ fds[index] \in Sock /\ fd[fds[index]] # None /\ fds[index] \notin freed
          /\ \A u \in Thread \ {"main"} : at[u].pc = "add" => at[u].sock # fds[index]
      BY <2>1, <2>3 DEF IInv, Typed, Held, Adding, LifecycleAssumption
    <3>3. "next" \in {Home("main")} \cup Then
      BY DEF Then
    <3>4. QED BY <1>1, <1>2, <2>1, <2>3, <3>1, <3>2, <3>3, MoveKeeps
  <2>4. QED BY <2>2, <2>3
<1>6. QED BY <1>4, <1>5

-----------------------------------------------------------------------------
(* Opening *)

LEMMA BornKeeps ==
  ASSUME LifecycleAssumption, IInv, NEW t \in Thread, t # "main", NEW s \in Sock, NEW f \in Fd,
         Running, Born(s, f), NEW p \in {"add", "delete"}, Do(t, p, s, Home(t)),
         UNCHANGED <<deleted, fds, trash, freed, index>>
  PROVE  IInv'
<1>1. /\ fd[s] = None /\ file[f] = None /\ s # None /\ f # None
      /\ fd \in [Sock -> Fd \cup {None}] /\ file \in [Fd -> Sock \cup {None}]
      /\ fd' = [fd EXCEPT ![s] = f] /\ file' = [file EXCEPT ![f] = s]
  BY DEF Born, Unborn, FreeFd, LifecycleAssumption, IInv, Typed
<1>2. /\ fd'[s] = f /\ file'[f] = s
      /\ \A r \in Sock \ {s} : fd'[r] = fd[r]
      /\ \A g \in Fd \ {f} : file'[g] = file[g]
  BY <1>1
<1>3. Frame(p, s, Home(t), FALSE) \in Frames
  BY DEF Frame, Frames, PC, Acting, Home, Thread, Homes
<1>4. /\ at' = [at EXCEPT ![t] = Frame(p, s, Home(t), FALSE)]
      /\ at' \in [Thread -> Frames] /\ \A u \in Thread \ {t} : at'[u] = at[u]
      /\ at'[t].pc = p /\ at'[t].sock = s /\ at'[t].ret = Home(t) /\ at'[t].closing = FALSE
  BY <1>3 DEF Do, Goto, IInv, Typed, Frame
<1>5. /\ s \notin deleted /\ s \notin trash \cup freed
      /\ \A g \in Fd : fds[g] # s /\ file[g] # s
      /\ \A u \in Thread : at[u].sock # s
  <2>1. s \notin deleted /\ s \notin trash \cup freed
    BY <1>1 DEF IInv, Files
  <2>2. \A g \in Fd : g # None
    BY DEF LifecycleAssumption
  <2>3. \A g \in Fd : fds[g] # s /\ file[g] # s
    BY <1>1, <2>2 DEF IInv, Files, Held
  <2>4. ASSUME NEW u \in Thread PROVE at[u].sock # s
    BY <1>1 DEF IInv, Held
  <2>5. QED BY <2>1, <2>3, <2>4
<1>6. Typed'
  <2>1. /\ fd' \in [Sock -> Fd \cup {None}] /\ fds' \in [Fd -> Sock \cup {None}]
        /\ file' \in [Fd -> Sock \cup {None}]
        /\ deleted' \subseteq Sock /\ trash' \subseteq Sock /\ freed' \subseteq Sock
        /\ index' \in 1 .. NFd + 1
    BY <1>1 DEF IInv, Typed
  <2>2. \A u \in Thread : /\ at'[u].pc \in Acting => at'[u].sock # None
                          /\ at'[u].ret \in {Home(u)} \cup Then
    BY <1>1, <1>4 DEF IInv, Typed
  <2>3. at'["main"] = at["main"]
    BY <1>4 DEF Thread
  <2>4. QED BY <1>4, <2>1, <2>2, <2>3 DEF IInv, Typed
<1>7. Files'
  <2>1. \A r \in Sock : fd'[r] # None /\ r \notin trash \cup freed => file'[fd'[r]] = r
    BY <1>1, <1>2 DEF IInv, Files
  <2>2. \A g \in Fd : file'[g] # None => fd'[file'[g]] = g /\ file'[g] \notin trash \cup freed
    BY <1>1, <1>2, <1>5 DEF IInv, Files
  <2>3. \A r \in deleted : fd'[r] # None
    BY <1>1, <1>2 DEF IInv, Files, Typed
  <2>4. QED BY <2>1, <2>2, <2>3 DEF Files, IInv
<1>8. Held'
  <2>1. \A g \in Fd : fds[g] # None => fds[g] \in Sock \ {s}
    BY <1>5 DEF IInv, Typed
  <2>2. \A u \in Thread : at[u].sock # None => at[u].sock \in Sock \ {s}
    BY <1>5, FrameFacts
  <2>3. \A g \in Fd : fds[g] # None => fd'[fds[g]] = g /\ fds[g] \notin freed
    BY <1>2, <2>1 DEF IInv, Held
  <2>4. \A u \in Thread \ {t} : at'[u].sock # None => fd'[at'[u].sock] # None
                                                 /\ at'[u].sock \notin freed
    BY <1>2, <1>4, <2>2 DEF IInv, Held
  <2>5. fd'[at'[t].sock] # None /\ at'[t].sock \notin freed
    BY <1>1, <1>2, <1>4, <1>5
  <2>6. QED BY <2>3, <2>4, <2>5 DEF IInv, Held
<1>9. Closer'
  BY <1>4 DEF IInv, Closer
<1>10. Adding'
  BY <1>4, <1>5, ZenonT(30) DEF IInv, Adding
<1>11. Leaving'
  <2>1. \A u \in Thread \ {t} : at[u].closing \/ at[u].pc \in {"callback", "delete", "close"} =>
          at[u].sock \in Sock \ {s}
    BY <1>5, FrameFacts DEF Acting, IInv, Files, Typed
  <2>2. ASSUME NEW u \in Thread \ {t},
               at'[u].closing \/ at'[u].pc \in {"callback", "delete", "close"}
        PROVE  fds[fd'[at'[u].sock]] # at'[u].sock
    BY <1>2, <1>4, <2>1, <2>2 DEF IInv, Leaving
  <2>3. fds[fd'[at'[t].sock]] # at'[t].sock
    BY <1>2, <1>4, <1>5
  <2>4. UNCHANGED fds
    OBVIOUS
  <2>5. QED BY <2>2, <2>3, <2>4 DEF Leaving
<1>12. TableIsLive'
  <2>1. \A g \in Fd : fds[g] # None => fds[g] \in Sock \ {s} /\ g # f
    BY <1>1, <1>5 DEF IInv, Typed, TableIsLive
  <2>2. QED BY <1>2, <2>1 DEF IInv, TableIsLive
<1>13. QED BY <1>6, <1>7, <1>8, <1>9, <1>10, <1>11, <1>12 DEF IInv
LEMMA OpeningKeeps ==
  ASSUME LifecycleAssumption, IInv, NEW s \in Sock, NEW f \in Fd, Accept(s, f) \/ Connect(s, f)
  PROVE  IInv'
<1> /\ "worker" \in Thread /\ "worker" # "main" /\ Home("worker") = "loop"
    /\ "game" \in Thread /\ "game" # "main" /\ Home("game") = "idle"
  BY DEF Thread, Home
<1>1. CASE Accept(s, f)
  BY <1>1, BornKeeps DEF Accept, Running
<1>2. CASE Connect(s, f)
  <2>1. PICK p \in {"add", "delete"} : Do("game", p, s, "idle")
    BY <1>2 DEF Connect
  <2>2. QED BY <1>2, <2>1, BornKeeps DEF Connect, Running
<1>3. QED BY <1>1, <1>2

LEMMA AddKeeps ==
  ASSUME LifecycleAssumption, IInv, NEW t \in Thread, AddSocket(t)
  PROVE  IInv'
<1> DEFINE s == at[t].sock
<1>1. /\ at[t].pc = "add" /\ at[t].pc \in Acting /\ t # "main" /\ ~at[t].closing
      /\ s \in Sock /\ fd[s] \in Fd /\ s # None /\ s \notin freed
      /\ UNCHANGED <<fd, deleted, trash, freed, file, index>>
  <2>1. at[t].pc = "add" /\ UNCHANGED <<fd, deleted, trash, freed, file, index>>
    BY DEF AddSocket, In, socket
  <2>2. at[t].pc \in Acting /\ t # "main"
    BY <2>1 DEF Acting, IInv, Typed
  <2>3. s # None
    BY <2>2 DEF IInv, Typed
  <2>4. QED BY <2>1, <2>2, <2>3, FrameFacts
<1>2. /\ s \notin deleted /\ \A f \in Fd : fds[f] # s
      /\ \A u \in Thread \ {t} : at[u].sock # s
  BY <1>1 DEF IInv, Adding
<1>3. CASE fds[fd[s]] # None
  <2>1. UNCHANGED fds /\ at' = [at EXCEPT ![t] = Frame("delete", s, at[t].ret, FALSE)]
    BY <1>1, <1>3, StepFrame, FrameFacts DEF AddSocket, IInv
  <2>2. "delete" \in PC /\ index' \in 1 .. NFd + 1 /\ at[t].ret \in {Home(t)} \cup Then
    BY <1>1, FrameFacts DEF PC, Acting, IInv, Typed
  <2>3. fds[fd[s]] # s
    BY <1>1, <1>2
  <2>4. \A u \in Thread \ {t} : at[u].pc = "add" => at[u].sock # s
    BY <1>2
  <2>5. QED BY <1>1, <2>1, <2>2, <2>3, <2>4, MoveKeeps
<1>4. CASE fds[fd[s]] = None
  <2>1. Rest(t) /\ fds' = [fds EXCEPT ![fd[s]] = s]
    BY <1>4 DEF AddSocket
  <2> DEFINE f == fd[s]
  <2>2. /\ fds' \in [Fd -> Sock \cup {None}] /\ fds'[f] = s
        /\ \A g \in Fd \ {f} : fds'[g] = fds[g]
    BY <1>1, <2>1 DEF IInv, Typed
  <2>3. Resting(t) \in Frames
    BY DEF Resting, Frame, Frames, PC, Home, Thread, Homes
  <2>4. /\ at' \in [Thread -> Frames] /\ \A u \in Thread \ {t} : at'[u] = at[u]
        /\ at'[t].pc = Home(t) /\ at'[t].sock = None /\ at'[t].ret = Home(t)
        /\ at'[t].closing = FALSE
    BY <2>1, <2>3 DEF Rest, Goto, IInv, Typed, Resting, Frame
  <2>5. Home(t) \notin Acting /\ Home(t) \notin {"add", "callback", "delete", "close"}
    BY DEF Home, Thread, Acting
  <2>6. Typed'
    <3>1. \A u \in Thread : /\ at'[u].pc \in Acting => at'[u].sock # None
                            /\ at'[u].ret \in {Home(u)} \cup Then
      BY <2>4, <2>5 DEF IInv, Typed
    <3>2. at'["main"] = at["main"]
      BY <1>1, <2>4 DEF Thread
    <3>3. QED BY <1>1, <2>2, <2>4, <3>1, <3>2 DEF IInv, Typed
  <2>7. Files'
    BY <1>1 DEF IInv, Files
  <2>8. Held'
    <3>1. \A g \in Fd : fds'[g] # None => fd[fds'[g]] = g /\ fds'[g] \notin freed
      BY <1>1, <2>2 DEF IInv, Held
    <3>2. \A u \in Thread : at'[u].sock # None => fd[at'[u].sock] # None /\ at'[u].sock \notin freed
      BY <2>4 DEF IInv, Held
    <3>3. QED BY <1>1, <3>1, <3>2 DEF Held
  <2>9. Closer'
    BY <1>1, <2>4, <2>5 DEF IInv, Closer
  <2>10. Adding'
    <3>1. ASSUME NEW u \in Thread \ {t}, at[u].pc = "add"
          PROVE  /\ at[u].sock \notin deleted /\ \A g \in Fd : fds'[g] # at[u].sock
                 /\ at[u].sock # None /\ \A v \in Thread \ {u} : at[v].sock # at[u].sock
      <4>1. at[u].sock # None
        BY <3>1 DEF IInv, Typed, Acting
      <4>2. QED BY <1>2, <2>2, <3>1, <4>1 DEF IInv, Adding
    <3>2. QED BY <1>1, <2>4, <2>5, <3>1 DEF Adding
  <2>11. Leaving'
    <3>1. Running' => Running
      BY <1>1, <2>4 DEF Running, AtHome, Thread
    <3>2. ASSUME Running, NEW u \in Thread \ {t},
                 at[u].closing \/ at[u].pc \in {"callback", "delete", "close"}
          PROVE  fds'[fd[at[u].sock]] # at[u].sock
      <4>1. at[u].sock # s /\ at[u].sock \in Sock /\ fd[at[u].sock] \in Fd
        <5>1. at[u].pc \in Acting
          BY <3>2, FrameFacts DEF Acting
        <5>2. QED BY <1>2, <5>1, FrameFacts
      <4>2. fds[fd[at[u].sock]] # at[u].sock
        BY <3>2 DEF IInv, Leaving
      <4>3. QED BY <2>2, <4>1, <4>2
    <3>3. QED BY <1>1, <2>4, <2>5, <3>1, <3>2 DEF Leaving
  <2>12. TableIsLive'
    <3>1. Running' => Running
      BY <1>1, <2>4 DEF Running, AtHome, Thread
    <3>2. file[f] = s
      <4>1. s \notin trash \cup freed
        BY <1>2 DEF IInv, Files
      <4>2. QED BY <1>1, <4>1 DEF IInv, Files
    <3>3. QED BY <1>1, <2>2, <3>1, <3>2 DEF IInv, TableIsLive
  <2>13. QED BY <2>6, <2>7, <2>8, <2>9, <2>10, <2>11, <2>12 DEF IInv
<1>5. QED BY <1>3, <1>4
-----------------------------------------------------------------------------
(* Disconnect, Delete and the garbage collector *)

LEMMA DisconnectKeeps ==
  ASSUME LifecycleAssumption, IInv, NEW t \in Thread, Disconnect(t) \/ OnDisconnect(t)
  PROVE  IInv'
<1> DEFINE s == at[t].sock
<1>1. /\ at[t].pc \in {"disconnect", "callback"} /\ at[t].pc \in Acting
      /\ UNCHANGED <<fd, deleted, fds, trash, freed, file, index>>
  BY DEF Disconnect, OnDisconnect, In, socket, kernel, Acting
<1>2. CASE Return(t)
  BY <1>1, <1>2, ReturnKeeps
<1>3. CASE Disconnect(t) /\ Step(t, "remove")
  BY <1>1, <1>3, StepTo
<1>4. CASE OnDisconnect(t) /\ s \notin deleted /\ Step(t, "delete")
  <2>1. at[t].pc = "callback" /\ ~at[t].closing
    BY <1>4, FrameFacts DEF OnDisconnect, In
  <2>2. at' = [at EXCEPT ![t] = Frame("delete", s, at[t].ret, FALSE)]
    BY <1>4, <2>1, StepFrame, FrameFacts DEF IInv
  <2>3. "delete" \in PC /\ index' \in 1 .. NFd + 1 /\ s # None
    BY <1>1 DEF PC, Acting, IInv, Typed
  <2>4. Running => fds[fd[s]] # s
    BY <2>1 DEF IInv, Leaving
  <2>5. t = "main" => at[t].ret # "run"
    BY <1>1, FrameFacts
  <2>6. QED BY <1>1, <2>2, <2>3, <2>4, <2>5, FrameFacts, MoveKeeps
<1>5. QED BY <1>2, <1>3, <1>4 DEF Disconnect, OnDisconnect, NeedsDelete

LEMMA RemoveKeeps ==
  ASSUME LifecycleAssumption, IInv, NEW t \in Thread, RemoveSocket(t)
  PROVE  IInv'
<1> DEFINE s == at[t].sock
           c == at[t].closing
<1>1. /\ at[t].pc = "remove" /\ at[t].pc \in Acting
      /\ UNCHANGED <<fd, deleted, trash, freed, file, index>>
      /\ s \in Sock /\ fd[s] \in Fd /\ s # None
  <2>1. at[t].pc = "remove" /\ UNCHANGED <<fd, deleted, trash, freed, file, index>>
    BY DEF RemoveSocket, In, socket
  <2>2. at[t].pc \in Acting
    BY <2>1 DEF Acting
  <2>3. QED BY <2>1, <2>2, FrameFacts DEF IInv, Typed
<1>2. /\ at' = [at EXCEPT ![t] = Frame("callback", s, at[t].ret, c)]
      /\ Frame("callback", s, at[t].ret, c) \in Frames
  <2>1. "callback" \in PC /\ Home(t) \in Homes
    BY DEF PC, Acting, Home, Homes, Thread
  <2>2. QED BY <2>1, StepFrame, FrameFacts DEF RemoveSocket, IInv, Frame, Frames
<1>3. /\ at' \in [Thread -> Frames] /\ \A u \in Thread \ {t} : at'[u] = at[u]
      /\ at'[t].pc = "callback" /\ at'[t].sock = s /\ at'[t].ret = at[t].ret
      /\ at'[t].closing = c
  BY <1>2 DEF IInv, Typed, Frame
<1>4. /\ fds' \in [Fd -> Sock \cup {None}] /\ fds'[fd[s]] # s
      /\ \A g \in Fd : fds'[g] = fds[g] \/ fds'[g] = None
  <2>1. CASE fds[fd[s]] = s
    BY <1>1, <2>1 DEF RemoveSocket, Emptied, IInv, Typed
  <2>2. CASE fds[fd[s]] # s
    BY <1>1, <2>2 DEF RemoveSocket, IInv, Typed
  <2>3. QED BY <2>1, <2>2
<1>5. Running' => Running
  BY <1>3 DEF Running, AtHome, Home, Thread
<1>6. Typed'
  <2>1. \A u \in Thread : /\ at'[u].pc \in Acting => at'[u].sock # None
                          /\ at'[u].ret \in {Home(u)} \cup Then
    BY <1>1, <1>3 DEF IInv, Typed
  <2>2. t = "main" => at[t].ret # "run"
    BY <1>1, FrameFacts
  <2>3. /\ at'["main"].ret = "run" => at'["main"].pc \in {"run", "next", "closed"}
        /\ at'["main"].pc = "run" => index = 1
        /\ at'["main"].pc # "add"
    <3>1. CASE t = "main"
      BY <1>3, <2>2, <3>1
    <3>2. CASE t # "main"
      BY <1>3, <3>2 DEF IInv, Typed, Thread
    <3>3. QED BY <3>1, <3>2
  <2>4. QED BY <1>1, <1>3, <1>4, <2>1, <2>3 DEF IInv, Typed
<1>7. Files'
  BY <1>1 DEF IInv, Files
<1>8. Held'
  <2>1. \A g \in Fd : fds'[g] # None => fd[fds'[g]] = g /\ fds'[g] \notin freed
    BY <1>4 DEF IInv, Held
  <2>2. \A u \in Thread : at'[u].sock # None => fd[at'[u].sock] # None /\ at'[u].sock \notin freed
    BY <1>3 DEF IInv, Held
  <2>3. QED BY <1>1, <2>1, <2>2 DEF Held
<1>9. Closer'
  BY <1>1, <1>3 DEF IInv, Closer
<1>10. Adding'
  <2>1. ASSUME NEW u \in Thread \ {t}, at[u].pc = "add"
        PROVE  /\ at[u].sock \notin deleted /\ \A g \in Fd : fds'[g] # at[u].sock
               /\ \A v \in Thread \ {u} : at[v].sock # at[u].sock
    <3>1. at[u].sock # None
      BY <2>1 DEF IInv, Typed, Acting
    <3>2. QED BY <1>4, <2>1, <3>1 DEF IInv, Adding
  <2>2. QED BY <1>1, <1>3, <2>1 DEF Adding
<1>11. Leaving'
  <2>1. ASSUME Running, NEW u \in Thread \ {t},
               at[u].closing \/ at[u].pc \in {"callback", "delete", "close"}
        PROVE  fds'[fd[at[u].sock]] # at[u].sock
    <3>1. at[u].sock # None /\ fd[at[u].sock] \in Fd
      <4>1. at[u].pc \in Acting
        BY <2>1, FrameFacts DEF Acting
      <4>2. QED BY <4>1, FrameFacts DEF IInv, Typed
    <3>2. fds[fd[at[u].sock]] # at[u].sock
      BY <2>1 DEF IInv, Leaving
    <3>3. QED BY <1>4, <3>1, <3>2
  <2>2. QED BY <1>1, <1>3, <1>4, <1>5, <2>1 DEF Leaving
<1>12. TableIsLive'
  BY <1>1, <1>4, <1>5 DEF IInv, TableIsLive
<1>13. QED BY <1>6, <1>7, <1>8, <1>9, <1>10, <1>11, <1>12 DEF IInv

LEMMA DeleteKeeps ==
  ASSUME LifecycleAssumption, IInv, NEW t \in Thread, Delete(t)
  PROVE  IInv'
<1> DEFINE s == at[t].sock
<1>1. /\ at[t].pc = "delete" /\ at[t].pc \in Acting
      /\ UNCHANGED <<fd, fds, trash, freed, file, index>> /\ deleted' = deleted \cup {s}
      /\ s \in Sock /\ fd[s] \in Fd /\ s # None
  <2>1. at[t].pc = "delete" /\ UNCHANGED <<fd, fds, trash, freed, file, index>>
        /\ deleted' = deleted \cup {s}
    BY DEF Delete, In, Marked, kernel
  <2>2. at[t].pc \in Acting
    BY <2>1 DEF Acting
  <2>3. QED BY <2>1, <2>2, FrameFacts DEF IInv, Typed
<1>2. CASE s \in deleted
  <2>1. deleted' = deleted /\ Return(t)
    BY <1>1, <1>2 DEF Delete
  <2>2. QED BY <1>1, <2>1, ReturnKeeps
<1>3. CASE s \notin deleted
  <2>1. PICK p \in {"disconnect", "close"} :
          Goto(t, [at[t] EXCEPT !.closing = TRUE, !.pc = p])
    BY <1>3 DEF Delete
  <2>2. /\ at[t] \in Frames /\ ~at[t].closing
    BY <1>1, FrameFacts DEF IInv, Typed
  <2>3. p \in PC
    BY DEF PC, Acting
  <2>4. /\ [at[t] EXCEPT !.closing = TRUE, !.pc = p] \in Frames
        /\ [at[t] EXCEPT !.closing = TRUE, !.pc = p].pc = p
        /\ [at[t] EXCEPT !.closing = TRUE, !.pc = p].closing = TRUE
        /\ [at[t] EXCEPT !.closing = TRUE, !.pc = p].sock = s
        /\ [at[t] EXCEPT !.closing = TRUE, !.pc = p].ret = at[t].ret
    BY <2>2, <2>3 DEF Frames
  <2>5. /\ at' \in [Thread -> Frames] /\ \A u \in Thread \ {t} : at'[u] = at[u]
        /\ at'[t].pc = p /\ at'[t].sock = s /\ at'[t].ret = at[t].ret
        /\ at'[t].closing = TRUE
    BY <2>1, <2>4 DEF Goto, IInv, Typed
  <2>6. Running' => Running
    BY <2>5 DEF Running, AtHome, Home, Thread
  <2>7. Typed'
    <3>1. \A u \in Thread : /\ at'[u].pc \in Acting => at'[u].sock # None
                            /\ at'[u].ret \in {Home(u)} \cup Then
      BY <1>1, <2>5 DEF IInv, Typed
    <3>2. t = "main" => at[t].ret # "run"
      BY <1>1, FrameFacts
    <3>3. p # "run" /\ p # "add"
      OBVIOUS
    <3>4. deleted' \subseteq Sock
      BY <1>1 DEF IInv, Typed
    <3>5. /\ at'["main"].ret = "run" => at'["main"].pc \in {"run", "next", "closed"}
          /\ at'["main"].pc = "run" => index = 1
          /\ at'["main"].pc # "add"
      <4>1. CASE t = "main"
        BY <2>5, <3>2, <3>3, <4>1
      <4>2. CASE t # "main"
        BY <2>5, <4>2 DEF IInv, Typed, Thread
      <4>3. QED BY <4>1, <4>2
    <3>6. QED BY <1>1, <2>5, <3>1, <3>4, <3>5 DEF IInv, Typed
  <2>8. Files'
    <3>1. fd[s] # None
      BY <1>1 DEF LifecycleAssumption
    <3>2. QED BY <1>1, <3>1 DEF IInv, Files
  <2>9. Held'
    BY <1>1, <2>5 DEF IInv, Held
  <2>10. Closer'
    <3>1. s \notin trash \cup freed
      BY <1>3 DEF IInv, Files
    <3>2. \A u \in Thread : at[u].closing => at[u].sock # s
      BY <1>3 DEF IInv, Closer
    <3>3. QED BY <1>1, <2>5, <3>1, <3>2 DEF IInv, Closer
  <2>11. Adding'
    BY <1>1, <2>5 DEF IInv, Adding
  <2>12. Leaving'
    <3>1. Running => fds[fd[s]] # s
      BY <1>1 DEF IInv, Leaving
    <3>2. QED BY <1>1, <2>5, <2>6, <3>1 DEF IInv, Leaving
  <2>13. TableIsLive'
    BY <1>1, <2>6 DEF IInv, TableIsLive
  <2>14. QED BY <2>7, <2>8, <2>9, <2>10, <2>11, <2>12, <2>13 DEF IInv
<1>4. QED BY <1>2, <1>3
LEMMA CloseKeeps ==
  ASSUME LifecycleAssumption, IInv, NEW t \in Thread, CloseSocket(t)
  PROVE  IInv'
<1> DEFINE s == at[t].sock
           f == fd[s]
<1>1. /\ at[t].pc = "close" /\ at[t].pc \in Acting
      /\ UNCHANGED <<fd, deleted, fds, freed, index>> /\ trash' = trash \cup {s}
      /\ s \in Sock /\ f \in Fd /\ s # None /\ f # None
      /\ at[t].closing /\ s \in deleted \ (trash \cup freed)
  <2>1. at[t].pc = "close" /\ UNCHANGED <<fd, deleted, fds, freed, index>>
        /\ trash' = trash \cup {s}
    BY DEF CloseSocket, In, socket
  <2>2. at[t].pc \in Acting
    BY <2>1 DEF Acting
  <2>3. at[t].closing /\ s \in deleted \ (trash \cup freed)
    BY <2>1 DEF IInv, Closer
  <2>4. \A g \in Fd : g # None
    BY DEF LifecycleAssumption
  <2>5. s # None
    BY <2>2 DEF IInv, Typed
  <2>6. QED BY <2>1, <2>2, <2>3, <2>4, <2>5, FrameFacts
<1>2. file[f] = s
  BY <1>1 DEF IInv, Files
<1>3. /\ file' \in [Fd -> Sock \cup {None}] /\ file'[f] = None
      /\ \A g \in Fd \ {f} : file'[g] = file[g]
  BY <1>1 DEF CloseSocket, IInv, Typed
<1>4. \A g \in Fd : file'[g] # s
  BY <1>1, <1>3 DEF IInv, Files
<1>5. PICK p \in {Home(t)} \cup Then, r \in {Home(t)} \cup Then, o \in {s, None} :
        /\ at' \in [Thread -> Frames] /\ \A u \in Thread \ {t} : at'[u] = at[u]
        /\ at'[t].pc = p /\ at'[t].sock = o /\ at'[t].ret = r /\ at'[t].closing = FALSE
        /\ t = "main" => p \in Then /\ r \in Then
  <2>1. CASE at[t].ret = Home(t)
    <3>1. at' = [at EXCEPT ![t] = Resting(t)]
      BY <2>1 DEF CloseSocket, Rest, Goto
    <3>2. Resting(t) \in Frames
      BY DEF Resting, Frame, Frames, PC, Home, Thread, Homes
    <3>3. /\ at' \in [Thread -> Frames] /\ \A u \in Thread \ {t} : at'[u] = at[u]
          /\ at'[t].pc = Home(t) /\ at'[t].sock = None /\ at'[t].ret = Home(t)
          /\ at'[t].closing = FALSE
      BY <3>1, <3>2 DEF IInv, Typed, Resting, Frame
    <3>4. t # "main"
      BY <1>1, <2>1, FrameFacts DEF Home
    <3>5. QED BY <3>3, <3>4
  <2>2. CASE at[t].ret # Home(t)
    <3>1. at' = [at EXCEPT ![t] = [at[t] EXCEPT !.pc = at[t].ret, !.closing = FALSE]]
      BY <2>2 DEF CloseSocket, Goto
    <3>2. at[t].ret \in Then /\ at[t].ret \in PC /\ at[t] \in Frames
      BY <2>2, FrameFacts DEF Then, PC, Acting, IInv, Typed
    <3>3. /\ [at[t] EXCEPT !.pc = at[t].ret, !.closing = FALSE] \in Frames
          /\ [at[t] EXCEPT !.pc = at[t].ret, !.closing = FALSE].pc = at[t].ret
          /\ [at[t] EXCEPT !.pc = at[t].ret, !.closing = FALSE].closing = FALSE
          /\ [at[t] EXCEPT !.pc = at[t].ret, !.closing = FALSE].sock = s
          /\ [at[t] EXCEPT !.pc = at[t].ret, !.closing = FALSE].ret = at[t].ret
      BY <3>2 DEF Frames
    <3>4. /\ at' \in [Thread -> Frames] /\ \A u \in Thread \ {t} : at'[u] = at[u]
          /\ at'[t].pc = at[t].ret /\ at'[t].sock = s /\ at'[t].ret = at[t].ret
          /\ at'[t].closing = FALSE
      BY <3>1, <3>3 DEF IInv, Typed
    <3>5. QED BY <3>2, <3>4
  <2>3. QED BY <2>1, <2>2
<1>6. /\ p \notin {"add", "callback", "delete", "close", "disconnect", "remove", "read"}
      /\ p \in {"posted", "drained"} => p \in Then
      /\ t = "main" => p # "run" /\ r # "run" /\ p # "add"
      /\ p \in Acting => p \in Then
  BY <1>5 DEF Then, Home, Thread, Acting
<1>7. Running' => Running
  BY <1>5, <1>6 DEF Running, AtHome, Home, Thread
<1>8. p \in Acting => o # None
  <2>1. CASE at[t].ret = Home(t)
    <3>1. at'[t].pc = Home(t)
      <4>1. at' = [at EXCEPT ![t] = Resting(t)]
        BY <2>1 DEF CloseSocket, Rest, Goto
      <4>2. QED BY <4>1 DEF IInv, Typed, Resting, Frame
    <3>2. QED BY <1>5, <3>1, HomeFacts
  <2>2. CASE at[t].ret # Home(t)
    <3>1. at' = [at EXCEPT ![t] = [at[t] EXCEPT !.pc = at[t].ret, !.closing = FALSE]]
      BY <2>2 DEF CloseSocket, Goto
    <3>2. at[t] \in Frames
      BY DEF IInv, Typed
    <3>3. [at[t] EXCEPT !.pc = at[t].ret, !.closing = FALSE].sock = s
      BY <3>2 DEF Frames
    <3>4. at'[t].sock = s
      BY <3>1, <3>3 DEF IInv, Typed
    <3>5. QED BY <1>1, <1>5, <3>4
  <2>3. QED BY <2>1, <2>2
<1>9. Typed'
  <2>1. \A u \in Thread : /\ at'[u].pc \in Acting => at'[u].sock # None
                          /\ at'[u].ret \in {Home(u)} \cup Then
    BY <1>5, <1>8 DEF IInv, Typed
  <2>2. /\ at'["main"].ret = "run" => at'["main"].pc \in {"run", "next", "closed"}
        /\ at'["main"].pc = "run" => index = 1
        /\ at'["main"].pc # "add"
    <3>1. CASE t = "main"
      BY <1>5, <1>6, <3>1
    <3>2. CASE t # "main"
      BY <1>5, <3>2 DEF IInv, Typed, Thread
    <3>3. QED BY <3>1, <3>2
  <2>3. trash' \subseteq Sock
    BY <1>1 DEF IInv, Typed
  <2>4. QED BY <1>1, <1>3, <1>5, <2>1, <2>2, <2>3 DEF IInv, Typed
<1>10. Files'
  <2>1. \A x \in Sock : fd[x] # None /\ x \notin trash' \cup freed => file'[fd[x]] = x
    <3>1. ASSUME NEW x \in Sock, fd[x] # None, x \notin trash' \cup freed
          PROVE  file'[fd[x]] = x
      <4>1. file[fd[x]] = x /\ x # s /\ fd[x] \in Fd
        BY <1>1, <3>1 DEF IInv, Files, Typed
      <4>2. fd[x] # f
        BY <1>2, <4>1
      <4>3. QED BY <1>3, <4>1, <4>2
    <3>2. QED BY <3>1
  <2>2. \A g \in Fd : file'[g] # None => fd[file'[g]] = g /\ file'[g] \notin trash' \cup freed
    BY <1>1, <1>3, <1>4 DEF IInv, Files
  <2>3. trash' \cup freed \subseteq deleted
    BY <1>1 DEF IInv, Files
  <2>4. QED BY <1>1, <2>1, <2>2, <2>3 DEF IInv, Files
<1>11. Held'
  BY <1>1, <1>5 DEF IInv, Held
<1>12. Closer'
  <2>1. \A u \in Thread \ {t} : at[u].closing => at[u].sock # s
    BY <1>1 DEF IInv, Closer
  <2>2. \A u \in Thread \ {t} : at[u].closing \/ at[u].pc = "close" =>
          /\ at[u].closing /\ at[u].sock \in deleted \ (trash' \cup freed)
          /\ at[u].pc \in {"disconnect", "remove", "callback", "close"}
    BY <1>1, <2>1 DEF IInv, Closer
  <2>3. \A u \in Thread : at'[u].closing \/ at'[u].pc = "close" =>
          /\ at'[u].closing /\ at'[u].sock \in deleted \ (trash' \cup freed)
          /\ at'[u].pc \in {"disconnect", "remove", "callback", "close"}
    BY <1>5, <1>6, <2>2
  <2>4. \A u, v \in Thread : at'[u].closing /\ at'[v].closing /\ at'[u].sock = at'[v].sock => u = v
    BY <1>5 DEF IInv, Closer
  <2>5. QED BY <1>1, <2>3, <2>4 DEF Closer
<1>13. Adding'
  <2>1. ASSUME NEW u \in Thread \ {t}, at[u].pc = "add"
        PROVE  /\ at[u].sock \notin deleted /\ \A g \in Fd : fds[g] # at[u].sock
               /\ \A v \in Thread \ {u} : at[v].sock # at[u].sock
               /\ at[u].sock # s /\ at[u].sock # None
    BY <1>1, <2>1 DEF IInv, Adding, Typed, Acting
  <2>2. QED BY <1>1, <1>5, <1>6, <2>1 DEF Adding
<1>14. Leaving'
  BY <1>1, <1>5, <1>6, <1>7 DEF IInv, Leaving
<1>15. TableIsLive'
  <2>1. Running => fds[f] = None
    BY <1>1, <1>2 DEF IInv, Leaving, TableIsLive
  <2>2. QED BY <1>1, <1>3, <1>7, <2>1 DEF IInv, TableIsLive
<1>16. QED BY <1>9, <1>10, <1>11, <1>12, <1>13, <1>14, <1>15 DEF IInv

LEMMA CollectKeeps ==
  ASSUME LifecycleAssumption, IInv, NEW s \in Sock, Collect(s)
  PROVE  IInv'
<1>1. /\ Running /\ s \in trash /\ \A t \in Thread : at[t].sock # s
      /\ trash' = trash \ {s} /\ freed' = freed \cup {s}
      /\ UNCHANGED <<fd, deleted, fds, file, at, index>>
  BY DEF Collect, Running, socket, kernel
<1>2. trash' \cup freed' = trash \cup freed
  BY <1>1
<1>3. \A f \in Fd : fds[f] # s
  BY <1>1 DEF IInv, TableIsLive, Files, LifecycleAssumption
<1>4. Typed' /\ Files'
  BY <1>1, <1>2 DEF IInv, Typed, Files
<1>5. Held'
  BY <1>1, <1>3 DEF IInv, Held
<1>6. Closer'
  BY <1>1, <1>2 DEF IInv, Closer
<1>7. Adding' /\ Leaving' /\ TableIsLive'
  BY <1>1 DEF IInv, Adding, Leaving, TableIsLive, Running, AtHome
<1>8. QED BY <1>4, <1>5, <1>6, <1>7 DEF IInv

-----------------------------------------------------------------------------
LEMMA LifecycleNext == LifecycleAssumption /\ IInv /\ [Next]_vars => IInv'
<1> SUFFICES ASSUME LifecycleAssumption, IInv, [Next]_vars PROVE IInv'
  OBVIOUS
<1>1. ASSUME NEW t \in Thread, Calls(t) PROVE IInv'
  BY <1>1, AddKeeps, DisconnectKeeps, RemoveKeeps, DeleteKeeps, CloseKeeps DEF Calls
<1>2. CASE Worker
  BY <1>2, WorkerKeeps
<1>3. CASE CloseAll
  BY <1>3, CloseAllKeeps
<1>4. CASE BurstPush
  <2>1. PICK s : s = None
    OBVIOUS
  <2>2. "game" \in Thread /\ "game" # "main"
    BY DEF Thread
  <2>3. QED BY <1>4, <2>2, RestKeeps DEF BurstPush, socket
<1>5. ASSUME NEW s \in Sock, PeerSends(s) \/ PeerCloses(s) \/ PeerResets(s) PROVE IInv'
  BY <1>5, PeersKeep
<1>6. ASSUME NEW s \in Sock, SendBegin(s) \/ Kick(s) PROVE IInv'
  BY <1>6, GameKeeps
<1>7. ASSUME NEW s \in Sock, Collect(s) PROVE IInv'
  BY <1>7, CollectKeeps
<1>8. ASSUME NEW s \in Sock, NEW f \in Fd, Accept(s, f) \/ Connect(s, f) PROVE IInv'
  BY <1>8, OpeningKeeps
<1>9. CASE UNCHANGED vars
  BY <1>9, KernelKeeps DEF vars, socket, kernel
<1>10. QED BY <1>1, <1>2, <1>3, <1>4, <1>5, <1>6, <1>7, <1>8, <1>9 DEF Next

\* Where every Socket is: the descriptors, the table, the garbage and what the threads
\* hold agree with one another in every reachable state.
THEOREM LifecycleInvariant == Spec => []IInv
<1>1. Init => IInv
  BY LifecycleInit, LifecycleAssumption
<1>2. IInv /\ [Next]_vars => IInv'
  BY LifecycleNext, LifecycleAssumption
<1>3. QED BY <1>1, <1>2, PTL DEF Spec

\* Delete closes the descriptor of its own connection, whatever the threads do at once.
THEOREM LifecycleCloseOwnFd == Spec => []CloseOwnFd
<1>1. IInv => CloseOwnFd
  <2> SUFFICES ASSUME IInv, NEW t \in Thread, at[t].pc = "close"
      PROVE file[fd[at[t].sock]] = at[t].sock
    BY DEF CloseOwnFd, In
  <2>1. at[t].pc \in Acting
    BY DEF Acting
  <2>2. at[t].sock \in Sock /\ fd[at[t].sock] # None /\ at[t].sock \notin trash \cup freed
    BY <2>1, FrameFacts DEF IInv, Closer, Typed
  <2>3. QED BY <2>2 DEF IInv, Files
<1>2. QED BY <1>1, LifecycleInvariant, PTL

\* While the server runs, the table leads from a descriptor to the Socket of the
\* connection behind it.
THEOREM LifecycleTableIsLive == Spec => []TableIsLive
<1>1. IInv => TableIsLive
  BY DEF IInv
<1>2. QED BY <1>1, LifecycleInvariant, PTL

\* The collector frees no Socket that the table or a thread still has.
THEOREM LifecycleNoUseAfterFree == Spec => []NoUseAfterFree
<1>1. IInv => NoUseAfterFree
  <2> SUFFICES ASSUME IInv PROVE NoUseAfterFree
    OBVIOUS
  <2>1. None \notin freed
    BY LifecycleAssumption DEF IInv, Typed
  <2>2. QED BY <2>1 DEF IInv, Held, NoUseAfterFree
<1>2. QED BY <1>1, LifecycleInvariant, PTL

-----------------------------------------------------------------------------
(* Types *)

Kernel ==
  /\ connected \subseteq Sock /\ input \subseteq Sock /\ gone \subseteq Sock
  /\ broken \subseteq Sock /\ unseen \subseteq Sock
  /\ reg \in [Fd -> {"none", "in", "out"}] /\ ready \subseteq Fd /\ batch \subseteq Event

LEMMA KernelTyped == IInv /\ Kernel /\ [Next]_vars => Kernel'
<1> SUFFICES ASSUME IInv, Kernel, [Next]_vars PROVE Kernel'
  OBVIOUS
<1>1. ASSUME NEW t \in Thread, Calls(t) PROVE Kernel'
  <2>1. /\ UNCHANGED batch /\ gone' \subseteq gone /\ broken' \subseteq broken
        /\ connected' \subseteq Sock /\ input' \subseteq Sock
    BY <1>1 DEF Kernel, Calls, AddSocket, Disconnect, RemoveSocket, OnDisconnect, Delete,
                CloseSocket, Cleared, socket, kernel
  <2>2. at[t].pc \in {"add", "remove", "close"} => fd[at[t].sock] \in Fd
    BY FrameFacts DEF Acting
  <2>3. reg' \in [Fd -> {"none", "in", "out"}] /\ ready' \subseteq Fd
    <3>1. CASE AddSocket(t)
      BY <2>2, <3>1 DEF Kernel, AddSocket, Watch, In
    <3>2. CASE RemoveSocket(t) \/ CloseSocket(t)
      BY <2>2, <3>2 DEF Kernel, RemoveSocket, CloseSocket, In
    <3>3. CASE Disconnect(t) \/ OnDisconnect(t) \/ Delete(t)
      BY <3>3 DEF Kernel, Disconnect, OnDisconnect, Delete, kernel
    <3>4. QED BY <1>1, <3>1, <3>2, <3>3 DEF Calls
  <2>4. unseen' \subseteq unseen
    BY <1>1 DEF Calls, AddSocket, Disconnect, RemoveSocket, OnDisconnect, Delete, CloseSocket,
                Watch, kernel
  <2>5. QED BY <2>1, <2>3, <2>4 DEF Kernel
<1>2. ASSUME NEW s, NEW w \in {"in", "out"}, PostEvent(s, w) PROVE
        /\ reg' \in [Fd -> {"none", "in", "out"}] /\ (fd[s] \in Fd => ready' \subseteq Fd)
        /\ unseen' \subseteq unseen
  BY <1>2 DEF Kernel, PostEvent, Watch
<1>3. CASE Worker
  <2> /\ "worker" \in Thread
    BY DEF Thread
  <2>1. CASE EpollWait
    <3>1. ASSUME NEW f \in ready, Fires(file[f], reg[f]) PROVE EventOf(f) \in Event
      BY <3>1 DEF Kernel, EventOf, Event, Fires
    <3>2. Listen \in Event
      BY DEF Event
    <3>3. batch' \subseteq Event
      BY <2>1, <3>1, <3>2 DEF EpollWait
    <3>4. QED BY <2>1, <3>3 DEF EpollWait, Kernel, socket
  <2>2. CASE AcceptNothing \/ \E e \in Event : Handle(e)
    BY <2>2 DEF Kernel, AcceptNothing, Handle, socket, kernel
  <2>3. CASE ReadCallback \/ WriteCallback
    BY <2>3 DEF Kernel, ReadCallback, WriteCallback, socket, kernel
  <2>4. CASE AfterRead \/ AfterWrite
    <3>1. fd[at["worker"].sock] \in Fd
      BY <2>4, FrameFacts DEF AfterRead, AfterWrite, In, Acting
    <3>2. /\ reg' \in [Fd -> {"none", "in", "out"}] /\ ready' \subseteq Fd
          /\ unseen' \subseteq unseen
      BY <1>2, <2>4, <3>1 DEF AfterRead, AfterWrite, Kernel
    <3>3. QED BY <2>4, <3>2 DEF AfterRead, AfterWrite, Kernel, socket
  <2>5. QED BY <1>3, <2>1, <2>2, <2>3, <2>4 DEF Worker
<1>4. CASE BurstPush
  <2>1. fd[at["game"].sock] \in Fd
    BY <1>4, FrameFacts DEF BurstPush, In, Acting, Thread
  <2>2. QED BY <1>2, <1>4, <2>1 DEF BurstPush, Kernel, socket
<1>5. CASE CloseAll
  BY <1>5 DEF CloseAll, Kernel, socket, kernel
<1>6. ASSUME NEW s \in Sock, \/ PeerSends(s) \/ PeerCloses(s) \/ PeerResets(s) \/ SendBegin(s) \/ Kick(s)
                             \/ Collect(s)
      PROVE  Kernel'
  BY <1>6 DEF Kernel, PeerSends, PeerCloses, PeerResets, SendBegin, Kick, Collect, socket, kernel
<1>7. ASSUME NEW s \in Sock, NEW f \in Fd, Accept(s, f) \/ Connect(s, f) PROVE Kernel'
  BY <1>7 DEF Kernel, Accept, Connect
<1>8. CASE UNCHANGED vars
  BY <1>8 DEF vars, socket, kernel, Kernel
<1>9. QED BY <1>1, <1>3, <1>4, <1>5, <1>6, <1>7, <1>8 DEF Next

\* The variables keep their types.
THEOREM LifecycleTypes == Spec => []TypeOK
<1>1. Init => Kernel
  BY DEF Init, Kernel
<1>2. IInv /\ Kernel => TypeOK
  <2> SUFFICES ASSUME IInv, Kernel PROVE TypeOK
    OBVIOUS
  <2>1. \A t \in Thread : at[t].sock \in Sock \cup {None}
    BY FrameFacts
  <2>2. QED BY <2>1 DEF IInv, Typed, Kernel, TypeOK
<1>3. QED BY <1>1, <1>2, KernelTyped, LifecycleInvariant, PTL DEF Spec
=============================================================================
