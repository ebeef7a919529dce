--------------------------- MODULE ChatRoomProofs ---------------------------
(***************************************************************************)
(* For any number of clients, any network within its limits and any        *)
(* periods of the timers: the types of ChatRoom, who goes by which id,     *)
(* what an attempt of the handle thread to log in is worth, the bounds of  *)
(* the monitor, and that on a good network sessions last.                  *)
(***************************************************************************)
EXTENDS ChatRoom, FiniteSetTheorems, TLAPS

---------------------------------------------------------------------------
(* Types.                                                                  *)

Places == {"off", "login", "joined", "dialog", "close", "closewait",
           "sleep1", "sleep2", "look", "drop", "try", "take"}

\* A thread that sleeps a second has seconds left; one that does not sleep has
\* slept none.
ThreadOK(th) ==
    /\ th \in [at : Places, try : 0..RetryTimes, slept : Nat, due : BOOLEAN]
    /\ th.at = "login" => th.slept <= RetryTimes /\ (~ th.due => th.slept < RetryTimes)
    /\ th.at = "closewait" => th.slept <= 2 /\ (~ th.due => th.slept < 2)
    /\ th.at \notin {"login", "closewait"} => th.slept = 0
    /\ th.at = "close" => ~ th.due

Rec      == [addr : Addrs, misses : 0..MaxLose - 1, idle : 0..EvictedBy + 1, heard : BOOLEAN]
Datagram == [up : BOOLEAN, kind : Kinds, id : Ids \cup {NoId}, at : Addrs]

\* The parts of the inductive invariant behind TypeOK.
ServerTypes == /\ DOMAIN db \subseteq 1..lastId /\ lastId \in 0..MaxLogins
               /\ \A i \in DOMAIN db : db[i] \in Rec
               /\ untilPass \in 0..MonitorEvery
NetTypes    == /\ net \subseteq Datagram
               /\ faults \in [lost : Nat, dup : Nat, may : Limits]
               /\ faults.lost <= faults.may.lost /\ faults.dup <= faults.may.dup
ThreadTypes == /\ thread \in [Clients -> [Threads -> [at : Places, try : 0..RetryTimes, slept : Nat, due : BOOLEAN]]]
               /\ \A c \in Clients, t \in Threads : ThreadOK(thread[c][t])
ClientTypes == /\ addr \in [Clients -> Addrs]
               /\ sid \in [Clients -> Ids \cup {NoId}]
               /\ closing \in [Clients -> BOOLEAN]
               /\ quiet \in [Clients -> 0..OnlineLimit + 1]
               /\ beat \in [Clients -> 0..RefreshEvery - 1]
               /\ alive \in [Clients -> {"off", "running", "closed", "exited"}]
               /\ sendq \in [Clients -> Seq(Kinds)]
               /\ recvq \in [Clients -> Seq(Datagram)]

TypeInv == ServerTypes /\ NetTypes /\ ThreadTypes /\ ClientTypes

LEMMA Constants ==
    /\ RetryTimes \in Nat \ {0} /\ RefreshEvery \in Nat \ {0} /\ OnlineLimit \in Nat \ {0}
    /\ LoseSeconds \in Nat \ {0} /\ MaxLose \in Nat \ {0} /\ MonitorEvery \in Nat \ {0}
    /\ MaxLogins \in Nat /\ MaxMoves \in Nat
    /\ EvictedBy \in Nat
    /\ \A l \in Limits : l.lost \in Nat /\ l.dup \in Nat /\ l.lag \in Nat
<1>1. /\ RetryTimes \in Nat \ {0} /\ RefreshEvery \in Nat \ {0} /\ OnlineLimit \in Nat \ {0}
      /\ LoseSeconds \in Nat \ {0} /\ MaxLose \in Nat \ {0} /\ MonitorEvery \in Nat \ {0}
      /\ MaxLogins \in Nat /\ MaxMoves \in Nat
  BY BoundAssumption, LimitAssumption
<1>2. MaxLose * MonitorEvery \in Nat
  BY <1>1
<1>3. ASSUME NEW l \in Limits PROVE l.lost \in Nat /\ l.dup \in Nat /\ l.lag \in Nat
  BY LimitAssumption
<1> QED BY <1>1, <1>2, <1>3 DEF EvictedBy

LEMMA TypesInit == Init => TypeInv
<1> SUFFICES ASSUME Init PROVE TypeInv
  OBVIOUS
<1> USE Constants DEF Init
<1>1. ServerTypes
  BY DEF ServerTypes
<1>2. NetTypes
  BY DEF NetTypes
<1>3. ThreadTypes
  BY DEF ThreadTypes, ThreadOK, Place, Attempt, Places, Threads
<1>4. ClientTypes
  BY DEF ClientTypes, Addrs, NoId
<1> QED BY <1>1, <1>2, <1>3, <1>4 DEF TypeInv

\* Where the threads go is a place, with nothing slept yet.
LEMMA PlaceOK ==
    /\ \A at \in Places : ThreadOK(Place(at))
    /\ \A n \in 1..RetryTimes, at \in {"login", "close"} : ThreadOK(Attempt(at, n))
    /\ 1 \in 1..RetryTimes
<1>1. ASSUME NEW at \in Places, NEW n \in 0..RetryTimes PROVE ThreadOK(Attempt(at, n))
  BY Constants DEF ThreadOK, Attempt
<1>2. 0 \in 0..RetryTimes /\ 1..RetryTimes \subseteq 0..RetryTimes /\ 1 \in 1..RetryTimes
  BY Constants
<1>3. {"login", "close"} \subseteq Places
  BY DEF Places
<1> QED BY <1>1, <1>2, <1>3 DEF Place

LEMMA GotoOK ==
    ASSUME ThreadTypes, NEW c \in Clients, NEW t \in Threads,
           NEW place, ThreadOK(place), Goto(c, t, place)
    PROVE  ThreadTypes'
<1> DEFINE All == [at : Places, try : 0..RetryTimes, slept : Nat, due : BOOLEAN]
<1>1. place \in All
  BY DEF ThreadOK
<1>2. thread' \in [Clients -> [Threads -> All]]
  BY <1>1 DEF ThreadTypes, Goto
<1>3. ASSUME NEW e \in Clients, NEW u \in Threads PROVE ThreadOK(thread[e][u])'
  <2>1. thread'[e][u] = IF e = c /\ u = t THEN place ELSE thread[e][u]
    BY DEF ThreadTypes, Goto
  <2>2. ThreadOK(thread'[e][u])
    BY <2>1 DEF ThreadTypes
  <2> QED BY <2>2 DEF ThreadOK
<1> QED BY <1>2, <1>3 DEF ThreadTypes

LEMMA CommitOK ==
    ASSUME sendq \in [Clients -> Seq(Kinds)], NEW c \in Clients,
           NEW kind \in Kinds, Commit(c, <<kind>>)
    PROVE  sendq' \in [Clients -> Seq(Kinds)]
<1>1. sendq[c] \o <<kind>> \in Seq(Kinds)
  OBVIOUS
<1> QED BY <1>1 DEF Commit

LEMMA ArrivesOK ==
    ASSUME NetTypes, NEW d, NEW A \in SUBSET Datagram, Arrives(d, A)
    PROVE  NetTypes'
<1>1. net' \subseteq Datagram
  BY DEF NetTypes, Arrives
<1>2. faults' \in [lost : Nat, dup : Nat, may : Limits] /\ faults'.may = faults.may
  BY DEF NetTypes, Arrives
<1>3. faults'.lost = faults.lost
  BY DEF NetTypes, Arrives
<1>4. faults'.dup <= faults'.may.dup
  BY Constants DEF NetTypes, Arrives
<1> QED BY <1>1, <1>2, <1>3, <1>4 DEF NetTypes

LEMMA DownOK ==
    ASSUME NEW kind \in Kinds, NEW i \in Ids \cup {NoId}, NEW a \in Addrs
    PROVE  Up(kind, i, a) \in Datagram /\ Down(kind, i, a) \in Datagram
BY DEF Up, Down, Datagram

\* A thread of a client goes to another place.
LEMMA PlacePut ==
    ASSUME NEW f \in [Threads -> [at : Places, try : 0..RetryTimes, slept : Nat, due : BOOLEAN]],
           \A u \in Threads : ThreadOK(f[u]), NEW t \in Threads, NEW p, ThreadOK(p)
    PROVE  /\ [f EXCEPT ![t] = p]
                 \in [Threads -> [at : Places, try : 0..RetryTimes, slept : Nat, due : BOOLEAN]]
           /\ \A u \in Threads : ThreadOK([f EXCEPT ![t] = p][u])
<1>1. p \in [at : Places, try : 0..RetryTimes, slept : Nat, due : BOOLEAN]
  BY DEF ThreadOK
<1>2. \A u \in Threads : [f EXCEPT ![t] = p][u] = IF u = t THEN p ELSE f[u]
  OBVIOUS
<1>3. ASSUME NEW u \in Threads PROVE ThreadOK([f EXCEPT ![t] = p][u])
  BY <1>2
<1> QED BY <1>1, <1>3

\* The steps of the client.
LEMMA ThreadStepTypes ==
    ASSUME TypeInv, NEW c \in Clients, NEW t \in Threads, ThreadStep(c, t)
    PROVE  TypeInv'
<1> USE DEF TypeInv
<1>1. ThreadOK(thread[c][t]) /\ thread[c][t].try \in 0..RetryTimes /\ thread[c][t].slept \in Nat
  BY DEF ThreadTypes, ThreadOK
<1>2. CASE LoginWait(c, t)
  <2>1. ThreadTypes' /\ sendq' \in [Clients -> Seq(Kinds)]
    <3>1. CASE thread[c][t].slept < RetryTimes /\ Goto(c, t, [thread[c][t] EXCEPT !.due = FALSE]) /\ UNCHANGED sendq
      <4>1. ThreadOK([thread[c][t] EXCEPT !.due = FALSE])
        BY <1>1, <3>1, <1>2 DEF ThreadOK, LoginWait
      <4> QED BY <4>1, <3>1, GotoOK DEF ClientTypes
    <3>2. CASE /\ thread[c][t].try < RetryTimes
               /\ Goto(c, t, Attempt("login", thread[c][t].try + 1))
               /\ Commit(c, <<"LOGIN">>)
      <4>1. ThreadOK(Attempt("login", thread[c][t].try + 1))
        <5>1. thread[c][t].try + 1 \in 1..RetryTimes
          BY <1>1, <3>2, Constants
        <5> QED BY <5>1, PlaceOK
      <4>2. "LOGIN" \in Kinds
        BY DEF Kinds
      <4> QED BY <4>1, <4>2, <3>2, GotoOK, CommitOK DEF ClientTypes
    <3>3. CASE Goto(c, t, Place("dialog")) /\ UNCHANGED sendq
      <4>1. ThreadOK(Place("dialog"))
        BY PlaceOK DEF Places
      <4> QED BY <4>1, <3>3, GotoOK DEF ClientTypes
    <3> QED BY <1>2, <3>1, <3>2, <3>3 DEF LoginWait
  <2> QED BY <2>1, <1>2 DEF LoginWait, ServerTypes, server, NetTypes, ClientTypes
<1>3. CASE LoginSeen(c, t)
  <2>1. ThreadTypes'
    <3> DEFINE All == [at : Places, try : 0..RetryTimes, slept : Nat, due : BOOLEAN]
    <3>1. PICK new \in [Threads -> All] :
             /\ thread' = [thread EXCEPT ![c] = new]
             /\ \A u \in Threads : ThreadOK(new[u])
      <4>1. /\ ThreadOK(Place("joined")) /\ ThreadOK(Place("sleep1")) /\ ThreadOK(Place("sleep2"))
            /\ ThreadOK(Place("take"))
        BY PlaceOK DEF Places
      <4>2. thread[c] \in [Threads -> All] /\ \A u \in Threads : ThreadOK(thread[c][u])
        BY DEF ThreadTypes
      <4>3. CASE t = "main"
        <5> DEFINE new == [thread[c] EXCEPT !["main"] = Place("joined"), !["echo"] = Place("sleep1")]
        <5>1. thread' = [thread EXCEPT ![c] = new]
          BY <1>3, <4>3 DEF LoginSeen
        <5>2. new \in [Threads -> All] /\ \A u \in Threads : ThreadOK(new[u])
          <6> DEFINE g == [thread[c] EXCEPT !["main"] = Place("joined")]
          <6>1. g \in [Threads -> All] /\ \A u \in Threads : ThreadOK(g[u])
            BY <4>1, <4>2, PlacePut DEF Threads
          <6>2. new = [g EXCEPT !["echo"] = Place("sleep1")] /\ "echo" \in Threads
            BY DEF Threads
          <6> HIDE DEF g
          <6> QED BY <4>1, <6>1, <6>2, PlacePut
        <5> QED BY <5>1, <5>2
      <4>4. CASE t = "echo"
        <5> DEFINE new == [thread[c] EXCEPT !["echo"] = Place("sleep2")]
        <5>1. thread' = [thread EXCEPT ![c] = new]
          BY <1>3, <4>4 DEF LoginSeen
        <5>2. new \in [Threads -> All] /\ \A u \in Threads : ThreadOK(new[u])
          BY <4>1, <4>2, PlacePut DEF Threads
        <5> QED BY <5>1, <5>2
      <4>5. CASE t = "handle"
        <5> DEFINE new == [thread[c] EXCEPT !["handle"] = Place("take")]
        <5>1. thread' = [thread EXCEPT ![c] = new]
          BY <1>3, <4>5 DEF LoginSeen
        <5>2. new \in [Threads -> All] /\ \A u \in Threads : ThreadOK(new[u])
          BY <4>1, <4>2, PlacePut DEF Threads
        <5> QED BY <5>1, <5>2
      <4> QED BY <4>3, <4>4, <4>5 DEF Threads
    <3>2. thread' \in [Clients -> [Threads -> All]]
      BY <3>1 DEF ThreadTypes
    <3>3. ASSUME NEW e \in Clients, NEW u \in Threads PROVE ThreadOK(thread'[e][u])
      BY <3>1 DEF ThreadTypes
    <3> QED BY <3>2, <3>3 DEF ThreadTypes, ThreadOK
  <2> QED BY <2>1, <1>3 DEF LoginSeen, ServerTypes, server, NetTypes, ClientTypes
<1>4. CASE CloseBegin(c, t)
  <2>1. ThreadTypes'
    BY <1>4, PlaceOK, GotoOK DEF CloseBegin
  <2>2. sendq' \in [Clients -> Seq(Kinds)]
    BY <1>4, CommitOK DEF CloseBegin, ClientTypes, Kinds
  <2>3. sid' \in [Clients -> Ids \cup {NoId}] /\ closing' \in [Clients -> BOOLEAN]
    BY <1>4 DEF CloseBegin, ClientTypes
  <2> QED BY <2>1, <2>2, <2>3, <1>4 DEF CloseBegin, ServerTypes, server, NetTypes, ClientTypes
<1>5. CASE CloseCheck(c, t)
  <2>1. ThreadTypes'
    <3>1. CASE UNCHANGED thread
      BY <3>1 DEF ThreadTypes, ThreadOK
    <3>2. CASE thread' = [thread EXCEPT ![c][t].at = "closewait"]
      <4>1. ThreadOK([thread[c][t] EXCEPT !.at = "closewait"])
        BY <1>1, <1>5 DEF CloseCheck, At, ThreadOK, Places
      <4>2. Goto(c, t, [thread[c][t] EXCEPT !.at = "closewait"])
        BY <3>2 DEF Goto
      <4> QED BY <4>1, <4>2, GotoOK
    <3> QED BY <1>5, <3>1, <3>2 DEF CloseCheck
  <2>2. alive' \in [Clients -> {"off", "running", "closed", "exited"}]
    BY <1>5 DEF CloseCheck, ClientTypes
  <2> QED BY <2>1, <2>2, <1>5 DEF CloseCheck, ServerTypes, server, NetTypes, ClientTypes
<1>6. CASE CloseAgain(c, t)
  <2>1. /\ ThreadTypes' /\ sendq' \in [Clients -> Seq(Kinds)]
        /\ alive' \in [Clients -> {"off", "running", "closed", "exited"}]
    <3>1. CASE thread[c][t].slept < 2 /\ Goto(c, t, [thread[c][t] EXCEPT !.due = FALSE])
               /\ UNCHANGED <<sendq, alive>>
      <4>1. ThreadOK([thread[c][t] EXCEPT !.due = FALSE])
        BY <1>1, <3>1, <1>6 DEF ThreadOK, CloseAgain
      <4> QED BY <4>1, <3>1, GotoOK DEF ClientTypes
    <3>2. CASE /\ thread[c][t].try < RetryTimes
               /\ Goto(c, t, Attempt("close", thread[c][t].try + 1))
               /\ Commit(c, <<"LOGOUT">>)
               /\ UNCHANGED alive
      <4>1. thread[c][t].try + 1 \in 1..RetryTimes
        BY <1>1, <3>2, Constants
      <4>2. ThreadOK(Attempt("close", thread[c][t].try + 1))
        BY <4>1, PlaceOK
      <4>3. "LOGOUT" \in Kinds
        BY DEF Kinds
      <4> QED BY <4>2, <4>3, <3>2, GotoOK, CommitOK DEF ClientTypes
    <3>3. CASE alive' = [alive EXCEPT ![c] = "closed"] /\ UNCHANGED <<sendq, thread>>
      BY <3>3 DEF ThreadTypes, ThreadOK, ClientTypes
    <3> QED BY <1>6, <3>1, <3>2, <3>3 DEF CloseAgain
  <2> QED BY <2>1, <1>6 DEF CloseAgain, ServerTypes, server, NetTypes, ClientTypes
<1> QED BY <1>2, <1>3, <1>4, <1>5, <1>6 DEF ThreadStep

LEMMA EchoTypes ==
    ASSUME TypeInv, NEW c \in Clients,
           EchoBeat(c) \/ EchoLook(c) \/ EchoDrop(c) \/ EchoTry(c) \/ EchoAgain(c)
    PROVE  TypeInv'
<1> USE DEF TypeInv
<1> "echo" \in Threads
  BY DEF Threads
<1>1. CASE EchoBeat(c)
  <2>1. ThreadTypes'
    BY <1>1, PlaceOK, GotoOK DEF EchoBeat, Places
  <2>2. sendq' \in [Clients -> Seq(Kinds)]
    BY <1>1, CommitOK DEF EchoBeat, ClientTypes, Kinds
  <2>3. beat' \in [Clients -> 0..RefreshEvery - 1]
    <3>1. (beat[c] + 1) % RefreshEvery \in 0..RefreshEvery - 1
      BY Constants DEF ClientTypes
    <3> QED BY <3>1, <1>1 DEF EchoBeat, ClientTypes
  <2> QED BY <2>1, <2>2, <2>3, <1>1 DEF EchoBeat, ServerTypes, server, NetTypes, ClientTypes
<1>2. CASE EchoLook(c)
  <2>1. ThreadTypes'
    BY <1>2, PlaceOK, GotoOK DEF EchoLook, Places
  <2> QED BY <2>1, <1>2 DEF EchoLook, ServerTypes, server, NetTypes, ClientTypes
<1>3. CASE EchoDrop(c)
  <2>1. ThreadTypes'
    BY <1>3, PlaceOK, GotoOK DEF EchoDrop, Places
  <2>2. sid' \in [Clients -> Ids \cup {NoId}]
    BY <1>3 DEF EchoDrop, ClientTypes
  <2> QED BY <2>1, <2>2, <1>3 DEF EchoDrop, ServerTypes, server, NetTypes, ClientTypes
<1>4. CASE EchoTry(c)
  <2>1. ThreadTypes'
    BY <1>4, PlaceOK, GotoOK DEF EchoTry, StartLogin
  <2>2. sendq' \in [Clients -> Seq(Kinds)]
    BY <1>4, CommitOK DEF EchoTry, StartLogin, ClientTypes, Kinds
  <2> QED BY <2>1, <2>2, <1>4 DEF EchoTry, ServerTypes, server, NetTypes, ClientTypes
<1>5. CASE EchoAgain(c)
  <2>1. ThreadTypes'
    BY <1>5, PlaceOK, GotoOK DEF EchoAgain, Places
  <2> QED BY <2>1, <1>5 DEF EchoAgain, ServerTypes, server, NetTypes, ClientTypes
<1> QED BY <1>1, <1>2, <1>3, <1>4, <1>5

\* A step that leaves the threads alone leaves their types alone.
LEMMA ThreadsRest ==
    ASSUME ThreadTypes, UNCHANGED thread
    PROVE  ThreadTypes'
BY DEF ThreadTypes, ThreadOK

LEMMA QueueTypes ==
    ASSUME TypeInv, NEW c \in Clients,
           \/ Send(c) \/ Say(c) \/ (\E d \in net : Receive(c, d))
           \/ Start(c) \/ UserExit(c) \/ Move(c)
    PROVE  TypeInv'
<1> USE DEF TypeInv
<1>1. CASE Send(c)
  <2>1. NetTypes'
    <3>1. Head(sendq[c]) \in Kinds
      BY <1>1 DEF Send, ClientTypes
    <3>2. Up(Head(sendq[c]), sid[c], addr[c]) \in Datagram
      BY <3>1, DownOK DEF ClientTypes
    <3> QED BY <3>2, <1>1 DEF Send, NetTypes
  <2>2. sendq' \in [Clients -> Seq(Kinds)]
    <3>1. Tail(sendq[c]) \in Seq(Kinds)
      BY <1>1 DEF Send, ClientTypes
    <3> QED BY <3>1, <1>1 DEF Send, ClientTypes
  <2> QED BY <2>1, <2>2, <1>1, ThreadsRest DEF Send, ServerTypes, server, ClientTypes
<1>2. CASE Say(c)
  <2>1. sendq' \in [Clients -> Seq(Kinds)]
    BY <1>2, CommitOK DEF Say, ClientTypes, Kinds
  <2> QED BY <2>1, <1>2, ThreadsRest DEF Say, ServerTypes, server, NetTypes, ClientTypes
<1>3. CASE \E d \in net : Receive(c, d)
  <2>1. PICK d \in net : Receive(c, d)
    BY <1>3
  <2>2. NetTypes'
    BY <2>1, ArrivesOK DEF Receive
  <2>3. recvq' \in [Clients -> Seq(Datagram)]
    <3>1. Append(recvq[c], d) \in Seq(Datagram)
      BY DEF NetTypes, ClientTypes
    <3> QED BY <3>1, <2>1 DEF Receive, ClientTypes
  <2> QED BY <2>1, <2>2, <2>3, ThreadsRest DEF Receive, ServerTypes, server, ClientTypes
<1>4. CASE Start(c)
  <2>1. ThreadTypes'
    BY <1>4, PlaceOK, GotoOK DEF Start, StartLogin, Threads
  <2>2. sendq' \in [Clients -> Seq(Kinds)]
    BY <1>4, CommitOK DEF Start, StartLogin, ClientTypes, Kinds
  <2>3. alive' \in [Clients -> {"off", "running", "closed", "exited"}]
    BY <1>4 DEF Start, ClientTypes
  <2> QED BY <2>1, <2>2, <2>3, <1>4 DEF Start, ServerTypes, server, NetTypes, ClientTypes
<1>5. CASE UserExit(c)
  <2>1. alive' \in [Clients -> {"off", "running", "closed", "exited"}]
    BY <1>5 DEF UserExit, ClientTypes
  <2> QED BY <2>1, <1>5, ThreadsRest DEF UserExit, ServerTypes, server, NetTypes, ClientTypes
<1>6. CASE Move(c)
  <2>1. addr' \in [Clients -> Addrs]
    <3>1. addr[c] \in Clients \X (0..MaxMoves) /\ addr[c][2] \in 0..MaxMoves
      BY DEF ClientTypes, Addrs
    <3>2. addr[c][2] + 1 \in 0..MaxMoves
      BY <3>1, <1>6, Constants DEF Move
    <3>3. addr' = [addr EXCEPT ![c] = <<c, addr[c][2] + 1>>]
      BY <1>6 DEF Move
    <3> QED BY <3>2, <3>3 DEF ClientTypes, Addrs
  <2> QED BY <2>1, <1>6, ThreadsRest DEF Move, ServerTypes, server, NetTypes, ClientTypes
<1> QED BY <1>1, <1>2, <1>3, <1>4, <1>5, <1>6

LEMMA HandleTypes ==
    ASSUME TypeInv, NEW c \in Clients,
           doResponseLogin(c) \/ doResponseLogout(c) \/ doResponseList(c)
    PROVE  TypeInv'
<1> USE DEF TypeInv
<1>1. recvq' \in [Clients -> Seq(Datagram)] /\ Head(recvq[c]) \in Datagram
  <2>1. recvq[c] \in Seq(Datagram) /\ recvq[c] # << >> /\ recvq' = [recvq EXCEPT ![c] = Tail(@)]
    BY DEF doResponseLogin, doResponseLogout, doResponseList, Handles, ClientTypes
  <2>2. Tail(recvq[c]) \in Seq(Datagram) /\ Head(recvq[c]) \in Datagram
    BY <2>1
  <2> QED BY <2>1, <2>2 DEF ClientTypes
<1>2. OnlineLimit \in Nat
  BY Constants
<1>3. CASE doResponseLogin(c)
  <2>1. /\ sid' \in [Clients -> Ids \cup {NoId}] /\ closing' \in [Clients -> BOOLEAN]
        /\ quiet' \in [Clients -> 0..OnlineLimit + 1]
    <3>1. Head(recvq[c]).id \in Ids \cup {NoId}
      BY <1>1 DEF Datagram
    <3>2. CASE UNCHANGED <<sid, closing, quiet>>
      BY <3>2 DEF ClientTypes
    <3>3. CASE /\ sid' = [sid EXCEPT ![c] = Head(recvq[c]).id]
               /\ closing' = [closing EXCEPT ![c] = FALSE]
               /\ quiet' = [quiet EXCEPT ![c] = 0]
      BY <3>1, <3>3, <1>2 DEF ClientTypes
    <3> QED BY <1>3, <3>2, <3>3 DEF doResponseLogin
  <2> QED BY <2>1, <1>1, <1>3, ThreadsRest DEF doResponseLogin, ServerTypes, server, NetTypes, ClientTypes
<1>4. CASE doResponseLogout(c)
  <2>1. ThreadTypes' /\ sendq' \in [Clients -> Seq(Kinds)]
    BY <1>4, PlaceOK, GotoOK, CommitOK, ThreadsRest
    DEF doResponseLogout, StartLogin, ClientTypes, Kinds, Threads
  <2>2. sid' \in [Clients -> Ids \cup {NoId}]
    BY <1>4 DEF doResponseLogout, ClientTypes
  <2> QED BY <2>1, <2>2, <1>1, <1>4 DEF doResponseLogout, ServerTypes, server, NetTypes, ClientTypes
<1>5. CASE doResponseList(c)
  <2>1. quiet' \in [Clients -> 0..OnlineLimit + 1]
    BY <1>2, <1>5 DEF doResponseList, ClientTypes
  <2> QED BY <2>1, <1>1, <1>5, ThreadsRest DEF doResponseList, ServerTypes, server, NetTypes, ClientTypes
<1> QED BY <1>3, <1>4, <1>5

\* The steps of the server.
LEMMA Fresh ==
    ASSUME ServerTypes, NEW a \in Addrs, NEW h \in BOOLEAN
    PROVE  [addr |-> a, misses |-> 0, idle |-> 0, heard |-> h] \in Rec
<1>1. 0 \in 0..MaxLose - 1 /\ 0 \in 0..EvictedBy + 1
  BY Constants
<1> QED BY <1>1 DEF Rec

LEMMA RefreshedOK ==
    ASSUME ServerTypes, NetTypes, NEW d, NEW kinds, Comes(d, kinds)
    PROVE  /\ d \in Datagram
           /\ DOMAIN Refreshed(d) = DOMAIN db
           /\ \A i \in DOMAIN db : Refreshed(d)[i] \in Rec
<1>1. d \in Datagram /\ d.at \in Addrs
  BY DEF Comes, NetTypes, Datagram
<1>2. [addr |-> d.at, misses |-> 0, idle |-> 0, heard |-> TRUE] \in Rec
  BY <1>1, Fresh
<1> QED BY <1>1, <1>2 DEF Refreshed, ServerTypes

LEMMA ServerTypesStep ==
    ASSUME TypeInv, ServerStep
    PROVE  TypeInv'
<1> USE DEF TypeInv
<1>0. ClientTypes' /\ ThreadTypes'
  <2>1. UNCHANGED client
    BY DEF ServerStep, ServeUnknown, ServeEcho, doRequestList, doRequestLogin, doRequestLogout, MonitorPass
  <2> QED BY <2>1, ThreadsRest DEF client, ClientTypes
<1>1. ASSUME NEW d \in net, ServeUnknown(d) PROVE TypeInv'
  <2>1. d.at \in Addrs /\ "LOGOUT" \in Kinds
    BY DEF NetTypes, Datagram, Kinds
  <2>2. {Down("LOGOUT", NoId, d.at)} \in SUBSET Datagram
    BY <2>1, DownOK
  <2>3. NetTypes'
    BY <1>1, <2>2, ArrivesOK DEF ServeUnknown
  <2> QED BY <1>0, <1>1, <2>3 DEF ServeUnknown, server, ServerTypes
<1>2. ASSUME NEW d \in net, ServeEcho(d) PROVE TypeInv'
  <2>1. NetTypes'
    BY <1>2, ArrivesOK DEF ServeEcho
  <2>2. ServerTypes'
    BY <1>2, RefreshedOK DEF ServeEcho, ServerTypes
  <2> QED BY <1>0, <2>1, <2>2
<1>3. ASSUME NEW d \in net, doRequestList(d) PROVE TypeInv'
  <2>1. d.at \in Addrs /\ "LIST" \in Kinds
    BY DEF NetTypes, Datagram, Kinds
  <2>2. {Down("LIST", NoId, d.at)} \in SUBSET Datagram
    BY <2>1, DownOK
  <2>3. NetTypes'
    BY <1>3, <2>2, ArrivesOK DEF doRequestList
  <2>4. ServerTypes'
    BY <1>3, RefreshedOK DEF doRequestList, ServerTypes
  <2> QED BY <1>0, <2>3, <2>4
<1>4. ASSUME NEW d \in net, doRequestLogin(d) PROVE TypeInv'
  <2>1. d.at \in Addrs /\ "LOGIN" \in Kinds
    BY DEF NetTypes, Datagram, Kinds
  <2>2. lastId' = lastId + 1 /\ lastId' \in Ids /\ lastId' \in 0..MaxLogins
    BY <1>4, Constants DEF doRequestLogin, ServerTypes, Ids
  <2>3. {Down("LOGIN", lastId', d.at)} \in SUBSET Datagram
    BY <2>1, <2>2, DownOK
  <2>4. NetTypes'
    BY <1>4, <2>3, ArrivesOK DEF doRequestLogin
  <2>5. ServerTypes'
    <3>1. /\ DOMAIN db' = DOMAIN db \cup {lastId'}
          /\ db'[lastId'] = [addr |-> d.at, misses |-> 0, idle |-> 0, heard |-> FALSE]
          /\ \A i \in DOMAIN db \ {lastId'} : db'[i] = Refreshed(d)[i]
      BY <1>4 DEF doRequestLogin
    <3>2. DOMAIN db' \subseteq 1..lastId'
      BY <2>2, <3>1 DEF ServerTypes
    <3>3. ASSUME NEW i \in DOMAIN db' PROVE db'[i] \in Rec
      BY <1>4, <2>1, <3>1, Fresh, RefreshedOK DEF doRequestLogin
    <3> QED BY <1>4, <2>2, <3>2, <3>3 DEF doRequestLogin, ServerTypes, Rec
  <2> QED BY <1>0, <2>4, <2>5
<1>5. ASSUME NEW d \in net, doRequestLogout(d) PROVE TypeInv'
  <2>1. d.at \in Addrs /\ "LOGOUT" \in Kinds
    BY DEF NetTypes, Datagram, Kinds
  <2>2. {Down("LOGOUT", NoId, d.at)} \in SUBSET Datagram
    BY <2>1, DownOK
  <2>3. NetTypes'
    BY <1>5, <2>2, ArrivesOK DEF doRequestLogout
  <2>4. ServerTypes'
    BY <1>5 DEF doRequestLogout, ServerTypes, Rec
  <2> QED BY <1>0, <2>3, <2>4
<1>6. CASE MonitorPass
  <2>1. ServerTypes'
    <3>1. ASSUME NEW i \in DOMAIN db \ Evicted PROVE [db[i] EXCEPT !.misses = Strikes(db[i])] \in Rec
      <4>1. db[i] \in Rec /\ db[i].misses \in 0..MaxLose - 1 /\ Strikes(db[i]) # MaxLose
        BY DEF ServerTypes, Evicted, Rec
      <4>2. Strikes(db[i]) \in 0..MaxLose - 1
        BY <4>1, Constants DEF Strikes
      <4> QED BY <4>1, <4>2 DEF Rec
    <3>2. DOMAIN db' \subseteq DOMAIN db /\ \A i \in DOMAIN db' : db'[i] \in Rec
      BY <3>1, <1>6 DEF MonitorPass
    <3>3. untilPass' \in 0..MonitorEvery /\ lastId' = lastId
      BY <1>6, Constants DEF MonitorPass
    <3> QED BY <3>2, <3>3 DEF ServerTypes, Rec
  <2>2. NetTypes'
    <3>1. ASSUME NEW i \in Evicted PROVE Down("LOGOUT", NoId, db[i].addr) \in Datagram
      <4>1. db[i].addr \in Addrs /\ "LOGOUT" \in Kinds
        BY DEF Evicted, ServerTypes, Rec, Kinds
      <4> QED BY <4>1, DownOK
    <3>2. net' \subseteq Datagram
      BY <3>1, <1>6 DEF MonitorPass, NetTypes
    <3> QED BY <3>2, <1>6 DEF MonitorPass, NetTypes
  <2> QED BY <1>0, <2>1, <2>2
<1> QED BY <1>1, <1>2, <1>3, <1>4, <1>5, <1>6 DEF ServerStep

LEMMA NetworkTypes ==
    ASSUME TypeInv, NetworkStep
    PROVE  TypeInv'
<1> USE DEF TypeInv
<1>1. UNCHANGED <<server, client>>
  BY DEF NetworkStep, Lose, Undelivered
<1>2. NetTypes'
  <2>1. ASSUME NEW d \in net, Lose(d) PROVE NetTypes'
    BY <2>1, Constants DEF Lose, NetTypes
  <2>2. ASSUME NEW d \in net, Undelivered(d) PROVE NetTypes'
    BY <2>2 DEF Undelivered, NetTypes
  <2> QED BY <2>1, <2>2 DEF NetworkStep
<1> QED BY <1>1, <1>2, ThreadsRest DEF server, client, ServerTypes, ClientTypes

\* What a second does to the threads that sleep: none of them was due.
LEMMA TickThreads ==
    ASSUME ThreadTypes, Tick
    PROVE  ThreadTypes'
<1> DEFINE All == [at : Places, try : 0..RetryTimes, slept : Nat, due : BOOLEAN]
<1>1. ASSUME NEW c \in Clients, NEW t \in Threads
      PROVE  ThreadOK(thread'[c][t])
  <2> DEFINE th == thread[c][t]
             n  == IF th.at \in {"login", "closewait"} THEN th.slept + 1 ELSE th.slept
  <2>1. CASE Running(c) /\ Sleeping(thread[c][t])
    <3>1. thread'[c][t] = [thread[c][t] EXCEPT !.slept = n, !.due = TRUE]
      BY <2>1 DEF Tick
    <3>2. th \in All /\ ThreadOK(th) /\ ~ th.due /\ th.at # "close"
      BY <2>1 DEF ThreadTypes, Tick, Quiescent, Sleeping
    <3>3. n \in Nat /\ (th.at = "login" => n <= RetryTimes) /\ (th.at = "closewait" => n <= 2)
          /\ (th.at \notin {"login", "closewait"} => n = 0)
      BY <3>2, Constants DEF ThreadOK
    <3> HIDE DEF n
    <3>4. thread'[c][t] = [at |-> th.at, try |-> th.try, slept |-> n, due |-> TRUE]
      BY <3>1, <3>2
    <3> QED BY <3>2, <3>3, <3>4 DEF ThreadOK
  <2>2. CASE ~ (Running(c) /\ Sleeping(thread[c][t]))
    BY <2>2 DEF Tick, ThreadTypes
  <2> QED BY <2>1, <2>2
<1>2. thread' = [c \in Clients |-> [t \in Threads |-> thread'[c][t]]]
  BY DEF Tick
<1>3. thread' \in [Clients -> [Threads -> All]]
  BY <1>1, <1>2 DEF ThreadOK
<1> QED BY <1>1, <1>3 DEF ThreadTypes, ThreadOK

LEMMA TickTypes ==
    ASSUME TypeInv, Tick
    PROVE  TypeInv'
<1> USE DEF TypeInv
<1>1. ServerTypes'
  <2>1. ASSUME NEW i \in DOMAIN db
        PROVE  [db[i] EXCEPT !.idle = Min2(db[i].idle + 1, EvictedBy + 1)] \in Rec
    <3>1. db[i] \in Rec /\ db[i].idle \in 0..EvictedBy + 1
      BY DEF ServerTypes, Rec
    <3>2. Min2(db[i].idle + 1, EvictedBy + 1) \in 0..EvictedBy + 1
      BY <3>1, Constants DEF Min2
    <3> QED BY <3>1, <3>2 DEF Rec
  <2>2. DOMAIN db' = DOMAIN db /\ \A i \in DOMAIN db' : db'[i] \in Rec
    BY <2>1 DEF Tick
  <2>3. untilPass' = untilPass - 1 /\ untilPass > 0 /\ lastId' = lastId
    BY DEF Tick, Quiescent
  <2>4. untilPass' \in 0..MonitorEvery
    BY <2>3, Constants DEF ServerTypes
  <2> QED BY <2>2, <2>3, <2>4 DEF ServerTypes, Rec
<1>2. quiet' \in [Clients -> 0..OnlineLimit + 1]
  <2>1. ASSUME NEW c \in Clients PROVE quiet'[c] \in 0..OnlineLimit + 1
    <3>1. quiet'[c] = Min2(quiet[c] + 1, OnlineLimit + 1) \/ quiet'[c] = quiet[c]
      BY DEF Tick
    <3>2. quiet[c] \in 0..OnlineLimit + 1
      BY DEF ClientTypes
    <3> QED BY <3>1, <3>2, Constants DEF Min2
  <2> QED BY <2>1 DEF Tick
<1> QED BY <1>1, <1>2, TickThreads DEF Tick, NetTypes, ClientTypes

LEMMA StutterTypes ==
    ASSUME TypeInv, UNCHANGED vars
    PROVE  TypeInv'
BY ThreadsRest DEF vars, server, client, TypeInv, ServerTypes, NetTypes, ClientTypes

LEMMA TypesStep == TypeInv /\ [Next]_vars => TypeInv'
<1> SUFFICES ASSUME TypeInv, [Next]_vars PROVE TypeInv'
  OBVIOUS
<1>1. ASSUME NEW c \in Clients, ClientStep(c) PROVE TypeInv'
  BY <1>1, ThreadStepTypes, EchoTypes, QueueTypes, HandleTypes DEF ClientStep
<1> QED BY <1>1, ServerTypesStep, NetworkTypes, TickTypes, StutterTypes DEF Next

\* However many clients, logins and faults, and whatever the periods: every variable
\* stays in its type, no thread sleeps or tries more often than its loop allows, no
\* record of the table has as many misses as evict it, and no id is given twice.
THEOREM TypesHold == Spec => []TypeOK
<1>1. TypeInv => TypeOK
  <2> SUFFICES ASSUME TypeInv PROVE TypeOK
    OBVIOUS
  <2>1. ASSUME NEW c \in Clients, NEW t \in Threads
        PROVE  /\ thread[c][t].try \in 0..RetryTimes
               /\ thread[c][t].slept \in 0..(IF At(c, t) = "closewait" THEN 2 ELSE RetryTimes)
    BY Constants DEF TypeInv, ThreadTypes, ThreadOK, At
  <2>2. faults.lost \in 0..faults.may.lost /\ faults.dup \in 0..faults.may.dup
    BY Constants DEF TypeInv, NetTypes
  <2> QED BY <2>1, <2>2 DEF TypeOK, TypeInv, ServerTypes, NetTypes, ClientTypes, Rec, Datagram
<1> QED BY <1>1, TypesInit, TypesStep, PTL DEF Spec

---------------------------------------------------------------------------
(* An attempt of the handle thread to log in cannot succeed: whoever sets  *)
(* the id is the handle thread itself, and it is waiting.                  *)

LEMMA GotoMoves ==
    ASSUME ThreadTypes, NEW c \in Clients, NEW t \in Threads, NEW place, Goto(c, t, place)
    PROVE  \A e \in Clients, u \in Threads :
              thread'[e][u] = IF e = c /\ u = t THEN place ELSE thread[e][u]
BY DEF ThreadTypes, Goto

LEMMA DoomedStep == TypeInv /\ HandlerReloginIsDoomed /\ [Next]_vars => HandlerReloginIsDoomed'
<1> SUFFICES ASSUME TypeInv, HandlerReloginIsDoomed, [Next]_vars, NEW e \in Clients,
                    At(e, "handle")' = "login"
             PROVE  isLogout(e)'
  BY DEF HandlerReloginIsDoomed
<1> USE DEF HandlerReloginIsDoomed, isLogout, isLogin, At
<1>a. /\ sid \in [Clients -> Ids \cup {NoId}]
      /\ thread \in [Clients -> [Threads -> [at : Places, try : 0..RetryTimes, slept : Nat, due : BOOLEAN]]]
      /\ "handle" \in Threads /\ "echo" \in Threads /\ "main" \in Threads
  BY DEF TypeInv, ClientTypes, ThreadTypes, Threads
<1>b. ASSUME UNCHANGED <<sid, thread>> PROVE sid'[e] = NoId
  BY <1>b
<1>1. ASSUME NEW c \in Clients, ClientStep(c) PROVE sid'[e] = NoId
  <2>1. ASSUME NEW t \in Threads, ThreadStep(c, t) PROVE sid'[e] = NoId
    <3>1. CASE LoginWait(c, t)
      <4>1. thread[c][t].at = "login" /\ sid[c] = NoId /\ sid' = sid
        BY <3>1 DEF LoginWait
      <4>2. \E place : thread' = [thread EXCEPT ![c][t] = place]
        BY <3>1 DEF LoginWait, Goto
      <4>3. e # c => thread'[e]["handle"] = thread[e]["handle"]
        BY <4>2, <1>a
      <4> QED BY <4>1, <4>3
    <3>2. CASE LoginSeen(c, t)
      <4>1. thread[c][t].at = "login" /\ sid[c] # NoId /\ sid' = sid /\ t # "handle"
        BY <3>2 DEF LoginSeen
      <4>2. e # c => thread'[e] = thread[e]
        BY <3>2, <1>a DEF LoginSeen
      <4>3. e = c => thread'[e]["handle"] = thread[e]["handle"]
        <5>1. CASE t = "main"
          <6>1. thread' = [thread EXCEPT ![c] = [thread[c] EXCEPT !["main"] = Place("joined"), !["echo"] = Place("sleep1")]]
            BY <3>2, <5>1 DEF LoginSeen
          <6> QED BY <6>1, <1>a
        <5>2. CASE t = "echo"
          <6>1. thread' = [thread EXCEPT ![c] = [thread[c] EXCEPT !["echo"] = Place("sleep2")]]
            BY <3>2, <5>2 DEF LoginSeen
          <6> QED BY <6>1, <1>a
        <5> QED BY <4>1, <5>1, <5>2 DEF Threads
      <4> QED BY <4>1, <4>2, <4>3
    <3>3. CASE CloseBegin(c, t)
      <4>1. sid' = [sid EXCEPT ![c] = NoId] /\ Goto(c, t, Attempt("close", 1))
        BY <3>3 DEF CloseBegin
      <4>2. e # c => thread'[e]["handle"] = thread[e]["handle"]
        BY <4>1, <1>a DEF Goto
      <4> QED BY <4>1, <4>2, <1>a
    <3>4. CASE CloseCheck(c, t)
      <4>1. sid' = sid /\ (thread' = thread \/ thread' = [thread EXCEPT ![c][t].at = "closewait"])
        BY <3>4 DEF CloseCheck
      <4>2. thread' = [thread EXCEPT ![c][t].at = "closewait"] => thread'[e]["handle"].at \in {thread[e]["handle"].at, "closewait"}
        <5>1. SUFFICES ASSUME thread' = [thread EXCEPT ![c][t].at = "closewait"]
                       PROVE  thread'[e]["handle"].at \in {thread[e]["handle"].at, "closewait"}
          OBVIOUS
        <5>2. Goto(c, t, [thread[c][t] EXCEPT !.at = "closewait"])
          BY <5>1 DEF Goto
        <5>3. thread'[e]["handle"] = IF e = c /\ t = "handle" THEN [thread[c][t] EXCEPT !.at = "closewait"] ELSE thread[e]["handle"]
          BY <5>2, <1>a, GotoMoves DEF TypeInv
        <5>4. thread[c][t] \in [at : Places, try : 0..RetryTimes, slept : Nat, due : BOOLEAN]
          BY <1>a
        <5> QED BY <5>3, <5>4
      <4> QED BY <4>1, <4>2
    <3>5. CASE CloseAgain(c, t)
      <4>1. /\ sid' = sid /\ thread[c][t].at = "closewait"
            /\ \/ thread' = thread
               \/ Goto(c, t, [thread[c][t] EXCEPT !.due = FALSE])
               \/ Goto(c, t, Attempt("close", thread[c][t].try + 1))
        BY <3>5 DEF CloseAgain
      <4>2. ASSUME Goto(c, t, [thread[c][t] EXCEPT !.due = FALSE])
            PROVE  thread'[e]["handle"].at = thread[e]["handle"].at
        <5>1. thread'[e]["handle"] = IF e = c /\ t = "handle" THEN [thread[c][t] EXCEPT !.due = FALSE] ELSE thread[e]["handle"]
          BY <4>2, <1>a, GotoMoves DEF TypeInv
        <5>2. thread[c][t] \in [at : Places, try : 0..RetryTimes, slept : Nat, due : BOOLEAN]
          BY <1>a
        <5> QED BY <5>1, <5>2
      <4>3. ASSUME Goto(c, t, Attempt("close", thread[c][t].try + 1))
            PROVE  thread'[e]["handle"].at \in {thread[e]["handle"].at, "close"}
        <5>1. thread'[e]["handle"] = IF e = c /\ t = "handle" THEN Attempt("close", thread[c][t].try + 1) ELSE thread[e]["handle"]
          BY <4>3, <1>a, GotoMoves DEF TypeInv
        <5> QED BY <5>1 DEF Attempt
      <4> QED BY <4>1, <4>2, <4>3
    <3> QED BY <2>1, <3>1, <3>2, <3>3, <3>4, <3>5 DEF ThreadStep
  <2>2. CASE EchoBeat(c) \/ EchoLook(c) \/ EchoDrop(c) \/ EchoTry(c) \/ EchoAgain(c)
    <3>1. \E place : thread' = [thread EXCEPT ![c]["echo"] = place]
      BY <2>2 DEF EchoBeat, EchoLook, EchoDrop, EchoTry, EchoAgain, StartLogin, Goto
    <3>2. thread'[e]["handle"] = thread[e]["handle"]
      BY <3>1, <1>a
    <3>3. sid' = sid \/ sid' = [sid EXCEPT ![c] = NoId]
      BY <2>2 DEF EchoBeat, EchoLook, EchoDrop, EchoTry, EchoAgain
    <3> QED BY <3>2, <3>3, <1>a
  <2>3. CASE Send(c) \/ Say(c) \/ (\E d \in net : Receive(c, d)) \/ UserExit(c) \/ Move(c) \/ doResponseList(c)
    BY <1>b, <2>3 DEF Send, Say, Receive, UserExit, Move, doResponseList
  <2>4. CASE Start(c)
    <3>1. sid' = sid /\ \E place : thread' = [thread EXCEPT ![c]["main"] = place]
      BY <2>4 DEF Start, StartLogin, Goto
    <3>2. thread'[e]["handle"] = thread[e]["handle"]
      BY <3>1, <1>a
    <3> QED BY <3>1, <3>2
  <2>5. CASE doResponseLogin(c)
    <3>1. thread[c]["handle"].at = "take" /\ thread' = thread
      BY <2>5 DEF doResponseLogin, Handles
    <3>2. sid'[e] = sid[e] \/ e = c
      BY <2>5, <1>a DEF doResponseLogin
    <3> QED BY <3>1, <3>2
  <2>6. CASE doResponseLogout(c)
    <3>1. sid' = [sid EXCEPT ![c] = NoId]
      BY <2>6 DEF doResponseLogout
    <3>2. thread' = thread \/ \E place : thread' = [thread EXCEPT ![c]["handle"] = place]
      BY <2>6 DEF doResponseLogout, StartLogin, Goto
    <3>3. e # c => thread'[e]["handle"] = thread[e]["handle"]
      BY <3>2, <1>a
    <3> QED BY <3>1, <3>3, <1>a
  <2> QED BY <1>1, <2>1, <2>2, <2>3, <2>4, <2>5, <2>6 DEF ClientStep
<1>2. CASE ServerStep
  <2>1. UNCHANGED client
    BY <1>2 DEF ServerStep, ServeUnknown, ServeEcho, doRequestList, doRequestLogin, doRequestLogout, MonitorPass
  <2> QED BY <1>b, <2>1 DEF client
<1>3. CASE NetworkStep
  BY <1>b, <1>3 DEF NetworkStep, Lose, Undelivered, client
<1>4. CASE Tick
  <2>1. sid' = sid
    BY <1>4 DEF Tick
  <2>2. thread'[e]["handle"].at = thread[e]["handle"].at
    <3> DEFINE th == thread[e]["handle"]
    <3>1. \/ thread'[e]["handle"] = th
          \/ thread'[e]["handle"] = [thread[e]["handle"] EXCEPT
                                        !.slept = IF th.at \in {"login", "closewait"} THEN th.slept + 1 ELSE th.slept,
                                        !.due = TRUE]
      BY <1>4, <1>a DEF Tick
    <3>2. th \in [at : Places, try : 0..RetryTimes, slept : Nat, due : BOOLEAN]
      BY <1>a
    <3> QED BY <3>1, <3>2
  <2> QED BY <2>1, <2>2
<1>5. CASE UNCHANGED vars
  BY <1>b, <1>5 DEF vars, client
<1> QED BY <1>1, <1>2, <1>3, <1>4, <1>5 DEF Next

\* However many attempts and sleeps RETRY_TIMES allows: while the handle thread
\* waits for the answer to its LOGIN the status is LOGOUT, in every reachable
\* state, so every attempt runs to its end and to the dialog.
THEOREM DoomedHolds == Spec => []HandlerReloginIsDoomed
<1>1. Init => HandlerReloginIsDoomed
  BY DEF Init, HandlerReloginIsDoomed, isLogout, isLogin, At
<1> QED BY <1>1, TypesInit, TypesStep, DoomedStep, PTL DEF Spec

---------------------------------------------------------------------------
(* Who goes by which id.  An id belongs to a client that has it, or to     *)
(* whose address an answer that gives it is under way, or who has that     *)
(* answer in its queue.                                                    *)

Gives(d, i) == d.kind = "LOGIN" /\ d.id = i

Owned(i, c) == \/ sid[c] = i
               \/ \E d \in net : ~ d.up /\ Gives(d, i) /\ d.at[1] = c
               \/ \E k \in DOMAIN recvq[c] : Gives(recvq[c][k], i)

\* An id has one owner at most, the ids not given out yet have none, and a client
\* that moves takes an address of its own.
OwnersInv == /\ \A c \in Clients : addr[c][1] = c
             /\ \A i \in Ids, c \in Clients : Owned(i, c) => i <= lastId
             /\ \A i \in Ids, c, e \in Clients : Owned(i, c) /\ Owned(i, e) => c = e

\* Of all steps only doRequestLogin gives somebody an id he had no part in.
NoNewOwner == \A i \in Ids, c \in Clients : Owned(i, c)' => Owned(i, c)

LEMMA OwnersKept ==
    ASSUME OwnersInv, NoNewOwner, lastId' = lastId, \A c \in Clients : addr'[c][1] = c
    PROVE  OwnersInv'
BY DEF OwnersInv, NoNewOwner

\* A step that gives no id to anybody, empties queues at most, and puts no LOGIN
\* answer on the way.
LEMMA NothingGiven ==
    ASSUME TypeInv,
           \A c \in Clients : sid'[c] = sid[c] \/ sid'[c] = NoId,
           \A d \in net' : d \in net \/ d.up \/ d.kind # "LOGIN",
           recvq' = recvq
    PROVE  NoNewOwner
<1> SUFFICES ASSUME NEW i \in Ids, NEW c \in Clients, Owned(i, c)' PROVE Owned(i, c)
  BY DEF NoNewOwner
<1>1. i # NoId
  BY Constants DEF Ids, NoId
<1>2. CASE sid'[c] = i
  BY <1>1, <1>2 DEF Owned
<1>3. CASE \E d \in net' : ~ d.up /\ Gives(d, i) /\ d.at[1] = c
  BY <1>3 DEF Owned, Gives
<1>4. CASE \E k \in DOMAIN recvq'[c] : Gives(recvq'[c][k], i)
  BY <1>4 DEF Owned
<1> QED BY <1>2, <1>3, <1>4 DEF Owned, Gives

\* A thread takes the first message of its queue.
LEMMA TailOwns ==
    ASSUME TypeInv, NEW c \in Clients, recvq[c] # << >>, recvq' = [recvq EXCEPT ![c] = Tail(@)],
           NEW i \in Ids, NEW e \in Clients, NEW k \in DOMAIN recvq'[e], Gives(recvq'[e][k], i)
    PROVE  Owned(i, e)
<1>1. recvq \in [Clients -> Seq(Datagram)]
  BY DEF TypeInv, ClientTypes
<1>2. CASE e # c
  BY <1>1, <1>2 DEF Owned
<1>3. CASE e = c
  <2>1. recvq'[e] = Tail(recvq[c]) /\ recvq[c] \in Seq(Datagram)
    BY <1>1, <1>3
  <2>2. /\ Tail(recvq[c]) \in Seq(Datagram) /\ Len(recvq[c]) \in Nat
        /\ Len(Tail(recvq[c])) = Len(recvq[c]) - 1
    BY <2>1
  <2>3. DOMAIN Tail(recvq[c]) = 1..Len(Tail(recvq[c]))
    BY <2>2
  <2>4. k \in 1..Len(recvq[c]) - 1
    BY <2>1, <2>2, <2>3
  <2>5. k + 1 \in DOMAIN recvq[c] /\ Tail(recvq[c])[k] = recvq[c][k + 1]
    BY <2>1, <2>2, <2>4
  <2> QED BY <2>5, <1>3, <2>1, <2>2 DEF Owned
<1> QED BY <1>2, <1>3

LEMMA OwnersInit == Init => OwnersInv
<1> SUFFICES ASSUME Init PROVE OwnersInv
  OBVIOUS
<1>1. \A i \in Ids : i # NoId
  BY Constants DEF Ids, NoId
<1>2. \A i \in Ids, c \in Clients : ~ Owned(i, c)
  BY <1>1 DEF Init, Owned
<1> QED BY <1>2 DEF OwnersInv, Init

LEMMA OwnersStep == TypeInv /\ OwnersInv /\ [Next]_vars => OwnersInv'
<1> SUFFICES ASSUME TypeInv, OwnersInv, [Next]_vars PROVE OwnersInv'
  OBVIOUS
<1>a. sid \in [Clients -> Ids \cup {NoId}] /\ recvq \in [Clients -> Seq(Datagram)] /\ addr \in [Clients -> Addrs]
  BY DEF TypeInv, ClientTypes
<1>b. \A c \in Clients : addr[c][1] = c
  BY DEF OwnersInv
<1>1. ASSUME NEW c \in Clients, ClientStep(c) PROVE OwnersInv'
  <2>1. CASE (\E t \in Threads : ThreadStep(c, t)) \/ Say(c) \/ Start(c) \/ UserExit(c)
             \/ EchoBeat(c) \/ EchoLook(c) \/ EchoDrop(c) \/ EchoTry(c) \/ EchoAgain(c)
    <3>1. /\ \A e \in Clients : sid'[e] = sid[e] \/ sid'[e] = NoId
          /\ net' = net /\ recvq' = recvq /\ addr' = addr /\ lastId' = lastId
      BY <2>1, <1>a DEF ThreadStep, LoginWait, LoginSeen, CloseBegin, CloseCheck, CloseAgain, Say, Start,
         UserExit, EchoBeat, EchoLook, EchoDrop, EchoTry, EchoAgain, server
    <3>2. NoNewOwner
      BY <3>1, NothingGiven
    <3> QED BY <1>b, <3>1, <3>2, OwnersKept
  <2>2. CASE Send(c)
    <3>1. /\ net' = net \cup {Up(Head(sendq[c]), sid[c], addr[c])}
          /\ sid' = sid /\ recvq' = recvq /\ addr' = addr /\ lastId' = lastId
      BY <2>2 DEF Send, server
    <3>2. NoNewOwner
      BY <3>1, NothingGiven DEF Up
    <3> QED BY <1>b, <3>1, <3>2, OwnersKept
  <2>3. CASE Move(c)
    <3>1. sid' = sid /\ recvq' = recvq /\ net' = net /\ lastId' = lastId
      BY <2>3 DEF Move, server
    <3>2. addr' = [addr EXCEPT ![c] = <<c, addr[c][2] + 1>>]
      BY <2>3 DEF Move
    <3>3. \A e \in Clients : addr'[e][1] = e
      BY <1>a, <1>b, <3>2
    <3>4. NoNewOwner
      BY <3>1, NothingGiven
    <3> QED BY <3>1, <3>3, <3>4, OwnersKept
  <2>4. CASE \E d \in net : Receive(c, d)
    <3>1. PICK d \in net : Receive(c, d)
      BY <2>4
    <3>2. /\ ~ d.up /\ d.at = addr[c] /\ net' \subseteq net /\ recvq' = [recvq EXCEPT ![c] = Append(@, d)]
          /\ sid' = sid /\ addr' = addr /\ lastId' = lastId
      BY <3>1 DEF Receive, Arrives, server
    <3>3. ASSUME NEW i \in Ids, NEW e \in Clients, NEW k \in DOMAIN recvq'[e], Gives(recvq'[e][k], i)
          PROVE  Owned(i, e)
      <4>1. CASE e # c
        BY <1>a, <3>2, <3>3, <4>1 DEF Owned
      <4>2. CASE e = c
        <5>1. recvq'[e] = Append(recvq[c], d) /\ recvq[c] \in Seq(Datagram) /\ d \in Datagram
          BY <1>a, <3>2, <4>2 DEF TypeInv, NetTypes
        <5>2. (k \in DOMAIN recvq[c] /\ recvq'[e][k] = recvq[c][k]) \/ recvq'[e][k] = d
          BY <5>1
        <5> QED BY <1>b, <3>2, <3>3, <4>2, <5>2 DEF Owned
      <4> QED BY <4>1, <4>2
    <3>4. NoNewOwner
      BY <3>2, <3>3 DEF NoNewOwner, Owned
    <3> QED BY <1>b, <3>2, <3>4, OwnersKept
  <2>5. CASE doResponseLogin(c) \/ doResponseLogout(c) \/ doResponseList(c)
    <3>1. /\ recvq[c] # << >> /\ recvq' = [recvq EXCEPT ![c] = Tail(@)]
          /\ net' = net /\ addr' = addr /\ lastId' = lastId
      BY <2>5 DEF doResponseLogin, doResponseLogout, doResponseList, Handles, server
    <3>2. ASSUME NEW i \in Ids, NEW e \in Clients, sid'[e] = i PROVE Owned(i, e)
      <4>1. i # NoId
        BY Constants DEF Ids, NoId
      <4>2. CASE sid'[e] = sid[e]
        BY <3>2, <4>2 DEF Owned
      <4>3. CASE sid'[e] # sid[e]
        <5>1. e = c /\ sid'[e] = Head(recvq[c]).id /\ Head(recvq[c]).kind = "LOGIN"
          <6>1. sid' = [sid EXCEPT ![c] = NoId] => sid'[e] = sid[e] \/ sid'[e] = NoId
            BY <1>a
          <6>2. sid' = [sid EXCEPT ![c] = Head(recvq[c]).id] => sid'[e] = sid[e] \/ (e = c /\ sid'[e] = Head(recvq[c]).id)
            BY <1>a
          <6> QED BY <2>5, <3>2, <4>1, <4>3, <6>1, <6>2 DEF doResponseLogin, doResponseLogout, doResponseList, Handles
        <5>2. 1 \in DOMAIN recvq[c] /\ recvq[c][1] = Head(recvq[c])
          BY <1>a, <3>1
        <5> QED BY <3>2, <5>1, <5>2 DEF Owned, Gives
      <4> QED BY <4>2, <4>3
    <3>3. NoNewOwner
      BY <3>1, <3>2, TailOwns DEF NoNewOwner, Owned
    <3> QED BY <1>b, <3>1, <3>3, OwnersKept
  <2> QED BY <1>1, <2>1, <2>2, <2>3, <2>4, <2>5 DEF ClientStep
<1>2. CASE ServerStep
  <2>a. UNCHANGED client
    BY <1>2 DEF ServerStep, ServeUnknown, ServeEcho, doRequestList, doRequestLogin, doRequestLogout, MonitorPass
  <2>b. sid' = sid /\ recvq' = recvq /\ addr' = addr
    BY <2>a DEF client
  <2>1. ASSUME NEW d \in net, doRequestLogin(d) PROVE OwnersInv'
    <3>1. d.at \in Addrs /\ lastId \in 0..MaxLogins /\ lastId' = lastId + 1
      BY <2>1 DEF doRequestLogin, TypeInv, NetTypes, ServerTypes, Datagram
    <3>2. net' \subseteq net \cup {Down("LOGIN", lastId', d.at)}
      BY <2>1 DEF doRequestLogin, Arrives
    <3>3. ASSUME NEW i \in Ids, NEW c \in Clients, Owned(i, c)'
          PROVE  Owned(i, c) \/ (i = lastId + 1 /\ c = d.at[1])
      <4>1. CASE \E g \in net' : ~ g.up /\ Gives(g, i) /\ g.at[1] = c
        <5>1. PICK g \in net' : ~ g.up /\ Gives(g, i) /\ g.at[1] = c
          BY <4>1
        <5>2. CASE g \in net
          BY <5>1, <5>2 DEF Owned
        <5>3. CASE g = Down("LOGIN", lastId', d.at)
          BY <5>1, <5>3, <3>1 DEF Gives, Down
        <5> QED BY <3>2, <5>2, <5>3
      <4>2. CASE sid'[c] = i \/ \E k \in DOMAIN recvq'[c] : Gives(recvq'[c][k], i)
        BY <2>b, <4>2 DEF Owned
      <4> QED BY <3>3, <4>1, <4>2 DEF Owned, Gives
    <3>4. ASSUME NEW i \in Ids, NEW c \in Clients, Owned(i, c)' PROVE i <= lastId'
      <4>1. i = lastId + 1 \/ i <= lastId
        BY <3>3, <3>4 DEF OwnersInv
      <4> QED BY <3>1, <4>1, Constants DEF Ids
    <3>5. ASSUME NEW i \in Ids, NEW c \in Clients, NEW e \in Clients, Owned(i, c)', Owned(i, e)' PROVE c = e
      <4>1. CASE i = lastId + 1
        <5>1. ~ Owned(i, c) /\ ~ Owned(i, e)
          BY <4>1, <3>1 DEF OwnersInv
        <5> QED BY <3>3, <3>5, <5>1
      <4>2. CASE i # lastId + 1
        <5>1. Owned(i, c) /\ Owned(i, e)
          BY <3>3, <3>5, <4>2
        <5> QED BY <5>1 DEF OwnersInv
      <4> QED BY <4>1, <4>2
    <3> QED BY <1>b, <2>b, <3>4, <3>5 DEF OwnersInv
  <2>2. ASSUME NEW d \in net, ServeUnknown(d) \/ ServeEcho(d) \/ doRequestList(d) \/ doRequestLogout(d)
        PROVE  OwnersInv'
    <3>1. lastId' = lastId /\ \A g \in net' : g \in net \/ g.up \/ g.kind # "LOGIN"
      BY <2>2 DEF ServeUnknown, ServeEcho, doRequestList, doRequestLogout, Arrives, Down, server
    <3> QED BY <1>b, <2>b, <3>1, NothingGiven, OwnersKept
  <2>3. CASE MonitorPass
    <3>1. lastId' = lastId /\ \A g \in net' : g \in net \/ g.up \/ g.kind # "LOGIN"
      BY <2>3 DEF MonitorPass, Down
    <3> QED BY <1>b, <2>b, <3>1, NothingGiven, OwnersKept
  <2> QED BY <1>2, <2>1, <2>2, <2>3 DEF ServerStep
<1>3. CASE NetworkStep \/ Tick \/ UNCHANGED vars
  <2>1. net' \subseteq net /\ sid' = sid /\ recvq' = recvq /\ addr' = addr /\ lastId' = lastId
    BY <1>3 DEF NetworkStep, Lose, Undelivered, Tick, vars, server, client
  <2> QED BY <1>b, <2>1, NothingGiven, OwnersKept
<1> QED BY <1>1, <1>2, <1>3 DEF Next

\* Whatever the network loses, repeats and delays and however often clients log in,
\* are evicted and move: no two of them ever go by one id.
THEOREM IdentitiesHold == Spec => []NoSharedIdentity
<1>1. TypeInv /\ OwnersInv => NoSharedIdentity
  <2> SUFFICES ASSUME TypeInv, OwnersInv, NEW c \in Clients, NEW e \in Clients, isLogin(c), sid[c] = sid[e]
               PROVE  c = e
    BY DEF NoSharedIdentity
  <2>1. sid[c] \in Ids
    BY DEF TypeInv, ClientTypes, isLogin
  <2>2. Owned(sid[c], c) /\ Owned(sid[c], e)
    BY DEF Owned
  <2> QED BY <2>1, <2>2 DEF OwnersInv
<1> QED BY <1>1, TypesInit, TypesStep, OwnersInit, OwnersStep, PTL DEF Spec

---------------------------------------------------------------------------
(* The monitor.  With the passes MonitorEvery apart, a record's seconds of *)
(* silence and the seconds to the next pass add up to what its misses say: *)
(* no more than Latest, which bounds how long a silent client stays, and,  *)
(* once it has been struck, no less than Earliest, which bounds how soon   *)
(* one can be thrown out.                                                  *)

Latest(r)   == LoseSeconds - 1 + (r.misses + 1) * MonitorEvery
Earliest(r) == (IF r.heard THEN LoseSeconds ELSE 0) + r.misses * MonitorEvery

Timely(r, u) == /\ r.idle + u <= Latest(r)
                /\ r.misses > 0 => r.idle + u >= Earliest(r)

MonitorInv == \A i \in DOMAIN db : Timely(db[i], untilPass)

LEMMA Times ==
    ASSUME NEW n \in Nat, NEW m \in Nat, NEW k \in Nat
    PROVE  /\ n * k \in Nat /\ (n + 1) * k = n * k + k /\ (n + 2) * k = n * k + k + k
           /\ n <= m => n * k <= m * k
<1>1. n * k \in Nat /\ (n + 1) * k = n * k + k /\ (n + 2) * k = n * k + k + k
  OBVIOUS
<1>2. ASSUME n <= m PROVE n * k <= m * k
  <2>1. PICK j \in Nat : m = n + j
    <3>1. m - n \in Nat /\ m = n + (m - n)
      BY <1>2
    <3> QED BY <3>1
  <2>2. m * k = n * k + j * k /\ j * k \in Nat
    BY <2>1
  <2> QED BY <1>1, <2>2
<1> QED BY <1>1, <1>2

\* No record outlives EvictedBy.
LEMMA TimelyBound ==
    ASSUME NEW r \in Rec, NEW u \in 0..MonitorEvery, Timely(r, u)
    PROVE  r.idle < EvictedBy
<1>1. r.misses + 1 <= MaxLose /\ r.misses + 1 \in Nat /\ MaxLose \in Nat /\ MonitorEvery \in Nat
  BY Constants DEF Rec
<1>2. (r.misses + 1) * MonitorEvery <= MaxLose * MonitorEvery /\ (r.misses + 1) * MonitorEvery \in Nat
      /\ MaxLose * MonitorEvery \in Nat
  BY <1>1, Times
<1>3. r.idle + u <= LoseSeconds - 1 + (r.misses + 1) * MonitorEvery
  BY DEF Timely, Latest
<1>4. r.idle \in Nat
  BY Constants DEF Rec
<1> QED BY <1>2, <1>3, <1>4, Constants DEF EvictedBy

\* A record just made or just refreshed is timely.
LEMMA FreshTimely ==
    ASSUME NEW a, NEW h, NEW u \in 0..MonitorEvery
    PROVE  Timely([addr |-> a, misses |-> 0, idle |-> 0, heard |-> h], u)
BY Constants DEF Timely, Latest, Earliest

\* A pass: a struck record gains a miss as it gains a period.
LEMMA PassTimely ==
    ASSUME NEW r \in Rec, Timely(r, 0), Strikes(r) # MaxLose
    PROVE  Timely([r EXCEPT !.misses = Strikes(r)], MonitorEvery)
<1>1. /\ r.misses \in Nat /\ r.misses < MaxLose /\ r.idle \in Nat /\ r.heard \in BOOLEAN
      /\ MonitorEvery \in Nat /\ LoseSeconds \in Nat
  BY Constants DEF Rec
<1>2. r.misses * MonitorEvery \in Nat /\ (r.misses + 1) * MonitorEvery = r.misses * MonitorEvery + MonitorEvery
      /\ (r.misses + 2) * MonitorEvery = r.misses * MonitorEvery + MonitorEvery + MonitorEvery
  BY <1>1, Times
<1>3. CASE ~ r.heard \/ r.idle >= LoseSeconds
  <2>1. [r EXCEPT !.misses = Strikes(r)] = [r EXCEPT !.misses = r.misses + 1]
    BY <1>1, <1>3 DEF Strikes
  <2>2. /\ [r EXCEPT !.misses = r.misses + 1].misses = r.misses + 1
        /\ [r EXCEPT !.misses = r.misses + 1].idle = r.idle
        /\ [r EXCEPT !.misses = r.misses + 1].heard = r.heard
    BY DEF Rec
  <2>3. (r.misses + 1) + 1 = r.misses + 2
    BY <1>1
  <2>4. r.idle + MonitorEvery <= LoseSeconds - 1 + (r.misses + 2) * MonitorEvery
    BY <1>1, <1>2 DEF Timely, Latest
  <2>5. r.idle + MonitorEvery >= (IF r.heard THEN LoseSeconds ELSE 0) + (r.misses + 1) * MonitorEvery
    <3>1. CASE r.misses = 0
      BY <1>1, <1>2, <1>3, <3>1
    <3>2. CASE r.misses > 0
      BY <1>1, <1>2, <3>2 DEF Timely, Earliest
    <3> QED BY <1>1, <3>1, <3>2
  <2> QED BY <2>1, <2>2, <2>3, <2>4, <2>5 DEF Timely, Latest, Earliest
<1>4. CASE r.heard /\ r.idle < LoseSeconds
  <2>1. Strikes(r) = r.misses /\ [r EXCEPT !.misses = r.misses] = r
    BY <1>1, <1>4 DEF Strikes, Rec
  <2>2. r.misses = 0
    BY <1>1, <1>2, <1>4 DEF Timely, Earliest
  <2>3. r.idle + MonitorEvery <= LoseSeconds - 1 + (r.misses + 1) * MonitorEvery
    BY <1>1, <1>2, <1>4
  <2> QED BY <2>1, <2>2, <2>3 DEF Timely, Latest
<1> QED BY <1>1, <1>3, <1>4

LEMMA SecondTimely ==
    ASSUME NEW r \in Rec, NEW u \in 1..MonitorEvery, Timely(r, u)
    PROVE  Timely([r EXCEPT !.idle = Min2(r.idle + 1, EvictedBy + 1)], u - 1)
<1>1. r.idle < EvictedBy
  BY TimelyBound
<1>2. r.idle \in Nat /\ EvictedBy \in Nat /\ u \in Nat
  BY Constants DEF Rec
<1>3. Min2(r.idle + 1, EvictedBy + 1) = r.idle + 1
  BY <1>1, <1>2 DEF Min2
<1>4. /\ [r EXCEPT !.idle = r.idle + 1].idle = r.idle + 1
      /\ [r EXCEPT !.idle = r.idle + 1].misses = r.misses
      /\ [r EXCEPT !.idle = r.idle + 1].heard = r.heard
  BY DEF Rec
<1>5. (r.idle + 1) + (u - 1) = r.idle + u
  BY <1>2
<1> QED BY <1>3, <1>4, <1>5 DEF Timely, Latest, Earliest

\* Clients and the network do not touch the table.
LEMMA ServerAlone ==
    /\ \A c \in Clients : ClientStep(c) => UNCHANGED server
    /\ NetworkStep \/ UNCHANGED vars => UNCHANGED server
<1>1. ASSUME NEW c \in Clients, ClientStep(c) PROVE UNCHANGED server
  BY <1>1 DEF ClientStep, ThreadStep, LoginWait, LoginSeen, CloseBegin, CloseCheck, CloseAgain, Say, Start,
     UserExit, EchoBeat, EchoLook, EchoDrop, EchoTry, EchoAgain, Send, Receive, Move,
     doResponseLogin, doResponseLogout, doResponseList
<1>2. NetworkStep \/ UNCHANGED vars => UNCHANGED server
  BY DEF NetworkStep, Lose, Undelivered, vars
<1> QED BY <1>1, <1>2

LEMMA MonitorStep == TypeInv /\ MonitorInv /\ [Next]_vars => MonitorInv'
<1> SUFFICES ASSUME TypeInv, MonitorInv, [Next]_vars, NEW i \in DOMAIN db'
             PROVE  Timely(db'[i], untilPass')
  BY DEF MonitorInv, Timely, Latest, Earliest
<1>a. untilPass \in 0..MonitorEvery /\ \A j \in DOMAIN db : db[j] \in Rec /\ Timely(db[j], untilPass)
  BY DEF TypeInv, ServerTypes, MonitorInv
<1>1. CASE UNCHANGED server
  BY <1>1, <1>a DEF server
<1>2. CASE ServerStep
  <2>1. ASSUME NEW d \in net, ServeUnknown(d) PROVE Timely(db'[i], untilPass')
    BY <1>1, <2>1 DEF ServeUnknown
  <2>2. ASSUME NEW d \in net, ServeEcho(d) \/ doRequestList(d) PROVE Timely(db'[i], untilPass')
    <3>1. db' = Refreshed(d) /\ untilPass' = untilPass
      BY <2>2 DEF ServeEcho, doRequestList
    <3>2. \/ i \in DOMAIN db /\ db'[i] = db[i]
          \/ db'[i] = [addr |-> d.at, misses |-> 0, idle |-> 0, heard |-> TRUE]
      BY <3>1 DEF Refreshed
    <3> QED BY <1>a, <3>1, <3>2, FreshTimely
  <2>3. ASSUME NEW d \in net, doRequestLogin(d) PROVE Timely(db'[i], untilPass')
    <3>1. /\ untilPass' = untilPass
          /\ DOMAIN db' = DOMAIN db \cup {lastId'}
          /\ db'[i] = IF i = lastId' THEN [addr |-> d.at, misses |-> 0, idle |-> 0, heard |-> FALSE]
                      ELSE Refreshed(d)[i]
      BY <2>3 DEF doRequestLogin
    <3>2. \/ db'[i] = [addr |-> d.at, misses |-> 0, idle |-> 0, heard |-> FALSE]
          \/ i \in DOMAIN db /\ db'[i] = db[i]
          \/ db'[i] = [addr |-> d.at, misses |-> 0, idle |-> 0, heard |-> TRUE]
      BY <3>1 DEF Refreshed
    <3> QED BY <1>a, <3>1, <3>2, FreshTimely
  <2>4. ASSUME NEW d \in net, doRequestLogout(d) PROVE Timely(db'[i], untilPass')
    <3>1. untilPass' = untilPass /\ i \in DOMAIN db /\ db'[i] = db[i]
      BY <2>4 DEF doRequestLogout
    <3> QED BY <1>a, <3>1
  <2>5. CASE MonitorPass
    <3>1. /\ untilPass = 0 /\ untilPass' = MonitorEvery
          /\ i \in DOMAIN db /\ Strikes(db[i]) # MaxLose
          /\ db'[i] = [db[i] EXCEPT !.misses = Strikes(db[i])]
      BY <2>5 DEF MonitorPass, Evicted
    <3> QED BY <1>a, <3>1, PassTimely
  <2> QED BY <1>2, <2>1, <2>2, <2>3, <2>4, <2>5 DEF ServerStep
<1>3. CASE Tick
  <2>1. /\ untilPass' = untilPass - 1 /\ untilPass > 0
        /\ i \in DOMAIN db /\ db'[i] = [db[i] EXCEPT !.idle = Min2(db[i].idle + 1, EvictedBy + 1)]
    BY <1>3 DEF Tick, Quiescent
  <2>2. untilPass \in 1..MonitorEvery
    BY <1>a, <2>1, Constants
  <2> QED BY <1>a, <2>1, <2>2, SecondTimely
<1> QED BY <1>1, <1>2, <1>3, ServerAlone DEF Next

LEMMA MonitorInit == Init => MonitorInv
BY DEF Init, MonitorInv

\* Whatever its constants: a record nobody renews is gone from the table before
\* LoseSeconds + MaxLose * MonitorEvery seconds of silence.
THEOREM GhostsLeave == Spec => []GhostsLeaveInTime
<1>1. TypeInv /\ MonitorInv => GhostsLeaveInTime
  <2> SUFFICES ASSUME TypeInv, MonitorInv, NEW i \in DOMAIN db PROVE db[i].idle < EvictedBy
    BY DEF GhostsLeaveInTime
  <2>1. db[i] \in Rec /\ untilPass \in 0..MonitorEvery /\ Timely(db[i], untilPass)
    BY DEF TypeInv, ServerTypes, MonitorInv
  <2> QED BY <2>1, TimelyBound
<1> QED BY <1>1, TypesInit, TypesStep, MonitorInit, MonitorStep, PTL DEF Spec

\* ... and nobody is thrown out before MaxLose - 1 whole periods of silence (and
\* LoseSeconds more, if he ever said something), wherever the passes fall.
THEOREM EvictionsAreDue == Spec => EvictedOnlyAfterSilence
<1> DEFINE Due(i) == untilPass' > untilPass =>
                        db[i].idle >= (MaxLose - 1) * MonitorEvery + (IF db[i].heard THEN LoseSeconds ELSE 0)
<1>1. TypeInv /\ MonitorInv /\ [Next]_vars => \A i \in DOMAIN db \ DOMAIN db' : Due(i)
  <2> SUFFICES ASSUME TypeInv, MonitorInv, [Next]_vars, NEW i \in DOMAIN db \ DOMAIN db', untilPass' > untilPass
               PROVE  db[i].idle >= (MaxLose - 1) * MonitorEvery + (IF db[i].heard THEN LoseSeconds ELSE 0)
    OBVIOUS
  <2>a. untilPass \in Nat /\ db[i] \in Rec /\ Timely(db[i], untilPass)
    BY Constants DEF TypeInv, ServerTypes, MonitorInv
  <2>1. CASE MonitorPass
    <3>1. untilPass = 0 /\ Strikes(db[i]) = MaxLose
      BY <2>1 DEF MonitorPass, Evicted
    <3>2. /\ db[i].misses \in 0..MaxLose - 1 /\ db[i].idle \in Nat
          /\ MaxLose \in Nat \ {0} /\ MonitorEvery \in Nat /\ LoseSeconds \in Nat
      BY <2>a, Constants DEF Rec
    <3>3. db[i].misses = MaxLose - 1 /\ (db[i].heard => db[i].idle >= LoseSeconds)
      BY <3>1, <3>2 DEF Strikes
    <3>4. (MaxLose - 1) * MonitorEvery \in Nat /\ (MaxLose - 1 = 0 => (MaxLose - 1) * MonitorEvery = 0)
      <4>1. MaxLose - 1 \in Nat /\ MonitorEvery \in Nat
        BY <3>2
      <4> QED BY <4>1, Times
    <3>5. CASE MaxLose - 1 = 0
      BY <3>2, <3>3, <3>4, <3>5
    <3>6. CASE MaxLose - 1 > 0
      <4>1. db[i].idle + 0 >= (IF db[i].heard THEN LoseSeconds ELSE 0) + (MaxLose - 1) * MonitorEvery
        BY <2>a, <3>1, <3>3, <3>6 DEF Timely, Earliest
      <4> QED BY <3>2, <3>4, <4>1
    <3> QED BY <3>2, <3>5, <3>6
  <2>2. ASSUME ~ MonitorPass PROVE FALSE
    <3>1. CASE UNCHANGED server
      BY <3>1 DEF server
    <3>2. ASSUME NEW d \in net, \/ ServeUnknown(d) \/ ServeEcho(d) \/ doRequestList(d)
                                \/ doRequestLogin(d) \/ doRequestLogout(d)
          PROVE  untilPass' = untilPass
      BY <3>2 DEF ServeUnknown, ServeEcho, doRequestList, doRequestLogin, doRequestLogout, server
    <3>3. CASE Tick
      BY <3>3 DEF Tick
    <3>4. untilPass' = untilPass \/ untilPass' = untilPass - 1
      BY <2>2, <3>1, <3>2, <3>3, ServerAlone DEF Next, ServerStep, server
    <3> QED BY <2>a, <3>4
  <2> QED BY <2>1, <2>2
<1>2. TypeInv /\ MonitorInv /\ [Next]_vars =>
         [\A i \in DOMAIN db \ DOMAIN db' : Due(i)]_<<db, untilPass>>
  BY <1>1
<1> QED BY <1>2, TypesInit, TypesStep, MonitorInit, MonitorStep, PTL DEF Spec, EvictedOnlyAfterSilence

---------------------------------------------------------------------------
(* A healthy session.  On a network that does nothing wrong every LOGIN is *)
(* answered or, when the ids are used up, every one is lost; from then on  *)
(* the seconds since the server heard a client and the seconds to its next *)
(* beat add up to no more than two, and the seconds since the client got a *)
(* LIST and the seconds to its next LIST to no more than RefreshEvery      *)
(* rounds of two seconds - or the message in question is under way.        *)

\* What the periods must be: a LIST comes in time for isOnline (the program's 5
\* and 10 make this an equality), a beat in time for isOffline, and the monitor
\* takes longer than two seconds to evict a client that has not spoken yet.
GoodTiming == /\ 2 * RefreshEvery <= OnlineLimit
              /\ 2 < LoseSeconds
              /\ 2 < (MaxLose - 1) * MonitorEvery

Mine(c)      == {d \in net : d.at[1] = c}
Ups(c)       == {d \in Mine(c) : d.up}
RecordsOf(c) == {i \in DOMAIN db : db[i].addr[1] = c}
Live(c)      == alive[c] \in {"off", "running"}

Nap(th, n) == IF th.due THEN n - 1 ELSE n

\* The seconds until c's next beat, at most, and until its next LIST.
UntilBeat(c) ==
    IF At(c, "echo") = "sleep1" THEN Nap(thread[c]["echo"], 1)
    ELSE IF At(c, "echo") = "sleep2" THEN Nap(thread[c]["echo"], 2)
    ELSE IF At(c, "main") = "login" THEN Nap(thread[c]["main"], 2)
    ELSE 2

UntilList(c) == UntilBeat(c) + 2 * (RefreshEvery - 1 - beat[c])

BeatUnderWay(c, i) == sendq[c] # << >> \/ \E d \in Ups(c) : d.id = i

ListUnderWay(c) == \/ \E k \in DOMAIN sendq[c] : sendq[c][k] = "LIST"
                   \/ \E d \in Mine(c) : d.kind = "LIST"
                   \/ \E k \in DOMAIN recvq[c] : recvq[c][k].kind = "LIST"

BeatInTime(c, i) == /\ db[i].idle <= 2
                    /\ db[i].idle + UntilBeat(c) <= 2 \/ BeatUnderWay(c, i)
ListInTime(c)    == /\ quiet[c] <= 2 * RefreshEvery
                    /\ quiet[c] + UntilList(c) <= 2 * RefreshEvery \/ ListUnderWay(c)

\* How far a client has come: not started, its only LOGIN on the way, refused
\* because the ids are used up, and known to the server as i.
NoRecord(c) == sid[c] = NoId /\ RecordsOf(c) = {} /\ \A i \in Ids : ~ Owned(i, c)
Waits(c)    == At(c, "main") = "login" /\ ~ thread[c]["main"].due

Silent(c)  == /\ NoRecord(c) /\ alive[c] = "off" /\ At(c, "main") = "off"
              /\ Mine(c) = {} /\ sendq[c] = << >> /\ recvq[c] = << >>
Asking(c)  == /\ NoRecord(c) /\ alive[c] = "running" /\ Waits(c)
              /\ \/ sendq[c] = <<"LOGIN">> /\ Ups(c) = {}
                 \/ sendq[c] = << >> /\ Ups(c) = {Up("LOGIN", NoId, addr[c])}
Refused(c) == /\ NoRecord(c) /\ alive[c] = "running" /\ lastId = MaxLogins
              /\ At(c, "main") \in {"login", "dialog", "close"}
Known(c, i) ==
    /\ alive[c] = "running" /\ At(c, "main") \in {"login", "joined"}
    /\ RecordsOf(c) = {i} /\ Owned(i, c) /\ \A j \in Ids : Owned(j, c) => j = i
    /\ isLogout(c) => Waits(c) /\ sendq[c] = << >>
    /\ \A k \in DOMAIN sendq[c] : sendq[c][k] \notin {"LOGIN", "LOGOUT"}
    /\ \A d \in Ups(c) : d.kind \notin {"LOGIN", "LOGOUT"}
    /\ db[i].heard => db[i].misses = 0
    /\ BeatInTime(c, i)
    /\ isLogin(c) => ListInTime(c)

Staged(c) == Silent(c) \/ Asking(c) \/ Refused(c) \/ \E i \in Ids : Known(c, i)

\* The handle thread waits for a message; the echo thread beats from when main
\* has seen the login, and never has to log in.
ThreadsGood(c) ==
    /\ At(c, "handle") = "take"
    /\ At(c, "main") = "joined" => At(c, "echo") \in {"sleep1", "look", "sleep2"} /\ isLogin(c)
    /\ At(c, "main") # "joined" => At(c, "echo") = "off" /\ beat[c] = 0

\* Nobody tells it LOGOUT.
AnswersGood(c) == /\ \A d \in Mine(c) : d.up \/ d.kind \in {"LOGIN", "LIST"}
                  /\ \A k \in DOMAIN recvq[c] : recvq[c][k].kind \in {"LOGIN", "LIST"}

ClientGood(c) == Live(c) => ThreadsGood(c) /\ AnswersGood(c) /\ Staged(c)

\* Datagrams and records have addresses nobody has moved to, a client's datagrams
\* carry its id or none, and a LOGIN answer carries one.
NetGood ==
    /\ IsFiniteSet(net)
    /\ \A d \in net :
          /\ d.at[2] = 0
          /\ d.up => d.id = NoId \/ (sid[d.at[1]] = d.id /\ d.kind \notin {"LOGIN", "LOGOUT"})
          /\ ~ d.up /\ d.kind = "LOGIN" => d.id # NoId
    /\ \A c \in Clients : \A k \in DOMAIN recvq[c] : recvq[c][k].kind = "LOGIN" => recvq[c][k].id # NoId
    /\ \A i \in DOMAIN db : db[i].addr[2] = 0

HealthInv == Faultless => NetGood /\ \A c \in Clients : ClientGood(c)

LEMMA HealthInit == Init => HealthInv
<1> SUFFICES ASSUME Init PROVE NetGood /\ \A c \in Clients : ClientGood(c)
  BY DEF HealthInv
<1>1. NetGood
  <2>1. IsFiniteSet({})
    BY FS_EmptySet
  <2> QED BY <2>1 DEF Init, NetGood
<1>2. ASSUME NEW c \in Clients PROVE ClientGood(c)
  <2>1. thread[c] = [t \in Threads |-> Place(IF t = "handle" THEN "take" ELSE "off")]
    BY DEF Init
  <2>2. At(c, "handle") = "take" /\ At(c, "main") = "off" /\ At(c, "echo") = "off"
    BY <2>1 DEF At, Threads, Place, Attempt
  <2>3. \A i \in Ids : i # NoId
    BY Constants DEF Ids, NoId
  <2>4. Mine(c) = {} /\ RecordsOf(c) = {} /\ recvq[c] = << >> /\ sendq[c] = << >> /\ sid[c] = NoId
        /\ alive[c] = "off" /\ beat[c] = 0
    BY DEF Init, Mine, RecordsOf
  <2>5. \A i \in Ids : ~ Owned(i, c)
    BY <2>3, <2>4 DEF Owned, Mine
  <2> QED BY <2>2, <2>4, <2>5 DEF ClientGood, ThreadsGood, AnswersGood, Staged, Silent, NoRecord
<1> QED BY <1>1, <1>2

\* Once something has gone wrong it has gone wrong for good.
LEMMA FaultsStay ==
    ASSUME TypeInv, [Next]_vars, Faultless'
    PROVE  /\ Faultless /\ faults' = faults /\ addr' = addr
           /\ \A d \in net : ~ Lose(d)
           /\ \A d \in net : \A A : Arrives(d, A) => net' = (net \ {d}) \cup A
<1>a. faults.lost \in Nat /\ faults.dup \in Nat /\ faults \in [lost : Nat, dup : Nat, may : Limits]
      /\ addr \in [Clients -> Addrs] /\ \A c \in Clients : addr[c][2] \in Nat
  BY Constants DEF TypeInv, NetTypes, ClientTypes, Addrs
<1>1. ASSUME NEW d \in net, NEW A, Arrives(d, A) PROVE faults' = faults /\ net' = (net \ {d}) \cup A
  <2>1. faults' # [faults EXCEPT !.dup = @ + 1]
    BY <1>a DEF Faultless
  <2> QED BY <1>1, <2>1 DEF Arrives
<1>2. ASSUME NEW d \in net PROVE ~ Lose(d)
  <2>1. faults' # [faults EXCEPT !.lost = @ + 1]
    BY <1>a DEF Faultless
  <2> QED BY <2>1 DEF Lose
<1>3. ASSUME NEW c \in Clients PROVE ~ Move(c)
  <2> SUFFICES ASSUME Move(c) PROVE FALSE
    OBVIOUS
  <2>1. addr'[c] = <<c, addr[c][2] + 1>>
    BY <1>a DEF Move
  <2> QED BY <1>a, <2>1 DEF Faultless
<1>4. faults' = faults /\ addr' = addr
  <2>1. ASSUME NEW c \in Clients, ClientStep(c) PROVE faults' = faults /\ addr' = addr
    BY <1>1, <1>3, <2>1 DEF ClientStep, ThreadStep, LoginWait, LoginSeen, CloseBegin, CloseCheck, CloseAgain, Say, Start,
     UserExit, EchoBeat, EchoLook, EchoDrop, EchoTry, EchoAgain, Send, Receive,
     doResponseLogin, doResponseLogout, doResponseList
  <2>2. CASE ServerStep
    BY <1>1, <2>2 DEF ServerStep, ServeUnknown, ServeEcho, doRequestList, doRequestLogin, doRequestLogout,
                      MonitorPass, client
  <2>3. CASE NetworkStep
    BY <1>2, <2>3 DEF NetworkStep, Undelivered, client
  <2> QED BY <2>1, <2>2, <2>3 DEF Next, Tick, vars, client
<1> QED BY <1>1, <1>2, <1>4 DEF Faultless

\* A step that leaves a client, its datagrams and its records alone.
LEMMA Aside ==
    ASSUME NEW c \in Clients, ClientGood(c),
           alive'[c] = alive[c] \/ ~ Live(c)',
           sid'[c] = sid[c], sendq'[c] = sendq[c], recvq'[c] = recvq[c], thread'[c] = thread[c],
           beat'[c] = beat[c], quiet'[c] = quiet[c], addr'[c] = addr[c],
           Mine(c)' = Mine(c), RecordsOf(c)' = RecordsOf(c),
           \A i \in RecordsOf(c) : db'[i] = db[i],
           lastId = MaxLogins => lastId' = MaxLogins
    PROVE  ClientGood(c)'
<1> SUFFICES ASSUME Live(c)' PROVE ThreadsGood(c)' /\ AnswersGood(c)' /\ Staged(c)'
  BY DEF ClientGood
<1>1. alive'[c] = alive[c] /\ Live(c) /\ ThreadsGood(c) /\ AnswersGood(c) /\ Staged(c)
  BY DEF ClientGood, Live
<1>2. Ups(c)' = Ups(c) /\ \A t : At(c, t)' = At(c, t)
  BY DEF Ups, At
<1>3. \A i : Owned(i, c)' <=> Owned(i, c)
  <2>1. \A i : Owned(i, c) <=> \/ sid[c] = i \/ \E d \in Mine(c) : ~ d.up /\ Gives(d, i)
                               \/ \E k \in DOMAIN recvq[c] : Gives(recvq[c][k], i)
    BY DEF Owned, Mine
  <2>2. \A i : Owned(i, c)' <=> \/ sid'[c] = i \/ \E d \in Mine(c)' : ~ d.up /\ Gives(d, i)
                                \/ \E k \in DOMAIN recvq'[c] : Gives(recvq'[c][k], i)
    BY DEF Owned, Mine, Gives
  <2> QED BY <2>1, <2>2
<1>4. ThreadsGood(c)' /\ AnswersGood(c)'
  BY <1>1, <1>2 DEF ThreadsGood, AnswersGood, isLogin
<1>5. NoRecord(c) => NoRecord(c)'
  BY <1>3 DEF NoRecord
<1>6. Waits(c)' = Waits(c) /\ UntilBeat(c)' = UntilBeat(c) /\ UntilList(c)' = UntilList(c)
  BY <1>2 DEF Waits, UntilBeat, UntilList, Nap
<1>7. Silent(c) => Silent(c)'
  BY <1>1, <1>2, <1>5 DEF Silent
<1>8. Asking(c) => Asking(c)'
  BY <1>1, <1>2, <1>5, <1>6 DEF Asking
<1>9. Refused(c) => Refused(c)'
  BY <1>1, <1>2, <1>5 DEF Refused
<1>10. ASSUME NEW i \in Ids, Known(c, i) PROVE Known(c, i)'
  <2>1. db'[i] = db[i]
    BY <1>10 DEF Known
  <2>2. BeatUnderWay(c, i)' = BeatUnderWay(c, i) /\ ListUnderWay(c)' = ListUnderWay(c)
    BY <1>2 DEF BeatUnderWay, ListUnderWay
  <2>3. BeatInTime(c, i)' = BeatInTime(c, i) /\ ListInTime(c)' = ListInTime(c)
    BY <1>6, <2>1, <2>2 DEF BeatInTime, ListInTime
  <2> QED BY <1>10, <1>1, <1>2, <1>3, <1>6, <2>1, <2>3 DEF Known, isLogin, isLogout
<1> QED BY <1>1, <1>4, <1>7, <1>8, <1>9, <1>10 DEF Staged

\* What a client's stage says of its id.
LEMMA StageOf ==
    ASSUME TypeInv, NEW c \in Clients, Staged(c)
    PROVE  /\ \A i \in Ids : Owned(i, c) => Known(c, i)
           /\ isLogin(c) => sid[c] \in Ids /\ Known(c, sid[c])
           /\ isLogin(c) \/ At(c, "main") = "joined" => \E i \in Ids : Known(c, i)
           /\ At(c, "main") = "joined" => ~ Silent(c) /\ ~ Asking(c) /\ ~ Refused(c)
<1>1. sid[c] \in Ids \cup {NoId}
  BY DEF TypeInv, ClientTypes
<1>2. ASSUME NEW i \in Ids, Owned(i, c) PROVE Known(c, i)
  <2>1. PICK j \in Ids : Known(c, j)
    BY <1>2 DEF Staged, Silent, Asking, Refused, NoRecord
  <2>2. i = j
    BY <1>2, <2>1 DEF Known
  <2> QED BY <2>1, <2>2
<1>3. isLogin(c) => sid[c] \in Ids /\ Owned(sid[c], c)
  BY <1>1 DEF isLogin, Owned
<1>4. At(c, "main") = "joined" => ~ Silent(c) /\ ~ Asking(c) /\ ~ Refused(c)
  BY DEF Silent, Asking, Refused, Waits
<1> QED BY <1>2, <1>3, <1>4 DEF Staged

LEMMA Untils ==
    ASSUME TypeInv, NEW c \in Clients
    PROVE  /\ UntilBeat(c) \in 0..2 /\ UntilList(c) \in 0..2 * RefreshEvery
           /\ UntilList(c) = UntilBeat(c) + 2 * (RefreshEvery - 1 - beat[c])
           /\ quiet[c] \in Nat /\ \A i \in DOMAIN db : db[i].idle \in Nat
<1>1. UntilBeat(c) \in 0..2
  BY DEF UntilBeat, Nap
<1>2. beat[c] \in 0..RefreshEvery - 1 /\ RefreshEvery \in Nat \ {0}
  BY Constants DEF TypeInv, ClientTypes
<1>3. quiet[c] \in Nat /\ \A i \in DOMAIN db : db[i].idle \in Nat
  BY Constants DEF TypeInv, ClientTypes, ServerTypes, Rec
<1> QED BY <1>1, <1>2, <1>3 DEF UntilList

\* What a step of a client's threads leaves as it was.
LEMMA SameTraffic ==
    ASSUME NEW c \in Clients, net' = net, db' = db, sid'[c] = sid[c], recvq'[c] = recvq[c]
    PROVE  /\ Mine(c)' = Mine(c) /\ Ups(c)' = Ups(c) /\ RecordsOf(c)' = RecordsOf(c)
           /\ NoRecord(c)' = NoRecord(c) /\ \A i : Owned(i, c)' <=> Owned(i, c)
           /\ isLogin(c)' = isLogin(c) /\ isLogout(c)' = isLogout(c)
           /\ AnswersGood(c)' = AnswersGood(c)
<1>1. Mine(c)' = Mine(c) /\ Ups(c)' = Ups(c) /\ RecordsOf(c)' = RecordsOf(c)
  BY DEF Mine, Ups, RecordsOf
<1>2. \A i : Owned(i, c)' <=> Owned(i, c)
  BY DEF Owned, Gives
<1>3. NoRecord(c)' = NoRecord(c)
  BY <1>1, <1>2 DEF NoRecord
<1> QED BY <1>1, <1>2, <1>3 DEF isLogin, isLogout, AnswersGood

\* The places of a client's threads after one of them has gone on.
LEMMA Gone ==
    ASSUME TypeInv, NEW c \in Clients, NEW t \in Threads, NEW place, Goto(c, t, place)
    PROVE  \A u \in Threads : /\ thread'[c][u] = IF u = t THEN place ELSE thread[c][u]
                              /\ At(c, u)' = IF u = t THEN place.at ELSE At(c, u)
BY GotoMoves DEF TypeInv, At

\* Known clients stay known when nothing of them changes but where threads are, what
\* they are about to send and how far the beats have come.
LEMMA KnownStays ==
    ASSUME NEW c \in Clients, NEW i \in Ids, Known(c, i), isLogin(c),
           net' = net, db' = db, sid'[c] = sid[c], recvq'[c] = recvq[c], quiet'[c] = quiet[c],
           alive'[c] = "running", At(c, "main")' \in {"login", "joined"},
           \A k \in DOMAIN sendq'[c] : sendq'[c][k] \notin {"LOGIN", "LOGOUT"},
           BeatInTime(c, i)', ListInTime(c)'
    PROVE  Staged(c)'
BY SameTraffic DEF Known, Staged, isLogin, isLogout

LEMMA StartGood ==
    ASSUME TypeInv, NEW c \in Clients, ClientGood(c), Start(c)
    PROVE  ClientGood(c)'
<1>a. alive[c] = "off" /\ Live(c) /\ ThreadsGood(c) /\ AnswersGood(c) /\ Staged(c)
  BY DEF Start, ClientGood, Live
<1>b. Silent(c)
  BY <1>a DEF Staged, Asking, Refused, Known
<1>1. Goto(c, "main", Attempt("login", 1)) /\ net' = net /\ db' = db /\ sid' = sid /\ recvq' = recvq /\ beat' = beat
  BY DEF Start, StartLogin, server
<1>2. /\ At(c, "main")' = "login" /\ At(c, "echo")' = At(c, "echo") /\ At(c, "handle")' = At(c, "handle")
      /\ thread'[c]["main"].due = FALSE
  <2>1. "main" \in Threads /\ "echo" \in Threads /\ "handle" \in Threads
    BY DEF Threads
  <2> QED BY <1>1, <2>1, Gone DEF Attempt
<1>3. alive'[c] = "running"
  BY DEF Start, TypeInv, ClientTypes
<1>4. sendq'[c] = <<"LOGIN">>
  <2>1. sendq'[c] = << >> \o <<"LOGIN">>
    BY <1>b DEF Start, StartLogin, Commit, TypeInv, ClientTypes, Silent
  <2> QED BY <2>1
<1>5. Ups(c)' = {} /\ NoRecord(c)' /\ AnswersGood(c)'
  BY <1>a, <1>b, <1>1, SameTraffic DEF Silent, Ups
<1>6. Asking(c)'
  BY <1>2, <1>3, <1>4, <1>5 DEF Asking, Waits
<1>7. ThreadsGood(c)'
  BY <1>a, <1>b, <1>1, <1>2 DEF ThreadsGood, Silent
<1> QED BY <1>5, <1>6, <1>7 DEF ClientGood, Staged

\* main's waiting for the login, and its giving up when there are no ids left.
LEMMA ThreadStepGood ==
    ASSUME TypeInv, NEW c \in Clients, ClientGood(c), NEW t \in Threads, ThreadStep(c, t)
    PROVE  ClientGood(c)'
<1> SUFFICES ASSUME Live(c)' PROVE ThreadsGood(c)' /\ AnswersGood(c)' /\ Staged(c)'
  BY DEF ClientGood
<1>a. alive[c] = "running" /\ Live(c) /\ ThreadsGood(c) /\ AnswersGood(c) /\ Staged(c)
      /\ net' = net /\ db' = db /\ recvq' = recvq /\ quiet' = quiet /\ beat' = beat /\ lastId' = lastId
  BY DEF ThreadStep, LoginWait, LoginSeen, CloseBegin, CloseCheck, CloseAgain, Running, ClientGood, Live, server
<1>b. "main" \in Threads /\ "echo" \in Threads /\ "handle" \in Threads
  BY DEF Threads
<1>c. t = "main" /\ At(c, "main") \in {"login", "dialog", "close"} /\ ~ Silent(c)
  <2>1. At(c, t) \in {"login", "dialog", "close", "closewait"}
    BY DEF ThreadStep, LoginWait, LoginSeen, CloseBegin, CloseCheck, CloseAgain, At
  <2>2. t = "main"
    BY <1>a, <2>1 DEF ThreadsGood, Threads
  <2>3. At(c, "main") # "closewait"
    BY <1>a DEF Staged, Silent, Asking, Waits, Refused, Known
  <2> QED BY <1>a, <2>1, <2>2, <2>3 DEF Silent
<1>1. CASE LoginWait(c, t)
  <2>1. isLogout(c) /\ thread[c]["main"].due /\ At(c, "main") = "login" /\ sid' = sid /\ alive' = alive
    BY <1>1, <1>c DEF LoginWait, At
  <2>2. Refused(c)
    BY <1>a, <1>c, <2>1 DEF Staged, Asking, Waits, Known
  <2>3. PICK p : Goto(c, "main", p) /\ p.at \in {"login", "dialog"}
    <3>1. thread[c]["main"] \in [at : Places, try : 0..RetryTimes, slept : Nat, due : BOOLEAN]
          /\ thread[c]["main"].at = "login"
      BY <1>b, <2>1 DEF TypeInv, ThreadTypes, At
    <3>2. [thread[c]["main"] EXCEPT !.due = FALSE].at = "login"
      BY <3>1
    <3>3. Attempt("login", thread[c]["main"].try + 1).at = "login" /\ Place("dialog").at = "dialog"
      BY DEF Attempt, Place
    <3> QED BY <1>1, <1>c, <3>2, <3>3 DEF LoginWait
  <2>4. At(c, "main")' \in {"login", "dialog"} /\ At(c, "echo")' = At(c, "echo") /\ At(c, "handle")' = At(c, "handle")
    BY <1>b, <2>3, Gone
  <2>5. ThreadsGood(c)'
    BY <1>a, <2>1, <2>4 DEF ThreadsGood
  <2>6. Refused(c)' /\ AnswersGood(c)'
    BY <1>a, <2>1, <2>2, <2>4, SameTraffic DEF Refused
  <2> QED BY <2>5, <2>6 DEF Staged
<1>2. CASE LoginSeen(c, t)
  <2>1. isLogin(c) /\ thread[c]["main"].due /\ At(c, "main") = "login" /\ sid' = sid /\ alive' = alive /\ sendq' = sendq
    BY <1>2, <1>c DEF LoginSeen, At
  <2>2. Known(c, sid[c]) /\ sid[c] \in Ids
    BY <1>a, <2>1, StageOf
  <2>3. /\ At(c, "main")' = "joined" /\ At(c, "echo")' = "sleep1" /\ At(c, "handle")' = At(c, "handle")
        /\ thread'[c]["echo"].due = FALSE
    <3>1. thread'[c] = [thread[c] EXCEPT !["main"] = Place("joined"), !["echo"] = Place("sleep1")]
      BY <1>2, <1>c DEF LoginSeen, TypeInv, ThreadTypes
    <3>2. thread[c] \in [Threads -> [at : Places, try : 0..RetryTimes, slept : Nat, due : BOOLEAN]]
      BY DEF TypeInv, ThreadTypes
    <3>3. thread'[c]["main"] = Place("joined") /\ thread'[c]["echo"] = Place("sleep1") /\ thread'[c]["handle"] = thread[c]["handle"]
      BY <1>b, <3>1, <3>2
    <3> QED BY <3>3 DEF Place, Attempt, At
  <2>4. UntilBeat(c) = 1 /\ UntilBeat(c)' = 1
    BY <1>a, <2>1, <2>3 DEF UntilBeat, Nap, ThreadsGood
  <2>5. ThreadsGood(c)'
    BY <1>a, <2>1, <2>3 DEF ThreadsGood, isLogin
  <2>6. UntilList(c)' = UntilList(c) /\ Ups(c)' = Ups(c) /\ Mine(c)' = Mine(c)
    BY <1>a, <2>1, <2>4, SameTraffic DEF UntilList
  <2>7. BeatInTime(c, sid[c])' /\ ListInTime(c)'
    BY <1>a, <2>1, <2>2, <2>4, <2>6 DEF Known, BeatInTime, ListInTime, BeatUnderWay, ListUnderWay
  <2>8. \A k \in DOMAIN sendq'[c] : sendq'[c][k] \notin {"LOGIN", "LOGOUT"}
    BY <2>1, <2>2 DEF Known
  <2>9. Staged(c)'
    <3>1. PICK i \in Ids : i = sid[c] /\ i = sid'[c]
      BY <2>1, <2>2
    <3>2. Known(c, i) /\ BeatInTime(c, i)'
      BY <2>1, <2>2, <2>7, <3>1 DEF BeatInTime, BeatUnderWay
    <3> QED BY <1>a, <2>1, <2>3, <2>7, <2>8, <3>2, KnownStays
  <2> QED BY <1>a, <2>1, <2>5, <2>9, SameTraffic
<1>3. CASE CloseBegin(c, t)
  <2>1. At(c, "main") = "dialog" /\ alive' = alive
    BY <1>3, <1>c DEF CloseBegin
  <2>2. Refused(c)
    BY <1>a, <1>c, <2>1 DEF Staged, Asking, Waits, Known
  <2>3. sid'[c] = sid[c]
    BY <1>3, <2>2 DEF CloseBegin, Refused, NoRecord, TypeInv, ClientTypes
  <2>4. At(c, "main")' = "close" /\ At(c, "echo")' = At(c, "echo") /\ At(c, "handle")' = At(c, "handle")
    BY <1>3, <1>b, <1>c, Gone DEF CloseBegin, Attempt
  <2>5. ThreadsGood(c)'
    BY <1>a, <2>1, <2>4 DEF ThreadsGood
  <2>6. Refused(c)' /\ AnswersGood(c)'
    BY <1>a, <2>1, <2>2, <2>3, <2>4, SameTraffic DEF Refused
  <2> QED BY <2>5, <2>6 DEF Staged
<1>4. CASE CloseCheck(c, t)
  <2>1. Refused(c)
    BY <1>4, <1>a, <1>c DEF CloseCheck, Staged, Asking, Waits, Known
  <2>2. isLogout(c)
    BY <2>1 DEF Refused, NoRecord, isLogout, isLogin
  <2>3. alive'[c] = "closed"
    BY <1>4, <2>2 DEF CloseCheck, isLogout, TypeInv, ClientTypes
  <2> QED BY <2>3 DEF Live
<1>5. CASE CloseAgain(c, t)
  BY <1>5, <1>c DEF CloseAgain, At
<1> QED BY <1>1, <1>2, <1>3, <1>4, <1>5 DEF ThreadStep

LEMMA Modulo ==
    ASSUME NEW n \in Nat, NEW r \in Nat \ {0}
    PROVE  (n < r => n % r = n) /\ (n = r => n % r = 0)
OBVIOUS

LEMMA NextBeat ==
    ASSUME NEW b \in 0..RefreshEvery - 1
    PROVE  (b + 1) % RefreshEvery = IF b + 1 = RefreshEvery THEN 0 ELSE b + 1
<1>1. RefreshEvery \in Nat \ {0}
  BY Constants
<1>2. PICK n \in Nat : n = b + 1 /\ n <= RefreshEvery
  BY <1>1
<1>3. (n < RefreshEvery => n % RefreshEvery = n) /\ (n = RefreshEvery => n % RefreshEvery = 0)
  BY <1>1, Modulo, Zenon
<1>4. n < RefreshEvery \/ n = RefreshEvery
  BY <1>1, <1>2
<1>5. CASE n = RefreshEvery
  BY <1>2, <1>3, <1>5, Zenon
<1>6. CASE n < RefreshEvery
  <2>1. n # RefreshEvery
    BY <1>1, <1>6
  <2> QED BY <1>2, <1>3, <1>6, <2>1, Zenon
<1> QED BY <1>4, <1>5, <1>6

\* The echo thread: the beats come in time, the LIST among them too, and so the look
\* at the silence finds it short enough.
LEMMA EchoGood ==
    ASSUME TypeInv, GoodTiming, NEW c \in Clients, ClientGood(c),
           EchoBeat(c) \/ EchoLook(c) \/ EchoDrop(c) \/ EchoTry(c) \/ EchoAgain(c)
    PROVE  ClientGood(c)'
<1> SUFFICES ASSUME Live(c)' PROVE ThreadsGood(c)' /\ AnswersGood(c)' /\ Staged(c)'
  BY DEF ClientGood
<1>a. /\ alive[c] = "running" /\ alive' = alive /\ Live(c) /\ ThreadsGood(c) /\ AnswersGood(c) /\ Staged(c)
      /\ net' = net /\ db' = db /\ recvq' = recvq /\ quiet' = quiet /\ lastId' = lastId
  BY DEF EchoBeat, EchoLook, EchoDrop, EchoTry, EchoAgain, StartLogin, Running, ClientGood, Live, server
<1>b. "main" \in Threads /\ "echo" \in Threads /\ "handle" \in Threads
  BY DEF Threads
<1>c. At(c, "main") = "joined" /\ isLogin(c) /\ At(c, "echo") \in {"sleep1", "look", "sleep2"}
  BY <1>a DEF ThreadsGood, EchoBeat, EchoLook, EchoDrop, EchoTry, EchoAgain
<1>d. PICK i \in Ids : i = sid[c] /\ Known(c, i)
  BY <1>a, <1>c, StageOf
<1>e. quiet[c] \in Nat /\ UntilBeat(c) \in 0..2 /\ UntilList(c) \in 0..2 * RefreshEvery /\ RefreshEvery \in Nat \ {0}
      /\ UntilList(c) = UntilBeat(c) + 2 * (RefreshEvery - 1 - beat[c]) /\ beat[c] \in 0..RefreshEvery - 1
      /\ db[i].idle \in Nat
  BY <1>d, Untils, Constants DEF TypeInv, ClientTypes, Known, RecordsOf
<1>f. BeatInTime(c, i) /\ ListInTime(c)
  BY <1>c, <1>d DEF Known
<1>1. CASE EchoBeat(c)
  <2>1. Goto(c, "echo", Place("look")) /\ thread[c]["echo"].due /\ At(c, "echo") = "sleep1" /\ sid' = sid
    BY <1>1 DEF EchoBeat
  <2>2. At(c, "main")' = "joined" /\ At(c, "echo")' = "look" /\ At(c, "handle")' = At(c, "handle")
    BY <1>b, <1>c, <2>1, Gone DEF Place, Attempt
  <2>3. UntilBeat(c) = 0 /\ UntilBeat(c)' = 2
    BY <1>c, <2>1, <2>2 DEF UntilBeat, Nap
  <2>4. PICK kind \in {"LIST", "ECHO"} :
           /\ sendq'[c] = Append(sendq[c], kind) /\ beat'[c] = (beat[c] + 1) % RefreshEvery
           /\ kind = "LIST" <=> beat'[c] = 0
    <3>1. beat'[c] = (beat[c] + 1) % RefreshEvery
      BY <1>1 DEF EchoBeat, TypeInv, ClientTypes
    <3>2. sendq \in [Clients -> Seq(Kinds)] /\ sendq[c] \in Seq(Kinds)
      BY DEF TypeInv, ClientTypes
    <3>3. \A kind : sendq[c] \o <<kind>> = Append(sendq[c], kind)
      BY <3>2
    <3>4. sendq'[c] = Append(sendq[c], IF beat'[c] = 0 THEN "LIST" ELSE "ECHO")
      BY <1>1, <3>1, <3>2, <3>3 DEF EchoBeat, Commit
    <3> QED BY <3>1, <3>4
  <2>5. /\ \A k \in DOMAIN sendq'[c] : (k \in DOMAIN sendq[c] /\ sendq'[c][k] = sendq[c][k]) \/ sendq'[c][k] = kind
        /\ \A k \in DOMAIN sendq[c] : k \in DOMAIN sendq'[c] /\ sendq'[c][k] = sendq[c][k]
        /\ \E k \in DOMAIN sendq'[c] : sendq'[c][k] = kind
        /\ sendq'[c] # << >>
    <3>1. sendq[c] \in Seq(Kinds)
      BY DEF TypeInv, ClientTypes
    <3>2. Len(sendq[c]) \in Nat /\ DOMAIN sendq[c] = 1..Len(sendq[c]) /\ DOMAIN sendq'[c] = 1..Len(sendq[c]) + 1
          /\ sendq'[c][Len(sendq[c]) + 1] = kind /\ \A k \in 1..Len(sendq[c]) : sendq'[c][k] = sendq[c][k]
      BY <2>4, <3>1
    <3>3. Len(sendq[c]) + 1 \in DOMAIN sendq'[c]
      BY <3>2
    <3>4. sendq'[c] # << >>
      BY <3>3
    <3> QED BY <3>2, <3>3, <3>4
  <2>6. BeatInTime(c, i)'
    BY <1>a, <1>f, <2>5 DEF BeatInTime, BeatUnderWay
  <2>7. ListInTime(c)'
    <3>1. CASE kind = "LIST"
      BY <1>a, <1>f, <2>5, <3>1 DEF ListInTime, ListUnderWay
    <3>2. CASE kind # "LIST"
      <4>1. beat'[c] = beat[c] + 1
        <5>1. beat'[c] # 0 /\ beat'[c] = (beat[c] + 1) % RefreshEvery
          BY <2>4, <3>2
        <5>2. (beat[c] + 1) % RefreshEvery = IF beat[c] + 1 = RefreshEvery THEN 0 ELSE beat[c] + 1
          BY <1>e, NextBeat, Zenon
        <5> QED BY <5>1, <5>2, Zenon
      <4>2. UntilList(c)' = UntilList(c)
        <5>1. UntilList(c)' = UntilBeat(c)' + 2 * (RefreshEvery - 1 - beat'[c])
          BY DEF UntilList
        <5> QED BY <1>e, <2>3, <4>1, <5>1
      <4>3. ListUnderWay(c) => ListUnderWay(c)'
        BY <1>a, <2>1, <2>5, SameTraffic DEF ListUnderWay
      <4> QED BY <1>a, <1>f, <4>2, <4>3 DEF ListInTime
    <3> QED BY <3>1, <3>2
  <2>8. \A k \in DOMAIN sendq'[c] : sendq'[c][k] \notin {"LOGIN", "LOGOUT"}
    BY <1>d, <2>5 DEF Known
  <2>9. ThreadsGood(c)'
    BY <1>a, <1>c, <2>1, <2>2 DEF ThreadsGood, isLogin
  <2> QED BY <1>a, <1>c, <1>d, <2>1, <2>2, <2>6, <2>7, <2>8, <2>9, KnownStays, SameTraffic
<1>2. CASE EchoLook(c)
  <2>1. isOnline(c)
    BY <1>e, <1>f, Constants DEF isOnline, ListInTime, GoodTiming
  <2>2. Goto(c, "echo", Place("sleep2")) /\ At(c, "echo") = "look" /\ sid' = sid /\ sendq' = sendq /\ beat' = beat
    BY <1>2, <2>1 DEF EchoLook
  <2>3. /\ At(c, "main")' = "joined" /\ At(c, "echo")' = "sleep2" /\ At(c, "handle")' = At(c, "handle")
        /\ thread'[c]["echo"].due = FALSE
    BY <1>b, <1>c, <2>2, Gone DEF Place, Attempt
  <2>4. UntilBeat(c) = 2 /\ UntilBeat(c)' = 2
    BY <1>c, <2>2, <2>3 DEF UntilBeat, Nap
  <2>5. UntilList(c)' = UntilList(c) /\ Ups(c)' = Ups(c) /\ Mine(c)' = Mine(c)
    BY <1>a, <2>2, <2>4, SameTraffic DEF UntilList
  <2>6. BeatInTime(c, i)' /\ ListInTime(c)'
    BY <1>a, <1>f, <2>2, <2>4, <2>5 DEF BeatInTime, ListInTime, BeatUnderWay, ListUnderWay
  <2>7. \A k \in DOMAIN sendq'[c] : sendq'[c][k] \notin {"LOGIN", "LOGOUT"}
    BY <1>d, <2>2 DEF Known
  <2>8. ThreadsGood(c)'
    BY <1>a, <1>c, <2>2, <2>3 DEF ThreadsGood, isLogin
  <2> QED BY <1>a, <1>c, <1>d, <2>2, <2>3, <2>6, <2>7, <2>8, KnownStays, SameTraffic
<1>3. CASE EchoAgain(c)
  <2>2. Goto(c, "echo", Place("sleep1")) /\ At(c, "echo") = "sleep2" /\ thread[c]["echo"].due
        /\ sid' = sid /\ sendq' = sendq /\ beat' = beat
    BY <1>3 DEF EchoAgain
  <2>3. /\ At(c, "main")' = "joined" /\ At(c, "echo")' = "sleep1" /\ At(c, "handle")' = At(c, "handle")
        /\ thread'[c]["echo"].due = FALSE
    BY <1>b, <1>c, <2>2, Gone DEF Place, Attempt
  <2>4. UntilBeat(c) = 1 /\ UntilBeat(c)' = 1
    BY <1>c, <2>2, <2>3 DEF UntilBeat, Nap
  <2>5. UntilList(c)' = UntilList(c) /\ Ups(c)' = Ups(c) /\ Mine(c)' = Mine(c)
    BY <1>a, <2>2, <2>4, SameTraffic DEF UntilList
  <2>6. BeatInTime(c, i)' /\ ListInTime(c)'
    BY <1>a, <1>f, <2>2, <2>4, <2>5 DEF BeatInTime, ListInTime, BeatUnderWay, ListUnderWay
  <2>7. \A k \in DOMAIN sendq'[c] : sendq'[c][k] \notin {"LOGIN", "LOGOUT"}
    BY <1>d, <2>2 DEF Known
  <2>8. ThreadsGood(c)'
    BY <1>a, <1>c, <2>2, <2>3 DEF ThreadsGood, isLogin
  <2> QED BY <1>a, <1>c, <1>d, <2>2, <2>3, <2>6, <2>7, <2>8, KnownStays, SameTraffic
<1> QED BY <1>1, <1>2, <1>3, <1>c DEF EchoDrop, EchoTry

\* What is in a queue after its first element is taken, or one is put at its end.
LEMMA TailHas ==
    ASSUME NEW S, NEW s \in Seq(S), s # << >>
    PROVE  /\ 1 \in DOMAIN s /\ Head(s) = s[1]
           /\ \A k \in DOMAIN Tail(s) : k + 1 \in DOMAIN s /\ Tail(s)[k] = s[k + 1]
           /\ \A k \in DOMAIN s : k = 1 \/ (k - 1 \in DOMAIN Tail(s) /\ Tail(s)[k - 1] = s[k])
<1>1. Len(s) \in Nat /\ Len(s) > 0 /\ DOMAIN s = 1..Len(s) /\ DOMAIN Tail(s) = 1..Len(s) - 1
      /\ Head(s) = s[1] /\ \A k \in 1..Len(s) - 1 : Tail(s)[k] = s[k + 1]
  OBVIOUS
<1>2. ASSUME NEW k \in DOMAIN s PROVE k = 1 \/ (k - 1 \in DOMAIN Tail(s) /\ Tail(s)[k - 1] = s[k])
  <2>1. CASE k # 1
    <3>1. k - 1 \in 1..Len(s) - 1 /\ (k - 1) + 1 = k
      BY <1>1, <2>1
    <3> QED BY <1>1, <3>1
  <2> QED BY <2>1
<1> QED BY <1>1, <1>2

LEMMA AppendHas ==
    ASSUME NEW S, NEW s \in Seq(S), NEW e
    PROVE  /\ \A k \in DOMAIN Append(s, e) : (k \in DOMAIN s /\ Append(s, e)[k] = s[k]) \/ Append(s, e)[k] = e
           /\ \A k \in DOMAIN s : k \in DOMAIN Append(s, e) /\ Append(s, e)[k] = s[k]
           /\ \E k \in DOMAIN Append(s, e) : Append(s, e)[k] = e
           /\ Append(s, e) # << >>
<1>1. Len(s) \in Nat /\ DOMAIN s = 1..Len(s) /\ DOMAIN Append(s, e) = 1..Len(s) + 1
      /\ Append(s, e)[Len(s) + 1] = e /\ \A k \in 1..Len(s) : Append(s, e)[k] = s[k]
  OBVIOUS
<1>2. Len(s) + 1 \in DOMAIN Append(s, e)
  BY <1>1
<1>3. Append(s, e) # << >>
  BY <1>2
<1> QED BY <1>1, <1>2, <1>3

\* A datagram goes out: a beat or a LIST is still under way, the only LOGIN is now.
LEMMA SendGood ==
    ASSUME TypeInv, OwnersInv, Faultless, NEW c \in Clients, ClientGood(c), Send(c)
    PROVE  /\ ClientGood(c)'
           /\ sid[c] # NoId => Head(sendq[c]) \notin {"LOGIN", "LOGOUT"}
<1> DEFINE u == Up(Head(sendq[c]), sid[c], addr[c])
<1>a. /\ alive[c] = "running" /\ alive' = alive /\ Live(c) /\ ThreadsGood(c) /\ AnswersGood(c) /\ Staged(c)
      /\ db' = db /\ recvq' = recvq /\ quiet' = quiet /\ lastId' = lastId /\ sid' = sid /\ addr' = addr
      /\ thread' = thread /\ beat' = beat /\ net' = net \cup {u}
      /\ sendq[c] # << >> /\ sendq[c] \in Seq(Kinds) /\ sendq'[c] = Tail(sendq[c])
  BY DEF Send, Running, ClientGood, Live, server, TypeInv, ClientTypes
<1>b. addr[c] = <<c, 0>>
  BY DEF OwnersInv, Faultless, TypeInv, ClientTypes, Addrs
<1>c. /\ u.up /\ u.kind = sendq[c][1] /\ u.id = sid[c] /\ u.at = addr[c] /\ u.at[1] = c
      /\ 1 \in DOMAIN sendq[c] /\ Head(sendq[c]) = sendq[c][1]
  BY <1>a, <1>b, TailHas DEF Up
<1> HIDE DEF u
<1>d. /\ Mine(c)' = Mine(c) \cup {u} /\ Ups(c)' = Ups(c) \cup {u} /\ RecordsOf(c)' = RecordsOf(c)
  BY <1>a, <1>c DEF Mine, Ups, RecordsOf
<1>e. \A i : Owned(i, c)' <=> Owned(i, c)
  BY <1>a, <1>c DEF Owned, Gives
<1>f. /\ \A k \in DOMAIN sendq'[c] : k + 1 \in DOMAIN sendq[c] /\ sendq'[c][k] = sendq[c][k + 1]
      /\ \A k \in DOMAIN sendq[c] : k = 1 \/ (k - 1 \in DOMAIN sendq'[c] /\ sendq'[c][k - 1] = sendq[c][k])
  BY <1>a, TailHas
<1>g. \A t : At(c, t)' = At(c, t)
  BY <1>a DEF At
<1>1. ThreadsGood(c)' /\ AnswersGood(c)'
  BY <1>a, <1>c, <1>d, <1>g DEF ThreadsGood, AnswersGood, isLogin
<1>2. NoRecord(c)' = NoRecord(c) /\ Waits(c)' = Waits(c)
  BY <1>a, <1>d, <1>e, <1>g DEF NoRecord, Waits
<1>3. CASE Silent(c)
  BY <1>3, <1>a DEF Silent
<1>4. CASE Asking(c)
  <2>1. sendq[c] = <<"LOGIN">> /\ Ups(c) = {} /\ sid[c] = NoId
    BY <1>4, <1>a DEF Asking, NoRecord
  <2>2. u = Up("LOGIN", NoId, addr[c])
    BY <2>1 DEF u
  <2>3. sendq'[c] = << >>
    BY <1>a, <2>1
  <2>4. Asking(c)'
    BY <1>4, <1>a, <1>d, <1>2, <2>1, <2>2, <2>3 DEF Asking, Up
  <2> QED BY <1>1, <2>1, <2>4 DEF ClientGood, Staged
<1>5. CASE Refused(c)
  <2>1. Refused(c)' /\ sid[c] = NoId
    BY <1>5, <1>a, <1>2, <1>g DEF Refused, NoRecord
  <2> QED BY <1>1, <2>1 DEF ClientGood, Staged
<1>6. ASSUME NEW i \in Ids, Known(c, i) PROVE ClientGood(c)' /\ sendq[c][1] \notin {"LOGIN", "LOGOUT"}
  <2>1. isLogin(c) /\ sid[c] = i /\ i # NoId
    <3>1. isLogin(c)
      BY <1>6, <1>a DEF Known, isLogout
    <3>2. Known(c, sid[c]) /\ sid[c] \in Ids
      BY <1>a, <3>1, StageOf
    <3> QED BY <1>6, <3>1, <3>2 DEF Known, isLogin
  <2>2. sendq[c][1] \notin {"LOGIN", "LOGOUT"}
    BY <1>6, <1>c DEF Known
  <2>3. UntilBeat(c)' = UntilBeat(c) /\ UntilList(c)' = UntilList(c)
    BY <1>a, <1>g DEF UntilBeat, UntilList, Nap
  <2>4. BeatUnderWay(c, i)'
    BY <1>c, <1>d, <2>1 DEF BeatUnderWay
  <2>5. ListUnderWay(c) => ListUnderWay(c)'
    <3>1. CASE \E k \in DOMAIN sendq[c] : sendq[c][k] = "LIST"
      <4>1. PICK k \in DOMAIN sendq[c] : sendq[c][k] = "LIST"
        BY <3>1
      <4>2. CASE k = 1
        BY <4>1, <4>2, <1>c, <1>d DEF ListUnderWay
      <4>3. CASE k # 1
        BY <4>1, <4>3, <1>f DEF ListUnderWay
      <4> QED BY <4>2, <4>3
    <3>2. CASE \E d \in Mine(c) : d.kind = "LIST"
      BY <3>2, <1>d DEF ListUnderWay
    <3>3. CASE \E k \in DOMAIN recvq[c] : recvq[c][k].kind = "LIST"
      BY <3>3, <1>a DEF ListUnderWay
    <3> QED BY <3>1, <3>2, <3>3 DEF ListUnderWay
  <2>6. BeatInTime(c, i)' /\ ListInTime(c)'
    BY <1>6, <1>a, <2>1, <2>3, <2>4, <2>5 DEF Known, BeatInTime, ListInTime
  <2>7. \A k \in DOMAIN sendq'[c] : sendq'[c][k] \notin {"LOGIN", "LOGOUT"}
    BY <1>6, <1>f DEF Known
  <2>8. \A d \in Ups(c)' : d.kind \notin {"LOGIN", "LOGOUT"}
    BY <1>6, <1>c, <1>d, <2>2 DEF Known
  <2>9. Known(c, i)'
    BY <1>6, <1>a, <1>d, <1>e, <1>g, <2>1, <2>6, <2>7, <2>8 DEF Known, isLogin, isLogout
  <2> QED BY <1>1, <2>2, <2>9 DEF ClientGood, Staged
<1> QED BY <1>a, <1>c, <1>3, <1>4, <1>5, <1>6 DEF Staged

LEMMA SayGood ==
    ASSUME TypeInv, NEW c \in Clients, ClientGood(c), Say(c)
    PROVE  ClientGood(c)'
<1>a. /\ alive[c] = "running" /\ alive' = alive /\ Live(c) /\ ThreadsGood(c) /\ AnswersGood(c) /\ Staged(c)
      /\ db' = db /\ recvq' = recvq /\ quiet' = quiet /\ sid' = sid /\ thread' = thread /\ beat' = beat /\ net' = net
      /\ At(c, "main") = "joined"
  BY DEF Say, Running, ClientGood, Live, server
<1>b. sendq'[c] = <<"INPUT">>
  <2>1. sendq'[c] = << >> \o <<"INPUT">>
    BY DEF Say, Commit, TypeInv, ClientTypes
  <2> QED BY <2>1
<1>c. isLogin(c) /\ sendq[c] = << >>
  BY <1>a DEF ThreadsGood, Say
<1>d. PICK i \in Ids : Known(c, i)
  BY <1>a, StageOf
<1>e. \A t : At(c, t)' = At(c, t)
  BY <1>a DEF At
<1>1. UntilBeat(c)' = UntilBeat(c) /\ UntilList(c)' = UntilList(c)
  BY <1>a, <1>e DEF UntilBeat, UntilList, Nap
<1>2. Mine(c)' = Mine(c) /\ Ups(c)' = Ups(c) /\ AnswersGood(c)'
  BY <1>a, SameTraffic
<1>3. BeatInTime(c, i)'
  BY <1>d, <1>a, <1>b, <1>1, <1>2 DEF Known, BeatInTime, BeatUnderWay
<1>4. ListInTime(c)'
  BY <1>d, <1>a, <1>c, <1>1, <1>2 DEF Known, ListInTime, ListUnderWay
<1>5. \A k \in DOMAIN sendq'[c] : sendq'[c][k] \notin {"LOGIN", "LOGOUT"}
  <2>1. \A k \in DOMAIN <<"INPUT">> : <<"INPUT">>[k] = "INPUT"
    OBVIOUS
  <2> QED BY <1>b, <2>1
<1>6. Staged(c)'
  BY <1>a, <1>c, <1>d, <1>e, <1>3, <1>4, <1>5, KnownStays
<1>7. ThreadsGood(c)'
  BY <1>a, <1>e DEF ThreadsGood, isLogin
<1> QED BY <1>2, <1>6, <1>7 DEF ClientGood

\* An answer comes into the queue.
LEMMA ReceiveGood ==
    ASSUME TypeInv, OwnersInv, Faultless, NEW c \in Clients, ClientGood(c), NEW d \in net, Receive(c, d),
           net' = net \ {d}
    PROVE  ClientGood(c)'
<1>a. /\ alive[c] = "running" /\ alive' = alive /\ Live(c) /\ ThreadsGood(c) /\ AnswersGood(c) /\ Staged(c)
      /\ db' = db /\ quiet' = quiet /\ lastId' = lastId /\ sid' = sid /\ addr' = addr
      /\ thread' = thread /\ beat' = beat /\ sendq' = sendq
      /\ recvq[c] \in Seq(Datagram) /\ recvq'[c] = Append(recvq[c], d)
      /\ ~ d.up /\ d.at = addr[c]
  BY DEF Receive, Running, ClientGood, Live, server, TypeInv, ClientTypes
<1>b. d.at[1] = c
  BY <1>a DEF OwnersInv
<1>c. /\ \A k \in DOMAIN recvq'[c] : (k \in DOMAIN recvq[c] /\ recvq'[c][k] = recvq[c][k]) \/ recvq'[c][k] = d
      /\ \A k \in DOMAIN recvq[c] : k \in DOMAIN recvq'[c] /\ recvq'[c][k] = recvq[c][k]
      /\ \E k \in DOMAIN recvq'[c] : recvq'[c][k] = d
  BY <1>a, AppendHas
<1>d. Mine(c)' = Mine(c) \ {d} /\ Ups(c)' = Ups(c) /\ RecordsOf(c)' = RecordsOf(c) /\ d \in Mine(c)
  BY <1>a, <1>b DEF Mine, Ups, RecordsOf
<1>e. \A i : Owned(i, c)' <=> Owned(i, c)
  <2>1. ASSUME NEW i, Owned(i, c) PROVE Owned(i, c)'
    <3>1. CASE \E g \in net : ~ g.up /\ Gives(g, i) /\ g.at[1] = c
      <4>1. PICK g \in net : ~ g.up /\ Gives(g, i) /\ g.at[1] = c
        BY <3>1
      <4>2. CASE g = d
        BY <4>1, <4>2, <1>c DEF Owned, Gives
      <4>3. CASE g # d
        BY <4>1, <4>3 DEF Owned, Gives
      <4> QED BY <4>2, <4>3
    <3>2. CASE sid[c] = i \/ \E k \in DOMAIN recvq[c] : Gives(recvq[c][k], i)
      BY <3>2, <1>a, <1>c DEF Owned, Gives
    <3> QED BY <2>1, <3>1, <3>2 DEF Owned
  <2>2. ASSUME NEW i, Owned(i, c)' PROVE Owned(i, c)
    <3>1. CASE \E k \in DOMAIN recvq'[c] : Gives(recvq'[c][k], i)
      BY <3>1, <1>a, <1>b, <1>c DEF Owned, Gives
    <3>2. CASE sid'[c] = i \/ \E g \in net' : ~ g.up /\ Gives(g, i) /\ g.at[1] = c
      BY <3>2, <1>a DEF Owned
    <3> QED BY <2>2, <3>1, <3>2 DEF Owned, Gives
  <2> QED BY <2>1, <2>2
<1>g. \A t : At(c, t)' = At(c, t)
  BY <1>a DEF At
<1>1. ThreadsGood(c)' /\ AnswersGood(c)'
  BY <1>a, <1>c, <1>d, <1>g DEF ThreadsGood, AnswersGood, isLogin
<1>2. NoRecord(c)' = NoRecord(c) /\ Waits(c)' = Waits(c)
  BY <1>a, <1>d, <1>e, <1>g DEF NoRecord, Waits
<1>3. Asking(c) => Asking(c)'
  BY <1>a, <1>d, <1>2 DEF Asking
<1>4. Refused(c) => Refused(c)'
  BY <1>a, <1>2, <1>g DEF Refused
<1>5. ASSUME NEW i \in Ids, Known(c, i) PROVE Known(c, i)'
  <2>1. UntilBeat(c)' = UntilBeat(c) /\ UntilList(c)' = UntilList(c) /\ BeatUnderWay(c, i)' = BeatUnderWay(c, i)
    BY <1>a, <1>d, <1>g DEF UntilBeat, UntilList, Nap, BeatUnderWay
  <2>2. ListUnderWay(c) => ListUnderWay(c)'
    <3>1. CASE \E g \in Mine(c) : g.kind = "LIST"
      BY <3>1, <1>c, <1>d DEF ListUnderWay
    <3>2. CASE \/ \E k \in DOMAIN sendq[c] : sendq[c][k] = "LIST"
               \/ \E k \in DOMAIN recvq[c] : recvq[c][k].kind = "LIST"
      BY <3>2, <1>a, <1>c DEF ListUnderWay
    <3> QED BY <3>1, <3>2 DEF ListUnderWay
  <2>3. BeatInTime(c, i)' /\ (isLogin(c) => ListInTime(c)')
    BY <1>5, <1>a, <2>1, <2>2 DEF Known, BeatInTime, ListInTime
  <2> QED BY <1>5, <1>a, <1>d, <1>e, <1>g, <1>2, <2>3 DEF Known, isLogin, isLogout
<1>6. ~ Silent(c)
  BY <1>a DEF Silent
<1> QED BY <1>1, <1>a, <1>3, <1>4, <1>5, <1>6 DEF ClientGood, Staged

\* The handle thread takes a LOGIN, the one it gets, or a LIST.
LEMMA AnswerGood ==
    ASSUME TypeInv, NetGood, NEW c \in Clients, ClientGood(c),
           doResponseLogin(c) \/ doResponseLogout(c) \/ doResponseList(c)
    PROVE  /\ ClientGood(c)'
           /\ sid' = sid \/ (sid[c] = NoId /\ \A e \in Clients : e # c => sid'[e] = sid[e])
<1> DEFINE h == Head(recvq[c])
<1>a. /\ alive[c] = "running" /\ alive' = alive /\ Live(c) /\ ThreadsGood(c) /\ AnswersGood(c) /\ Staged(c)
      /\ net' = net /\ db' = db /\ lastId' = lastId /\ addr' = addr /\ beat' = beat
      /\ recvq[c] \in Seq(Datagram) /\ recvq[c] # << >> /\ recvq'[c] = Tail(recvq[c])
  BY DEF doResponseLogin, doResponseLogout, doResponseList, Handles, Running, ClientGood, Live, server, TypeInv, ClientTypes
<1>b. 1 \in DOMAIN recvq[c] /\ h = recvq[c][1] /\ h \in Datagram
  BY <1>a, TailHas
<1> HIDE DEF h
<1>c. /\ h.kind \in {"LOGIN", "LIST"} /\ (h.kind = "LOGIN" => h.id \in Ids)
      /\ h.kind = "LOGIN" => doResponseLogin(c)
      /\ h.kind = "LIST" => doResponseList(c)
  <2>1. h.kind \in {"LOGIN", "LIST"}
    BY <1>a, <1>b DEF AnswersGood
  <2>2. h.kind = "LOGIN" => h.id \in Ids
    BY <1>b DEF NetGood, Datagram
  <2> QED BY <2>1, <2>2 DEF doResponseLogin, doResponseLogout, doResponseList, Handles, h
<1>d. thread' = thread /\ sendq' = sendq
  BY <1>c DEF doResponseLogin, doResponseList
<1>e. /\ \A k \in DOMAIN recvq'[c] : k + 1 \in DOMAIN recvq[c] /\ recvq'[c][k] = recvq[c][k + 1]
      /\ \A k \in DOMAIN recvq[c] : k = 1 \/ (k - 1 \in DOMAIN recvq'[c] /\ recvq'[c][k - 1] = recvq[c][k])
  BY <1>a, TailHas
<1>f. Mine(c)' = Mine(c) /\ Ups(c)' = Ups(c) /\ RecordsOf(c)' = RecordsOf(c)
  BY <1>a DEF Mine, Ups, RecordsOf
<1>g. \A t : At(c, t)' = At(c, t)
  BY <1>d DEF At
<1>h. UntilBeat(c)' = UntilBeat(c) /\ UntilList(c)' = UntilList(c) /\ Waits(c)' = Waits(c)
  BY <1>a, <1>d, <1>g DEF UntilBeat, UntilList, Nap, Waits
<1>i. \A i \in Ids : i # NoId
  BY Constants DEF Ids, NoId
<1>j. AnswersGood(c)'
  BY <1>a, <1>e, <1>f DEF AnswersGood
<1>k. \A i : BeatInTime(c, i)' = BeatInTime(c, i)
  BY <1>a, <1>d, <1>f, <1>h DEF BeatInTime, BeatUnderWay
<1>l. ~ Silent(c) /\ quiet[c] \in Nat /\ UntilList(c) \in 0..2 * RefreshEvery /\ RefreshEvery \in Nat
  BY <1>a, Untils, Constants DEF Silent
\* Whom it belongs to, by what is left in the queue.
<1>m. ASSUME NEW i \in Ids, Owned(i, c)', sid'[c] = sid[c] \/ (sid'[c] = h.id /\ h.kind = "LOGIN") PROVE Owned(i, c)
  <2>1. CASE sid'[c] = i
    BY <1>b, <1>m, <2>1 DEF Owned, Gives
  <2>2. CASE \E g \in net' : ~ g.up /\ Gives(g, i) /\ g.at[1] = c
    BY <2>2, <1>a DEF Owned
  <2>3. CASE \E k \in DOMAIN recvq'[c] : Gives(recvq'[c][k], i)
    BY <2>3, <1>e DEF Owned
  <2> QED BY <1>m, <2>1, <2>2, <2>3 DEF Owned, Gives
<1>1. CASE h.kind = "LIST"
  <2>1. sid' = sid /\ quiet'[c] = 0
    BY <1>1, <1>c DEF doResponseList, TypeInv, ClientTypes
  <2>2. ASSUME NEW i \in Ids PROVE Owned(i, c)' <=> Owned(i, c)
    <3>1. ASSUME NEW k \in DOMAIN recvq[c], Gives(recvq[c][k], i) PROVE Owned(i, c)'
      BY <1>1, <1>b, <1>e, <3>1 DEF Owned, Gives
    <3>2. Owned(i, c) => Owned(i, c)'
      BY <1>a, <2>1, <3>1 DEF Owned, Gives
    <3> QED BY <1>m, <2>1, <3>2
  <2>3. ThreadsGood(c)'
    BY <1>a, <1>g, <2>1 DEF ThreadsGood, isLogin
  <2>4. NoRecord(c)' = NoRecord(c)
    BY <1>f, <2>1, <2>2 DEF NoRecord
  <2>5. (Asking(c) => Asking(c)') /\ (Refused(c) => Refused(c)')
    BY <1>a, <1>d, <1>f, <1>g, <1>h, <2>4 DEF Asking, Refused
  <2>6. ASSUME NEW i \in Ids, Known(c, i) PROVE Known(c, i)'
    <3>1. ListInTime(c)'
      BY <1>h, <1>l, <2>1 DEF ListInTime
    <3> QED BY <2>6, <3>1, <1>a, <1>d, <1>f, <1>g, <1>h, <1>k, <2>1, <2>2 DEF Known, isLogin, isLogout
  <2> QED BY <1>a, <1>j, <1>l, <2>1, <2>3, <2>5, <2>6 DEF ClientGood, Staged
<1>2. CASE h.kind = "LOGIN"
  <2>1. Owned(h.id, c) /\ h.id \in Ids /\ Known(c, h.id)
    <3>1. Owned(h.id, c) /\ h.id \in Ids
      BY <1>2, <1>b, <1>c DEF Owned, Gives
    <3> QED BY <3>1, <1>a, StageOf
  <2>2. PICK i \in Ids : i = h.id /\ Known(c, i)
    BY <2>1
  <2>3. CASE isLogin(c)
    <3>1. sid' = sid /\ quiet' = quiet
      BY <1>2, <1>c, <2>3 DEF doResponseLogin, isLogout
    <3>2. sid[c] = i
      <4>1. Known(c, sid[c]) /\ sid[c] \in Ids
        BY <1>a, <2>3, StageOf
      <4> QED BY <2>2, <4>1 DEF Known
    <3>3. Owned(i, c)'
      BY <3>1, <3>2 DEF Owned
    <3>4. ThreadsGood(c)'
      BY <1>a, <1>g, <3>1 DEF ThreadsGood, isLogin
    <3>5. ListUnderWay(c) => ListUnderWay(c)'
      <4>1. CASE \E k \in DOMAIN recvq[c] : recvq[c][k].kind = "LIST"
        BY <4>1, <1>2, <1>b, <1>e DEF ListUnderWay
      <4>2. CASE \/ \E k \in DOMAIN sendq[c] : sendq[c][k] = "LIST"
                 \/ \E d \in Mine(c) : d.kind = "LIST"
        BY <4>2, <1>d, <1>f DEF ListUnderWay
      <4> QED BY <4>1, <4>2 DEF ListUnderWay
    <3>6. ListInTime(c)'
      BY <1>h, <2>2, <2>3, <3>1, <3>5 DEF Known, ListInTime
    <3>7. \A j \in Ids : Owned(j, c)' => j = i
      BY <1>m, <2>2, <3>1 DEF Known
    <3>8. Known(c, i)'
      BY <2>2, <2>3, <3>1, <3>3, <3>6, <3>7, <1>a, <1>d, <1>f, <1>g, <1>k DEF Known, isLogin, isLogout
    <3> QED BY <1>j, <3>1, <3>4, <3>8 DEF ClientGood, Staged
  <2>4. CASE isLogout(c)
    <3>1. sid[c] = NoId /\ sid' = [sid EXCEPT ![c] = i] /\ quiet'[c] = 0
      BY <1>2, <1>c, <2>2, <2>4 DEF doResponseLogin, isLogout, isLogin, h, TypeInv, ClientTypes
    <3>2. sid'[c] = i /\ i # NoId /\ \A e \in Clients : e # c => sid'[e] = sid[e]
      BY <3>1, <1>i DEF TypeInv, ClientTypes
    <3>3. At(c, "main") = "login" /\ At(c, "main") # "joined"
      BY <2>2, <2>4 DEF Known, Waits
    <3>4. ThreadsGood(c)'
      BY <1>a, <1>g, <3>3 DEF ThreadsGood
    <3>5. ListInTime(c)'
      BY <1>h, <1>l, <3>1 DEF ListInTime
    <3>6. Owned(i, c)' /\ \A j \in Ids : Owned(j, c)' => j = i
      BY <1>2, <1>m, <2>2, <3>2 DEF Known, Owned
    <3>7. Known(c, i)'
      BY <2>2, <3>2, <3>5, <3>6, <1>a, <1>d, <1>f, <1>g, <1>k DEF Known, isLogin, isLogout
    <3> QED BY <1>j, <3>1, <3>2, <3>4, <3>7 DEF ClientGood, Staged
  <2> QED BY <2>3, <2>4 DEF isLogout
<1> QED BY <1>c, <1>1, <1>2

\* A client's step changes nothing of another's.
LEMMA OthersAside ==
    ASSUME TypeInv, OwnersInv, NEW c \in Clients, NEW e \in Clients, e # c, ClientStep(c), ClientGood(e),
           addr' = addr
    PROVE  ClientGood(e)'
<1>a. /\ alive \in [Clients -> {"off", "running", "closed", "exited"}] /\ sid \in [Clients -> Ids \cup {NoId}]
      /\ quiet \in [Clients -> 0..OnlineLimit + 1] /\ beat \in [Clients -> 0..RefreshEvery - 1]
      /\ sendq \in [Clients -> Seq(Kinds)] /\ recvq \in [Clients -> Seq(Datagram)]
      /\ DOMAIN thread = Clients
  BY DEF TypeInv, ClientTypes, ThreadTypes
<1>1. db' = db /\ lastId' = lastId
  BY ServerAlone DEF server
<1>2. Mine(e)' = Mine(e)
  <2>1. \A d : d \in net' \ net \/ d \in net \ net' => d.at = addr[c]
    <3>1. ASSUME Send(c) PROVE \A d : d \in net' \ net \/ d \in net \ net' => d.at = addr[c]
      BY <3>1 DEF Send, Up
    <3>2. ASSUME NEW g \in net, Receive(c, g) PROVE \A d : d \in net' \ net \/ d \in net \ net' => d.at = addr[c]
      BY <3>2 DEF Receive, Arrives
    <3> QED BY <3>1, <3>2 DEF ClientStep, ThreadStep, LoginWait, LoginSeen, CloseBegin, CloseCheck, CloseAgain, Say, Start,
     UserExit, EchoBeat, EchoLook, EchoDrop, EchoTry, EchoAgain, Move,
     doResponseLogin, doResponseLogout, doResponseList
  <2>2. addr[c][1] = c
    BY DEF OwnersInv
  <2> QED BY <2>1, <2>2 DEF Mine
<1>3. RecordsOf(e)' = RecordsOf(e)
  BY <1>1 DEF RecordsOf
<1>4. alive'[e] = alive[e] /\ sid'[e] = sid[e] /\ quiet'[e] = quiet[e] /\ beat'[e] = beat[e]
  BY <1>a DEF ClientStep, ThreadStep, LoginWait, LoginSeen, CloseBegin, CloseCheck, CloseAgain, Say, Start,
     UserExit, EchoBeat, EchoLook, EchoDrop, EchoTry, EchoAgain, Move, Send, Receive,
     doResponseLogin, doResponseLogout, doResponseList
<1>5. sendq'[e] = sendq[e] /\ recvq'[e] = recvq[e]
  BY <1>a DEF ClientStep, ThreadStep, LoginWait, LoginSeen, CloseBegin, CloseCheck, CloseAgain, Say, Start,
     UserExit, EchoBeat, EchoLook, EchoDrop, EchoTry, EchoAgain, Move, Send, Receive, StartLogin, Commit,
     doResponseLogin, doResponseLogout, doResponseList, Handles
<1>6. thread'[e] = thread[e]
  BY <1>a DEF ClientStep, ThreadStep, LoginWait, LoginSeen, CloseBegin, CloseCheck, CloseAgain, Say, Start,
     UserExit, EchoBeat, EchoLook, EchoDrop, EchoTry, EchoAgain, Move, Send, Receive, StartLogin, Goto,
     doResponseLogin, doResponseLogout, doResponseList
<1> QED BY <1>1, <1>2, <1>3, <1>4, <1>5, <1>6, Aside

\* Nobody gives up an id: only who has none gets one.
LEMMA IdsKept ==
    ASSUME TypeInv, NetGood, NEW c \in Clients, ClientGood(c), ClientStep(c)
    PROVE  sid' = sid \/ (sid[c] = NoId /\ \A e \in Clients : e # c => sid'[e] = sid[e])
<1>a. sid \in [Clients -> Ids \cup {NoId}]
  BY DEF TypeInv, ClientTypes
<1>1. ASSUME NEW t \in Threads, CloseBegin(c, t) PROVE sid[c] = NoId
  <2>1. alive[c] = "running" /\ ThreadsGood(c) /\ Staged(c) /\ At(c, t) = "dialog"
    BY <1>1 DEF CloseBegin, Running, ClientGood, Live
  <2>2. t = "main"
    BY <2>1 DEF ThreadsGood, Threads
  <2>3. Refused(c)
    BY <2>1, <2>2 DEF Staged, Silent, Asking, Waits, Known
  <2> QED BY <2>3 DEF Refused, NoRecord
<1>2. ~ EchoDrop(c)
  BY DEF EchoDrop, Running, ClientGood, Live, ThreadsGood
<1>3. CASE doResponseLogin(c) \/ doResponseLogout(c) \/ doResponseList(c)
  BY <1>3, AnswerGood
<1>4. ASSUME NEW t \in Threads, ThreadStep(c, t)
      PROVE  sid' = sid \/ (sid[c] = NoId /\ \A e \in Clients : e # c => sid'[e] = sid[e])
  BY <1>a, <1>1, <1>4 DEF ThreadStep, LoginWait, LoginSeen, CloseBegin, CloseCheck, CloseAgain
<1> QED BY <1>2, <1>3, <1>4 DEF ClientStep, Say, Start, UserExit, EchoBeat, EchoLook, EchoTry, EchoAgain, Move, Send, Receive

LEMMA ExitGood ==
    ASSUME TypeInv, NEW c \in Clients, UserExit(c)
    PROVE  ClientGood(c)'
<1>1. alive'[c] = "exited"
  BY DEF UserExit, TypeInv, ClientTypes
<1> QED BY <1>1 DEF ClientGood, Live

LEMMA ClientStepGood ==
    ASSUME TypeInv, OwnersInv, GoodTiming, Faultless, NetGood, \A e \in Clients : ClientGood(e),
           [Next]_vars, Faultless', NEW c \in Clients, ClientStep(c)
    PROVE  NetGood' /\ \A e \in Clients : ClientGood(e)'
<1>a. /\ faults' = faults /\ addr' = addr /\ db' = db
      /\ \A d \in net : \A A : Arrives(d, A) => net' = (net \ {d}) \cup A
  BY FaultsStay, ServerAlone DEF server
<1>b. ~ Move(c)
  <2> SUFFICES ASSUME Move(c) PROVE FALSE
    OBVIOUS
  <2>1. addr'[c] = <<c, addr[c][2] + 1>> /\ addr[c][2] = 0
    BY DEF Move, TypeInv, ClientTypes, Faultless
  <2> QED BY <1>a, <2>1
<1>c. ASSUME NEW d \in net, Receive(c, d) PROVE net' = net \ {d}
  <2>1. Arrives(d, {})
    BY <1>c DEF Receive
  <2> QED BY <1>a, <2>1
<1>1. ClientGood(c)'
  BY <1>b, <1>c, StartGood, ThreadStepGood, EchoGood, SendGood, SayGood, ReceiveGood, AnswerGood, ExitGood DEF ClientStep
<1>2. NetGood'
  <2>a. recvq \in [Clients -> Seq(Datagram)] /\ sid \in [Clients -> Ids \cup {NoId}] /\ sendq \in [Clients -> Seq(Kinds)]
        /\ addr[c] = <<c, 0>> /\ net \subseteq Datagram
    BY DEF TypeInv, ClientTypes, OwnersInv, Faultless, Addrs, NetTypes
  <2>1. \A d \in net : d.up => d.id = NoId \/ (sid'[d.at[1]] = d.id /\ d.kind \notin {"LOGIN", "LOGOUT"})
    <3> SUFFICES ASSUME NEW d \in net, d.up, d.id # NoId
                 PROVE  sid'[d.at[1]] = d.id /\ d.kind \notin {"LOGIN", "LOGOUT"}
      OBVIOUS
    <3>1. sid[d.at[1]] = d.id /\ d.kind \notin {"LOGIN", "LOGOUT"} /\ d.at[1] \in Clients
      BY <2>a DEF NetGood, Datagram, Addrs
    <3> QED BY <3>1, IdsKept
  <2>2. \/ net' = net /\ \A e \in Clients : recvq'[e] = recvq[e] \/ (recvq[e] # << >> /\ recvq'[e] = Tail(recvq[e]))
        \/ \E d \in net : ~ d.up /\ net' = net \ {d} /\ recvq' = [recvq EXCEPT ![c] = Append(recvq[c], d)]
        \/ /\ recvq' = recvq /\ Send(c) /\ net' = net \cup {Up(Head(sendq[c]), sid[c], addr[c])} /\ sid' = sid
    <3>1. CASE doResponseLogin(c) \/ doResponseLogout(c) \/ doResponseList(c)
      BY <3>1, <2>a DEF doResponseLogin, doResponseLogout, doResponseList, Handles
    <3>2. ASSUME NEW d \in net, Receive(c, d)
          PROVE  ~ d.up /\ net' = net \ {d} /\ recvq' = [recvq EXCEPT ![c] = Append(recvq[c], d)]
      BY <3>2, <1>c DEF Receive
    <3>3. CASE Send(c)
      BY <3>3 DEF Send
    <3> QED BY <1>b, <3>1, <3>2, <3>3 DEF ClientStep, ThreadStep, LoginWait, LoginSeen, CloseBegin, CloseCheck, CloseAgain,
           Say, Start, UserExit, EchoBeat, EchoLook, EchoDrop, EchoTry, EchoAgain
  <2>3. IsFiniteSet(net')
    <3>1. \A u : IsFiniteSet(net \cup {u}) /\ IsFiniteSet(net \ {u})
      BY FS_AddElement, FS_RemoveElement DEF NetGood
    <3> QED BY <2>2, <3>1 DEF NetGood
  <2>4. ASSUME NEW d \in net'
        PROVE  /\ d.at[2] = 0
               /\ d.up => d.id = NoId \/ (sid'[d.at[1]] = d.id /\ d.kind \notin {"LOGIN", "LOGOUT"})
               /\ ~ d.up /\ d.kind = "LOGIN" => d.id # NoId
    <3>1. CASE d \in net
      BY <2>1, <3>1 DEF NetGood
    <3>2. CASE d \notin net
      <4>1. Send(c) /\ d = Up(Head(sendq[c]), sid[c], addr[c]) /\ sid' = sid
        BY <2>2, <3>2
      <4>2. sid[c] # NoId => Head(sendq[c]) \notin {"LOGIN", "LOGOUT"}
        BY <4>1, SendGood
      <4> QED BY <2>a, <4>1, <4>2 DEF Up
    <3> QED BY <3>1, <3>2
  <2>5. ASSUME NEW e \in Clients, NEW k \in DOMAIN recvq'[e], recvq'[e][k].kind = "LOGIN"
        PROVE  recvq'[e][k].id # NoId
    <3>1. CASE recvq'[e] = recvq[e]
      BY <2>5, <3>1 DEF NetGood
    <3>2. CASE recvq[e] # << >> /\ recvq'[e] = Tail(recvq[e])
      <4>1. recvq[e] \in Seq(Datagram)
        BY <2>a
      <4>2. k + 1 \in DOMAIN recvq[e] /\ recvq'[e][k] = recvq[e][k + 1]
        BY <3>2, <4>1, TailHas
      <4> QED BY <2>5, <4>2 DEF NetGood
    <3>3. ASSUME NEW d \in net, ~ d.up, recvq' = [recvq EXCEPT ![c] = Append(recvq[c], d)]
          PROVE  recvq'[e][k].id # NoId
      <4>1. CASE e # c
        BY <2>a, <2>5, <3>3, <4>1 DEF NetGood
      <4>2. CASE e = c
        <5>1. recvq'[e] = Append(recvq[e], d) /\ recvq[e] \in Seq(Datagram)
          BY <2>a, <3>3, <4>2
        <5>2. (k \in DOMAIN recvq[e] /\ recvq'[e][k] = recvq[e][k]) \/ recvq'[e][k] = d
          BY <5>1, AppendHas
        <5> QED BY <2>5, <3>3, <5>2 DEF NetGood
      <4> QED BY <4>1, <4>2
    <3> QED BY <2>2, <3>1, <3>2, <3>3
  <2>6. \A i \in DOMAIN db' : db'[i].addr[2] = 0
    BY <1>a DEF NetGood
  <2> QED BY <2>3, <2>4, <2>5, <2>6 DEF NetGood
<1>3. ASSUME NEW e \in Clients PROVE ClientGood(e)'
  BY <1>a, <1>1, OthersAside
<1> QED BY <1>2, <1>3

\* The datagrams at other addresses stay when one is served and answered.
LEMMA Elsewhere ==
    ASSUME NEW d \in net, NEW A, \A a \in A : a.at = d.at, net' = (net \ {d}) \cup A, NEW e, e # d.at[1]
    PROVE  Mine(e)' = Mine(e)
BY DEF Mine

Serves(d) == ServeUnknown(d) \/ ServeEcho(d) \/ doRequestList(d) \/ doRequestLogin(d) \/ doRequestLogout(d)

\* What the server does with a datagram.
LEMMA Served ==
    ASSUME TypeInv, NetGood, NEW d \in net, Serves(d),
           \A A : Arrives(d, A) => net' = (net \ {d}) \cup A
    PROVE  /\ d.up /\ d.at[1] \in Clients /\ client' = client
           /\ \/ /\ d.id # NoId /\ d.id \notin DOMAIN db /\ db' = db /\ lastId' = lastId
                 /\ net' = (net \ {d}) \cup {Down("LOGOUT", NoId, d.at)}
              \/ /\ d.kind \in {"ECHO", "INPUT"} /\ db' = Refreshed(d) /\ lastId' = lastId
                 /\ d.id = NoId \/ d.id \in DOMAIN db
                 /\ net' = net \ {d}
              \/ /\ d.kind = "LIST" /\ db' = Refreshed(d) /\ lastId' = lastId
                 /\ d.id = NoId \/ d.id \in DOMAIN db
                 /\ net' = (net \ {d}) \cup {Down("LIST", NoId, d.at)}
              \/ /\ d.kind = "LOGIN" /\ d.id = NoId /\ lastId < MaxLogins /\ lastId' = lastId + 1
                 /\ db' = [i \in DOMAIN db \cup {lastId'} |->
                             IF i = lastId' THEN [addr |-> d.at, misses |-> 0, idle |-> 0, heard |-> FALSE] ELSE db[i]]
                 /\ net' = (net \ {d}) \cup {Down("LOGIN", lastId', d.at)}
              \/ d.kind = "LOGOUT" /\ d.id = NoId /\ db' = db /\ lastId' = lastId /\ net' = net \ {d}
<1>a. d \in Datagram /\ d.at[1] \in Clients
  BY DEF TypeInv, NetTypes, Datagram, Addrs
<1>b. (net \ {d}) \cup {} = net \ {d}
  OBVIOUS
<1>1. CASE ServeUnknown(d)
  BY <1>1, <1>a DEF ServeUnknown, server
<1>2. CASE ServeEcho(d)
  BY <1>2, <1>a, <1>b DEF ServeEcho, Comes
<1>3. CASE doRequestList(d)
  BY <1>3, <1>a DEF doRequestList, Comes
<1>4. CASE doRequestLogin(d)
  <2>1. d.up /\ d.kind = "LOGIN"
    BY <1>4 DEF doRequestLogin, Comes
  <2>2. d.id = NoId /\ Refreshed(d) = db
    BY <2>1 DEF NetGood, Refreshed
  <2> QED BY <1>4, <1>a, <2>1, <2>2 DEF doRequestLogin
<1>5. CASE doRequestLogout(d)
  <2>1. d.up /\ d.kind = "LOGOUT"
    BY <1>5 DEF doRequestLogout, Comes
  <2>2. d.id = NoId
    BY <2>1 DEF NetGood
  <2> QED BY <1>5, <1>a, <1>b, <2>1, <2>2 DEF doRequestLogout
<1> QED BY <1>1, <1>2, <1>3, <1>4, <1>5 DEF Serves

\* Clients the datagram is not from.
LEMMA ServeOthers ==
    ASSUME TypeInv, OwnersInv, NetGood, NEW d \in net, Serves(d),
           \A A : Arrives(d, A) => net' = (net \ {d}) \cup A,
           NEW e \in Clients, e # d.at[1], ClientGood(e)
    PROVE  ClientGood(e)'
<1>a. d.up /\ d.at[1] \in Clients /\ client' = client
  BY Served
<1>b. /\ alive' = alive /\ sid' = sid /\ sendq' = sendq /\ recvq' = recvq /\ thread' = thread /\ beat' = beat
      /\ quiet' = quiet /\ addr' = addr
  BY <1>a DEF client
<1> SUFFICES ASSUME Live(e) PROVE ClientGood(e)'
  BY <1>b DEF ClientGood, Live
<1>1. d.id # NoId => d.id \notin RecordsOf(e)
  <2> SUFFICES ASSUME d.id # NoId, d.id \in RecordsOf(e) PROVE FALSE
    OBVIOUS
  <2>1. sid[d.at[1]] = d.id /\ d.id \in Ids
    BY <1>a DEF NetGood, TypeInv, NetTypes, Datagram
  <2>2. Owned(d.id, d.at[1])
    BY <2>1 DEF Owned
  <2>3. PICK i \in Ids : Known(e, i)
    BY DEF ClientGood, Staged, Silent, Asking, Refused, NoRecord
  <2>4. Owned(d.id, e)
    BY <2>3 DEF Known
  <2> QED BY <1>a, <2>1, <2>2, <2>4 DEF OwnersInv
<1>2. lastId \in 0..MaxLogins /\ lastId + 1 \notin DOMAIN db
  BY Constants DEF TypeInv, ServerTypes
<1>3. Mine(e)' = Mine(e)
  <2>1. \A k, i : Down(k, i, d.at).at = d.at
    BY DEF Down
  <2>2. ASSUME NEW g, g.at = d.at, net' = (net \ {d}) \cup {g} PROVE Mine(e)' = Mine(e)
    BY <2>2, Elsewhere
  <2>3. ASSUME net' = net \ {d} PROVE Mine(e)' = Mine(e)
    BY <2>3 DEF Mine
  <2> QED BY <2>1, <2>2, <2>3, Served
<1>4. RecordsOf(e)' = RecordsOf(e) /\ \A i \in RecordsOf(e) : db'[i] = db[i]
  <2>1. CASE db' = db
    BY <2>1 DEF RecordsOf
  <2>2. CASE db' = Refreshed(d) /\ (d.id = NoId \/ d.id \in DOMAIN db)
    <3>1. CASE d.id = NoId
      BY <2>2, <3>1 DEF Refreshed, RecordsOf
    <3>2. CASE d.id # NoId
      <4>1. /\ DOMAIN db' = DOMAIN db /\ db'[d.id].addr = d.at
            /\ \A i \in DOMAIN db : i # d.id => db'[i] = db[i]
        BY <2>2, <3>2 DEF Refreshed
      <4> QED BY <1>1, <3>2, <4>1 DEF RecordsOf
    <3> QED BY <3>1, <3>2
  <2>3. CASE /\ lastId' = lastId + 1
             /\ db' = [i \in DOMAIN db \cup {lastId'} |->
                         IF i = lastId' THEN [addr |-> d.at, misses |-> 0, idle |-> 0, heard |-> FALSE] ELSE db[i]]
    <3>1. /\ DOMAIN db' = DOMAIN db \cup {lastId'} /\ db'[lastId'].addr = d.at
          /\ \A i \in DOMAIN db : db'[i] = db[i]
      BY <1>2, <2>3
    <3> QED BY <1>2, <2>3, <3>1 DEF RecordsOf
  <2> QED BY <2>1, <2>2, <2>3, Served
<1>5. lastId = MaxLogins => lastId' = MaxLogins
  BY <1>2, Served, Constants
<1> QED BY <1>b, <1>3, <1>4, <1>5, Aside

\* The client it is from: its LOGIN makes it known, its beats renew the record.
LEMMA ServeOwn ==
    ASSUME TypeInv, OwnersInv, NetGood, Faultless, NEW d \in net, Serves(d),
           \A A : Arrives(d, A) => net' = (net \ {d}) \cup A,
           NEW c \in Clients, c = d.at[1], ClientGood(c)
    PROVE  ClientGood(c)'
<1>a. d.up /\ client' = client
  BY Served
<1>b. /\ alive' = alive /\ sid' = sid /\ sendq' = sendq /\ recvq' = recvq /\ thread' = thread /\ beat' = beat
      /\ quiet' = quiet /\ addr' = addr
  BY <1>a DEF client
<1> SUFFICES ASSUME Live(c) PROVE ThreadsGood(c)' /\ AnswersGood(c)' /\ Staged(c)'
  BY <1>b DEF ClientGood, Live
<1>c. ThreadsGood(c) /\ AnswersGood(c) /\ Staged(c)
  BY DEF ClientGood
<1>d. d \in Mine(c) /\ d \in Ups(c) /\ d \in Datagram /\ addr[c] = <<c, 0>> /\ d.at = addr[c]
  <2>1. d \in Mine(c) /\ d \in Ups(c) /\ d \in Datagram
    BY <1>a DEF Mine, Ups, TypeInv, NetTypes
  <2>2. d.at \in Addrs /\ addr[c] \in Addrs
    BY <2>1 DEF Datagram, TypeInv, ClientTypes
  <2>3. d.at[1] = c /\ d.at[2] = 0 /\ addr[c][1] = c /\ addr[c][2] = 0
    BY DEF OwnersInv, Faultless, NetGood
  <2>4. d.at = <<c, 0>> /\ addr[c] = <<c, 0>>
    BY <2>2, <2>3 DEF Addrs
  <2> QED BY <2>1, <2>4
<1>e. \A t : At(c, t)' = At(c, t)
  BY <1>b DEF At
<1>f. UntilBeat(c)' = UntilBeat(c) /\ UntilList(c)' = UntilList(c) /\ Waits(c)' = Waits(c) /\ UntilBeat(c) \in 0..2
  BY <1>b, <1>e, Untils DEF UntilBeat, UntilList, Nap, Waits
<1>g. ThreadsGood(c)'
  BY <1>b, <1>c, <1>e DEF ThreadsGood, isLogin
<1>h. ~ Silent(c)
  BY <1>d DEF Silent
<1>i. \A i \in Ids : i # NoId
  BY Constants DEF Ids, NoId
<1>j. d.id # NoId => d.id \in Ids /\ Known(c, d.id) /\ d.id \in DOMAIN db
  <2>1. d.id # NoId => sid[c] = d.id /\ d.id \in Ids
    BY <1>a, <1>d DEF NetGood, Datagram
  <2>2. d.id # NoId => Known(c, d.id)
    BY <1>c, <2>1, StageOf DEF isLogin
  <2> QED BY <2>1, <2>2 DEF Known, RecordsOf
<1>1. ASSUME d.kind \in {"ECHO", "INPUT", "LIST"}, db' = Refreshed(d), lastId' = lastId,
             NEW A, net' = (net \ {d}) \cup A, d.kind # "LIST" => A = {},
             d.kind = "LIST" => A = {Down("LIST", NoId, d.at)}
      PROVE  AnswersGood(c)' /\ Staged(c)'
  <2>1. \A a \in A : ~ a.up /\ a.kind = "LIST" /\ a.at = d.at
    BY <1>1 DEF Down
  <2>2. Ups(c)' = Ups(c) \ {d} /\ Mine(c)' = (Mine(c) \ {d}) \cup A
    BY <1>1, <1>d, <2>1 DEF Ups, Mine
  <2>3. AnswersGood(c)'
    BY <1>b, <1>c, <2>1, <2>2 DEF AnswersGood
  <2>4. \A i : Owned(i, c)' <=> Owned(i, c)
    <3>1. \A g : ~ g.up /\ g.kind = "LOGIN" => (g \in net' <=> g \in net)
      BY <1>1, <1>a, <2>1
    <3> QED BY <1>b, <3>1 DEF Owned, Gives
  <2>5. ~ Asking(c)
    <3>1. ASSUME Ups(c) = {Up("LOGIN", NoId, addr[c])} PROVE FALSE
      BY <3>1, <1>1, <1>d DEF Up
    <3> QED BY <3>1, <1>d DEF Asking
  <2>6. ASSUME Refused(c) PROVE Refused(c)'
    <3>1. d.id = NoId
      BY <2>6, <1>j DEF Refused, NoRecord, Known
    <3>2. NoRecord(c)'
      BY <1>1, <1>b, <2>4, <2>6, <3>1 DEF Refused, NoRecord, Refreshed, RecordsOf
    <3> QED BY <1>1, <1>b, <1>e, <2>6, <3>2 DEF Refused
  <2>7. ASSUME NEW i \in Ids, Known(c, i) PROVE Known(c, i)'
    <3>1. d.id # NoId => d.id = i
      BY <1>j, <2>7 DEF Known
    <3>2. i \in DOMAIN db /\ DOMAIN db' = DOMAIN db /\ (d.id = NoId => db' = db)
          /\ (d.id = i => /\ db'[i] = [addr |-> d.at, misses |-> 0, idle |-> 0, heard |-> TRUE]
                          /\ \A j \in DOMAIN db : j # i => db'[j] = db[j])
      BY <1>1, <1>i, <2>7, <3>1 DEF Refreshed, Known, RecordsOf
    <3>3. RecordsOf(c)' = {i}
      BY <1>d, <2>7, <3>1, <3>2 DEF Known, RecordsOf
    <3>4. BeatInTime(c, i)' /\ (db'[i].heard => db'[i].misses = 0)
      <4>1. CASE d.id = NoId
        <5>1. BeatUnderWay(c, i) => BeatUnderWay(c, i)'
          BY <1>b, <1>i, <2>2, <4>1 DEF BeatUnderWay
        <5> QED BY <1>f, <2>7, <3>2, <4>1, <5>1 DEF Known, BeatInTime
      <4>2. CASE d.id = i
        BY <1>f, <3>2, <4>2 DEF BeatInTime
      <4> QED BY <3>1, <4>1, <4>2
    <3>5. isLogin(c) => ListInTime(c)'
      <4>1. ListUnderWay(c) => ListUnderWay(c)'
        <5>1. CASE d.kind = "LIST"
          <6>1. Down("LIST", NoId, d.at) \in Mine(c)' /\ Down("LIST", NoId, d.at).kind = "LIST"
            BY <1>1, <2>2, <5>1 DEF Down
          <6> QED BY <6>1 DEF ListUnderWay
        <5>2. CASE d.kind # "LIST"
          BY <1>b, <2>2, <5>2 DEF ListUnderWay
        <5> QED BY <5>1, <5>2
      <4> QED BY <1>b, <1>f, <2>7, <4>1 DEF Known, ListInTime
    <3> QED BY <1>b, <1>e, <1>f, <2>2, <2>4, <2>7, <3>3, <3>4, <3>5 DEF Known, isLogin, isLogout
  <2> QED BY <1>c, <1>h, <2>3, <2>5, <2>6, <2>7 DEF Staged
<1>2. ASSUME d.kind = "LOGOUT", db' = db, lastId' = lastId, net' = net \ {d}
      PROVE  AnswersGood(c)' /\ Staged(c)'
  <2>1. Mine(c)' = Mine(c) \ {d} /\ \A i : Owned(i, c)' <=> Owned(i, c)
    BY <1>2, <1>a, <1>b DEF Mine, Owned, Gives
  <2>2. AnswersGood(c)'
    BY <1>b, <1>c, <2>1 DEF AnswersGood
  <2>3. Refused(c)
    <3>1. ASSUME Ups(c) = {Up("LOGIN", NoId, addr[c])} PROVE FALSE
      BY <3>1, <1>2, <1>d DEF Up
    <3>2. ~ Asking(c)
      BY <3>1, <1>d DEF Asking
    <3>3. \A i \in Ids : ~ Known(c, i)
      BY <1>2, <1>d DEF Known
    <3> QED BY <1>c, <1>h, <3>2, <3>3 DEF Staged
  <2>4. NoRecord(c)'
    BY <1>2, <1>b, <2>1, <2>3 DEF Refused, NoRecord, RecordsOf
  <2>5. Refused(c)'
    BY <1>2, <1>b, <1>e, <2>3, <2>4 DEF Refused
  <2> QED BY <2>2, <2>5 DEF Staged
<1>3. ASSUME d.kind = "LOGIN", d.id = NoId, lastId < MaxLogins, lastId' = lastId + 1,
             db' = [i \in DOMAIN db \cup {lastId'} |->
                      IF i = lastId' THEN [addr |-> d.at, misses |-> 0, idle |-> 0, heard |-> FALSE] ELSE db[i]],
             net' = (net \ {d}) \cup {Down("LOGIN", lastId', d.at)}
      PROVE  AnswersGood(c)' /\ Staged(c)'
  <2>a. lastId \in 0..MaxLogins /\ lastId + 1 \notin DOMAIN db
    BY Constants DEF TypeInv, ServerTypes
  <2>b. PICK i \in Ids : i = lastId'
    BY <1>3, <2>a, Constants DEF Ids
  <2>1. Asking(c) /\ sendq[c] = << >> /\ Ups(c) = {d}
    <3>1. ~ Refused(c)
      BY <1>3, <2>a, Constants DEF Refused
    <3>2. \A j \in Ids : ~ Known(c, j)
      BY <1>3, <1>d DEF Known
    <3>3. Asking(c)
      BY <1>c, <1>h, <3>1, <3>2 DEF Staged
    <3> QED BY <1>d, <3>3 DEF Asking
  <2> DEFINE g == Down("LOGIN", lastId', d.at)
  <2>2. ~ g.up /\ g.kind = "LOGIN" /\ g.id = i /\ g.at[1] = c
    BY <1>d, <2>b DEF Down
  <2> HIDE DEF g
  <2>3. net' = (net \ {d}) \cup {g}
    BY <1>3 DEF g
  <2>4. Mine(c)' = (Mine(c) \ {d}) \cup {g} /\ Ups(c)' = {}
    BY <2>1, <2>2, <2>3 DEF Mine, Ups
  <2>5. AnswersGood(c)'
    BY <1>b, <1>c, <2>2, <2>4 DEF AnswersGood
  <2>6. Owned(i, c)' /\ \A j \in Ids : Owned(j, c)' => j = i
    <3>1. Owned(i, c)'
      BY <2>2, <2>3 DEF Owned, Gives
    <3>2. ASSUME NEW j \in Ids, Owned(j, c)' PROVE j = i
      <4>1. ~ Owned(j, c)
        BY <2>1 DEF Asking, NoRecord
      <4>2. \E f \in net' : ~ f.up /\ Gives(f, j) /\ f.at[1] = c /\ f \notin net
        BY <1>b, <3>2, <4>1 DEF Owned, Gives
      <4> QED BY <2>2, <2>3, <4>2 DEF Gives
    <3> QED BY <3>1, <3>2
  <2>7. RecordsOf(c)' = {i} /\ db'[i] = [addr |-> d.at, misses |-> 0, idle |-> 0, heard |-> FALSE]
    <3>1. DOMAIN db' = DOMAIN db \cup {i} /\ \A j \in DOMAIN db : j # i /\ db'[j] = db[j]
      BY <1>3, <2>a, <2>b
    <3>2. db'[i] = [addr |-> d.at, misses |-> 0, idle |-> 0, heard |-> FALSE]
      BY <1>3, <2>b
    <3>3. RecordsOf(c) = {}
      BY <2>1 DEF Asking, NoRecord
    <3>4. db'[i].addr[1] = c
      BY <3>2, <1>d
    <3> QED BY <3>1, <3>2, <3>3, <3>4 DEF RecordsOf
  <2>8. BeatInTime(c, i)'
    BY <1>f, <2>7 DEF BeatInTime
  <2>9. sid'[c] = NoId /\ sendq'[c] = << >> /\ Waits(c)' /\ alive'[c] = "running" /\ At(c, "main")' = "login"
    BY <1>b, <1>e, <1>f, <2>1 DEF Asking, NoRecord, Waits
  <2>10. Known(c, i)'
    BY <2>4, <2>6, <2>7, <2>8, <2>9 DEF Known, isLogin, isLogout
  <2> QED BY <2>5, <2>10 DEF Staged
<1>4. CASE d.id # NoId /\ d.id \notin DOMAIN db
  BY <1>4, <1>j
<1>5. CASE d.kind \in {"ECHO", "INPUT"} /\ db' = Refreshed(d) /\ lastId' = lastId /\ net' = net \ {d}
  <2>1. net' = (net \ {d}) \cup {}
    BY <1>5
  <2> QED BY <1>1, <1>5, <1>g, <2>1
<1>6. CASE /\ d.kind = "LIST" /\ db' = Refreshed(d) /\ lastId' = lastId
           /\ net' = (net \ {d}) \cup {Down("LIST", NoId, d.at)}
  BY <1>1, <1>6, <1>g
<1> QED BY <1>2, <1>3, <1>4, <1>5, <1>6, <1>g, Served

\* The monitor strikes nobody who has spoken, and evicts nobody, within two seconds.
LEMMA NoStrike ==
    ASSUME TypeInv, MonitorInv, GoodTiming, untilPass = 0, NEW i \in DOMAIN db, db[i].idle <= 2,
           db[i].heard => db[i].misses = 0
    PROVE  Strikes(db[i]) # MaxLose /\ (db[i].heard => Strikes(db[i]) = 0)
<1>1. /\ db[i].misses \in Nat /\ db[i].misses < MaxLose /\ db[i].idle \in Nat /\ db[i].heard \in BOOLEAN
      /\ MaxLose \in Nat \ {0} /\ MonitorEvery \in Nat /\ LoseSeconds \in Nat /\ Timely(db[i], untilPass)
  BY Constants DEF TypeInv, ServerTypes, Rec, MonitorInv
<1>2. db[i].heard => Strikes(db[i]) = 0
  BY <1>1 DEF Strikes, GoodTiming
<1>3. CASE Strikes(db[i]) = MaxLose
  <2>1. ~ db[i].heard /\ db[i].misses = MaxLose - 1
    BY <1>1, <1>2, <1>3 DEF Strikes
  <2>2. MaxLose - 1 \in Nat /\ (MaxLose - 1 = 0 => (MaxLose - 1) * MonitorEvery = 0)
    BY <1>1
  <2>3. (MaxLose - 1) * MonitorEvery > 2
    BY DEF GoodTiming
  <2>4. MaxLose - 1 > 0
    BY <1>1, <2>2, <2>3
  <2>5. db[i].idle + 0 >= 0 + (MaxLose - 1) * MonitorEvery
    BY <1>1, <2>1, <2>4 DEF Timely, Earliest
  <2> QED BY <1>1, <2>2, <2>3, <2>5, Times
<1> QED BY <1>2, <1>3

LEMMA MonitorGood ==
    ASSUME TypeInv, MonitorInv, GoodTiming, NetGood, MonitorPass, NEW c \in Clients, ClientGood(c)
    PROVE  ClientGood(c)'
<1>a. /\ alive' = alive /\ sid' = sid /\ sendq' = sendq /\ recvq' = recvq /\ thread' = thread /\ beat' = beat
      /\ quiet' = quiet /\ addr' = addr /\ lastId' = lastId /\ untilPass = 0
      /\ DOMAIN db' = DOMAIN db \ Evicted
      /\ \A i \in DOMAIN db \ Evicted : db'[i] = [db[i] EXCEPT !.misses = Strikes(db[i])]
      /\ net' = net \cup {Down("LOGOUT", NoId, db[i].addr) : i \in Evicted}
  BY DEF MonitorPass, client
<1> SUFFICES ASSUME Live(c) PROVE ClientGood(c)'
  BY <1>a DEF ClientGood, Live
<1>b. ThreadsGood(c) /\ AnswersGood(c) /\ Staged(c)
  BY DEF ClientGood
<1>c. \A i \in RecordsOf(c) : i \in DOMAIN db /\ i \notin Evicted /\ db[i] \in Rec
                              /\ (db[i].heard => Strikes(db[i]) = 0)
  <2> SUFFICES ASSUME NEW i \in RecordsOf(c)
               PROVE  i \in DOMAIN db /\ i \notin Evicted /\ db[i] \in Rec /\ (db[i].heard => Strikes(db[i]) = 0)
    OBVIOUS
  <2>1. i \in DOMAIN db /\ db[i] \in Rec
    BY DEF RecordsOf, TypeInv, ServerTypes
  <2>2. db[i].idle <= 2 /\ (db[i].heard => db[i].misses = 0)
    BY <1>b DEF Staged, Silent, Asking, Refused, NoRecord, Known, BeatInTime
  <2> QED BY <1>a, <2>1, <2>2, NoStrike DEF Evicted
<1>1. Mine(c)' = Mine(c)
  <2>1. ASSUME NEW i \in Evicted PROVE Down("LOGOUT", NoId, db[i].addr).at[1] # c
    BY <1>c DEF Evicted, RecordsOf, Down
  <2> QED BY <1>a, <2>1 DEF Mine
<1>2. RecordsOf(c)' = RecordsOf(c)
      /\ \A i \in RecordsOf(c) : db'[i].idle = db[i].idle /\ db'[i].heard = db[i].heard
                                 /\ (db[i].heard => db'[i].misses = 0)
  <2>1. ASSUME NEW i \in DOMAIN db \ Evicted
        PROVE  db'[i].addr = db[i].addr /\ db'[i].idle = db[i].idle /\ db'[i].heard = db[i].heard
               /\ db'[i].misses = Strikes(db[i])
    BY <1>a DEF TypeInv, ServerTypes, Rec
  <2> QED BY <1>a, <1>c, <2>1 DEF RecordsOf
<1>3. Ups(c)' = Ups(c) /\ (\A t : At(c, t)' = At(c, t)) /\ \A i : Owned(i, c)' <=> Owned(i, c)
  <2>1. \A g : ~ g.up /\ g.kind = "LOGIN" => (g \in net' <=> g \in net)
    BY <1>a DEF Down
  <2> QED BY <1>a, <1>1, <2>1 DEF Ups, At, Owned, Gives
<1>4. ThreadsGood(c)' /\ AnswersGood(c)'
  BY <1>a, <1>b, <1>1, <1>3 DEF ThreadsGood, AnswersGood, isLogin
<1>5. NoRecord(c)' = NoRecord(c) /\ Waits(c)' = Waits(c) /\ UntilBeat(c)' = UntilBeat(c) /\ UntilList(c)' = UntilList(c)
  BY <1>a, <1>2, <1>3 DEF NoRecord, Waits, UntilBeat, UntilList, Nap
<1>6. (Silent(c) => Silent(c)') /\ (Asking(c) => Asking(c)') /\ (Refused(c) => Refused(c)')
  BY <1>a, <1>1, <1>3, <1>5 DEF Silent, Asking, Refused
<1>7. ASSUME NEW i \in Ids, Known(c, i) PROVE Known(c, i)'
  <2>1. i \in RecordsOf(c)
    BY <1>7 DEF Known
  <2>2. db'[i].idle = db[i].idle /\ db'[i].heard = db[i].heard /\ (db[i].heard => db'[i].misses = 0)
    BY <1>2, <2>1
  <2>3. BeatUnderWay(c, i)' = BeatUnderWay(c, i) /\ ListUnderWay(c)' = ListUnderWay(c)
    BY <1>a, <1>1, <1>3 DEF BeatUnderWay, ListUnderWay
  <2>4. BeatInTime(c, i)' = BeatInTime(c, i) /\ ListInTime(c)' = ListInTime(c)
    BY <1>a, <1>5, <2>2, <2>3 DEF BeatInTime, ListInTime
  <2> QED BY <1>7, <1>a, <1>2, <1>3, <1>5, <2>2, <2>4 DEF Known, isLogin, isLogout
<1> QED BY <1>b, <1>4, <1>6, <1>7 DEF ClientGood, Staged

\* A LOGIN nobody has an id for makes its client one that is refused.
LEMMA UndeliveredGood ==
    ASSUME TypeInv, OwnersInv, NetGood, Faultless, NEW d \in net, Undelivered(d), NEW c \in Clients, ClientGood(c)
    PROVE  ClientGood(c)'
<1>a. /\ alive' = alive /\ sid' = sid /\ sendq' = sendq /\ recvq' = recvq /\ thread' = thread /\ beat' = beat
      /\ quiet' = quiet /\ addr' = addr /\ lastId' = lastId /\ db' = db /\ net' = net \ {d}
  BY DEF Undelivered, client, server
<1>b. d \in Datagram /\ addr[c] = <<c, 0>> /\ (d.at[1] = c => d.at = addr[c])
  <2>1. d \in Datagram /\ d.at \in Addrs /\ addr[c] \in Addrs
    BY DEF TypeInv, NetTypes, ClientTypes, Datagram
  <2>2. d.at[2] = 0 /\ addr[c][1] = c /\ addr[c][2] = 0
    BY DEF OwnersInv, Faultless, NetGood
  <2> QED BY <2>1, <2>2 DEF Addrs
<1>1. CASE d.at[1] # c
  <2>1. Mine(c)' = Mine(c) /\ RecordsOf(c)' = RecordsOf(c)
    BY <1>a, <1>1 DEF Mine, RecordsOf
  <2> QED BY <1>a, <2>1, Aside
<1>2. CASE d.at[1] = c /\ Live(c)
  <2>1. ThreadsGood(c) /\ AnswersGood(c) /\ Staged(c) /\ ~ Silent(c) /\ d \in Mine(c)
    BY <1>2 DEF ClientGood, Silent, Mine
  <2>2. alive[c] = "running"
    BY <2>1 DEF Staged, Asking, Refused, Known
  <2>3. d.up /\ d.kind = "LOGIN" /\ lastId = MaxLogins
    BY <1>b, <1>2, <2>2 DEF Undelivered, Running
  <2>4. \A i : Owned(i, c)' <=> Owned(i, c)
    BY <1>a, <2>3 DEF Owned, Gives
  <2>5. NoRecord(c)' = NoRecord(c) /\ \A t : At(c, t)' = At(c, t)
    BY <1>a, <2>4 DEF NoRecord, RecordsOf, At
  <2>6. NoRecord(c) /\ At(c, "main") \in {"login", "dialog", "close"}
    <3>1. \A i \in Ids : ~ Known(c, i)
      BY <2>1, <2>3 DEF Known, Ups
    <3> QED BY <2>1, <3>1 DEF Staged, Asking, Refused, Waits
  <2>7. Refused(c)'
    BY <1>a, <2>2, <2>3, <2>5, <2>6 DEF Refused
  <2>8. ThreadsGood(c)' /\ AnswersGood(c)'
    BY <1>a, <2>1, <2>5 DEF ThreadsGood, AnswersGood, isLogin, Mine
  <2> QED BY <2>7, <2>8 DEF ClientGood, Staged
<1>3. CASE ~ Live(c)
  BY <1>3, <1>a DEF ClientGood, Live
<1> QED BY <1>1, <1>2, <1>3

\* A second passes: whoever's datagrams are under way does not let it.
LEMMA TickGood ==
    ASSUME TypeInv, NetGood, Faultless, Tick, NEW c \in Clients, ClientGood(c)
    PROVE  ClientGood(c)' /\ net = {}
<1>a. /\ alive' = alive /\ sid' = sid /\ sendq' = sendq /\ recvq' = recvq /\ beat' = beat
      /\ addr' = addr /\ lastId' = lastId /\ net' = net /\ Quiescent
      /\ db' = [i \in DOMAIN db |-> [db[i] EXCEPT !.idle = Min2(@ + 1, EvictedBy + 1)]]
      /\ quiet'[c] = IF Running(c) THEN Min2(quiet[c] + 1, OnlineLimit + 1) ELSE quiet[c]
  BY DEF Tick
<1>b. net = {}
  <2>1. Cardinality(net) \in Nat /\ Cardinality(net) <= 0
    BY <1>a, FS_CardinalityType DEF Quiescent, NetGood, Faultless
  <2> QED BY <2>1, FS_EmptySet DEF NetGood
<1> SUFFICES ASSUME Live(c) PROVE ClientGood(c)'
  BY <1>a, <1>b DEF ClientGood, Live
<1>c. ThreadsGood(c) /\ AnswersGood(c) /\ Staged(c)
  BY DEF ClientGood
<1>d. Mine(c) = {} /\ Ups(c) = {} /\ Mine(c)' = {} /\ Ups(c)' = {}
  BY <1>a, <1>b DEF Mine, Ups
<1>e. "main" \in Threads /\ "echo" \in Threads /\ "handle" \in Threads
  BY DEF Threads
<1>f. \A t \in Threads : /\ At(c, t)' = At(c, t)
                         /\ Running(c) /\ Sleeping(thread[c][t]) => thread'[c][t].due = TRUE
                         /\ ~ Running(c) => thread'[c][t] = thread[c][t]
  <2> SUFFICES ASSUME NEW t \in Threads
               PROVE  /\ At(c, t)' = At(c, t)
                      /\ Running(c) /\ Sleeping(thread[c][t]) => thread'[c][t].due = TRUE
                      /\ ~ Running(c) => thread'[c][t] = thread[c][t]
    OBVIOUS
  <2>1. thread[c][t] \in [at : Places, try : 0..RetryTimes, slept : Nat, due : BOOLEAN]
    BY DEF TypeInv, ThreadTypes
  <2>2. CASE Running(c) /\ Sleeping(thread[c][t])
    <3>1. thread'[c][t] = [thread[c][t] EXCEPT !.slept = IF thread[c][t].at \in {"login", "closewait"} THEN @ + 1 ELSE @,
                                               !.due = TRUE]
      BY <2>2 DEF Tick
    <3> QED BY <2>1, <2>2, <3>1 DEF At
  <2>3. CASE ~ (Running(c) /\ Sleeping(thread[c][t]))
    <3>1. thread'[c][t] = thread[c][t]
      BY <2>3 DEF Tick
    <3> QED BY <2>1, <2>3, <3>1 DEF At
  <2> QED BY <2>2, <2>3
<1>g. RecordsOf(c)' = RecordsOf(c) /\ \A i \in RecordsOf(c) : /\ db'[i].misses = db[i].misses /\ db'[i].heard = db[i].heard
                                                              /\ db'[i].idle <= db[i].idle + 1 /\ db'[i].idle \in Nat
  <2>1. ASSUME NEW i \in DOMAIN db
        PROVE  /\ db'[i].addr = db[i].addr /\ db'[i].misses = db[i].misses /\ db'[i].heard = db[i].heard
               /\ db'[i].idle <= db[i].idle + 1 /\ db'[i].idle \in Nat
    <3>1. db[i] \in Rec /\ db[i].idle \in Nat /\ EvictedBy \in Nat
      BY Constants DEF TypeInv, ServerTypes, Rec
    <3>2. db'[i] = [db[i] EXCEPT !.idle = Min2(db[i].idle + 1, EvictedBy + 1)]
      BY <1>a
    <3>3. Min2(db[i].idle + 1, EvictedBy + 1) <= db[i].idle + 1 /\ Min2(db[i].idle + 1, EvictedBy + 1) \in Nat
      BY <3>1 DEF Min2
    <3> QED BY <3>1, <3>2, <3>3 DEF Rec
  <2>2. DOMAIN db' = DOMAIN db
    BY <1>a
  <2> QED BY <2>1, <2>2 DEF RecordsOf
<1>h. \A i : Owned(i, c)' <=> Owned(i, c)
  BY <1>a DEF Owned, Gives
<1>1. ThreadsGood(c)' /\ AnswersGood(c)'
  BY <1>a, <1>c, <1>d, <1>e, <1>f DEF ThreadsGood, AnswersGood, isLogin
<1>2. NoRecord(c)' = NoRecord(c)
  BY <1>a, <1>g, <1>h DEF NoRecord
<1>3. Silent(c) => Silent(c)'
  BY <1>a, <1>d, <1>e, <1>f, <1>2 DEF Silent
<1>4. ~ Asking(c)
  <2> SUFFICES ASSUME Asking(c) PROVE FALSE
    OBVIOUS
  <2>1. sendq[c] = << >>
    BY <1>a DEF Asking, Quiescent, Running
  <2>2. sendq[c] = <<"LOGIN">>
    BY <1>d DEF Asking
  <2> QED BY <2>1, <2>2
<1>5. Refused(c) => Refused(c)'
  BY <1>a, <1>e, <1>f, <1>2 DEF Refused
<1>6. ASSUME NEW i \in Ids, Known(c, i) PROVE Known(c, i)'
  <2>1. /\ Running(c) /\ sendq[c] = << >> /\ recvq[c] = << >> /\ ~ thread[c]["main"].due /\ ~ thread[c]["echo"].due
        /\ At(c, "echo") # "look"
    BY <1>a, <1>c, <1>e, <1>6 DEF Known, Running, Quiescent, ThreadsGood
  <2>2. ~ BeatUnderWay(c, i) /\ ~ ListUnderWay(c)
    BY <1>d, <2>1 DEF BeatUnderWay, ListUnderWay
  <2>3. isLogin(c)
    BY <1>6, <1>b, <2>1 DEF Known, Owned, isLogin, Ids, NoId
  <2>4. UntilBeat(c)' = UntilBeat(c) - 1 /\ UntilList(c)' = UntilList(c) - 1
    <3>1. UntilBeat(c)' = UntilBeat(c) - 1 /\ UntilBeat(c) \in 0..2
      <4>1. At(c, "main") = "login" \/ At(c, "echo") \in {"sleep1", "sleep2"}
        BY <1>6, <1>c, <2>1 DEF Known, ThreadsGood
      <4>2. CASE At(c, "echo") \in {"sleep1", "sleep2"}
        <5>1. thread'[c]["echo"].due = TRUE /\ At(c, "echo")' = At(c, "echo")
          BY <1>e, <1>f, <2>1, <4>2 DEF Sleeping, At
        <5> QED BY <2>1, <4>2, <5>1 DEF UntilBeat, Nap
      <4>3. CASE At(c, "main") = "login" /\ At(c, "echo") \notin {"sleep1", "sleep2"}
        <5>1. thread'[c]["main"].due = TRUE /\ At(c, "main")' = At(c, "main") /\ At(c, "echo")' = At(c, "echo")
          BY <1>e, <1>f, <2>1, <4>3 DEF Sleeping, At
        <5> QED BY <2>1, <4>3, <5>1 DEF UntilBeat, Nap
      <4> QED BY <4>1, <4>2, <4>3
    <3>2. beat[c] \in Int /\ RefreshEvery \in Int
      BY Constants DEF TypeInv, ClientTypes
    <3> QED BY <1>a, <3>1, <3>2 DEF UntilList
  <2>5. UntilBeat(c) \in 0..2 /\ UntilList(c) \in Nat /\ quiet[c] \in Nat /\ db[i].idle \in Nat /\ RefreshEvery \in Nat
        /\ UntilBeat(c)' \in 0..2 /\ UntilList(c)' >= 0
    <3>1. UntilBeat(c)' \in 0..2 /\ UntilBeat(c) \in 0..2
      BY DEF UntilBeat, Nap
    <3>2. beat[c] \in 0..RefreshEvery - 1 /\ RefreshEvery \in Nat /\ UntilList(c)' = UntilBeat(c)' + 2 * (RefreshEvery - 1 - beat[c])
      BY <1>a, Constants DEF TypeInv, ClientTypes, UntilList
    <3>3. UntilList(c)' >= 0
      BY <3>1, <3>2
    <3> QED BY <1>6, <3>1, <3>2, <3>3, Untils DEF Known, RecordsOf
  <2>6. BeatInTime(c, i)'
    <3>1. db'[i].idle <= db[i].idle + 1 /\ db'[i].idle \in Nat
      BY <1>6, <1>g DEF Known
    <3>2. db[i].idle + UntilBeat(c) <= 2
      BY <1>6, <2>2 DEF Known, BeatInTime
    <3> QED BY <2>4, <2>5, <3>1, <3>2 DEF BeatInTime
  <2>7. ListInTime(c)'
    <3>1. quiet'[c] <= quiet[c] + 1 /\ quiet'[c] \in Nat
      BY <1>a, <2>5, Constants DEF Min2
    <3>2. quiet[c] + UntilList(c) <= 2 * RefreshEvery
      BY <1>6, <2>2, <2>3 DEF Known, ListInTime
    <3> QED BY <2>4, <2>5, <3>1, <3>2 DEF ListInTime
  <2> QED BY <1>6, <1>a, <1>d, <1>e, <1>f, <1>g, <1>h, <2>3, <2>6, <2>7 DEF Known, isLogin, isLogout
<1> QED BY <1>c, <1>1, <1>3, <1>4, <1>5, <1>6 DEF ClientGood, Staged

\* The server's answers go where the datagrams came from, and so do its LOGOUTs.
LEMMA ServeNet ==
    ASSUME TypeInv, NetGood, NEW d \in net, Serves(d), \A A : Arrives(d, A) => net' = (net \ {d}) \cup A
    PROVE  NetGood'
<1>a. d.up /\ d.at[2] = 0 /\ sid' = sid /\ recvq' = recvq
  BY Served DEF NetGood, client
<1>b. lastId \in 0..MaxLogins /\ NoId \notin 1..MaxLogins
  BY Constants DEF TypeInv, ServerTypes, NoId
<1>1. \A i \in DOMAIN db' : db'[i].addr[2] = 0
  <2>1. CASE db' = db
    BY <2>1 DEF NetGood
  <2>2. CASE db' = Refreshed(d)
    BY <2>2, <1>a DEF NetGood, Refreshed
  <2>3. CASE db' = [i \in DOMAIN db \cup {lastId'} |->
                      IF i = lastId' THEN [addr |-> d.at, misses |-> 0, idle |-> 0, heard |-> FALSE] ELSE db[i]]
    BY <2>3, <1>a DEF NetGood
  <2> QED BY <2>1, <2>2, <2>3, Served
<1>2. \/ net' = net \ {d}
      \/ \E g : /\ net' = (net \ {d}) \cup {g}
                /\ ~ g.up /\ g.at[2] = 0 /\ (g.kind = "LOGIN" => g.id # NoId)
  <2>1. \A k, i : /\ ~ Down(k, i, d.at).up /\ Down(k, i, d.at).at = d.at
                  /\ Down(k, i, d.at).kind = k /\ Down(k, i, d.at).id = i
    BY DEF Down
  <2>2. lastId < MaxLogins /\ lastId' = lastId + 1 => lastId' # NoId
    BY <1>b, Constants DEF NoId
  <2>3. ASSUME NEW g, net' = (net \ {d}) \cup {g}, ~ g.up, g.at[2] = 0, g.kind = "LOGIN" => g.id # NoId
        PROVE  \E f : /\ net' = (net \ {d}) \cup {f}
                      /\ ~ f.up /\ f.at[2] = 0 /\ (f.kind = "LOGIN" => f.id # NoId)
    BY <2>3
  <2>4. \/ net' = net \ {d}
        \/ net' = (net \ {d}) \cup {Down("LOGOUT", NoId, d.at)}
        \/ net' = (net \ {d}) \cup {Down("LIST", NoId, d.at)}
        \/ net' = (net \ {d}) \cup {Down("LOGIN", lastId', d.at)} /\ lastId' # NoId
    BY <2>2, Served
  <2> QED BY <1>a, <2>1, <2>3, <2>4
<1>3. IsFiniteSet(net')
  <2>1. IsFiniteSet(net \ {d}) /\ \A g : IsFiniteSet((net \ {d}) \cup {g})
    BY FS_RemoveElement, FS_AddElement DEF NetGood
  <2> QED BY <1>2, <2>1
<1>4. ASSUME NEW g \in net'
      PROVE  /\ g.at[2] = 0
             /\ g.up => g.id = NoId \/ (sid[g.at[1]] = g.id /\ g.kind \notin {"LOGIN", "LOGOUT"})
             /\ ~ g.up /\ g.kind = "LOGIN" => g.id # NoId
  <2>1. CASE g \in net
    BY <2>1 DEF NetGood
  <2>2. CASE g \notin net
    BY <2>2, <1>2
  <2> QED BY <2>1, <2>2
<1> QED BY <1>a, <1>1, <1>3, <1>4 DEF NetGood

LEMMA MonitorNet ==
    ASSUME TypeInv, NetGood, MonitorPass
    PROVE  NetGood'
<1>a. /\ sid' = sid /\ recvq' = recvq
      /\ DOMAIN db' = DOMAIN db \ Evicted
      /\ \A i \in DOMAIN db \ Evicted : db'[i] = [db[i] EXCEPT !.misses = Strikes(db[i])]
      /\ net' = net \cup {Down("LOGOUT", NoId, db[i].addr) : i \in Evicted}
  BY DEF MonitorPass, client
<1> DEFINE told == [i \in Evicted |-> Down("LOGOUT", NoId, db[i].addr)]
           Told == {Down("LOGOUT", NoId, db[i].addr) : i \in Evicted}
<1>1. IsFiniteSet(Told)
  <2>1. IsFiniteSet(Evicted)
    <3>1. Evicted \in SUBSET (1..lastId) /\ lastId \in Int /\ 1 \in Int
      BY Constants DEF Evicted, TypeInv, ServerTypes
    <3>2. IsFiniteSet(1..lastId)
      BY <3>1, FS_Interval
    <3> QED BY <3>1, <3>2, FS_Subset, Zenon
  <2>2. told \in Surjection(Evicted, Told)
    BY DEF Surjection
  <2> HIDE DEF told, Told
  <2> QED BY <2>1, <2>2, FS_Surjection
<1>2. IsFiniteSet(net')
  <2> HIDE DEF Told
  <2>1. net' = net \cup Told
    BY <1>a DEF Told
  <2> QED BY <1>1, <2>1, FS_Union DEF NetGood
<1>3. \A g \in Told : ~ g.up /\ g.kind = "LOGOUT" /\ g.at[2] = 0
  BY DEF NetGood, Down, Evicted
<1>4. \A i \in DOMAIN db' : db'[i].addr = db[i].addr /\ i \in DOMAIN db
  BY <1>a DEF TypeInv, ServerTypes, Rec
<1>5. \A g \in net' : g \in net \/ g \in Told
  BY <1>a
<1> HIDE DEF Told
<1> QED BY <1>a, <1>2, <1>3, <1>4, <1>5 DEF NetGood

LEMMA HealthStep ==
    ASSUME GoodTiming
    PROVE  TypeInv /\ OwnersInv /\ MonitorInv /\ HealthInv /\ [Next]_vars => HealthInv'
<1> SUFFICES ASSUME TypeInv, OwnersInv, MonitorInv, HealthInv, [Next]_vars, Faultless'
             PROVE  NetGood' /\ \A c \in Clients : ClientGood(c)'
  BY DEF HealthInv
<1>a. /\ Faultless /\ faults' = faults /\ addr' = addr /\ \A d \in net : ~ Lose(d)
      /\ \A d \in net : \A A : Arrives(d, A) => net' = (net \ {d}) \cup A
  BY FaultsStay
<1>b. NetGood /\ \A c \in Clients : ClientGood(c)
  BY <1>a DEF HealthInv
<1>1. ASSUME NEW c \in Clients, ClientStep(c) PROVE NetGood' /\ \A e \in Clients : ClientGood(e)'
  BY <1>a, <1>b, <1>1, ClientStepGood
<1>2. CASE ServerStep
  <2>1. ASSUME NEW d \in net, Serves(d) PROVE NetGood' /\ \A e \in Clients : ClientGood(e)'
    <3>1. \A A : Arrives(d, A) => net' = (net \ {d}) \cup A
      BY <1>a
    <3>2. NetGood'
      BY <1>b, <2>1, <3>1, ServeNet
    <3>3. ASSUME NEW e \in Clients PROVE ClientGood(e)'
      <4>1. CASE e = d.at[1]
        BY <1>a, <1>b, <2>1, <3>1, <4>1, ServeOwn
      <4>2. CASE e # d.at[1]
        BY <1>a, <1>b, <2>1, <3>1, <4>2, ServeOthers
      <4> QED BY <4>1, <4>2
    <3> QED BY <3>2, <3>3
  <2>2. CASE MonitorPass
    BY <1>b, <2>2, MonitorNet, MonitorGood
  <2> QED BY <1>2, <2>1, <2>2 DEF ServerStep, Serves
<1>3. CASE NetworkStep
  <2>1. PICK d \in net : Undelivered(d)
    BY <1>a, <1>3 DEF NetworkStep
  <2>2. net' = net \ {d} /\ sid' = sid /\ recvq' = recvq /\ db' = db
    BY <2>1 DEF Undelivered, client, server
  <2>3. IsFiniteSet(net')
    BY <1>b, <2>2, FS_RemoveElement DEF NetGood
  <2>4. NetGood'
    BY <1>b, <2>2, <2>3 DEF NetGood
  <2> QED BY <1>a, <1>b, <2>1, <2>4, UndeliveredGood
<1>4. CASE Tick
  <2>1. net' = net /\ sid' = sid /\ recvq' = recvq /\ DOMAIN db' = DOMAIN db
        /\ \A i \in DOMAIN db : db'[i] = [db[i] EXCEPT !.idle = Min2(db[i].idle + 1, EvictedBy + 1)]
    BY <1>4 DEF Tick
  <2>2. \A i \in DOMAIN db : db'[i].addr = db[i].addr
    BY <2>1 DEF TypeInv, ServerTypes, Rec
  <2>3. NetGood'
    BY <1>b, <2>1, <2>2 DEF NetGood
  <2> QED BY <1>a, <1>b, <1>4, <2>3, TickGood
<1>5. CASE UNCHANGED vars
  <2>1. UNCHANGED <<server, net, faults, client>> /\ db' = db /\ lastId' = lastId /\ net' = net
    BY <1>5 DEF vars, server
  <2>2. /\ alive' = alive /\ sid' = sid /\ sendq' = sendq /\ recvq' = recvq /\ thread' = thread /\ beat' = beat
        /\ quiet' = quiet /\ addr' = addr
    BY <2>1 DEF client
  <2>3. NetGood'
    BY <1>b, <2>1, <2>2 DEF NetGood
  <2>4. ASSUME NEW c \in Clients PROVE ClientGood(c)'
    <3>1. Mine(c)' = Mine(c) /\ RecordsOf(c)' = RecordsOf(c)
      BY <2>1 DEF Mine, RecordsOf
    <3> QED BY <1>b, <2>1, <2>2, <3>1, Aside
  <2> QED BY <2>3, <2>4
<1> QED BY <1>1, <1>2, <1>3, <1>4, <1>5 DEF Next

\* On a network that does nothing wrong, for any number of clients and any periods
\* for which GoodTiming holds: a client that is logged in is in the server's table under
\* its id and address, is never struck once heard, and never has to log in again.
THEOREM SessionsStayHealthy ==
    ASSUME GoodTiming
    PROVE  Spec => []HealthySession
<1>1. TypeInv /\ OwnersInv /\ HealthInv => HealthySession
  <2> SUFFICES ASSUME TypeInv, OwnersInv, HealthInv, NEW c \in Clients, Faultless, Running(c), isLogin(c)
               PROVE  /\ sid[c] \in DOMAIN db
                      /\ db[sid[c]].addr = addr[c]
                      /\ db[sid[c]].heard => db[sid[c]].misses = 0
                      /\ At(c, "echo") \notin {"drop", "try", "login", "dialog"}
                      /\ At(c, "handle") = "take"
    BY DEF HealthySession
  <2>1. NetGood /\ ThreadsGood(c) /\ Staged(c)
    BY DEF HealthInv, ClientGood, Live, Running
  <2>2. Known(c, sid[c])
    BY <2>1, StageOf
  <2>3. sid[c] \in DOMAIN db /\ db[sid[c]].addr[1] = c /\ db[sid[c]].addr[2] = 0
    BY <2>1, <2>2 DEF Known, RecordsOf, NetGood
  <2>4. db[sid[c]].addr \in Addrs /\ addr[c] \in Addrs /\ addr[c][1] = c /\ addr[c][2] = 0
    BY <2>3 DEF TypeInv, ServerTypes, ClientTypes, Rec, OwnersInv, Faultless
  <2>5. db[sid[c]].addr = addr[c]
    BY <2>3, <2>4 DEF Addrs
  <2>6. At(c, "echo") \notin {"drop", "try", "login", "dialog"} /\ At(c, "handle") = "take"
    BY <2>1 DEF ThreadsGood
  <2> QED BY <2>2, <2>3, <2>5, <2>6 DEF Known
<1>2. TypeInv /\ OwnersInv /\ MonitorInv /\ HealthInv /\ [Next]_vars => HealthInv'
  BY HealthStep
<1> QED BY <1>1, <1>2, HealthInit, OwnersInit, TypesInit, TypesStep, OwnersStep, MonitorInit, MonitorStep, PTL DEF Spec
=============================================================================
