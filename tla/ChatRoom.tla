------------------------------ MODULE ChatRoom ------------------------------
(***************************************************************************)
(* The protocol of the UDP chat room: logging in, the heartbeat, the       *)
(* monitor that evicts silent clients and the client's attempts to log in  *)
(* again (ChatClientServer, ChatClientStatus, ChatClientServerService on   *)
(* one side, ChatServerServerService, ChatServerClients, Client on the     *)
(* other), over a network that loses, duplicates, delays and reorders      *)
(* datagrams and in which a client may move to another address.            *)
(*                                                                         *)
(* A step of Tick is one second; everything a thread has to do at once it  *)
(* does before the next Tick, and few datagrams outlive a second.          *)
(* A handler of the server is one step here; ClientRegistry and            *)
(* ServerWorkQueue look inside.  What only the windows show (the GROUP     *)
(* broadcasts, the list of names, the names) is left out.                  *)
(***************************************************************************)
EXTENDS Integers, Sequences, FiniteSets

CONSTANTS
    Clients,
    RetryTimes,    \* RETRY_TIMES of the client: attempts, and sleeps in each
    RefreshEvery,  \* every how many beats a LIST replaces the ECHO: 5
    OnlineLimit,   \* ChatClientStatus.MAX_LOSE_SECONDS: 10
    LoseSeconds,   \* Client.MAX_LOSE_SECONDS: 10
    MaxLose,       \* Client.MAX_LOSE_TIMES: 3
    MonitorEvery,  \* seconds between two passes of the monitor: 20
    MaxLogins,     \* bound: ids the server gives out; further LOGINs are lost
    MaxMoves,      \* bound: how often a client's address changes
    Limits,        \* bounds: who takes part, whether users close their windows, how many
                   \* datagrams outlive a second, are lost and duplicated; one is chosen
    Inputs         \* do the users write INPUT messages

ASSUME BoundAssumption ==
    \A k \in {RetryTimes, RefreshEvery, OnlineLimit, LoseSeconds, MaxLose, MonitorEvery} :
        k \in Nat \ {0}
ASSUME LimitAssumption ==
    /\ MaxLogins \in Nat /\ MaxMoves \in Nat
    /\ Limits \subseteq [users : SUBSET Clients, closing : BOOLEAN, lag : Nat, lost : Nat, dup : Nat]

NoId    == 0                     \* -1 in the code
Ids     == 1..MaxLogins
Addrs   == Clients \X (0..MaxMoves)
Threads == {"main", "echo", "handle"}

\* The last second an eviction may take to come, and where idle stops counting.
EvictedBy == LoseSeconds + MaxLose * MonitorEvery

VARIABLES
    \* the server
    db,         \* id -> [addr, misses, idle, heard]: idle counts from the login
                \* or the last message; heard says whether there was a message
    lastId,     \* the newest id given out
    untilPass,  \* seconds to the monitor's next pass
    \* the network
    net,        \* the datagrams in flight
    faults,     \* how many datagrams were lost and duplicated, and the limits chosen
    \* the clients
    addr,       \* the address the network gives the client's socket
    sid,        \* ChatClientStatus.id; LOGIN is sid # NoId, LOGOUT is NoId
    closing,    \* ChatClientStatus.closing
    quiet,      \* seconds since ChatClientStatus.last
    sendq,      \* msgSendQueue: kinds only, id and address are stamped by send
    recvq,      \* msgRecvQueue
    thread,     \* per thread: where it is, which attempt, seconds slept, has
                \* its sleep just ended
    beat,       \* t of the echo thread
    alive       \* "off", "running", "closed" (threads told to stop), "exited"

server  == <<db, lastId, untilPass>>
client  == <<addr, sid, closing, quiet, sendq, recvq, thread, beat, alive>>
vars    == <<server, net, faults, client>>

At(c, t)     == thread[c][t].at
Running(c)   == alive[c] = "running"
isLogin(c)   == sid[c] # NoId
isLogout(c)  == ~ isLogin(c)
isOnline(c)  == quiet[c] <= OnlineLimit

Attempt(at, n) == [at |-> at, try |-> n, slept |-> 0, due |-> FALSE]
Place(at)      == Attempt(at, 0)

Init ==
    /\ db = << >> /\ lastId = 0 /\ untilPass = MonitorEvery
    /\ net = {}
    /\ faults \in [lost : {0}, dup : {0}, may : Limits]
    /\ addr = [c \in Clients |-> <<c, 0>>]
    /\ sid = [c \in Clients |-> NoId]
    /\ closing = [c \in Clients |-> FALSE]
    /\ quiet = [c \in Clients |-> OnlineLimit + 1]
    /\ sendq = [c \in Clients |-> << >>]
    /\ recvq = [c \in Clients |-> << >>]
    /\ thread = [c \in Clients |->
                   [t \in Threads |->
                      Place(IF t = "handle" THEN "take" ELSE "off")]]
    /\ beat = [c \in Clients |-> 0]
    /\ alive = [c \in Clients |-> "off"]

Goto(c, t, place) == thread' = [thread EXCEPT ![c][t] = place]
Commit(c, kinds)  == sendq' = [sendq EXCEPT ![c] = @ \o kinds]

---------------------------------------------------------------------------
(* tryLogin: up to RetryTimes attempts; each commits a LOGIN if the status *)
(* is LOGOUT, then sleeps a second up to RetryTimes times and looks.       *)

StartLogin(c, t) == /\ Goto(c, t, Attempt("login", 1))
                    /\ Commit(c, <<"LOGIN">>)

\* A user starts the program, at any time.
Start(c) ==
    /\ alive[c] = "off" /\ c \in faults.may.users
    /\ alive' = [alive EXCEPT ![c] = "running"]
    /\ StartLogin(c, "main")
    /\ UNCHANGED <<server, net, faults, addr, sid, closing, quiet, recvq, beat>>

\* The next attempt; after the last one main gives up only if the status is
\* LOGOUT, tryLoginWithExit (echo and handle) gives up in any case.
LoginWait(c, t) ==
    LET th == thread[c][t] IN
    /\ Running(c) /\ th.at = "login" /\ th.due
    /\ isLogout(c)
    /\ \/ /\ th.slept < RetryTimes
          /\ Goto(c, t, [th EXCEPT !.due = FALSE])
          /\ UNCHANGED sendq
       \/ /\ th.slept = RetryTimes /\ th.try < RetryTimes
          /\ Goto(c, t, Attempt("login", th.try + 1))
          /\ Commit(c, <<"LOGIN">>)
       \/ /\ th.slept = RetryTimes /\ th.try = RetryTimes
          /\ Goto(c, t, Place("dialog"))
          /\ UNCHANGED sendq
    /\ UNCHANGED <<server, net, faults, addr, sid, closing, quiet, recvq, beat, alive>>

\* The sleeping thread finds the status LOGIN: main starts the echo thread.
LoginSeen(c, t) ==
    LET th == thread[c][t] IN
    /\ Running(c) /\ th.at = "login" /\ th.due
    /\ isLogin(c)
    /\ thread' = [thread EXCEPT ![c] =
                    CASE t = "main"   -> [@ EXCEPT !["main"] = Place("joined"),
                                                   !["echo"] = Place("sleep1")]
                      [] t = "echo"   -> [@ EXCEPT !["echo"] = Place("sleep2")]
                      [] t = "handle" -> [@ EXCEPT !["handle"] = Place("take")]]
    /\ UNCHANGED <<server, net, faults, addr, sid, closing, quiet, sendq, recvq, beat, alive>>

---------------------------------------------------------------------------
(* close(): toClose, up to RetryTimes LOGOUTs while the status is LOGIN,   *)
(* then the threads and the socket are shut.                               *)

\* The user dismisses the error dialog; close() begins.  toClose comes before
\* the LOGOUT is sent, so the LOGOUT will carry no id.
CloseBegin(c, t) ==
    /\ Running(c) /\ At(c, t) = "dialog"
    /\ sid' = [sid EXCEPT ![c] = NoId]
    /\ closing' = [closing EXCEPT ![c] = TRUE]
    /\ Commit(c, <<"LOGOUT">>)
    /\ Goto(c, t, Attempt("close", 1))
    /\ UNCHANGED <<server, net, faults, addr, quiet, recvq, beat, alive>>

\* The test after the LOGOUT: usually the status is LOGOUT and all is shut; if a
\* LOGIN answer came in between, close() waits two seconds ...
CloseCheck(c, t) ==
    /\ Running(c) /\ At(c, t) = "close"
    /\ \/ /\ isLogout(c)
          /\ alive' = [alive EXCEPT ![c] = "closed"]
          /\ UNCHANGED thread
       \/ /\ isLogin(c)
          /\ thread' = [thread EXCEPT ![c][t].at = "closewait"]
          /\ UNCHANGED alive
    /\ UNCHANGED <<server, net, faults, addr, sid, closing, quiet, sendq, recvq, beat>>

\* ... and commits another LOGOUT, RetryTimes in all.
CloseAgain(c, t) ==
    LET th == thread[c][t] IN
    /\ Running(c) /\ th.at = "closewait" /\ th.due
    /\ \/ /\ th.slept < 2
          /\ Goto(c, t, [th EXCEPT !.due = FALSE])
          /\ UNCHANGED <<sendq, alive>>
       \/ /\ th.slept = 2 /\ th.try < RetryTimes
          /\ Goto(c, t, Attempt("close", th.try + 1))
          /\ Commit(c, <<"LOGOUT">>)
          /\ UNCHANGED alive
       \/ /\ th.slept = 2 /\ th.try = RetryTimes
          /\ alive' = [alive EXCEPT ![c] = "closed"]
          /\ UNCHANGED <<sendq, thread>>
    /\ UNCHANGED <<server, net, faults, addr, sid, closing, quiet, recvq, beat>>

\* The user closes the window: EXIT_ON_CLOSE ends the process on the spot, and
\* nothing tells the server.
UserExit(c) ==
    /\ Running(c) /\ faults.may.closing
    /\ alive' = [alive EXCEPT ![c] = "exited"]
    /\ UNCHANGED <<server, net, faults, addr, sid, closing, quiet, sendq, recvq, thread, beat>>

---------------------------------------------------------------------------
(* The client's echo thread: sleep, send a beat, look at the silence, sleep. *)

\* Mutant: every beat is an ECHO.
MutEchoBeat(c) ==
    /\ Running(c) /\ At(c, "echo") = "sleep1" /\ thread[c]["echo"].due
    /\ beat' = [beat EXCEPT ![c] = (@ + 1) % RefreshEvery]
    /\ Commit(c, <<"ECHO">>)
    /\ Goto(c, "echo", Place("look"))
    /\ UNCHANGED <<server, net, faults, addr, sid, closing, quiet, recvq, alive>>

EchoBeat(c) ==
    LET t    == (beat[c] + 1) % RefreshEvery
        kind == IF t = 0 THEN "LIST" ELSE "ECHO"
    IN
    /\ Running(c) /\ At(c, "echo") = "sleep1" /\ thread[c]["echo"].due
    /\ beat' = [beat EXCEPT ![c] = t]
    /\ Commit(c, <<kind>>)
    /\ Goto(c, "echo", Place("look"))
    /\ UNCHANGED <<server, net, faults, addr, sid, closing, quiet, recvq, alive>>

\* Nothing but LIST answers (and logins) counts as being online.
EchoLook(c) ==
    /\ Running(c) /\ At(c, "echo") = "look"
    /\ \/ /\ isOnline(c)
          /\ Goto(c, "echo", Place("sleep2"))
       \/ /\ ~ isOnline(c)
          /\ Goto(c, "echo", Place("drop"))
    /\ UNCHANGED <<server, net, faults, addr, sid, closing, quiet, sendq, recvq, beat, alive>>

\* toLogout, also when the handle thread has logged in since the look ...
EchoDrop(c) ==
    /\ Running(c) /\ At(c, "echo") = "drop"
    /\ sid' = [sid EXCEPT ![c] = NoId]
    /\ Goto(c, "echo", Place("try"))
    /\ UNCHANGED <<server, net, faults, addr, closing, quiet, sendq, recvq, beat, alive>>

\* ... and tryLogin, which asks for a login only if there is none by now.
EchoTry(c) ==
    /\ Running(c) /\ At(c, "echo") = "try"
    /\ \/ /\ isLogout(c)
          /\ StartLogin(c, "echo")
       \/ /\ isLogin(c)
          /\ Goto(c, "echo", Attempt("login", 1))
          /\ UNCHANGED sendq
    /\ UNCHANGED <<server, net, faults, addr, sid, closing, quiet, recvq, beat, alive>>

EchoAgain(c) ==
    /\ Running(c) /\ At(c, "echo") = "sleep2" /\ thread[c]["echo"].due
    /\ Goto(c, "echo", Place("sleep1"))
    /\ UNCHANGED <<server, net, faults, addr, sid, closing, quiet, sendq, recvq, beat, alive>>

---------------------------------------------------------------------------
(* The client's send and receive threads, and the user.                    *)

Up(kind, i, a)   == [up |-> TRUE, kind |-> kind, id |-> i, at |-> a]
Down(kind, i, a) == [up |-> FALSE, kind |-> kind, id |-> i, at |-> a]

\* send() stamps the id the client has NOW, not when the message was committed.
Send(c) ==
    /\ Running(c) /\ sendq[c] # << >>
    /\ net' = net \cup {Up(Head(sendq[c]), sid[c], addr[c])}
    /\ sendq' = [sendq EXCEPT ![c] = Tail(@)]
    /\ UNCHANGED <<server, faults, addr, sid, closing, quiet, recvq, thread, beat, alive>>

\* A datagram arrives and is answered with these others; the network may have
\* made a copy of it.
Arrives(d, answers) ==
    \/ /\ net' = (net \ {d}) \cup answers
       /\ UNCHANGED faults
    \/ /\ faults.dup < faults.may.dup
       /\ faults' = [faults EXCEPT !.dup = @ + 1]
       /\ net' = net \cup answers

Receive(c, d) ==
    /\ Running(c) /\ ~ d.up /\ d.at = addr[c]
    /\ recvq' = [recvq EXCEPT ![c] = Append(@, d)]
    /\ Arrives(d, {})
    /\ UNCHANGED <<server, addr, sid, closing, quiet, sendq, thread, beat, alive>>

\* sendInput does not look at the status; the dialog disables the window.
Say(c) ==
    /\ Inputs
    /\ Running(c) /\ At(c, "main") = "joined"
    /\ \A t \in Threads : At(c, t) \notin {"dialog", "close", "closewait"}
    /\ sendq[c] = << >>                          \* bound: one at a time
    /\ \A d \in net : d.kind # "INPUT"
    /\ Commit(c, <<"INPUT">>)
    /\ UNCHANGED <<server, net, faults, addr, sid, closing, quiet, recvq, thread, beat, alive>>

---------------------------------------------------------------------------
(* The client's one handle thread.                                         *)

Handles(c, kind) == /\ Running(c) /\ At(c, "handle") = "take"
                    /\ recvq[c] # << >> /\ Head(recvq[c]).kind = kind
                    /\ recvq' = [recvq EXCEPT ![c] = Tail(@)]

\* toLogin throws when there is an id already: three tries, then forgotten.
doResponseLogin(c) ==
    /\ Handles(c, "LOGIN")
    /\ \/ /\ isLogin(c)
          /\ UNCHANGED <<sid, closing, quiet>>
       \/ /\ isLogout(c)
          /\ sid' = [sid EXCEPT ![c] = Head(recvq[c]).id]
          /\ closing' = [closing EXCEPT ![c] = FALSE]
          /\ quiet' = [quiet EXCEPT ![c] = 0]
    /\ UNCHANGED <<server, net, faults, addr, sendq, thread, beat, alive>>

\* Mutant: the status is not set to LOGOUT before the new login.
MutDoResponseLogout(c) ==
    /\ Handles(c, "LOGOUT")
    /\ \/ /\ ~ closing[c]
          /\ StartLogin(c, "handle")
       \/ /\ closing[c]
          /\ UNCHANGED <<thread, sendq>>
    /\ UNCHANGED <<server, net, faults, addr, sid, closing, quiet, beat, alive>>

\* The LOGOUT answer names no id.  Unless it is closing, the handle thread itself
\* now tries to log in again - and takes no message while it waits.
doResponseLogout(c) ==
    /\ Handles(c, "LOGOUT")
    /\ sid' = [sid EXCEPT ![c] = NoId]
    /\ \/ /\ ~ closing[c]
          /\ StartLogin(c, "handle")
       \/ /\ closing[c]
          /\ UNCHANGED <<thread, sendq>>
    /\ UNCHANGED <<server, net, faults, addr, closing, quiet, beat, alive>>

doResponseList(c) ==
    /\ Handles(c, "LIST")
    /\ quiet' = [quiet EXCEPT ![c] = 0]
    /\ UNCHANGED <<server, net, faults, addr, sid, closing, sendq, thread, beat, alive>>

---------------------------------------------------------------------------
(* The server: handle(msg), one action per branch.  doEcho comes first.    *)

\* Mutant: online() does not take the misses back.
MutRefreshed(d) ==
    IF d.id = NoId THEN db
    ELSE [db EXCEPT ![d.id] = [@ EXCEPT !.addr = d.at, !.idle = 0, !.heard = TRUE]]

\* The table after doEcho's refreshClient: a known id is online again and its
\* address is the datagram's source.
Refreshed(d) ==
    IF d.id = NoId THEN db
    ELSE [db EXCEPT ![d.id] = [addr |-> d.at, misses |-> 0, idle |-> 0, heard |-> TRUE]]

Comes(d, kinds) == d \in net /\ d.up /\ d.kind \in kinds /\ (d.id = NoId \/ d.id \in DOMAIN db)

\* Mutant: doEcho lets a message with an unknown id pass.
MutServeUnknown(d) ==
    /\ d \in net /\ d.up /\ d.id # NoId /\ d.id \notin DOMAIN db
    /\ Arrives(d, IF d.kind = "LIST" THEN {Down("LIST", NoId, d.at)} ELSE {})
    /\ UNCHANGED <<server, client>>

ServeUnknown(d) ==
    /\ d \in net /\ d.up /\ d.id # NoId /\ d.id \notin DOMAIN db
    /\ Arrives(d, {Down("LOGOUT", NoId, d.at)})
    /\ UNCHANGED <<server, client>>

\* An INPUT without an id fails on a null client and is dropped; with one it is
\* broadcast to the windows.
ServeEcho(d) ==
    /\ Comes(d, {"ECHO", "INPUT"})
    /\ db' = Refreshed(d)
    /\ Arrives(d, {})
    /\ UNCHANGED <<lastId, untilPass, client>>

doRequestList(d) ==
    /\ Comes(d, {"LIST"})
    /\ db' = Refreshed(d)
    /\ Arrives(d, {Down("LIST", NoId, d.at)})
    /\ UNCHANGED <<lastId, untilPass, client>>

\* Mutant: the id is the number of users there will be.
MutDoRequestLogin(d) ==
    /\ Comes(d, {"LOGIN"})
    /\ lastId < MaxLogins
    /\ lastId' = Cardinality(DOMAIN db) + 1
    /\ db' = [i \in DOMAIN db \cup {lastId'} |->
                IF i = lastId' THEN [addr |-> d.at, misses |-> 0, idle |-> 0, heard |-> FALSE]
                ELSE Refreshed(d)[i]]
    /\ Arrives(d, {Down("LOGIN", lastId', d.at)})
    /\ UNCHANGED <<untilPass, client>>

\* Every LOGIN makes a new client, also one from an address that has some.
doRequestLogin(d) ==
    /\ Comes(d, {"LOGIN"})
    /\ lastId < MaxLogins
    /\ lastId' = lastId + 1
    /\ db' = [i \in DOMAIN db \cup {lastId'} |->
                IF i = lastId' THEN [addr |-> d.at, misses |-> 0, idle |-> 0, heard |-> FALSE]
                ELSE Refreshed(d)[i]]
    /\ Arrives(d, {Down("LOGIN", lastId', d.at)})
    /\ UNCHANGED <<untilPass, client>>

\* A LOGOUT without an id deletes nobody and is not answered.
doRequestLogout(d) ==
    /\ Comes(d, {"LOGOUT"})
    /\ \/ /\ d.id = NoId
          /\ Arrives(d, {})
          /\ UNCHANGED db
       \/ /\ d.id # NoId
          /\ db' = [i \in DOMAIN db \ {d.id} |-> db[i]]
          /\ Arrives(d, {Down("LOGOUT", NoId, d.at)})
    /\ UNCHANGED <<lastId, untilPass, client>>

\* Mutant: the third strike is never given.
MutStrikes(r) == IF (~ r.heard \/ r.idle >= LoseSeconds) /\ r.misses < MaxLose - 1
                 THEN r.misses + 1 ELSE r.misses

\* isOffline: ten silent seconds are a strike.  A client never heard of since its
\* login has last = -1, which is long ago.
Strikes(r) == IF (~ r.heard \/ r.idle >= LoseSeconds) /\ r.misses < MaxLose
              THEN r.misses + 1 ELSE r.misses

Evicted == {i \in DOMAIN db : Strikes(db[i]) = MaxLose}

\* Mutant: who is offline is told so but stays in the table.
MutMonitorPass ==
    /\ untilPass = 0
    /\ untilPass' = MonitorEvery
    /\ db' = [i \in DOMAIN db |-> [db[i] EXCEPT !.misses = Strikes(db[i])]]
    /\ net' = net \cup {Down("LOGOUT", NoId, db[i].addr) : i \in Evicted}
    /\ UNCHANGED <<lastId, faults, client>>

\* Evicted clients are told LOGOUT at the address they were last seen at.
MonitorPass ==
    /\ untilPass = 0
    /\ untilPass' = MonitorEvery
    /\ db' = [i \in DOMAIN db \ Evicted |-> [db[i] EXCEPT !.misses = Strikes(db[i])]]
    /\ net' = net \cup {Down("LOGOUT", NoId, db[i].addr) : i \in Evicted}
    /\ UNCHANGED <<lastId, faults, client>>

---------------------------------------------------------------------------
(* The network and the clock.                                              *)

Lose(d) ==
    /\ d \in net /\ faults.lost < faults.may.lost
    /\ net' = net \ {d}
    /\ faults' = [faults EXCEPT !.lost = @ + 1]
    /\ UNCHANGED <<server, client>>

\* Nobody listens at that address (any more), or the ids of the model are used up.
Undelivered(d) ==
    /\ d \in net
    /\ \/ ~ d.up /\ \A c \in Clients : ~ (Running(c) /\ addr[c] = d.at)
       \/ d.up /\ d.kind = "LOGIN" /\ lastId = MaxLogins
    /\ net' = net \ {d}
    /\ UNCHANGED <<server, faults, client>>

\* The client's computer changes to another network.
Move(c) ==
    /\ Running(c) /\ addr[c][2] < MaxMoves
    /\ addr' = [addr EXCEPT ![c] = <<c, @[2] + 1>>]
    /\ UNCHANGED <<server, net, faults, sid, closing, quiet, sendq, recvq, thread, beat, alive>>

Sleeping(th) == th.at \in {"login", "closewait", "sleep1", "sleep2"}

\* All that was due this second is done, but for what outlives it.
Quiescent ==
    /\ untilPass > 0
    /\ Cardinality(net) <= faults.may.lag
    /\ \A c \in Clients : Running(c) =>
          /\ sendq[c] = << >>
          /\ At(c, "handle") = "take" => recvq[c] = << >>
          /\ \A t \in Threads : ~ thread[c][t].due /\ At(c, t) \notin {"look", "drop", "try", "close"}

Min2(a, b) == IF a < b THEN a ELSE b

Tick ==
    /\ Quiescent
    /\ untilPass' = untilPass - 1
    /\ db' = [i \in DOMAIN db |-> [db[i] EXCEPT !.idle = Min2(@ + 1, EvictedBy + 1)]]
    /\ quiet' = [c \in Clients |->
                    IF Running(c) THEN Min2(quiet[c] + 1, OnlineLimit + 1) ELSE quiet[c]]
    /\ thread' = [c \in Clients |-> [t \in Threads |->
                    LET th == thread[c][t] IN
                    IF Running(c) /\ Sleeping(th)
                    THEN [th EXCEPT !.slept = IF th.at \in {"login", "closewait"} THEN @ + 1 ELSE @,
                                    !.due = TRUE]
                    ELSE th]]
    /\ UNCHANGED <<lastId, net, faults, addr, sid, closing, sendq, recvq, beat, alive>>

---------------------------------------------------------------------------
ThreadStep(c, t) == \/ LoginWait(c, t) \/ LoginSeen(c, t)
                    \/ CloseBegin(c, t) \/ CloseCheck(c, t) \/ CloseAgain(c, t)

ClientStep(c) == \/ \E t \in Threads : ThreadStep(c, t)
                 \/ EchoBeat(c) \/ EchoLook(c) \/ EchoDrop(c) \/ EchoTry(c) \/ EchoAgain(c)
                 \/ Send(c) \/ Say(c)
                 \/ \E d \in net : Receive(c, d)
                 \/ doResponseLogin(c) \/ doResponseLogout(c) \/ doResponseList(c)
                 \/ Start(c) \/ UserExit(c) \/ Move(c)

ServerStep == \/ \E d \in net : \/ ServeUnknown(d) \/ ServeEcho(d)
                                \/ doRequestList(d) \/ doRequestLogin(d) \/ doRequestLogout(d)
              \/ MonitorPass

NetworkStep == \E d \in net : Lose(d) \/ Undelivered(d)

Next == (\E c \in Clients : ClientStep(c)) \/ ServerStep \/ NetworkStep \/ Tick

Spec == Init /\ [][Next]_vars

\* The threads of both sides run, a datagram that is not lost arrives, and time
\* passes.  The user need not do anything, not even dismiss a dialog.
Fairness ==
    /\ \A c \in Clients :
          /\ \A t \in Threads : WF_vars(LoginWait(c, t) \/ LoginSeen(c, t)
                                        \/ CloseCheck(c, t) \/ CloseAgain(c, t))
          /\ WF_vars(EchoBeat(c) \/ EchoLook(c) \/ EchoDrop(c) \/ EchoTry(c) \/ EchoAgain(c))
          /\ WF_vars(Send(c))
          /\ WF_vars(\E d \in net : Receive(c, d))
          /\ WF_vars(doResponseLogin(c) \/ doResponseLogout(c) \/ doResponseList(c))
    /\ WF_vars(ServerStep)
    /\ WF_vars(\E d \in net : Undelivered(d))
    /\ WF_vars(Tick)

FairSpec == Spec /\ Fairness

---------------------------------------------------------------------------
Kinds == {"LOGIN", "LOGOUT", "ECHO", "LIST", "INPUT"}

TypeOK ==
    /\ DOMAIN db \subseteq 1..lastId /\ lastId \in 0..MaxLogins
    /\ \A i \in DOMAIN db : db[i] \in [addr : Addrs, misses : 0..MaxLose - 1,
                                       idle : 0..EvictedBy + 1, heard : BOOLEAN]
    /\ untilPass \in 0..MonitorEvery
    /\ net \subseteq [up : BOOLEAN, kind : Kinds, id : Ids \cup {NoId}, at : Addrs]
    /\ faults.lost \in 0..faults.may.lost /\ faults.dup \in 0..faults.may.dup
    /\ addr \in [Clients -> Addrs]
    /\ sid \in [Clients -> Ids \cup {NoId}]
    /\ closing \in [Clients -> BOOLEAN]
    /\ quiet \in [Clients -> 0..OnlineLimit + 1]
    /\ beat \in [Clients -> 0..RefreshEvery - 1]
    /\ alive \in [Clients -> {"off", "running", "closed", "exited"}]
    /\ \A c \in Clients, t \in Threads :
          /\ thread[c][t].try \in 0..RetryTimes
          /\ thread[c][t].slept \in 0..(IF At(c, t) = "closewait" THEN 2 ELSE RetryTimes)

---------------------------------------------------------------------------
\* The network has done nothing wrong: no datagram was lost, repeated or is ever a second
\* late, and nobody has moved.
Faultless == /\ faults.lost = 0 /\ faults.dup = 0 /\ faults.may.lag = 0
             /\ \A c \in Clients : addr[c][2] = 0

\* No two clients ever go by one id, however LOGINs and their answers are lost,
\* repeated, delayed or crossed with evictions (doRequestLogin and addClient on
\* the server, toLogin's test of the old id on the client).
NoSharedIdentity ==
    \A c, e \in Clients : isLogin(c) /\ sid[c] = sid[e] => c = e

\* While the handle thread tries to log in again after a LOGOUT it is the only
\* one who could take the answer, so the status stays LOGOUT until it gives up
\* (doResponseLogout, ChatClientServerService.java 86-99, and its one thread,
\* ChatClientServer.java 415-455).
HandlerReloginIsDoomed ==
    \A c \in Clients : At(c, "handle") = "login" => isLogout(c)

\* On a good network a client that is logged in is known to the server under its
\* id and its address, is never struck, and never has to log in again: the LIST
\* among the beats comes often enough for OnlineLimit, the beats often enough
\* for the monitor (EchoSend.run 476-509, isOnline, Client.isOffline).
HealthySession ==
    \A c \in Clients : Faultless /\ Running(c) /\ isLogin(c) =>
        /\ sid[c] \in DOMAIN db
        /\ db[sid[c]].addr = addr[c]
        /\ db[sid[c]].heard => db[sid[c]].misses = 0
        /\ At(c, "echo") \notin {"drop", "try", "login", "dialog"}
        /\ At(c, "handle") = "take"

\* A record nobody renews, left by a lost answer, by a move or by a closed window,
\* is gone before EvictedBy seconds have passed since its last sign of life (monitor,
\* isOffline and loseAgain together).
GhostsLeaveInTime == \A i \in DOMAIN db : db[i].idle < EvictedBy

\* The monitor never throws out a client that spoke less than two passes (and
\* LoseSeconds, when it spoke at all) ago, wherever its passes fall.
EvictedOnlyAfterSilence ==
    [][\A i \in DOMAIN db \ DOMAIN db' :
          untilPass' > untilPass =>
             db[i].idle >= (MaxLose - 1) * MonitorEvery + (IF db[i].heard THEN LoseSeconds ELSE 0)
      ]_<<db, untilPass>>

\* A client does not go on forever under an id the server has forgotten: it is told
\* LOGOUT, by the monitor or in answer to its next beat, and if those get lost its
\* own echo thread finds out by the missing LISTs (doEcho on the server 71-80,
\* EchoSend.run).  Only a client that shows the dialog may: its echo thread waits.
ForgottenFindsOut ==
    \A c \in Clients :
        (isLogin(c) /\ sid[c] \notin DOMAIN db)
            ~> (isLogout(c) \/ ~ Running(c) \/ \E t \in Threads : At(c, t) = "dialog")

\* "Even if the network of the computer changes (to another network, say), one
\* does not drop out", says README.md 21 of the demo.  Of a client whose login
\* succeeded and whose user has not closed the window, no thread should ever get
\* to the dialog "connect to server failed".
StaysConnected ==
    \A c \in Clients : At(c, "main") = "joined" =>
        /\ alive[c] # "closed"
        /\ \A t \in Threads : At(c, t) # "dialog"
=============================================================================
