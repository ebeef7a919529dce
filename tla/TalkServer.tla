----------------------------- MODULE TalkServer -----------------------------
(***************************************************************************)
(* Connections and logins of the TCP chat server (TalkServerService.cpp):  *)
(* an accept thread puts each connection into a slot of the array cinfo    *)
(* and starts a receive thread for it; that thread answers the logins and  *)
(* gives the slot back when recv fails.  All of them read and write cinfo  *)
(* without a lock, and a step here is one access to it.                    *)
(*                                                                         *)
(* The field isFree means the opposite of its name (1 is occupied); it is  *)
(* called taken here.  Messages that only pass things on (TALK_MSG,        *)
(* QUERY_FQQ, SHOW_ONLINE) write nothing to cinfo and are left out.        *)
(***************************************************************************)
EXTENDS Integers, FiniteSets

CONSTANTS NSlots,   \* elements of cinfo, 10 in the code
          Conns,    \* connections, each with its client program
          Names,    \* the QQ numbers users type
          Blank,    \* the empty name
          NoConn    \* no socket yet

ASSUME SlotAssumption == NSlots \in Nat \ {0}
ASSUME NameAssumption == Blank \notin Names /\ NoConn \notin Conns

Slots == 1..NSlots

VARIABLES
    \* cinfo
    taken,     \* isFree # 0
    qq,        \* the name written into the slot; never cleared
    sock,      \* whose socket
    \* the accept thread and the receive threads (each named by the connection
    \* it was started for)
    accepting, \* [at, conn, slot]
    thread,    \* [at, slot, on, name, i, m]: its pcinfo, the socket its recv
               \* waits on, the name it reads, the loop of procLoginMsg
    \* the clients
    link,      \* "out", "up", "closed" (recv gives 0), "reset" (recv < 0)
    user,      \* "new", "waiting", "logined", "refused"
    asked,     \* the name of the LOGIN_MSG the client sent
    unread,    \* is that message still in the socket
    rejected   \* history: has any login been rejected

slots   == <<taken, qq, sock>>
clients == <<link, user, asked, unread>>
vars    == <<slots, accepting, thread, clients, rejected>>

Init ==
    /\ taken = [s \in Slots |-> FALSE]
    /\ qq = [s \in Slots |-> Blank]
    /\ sock = [s \in Slots |-> NoConn]
    /\ accepting = [at |-> "accept", conn |-> NoConn, slot |-> 0]
    /\ thread = [c \in Conns |-> [at |-> "none", slot |-> 0, on |-> NoConn,
                                  name |-> Blank, i |-> 0, m |-> 0]]
    /\ link = [c \in Conns |-> "out"]
    /\ user = [c \in Conns |-> "new"]
    /\ asked = [c \in Conns |-> Blank]
    /\ unread = [c \in Conns |-> FALSE]
    /\ rejected = FALSE

---------------------------------------------------------------------------
(* The clients.                                                            *)

Connect(c) == /\ link[c] = "out"
              /\ link' = [link EXCEPT ![c] = "up"]
              /\ UNCHANGED <<slots, accepting, thread, user, asked, unread, rejected>>

\* statusConnected: a connected client sends its name once and waits.
SendLogin(c, n) == /\ link[c] = "up"
                   /\ user[c] = "new"
                   /\ user' = [user EXCEPT ![c] = "waiting"]
                   /\ asked' = [asked EXCEPT ![c] = n]
                   /\ unread' = [unread EXCEPT ![c] = TRUE]
                   /\ UNCHANGED <<slots, accepting, thread, link, rejected>>

\* The program ends, by the user or on a refusal: the server's recv then gives
\* 0 or an error, as the system of the client has it.
Leave(c, how) == /\ link[c] = "up"
                 /\ link' = [link EXCEPT ![c] = how]
                 /\ UNCHANGED <<slots, accepting, thread, user, asked, unread, rejected>>

---------------------------------------------------------------------------
(* myAcceptThread.                                                         *)

\* Mutant: findIdelCinfo does not look at the flag.
MutFreeSlots == Slots

FreeSlots == {s \in Slots : ~ taken[s]}

\* Mutant: the answer "none" of findIdelCinfo is used as an index.
MutAccept(c) ==
    /\ accepting.at = "accept"
    /\ link[c] # "out" /\ thread[c].at = "none"
    /\ accepting' = [at |-> "take", conn |-> c,
                     slot |-> IF FreeSlots = {} THEN 0
                              ELSE CHOOSE s \in FreeSlots : \A r \in FreeSlots : s <= r]
    /\ UNCHANGED <<slots, thread, clients, rejected>>

\* accept returns a connection, though its client may have left already.
\* findIdelCinfo finds the first free slot; without one the connection is kept
\* open and never served.
Accept(c) ==
    /\ accepting.at = "accept"
    /\ link[c] # "out" /\ thread[c].at = "none"
    /\ \/ /\ FreeSlots = {}
          /\ thread' = [thread EXCEPT ![c].at = "unserved"]
          /\ UNCHANGED accepting
       \/ \E s \in FreeSlots :
             /\ \A r \in FreeSlots : s <= r
             /\ accepting' = [at |-> "take", conn |-> c, slot |-> s]
             /\ UNCHANGED thread
    /\ UNCHANGED <<slots, clients, rejected>>

Take == /\ accepting.at = "take"
        /\ taken' = [taken EXCEPT ![accepting.slot] = TRUE]
        /\ accepting' = [accepting EXCEPT !.at = "serve"]
        /\ UNCHANGED <<qq, sock, thread, clients, rejected>>

Serve == /\ accepting.at = "serve"
         /\ sock' = [sock EXCEPT ![accepting.slot] = accepting.conn]
         /\ thread' = [thread EXCEPT ![accepting.conn] =
                         [@ EXCEPT !.at = "loop", !.slot = accepting.slot]]
         /\ accepting' = [at |-> "accept", conn |-> NoConn, slot |-> 0]
         /\ UNCHANGED <<taken, qq, clients, rejected>>

---------------------------------------------------------------------------
(* myRecvThread and procLoginMsg.                                          *)

At(t, place) == thread[t].at = place

\* The socket is read from the slot for every recv.
Recv(t) == /\ At(t, "loop")
           /\ thread' = [thread EXCEPT ![t].at = "recv", ![t].on = sock[thread[t].slot]]
           /\ UNCHANGED <<slots, accepting, clients, rejected>>

\* The locals a place does not need are reset.
Goto(t, place) ==
    thread' = [thread EXCEPT ![t] = [@ EXCEPT !.at = place, !.on = NoConn, !.name = Blank,
                                              !.i = 0, !.m = 0]]

Login(t, n) ==
    thread' = [thread EXCEPT ![t] = [@ EXCEPT !.at = "name", !.on = NoConn, !.name = n]]

RecvLogin(t) ==
    LET c == thread[t].on IN
    /\ At(t, "recv") /\ unread[c]
    /\ unread' = [unread EXCEPT ![c] = FALSE]
    /\ Login(t, asked[c])
    /\ UNCHANGED <<slots, accepting, link, user, asked, rejected>>

\* After an orderly close recv returns 0, which is no error here, and the buffer
\* of zeros is a LOGIN_MSG (whose code is 0) with the empty name.
RecvZero(t) ==
    LET c == thread[t].on IN
    /\ At(t, "recv") /\ ~ unread[c] /\ link[c] = "closed"
    /\ Login(t, Blank)
    /\ UNCHANGED <<slots, accepting, clients, rejected>>

RecvFails(t) ==
    LET c == thread[t].on IN
    /\ At(t, "recv") /\ link[c] = "reset"
    /\ Goto(t, "leave")
    /\ UNCHANGED <<slots, accepting, clients, rejected>>

\* Whoever has the slot by now loses it.
GiveBack(t) == /\ At(t, "leave")
               /\ taken' = [taken EXCEPT ![thread[t].slot] = FALSE]
               /\ Goto(t, "ended")
               /\ UNCHANGED <<qq, sock, accepting, clients, rejected>>

\* The name goes into the slot first, then all slots are looked at.
WriteName(t) == /\ At(t, "name")
                /\ qq' = [qq EXCEPT ![thread[t].slot] = thread[t].name]
                /\ thread' = [thread EXCEPT ![t].at = "count", ![t].i = 1, ![t].m = 0]
                /\ UNCHANGED <<taken, sock, accepting, clients, rejected>>

Count(t) ==
    LET th == thread[t] IN
    /\ At(t, "count") /\ th.i <= NSlots
    /\ thread' = [thread EXCEPT ![t].i = @ + 1,
                                ![t].m = IF taken[th.i] /\ qq[th.i] = th.name
                                         THEN @ + 1 ELSE @]
    /\ UNCHANGED <<slots, accepting, clients, rejected>>

\* Mutant: off by one.
MutJudge(t) ==
    LET th == thread[t] IN
    /\ At(t, "count") /\ th.i = NSlots + 1
    /\ \/ /\ th.m > 2
          /\ taken' = [taken EXCEPT ![th.slot] = FALSE]
          /\ Goto(t, "refuse")
          /\ rejected' = TRUE
       \/ /\ th.m <= 2
          /\ Goto(t, "admit")
          /\ UNCHANGED <<taken, rejected>>
    /\ UNCHANGED <<qq, sock, accepting, clients>>

\* More than one slot with the name: this slot is given back, but the thread
\* goes on with it.
Judge(t) ==
    LET th == thread[t] IN
    /\ At(t, "count") /\ th.i = NSlots + 1
    /\ \/ /\ th.m > 1
          /\ taken' = [taken EXCEPT ![th.slot] = FALSE]
          /\ Goto(t, "refuse")
          /\ rejected' = TRUE
       \/ /\ th.m <= 1
          /\ Goto(t, "admit")
          /\ UNCHANGED <<taken, rejected>>
    /\ UNCHANGED <<qq, sock, accepting, clients>>

\* The answer goes to the socket the slot has now.  A client that gets it is logged
\* in if it waits for that, and ends on any refusal.
Answer(t) ==
    LET c == sock[thread[t].slot] IN
    /\ thread[t].at \in {"admit", "refuse"}
    /\ Goto(t, "loop")
    /\ user' = CASE link[c] = "up" /\ At(t, "refuse") -> [user EXCEPT ![c] = "refused"]
                 [] link[c] = "up" /\ At(t, "admit") /\ user[c] = "waiting"
                       -> [user EXCEPT ![c] = "logined"]
                 [] OTHER -> user
    /\ UNCHANGED <<slots, accepting, link, asked, unread, rejected>>

---------------------------------------------------------------------------
Client(c) == \/ Connect(c)
             \/ \E n \in Names : SendLogin(c, n)
             \/ \E how \in {"closed", "reset"} : Leave(c, how)

Acceptor  == (\E c \in Conns : Accept(c)) \/ Take \/ Serve

Receiver(t) == \/ Recv(t) \/ RecvLogin(t) \/ RecvZero(t) \/ RecvFails(t) \/ GiveBack(t)
               \/ WriteName(t) \/ Count(t) \/ Judge(t) \/ Answer(t)

Next == \/ \E c \in Conns : Client(c) \/ Receiver(c)
        \/ Acceptor

Spec == Init /\ [][Next]_vars

---------------------------------------------------------------------------
Served(t) == thread[t].at \notin {"none", "unserved", "ended"}

TypeOK ==
    /\ taken \in [Slots -> BOOLEAN]
    /\ qq \in [Slots -> Names \cup {Blank}]
    /\ sock \in [Slots -> Conns \cup {NoConn}]
    /\ accepting \in [at : {"accept", "take", "serve"}, conn : Conns \cup {NoConn},
                      slot : 0..NSlots]
    /\ thread \in [Conns ->
          [at : {"none", "unserved", "loop", "recv", "name", "count", "admit", "refuse",
                 "leave", "ended"},
           slot : 0..NSlots, on : Conns \cup {NoConn}, name : Names \cup {Blank},
           i : 0..NSlots + 1, m : 0..NSlots]]
    /\ \A t \in Conns : Served(t) => thread[t].slot \in Slots
    /\ link \in [Conns -> {"out", "up", "closed", "reset"}]
    /\ user \in [Conns -> {"new", "waiting", "logined", "refused"}]
    /\ asked \in [Conns -> Names \cup {Blank}]
    /\ unread \in [Conns -> BOOLEAN]
    /\ rejected \in BOOLEAN

Online(c) == user[c] = "logined" /\ link[c] = "up"

\* Two programs that are logged in and connected have two names: what the login
\* handling is for, "whether the QQ has logged in already"
\* (TalkServerService.cpp 98).
UniqueLogin == \A c, d \in Conns : Online(c) /\ Online(d) /\ asked[c] = asked[d] => c = d

\* As long as no login was rejected that is so, without any lock: each thread
\* writes its name before it looks for others, so of two logins under one name at
\* least one sees both (TalkServerService.cpp 89-113).
UniqueUntilRejection == ~ rejected => UniqueLogin

\* And so long each slot in use belongs to one thread, which reads, answers and
\* gives back its own client's slot only (22-46, 59, 82, 111-115).
SlotsUntilRejection ==
    ~ rejected => \A t \in Conns : Served(t) =>
        /\ taken[thread[t].slot]
        /\ sock[thread[t].slot] = t
        /\ thread[t].on \in {NoConn, t}
        /\ \A u \in Conns : Served(u) /\ thread[u].slot = thread[t].slot => u = t
=============================================================================
