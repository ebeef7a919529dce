-------------------------- MODULE TalkServerProofs --------------------------
(***************************************************************************)
(* For any number of slots, connections and names: the types of TalkServer *)
(* and, until a login is refused, that slots and names are exclusive.      *)
(*                                                                         *)
(* The argument for the names is that of the bakery algorithm: a login     *)
(* writes its name before it looks at the slots.  Of two logins under one  *)
(* name, the one that wrote later sees both slots and is refused.          *)
(***************************************************************************)
EXTENDS TalkServer, TLAPS

---------------------------------------------------------------------------
(* Types.                                                                  *)

Places == {"none", "unserved", "loop", "recv", "name", "count", "admit", "refuse",
           "leave", "ended"}
Locals == [at : Places, slot : 0..NSlots, on : Conns \cup {NoConn}, name : Names \cup {Blank},
           i : 0..NSlots + 1, m : 0..NSlots]

\* The parts of the inductive invariant behind TypeOK, with what the place of a thread
\* says of its locals.
ArrayTypes    == /\ taken \in [Slots -> BOOLEAN]
                 /\ qq \in [Slots -> Names \cup {Blank}]
                 /\ sock \in [Slots -> Conns \cup {NoConn}]
ClientTypes   == /\ link \in [Conns -> {"out", "up", "closed", "reset"}]
                 /\ user \in [Conns -> {"new", "waiting", "logined", "refused"}]
                 /\ asked \in [Conns -> Names \cup {Blank}]
                 /\ unread \in [Conns -> BOOLEAN]
                 /\ rejected \in BOOLEAN
AcceptorTypes == /\ accepting \in [at : {"accept", "take", "serve"},
                                   conn : Conns \cup {NoConn}, slot : 0..NSlots]
                 /\ accepting.at # "accept" => /\ accepting.slot \in Slots
                                               /\ accepting.conn \in Conns
                                               /\ thread[accepting.conn].at = "none"
                                               /\ link[accepting.conn] # "out"
ThreadOK(t)   == /\ Served(t) => thread[t].slot \in Slots /\ sock[thread[t].slot] \in Conns
                 /\ thread[t].at = "recv" => thread[t].on \in Conns
                 /\ thread[t].at # "recv" => thread[t].on = NoConn
                 /\ thread[t].at = "count" => 0 < thread[t].i /\ thread[t].m < thread[t].i
                 /\ thread[t].at # "none" => link[t] # "out"
ThreadTypes   == thread \in [Conns -> Locals] /\ \A t \in Conns : ThreadOK(t)

TypeInv == ArrayTypes /\ ClientTypes /\ AcceptorTypes /\ ThreadTypes

LEMMA TypesInit == Init => TypeInv
<1> SUFFICES ASSUME Init PROVE TypeInv
  OBVIOUS
<1> USE SlotAssumption DEF Init
<1>1. ArrayTypes
  BY DEF ArrayTypes
<1>2. ClientTypes
  BY DEF ClientTypes
<1>3. AcceptorTypes
  BY DEF AcceptorTypes
<1>4. thread \in [Conns -> Locals]
  BY DEF Locals, Places
<1>5. ASSUME NEW t \in Conns PROVE ThreadOK(t)
  BY DEF ThreadOK, Served
<1> QED BY <1>1, <1>2, <1>3, <1>4, <1>5 DEF TypeInv, ThreadTypes

---------------------------------------------------------------------------
(* What the receive threads' steps do to their locals.                     *)

Only(t) == thread' \in [Conns -> Locals] /\ \A u \in Conns \ {t} : thread'[u] = thread[u]
Same(t) == thread'[t].slot = thread[t].slot

LEMMA Bounds == /\ 0 \in 0..NSlots /\ 0 \in 0..NSlots + 1 /\ 1 \in 0..NSlots + 1
                /\ Slots \subseteq 0..NSlots /\ 1 \in Slots
BY SlotAssumption DEF Slots

LEMMA Moved ==
    ASSUME ThreadTypes, NEW t \in Conns, NEW th \in Locals, thread' = [thread EXCEPT ![t] = th]
    PROVE  Only(t) /\ thread'[t] = th
BY DEF ThreadTypes, Only

LEMMA GotoMoves ==
    ASSUME ThreadTypes, NEW t \in Conns, NEW place \in Places, Goto(t, place)
    PROVE  /\ Only(t) /\ Same(t)
           /\ thread'[t].at = place /\ thread'[t].on = NoConn
<1> DEFINE th == [thread[t] EXCEPT !.at = place, !.on = NoConn, !.name = Blank, !.i = 0, !.m = 0]
<1>1. th \in Locals /\ th.at = place /\ th.on = NoConn /\ th.slot = thread[t].slot
  BY Bounds DEF ThreadTypes, Locals
<1>2. thread' = [thread EXCEPT ![t] = th]
  BY DEF Goto
<1> HIDE DEF th
<1> QED BY <1>1, <1>2, Moved DEF Same

LEMMA LoginMoves ==
    ASSUME ThreadTypes, NEW t \in Conns, NEW n \in Names \cup {Blank}, Login(t, n)
    PROVE  /\ Only(t) /\ Same(t)
           /\ thread'[t].at = "name" /\ thread'[t].on = NoConn /\ thread'[t].name = n
<1> DEFINE th == [thread[t] EXCEPT !.at = "name", !.on = NoConn, !.name = n]
<1>1. /\ th \in Locals /\ th.at = "name" /\ th.on = NoConn /\ th.name = n
      /\ th.slot = thread[t].slot
  BY DEF ThreadTypes, Locals, Places
<1>2. thread' = [thread EXCEPT ![t] = th]
  BY DEF Login
<1> HIDE DEF th
<1> QED BY <1>1, <1>2, Moved DEF Same

LEMMA RecvMoves ==
    ASSUME TypeInv, NEW t \in Conns, Recv(t)
    PROVE  /\ Only(t) /\ Same(t)
           /\ thread'[t].at = "recv" /\ thread'[t].on = sock[thread[t].slot]
           /\ thread'[t].on \in Conns
<1>1. sock[thread[t].slot] \in Conns
  BY DEF TypeInv, ThreadTypes, ThreadOK, Served, Recv, At
<1> DEFINE th == [thread[t] EXCEPT !.at = "recv", !.on = sock[thread[t].slot]]
<1>2. /\ th \in Locals /\ th.at = "recv" /\ th.on = sock[thread[t].slot]
      /\ th.slot = thread[t].slot
  BY <1>1 DEF TypeInv, ThreadTypes, Locals, Places
<1>3. thread' = [thread EXCEPT ![t] = th]
  BY DEF Recv, TypeInv, ThreadTypes
<1> HIDE DEF th
<1> QED BY <1>1, <1>2, <1>3, Moved DEF Same, TypeInv

LEMMA WriteMoves ==
    ASSUME ThreadTypes, NEW t \in Conns, WriteName(t)
    PROVE  /\ Only(t) /\ Same(t)
           /\ thread'[t].at = "count" /\ thread'[t].on = thread[t].on
           /\ thread'[t].name = thread[t].name /\ thread'[t].i = 1 /\ thread'[t].m = 0
<1> DEFINE th == [thread[t] EXCEPT !.at = "count", !.i = 1, !.m = 0]
<1>1. /\ th \in Locals /\ th.at = "count" /\ th.on = thread[t].on
      /\ th.slot = thread[t].slot /\ th.name = thread[t].name /\ th.i = 1 /\ th.m = 0
  BY Bounds DEF ThreadTypes, Locals, Places
<1>2. thread' = [thread EXCEPT ![t] = th]
  BY DEF WriteName, ThreadTypes
<1> HIDE DEF th
<1> QED BY <1>1, <1>2, Moved DEF Same

LEMMA CountMoves ==
    ASSUME ThreadTypes, NEW t \in Conns, Count(t)
    PROVE  /\ Only(t) /\ Same(t)
           /\ thread[t].i \in Slots /\ thread[t].m \in Nat
           /\ thread'[t].at = "count" /\ thread'[t].on = thread[t].on
           /\ thread'[t].name = thread[t].name /\ thread'[t].i = thread[t].i + 1
           /\ thread'[t].m = IF taken[thread[t].i] /\ qq[thread[t].i] = thread[t].name
                             THEN thread[t].m + 1 ELSE thread[t].m
<1>1. /\ thread[t] \in Locals /\ thread[t].at = "count"
      /\ 0 < thread[t].i /\ thread[t].i <= NSlots /\ thread[t].m < thread[t].i
  BY DEF ThreadTypes, ThreadOK, Count, At
<1>2. /\ thread[t].i \in Slots /\ thread[t].i + 1 \in 0..NSlots + 1
      /\ thread[t].m \in Nat /\ thread[t].m \in 0..NSlots /\ thread[t].m + 1 \in 0..NSlots
  BY <1>1, SlotAssumption DEF Locals, Slots
<1> QED BY <1>1, <1>2 DEF ThreadTypes, Count, Locals, Only, Same

---------------------------------------------------------------------------
LEMMA ClientStepTypes ==
    ASSUME TypeInv, NEW c \in Conns, Client(c)
    PROVE  TypeInv'
<1>1. UNCHANGED <<taken, qq, sock, accepting, thread, rejected>>
  BY DEF Client, Connect, SendLogin, Leave, slots
<1>2. /\ \A d \in Conns : link[d] # "out" => link'[d] # "out"
      /\ ClientTypes'
  <2>1. CASE Connect(c)
    BY <2>1 DEF TypeInv, ClientTypes, Connect
  <2>2. ASSUME NEW n \in Names, SendLogin(c, n)
        PROVE  ClientTypes' /\ UNCHANGED link
    BY <2>2 DEF TypeInv, ClientTypes, SendLogin
  <2>3. ASSUME NEW how \in {"closed", "reset"}, Leave(c, how)
        PROVE  ClientTypes' /\ \A d \in Conns : link[d] # "out" => link'[d] # "out"
    BY <2>3 DEF TypeInv, ClientTypes, Leave
  <2> QED BY <2>1, <2>2, <2>3 DEF Client
<1>3. ArrayTypes' /\ AcceptorTypes'
  BY <1>1, <1>2 DEF TypeInv, ArrayTypes, AcceptorTypes
<1>4. ThreadTypes'
  BY <1>1, <1>2 DEF TypeInv, ThreadTypes, ThreadOK, Served
<1> QED BY <1>2, <1>3, <1>4 DEF TypeInv

LEMMA AcceptTypes ==
    ASSUME TypeInv, NEW c \in Conns, Accept(c)
    PROVE  TypeInv'
<1> USE DEF TypeInv
<1>1. ArrayTypes' /\ ClientTypes' /\ sock' = sock /\ link' = link
  BY DEF Accept, ArrayTypes, ClientTypes, slots, clients
<1>2. CASE FreeSlots = {} /\ thread' = [thread EXCEPT ![c].at = "unserved"] /\ UNCHANGED accepting
  <2>1. Only(c) /\ Same(c) /\ thread'[c].at = "unserved" /\ thread'[c].on = NoConn
    BY <1>2 DEF Accept, ThreadTypes, ThreadOK, Only, Same, Locals, Places
  <2>2. ThreadTypes'
    BY <1>1, <2>1 DEF Accept, ThreadTypes, ThreadOK, Only, Served
  <2>3. AcceptorTypes'
    BY <1>1, <1>2, <2>1 DEF Accept, AcceptorTypes
  <2> QED BY <1>1, <2>2, <2>3
<1>3. ASSUME NEW s \in FreeSlots, accepting' = [at |-> "take", conn |-> c, slot |-> s],
             UNCHANGED thread
      PROVE  TypeInv'
  <2>1. s \in Slots /\ s \in 0..NSlots
    BY SlotAssumption DEF FreeSlots, Slots
  <2>2. AcceptorTypes'
    BY <1>1, <1>3, <2>1 DEF Accept, AcceptorTypes
  <2>3. ThreadTypes'
    BY <1>1, <1>3 DEF ThreadTypes, ThreadOK, Served
  <2> QED BY <1>1, <2>2, <2>3
<1> QED BY <1>2, <1>3 DEF Accept

LEMMA ServeMoves ==
    ASSUME TypeInv, Serve
    PROVE  LET c == accepting.conn
           IN  /\ c \in Conns /\ accepting.slot \in Slots
               /\ thread[c].at = "none" /\ link[c] # "out"
               /\ Only(c)
               /\ thread'[c].at = "loop" /\ thread'[c].on = NoConn
               /\ thread'[c].slot = accepting.slot
               /\ \A s \in Slots : sock'[s] = IF s = accepting.slot THEN c ELSE sock[s]
<1> DEFINE c == accepting.conn
<1>1. /\ c \in Conns /\ accepting.slot \in Slots /\ accepting.slot \in 0..NSlots
      /\ thread[c].at = "none" /\ link[c] # "out"
  BY DEF TypeInv, AcceptorTypes, Serve
<1>2. thread[c].on = NoConn
  BY <1>1 DEF TypeInv, ThreadTypes, ThreadOK
<1>3. Only(c) /\ thread'[c].at = "loop" /\ thread'[c].on = NoConn /\ thread'[c].slot = accepting.slot
  <2> DEFINE th == [thread[c] EXCEPT !.at = "loop", !.slot = accepting.slot]
  <2>1. th \in Locals /\ th.at = "loop" /\ th.on = NoConn /\ th.slot = accepting.slot
    <3>1. thread[c] \in Locals /\ thread[c].on = NoConn /\ accepting.slot \in 0..NSlots
      BY <1>1, <1>2 DEF TypeInv, ThreadTypes
    <3> HIDE DEF c
    <3> QED BY <3>1 DEF Locals, Places
  <2>2. thread' = [thread EXCEPT ![c] = th]
    BY DEF Serve
  <2> HIDE DEF th
  <2> QED BY <1>1, <2>1, <2>2, Moved DEF TypeInv
<1>4. \A s \in Slots : sock'[s] = IF s = accepting.slot THEN c ELSE sock[s]
  BY <1>1 DEF TypeInv, ArrayTypes, Serve
<1> QED BY <1>1, <1>3, <1>4

LEMMA AcceptorStepTypes ==
    ASSUME TypeInv, Acceptor
    PROVE  TypeInv'
<1> USE DEF TypeInv
<1>1. CASE Take
  <2>1. accepting.slot \in Slots /\ ArrayTypes' /\ ClientTypes' /\ UNCHANGED <<sock, link, thread>>
    BY <1>1 DEF Take, ArrayTypes, ClientTypes, AcceptorTypes, clients
  <2>2. AcceptorTypes'
    BY <1>1, <2>1 DEF Take, AcceptorTypes
  <2> QED BY <2>1, <2>2 DEF ThreadTypes, ThreadOK, Served
<1>2. CASE Serve
  <2> DEFINE c == accepting.conn
  <2>1. ArrayTypes' /\ ClientTypes' /\ UNCHANGED link
    BY <1>2 DEF Serve, ArrayTypes, ClientTypes, AcceptorTypes, clients
  <2>2. AcceptorTypes'
    BY <1>2, SlotAssumption DEF Serve, AcceptorTypes
  <2>3. ASSUME NEW t \in Conns PROVE ThreadOK(t)'
    BY <1>2, <2>1, ServeMoves DEF ThreadTypes, ThreadOK, Served, Only
  <2> QED BY <1>2, <2>1, <2>2, <2>3, ServeMoves DEF ThreadTypes, Only
<1> QED BY <1>1, <1>2, AcceptTypes DEF Acceptor

\* A step of a receive thread is of one kind.
ReceiverMove(t) ==
    /\ Only(t) /\ Same(t) /\ Served(t) /\ thread'[t].at # "none"
    /\ thread'[t].at = "recv" => thread'[t].on \in Conns
    /\ thread'[t].at # "recv" => thread'[t].on = NoConn
    /\ thread'[t].at = "count" => 0 < thread'[t].i /\ thread'[t].m < thread'[t].i

LEMMA ReceiverMoves ==
    ASSUME TypeInv, NEW t \in Conns, Receiver(t)
    PROVE  ReceiverMove(t)
<1> USE DEF TypeInv, At, Served, ReceiverMove
<1>1. ThreadTypes /\ thread[t].name \in Names \cup {Blank}
  BY DEF ThreadTypes, Locals
<1>2. ASSUME NEW place \in Places \ {"none", "recv", "count"}, Goto(t, place), Served(t)
      PROVE  ReceiverMove(t)
  BY <1>1, <1>2, GotoMoves
<1>3. ASSUME NEW n \in Names \cup {Blank}, Login(t, n), Served(t)
      PROVE  ReceiverMove(t)
  BY <1>1, <1>3, LoginMoves
<1>4. CASE Recv(t)
  BY <1>4, RecvMoves DEF Recv
<1>5. CASE RecvLogin(t)
  <2>1. asked[thread[t].on] \in Names \cup {Blank}
    BY <1>5 DEF RecvLogin, ClientTypes, ThreadTypes, ThreadOK
  <2> QED BY <1>3, <1>5, <2>1 DEF RecvLogin
<1>6. CASE RecvZero(t)
  BY <1>3, <1>6 DEF RecvZero
<1>7. CASE RecvFails(t) \/ GiveBack(t) \/ Judge(t) \/ Answer(t)
  BY <1>2, <1>7 DEF RecvFails, GiveBack, Judge, Answer, Places
<1>8. CASE WriteName(t)
  <2>1. thread[t].on = NoConn /\ thread[t].at = "name"
    BY <1>8 DEF ThreadTypes, ThreadOK, WriteName
  <2> QED BY <1>1, <1>8, <2>1, WriteMoves
<1>9. CASE Count(t)
  <2>1. thread[t].on = NoConn /\ 0 < thread[t].i /\ thread[t].m < thread[t].i /\ thread[t].at = "count"
    BY <1>9 DEF ThreadTypes, ThreadOK, Count
  <2>2. thread'[t].m <= thread[t].m + 1 /\ thread[t].i \in Nat
    BY <1>1, <1>9, CountMoves DEF Slots
  <2> QED BY <1>1, <1>9, <2>1, <2>2, CountMoves DEF Slots
<1> QED BY <1>4, <1>5, <1>6, <1>7, <1>8, <1>9 DEF Receiver

LEMMA ReceiverTypes ==
    ASSUME TypeInv, NEW t \in Conns, Receiver(t)
    PROVE  TypeInv'
<1> USE DEF TypeInv
<1>1. ReceiverMove(t)
  BY ReceiverMoves
<1>2. thread[t].slot \in Slots /\ thread[t].at # "none" /\ thread[t].name \in Names \cup {Blank}
  BY <1>1 DEF ReceiverMove, ThreadTypes, ThreadOK, Served, Locals
<1>3. UNCHANGED <<accepting, link, sock, asked>>
  BY DEF Receiver, Recv, RecvLogin, RecvZero, RecvFails, GiveBack, WriteName, Count, Judge, Answer,
         slots, clients
<1>4. ArrayTypes'
  BY <1>2 DEF ArrayTypes, Receiver, Recv, RecvLogin, RecvZero, RecvFails, GiveBack, WriteName, Count,
              Judge, Answer, slots
<1>5. ClientTypes'
  BY DEF ClientTypes, Receiver, Recv, RecvLogin, RecvZero, RecvFails, GiveBack, WriteName, Count,
         Judge, Answer, clients
<1>6. AcceptorTypes'
  BY <1>1, <1>2, <1>3 DEF AcceptorTypes, ReceiverMove, Only
<1>7. ASSUME NEW u \in Conns PROVE ThreadOK(u)'
  BY <1>1, <1>2, <1>3 DEF ReceiverMove, Only, Same, ThreadTypes, ThreadOK, Served
<1> QED BY <1>1, <1>4, <1>5, <1>6, <1>7 DEF ThreadTypes, ReceiverMove, Only

LEMMA TypesStep == TypeInv /\ [Next]_vars => TypeInv'
<1> SUFFICES ASSUME TypeInv, [Next]_vars PROVE TypeInv'
  OBVIOUS
<1>1. CASE UNCHANGED vars
  BY <1>1 DEF vars, slots, clients, TypeInv, ArrayTypes, ClientTypes, AcceptorTypes, ThreadTypes,
              ThreadOK, Served
<1> QED BY <1>1, ClientStepTypes, AcceptorStepTypes, ReceiverTypes DEF Next

\* The array cinfo is used with indices in its range only, whatever findIdelCinfo answers,
\* and the loop of procLoginMsg stays in it.
THEOREM TypesHold == Spec => []TypeOK
<1>1. TypeInv => TypeOK
  <2> SUFFICES ASSUME TypeInv PROVE TypeOK
    OBVIOUS
  <2>1. thread \in [Conns -> Locals] /\ \A t \in Conns : Served(t) => thread[t].slot \in Slots
    BY DEF TypeInv, ThreadTypes, ThreadOK
  <2> QED BY <2>1 DEF TypeInv, ArrayTypes, ClientTypes, AcceptorTypes, TypeOK, Locals, Places
<1> QED BY <1>1, TypesInit, TypesStep, PTL DEF Spec

---------------------------------------------------------------------------
(* Slots.  Until a login is refused, the slot of a thread is its own, and  *)
(* the slot the accept thread has found is nobody's.                       *)

OwnSlot(t) == Served(t) =>
    /\ thread[t].at # "refuse"
    /\ taken[thread[t].slot]
    /\ sock[thread[t].slot] = t
    /\ thread[t].on \in {NoConn, t}
    /\ \A u \in Conns \ {t} : Served(u) => thread[u].slot # thread[t].slot

NobodysSlot == accepting.at # "accept" =>
    /\ \A u \in Conns : Served(u) => thread[u].slot # accepting.slot
    /\ accepting.at = "serve" => taken[accepting.slot]

SlotInv == ~ rejected => NobodysSlot /\ \A t \in Conns : OwnSlot(t)

\* Where a receive thread goes from where, and whose flag it clears.
LEMMA ReceiverSlots ==
    ASSUME TypeInv, NEW t \in Conns, Receiver(t), ~ rejected'
    PROVE  /\ ~ rejected /\ UNCHANGED <<accepting, sock>>
           /\ thread'[t].at # "refuse"
           /\ Served(t)' => UNCHANGED taken
           /\ \A s \in Slots \ {thread[t].slot} : taken'[s] = taken[s]
           /\ thread'[t].on \in {NoConn, sock[thread[t].slot]}
<1> USE DEF TypeInv, At, Served, slots, clients
<1>1. ThreadTypes /\ thread[t].name \in Names \cup {Blank} /\ taken \in [Slots -> BOOLEAN]
  BY DEF ThreadTypes, Locals, ArrayTypes
<1>2. CASE Recv(t)
  BY <1>2, RecvMoves DEF Recv
<1>3. CASE RecvLogin(t) \/ RecvZero(t)
  <2>1. asked[thread[t].on] \in Names \cup {Blank}
    BY <1>3 DEF RecvLogin, RecvZero, ClientTypes, ThreadTypes, ThreadOK
  <2> QED BY <1>1, <1>3, <2>1, LoginMoves DEF RecvLogin, RecvZero
<1>4. CASE RecvFails(t) \/ Answer(t)
  BY <1>1, <1>4, GotoMoves DEF RecvFails, Answer, Places
<1>5. CASE GiveBack(t)
  BY <1>1, <1>5, GotoMoves DEF GiveBack, Places
<1>6. CASE Judge(t)
  BY <1>1, <1>6, GotoMoves DEF Judge, Places
<1>7. CASE WriteName(t)
  <2>1. thread[t].on = NoConn
    BY <1>7 DEF WriteName, ThreadTypes, ThreadOK
  <2> QED BY <1>1, <1>7, <2>1, WriteMoves DEF WriteName
<1>8. CASE Count(t)
  <2>1. thread[t].on = NoConn
    BY <1>8 DEF Count, ThreadTypes, ThreadOK
  <2> QED BY <1>1, <1>8, <2>1, CountMoves DEF Count
<1> QED BY <1>2, <1>3, <1>4, <1>5, <1>6, <1>7, <1>8 DEF Receiver

LEMMA SlotStep == TypeInv /\ SlotInv /\ [Next]_vars => SlotInv'
<1> SUFFICES ASSUME TypeInv, SlotInv, [Next]_vars, ~ rejected'
             PROVE  NobodysSlot' /\ \A t \in Conns : OwnSlot(t)'
  BY DEF SlotInv
<1> USE DEF TypeInv, SlotInv, NobodysSlot, OwnSlot, Served
<1>1. CASE UNCHANGED vars
  BY <1>1 DEF vars, slots
<1>2. ASSUME NEW c \in Conns, Client(c) PROVE NobodysSlot' /\ \A t \in Conns : OwnSlot(t)'
  <2>1. UNCHANGED <<slots, accepting, thread, rejected>>
    BY <1>2 DEF Client, Connect, SendLogin, Leave
  <2> QED BY <2>1 DEF slots
<1>3. ASSUME NEW c \in Conns, Accept(c) PROVE NobodysSlot' /\ \A t \in Conns : OwnSlot(t)'
  <2>1. UNCHANGED <<slots, rejected>>
    BY <1>3 DEF Accept
  <2>2. CASE FreeSlots = {} /\ thread' = [thread EXCEPT ![c].at = "unserved"] /\ UNCHANGED accepting
    <3>1. Only(c) /\ thread'[c].at = "unserved"
      BY <2>2 DEF ThreadTypes, Only, Locals, Places
    <3> QED BY <1>3, <2>1, <2>2, <3>1 DEF Only, slots, Accept
  <2>3. ASSUME NEW s \in FreeSlots, accepting' = [at |-> "take", conn |-> c, slot |-> s],
               UNCHANGED thread
        PROVE  NobodysSlot' /\ \A t \in Conns : OwnSlot(t)'
    <3>1. ~ taken[s]
      BY DEF FreeSlots
    <3> QED BY <2>1, <2>3, <3>1 DEF slots
  <2> QED BY <1>3, <2>2, <2>3 DEF Accept
<1>4. CASE Take
  <2>1. /\ UNCHANGED <<sock, thread, rejected>> /\ accepting.slot \in Slots
        /\ accepting'.at = "serve" /\ accepting'.slot = accepting.slot
        /\ \A s \in Slots : taken'[s] = IF s = accepting.slot THEN TRUE ELSE taken[s]
    BY <1>4 DEF Take, AcceptorTypes, ArrayTypes
  <2>2. \A t \in Conns : Served(t) => thread[t].slot \in Slots
    BY DEF ThreadTypes, ThreadOK
  <2>3. accepting.at = "take" /\ ~ rejected
    BY <1>4, <2>1 DEF Take
  <2>4. NobodysSlot'
    BY <2>1, <2>2, <2>3
  <2>5. ASSUME NEW t \in Conns PROVE OwnSlot(t)'
    <3>1. Served(t) => taken'[thread[t].slot]
      BY <2>1, <2>2, <2>3
    <3> QED BY <2>1, <2>3, <3>1
  <2> QED BY <2>4, <2>5
<1>5. CASE Serve
  <2>1. UNCHANGED <<taken, rejected>> /\ accepting'.at = "accept"
    BY <1>5 DEF Serve
  <2>2. \A t \in Conns : Served(t) => thread[t].slot \in Slots
    BY DEF ThreadTypes, ThreadOK
  <2> QED BY <1>5, <2>1, <2>2, ServeMoves DEF Serve, Only
<1>6. ASSUME NEW t \in Conns, Receiver(t) PROVE NobodysSlot' /\ \A u \in Conns : OwnSlot(u)'
  <2>1. Only(t) /\ Same(t) /\ Served(t)
    BY <1>6, ReceiverMoves DEF ReceiverMove
  <2>2. \A u \in Conns : Served(u) => thread[u].slot \in Slots
    BY DEF ThreadTypes, ThreadOK
  <2>3. NobodysSlot'
    <3>1. accepting.at # "accept" => accepting.slot \in Slots
      BY DEF AcceptorTypes
    <3> QED BY <1>6, <2>1, <2>2, <3>1, ReceiverSlots DEF Only, Same
  <2>4. OwnSlot(t)'
    BY <1>6, <2>1, <2>2, ReceiverSlots DEF Only, Same
  <2>5. ASSUME NEW u \in Conns \ {t} PROVE OwnSlot(u)'
    BY <1>6, <2>1, <2>2, ReceiverSlots DEF Only, Same
  <2> QED BY <2>3, <2>4, <2>5
<1> QED BY <1>1, <1>2, <1>3, <1>4, <1>5, <1>6 DEF Next, Acceptor

LEMMA SlotInit == Init => SlotInv
BY DEF Init, SlotInv, NobodysSlot, OwnSlot, Served

\* For any number of slots and connections: as long as no login is refused, each slot in
\* use is one thread's, which reads, answers and gives back its own client's only.
THEOREM SlotsHold == Spec => []SlotsUntilRejection
<1>1. SlotInv => SlotsUntilRejection
  BY DEF SlotInv, OwnSlot, SlotsUntilRejection
<1> QED BY <1>1, TypesInit, TypesStep, SlotInit, SlotStep, PTL DEF Spec

---------------------------------------------------------------------------
(* Names.                                                                  *)

\* Of a client that is connected: its thread logs in the name the client sent, which is in
\* its slot from WriteName on.
LoginOK(t) ==
    /\ unread[t] => user[t] # "new"
    /\ link[t] = "out" => user[t] = "new"
    /\ user[t] = "logined" => ~ unread[t]
    /\ link[t] = "up" =>
          /\ thread[t].at \in {"name", "count", "admit"} =>
                user[t] \notin {"new", "logined"} /\ ~ unread[t]
          /\ thread[t].at \in {"name", "count"} => thread[t].name = asked[t]
          /\ thread[t].at \in {"count", "admit"} => qq[thread[t].slot] = asked[t]
          /\ user[t] = "logined" => /\ thread[t].at \in {"loop", "recv"}
                                    /\ qq[thread[t].slot] = asked[t]

\* The client t is connected and its name written.
Written(t) == link[t] = "up" /\ (thread[t].at \in {"count", "admit"} \/ user[t] = "logined")

\* The thread t is looking, and has counted its own slot and that of u if it is past them.
Sees(t, u) ==
    /\ thread[t].at = "count"
    /\ thread[t].m >= (IF thread[t].slot < thread[t].i THEN 1 ELSE 0)
                      + (IF thread[u].slot < thread[t].i THEN 1 ELSE 0)

OneSees(t, u) == Written(t) /\ Written(u) /\ asked[t] = asked[u] => Sees(t, u) \/ Sees(u, t)

NameInv == ~ rejected => /\ \A t \in Conns : LoginOK(t)
                         /\ \A t, u \in Conns : t # u => OneSees(t, u)

\* What a thread's step does to the logins of the others, and to its own.
Others(t) ==
    /\ UNCHANGED <<link, asked, accepting>>
    /\ \A u \in Conns \ {t} : user'[u] = user[u] /\ unread'[u] = unread[u]
    /\ \A s \in Slots \ {thread[t].slot} : qq'[s] = qq[s]
Counted(t) == \A u \in Conns \ {t} :
    Written(t)' /\ Written(u) /\ asked[t] = asked[u]
        => \/ Sees(t, u)'
           \/ Written(t) /\ ~ Sees(t, u)

LEMMA ReceiverNames ==
    ASSUME TypeInv, SlotInv, NameInv, NEW t \in Conns, Receiver(t), ~ rejected'
    PROVE  Others(t) /\ LoginOK(t)' /\ Counted(t)
<1>1. /\ ~ rejected /\ Served(t) /\ Only(t) /\ Same(t)
      /\ thread[t].at # "refuse" /\ thread[t].slot \in Slots
  BY ReceiverMoves, ReceiverSlots DEF ReceiverMove, SlotInv, OwnSlot, TypeInv, ThreadTypes, ThreadOK
<1>2. /\ LoginOK(t) /\ taken[thread[t].slot] /\ sock[thread[t].slot] = t
      /\ thread[t].on \in {NoConn, t}
  BY <1>1 DEF NameInv, SlotInv, OwnSlot
<1>3. thread[t].at = "recv" => thread[t].on = t
  BY <1>2, NameAssumption DEF TypeInv, ThreadTypes, ThreadOK
<1>4. thread[t] \in Locals /\ thread[t].name \in Names \cup {Blank} /\ asked[t] \in Names \cup {Blank}
  BY DEF TypeInv, ThreadTypes, ClientTypes, Locals
<1>5. ThreadTypes
  BY DEF TypeInv
<1>6. CASE Recv(t)
  <2>1. /\ UNCHANGED <<slots, accepting, clients>> /\ thread[t].at = "loop"
        /\ thread'[t].at = "recv" /\ thread'[t].slot = thread[t].slot
    BY <1>6, RecvMoves DEF Recv, At, Same
  <2> QED BY <1>2, <2>1 DEF Others, LoginOK, Counted, Written, Sees, slots, clients
<1>7. CASE RecvLogin(t)
  <2>1. /\ UNCHANGED <<slots, accepting, link, user, asked>> /\ unread[t]
        /\ unread' = [unread EXCEPT ![t] = FALSE]
        /\ thread'[t].at = "name" /\ thread'[t].name = asked[t]
    BY <1>3, <1>4, <1>5, <1>7, LoginMoves DEF RecvLogin, At
  <2>2. ~ unread'[t] /\ \A u \in Conns \ {t} : unread'[u] = unread[u]
    BY <2>1 DEF TypeInv, ClientTypes
  <2> QED BY <1>2, <2>1, <2>2 DEF Others, LoginOK, Counted, Written, slots
<1>8. CASE RecvZero(t)
  <2>1. /\ UNCHANGED <<slots, accepting, clients>> /\ link[t] = "closed" /\ ~ unread[t]
        /\ thread'[t].at = "name"
    BY <1>3, <1>5, <1>8, LoginMoves DEF RecvZero, At
  <2> QED BY <1>2, <2>1 DEF Others, LoginOK, Counted, Written, slots, clients
<1>9. CASE RecvFails(t)
  <2>1. UNCHANGED <<slots, accepting, clients>> /\ link[t] = "reset" /\ thread'[t].at = "leave"
    BY <1>3, <1>5, <1>9, GotoMoves DEF RecvFails, At, Places
  <2> QED BY <1>2, <2>1 DEF Others, LoginOK, Counted, Written, slots, clients
<1>10. CASE GiveBack(t)
  <2>1. /\ UNCHANGED <<qq, accepting, clients>>
        /\ thread[t].at = "leave" /\ thread'[t].at = "ended"
    BY <1>5, <1>10, GotoMoves DEF GiveBack, At, Places
  <2> QED BY <1>2, <2>1 DEF Others, LoginOK, Counted, Written, clients
<1>11. CASE WriteName(t)
  <2>1. /\ UNCHANGED <<accepting, clients>> /\ thread[t].at = "name"
        /\ qq' = [qq EXCEPT ![thread[t].slot] = thread[t].name]
        /\ thread'[t].at = "count" /\ thread'[t].name = thread[t].name
        /\ thread'[t].i = 1 /\ thread'[t].m = 0 /\ thread'[t].slot = thread[t].slot
    BY <1>5, <1>11, WriteMoves DEF WriteName, At, Same
  <2>2. /\ qq'[thread[t].slot] = thread[t].name
        /\ \A s \in Slots \ {thread[t].slot} : qq'[s] = qq[s]
    BY <1>1, <2>1 DEF TypeInv, ArrayTypes
  <2>3. ASSUME NEW u \in Conns \ {t}, Written(u) PROVE Sees(t, u)'
    <3>1. Served(u) /\ thread[u].slot \in Slots /\ thread'[u] = thread[u]
      BY <1>1, <2>3 DEF Written, NameInv, LoginOK, Served, TypeInv, ThreadTypes, ThreadOK, Only
    <3> QED BY <1>1, <2>1, <3>1 DEF Sees, Slots
  <2>4. LoginOK(t)'
    BY <1>2, <2>1, <2>2 DEF LoginOK, clients
  <2>5. Others(t)
    BY <2>1, <2>2 DEF Others, clients
  <2>6. Counted(t)
    BY <2>3 DEF Counted
  <2> QED BY <2>4, <2>5, <2>6
<1>12. CASE Count(t)
  <2>1. /\ UNCHANGED <<qq, accepting, clients>> /\ thread[t].at = "count"
        /\ thread[t].i \in Slots /\ thread[t].m \in Nat
        /\ thread'[t].at = "count" /\ thread'[t].name = thread[t].name
        /\ thread'[t].slot = thread[t].slot /\ thread'[t].i = thread[t].i + 1
        /\ thread'[t].m = IF taken[thread[t].i] /\ qq[thread[t].i] = thread[t].name
                          THEN thread[t].m + 1 ELSE thread[t].m
    BY <1>5, <1>12, CountMoves DEF Count, At, Same, slots
  <2>2. ASSUME NEW u \in Conns \ {t}, Written(t)', Written(u), asked[t] = asked[u], Sees(t, u)
        PROVE  Sees(t, u)'
    <3>1. /\ Served(u) /\ LoginOK(u) /\ OwnSlot(u) /\ OwnSlot(t)
          /\ thread[u].slot \in Slots /\ thread'[u] = thread[u]
      BY <1>1, <2>2 DEF Written, NameInv, SlotInv, LoginOK, Served, TypeInv, ThreadTypes, ThreadOK, Only
    <3>2. taken[thread[u].slot] /\ qq[thread[u].slot] = asked[u] /\ thread[u].slot # thread[t].slot
      BY <1>1, <2>2, <3>1 DEF Written, LoginOK, OwnSlot
    <3>3. taken[thread[t].slot] /\ qq[thread[t].slot] = asked[t] /\ thread[t].name = asked[t]
      BY <1>2, <2>1, <2>2 DEF Written, LoginOK, clients
    <3>4. thread[t].m >= (IF thread[t].slot < thread[t].i THEN 1 ELSE 0)
                         + (IF thread[u].slot < thread[t].i THEN 1 ELSE 0)
      BY <2>2 DEF Sees
    <3>5. /\ thread[t].i \in {thread[t].slot, thread[u].slot}
                => thread'[t].m = thread[t].m + 1
          /\ thread'[t].m >= thread[t].m
      BY <2>1, <2>2, <3>2, <3>3
    <3>6. thread'[t].m >= (IF thread[t].slot < thread[t].i + 1 THEN 1 ELSE 0)
                          + (IF thread[u].slot < thread[t].i + 1 THEN 1 ELSE 0)
      <4>1. /\ thread[t].i \in Int /\ thread[t].slot \in Int /\ thread[u].slot \in Int
            /\ thread[t].m \in Int /\ thread'[t].m \in Int
        BY <1>1, <2>1, <3>1 DEF Slots
      <4> QED BY <3>2, <3>4, <3>5, <4>1
    <3> QED BY <2>1, <3>1, <3>6 DEF Sees
  <2>3. Written(t)' => Written(t)
    BY <2>1 DEF Written, clients
  <2>4. LoginOK(t)'
    BY <1>2, <2>1 DEF LoginOK, clients
  <2>5. Others(t)
    BY <2>1 DEF Others, clients
  <2>6. Counted(t)
    BY <2>2, <2>3 DEF Counted
  <2> QED BY <2>4, <2>5, <2>6
<1>13. CASE Judge(t)
  <2>1. /\ UNCHANGED <<qq, accepting, clients>> /\ thread[t].at = "count"
        /\ thread[t].i = NSlots + 1 /\ thread[t].m <= 1
        /\ thread'[t].at = "admit"
    BY <1>5, <1>13, GotoMoves DEF Judge, At, Places
  <2>2. ASSUME NEW u \in Conns \ {t}, Written(u) PROVE ~ Sees(t, u)
    <3>1. thread[u].slot \in Slots
      BY <1>1, <2>2 DEF Written, NameInv, LoginOK, Served, TypeInv, ThreadTypes, ThreadOK
    <3>2. /\ thread[u].slot < NSlots + 1 /\ thread[t].slot < NSlots + 1 /\ thread[t].m \in Int
      BY <1>1, <1>4, <3>1, SlotAssumption DEF Slots, Locals
    <3> QED BY <2>1, <3>2 DEF Sees
  <2> QED BY <1>1, <1>2, <2>1, <2>2 DEF Others, LoginOK, Counted, Written, Same, clients
<1>14. CASE Answer(t)
  <2>1. /\ UNCHANGED <<qq, accepting, link, asked, unread>> /\ thread[t].at = "admit"
        /\ thread'[t].at = "loop" /\ thread'[t].slot = thread[t].slot
        /\ user' = IF link[t] = "up" /\ user[t] = "waiting"
                   THEN [user EXCEPT ![t] = "logined"] ELSE user
    BY <1>1, <1>2, <1>5, <1>14, GotoMoves DEF Answer, At, Same, Places, slots
  <2>2. /\ \A u \in Conns \ {t} : user'[u] = user[u]
        /\ user'[t] = IF link[t] = "up" /\ user[t] = "waiting" THEN "logined" ELSE user[t]
    BY <2>1 DEF TypeInv, ClientTypes
  <2>3. LoginOK(t)'
    BY <1>2, <2>1, <2>2 DEF LoginOK
  <2>4. Counted(t)
    BY <1>2, <2>1, <2>2 DEF LoginOK, Counted, Written, Sees
  <2> QED BY <2>1, <2>2, <2>3, <2>4 DEF Others
<1> QED BY <1>6, <1>7, <1>8, <1>9, <1>10, <1>11, <1>12, <1>13, <1>14 DEF Receiver

LEMMA NameStep == TypeInv /\ SlotInv /\ NameInv /\ [Next]_vars => NameInv'
<1> SUFFICES ASSUME TypeInv, SlotInv, NameInv, [Next]_vars, ~ rejected'
             PROVE  /\ \A t \in Conns : LoginOK(t)'
                    /\ \A t, u \in Conns : t # u => OneSees(t, u)'
  BY DEF NameInv
<1>1. CASE UNCHANGED vars
  BY <1>1 DEF vars, slots, clients, NameInv, LoginOK, OneSees, Written, Sees
<1>2. ASSUME NEW c \in Conns, Client(c)
      PROVE  /\ \A t \in Conns : LoginOK(t)'
             /\ \A t, u \in Conns : t # u => OneSees(t, u)'
  <2>1. UNCHANGED <<qq, thread, rejected>> /\ ~ rejected
    BY <1>2 DEF Client, Connect, SendLogin, Leave, slots
  <2>2. ASSUME NEW t \in Conns
        PROVE  LoginOK(t)' /\ (Written(t)' => Written(t) /\ asked'[t] = asked[t])
    <3>1. LoginOK(t) /\ (thread[t].at # "none" => link[t] # "out")
      BY <2>1 DEF NameInv, TypeInv, ThreadTypes, ThreadOK
    <3>2. ClientTypes
      BY DEF TypeInv
    <3>3. CASE Connect(c)
      BY <2>1, <3>1, <3>2, <3>3 DEF Connect, ClientTypes, LoginOK, Written
    <3>4. ASSUME NEW n \in Names, SendLogin(c, n)
          PROVE  LoginOK(t)' /\ (Written(t)' => Written(t) /\ asked'[t] = asked[t])
      BY <2>1, <3>1, <3>2, <3>4 DEF SendLogin, ClientTypes, LoginOK, Written
    <3>5. ASSUME NEW how \in {"closed", "reset"}, Leave(c, how)
          PROVE  LoginOK(t)' /\ (Written(t)' => Written(t) /\ asked'[t] = asked[t])
      BY <2>1, <3>1, <3>2, <3>5 DEF Leave, ClientTypes, LoginOK, Written
    <3> QED BY <1>2, <3>3, <3>4, <3>5 DEF Client
  <2> QED BY <2>1, <2>2 DEF NameInv, OneSees, Sees
<1>3. CASE Acceptor
  <2>1. UNCHANGED <<qq, clients, rejected>> /\ ~ rejected
    BY <1>3 DEF Acceptor, Accept, Take, Serve, slots
  <2>2. ASSUME NEW t \in Conns
        PROVE  \/ thread'[t] = thread[t]
               \/ thread[t].at = "none" /\ thread'[t].at \in {"unserved", "loop"}
    <3>1. CASE Take
      BY <3>1 DEF Take
    <3>2. CASE Serve
      BY <3>2, ServeMoves DEF Only
    <3>3. ASSUME NEW c \in Conns, Accept(c)
          PROVE  \/ thread'[t] = thread[t]
                 \/ thread[t].at = "none" /\ thread'[t].at \in {"unserved", "loop"}
      BY <3>3 DEF Accept, TypeInv, ThreadTypes, Locals
    <3> QED BY <1>3, <3>1, <3>2, <3>3 DEF Acceptor
  <2>3. ASSUME NEW t \in Conns
        PROVE  LoginOK(t)' /\ (Written(t)' => Written(t) /\ thread'[t] = thread[t])
    BY <2>1, <2>2, <2>3 DEF NameInv, LoginOK, Written, clients
  <2> QED BY <2>1, <2>3 DEF NameInv, OneSees, Sees, clients
<1>4. ASSUME NEW r \in Conns, Receiver(r)
      PROVE  /\ \A t \in Conns : LoginOK(t)'
             /\ \A t, u \in Conns : t # u => OneSees(t, u)'
  <2>1. /\ Only(r) /\ Same(r) /\ Served(r) /\ ~ rejected
        /\ Others(r) /\ LoginOK(r)' /\ Counted(r)
    BY <1>4, ReceiverMoves, ReceiverSlots, ReceiverNames DEF ReceiverMove
  <2>2. ASSUME NEW t \in Conns \ {r}
        PROVE  LoginOK(t)' /\ (Written(t)' => Written(t)) /\ thread'[t] = thread[t]
    <3>1. LoginOK(t) /\ OwnSlot(t) /\ thread'[t] = thread[t] /\ (Served(t) => thread[t].slot \in Slots)
      BY <2>1 DEF NameInv, SlotInv, Only, TypeInv, ThreadTypes, ThreadOK
    <3>2. Served(t) => qq'[thread[t].slot] = qq[thread[t].slot]
      BY <2>1, <3>1 DEF OwnSlot, Others
    <3> QED BY <2>1, <3>1, <3>2 DEF LoginOK, Written, Others, Served
  <2>3. ASSUME NEW t \in Conns \ {r} PROVE OneSees(t, r)' /\ OneSees(r, t)'
    <3>1. SUFFICES ASSUME Written(t)', Written(r)', asked[t] = asked[r]
                   PROVE  Sees(t, r)' \/ Sees(r, t)'
      BY <2>1 DEF OneSees, Others
    <3>2. Written(t) /\ (Sees(r, t)' \/ (Written(r) /\ ~ Sees(r, t)))
      BY <2>1, <2>2, <3>1 DEF Counted
    <3>3. Sees(t, r) => Sees(t, r)'
      BY <2>1, <2>2 DEF Sees, Same
    <3> QED BY <2>1, <3>1, <3>2, <3>3 DEF NameInv, OneSees
  <2>4. ASSUME NEW t \in Conns \ {r}, NEW u \in Conns \ {r}, t # u PROVE OneSees(t, u)'
    BY <2>1, <2>2, <2>4 DEF NameInv, OneSees, Sees, Others
  <2> QED BY <2>1, <2>2, <2>3, <2>4
<1> QED BY <1>1, <1>2, <1>3, <1>4 DEF Next

LEMMA NameInit == Init => NameInv
BY DEF Init, NameInv, LoginOK, OneSees, Written

\* For any number of slots and connections: as long as no login is refused, two clients
\* that are connected and logged in have two names, although no step locks anything.
THEOREM UniqueHolds == Spec => []UniqueUntilRejection
<1>1. NameInv => UniqueUntilRejection
  BY DEF NameInv, LoginOK, OneSees, Written, Sees, UniqueUntilRejection, UniqueLogin, Online
<1> QED BY <1>1, TypesInit, TypesStep, SlotInit, SlotStep, NameInit, NameStep, PTL DEF Spec
=============================================================================
