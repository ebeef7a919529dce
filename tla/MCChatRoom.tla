----------------------------- MODULE MCChatRoom -----------------------------
EXTENDS ChatRoom, TLC

CONSTANTS c1, c2

OneClient  == {c1}
TwoClients == {c1, c2}

Limit(users, close, lag, lost, dup) ==
    [users |-> users, closing |-> close, lag |-> lag, lost |-> lost, dup |-> dup]

\* A network that delays within a second only.
GoodNetwork == {Limit(OneClient, TRUE, 0, 0, 0)}

\* A datagram is late; or one is lost, one repeated and the window may be closed; or
\* there are two clients.
BadNetwork == {Limit(OneClient, FALSE, 1, 0, 0), Limit(OneClient, TRUE, 0, 1, 1),
               Limit(TwoClients, FALSE, 0, 0, 0)}
=============================================================================
