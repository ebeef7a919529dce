------------------------- MODULE MCServerWorkQueue -------------------------
(* The receive queue of the chat server, small: TLC's instance of          *)
(* ServerWorkQueue with two producers and two workers.                     *)
EXTENDS ServerWorkQueue, TLC

CONSTANTS p1, p2, w1, w2, m1, m2

MCProducers == {p1, p2}
MCWorkers   == {w1, w2}
MCMsgs      == {m1, m2}
=============================================================================
