----------------------------- MODULE WorkQueue -----------------------------
(***************************************************************************)
(* What the chat server promises of each of its three message queues       *)
(* (send, receive, echo), with no thread, lock or condition in sight: a    *)
(* message put in is handed to exactly one worker, in the order of the     *)
(* puts, and leaves the system when that worker is done with it.           *)
(* ServerWorkQueue is shown to implement this.                             *)
(***************************************************************************)
EXTENDS Integers, Sequences

CONSTANTS Msgs,      \* the messages
          Workers,   \* the threads that take messages out
          NoMsg      \* "no message": what poll() returns on an empty queue

VARIABLES pending,   \* messages put and not yet taken, oldest first
          inHand     \* the message each worker works on, or NoMsg

Present(m) == \/ \E i \in 1..Len(pending) : pending[i] = m
              \/ \E w \in Workers : inHand[w] = m

Init == /\ pending = << >>
        /\ inHand = [w \in Workers |-> NoMsg]

Put(m) == /\ ~ Present(m)
          /\ pending' = Append(pending, m)
          /\ UNCHANGED inHand

Take(w) == /\ inHand[w] = NoMsg
           /\ pending # << >>
           /\ inHand' = [inHand EXCEPT ![w] = Head(pending)]
           /\ pending' = Tail(pending)

Finish(w) == /\ inHand[w] # NoMsg
             /\ inHand' = [inHand EXCEPT ![w] = NoMsg]
             /\ UNCHANGED pending

Next == \/ \E m \in Msgs : Put(m)
        \/ \E w \in Workers : Take(w) \/ Finish(w)

Spec == Init /\ [][Next]_<<pending, inHand>>
=============================================================================
