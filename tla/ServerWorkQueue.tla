-------------------------- MODULE ServerWorkQueue --------------------------
(***************************************************************************)
(* One message queue of the UDP chat server (ChatServerServer.java).       *)
(*                                                                         *)
(* The server owns three of them, built alike: a ConcurrentLinkedQueue, a  *)
(* ReentrantLock and one Condition.  A producer adds to the queue WITHOUT  *)
(* the lock, then locks, signals and unlocks (commit, the receive thread). *)
(* A worker polls WITHOUT the lock; only when poll() returned null does it *)
(* lock and await(), and it does not look at the queue again in between.   *)
(* So a message added between the poll and the await finds nobody to wake  *)
(* and stays until a later signal.                                         *)
(*                                                                         *)
(*   send queue     producers: every handler thread      one worker        *)
(*   receive queue  producer:  the receive thread        2..4 workers      *)
(*   echo queue     producer:  the receive thread        one worker        *)
(***************************************************************************)
EXTENDS Integers, Sequences

CONSTANTS Producers,  \* threads that add messages
          Workers,    \* threads that poll and handle them
          Msgs,       \* message identities; one is reused once it is finished
          NoMsg,      \* null
          NoThread,   \* "the lock is free"
          Retry       \* RETRY_TIMES: how often a worker tries to handle a message

ASSUME ThreadAssumption == /\ Producers \cap Workers = {}
                           /\ NoThread \notin Producers \cup Workers
ASSUME MsgAssumption    == NoMsg \notin Msgs
ASSUME RetryAssumption  == Retry \in Nat \ {0}

Threads == Producers \cup Workers

VARIABLES queue,   \* the ConcurrentLinkedQueue
          holder,  \* the thread that holds the ReentrantLock, or NoThread
          pc,      \* where each thread is
          hand,    \* the local variable msg of each worker
          tries    \* tryTimes of each worker

vars == <<queue, holder, pc, hand, tries>>

ProducerAt == {"idle", "lock", "signal"}
WorkerAt   == {"poll", "lock", "await", "waiting", "relock", "unlock", "handle"}

\* The threads parked on the condition.
Waiting == {w \in Workers : pc[w] = "waiting"}

Queued(m)  == \E i \in 1..Len(queue) : queue[i] = m
Present(m) == Queued(m) \/ \E w \in Workers : hand[w] = m

Init == /\ queue = << >>
        /\ holder = NoThread
        /\ pc = [t \in Threads |-> IF t \in Producers THEN "idle" ELSE "poll"]
        /\ hand = [w \in Workers |-> NoMsg]
        /\ tries = [w \in Workers |-> 0]

Goto(t, place) == pc' = [pc EXCEPT ![t] = place]

---------------------------------------------------------------------------
(* Producers: msgSendQueue.add(msg), then lock, signal, unlock.            *)

Add(p, m) == /\ pc[p] = "idle"
             /\ ~ Present(m)
             /\ queue' = Append(queue, m)
             /\ Goto(p, "lock")
             /\ UNCHANGED <<holder, hand, tries>>

LockToSignal(p) == /\ pc[p] = "lock"
                   /\ holder = NoThread
                   /\ holder' = p
                   /\ Goto(p, "signal")
                   /\ UNCHANGED <<queue, hand, tries>>

\* Mutant: the lock is released, but nobody is woken.
MutSignalAndUnlock(p) ==
    /\ pc[p] = "signal"
    /\ holder' = NoThread
    /\ Goto(p, "idle")
    /\ UNCHANGED <<queue, hand, tries>>

\* signal() moves one parked thread to the lock's entry queue; with nobody
\* parked it does nothing and is forgotten.  The unlock follows at once.
SignalAndUnlock(p) ==
    /\ pc[p] = "signal"
    /\ holder' = NoThread
    /\ \/ /\ Waiting = {}
          /\ Goto(p, "idle")
       \/ \E w \in Waiting :
             pc' = [pc EXCEPT ![p] = "idle", ![w] = "relock"]
    /\ UNCHANGED <<queue, hand, tries>>

---------------------------------------------------------------------------
(* Workers: the loop of the send, receive-handle and echo-handle threads.  *)

\* Mutant: peek() for poll().
MutPollPeeks(w) == /\ pc[w] = "poll"
                   /\ queue # << >>
                   /\ hand' = [hand EXCEPT ![w] = Head(queue)]
                   /\ tries' = [tries EXCEPT ![w] = 0]
                   /\ Goto(w, "handle")
                   /\ UNCHANGED <<queue, holder>>

\* Mutant: the newest message is polled first.
MutPollNewest(w) ==
    LET n == Len(queue) IN
    /\ pc[w] = "poll"
    /\ n > 0
    /\ hand' = [hand EXCEPT ![w] = queue[n]]
    /\ queue' = SubSeq(queue, 1, n - 1)
    /\ tries' = [tries EXCEPT ![w] = 0]
    /\ Goto(w, "handle")
    /\ UNCHANGED holder

PollMsg(w) == /\ pc[w] = "poll"
              /\ queue # << >>
              /\ hand' = [hand EXCEPT ![w] = Head(queue)]
              /\ queue' = Tail(queue)
              /\ tries' = [tries EXCEPT ![w] = 0]
              /\ Goto(w, "handle")
              /\ UNCHANGED holder

PollNull(w) == /\ pc[w] = "poll"
               /\ queue = << >>
               /\ Goto(w, "lock")
               /\ UNCHANGED <<queue, holder, hand, tries>>

LockToSleep(w) == /\ w \in Workers
                  /\ pc[w] = "lock"
                  /\ holder = NoThread
                  /\ holder' = w
                  /\ Goto(w, "await")
                  /\ UNCHANGED <<queue, hand, tries>>

\* Mutant: the thread parks with the lock in its hands.
MutAwait(w) == /\ pc[w] = "await"
               /\ Goto(w, "waiting")
               /\ UNCHANGED <<queue, holder, hand, tries>>

\* await() gives the lock up and parks, whatever the queue holds by now.
Await(w) == /\ pc[w] = "await"
            /\ holder' = NoThread
            /\ Goto(w, "waiting")
            /\ UNCHANGED <<queue, hand, tries>>

\* Condition.await may return without a signal.
SpuriousWakeup(w) == /\ pc[w] = "waiting"
                     /\ Goto(w, "relock")
                     /\ UNCHANGED <<queue, holder, hand, tries>>

Relock(w) == /\ pc[w] = "relock"
             /\ holder = NoThread
             /\ holder' = w
             /\ Goto(w, "unlock")
             /\ UNCHANGED <<queue, hand, tries>>

Unlock(w) == /\ pc[w] = "unlock"
             /\ holder' = NoThread
             /\ Goto(w, "poll")
             /\ UNCHANGED <<queue, hand, tries>>

\* The message is dropped from the worker's hands when a try succeeds ...
HandleDone(w) == /\ pc[w] = "handle"
                 /\ hand' = [hand EXCEPT ![w] = NoMsg]
                 /\ Goto(w, "poll")
                 /\ UNCHANGED <<queue, holder, tries>>

\* Mutant: a message that threw goes back to the queue.
MutHandleRequeues(w) == /\ pc[w] = "handle"
                        /\ tries' = [tries EXCEPT ![w] = @ + 1]
                        /\ hand' = [hand EXCEPT ![w] = NoMsg]
                        /\ queue' = Append(queue, hand[w])
                        /\ Goto(w, "poll")
                        /\ UNCHANGED holder

\* Mutant: one try too many.
MutHandleThrows(w) == /\ pc[w] = "handle"
                      /\ tries' = [tries EXCEPT ![w] = @ + 1]
                      /\ \/ /\ tries[w] < Retry
                            /\ UNCHANGED <<pc, hand>>
                         \/ /\ tries[w] >= Retry
                            /\ hand' = [hand EXCEPT ![w] = NoMsg]
                            /\ Goto(w, "poll")
                      /\ UNCHANGED <<queue, holder>>

\* ... and also after RETRY_TIMES tries that threw: it is logged and lost.
HandleThrows(w) == /\ pc[w] = "handle"
                   /\ tries' = [tries EXCEPT ![w] = @ + 1]
                   /\ \/ /\ tries[w] + 1 < Retry
                         /\ UNCHANGED <<pc, hand>>
                      \/ /\ tries[w] + 1 >= Retry
                         /\ hand' = [hand EXCEPT ![w] = NoMsg]
                         /\ Goto(w, "poll")
                   /\ UNCHANGED <<queue, holder>>

---------------------------------------------------------------------------
Produce(p) == (\E m \in Msgs : Add(p, m)) \/ LockToSignal(p) \/ SignalAndUnlock(p)

Work(w) == \/ PollMsg(w) \/ PollNull(w)
           \/ LockToSleep(w) \/ Await(w) \/ SpuriousWakeup(w)
           \/ Relock(w) \/ Unlock(w)
           \/ HandleDone(w) \/ HandleThrows(w)

Next == (\E p \in Producers : Produce(p)) \/ (\E w \in Workers : Work(w))

Spec == Init /\ [][Next]_vars

\* A thread that can run runs, and one that asks for the lock gets it although
\* others keep taking it (ReentrantLock queues its waiters).  Nothing makes a
\* producer add, await return by itself or a handler throw.
Fairness ==
    /\ \A p \in Producers : SF_vars(LockToSignal(p)) /\ WF_vars(SignalAndUnlock(p))
    /\ \A w \in Workers :
          /\ WF_vars(PollMsg(w)) /\ WF_vars(PollNull(w))
          /\ SF_vars(LockToSleep(w)) /\ WF_vars(Await(w))
          /\ SF_vars(Relock(w)) /\ WF_vars(Unlock(w))
          /\ WF_vars(HandleDone(w) \/ HandleThrows(w))

FairSpec == Spec /\ Fairness

---------------------------------------------------------------------------
TypeOK ==
    /\ queue \in Seq(Msgs)
    /\ holder \in Threads \cup {NoThread}
    /\ pc \in [Threads -> ProducerAt \cup WorkerAt]
    /\ \A p \in Producers : pc[p] \in ProducerAt
    /\ \A w \in Workers : pc[w] \in WorkerAt
    /\ hand \in [Workers -> Msgs \cup {NoMsg}]
    /\ tries \in [Workers -> 0..Retry]

\* The threads whose code is between lock() and unlock() or await().
InLock == {t \in Threads : pc[t] \in {"signal", "await", "unlock"}}

\* Whoever is inside the lock is the one holder: at most one thread signals or
\* parks at a time, and no path leaves the lock held (ChatServerServer.java
\* 197-203, 237-244).
LockInv == \A t \in Threads : (t \in InLock) <=> (holder = t)

\* A message is in at most one place: never queued twice, in two hands, or
\* in a hand and the queue, so no datagram is handled twice by the 2..4 handler
\* threads that poll one queue without the lock (ChatServerServer.java 530).
HeldOnce ==
    /\ \A i, j \in 1..Len(queue) : (queue[i] = queue[j]) => (i = j)
    /\ \A w \in Workers : hand[w] # NoMsg => ~ Queued(hand[w])
    /\ \A v, w \in Workers : (hand[v] # NoMsg /\ hand[v] = hand[w]) => (v = w)

\* A worker has a message exactly while it handles it: it never parks on the
\* condition, or polls the next one, with a message in its hand.
HandsMatch == \A w \in Workers : (pc[w] = "handle") <=> (hand[w] # NoMsg)

\* The queue implements the abstract one: every message goes to one worker, in
\* the order of the adds, whatever the lock, the signals and the sleepers do.
Abstract == INSTANCE WorkQueue WITH pending <- queue, inHand <- hand
ImplementsWorkQueue == Abstract!Spec

\* A message added while a worker is parked is taken without any further help:
\* the signal that follows the add reaches that worker, or another message's
\* signal already has (the wake-up path of ChatServerServer.java 196-203).
CommitWakesSleeper ==
    \A m \in Msgs :
        (Queued(m) /\ Waiting # {} /\ \E p \in Producers : pc[p] = "lock")
            ~> ~ Queued(m)

\* A message that lost its wake-up (added between the poll and the await of
\* ChatServerServer.java 530-535) is not lost for good: as long as producers
\* keep committing, it is taken.  Without the premise this is false.
NextCommitRescues ==
    ([]<><<\E p \in Producers, m \in Msgs : Add(p, m)>>_vars)
        => \A m \in Msgs : Queued(m) ~> ~ Queued(m)

\* A worker that still handles a message has a try left (line 544): what the
\* bound on tries in TypeOK needs to be inductive.
CanTry == \A w \in Workers : pc[w] = "handle" => tries[w] < Retry

\* The inductive invariant the proofs in ServerWorkQueueProofs rest on.
IInv == TypeOK /\ CanTry /\ LockInv /\ HandsMatch /\ HeldOnce
=============================================================================
