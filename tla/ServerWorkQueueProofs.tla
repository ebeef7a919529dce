----------------------- MODULE ServerWorkQueueProofs -----------------------
(***************************************************************************)
(* For any number of producers, workers and messages: the types, the lock  *)
(* discipline and the single ownership of messages of ServerWorkQueue, and *)
(* that it implements WorkQueue.                                           *)
(***************************************************************************)
EXTENDS ServerWorkQueue, TLAPS

\* The parts of a sequence after an Append and after a Tail, as the steps of
\* the queue need them.
LEMMA AppendParts ==
    ASSUME NEW S, NEW q \in Seq(S), NEW e \in S
    PROVE  /\ Append(q, e) \in Seq(S)
           /\ Append(q, e) # << >>
           /\ Len(Append(q, e)) = Len(q) + 1
           /\ \A i \in 1..Len(q) : Append(q, e)[i] = q[i]
           /\ Append(q, e)[Len(q) + 1] = e
OBVIOUS

LEMMA TailParts ==
    ASSUME NEW S, NEW q \in Seq(S), q # << >>
    PROVE  /\ Head(q) \in S
           /\ Head(q) = q[1]
           /\ Tail(q) \in Seq(S)
           /\ Len(q) \in Nat \ {0}
           /\ Len(Tail(q)) = Len(q) - 1
           /\ \A i \in 1..Len(Tail(q)) : Tail(q)[i] = q[i + 1]
OBVIOUS

\* Type correctness: no thread of ChatServerServer reaches a place of another
\* role, and no worker tries a message more often than RETRY_TIMES.
THEOREM TypeCorrect == Spec => []TypeOK
<1> USE ThreadAssumption, MsgAssumption, RetryAssumption
<1> DEFINE Inv == TypeOK /\ CanTry
<1>1. Init => Inv
  BY DEF Init, TypeOK, CanTry, Threads, ProducerAt, WorkerAt
<1>2. Inv /\ [Next]_vars => Inv'
  <2> SUFFICES ASSUME Inv, [Next]_vars PROVE Inv'
    OBVIOUS
  <2> USE DEF TypeOK, CanTry, Threads, ProducerAt, WorkerAt, Goto
  <2>1. ASSUME NEW p \in Producers, NEW m \in Msgs, Add(p, m) PROVE Inv'
    BY <2>1, AppendParts DEF Add
  <2>2. ASSUME NEW p \in Producers, LockToSignal(p) PROVE Inv'
    BY <2>2 DEF LockToSignal
  <2>3. ASSUME NEW p \in Producers, SignalAndUnlock(p) PROVE Inv'
    BY <2>3 DEF SignalAndUnlock, Waiting
  <2>4. ASSUME NEW w \in Workers, PollMsg(w) PROVE Inv'
    BY <2>4, TailParts DEF PollMsg
  <2>5. ASSUME NEW w \in Workers, PollNull(w) PROVE Inv'
    BY <2>5 DEF PollNull
  <2>6. ASSUME NEW w \in Workers, LockToSleep(w) PROVE Inv'
    BY <2>6 DEF LockToSleep
  <2>7. ASSUME NEW w \in Workers, Await(w) PROVE Inv'
    BY <2>7 DEF Await
  <2>8. ASSUME NEW w \in Workers, SpuriousWakeup(w) PROVE Inv'
    BY <2>8 DEF SpuriousWakeup
  <2>9. ASSUME NEW w \in Workers, Relock(w) PROVE Inv'
    BY <2>9 DEF Relock
  <2>10. ASSUME NEW w \in Workers, Unlock(w) PROVE Inv'
    BY <2>10 DEF Unlock
  <2>11. ASSUME NEW w \in Workers, HandleDone(w) PROVE Inv'
    BY <2>11 DEF HandleDone
  <2>12. ASSUME NEW w \in Workers, HandleThrows(w) PROVE Inv'
    <3>1. /\ tries[w] + 1 \in 0..Retry
          /\ \A v \in Workers : tries'[v] = IF v = w THEN tries[w] + 1 ELSE tries[v]
      BY <2>12 DEF HandleThrows
    <3>2. tries' \in [Workers -> 0..Retry]
      BY <2>12, <3>1 DEF HandleThrows
    <3>3. CASE tries[w] + 1 < Retry /\ UNCHANGED <<pc, hand>>
      BY <2>12, <3>1, <3>2, <3>3 DEF HandleThrows
    <3>4. CASE hand' = [hand EXCEPT ![w] = NoMsg] /\ pc' = [pc EXCEPT ![w] = "poll"]
      BY <2>12, <3>1, <3>2, <3>4 DEF HandleThrows
    <3> QED BY <2>12, <3>3, <3>4 DEF HandleThrows
  <2>13. CASE UNCHANGED vars
    BY <2>13 DEF vars
  <2>14. QED
    BY <2>1, <2>2, <2>3, <2>4, <2>5, <2>6, <2>7, <2>8, <2>9, <2>10, <2>11, <2>12, <2>13
       DEF Next, Produce, Work
<1>3. QED BY <1>1, <1>2, PTL DEF Spec

\* Lock discipline: in every state the lock is held by exactly the thread whose
\* code is between lock() and unlock() or await(), so at most one thread signals
\* or parks at a time and no path leaves the lock held.
THEOREM LockSafety == Spec => []LockInv
<1> USE ThreadAssumption
<1>1. Init => LockInv
  BY DEF Init, LockInv, InLock, Threads
<1>2. TypeOK /\ LockInv /\ [Next]_vars => LockInv'
  <2> SUFFICES ASSUME TypeOK, LockInv, [Next]_vars PROVE LockInv'
    OBVIOUS
  <2> USE DEF TypeOK, LockInv, InLock, Threads, ProducerAt, WorkerAt, Goto
  <2>1. ASSUME NEW p \in Producers, NEW m \in Msgs, Add(p, m) PROVE LockInv'
    BY <2>1 DEF Add
  <2>2. ASSUME NEW p \in Producers, LockToSignal(p) PROVE LockInv'
    BY <2>2 DEF LockToSignal
  <2>3. ASSUME NEW p \in Producers, SignalAndUnlock(p) PROVE LockInv'
    BY <2>3 DEF SignalAndUnlock, Waiting
  <2>4. ASSUME NEW w \in Workers, PollMsg(w) \/ PollNull(w) PROVE LockInv'
    BY <2>4 DEF PollMsg, PollNull
  <2>5. ASSUME NEW w \in Workers, LockToSleep(w) PROVE LockInv'
    BY <2>5 DEF LockToSleep
  <2>6. ASSUME NEW w \in Workers, Await(w) PROVE LockInv'
    BY <2>6 DEF Await
  <2>7. ASSUME NEW w \in Workers, SpuriousWakeup(w) PROVE LockInv'
    BY <2>7 DEF SpuriousWakeup
  <2>8. ASSUME NEW w \in Workers, Relock(w) PROVE LockInv'
    BY <2>8 DEF Relock
  <2>9. ASSUME NEW w \in Workers, Unlock(w) PROVE LockInv'
    BY <2>9 DEF Unlock
  <2>10. ASSUME NEW w \in Workers, HandleDone(w) PROVE LockInv'
    BY <2>10 DEF HandleDone
  <2>11. ASSUME NEW w \in Workers, HandleThrows(w) PROVE LockInv'
    BY <2>11 DEF HandleThrows
  <2>12. CASE UNCHANGED vars
    BY <2>12 DEF vars
  <2>13. QED
    BY <2>1, <2>2, <2>3, <2>4, <2>5, <2>6, <2>7, <2>8, <2>9, <2>10, <2>11, <2>12
       DEF Next, Produce, Work
<1>3. QED BY <1>1, <1>2, TypeCorrect, PTL DEF Spec

\* A worker's hands and its place in the loop agree.
LEMMA HandsInv == Spec => []HandsMatch
<1> USE ThreadAssumption, MsgAssumption
<1>1. Init => HandsMatch
  BY DEF Init, HandsMatch, Threads
<1>2. TypeOK /\ HandsMatch /\ [Next]_vars => HandsMatch'
  <2> SUFFICES ASSUME TypeOK, HandsMatch, [Next]_vars PROVE HandsMatch'
    OBVIOUS
  <2> USE DEF TypeOK, HandsMatch, Threads, ProducerAt, WorkerAt, Goto
  <2>1. ASSUME NEW p \in Producers, Produce(p) PROVE HandsMatch'
    BY <2>1 DEF Produce, Add, LockToSignal, SignalAndUnlock, Waiting
  <2>2. ASSUME NEW w \in Workers, PollMsg(w) PROVE HandsMatch'
    BY <2>2, TailParts DEF PollMsg
  <2>3. ASSUME NEW w \in Workers,
               PollNull(w) \/ LockToSleep(w) \/ Await(w) \/ SpuriousWakeup(w)
               \/ Relock(w) \/ Unlock(w)
        PROVE  HandsMatch'
    BY <2>3 DEF PollNull, LockToSleep, Await, SpuriousWakeup, Relock, Unlock
  <2>4. ASSUME NEW w \in Workers, HandleDone(w) PROVE HandsMatch'
    BY <2>4 DEF HandleDone
  <2>5. ASSUME NEW w \in Workers, HandleThrows(w) PROVE HandsMatch'
    BY <2>5 DEF HandleThrows
  <2>6. CASE UNCHANGED vars
    BY <2>6 DEF vars
  <2>7. QED BY <2>1, <2>2, <2>3, <2>4, <2>5, <2>6 DEF Next, Work
<1>3. QED BY <1>1, <1>2, TypeCorrect, PTL DEF Spec

\* Single ownership: no message is ever queued twice, held by two workers, or
\* held and queued, although polls and adds take no lock.
THEOREM SingleOwner == Spec => []HeldOnce
<1> USE MsgAssumption
<1>1. Init => HeldOnce
  BY DEF Init, HeldOnce
<1>2. TypeOK /\ HandsMatch /\ HeldOnce /\ [Next]_vars => HeldOnce'
  <2> SUFFICES ASSUME TypeOK, HandsMatch, HeldOnce, [Next]_vars PROVE HeldOnce'
    OBVIOUS
  <2> USE DEF HeldOnce, Queued
  <2>1. ASSUME NEW p \in Producers, NEW m \in Msgs, Add(p, m) PROVE HeldOnce'
    <3>1. /\ queue \in Seq(Msgs)
          /\ queue' = Append(queue, m)
          /\ hand' = hand
          /\ \A i \in 1..Len(queue) : queue[i] # m
          /\ \A w \in Workers : hand[w] # m
      BY <2>1 DEF Add, Present, TypeOK
    <3>2. /\ Len(queue') = Len(queue) + 1
          /\ \A i \in 1..Len(queue) : queue'[i] = queue[i]
          /\ queue'[Len(queue) + 1] = m
          /\ Len(queue) \in Nat
      BY <3>1, AppendParts
    <3>3. \A i \in 1..Len(queue') : i \in 1..Len(queue) \/ i = Len(queue) + 1
      BY <3>2
    <3>4. QED BY <3>1, <3>2, <3>3
  <2>2. ASSUME NEW w \in Workers, PollMsg(w) PROVE HeldOnce'
    <3>1. /\ queue \in Seq(Msgs) /\ queue # << >>
          /\ queue' = Tail(queue)
          /\ hand \in [Workers -> Msgs \cup {NoMsg}]
          /\ hand' = [hand EXCEPT ![w] = Head(queue)]
      BY <2>2 DEF PollMsg, TypeOK
    <3>2. /\ Head(queue) = queue[1]
          /\ Len(queue) \in Nat \ {0}
          /\ Len(queue') = Len(queue) - 1
          /\ \A i \in 1..Len(queue') : queue'[i] = queue[i + 1]
      BY <3>1, TailParts
    <3>3. \A i \in 1..Len(queue') : i + 1 \in 1..Len(queue) /\ i + 1 # 1
      BY <3>2
    <3>4. \A i \in 1..Len(queue') : queue'[i] # Head(queue)
      BY <3>2, <3>3
    <3>5. \A v \in Workers : hand[v] # Head(queue)
      BY <3>1, <3>2, TailParts
    <3>6. \A i, j \in 1..Len(queue') : (queue'[i] = queue'[j]) => (i = j)
      BY <3>2, <3>3
    <3>7. \A v \in Workers : hand'[v] = IF v = w THEN Head(queue) ELSE hand[v]
      BY <3>1
    <3>8. \A v \in Workers :
             hand'[v] # NoMsg => ~ \E i \in 1..Len(queue') : queue'[i] = hand'[v]
      BY <3>2, <3>3, <3>4, <3>7
    <3>9. \A u, v \in Workers : (hand'[u] # NoMsg /\ hand'[u] = hand'[v]) => (u = v)
      BY <3>5, <3>7
    <3>10. QED BY <3>6, <3>8, <3>9
  <2>3. ASSUME NEW w \in Workers, HandleDone(w) \/ HandleThrows(w) PROVE HeldOnce'
    BY <2>3 DEF HandleDone, HandleThrows, TypeOK
  <2>4. ASSUME UNCHANGED <<queue, hand>> PROVE HeldOnce'
    BY <2>4
  <2>5. QED
    BY <2>1, <2>2, <2>3, <2>4
       DEF Next, Produce, Work, LockToSignal, SignalAndUnlock, PollNull, LockToSleep,
           Await, SpuriousWakeup, Relock, Unlock, vars
<1>3. QED BY <1>1, <1>2, TypeCorrect, HandsInv, PTL DEF Spec

\* The queue with its lock, condition, sleepers and retries implements the
\* abstract queue: adds are puts, polls that return a message are takes, the
\* end of the tries finishes, and every other step is invisible.
THEOREM Refinement == Spec => ImplementsWorkQueue
<1>1. Init => Abstract!Init
  BY DEF Init, Abstract!Init
<1>2. TypeOK /\ HandsMatch /\ [Next]_vars => [Abstract!Next]_<<queue, hand>>
  <2> SUFFICES ASSUME TypeOK, HandsMatch, [Next]_vars
               PROVE  [Abstract!Next]_<<queue, hand>>
    OBVIOUS
  <2>1. ASSUME NEW p \in Producers, NEW m \in Msgs, Add(p, m)
        PROVE  Abstract!Put(m)
    BY <2>1 DEF Add, Present, Queued, Abstract!Put, Abstract!Present
  <2>2. ASSUME NEW w \in Workers, PollMsg(w) PROVE Abstract!Take(w)
    BY <2>2 DEF PollMsg, HandsMatch, Abstract!Take
  <2>3. ASSUME NEW w \in Workers, HandleDone(w) PROVE Abstract!Finish(w)
    BY <2>3 DEF HandleDone, HandsMatch, Abstract!Finish
  <2>4. ASSUME NEW w \in Workers, HandleThrows(w)
        PROVE  Abstract!Finish(w) \/ UNCHANGED <<queue, hand>>
    BY <2>4 DEF HandleThrows, HandsMatch, Abstract!Finish
  <2>5. QED
    BY <2>1, <2>2, <2>3, <2>4
       DEF Next, Produce, Work, LockToSignal, SignalAndUnlock, PollNull, LockToSleep,
           Await, SpuriousWakeup, Relock, Unlock, vars, Abstract!Next
<1>3. QED
  BY <1>1, <1>2, TypeCorrect, HandsInv, PTL
     DEF Spec, ImplementsWorkQueue, Abstract!Spec
=============================================================================
