--------------------------- MODULE ClientRegistry ---------------------------
(***************************************************************************)
(* The server's table of clients (ChatServerClients.java, Client.java) and *)
(* the threads that use it: 2..4 handler threads log clients in, refresh   *)
(* them and log them out; the monitor thread scans the table and evicts    *)
(* silent clients (ChatServerServerService.monitor).                       *)
(*                                                                         *)
(* Steps are as fine as the shared accesses.  deleteClient, isEmpty,       *)
(* online and isOffline synchronize on Client.class; addClient means to,   *)
(* but its local variable c hides the field c, so it synchronizes on the   *)
(* new object and its ++count runs beside everybody else's updates.        *)
(* The entry of the administrator, which refreshAdmin renews at the start  *)
(* of every pass and which is never counted or evicted, is left out.       *)
(***************************************************************************)
EXTENDS Integers, FiniteSets

CONSTANTS Handlers,      \* the handler threads
          Monitor,       \* the monitor thread
          NoThread,      \* "Client.class is not locked"
          MaxNow,        \* bound: milliseconds in which logins happen
          RandomIds,     \* the ids Math.random may give (line 35)
          MaxLogins,     \* bound: Client objects ever created
          MaxLoseTimes   \* MAX_LOSE_TIMES, 3 in the code

ASSUME ThreadAssumption == /\ Monitor \notin Handlers
                           /\ NoThread \notin Handlers \cup {Monitor}
                           /\ IsFiniteSet(Handlers)
ASSUME BoundAssumption  == /\ MaxNow \in Nat \ {0}
                           /\ MaxLogins \in Nat
                           /\ MaxLoseTimes \in Nat \ {0}
                           /\ RandomIds \subseteq Nat \ 0..MaxNow

Threads == Handlers \cup {Monitor}
Ids     == (1..MaxNow) \cup RandomIds
Objs    == 1..MaxLogins

VARIABLES now,       \* System.currentTimeMillis()
          clients,   \* the ConcurrentHashMap: id -> Client object
          count,     \* the field count
          lock,      \* who holds Client.class across two steps
          created,   \* how many Client objects exist
          misses,    \* Client.count of each object
          stale,     \* is Client.last ten or more seconds old
          pc,        \* where each thread is
          id,        \* each thread's local id
          obj,       \* each thread's local Client reference
          read,      \* the value of count a ++ or -- has read
          told,      \* ids that were sent to a client
          toScan,    \* the ids the monitor's iterator has not visited
          removeList,\* ids of the clients the monitor saw offline in this pass
          farewells  \* departures announced, per object

vars == <<now, clients, count, lock, created, misses, stale, pc, id, obj, read, told,
          toScan, removeList, farewells>>

table   == <<clients, count, lock>>
objects == <<created, misses, stale, farewells>>
monitor == <<toScan, removeList>>
locals  == <<id, obj, read>>

exist(i) == i \in DOMAIN clients
Free     == lock = NoThread

Init == /\ now = 1
        /\ clients = << >>
        /\ count = 0
        /\ lock = NoThread
        /\ created = 0
        /\ misses = [o \in Objs |-> 0]
        /\ stale = [o \in Objs |-> TRUE]        \* last is -1 at first
        /\ pc = [t \in Threads |-> "idle"]
        /\ id = [t \in Threads |-> 0]
        /\ obj = [t \in Threads |-> 0]
        /\ read = [t \in Threads |-> 0]
        /\ told = {}
        /\ toScan = {}
        /\ removeList = {}
        /\ farewells = [o \in Objs |-> 0]

Goto(t, place) == pc' = [pc EXCEPT ![t] = place]

\* The operation is over and its locals are gone.
Return(t) == /\ Goto(t, "idle")
             /\ id' = [id EXCEPT ![t] = 0]
             /\ obj' = [obj EXCEPT ![t] = 0]
             /\ read' = [read EXCEPT ![t] = 0]

---------------------------------------------------------------------------
(* Time.                                                                   *)

Tick == /\ now < MaxNow
        /\ now' = now + 1
        /\ UNCHANGED <<table, objects, monitor, locals, pc, told>>

Listed(o) == \E i \in DOMAIN clients : clients[i] = o

\* Ten seconds pass without a datagram from this client.  Of an object that has
\* left the table nobody asks any more.
Silence(o) == /\ Listed(o)
              /\ ~ stale[o]
              /\ stale' = [stale EXCEPT ![o] = TRUE]
              /\ UNCHANGED <<now, table, created, misses, farewells, monitor, locals, pc, told>>

---------------------------------------------------------------------------
(* addClient: choose an id that is not in the table, put, then count.      *)

AddChoose(h) ==
    /\ pc[h] = "idle"
    /\ created + Cardinality({g \in Handlers : pc[g] = "put"}) < MaxLogins
    /\ \E i \in IF exist(now) THEN RandomIds \ DOMAIN clients ELSE {now} :
          id' = [id EXCEPT ![h] = i]
    /\ Goto(h, "put")
    /\ UNCHANGED <<now, table, objects, monitor, obj, read, told>>

AddPut(h) ==
    LET o == created + 1 IN
    /\ pc[h] = "put"
    /\ created' = o
    /\ clients' = [i \in DOMAIN clients \cup {id[h]} |->
                      IF i = id[h] THEN o ELSE clients[i]]
    /\ obj' = [obj EXCEPT ![h] = o]
    /\ Goto(h, "check")
    /\ UNCHANGED <<now, count, lock, misses, stale, farewells, monitor, id, read, told>>

\* if (exist(id)) ++count ...: here the read of the increment.  Otherwise the
\* login is given up, unanswered.
AddRead(h) ==
    /\ pc[h] = "check"
    /\ \/ /\ exist(id[h])
          /\ read' = [read EXCEPT ![h] = count]
          /\ Goto(h, "increment")
          /\ UNCHANGED <<id, obj>>
       \/ /\ ~ exist(id[h])
          /\ Return(h)
    /\ UNCHANGED <<now, table, objects, monitor, told>>

\* ... and its write; the client is answered with its id.
AddWrite(h) ==
    /\ pc[h] = "increment"
    /\ count' = read[h] + 1
    /\ told' = told \cup {id[h]}
    /\ Return(h)
    /\ UNCHANGED <<now, clients, lock, objects, monitor>>

---------------------------------------------------------------------------
(* refreshClient: every message of a logged-in client passes through it.   *)

\* get(id); a client only sends an id it was told.  An unknown id is answered
\* with a LOGOUT and changes nothing here.
RefreshGet(h, i, next) ==
    /\ pc[h] = "idle"
    /\ i \in told
    /\ exist(i)
    /\ id' = [id EXCEPT ![h] = i]
    /\ obj' = [obj EXCEPT ![h] = clients[i]]
    /\ Goto(h, next)
    /\ UNCHANGED <<now, table, objects, monitor, read, told>>

\* Mutant: online() renews last and forgets the misses.
MutRefreshOnline(h) ==
    /\ pc[h] \in {"refresh", "logout"}
    /\ Free
    /\ stale' = [stale EXCEPT ![obj[h]] = FALSE]
    /\ \/ pc[h] = "refresh" /\ Return(h)
       \/ pc[h] = "logout" /\ Goto(h, "delete") /\ UNCHANGED locals
    /\ UNCHANGED <<now, table, created, misses, farewells, monitor, told>>

\* online(): the object may have left the table since the get.
RefreshOnline(h) ==
    /\ pc[h] \in {"refresh", "logout"}
    /\ Free
    /\ misses' = [misses EXCEPT ![obj[h]] = 0]
    /\ stale' = [stale EXCEPT ![obj[h]] = FALSE]
    /\ \/ pc[h] = "refresh" /\ Return(h)
       \/ pc[h] = "logout" /\ Goto(h, "delete") /\ UNCHANGED locals
    /\ UNCHANGED <<now, table, created, farewells, monitor, told>>

---------------------------------------------------------------------------
(* deleteClient, by a handler (LOGOUT) or by the monitor (eviction).  Its  *)
(* remove and --count are one synchronized block.                          *)

AfterDelete(t) == \/ t # Monitor /\ Return(t)
                  \/ t = Monitor /\ Goto(t, "evict")
                                 /\ read' = [read EXCEPT ![t] = 0]
                                 /\ UNCHANGED <<id, obj>>

\* Mutant: the client got before is announced, removed just now or not.
MutRemove(t, i) ==
    LET o == IF exist(i) THEN clients[i] ELSE obj[t] IN
    /\ Free
    /\ clients' = [j \in DOMAIN clients \ {i} |-> clients[j]]
    /\ farewells' = IF o = 0 THEN farewells ELSE [farewells EXCEPT ![o] = @ + 1]
    /\ read' = [read EXCEPT ![t] = count]
    /\ lock' = t
    /\ Goto(t, "decrement")
    /\ UNCHANGED <<id, obj>>

\* Mutant: --count whether or not there was something to remove.
MutRemoveCounts(t, i) ==
    /\ Free
    /\ clients' = [j \in DOMAIN clients \ {i} |-> clients[j]]
    /\ farewells' = IF exist(i) THEN [farewells EXCEPT ![clients[i]] = @ + 1] ELSE farewells
    /\ read' = [read EXCEPT ![t] = count]
    /\ lock' = t
    /\ Goto(t, "decrement")
    /\ UNCHANGED <<id, obj>>

\* remove(id): null when another thread has removed it before.
Remove(t, i) ==
    /\ Free
    /\ \/ /\ exist(i)
          /\ clients' = [j \in DOMAIN clients \ {i} |-> clients[j]]
          /\ farewells' = [farewells EXCEPT ![clients[i]] = @ + 1]
          /\ read' = [read EXCEPT ![t] = count]
          /\ lock' = t
          /\ Goto(t, "decrement")
          /\ UNCHANGED <<id, obj>>
       \/ /\ ~ exist(i)
          /\ AfterDelete(t)
          /\ UNCHANGED <<clients, farewells, lock>>

DeleteRemove(h) ==
    /\ pc[h] = "delete"
    /\ Remove(h, id[h])
    /\ UNCHANGED <<now, count, created, misses, stale, monitor, told>>

DeleteWrite(t) ==
    /\ pc[t] = "decrement"
    /\ count' = read[t] - 1
    /\ lock' = NoThread
    /\ AfterDelete(t)
    /\ UNCHANGED <<now, clients, objects, monitor, told>>

---------------------------------------------------------------------------
(* monitor(): every twenty seconds.                                        *)

\* if (db.isEmpty()) return; else iterate over db.values().  The iterator of a
\* ConcurrentHashMap need not show what is put after it was made.
MonitorStart ==
    /\ pc[Monitor] = "idle"
    /\ Free
    /\ count # 0
    /\ toScan' = DOMAIN clients
    /\ removeList' = {}
    /\ Goto(Monitor, "scan")
    /\ UNCHANGED <<now, table, objects, locals, told>>

\* Mutant: the last strike is never given.
MutIsOffline(i) ==
    LET o       == clients[i]
        strikes == IF stale[o] /\ misses[o] < MaxLoseTimes - 1
                   THEN misses[o] + 1 ELSE misses[o]
    IN  /\ misses' = [misses EXCEPT ![o] = strikes]
        /\ removeList' = IF strikes = MaxLoseTimes THEN removeList \cup {i} ELSE removeList

\* Mutant: a silent client gets a strike without end.
MutIsOfflineUnbounded(i) ==
    LET o       == clients[i]
        strikes == IF stale[o] THEN misses[o] + 1 ELSE misses[o]
    IN  /\ misses' = [misses EXCEPT ![o] = strikes]
        /\ removeList' = IF strikes > MaxLoseTimes THEN removeList \cup {i} ELSE removeList

\* isOffline() is a test that counts: a silent client gets a strike by it.
isOffline(i) ==
    LET o       == clients[i]
        strikes == IF stale[o] /\ misses[o] < MaxLoseTimes
                   THEN misses[o] + 1 ELSE misses[o]
    IN  /\ misses' = [misses EXCEPT ![o] = strikes]
        /\ removeList' = IF strikes = MaxLoseTimes THEN removeList \cup {i} ELSE removeList

MonitorScan(i) ==
    /\ pc[Monitor] = "scan"
    /\ i \in toScan
    /\ toScan' = toScan \ {i}
    /\ \/ /\ exist(i)
          /\ Free
          /\ isOffline(i)
       \/ /\ ~ exist(i)
          /\ UNCHANGED <<misses, removeList>>
    /\ UNCHANGED <<now, table, created, stale, farewells, locals, pc, told>>

MonitorScanned ==
    /\ pc[Monitor] = "scan"
    /\ toScan = {}
    /\ Goto(Monitor, "evict")
    /\ UNCHANGED <<now, table, objects, monitor, locals, told>>

\* Every client of the list is deleted by its id, without looking at it again.
MonitorEvict(i) ==
    /\ pc[Monitor] = "evict"
    /\ i \in removeList
    /\ removeList' = removeList \ {i}
    /\ Remove(Monitor, i)
    /\ UNCHANGED <<now, count, created, misses, stale, toScan, told>>

MonitorEnd ==
    /\ pc[Monitor] = "evict"
    /\ removeList = {}
    /\ Goto(Monitor, "idle")
    /\ UNCHANGED <<now, table, objects, monitor, locals, told>>

---------------------------------------------------------------------------
Add(h)     == AddPut(h) \/ AddRead(h) \/ AddWrite(h)
Refresh(h) == \E i \in Ids : RefreshGet(h, i, "refresh")
Logout(h)  == \E i \in Ids : RefreshGet(h, i, "logout")
Finish(h)  == RefreshOnline(h) \/ DeleteRemove(h) \/ DeleteWrite(h)

MonitorPass == \/ MonitorStart
               \/ \E i \in Ids : MonitorScan(i)
               \/ MonitorScanned
               \/ \E i \in Ids : MonitorEvict(i)
               \/ DeleteWrite(Monitor)
               \/ MonitorEnd

Next == \/ Tick
        \/ \E o \in Objs : Silence(o)
        \/ \E h \in Handlers : AddChoose(h) \/ Add(h) \/ Refresh(h) \/ Logout(h) \/ Finish(h)
        \/ MonitorPass

Spec == Init /\ [][Next]_vars

\* Threads that are in an operation finish it, and the monitor thread's loop
\* never stops (its timer is Thread.sleep).  No client has to do anything.
FairSpec == /\ Spec
            /\ \A h \in Handlers : WF_vars(Add(h)) /\ SF_vars(Finish(h))
            /\ SF_vars(MonitorPass)

---------------------------------------------------------------------------
Places == {"idle", "put", "check", "increment", "refresh", "logout", "delete",
           "decrement", "scan", "evict"}

TypeOK ==
    /\ now \in 1..MaxNow
    /\ DOMAIN clients \subseteq Ids
    /\ \A i \in DOMAIN clients : clients[i] \in 1..created
    /\ count \in Int
    /\ lock \in Threads \cup {NoThread}
    /\ created \in 0..MaxLogins
    /\ misses \in [Objs -> 0..MaxLoseTimes]
    /\ stale \in [Objs -> BOOLEAN]
    /\ pc \in [Threads -> Places]
    /\ id \in [Threads -> Ids \cup {0}]
    /\ obj \in [Threads -> 0..created]
    /\ read \in [Threads -> Int]
    /\ told \subseteq Ids
    /\ toScan \subseteq Ids /\ removeList \subseteq Ids
    /\ farewells \in [Objs -> 0..1]

\* A client that was heard of within ten seconds has no strikes, whatever the
\* order of its datagrams and the monitor's passes: a strike is only ever given
\* for silence, and online() takes all of them back (Client.java 31-38, 85-90).
NoStrikeWhileHeard == \A o \in 1..created : misses[o] > 0 => stale[o]

\* One login, one departure: when a LOGOUT and an eviction of the same client
\* race, only one of them gets the client from the table and announces it
\* (ChatServerServerService.java 82-92 and 120-127), and what departed is gone.
OneDeparture ==
    \A o \in 1..created :
        farewells[o] > 0 => /\ farewells[o] = 1
                            /\ ~ Listed(o)

\* count, corrected by the operations that are half done, minus the table's size.
Drift == count + Cardinality({h \in Handlers : pc[h] \in {"check", "increment"}})
               - Cardinality({t \in Threads : pc[t] = "decrement"})
               - Cardinality(DOMAIN clients)

\* An increment or decrement overwrites an update made since its read.
LostUpdate == \E t \in Threads : /\ pc[t] \in {"increment", "decrement"}
                                 /\ pc'[t] # pc[t]
                                 /\ read[t] # count

\* Two logins of one millisecond chose the same id and the second put wins.
Overwrite == \E h \in Handlers : pc[h] = "put" /\ pc'[h] # "put" /\ exist(id[h])

\* A client leaves the table before its login has counted it.
GoneBeforeCounted == \E h \in Handlers : pc[h] = "check" /\ pc'[h] = "idle"

\* The count of the clients goes wrong in these three ways and in no other: each
\* path through addClient and deleteClient, early returns included, accounts for
\* exactly the entry it put or removed (ChatServerClients.java 29-50, 118-133).
DriftOnlyByRaces ==
    [][Drift' # Drift => LostUpdate \/ Overwrite \/ GoneBeforeCounted]_vars

\* A silent client is evicted by the passes of the monitor unless it is heard of
\* again - or the count says that nobody is there (lines 108-112 of
\* ChatServerServerService.java return when isEmpty()).
SilentAreEvicted ==
    \A o \in Objs :
        (Listed(o) /\ stale[o]) ~> (~ stale[o] \/ count = 0 \/ ~ Listed(o))

\* "The number of the users there are", as ChatServerClients.java 16 comments on
\* count: with every thread out of the table, count is the table's size.
CountIsSize ==
    (\A t \in Threads : pc[t] = "idle") => count = Cardinality(DOMAIN clients)
=============================================================================
