------------------------ MODULE ClientRegistryProofs ------------------------
(***************************************************************************)
(* For any handlers, milliseconds, ids, logins and number of strikes: the  *)
(* types of ClientRegistry, that strikes are for silence and departures    *)
(* announced once, and that the field count goes wrong in the three named  *)
(* races only.                                                             *)
(***************************************************************************)
EXTENDS ClientRegistry, FiniteSetTheorems, TLAPS

---------------------------------------------------------------------------
(* The parts of the inductive invariant.                                   *)

Putting  == {h \in Handlers : pc[h] = "put"}
Counting == {h \in Handlers : pc[h] \in {"check", "increment"}}
Removing == {t \in Threads : pc[t] = "decrement"}

TableTypes  == /\ now \in 1..MaxNow
               /\ IsFiniteSet(DOMAIN clients)
               /\ DOMAIN clients \subseteq Ids
               /\ \A i \in DOMAIN clients : clients[i] \in 1..created
               /\ count \in Int
               /\ lock \in Threads \cup {NoThread}
               /\ told \subseteq Ids
ObjectTypes == /\ created \in Nat
               /\ misses \in [Objs -> 0..MaxLoseTimes]
               /\ stale \in [Objs -> BOOLEAN]
               /\ farewells \in [Objs -> 0..1]
ThreadTypes == /\ pc \in [Threads -> Places]
               /\ id \in [Threads -> Ids \cup {0}]
               /\ obj \in [Threads -> 0..created]
               /\ read \in [Threads -> Int]
               /\ toScan \subseteq Ids
               /\ removeList \subseteq Ids
\* A thread has the locals that the rest of its operation uses.
RoleInv     == /\ pc[Monitor] \in {"idle", "scan", "evict", "decrement"}
               /\ \A h \in Handlers : /\ pc[h] \in {"put", "check", "increment"} => id[h] \in Ids
                                      /\ pc[h] \in {"refresh", "logout"} => obj[h] \in 1..created
\* The logins that have chosen an id have an object each that they will put.
CreatedInv  == created + Cardinality(Putting) <= MaxLogins
\* An object is in the table once, and only as long as its departure is not announced; who
\* is not created has not departed.
DepartInv   == /\ \A i, j \in DOMAIN clients : clients[i] = clients[j] => i = j
               /\ \A i \in DOMAIN clients : farewells[clients[i]] = 0
               /\ \A o \in Objs : o > created => farewells[o] = 0
StrikeInv   == \A o \in Objs : misses[o] > 0 => stale[o]

TypeInv == TableTypes /\ ObjectTypes /\ ThreadTypes /\ RoleInv /\ CreatedInv
IInv    == TypeInv /\ DepartInv /\ StrikeInv

---------------------------------------------------------------------------
(* Lemmas about sets and about the places of the threads.                  *)

LEMMA ThreadsFinite == /\ IsFiniteSet(Threads) /\ IsFiniteSet(Putting)
                       /\ IsFiniteSet(Counting) /\ IsFiniteSet(Removing)
<1>1. IsFiniteSet(Threads)
  BY ThreadAssumption, FS_AddElement DEF Threads
<1>2. Putting \in SUBSET Handlers /\ Counting \in SUBSET Handlers /\ Removing \in SUBSET Threads
  BY DEF Putting, Counting, Removing
<1> QED BY <1>1, <1>2, FS_Subset, ThreadAssumption

N(b) == IF b THEN 1 ELSE 0

\* Two sets that differ in one element at most.
LEMMA SetShift ==
    ASSUME NEW S, NEW T, NEW x, IsFiniteSet(S), S \ {x} = T \ {x}
    PROVE  /\ IsFiniteSet(T) /\ Cardinality(S) \in Nat
           /\ Cardinality(T) = Cardinality(S) + N(x \in T) - N(x \in S)
<1> DEFINE R == S \ {x}
<1>1. /\ IsFiniteSet(R) /\ Cardinality(R) \in Nat /\ Cardinality(S) \in Nat
      /\ Cardinality(R) = Cardinality(S) - N(x \in S)
  BY FS_RemoveElement, FS_CardinalityType DEF N
<1>2. IsFiniteSet(R \cup {x}) /\ Cardinality(R \cup {x}) = Cardinality(R) + 1
  <2>1. x \notin R
    OBVIOUS
  <2> HIDE DEF R
  <2> QED BY <1>1, <2>1, FS_AddElement
<1>3. (x \in T => T = R \cup {x}) /\ (x \notin T => T = R)
  OBVIOUS
<1>4. CASE x \in T
  <2>1. N(x \in T) = 1 /\ N(x \in S) \in {0, 1}
    BY <1>4 DEF N
  <2> HIDE DEF R
  <2>2. IsFiniteSet(T) /\ Cardinality(T) = Cardinality(R) + 1
    BY <1>2, <1>3, <1>4
  <2> QED BY <1>1, <2>1, <2>2
<1>5. CASE x \notin T
  <2>1. N(x \in T) = 0 /\ N(x \in S) \in {0, 1}
    BY <1>5 DEF N
  <2> HIDE DEF R
  <2> QED BY <1>1, <1>3, <1>5, <2>1
<1> QED BY <1>4, <1>5

\* The thread t, and no other, goes from one place to another.
Moves(t, from, to) == /\ pc[t] = from /\ pc'[t] = to
                      /\ pc' \in [Threads -> Places]
                      /\ \A u \in Threads \ {t} : pc'[u] = pc[u]

LEMMA GotoMoves ==
    ASSUME ThreadTypes, NEW t \in Threads, NEW to \in Places, Goto(t, to)
    PROVE  Moves(t, pc[t], to)
BY DEF Goto, ThreadTypes, Moves

LEMMA ReturnMoves ==
    ASSUME ThreadTypes, created \in Nat, NEW t \in Threads, Return(t)
    PROVE  /\ Moves(t, pc[t], "idle")
           /\ id' \in [Threads -> Ids \cup {0}] /\ \A u \in Threads \ {t} : id'[u] = id[u]
           /\ obj' \in [Threads -> 0..created] /\ \A u \in Threads \ {t} : obj'[u] = obj[u]
           /\ read' \in [Threads -> Int]
<1>1. Moves(t, pc[t], "idle")
  BY GotoMoves DEF Return, Places
<1>2. 0 \in 0..created
  OBVIOUS
<1> QED BY <1>1, <1>2 DEF Return, ThreadTypes

\* What the three sets gain and lose by a move.
LEMMA Tallies ==
    ASSUME ThreadTypes, NEW t \in Threads, NEW from, NEW to, Moves(t, from, to)
    PROVE  /\ Cardinality(Putting) \in Nat /\ Cardinality(Putting') \in Nat
           /\ Cardinality(Counting) \in Nat
           /\ Cardinality(Removing) \in Nat
           /\ t \notin Handlers => Putting' = Putting /\ Counting' = Counting
           /\ t \in Handlers =>
                 /\ Cardinality(Putting') = Cardinality(Putting) + N(to = "put") - N(from = "put")
                 /\ Cardinality(Counting') = Cardinality(Counting)
                       + N(to \in {"check", "increment"}) - N(from \in {"check", "increment"})
           /\ Cardinality(Removing') = Cardinality(Removing)
                 + N(to = "decrement") - N(from = "decrement")
<1>1. Handlers \subseteq Threads
  BY DEF Threads
<1>2. /\ Putting \ {t} = Putting' \ {t}
      /\ Counting \ {t} = Counting' \ {t}
      /\ Removing \ {t} = Removing' \ {t}
  BY <1>1 DEF Moves, Putting, Counting, Removing
<1>3. /\ t \in Handlers => /\ t \in Putting <=> from = "put"
                           /\ t \in Putting' <=> to = "put"
                           /\ t \in Counting <=> from \in {"check", "increment"}
                           /\ t \in Counting' <=> to \in {"check", "increment"}
      /\ t \in Removing <=> from = "decrement"
      /\ t \in Removing' <=> to = "decrement"
      /\ t \notin Handlers => /\ t \notin Putting /\ t \notin Putting'
                              /\ t \notin Counting /\ t \notin Counting'
  BY <1>1 DEF Moves, Putting, Counting, Removing
<1>4. Cardinality(Putting) \in Nat /\ Cardinality(Putting') \in Nat
      /\ Cardinality(Putting') = Cardinality(Putting) + N(t \in Putting') - N(t \in Putting)
  BY <1>2, ThreadsFinite, SetShift, FS_CardinalityType
<1>5. Cardinality(Counting) \in Nat
      /\ Cardinality(Counting') = Cardinality(Counting) + N(t \in Counting') - N(t \in Counting)
  BY <1>2, ThreadsFinite, SetShift
<1>6. Cardinality(Removing) \in Nat
      /\ Cardinality(Removing') = Cardinality(Removing) + N(t \in Removing') - N(t \in Removing)
  BY <1>2, ThreadsFinite, SetShift
<1>7. t \notin Handlers => Putting' = Putting /\ Counting' = Counting
  BY <1>2, <1>3
<1> HIDE DEF Putting, Counting, Removing
<1> QED BY <1>3, <1>4, <1>5, <1>6, <1>7 DEF N

---------------------------------------------------------------------------
(* The invariant.                                                          *)

LEMMA InvInit == Init => IInv
<1> SUFFICES ASSUME Init PROVE IInv
  OBVIOUS
<1> USE ThreadAssumption, BoundAssumption DEF Init
<1>1. DOMAIN clients = {} /\ IsFiniteSet(DOMAIN clients)
  BY FS_EmptySet
<1>2. Putting = {} /\ Cardinality(Putting) = 0
  <2>1. Putting = {}
    BY DEF Putting, Threads
  <2> QED BY <2>1, FS_EmptySet
<1>3. TableTypes
  BY <1>1 DEF TableTypes
<1>4. ObjectTypes /\ ThreadTypes /\ RoleInv
  BY DEF ObjectTypes, ThreadTypes, RoleInv, Threads, Places
<1>5. CreatedInv
  BY <1>2 DEF CreatedInv
<1>6. DepartInv /\ StrikeInv
  BY <1>1 DEF DepartInv, StrikeInv
<1> QED BY <1>3, <1>4, <1>5, <1>6 DEF IInv, TypeInv

\* A thread that moves on, with other locals perhaps, where nothing is created.
LEMMA MoveTypes ==
    ASSUME TypeInv, NEW t \in Threads, NEW from, NEW to, Moves(t, from, to), created' = created,
           to = "put" => t \in Handlers /\ created + Cardinality(Putting) < MaxLogins,
           to \in {"put", "check", "increment"} => id'[t] \in Ids,
           t = Monitor => to \in {"idle", "scan", "evict", "decrement"},
           to \in {"refresh", "logout"} => obj'[t] \in 1..created,
           id' \in [Threads -> Ids \cup {0}], \A u \in Threads \ {t} : id'[u] = id[u],
           obj' \in [Threads -> 0..created], \A u \in Threads \ {t} : obj'[u] = obj[u],
           read' \in [Threads -> Int], toScan' \subseteq Ids, removeList' \subseteq Ids
    PROVE  ThreadTypes' /\ RoleInv' /\ CreatedInv'
<1>1. Monitor \in Threads /\ Handlers \subseteq Threads /\ Monitor \notin Handlers
  BY ThreadAssumption DEF Threads
<1>2. ThreadTypes'
  BY DEF ThreadTypes, Moves
<1>3. RoleInv'
  BY <1>1 DEF TypeInv, RoleInv, Moves
<1>4. CreatedInv'
  <2>1. ThreadTypes /\ CreatedInv /\ created \in Nat /\ MaxLogins \in Nat
    BY BoundAssumption DEF TypeInv, ObjectTypes
  <2>2. Cardinality(Putting') <= Cardinality(Putting) + N(to = "put")
    BY <2>1, Tallies DEF N
  <2>3. Cardinality(Putting) \in Nat /\ Cardinality(Putting') \in Nat
    BY <2>1, Tallies
  <2> QED BY <2>1, <2>2, <2>3 DEF CreatedInv, N
<1> QED BY <1>2, <1>3, <1>4

\* A removal, or the finding that there is nothing to remove.
LEMMA Removes ==
    ASSUME IInv, NEW t \in Threads, NEW i, Remove(t, i), created' = created,
           pc[t] = IF t = Monitor THEN "evict" ELSE "delete"
    PROVE  /\ \/ /\ exist(i) /\ DOMAIN clients' = DOMAIN clients \ {i}
                 /\ \A j \in DOMAIN clients' : clients'[j] = clients[j]
                 /\ farewells' = [farewells EXCEPT ![clients[i]] = 1]
                 /\ Moves(t, pc[t], "decrement") /\ lock' = t
              \/ /\ UNCHANGED <<clients, farewells, lock>>
                 /\ \E to \in {"idle", "evict"} : Moves(t, pc[t], to)
           /\ toScan' \subseteq Ids /\ removeList' \subseteq Ids =>
                 ThreadTypes' /\ RoleInv' /\ CreatedInv'
<1>1. /\ ThreadTypes /\ TypeInv /\ TableTypes /\ DepartInv /\ ObjectTypes
      /\ Monitor \in Threads /\ created \in Nat
  BY DEF IInv, TypeInv, ObjectTypes, Threads
<1>2. CASE exist(i)
  <2>1. /\ clients[i] \in Objs /\ farewells[clients[i]] = 0 /\ count \in Int
        /\ clients' = [j \in DOMAIN clients \ {i} |-> clients[j]]
        /\ farewells' = [farewells EXCEPT ![clients[i]] = @ + 1]
        /\ Moves(t, pc[t], "decrement") /\ lock' = t
        /\ read' = [read EXCEPT ![t] = count] /\ UNCHANGED <<id, obj>>
    <3>1. created <= MaxLogins
      BY <1>1, ThreadsFinite, FS_CardinalityType, BoundAssumption DEF TypeInv, CreatedInv
    <3> QED BY <1>1, <1>2, <3>1, GotoMoves, BoundAssumption
            DEF Remove, TableTypes, DepartInv, exist, Objs, Places
  <2>2. read' \in [Threads -> Int]
    BY <1>1, <2>1 DEF ThreadTypes
  <2>3. toScan' \subseteq Ids /\ removeList' \subseteq Ids => ThreadTypes' /\ RoleInv' /\ CreatedInv'
    BY <1>1, <2>1, <2>2, MoveTypes DEF ThreadTypes
  <2>4. farewells' = [farewells EXCEPT ![clients[i]] = 1]
    BY <1>1, <2>1 DEF ObjectTypes
  <2> QED BY <1>2, <2>1, <2>3, <2>4
<1>3. CASE ~ exist(i)
  <2>1. UNCHANGED <<clients, farewells, lock>> /\ AfterDelete(t)
    BY <1>3 DEF Remove
  <2>2. PICK to \in {"idle", "evict"} :
            /\ Moves(t, pc[t], to) /\ (t = Monitor => to = "evict")
            /\ id' \in [Threads -> Ids \cup {0}] /\ \A u \in Threads \ {t} : id'[u] = id[u]
            /\ obj' \in [Threads -> 0..created] /\ \A u \in Threads \ {t} : obj'[u] = obj[u]
            /\ read' \in [Threads -> Int]
    <3>1. CASE t # Monitor
      BY <1>1, <2>1, <3>1, ReturnMoves DEF AfterDelete
    <3>2. CASE t = Monitor
      BY <1>1, <2>1, <3>2, GotoMoves DEF AfterDelete, ThreadTypes, Places
    <3> QED BY <3>1, <3>2
  <2>3. toScan' \subseteq Ids /\ removeList' \subseteq Ids => ThreadTypes' /\ RoleInv' /\ CreatedInv'
    BY <1>1, <2>2, MoveTypes
  <2> QED BY <2>1, <2>2, <2>3
<1> QED BY <1>2, <1>3

LEMMA RemoveInv ==
    ASSUME IInv, NEW t \in Threads, NEW i, Remove(t, i),
           UNCHANGED <<now, count, created, misses, stale, told>>,
           pc[t] = IF t = Monitor THEN "evict" ELSE "delete",
           toScan' \subseteq Ids, removeList' \subseteq Ids
    PROVE  IInv'
<1>1. ThreadTypes' /\ RoleInv' /\ CreatedInv' /\ StrikeInv'
  BY Removes DEF IInv, StrikeInv
<1>2. TableTypes /\ ObjectTypes /\ DepartInv
  BY DEF IInv, TypeInv
<1>3. CASE UNCHANGED <<clients, farewells, lock>>
  BY <1>1, <1>2, <1>3 DEF IInv, TypeInv, TableTypes, ObjectTypes, DepartInv
<1>4. CASE /\ exist(i) /\ DOMAIN clients' = DOMAIN clients \ {i}
           /\ \A j \in DOMAIN clients' : clients'[j] = clients[j]
           /\ farewells' = [farewells EXCEPT ![clients[i]] = 1]
           /\ lock' = t
  <2>1. IsFiniteSet(DOMAIN clients')
    BY <1>2, <1>4, FS_RemoveElement DEF TableTypes
  <2>2. TableTypes'
    BY <1>2, <1>4, <2>1 DEF TableTypes
  <2>3. ObjectTypes'
    <3>1. 1 \in 0..1 /\ farewells \in [Objs -> 0..1]
      BY <1>2 DEF ObjectTypes
    <3>2. farewells' \in [Objs -> 0..1]
      BY <1>4, <3>1
    <3> QED BY <1>2, <3>2 DEF ObjectTypes
  <2>4. \A o \in Objs : farewells'[o] = IF o = clients[i] THEN 1 ELSE farewells[o]
    BY <1>2, <1>4 DEF ObjectTypes
  <2>5. created \in Nat /\ created <= MaxLogins /\ MaxLogins \in Nat
    BY ThreadsFinite, FS_CardinalityType, BoundAssumption DEF IInv, TypeInv, CreatedInv, ObjectTypes
  <2>6. \A j \in DOMAIN clients : clients[j] \in Objs /\ clients[j] <= created
    BY <1>2, <2>5 DEF TableTypes, Objs
  <2>7. \A j \in DOMAIN clients' : clients'[j] \in Objs \ {clients[i]} /\ clients'[j] = clients[j]
    BY <1>2, <1>4, <2>6 DEF DepartInv, exist
  <2>8. DepartInv'
    <3>1. \A j, k \in DOMAIN clients' : clients'[j] = clients'[k] => j = k
      BY <1>2, <1>4, <2>7 DEF DepartInv
    <3>2. \A j \in DOMAIN clients' : farewells'[clients'[j]] = 0
      BY <1>2, <1>4, <2>4, <2>7 DEF DepartInv
    <3>3. \A o \in Objs : o > created' => farewells'[o] = 0
      <4>1. clients[i] <= created /\ clients[i] \in Int /\ created' = created
        BY <1>4, <2>6 DEF exist, Objs
      <4>2. \A o \in Objs : o \in Int /\ (o > created => farewells[o] = 0)
        BY <1>2 DEF DepartInv, Objs
      <4> QED BY <2>4, <2>5, <4>1, <4>2
    <3> QED BY <3>1, <3>2, <3>3 DEF DepartInv
  <2> QED BY <1>1, <2>2, <2>3, <2>8 DEF IInv, TypeInv
<1> QED BY <1>3, <1>4, Removes

\* addClient makes a new object of the login, which nobody has seen yet.
LEMMA AddPutInv ==
    ASSUME IInv, NEW h \in Handlers, AddPut(h)
    PROVE  IInv'
<1> DEFINE o == created + 1
<1>1. TableTypes /\ ObjectTypes /\ ThreadTypes /\ DepartInv /\ h \in Threads
  BY DEF IInv, TypeInv, Threads
<1>2. Moves(h, "put", "check")
  BY <1>1, GotoMoves DEF AddPut, Places
<1>3. /\ created \in Nat /\ MaxLogins \in Nat
      /\ Cardinality(Putting') \in Nat /\ Cardinality(Putting) = Cardinality(Putting') + 1
  <2>1. Cardinality(Putting') = Cardinality(Putting) + N("check" = "put") - N("put" = "put")
    BY <1>1, <1>2, Tallies
  <2>2. h \in Putting
    BY <1>2 DEF Putting, Moves
  <2>3. Cardinality(Putting) \in Nat /\ Cardinality(Putting) # 0
    BY <2>2, ThreadsFinite, FS_CardinalityType, FS_EmptySet
  <2> QED BY <1>1, <2>1, <2>3, BoundAssumption DEF N, ObjectTypes
<1>4. created' = o /\ CreatedInv' /\ o \in Objs /\ created <= MaxLogins
  BY <1>3 DEF AddPut, IInv, TypeInv, CreatedInv, Objs
<1>5. /\ id[h] \in Ids
      /\ DOMAIN clients' = DOMAIN clients \cup {id[h]}
      /\ \A i \in DOMAIN clients' : clients'[i] = IF i = id[h] THEN o ELSE clients[i]
      /\ UNCHANGED <<now, count, lock, told, misses, stale, farewells, id, read, monitor>>
      /\ obj' = [obj EXCEPT ![h] = o]
  BY <1>2 DEF AddPut, Moves, IInv, TypeInv, RoleInv
<1>6. IsFiniteSet(DOMAIN clients')
  BY <1>1, <1>5, FS_AddElement DEF TableTypes
<1>7. TableTypes'
  BY <1>1, <1>3, <1>4, <1>5, <1>6 DEF TableTypes
<1>8. ObjectTypes' /\ StrikeInv'
  BY <1>1, <1>3, <1>4, <1>5 DEF ObjectTypes, IInv, StrikeInv
<1>9. ThreadTypes' /\ RoleInv'
  <2>1. obj' \in [Threads -> 0..created'] /\ \A u \in Threads \ {h} : obj'[u] = obj[u]
    BY <1>1, <1>3, <1>4, <1>5 DEF ThreadTypes
  <2>2. ThreadTypes'
    BY <1>1, <1>2, <1>5, <2>1 DEF ThreadTypes, Moves, monitor
  <2>3. RoleInv'
    BY <1>1, <1>2, <1>3, <1>4, <1>5, <2>1, ThreadAssumption
       DEF Moves, IInv, TypeInv, RoleInv, Threads
  <2> QED BY <2>2, <2>3
<1>10. DepartInv'
  <2>1. \A i \in DOMAIN clients : clients[i] \in Objs /\ clients[i] < o
    BY <1>1, <1>3, <1>4 DEF TableTypes, Objs
  <2>2. farewells[o] = 0
    BY <1>1, <1>3, <1>4 DEF DepartInv
  <2>3. \A p \in Objs : p > created' => p > created
    BY <1>3, <1>4 DEF Objs
  <2> QED BY <1>1, <1>4, <1>5, <2>1, <2>2, <2>3 DEF DepartInv
<1> QED BY <1>4, <1>7, <1>8, <1>9, <1>10 DEF IInv, TypeInv

\* The other steps of a handler thread leave the table and the objects as they are.
LEMMA HandlerInv ==
    ASSUME IInv, NEW h \in Handlers,
           AddChoose(h) \/ Add(h) \/ Refresh(h) \/ Logout(h) \/ Finish(h)
    PROVE  IInv'
<1>1. /\ TypeInv /\ TableTypes /\ ObjectTypes /\ ThreadTypes /\ DepartInv /\ StrikeInv
      /\ h \in Threads /\ h # Monitor /\ created \in Nat
      /\ \A j \in 1..created : j \in 0..created
  BY ThreadAssumption DEF IInv, TypeInv, Threads, ObjectTypes
<1>2. CASE AddChoose(h)
  <2>1. Moves(h, "idle", "put") /\ created + Cardinality(Putting) < MaxLogins
    BY <1>1, <1>2, GotoMoves DEF AddChoose, Places, Putting
  <2>2. PICK i \in Ids : id' = [id EXCEPT ![h] = i]
    BY <1>1, <1>2 DEF AddChoose, Ids, TableTypes
  <2>3. UNCHANGED <<now, clients, count, lock, created, misses, stale, farewells, toScan, removeList,
                    obj, read, told>>
    BY <1>2 DEF AddChoose, table, objects, monitor
  <2>4. id' \in [Threads -> Ids \cup {0}] /\ id'[h] \in Ids /\ \A u \in Threads \ {h} : id'[u] = id[u]
    BY <1>1, <2>2 DEF ThreadTypes
  <2>5. ThreadTypes' /\ RoleInv' /\ CreatedInv'
    BY <1>1, <2>1, <2>3, <2>4, MoveTypes DEF ThreadTypes
  <2> QED BY <1>1, <2>3, <2>5
          DEF IInv, TypeInv, TableTypes, ObjectTypes, DepartInv, StrikeInv
<1>3. CASE AddRead(h)
  <2>1. UNCHANGED <<now, clients, count, lock, created, misses, stale, farewells, toScan, removeList,
                    told>>
    BY <1>3 DEF AddRead, table, objects, monitor
  <2>2. PICK to \in {"increment", "idle"} :
            /\ Moves(h, "check", to)
            /\ to = "increment" => id'[h] \in Ids
            /\ id' \in [Threads -> Ids \cup {0}] /\ \A u \in Threads \ {h} : id'[u] = id[u]
            /\ obj' \in [Threads -> 0..created] /\ \A u \in Threads \ {h} : obj'[u] = obj[u]
            /\ read' \in [Threads -> Int]
    <3>1. CASE exist(id[h])
      BY <1>1, <1>3, <3>1, GotoMoves DEF AddRead, ThreadTypes, TableTypes, Places, exist
    <3>2. CASE ~ exist(id[h])
      BY <1>1, <1>3, <3>2, ReturnMoves DEF AddRead
    <3> QED BY <3>1, <3>2
  <2>3. ThreadTypes' /\ RoleInv' /\ CreatedInv'
    BY <1>1, <2>1, <2>2, MoveTypes DEF ThreadTypes
  <2> QED BY <1>1, <2>1, <2>3
          DEF IInv, TypeInv, TableTypes, ObjectTypes, DepartInv, StrikeInv
<1>4. CASE AddWrite(h)
  <2>1. /\ UNCHANGED <<now, clients, lock, created, misses, stale, farewells, toScan, removeList>>
        /\ pc[h] = "increment" /\ count' = read[h] + 1 /\ told' = told \cup {id[h]}
    BY <1>4 DEF AddWrite, objects, monitor
  <2>2. ThreadTypes' /\ RoleInv' /\ CreatedInv'
    BY <1>1, <1>4, <2>1, ReturnMoves, MoveTypes DEF AddWrite, ThreadTypes
  <2>3. id[h] \in Ids
    BY <1>1, <2>1 DEF TypeInv, RoleInv
  <2>4. count' \in Int /\ told' \subseteq Ids
    BY <1>1, <2>1, <2>3 DEF ThreadTypes, TableTypes
  <2> QED BY <1>1, <2>1, <2>2, <2>4
          DEF IInv, TypeInv, TableTypes, ObjectTypes, DepartInv, StrikeInv
<1>5. CASE Refresh(h) \/ Logout(h)
  <2>1. PICK i \in Ids, next \in {"refresh", "logout"} : RefreshGet(h, i, next)
    BY <1>5 DEF Refresh, Logout
  <2>2. /\ UNCHANGED <<now, clients, count, lock, created, misses, stale, farewells, toScan, removeList,
                       read, told>>
        /\ Moves(h, "idle", next) /\ clients[i] \in 1..created
        /\ id' = [id EXCEPT ![h] = i] /\ obj' = [obj EXCEPT ![h] = clients[i]]
    BY <1>1, <2>1, GotoMoves DEF RefreshGet, table, objects, monitor, TableTypes, Places, exist
  <2>3. /\ id' \in [Threads -> Ids \cup {0}] /\ \A u \in Threads \ {h} : id'[u] = id[u]
        /\ obj' \in [Threads -> 0..created] /\ \A u \in Threads \ {h} : obj'[u] = obj[u]
        /\ obj'[h] \in 1..created
    BY <1>1, <2>2 DEF ThreadTypes
  <2>4. ThreadTypes' /\ RoleInv' /\ CreatedInv'
    BY <1>1, <2>2, <2>3, MoveTypes DEF ThreadTypes
  <2> QED BY <1>1, <2>2, <2>4
          DEF IInv, TypeInv, TableTypes, ObjectTypes, DepartInv, StrikeInv
<1>6. CASE RefreshOnline(h)
  <2>1. /\ UNCHANGED <<now, clients, count, lock, created, farewells, toScan, removeList, told>>
        /\ pc[h] \in {"refresh", "logout"}
        /\ misses' = [misses EXCEPT ![obj[h]] = 0] /\ stale' = [stale EXCEPT ![obj[h]] = FALSE]
    BY <1>6 DEF RefreshOnline, table, monitor
  <2>2. PICK to \in {"idle", "delete"} :
            /\ Moves(h, pc[h], to)
            /\ id' \in [Threads -> Ids \cup {0}] /\ \A u \in Threads \ {h} : id'[u] = id[u]
            /\ obj' \in [Threads -> 0..created] /\ \A u \in Threads \ {h} : obj'[u] = obj[u]
            /\ read' \in [Threads -> Int]
    <3>1. CASE Return(h)
      BY <1>1, <3>1, ReturnMoves
    <3>2. CASE Goto(h, "delete") /\ UNCHANGED locals
      BY <1>1, <3>2, GotoMoves DEF locals, ThreadTypes, Places
    <3> QED BY <1>6, <3>1, <3>2 DEF RefreshOnline
  <2>3. ThreadTypes' /\ RoleInv' /\ CreatedInv'
    BY <1>1, <2>1, <2>2, MoveTypes DEF ThreadTypes
  <2>4. /\ misses' \in [Objs -> 0..MaxLoseTimes] /\ stale' \in [Objs -> BOOLEAN]
        /\ \A o \in Objs : o # obj[h] => misses'[o] = misses[o] /\ stale'[o] = stale[o]
        /\ obj[h] \in Objs => misses'[obj[h]] = 0
    <3>1. 0 \in 0..MaxLoseTimes
      BY BoundAssumption
    <3> QED BY <1>1, <2>1, <3>1 DEF ObjectTypes
  <2>5. ObjectTypes'
    BY <1>1, <2>1, <2>4 DEF ObjectTypes
  <2>6. StrikeInv'
    BY <1>1, <2>4 DEF StrikeInv
  <2> QED BY <1>1, <2>1, <2>3, <2>5, <2>6 DEF IInv, TypeInv, TableTypes, DepartInv
<1>7. CASE DeleteRemove(h)
  BY <1>1, <1>7, RemoveInv DEF DeleteRemove, monitor, ThreadTypes
<1>8. CASE DeleteWrite(h)
  <2>1. UNCHANGED <<now, clients, created, misses, stale, farewells, toScan, removeList, told>>
        /\ pc[h] = "decrement" /\ count' = read[h] - 1 /\ lock' = NoThread /\ Return(h)
    BY <1>1, <1>8 DEF DeleteWrite, AfterDelete, objects, monitor
  <2>2. ThreadTypes' /\ RoleInv' /\ CreatedInv'
    BY <1>1, <2>1, ReturnMoves, MoveTypes DEF ThreadTypes
  <2>3. count' \in Int
    BY <1>1, <2>1 DEF ThreadTypes
  <2> QED BY <1>1, <2>1, <2>2, <2>3
          DEF IInv, TypeInv, TableTypes, ObjectTypes, DepartInv, StrikeInv
<1> QED BY <1>2, <1>3, <1>4, <1>5, <1>6, <1>7, <1>8, AddPutInv DEF Add, Finish

\* The monitor gives strikes, to the silent only, and removes.
LEMMA MonitorInv ==
    ASSUME IInv, MonitorPass
    PROVE  IInv'
<1> DEFINE t == Monitor
<1>1. /\ TypeInv /\ TableTypes /\ ObjectTypes /\ ThreadTypes /\ DepartInv /\ StrikeInv
      /\ t \in Threads
  BY DEF IInv, TypeInv, Threads
<1>2. CASE MonitorStart \/ MonitorScanned \/ MonitorEnd
  <2>1. /\ UNCHANGED <<now, clients, count, lock, created, misses, stale, farewells, id, obj, read, told>>
        /\ toScan' \subseteq Ids /\ removeList' \subseteq Ids
    BY <1>1, <1>2 DEF MonitorStart, MonitorScanned, MonitorEnd, table, objects, locals, monitor,
                      TableTypes, ThreadTypes
  <2>2. PICK to \in {"idle", "scan", "evict"} : Moves(t, pc[t], to)
    BY <1>1, <1>2, GotoMoves DEF MonitorStart, MonitorScanned, MonitorEnd, Places
  <2>3. ThreadTypes' /\ RoleInv' /\ CreatedInv'
    BY <1>1, <2>1, <2>2, MoveTypes DEF ThreadTypes
  <2> QED BY <1>1, <2>1, <2>3
          DEF IInv, TypeInv, TableTypes, ObjectTypes, DepartInv, StrikeInv
<1>3. ASSUME NEW i \in Ids, MonitorScan(i) PROVE IInv'
  <2>1. /\ UNCHANGED <<now, clients, count, lock, created, stale, farewells, id, obj, read, told, pc>>
        /\ toScan' = toScan \ {i}
        /\ isOffline(i) \/ UNCHANGED <<misses, removeList>>
    BY <1>3 DEF MonitorScan, table, locals
  <2>2. removeList' \subseteq Ids /\ toScan' \subseteq Ids
    BY <1>1, <2>1 DEF isOffline, ThreadTypes
  <2>3. ThreadTypes' /\ RoleInv' /\ CreatedInv'
    BY <1>1, <2>1, <2>2 DEF ThreadTypes, TypeInv, RoleInv, CreatedInv, Putting
  <2>4. ObjectTypes' /\ StrikeInv'
    <3>1. CASE isOffline(i)
      <4> DEFINE o == clients[i]
                 strikes == IF stale[o] /\ misses[o] < MaxLoseTimes THEN misses[o] + 1 ELSE misses[o]
      <4>1. misses' = [misses EXCEPT ![o] = strikes]
        BY <3>1 DEF isOffline
      <4>2. o \in Objs => /\ strikes \in 0..MaxLoseTimes
                          /\ strikes > misses[o] => stale[o]
        BY <1>1, BoundAssumption DEF ObjectTypes
      <4> HIDE DEF o, strikes
      <4>3. /\ misses' \in [Objs -> 0..MaxLoseTimes]
            /\ \A p \in Objs : misses'[p] = IF p = o THEN strikes ELSE misses[p]
        BY <1>1, <4>1, <4>2 DEF ObjectTypes
      <4>4. ObjectTypes'
        BY <1>1, <2>1, <4>3 DEF ObjectTypes
      <4>5. \A p \in Objs : misses'[p] > 0 => stale[p]
        BY <1>1, <4>2, <4>3 DEF StrikeInv, ObjectTypes
      <4> QED BY <2>1, <4>4, <4>5 DEF StrikeInv
    <3>2. CASE UNCHANGED misses
      BY <1>1, <2>1, <3>2 DEF ObjectTypes, StrikeInv
    <3> QED BY <2>1, <3>1, <3>2
  <2> QED BY <1>1, <2>1, <2>3, <2>4 DEF IInv, TypeInv, TableTypes, DepartInv
<1>4. ASSUME NEW i \in Ids, MonitorEvict(i) PROVE IInv'
  BY <1>1, <1>4, RemoveInv DEF MonitorEvict, ThreadTypes
<1>5. CASE DeleteWrite(t)
  <2>1. /\ UNCHANGED <<now, clients, created, misses, stale, farewells, toScan, removeList, told>>
        /\ pc[t] = "decrement" /\ count' = read[t] - 1 /\ lock' = NoThread
        /\ Goto(t, "evict") /\ read' = [read EXCEPT ![t] = 0] /\ UNCHANGED <<id, obj>>
    BY <1>5 DEF DeleteWrite, AfterDelete, objects, monitor
  <2>2. Moves(t, "decrement", "evict") /\ read' \in [Threads -> Int] /\ count' \in Int
    BY <1>1, <2>1, GotoMoves DEF ThreadTypes, Places
  <2>3. ThreadTypes' /\ RoleInv' /\ CreatedInv'
    BY <1>1, <2>1, <2>2, MoveTypes DEF ThreadTypes
  <2> QED BY <1>1, <2>1, <2>2, <2>3
          DEF IInv, TypeInv, TableTypes, ObjectTypes, DepartInv, StrikeInv
<1> QED BY <1>2, <1>3, <1>4, <1>5 DEF MonitorPass

LEMMA InvStep == IInv /\ [Next]_vars => IInv'
<1> SUFFICES ASSUME IInv, [Next]_vars PROVE IInv'
  OBVIOUS
<1> USE DEF IInv, TypeInv, TableTypes, ObjectTypes, ThreadTypes, RoleInv, CreatedInv, Putting,
            DepartInv, StrikeInv, table, objects, monitor, locals
<1>1. CASE UNCHANGED vars
  BY <1>1 DEF vars
<1>2. CASE Tick
  BY <1>2, BoundAssumption DEF Tick
<1>3. ASSUME NEW o \in Objs, Silence(o) PROVE IInv'
  BY <1>3 DEF Silence
<1> QED BY <1>1, <1>2, <1>3, HandlerInv, MonitorInv DEF Next

---------------------------------------------------------------------------
(* The theorems.                                                           *)

\* Ids, objects, strikes and departures stay in their ranges, whoever overtakes whom.
THEOREM TypesHold == Spec => []TypeOK
<1>1. IInv => TypeOK
  <2> SUFFICES ASSUME IInv PROVE TypeOK
    OBVIOUS
  <2>1. created \in 0..MaxLogins
    BY ThreadsFinite, FS_CardinalityType, BoundAssumption DEF IInv, TypeInv, CreatedInv, ObjectTypes
  <2> QED BY <2>1 DEF IInv, TypeInv, TableTypes, ObjectTypes, ThreadTypes, TypeOK
<1> QED BY <1>1, InvInit, InvStep, PTL DEF Spec

\* A client that was heard of within ten seconds has no strikes (Client.java 31-38, 85-90).
THEOREM StrikesHold == Spec => []NoStrikeWhileHeard
<1>1. IInv => NoStrikeWhileHeard
  <2> SUFFICES ASSUME IInv PROVE NoStrikeWhileHeard
    OBVIOUS
  <2>1. 1..created \subseteq Objs
    BY ThreadsFinite, FS_CardinalityType, BoundAssumption
       DEF IInv, TypeInv, CreatedInv, ObjectTypes, Objs
  <2> QED BY <2>1 DEF IInv, StrikeInv, NoStrikeWhileHeard
<1> QED BY <1>1, InvInit, InvStep, PTL DEF Spec

\* A login departs once, by its LOGOUT or by the monitor, and what departed is gone.
THEOREM DeparturesHold == Spec => []OneDeparture
<1>1. IInv => OneDeparture
  <2> SUFFICES ASSUME IInv PROVE OneDeparture
    OBVIOUS
  <2>1. 1..created \subseteq Objs
    BY ThreadsFinite, FS_CardinalityType, BoundAssumption
       DEF IInv, TypeInv, CreatedInv, ObjectTypes, Objs
  <2> QED BY <2>1 DEF IInv, TypeInv, ObjectTypes, DepartInv, OneDeparture, Listed
<1> QED BY <1>1, InvInit, InvStep, PTL DEF Spec

---------------------------------------------------------------------------
(* The field count.                                                        *)

\* A step of one thread, with what it does to the count and the size of the table.
LEMMA DriftMoves ==
    ASSUME ThreadTypes, count \in Int, count' \in Int, IsFiniteSet(DOMAIN clients),
           IsFiniteSet(DOMAIN clients'), NEW t \in Threads, NEW from, NEW to, Moves(t, from, to)
    PROVE  /\ t \in Handlers =>
                Drift' = Drift + (count' - count)
                                 + N(to \in {"check", "increment"}) - N(from \in {"check", "increment"})
                                 - N(to = "decrement") + N(from = "decrement")
                                 - (Cardinality(DOMAIN clients') - Cardinality(DOMAIN clients))
           /\ t \notin Handlers =>
                Drift' = Drift + (count' - count) - N(to = "decrement") + N(from = "decrement")
                                 - (Cardinality(DOMAIN clients') - Cardinality(DOMAIN clients))
           /\ Drift \in Int /\ Drift' \in Int
<1>1. Cardinality(DOMAIN clients) \in Nat /\ Cardinality(DOMAIN clients') \in Nat
  BY FS_CardinalityType
<1>2. /\ Drift = count + Cardinality(Counting) - Cardinality(Removing) - Cardinality(DOMAIN clients)
      /\ Drift' = count' + Cardinality(Counting') - Cardinality(Removing') - Cardinality(DOMAIN clients')
  BY DEF Drift, Counting, Removing
<1>3. /\ Cardinality(Counting) \in Nat /\ Cardinality(Removing) \in Nat
      /\ t \in Handlers => Cardinality(Counting') = Cardinality(Counting)
                              + N(to \in {"check", "increment"}) - N(from \in {"check", "increment"})
      /\ t \notin Handlers => Counting' = Counting
      /\ Cardinality(Removing') = Cardinality(Removing) + N(to = "decrement") - N(from = "decrement")
  BY Tallies
<1> HIDE DEF Counting, Removing
<1> QED BY <1>1, <1>2, <1>3 DEF N

\* Where neither the count nor the table changes and no thread enters or leaves the halves of
\* an operation, nothing drifts.
LEMMA NoDrift ==
    ASSUME IInv, IInv', UNCHANGED <<count, clients>>, NEW t \in Threads, NEW from, NEW to,
           Moves(t, from, to),
           from \in {"check", "increment"} <=> to \in {"check", "increment"},
           from = "decrement" <=> to = "decrement"
    PROVE  Drift' = Drift
<1>1. Counting' = Counting /\ Removing' = Removing
  <2>1. Handlers \subseteq Threads
    BY DEF Threads
  <2> QED BY <2>1 DEF Counting, Removing, Moves
<1> QED BY <1>1 DEF Drift, Counting, Removing

\* A removal moves one from the table to those that are about to count down.
LEMMA RemoveDrift ==
    ASSUME IInv, IInv', NEW t \in Threads, NEW i, Remove(t, i), UNCHANGED <<count, created>>,
           pc[t] = IF t = Monitor THEN "evict" ELSE "delete"
    PROVE  Drift' = Drift
<1>1. /\ ThreadTypes /\ count \in Int /\ count' \in Int
      /\ IsFiniteSet(DOMAIN clients) /\ IsFiniteSet(DOMAIN clients')
  BY DEF IInv, TypeInv, TableTypes
<1>2. CASE /\ exist(i) /\ DOMAIN clients' = DOMAIN clients \ {i}
           /\ Moves(t, pc[t], "decrement")
  <2>1. Cardinality(DOMAIN clients') = Cardinality(DOMAIN clients) - 1 /\ Cardinality(DOMAIN clients) \in Nat
    BY <1>1, <1>2, FS_RemoveElement, FS_CardinalityType DEF exist
  <2>2. pc[t] \in {"evict", "delete"}
    OBVIOUS
  <2>3. Drift' = Drift
    BY <1>1, <1>2, <2>1, <2>2, DriftMoves DEF N
  <2> QED BY <2>3
<1>3. CASE UNCHANGED <<clients, farewells, lock>> /\ \E to \in {"idle", "evict"} : Moves(t, pc[t], to)
  <2>1. PICK to \in {"idle", "evict"} : Moves(t, pc[t], to)
    BY <1>3
  <2> QED BY <1>3, <2>1, NoDrift
<1> QED BY <1>2, <1>3, Removes

Race == LostUpdate \/ Overwrite \/ GoneBeforeCounted

\* The halves of an increment: the put, the test, and the write.
LEMMA AddDrift ==
    ASSUME IInv, IInv', NEW h \in Handlers, Add(h)
    PROVE  Drift' = Drift \/ Race
<1>1. /\ TypeInv /\ ThreadTypes /\ count \in Int /\ count' \in Int /\ h \in Threads /\ created \in Nat
      /\ IsFiniteSet(DOMAIN clients) /\ IsFiniteSet(DOMAIN clients')
  BY DEF IInv, TypeInv, TableTypes, ObjectTypes, Threads
<1>2. CASE AddPut(h)
  <2>1. Moves(h, "put", "check")
    BY <1>1, <1>2, GotoMoves DEF AddPut, Places
  <2>2. CASE exist(id[h])
    BY <1>2, <2>1, <2>2 DEF AddPut, Overwrite, Race, Moves
  <2>3. CASE ~ exist(id[h])
    <3>1. DOMAIN clients' = DOMAIN clients \cup {id[h]} /\ count' = count
      BY <1>2 DEF AddPut
    <3>2. Cardinality(DOMAIN clients') = Cardinality(DOMAIN clients) + 1 /\ Cardinality(DOMAIN clients) \in Nat
      BY <1>1, <2>3, <3>1, FS_AddElement, FS_CardinalityType DEF exist
    <3>3. /\ Drift' = Drift + (count' - count)
                            + N("check" \in {"check", "increment"}) - N("put" \in {"check", "increment"})
                            - N("check" = "decrement") + N("put" = "decrement")
                            - (Cardinality(DOMAIN clients') - Cardinality(DOMAIN clients))
          /\ Drift \in Int
      BY <1>1, <2>1, DriftMoves
    <3>4. /\ N("check" \in {"check", "increment"}) = 1 /\ N("put" \in {"check", "increment"}) = 0
          /\ N("check" = "decrement") = 0 /\ N("put" = "decrement") = 0
      BY DEF N
    <3>5. count' - count = 0 /\ Cardinality(DOMAIN clients') - Cardinality(DOMAIN clients) = 1
      BY <1>1, <3>1, <3>2
    <3>6. Drift' = Drift
      BY <3>3, <3>4, <3>5
    <3> QED BY <3>6
  <2> QED BY <2>2, <2>3
<1>3. CASE AddRead(h)
  <2>1. CASE exist(id[h])
    <3>1. Moves(h, "check", "increment") /\ UNCHANGED <<count, clients>>
      BY <1>1, <1>3, <2>1, GotoMoves DEF AddRead, table, Places
    <3> QED BY <1>1, <3>1, NoDrift
  <2>2. CASE ~ exist(id[h])
    <3>1. Moves(h, "check", "idle")
      BY <1>1, <1>3, <2>2, ReturnMoves DEF AddRead
    <3> QED BY <3>1 DEF Moves, GoneBeforeCounted, Race
  <2> QED BY <2>1, <2>2
<1>4. CASE AddWrite(h)
  <2>1. Moves(h, "increment", "idle") /\ UNCHANGED clients /\ count' = read[h] + 1
    BY <1>1, <1>4, ReturnMoves DEF AddWrite
  <2>2. CASE read[h] = count
    <3>1. Cardinality(DOMAIN clients') = Cardinality(DOMAIN clients) /\ Cardinality(DOMAIN clients) \in Nat
      BY <1>1, <2>1, FS_CardinalityType
    <3>2. Drift' = Drift
      BY <1>1, <2>1, <2>2, <3>1, DriftMoves DEF N
    <3> QED BY <3>2
  <2>3. CASE read[h] # count
    BY <1>1, <2>1, <2>3 DEF Moves, LostUpdate, Race
  <2> QED BY <2>2, <2>3
<1> QED BY <1>2, <1>3, <1>4 DEF Add

\* The half of a decrement that is left after the removal.
LEMMA WriteDrift ==
    ASSUME IInv, IInv', NEW t \in Threads, DeleteWrite(t)
    PROVE  Drift' = Drift \/ Race
<1>1. /\ ThreadTypes /\ count \in Int /\ count' \in Int /\ created \in Nat
      /\ IsFiniteSet(DOMAIN clients) /\ IsFiniteSet(DOMAIN clients')
  BY DEF IInv, TypeInv, TableTypes, ObjectTypes
<1>2. PICK to \in {"idle", "evict"} :
         Moves(t, "decrement", to) /\ UNCHANGED clients /\ count' = read[t] - 1
  BY <1>1, GotoMoves, ReturnMoves DEF DeleteWrite, AfterDelete, Places
<1>3. CASE read[t] = count
  <2>1. Cardinality(DOMAIN clients') = Cardinality(DOMAIN clients) /\ Cardinality(DOMAIN clients) \in Nat
    BY <1>1, <1>2, FS_CardinalityType
  <2>2. Drift' = Drift
    BY <1>1, <1>2, <1>3, <2>1, DriftMoves DEF N
  <2> QED BY <2>2
<1>4. CASE read[t] # count
  BY <1>2, <1>4 DEF Moves, LostUpdate, Race
<1> QED BY <1>3, <1>4

LEMMA DriftStep == IInv /\ IInv' /\ [Next]_vars => Drift' = Drift \/ Race
<1> SUFFICES ASSUME IInv, IInv', [Next]_vars PROVE Drift' = Drift \/ Race
  OBVIOUS
<1>1. /\ ThreadTypes /\ created \in Nat /\ Monitor \in Threads /\ Monitor \notin Handlers
      /\ Handlers \subseteq Threads
  BY ThreadAssumption DEF IInv, TypeInv, ObjectTypes, Threads
<1>2. CASE UNCHANGED <<count, clients, pc>>
  BY <1>2 DEF Drift
<1>3. CASE UNCHANGED vars \/ Tick \/ (\E o \in Objs : Silence(o)) \/ (\E i \in Ids : MonitorScan(i))
  BY <1>2, <1>3 DEF vars, Tick, Silence, MonitorScan, table
<1>4. ASSUME NEW h \in Handlers, AddChoose(h) \/ Refresh(h) \/ Logout(h) \/ RefreshOnline(h)
      PROVE  Drift' = Drift \/ Race
  <2>1. UNCHANGED <<count, clients>>
    BY <1>4 DEF AddChoose, Refresh, Logout, RefreshGet, RefreshOnline, table
  <2>2. PICK to \in {"put", "refresh", "logout", "delete", "idle"} :
           Moves(h, pc[h], to) /\ pc[h] \in {"idle", "refresh", "logout"}
    BY <1>1, <1>4, GotoMoves, ReturnMoves
       DEF AddChoose, Refresh, Logout, RefreshGet, RefreshOnline, Places
  <2> QED BY <1>1, <2>1, <2>2, NoDrift
<1>5. ASSUME NEW h \in Handlers, Add(h) PROVE Drift' = Drift \/ Race
  BY <1>5, AddDrift
<1>6. ASSUME NEW h \in Handlers, DeleteRemove(h) PROVE Drift' = Drift \/ Race
  BY <1>1, <1>6, RemoveDrift DEF DeleteRemove
<1>7. ASSUME NEW i \in Ids, MonitorEvict(i) PROVE Drift' = Drift \/ Race
  BY <1>1, <1>7, RemoveDrift DEF MonitorEvict
<1>8. ASSUME NEW t \in Threads, DeleteWrite(t) PROVE Drift' = Drift \/ Race
  BY <1>8, WriteDrift
<1>9. CASE MonitorStart \/ MonitorScanned \/ MonitorEnd
  <2>1. UNCHANGED <<count, clients>>
    BY <1>9 DEF MonitorStart, MonitorScanned, MonitorEnd, table
  <2>2. PICK to \in {"scan", "evict", "idle"} :
           Moves(Monitor, pc[Monitor], to) /\ pc[Monitor] \in {"idle", "scan", "evict"}
    BY <1>1, <1>9, GotoMoves DEF MonitorStart, MonitorScanned, MonitorEnd, Places
  <2> QED BY <1>1, <2>1, <2>2, NoDrift
<1> QED BY <1>1, <1>3, <1>4, <1>5, <1>6, <1>7, <1>8, <1>9 DEF Next, Finish, MonitorPass

\* Whatever the threads do, count and table part in the three named races only.
THEOREM DriftHolds == Spec => DriftOnlyByRaces
<1>1. IInv /\ IInv' /\ [Next]_vars
         => [Drift' # Drift => LostUpdate \/ Overwrite \/ GoneBeforeCounted]_vars
  BY DriftStep DEF Race
<1> QED BY <1>1, InvInit, InvStep, PTL DEF Spec, DriftOnlyByRaces
=============================================================================
