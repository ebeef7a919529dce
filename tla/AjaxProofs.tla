----------------------------- MODULE AjaxProofs -----------------------------
(***************************************************************************)
(* For any number of requests, callbacks, lists' options and moves of the  *)
(* page: the types of Ajax, that its lists call exactly whom they must,    *)
(* that its two counters agree, and that its deferreds are promises.       *)
(*                                                                         *)
(* The inductive invariant IInv has four parts.  Shape says what the       *)
(* script, a stack of frames, looks like: which frames are only ever       *)
(* first, which have what under them, and that a list has at most one loop *)
(* and a request at most one frame of its life.  RequestsInv says of each  *)
(* request what its frames and its variables have to do with each other,   *)
(* and makes the counter the size of three disjoint sets, less one.        *)
(* ReadyInv does the same for the ready event.  ListsInv puts each list    *)
(* that tells into a phase - fresh, at the deferred's own callbacks,       *)
(* calling the page's, at rest, stuck after an exception, gone - and each  *)
(* deferred into a pair of phases of its two lists.                        *)
(***************************************************************************)
EXTENDS Ajax, SumTheorems, SequenceTheorems

----------------------------------------------------------------------------
(* The script *)

Ops == {"add", "remove", "empty", "disable", "lock", "fire", "loop", "run", "page", "ready",
        "begin", "install", "transport", "timeout", "send", "try", "catch", "returned",
        "abort", "finish", "uncount"}
Life   == {"begin", "install", "transport", "timeout"}
Ends   == {"try", "catch"}
\* The frames that are taken in the next step: nothing is ever pushed on them.
AtOnce == {"remove", "empty", "disable", "lock", "ready", "send", "catch", "abort", "finish"}
Counts == Life \cup Ends \cup {"uncount"}
Kinds  == Counts \cup {"loop"}
OfRequest == Life \cup Ends \cup {"send", "returned", "abort", "finish", "uncount"}

\* The lists that tell: those of the promises and of the completions; and those that are fired.
Told  == {<<d, name>> : d \in Deferreds, name \in {"done", "fail"}}
         \cup {<<r, "complete">> : r \in Requests}
Fires == Told \ {<<Doc, "fail">>}

Attached  == [does : Own, at : Deferreds]
Datas   == [text : Texts \cup {"nothing", "ready", "page"}]
Broken  == [status : {-1, 0}, text : {"exception", "No Transport", "timeout", "abort", "canceled"},
            content : {"other"}, xml : {FALSE}, parses : {TRUE}]
Answers == {a \in Responses \cup Broken : a.status = 0 => a.text \in {"", "timeout", "abort", "canceled"}}
HookNames == {"ready", "prefilter", "ajaxStart", "ajaxSend", "ajaxSuccess", "ajaxError", "ajaxComplete", "ajaxStop"}
Args == Datas \cup Attached \cup [hook : HookNames \cup {"beforeSend"}] \cup [wait : BOOLEAN] \cup [refused : BOOLEAN] \cup Answers

FrameOK(f) ==
    /\ f.op = "add" => f.at \in Told \cup {PageList} /\ f.arg \in Attached
    /\ f.op \in {"remove", "empty", "disable", "lock"} => f.at = PageList
    /\ f.op = "fire" => f.at \in Fires \cup {PageList} /\ f.arg \in Datas /\ f.arg # Nothing
    /\ f.op = "loop" => f.at \in Fires \cup {PageList}
    /\ f.op = "run" => f.at \in Fires \cup {PageList} /\ f.arg \in Attached
    /\ f.op = "page" => f.arg \in [hook : HookNames \cup {"beforeSend"}]
    /\ f.op = "ready" => f.at = Doc /\ f.arg \in [wait : BOOLEAN]
    /\ f.op \in OfRequest => f.at \in Requests
    /\ f.op = "install" => f.arg \in [refused : BOOLEAN]
    /\ f.op \in {"abort", "finish"} => f.arg \in Answers
Frames == {f \in [op : Ops, at : Deferreds \cup Lists, arg : Args] : FrameOK(f)}

In(s, op, x) == \E i \in DOMAIN s : s[i].op = op /\ s[i].at = x
Asks(f)      == f.op = "page" /\ f.arg.hook = "beforeSend"

Shape(s) ==
    /\ s \in Seq(Frames)
    /\ \A i \in DOMAIN s :
          /\ s[i].op \in AtOnce => i = 1
          /\ s[i].op = "run" => i < Len(s) /\ s[i + 1].op = "loop" /\ s[i + 1].at = s[i].at
          /\ s[i].op = "loop" /\ i > 1 => s[i - 1].op = "run" /\ s[i - 1].at = s[i].at
          /\ s[i].op = "send" => i < Len(s) /\ s[i + 1].op = "try" /\ s[i + 1].at = s[i].at
          /\ Asks(s[i]) => i < Len(s) /\ s[i + 1].op = "install" /\ s[i + 1].at = s[i].at
    /\ \A i, j \in DOMAIN s : s[i].at = s[j].at =>
          /\ s[i].op = "loop" /\ s[j].op = "loop" => i = j
          /\ s[i].op \in Life \cup Ends /\ s[j].op \in Life \cup Ends => i = j
          /\ s[i].op = "uncount" /\ s[j].op = "uncount" => i = j
          /\ s[i].op = "uncount" /\ s[j].op \in Life \cup Ends => i < j

TopIs(op, x) == On(op) /\ Top.at = x

----------------------------------------------------------------------------
(* The requests *)

Variables == [posted : BOOLEAN, known : BOOLEAN, state : 0..2, counted : BOOLEAN,
              strAbort : {"canceled", "abort"}, transport : BOOLEAN, callback : BOOLEAN,
              wire : {"none", "sent", "answered", "aborted"}, timer : BOOLEAN,
              coded : BOOLEAN, text : Texts]

RqOK(r) ==
    /\ rq[r] \in Variables
    /\ ~ rq[r].posted => /\ ~ rq[r].counted
                         /\ \A op \in Life \cup Ends \cup {"uncount"} : ~ In(todo, op, r)
    /\ In(todo, "begin", r) => ~ rq[r].counted
    /\ \A op \in {"install", "transport", "timeout"} : In(todo, op, r) => rq[r].counted
    /\ \A op \in Life : In(todo, op, r) =>
          /\ r \notin early
          /\ <<"uncount", r>> \in lost => On("catch") /\ rq[Top.at].state = 2
    /\ In(todo, "uncount", r) => /\ rq[r].counted /\ rq[r].state = 2
                                 /\ <<"uncount", r>> \notin lost
    /\ <<"uncount", r>> \in lost => rq[r].counted /\ rq[r].state = 2
    /\ r \in early => rq[r].counted
    /\ In(todo, "try", r) => rq[r].state = 2 \/ (\E op \in {"try", "send", "finish"} : TopIs(op, r))

UnderWay == {r \in Requests : rq[r].counted /\ rq[r].state < 2}
ToUncount == {r \in Requests : In(todo, "uncount", r)}
LostOnes == {r \in Requests : <<"uncount", r>> \in lost}

RequestsInv ==
    /\ \A r \in Requests : RqOK(r)
    /\ rq = [r \in Requests |-> rq[r]]
    /\ early \subseteq Requests
    /\ active = Cardinality(UnderWay) + Cardinality(ToUncount) + Cardinality(LostOnes)
                - Cardinality(early)

----------------------------------------------------------------------------
(* The ready event *)

TopReady(wait) == On("ready") /\ Top.arg.wait = wait
ReadyCounts ==
    /\ held \in Nat /\ isReady \in BOOLEAN /\ readyWait \in Int
    /\ readyWait = held + (IF isReady THEN 0 ELSE 1) + (IF TopReady(TRUE) THEN 1 ELSE 0)
ReadyEvents ==
    /\ readyState \in {"loading", "interactive", "complete"}
    /\ isReady => readyState # "loading"
    /\ TopReady(FALSE) => readyState # "loading"
    /\ readyState = "loading" => "timeout" \notin calledBy
    /\ settled[Doc] # "pending" => isReady
    /\ In(todo, "fire", DoneList) \/ In(todo, "loop", DoneList) => isReady
    /\ settled[Doc] # "rejected"
    /\ isReady /\ held = 0 => \/ settled[Doc] = "resolved" \/ TopReady(TRUE)
                              \/ TopIs("fire", DoneList) \/ TopIs("loop", DoneList)
    /\ readyList /\ ~ isReady =>
          /\ readyState = "loading" => {"DOMContentLoaded", "load"} \subseteq calledBy
          /\ readyState = "interactive" => "load" \in calledBy
          /\ readyState = "complete" => "timeout" \in calledBy \/ TopReady(FALSE)
ReadyInv == ReadyCounts /\ ReadyEvents

----------------------------------------------------------------------------
(* The lists *)

FlagsOf(l) == IF l[2] \in {"done", "fail"} THEN {"once", "memory"}
              ELSE IF l[2] = "progress" THEN {"memory"} ELSE Flags[l]
Before(l)  == IF l[2] \in {"done", "fail"} THEN Internal(l[1], l[2]) ELSE << >>

\* One if a callback of the list is running.
Running(l) == IF TopIs("loop", l) THEN 0 ELSE 1

\* The closure of a list whose callbacks are in A.
Closures(A) == [flags : SUBSET {"once", "memory", "unique", "stopOnFalse"}, list : Seq(A), gone : BOOLEAN,
                stack : Seq(Datas), single : BOOLEAN, memory : Datas, fired : BOOLEAN, firing : BOOLEAN,
                length : Nat, index : Int, emptied : BOOLEAN]
Members(l)  == IF l = PageList THEN Attached ELSE Attached \cup [does : InternalNames, at : Deferreds]

ListOK(l) ==
    LET r == lists[l] IN
    /\ r \in Closures(Members(l)) /\ r.flags = FlagsOf(l)
    /\ r.index >= -1
    /\ r.firing => Len(r.list) <= r.length
    /\ added[l] \in Seq(Attached) /\ called[l] \in Seq(Attached)
    /\ \A f \in Elems(r.list) : f.does \in InternalNames \/ f \in Elems(added[l])
    /\ In(todo, "loop", l) => r.firing
    /\ TopIs("loop", l) => r.index >= 0

Prefix(l) == /\ Len(called[l]) <= Len(added[l])
             /\ \A k \in 1..Len(called[l]) : called[l][k] = added[l][k]

Fresh(l)  == /\ ~ lists[l].gone /\ ~ lists[l].fired /\ ~ lists[l].firing
             /\ lists[l].memory = Nothing
             /\ lists[l].list = Before(l) \o added[l] /\ called[l] = << >>
Gone(l)   == /\ lists[l].gone /\ ~ lists[l].firing /\ lists[l].memory = Nothing /\ called[l] = << >>
HasFired(l) == ~ lists[l].gone /\ lists[l].fired /\ lists[l].memory # Nothing
Rest(l)   == /\ HasFired(l) /\ ~ lists[l].firing
             /\ lists[l].list = << >> /\ called[l] = added[l]
Prep(l)   == /\ HasFired(l) /\ lists[l].firing
             /\ TopIs("loop", l) /\ lists[l].index \in 0..2
             /\ lists[l].list = Before(l) \o added[l] /\ called[l] = << >>
             /\ lists[l].length = Len(lists[l].list)
Calling(l) ==
    LET r == lists[l]
        n == r.index + Running(l)
        c == Len(called[l])
    IN  /\ HasFired(l) /\ r.firing /\ In(todo, "loop", l)
        /\ r.length = Len(r.list) /\ n \in 0..Len(r.list)
        /\ Prefix(l) /\ Len(added[l]) - c = Len(r.list) - n
        /\ \A k \in 1..(Len(r.list) - n) : r.list[n + k] = added[l][c + k]
Stuck(l)  == HasFired(l) /\ lists[l].firing /\ ~ In(todo, "loop", l) /\ Prefix(l)
Over(l)   == Rest(l) \/ Calling(l) \/ Stuck(l)

TellsOnce(l) == lists[l].single /\ lists[l].stack = << >>

Open(d) == /\ settled[d] = "pending"
           /\ Fresh(<<d, "done">>) /\ Fresh(<<d, "fail">>)
Turning(d, o) == /\ Prep(<<d, o>>)
                 /\ settled[d] = IF lists[<<d, o>>].index = 0 THEN "pending" ELSE StateOf(o)
                 /\ IF lists[<<d, o>>].index = 2 THEN Gone(<<d, Other(o)>>) ELSE Fresh(<<d, Other(o)>>)
Turned(d, o) == settled[d] = StateOf(o) /\ Gone(<<d, Other(o)>>) /\ Over(<<d, o>>)
DeferredOK(d) == Open(d) \/ (\E o \in {"done", "fail"} : Turning(d, o) \/ Turned(d, o))
CompleteOK(r) == Fresh(<<r, "complete">>) \/ Over(<<r, "complete">>)

Once(s) == \A i, j \in DOMAIN s : s[i] = s[j] => i = j
PageOK ==
    LET r    == lists[PageList]
        seen == Elems(called[PageList])
    IN  ("unique" \in r.flags /\ ~ r.gone) =>
        /\ Once(r.list) /\ Once(called[PageList]) /\ seen \subseteq Elems(r.list)
        /\ r.firing => \A i \in DOMAIN r.list : i > r.index + Running(PageList) => r.list[i] \notin seen
        /\ r.firing /\ ~ r.emptied =>
              /\ r.length = Len(r.list)
              /\ \A i \in DOMAIN r.list : i <= r.index => r.list[i] \in seen
              /\ r.index + Running(PageList) <= Len(r.list)
              /\ \A i \in DOMAIN r.list :
                    i = r.index + 1 /\ ~ TopIs("loop", PageList) /\ In(todo, "loop", PageList) => r.list[i] \in seen
        /\ ~ r.firing /\ ~ r.emptied /\ r.memory # Nothing => \A i \in DOMAIN r.list : r.list[i] \in seen

ListsInv ==
    /\ lists = [l \in Lists |-> lists[l]]
    /\ added = [l \in Lists |-> added[l]] /\ called = [l \in Lists |-> called[l]]
    /\ settled \in [Deferreds -> {"pending", "resolved", "rejected"}]
    /\ \A l \in Lists : ListOK(l)
    /\ \A l \in Told : TellsOnce(l)
    /\ \A d \in Deferreds : DeferredOK(d)
    /\ \A r \in Requests : CompleteOK(r)
    /\ PageOK

IInv == Shape(todo) /\ RequestsInv /\ ReadyInv /\ ListsInv /\ moves \in Nat
----------------------------------------------------------------------------
(* Stacks *)

\* A concatenation, item by item.
LEMMA Joined ==
    ASSUME NEW A, NEW s \in Seq(A), NEW t \in Seq(A)
    PROVE  /\ s \o t \in Seq(A) /\ Len(s \o t) = Len(s) + Len(t)
           /\ Len(s) \in Nat /\ Len(t) \in Nat
           /\ \A i \in 1..Len(s) : i \in DOMAIN (s \o t) /\ (s \o t)[i] = s[i]
           /\ \A i \in 1..Len(t) : Len(s) + i \in DOMAIN (s \o t) /\ (s \o t)[Len(s) + i] = t[i]
           /\ \A i \in DOMAIN (s \o t) : \/ i \in 1..Len(s)
                                         \/ \E k \in 1..Len(t) : i = Len(s) + k
<1>1. ASSUME NEW i \in DOMAIN (s \o t), i \notin 1..Len(s)
      PROVE  \E k \in 1..Len(t) : i = Len(s) + k
  <2>1. i - Len(s) \in 1..Len(t) /\ i = Len(s) + (i - Len(s))
    BY <1>1
  <2>. QED  BY <2>1
<1>. QED  BY <1>1

\* The end of a sequence, from its k-th item on.
LEMMA Suffix ==
    ASSUME NEW A, NEW s \in Seq(A), NEW k \in 1..(Len(s) + 1)
    PROVE  LET t == SubSeq(s, k, Len(s)) IN
           /\ t \in Seq(A) /\ Len(t) = Len(s) - k + 1
           /\ \A i \in 1..Len(t) : i + k - 1 \in 1..Len(s) /\ t[i] = s[i + k - 1]
OBVIOUS

\* The tail of a sequence that is not empty.
LEMMA TailIs ==
    ASSUME NEW A, NEW s \in Seq(A), s # << >>
    PROVE  /\ Tail(s) \in Seq(A) /\ Len(s) \in Nat /\ Len(s) > 0 /\ Len(Tail(s)) = Len(s) - 1
           /\ \A i \in 1..Len(Tail(s)) : Tail(s)[i] = s[i + 1]
           /\ Head(s) = s[1] /\ s[1] \in A
OBVIOUS

\* What is in a concatenation is in one of its parts.
LEMMA InJoined ==
    ASSUME NEW A, NEW s \in Seq(A), NEW t \in Seq(A), NEW op, NEW x
    PROVE  In(s \o t, op, x) <=> In(s, op, x) \/ In(t, op, x)
<1>1. ASSUME In(s \o t, op, x) PROVE In(s, op, x) \/ In(t, op, x)
  <2>1. PICK i \in DOMAIN (s \o t) : (s \o t)[i].op = op /\ (s \o t)[i].at = x
    BY <1>1 DEF In
  <2>2. CASE i \in 1..Len(s)
    BY <2>1, <2>2, Joined DEF In
  <2>3. ASSUME NEW k \in 1..Len(t), i = Len(s) + k PROVE In(t, op, x)
    BY <2>1, <2>3, Joined DEF In
  <2>. QED  BY <2>1, <2>2, <2>3, Joined
<1>2. ASSUME In(s, op, x) PROVE In(s \o t, op, x)
  <2>1. PICK i \in DOMAIN s : s[i].op = op /\ s[i].at = x
    BY <1>2 DEF In
  <2>2. i \in DOMAIN (s \o t) /\ (s \o t)[i] = s[i]
    BY <2>1, Joined
  <2>. QED  BY <2>1, <2>2 DEF In
<1>3. ASSUME In(t, op, x) PROVE In(s \o t, op, x)
  <2>1. PICK i \in DOMAIN t : t[i].op = op /\ t[i].at = x
    BY <1>3 DEF In
  <2>2. Len(s) + i \in DOMAIN (s \o t) /\ (s \o t)[Len(s) + i] = t[i]
    BY <2>1, Joined
  <2>. QED  BY <2>1, <2>2 DEF In
<1>. QED  BY <1>1, <1>2, <1>3

\* A part of a stack is a stack, and what is deep in one can be built on.
Base(s) == /\ Shape(s)
           /\ \A i \in DOMAIN s : s[i].op \notin AtOnce
           /\ s # << >> => s[1].op # "loop"

\* The script without its first frames keeps its shape.
LEMMA ShapeOfSuffix ==
    ASSUME NEW s, Shape(s), NEW k \in 1..(Len(s) + 1)
    PROVE  Shape(SubSeq(s, k, Len(s)))
<1>. DEFINE t == SubSeq(s, k, Len(s))
<1>1. s \in Seq(Frames)
  BY DEF Shape
<1>2. t \in Seq(Frames) /\ Len(t) = Len(s) - k + 1
  BY <1>1, Suffix
<1>3. \A i \in 1..Len(t) : i + k - 1 \in 1..Len(s) /\ t[i] = s[i + k - 1]
  BY <1>1, Suffix
<1>4. Len(s) \in Nat /\ DOMAIN s = 1..Len(s) /\ DOMAIN t = 1..Len(t) /\ Len(t) \in Nat /\ k \in Nat
  BY <1>1, <1>2
<1>. HIDE DEF t
<1>5. ASSUME NEW i \in DOMAIN t
      PROVE  /\ t[i].op \in AtOnce => i = 1
             /\ t[i].op = "run" => i < Len(t) /\ t[i + 1].op = "loop" /\ t[i + 1].at = t[i].at
             /\ t[i].op = "loop" /\ i > 1 => t[i - 1].op = "run" /\ t[i - 1].at = t[i].at
             /\ t[i].op = "send" => i < Len(t) /\ t[i + 1].op = "try" /\ t[i + 1].at = t[i].at
             /\ Asks(t[i]) => i < Len(t) /\ t[i + 1].op = "install" /\ t[i + 1].at = t[i].at
  <2>. DEFINE j == i + k - 1
  <2>1. j \in DOMAIN s /\ t[i] = s[j]
    BY <1>3, <1>4
  <2>2. j < Len(s) => i < Len(t) /\ t[i + 1] = s[j + 1]
    <3>1. HAVE j < Len(s)
    <3>2. i < Len(t) /\ i + 1 \in 1..Len(t)
      BY <3>1, <1>2, <1>4
    <3>. QED  BY <3>2, <1>3, <1>4
  <2>3. i > 1 => j > 1 /\ t[i - 1] = s[j - 1]
    <3>1. HAVE i > 1
    <3>2. i - 1 \in 1..Len(t)
      BY <3>1, <1>4
    <3>. QED  BY <3>1, <3>2, <1>3, <1>4
  <2>4. j = 1 => i = 1
    BY <1>4
  <2>. HIDE DEF j
  <2>. QED  BY <2>1, <2>2, <2>3, <2>4 DEF Shape
<1>6. ASSUME NEW i \in DOMAIN t, NEW j \in DOMAIN t, t[i].at = t[j].at
      PROVE  /\ t[i].op = "loop" /\ t[j].op = "loop" => i = j
             /\ t[i].op \in Life \cup Ends /\ t[j].op \in Life \cup Ends => i = j
             /\ t[i].op = "uncount" /\ t[j].op = "uncount" => i = j
             /\ t[i].op = "uncount" /\ t[j].op \in Life \cup Ends => i < j
  <2>1. i + k - 1 \in DOMAIN s /\ t[i] = s[i + k - 1] /\ j + k - 1 \in DOMAIN s /\ t[j] = s[j + k - 1]
    BY <1>3, <1>4
  <2>2. (i + k - 1 = j + k - 1 => i = j) /\ (i + k - 1 < j + k - 1 => i < j)
    BY <1>4
  <2>. QED  BY <2>1, <2>2, <1>6 DEF Shape
<1>. QED  BY <1>2, <1>5, <1>6 DEF Shape, t

\* What a frame that is done leaves: calls may be pushed on it.
LEMMA BaseOfTail ==
    ASSUME NEW s, Shape(s), s # << >>, s[1].op # "run"
    PROVE  Base(Tail(s))
<1>1. s \in Seq(Frames)
  BY DEF Shape
<1>2. Tail(s) = SubSeq(s, 2, Len(s)) /\ 2 \in 1..(Len(s) + 1)
  BY <1>1
<1>3. Shape(Tail(s))
  BY <1>2, ShapeOfSuffix
<1>4. ASSUME NEW i \in DOMAIN Tail(s) PROVE Tail(s)[i].op \notin AtOnce
  <2>1. i + 1 \in DOMAIN s /\ Tail(s)[i] = s[i + 1] /\ i + 1 # 1
    BY <1>1, TailIs
  <2>. QED  BY <2>1 DEF Shape
<1>5. ASSUME Tail(s) # << >> PROVE Tail(s)[1].op # "loop"
  <2>1. 2 \in DOMAIN s /\ Tail(s)[1] = s[2] /\ 2 - 1 = 1
    BY <1>1, <1>5, TailIs
  <2>2. s[2].op = "loop" => s[2 - 1].op = "run"
    BY <2>1 DEF Shape
  <2>. QED  BY <2>1, <2>2
<1>. QED  BY <1>3, <1>4, <1>5 DEF Base

\* Calls may be pushed on a frame that is not itself a call just made or a loop.
LEMMA BaseOfTop ==
    ASSUME NEW s, Shape(s), s # << >> => s[1].op \notin AtOnce \cup {"loop"}
    PROVE  Base(s)
<1>1. ASSUME NEW i \in DOMAIN s PROVE s[i].op \notin AtOnce
  BY DEF Shape
<1>. QED  BY <1>1 DEF Base

\* A script of one frame.
LEMMA InOne ==
    ASSUME NEW f, NEW op, NEW x
    PROVE  In(<<f>>, op, x) <=> f.op = op /\ f.at = x
BY DEF In

\* One more frame on a stack.
LEMMA Push ==
    ASSUME NEW s, Base(s), NEW f \in Frames, f.op # "run",
           f.op = "send" => s # << >> /\ s[1].op = "try" /\ s[1].at = f.at,
           Asks(f) => s # << >> /\ s[1].op = "install" /\ s[1].at = f.at,
           f.op = "loop" => ~ In(s, "loop", f.at),
           f.op \in Life \cup Ends => \A op \in Life \cup Ends \cup {"uncount"} : ~ In(s, op, f.at),
           f.op = "uncount" => ~ In(s, "uncount", f.at)
    PROVE  /\ Shape(<<f>> \o s) /\ <<f>> \o s # << >> /\ Head(<<f>> \o s) = f /\ (<<f>> \o s)[1] = f
           /\ f.op \notin AtOnce \cup {"loop"} => Base(<<f>> \o s)
           /\ \A op, x : In(<<f>> \o s, op, x) <=> (f.op = op /\ f.at = x) \/ In(s, op, x)
<1>. DEFINE t == <<f>> \o s
<1>1. s \in Seq(Frames) /\ <<f>> \in Seq(Frames)
  BY DEF Base, Shape
<1>2. t \in Seq(Frames) /\ Len(t) = Len(s) + 1 /\ Len(s) \in Nat /\ t[1] = f /\ Head(t) = f /\ t # << >>
  BY <1>1
<1>3. \A i \in 1..Len(s) : i + 1 \in DOMAIN t /\ t[i + 1] = s[i]
  BY <1>1
<1>4. \A i \in DOMAIN t : i \in Nat /\ (i = 1 \/ (i > 1 /\ i - 1 \in DOMAIN s /\ t[i] = s[i - 1]))
  BY <1>1
<1>5. DOMAIN s = 1..Len(s) /\ DOMAIN t = 1..Len(t)
  BY <1>1, <1>2
<1>6. \A op, x : In(t, op, x) <=> (f.op = op /\ f.at = x) \/ In(s, op, x)
  <2>1. TAKE op, x
  <2>2. In(<<f>>, op, x) <=> f.op = op /\ f.at = x
    BY InOne
  <2>3. In(t, op, x) <=> In(<<f>>, op, x) \/ In(s, op, x)
    BY <1>1, InJoined
  <2>. QED  BY <2>2, <2>3
<1>. HIDE DEF t
<1>7. ASSUME NEW i \in DOMAIN t
      PROVE  /\ t[i].op \in AtOnce => i = 1
             /\ t[i].op = "run" => i < Len(t) /\ t[i + 1].op = "loop" /\ t[i + 1].at = t[i].at
             /\ t[i].op = "loop" /\ i > 1 => t[i - 1].op = "run" /\ t[i - 1].at = t[i].at
             /\ t[i].op = "send" => i < Len(t) /\ t[i + 1].op = "try" /\ t[i + 1].at = t[i].at
             /\ Asks(t[i]) => i < Len(t) /\ t[i + 1].op = "install" /\ t[i + 1].at = t[i].at
  <2>1. CASE i = 1
    <3>1. s # << >> => 1 < Len(t) /\ t[2] = s[1] /\ 1 + 1 = 2
      BY <1>1, <1>2, <1>3, <1>5
    <3>. QED  BY <2>1, <3>1, <1>2
  <2>2. CASE i > 1
    <3>. DEFINE j == i - 1
    <3>1. j \in DOMAIN s /\ t[i] = s[j] /\ j \in Nat
      BY <1>4, <2>2
    <3>2. j < Len(s) => i < Len(t) /\ t[i + 1] = s[j + 1]
      <4>1. HAVE j < Len(s)
      <4>2. j + 1 \in 1..Len(s) /\ i + 1 = (j + 1) + 1 /\ i < Len(t)
        BY <4>1, <3>1, <1>2, <1>4
      <4>. QED  BY <4>2, <1>3
    <3>3. j > 1 => t[i - 1] = s[j - 1]
      <4>1. HAVE j > 1
      <4>2. j - 1 \in 1..Len(s) /\ i - 1 = (j - 1) + 1
        BY <4>1, <3>1, <1>5, <1>4
      <4>. QED  BY <4>2, <1>3
    <3>4. s[j].op \notin AtOnce
      BY <3>1 DEF Base
    <3>5. j = 1 => s[j].op # "loop"
      BY <3>1, <1>5 DEF Base
    <3>6. j = 1 \/ j > 1
      BY <3>1, <1>5
    <3>. HIDE DEF j
    <3>. QED  BY <3>1, <3>2, <3>3, <3>4, <3>5, <3>6 DEF Base, Shape, AtOnce
  <2>. QED  BY <2>1, <2>2, <1>4
<1>8. ASSUME NEW i \in DOMAIN t, NEW j \in DOMAIN t, t[i].at = t[j].at
      PROVE  /\ t[i].op = "loop" /\ t[j].op = "loop" => i = j
             /\ t[i].op \in Life \cup Ends /\ t[j].op \in Life \cup Ends => i = j
             /\ t[i].op = "uncount" /\ t[j].op = "uncount" => i = j
             /\ t[i].op = "uncount" /\ t[j].op \in Life \cup Ends => i < j
  <2>0. \A k \in DOMAIN s : In(s, s[k].op, s[k].at)
    BY DEF In
  <2>1. CASE i = 1 /\ j = 1
    BY <2>1, <1>2 DEF Life, Ends
  <2>2. CASE i = 1 /\ j > 1
    <3>1. j - 1 \in DOMAIN s /\ t[j] = s[j - 1]
      BY <1>4, <2>2
    <3>2. In(s, t[j].op, f.at)
      BY <3>1, <2>0, <2>2, <1>2, <1>8
    <3>. QED  BY <2>2, <3>2, <1>2, <1>4
  <2>3. CASE i > 1 /\ j = 1
    <3>1. i - 1 \in DOMAIN s /\ t[i] = s[i - 1]
      BY <1>4, <2>3
    <3>2. In(s, t[i].op, f.at)
      BY <3>1, <2>0, <2>3, <1>2, <1>8
    <3>. QED  BY <2>3, <3>2, <1>2, <1>4
  <2>4. CASE i > 1 /\ j > 1
    <3>1. i - 1 \in DOMAIN s /\ t[i] = s[i - 1] /\ j - 1 \in DOMAIN s /\ t[j] = s[j - 1] /\ i \in Nat /\ j \in Nat
      BY <1>4, <2>4
    <3>2. (i - 1 = j - 1 => i = j) /\ (i - 1 < j - 1 => i < j)
      BY <3>1
    <3>. QED  BY <3>1, <3>2, <1>8 DEF Base, Shape
  <2>. QED  BY <2>1, <2>2, <2>3, <2>4, <1>4
<1>9. Shape(t)
  BY <1>2, <1>7, <1>8 DEF Shape
<1>10. ASSUME f.op \notin AtOnce \cup {"loop"} PROVE Base(t)
  BY <1>2, <1>9, <1>10, BaseOfTop
<1>. QED  BY <1>2, <1>6, <1>9, <1>10 DEF t

\* The frames that may be anywhere.
PlainOps == {"add", "fire", "page", "returned"}
Plain == {f \in Frames : f.op \in PlainOps /\ ~ Asks(f)}

\* Plain frames may be pushed in any number: they change no loop, no request, no count.
LEMMA PushPlain ==
    ASSUME NEW s, Base(s), NEW p \in Seq(Plain)
    PROVE  /\ Base(p \o s)
           /\ \A op, x : op \notin PlainOps => (In(p \o s, op, x) <=> In(s, op, x))
           /\ \A op, x : In(p \o s, op, x) => In(p, op, x) \/ In(s, op, x)
<1>. DEFINE t == p \o s
            m == Len(p)
<1>1. s \in Seq(Frames) /\ p \in Seq(Frames) /\ m \in Nat /\ Len(s) \in Nat
  BY DEF Base, Shape, Plain
<1>2. t \in Seq(Frames) /\ Len(t) = Len(s) + m /\ DOMAIN t = 1..Len(t) /\ DOMAIN s = 1..Len(s)
  BY <1>1
<1>3. \A i \in 1..m : t[i] = p[i] /\ p[i] \in Plain
  BY <1>1
<1>4. \A i \in 1..Len(s) : t[m + i] = s[i]
  BY <1>1
<1>5. \A i \in DOMAIN t : i \in Nat /\ i >= 1 /\ (i \in 1..m \/ (i > m /\ i - m \in DOMAIN s /\ t[i] = s[i - m]))
  BY <1>1, <1>2
<1>6. \A op, x : op \notin PlainOps => (In(t, op, x) <=> In(s, op, x))
  <2>1. TAKE op, x
  <2>2. HAVE op \notin PlainOps
  <2>3. ~ In(p, op, x)
    BY <1>1, <2>2 DEF In, Plain
  <2>4. In(t, op, x) <=> In(p, op, x) \/ In(s, op, x)
    BY <1>1, InJoined
  <2>. QED  BY <2>3, <2>4
<1>. DEFINE n == Len(s)
            N == Len(t)
<1>0. m \in Nat /\ n \in Nat /\ N = n + m /\ DOMAIN s = 1..n /\ DOMAIN t = 1..N
  BY <1>1, <1>2
<1>. HIDE DEF t, m, n, N
<1>7. \A f \in Plain : f.op \notin AtOnce \cup Life \cup Ends \cup {"run", "loop", "uncount", "send", "install"} /\ ~ Asks(f)
  BY DEF Plain, PlainOps, AtOnce, Life, Ends
<1>8. ASSUME NEW i \in DOMAIN t
      PROVE  /\ t[i].op \notin AtOnce
             /\ t[i].op = "run" => i < Len(t) /\ t[i + 1].op = "loop" /\ t[i + 1].at = t[i].at
             /\ t[i].op = "loop" => i > 1 /\ t[i - 1].op = "run" /\ t[i - 1].at = t[i].at
             /\ t[i].op = "send" => i < Len(t) /\ t[i + 1].op = "try" /\ t[i + 1].at = t[i].at
             /\ Asks(t[i]) => i < Len(t) /\ t[i + 1].op = "install" /\ t[i + 1].at = t[i].at
  <2>1. CASE i \in 1..m
    BY <2>1, <1>3, <1>7
  <2>2. CASE i > m
    <3>. DEFINE j == i - m
    <3>1. j \in DOMAIN s /\ t[i] = s[j] /\ j \in Nat /\ i \in Nat /\ i = m + j
      BY <1>5, <2>2, <1>1
    <3>. HIDE DEF j
    <3>2. j < Len(s) => i < Len(t) /\ t[i + 1] = s[j + 1]
      <4>1. HAVE j < Len(s)
      <4>2. j < n
        BY <4>1 DEF n
      <4>3. j + 1 \in 1..n /\ i + 1 = m + (j + 1) /\ i < N
        BY <4>2, <3>1, <1>0
      <4>. QED  BY <4>3, <1>4 DEF n, N
    <3>3. j > 1 => i > 1 /\ t[i - 1] = s[j - 1]
      <4>1. HAVE j > 1
      <4>2. j - 1 \in 1..n /\ i - 1 = m + (j - 1) /\ i > 1
        BY <4>1, <3>1, <1>0
      <4>. QED  BY <4>2, <1>4 DEF n
    <3>4. s[j].op \notin AtOnce
      BY <3>1 DEF Base
    <3>5. j = 1 => s[j].op # "loop"
      BY <3>1, <1>2 DEF Base
    <3>6. j = 1 \/ j > 1
      BY <3>1, <1>2
    <3>. QED  BY <3>1, <3>2, <3>3, <3>4, <3>5, <3>6 DEF Base, Shape, AtOnce
  <2>. QED  BY <2>1, <2>2, <1>5
<1>9. ASSUME NEW i \in DOMAIN t, NEW j \in DOMAIN t, t[i].at = t[j].at
      PROVE  /\ t[i].op = "loop" /\ t[j].op = "loop" => i = j
             /\ t[i].op \in Life \cup Ends /\ t[j].op \in Life \cup Ends => i = j
             /\ t[i].op = "uncount" /\ t[j].op = "uncount" => i = j
             /\ t[i].op = "uncount" /\ t[j].op \in Life \cup Ends => i < j
  <2>1. CASE i \in 1..m \/ j \in 1..m
    BY <2>1, <1>3, <1>7
  <2>2. CASE i > m /\ j > m
    <3>1. i - m \in DOMAIN s /\ t[i] = s[i - m] /\ j - m \in DOMAIN s /\ t[j] = s[j - m] /\ i \in Nat /\ j \in Nat
      BY <1>5, <2>2, <1>1
    <3>2. (i - m = j - m => i = j) /\ (i - m < j - m => i < j)
      BY <3>1, <1>1
    <3>. QED  BY <3>1, <3>2, <1>9 DEF Base, Shape
  <2>. QED  BY <2>1, <2>2, <1>5
<1>10. Shape(t)
  BY <1>2, <1>8, <1>9 DEF Shape
<1>11. Base(t)
  <2>1. t # << >> => 1 \in DOMAIN t
    BY <1>2
  <2>2. t # << >> => t[1].op # "loop"
    BY <2>1, <1>8
  <2>. QED  BY <1>8, <1>10, <2>2 DEF Base
<1>12. \A op, x : In(t, op, x) => In(p, op, x) \/ In(s, op, x)
  BY <1>1, InJoined DEF t
<1>. QED  BY <1>6, <1>11, <1>12 DEF t

\* The first frame of the script, and what is below it.
LEMMA Tops ==
    ASSUME NEW s, Shape(s), s # << >>
    PROVE  /\ Head(s) \in Frames /\ Head(s) = s[1] /\ Tail(s) \in Seq(Frames) /\ s = <<Head(s)>> \o Tail(s)
           /\ Shape(Tail(s))
           /\ Head(s).op # "run" => Base(Tail(s))
           /\ \A op, x : In(s, op, x) <=> (Head(s).op = op /\ Head(s).at = x) \/ In(Tail(s), op, x)
           /\ Head(s).op \in Life \cup Ends =>
                 \A op \in Life \cup Ends \cup {"uncount"} : ~ In(Tail(s), op, Head(s).at)
           /\ Head(s).op = "uncount" => ~ In(Tail(s), "uncount", Head(s).at)
           /\ Head(s).op = "loop" => ~ In(Tail(s), "loop", Head(s).at)
           /\ \A op \in AtOnce : \A x : ~ In(Tail(s), op, x)
<1>1. s \in Seq(Frames)
  BY DEF Shape
<1>2. /\ Tail(s) \in Seq(Frames) /\ Len(s) \in Nat /\ Len(s) > 0 /\ Len(Tail(s)) = Len(s) - 1
      /\ \A i \in 1..Len(Tail(s)) : Tail(s)[i] = s[i + 1]
      /\ Head(s) = s[1] /\ s[1] \in Frames
  BY <1>1, TailIs
<1>3. s = <<Head(s)>> \o Tail(s)
  BY <1>1
<1>4. Shape(Tail(s))
  <2>1. Tail(s) = SubSeq(s, 2, Len(s)) /\ 2 \in 1..(Len(s) + 1)
    BY <1>1, <1>2
  <2>. QED  BY <2>1, ShapeOfSuffix
<1>5. Head(s).op # "run" => Base(Tail(s))
  BY <1>2, BaseOfTail
<1>6. ASSUME NEW op, NEW x
      PROVE  In(s, op, x) <=> (Head(s).op = op /\ Head(s).at = x) \/ In(Tail(s), op, x)
  <2>1. <<Head(s)>> \in Seq(Frames)
    BY <1>2
  <2>2. In(<<Head(s)>> \o Tail(s), op, x) <=> In(<<Head(s)>>, op, x) \/ In(Tail(s), op, x)
    BY <1>2, <2>1, InJoined
  <2>. QED  BY <2>2, <1>3, InOne
<1>7. ASSUME NEW op, NEW x, In(Tail(s), op, x)
      PROVE  \E i \in DOMAIN s : i > 1 /\ s[i].op = op /\ s[i].at = x
  <2>1. PICK i \in DOMAIN Tail(s) : Tail(s)[i].op = op /\ Tail(s)[i].at = x
    BY <1>7 DEF In
  <2>2. i + 1 \in DOMAIN s /\ i + 1 > 1 /\ Tail(s)[i] = s[i + 1]
    BY <1>1, <1>2
  <2>. QED  BY <2>1, <2>2
<1>8. 1 \in DOMAIN s
  BY <1>1, <1>2
<1>9. ASSUME NEW op, NEW x, In(Tail(s), op, x)
      PROVE  /\ op \notin AtOnce
             /\ Head(s).at = x => /\ ~ (Head(s).op = "loop" /\ op = "loop")
                                  /\ ~ (Head(s).op \in Life \cup Ends /\ op \in Life \cup Ends \cup {"uncount"})
                                  /\ ~ (Head(s).op = "uncount" /\ op = "uncount")
  <2>1. PICK i \in DOMAIN s : i > 1 /\ s[i].op = op /\ s[i].at = x
    BY <1>7, <1>9
  <2>2. i # 1 /\ ~ (i < 1) /\ Head(s) = s[1]
    BY <2>1, <1>1, <1>2
  <2>. QED  BY <2>1, <2>2, <1>8 DEF Shape
<1>. QED  BY <1>2, <1>3, <1>4, <1>5, <1>6, <1>9

\* What an exception leaves.
LEMMA Unwinding ==
    ASSUME NEW s, Shape(s)
    PROVE  LET t   == Unwound(s)
               cut == SubSeq(s, 1, Len(s) - Len(t))
           IN  /\ Shape(t)
               /\ t # << >> => Head(t).op = "catch" /\ In(s, "try", Head(t).at)
               /\ \A op, x : op # "catch" /\ In(t, op, x) => In(s, op, x)
               /\ \A op, x : op # "catch" /\ In(t, op, x) => \E i \in DOMAIN t : i > 1 /\ t[i].op = op /\ t[i].at = x
               /\ cut \in Seq(Frames)
               /\ \A op, x : In(cut, op, x) => In(s, op, x)
               /\ \A op, x : op # "try" /\ In(s, op, x) => In(t, op, x) \/ In(cut, op, x)
               /\ \A x : ~ (In(t, "uncount", x) /\ In(cut, "uncount", x))
               /\ s # << >> /\ Head(s).op = "send" =>
                     t # << >> /\ Head(t).at = Head(s).at /\ \A x : ~ In(cut, "uncount", x)
<1>. DEFINE tries == {i \in DOMAIN s : s[i].op = "try"}
            t     == Unwound(s)
            cut   == SubSeq(s, 1, Len(s) - Len(t))
<1>1. s \in Seq(Frames) /\ Len(s) \in Nat /\ DOMAIN s = 1..Len(s)
  BY DEF Shape
<1>2. CASE tries = {}
  <2>1. t = << >>
    BY <1>2 DEF Unwound
  <2>2. cut = s
    BY <1>1, <2>1
  <2>3. Shape(t)
    <3>1. << >> \in Seq(Frames) /\ DOMAIN << >> = {}
      OBVIOUS
    <3>. HIDE DEF t
    <3>. QED  BY <2>1, <3>1 DEF Shape
  <2>4. \A op, x : ~ In(t, op, x)
    BY <2>1 DEF In
  <2>5. s # << >> /\ Head(s).op = "send" => FALSE
    <3>1. HAVE s # << >> /\ Head(s).op = "send"
    <3>3. 1 \in DOMAIN s /\ Head(s) = s[1]
      BY <1>1, <3>1
    <3>4. 1 < Len(s) /\ s[1 + 1].op = "try"
      BY <3>1, <3>3 DEF Shape
    <3>5. 2 \in DOMAIN s /\ 1 + 1 = 2
      BY <3>4, <1>1
    <3>. QED  BY <3>4, <3>5, <1>2
  <2>. HIDE DEF t, cut
  <2>. QED  BY <2>1, <2>2, <2>3, <2>4, <2>5, <1>1 DEF t, cut
<1>3. CASE tries # {}
  <2>. DEFINE i == CHOOSE j \in tries : \A k \in tries : j <= k
  <2>1. i \in tries /\ \A k \in tries : i <= k
    <3>1. tries \in SUBSET Nat
      BY <1>1
    <3>2. \E j \in tries : \A k \in tries : j <= k
      BY <3>1, <1>3, LeastElement
    <3>. QED  BY <3>2
  <2>2. t = <<[s[i] EXCEPT !.op = "catch"]>> \o SubSeq(s, i + 1, Len(s))
    BY <1>3 DEF Unwound
  <2>. HIDE DEF i
  <2>3. i \in 1..Len(s) /\ s[i].op = "try" /\ i \in DOMAIN s /\ s[i] \in Frames
    BY <1>1, <2>1
  <2>. DEFINE f == [s[i] EXCEPT !.op = "catch"]
              u == SubSeq(s, i + 1, Len(s))
  <2>4. f \in Frames /\ f.op = "catch" /\ f.at = s[i].at
    <3>1. s[i] \in [op : Ops, at : Deferreds \cup Lists, arg : Args] /\ FrameOK(s[i])
      BY <2>3 DEF Frames
    <3>2. f \in [op : Ops, at : Deferreds \cup Lists, arg : Args] /\ f.op = "catch" /\ f.at = s[i].at
      BY <3>1 DEF Ops
    <3>3. s[i].at \in Requests
      BY <3>1, <2>3 DEF FrameOK, OfRequest, Ends
    <3>. HIDE DEF f
    <3>4. FrameOK(f)
      BY <3>2, <3>3 DEF FrameOK
    <3>. QED  BY <3>2, <3>4 DEF Frames
  <2>5. u \in Seq(Frames) /\ Len(u) = Len(s) - i /\ Shape(u)
      /\ \A k \in 1..Len(u) : k + i \in 1..Len(s) /\ u[k] = s[k + i]
    <3>1. i + 1 \in 1..(Len(s) + 1) /\ i \in Nat
      BY <2>3, <1>1
    <3>2. u \in Seq(Frames) /\ Len(u) = Len(s) - (i + 1) + 1
      BY <1>1, <3>1, Suffix
    <3>3. \A k \in 1..Len(u) : k + (i + 1) - 1 \in 1..Len(s) /\ u[k] = s[k + (i + 1) - 1]
      BY <1>1, <3>1, Suffix
    <3>4. Shape(u)
      BY <3>1, ShapeOfSuffix
    <3>5. \A k \in 1..Len(u) : k + (i + 1) - 1 = k + i
      BY <3>1
    <3>. HIDE DEF u
    <3>6. Len(u) = Len(s) - i
      BY <3>1, <3>2, <1>1
    <3>. QED  BY <3>2, <3>3, <3>4, <3>5, <3>6
  <2>6. Base(u)
    <3>1. ASSUME NEW k \in DOMAIN u PROVE u[k].op \notin AtOnce
      <4>1. k + i \in DOMAIN s /\ k + i # 1 /\ u[k] = s[k + i]
        BY <2>3, <2>5, <1>1
      <4>. QED  BY <4>1 DEF Shape
    <3>2. ASSUME u # << >> PROVE u[1].op # "loop"
      <4>1. 1 + i \in DOMAIN s /\ 1 + i > 1 /\ u[1] = s[1 + i] /\ (1 + i) - 1 = i
        BY <3>2, <2>3, <2>5, <1>1
      <4>. QED  BY <4>1, <2>3 DEF Shape
    <3>. QED  BY <3>1, <3>2, <2>5 DEF Base
  <2>7. ASSUME NEW op, NEW x, In(u, op, x)
        PROVE  \E k \in DOMAIN s : k > i /\ s[k].op = op /\ s[k].at = x
    <3>1. PICK k \in DOMAIN u : u[k].op = op /\ u[k].at = x
      BY <2>7 DEF In
    <3>2. k + i \in DOMAIN s /\ k + i > i /\ u[k] = s[k + i]
      BY <2>3, <2>5, <1>1
    <3>. QED  BY <3>1, <3>2
  <2>8. \A op \in Life \cup Ends \cup {"uncount"} : ~ In(u, op, f.at)
    <3>1. SUFFICES ASSUME NEW op \in Life \cup Ends \cup {"uncount"}, In(u, op, f.at) PROVE FALSE
      OBVIOUS
    <3>2. PICK k \in DOMAIN s : k > i /\ s[k].op = op /\ s[k].at = f.at
      BY <2>7, <3>1
    <3>3. k # i /\ ~ (k < i)
      BY <3>2, <2>3, <1>1
    <3>. QED  BY <3>2, <3>3, <2>3, <2>4 DEF Shape, Ends
  <2>9. /\ Shape(t) /\ t # << >> /\ Head(t) = f
        /\ \A op, x : In(t, op, x) <=> (f.op = op /\ f.at = x) \/ In(u, op, x)
    <3>. HIDE DEF f, u
    <3>1. t = <<f>> \o u
      BY <2>2 DEF f, u
    <3>. HIDE DEF t
    <3>2. f.op # "run" /\ f.op # "send" /\ ~ Asks(f) /\ f.op # "loop" /\ f.op # "uncount"
      BY <2>4 DEF Asks
    <3>. QED  BY <2>4, <2>6, <2>8, <3>1, <3>2, Push
  <2>10. cut \in Seq(Frames) /\ Len(cut) = i - 1 /\ \A k \in 1..(i - 1) : cut[k] = s[k]
    <3>1. Len(t) = Len(s) - i + 1
      BY <2>2, <2>5, <1>1, <2>3
    <3>2. Len(s) - Len(t) = i - 1 /\ i - 1 \in Nat /\ i - 1 <= Len(s)
      BY <3>1, <1>1, <2>3
    <3>. HIDE DEF t
    <3>. QED  BY <3>2, <1>1
  <2>. HIDE DEF t, cut, f, u
  <2>11. \A op, x : In(u, op, x) => In(s, op, x)
    BY <2>7 DEF In
  <2>12. ASSUME NEW op, NEW x, In(cut, op, x)
         PROVE  \E k \in DOMAIN s : k < i /\ s[k].op = op /\ s[k].at = x
    <3>1. PICK k \in DOMAIN cut : cut[k].op = op /\ cut[k].at = x
      BY <2>12 DEF In
    <3>2. k \in DOMAIN s /\ k < i /\ cut[k] = s[k]
      BY <2>3, <2>10, <1>1
    <3>. QED  BY <3>1, <3>2
  <2>13. ASSUME NEW op, NEW x, op # "try", In(s, op, x) PROVE In(u, op, x) \/ In(cut, op, x)
    <3>1. PICK k \in DOMAIN s : s[k].op = op /\ s[k].at = x
      BY <2>13 DEF In
    <3>2. CASE k < i
      <4>1. k \in DOMAIN cut /\ cut[k] = s[k]
        BY <3>2, <2>10, <2>3, <1>1
      <4>. QED  BY <3>1, <4>1 DEF In
    <3>3. CASE k > i
      <4>1. k - i \in DOMAIN u /\ (k - i) + i = k
        BY <3>3, <2>5, <2>3, <1>1
      <4>2. u[k - i] = s[k]
        BY <4>1, <2>5
      <4>. QED  BY <3>1, <4>1, <4>2 DEF In
    <3>4. k # i
      BY <3>1, <2>3, <2>13
    <3>. QED  BY <3>2, <3>3, <3>4, <2>3, <1>1
  <2>14. ASSUME NEW x PROVE ~ (In(t, "uncount", x) /\ In(cut, "uncount", x))
    <3>1. SUFFICES ASSUME In(u, "uncount", x), In(cut, "uncount", x) PROVE FALSE
      BY <2>9, <2>4
    <3>2. PICK k \in DOMAIN s : k > i /\ s[k].op = "uncount" /\ s[k].at = x
      BY <2>7, <3>1
    <3>3. PICK l \in DOMAIN s : l < i /\ s[l].op = "uncount" /\ s[l].at = x
      BY <2>12, <3>1
    <3>4. k # l
      BY <3>2, <3>3, <2>3, <1>1
    <3>. QED  BY <3>2, <3>3, <3>4 DEF Shape
  <2>15. ASSUME s # << >>, Head(s).op = "send"
         PROVE  f.at = Head(s).at /\ \A x : ~ In(cut, "uncount", x)
    <3>1. 1 \in DOMAIN s /\ Head(s) = s[1]
      BY <1>1, <2>15
    <3>2. 1 < Len(s) /\ s[1 + 1].op = "try" /\ s[1 + 1].at = s[1].at
      BY <3>1, <2>15 DEF Shape
    <3>3. 2 \in tries /\ s[2].at = s[1].at
      BY <3>2, <1>1
    <3>4. i = 2
      <4>1. i <= 2 /\ i # 1
        BY <3>1, <3>3, <2>1, <2>3, <2>15
      <4>. QED  BY <4>1, <2>3, <1>1
    <3>5. ASSUME NEW x, In(cut, "uncount", x) PROVE FALSE
      <4>1. PICK k \in DOMAIN s : k < i /\ s[k].op = "uncount" /\ s[k].at = x
        BY <2>12, <3>5
      <4>2. k = 1
        BY <4>1, <3>4, <1>1
      <4>. QED  BY <4>1, <4>2, <3>1, <2>15
    <3>. QED  BY <3>1, <3>3, <3>4, <3>5, <2>4
  <2>16. ASSUME NEW op, NEW x, op # "catch", In(t, op, x)
         PROVE  \E k \in DOMAIN t : k > 1 /\ t[k].op = op /\ t[k].at = x
    <3>1. In(u, op, x)
      BY <2>16, <2>9, <2>4
    <3>2. PICK k \in DOMAIN u : u[k].op = op /\ u[k].at = x
      BY <3>1 DEF In
    <3>3. t = <<f>> \o u /\ u \in Seq(Frames)
      BY <2>2, <2>5 DEF u, f
    <3>4. Len(u) \in Nat /\ DOMAIN u = 1..Len(u) /\ k \in Nat
      BY <3>2, <3>3
    <3>5. k + 1 \in DOMAIN t /\ t[k + 1] = u[k]
      BY <3>2, <3>3
    <3>6. k + 1 > 1
      BY <3>2, <3>4
    <3>. QED  BY <3>2, <3>5, <3>6
  <2>17. In(s, "try", f.at)
    BY <2>3, <2>4 DEF In
  <2>18. t # << >> /\ Head(t).op = "catch" /\ In(s, "try", Head(t).at)
    BY <2>4, <2>9, <2>17
  <2>19. \A op, x : op # "catch" /\ In(t, op, x) => In(s, op, x)
    BY <2>4, <2>9, <2>11
  <2>20. \A op, x : In(cut, op, x) => In(s, op, x)
    BY <2>12 DEF In
  <2>21. \A op, x : op # "try" /\ In(s, op, x) => In(t, op, x) \/ In(cut, op, x)
    BY <2>9, <2>13
  <2>22. s # << >> /\ Head(s).op = "send" =>
            t # << >> /\ Head(t).at = Head(s).at /\ \A x : ~ In(cut, "uncount", x)
    BY <2>9, <2>15
  <2>23. cut \in Seq(Frames) /\ Shape(t)
    BY <2>9, <2>10
  <2>. QED  BY <2>14, <2>16, <2>18, <2>19, <2>20, <2>21, <2>22, <2>23 DEF t, cut
<1>. QED  BY <1>2, <1>3

----------------------------------------------------------------------------
(* Names, frames and answers *)

\* Which names are requests, deferreds and lists, and which lists belong to whom.
LEMMA Names ==
    /\ Requests \subseteq Deferreds /\ Doc \in Deferreds /\ Doc \notin Requests /\ Page \notin Deferreds
    /\ Told \subseteq Lists /\ Fires \subseteq Told /\ PageList \in Lists \ Told /\ DoneList \in Fires
    /\ \A d \in Deferreds : /\ <<d, "done">> \in Told /\ <<d, "fail">> \in Told
                            /\ <<d, "progress">> \in Lists \ (Told \cup {PageList})
    /\ \A r \in Requests : <<r, "complete">> \in Fires /\ <<r, "done">> \in Fires /\ <<r, "fail">> \in Fires
    /\ \A l \in Told : l[1] \in Deferreds
    /\ PageList[1] = Page /\ PageList[2] = "list"
    /\ \A l \in Lists : l \in Told \/ l = PageList \/ \E d \in Deferreds : l = <<d, "progress">>
<1>1. /\ Doc \notin Requests /\ Page \notin Requests \cup {Doc} /\ Deferreds = Requests \cup {Doc}
      /\ Lists = AjaxLists \cup DocLists \cup {PageList}
  BY ListsAssumption
<1>2. Told \subseteq Lists
  BY <1>1 DEF Told, AjaxLists, DocLists
<1>3. \A d \in Deferreds : \A name : <<d, name>> # PageList
  BY <1>1 DEF PageList
<1>4. PageList \in Lists \ Told
  BY <1>1, <1>3 DEF Told
<1>5. \A d \in Deferreds : /\ <<d, "done">> \in Told /\ <<d, "fail">> \in Told
                           /\ <<d, "progress">> \in Lists \ (Told \cup {PageList})
  BY <1>1, <1>3 DEF Told, AjaxLists, DocLists
<1>6. \A r \in Requests : <<r, "complete">> \in Fires /\ <<r, "done">> \in Fires /\ <<r, "fail">> \in Fires
  BY <1>1 DEF Told, Fires
<1>7. DoneList \in Fires
  BY <1>1 DEF Told, Fires, DoneList
<1>8. \A l \in Told : l[1] \in Deferreds
  BY <1>1 DEF Told
<1>9. \A l \in Lists : l \in Told \/ l = PageList \/ \E d \in Deferreds : l = <<d, "progress">>
  BY <1>1 DEF Told, AjaxLists, DocLists
<1>. QED  BY <1>1, <1>2, <1>4, <1>5, <1>6, <1>7, <1>8, <1>9 DEF Fires, PageList

\* A frame, and its fields.
LEMMA FrameIs ==
    ASSUME NEW op \in Ops, NEW x \in Deferreds \cup Lists, NEW a \in Args, FrameOK(Frame(op, x, a))
    PROVE  Frame(op, x, a) \in Frames /\ Frame(op, x, a).op = op /\ Frame(op, x, a).at = x
           /\ Frame(op, x, a).arg = a
<1>1. Frame(op, x, a) \in [op : Ops, at : Deferreds \cup Lists, arg : Args]
  BY DEF Frame
<1>. QED  BY <1>1 DEF Frames, Frame

\* The frames of the library's own calls are plain.
LEMMA PlainFrames ==
    /\ \A l \in Told \cup {PageList}, f \in Attached : Frame("add", l, f) \in Plain
    /\ \A l \in Fires \cup {PageList}, a \in Datas \ {Nothing} : Frame("fire", l, a) \in Plain
    /\ \A x \in Deferreds, name \in HookNames : Frame("page", x, [hook |-> name]) \in Plain
    /\ \A r \in Requests : Frame("returned", r, Nothing) \in Plain
<1>1. ASSUME NEW l \in Told \cup {PageList}, NEW f \in Attached PROVE Frame("add", l, f) \in Plain
  <2>1. "add" \in Ops /\ l \in Deferreds \cup Lists /\ f \in Args
    BY Names DEF Ops, Args
  <2>2. FrameOK(Frame("add", l, f))
    BY DEF FrameOK, Frame, OfRequest, Life, Ends
  <2>. QED  BY <2>1, <2>2, FrameIs DEF Plain, PlainOps, Asks
<1>2. ASSUME NEW l \in Fires \cup {PageList}, NEW a \in Datas \ {Nothing} PROVE Frame("fire", l, a) \in Plain
  <2>1. "fire" \in Ops /\ l \in Deferreds \cup Lists /\ a \in Args
    BY Names DEF Ops, Args
  <2>2. FrameOK(Frame("fire", l, a))
    BY DEF FrameOK, Frame, OfRequest, Life, Ends
  <2>. QED  BY <2>1, <2>2, FrameIs DEF Plain, PlainOps, Asks
<1>3. ASSUME NEW x \in Deferreds, NEW name \in HookNames
      PROVE  Frame("page", x, [hook |-> name]) \in Plain
  <2>1. "page" \in Ops /\ x \in Deferreds \cup Lists /\ [hook |-> name] \in Args
    BY DEF Ops, Args
  <2>2. FrameOK(Frame("page", x, [hook |-> name]))
    BY DEF FrameOK, Frame, OfRequest, Life, Ends
  <2>3. name # "beforeSend" /\ [hook |-> name].hook = name
    BY DEF HookNames
  <2>. QED  BY <2>1, <2>2, <2>3, FrameIs DEF Plain, PlainOps, Asks
<1>4. ASSUME NEW r \in Requests PROVE Frame("returned", r, Nothing) \in Plain
  <2>1. "returned" \in Ops /\ r \in Deferreds \cup Lists /\ Nothing \in Args
    BY Names DEF Ops, Args, Datas, Nothing, Data
  <2>2. FrameOK(Frame("returned", r, Nothing))
    BY DEF FrameOK, Frame, OfRequest, Life, Ends
  <2>. QED  BY <2>1, <2>2, FrameIs DEF Plain, PlainOps, Asks
<1>. QED  BY <1>1, <1>2, <1>3, <1>4

\* The other frames the actions push.
LEMMA OtherFrames ==
    /\ \A f \in Attached : Frame("remove", PageList, f) \in Frames
    /\ \A op \in {"empty", "disable", "lock"} : Frame(op, PageList, Nothing) \in Frames
    /\ \A wait \in BOOLEAN : Frame("ready", Doc, [wait |-> wait]) \in Frames
    /\ \A l \in Fires \cup {PageList} : Frame("loop", l, Nothing) \in Frames
    /\ \A l \in Fires \cup {PageList}, f \in Attached : Frame("run", l, f) \in Frames
    /\ \A r \in Requests :
          /\ Frame("page", r, [hook |-> "beforeSend"]) \in Frames
          /\ \A b \in BOOLEAN : Frame("install", r, [refused |-> b]) \in Frames
          /\ \A op \in {"begin", "transport", "timeout", "send", "try", "uncount"} : Frame(op, r, Nothing) \in Frames
          /\ \A op \in {"abort", "finish"}, a \in Answers : Frame(op, r, a) \in Frames
<1>0. Nothing \in Datas
  BY DEF Datas, Nothing, Data
<1>1. Nothing \in Args /\ Attached \subseteq Args /\ Answers \subseteq Args
      /\ (\A b \in BOOLEAN : [wait |-> b] \in Args /\ [refused |-> b] \in Args) /\ [hook |-> "beforeSend"] \in Args
  BY <1>0 DEF Args
<1>2. Requests \subseteq Deferreds \cup Lists /\ Doc \in Deferreds \cup Lists /\ Fires \cup {PageList} \subseteq Deferreds \cup Lists
  BY Names
<1>3. ASSUME NEW f \in Attached PROVE Frame("remove", PageList, f) \in Frames
  <2>1. FrameOK(Frame("remove", PageList, f))
    BY DEF FrameOK, Frame, OfRequest, Life, Ends
  <2>. QED  BY <1>1, <1>2, <2>1, FrameIs DEF Ops
<1>4. ASSUME NEW op \in {"empty", "disable", "lock"} PROVE Frame(op, PageList, Nothing) \in Frames
  <2>1. FrameOK(Frame(op, PageList, Nothing))
    BY DEF FrameOK, Frame, OfRequest, Life, Ends
  <2>. QED  BY <1>1, <1>2, <2>1, FrameIs DEF Ops
<1>5. ASSUME NEW wait \in BOOLEAN PROVE Frame("ready", Doc, [wait |-> wait]) \in Frames
  <2>1. FrameOK(Frame("ready", Doc, [wait |-> wait]))
    BY DEF FrameOK, Frame, OfRequest, Life, Ends
  <2>. QED  BY <1>1, <1>2, <2>1, FrameIs DEF Ops
<1>6. ASSUME NEW l \in Fires \cup {PageList} PROVE Frame("loop", l, Nothing) \in Frames
  <2>1. FrameOK(Frame("loop", l, Nothing))
    BY DEF FrameOK, Frame, OfRequest, Life, Ends
  <2>. QED  BY <1>1, <1>2, <2>1, FrameIs DEF Ops
<1>7. ASSUME NEW l \in Fires \cup {PageList}, NEW f \in Attached PROVE Frame("run", l, f) \in Frames
  <2>1. FrameOK(Frame("run", l, f))
    BY DEF FrameOK, Frame, OfRequest, Life, Ends
  <2>. QED  BY <1>1, <1>2, <2>1, FrameIs DEF Ops
<1>8. ASSUME NEW r \in Requests PROVE Frame("page", r, [hook |-> "beforeSend"]) \in Frames
  <2>1. FrameOK(Frame("page", r, [hook |-> "beforeSend"]))
    BY DEF FrameOK, Frame, OfRequest, Life, Ends
  <2>. QED  BY <1>1, <1>2, <2>1, FrameIs DEF Ops
<1>9. ASSUME NEW r \in Requests, NEW b \in BOOLEAN PROVE Frame("install", r, [refused |-> b]) \in Frames
  <2>1. FrameOK(Frame("install", r, [refused |-> b]))
    BY DEF FrameOK, Frame, OfRequest, Life, Ends
  <2>. QED  BY <1>1, <1>2, <2>1, FrameIs DEF Ops
<1>10. ASSUME NEW r \in Requests, NEW op \in {"begin", "transport", "timeout", "send", "try", "uncount"}
       PROVE  Frame(op, r, Nothing) \in Frames
  <2>1. FrameOK(Frame(op, r, Nothing))
    BY DEF FrameOK, Frame, OfRequest, Life, Ends
  <2>. QED  BY <1>1, <1>2, <2>1, FrameIs DEF Ops
<1>11. ASSUME NEW r \in Requests, NEW op \in {"abort", "finish"}, NEW a \in Answers
       PROVE  Frame(op, r, a) \in Frames
  <2>1. FrameOK(Frame(op, r, a))
    BY DEF FrameOK, Frame, OfRequest, Life, Ends
  <2>. QED  BY <1>1, <1>2, <2>1, FrameIs DEF Ops
<1>. QED  BY <1>3, <1>4, <1>5, <1>6, <1>7, <1>8, <1>9, <1>10, <1>11

\* The answers of the browser and those the library makes up are answers a completion may get.
LEMMA SomeAnswers ==
    /\ Responses \subseteq Answers
    /\ Answer(-1, "No Transport") \in Answers /\ Answer(-1, "exception") \in Answers
    /\ \A t \in {"canceled", "abort", "timeout"} : Answer(0, t) \in Answers
<1>1. Responses \subseteq Answers
  BY ResponseAssumption DEF Answers
<1>2. Answer(-1, "No Transport") \in Broken /\ Answer(-1, "exception") \in Broken
      /\ \A t \in {"canceled", "abort", "timeout"} : Answer(0, t) \in Broken
  BY DEF Broken, Answer
<1>3. \A n, t : Answer(n, t).status = n /\ Answer(n, t).text = t
  BY DEF Answer
<1>4. \A b \in Broken : (b.status = 0 => b.text \in {"", "timeout", "abort", "canceled"}) => b \in Answers
  BY DEF Answers
<1>5. Answer(-1, "No Transport") \in Answers /\ Answer(-1, "exception") \in Answers
  <2>1. Answer(-1, "No Transport").status # 0 /\ Answer(-1, "exception").status # 0
    BY DEF Answer
  <2>. QED  BY <1>2, <1>4, <2>1
<1>6. \A t \in {"canceled", "abort", "timeout"} : Answer(0, t) \in Answers
  BY <1>2, <1>3, <1>4
<1>. QED  BY <1>1, <1>5, <1>6

\* done() finds a text for every answer, and the data it fires are data.
LEMMA OutcomeIs ==
    ASSUME NEW r \in Requests, NEW a \in Answers
    PROVE  /\ Outcome(r, a).text \in Texts \ {"none"} /\ Outcome(r, a).good \in BOOLEAN
           /\ Data(Outcome(r, a).text) \in Datas \ {Nothing}
<1>1. \A types : Convert(types, a) \in {"success", "parsererror"}
  BY DEF Convert
<1>2. a.status = 0 => a.text \in {"", "timeout", "abort", "canceled"}
  BY DEF Answers
<1>3. Outcome(r, a).text \in Texts \ {"none"} /\ Outcome(r, a).good \in BOOLEAN
  <2>1. CASE a.status = 304
    BY <2>1 DEF Outcome, Texts
  <2>2. CASE a.status # 304 /\ a.status \in 200..299
    <3>. DEFINE s == Convert(HandleResponses(DataTypes[r], a), a)
    <3>1. s \in {"success", "parsererror"}
      BY <1>1
    <3>2. Outcome(r, a) = [good |-> s = "success", text |-> s]
      BY <2>2 DEF Outcome
    <3>. HIDE DEF s
    <3>. QED  BY <3>1, <3>2 DEF Texts
  <2>3. CASE a.status # 304 /\ a.status \notin 200..299
    <3>. DEFINE t == IF a.status # 0 \/ a.text = "" THEN "error" ELSE a.text
    <3>1. Outcome(r, a) = [good |-> FALSE, text |-> t]
      BY <2>3 DEF Outcome
    <3>2. t \in {"error", "timeout", "abort", "canceled"}
      BY <1>2
    <3>. HIDE DEF t
    <3>3. Outcome(r, a).text = t /\ Outcome(r, a).good \in BOOLEAN
      BY <3>1
    <3>. QED  BY <3>2, <3>3 DEF Texts
  <2>. QED  BY <2>1, <2>2, <2>3
<1>4. "nothing" \notin Texts
  BY DEF Texts
<1>. QED  BY <1>3, <1>4 DEF Datas, Data, Nothing

----------------------------------------------------------------------------
(* What the steps make of the script *)

\* Concatenation is associative, and the empty sequence adds nothing.
LEMMA Joining ==
    ASSUME NEW A, NEW p \in Seq(A), NEW q \in Seq(A), NEW s \in Seq(A)
    PROVE  (p \o q) \o s = p \o (q \o s) /\ << >> \o s = s /\ p \o << >> = p
OBVIOUS

\* Two frames are one after the other.
LEMMA Pair ==
    ASSUME NEW A, NEW f \in A, NEW g \in A
    PROVE  <<f, g>> = <<f>> \o <<g>> /\ <<f, g>> \in Seq(A)
<1>. DEFINE s == <<f>> \o <<g>>
            t == <<f, g>>
<1>1. s \in Seq(A) /\ Len(s) = 2 /\ s[1] = f /\ s[2] = g
  OBVIOUS
<1>2. t \in Seq(A) /\ Len(t) = 2 /\ t[1] = f /\ t[2] = g
  OBVIOUS
<1>. HIDE DEF s, t
<1>3. \A i \in 1..2 : s[i] = t[i]
  BY <1>1, <1>2
<1>4. s = t
  BY <1>1, <1>2, <1>3, SeqEqual
<1>. QED  BY <1>2, <1>4 DEF s, t

\* Where calls may be pushed, no call just made and no loop is first.
LEMMA OnBase ==
    ASSUME NEW s, Base(s), s # << >>
    PROVE  Head(s).op \notin AtOnce \cup {"loop"}
<1>1. Head(s) = s[1] /\ 1 \in DOMAIN s
  BY DEF Base, Shape
<1>. QED  BY <1>1 DEF Base

\* Of a loop, a request's life or its count, there is one frame.
LEMMA OneOfAKind ==
    ASSUME NEW s, Shape(s), s # << >>, Head(s).op \in Kinds
    PROVE  ~ In(Tail(s), Head(s).op, Head(s).at)
<1>1. CASE Head(s).op \in Life \cup Ends
  <2>1. \A op \in Life \cup Ends \cup {"uncount"} : ~ In(Tail(s), op, Head(s).at)
    BY <1>1, Tops
  <2>. QED  BY <1>1, <2>1
<1>2. CASE Head(s).op = "uncount"
  BY <1>2, Tops
<1>3. CASE Head(s).op = "loop"
  BY <1>3, Tops
<1>. QED  BY <1>1, <1>2, <1>3 DEF Kinds, Counts

\* The first frame is replaced by plain ones.
LEMMA Popped ==
    ASSUME NEW s, Shape(s), s # << >>, Head(s).op # "run", NEW p \in Seq(Plain), NEW t, t = p \o Tail(s)
    PROVE  /\ Base(t) /\ Shape(t)
           /\ \A op \in Kinds : \A x : In(t, op, x) <=> In(s, op, x) /\ ~ (Head(s).op = op /\ Head(s).at = x)
           /\ \A x : In(t, "fire", x) => In(p, "fire", x) \/ In(s, "fire", x)
<1>1. Base(Tail(s))
  BY Tops
<1>2. \A op, x : In(s, op, x) <=> (Head(s).op = op /\ Head(s).at = x) \/ In(Tail(s), op, x)
  BY Tops
<1>3. \A op \in Kinds : \A x : Head(s).op = op /\ Head(s).at = x => ~ In(Tail(s), op, x)
  BY OneOfAKind
<1>4. \A op \in Kinds : op \notin PlainOps
  BY DEF Kinds, Counts, Life, Ends, PlainOps
<1>5. /\ Base(t)
      /\ \A op, x : op \notin PlainOps => (In(t, op, x) <=> In(Tail(s), op, x))
      /\ \A op, x : In(t, op, x) => In(p, op, x) \/ In(Tail(s), op, x)
  BY <1>1, PushPlain
<1>. QED  BY <1>2, <1>3, <1>4, <1>5 DEF Base

\* The first frame gives way to some that may be anywhere, and then one that may not.
Fits(f, s) == /\ f \in Frames /\ f.op \notin {"run", "send", "fire"} /\ ~ Asks(f)
              /\ f.op = "loop" => ~ In(s, "loop", f.at)
              /\ f.op \in Life \cup Ends => \A op \in Counts : ~ In(s, op, f.at)
              /\ f.op = "uncount" => ~ In(s, "uncount", f.at)

\* A frame that fits is pushed.
LEMMA PushFit ==
    ASSUME NEW s, Base(s), NEW f, Fits(f, s)
    PROVE  /\ Shape(<<f>> \o s) /\ <<f>> \o s # << >> /\ Head(<<f>> \o s) = f
           /\ f.op \notin AtOnce \cup {"loop"} => Base(<<f>> \o s)
           /\ \A op, x : In(<<f>> \o s, op, x) <=> (f.op = op /\ f.at = x) \/ In(s, op, x)
BY Push DEF Fits, Counts

\* The first frame is replaced by one that fits.
LEMMA Replaced ==
    ASSUME NEW s, Shape(s), s # << >>, Head(s).op # "run", NEW f, Fits(f, Tail(s)), NEW t, t = <<f>> \o Tail(s)
    PROVE  /\ Shape(t) /\ t # << >> /\ Head(t) = f
           /\ f.op \notin AtOnce \cup {"loop"} => Base(t)
           /\ \A op \in Kinds : \A x : In(t, op, x) <=> \/ f.op = op /\ f.at = x
                                                        \/ In(s, op, x) /\ ~ (Head(s).op = op /\ Head(s).at = x)
           /\ \A x : In(t, "fire", x) => In(s, "fire", x)
<1>1. Base(Tail(s))
  BY Tops
<1>2. \A op, x : In(s, op, x) <=> (Head(s).op = op /\ Head(s).at = x) \/ In(Tail(s), op, x)
  BY Tops
<1>3. \A op \in Kinds : \A x : Head(s).op = op /\ Head(s).at = x => ~ In(Tail(s), op, x)
  BY OneOfAKind
<1>4. /\ Shape(t) /\ t # << >> /\ Head(t) = f
      /\ f.op \notin AtOnce \cup {"loop"} => Base(t)
      /\ \A op, x : In(t, op, x) <=> (f.op = op /\ f.at = x) \/ In(Tail(s), op, x)
  BY <1>1, PushFit
<1>5. f.op # "fire"
  BY DEF Fits
<1>. QED  BY <1>2, <1>3, <1>4, <1>5

\* The page's code, or an event, calls the library.
Opens(s) == Shape(s) /\ (s = << >> \/ Head(s).op \in {"run", "page"})

\* Where the page's code runs, calls may be pushed.
LEMMA OpensIs ==
    ASSUME NEW s, Opens(s)
    PROVE  Base(s)
<1>1. s # << >> => s[1] = Head(s)
  BY DEF Opens, Shape
<1>. QED  BY <1>1, BaseOfTop DEF Opens, AtOnce

\* The page's code makes plain calls.
LEMMA Called ==
    ASSUME NEW s, Opens(s), NEW p \in Seq(Plain), NEW t, t = p \o s
    PROVE  /\ Base(t) /\ Shape(t)
           /\ \A op \in Kinds : \A x : In(t, op, x) <=> In(s, op, x)
           /\ \A x : In(t, "fire", x) => In(p, "fire", x) \/ In(s, "fire", x)
<1>1. \A op \in Kinds : op \notin PlainOps
  BY DEF Kinds, Counts, Life, Ends, PlainOps
<1>. QED  BY <1>1, OpensIs, PushPlain DEF Base

\* The page's code makes a call that is taken at once.
LEMMA CalledOne ==
    ASSUME NEW s, Opens(s), NEW f \in Frames, f.op \in AtOnce \ {"send", "catch"}, NEW t, t = <<f>> \o s
    PROVE  /\ Shape(t) /\ t # << >> /\ Head(t) = f
           /\ \A op \in Kinds : \A x : In(t, op, x) <=> In(s, op, x)
           /\ \A x : In(t, "fire", x) => In(s, "fire", x)
<1>1. Fits(f, s) /\ f.op \notin Kinds /\ f.op # "fire"
  BY DEF Fits, AtOnce, Kinds, Counts, Life, Ends, Asks
<1>. QED  BY <1>1, OpensIs, PushFit

\* Sequences of plain frames, hooks among them.
LEMMA PlainSeqs ==
    /\ << >> \in Seq(Plain)
    /\ \A f \in Plain : <<f>> \in Seq(Plain) /\ \A x : In(<<f>>, "fire", x) => f.op = "fire" /\ f.at = x
    /\ \A p, q \in Seq(Plain) : p \o q \in Seq(Plain)
    /\ \A x \in Deferreds, name \in HookNames : /\ Hook(name, x) \in Seq(Plain)
                                               /\ \A l : ~ In(Hook(name, x), "fire", l)
<1>1. ASSUME NEW f \in Plain PROVE <<f>> \in Seq(Plain) /\ \A x : In(<<f>>, "fire", x) => f.op = "fire" /\ f.at = x
  BY InOne
<1>2. ASSUME NEW x \in Deferreds, NEW name \in HookNames
      PROVE  Hook(name, x) \in Seq(Plain) /\ \A l : ~ In(Hook(name, x), "fire", l)
  <2>1. Frame("page", x, [hook |-> name]) \in Plain /\ Frame("page", x, [hook |-> name]).op # "fire"
    BY PlainFrames DEF Frame
  <2>. QED  BY <2>1, <1>1 DEF Hook, In
<1>. QED  BY <1>1, <1>2

----------------------------------------------------------------------------
(* What the steps leave alone *)

\* Only those that count, end, send or catch a request touch what is counted.
LEMMA RequestsKept ==
    ASSUME RequestsInv, ~ On("catch"), ~ On("try"), ~ On("send"), ~ On("finish"),
           early' = early, active' = active, lost' = lost,
           rq' = [r \in Requests |-> rq'[r]],
           \A r \in Requests : /\ rq'[r] \in Variables
                               /\ rq'[r].state = rq[r].state /\ rq'[r].counted = rq[r].counted
                               /\ rq[r].posted => rq'[r].posted,
           \A op \in Counts : \A x : In(todo', op, x) <=> In(todo, op, x)
    PROVE  RequestsInv'
<1>1. ASSUME NEW r \in Requests PROVE RqOK(r)'
  <2>1. RqOK(r)
    BY DEF RequestsInv
  <2>2. \A op \in Life \cup Ends \cup {"uncount"} : In(todo', op, r) <=> In(todo, op, r)
    BY DEF Counts
  <2>3. Life \subseteq Counts /\ "try" \in Counts /\ "uncount" \in Counts
        /\ {"begin", "install", "transport", "timeout"} \subseteq Counts
    BY DEF Counts, Life, Ends
  <2>4. rq[r].counted => rq[r].posted
    BY <2>1 DEF RqOK
  <2>5. ~ rq'[r].posted => /\ ~ rq'[r].counted
                           /\ \A op \in Life \cup Ends \cup {"uncount"} : ~ In(todo', op, r)
    BY <2>1, <2>2 DEF RqOK
  <2>6. /\ In(todo', "begin", r) => ~ rq'[r].counted
        /\ \A op \in {"install", "transport", "timeout"} : In(todo', op, r) => rq'[r].counted
    BY <2>1, <2>3 DEF RqOK
  <2>7. \A op \in Life : In(todo', op, r) => r \notin early' /\ <<"uncount", r>> \notin lost'
    BY <2>1, <2>3 DEF RqOK
  <2>8. /\ In(todo', "uncount", r) => /\ rq'[r].counted /\ rq'[r].state = 2
                                      /\ <<"uncount", r>> \notin lost'
        /\ <<"uncount", r>> \in lost' => rq'[r].counted /\ rq'[r].state = 2
        /\ r \in early' => rq'[r].counted
    BY <2>1, <2>3 DEF RqOK
  <2>9. In(todo', "try", r) => rq'[r].state = 2
    BY <2>1, <2>3 DEF RqOK, TopIs
  <2>. QED  BY <2>5, <2>6, <2>7, <2>8, <2>9 DEF RqOK
<1>2. "uncount" \in Counts
  BY DEF Counts
<1>3. UnderWay' = UnderWay /\ ToUncount' = ToUncount /\ LostOnes' = LostOnes
  BY <1>2 DEF UnderWay, ToUncount, LostOnes
<1>. QED  BY <1>1, <1>3 DEF RequestsInv

\* A step that leaves the requests and their frames alone keeps their invariant.
LEMMA RequestsSame ==
    ASSUME RequestsInv, ~ On("catch"), ~ On("try"), ~ On("send"), ~ On("finish"),
           early' = early, active' = active, lost' = lost, rq' = rq,
           \A op \in Counts : \A x : In(todo', op, x) <=> In(todo, op, x)
    PROVE  RequestsInv'
<1>1. rq' = [r \in Requests |-> rq'[r]]
  BY DEF RequestsInv
<1>2. \A r \in Requests : rq'[r] \in Variables
  BY DEF RequestsInv, RqOK
<1>. QED  BY <1>1, <1>2, RequestsKept

\* Nor do most touch the ready event.
LEMMA ReadyKept ==
    ASSUME ReadyInv, ready' = ready, settled'[Doc] = settled[Doc],
           ~ On("ready"), ~ TopIs("fire", DoneList), TopIs("loop", DoneList) => settled[Doc] = "resolved",
           ~ On("ready")',
           In(todo', "fire", DoneList) => In(todo, "fire", DoneList),
           In(todo', "loop", DoneList) => In(todo, "loop", DoneList)
    PROVE  ReadyInv'
<1>1. ~ TopReady(TRUE) /\ ~ TopReady(FALSE) /\ ~ TopReady(TRUE)' /\ ~ TopReady(FALSE)'
  BY DEF TopReady
<1>2. isReady /\ held = 0 => settled[Doc] = "resolved"
  BY <1>1 DEF ReadyInv, ReadyEvents
<1>3. UNCHANGED <<readyState, calledBy, readyList, isReady, readyWait, held>>
  BY DEF ready
<1>4. ReadyCounts'
  BY <1>1, <1>3 DEF ReadyInv, ReadyCounts
<1>5. ReadyEvents'
  BY <1>1, <1>2, <1>3 DEF ReadyInv, ReadyEvents
<1>. QED  BY <1>4, <1>5 DEF ReadyInv

\* A list that is not touched, and whose loop goes on as before.
Same(l) == /\ lists'[l] = lists[l] /\ added'[l] = added[l] /\ called'[l] = called[l]
           /\ In(todo', "loop", l) <=> In(todo, "loop", l)
           /\ TopIs("loop", l)' <=> TopIs("loop", l)

\* What holds of a list still holds when neither it nor its loop is touched.
LEMMA SameList ==
    ASSUME NEW l, Same(l)
    PROVE  /\ ListOK(l) => ListOK(l)'
           /\ TellsOnce(l) => TellsOnce(l)'
           /\ Fresh(l) => Fresh(l)'
           /\ Gone(l) => Gone(l)'
           /\ Prep(l) => Prep(l)'
           /\ Over(l) => Over(l)'
           /\ l = PageList /\ PageOK => PageOK'
<1>1. /\ lists'[l] = lists[l] /\ added'[l] = added[l] /\ called'[l] = called[l]
      /\ In(todo', "loop", l) <=> In(todo, "loop", l)
      /\ TopIs("loop", l)' <=> TopIs("loop", l)
  BY DEF Same
<1>2. Running(l)' = Running(l)
  BY <1>1 DEF Running
<1>3. ListOK(l) => ListOK(l)'
  BY <1>1 DEF ListOK
<1>4. TellsOnce(l) => TellsOnce(l)'
  BY <1>1 DEF TellsOnce
<1>5. (Fresh(l) => Fresh(l)') /\ (Gone(l) => Gone(l)') /\ (HasFired(l) => HasFired(l)')
      /\ (Prefix(l) => Prefix(l)')
  BY <1>1 DEF Fresh, Gone, HasFired, Prefix
<1>6. Prep(l) => Prep(l)'
  BY <1>1, <1>5 DEF Prep
<1>7. Rest(l) => Rest(l)'
  BY <1>1, <1>5 DEF Rest
<1>8. Stuck(l) => Stuck(l)'
  BY <1>1, <1>5 DEF Stuck
<1>9. Calling(l) => Calling(l)'
  BY <1>1, <1>2, <1>5 DEF Calling
<1>10. ASSUME l = PageList, PageOK PROVE PageOK'
  BY <1>1, <1>2, <1>10 DEF PageOK
<1>. QED  BY <1>3, <1>4, <1>5, <1>6, <1>7, <1>8, <1>9, <1>10 DEF Over

\* A function, changed at one place.
LEMMA Updated ==
    ASSUME NEW S, NEW f, f = [x \in S |-> f[x]], NEW l \in S, NEW v, NEW g, g = [f EXCEPT ![l] = v]
    PROVE  g = [x \in S |-> g[x]] /\ g[l] = v /\ \A m \in S : m # l => g[m] = f[m]
OBVIOUS

\* Only one list that tells is touched.
LEMMA OneToldList ==
    ASSUME ListsInv, NEW l \in Told, \A m \in Lists : m # l => Same(m), settled' = settled,
           lists' = [m \in Lists |-> lists'[m]],
           added' = [m \in Lists |-> added'[m]], called' = [m \in Lists |-> called'[m]],
           ListOK(l)', TellsOnce(l)', l[2] # "complete" => ~ Prep(l),
           Fresh(l) => Fresh(l)' \/ (l[2] = "complete" /\ Over(l)'), Gone(l) => Gone(l)', Over(l) => Over(l)'
    PROVE  ListsInv'
<1>1. l \in Lists /\ l # PageList /\ PageList \in Lists
  BY Names
<1>2. \A m \in Lists : ListOK(m)'
  BY SameList DEF ListsInv
<1>3. \A m \in Told : TellsOnce(m)'
  BY SameList, Names DEF ListsInv
<1>4. \A m \in Lists : /\ (m = l /\ l[2] = "complete") \/ (Fresh(m) => Fresh(m)')
                       /\ (Gone(m) => Gone(m)') /\ (Over(m) => Over(m)')
                       /\ (m = l /\ l[2] = "complete") \/ (Prep(m) => Prep(m)' /\ lists'[m] = lists[m])
  BY SameList DEF Same
<1>5. ASSUME NEW d \in Deferreds PROVE DeferredOK(d)'
  <2>0. DeferredOK(d) /\ <<d, "done">> \in Lists /\ <<d, "fail">> \in Lists
    BY Names DEF ListsInv
  <2>1. /\ <<d, "done">> \in Lists /\ <<d, "fail">> \in Lists /\ DeferredOK(d)
        /\ \A name \in {"done", "fail"} : <<d, name>>[2] # "complete"
    BY <2>0
  <2>2. Open(d) => Open(d)'
    BY <1>4, <2>1 DEF Open
  <2>3. ASSUME NEW o \in {"done", "fail"} PROVE (Turning(d, o) => Turning(d, o)') /\ (Turned(d, o) => Turned(d, o)')
    <3>. DEFINE k == <<d, o>>
                e == <<d, Other(o)>>
    <3>1. k \in Lists /\ e \in Lists /\ k[2] # "complete" /\ e[2] # "complete"
      BY <2>1 DEF Other
    <3>2. Turning(d, o) => Prep(k)
      BY DEF Turning
    <3>. HIDE DEF k, e
    <3>3. /\ (Fresh(e) => Fresh(e)') /\ (Gone(e) => Gone(e)') /\ (Over(k) => Over(k)')
          /\ (Prep(k) => Prep(k)' /\ lists'[k] = lists[k])
      BY <1>4, <3>1
    <3>. QED  BY <3>2, <3>3 DEF Turning, Turned, k, e
  <2>. QED  BY <2>1, <2>2, <2>3 DEF DeferredOK
<1>6. ASSUME NEW r \in Requests PROVE CompleteOK(r)'
  <2>1. CompleteOK(r) /\ <<r, "complete">> \in Lists
    BY Names DEF ListsInv
  <2>. QED  BY <1>4, <2>1 DEF CompleteOK
<1>7. PageOK'
  BY <1>1, SameList DEF ListsInv
<1>. QED  BY <1>2, <1>3, <1>5, <1>6, <1>7 DEF ListsInv

\* Only the page's list is touched.
LEMMA OnlyPageList ==
    ASSUME ListsInv, \A m \in Lists : m # PageList => Same(m), settled' = settled,
           lists' = [m \in Lists |-> lists'[m]],
           added' = [m \in Lists |-> added'[m]], called' = [m \in Lists |-> called'[m]],
           ListOK(PageList)', PageOK'
    PROVE  ListsInv'
<1>1. PageList \notin Told
  BY Names
<1>2. \A m \in Lists : ListOK(m)'
  BY SameList DEF ListsInv
<1>3. \A m \in Told : TellsOnce(m)'
  BY <1>1, SameList, Names DEF ListsInv
<1>4. \A m \in Told : (Fresh(m) => Fresh(m)') /\ (Gone(m) => Gone(m)') /\ (Over(m) => Over(m)')
                      /\ (Prep(m) => Prep(m)' /\ lists'[m] = lists[m])
  BY <1>1, SameList, Names DEF Same
<1>5. ASSUME NEW d \in Deferreds PROVE DeferredOK(d)'
  <2>1. DeferredOK(d) /\ <<d, "done">> \in Told /\ <<d, "fail">> \in Told
    BY Names DEF ListsInv
  <2>2. Open(d) => Open(d)'
    BY <1>4, <2>1 DEF Open
  <2>3. ASSUME NEW o \in {"done", "fail"} PROVE (Turning(d, o) => Turning(d, o)') /\ (Turned(d, o) => Turned(d, o)')
    <3>1. <<d, o>> \in Told /\ <<d, Other(o)>> \in Told
      BY <2>1 DEF Other
    <3>. QED  BY <1>4, <3>1 DEF Turning, Turned
  <2>. QED  BY <2>1, <2>2, <2>3 DEF DeferredOK
<1>6. ASSUME NEW r \in Requests PROVE CompleteOK(r)'
  <2>1. CompleteOK(r) /\ <<r, "complete">> \in Told
    BY Names DEF ListsInv
  <2>. QED  BY <1>4, <2>1 DEF CompleteOK
<1>. QED  BY <1>2, <1>3, <1>5, <1>6 DEF ListsInv

\* No list is touched.
LEMMA ListsKept ==
    ASSUME ListsInv, lists' = lists, added' = added, called' = called, settled' = settled,
           ~ On("loop"), ~ On("loop")', \A x : In(todo', "loop", x) <=> In(todo, "loop", x)
    PROVE  ListsInv'
<1>1. \A m \in Lists : Same(m)
  BY DEF Same, TopIs
<1>2. ListOK(PageList)' /\ PageOK'
  BY <1>1, SameList, Names DEF ListsInv
<1>. QED  BY <1>1, <1>2, OnlyPageList DEF ListsInv

----------------------------------------------------------------------------
(* Steps that only change what is left to do *)

\* The first frame, with what its shape says of it.
LEMMA TopNow ==
    ASSUME Shape(todo), NEW op, On(op)
    PROVE  /\ todo # << >> /\ Head(todo) = Top /\ Top.op = op /\ Top \in Frames /\ FrameOK(Top)
           /\ op \in OfRequest => Top.at \in Requests
           /\ op \in {"abort", "finish"} => Top.arg \in Answers
<1>1. todo # << >> /\ Head(todo) = Top /\ Top.op = op
  BY DEF On, Idle, Top
<1>2. Top \in Frames
  BY <1>1, Tops
<1>. QED  BY <1>1, <1>2 DEF Frames, FrameOK

\* A step that only pushes or takes frames of no kind that counts keeps the invariant.
LEMMA ScriptOnly ==
    ASSUME IInv, Shape(todo'), \A op \in Kinds : \A x : In(todo', op, x) <=> In(todo, op, x),
           In(todo', "fire", DoneList) => In(todo, "fire", DoneList),
           todo # << >> => Top.op \notin {"ready", "fire", "loop", "catch", "try", "send", "finish"},
           todo' # << >> => Head(todo').op \notin {"ready", "loop"},
           UNCHANGED <<lists, settled, histories, active, early, ready>>, moves' \in Nat,
           rq' = [r \in Requests |-> rq'[r]],
           \A r \in Requests : /\ rq'[r] \in Variables
                               /\ rq'[r].state = rq[r].state /\ rq'[r].counted = rq[r].counted
                               /\ rq[r].posted => rq'[r].posted
    PROVE  IInv'
<1>1. \A op \in {"ready", "fire", "loop", "catch", "try", "send", "finish"} : ~ On(op)
  BY DEF On, Idle
<1>2. ~ On("ready")' /\ ~ On("loop")'
  BY DEF On, Idle, Top
<1>3. added' = added /\ called' = called /\ lost' = lost
  BY DEF histories
<1>4. Counts \subseteq Kinds /\ "loop" \in Kinds
  BY DEF Kinds
<1>5. RequestsInv'
  BY <1>1, <1>3, <1>4, RequestsKept DEF IInv
<1>6. ReadyInv'
  BY <1>1, <1>2, <1>4, ReadyKept DEF IInv, TopIs
<1>7. ListsInv'
  BY <1>1, <1>2, <1>3, <1>4, ListsKept DEF IInv
<1>. QED  BY <1>5, <1>6, <1>7 DEF IInv

\* Requests that are not touched.
LEMMA SameRq ==
    ASSUME IInv, rq' = rq
    PROVE  /\ rq' = [r \in Requests |-> rq'[r]]
           /\ \A r \in Requests : /\ rq'[r] \in Variables
                                  /\ rq'[r].state = rq[r].state /\ rq'[r].counted = rq[r].counted
                                  /\ rq[r].posted => rq'[r].posted
BY DEF IInv, RequestsInv, RqOK

\* What the invariant says of the requests.
LEMMA RqIs ==
    ASSUME IInv
    PROVE  /\ rq = [r \in Requests |-> rq[r]]
           /\ \A r \in Requests : RqOK(r) /\ rq[r] \in Variables
           /\ moves \in Nat /\ Shape(todo)
BY DEF IInv, RequestsInv, RqOK

\* The variables of one request that do not count.
LEMMA OneRq ==
    ASSUME IInv, NEW r \in Requests, NEW v, v \in Variables, rq' = [rq EXCEPT ![r] = v],
           v.state = rq[r].state, v.counted = rq[r].counted, rq[r].posted => v.posted
    PROVE  /\ rq' = [q \in Requests |-> rq'[q]]
           /\ \A q \in Requests : /\ rq'[q] \in Variables
                                  /\ rq'[q].state = rq[q].state /\ rq'[q].counted = rq[q].counted
                                  /\ rq[q].posted => rq'[q].posted
<1>1. rq' = [q \in Requests |-> rq'[q]] /\ rq'[r] = v /\ \A q \in Requests : q # r => rq'[q] = rq[q]
  BY RqIs, Updated
<1>2. \A q \in Requests : rq[q] \in Variables
  BY RqIs
<1>3. ASSUME NEW q \in Requests
      PROVE  /\ rq'[q] \in Variables
             /\ rq'[q].state = rq[q].state /\ rq'[q].counted = rq[q].counted
             /\ rq[q].posted => rq'[q].posted
  <2>1. CASE q = r
    BY <1>1, <2>1
  <2>2. CASE q # r
    BY <1>1, <1>2, <2>2
  <2>. QED  BY <2>1, <2>2
<1>. QED  BY <1>1, <1>3

\* All that such a step may change besides the script.
Rest3 == /\ UNCHANGED <<lists, settled, histories, active, early, ready>> /\ moves' \in Nat
         /\ rq' = [r \in Requests |-> rq'[r]]
         /\ \A r \in Requests : /\ rq'[r] \in Variables
                                /\ rq'[r].state = rq[r].state /\ rq'[r].counted = rq[r].counted
                                /\ rq[r].posted => rq'[r].posted

\* A frame is done and nothing else happens.
LEMMA QuietPop ==
    ASSUME IInv, todo # << >>, Top.op \notin Kinds \cup {"run", "ready", "fire", "send", "finish"},
           todo' = Tail(todo), Rest3
    PROVE  IInv'
<1>1. Head(todo) = Top /\ Shape(todo) /\ << >> \in Seq(Plain) /\ (\A x : ~ In(<< >>, "fire", x))
  BY RqIs DEF Top, In
<1>2. todo' = << >> \o Tail(todo)
  BY <1>1, Tops, Joining
<1>3. /\ Base(todo') /\ Shape(todo')
      /\ \A op \in Kinds : \A x : In(todo', op, x) <=> In(todo, op, x) /\ ~ (Head(todo).op = op /\ Head(todo).at = x)
      /\ \A x : In(todo', "fire", x) => In(<< >>, "fire", x) \/ In(todo, "fire", x)
  BY <1>1, <1>2, Popped
<1>4. \A op \in Kinds : \A x : In(todo', op, x) <=> In(todo, op, x)
  BY <1>1, <1>3
<1>5. todo' # << >> => Head(todo').op \notin {"ready", "loop"}
  BY <1>3, OnBase DEF AtOnce
<1>6. Top.op \notin {"ready", "fire", "loop", "catch", "try", "send", "finish"}
  BY DEF Kinds, Counts, Ends
<1>. QED  BY <1>1, <1>3, <1>4, <1>5, <1>6, ScriptOnly DEF Rest3

\* A frame turns into a completion or an abort.
LEMMA QuietReplace ==
    ASSUME IInv, todo # << >>, Top.op \notin Kinds \cup {"run", "ready", "fire", "send", "finish"},
           NEW f \in Frames, f.op \in {"abort", "finish"}, todo' = <<f>> \o Tail(todo), Rest3
    PROVE  IInv'
<1>1. Head(todo) = Top /\ Shape(todo)
  BY RqIs DEF Top
<1>2. Fits(f, Tail(todo)) /\ f.op \notin Kinds
  BY DEF Fits, AtOnce, Kinds, Counts, Life, Ends, Asks
<1>3. /\ Shape(todo') /\ todo' # << >> /\ Head(todo') = f
      /\ \A op \in Kinds : \A x : In(todo', op, x) <=> \/ f.op = op /\ f.at = x
                                                       \/ In(todo, op, x) /\ ~ (Head(todo).op = op /\ Head(todo).at = x)
      /\ \A x : In(todo', "fire", x) => In(todo, "fire", x)
  BY <1>1, <1>2, Replaced
<1>4. \A op \in Kinds : \A x : In(todo', op, x) <=> In(todo, op, x)
  BY <1>1, <1>2, <1>3
<1>5. Top.op \notin {"ready", "fire", "loop", "catch", "try", "send", "finish"}
  BY DEF Kinds, Counts, Ends
<1>. QED  BY <1>3, <1>4, <1>5, ScriptOnly DEF Rest3

\* The page's code makes a plain call.
LEMMA QuietCall ==
    ASSUME IInv, Opens(todo), NEW f \in Plain, ~ (f.op = "fire" /\ f.at = DoneList), todo' = <<f>> \o todo, Rest3
    PROVE  IInv'
<1>1. <<f>> \in Seq(Plain) /\ ~ In(<<f>>, "fire", DoneList)
  BY PlainSeqs
<1>2. /\ Base(todo') /\ Shape(todo')
      /\ \A op \in Kinds : \A x : In(todo', op, x) <=> In(todo, op, x)
      /\ \A x : In(todo', "fire", x) => In(<<f>>, "fire", x) \/ In(todo, "fire", x)
  BY <1>1, Called
<1>3. todo' # << >> => Head(todo').op \notin {"ready", "loop"}
  BY <1>2, OnBase DEF AtOnce
<1>4. todo # << >> => Top.op \notin {"ready", "fire", "loop", "catch", "try", "send", "finish"}
  BY DEF Opens, Top
<1>. QED  BY <1>1, <1>2, <1>3, <1>4, ScriptOnly DEF Rest3

\* The page's code makes a call that is taken at once, and nothing else happens.
LEMMA QuietCallOne ==
    ASSUME IInv, Opens(todo), NEW f \in Frames, f.op \in AtOnce \ {"send", "catch", "ready"}, todo' = <<f>> \o todo, Rest3
    PROVE  IInv'
<1>1. /\ Shape(todo') /\ todo' # << >> /\ Head(todo') = f
      /\ \A op \in Kinds : \A x : In(todo', op, x) <=> In(todo, op, x)
      /\ \A x : In(todo', "fire", x) => In(todo, "fire", x)
  BY CalledOne
<1>2. Head(todo').op \notin {"ready", "loop"}
  BY <1>1 DEF AtOnce
<1>3. todo # << >> => Top.op \notin {"ready", "fire", "loop", "catch", "try", "send", "finish"}
  BY DEF Opens, Top
<1>. QED  BY <1>1, <1>2, <1>3, ScriptOnly DEF Rest3

----------------------------------------------------------------------------
(* The quiet steps *)

\* $.ajax has returned.
LEMMA StepReturned ==
    ASSUME IInv, Returned PROVE IInv'
<1>. DEFINE r == Top.at
            v == [rq[r] EXCEPT !.known = TRUE]
<1>1. todo # << >> /\ Top.op = "returned" /\ r \in Requests
  BY RqIs, TopNow DEF Returned, OfRequest
<1>2. todo' = Tail(todo) /\ rq' = [rq EXCEPT ![r] = v]
      /\ UNCHANGED <<lists, settled, histories, active, early, ready>> /\ moves' = moves
  <2>1. Tail(todo) \in Seq(Frames)
    BY <1>1, RqIs, Tops
  <2>. QED  BY <2>1, Joining DEF Returned, Instead, Set, page
<1>3. v \in Variables /\ v.state = rq[r].state /\ v.counted = rq[r].counted /\ v.posted = rq[r].posted
  BY <1>1, RqIs DEF Variables
<1>. HIDE DEF v, r
<1>4. Rest3
  BY <1>1, <1>2, <1>3, OneRq, RqIs DEF Rest3
<1>5. Top.op \notin Kinds \cup {"run", "ready", "fire", "send", "finish"}
  BY <1>1 DEF Kinds, Counts, Life, Ends
<1>. QED  BY <1>1, <1>2, <1>4, <1>5, QuietPop

\* jqXHR.abort.
LEMMA StepAbort ==
    ASSUME IInv, DoAbort PROVE IInv'
<1>. DEFINE r == Top.at
            v == [rq[r] EXCEPT !.callback = FALSE, !.wire = "aborted"]
            f == Frame("finish", r, Top.arg)
<1>1. todo # << >> /\ Top.op = "abort" /\ r \in Requests /\ Top.arg \in Answers
  BY RqIs, TopNow DEF DoAbort, OfRequest
<1>2. todo' = <<f>> \o Tail(todo) /\ (rq' = [rq EXCEPT ![r] = v] \/ rq' = rq)
      /\ UNCHANGED <<lists, settled, histories, active, early, ready>> /\ moves' = moves
  BY DEF DoAbort, Instead, page
<1>3. v \in Variables /\ v.state = rq[r].state /\ v.counted = rq[r].counted /\ v.posted = rq[r].posted
  BY <1>1, RqIs DEF Variables
<1>4. f \in Frames /\ f.op = "finish"
  BY <1>1, OtherFrames DEF Frame
<1>. HIDE DEF v, r, f
<1>5. Rest3
  BY <1>1, <1>2, <1>3, OneRq, SameRq, RqIs DEF Rest3
<1>6. Top.op \notin Kinds \cup {"run", "ready", "fire", "send", "finish"}
  BY <1>1 DEF Kinds, Counts, Life, Ends
<1>. QED  BY <1>1, <1>2, <1>4, <1>5, <1>6, QuietReplace

\* Wherever the page's code may call the library, calls may be pushed.
LEMMA Opening ==
    ASSUME IInv, Idle \/ InPage \/ MayCall \/ On("run")
    PROVE  Opens(todo)
BY RqIs DEF Opens, Idle, InPage, MayCall, On, Top

\* A call that is one of the page's moves.
LEMMA StepPageCalls ==
    ASSUME IInv, NEW f \in Frames, f.op \in {"abort", "remove", "empty", "disable", "lock"} \/ f \in Plain,
           f.op = "fire" => f.at # DoneList, PageCalls(f)
    PROVE  IInv'
<1>1. Opens(todo) /\ todo' = <<f>> \o todo
  BY Opening DEF PageCalls, Calls
<1>2. Rest3
  BY SameRq, RqIs DEF PageCalls, Rest3, ajax
<1>3. CASE f \in Plain
  BY <1>1, <1>2, <1>3, QuietCall
<1>4. CASE f.op \in {"abort", "remove", "empty", "disable", "lock"}
  BY <1>1, <1>2, <1>4, QuietCallOne DEF AtOnce
<1>. QED  BY <1>3, <1>4

\* The page aborts a request.
LEMMA StepAbortCall ==
    ASSUME IInv, NEW r \in Requests, Abort(r) PROVE IInv'
<1>1. Answer(0, rq[r].strAbort) \in Answers
  BY RqIs, SomeAnswers DEF Variables
<1>2. Frame("abort", r, Answer(0, rq[r].strAbort)) \in Frames
  BY <1>1, OtherFrames
<1>. QED  BY <1>2, StepPageCalls DEF Abort, Frame

\* The page attaches one more callback.
LEMMA StepAttach ==
    ASSUME IInv, NEW r \in Requests, NEW name \in {"done", "fail", "complete"}, Attach(r, name) PROVE IInv'
<1>1. Callback("late", r) \in Attached /\ <<r, name>> \in Told
  BY Names DEF Callback, Attached, Own
<1>2. Frame("add", <<r, name>>, Callback("late", r)) \in Plain
  BY <1>1, PlainFrames
<1>. QED  BY <1>2, StepPageCalls DEF Attach, Frame, Plain

\* The page uses its own list.
LEMMA StepUseList ==
    ASSUME IInv, UseList PROVE IInv'
<1>1. OwnCallbacks \subseteq Attached
  BY Names DEF OwnCallbacks, Callback, Attached, Own
<1>2. ASSUME NEW f \in OwnCallbacks, PageCalls(Frame("add", PageList, f)) PROVE IInv'
  BY <1>1, <1>2, PlainFrames, StepPageCalls DEF Frame, Plain
<1>3. ASSUME NEW f \in OwnCallbacks, PageCalls(Frame("remove", PageList, f)) PROVE IInv'
  BY <1>1, <1>3, OtherFrames, StepPageCalls DEF Frame
<1>4. ASSUME NEW op \in {"empty", "disable", "lock"}, PageCalls(Frame(op, PageList, Nothing)) PROVE IInv'
  BY <1>4, OtherFrames, StepPageCalls DEF Frame
<1>5. ASSUME PageCalls(Frame("fire", PageList, Data("page"))) PROVE IInv'
  <2>1. Data("page") \in Datas \ {Nothing}
    BY DEF Data, Datas, Nothing
  <2>2. PageList # DoneList
    BY Names
  <2>. QED  BY <1>5, <2>1, <2>2, PlainFrames, StepPageCalls DEF Frame, Plain
<1>. QED  BY <1>2, <1>3, <1>4, <1>5 DEF UseList

\* The page gives one more function to the ready event.
LEMMA StepGiveLate ==
    ASSUME IInv, GiveLate, Opens(todo), moves' \in Nat, UNCHANGED <<ajax, early>> PROVE IInv'
<1>1. Callback("late", Doc) \in Attached /\ DoneList \in Told
  BY Names DEF Callback, Attached, Own
<1>2. Frame("add", DoneList, Callback("late", Doc)) \in Plain
  BY <1>1, PlainFrames
<1>3. todo' = <<Frame("add", DoneList, Callback("late", Doc))>> \o todo
  BY DEF GiveLate, Calls
<1>4. Rest3
  BY SameRq DEF GiveLate, Rest3, ajax
<1>. QED  BY <1>2, <1>3, <1>4, QuietCall DEF Frame

\* An answer arrives.
LEMMA StepArrive ==
    ASSUME IInv, NEW r \in Requests, Arrive(r) PROVE IInv'
<1>. DEFINE v == [rq[r] EXCEPT !.callback = FALSE, !.wire = "answered"]
<1>1. PICK a \in Responses \cup {Answer(-1, "exception")} : todo' = <<Frame("finish", r, a)>>
  BY DEF Arrive
<1>2. a \in Answers
  BY SomeAnswers
<1>3. Frame("finish", r, a) \in Frames /\ Frame("finish", r, a).op = "finish"
  BY <1>2, OtherFrames DEF Frame
<1>4. todo = << >> /\ Opens(todo)
  BY Opening DEF Arrive, Idle
<1>5. todo' = <<Frame("finish", r, a)>> \o todo
  BY <1>1, <1>3, <1>4
<1>6. rq' = [rq EXCEPT ![r] = v] /\ UNCHANGED <<lists, settled, histories, active, early, ready>> /\ moves' = moves
  BY DEF Arrive, page
<1>7. v \in Variables /\ v.state = rq[r].state /\ v.counted = rq[r].counted /\ v.posted = rq[r].posted
  BY RqIs DEF Variables
<1>. HIDE DEF v
<1>8. Rest3
  BY <1>6, <1>7, OneRq, RqIs DEF Rest3
<1>. QED  BY <1>3, <1>4, <1>5, <1>8, QuietCallOne DEF AtOnce

\* A timeout runs out.
LEMMA StepTimesOut ==
    ASSUME IInv, NEW r \in Requests, TimesOut(r) PROVE IInv'
<1>. DEFINE v == [rq[r] EXCEPT !.timer = FALSE]
            f == Frame("abort", r, Answer(0, "timeout"))
<1>1. f \in Frames /\ f.op = "abort"
  BY SomeAnswers, OtherFrames DEF Frame
<1>2. todo = << >> /\ Opens(todo)
  BY Opening DEF TimesOut, Idle
<1>3. todo' = <<f>>
  BY DEF TimesOut
<1>4. rq' = [rq EXCEPT ![r] = v] /\ UNCHANGED <<lists, settled, histories, active, early, ready>> /\ moves' = moves
  BY DEF TimesOut, page, Set
<1>5. v \in Variables /\ v.state = rq[r].state /\ v.counted = rq[r].counted /\ v.posted = rq[r].posted
  BY RqIs DEF Variables
<1>. HIDE DEF v, f
<1>6. Rest3
  BY <1>4, <1>5, OneRq, RqIs DEF Rest3
<1>7. todo' = <<f>> \o todo
  BY <1>1, <1>2, <1>3
<1>. QED  BY <1>1, <1>2, <1>6, <1>7, QuietCallOne DEF AtOnce

----------------------------------------------------------------------------
(* The steps that count *)

\* A set with one more member.
LEMMA OneMore ==
    ASSUME NEW S \in SUBSET Requests, NEW r \in Requests
    PROVE  /\ Cardinality(S) \in Nat /\ IsFiniteSet(S)
           /\ r \notin S => Cardinality(S \cup {r}) = Cardinality(S) + 1
           /\ r \in S => Cardinality(S \ {r}) = Cardinality(S) - 1
BY RequestAssumption, FS_Subset, FS_CardinalityType, FS_AddElement, FS_RemoveElement

\* Three sets, one of which gains or loses one member, and the counter with it.
LEMMA CountingStep ==
    ASSUME IInv, Shape(todo'), \A x : In(todo', "loop", x) <=> In(todo, "loop", x),
           In(todo', "fire", DoneList) => In(todo, "fire", DoneList),
           todo # << >> => Top.op \notin {"ready", "fire", "loop"},
           todo' # << >> => Head(todo').op \notin {"ready", "loop"},
           UNCHANGED <<lists, settled, added, called, ready>>, moves' \in Nat, RequestsInv'
    PROVE  IInv'
<1>1. \A op \in {"ready", "fire", "loop"} : ~ On(op)
  BY DEF On, Idle
<1>2. ~ On("ready")' /\ ~ On("loop")'
  BY DEF On, Idle, Top
<1>3. ReadyInv'
  BY <1>1, <1>2, ReadyKept DEF IInv, TopIs
<1>4. ListsInv'
  BY <1>1, <1>2, ListsKept DEF IInv
<1>. QED  BY <1>3, <1>4 DEF IInv

\* A request that the step is not about.
LEMMA OtherRq ==
    ASSUME NEW q, RqOK(q), rq'[q] = rq[q], q \in early' <=> q \in early,
           <<"uncount", q>> \in lost' <=> <<"uncount", q>> \in lost,
           \A op \in Counts : In(todo', op, q) <=> In(todo, op, q),
           ~ (On("catch") /\ rq[Top.at].state = 2), \A op \in {"try", "send", "finish"} : ~ TopIs(op, q)
    PROVE  RqOK(q)'
<1>1. \A op \in Life \cup Ends \cup {"uncount"} : In(todo', op, q) <=> In(todo, op, q)
  BY DEF Counts
<1>2. "try" \in Life \cup Ends \cup {"uncount"} /\ "uncount" \in Life \cup Ends \cup {"uncount"}
      /\ {"begin", "install", "transport", "timeout"} \subseteq Life \cup Ends \cup {"uncount"}
  BY DEF Life, Ends
<1>3. ~ rq'[q].posted => /\ ~ rq'[q].counted
                         /\ \A op \in Life \cup Ends \cup {"uncount"} : ~ In(todo', op, q)
  BY <1>1 DEF RqOK
<1>4. /\ In(todo', "begin", q) => ~ rq'[q].counted
      /\ \A op \in {"install", "transport", "timeout"} : In(todo', op, q) => rq'[q].counted
  BY <1>1, <1>2 DEF RqOK
<1>5. \A op \in Life : In(todo', op, q) => q \notin early' /\ <<"uncount", q>> \notin lost'
  BY <1>1 DEF RqOK
<1>6. /\ In(todo', "uncount", q) => /\ rq'[q].counted /\ rq'[q].state = 2
                                    /\ <<"uncount", q>> \notin lost'
      /\ <<"uncount", q>> \in lost' => rq'[q].counted /\ rq'[q].state = 2
      /\ q \in early' => rq'[q].counted
  BY <1>1, <1>2 DEF RqOK
<1>7. In(todo', "try", q) => rq'[q].state = 2
  BY <1>1, <1>2 DEF RqOK, TopIs
<1>. QED  BY <1>3, <1>4, <1>5, <1>6, <1>7 DEF RqOK

\* A step about one request: the others, and what is to show of this one.
LEMMA AboutOne ==
    ASSUME IInv, NEW r \in Requests, NEW v, rq' = [rq EXCEPT ![r] = v],
           early' \subseteq Requests, \A q \in Requests \ {r} : q \in early' <=> q \in early,
           lost' = lost,
           \A op \in Counts : \A q \in Requests \ {r} : In(todo', op, q) <=> In(todo, op, q),
           ~ (On("catch") /\ rq[Top.at].state = 2),
           \A op \in {"try", "send", "finish"} : On(op) => Top.at = r,
           RqOK(r)',
           active' = Cardinality(UnderWay') + Cardinality(ToUncount') + Cardinality(LostOnes) - Cardinality(early')
    PROVE  /\ RequestsInv'
<1>1. rq' = [q \in Requests |-> rq'[q]] /\ rq'[r] = v /\ \A q \in Requests : q # r => rq'[q] = rq[q]
  BY RqIs, Updated
<1>2. ASSUME NEW q \in Requests PROVE RqOK(q)'
  <2>1. CASE q = r
    BY <2>1
  <2>2. CASE q # r
    <3>1. RqOK(q) /\ \A op \in {"try", "send", "finish"} : ~ TopIs(op, q)
      BY <2>2, RqIs DEF TopIs
    <3>. QED  BY <1>1, <2>2, <3>1, OtherRq
  <2>. QED  BY <2>1, <2>2
<1>3. LostOnes' = LostOnes
  BY DEF LostOnes
<1>. QED  BY <1>1, <1>2, <1>3 DEF RequestsInv

\* The sets the counter is made of are finite.
LEMMA CountsAre ==
    ASSUME IInv
    PROVE  /\ UnderWay \in SUBSET Requests /\ ToUncount \in SUBSET Requests /\ LostOnes \in SUBSET Requests
           /\ early \in SUBSET Requests
           /\ active = Cardinality(UnderWay) + Cardinality(ToUncount) + Cardinality(LostOnes) - Cardinality(early)
BY DEF IInv, RequestsInv, UnderWay, ToUncount, LostOnes

\* Where nothing is counted or settled.
LEMMA SameCounts ==
    ASSUME \A q \in Requests : rq'[q].state = rq[q].state /\ rq'[q].counted = rq[q].counted
    PROVE  UnderWay' = UnderWay
BY DEF UnderWay

\* $.ajax is called.
LEMMA StepPost ==
    ASSUME IInv, NEW r \in Requests, Post(r) PROVE IInv'
<1>. DEFINE a  == "prefilter" \in Hooks
            b  == "statusCode" \in Given[r]
            v  == [rq[r] EXCEPT !.posted = TRUE, !.known = a, !.coded = b]
            f  == Frame("begin", r, Nothing)
            g  == Frame("returned", r, Nothing)
            s1 == <<g>> \o todo
            s2 == <<f>> \o s1
            h  == Hook("prefilter", r)
<1>1. /\ rq' = [rq EXCEPT ![r] = v] /\ todo' = (h \o <<f, g>>) \o todo /\ ~ rq[r].posted
      /\ UNCHANGED <<lists, settled, added, called, lost, active, early, ready>> /\ moves' = moves
      /\ Opens(todo)
  BY Opening DEF Post, Calls, page, histories
<1>2. RqOK(r) /\ rq[r] \in Variables
  BY RqIs
<1>3. f \in Frames /\ f.op = "begin" /\ f.at = r /\ g \in Plain /\ g.op = "returned" /\ g \in Frames
  BY OtherFrames, PlainFrames DEF Frame, Plain
<1>4. h \in Seq(Plain) /\ ~ In(h, "fire", DoneList)
  BY PlainSeqs, Names DEF HookNames
<1>5. v \in Variables /\ v.state = rq[r].state /\ v.counted = rq[r].counted /\ v.posted = TRUE
  <2>1. a \in BOOLEAN /\ b \in BOOLEAN
    OBVIOUS
  <2>. HIDE DEF a, b
  <2>. QED  BY <1>2, <2>1 DEF Variables
<1>. HIDE DEF v, f, g, h
<1>6. /\ Base(s1) /\ \A op \in Kinds : \A x : In(s1, op, x) <=> In(todo, op, x)
      /\ \A x : In(s1, "fire", x) => In(todo, "fire", x)
  <2>1. <<g>> \in Seq(Plain) /\ \A x : ~ In(<<g>>, "fire", x)
    BY <1>3, PlainSeqs
  <2>. QED  BY <1>1, <2>1, Called
<1>7. todo' = h \o s2
  <2>1. h \in Seq(Frames) /\ <<f>> \in Seq(Frames) /\ <<g>> \in Seq(Frames) /\ todo \in Seq(Frames) /\ s1 \in Seq(Frames)
    BY <1>3, <1>4, <1>6, RqIs DEF Shape, Base, Plain
  <2>2. <<f, g>> = <<f>> \o <<g>> /\ <<f>> \o <<g>> \in Seq(Frames)
    BY <1>3, Pair
  <2>3. (h \o (<<f>> \o <<g>>)) \o todo = h \o ((<<f>> \o <<g>>) \o todo)
    BY <2>1, <2>2, Joining
  <2>4. (<<f>> \o <<g>>) \o todo = <<f>> \o (<<g>> \o todo)
    BY <2>1, Joining
  <2>. QED  BY <1>1, <2>2, <2>3, <2>4
<1>8. \A op \in Counts : ~ In(todo, op, r)
  BY <1>1, <1>2 DEF RqOK, Counts
<1>. HIDE DEF s1
<1>9. /\ Base(s2) /\ \A op, x : In(s2, op, x) <=> (f.op = op /\ f.at = x) \/ In(s1, op, x)
  <2>1. Fits(f, s1)
    BY <1>3, <1>6, <1>8 DEF Fits, Kinds, Life, Asks
  <2>2. f.op \notin AtOnce \cup {"loop"}
    BY <1>3 DEF AtOnce
  <2>. QED  BY <1>6, <2>1, <2>2, PushFit
<1>. HIDE DEF s2
<1>10. /\ Base(todo') /\ \A op \in Kinds : \A x : In(todo', op, x) <=> (op = "begin" /\ x = r) \/ In(todo, op, x)
       /\ In(todo', "fire", DoneList) => In(todo, "fire", DoneList)
  <2>1. \A op \in Kinds : op \notin PlainOps
    BY DEF Kinds, Counts, Life, Ends, PlainOps
  <2>2. /\ Base(todo') /\ \A op, x : op \notin PlainOps => (In(todo', op, x) <=> In(s2, op, x))
        /\ \A op, x : In(todo', op, x) => In(h, op, x) \/ In(s2, op, x)
    BY <1>4, <1>7, <1>9, PushPlain
  <2>. QED  BY <1>3, <1>4, <1>6, <1>9, <2>1, <2>2
<1>11. rq'[r] = v
  BY <1>1, RqIs, Updated
<1>12. Counts \subseteq Kinds /\ "begin" \in Counts /\ "uncount" \in Counts /\ "try" \in Counts
  BY DEF Kinds, Counts, Life, Ends
<1>13. RqOK(r)'
  <2>1. \A op \in Counts : In(todo', op, r) => op = "begin"
    BY <1>8, <1>10, <1>12
  <2>2. ~ rq[r].counted /\ r \notin early /\ <<"uncount", r>> \notin lost
    BY <1>1, <1>2 DEF RqOK
  <2>3. \A op \in {"install", "transport", "timeout", "uncount", "try"} : ~ In(todo', op, r)
    BY <2>1 DEF Counts, Life, Ends
  <2>. QED  BY <1>1, <1>5, <1>11, <2>2, <2>3 DEF RqOK
<1>14. UnderWay' = UnderWay /\ ToUncount' = ToUncount
  <2>1. \A q \in Requests : q # r => rq'[q] = rq[q]
    BY <1>1, RqIs, Updated
  <2>2. UnderWay' = UnderWay
    BY <1>5, <1>11, <2>1, SameCounts
  <2>. QED  BY <1>10, <1>12, <2>2 DEF ToUncount
<1>15. \A op \in {"ready", "fire", "loop", "catch", "try", "send", "finish"} : ~ On(op)
  BY <1>1 DEF Opens, On, Idle, Top
<1>16. RequestsInv'
  BY <1>1, <1>10, <1>12, <1>13, <1>14, <1>15, CountsAre, AboutOne
<1>17. todo' # << >> => Head(todo').op \notin {"ready", "loop"}
  BY <1>10, OnBase DEF AtOnce
<1>18. todo # << >> => Top.op \notin {"ready", "fire", "loop"}
  BY <1>15 DEF On, Idle
<1>19. "loop" \in Kinds
  BY DEF Kinds
<1>. QED  BY <1>1, <1>10, <1>16, <1>17, <1>18, <1>19, CountingStep, RqIs DEF Base

\* A request has one frame of its life, and none of its end.
LEMMA OnlyOne ==
    ASSUME Shape(todo), todo # << >>, Top.op \in Life \cup Ends
    PROVE  /\ \A op \in Counts : In(todo, op, Top.at) <=> op = Top.op
           /\ \A op \in Counts : ~ In(Tail(todo), op, Top.at)
<1>1. Head(todo) = Top
  BY DEF Top
<1>2. \A op \in Life \cup Ends \cup {"uncount"} : ~ In(Tail(todo), op, Top.at)
  BY <1>1, Tops
<1>3. \A op, x : In(todo, op, x) <=> (Top.op = op /\ Top.at = x) \/ In(Tail(todo), op, x)
  BY <1>1, Tops
<1>. QED  BY <1>2, <1>3 DEF Counts

\* The first frame is taken: what any other request has in the script stays.
Taken == \A op \in Kinds : \A x : In(todo', op, x) <=> In(todo, op, x) /\ ~ (Top.op = op /\ Top.at = x)
TakenFor(kind) == \A op \in Kinds : \A x :
                     In(todo', op, x) <=> \/ kind = op /\ Top.at = x
                                          \/ In(todo, op, x) /\ ~ (Top.op = op /\ Top.at = x)
\* And that is all there is to the step, but for the request itself.
Taking == /\ Shape(todo')
          /\ In(todo', "fire", DoneList) => In(todo, "fire", DoneList)
          /\ todo' # << >> => Head(todo').op \notin {"ready", "loop"}
          /\ UNCHANGED <<lists, settled, added, called, lost, ready>> /\ moves' \in Nat

\* A request's life in the script ends.
LEMMA LifeEnds ==
    ASSUME IInv, todo # << >>, Top.op \in Life \cup {"try"}, NEW r \in Requests, Top.at = r, Taking, Taken,
           NEW v, rq' = [rq EXCEPT ![r] = v], v \in Variables, v.state = rq[r].state,
           v.counted = rq[r].counted, v.posted = rq[r].posted, active' = active, early' = early
    PROVE  IInv'
<1>1. rq'[r] = v /\ \A q \in Requests : q # r => rq'[q] = rq[q]
  BY RqIs, Updated
<1>2. \A op \in Counts : In(todo, op, r) <=> op = Top.op
  BY RqIs, OnlyOne DEF Ends
<1>3. Counts \subseteq Kinds /\ "uncount" \in Counts /\ "try" \in Counts /\ "loop" \in Kinds
      /\ Life \subseteq Counts /\ Top.op # "uncount" /\ Top.op # "loop"
  BY DEF Kinds, Counts, Life, Ends
<1>4. \A op \in Counts : ~ In(todo', op, r)
  BY <1>2, <1>3 DEF Taken
<1>5. \A op \in Counts : \A q \in Requests \ {r} : In(todo', op, q) <=> In(todo, op, q)
  BY <1>3 DEF Taken
<1>6. RqOK(r)'
  <2>1. RqOK(r)
    BY RqIs
  <2>2. \A op \in Life \cup Ends \cup {"uncount"} : ~ In(todo', op, r)
    BY <1>4 DEF Counts
  <2>3. \A op \in {"begin", "install", "transport", "timeout", "uncount", "try"} : ~ In(todo', op, r)
    BY <1>4 DEF Counts, Life, Ends
  <2>. QED  BY <1>1, <2>1, <2>2, <2>3 DEF RqOK, Taking
<1>7. UnderWay' = UnderWay
  BY <1>1, SameCounts
<1>8. ToUncount' = ToUncount
  <2>1. \A q \in Requests : In(todo', "uncount", q) <=> In(todo, "uncount", q)
    BY <1>3 DEF Taken
  <2>. QED  BY <2>1 DEF ToUncount
<1>9. \A op \in {"ready", "fire", "loop", "catch", "send", "finish"} : ~ On(op)
  BY DEF On, Idle, Life
<1>10. lost' = lost /\ early' \subseteq Requests
  BY CountsAre DEF Taking
<1>11. \A op \in {"try", "send", "finish"} : On(op) => Top.at = r
  OBVIOUS
<1>12. active' = Cardinality(UnderWay') + Cardinality(ToUncount') + Cardinality(LostOnes) - Cardinality(early')
  BY <1>7, <1>8, CountsAre
<1>13. RequestsInv'
  <2>1. ~ (On("catch") /\ rq[Top.at].state = 2)
    BY <1>9
  <2>. QED  BY <2>1, <1>5, <1>6, <1>10, <1>11, <1>12, AboutOne
<1>14. \A x : In(todo', "loop", x) <=> In(todo, "loop", x)
  BY <1>3 DEF Taken
<1>15. Top.op \notin {"ready", "fire", "loop"}
  BY DEF Life
<1>. QED  BY <1>13, <1>14, <1>15, CountingStep DEF Taking

\* A request's life in the script goes on, with the frame that follows.
LEMMA LifeGoesOn ==
    ASSUME IInv, todo # << >>, Top.op \in Life, NEW r \in Requests, Top.at = r, Taking,
           NEW kind \in Life \ {"begin"}, TakenFor(kind),
           NEW v, rq' = [rq EXCEPT ![r] = v], v \in Variables, v.state = rq[r].state,
           v.counted, v.posted, early' = early,
           Top.op = "begin" => v.state # 2 /\ active' = active + 1,
           Top.op # "begin" => active' = active
    PROVE  IInv'
<1>0. RqOK(r)
  BY RqIs
<1>1. rq'[r] = v /\ \A q \in Requests : q # r => rq'[q] = rq[q]
  BY RqIs, Updated
<1>2. \A op \in Counts : In(todo, op, r) <=> op = Top.op
  BY RqIs, OnlyOne
<1>3. Counts \subseteq Kinds /\ "uncount" \in Counts /\ "try" \in Counts /\ "loop" \in Kinds
      /\ Life \subseteq Counts /\ Top.op # "uncount" /\ Top.op # "loop" /\ kind # "uncount" /\ kind # "loop"
      /\ kind \in Counts
  BY DEF Kinds, Counts, Life, Ends
<1>4. \A op \in Counts : In(todo', op, r) => op = kind
  BY <1>2, <1>3 DEF TakenFor
<1>5. \A op \in Counts : \A q \in Requests \ {r} : In(todo', op, q) <=> In(todo, op, q)
  BY <1>3 DEF TakenFor
<1>6. \A op \in {"ready", "fire", "loop", "catch", "try", "send", "finish"} : ~ On(op)
  BY DEF On, Idle, Life
<1>7. r \notin early /\ <<"uncount", r>> \notin lost
  <2>1. In(todo, Top.op, r)
    BY <1>2, <1>3
  <2>. QED  BY <1>0, <1>6, <2>1 DEF RqOK
<1>8. RqOK(r)'
  <2>1. \A op \in {"begin", "uncount", "try"} : ~ In(todo', op, r)
    BY <1>4, <1>3 DEF Counts, Life, Ends
  <2>. QED  BY <1>1, <1>7, <2>1 DEF RqOK, Taking
<1>9. ToUncount' = ToUncount
  <2>1. \A q \in Requests : In(todo', "uncount", q) <=> In(todo, "uncount", q)
    BY <1>3 DEF TakenFor
  <2>. QED  BY <2>1 DEF ToUncount
<1>10. active' = Cardinality(UnderWay') + Cardinality(ToUncount') + Cardinality(LostOnes) - Cardinality(early')
  <2>1. CASE Top.op = "begin"
    <3>1. In(todo, "begin", r)
      BY <2>1, <1>2, <1>3
    <3>2. ~ rq[r].counted
      BY <1>0, <3>1 DEF RqOK
    <3>3. v.state < 2
      BY <2>1 DEF Variables
    <3>4. r \notin UnderWay /\ UnderWay' = UnderWay \cup {r}
      BY <1>0, <1>1, <3>2, <3>3 DEF UnderWay
    <3>5. Cardinality(UnderWay') = Cardinality(UnderWay) + 1 /\ Cardinality(UnderWay) \in Nat
      BY <1>0, <3>4, CountsAre, OneMore
    <3>6. Cardinality(ToUncount) \in Nat /\ Cardinality(LostOnes) \in Nat /\ Cardinality(early) \in Nat
      BY <1>0, CountsAre, OneMore
    <3>7. active' = active + 1
      BY <2>1
    <3>. QED  BY <1>9, <3>5, <3>6, <3>7, CountsAre
  <2>2. CASE Top.op # "begin"
    <3>1. In(todo, Top.op, r) /\ Top.op \in {"install", "transport", "timeout"}
      BY <2>2, <1>2, <1>3 DEF Life
    <3>2. rq[r].counted
      BY <1>0, <3>1 DEF RqOK
    <3>3. UnderWay' = UnderWay
      BY <1>0, <1>1, <3>2 DEF UnderWay
    <3>4. active' = active
      BY <2>2
    <3>. QED  BY <1>9, <3>3, <3>4, CountsAre
  <2>. QED  BY <2>1, <2>2
<1>11. lost' = lost /\ early' \subseteq Requests
  BY CountsAre DEF Taking
<1>12. RequestsInv'
  BY <1>0, <1>5, <1>6, <1>8, <1>10, <1>11, AboutOne
<1>13. \A x : In(todo', "loop", x) <=> In(todo, "loop", x)
  BY <1>3 DEF TakenFor
<1>14. Top.op \notin {"ready", "fire", "loop"}
  BY DEF Life
<1>. QED  BY <1>12, <1>13, <1>14, CountingStep DEF Taking

\* The first frame is replaced by plain ones: all else stays in the script.
LEMMA TakesPlain ==
    ASSUME Shape(todo), todo # << >>, Top.op # "run", NEW p \in Seq(Plain), ~ In(p, "fire", DoneList),
           todo' = p \o Tail(todo)
    PROVE  /\ Base(todo') /\ Shape(todo') /\ Taken
           /\ In(todo', "fire", DoneList) => In(todo, "fire", DoneList)
           /\ todo' # << >> => Head(todo').op \notin {"ready", "loop", "catch"}
<1>1. Head(todo) = Top
  BY DEF Top
<1>2. /\ Base(todo') /\ Shape(todo')
      /\ \A op \in Kinds : \A x : In(todo', op, x) <=> In(todo, op, x) /\ ~ (Head(todo).op = op /\ Head(todo).at = x)
      /\ \A x : In(todo', "fire", x) => In(p, "fire", x) \/ In(todo, "fire", x)
  BY <1>1, Popped
<1>3. todo' # << >> => Head(todo').op \notin {"ready", "loop", "catch"}
  BY <1>2, OnBase DEF AtOnce
<1>. QED  BY <1>1, <1>2, <1>3 DEF Taken

\* The first frame is done: all else stays in the script.
LEMMA TakesNothing ==
    ASSUME Shape(todo), todo # << >>, Top.op # "run", todo' = << >> \o Tail(todo)
    PROVE  /\ Base(todo') /\ Shape(todo') /\ Taken
           /\ In(todo', "fire", DoneList) => In(todo, "fire", DoneList)
           /\ todo' # << >> => Head(todo').op \notin {"ready", "loop", "catch"}
<1>1. << >> \in Seq(Plain) /\ ~ In(<< >>, "fire", DoneList)
  BY DEF In
<1>. QED  BY <1>1, TakesPlain

\* An abort or an end of the request instead.
LEMMA TakesAtOnce ==
    ASSUME Shape(todo), todo # << >>, Top.op # "run", NEW f \in Frames, f.op \in {"abort", "finish"},
           todo' = <<f>> \o Tail(todo)
    PROVE  /\ Shape(todo') /\ Taken /\ todo' # << >> /\ Head(todo') = f
           /\ In(todo', "fire", DoneList) => In(todo, "fire", DoneList)
<1>1. Head(todo) = Top /\ Fits(f, Tail(todo)) /\ f.op \notin Kinds
  BY DEF Top, Fits, AtOnce, Kinds, Counts, Life, Ends, Asks
<1>2. /\ Shape(todo') /\ todo' # << >> /\ Head(todo') = f
      /\ \A op \in Kinds : \A x : In(todo', op, x) <=>
            (f.op = op /\ f.at = x) \/ (In(todo, op, x) /\ ~ (Head(todo).op = op /\ Head(todo).at = x))
      /\ \A x : In(todo', "fire", x) => In(todo, "fire", x)
  BY <1>1, Replaced
<1>. QED  BY <1>1, <1>2 DEF Taken

\* The first frame is replaced by plain ones and one that fits below them.
LEMMA TakesMany ==
    ASSUME Shape(todo), todo # << >>, Head(todo).op # "run", NEW p \in Seq(Plain),
           NEW f, Fits(f, Tail(todo)), f.op \notin AtOnce \cup {"loop"}, todo' = (p \o <<f>>) \o Tail(todo)
    PROVE  /\ Base(todo') /\ Shape(todo')
           /\ \A op \in Kinds : \A x : In(todo', op, x) <=>
            (f.op = op /\ f.at = x) \/ (In(todo, op, x) /\ ~ (Head(todo).op = op /\ Head(todo).at = x))
           /\ \A x : In(todo', "fire", x) => In(p, "fire", x) \/ In(todo, "fire", x)
<1>. DEFINE u == <<f>> \o Tail(todo)
<1>1. /\ Base(u)
      /\ \A op \in Kinds : \A x : In(u, op, x) <=>
            (f.op = op /\ f.at = x) \/ (In(todo, op, x) /\ ~ (Head(todo).op = op /\ Head(todo).at = x))
      /\ \A x : In(u, "fire", x) => In(todo, "fire", x)
  BY Replaced
<1>2. todo' = p \o u
  <2>1. p \in Seq(Frames)
    BY DEF Plain
  <2>2. <<f>> \in Seq(Frames)
    BY DEF Fits
  <2>3. Tail(todo) \in Seq(Frames)
    BY Tops
  <2>. QED  BY <2>1, <2>2, <2>3, Joining
<1>3. \A op \in Kinds : op \notin PlainOps
  BY DEF Kinds, Counts, Life, Ends, PlainOps
<1>. HIDE DEF u
<1>4. /\ Base(todo')
      /\ \A op, x : op \notin PlainOps => (In(todo', op, x) <=> In(u, op, x))
      /\ \A op, x : In(todo', op, x) => In(p, op, x) \/ In(u, op, x)
  <2>1. /\ Base(p \o u)
        /\ \A op, x : op \notin PlainOps => (In(p \o u, op, x) <=> In(u, op, x))
        /\ \A op, x : In(p \o u, op, x) => In(p, op, x) \/ In(u, op, x)
    BY <1>1, PushPlain
  <2>. QED  BY <1>2, <2>1
<1>. QED  BY <1>1, <1>3, <1>4 DEF Base

\* Likewise, for a frame of the same request.
LEMMA TakesForMany ==
    ASSUME Shape(todo), todo # << >>, Top.op \in Life, NEW f \in Frames, f.op \in Life, f.at = Top.at,
           NEW p \in Seq(Plain), ~ In(p, "fire", DoneList), todo' = (p \o <<f>>) \o Tail(todo)
    PROVE  /\ Base(todo') /\ Shape(todo') /\ TakenFor(f.op)
           /\ In(todo', "fire", DoneList) => In(todo, "fire", DoneList)
           /\ todo' # << >> => Head(todo').op \notin {"ready", "loop", "catch"}
<1>1. Head(todo) = Top /\ Top.op # "run"
  BY DEF Top, Life
<1>2. Fits(f, Tail(todo)) /\ f.op \notin AtOnce \cup {"loop"}
  <2>1. \A op \in Counts : ~ In(Tail(todo), op, f.at)
    BY OnlyOne
  <2>. QED  BY <2>1 DEF Fits, AtOnce, Life, Ends, Asks
<1>3. /\ Base(todo') /\ Shape(todo')
      /\ \A op \in Kinds : \A x : In(todo', op, x) <=>
            (f.op = op /\ f.at = x) \/ (In(todo, op, x) /\ ~ (Head(todo).op = op /\ Head(todo).at = x))
      /\ \A x : In(todo', "fire", x) => In(p, "fire", x) \/ In(todo, "fire", x)
  BY <1>1, <1>2, TakesMany
<1>4. todo' # << >> => Head(todo').op \notin {"ready", "loop", "catch"}
  BY <1>3, OnBase DEF AtOnce
<1>. QED  BY <1>1, <1>3, <1>4 DEF TakenFor

\* Sending is over.
LEMMA StepTry ==
    ASSUME IInv, Try PROVE IInv'
<1>1. PICK r \in Requests : Top.at = r /\ todo # << >> /\ Top.op = "try"
  BY RqIs, TopNow DEF Try, OfRequest, Ends
<1>2. todo' = << >> \o Tail(todo) /\ UNCHANGED <<lists, settled, added, called, lost, ready, rq, active, early, moves>>
  BY DEF Try, Instead, histories, ajax, page
<1>3. Taking /\ Taken
  BY <1>1, <1>2, RqIs, TakesNothing DEF Taking
<1>4. rq' = [rq EXCEPT ![r] = rq[r]]
  BY <1>1, <1>2, RqIs
<1>. QED  BY <1>1, <1>2, <1>3, <1>4, RqIs, LifeEnds

\* A transport is looked for.
LEMMA StepTransport ==
    ASSUME IInv, Transport PROVE IInv'
<1>1. PICK r \in Requests : Top.at = r /\ todo # << >> /\ Top.op = "transport"
  BY RqIs, TopNow DEF Transport, OfRequest, Life
<1>2. UNCHANGED <<lists, settled, added, called, lost, ready, active, early, moves>>
  BY DEF Transport, histories, page
<1>3. CASE ~ Selected(r)
  <2>. DEFINE f == Frame("finish", r, Answer(-1, "No Transport"))
  <2>1. todo' = <<f>> \o Tail(todo) /\ rq' = rq
    BY <1>1, <1>3 DEF Transport, Instead
  <2>2. f \in Frames /\ f.op = "finish"
    BY OtherFrames, SomeAnswers DEF Frame
  <2>. HIDE DEF f
  <2>3. Taking /\ Taken
    BY <1>1, <1>2, <2>1, <2>2, RqIs, TakesAtOnce DEF Taking
  <2>4. rq' = [rq EXCEPT ![r] = rq[r]]
    BY <2>1, RqIs
  <2>. QED  BY <1>1, <1>2, <2>3, <2>4, RqIs, LifeEnds DEF Life
<1>4. CASE Selected(r)
  <2>. DEFINE b == rq[r].known \/ "ajaxSend" \in Hooks
              v == [rq[r] EXCEPT !.transport = TRUE, !.known = b]
              f == Frame("timeout", r, Nothing)
              p == Hook("ajaxSend", r)
  <2>1. todo' = (p \o <<f>>) \o Tail(todo) /\ rq' = [rq EXCEPT ![r] = v]
    BY <1>1, <1>4 DEF Transport, Instead
  <2>2. f \in Frames /\ f.op = "timeout" /\ f.at = r /\ p \in Seq(Plain) /\ ~ In(p, "fire", DoneList)
    BY OtherFrames, PlainSeqs, Names DEF Frame, HookNames
  <2>3. v \in Variables /\ v.state = rq[r].state /\ v.counted = rq[r].counted /\ v.posted = rq[r].posted
    <3>1. b \in BOOLEAN
      OBVIOUS
    <3>. HIDE DEF b
    <3>. QED  BY <3>1, RqIs DEF Variables
  <2>4. rq[r].counted /\ rq[r].posted
    <3>1. In(todo, "transport", r)
      BY <1>1, RqIs, OnlyOne DEF Life, Counts
    <3>. QED  BY <3>1, RqIs DEF RqOK, Life
  <2>. HIDE DEF v, f, p
  <2>5. Taking /\ TakenFor("timeout")
    BY <1>1, <1>2, <2>1, <2>2, RqIs, TakesForMany DEF Taking, Life
  <2>. QED  BY <1>1, <1>2, <2>1, <2>3, <2>4, <2>5, LifeGoesOn DEF Life
<1>. QED  BY <1>3, <1>4

\* The functions given with the call are added as plain calls.
LEMMA Givens ==
    ASSUME NEW r \in Requests
    PROVE  LET p == AddGiven(r, "success", "done") \o AddGiven(r, "error", "fail") \o AddGiven(r, "complete", "complete")
           IN  p \in Seq(Plain) /\ ~ In(p, "fire", DoneList)
<1>1. ASSUME NEW does \in Own, NEW name \in {"done", "fail", "complete"}
      PROVE  AddGiven(r, does, name) \in Seq(Plain) /\ ~ In(AddGiven(r, does, name), "fire", DoneList)
  <2>1. Callback(does, r) \in Attached /\ <<r, name>> \in Told
    BY Names DEF Callback, Attached
  <2>2. Frame("add", <<r, name>>, Callback(does, r)) \in Plain /\ Frame("add", <<r, name>>, Callback(does, r)).op = "add"
    BY <2>1, PlainFrames DEF Frame
  <2>3. CASE does \in Given[r]
    BY <2>2, <2>3, PlainSeqs DEF AddGiven
  <2>4. CASE does \notin Given[r]
    BY <2>4, PlainSeqs DEF AddGiven, In
  <2>. QED  BY <2>3, <2>4
<1>. DEFINE a == AddGiven(r, "success", "done")
            b == AddGiven(r, "error", "fail")
            c == AddGiven(r, "complete", "complete")
<1>2. a \in Seq(Plain) /\ b \in Seq(Plain) /\ c \in Seq(Plain)
      /\ ~ In(a, "fire", DoneList) /\ ~ In(b, "fire", DoneList) /\ ~ In(c, "fire", DoneList)
  BY <1>1 DEF Own
<1>. HIDE DEF a, b, c
<1>3. a \o b \in Seq(Plain) /\ a \o b \in Seq(Frames) /\ c \in Seq(Frames) /\ a \in Seq(Frames) /\ b \in Seq(Frames)
  BY <1>2, PlainSeqs DEF Plain
<1>4. ~ In(a \o b, "fire", DoneList)
  BY <1>2, <1>3, InJoined
<1>. DEFINE ab == a \o b
<1>5. ~ In(ab \o c, "fire", DoneList)
  <2>1. ab \in Seq(Frames) /\ c \in Seq(Frames) /\ ~ In(ab, "fire", DoneList) /\ ~ In(c, "fire", DoneList)
    BY <1>2, <1>3, <1>4
  <2>. HIDE DEF ab
  <2>. QED  BY <2>1, InJoined
<1>6. (a \o b) \o c \in Seq(Plain)
  BY <1>2, <1>3
<1>. QED  BY <1>5, <1>6 DEF a, b, c

\* The functions given become callbacks.
LEMMA StepInstall ==
    ASSUME IInv, Install PROVE IInv'
<1>1. PICK r \in Requests : Top.at = r /\ todo # << >> /\ Top.op = "install"
  BY RqIs, TopNow DEF Install, OfRequest, Life
<1>2. UNCHANGED <<lists, settled, added, called, lost, ready, active, early, moves>>
  BY DEF Install, histories, page
<1>3. ASSUME todo' = <<Frame("abort", r, Answer(0, rq[r].strAbort))>> \o Tail(todo), rq' = rq PROVE IInv'
  <2>. DEFINE f == Frame("abort", r, Answer(0, rq[r].strAbort))
  <2>1. f \in Frames /\ f.op = "abort"
    <3>1. Answer(0, rq[r].strAbort) \in Answers
      BY RqIs, SomeAnswers DEF Variables
    <3>. QED  BY <3>1, OtherFrames DEF Frame
  <2>2. todo' = <<f>> \o Tail(todo)
    BY <1>3
  <2>. HIDE DEF f
  <2>3. Taking /\ Taken
    BY <1>1, <1>2, <2>1, <2>2, RqIs, TakesAtOnce DEF Taking
  <2>4. rq' = [rq EXCEPT ![r] = rq[r]]
    BY <1>3, RqIs
  <2>. QED  BY <1>1, <1>2, <2>3, <2>4, RqIs, LifeEnds DEF Life
<1>4. ASSUME Set(r, "strAbort", "abort"),
             todo' = (AddGiven(r, "success", "done") \o AddGiven(r, "error", "fail")
                      \o AddGiven(r, "complete", "complete") \o <<Frame("transport", r, Nothing)>>) \o Tail(todo)
      PROVE  IInv'
  <2>. DEFINE v == [rq[r] EXCEPT !.strAbort = "abort"]
              f == Frame("transport", r, Nothing)
              p == AddGiven(r, "success", "done") \o AddGiven(r, "error", "fail") \o AddGiven(r, "complete", "complete")
  <2>1. todo' = (p \o <<f>>) \o Tail(todo) /\ rq' = [rq EXCEPT ![r] = v]
    BY <1>4 DEF Set
  <2>2. f \in Frames /\ f.op = "transport" /\ f.at = r
    BY OtherFrames DEF Frame
  <2>3. p \in Seq(Plain) /\ ~ In(p, "fire", DoneList)
    BY Givens
  <2>4. v \in Variables /\ v.state = rq[r].state /\ v.counted = rq[r].counted /\ v.posted = rq[r].posted
    BY RqIs DEF Variables
  <2>5. rq[r].counted /\ rq[r].posted
    <3>1. In(todo, "install", r)
      BY <1>1, RqIs, OnlyOne DEF Life, Counts
    <3>. QED  BY <3>1, RqIs DEF RqOK, Life
  <2>. HIDE DEF v, f, p
  <2>6. Taking /\ TakenFor("transport")
    BY <1>1, <1>2, <2>1, <2>2, <2>3, RqIs, TakesForMany DEF Taking, Life
  <2>. QED  BY <1>1, <1>2, <2>1, <2>4, <2>5, <2>6, LifeGoesOn DEF Life
<1>. QED  BY <1>1, <1>3, <1>4 DEF Install, Instead

\* The frame of beforeSend comes directly before the one that looks at its answer.
LEMMA TakesForAsked ==
    ASSUME Shape(todo), todo # << >>, Top.op = "begin", NEW r \in Requests, Top.at = r,
           NEW p \in Seq(Plain), ~ In(p, "fire", DoneList),
           todo' = ((p \o BeforeSend(r)) \o <<Frame("install", r, [refused |-> FALSE])>>) \o Tail(todo)
    PROVE  /\ Base(todo') /\ Shape(todo') /\ TakenFor("install")
           /\ In(todo', "fire", DoneList) => In(todo, "fire", DoneList)
           /\ todo' # << >> => Head(todo').op \notin {"ready", "loop", "catch"}
<1>. DEFINE f == Frame("install", r, [refused |-> FALSE])
            b == Frame("page", r, [hook |-> "beforeSend"])
            s == Tail(todo)
            u == <<f>> \o s
            w == <<b>> \o u
<1>1. f \in Frames /\ f.op = "install" /\ f.at = r /\ b \in Frames /\ b.op = "page" /\ b.at = r
  BY OtherFrames DEF Frame
<1>2. Head(todo) = Top /\ s \in Seq(Frames)
  BY Tops DEF Top
<1>3. p \in Seq(Frames)
  BY DEF Plain
<1>. HIDE DEF f, b
<1>4. CASE BeforeSend(r) = << >>
  <2>1. p \o BeforeSend(r) = p
    BY <1>4, <1>3
  <2>2. todo' = (p \o <<f>>) \o Tail(todo)
    BY <2>1 DEF f
  <2>. QED  BY <1>1, <2>2, TakesForMany DEF Life
<1>5. CASE BeforeSend(r) = <<b>>
  <2>1. todo' = p \o w
    <3>1. <<f>> \in Seq(Frames) /\ <<b>> \in Seq(Frames) /\ p \o <<b>> \in Seq(Frames) /\ u \in Seq(Frames)
      BY <1>1, <1>2, <1>3
    <3>2. todo' = ((p \o <<b>>) \o <<f>>) \o s
      BY <1>5 DEF f
    <3>3. \A q \in Seq(Frames) : (q \o <<f>>) \o s = q \o (<<f>> \o s)
      BY <1>2, <3>1, Joining
    <3>. HIDE DEF s
    <3>4. ((p \o <<b>>) \o <<f>>) \o s = (p \o <<b>>) \o u
      BY <3>1, <3>3
    <3>. HIDE DEF u
    <3>5. (p \o <<b>>) \o u = p \o w
      BY <1>3, <3>1, Joining
    <3>. QED  BY <3>2, <3>4, <3>5
  <2>2. Fits(f, s) /\ f.op \notin AtOnce \cup {"loop"}
    <3>1. \A op \in Counts : ~ In(s, op, f.at)
      BY <1>1, OnlyOne DEF Life
    <3>. QED  BY <1>1, <3>1 DEF Fits, AtOnce, Life, Ends, Asks
  <2>3. /\ Base(u) /\ Head(u) = f /\ u # << >> /\ u[1] = f
        /\ \A op \in Kinds : \A x : In(u, op, x) <=>
            (f.op = op /\ f.at = x) \/ (In(todo, op, x) /\ ~ (Top.op = op /\ Top.at = x))
        /\ \A x : In(u, "fire", x) => In(todo, "fire", x)
    <3>1. Head(todo).op # "run"
      BY <1>2
    <3>2. /\ Base(u) /\ Head(u) = f /\ u # << >>
          /\ \A op \in Kinds : \A x : In(u, op, x) <=> 
              (f.op = op /\ f.at = x) \/ (In(todo, op, x) /\ ~ (Head(todo).op = op /\ Head(todo).at = x))
          /\ \A x : In(u, "fire", x) => In(todo, "fire", x)
      BY <2>2, <3>1, Replaced
    <3>3. u[1] = f
      BY <1>1, <1>2
    <3>. QED  BY <1>2, <3>2, <3>3
  <2>. HIDE DEF u
  <2>4. Base(w) /\ \A op, x : In(w, op, x) <=> (b.op = op /\ b.at = x) \/ In(u, op, x)
    <3>1. b.op \notin Life \cup Ends \cup {"run", "send", "loop", "uncount"} \cup AtOnce
      BY <1>1 DEF Life, Ends, AtOnce
    <3>. QED  BY <1>1, <2>3, <3>1, Push
  <2>. HIDE DEF w
  <2>5. /\ Base(todo')
        /\ \A op, x : op \notin PlainOps => (In(todo', op, x) <=> In(w, op, x))
        /\ \A op, x : In(todo', op, x) => In(p, op, x) \/ In(w, op, x)
    <3>1. /\ Base(p \o w)
          /\ \A op, x : op \notin PlainOps => (In(p \o w, op, x) <=> In(w, op, x))
          /\ \A op, x : In(p \o w, op, x) => In(p, op, x) \/ In(w, op, x)
      BY <2>4, PushPlain
    <3>. QED  BY <2>1, <3>1
  <2>6. \A op \in Kinds : op \notin PlainOps /\ op # "page"
    BY DEF Kinds, Counts, Life, Ends, PlainOps
  <2>7. TakenFor("install")
    BY <1>1, <2>3, <2>4, <2>5, <2>6 DEF TakenFor
  <2>8. In(todo', "fire", DoneList) => In(todo, "fire", DoneList)
    BY <1>1, <2>3, <2>4, <2>5
  <2>9. todo' # << >> => Head(todo').op \notin {"ready", "loop", "catch"}
    BY <2>5, OnBase DEF AtOnce
  <2>. QED  BY <2>5, <2>7, <2>8, <2>9 DEF Base
<1>. QED  BY <1>4, <1>5 DEF BeforeSend, b

\* The request is counted.
LEMMA StepBegin ==
    ASSUME IInv, Begin PROVE IInv'
<1>1. PICK r \in Requests : Top.at = r /\ todo # << >> /\ Top.op = "begin"
  BY RqIs, TopNow DEF Begin, OfRequest, Life
<1>2. UNCHANGED <<lists, settled, added, called, lost, ready, early, moves>>
  BY DEF Begin, histories, page
<1>3. CASE rq[r].state = 2
  <2>1. todo' = << >> \o Tail(todo) /\ rq' = rq /\ active' = active
    BY <1>1, <1>3 DEF Begin, Instead, ajax
  <2>2. Taking /\ Taken
    BY <1>1, <1>2, <2>1, RqIs, TakesNothing DEF Taking
  <2>3. rq' = [rq EXCEPT ![r] = rq[r]]
    BY <2>1, RqIs
  <2>. QED  BY <1>1, <1>2, <2>1, <2>2, <2>3, RqIs, LifeEnds DEF Life
<1>4. CASE rq[r].state # 2
  <2>. DEFINE a == rq[r].known \/ "beforeSend" \in Given[r]
              v == [rq[r] EXCEPT !.counted = TRUE, !.known = a]
              p == IF active = 0 THEN Hook("ajaxStart", r) ELSE << >>
  <2>1. /\ rq' = [rq EXCEPT ![r] = v] /\ active' = active + 1
        /\ todo' = ((p \o BeforeSend(r)) \o <<Frame("install", r, [refused |-> FALSE])>>) \o Tail(todo)
    BY <1>1, <1>4 DEF Begin, Instead
  <2>2. p \in Seq(Plain) /\ ~ In(p, "fire", DoneList)
    <3>1. /\ << >> \in Seq(Plain) /\ ~ In(<< >>, "fire", DoneList)
          /\ Hook("ajaxStart", r) \in Seq(Plain) /\ ~ In(Hook("ajaxStart", r), "fire", DoneList)
      <4>. HIDE DEF a, v, p
      <4>1. "ajaxStart" \in HookNames /\ r \in Deferreds
        BY Names DEF HookNames
      <4>2. ~ In(<< >>, "fire", DoneList)
        BY DEF In
      <4>. QED  BY <4>1, <4>2, PlainSeqs
    <3>2. CASE active = 0
      BY <3>1, <3>2
    <3>3. CASE active # 0
      BY <3>1, <3>3
    <3>. QED  BY <3>2, <3>3
  <2>3. v \in Variables /\ v.state = rq[r].state /\ v.counted /\ v.posted = rq[r].posted
    <3>1. a \in BOOLEAN
      OBVIOUS
    <3>. HIDE DEF a
    <3>. QED  BY <3>1, RqIs DEF Variables
  <2>4. rq[r].posted
    <3>1. In(todo, "begin", r)
      BY <1>1, RqIs, OnlyOne DEF Life, Counts
    <3>. QED  BY <3>1, RqIs DEF RqOK, Life
  <2>. HIDE DEF v, p
  <2>5. Taking /\ TakenFor("install")
    BY <1>1, <1>2, <2>1, <2>2, RqIs, TakesForAsked DEF Taking
  <2>. QED  BY <1>1, <1>2, <1>4, <2>1, <2>3, <2>4, <2>5, LifeGoesOn DEF Life
<1>. QED  BY <1>3, <1>4

\* The timer is set, and the state, whatever it was.
LEMMA StepSetTimeout ==
    ASSUME IInv, SetTimeout PROVE IInv'
<1>1. PICK r \in Requests : Top.at = r /\ todo # << >> /\ Top.op = "timeout"
  BY RqIs, TopNow DEF SetTimeout, OfRequest, Life
<1>. DEFINE a == r \in Timed \ Sync
            v == [rq[r] EXCEPT !.timer = a, !.state = 1]
            f == Frame("send", r, Nothing)
            g == Frame("try", r, Nothing)
            s == Tail(todo)
            u == <<g>> \o s
<1>2. /\ todo' = <<f, g>> \o s /\ rq' = [rq EXCEPT ![r] = v]
      /\ early' = IF rq[r].state = 2 THEN early \cup {r} ELSE early
      /\ UNCHANGED <<lists, settled, added, called, lost, ready, active>> /\ moves' \in Nat
  BY <1>1, RqIs DEF SetTimeout, Instead, histories
<1>3. f \in Frames /\ f.op = "send" /\ f.at = r /\ g \in Frames /\ g.op = "try" /\ g.at = r
  BY OtherFrames DEF Frame
<1>4. RqOK(r) /\ rq[r] \in Variables /\ Head(todo) = Top /\ s \in Seq(Frames) /\ Base(s)
  BY <1>1, RqIs, Tops DEF Top
<1>5. v \in Variables /\ v.state = 1 /\ v.counted = rq[r].counted /\ v.posted = rq[r].posted
  <2>1. a \in BOOLEAN
    OBVIOUS
  <2>2. 1 \in 0..2
    OBVIOUS
  <2>. HIDE DEF a
  <2>3. v \in Variables
    BY <1>4, <2>1, <2>2 DEF Variables
  <2>. QED  BY <1>4, <2>3 DEF Variables
<1>6. /\ \A op \in Counts : In(todo, op, r) <=> op = "timeout"
      /\ \A op \in Counts : ~ In(s, op, r)
  BY <1>1, RqIs, OnlyOne DEF Life
<1>. HIDE DEF f, g, v
<1>7. /\ Base(u) /\ u # << >> /\ Head(u) = g /\ u[1] = g
      /\ \A op \in Kinds : \A x : In(u, op, x) <=> \/ op = "try" /\ x = r
                                                   \/ In(todo, op, x) /\ ~ (op = "timeout" /\ x = r)
      /\ \A x : In(u, "fire", x) => In(todo, "fire", x)
  <2>1. Fits(g, s) /\ g.op \notin AtOnce \cup {"loop"}
    BY <1>3, <1>6 DEF Fits, AtOnce, Life, Ends, Asks
  <2>2. u[1] = g
    BY <1>3, <1>4
  <2>3. /\ Base(u) /\ Head(u) = g /\ u # << >>
        /\ \A op \in Kinds : \A x : In(u, op, x) <=> \/ g.op = op /\ g.at = x
                                                     \/ In(todo, op, x) /\ ~ (Head(todo).op = op /\ Head(todo).at = x)
        /\ \A x : In(u, "fire", x) => In(todo, "fire", x)
    BY <1>1, <1>4, <2>1, Replaced, RqIs
  <2>. QED  BY <1>1, <1>3, <1>4, <2>2, <2>3
<1>8. todo' = <<f>> \o u
  <2>1. <<f, g>> = <<f>> \o <<g>> /\ <<f>> \in Seq(Frames) /\ <<g>> \in Seq(Frames)
    BY <1>3, Pair
  <2>. HIDE DEF s
  <2>2. (<<f>> \o <<g>>) \o s = <<f>> \o (<<g>> \o s)
    BY <1>4, <2>1, Joining
  <2>. QED  BY <1>2, <2>1, <2>2
<1>. HIDE DEF u, s
<1>9. /\ Shape(todo') /\ todo' # << >> /\ Head(todo') = f
      /\ \A op, x : In(todo', op, x) <=> (f.op = op /\ f.at = x) \/ In(u, op, x)
  <2>1. /\ Shape(<<f>> \o u) /\ <<f>> \o u # << >> /\ Head(<<f>> \o u) = f
        /\ \A op, x : In(<<f>> \o u, op, x) <=> (f.op = op /\ f.at = x) \/ In(u, op, x)
    BY <1>3, <1>7, Push DEF Asks, Life, Ends
  <2>. QED  BY <1>8, <2>1
<1>10. "send" \notin Kinds /\ Counts \subseteq Kinds /\ "loop" \in Kinds /\ {"try", "uncount"} \subseteq Counts
       /\ Life \subseteq Counts /\ "timeout" \in Life
  BY DEF Kinds, Counts, Life, Ends
<1>11. \A op \in Kinds : \A x : In(todo', op, x) <=> \/ op = "try" /\ x = r
                                                     \/ In(todo, op, x) /\ ~ (op = "timeout" /\ x = r)
  BY <1>3, <1>7, <1>9, <1>10
<1>12. r \notin early /\ <<"uncount", r>> \notin lost /\ rq[r].counted /\ rq[r].posted
  <2>1. In(todo, "timeout", r) /\ ~ On("catch")
    BY <1>1, <1>6, <1>10 DEF On
  <2>. QED  BY <1>4, <2>1 DEF RqOK, Life
<1>13. /\ rq'[r] = v /\ \A q \in Requests : q # r => rq'[q] = rq[q]
       /\ v.counted /\ v.posted
  BY <1>2, <1>5, <1>12, RqIs, Updated
<1>14. RqOK(r)'
  <2>1. \A op \in Counts : In(todo', op, r) => op = "try"
    BY <1>6, <1>10, <1>11
  <2>2. \A op \in Life \cup {"begin", "install", "transport", "timeout", "uncount"} : ~ In(todo', op, r)
    BY <2>1 DEF Counts, Life, Ends
  <2>3. TopIs("send", r)'
    BY <1>3, <1>9 DEF TopIs, On, Idle, Top
  <2>. QED  BY <1>2, <1>5, <1>12, <1>13, <2>2, <2>3 DEF RqOK
<1>15. ToUncount' = ToUncount
  <2>1. \A q : In(todo', "uncount", q) <=> In(todo, "uncount", q)
    BY <1>10, <1>11
  <2>. QED  BY <2>1 DEF ToUncount
<1>16. /\ Cardinality(UnderWay) \in Nat /\ Cardinality(ToUncount) \in Nat /\ Cardinality(LostOnes) \in Nat /\ Cardinality(early) \in Nat
       /\ active = Cardinality(UnderWay) + Cardinality(ToUncount) + Cardinality(LostOnes) - Cardinality(early)
  BY CountsAre, OneMore
<1>17. active = Cardinality(UnderWay') + Cardinality(ToUncount') + Cardinality(LostOnes) - Cardinality(early')
  <2>1. CASE rq[r].state = 2
    <3>1. r \notin UnderWay /\ UnderWay' = UnderWay \cup {r}
      BY <1>5, <1>12, <1>13, <2>1 DEF UnderWay
    <3>2. early' = early \cup {r}
      BY <1>2, <2>1
    <3>3. Cardinality(UnderWay') = Cardinality(UnderWay) + 1
      BY <3>1, CountsAre, OneMore
    <3>4. Cardinality(early') = Cardinality(early) + 1
      BY <1>12, <3>2, CountsAre, OneMore
    <3>. QED  BY <1>15, <1>16, <3>3, <3>4
  <2>2. CASE rq[r].state # 2
    <3>1. rq[r].state < 2
      BY <1>4, <2>2 DEF Variables
    <3>2. UnderWay' = UnderWay
      BY <1>5, <1>12, <1>13, <3>1 DEF UnderWay
    <3>3. early' = early
      BY <1>2, <2>2
    <3>. QED  BY <1>15, <1>16, <3>2, <3>3
  <2>. QED  BY <2>1, <2>2
<1>18. RequestsInv'
  <2>1. early' \subseteq Requests /\ \A q \in Requests \ {r} : q \in early' <=> q \in early
    BY <1>2, CountsAre
  <2>2. \A op \in Counts : \A q \in Requests \ {r} : In(todo', op, q) <=> In(todo, op, q)
    BY <1>10, <1>11
  <2>3. ~ On("catch") /\ active' = active /\ lost' = lost
    BY <1>1, <1>2 DEF On
  <2>. QED  BY <1>1, <1>2, <1>14, <1>17, <2>1, <2>2, <2>3, AboutOne
<1>19. /\ In(todo', "fire", DoneList) => In(todo, "fire", DoneList)
       /\ \A x : In(todo', "loop", x) <=> In(todo, "loop", x)
       /\ todo' # << >> => Head(todo').op \notin {"ready", "loop"}
  BY <1>3, <1>7, <1>9, <1>10, <1>11
<1>. QED  BY <1>1, <1>2, <1>9, <1>18, <1>19, CountingStep

\* The frame "send" goes, or gives way to the end of the request.
LEMMA StepSend ==
    ASSUME IInv, Send PROVE IInv'
<1>1. PICK r \in Requests : Top.at = r /\ todo # << >> /\ Top.op = "send"
  BY RqIs, TopNow DEF Send, OfRequest
<1>. DEFINE s == Tail(todo)
<1>2. UNCHANGED <<lists, settled, added, called, lost, active, early, ready, moves>>
  BY DEF Send, histories, page
<1>3. /\ RqOK(r) /\ rq[r] \in Variables /\ Head(todo) = Top /\ s \in Seq(Frames) /\ Base(s)
      /\ \A op, x : In(todo, op, x) <=> (op = "send" /\ x = r) \/ In(s, op, x)
  BY <1>1, RqIs, Tops DEF Top
<1>4. s # << >> /\ Head(s).op = "try" /\ Head(s).at = r
  <2>1. todo \in Seq(Frames) /\ 1 \in DOMAIN todo /\ Top = todo[1] /\ Shape(todo)
    BY <1>1, RqIs, Tops DEF Shape, Top
  <2>2. 1 < Len(todo) /\ todo[1 + 1].op = "try" /\ todo[1 + 1].at = r
    BY <1>1, <2>1 DEF Shape
  <2>3. 1 \in 1..Len(s) /\ Head(s) = s[1] /\ s[1] = todo[1 + 1] /\ s # << >>
    BY <1>1, <2>1, <2>2, TailIs
  <2>. QED  BY <2>2, <2>3
<1>5. "send" \notin Kinds /\ Counts \subseteq Kinds /\ "loop" \in Kinds /\ "uncount" \in Counts
  BY DEF Kinds, Counts, Life, Ends
<1>6. ASSUME Shape(todo'), \A op \in Kinds : \A x : In(todo', op, x) <=> In(s, op, x),
             \A x : In(todo', "fire", x) => In(s, "fire", x),
             todo' # << >> /\ Head(todo').at = r /\ Head(todo').op \in {"try", "finish"},
             NEW v, rq' = [rq EXCEPT ![r] = v], v \in Variables, v.state = rq[r].state,
             v.counted = rq[r].counted, v.posted = rq[r].posted
      PROVE  IInv'
  <2>1. \A op \in Kinds : \A x : In(todo', op, x) <=> In(todo, op, x)
    BY <1>3, <1>5, <1>6
  <2>2. rq'[r] = v /\ \A q \in Requests : q # r => rq'[q] = rq[q]
    BY <1>6, RqIs, Updated
  <2>3. \E op \in {"try", "send", "finish"} : TopIs(op, r)'
    BY <1>6 DEF TopIs, On, Idle, Top
  <2>4. ~ On("catch")
    BY <1>1 DEF On
  <2>5. RqOK(r)'
    <3>1. /\ \A op \in Life \cup Ends \cup {"uncount"} : In(todo', op, r) <=> In(todo, op, r)
          /\ \A op \in {"begin", "install", "transport", "timeout", "uncount"} : In(todo', op, r) <=> In(todo, op, r)
      BY <1>5, <2>1 DEF Counts, Life, Ends
    <3>2. \A op \in Life : In(todo', op, r) => r \notin early' /\ <<"uncount", r>> \notin lost'
      BY <1>2, <1>3, <2>4, <3>1 DEF RqOK
    <3>. QED  BY <1>2, <1>3, <1>6, <2>2, <2>3, <3>1, <3>2 DEF RqOK
  <2>6. UnderWay' = UnderWay
    BY <1>6, <2>2, SameCounts
  <2>7. ToUncount' = ToUncount
    <3>1. \A q : In(todo', "uncount", q) <=> In(todo, "uncount", q)
      BY <1>5, <2>1
    <3>. QED  BY <3>1 DEF ToUncount
  <2>8. RequestsInv'
    <3>1. \A op \in Counts : \A q \in Requests \ {r} : In(todo', op, q) <=> In(todo, op, q)
      BY <1>5, <2>1
    <3>. QED  BY <1>1, <1>2, <1>6, <2>4, <2>5, <2>6, <2>7, <3>1, CountsAre, AboutOne
  <2>9. /\ In(todo', "fire", DoneList) => In(todo, "fire", DoneList)
        /\ \A x : In(todo', "loop", x) <=> In(todo, "loop", x)
    BY <1>3, <1>5, <1>6, <2>1
  <2>10. Top.op \notin {"ready", "fire", "loop"} /\ Head(todo').op \notin {"ready", "loop"} /\ moves' \in Nat
    BY <1>1, <1>2, <1>6, RqIs
  <2>. QED  BY <1>2, <1>6, <2>8, <2>9, <2>10, CountingStep
<1>7. ASSUME Listens(r) PROVE IInv'
  <2>. DEFINE v == [rq[r] EXCEPT !.callback = TRUE, !.wire = "sent"]
  <2>1. rq' = [rq EXCEPT ![r] = v] /\ todo' = s
    BY <1>3, <1>7, Joining DEF Listens, Instead
  <2>2. v \in Variables /\ v.state = rq[r].state /\ v.counted = rq[r].counted /\ v.posted = rq[r].posted
    BY <1>3 DEF Variables
  <2>. HIDE DEF v, s
  <2>. QED  BY <1>3, <1>4, <1>6, <2>1, <2>2 DEF Base
<1>8. ASSUME NEW a \in Responses, Set(r, "wire", "answered"), Instead(<<Frame("finish", r, a)>>) PROVE IInv'
  <2>. DEFINE v == [rq[r] EXCEPT !.wire = "answered"]
              f == Frame("finish", r, a)
  <2>1. rq' = [rq EXCEPT ![r] = v] /\ todo' = <<f>> \o s
    BY <1>8 DEF Set, Instead
  <2>2. v \in Variables /\ v.state = rq[r].state /\ v.counted = rq[r].counted /\ v.posted = rq[r].posted
    BY <1>3 DEF Variables
  <2>3. f \in Frames /\ f.op = "finish" /\ f.at = r
    BY OtherFrames, SomeAnswers DEF Frame
  <2>. HIDE DEF v, f, s
  <2>4. Fits(f, s) /\ f.op \notin Kinds \cup {"fire"}
    BY <2>3 DEF Fits, Kinds, Counts, Life, Ends, Asks
  <2>5. /\ Shape(todo') /\ todo' # << >> /\ Head(todo') = f
        /\ \A op, x : In(todo', op, x) <=> (f.op = op /\ f.at = x) \/ In(s, op, x)
    <3>1. /\ Shape(<<f>> \o s) /\ <<f>> \o s # << >> /\ Head(<<f>> \o s) = f
          /\ \A op, x : In(<<f>> \o s, op, x) <=> (f.op = op /\ f.at = x) \/ In(s, op, x)
      BY <1>3, <2>4, PushFit
    <3>. QED  BY <2>1, <3>1
  <2>. QED  BY <1>6, <2>1, <2>2, <2>3, <2>4, <2>5
<1>. QED  BY <1>1, <1>7, <1>8 DEF Send

\* What done calls, up to the completions.
LEMMA Completion ==
    ASSUME NEW r \in Requests, NEW a \in Answers
    PROVE  LET o == Outcome(r, a)
               p == (((IF o.good THEN Resolve(r, Data(o.text)) ELSE Reject(r, Data(o.text)))
                      \o (IF rq[r].coded THEN <<Frame("add", <<r, "done">>, Callback("status", r)),
                                                Frame("add", <<r, "fail">>, Callback("status", r))>>
                                         ELSE << >>))
                      \o (IF rq[r].counted THEN Hook(IF o.good THEN "ajaxSuccess" ELSE "ajaxError", r) ELSE << >>))
                     \o <<Frame("fire", <<r, "complete">>, Data(o.text))>>
           IN  p \in Seq(Plain) /\ ~ In(p, "fire", DoneList)
<1>. DEFINE o == Outcome(r, a)
            d == Data(o.text)
            A == IF o.good THEN Resolve(r, d) ELSE Reject(r, d)
            f == Frame("add", <<r, "done">>, Callback("status", r))
            g == Frame("add", <<r, "fail">>, Callback("status", r))
            B == IF rq[r].coded THEN <<f, g>> ELSE << >>
            n == IF o.good THEN "ajaxSuccess" ELSE "ajaxError"
            C == IF rq[r].counted THEN Hook(n, r) ELSE << >>
            e == Frame("fire", <<r, "complete">>, d)
            D == <<e>>
            None(p) == p \in Seq(Plain) /\ ~ In(p, "fire", DoneList)
<1>1. d \in Datas \ {Nothing}
  BY OutcomeIs
<1>2. \A name \in {"done", "fail", "complete"} : <<r, name>> \in Fires /\ <<r, name>> \in Told /\ <<r, name>> # DoneList
  BY Names DEF Fires, DoneList
<1>. HIDE DEF o, d
<1>3. None(<< >>)
  BY PlainSeqs DEF In
<1>4. ASSUME NEW name \in {"done", "fail", "complete"} PROVE None(<<Frame("fire", <<r, name>>, d)>>)
  <2>1. Frame("fire", <<r, name>>, d) \in Plain /\ Frame("fire", <<r, name>>, d).at # DoneList
    BY <1>1, <1>2, PlainFrames DEF Frame
  <2>. QED  BY <2>1, PlainSeqs
<1>5. None(A)
  BY <1>4 DEF Resolve, Reject
<1>6. ASSUME NEW p, NEW q, None(p), None(q) PROVE None(p \o q)
  <2>1. p \in Seq(Frames) /\ q \in Seq(Frames)
    BY <1>6 DEF Plain
  <2>. QED  BY <1>6, <2>1, InJoined, PlainSeqs
<1>7. None(B)
  <2>1. f \in Plain /\ g \in Plain /\ f.op = "add" /\ g.op = "add"
    <3>1. Callback("status", r) \in Attached
      BY Names DEF Callback, Attached, Own
    <3>. QED  BY <3>1, <1>2, PlainFrames DEF Frame
  <2>. HIDE DEF f, g
  <2>2. None(<<f>>) /\ None(<<g>>)
    BY <2>1, PlainSeqs
  <2>3. <<f, g>> = <<f>> \o <<g>>
    BY <2>1, Pair
  <2>4. None(<<f>> \o <<g>>)
    BY <2>2, <1>6
  <2>. QED  BY <2>3, <2>4, <1>3
<1>8. None(C)
  <2>1. n \in HookNames /\ r \in Deferreds
    BY Names DEF HookNames
  <2>. HIDE DEF n
  <2>2. None(Hook(n, r))
    BY <2>1, PlainSeqs
  <2>. QED  BY <2>2, <1>3
<1>9. None(D)
  BY <1>4
<1>. HIDE DEF A, B, C, D, None
<1>10. None(((A \o B) \o C) \o D)
  BY <1>5, <1>6, <1>7, <1>8, <1>9
<1>. QED  BY <1>10 DEF A, B, C, D, None, o, d, f, g, e, n

\* done().
LEMMA StepFinish ==
    ASSUME IInv, Finish PROVE IInv'
<1>1. PICK r \in Requests : Top.at = r /\ todo # << >> /\ Top.op = "finish" /\ Top.arg \in Answers
  BY RqIs, TopNow DEF Finish, OfRequest
<1>. DEFINE o == Outcome(r, Top.arg)
            s == Tail(todo)
<1>2. UNCHANGED <<lists, settled, added, called, lost, active, early, ready, moves>>
  BY DEF Finish, histories, page
<1>3. /\ RqOK(r) /\ rq[r] \in Variables /\ Head(todo) = Top /\ s \in Seq(Frames) /\ Base(s) /\ Shape(todo)
      /\ ~ On("catch") /\ \A op \in {"try", "send", "finish"} : On(op) => Top.at = r
  BY <1>1, RqIs, Tops DEF Top, On
<1>4. "finish" \notin Kinds /\ Counts \subseteq Kinds /\ {"loop", "uncount"} \subseteq Kinds /\ "uncount" \in Counts
  BY DEF Kinds, Counts, Life, Ends
<1>5. CASE Done(r)
  <2>1. todo' = << >> \o Tail(todo) /\ rq' = rq
    BY <1>1, <1>5 DEF Finish, Instead
  <2>2. /\ Shape(todo') /\ Taken /\ (In(todo', "fire", DoneList) => In(todo, "fire", DoneList))
        /\ todo' # << >> => Head(todo').op \notin {"ready", "loop"}
    BY <1>1, <1>3, <2>1, TakesNothing
  <2>3. \A op \in Kinds : \A x : In(todo', op, x) <=> In(todo, op, x)
    BY <1>1, <1>4, <2>2 DEF Taken
  <2>4. RqOK(r)'
    <3>1. /\ \A op \in Life \cup Ends \cup {"uncount"} : In(todo', op, r) <=> In(todo, op, r)
          /\ \A op \in {"begin", "install", "transport", "timeout", "uncount"} : In(todo', op, r) <=> In(todo, op, r)
      BY <1>4, <2>3 DEF Counts, Life, Ends
    <3>2. \A op \in Life : In(todo', op, r) => r \notin early' /\ <<"uncount", r>> \notin lost'
      BY <1>2, <1>3, <3>1 DEF RqOK
    <3>. QED  BY <1>2, <1>3, <1>5, <2>1, <3>1, <3>2 DEF RqOK, Done
  <2>5. UnderWay' = UnderWay /\ ToUncount' = ToUncount
    BY <1>4, <2>1, <2>3 DEF UnderWay, ToUncount
  <2>6. RequestsInv'
    <3>1. \A op \in Counts : \A q \in Requests \ {r} : In(todo', op, q) <=> In(todo, op, q)
      BY <1>4, <2>3
    <3>2. rq' = [rq EXCEPT ![r] = rq[r]]
      BY <2>1, RqIs
    <3>. QED  BY <1>2, <1>3, <2>4, <2>5, <3>1, <3>2, CountsAre, AboutOne
  <2>7. \A x : In(todo', "loop", x) <=> In(todo, "loop", x)
    BY <1>4, <2>3
  <2>. QED  BY <1>1, <1>2, <2>2, <2>6, <2>7, RqIs, CountingStep
<1>6. CASE ~ Done(r)
  <2>. DEFINE v == [rq[r] EXCEPT !.state = 2, !.timer = FALSE, !.transport = FALSE,
                                 !.text = o.text, !.coded = FALSE]
              p == (((IF o.good THEN Resolve(r, Data(o.text)) ELSE Reject(r, Data(o.text)))
                      \o (IF rq[r].coded THEN <<Frame("add", <<r, "done">>, Callback("status", r)),
                                                Frame("add", <<r, "fail">>, Callback("status", r))>>
                                         ELSE << >>))
                      \o (IF rq[r].counted THEN Hook(IF o.good THEN "ajaxSuccess" ELSE "ajaxError", r) ELSE << >>))
                     \o <<Frame("fire", <<r, "complete">>, Data(o.text))>>
              h == Hook("ajaxComplete", r)
              f == Frame("uncount", r, Nothing)
              e == IF rq[r].counted THEN h \o <<f>> ELSE << >>
  <2>1. rq' = [rq EXCEPT ![r] = v] /\ todo' = (p \o e) \o s
    BY ZenonT(30), <1>1, <1>6 DEF Finish, Instead
  <2>2. p \in Seq(Plain) /\ ~ In(p, "fire", DoneList)
    BY <1>1, Completion
  <2>3. h \in Seq(Plain) /\ ~ In(h, "fire", DoneList) /\ f \in Frames /\ f.op = "uncount" /\ f.at = r
    BY PlainSeqs, Names, OtherFrames DEF Frame, HookNames
  <2>4. v \in Variables /\ v.state = 2 /\ v.counted = rq[r].counted /\ v.posted = rq[r].posted
        /\ (rq[r].counted => v.counted) /\ (v.counted => rq[r].counted) /\ (~ v.posted => ~ rq[r].posted)
    <3>1. o.text \in Texts /\ 2 \in 0..2
      BY <1>1, OutcomeIs
    <3>. HIDE DEF o
    <3>2. v \in Variables
      BY <1>3, <3>1 DEF Variables
    <3>3. v.state = 2 /\ v.counted = rq[r].counted /\ v.posted = rq[r].posted
      BY <1>3 DEF Variables
    <3>. QED  BY <3>2, <3>3
  <2>. HIDE DEF v, p, h, f
  <2>5. rq'[r] = v /\ \A q \in Requests : q # r => rq'[q] = rq[q]
    BY <2>1, RqIs, Updated
  <2>6. /\ rq[r].state < 2 /\ ~ In(todo, "uncount", r) /\ <<"uncount", r>> \notin lost
    BY <1>3, <1>6 DEF RqOK, Done, Variables
  <2>7. p \in Seq(Frames) /\ h \in Seq(Frames) /\ <<f>> \in Seq(Frames)
    BY <2>2, <2>3 DEF Plain
  <2>8. /\ Base(todo') /\ Shape(todo') /\ (In(todo', "fire", DoneList) => In(todo, "fire", DoneList))
        /\ \A op \in Kinds : \A x : In(todo', op, x) <=> (op = "uncount" /\ x = r /\ rq[r].counted) \/ In(todo, op, x)
    <3>1. CASE rq[r].counted
      <4>1. todo' = ((p \o h) \o <<f>>) \o s
        <5>1. (p \o h) \o <<f>> = p \o (h \o <<f>>)
          BY <2>7, Joining
        <5>2. e = h \o <<f>>
          BY <3>1
        <5>. QED  BY <2>1, <5>1, <5>2
      <4>2. p \o h \in Seq(Plain) /\ ~ In(p \o h, "fire", DoneList)
        BY <2>2, <2>3, <2>7, PlainSeqs, InJoined
      <4>3. Fits(f, s) /\ f.op \notin AtOnce \cup {"loop"}
        <5>1. ~ In(s, "uncount", r)
          BY <1>1, <1>3, <2>6, Tops
        <5>. QED  BY <2>3, <5>1 DEF Fits, AtOnce, Life, Ends, Asks
      <4>. HIDE DEF e
      <4>4. /\ Base(todo') /\ Shape(todo')
            /\ \A op \in Kinds : \A x : In(todo', op, x) <=>
                (f.op = op /\ f.at = x) \/ (In(todo, op, x) /\ ~ (Head(todo).op = op /\ Head(todo).at = x))
            /\ \A x : In(todo', "fire", x) => In(p \o h, "fire", x) \/ In(todo, "fire", x)
        BY <1>1, <1>3, <4>1, <4>2, <4>3, TakesMany
      <4>. QED  BY <1>1, <1>3, <1>4, <2>3, <3>1, <4>2, <4>4
    <3>2. CASE ~ rq[r].counted
      <4>1. todo' = p \o Tail(todo)
        BY <2>1, <2>7, <3>2, Joining
      <4>2. /\ Base(todo') /\ Shape(todo') /\ Taken /\ (In(todo', "fire", DoneList) => In(todo, "fire", DoneList))
        BY <1>1, <1>3, <2>2, <4>1, TakesPlain
      <4>. QED  BY <1>1, <1>4, <3>2, <4>2 DEF Taken
    <3>. QED  BY <3>1, <3>2
  <2>. HIDE DEF e, s, o
  <2>9. RqOK(r)'
    <3>1. /\ \A op \in Life \cup Ends : In(todo', op, r) <=> In(todo, op, r)
          /\ \A op \in {"begin", "install", "transport", "timeout"} : In(todo', op, r) <=> In(todo, op, r)
      BY <1>4, <2>8 DEF Counts, Life, Ends
    <3>2. \A op \in Life : In(todo', op, r) => r \notin early' /\ <<"uncount", r>> \notin lost'
      BY <1>2, <1>3, <3>1 DEF RqOK
    <3>3. In(todo', "uncount", r) => rq[r].counted
      BY <1>4, <2>6, <2>8
    <3>4. ~ rq'[r].posted => /\ ~ rq'[r].counted
                             /\ \A op \in Life \cup Ends \cup {"uncount"} : ~ In(todo', op, r)
      BY <1>3, <2>4, <2>5, <3>1, <3>3 DEF RqOK
    <3>5. /\ In(todo', "begin", r) => ~ rq'[r].counted
          /\ \A op \in {"install", "transport", "timeout"} : In(todo', op, r) => rq'[r].counted
      BY <1>3, <2>4, <2>5, <3>1 DEF RqOK
    <3>. QED  BY <1>2, <1>3, <2>4, <2>5, <2>6, <3>2, <3>3, <3>4, <3>5 DEF RqOK
  <2>10. /\ Cardinality(UnderWay) \in Nat /\ Cardinality(ToUncount) \in Nat /\ Cardinality(LostOnes) \in Nat /\ Cardinality(early) \in Nat
         /\ active = Cardinality(UnderWay) + Cardinality(ToUncount) + Cardinality(LostOnes) - Cardinality(early)
    BY CountsAre, OneMore
  <2>11. active = Cardinality(UnderWay') + Cardinality(ToUncount') + Cardinality(LostOnes) - Cardinality(early)
    <3>1. CASE rq[r].counted
      <4>1. r \in UnderWay /\ UnderWay' = UnderWay \ {r}
        BY <2>4, <2>5, <2>6, <3>1 DEF UnderWay
      <4>2. r \notin ToUncount /\ ToUncount' = ToUncount \cup {r}
        BY <1>4, <2>6, <2>8, <3>1 DEF ToUncount
      <4>3. Cardinality(UnderWay') = Cardinality(UnderWay) - 1
        BY <4>1, CountsAre, OneMore
      <4>4. Cardinality(ToUncount') = Cardinality(ToUncount) + 1
        BY <4>2, CountsAre, OneMore
      <4>. QED  BY <2>10, <4>3, <4>4
    <3>2. CASE ~ rq[r].counted
      <4>1. UnderWay' = UnderWay
        BY <2>4, <2>5, <2>6, <3>2 DEF UnderWay
      <4>2. ToUncount' = ToUncount
        BY <1>4, <2>8, <3>2 DEF ToUncount
      <4>. QED  BY <2>10, <4>1, <4>2
    <3>. QED  BY <3>1, <3>2
  <2>12. RequestsInv'
    <3>1. \A op \in Counts : \A q \in Requests \ {r} : In(todo', op, q) <=> In(todo, op, q)
      BY <1>4, <2>8
    <3>2. early' \subseteq Requests /\ early' = early /\ active' = active /\ lost' = lost
      BY <1>2, CountsAre
    <3>. QED  BY <1>3, <2>1, <2>9, <2>11, <3>1, <3>2, AboutOne
  <2>13. /\ \A x : In(todo', "loop", x) <=> In(todo, "loop", x)
         /\ todo' # << >> => Head(todo').op \notin {"ready", "loop"}
    BY <1>4, <2>8, OnBase DEF AtOnce
  <2>. QED  BY SMTT(30), <1>1, <1>2, <2>8, <2>12, <2>13, RqIs, CountingStep
<1>. QED  BY <1>5, <1>6

\* The request is counted out.
LEMMA StepUncount ==
    ASSUME IInv, Uncount PROVE IInv'
<1>1. PICK r \in Requests : Top.at = r /\ todo # << >> /\ Top.op = "uncount"
  BY RqIs, TopNow DEF Uncount, OfRequest
<1>. DEFINE p == IF active = 1 THEN Hook("ajaxStop", r) ELSE << >>
<1>2. UNCHANGED <<lists, settled, added, called, lost, rq, early, ready, moves>> /\ active' = active - 1
      /\ todo' = p \o Tail(todo)
  BY <1>1 DEF Uncount, histories, page, Instead
<1>3. p \in Seq(Plain) /\ ~ In(p, "fire", DoneList)
  <2>1. /\ << >> \in Seq(Plain) /\ ~ In(<< >>, "fire", DoneList)
        /\ Hook("ajaxStop", r) \in Seq(Plain) /\ ~ In(Hook("ajaxStop", r), "fire", DoneList)
    <3>. HIDE DEF p
    <3>1. "ajaxStop" \in HookNames /\ r \in Deferreds
      BY Names DEF HookNames
    <3>2. ~ In(<< >>, "fire", DoneList)
      BY DEF In
    <3>. QED  BY <3>1, <3>2, PlainSeqs
  <2>. QED  BY <2>1
<1>. HIDE DEF p
<1>4. /\ Shape(todo') /\ Taken /\ (In(todo', "fire", DoneList) => In(todo, "fire", DoneList))
      /\ todo' # << >> => Head(todo').op \notin {"ready", "loop"}
  BY <1>1, <1>2, <1>3, RqIs, TakesPlain
<1>5. Counts \subseteq Kinds /\ {"loop", "uncount"} \subseteq Kinds /\ "uncount" \in Counts
  BY DEF Kinds, Counts
<1>6. \A op \in Kinds : \A x : In(todo', op, x) <=> In(todo, op, x) /\ ~ (op = "uncount" /\ x = r)
  BY <1>1, <1>4 DEF Taken
<1>7. In(todo, "uncount", r) /\ RqOK(r)
  <2>1. Head(todo) = Top
    BY DEF Top
  <2>. QED  BY <1>1, <2>1, RqIs, Tops
<1>8. \A op \in {"catch", "try", "send", "finish"} : ~ On(op)
  BY <1>1 DEF On
<1>9. RqOK(r)'
  <2>1. /\ \A op \in Life \cup Ends \cup {"uncount"} : In(todo', op, r) => In(todo, op, r)
        /\ \A op \in {"begin", "install", "transport", "timeout", "uncount", "try"} : In(todo', op, r) => In(todo, op, r)
    BY <1>6 DEF Kinds, Counts, Life, Ends
  <2>2. ~ \E op \in {"try", "send", "finish"} : TopIs(op, r)
    BY <1>8 DEF TopIs
  <2>3. \A op \in Life : In(todo', op, r) => r \notin early' /\ <<"uncount", r>> \notin lost'
    BY <1>2, <1>7, <1>8, <2>1 DEF RqOK
  <2>. QED  BY <1>2, <1>7, <2>1, <2>2, <2>3 DEF RqOK
<1>10. /\ Cardinality(UnderWay) \in Nat /\ Cardinality(ToUncount) \in Nat /\ Cardinality(LostOnes) \in Nat /\ Cardinality(early) \in Nat
       /\ active = Cardinality(UnderWay) + Cardinality(ToUncount) + Cardinality(LostOnes) - Cardinality(early)
  BY CountsAre, OneMore
<1>11. active' = Cardinality(UnderWay') + Cardinality(ToUncount') + Cardinality(LostOnes) - Cardinality(early')
  <2>1. r \in ToUncount /\ ToUncount' = ToUncount \ {r}
    BY <1>5, <1>6, <1>7 DEF ToUncount
  <2>2. Cardinality(ToUncount') = Cardinality(ToUncount) - 1
    BY <2>1, CountsAre, OneMore
  <2>3. UnderWay' = UnderWay /\ early' = early
    BY <1>2 DEF UnderWay
  <2>. QED  BY <1>2, <1>10, <2>2, <2>3
<1>12. RequestsInv'
  <2>1. \A op \in Counts : \A q \in Requests \ {r} : In(todo', op, q) <=> In(todo, op, q)
    BY <1>5, <1>6
  <2>2. early' \subseteq Requests /\ early' = early /\ lost' = lost /\ rq' = [rq EXCEPT ![r] = rq[r]]
    BY <1>2, CountsAre, RqIs
  <2>. QED  BY <1>8, <1>9, <1>11, <2>1, <2>2, AboutOne
<1>13. \A x : In(todo', "loop", x) <=> In(todo, "loop", x)
  BY <1>5, <1>6
<1>. QED  BY <1>1, <1>2, <1>4, <1>12, <1>13, RqIs, CountingStep

----------------------------------------------------------------------------
(* Exceptions *)

\* What an exception cuts off and what it leaves, as the invariant sees it.
LEMMA CutOff ==
    ASSUME IInv, NEW s, Shape(s), ThrowIn(s), \A op, x : In(s, op, x) => In(todo, op, x),
           \A op \in Kinds \ {"catch"} : \A x : In(todo, op, x) => In(s, op, x)
    PROVE  /\ Shape(todo')
           /\ todo' # << >> => Head(todo').op = "catch" /\ Top' = Head(todo') /\ In(s, "try", Head(todo').at)
           /\ \A x : In(todo', "catch", x) => In(todo, "try", x)
           /\ \A op, x : op # "catch" /\ In(todo', op, x) => In(s, op, x) /\ In(todo, op, x) /\ In(Tail(todo'), op, x)
           /\ \A r \in Requests : In(todo, "uncount", r) => In(todo', "uncount", r) \/ <<"uncount", r>> \in lost'
           /\ \A r \in Requests : <<"uncount", r>> \in lost' =>
                 \/ <<"uncount", r>> \in lost
                 \/ In(todo, "uncount", r) /\ ~ In(todo', "uncount", r)
           /\ lost \subseteq lost'
           /\ s # << >> /\ Head(s).op = "send" =>
                 /\ todo' # << >> /\ Head(todo').at = Head(s).at
                 /\ \A r \in Requests : <<"uncount", r>> \in lost' => <<"uncount", r>> \in lost
<1>. DEFINE cut == SubSeq(s, 1, Len(s) - Len(todo'))
<1>1. todo' = Unwound(s)
  BY DEF ThrowIn
<1>2. lost' = lost \cup {<<f.op, f.at>> : f \in {g \in Elems(cut) : g.at \in Deferreds}}
  BY DEF ThrowIn
<1>3. /\ Shape(todo')
      /\ todo' # << >> => Head(todo').op = "catch" /\ In(s, "try", Head(todo').at)
      /\ \A op, x : op # "catch" /\ In(todo', op, x) => In(s, op, x)
      /\ cut \in Seq(Frames)
      /\ \A op, x : In(cut, op, x) => In(s, op, x)
      /\ \A op, x : op # "try" /\ In(s, op, x) => In(todo', op, x) \/ In(cut, op, x)
      /\ \A x : ~ (In(todo', "uncount", x) /\ In(cut, "uncount", x))
      /\ s # << >> /\ Head(s).op = "send" =>
            todo' # << >> /\ Head(todo').at = Head(s).at /\ \A x : ~ In(cut, "uncount", x)
  BY <1>1, Unwinding
<1>. HIDE DEF cut
<1>4. \A op, x : In(todo', op, x) => todo' # << >>
  BY DEF In
<1>5. \A op, x : In(todo', op, x) => (Head(todo').op = op /\ Head(todo').at = x) \/ In(Tail(todo'), op, x)
  BY <1>3, <1>4, Tops
<1>6. \A x : todo' # << >> => ~ In(Tail(todo'), "catch", x)
  BY <1>3, Tops DEF AtOnce
<1>7. \A r \in Requests : <<"uncount", r>> \in lost' <=> <<"uncount", r>> \in lost \/ In(cut, "uncount", r)
  <2>. SUFFICES ASSUME NEW r \in Requests
                PROVE  <<"uncount", r>> \in lost' <=> <<"uncount", r>> \in lost \/ In(cut, "uncount", r)
    OBVIOUS
  <2>1. ASSUME In(cut, "uncount", r) PROVE <<"uncount", r>> \in lost'
    <3>1. PICK i \in DOMAIN cut : cut[i].op = "uncount" /\ cut[i].at = r
      BY <2>1 DEF In
    <3>2. cut[i] \in Elems(cut) /\ cut[i].at \in Deferreds
      BY <3>1, Names DEF Elems
    <3>. QED  BY <1>2, <3>1, <3>2
  <2>2. ASSUME <<"uncount", r>> \in lost', <<"uncount", r>> \notin lost PROVE In(cut, "uncount", r)
    <3>1. PICK f \in {g \in Elems(cut) : g.at \in Deferreds} : <<"uncount", r>> = <<f.op, f.at>>
      BY <1>2, <2>2
    <3>2. PICK i \in DOMAIN cut : cut[i] = f
      BY DEF Elems
    <3>. QED  BY <3>1, <3>2 DEF In
  <2>. QED  BY <1>2, <2>1, <2>2
<1>8. "uncount" \in Kinds \ {"catch"}
  BY DEF Kinds, Counts
<1>9. Top' = Head(todo')
  BY DEF Top
<1>. QED  BY <1>2, <1>3, <1>4, <1>5, <1>6, <1>7, <1>8, <1>9

\* A set is made of the part an exception leaves and the part it cuts off.
LEMMA TwoParts ==
    ASSUME NEW A \in SUBSET Requests, NEW B \in SUBSET Requests, NEW C \in SUBSET Requests, NEW D \in SUBSET Requests,
           A \cap B = {}, C \cap D = {}, A \cup B = C \cup D
    PROVE  Cardinality(A) + Cardinality(B) = Cardinality(C) + Cardinality(D)
<1>1. IsFiniteSet(A) /\ IsFiniteSet(B) /\ IsFiniteSet(C) /\ IsFiniteSet(D)
  BY OneMore, RequestAssumption, FS_Subset
<1>2. /\ Cardinality(A) \in Nat /\ Cardinality(B) \in Nat /\ Cardinality(C) \in Nat /\ Cardinality(D) \in Nat
  BY <1>1, FS_CardinalityType
<1>3. ASSUME NEW S, NEW T, IsFiniteSet(S), IsFiniteSet(T), S \cap T = {}
      PROVE  Cardinality(S \cup T) = Cardinality(S) + Cardinality(T)
  <2>1. Cardinality(S) \in Nat /\ Cardinality(T) \in Nat
    BY <1>3, FS_CardinalityType
  <2>2. Cardinality(S \cap T) = 0
    BY <1>3, FS_EmptySet
  <2>3. Cardinality(S \cup T) = Cardinality(S) + Cardinality(T) - Cardinality(S \cap T)
    BY <1>3, FS_Union
  <2>. QED  BY <2>1, <2>2, <2>3
<1>. QED  BY <1>1, <1>3

\* An exception out of a callback, out of what sends a request, or out of its catch.
LEMMA Throwing ==
    ASSUME IInv, NEW s, Shape(s), ThrowIn(s), todo # << >>, Top.op \in {"send", "run", "page", "loop", "catch"},
           IF Top.op = "catch" THEN s = Tail(todo) ELSE s = todo,
           On("loop") => Top.at = PageList /\ ("unique" \in lists[PageList].flags => lists[PageList].emptied),
           UNCHANGED <<lists, settled, added, called, rq, active, early, ready>>, moves' \in Nat
    PROVE  IInv'
<1>1. Head(todo) = Top /\ Shape(todo)
  BY RqIs DEF Top
<1>2. /\ \A op, x : In(s, op, x) => In(todo, op, x)
      /\ \A op \in Kinds \ {"catch"} : \A x : In(todo, op, x) => In(s, op, x)
  <2>1. CASE Top.op = "catch"
    <3>1. s = Tail(todo)
      BY <2>1
    <3>. QED  BY <1>1, <2>1, <3>1, Tops
  <2>2. CASE Top.op # "catch"
    <3>1. s = todo
      BY <2>2
    <3>. QED  BY <3>1
  <2>. QED  BY <2>1, <2>2
<1>3. /\ Shape(todo')
      /\ todo' # << >> => Head(todo').op = "catch" /\ Top' = Head(todo') /\ In(s, "try", Head(todo').at)
      /\ \A x : In(todo', "catch", x) => In(todo, "try", x)
      /\ \A op, x : op # "catch" /\ In(todo', op, x) => In(s, op, x) /\ In(todo, op, x) /\ In(Tail(todo'), op, x)
      /\ \A r \in Requests : In(todo, "uncount", r) => In(todo', "uncount", r) \/ <<"uncount", r>> \in lost'
      /\ \A r \in Requests : <<"uncount", r>> \in lost' =>
            \/ <<"uncount", r>> \in lost
            \/ In(todo, "uncount", r) /\ ~ In(todo', "uncount", r)
      /\ lost \subseteq lost'
      /\ s # << >> /\ Head(s).op = "send" =>
            /\ todo' # << >> /\ Head(todo').at = Head(s).at
            /\ \A r \in Requests : <<"uncount", r>> \in lost' => <<"uncount", r>> \in lost
  BY <1>2, CutOff
<1>4. \A op, x : In(todo', op, x) => todo' # << >>
  BY DEF In
<1>5. ~ On("ready") /\ ~ On("fire") /\ ~ On("try") /\ ~ On("finish")
      /\ \A op \in {"ready", "fire", "loop", "try", "finish", "send"} : ~ On(op)'
  BY <1>3 DEF On, Idle
<1>6. ASSUME NEW x, In(s, "try", x), Top.op # "send" PROVE rq[x].state = 2
  <2>1. x \in Requests
    <3>1. PICK i \in DOMAIN s : s[i].op = "try" /\ s[i].at = x
      BY <1>6 DEF In
    <3>2. s[i] \in Frames
      BY DEF Shape
    <3>. QED  BY <3>1, <3>2 DEF Frames, FrameOK, OfRequest, Ends
  <2>2. In(todo, "try", x) /\ \A op \in {"try", "send", "finish"} : ~ TopIs(op, x)
    BY <1>2, <1>6 DEF TopIs, On
  <2>. QED  BY <2>1, <2>2, RqIs DEF RqOK
<1>7. ASSUME NEW q \in Requests PROVE RqOK(q)'
  <2>1. RqOK(q) /\ rq' = rq /\ early' = early
    BY RqIs
  <2>2. \A op \in Life \cup {"try", "uncount", "begin", "install", "transport", "timeout"} : In(todo', op, q) => In(todo, op, q)
    BY <1>3 DEF Life
  <2>3. \A op \in Life \cup Ends \cup {"uncount"} :
           In(todo', op, q) => \E k \in Life \cup Ends \cup {"uncount"} : In(todo, k, q)
    BY <1>3, <2>2 DEF Ends
  <2>4. ~ rq'[q].posted => /\ ~ rq'[q].counted
                           /\ \A op \in Life \cup Ends \cup {"uncount"} : ~ In(todo', op, q)
    BY <2>1, <2>3 DEF RqOK
  <2>5. /\ In(todo', "begin", q) => ~ rq'[q].counted
        /\ \A op \in {"install", "transport", "timeout"} : In(todo', op, q) => rq'[q].counted
    BY <2>1, <2>2 DEF RqOK
  <2>6. ASSUME NEW op \in Life, In(todo', op, q)
        PROVE  q \notin early' /\ (<<"uncount", q>> \in lost' => On("catch")' /\ rq'[Top'.at].state = 2)
    <3>1. q \notin early /\ (<<"uncount", q>> \in lost => On("catch") /\ rq[Top.at].state = 2)
      BY <2>1, <2>2, <2>6 DEF RqOK
    <3>2. On("catch")'
      BY <1>3, <1>4, <2>6 DEF On, Idle
    <3>3. CASE Top.op = "send"
      <4>1. <<"uncount", q>> \notin lost
        BY <3>1, <3>3 DEF On
      <4>. QED  BY <1>1, <1>3, <2>1, <3>1, <3>3, <4>1
    <3>4. CASE Top.op # "send"
      <4>1. In(s, "try", Top'.at)
        BY <1>3, <1>4, <2>6
      <4>. QED  BY <1>6, <2>1, <3>1, <3>2, <3>4, <4>1
    <3>. QED  BY <3>3, <3>4
  <2>7. In(todo', "uncount", q) => rq'[q].counted /\ rq'[q].state = 2 /\ <<"uncount", q>> \notin lost'
    BY <1>3, <2>1, <2>2 DEF RqOK
  <2>8. <<"uncount", q>> \in lost' => rq'[q].counted /\ rq'[q].state = 2
    BY <1>3, <2>1 DEF RqOK
  <2>9. In(todo', "try", q) => rq'[q].state = 2
    <3>1. CASE Top.op = "send"
      <4>1. SUFFICES ASSUME In(todo', "try", q), rq[q].state # 2 PROVE FALSE
        BY <2>1
      <4>2. Top.at = q
        BY <2>1, <2>2, <3>1, <4>1 DEF RqOK, TopIs, On
      <4>3. todo' # << >> /\ Head(todo').at = q /\ Head(todo').op = "catch" /\ In(Tail(todo'), "try", q)
        BY <1>1, <1>3, <3>1, <4>1, <4>2
      <4>. QED  BY <1>3, <4>3, Tops DEF Ends
    <3>2. CASE Top.op # "send"
      BY <1>3, <1>6, <2>1, <3>2
    <3>. QED  BY <3>1, <3>2
  <2>. QED  BY <2>1, <2>4, <2>5, <2>6, <2>7, <2>8, <2>9 DEF RqOK
<1>8. active' = Cardinality(UnderWay') + Cardinality(ToUncount') + Cardinality(LostOnes') - Cardinality(early')
  <2>1. UnderWay' = UnderWay /\ early' = early /\ active' = active
    BY DEF UnderWay
  <2>2. ToUncount \cap LostOnes = {}
    BY RqIs DEF RqOK, ToUncount, LostOnes
  <2>3. ToUncount' \cap LostOnes' = {}
    BY <1>7 DEF RqOK, ToUncount, LostOnes
  <2>4. ToUncount \cup LostOnes = ToUncount' \cup LostOnes'
    BY <1>3 DEF ToUncount, LostOnes
  <2>5. ToUncount' \in SUBSET Requests /\ LostOnes' \in SUBSET Requests
    BY DEF ToUncount, LostOnes
  <2>6. Cardinality(ToUncount) + Cardinality(LostOnes) = Cardinality(ToUncount') + Cardinality(LostOnes')
    BY <2>2, <2>3, <2>4, <2>5, CountsAre, TwoParts
  <2>7. /\ Cardinality(UnderWay) \in Nat /\ Cardinality(early) \in Nat
        /\ Cardinality(ToUncount) \in Nat /\ Cardinality(LostOnes) \in Nat
        /\ Cardinality(ToUncount') \in Nat /\ Cardinality(LostOnes') \in Nat
    BY <2>5, CountsAre, RequestAssumption, FS_Subset, FS_CardinalityType
  <2>8. active = Cardinality(UnderWay) + Cardinality(ToUncount) + Cardinality(LostOnes) - Cardinality(early)
    BY CountsAre
  <2>9. Cardinality(UnderWay') = Cardinality(UnderWay) /\ Cardinality(early') = Cardinality(early)
    BY <2>1
  <2>10. active' = active
    OBVIOUS
  <2>. DEFINE u == Cardinality(UnderWay)
              t == Cardinality(ToUncount)
              l == Cardinality(LostOnes)
              e == Cardinality(early)
              t2 == Cardinality(ToUncount')
              l2 == Cardinality(LostOnes')
  <2>11. u \in Nat /\ e \in Nat /\ t \in Nat /\ l \in Nat /\ t2 \in Nat /\ l2 \in Nat
        /\ t + l = t2 + l2 /\ active = u + t + l - e
    BY <2>6, <2>7, <2>8
  <2>. HIDE DEF u, t, l, e, t2, l2
  <2>12. active' = u + t2 + l2 - e
    BY <2>10, <2>11
  <2>. QED  BY <2>9, <2>12 DEF u, e, t2, l2
<1>9. RequestsInv'
  <2>1. rq' = [r \in Requests |-> rq'[r]] /\ early' \subseteq Requests
    BY RqIs, CountsAre
  <2>. QED  BY <1>7, <1>8, <2>1 DEF RequestsInv
<1>10. ReadyInv'
  <2>1. ~ TopIs("fire", DoneList) /\ ~ TopIs("loop", DoneList)
    BY <1>5, Names DEF TopIs
  <2>. QED  BY <1>3, <1>5, <2>1, ReadyKept DEF IInv
<1>11. /\ \A l : In(todo', "loop", l) => In(todo, "loop", l)
       /\ \A l : ~ TopIs("loop", l)' /\ Running(l)' = 1
       /\ \A l : l # PageList => ~ TopIs("loop", l) /\ Running(l) = 1
  BY <1>3, <1>5 DEF TopIs, Running
<1>12. ASSUME NEW l \in Lists PROVE ListOK(l)'
  <2>1. ListOK(l)
    BY DEF IInv, ListsInv
  <2>. QED  BY <1>11, <2>1 DEF ListOK
<1>13. ASSUME NEW l \in Told
       PROVE  /\ TellsOnce(l)' /\ ~ Prep(l)
              /\ Fresh(l) => Fresh(l)'
              /\ Gone(l) => Gone(l)'
              /\ Over(l) => Over(l)'
  <2>1. l # PageList
    BY Names
  <2>2. TellsOnce(l)' /\ ~ Prep(l) /\ (Fresh(l) => Fresh(l)') /\ (Gone(l) => Gone(l)')
    BY <1>11, <2>1 DEF IInv, ListsInv, TellsOnce, Prep, Fresh, Gone
  <2>3. (HasFired(l) => HasFired(l)') /\ (Prefix(l) => Prefix(l)') /\ (Rest(l) => Rest(l)')
    BY DEF HasFired, Prefix, Rest
  <2>4. Stuck(l) => Stuck(l)'
    BY <1>11, <2>3 DEF Stuck
  <2>5. ASSUME Calling(l), In(todo', "loop", l) PROVE Calling(l)'
    BY <1>11, <2>1, <2>3, <2>5 DEF Calling
  <2>6. ASSUME Calling(l), ~ In(todo', "loop", l) PROVE Stuck(l)'
    BY <2>3, <2>6 DEF Calling, Stuck
  <2>. QED  BY <2>2, <2>3, <2>4, <2>5, <2>6 DEF Over
<1>14. ASSUME NEW d \in Deferreds PROVE DeferredOK(d)'
  <2>1. <<d, "done">> \in Told /\ <<d, "fail">> \in Told /\ \A o : Other(o) \in {"done", "fail"}
    BY Names DEF Other
  <2>2. DeferredOK(d) /\ settled' = settled
    BY DEF IInv, ListsInv
  <2>3. \A o \in {"done", "fail"} : ~ Turning(d, o)
    BY <1>13, <2>1 DEF Turning
  <2>4. Open(d) => Open(d)'
    BY <1>13, <2>1, <2>2 DEF Open
  <2>5. ASSUME NEW o \in {"done", "fail"}, Turned(d, o) PROVE Turned(d, o)'
    BY <1>13, <2>1, <2>2, <2>5 DEF Turned
  <2>. QED  BY <2>2, <2>3, <2>4, <2>5 DEF DeferredOK
<1>15. ASSUME NEW r \in Requests PROVE CompleteOK(r)'
  <2>1. CompleteOK(r) /\ <<r, "complete">> \in Told
    BY Names DEF IInv, ListsInv, Fires
  <2>. QED  BY <1>13, <2>1 DEF CompleteOK
<1>16. PageOK'
  <2>1. CASE On("loop")
    <3>. DEFINE r == lists[PageList]
    <3>1. PageOK /\ Running(PageList) = 0 /\ ("unique" \in r.flags => r.emptied)
      BY <2>1 DEF Running, TopIs, IInv, ListsInv
    <3>2. r.index \in Int /\ r.list \in Seq(Members(PageList))
      BY Names DEF IInv, ListsInv, ListOK, Closures
    <3>3. lists'[PageList] = r /\ called' = called /\ Running(PageList)' = 1
      BY <1>11
    <3>4. CASE "unique" \in r.flags /\ ~ r.gone
      <4>1. /\ Once(r.list) /\ Once(called[PageList]) /\ Elems(called[PageList]) \subseteq Elems(r.list)
            /\ r.firing => \A i \in DOMAIN r.list : i > r.index + 0 => r.list[i] \notin Elems(called[PageList])
            /\ r.emptied
        BY <3>1, <3>4 DEF PageOK
      <4>2. r.firing => \A i \in DOMAIN r.list : i > r.index + 1 => r.list[i] \notin Elems(called[PageList])
        BY <3>2, <4>1
      <4>. HIDE DEF r
      <4>. QED  BY <3>3, <4>1, <4>2 DEF PageOK
    <3>5. CASE ~ ("unique" \in r.flags /\ ~ r.gone)
      BY <3>3, <3>5 DEF PageOK
    <3>. QED  BY <3>4, <3>5
  <2>2. CASE ~ On("loop")
    <3>1. Running(PageList) = 1 /\ ~ TopIs("loop", PageList) /\ PageOK
      BY <2>2 DEF Running, TopIs, IInv, ListsInv
    <3>. QED  BY <1>11, <3>1 DEF PageOK
  <2>. QED  BY <2>1, <2>2
<1>17. ListsInv'
  BY <1>12, <1>13, <1>14, <1>15, <1>16 DEF IInv, ListsInv
<1>. QED  BY <1>3, <1>9, <1>10, <1>17 DEF IInv

\* Sending throws.
LEMMA StepSendFails ==
    ASSUME IInv, SendFails PROVE IInv'
<1>1. todo # << >> /\ Top.op = "send" /\ Shape(todo)
  BY RqIs, TopNow DEF SendFails
<1>2. ~ On("loop") /\ moves' \in Nat
  BY <1>1, RqIs DEF On, SendFails, page
<1>. QED  BY <1>1, <1>2, Throwing DEF SendFails, ajax, page

\* A callback of the page throws.
LEMMA StepThrows ==
    ASSUME IInv, Throws PROVE IInv'
<1>1. todo # << >> /\ Top.op \in {"run", "page"} /\ Shape(todo)
  BY RqIs, TopNow DEF Throws, InPage
<1>2. ~ On("loop") /\ moves' \in Nat
  BY <1>1, RqIs DEF On, Throws
<1>. QED  BY <1>1, <1>2, Throwing DEF Throws, ajax

\* What sending threw is caught.
LEMMA StepCatch ==
    ASSUME IInv, Catch PROVE IInv'
<1>1. PICK r \in Requests : Top.at = r /\ todo # << >> /\ Top.op = "catch"
  BY RqIs, TopNow DEF Catch, OfRequest, Ends
<1>2. UNCHANGED <<lists, settled, added, called, rq, active, early, ready, moves>>
  BY DEF Catch, ajax, page
<1>3. CASE rq[r].state < 2
  <2>. DEFINE f == Frame("finish", r, Answer(-1, "exception"))
  <2>1. todo' = <<f>> \o Tail(todo) /\ lost' = lost
    BY <1>1, <1>3 DEF Catch, Instead
  <2>2. f \in Frames /\ f.op = "finish"
    BY OtherFrames, SomeAnswers DEF Frame
  <2>. HIDE DEF f
  <2>3. /\ Shape(todo') /\ Taken /\ todo' # << >> /\ Head(todo') = f
        /\ (In(todo', "fire", DoneList) => In(todo, "fire", DoneList))
    BY <1>1, <2>1, <2>2, RqIs, TakesAtOnce
  <2>4. Counts \subseteq Kinds /\ {"uncount", "catch"} \subseteq Counts /\ "loop" \in Kinds
    BY DEF Kinds, Counts, Ends
  <2>5. \A op \in Counts : In(todo, op, r) <=> op = "catch"
    BY <1>1, RqIs, OnlyOne DEF Ends
  <2>6. \A op \in Counts : ~ In(todo', op, r)
    BY <1>1, <2>3, <2>4, <2>5 DEF Taken
  <2>7. \A op \in Counts : \A q \in Requests \ {r} : In(todo', op, q) <=> In(todo, op, q)
    BY <1>1, <2>3, <2>4 DEF Taken
  <2>8. RqOK(r)'
    <3>1. RqOK(r)
      BY RqIs
    <3>2. /\ \A op \in Life \cup Ends \cup {"uncount"} : ~ In(todo', op, r)
          /\ \A op \in {"begin", "install", "transport", "timeout", "uncount", "try"} : ~ In(todo', op, r)
      BY <2>6 DEF Counts, Life, Ends
    <3>. QED  BY <1>2, <2>1, <3>1, <3>2 DEF RqOK
  <2>9. UnderWay' = UnderWay /\ ToUncount' = ToUncount
    <3>1. \A q \in Requests : In(todo', "uncount", q) <=> In(todo, "uncount", q)
      BY <2>4, <2>5, <2>6, <2>7
    <3>. QED  BY <1>2, <3>1 DEF UnderWay, ToUncount
  <2>10. RequestsInv'
    <3>1. ~ (On("catch") /\ rq[Top.at].state = 2) /\ \A op \in {"try", "send", "finish"} : On(op) => Top.at = r
      BY <1>1, <1>3
    <3>2. rq' = [rq EXCEPT ![r] = rq[r]]
      BY <1>2, RqIs
    <3>. QED  BY <1>2, <2>1, <2>7, <2>8, <2>9, <3>1, <3>2, CountsAre, AboutOne
  <2>11. /\ \A x : In(todo', "loop", x) <=> In(todo, "loop", x)
         /\ Head(todo').op \notin {"ready", "loop"}
    BY <1>1, <2>2, <2>3, <2>4 DEF Taken
  <2>. QED  BY <1>1, <1>2, <2>1, <2>3, <2>10, <2>11, RqIs, CountingStep
<1>4. CASE ~ (rq[r].state < 2)
  <2>1. ThrowIn(Tail(todo))
    BY <1>1, <1>4 DEF Catch
  <2>2. Shape(Tail(todo))
    BY <1>1, RqIs, Tops
  <2>3. ~ On("loop")
    BY <1>1 DEF On
  <2>. QED  BY <1>1, <1>2, <2>1, <2>2, <2>3, RqIs, Throwing
<1>. QED  BY <1>3, <1>4

\* A list that tells is fresh, gone, at its own callbacks, or has begun to call the page's.
LEMMA ToldIs ==
    ASSUME IInv, NEW l \in Told
    PROVE  ListOK(l) /\ TellsOnce(l) /\ (Fresh(l) \/ Gone(l) \/ Prep(l) \/ Over(l))
<1>1. ListOK(l) /\ TellsOnce(l)
  BY Names DEF IInv, ListsInv
<1>2. CASE l \in {<<d, name>> : d \in Deferreds, name \in {"done", "fail"}}
  <2>1. PICK d \in Deferreds, name \in {"done", "fail"} : l = <<d, name>>
    BY <1>2
  <2>2. DeferredOK(d)
    BY DEF IInv, ListsInv
  <2>. QED  BY <1>1, <2>1, <2>2 DEF DeferredOK, Open, Turning, Turned, Other
<1>3. CASE \E r \in Requests : l = <<r, "complete">>
  <2>1. PICK r \in Requests : l = <<r, "complete">>
    BY <1>3
  <2>. QED  BY <1>1, <2>1 DEF IInv, ListsInv, CompleteOK
<1>. QED  BY <1>2, <1>3 DEF Told

\* The list whose loop it is.
LEMMA Looping ==
    ASSUME IInv, On("loop")
    PROVE  /\ Shape(todo) /\ todo # << >> /\ Head(todo) = Top /\ Top.op = "loop" /\ Top.at \in Fires \cup {PageList}
           /\ Top.at \in Lists /\ ListOK(Top.at) /\ lists[Top.at].firing /\ lists[Top.at].index \in Nat
           /\ lists[Top.at] \in Closures(Members(Top.at)) /\ Len(lists[Top.at].list) <= lists[Top.at].length
           /\ In(todo, "loop", Top.at) /\ TopIs("loop", Top.at) /\ Running(Top.at) = 0
           /\ Top.at \in Told => Prep(Top.at) \/ Calling(Top.at)
<1>1. Shape(todo) /\ todo # << >> /\ Head(todo) = Top /\ Top.op = "loop" /\ Top.at \in Fires \cup {PageList}
  BY RqIs, TopNow DEF FrameOK
<1>2. In(todo, "loop", Top.at) /\ TopIs("loop", Top.at) /\ Running(Top.at) = 0
  <2>1. TopIs("loop", Top.at)
    BY DEF TopIs
  <2>. QED  BY <1>1, <2>1, Tops DEF Running
<1>3. Top.at \in Lists /\ ListOK(Top.at)
  BY <1>1, Names DEF IInv, ListsInv
<1>4. lists[Top.at].firing /\ lists[Top.at].index >= 0 /\ lists[Top.at] \in Closures(Members(Top.at))
      /\ Len(lists[Top.at].list) <= lists[Top.at].length
  BY <1>2, <1>3 DEF ListOK
<1>5. lists[Top.at].index \in Nat
  BY <1>4 DEF Closures
<1>6. Top.at \in Told => Prep(Top.at) \/ Calling(Top.at)
  BY <1>2, <1>4, ToldIs DEF Fresh, Gone, Over, Rest, Stuck
<1>. QED  BY <1>1, <1>2, <1>3, <1>4, <1>5, <1>6

\* The loop calls what is no longer there.
LEMMA StepCallOfNothing ==
    ASSUME IInv, CallOfNothing, UNCHANGED <<ajax, page>> PROVE IInv'
<1>. DEFINE r == lists[Top.at]
<1>1. /\ On("loop") /\ InLoop(r) /\ r.index >= Len(r.list) /\ ThrowIn(todo) /\ UNCHANGED <<lists, settled, added, called>>
  BY DEF CallOfNothing
<1>2. r.length \in Nat /\ r.index \in Nat /\ Len(r.list) \in Nat /\ r.index < r.length /\ ~ r.gone
  BY <1>1, Looping DEF Closures, InLoop
<1>3. r.length # Len(r.list)
  BY <1>1, <1>2
<1>4. Top.at = PageList
  BY <1>1, <1>3, Looping, Names DEF Prep, Calling
<1>5. "unique" \in lists[PageList].flags => lists[PageList].emptied
  BY <1>1, <1>2, <1>3, <1>4, Looping DEF IInv, ListsInv, PageOK
<1>. QED  BY <1>1, <1>4, <1>5, RqIs, Looping, Throwing DEF ajax, page

----------------------------------------------------------------------------
(* The ready event *)

\* A step about the ready event that leaves the lists and the requests alone.
LEMMA ReadyStep ==
    ASSUME IInv, Shape(todo'), \A op \in Kinds : \A x : In(todo', op, x) <=> In(todo, op, x),
           todo # << >> => Top.op \notin {"loop", "catch", "try", "send", "finish"},
           todo' # << >> => Head(todo').op # "loop",
           UNCHANGED <<lists, settled, histories, ajax, early>>, moves' \in Nat, ReadyInv'
    PROVE  IInv'
<1>1. \A op \in {"loop", "catch", "try", "send", "finish"} : ~ On(op)
  BY DEF On, Idle
<1>2. ~ On("loop")' /\ Counts \subseteq Kinds /\ "loop" \in Kinds
  BY DEF On, Idle, Top, Kinds
<1>3. added' = added /\ called' = called /\ lost' = lost /\ rq' = rq /\ active' = active
  BY DEF histories, ajax
<1>4. RequestsInv'
  BY <1>1, <1>2, <1>3, RequestsSame DEF IInv
<1>5. ListsInv'
  BY <1>1, <1>2, <1>3, ListsKept DEF IInv
<1>. QED  BY <1>4, <1>5 DEF IInv

\* Where the page's code runs, no ready call and no loop is first.
LEMMA ReadyIdle ==
    ASSUME IInv, Opens(todo)
    PROVE  /\ ~ TopReady(TRUE) /\ ~ TopReady(FALSE)
           /\ \A l : ~ TopIs("fire", l) /\ ~ TopIs("loop", l)
           /\ todo # << >> => Top.op \notin {"loop", "catch", "try", "send", "finish"}
BY DEF Opens, TopReady, TopIs, On, Idle, Top

\* The ready function is called.
LEMMA CallsReady ==
    ASSUME IInv, Opens(todo), NEW wait \in BOOLEAN, todo' = ReadyCall(wait) \o todo
    PROVE  /\ Shape(todo') /\ \A op \in Kinds : \A x : In(todo', op, x) <=> In(todo, op, x)
           /\ todo' # << >> /\ Head(todo').op # "loop"
           /\ TopReady(wait)' /\ ~ TopReady(~ wait)'
           /\ \A l : In(todo', "fire", l) => In(todo, "fire", l)
<1>. DEFINE f == Frame("ready", Doc, [wait |-> wait])
<1>1. f \in Frames /\ f.op = "ready" /\ f.arg.wait = wait
  BY OtherFrames DEF Frame
<1>2. todo' = <<f>> \o todo
  BY DEF ReadyCall
<1>. HIDE DEF f
<1>3. /\ Shape(todo') /\ todo' # << >> /\ Head(todo') = f
      /\ \A op \in Kinds : \A x : In(todo', op, x) <=> In(todo, op, x)
      /\ \A x : In(todo', "fire", x) => In(todo, "fire", x)
  BY <1>1, <1>2, CalledOne DEF AtOnce
<1>4. On("ready")' /\ Top' = f
  BY <1>1, <1>3 DEF On, Idle, Top
<1>. QED  BY <1>1, <1>3, <1>4 DEF TopReady

\* Nobody is called.
LEMMA CallsNothing ==
    ASSUME IInv, Opens(todo), todo' = << >> \o todo
    PROVE  /\ Shape(todo') /\ todo' = todo /\ (todo' # << >> => Head(todo').op # "loop")
           /\ ~ TopReady(TRUE)' /\ ~ TopReady(FALSE)'
<1>1. todo' = todo /\ Shape(todo)
  BY RqIs, Joining DEF Shape
<1>. QED  BY <1>1 DEF Opens, TopReady, On, Idle, Top

\* The page gives its first function to the ready event.
LEMMA StepGiveStart ==
    ASSUME IInv, GiveStart, UNCHANGED <<ajax, moves, early>> PROVE IInv'
<1>1. Start \in Attached /\ DoneList \in Told
  BY Names DEF Start, Callback, Attached, Own
<1>. DEFINE f == Frame("add", DoneList, Start)
<1>2. f \in Plain /\ f.op = "add"
  BY <1>1, PlainFrames DEF Frame
<1>3. todo' = <<f>> \o todo /\ Opens(todo) /\ todo = << >>
  BY Opening DEF GiveStart, Calls, Idle
<1>. HIDE DEF f
<1>4. <<f>> \in Seq(Plain) /\ \A x : ~ In(<<f>>, "fire", x)
  BY <1>2, PlainSeqs
<1>5. /\ Base(todo') /\ Shape(todo') /\ \A op \in Kinds : \A x : In(todo', op, x) <=> In(todo, op, x)
      /\ \A x : In(todo', "fire", x) => In(todo, "fire", x)
  BY <1>3, <1>4, Called
<1>6. ~ TopReady(TRUE)' /\ ~ TopReady(FALSE)' /\ (todo' # << >> => Head(todo').op # "loop")
  BY <1>5, OnBase DEF TopReady, On, Idle, Top, AtOnce
<1>7. /\ readyList' = TRUE /\ UNCHANGED <<readyState, isReady, readyWait, held, settled>>
      /\ calledBy' = IF readyState = "complete" THEN {"timeout"}
                     ELSE IF readyState = "loading" THEN {"DOMContentLoaded", "load"} ELSE {"load"}
  BY DEF GiveStart, Promised
<1>8. ReadyInv'
  <2>1. "loop" \in Kinds
    BY DEF Kinds
  <2>2. ReadyInv
    BY DEF IInv
  <2>. QED  BY <1>3, <1>5, <1>6, <1>7, <2>1, <2>2, ReadyIdle DEF ReadyInv, ReadyCounts, ReadyEvents
<1>. QED  BY <1>3, <1>5, <1>6, <1>8, ReadyIdle, ReadyStep, RqIs DEF GiveStart

\* The browser calls the ready function if it was asked to.
LEMMA BrowserCalls ==
    ASSUME IInv, Idle, NEW who, who \in {"DOMContentLoaded", "load", "timeout"},
           todo' = (IF who \in calledBy THEN ReadyCall(FALSE) ELSE << >>) \o todo
    PROVE  /\ Shape(todo') /\ \A op \in Kinds : \A x : In(todo', op, x) <=> In(todo, op, x)
           /\ (todo' # << >> => Head(todo').op # "loop")
           /\ ~ TopReady(TRUE)' /\ (TopReady(FALSE)' <=> who \in calledBy)
           /\ \A l : In(todo', "fire", l) => In(todo, "fire", l)
           /\ Opens(todo)
<1>1. Opens(todo)
  BY Opening
<1>2. CASE who \in calledBy
  BY <1>1, <1>2, CallsReady
<1>3. CASE who \notin calledBy
  BY <1>1, <1>3, CallsNothing
<1>. QED  BY <1>1, <1>2, <1>3

\* The document is parsed.
LEMMA StepParsed ==
    ASSUME IInv, Parsed, UNCHANGED <<ajax, moves, early>> PROVE IInv'
<1>1. /\ Shape(todo') /\ \A op \in Kinds : \A x : In(todo', op, x) <=> In(todo, op, x)
      /\ (todo' # << >> => Head(todo').op # "loop")
      /\ ~ TopReady(TRUE)' /\ (TopReady(FALSE)' <=> "DOMContentLoaded" \in calledBy)
      /\ \A l : In(todo', "fire", l) => In(todo, "fire", l)
      /\ Opens(todo)
  BY BrowserCalls DEF Parsed, Calls
<1>2. ReadyInv'
  <2>1. "loop" \in Kinds /\ ReadyInv
    BY DEF Kinds, IInv
  <2>. QED  BY <1>1, <2>1, ReadyIdle DEF ReadyInv, ReadyCounts, ReadyEvents, Parsed
<1>. QED  BY <1>1, <1>2, ReadyIdle, ReadyStep, RqIs DEF Parsed

\* The document is loaded.
LEMMA StepLoaded ==
    ASSUME IInv, Loaded, UNCHANGED <<ajax, moves, early>> PROVE IInv'
<1>1. /\ Shape(todo') /\ \A op \in Kinds : \A x : In(todo', op, x) <=> In(todo, op, x)
      /\ (todo' # << >> => Head(todo').op # "loop")
      /\ ~ TopReady(TRUE)' /\ (TopReady(FALSE)' <=> "load" \in calledBy)
      /\ \A l : In(todo', "fire", l) => In(todo, "fire", l)
      /\ Opens(todo)
  BY BrowserCalls DEF Loaded, Calls
<1>2. ReadyInv'
  <2>1. "loop" \in Kinds /\ ReadyInv
    BY DEF Kinds, IInv
  <2>. QED  BY <1>1, <2>1, ReadyIdle DEF ReadyInv, ReadyCounts, ReadyEvents, Loaded
<1>. QED  BY <1>1, <1>2, ReadyIdle, ReadyStep, RqIs DEF Loaded

\* The second try of a browser that had no body yet.
LEMMA StepLater ==
    ASSUME IInv, Later, UNCHANGED <<ajax, moves, early>> PROVE IInv'
<1>1. /\ Shape(todo') /\ \A op \in Kinds : \A x : In(todo', op, x) <=> In(todo, op, x)
      /\ (todo' # << >> => Head(todo').op # "loop")
      /\ ~ TopReady(TRUE)' /\ TopReady(FALSE)'
      /\ \A l : In(todo', "fire", l) => In(todo, "fire", l)
      /\ Opens(todo)
  BY Opening, CallsReady DEF Later, Calls
<1>2. ReadyInv'
  <2>1. "loop" \in Kinds /\ ReadyInv
    BY DEF Kinds, IInv
  <2>. QED  BY <1>1, <2>1, ReadyIdle DEF ReadyInv, ReadyCounts, ReadyEvents, Later
<1>. QED  BY <1>1, <1>2, ReadyIdle, ReadyStep, RqIs DEF Later

\* The page holds or releases the ready event, or gives it a function.
LEMMA StepAskReady ==
    ASSUME IInv, AskReady PROVE IInv'
<1>1. Opens(todo)
  BY Opening DEF AskReady
<1>2. UNCHANGED <<ajax, early>> /\ moves' \in Nat
  BY RqIs DEF AskReady
<1>3. "loop" \in Kinds /\ ReadyInv
  BY DEF Kinds, IInv
<1>4. ASSUME Release PROVE IInv'
  <2>1. todo' = ReadyCall(TRUE) \o todo
    BY <1>4 DEF Release, Calls
  <2>2. /\ Shape(todo') /\ \A op \in Kinds : \A x : In(todo', op, x) <=> In(todo, op, x)
        /\ (todo' # << >> => Head(todo').op # "loop")
        /\ TopReady(TRUE)' /\ ~ TopReady(FALSE)'
        /\ \A l : In(todo', "fire", l) => In(todo, "fire", l)
    BY <1>1, <2>1, CallsReady
  <2>3. ReadyInv'
    <3>. DEFINE c == IF isReady THEN 0 ELSE 1
    <3>1. held \in Nat /\ isReady \in BOOLEAN /\ readyWait \in Int /\ c \in Nat /\ readyWait = held + c
      BY <1>1, <1>3, ReadyIdle DEF ReadyInv, ReadyCounts
    <3>2. held' = held - 1 /\ held > 0 /\ readyWait' = readyWait /\ isReady' = isReady /\ c' = c
      BY <1>4 DEF Release
    <3>. HIDE DEF c
    <3>3. held' \in Nat /\ readyWait' = held' + c' + 1
      BY <3>1, <3>2
    <3>4. ReadyCounts'
      BY <2>2, <3>1, <3>2, <3>3 DEF ReadyCounts, c
    <3>5. ReadyEvents'
      BY <1>1, <1>3, <1>4, <2>2, ReadyIdle DEF ReadyInv, ReadyEvents, Release
    <3>. QED  BY <3>4, <3>5 DEF ReadyInv
  <2>. QED  BY <1>1, <1>2, <1>4, <2>2, <2>3, ReadyIdle, ReadyStep DEF Release
<1>5. ASSUME Hold PROVE IInv'
  <2>1. todo' = << >> \o todo /\ todo' = todo
    BY <1>5, RqIs, Joining DEF Hold, Shape
  <2>2. ~ TopReady(TRUE)' /\ ~ TopReady(FALSE)' /\ (todo' # << >> => Head(todo').op # "loop") /\ Shape(todo')
    BY <1>1, <2>1, CallsNothing
  <2>3. \A op, x : In(todo', op, x) <=> In(todo, op, x)
    BY <2>1
  <2>4. ReadyInv'
    <3>. DEFINE c == IF isReady THEN 0 ELSE 1
    <3>1. held \in Nat /\ isReady \in BOOLEAN /\ readyWait \in Int /\ c \in Nat /\ readyWait = held + c
      BY <1>1, <1>3, ReadyIdle DEF ReadyInv, ReadyCounts
    <3>2. held' = held + 1 /\ readyWait' = readyWait + 1 /\ isReady' = isReady /\ c' = c
      BY <1>5 DEF Hold
    <3>. HIDE DEF c
    <3>3. held' \in Nat /\ readyWait' = held' + c' + 0 /\ held' # 0
      BY <3>1, <3>2
    <3>4. ReadyCounts'
      BY <2>2, <3>1, <3>2, <3>3 DEF ReadyCounts, c
    <3>5. ReadyEvents'
      BY <1>1, <1>3, <1>5, <2>2, <2>3, <3>3, ReadyIdle DEF ReadyInv, ReadyEvents, Hold
    <3>. QED  BY <3>4, <3>5 DEF ReadyInv
  <2>. QED  BY <1>1, <1>2, <1>5, <2>2, <2>3, <2>4, ReadyIdle, ReadyStep DEF Hold
<1>6. ASSUME GiveLate PROVE IInv'
  BY <1>1, <1>2, <1>6, StepGiveLate
<1>. QED  BY <1>4, <1>5, <1>6 DEF AskReady

\* jQuery.ready.
LEMMA StepReady ==
    ASSUME IInv, DoReady, UNCHANGED <<ajax, moves, early>> PROVE IInv'
<1>. DEFINE wait == Top.arg.wait
            left == readyWait - 1
            h == IF settled[Doc] = "pending" THEN Hook("ready", Doc) ELSE << >>
            f == Frame("fire", DoneList, Data("ready"))
            s == Tail(todo)
            c == IF isReady THEN 0 ELSE 1
<1>1. todo # << >> /\ Top.op = "ready" /\ Head(todo) = Top /\ wait \in BOOLEAN /\ Shape(todo)
      /\ s \in Seq(Frames) /\ Base(s)
  <2>1. todo # << >> /\ Top.op = "ready" /\ Head(todo) = Top /\ Shape(todo) /\ FrameOK(Top)
    BY RqIs, TopNow DEF DoReady
  <2>2. Top.arg \in [wait : BOOLEAN]
    BY <2>1 DEF FrameOK
  <2>. QED  BY <2>1, <2>2, Tops
<1>2. (TopReady(TRUE) <=> wait) /\ (TopReady(FALSE) <=> ~ wait) /\ (\A l : ~ TopIs("fire", l) /\ ~ TopIs("loop", l))
      /\ ReadyEvents /\ ReadyCounts
  BY <1>1 DEF TopReady, TopIs, On, Idle, IInv, ReadyInv
<1>3. UNCHANGED <<lists, settled, histories, readyState, readyList, held>>
  BY DEF DoReady
<1>4. f \in Plain /\ f.op = "fire" /\ f.at = DoneList
  BY Names, PlainFrames DEF Frame, Data, Datas, Nothing
<1>5. h \in Seq(Plain)
  <2>1. Hook("ready", Doc) \in Seq(Plain) /\ << >> \in Seq(Plain)
    <3>. HIDE DEF h
    <3>1. "ready" \in HookNames /\ Doc \in Deferreds
      BY Names DEF HookNames
    <3>. QED  BY <3>1, PlainSeqs
  <2>. QED  BY <2>1
<1>6. "loop" \in Kinds /\ "ready" \notin Kinds
  BY DEF Kinds, Counts, Life, Ends
<1>7. held \in Nat /\ isReady \in BOOLEAN /\ readyWait \in Int /\ c \in {0, 1} /\ (c = 0 <=> isReady)
      /\ (wait => readyWait = held + c + 1) /\ (~ wait => readyWait = held + c)
  <2>. HIDE DEF f, h, s, wait
  <2>1. c \in {0, 1} /\ (c = 0 => isReady) /\ (isReady => c = 0)
    OBVIOUS
  <2>2. held \in Nat /\ isReady \in BOOLEAN /\ readyWait \in Int /\ readyWait = held + c + (IF TopReady(TRUE) THEN 1 ELSE 0)
    BY <1>2 DEF ReadyCounts
  <2>. HIDE DEF c
  <2>3. CASE wait
    BY <1>2, <2>1, <2>2, <2>3
  <2>4. CASE ~ wait
    <3>1. ~ TopReady(TRUE)
      BY <1>2, <2>4
    <3>2. readyWait = held + c + 0
      BY <2>2, <3>1
    <3>3. held \in Int /\ c \in Int
      BY <2>1, <2>2
    <3>4. readyWait = held + c
      BY <3>2, <3>3
    <3>. QED  BY <2>1, <2>2, <2>4, <3>4
  <2>. QED  BY <2>3, <2>4
<1>8. \/ /\ IF wait THEN left # 0 ELSE isReady
         /\ readyWait' = IF wait THEN left ELSE readyWait
         /\ Instead(<< >>)
         /\ UNCHANGED <<isReady, calledBy>>
      \/ /\ ~ wait /\ ~ isReady /\ readyState = "interactive"
         /\ calledBy' = calledBy \cup {"timeout"}
         /\ Instead(<< >>)
         /\ UNCHANGED <<isReady, readyWait>>
      \/ /\ IF wait THEN left = 0 ELSE ~ isReady
         /\ isReady' = TRUE
         /\ readyWait' = left
         /\ Instead(IF ~ wait /\ left > 0 THEN << >> ELSE <<f>> \o h)
         /\ UNCHANGED calledBy
  BY DEF DoReady, Resolve, DoneList
<1>. HIDE DEF f, h, s, wait
<1>9. ASSUME NEW p \in Seq(Plain), todo' = p \o s, In(p, "fire", DoneList) => isReady',
             isReady' /\ held = 0 => settled[Doc] = "resolved" \/ TopIs("fire", DoneList)',
             readyWait' = held + (IF isReady' THEN 0 ELSE 1), isReady' \in BOOLEAN,
             isReady => isReady', isReady' => readyState # "loading",
             readyState = "loading" => "timeout" \notin calledBy',
             readyList /\ ~ isReady' =>
                /\ readyState = "loading" => {"DOMContentLoaded", "load"} \subseteq calledBy'
                /\ readyState = "interactive" => "load" \in calledBy'
                /\ readyState = "complete" => "timeout" \in calledBy'
      PROVE  IInv'
  <2>1. /\ Base(todo') /\ Shape(todo')
        /\ \A op \in Kinds : \A x : In(todo', op, x) <=> In(todo, op, x) /\ ~ (Head(todo).op = op /\ Head(todo).at = x)
        /\ \A x : In(todo', "fire", x) => In(p, "fire", x) \/ In(todo, "fire", x)
    BY <1>1, <1>9, Popped DEF s
  <2>2. \A op \in Kinds : \A x : In(todo', op, x) <=> In(todo, op, x)
    BY <1>1, <1>6, <2>1
  <2>3. ~ TopReady(TRUE)' /\ ~ TopReady(FALSE)' /\ (todo' # << >> => Head(todo').op # "loop")
    BY <2>1, OnBase DEF TopReady, On, Idle, Top, AtOnce
  <2>4. In(todo', "fire", DoneList) \/ In(todo', "loop", DoneList) => isReady'
    BY <1>2, <1>6, <1>9, <2>1, <2>2 DEF ReadyEvents
  <2>5. ReadyCounts'
    <3>1. held' = held
      BY <1>3
    <3>2. readyWait' \in Int
      BY <1>7, <1>9
    <3>. QED  BY <1>7, <1>9, <2>3, <3>1, <3>2 DEF ReadyCounts
  <2>6. ReadyEvents'
    BY <1>2, <1>3, <1>9, <2>3, <2>4 DEF ReadyEvents
  <2>7. Top.op \notin {"loop", "catch", "try", "send", "finish"}
    BY <1>1
  <2>. QED  BY <1>3, <2>1, <2>2, <2>3, <2>5, <2>6, <2>7, ReadyStep, RqIs DEF ReadyInv
<1>10. << >> \in Seq(Plain) /\ ~ In(<< >>, "fire", DoneList)
  BY PlainSeqs DEF In
<1>11. readyState = "loading" => "timeout" \notin calledBy
  BY <1>2 DEF ReadyEvents
<1>. HIDE DEF c
<1>12. ASSUME IF wait THEN left # 0 ELSE isReady, readyWait' = IF wait THEN left ELSE readyWait,
              Instead(<< >>), UNCHANGED <<isReady, calledBy>>
       PROVE  IInv'
  <2>1. isReady' = isReady /\ calledBy' = calledBy /\ todo' = << >> \o s
    BY <1>12 DEF Instead, s
  <2>2. isReady /\ held = 0 => ~ wait
    BY <1>7, <1>12
  <2>3. isReady /\ held = 0 => settled[Doc] = "resolved"
    BY <1>2, <2>2 DEF ReadyEvents
  <2>4. readyWait' = held + c
    BY <1>7, <1>12
  <2>5. isReady => readyState # "loading"
    BY <1>2 DEF ReadyEvents
  <2>6. ~ isReady => wait
    BY <1>12
  <2>7. readyList /\ ~ isReady' =>
                /\ readyState = "loading" => {"DOMContentLoaded", "load"} \subseteq calledBy'
                /\ readyState = "interactive" => "load" \in calledBy'
                /\ readyState = "complete" => "timeout" \in calledBy'
    BY <1>2, <2>1, <2>6 DEF ReadyEvents
  <2>. QED  BY <1>7, <1>9, <1>10, <1>11, <2>1, <2>3, <2>4, <2>5, <2>7 DEF c
<1>13. ASSUME ~ wait, ~ isReady, readyState = "interactive", calledBy' = calledBy \cup {"timeout"},
              Instead(<< >>), UNCHANGED <<isReady, readyWait>>
       PROVE  IInv'
  <2>1. isReady' = isReady /\ ~ isReady' /\ todo' = << >> \o s
    BY <1>13 DEF Instead, s
  <2>2. readyWait' = held + c
    BY <1>7, <1>13
  <2>3. readyList /\ ~ isReady' =>
                /\ readyState = "loading" => {"DOMContentLoaded", "load"} \subseteq calledBy'
                /\ readyState = "interactive" => "load" \in calledBy'
                /\ readyState = "complete" => "timeout" \in calledBy'
    BY <1>2, <1>13 DEF ReadyEvents
  <2>4. readyState # "loading"
    BY <1>13
  <2>. QED  BY <1>7, <1>9, <1>10, <2>1, <2>2, <2>3, <2>4 DEF c
<1>14. ASSUME IF wait THEN left = 0 ELSE ~ isReady, isReady' = TRUE, readyWait' = left,
              Instead(IF ~ wait /\ left > 0 THEN << >> ELSE <<f>> \o h), UNCHANGED calledBy
       PROVE  IInv'
  <2>1. left = held /\ (wait => isReady)
    BY <1>7, <1>14
  <2>2. readyState # "loading"
    BY <1>2, <2>1 DEF ReadyEvents
  <2>3. isReady' /\ isReady' \in BOOLEAN /\ readyWait' = held + (IF isReady' THEN 0 ELSE 1)
    BY <1>7, <1>14, <2>1
  <2>4. CASE ~ wait /\ left > 0
    <3>1. todo' = << >> \o s
      BY <1>14, <2>4 DEF Instead, s
    <3>2. held # 0
      BY <1>7, <2>1, <2>4
    <3>. QED  BY <1>9, <1>10, <2>2, <2>3, <3>1, <3>2
  <2>5. CASE ~ (~ wait /\ left > 0)
    <3>1. todo' = (<<f>> \o h) \o s /\ <<f>> \o h \in Seq(Plain)
      BY <1>4, <1>5, <1>14, <2>5, PlainSeqs DEF Instead, s
    <3>2. <<f>> \in Seq(Frames) /\ h \in Seq(Frames) /\ f \in Frames
      BY <1>4, <1>5 DEF Plain
    <3>3. h \o s \in Seq(Frames)
      BY <1>1, <3>2
    <3>4. todo' = <<f>> \o (h \o s)
      BY <1>1, <3>1, <3>2, Joining
    <3>5. todo' # << >> /\ Head(todo') = f
      BY <3>2, <3>3, <3>4
    <3>6. TopIs("fire", DoneList)'
      BY <1>4, <3>5 DEF TopIs, On, Idle, Top
    <3>. QED  BY <1>9, <2>2, <2>3, <3>1, <3>6
  <2>. QED  BY <2>4, <2>5
<1>. QED  BY <1>8, <1>12, <1>13, <1>14

----------------------------------------------------------------------------
(* What the methods make of a list *)

\* What add makes of a list.
LEMMA AddedIs ==
    ASSUME NEW A, NEW r \in Closures(A), NEW f \in A
    PROVE  LET q == Added(r, f) IN
           /\ q \in Closures(A)
           /\ q.flags = r.flags /\ q.gone = r.gone /\ q.stack = r.stack /\ q.single = r.single
           /\ q.memory = r.memory /\ q.fired = r.fired /\ q.firing = r.firing /\ q.index = r.index /\ q.emptied = r.emptied
           /\ \/ q = r /\ (r.gone \/ ("unique" \in r.flags /\ Has(r, f)))
              \/ /\ ~ r.gone /\ ~ ("unique" \in r.flags /\ Has(r, f))
                 /\ q.list = Append(r.list, f)
                 /\ q.length = IF r.firing THEN Len(r.list) + 1 ELSE r.length
<1>. DEFINE n == IF r.firing THEN Len(r.list) + 1 ELSE r.length
            l == Append(r.list, f)
<1>1. r.list \in Seq(A) /\ Len(r.list) \in Nat /\ r.length \in Nat
  BY DEF Closures
<1>2. n \in Nat /\ l \in Seq(A)
  BY <1>1
<1>3. CASE r.gone \/ ("unique" \in r.flags /\ Has(r, f))
  BY <1>3 DEF Added
<1>4. CASE ~ (r.gone \/ ("unique" \in r.flags /\ Has(r, f)))
  <2>1. Added(r, f) = [r EXCEPT !.list = l, !.length = n]
    BY <1>4 DEF Added
  <2>. HIDE DEF l, n
  <2>2. Added(r, f) \in Closures(A)
    BY <1>2, <2>1 DEF Closures
  <2>3. /\ Added(r, f).list = l /\ Added(r, f).length = n
    BY <2>1 DEF Closures
  <2>4. LET q == Added(r, f) IN
        /\ q.flags = r.flags /\ q.gone = r.gone /\ q.stack = r.stack /\ q.single = r.single
        /\ q.memory = r.memory /\ q.fired = r.fired /\ q.firing = r.firing /\ q.index = r.index /\ q.emptied = r.emptied
    BY <2>1 DEF Closures
  <2>. QED  BY <1>4, <2>2, <2>3, <2>4 DEF l, n
<1>. QED  BY <1>3, <1>4

\* What fire makes of a list up to its loop.
LEMMA FiredIs ==
    ASSUME NEW A, NEW r \in Closures(A), NEW data \in Datas, NEW start \in Int
    PROVE  LET q == Fired(r, data, start) IN
           /\ q \in Closures(A)
           /\ q.flags = r.flags /\ q.gone = r.gone /\ q.stack = r.stack /\ q.single = r.single /\ q.list = r.list
           /\ q.memory = (IF "memory" \in r.flags THEN data ELSE Nothing)
           /\ q.fired /\ q.firing /\ q.index = start /\ q.length = Len(r.list)
           /\ q.emptied => r.emptied /\ start > 0
           /\ ~ q.emptied => ~ r.emptied \/ start <= 0
<1>. DEFINE m == IF "memory" \in r.flags THEN data ELSE Nothing
            e == r.emptied /\ start > 0
            n == Len(r.list)
<1>1. m \in Datas /\ n \in Nat
  BY DEF Datas, Nothing, Data, Closures
<1>2. e \in BOOLEAN /\ (e => r.emptied /\ start > 0) /\ (~ e => ~ r.emptied \/ start <= 0)
  BY DEF Closures
<1>3. Fired(r, data, start) = [r EXCEPT !.memory = m, !.fired = TRUE, !.firing = TRUE,
                                        !.index = start, !.length = n, !.emptied = e]
  BY DEF Fired, Closures
<1>. HIDE DEF m, e, n
<1>4. Fired(r, data, start) \in Closures(A)
  BY <1>1, <1>2, <1>3 DEF Closures
<1>5. LET q == Fired(r, data, start) IN
      /\ q.flags = r.flags /\ q.gone = r.gone /\ q.stack = r.stack /\ q.single = r.single /\ q.list = r.list
      /\ q.memory = m /\ q.fired = TRUE /\ q.firing = TRUE /\ q.index = start /\ q.length = n /\ q.emptied = e
  BY <1>3 DEF Closures
<1>. QED  BY <1>2, <1>4, <1>5 DEF m, n

\* What empty makes of a list.
LEMMA EmptiedIs ==
    ASSUME NEW A, NEW r \in Closures(A)
    PROVE  LET q == Emptied(r) IN
           /\ q \in Closures(A) /\ q.list = << >> /\ ~ q.gone
           /\ q.flags = r.flags /\ q.firing = r.firing /\ q.index = r.index /\ q.length = r.length
           /\ r.firing => q.emptied
<1>. DEFINE e == r.emptied \/ r.firing
<1>1. e \in BOOLEAN /\ (r.firing => e) /\ << >> \in Seq(A)
  OBVIOUS
<1>2. Emptied(r) = [r EXCEPT !.list = << >>, !.gone = FALSE, !.emptied = e]
  BY DEF Emptied, Closures
<1>. HIDE DEF e
<1>3. Emptied(r) \in Closures(A)
  BY <1>1, <1>2 DEF Closures
<1>4. LET q == Emptied(r) IN
      /\ q.list = << >> /\ q.gone = FALSE /\ q.emptied = e
      /\ q.flags = r.flags /\ q.firing = r.firing /\ q.index = r.index /\ q.length = r.length
  BY <1>2 DEF Closures
<1>. QED  BY <1>1, <1>3, <1>4

\* What disable makes of a list.
LEMMA DisabledIs ==
    ASSUME NEW A, NEW r \in Closures(A)
    PROVE  LET q == Disabled(r) IN
           /\ q \in Closures(A) /\ q.list = << >> /\ q.gone /\ q.single /\ q.stack = << >> /\ q.memory = Nothing
           /\ q.flags = r.flags /\ q.firing = r.firing /\ q.index = r.index /\ q.length = r.length
<1>1. << >> \in Seq(A) /\ << >> \in Seq(Datas) /\ Nothing \in Datas
  BY DEF Datas, Nothing, Data
<1>2. Disabled(r) \in Closures(A)
  BY <1>1 DEF Disabled, Closures
<1>. QED  BY <1>2 DEF Disabled, Closures

\* What lock makes of a list.
LEMMA LockedIs ==
    ASSUME NEW A, NEW r \in Closures(A)
    PROVE  LET q == Locked(r) IN
           /\ q \in Closures(A) /\ q.flags = r.flags /\ q.firing = r.firing /\ q.index = r.index /\ q.length = r.length
           /\ \/ q.list = << >> /\ q.gone
              \/ q.list = r.list /\ q.gone = r.gone /\ q.emptied = r.emptied /\ q.memory = r.memory
<1>. DEFINE k == [r EXCEPT !.stack = << >>, !.single = TRUE]
<1>1. << >> \in Seq(Datas)
  OBVIOUS
<1>2. k \in Closures(A)
  BY <1>1 DEF Closures
<1>3. /\ k.flags = r.flags /\ k.firing = r.firing /\ k.index = r.index /\ k.length = r.length
      /\ k.list = r.list /\ k.gone = r.gone /\ k.emptied = r.emptied /\ k.memory = r.memory
  BY DEF Closures
<1>4. Locked(r) = IF r.memory = Nothing THEN Disabled(k) ELSE k
  BY DEF Locked
<1>. HIDE DEF k
<1>5. CASE r.memory = Nothing
  BY <1>2, <1>3, <1>4, <1>5, DisabledIs
<1>6. CASE r.memory # Nothing
  BY <1>2, <1>3, <1>4, <1>6
<1>. QED  BY <1>5, <1>6

\* What fire makes of a list that is firing.
LEMMA PushedIs ==
    ASSUME NEW A, NEW r \in Closures(A), NEW data \in Datas
    PROVE  LET q == Pushed(r, data) IN
           /\ q \in Closures(A) /\ q.flags = r.flags /\ q.firing = r.firing /\ q.index = r.index /\ q.length = r.length
           /\ q.list = r.list /\ q.gone = r.gone /\ q.emptied = r.emptied /\ q.memory = r.memory
<1>. DEFINE s == Append(r.stack, data)
<1>1. s \in Seq(Datas)
  BY DEF Closures
<1>2. Pushed(r, data) = [r EXCEPT !.stack = s]
  BY DEF Pushed
<1>. HIDE DEF s
<1>3. Pushed(r, data) \in Closures(A)
  BY <1>1, <1>2 DEF Closures
<1>. QED  BY <1>2, <1>3 DEF Closures

\* When its loop is over a list that may fire once is emptied, or gone.
LEMMA RestedIs ==
    ASSUME NEW A, NEW r \in Closures(A)
    PROVE  LET q == Rested(r) IN
           /\ q \in Closures(A) /\ q.flags = r.flags /\ ~ q.firing /\ q.index = r.index /\ q.length = r.length
           /\ \/ q.list = << >> /\ q.gone /\ q.memory = Nothing /\ r.memory = Nothing /\ r.single /\ ~ r.gone
              \/ /\ q.memory = r.memory /\ q.gone = r.gone /\ q.fired = r.fired /\ q.single = r.single /\ q.stack = r.stack
                 /\ q.emptied = r.emptied
                 /\ IF ~ r.gone /\ r.single THEN q.list = << >> ELSE q.list = r.list
<1>. DEFINE k == [r EXCEPT !.firing = FALSE]
<1>1. k \in Closures(A)
  BY DEF Closures
<1>2. /\ k.flags = r.flags /\ k.firing = FALSE /\ k.index = r.index /\ k.length = r.length /\ k.list = r.list
      /\ k.gone = r.gone /\ k.emptied = r.emptied /\ k.memory = r.memory /\ k.fired = r.fired /\ k.single = r.single
      /\ k.stack = r.stack
  BY DEF Closures
<1>3. Rested(r) = IF r.gone \/ ~ r.single THEN k
                  ELSE IF r.memory # Nothing THEN [k EXCEPT !.list = << >>] ELSE Disabled(k)
  BY DEF Rested
<1>. HIDE DEF k
<1>4. CASE r.gone \/ ~ r.single
  BY <1>1, <1>2, <1>3, <1>4
<1>5. CASE ~ (r.gone \/ ~ r.single) /\ r.memory # Nothing
  <2>1. Rested(r) = [k EXCEPT !.list = << >>] /\ << >> \in Seq(A)
    BY <1>3, <1>5
  <2>2. Rested(r) \in Closures(A)
    BY <1>1, <2>1 DEF Closures
  <2>3. LET q == Rested(r) IN
        /\ q.flags = k.flags /\ q.firing = k.firing /\ q.index = k.index /\ q.length = k.length /\ q.list = << >>
        /\ q.gone = k.gone /\ q.emptied = k.emptied /\ q.memory = k.memory /\ q.fired = k.fired /\ q.single = k.single
        /\ q.stack = k.stack
    BY <1>1, <2>1 DEF Closures
  <2>. QED  BY <1>2, <1>5, <2>2, <2>3
<1>6. CASE ~ (r.gone \/ ~ r.single) /\ r.memory = Nothing
  <2>1. Rested(r) = Disabled(k)
    BY <1>3, <1>6
  <2>. QED  BY <1>1, <1>2, <1>6, <2>1, DisabledIs
<1>. QED  BY <1>4, <1>5, <1>6

\* A sequence without one of its elements.
LEMMA DroppedIs ==
    ASSUME NEW A, NEW q \in Seq(A), NEW i \in DOMAIN q
    PROVE  /\ Dropped(q, i) \in Seq(A) /\ Len(Dropped(q, i)) = Len(q) - 1 /\ Len(q) \in Nat
           /\ DOMAIN Dropped(q, i) = 1..(Len(q) - 1)
           /\ \A k \in 1..(Len(q) - 1) : Dropped(q, i)[k] = IF k < i THEN q[k] ELSE q[k + 1]
<1>1. i \in 1..Len(q) /\ Len(q) \in Nat
  OBVIOUS
<1>. DEFINE a == SubSeq(q, 1, i - 1)
            b == SubSeq(q, i + 1, Len(q))
<1>2. a \in Seq(A) /\ Len(a) = i - 1 /\ \A k \in 1..(i - 1) : a[k] = q[k]
  BY <1>1
<1>3. b \in Seq(A) /\ Len(b) = Len(q) - i /\ \A k \in 1..(Len(q) - i) : b[k] = q[k + i]
  <2>1. i + 1 \in 1..(Len(q) + 1)
    BY <1>1
  <2>2. /\ b \in Seq(A) /\ Len(b) = Len(q) - (i + 1) + 1
        /\ \A k \in 1..Len(b) : b[k] = q[k + (i + 1) - 1]
    BY <2>1, Suffix
  <2>3. Len(b) = Len(q) - i
    BY <1>1, <2>2
  <2>4. \A k \in 1..(Len(q) - i) : k + (i + 1) - 1 = k + i
    BY <1>1
  <2>. HIDE DEF b
  <2>. QED  BY <2>2, <2>3, <2>4
<1>4. Dropped(q, i) = a \o b
  BY DEF Dropped
<1>. HIDE DEF a, b
<1>5. Dropped(q, i) \in Seq(A) /\ Len(Dropped(q, i)) = Len(q) - 1
  BY <1>1, <1>2, <1>3, <1>4
<1>6. ASSUME NEW k \in 1..(Len(q) - 1) PROVE Dropped(q, i)[k] = IF k < i THEN q[k] ELSE q[k + 1]
  <2>1. CASE k < i
    <3>1. k \in 1..Len(a)
      BY <1>1, <1>2, <2>1
    <3>2. (a \o b)[k] = a[k]
      BY <1>2, <1>3, <3>1
    <3>. QED  BY <1>2, <1>4, <2>1, <3>1, <3>2
  <2>2. CASE ~ (k < i)
    <3>1. k - (i - 1) \in 1..Len(b) /\ k = Len(a) + (k - (i - 1)) /\ (k - (i - 1)) + i = k + 1
      BY <1>1, <1>2, <1>3, <2>2
    <3>. DEFINE j == k - (i - 1)
    <3>2. j \in 1..Len(b) /\ k = Len(a) + j /\ j + i = k + 1
      BY <3>1
    <3>. HIDE DEF j
    <3>3. (a \o b)[Len(a) + j] = b[j]
      <4>1. a \in Seq(A) /\ b \in Seq(A) /\ j \in 1..Len(b)
        BY <1>2, <1>3, <3>2
      <4>. QED  BY <4>1, Joined
    <3>4. b[j] = q[j + i]
      BY <1>3, <3>2
    <3>. QED  BY <1>4, <2>2, <3>2, <3>3, <3>4
  <2>. QED  BY <2>1, <2>2
<1>. QED  BY <1>1, <1>5, <1>6

\* The first occurrence is an occurrence.
LEMMA FirstIs ==
    ASSUME NEW A, NEW q \in Seq(A), NEW f \in Elems(q)
    PROVE  FirstOf(q, f) \in DOMAIN q /\ q[FirstOf(q, f)] = f
<1>. DEFINE S == {i \in DOMAIN q : q[i] = f}
<1>1. S \in SUBSET Nat /\ S # {}
  BY DEF Elems
<1>2. \E i \in S : \A j \in S : i <= j
  BY <1>1, LeastElement
<1>3. \E i \in DOMAIN q : q[i] = f /\ \A j \in DOMAIN q : q[j] = f => i <= j
  BY <1>2
<1>. QED  BY <1>3 DEF FirstOf

\* Of a sequence in which everything is once, only what is dropped is missed.
LEMMA DroppedOnce ==
    ASSUME NEW A, NEW q \in Seq(A), NEW i \in DOMAIN q, Once(q)
    PROVE  /\ Once(Dropped(q, i)) /\ Elems(Dropped(q, i)) = Elems(q) \ {q[i]}
<1>. DEFINE d == Dropped(q, i)
            n == Len(q)
<1>1. /\ d \in Seq(A) /\ DOMAIN d = 1..(n - 1) /\ n \in Nat /\ DOMAIN q = 1..n
      /\ \A k \in 1..(n - 1) : d[k] = IF k < i THEN q[k] ELSE q[k + 1]
  BY DroppedIs
<1>. DEFINE old(k) == IF k < i THEN k ELSE k + 1
<1>2. \A k \in 1..(n - 1) : old(k) \in 1..n /\ old(k) # i /\ d[k] = q[old(k)]
  BY <1>1
<1>3. \A j, k \in 1..(n - 1) : old(j) = old(k) => j = k
  BY <1>1
<1>4. \A k \in 1..n : k # i => \E j \in 1..(n - 1) : old(j) = k
  <2>. SUFFICES ASSUME NEW k \in 1..n, k # i PROVE \E j \in 1..(n - 1) : old(j) = k
    OBVIOUS
  <2>1. CASE k < i
    <3>1. k \in 1..(n - 1) /\ old(k) = k
      BY <1>1, <2>1
    <3>. QED  BY <3>1
  <2>2. CASE k > i
    <3>1. k - 1 \in 1..(n - 1) /\ old(k - 1) = k
      BY <1>1, <2>2
    <3>. QED  BY <3>1
  <2>. QED  BY <1>1, <2>1, <2>2
<1>. HIDE DEF d, old, n
<1>5. Once(d)
  BY <1>1, <1>2, <1>3 DEF Once
<1>6. Elems(d) = Elems(q) \ {q[i]}
  <2>1. ASSUME NEW x \in Elems(d) PROVE x \in Elems(q) /\ x # q[i]
    <3>1. PICK k \in 1..(n - 1) : d[k] = x
      BY <1>1, <2>1 DEF Elems
    <3>. QED  BY <1>1, <1>2, <3>1 DEF Elems, Once
  <2>2. ASSUME NEW x \in Elems(q), x # q[i] PROVE x \in Elems(d)
    <3>1. PICK k \in 1..n : q[k] = x /\ k # i
      BY <1>1, <2>2 DEF Elems
    <3>2. PICK j \in 1..(n - 1) : old(j) = k
      BY <1>4, <3>1
    <3>. QED  BY <1>1, <1>2, <3>1, <3>2 DEF Elems
  <2>. QED  BY <2>1, <2>2
<1>. QED  BY <1>5, <1>6 DEF d

\* What remove makes of a list.
LEMMA RemovedIs ==
    ASSUME NEW A, NEW r \in Closures(A), NEW i \in DOMAIN r.list, r.firing => Len(r.list) <= r.length
    PROVE  LET q == Removed(r, i) IN
           /\ q \in Closures(A) /\ q.flags = r.flags /\ q.gone = r.gone /\ q.firing = r.firing
           /\ q.emptied = r.emptied /\ q.memory = r.memory /\ q.list = Dropped(r.list, i)
           /\ q.length = (IF r.firing THEN r.length - 1 ELSE r.length)
           /\ q.index = (IF r.firing /\ i - 1 <= r.index THEN r.index - 1 ELSE r.index)
<1>. DEFINE d == Dropped(r.list, i)
            n == IF r.firing THEN r.length - 1 ELSE r.length
            x == IF r.firing /\ i - 1 <= r.index THEN r.index - 1 ELSE r.index
<1>1. r.list \in Seq(A) /\ r.length \in Nat /\ r.index \in Int
  BY DEF Closures
<1>2. d \in Seq(A) /\ i \in 1..Len(r.list) /\ Len(r.list) \in Nat
  BY <1>1, DroppedIs
<1>3. n \in Nat /\ x \in Int
  BY <1>1, <1>2
<1>4. Removed(r, i) = [r EXCEPT !.list = d, !.length = n, !.index = x]
  BY DEF Removed
<1>. HIDE DEF d, n, x
<1>5. Removed(r, i) \in Closures(A)
  BY <1>2, <1>3, <1>4 DEF Closures
<1>6. LET q == Removed(r, i) IN
      /\ q.flags = r.flags /\ q.gone = r.gone /\ q.firing = r.firing
      /\ q.emptied = r.emptied /\ q.memory = r.memory /\ q.list = d /\ q.length = n /\ q.index = x
  BY <1>4 DEF Closures
<1>. QED  BY <1>5, <1>6 DEF d, n, x

----------------------------------------------------------------------------
(* What the methods of a list make of the script *)

\* A callback is called from the loop of its list.
LEMMA PushRun ==
    ASSUME NEW s, Shape(s), s # << >>, NEW f \in Frames, Head(s).op = "loop", f.op = "run", f.at = Head(s).at,
           NEW t, t = <<f>> \o s
    PROVE  /\ Shape(t) /\ t # << >> /\ Head(t) = f
           /\ \A op, x : op # "run" => (In(t, op, x) <=> In(s, op, x))
<1>. DEFINE n == Len(s)
            N == Len(t)
<1>1. s \in Seq(Frames) /\ <<f>> \in Seq(Frames) /\ t \in Seq(Frames) /\ n \in Nat /\ n > 0 /\ N = n + 1
      /\ DOMAIN s = 1..n /\ DOMAIN t = 1..N /\ t # << >> /\ Head(t) = f /\ t[1] = f /\ Head(s) = s[1]
      /\ \A i \in 1..n : t[i + 1] = s[i]
  BY DEF Shape
<1>. HIDE DEF n, N
<1>2. \A i \in 1..N : i = 1 \/ (i > 1 /\ i - 1 \in 1..n /\ t[i] = s[i - 1])
  <2>1. ASSUME NEW i \in 1..N, i # 1 PROVE i - 1 \in 1..n /\ i > 1 /\ i = (i - 1) + 1
    BY <1>1, <2>1
  <2>. QED  BY <1>1, <2>1
<1>3. \A op, x : op # "run" => (In(t, op, x) <=> In(s, op, x))
  <2>1. \A op, x : In(t, op, x) <=> In(<<f>>, op, x) \/ In(s, op, x)
    BY <1>1, InJoined
  <2>. QED  BY <2>1, InOne
<1>4. ASSUME NEW i \in 1..n
      PROVE  /\ s[i].op \notin AtOnce
             /\ s[i].op = "run" => i < n /\ s[i + 1].op = "loop" /\ s[i + 1].at = s[i].at
             /\ s[i].op = "loop" /\ i > 1 => s[i - 1].op = "run" /\ s[i - 1].at = s[i].at
             /\ s[i].op = "send" => i < n /\ s[i + 1].op = "try" /\ s[i + 1].at = s[i].at
             /\ Asks(s[i]) => i < n /\ s[i + 1].op = "install" /\ s[i + 1].at = s[i].at
  <2>1. s[i].op \in AtOnce => i = 1
    BY <1>1 DEF Shape
  <2>2. s[1].op \notin AtOnce
    BY <1>1 DEF AtOnce
  <2>. QED  BY <1>1, <2>1, <2>2 DEF Shape, n
<1>5. ASSUME NEW i \in 1..N
      PROVE  /\ t[i].op \in AtOnce => i = 1
             /\ t[i].op = "run" => i < N /\ t[i + 1].op = "loop" /\ t[i + 1].at = t[i].at
             /\ t[i].op = "loop" /\ i > 1 => t[i - 1].op = "run" /\ t[i - 1].at = t[i].at
             /\ t[i].op = "send" => i < N /\ t[i + 1].op = "try" /\ t[i + 1].at = t[i].at
             /\ Asks(t[i]) => i < N /\ t[i + 1].op = "install" /\ t[i + 1].at = t[i].at
  <2>1. CASE i = 1
    <3>1. t[i] = f /\ i < N /\ t[i + 1] = s[1]
      BY <1>1, <2>1
    <3>2. ~ Asks(f) /\ f.op # "send" /\ f.op # "loop"
      BY DEF Asks
    <3>. QED  BY <1>1, <2>1, <3>1, <3>2
  <2>2. CASE i > 1
    <3>. DEFINE j == i - 1
    <3>1. j \in 1..n /\ t[i] = s[j] /\ i = j + 1
      BY <1>1, <1>2, <2>2
    <3>. HIDE DEF j
    <3>2. j < n => i < N /\ t[i + 1] = s[j + 1]
      <4>1. HAVE j < n
      <4>2. j + 1 \in 1..n /\ i + 1 = (j + 1) + 1 /\ i < N
        BY <1>1, <3>1, <4>1
      <4>. QED  BY <1>1, <4>2
    <3>3. j > 1 => t[i - 1] = s[j - 1]
      <4>1. HAVE j > 1
      <4>2. j - 1 \in 1..n /\ i - 1 = (j - 1) + 1
        BY <1>1, <3>1, <4>1
      <4>. QED  BY <1>1, <4>2
    <3>4. j = 1 => t[i - 1] = f /\ s[j] = Head(s)
      <4>1. HAVE j = 1
      <4>2. i - 1 = 1
        BY <3>1, <4>1
      <4>. QED  BY <1>1, <4>1, <4>2
    <3>5. j = 1 \/ j > 1
      BY <1>1, <3>1
    <3>. QED  BY <1>4, <3>1, <3>2, <3>3, <3>4, <3>5
  <2>. QED  BY <1>2, <2>1, <2>2
<1>6. ASSUME NEW i \in 1..N, NEW j \in 1..N, t[i].at = t[j].at
      PROVE  /\ t[i].op = "loop" /\ t[j].op = "loop" => i = j
             /\ t[i].op \in Life \cup Ends /\ t[j].op \in Life \cup Ends => i = j
             /\ t[i].op = "uncount" /\ t[j].op = "uncount" => i = j
             /\ t[i].op = "uncount" /\ t[j].op \in Life \cup Ends => i < j
  <2>1. CASE i = 1 \/ j = 1
    BY <1>1, <2>1 DEF Life, Ends
  <2>2. CASE i > 1 /\ j > 1
    <3>1. i - 1 \in 1..n /\ t[i] = s[i - 1] /\ j - 1 \in 1..n /\ t[j] = s[j - 1]
      BY <1>1, <1>2, <2>2
    <3>2. (i - 1 = j - 1 => i = j) /\ (i - 1 < j - 1 => i < j)
      BY <1>1
    <3>. QED  BY <1>1, <1>6, <3>1, <3>2 DEF Shape
  <2>. QED  BY <1>2, <2>1, <2>2
<1>7. Shape(t)
  BY <1>1, <1>5, <1>6 DEF Shape, N
<1>. QED  BY <1>1, <1>3, <1>7

ListOps == {"add", "remove", "empty", "disable", "lock", "fire", "loop", "run"}

\* A step about one list leaves alone what else is in the script.
Moves(l) ==
    /\ Shape(todo')
    /\ \A op \in Counts : \A x : In(todo', op, x) <=> In(todo, op, x)
    /\ \A x : x # l => (In(todo', "loop", x) <=> In(todo, "loop", x))
    /\ \A x : In(todo', "fire", x) => In(todo, "fire", x)
    /\ ~ On("ready")' /\ (On("loop")' => Top'.at = l)

\* The frame of a list's method is about a list of the model.
LEMMA ListFrame ==
    ASSUME IInv, NEW op \in ListOps, On(op)
    PROVE  /\ Shape(todo) /\ todo # << >> /\ Head(todo) = Top /\ Top.op = op /\ Top.at \in Told \cup {PageList}
           /\ Top.at \in Lists /\ FrameOK(Top) /\ op \notin Counts
           /\ op \in {"fire", "loop", "run"} => Top.at \in Fires \cup {PageList}
<1>1. Shape(todo) /\ todo # << >> /\ Head(todo) = Top /\ Top.op = op /\ FrameOK(Top)
  BY RqIs, TopNow
<1>2. Top.at \in Told \cup {PageList} /\ (op \in {"fire", "loop", "run"} => Top.at \in Fires \cup {PageList})
  BY <1>1, Names DEF FrameOK, ListOps
<1>. QED  BY <1>1, <1>2, Names DEF ListOps, Counts, Life, Ends

\* The call is over.
LEMMA PopMoves ==
    ASSUME Shape(todo), todo # << >>, NEW l, Top.at = l, Top.op \in ListOps \ {"run"}, todo' = Tail(todo)
    PROVE  /\ Moves(l) /\ ~ On("loop")'
           /\ In(todo', "loop", l) <=> In(todo, "loop", l) /\ Top.op # "loop"
<1>1. Head(todo) = Top
  BY DEF Top
<1>2. << >> \in Seq(Plain) /\ Tail(todo) \in Seq(Frames)
  BY Tops, PlainSeqs
<1>7. \A x : ~ In(<< >>, "fire", x)
  BY DEF In
<1>3. todo' = << >> \o Tail(todo)
  BY <1>2
<1>4. /\ Base(todo') /\ Shape(todo')
      /\ \A op \in Kinds : \A x : In(todo', op, x) <=> In(todo, op, x) /\ ~ (Top.op = op /\ Top.at = x)
      /\ \A x : In(todo', "fire", x) => In(todo, "fire", x)
  BY <1>1, <1>2, <1>3, <1>7, Popped
<1>5. ~ On("ready")' /\ ~ On("loop")'
  BY <1>4, OnBase DEF On, Idle, Top, AtOnce
<1>6. Counts \subseteq Kinds /\ "loop" \in Kinds /\ Top.op \notin Counts
  BY DEF Kinds, Counts, ListOps, Life, Ends
<1>. QED  BY <1>4, <1>5, <1>6 DEF Moves

\* A loop begins, in place of the call.
LEMMA LoopMoves ==
    ASSUME Shape(todo), todo # << >>, NEW l, Top.at = l, Top.op \in ListOps \ {"run"}, l \in Fires \cup {PageList},
           Top.op # "loop" => ~ In(todo, "loop", l), todo' = <<Frame("loop", l, Nothing)>> \o Tail(todo)
    PROVE  Moves(l) /\ TopIs("loop", l)' /\ In(todo', "loop", l)
<1>. DEFINE f == Frame("loop", l, Nothing)
<1>1. Head(todo) = Top
  BY DEF Top
<1>2. f \in Frames /\ f.op = "loop" /\ f.at = l /\ todo' = <<f>> \o Tail(todo)
  BY OtherFrames DEF Frame
<1>. HIDE DEF f
<1>3. ~ In(Tail(todo), "loop", l)
  BY <1>1, Tops
<1>4. Fits(f, Tail(todo))
  BY <1>2, <1>3 DEF Fits, Life, Ends, Asks
<1>5. /\ Shape(todo') /\ todo' # << >> /\ Head(todo') = f
      /\ \A op \in Kinds : \A x : In(todo', op, x) <=> \/ f.op = op /\ f.at = x
                                                       \/ In(todo, op, x) /\ ~ (Top.op = op /\ Top.at = x)
      /\ \A x : In(todo', "fire", x) => In(todo, "fire", x)
  BY <1>1, <1>2, <1>4, Replaced
<1>6. Counts \subseteq Kinds /\ "loop" \in Kinds /\ Top.op \notin Counts /\ "loop" \notin Counts
  BY DEF Kinds, Counts, ListOps, Life, Ends
<1>7. On("loop")' /\ Top' = f /\ ~ On("ready")'
  BY <1>2, <1>5 DEF On, Idle, Top
<1>. QED  BY <1>2, <1>5, <1>6, <1>7 DEF Moves, TopIs

\* The frame stays.
LEMMA StayMoves ==
    ASSUME Shape(todo), todo # << >>, NEW l, Top.at = l, Top.op \in ListOps, todo' = todo
    PROVE  Moves(l) /\ Top' = Top /\ \A op : On(op)' <=> On(op)
BY DEF Moves, On, Idle, Top, ListOps

\* A callback is called, and returns.
LEMMA RunMoves ==
    ASSUME Shape(todo), todo # << >>, NEW l, Top.at = l, Top.op = "loop", NEW f \in Attached, l \in Fires \cup {PageList},
           todo' = <<Frame("run", l, f)>> \o todo
    PROVE  Moves(l) /\ ~ On("loop")' /\ (In(todo', "loop", l) <=> In(todo, "loop", l))
<1>. DEFINE g == Frame("run", l, f)
<1>1. g \in Frames /\ g.op = "run" /\ g.at = l /\ todo' = <<g>> \o todo
  BY OtherFrames DEF Frame
<1>. HIDE DEF g
<1>2. Head(todo) = Top
  BY DEF Top
<1>3. /\ Shape(todo') /\ todo' # << >> /\ Head(todo') = g
      /\ \A op, x : op # "run" => (In(todo', op, x) <=> In(todo, op, x))
  BY <1>1, <1>2, PushRun
<1>4. "run" \notin Counts
  BY DEF Counts, Life, Ends
<1>5. ~ On("loop")' /\ ~ On("ready")'
  BY <1>1, <1>3 DEF On, Idle, Top
<1>. QED  BY <1>3, <1>4, <1>5 DEF Moves

\* Under a callback that runs is the loop that called it.
LEMMA UnderRun ==
    ASSUME Shape(todo), todo # << >>, NEW l, Top.at = l, Top.op = "run"
    PROVE  /\ Shape(Tail(todo)) /\ Tail(todo) # << >> /\ Head(Tail(todo)).op = "loop" /\ Head(Tail(todo)).at = l
           /\ \A op, x : op # "run" => (In(Tail(todo), op, x) <=> In(todo, op, x))
<1>1. Head(todo) = Top
  BY DEF Top
<1>2. /\ Shape(Tail(todo)) /\ Tail(todo) \in Seq(Frames)
      /\ \A op, x : In(todo, op, x) <=> (Top.op = op /\ Top.at = x) \/ In(Tail(todo), op, x)
  BY <1>1, Tops
<1>3. todo \in Seq(Frames) /\ todo[1] = Top /\ 1 \in DOMAIN todo
  BY <1>1 DEF Shape
<1>4. 1 < Len(todo) /\ todo[1 + 1].op = "loop" /\ todo[1 + 1].at = l
  BY <1>3 DEF Shape
<1>5. Len(Tail(todo)) = Len(todo) - 1 /\ \A i \in 1..Len(Tail(todo)) : Tail(todo)[i] = todo[i + 1]
  BY <1>3, TailIs
<1>6. Len(todo) \in Nat /\ 1 \in 1..Len(Tail(todo))
  BY <1>3, <1>4, <1>5
<1>7. Tail(todo) # << >> /\ Head(Tail(todo)) = todo[1 + 1]
  <2>. DEFINE t == Tail(todo)
  <2>1. t \in Seq(Frames) /\ t[1] = todo[1 + 1] /\ 1 \in 1..Len(t)
    BY <1>2, <1>5, <1>6
  <2>. HIDE DEF t
  <2>2. t # << >> /\ Head(t) = t[1]
    BY <2>1
  <2>. QED  BY <2>1, <2>2 DEF t
<1>. QED  BY <1>2, <1>4, <1>7

\* A callback returns to its loop.
LEMMA ReturnMoves ==
    ASSUME Shape(todo), todo # << >>, NEW l, Top.at = l, Top.op = "run", todo' = Tail(todo)
    PROVE  Moves(l) /\ TopIs("loop", l)' /\ (In(todo', "loop", l) <=> In(todo, "loop", l))
<1>1. "run" \notin Counts
  BY DEF Counts, Life, Ends
<1>2. On("loop")' /\ Top'.at = l /\ ~ On("ready")'
  BY UnderRun DEF On, Idle, Top
<1>. QED  BY <1>1, <1>2, UnderRun DEF Moves, TopIs

\* The loop starts anew.
LEMMA LoopAgain ==
    ASSUME NEW s, Shape(s), s # << >>, Head(s).op = "loop", NEW f \in Frames, f.op = "loop", f.at = Head(s).at,
           NEW t, t = <<f>> \o Tail(s)
    PROVE  /\ Shape(t) /\ t # << >> /\ Head(t) = f
           /\ \A op \in Kinds : \A x : In(t, op, x) <=> In(s, op, x)
           /\ \A x : In(t, "fire", x) => In(s, "fire", x)
<1>1. ~ In(Tail(s), "loop", f.at) /\ In(s, "loop", f.at)
  BY Tops
<1>2. Fits(f, Tail(s))
  BY <1>1 DEF Fits, Life, Ends, Asks
<1>3. /\ Shape(t) /\ t # << >> /\ Head(t) = f
      /\ \A op \in Kinds : \A x : In(t, op, x) <=> \/ f.op = op /\ f.at = x
                                                   \/ In(s, op, x) /\ ~ (Head(s).op = op /\ Head(s).at = x)
      /\ \A x : In(t, "fire", x) => In(s, "fire", x)
  BY <1>2, Replaced
<1>. QED  BY <1>1, <1>3

\* A callback ends the loop that called it, or starts it once more.
LEMMA BreakMoves ==
    ASSUME Shape(todo), todo # << >>, NEW l, Top.at = l, Top.op = "run", l \in Fires \cup {PageList}
    PROVE  /\ todo' = Tail(Tail(todo)) => Moves(l) /\ ~ On("loop")' /\ ~ In(todo', "loop", l)
           /\ todo' = <<Frame("loop", l, Nothing)>> \o Tail(Tail(todo)) =>
                 Moves(l) /\ TopIs("loop", l)' /\ In(todo', "loop", l)
<1>. DEFINE s == Tail(todo)
            f == Frame("loop", l, Nothing)
<1>1. /\ Shape(s) /\ s # << >> /\ Head(s).op = "loop" /\ Head(s).at = l
      /\ \A op, x : op # "run" => (In(s, op, x) <=> In(todo, op, x))
  BY UnderRun
<1>2. Counts \subseteq Kinds /\ "loop" \in Kinds /\ "loop" \notin Counts /\ "run" \notin Kinds /\ "fire" # "run"
  BY DEF Kinds, Counts, Life, Ends
<1>3. f \in Frames /\ f.op = "loop" /\ f.at = l
  BY OtherFrames DEF Frame
<1>. HIDE DEF s, f
<1>4. << >> \in Seq(Plain) /\ Tail(s) \in Seq(Frames) /\ ~ In(Tail(s), "loop", l)
  BY <1>1, Tops, PlainSeqs
<1>7. \A x : ~ In(<< >>, "fire", x)
  BY DEF In
<1>5. ASSUME todo' = Tail(s) PROVE Moves(l) /\ ~ On("loop")' /\ ~ In(todo', "loop", l)
  <2>1. todo' = << >> \o Tail(s)
    BY <1>4, <1>5
  <2>2. /\ Base(todo') /\ Shape(todo')
        /\ \A op \in Kinds : \A x : In(todo', op, x) <=> In(s, op, x) /\ ~ (Head(s).op = op /\ Head(s).at = x)
        /\ \A x : In(todo', "fire", x) => In(s, "fire", x)
    BY <1>1, <1>4, <1>7, <2>1, Popped
  <2>3. ~ On("ready")' /\ ~ On("loop")'
    BY <2>2, OnBase DEF On, Idle, Top, AtOnce
  <2>. QED  BY <1>1, <1>2, <2>2, <2>3 DEF Moves
<1>6. ASSUME todo' = <<f>> \o Tail(s) PROVE Moves(l) /\ TopIs("loop", l)' /\ In(todo', "loop", l)
  <2>1. Shape(s) /\ s # << >> /\ Head(s).op = "loop" /\ f.at = Head(s).at /\ todo' = <<f>> \o Tail(s)
    BY <1>1, <1>3, <1>6
  <2>2. /\ Shape(todo') /\ todo' # << >> /\ Head(todo') = f
        /\ \A op \in Kinds : \A x : In(todo', op, x) <=> In(s, op, x)
        /\ \A x : In(todo', "fire", x) => In(s, "fire", x)
    BY <1>3, <2>1, LoopAgain
  <2>3. On("loop")' /\ Top' = f /\ ~ On("ready")'
    BY <1>3, <2>2 DEF On, Idle, Top
  <2>4. In(s, "loop", l)
    BY <2>1, <1>3, Tops
  <2>5. /\ \A op \in Counts : \A x : In(todo', op, x) <=> In(todo, op, x)
        /\ \A x : In(todo', "loop", x) <=> In(todo, "loop", x)
        /\ \A x : In(todo', "fire", x) => In(todo, "fire", x)
    BY <1>1, <1>2, <2>2
  <2>6. Moves(l)
    BY <1>3, <2>2, <2>3, <2>5 DEF Moves
  <2>. QED  BY <1>2, <1>3, <2>2, <2>3, <2>4, <2>6 DEF TopIs
<1>. QED  BY <1>5, <1>6 DEF s, f

----------------------------------------------------------------------------
(* What a step about one list leaves alone *)

\* The three variables of a list are these now.
Touches(l, v, a, c) ==
    /\ lists' = [lists EXCEPT ![l] = v] /\ added' = [added EXCEPT ![l] = a] /\ called' = [called EXCEPT ![l] = c]
    /\ UNCHANGED <<settled, lost, ajax, page>>

\* A step about one list keeps the requests' invariant.
LEMMA MovesKeep ==
    ASSUME IInv, NEW op \in ListOps, On(op), NEW l, Top.at = l, Moves(l), UNCHANGED <<lost, ajax, page>>
    PROVE  /\ RequestsInv' /\ moves' \in Nat /\ ready' = ready /\ Shape(todo') /\ l \in Lists
           /\ \A m : m # l => (In(todo', "loop", m) <=> In(todo, "loop", m)) /\ (TopIs("loop", m)' <=> TopIs("loop", m))
<1>1. \A o \in {"catch", "try", "send", "finish"} : ~ On(o)
  BY DEF On, ListOps
<1>2. rq' = rq /\ active' = active /\ early' = early /\ moves' = moves /\ ready' = ready
  BY DEF ajax, page
<1>3. RequestsInv'
  BY <1>1, <1>2, RequestsSame DEF IInv, Moves
<1>4. \A m : m # l => ~ TopIs("loop", m) /\ ~ TopIs("loop", m)'
  BY DEF Moves, TopIs
<1>. QED  BY <1>2, <1>3, <1>4, ListFrame, RqIs DEF Moves

\* A step about one list leaves the others as they are.
LEMMA Touching ==
    ASSUME IInv, NEW op \in ListOps, On(op), NEW l, Top.at = l, Moves(l), NEW v, NEW a, NEW c, Touches(l, v, a, c)
    PROVE  /\ lists'[l] = v /\ added'[l] = a /\ called'[l] = c
           /\ \A m \in Lists : m # l => Same(m)
           /\ lists' = [m \in Lists |-> lists'[m]]
           /\ added' = [m \in Lists |-> added'[m]] /\ called' = [m \in Lists |-> called'[m]]
<1>1. l \in Lists
  BY ListFrame
<1>2. /\ lists = [m \in Lists |-> lists[m]]
      /\ added = [m \in Lists |-> added[m]] /\ called = [m \in Lists |-> called[m]]
  BY DEF IInv, ListsInv
<1>3. /\ lists' = [lists EXCEPT ![l] = v] /\ added' = [added EXCEPT ![l] = a] /\ called' = [called EXCEPT ![l] = c]
  BY DEF Touches
<1>4. \A m : m # l => (In(todo', "loop", m) <=> In(todo, "loop", m)) /\ (TopIs("loop", m)' <=> TopIs("loop", m))
  BY MovesKeep DEF Touches
<1>5. lists' = [m \in Lists |-> lists'[m]] /\ lists'[l] = v /\ \A m \in Lists : m # l => lists'[m] = lists[m]
  BY <1>1, <1>2, <1>3, Updated
<1>6. added' = [m \in Lists |-> added'[m]] /\ added'[l] = a /\ \A m \in Lists : m # l => added'[m] = added[m]
  BY <1>1, <1>2, <1>3, Updated
<1>7. called' = [m \in Lists |-> called'[m]] /\ called'[l] = c /\ \A m \in Lists : m # l => called'[m] = called[m]
  BY <1>1, <1>2, <1>3, Updated
<1>8. \A m \in Lists : m # l => Same(m)
  BY <1>4, <1>5, <1>6, <1>7 DEF Same
<1>. QED  BY <1>5, <1>6, <1>7, <1>8

\* The page is never told that the document failed to be ready.
LEMMA DocIs ==
    ASSUME IInv
    PROVE  /\ Open(Doc) \/ Turning(Doc, "done") \/ Turned(Doc, "done")
           /\ settled[Doc] \in {"pending", "resolved"}
<1>1. DeferredOK(Doc) /\ settled[Doc] # "rejected" /\ settled[Doc] \in {"pending", "resolved", "rejected"}
  BY Names DEF IInv, ListsInv, ReadyInv, ReadyEvents
<1>2. ~ TopIs("loop", <<Doc, "fail">>)
  <2>1. SUFFICES ASSUME TopIs("loop", <<Doc, "fail">>) PROVE FALSE
    OBVIOUS
  <2>2. FrameOK(Top) /\ Top.op = "loop" /\ Top.at = <<Doc, "fail">>
    BY <2>1, RqIs, TopNow DEF TopIs
  <2>. QED  BY <2>2, Names DEF FrameOK, Fires
<1>3. ~ Turning(Doc, "fail")
  BY <1>2 DEF Turning, Prep
<1>4. ~ Turned(Doc, "fail")
  BY <1>1 DEF Turned, StateOf
<1>. QED  BY <1>1, <1>3, <1>4 DEF DeferredOK

\* The deferred's own callbacks come first.
Follows(s, t) == \A k \in 1..Len(t) : s[3 + k] = t[k]

\* A deferred's list, before its own callbacks are through: those three, then the page's.
LEMMA OwnFirst ==
    ASSUME IInv, NEW d \in Deferreds, NEW o \in {"done", "fail"}, NEW l, l = <<d, o>>, lists[l].list = Before(l) \o added[l]
    PROVE  /\ Len(lists[l].list) = Len(added[l]) + 3 /\ Len(added[l]) \in Nat
           /\ lists[l].list[1] = Callback("settle", d) /\ lists[l].list[2] = Callback("disable", d)
           /\ lists[l].list[3] = Callback("lock", d)
           /\ Follows(lists[l].list, added[l])
<1>1. added[l] \in Seq(Attached)
  BY Names DEF IInv, ListsInv, ListOK
<1>. DEFINE A == Attached \cup [does : InternalNames, at : Deferreds]
            b == <<Callback("settle", d), Callback("disable", d), Callback("lock", d)>>
            a == added[l]
<1>2. Before(l) = b
  BY DEF Before, Internal
<1>3. b \in Seq(A) /\ Len(b) = 3 /\ a \in Seq(A)
  <2>1. \A name \in InternalNames : Callback(name, d) \in A
    BY DEF Callback
  <2>. HIDE DEF A
  <2>. QED  BY <1>1, <2>1 DEF InternalNames, A
<1>4. b[1] = Callback("settle", d) /\ b[2] = Callback("disable", d) /\ b[3] = Callback("lock", d)
  OBVIOUS
<1>5. lists[l].list = b \o a
  BY <1>2
<1>. HIDE DEF A, b, a
<1>6. Len(b \o a) = Len(b) + Len(a) /\ Len(a) \in Nat /\ (\A i \in 1..Len(b) : (b \o a)[i] = b[i])
      /\ \A i \in 1..Len(a) : (b \o a)[Len(b) + i] = a[i]
  <2>1. b \in Seq(A) /\ a \in Seq(A)
    BY <1>3
  <2>. QED  BY <2>1, Joined
<1>7. Len(b) + Len(a) = Len(a) + 3 /\ 1 \in 1..Len(b) /\ 2 \in 1..Len(b) /\ 3 \in 1..Len(b)
  BY <1>3, <1>6
<1>8. Follows(b \o a, a)
  BY <1>3, <1>6 DEF Follows
<1>. QED  BY <1>3, <1>4, <1>5, <1>6, <1>7, <1>8 DEF a

\* A list at its own callbacks has called none of the page's.
LEMMA Excluded ==
    ASSUME IInv, NEW d \in Deferreds, NEW o \in {"done", "fail"}, NEW l, l = <<d, o>>, Prep(l)
    PROVE  ~ Over(l)
<1>1. Len(lists[l].list) = Len(added[l]) + 3 /\ Len(added[l]) \in Nat
  BY OwnFirst DEF Prep
<1>2. lists[l].index \in 0..2 /\ Running(l) = 0 /\ called[l] = << >> /\ lists[l].firing /\ TopIs("loop", l)
  BY DEF Prep, Running
<1>3. In(todo, "loop", l)
  BY <1>2, Looping DEF TopIs
<1>4. ~ Calling(l)
  <2>1. SUFFICES ASSUME Calling(l) PROVE FALSE
    OBVIOUS
  <2>2. Len(added[l]) - Len(called[l]) = Len(lists[l].list) - (lists[l].index + Running(l))
    BY <2>1 DEF Calling
  <2>3. Len(called[l]) = 0
    BY <1>2
  <2>. QED  BY <1>1, <1>2, <2>2, <2>3
<1>. QED  BY <1>2, <1>3, <1>4 DEF Over, Rest, Stuck

\* The ready event's list, once it has fired.
LEMMA DoneListIs ==
    ASSUME IInv, ~ Fresh(DoneList)
    PROVE  /\ Prep(DoneList) \/ Over(DoneList)
           /\ Over(DoneList) => settled[Doc] = "resolved"
           /\ HasFired(DoneList) /\ isReady
<1>1. Turning(Doc, "done") \/ Turned(Doc, "done")
  BY DocIs DEF Open, DoneList
<1>2. Prep(DoneList) \/ Over(DoneList)
  BY <1>1 DEF Turning, Turned, DoneList
<1>3. HasFired(DoneList)
  BY <1>2 DEF Prep, Over, Rest, Calling, Stuck
<1>4. Turned(Doc, "done") => settled[Doc] = "resolved"
  BY DEF Turned, StateOf
<1>5. ~ (Prep(DoneList) /\ Over(DoneList))
  BY Names, Excluded DEF DoneList
<1>6. isReady
  <2>1. settled[Doc] # "pending" \/ In(todo, "loop", DoneList) => isReady
    BY DEF IInv, ReadyInv, ReadyEvents
  <2>2. TopIs("loop", DoneList) => In(todo, "loop", DoneList)
    BY Looping DEF TopIs
  <2>. QED  BY <1>1, <1>4, <2>1, <2>2 DEF Turning, Prep, DoneList
<1>. QED  BY <1>1, <1>2, <1>3, <1>4, <1>5, <1>6 DEF Turning, DoneList

\* A step about one list keeps the ready event's invariant.
LEMMA ReadyMoves ==
    ASSUME IInv, NEW op \in ListOps, On(op), NEW l, Top.at = l, Moves(l), ready' = ready, settled'[Doc] # "rejected",
           l # DoneList => settled'[Doc] = settled[Doc],
           l = DoneList =>
              \/ isReady /\ (settled'[Doc] = "resolved" \/ TopIs("loop", DoneList)')
              \/ /\ op = "add" /\ settled'[Doc] = settled[Doc]
                 /\ In(todo', "loop", DoneList) => In(todo, "loop", DoneList)
    PROVE  ReadyInv'
<1>1. ~ On("ready") /\ ~ On("ready")' /\ ReadyInv
  BY DEF On, ListOps, Moves, IInv
<1>2. UNCHANGED <<readyState, calledBy, readyList, isReady, readyWait, held>>
  BY DEF ready
<1>3. ~ TopReady(TRUE) /\ ~ TopReady(FALSE) /\ ~ TopReady(TRUE)' /\ ~ TopReady(FALSE)'
  BY <1>1 DEF TopReady
<1>4. CASE l # DoneList
  <2>1. ~ TopIs("fire", DoneList) /\ ~ TopIs("loop", DoneList) /\ (In(todo', "loop", DoneList) => In(todo, "loop", DoneList))
    BY <1>4 DEF TopIs, Moves
  <2>2. In(todo', "fire", DoneList) => In(todo, "fire", DoneList)
    BY DEF Moves
  <2>. QED  BY <1>1, <1>4, <2>1, <2>2, ReadyKept
<1>5. CASE op = "add" /\ settled'[Doc] = settled[Doc] /\ (In(todo', "loop", DoneList) => In(todo, "loop", DoneList))
  <2>1. ~ TopIs("fire", DoneList) /\ ~ TopIs("loop", DoneList)
    BY <1>5 DEF TopIs, On
  <2>2. In(todo', "fire", DoneList) => In(todo, "fire", DoneList)
    BY DEF Moves
  <2>. QED  BY <1>1, <1>5, <2>1, <2>2, ReadyKept
<1>6. CASE isReady /\ (settled'[Doc] = "resolved" \/ TopIs("loop", DoneList)')
  <2>1. ReadyCounts'
    BY <1>1, <1>2, <1>3 DEF ReadyInv, ReadyCounts
  <2>2. ReadyEvents'
    BY <1>1, <1>2, <1>3, <1>6 DEF ReadyInv, ReadyEvents
  <2>. QED  BY <2>1, <2>2 DEF ReadyInv
<1>. QED  BY <1>4, <1>5, <1>6

\* The step is about the page's own list.
LEMMA PageListStep ==
    ASSUME IInv, NEW op \in ListOps, On(op), Top.at = PageList, Moves(PageList),
           NEW v, NEW a, NEW c, Touches(PageList, v, a, c), ListOK(PageList)', PageOK'
    PROVE  IInv'
<1>1. PageList # DoneList /\ Doc \in Deferreds
  BY Names
<1>2. settled' = settled /\ UNCHANGED <<lost, ajax, page>>
  BY DEF Touches
<1>3. ReadyInv'
  BY <1>1, <1>2, ReadyMoves, MovesKeep, DocIs
<1>4. ListsInv'
  BY <1>2, Touching, OnlyPageList DEF IInv
<1>. QED  BY <1>2, <1>3, <1>4, MovesKeep DEF IInv

\* It is about a list that tells, and no deferred takes its outcome.
LEMMA ToldStep ==
    ASSUME IInv, NEW op \in ListOps, On(op), NEW l \in Told, Top.at = l, Moves(l),
           NEW v, NEW a, NEW c, Touches(l, v, a, c), ListOK(l)', TellsOnce(l)', l[2] # "complete" => ~ Prep(l),
           Fresh(l) => Fresh(l)' \/ (l[2] = "complete" /\ Over(l)'), Gone(l) => Gone(l)', Over(l) => Over(l)',
           Fresh(l) /\ l = DoneList => op = "add" /\ ~ In(todo', "loop", l)
    PROVE  IInv'
<1>1. settled' = settled /\ UNCHANGED <<lost, ajax, page>>
  BY DEF Touches
<1>2. ReadyInv'
  <2>1. l = DoneList /\ ~ Fresh(l) => isReady /\ settled'[Doc] = "resolved"
    BY <1>1, DoneListIs DEF DoneList
  <2>2. settled'[Doc] # "rejected" /\ settled'[Doc] = settled[Doc] /\ ready' = ready
    BY <1>1, DocIs, MovesKeep
  <2>. QED  BY <2>1, <2>2, ReadyMoves
<1>3. ListsInv'
  <2>1. /\ \A k \in Lists : k # l => Same(k)
        /\ lists' = [k \in Lists |-> lists'[k]]
        /\ added' = [k \in Lists |-> added'[k]] /\ called' = [k \in Lists |-> called'[k]]
    BY Touching
  <2>. QED  BY <1>1, <2>1, OneToldList DEF IInv
<1>. QED  BY <1>1, <1>2, <1>3, MovesKeep DEF IInv

\* A function is itself, changed to what it is.
LEMMA SameAt ==
    ASSUME IInv, NEW l \in Lists
    PROVE  /\ lists = [lists EXCEPT ![l] = lists[l]]
           /\ added = [added EXCEPT ![l] = added[l]] /\ called = [called EXCEPT ![l] = called[l]]
<1>1. /\ lists = [m \in Lists |-> lists[m]]
      /\ added = [m \in Lists |-> added[m]] /\ called = [m \in Lists |-> called[m]]
  BY DEF IInv, ListsInv
<1>. QED  BY <1>1

\* What the invariant says of the page's own list.
LEMMA PageIs ==
    ASSUME IInv
    PROVE  /\ PageList \in Lists /\ lists[PageList] \in Closures(Attached) /\ ListOK(PageList) /\ PageOK
           /\ lists[PageList].list \in Seq(Attached) /\ Len(lists[PageList].list) \in Nat
           /\ lists[PageList].index \in Int /\ lists[PageList].index >= -1 /\ lists[PageList].length \in Nat
           /\ called[PageList] \in Seq(Attached) /\ added[PageList] \in Seq(Attached)
           /\ lists[PageList].firing => Len(lists[PageList].list) <= lists[PageList].length
           /\ In(todo, "loop", PageList) => lists[PageList].firing
           /\ lists[PageList].gone \in BOOLEAN /\ lists[PageList].firing \in BOOLEAN
           /\ Elems(lists[PageList].list) \subseteq Elems(added[PageList])
<1>1. ListOK(PageList) /\ PageOK /\ PageList \in Lists
  BY Names DEF IInv, ListsInv
<1>2. Members(PageList) = Attached
  BY DEF Members
<1>3. \A f \in Attached : f.does \notin InternalNames
  BY DEF Attached, Own, InternalNames
<1>4. lists[PageList].list \in Seq(Attached) /\ lists[PageList] \in Closures(Attached)
  BY <1>1, <1>2 DEF ListOK, Closures
<1>5. \A f \in Elems(lists[PageList].list) : f \in Attached
  BY <1>4 DEF Elems
<1>. QED  BY <1>1, <1>3, <1>4, <1>5 DEF ListOK, Closures

\* The list is left as it was, or is empty, and nothing is under way but what was.
LEMMA StepEmpty ==
    ASSUME IInv, DoEmpty, UNCHANGED <<ajax, page>> PROVE IInv'
<1>. DEFINE l == PageList
            v == Emptied(lists[l])
<1>1. Shape(todo) /\ todo # << >> /\ Top.op = "empty" /\ Top.at = l /\ On("empty") /\ "empty" \in ListOps
  BY ListFrame DEF DoEmpty, FrameOK, ListOps
<1>2. todo' = Tail(todo)
  BY <1>1, Tops, Joining DEF DoEmpty, Instead, Top
<1>3. Touches(l, v, added[l], << >>)
  BY <1>1, SameAt, PageIs DEF DoEmpty, Touches
<1>4. Moves(l) /\ ~ On("loop")' /\ (In(todo', "loop", l) <=> In(todo, "loop", l))
  BY <1>1, <1>2, PopMoves
<1>5. /\ v \in Closures(Attached) /\ v.list = << >>
      /\ v.flags = lists[l].flags /\ v.firing = lists[l].firing /\ v.index = lists[l].index /\ v.length = lists[l].length
      /\ v.firing => v.emptied
  BY PageIs, EmptiedIs
<1>6. lists'[l] = v /\ added'[l] = added[l] /\ called'[l] = << >>
  BY <1>1, <1>3, <1>4, Touching
<1>. HIDE DEF v, l
<1>7. ListOK(l)'
  BY <1>4, <1>5, <1>6, PageIs DEF ListOK, TopIs, Elems, Members, l, Closures
<1>8. PageOK'
  BY <1>5, <1>6 DEF PageOK, Once, Elems, l
<1>. QED  BY <1>1, <1>3, <1>4, <1>7, <1>8, PageListStep DEF l

\* disable.
LEMMA StepDisable ==
    ASSUME IInv, DoDisable, UNCHANGED <<ajax, page>> PROVE IInv'
<1>. DEFINE l == PageList
            v == Disabled(lists[l])
<1>1. Shape(todo) /\ todo # << >> /\ Top.op = "disable" /\ Top.at = l /\ On("disable") /\ "disable" \in ListOps
  BY ListFrame DEF DoDisable, FrameOK, ListOps
<1>2. todo' = Tail(todo)
  BY <1>1, Tops, Joining DEF DoDisable, Instead, Top
<1>3. Touches(l, v, added[l], called[l])
  BY <1>1, SameAt, PageIs DEF DoDisable, Touches, histories
<1>4. Moves(l) /\ ~ On("loop")' /\ (In(todo', "loop", l) <=> In(todo, "loop", l))
  BY <1>1, <1>2, PopMoves
<1>5. /\ v \in Closures(Attached) /\ v.list = << >> /\ v.gone
      /\ v.flags = lists[l].flags /\ v.firing = lists[l].firing /\ v.index = lists[l].index /\ v.length = lists[l].length
  BY PageIs, DisabledIs
<1>6. lists'[l] = v /\ added'[l] = added[l] /\ called'[l] = called[l]
  BY <1>1, <1>3, <1>4, Touching
<1>. HIDE DEF v, l
<1>7. ListOK(l)'
  BY <1>4, <1>5, <1>6, PageIs DEF ListOK, TopIs, Elems, Members, l, Closures
<1>8. PageOK'
  BY <1>5, <1>6 DEF PageOK, l
<1>. QED  BY <1>1, <1>3, <1>4, <1>7, <1>8, PageListStep DEF l

\* lock.
LEMMA StepLock ==
    ASSUME IInv, DoLock, UNCHANGED <<ajax, page>> PROVE IInv'
<1>. DEFINE l == PageList
            v == Locked(lists[l])
<1>1. Shape(todo) /\ todo # << >> /\ Top.op = "lock" /\ Top.at = l /\ On("lock") /\ "lock" \in ListOps
  BY ListFrame DEF DoLock, FrameOK, ListOps
<1>2. todo' = Tail(todo)
  BY <1>1, Tops, Joining DEF DoLock, Instead, Top
<1>3. Touches(l, v, added[l], called[l])
  BY <1>1, SameAt, PageIs DEF DoLock, Touches, histories
<1>4. Moves(l) /\ ~ On("loop")' /\ (In(todo', "loop", l) <=> In(todo, "loop", l))
  BY <1>1, <1>2, PopMoves
<1>5. /\ v \in Closures(Attached)
      /\ v.flags = lists[l].flags /\ v.firing = lists[l].firing /\ v.index = lists[l].index /\ v.length = lists[l].length
      /\ \/ v.list = << >> /\ v.gone
         \/ v.list = lists[l].list /\ v.gone = lists[l].gone /\ v.emptied = lists[l].emptied /\ v.memory = lists[l].memory
  BY PageIs, LockedIs
<1>6. lists'[l] = v /\ added'[l] = added[l] /\ called'[l] = called[l]
  BY <1>1, <1>3, <1>4, Touching
<1>9. ~ TopIs("loop", l) /\ ~ TopIs("loop", l)'
  BY <1>1, <1>4 DEF TopIs, On
<1>. HIDE DEF v, l
<1>7. ListOK(l)'
  <2>1. Elems(v.list) \subseteq Elems(added[l]) /\ (v.firing => Len(v.list) <= v.length)
    <3>1. Elems(<< >>) = {} /\ Len(<< >>) = 0
      BY DEF Elems
    <3>2. /\ (lists[l].firing => Len(lists[l].list) <= lists[l].length) /\ lists[l].length \in Nat
          /\ Elems(lists[l].list) \subseteq Elems(added[l])
      BY PageIs DEF l
    <3>. QED  BY <1>5, <3>1, <3>2
  <2>. QED  BY <1>4, <1>5, <1>6, <1>9, <2>1, PageIs DEF ListOK, Members, l
<1>8. PageOK'
  <2>1. CASE v.list = << >> /\ v.gone
    BY <1>6, <2>1 DEF PageOK, l
  <2>2. CASE v.list = lists[l].list /\ v.gone = lists[l].gone /\ v.emptied = lists[l].emptied /\ v.memory = lists[l].memory
    <3>1. Running(l) = 1 /\ Running(l)' = 1
      BY <1>9 DEF Running
    <3>. QED  BY <1>4, <1>5, <1>6, <1>9, <2>2, <3>1, PageIs DEF PageOK, l
  <2>. QED  BY <1>5, <2>1, <2>2
<1>. QED  BY <1>1, <1>3, <1>4, <1>7, <1>8, PageListStep DEF l

\* One occurrence of a callback goes: a loop under way has passed it or not.
LEMMA StepRemove ==
    ASSUME IInv, DoRemove, UNCHANGED <<ajax, page>> PROVE IInv'
<1>. DEFINE l == PageList
            r == lists[l]
            f == Top.arg
            i == FirstOf(r.list, f)
            v == Removed(r, i)
            C == called[l]
            c == IF f \in Elems(C) THEN Dropped(C, FirstOf(C, f)) ELSE C
            n == Len(r.list)
            x == r.index
            old(k) == IF k < i THEN k ELSE k + 1
<1>1. Shape(todo) /\ todo # << >> /\ Top.op = "remove" /\ Top.at = l /\ On("remove") /\ "remove" \in ListOps
  BY ListFrame DEF DoRemove, FrameOK, ListOps
<1>2. CASE r.gone \/ ~ Has(r, f)
  <2>1. todo' = Tail(todo)
    BY <1>1, <1>2, Tops, Joining DEF DoRemove, Instead, Top
  <2>2. Rest3
    BY <1>1, <1>2, RqIs DEF DoRemove, Rest3, histories, ajax, page
  <2>. QED  BY <1>1, <2>1, <2>2, QuietPop DEF Kinds, Counts, Life, Ends
<1>3. CASE ~ r.gone /\ Has(r, f)
  <2>1. Touches(l, v, added[l], c) /\ todo' = todo
    BY <1>1, <1>3, SameAt, PageIs DEF DoRemove, Touches
  <2>2. Moves(l) /\ ~ On("loop")' /\ ~ On("loop")
    BY <1>1, <2>1, StayMoves DEF On
  <2>3. lists'[l] = v /\ added'[l] = added[l] /\ called'[l] = c
    BY <1>1, <2>1, <2>2, Touching
  <2>4. /\ r \in Closures(Attached) /\ r.list \in Seq(Attached) /\ C \in Seq(Attached) /\ n \in Nat /\ x \in Int /\ x >= -1
        /\ (r.firing => n <= r.length) /\ r.length \in Nat /\ Elems(r.list) \subseteq Elems(added[l]) /\ r.firing \in BOOLEAN
    BY PageIs
  <2>5. i \in DOMAIN r.list /\ r.list[i] = f
    <3>1. f \in Elems(r.list)
      BY <1>3 DEF Has
    <3>. QED  BY <2>4, <3>1, FirstIs
  <2>6. /\ v \in Closures(Attached) /\ v.flags = r.flags /\ v.gone = r.gone /\ v.firing = r.firing
        /\ v.emptied = r.emptied /\ v.memory = r.memory /\ v.list = Dropped(r.list, i)
        /\ v.length = (IF r.firing THEN r.length - 1 ELSE r.length)
        /\ v.index = (IF r.firing /\ i - 1 <= r.index THEN r.index - 1 ELSE r.index)
    BY <2>4, <2>5, RemovedIs
  <2>7. /\ v.list \in Seq(Attached) /\ Len(v.list) = n - 1 /\ DOMAIN v.list = 1..(n - 1) /\ i \in 1..n /\ DOMAIN r.list = 1..n
        /\ \A k \in 1..(n - 1) : v.list[k] = IF k < i THEN r.list[k] ELSE r.list[k + 1]
    <3>1. /\ Dropped(r.list, i) \in Seq(Attached) /\ Len(Dropped(r.list, i)) = n - 1
          /\ DOMAIN Dropped(r.list, i) = 1..(n - 1)
          /\ \A k \in 1..(n - 1) : Dropped(r.list, i)[k] = IF k < i THEN r.list[k] ELSE r.list[k + 1]
      BY <2>4, <2>5, DroppedIs
    <3>2. i \in 1..n /\ DOMAIN r.list = 1..n
      BY <2>4, <2>5
    <3>3. v.list = Dropped(r.list, i)
      BY <2>6
    <3>. HIDE DEF v, i
    <3>. QED  BY <3>1, <3>2, <3>3
  <2>8. c \in Seq(Attached)
    <3>1. f \in Elems(C) => FirstOf(C, f) \in DOMAIN C
      BY <2>4, FirstIs
    <3>2. f \in Elems(C) => Dropped(C, FirstOf(C, f)) \in Seq(Attached)
      BY <2>4, <3>1, DroppedIs
    <3>. QED  BY <2>4, <3>2
  <2>9. ~ TopIs("loop", l) /\ ~ TopIs("loop", l)' /\ Running(l) = 1 /\ Running(l)' = 1
        /\ (In(todo', "loop", l) <=> In(todo, "loop", l))
    BY <2>1, <2>2 DEF TopIs, Running
  <2>10. \A k \in 1..(n - 1) : old(k) \in 1..n /\ old(k) # i /\ v.list[k] = r.list[old(k)]
    BY <2>4, <2>7
  <2>. DEFINE y == IF r.firing /\ i - 1 <= x THEN x - 1 ELSE x
  <2>11. /\ y \in Int /\ y >= -1
         /\ r.firing => \A k \in 1..(n - 1) : /\ k > y + 1 => old(k) > x + 1
                                              /\ k <= y => old(k) <= x
                                              /\ k = y + 1 => old(k) <= x \/ old(k) = x + 1
         /\ r.firing /\ x + 1 <= n => y + 1 <= n - 1
    <3>1. n \in Nat /\ i \in 1..n /\ x \in Int /\ x >= -1
      BY <2>4, <2>7
    <3>. HIDE DEF n, i, x
    <3>2. CASE r.firing /\ i - 1 <= x
      <4>1. y = x - 1
        BY <3>2
      <4>. HIDE DEF y
      <4>. QED  BY <3>1, <3>2, <4>1
    <3>3. CASE ~ (r.firing /\ i - 1 <= x)
      <4>1. y = x
        BY <3>3
      <4>. HIDE DEF y
      <4>. QED  BY <3>1, <3>3, <4>1
    <3>. QED  BY <3>2, <3>3
  <2>. HIDE DEF v, c, old, i, f, C
  <2>12. ListOK(l)'
    <3>1. v.firing => Len(v.list) <= v.length
      BY <2>4, <2>6, <2>7
    <3>2. v.index >= -1
      BY <2>6, <2>11
    <3>3. \A g \in Elems(v.list) : g \in Elems(r.list)
      <4>1. TAKE g \in Elems(v.list)
      <4>2. PICK k \in 1..(n - 1) : v.list[k] = g
        BY <2>7 DEF Elems
      <4>3. old(k) \in DOMAIN r.list /\ r.list[old(k)] = g
        BY <2>7, <2>10, <4>2
      <4>. QED  BY <4>3 DEF Elems
    <3>4. In(todo, "loop", l) => r.firing
      BY PageIs
    <3>5. r.flags = FlagsOf(l) /\ added[l] \in Seq(Attached)
      BY PageIs DEF ListOK
    <3>. HIDE DEF n, x
    <3>. QED  BY <2>3, <2>4, <2>6, <2>8, <2>9, <3>1, <3>2, <3>3, <3>4, <3>5 DEF ListOK, Members
  <2>13. PageOK'
    <3>. SUFFICES ASSUME "unique" \in r.flags PROVE PageOK'
      BY <2>3, <2>6 DEF PageOK
    <3>. DEFINE s == Elems(C)
    <3>1. /\ Once(r.list) /\ Once(C) /\ s \subseteq Elems(r.list)
          /\ r.firing => \A k \in 1..n : k > x + 1 => r.list[k] \notin s
          /\ r.firing /\ ~ r.emptied =>
                /\ r.length = n
                /\ \A k \in 1..n : k <= x => r.list[k] \in s
                /\ x + 1 <= n
                /\ \A k \in 1..n : k = x + 1 /\ In(todo, "loop", l) => r.list[k] \in s
          /\ ~ r.firing /\ ~ r.emptied /\ r.memory # Nothing => \A k \in 1..n : r.list[k] \in s
      BY <1>3, <2>7, <2>9, PageIs DEF PageOK, C
    <3>2. Once(v.list) /\ Elems(v.list) = Elems(r.list) \ {f}
      BY <2>4, <2>5, <2>6, <3>1, DroppedOnce
    <3>3. Once(c) /\ Elems(c) = s \ {f}
      <4>1. CASE f \in Elems(C)
        <5>1. FirstOf(C, f) \in DOMAIN C /\ C[FirstOf(C, f)] = f
          BY <2>4, <4>1, FirstIs
        <5>2. c = Dropped(C, FirstOf(C, f))
          BY <4>1 DEF c
        <5>. QED  BY <2>4, <3>1, <5>1, <5>2, DroppedOnce
      <4>2. CASE f \notin Elems(C)
        BY <3>1, <4>2 DEF c
      <4>. QED  BY <4>1, <4>2
    <3>. HIDE DEF s
    <3>4. \A k \in 1..(n - 1) : v.list[k] # f /\ (v.list[k] \in Elems(c) <=> v.list[k] \in s)
      <4>1. \A k \in 1..(n - 1) : v.list[k] \in Elems(v.list)
        BY <2>7 DEF Elems
      <4>. QED  BY <3>2, <3>3, <4>1
    <3>5. r.firing => \A k \in 1..(n - 1) : k > y + 1 => v.list[k] \notin Elems(c)
      BY <2>10, <2>11, <3>1, <3>4
    <3>6. r.firing /\ ~ r.emptied =>
             /\ v.length = n - 1 /\ y + 1 <= n - 1
             /\ \A k \in 1..(n - 1) : k <= y => v.list[k] \in Elems(c)
             /\ \A k \in 1..(n - 1) : k = y + 1 /\ In(todo, "loop", l) => v.list[k] \in Elems(c)
      <4>1. HAVE r.firing /\ ~ r.emptied
      <4>2. v.length = n - 1 /\ y + 1 <= n - 1
        BY <2>6, <2>11, <3>1, <4>1
      <4>3. \A k \in 1..(n - 1) : k <= y => v.list[k] \in Elems(c)
        BY <2>10, <2>11, <3>1, <3>4, <4>1
      <4>4. \A k \in 1..(n - 1) : k = y + 1 /\ In(todo, "loop", l) => v.list[k] \in Elems(c)
        BY <2>10, <2>11, <3>1, <3>4, <4>1
      <4>. QED  BY <4>2, <4>3, <4>4
    <3>7. ~ r.firing /\ ~ r.emptied /\ r.memory # Nothing => \A k \in 1..(n - 1) : v.list[k] \in Elems(c)
      BY <2>10, <3>1, <3>4
    <3>8. v.index = y
      BY <2>6
    <3>. HIDE DEF n, x, y
    <3>. DEFINE m == n - 1
    <3>9. Len(v.list) = m /\ DOMAIN v.list = 1..m
      BY <2>7
    <3>10. Elems(c) \subseteq Elems(v.list)
      BY <3>1, <3>2, <3>3
    <3>. HIDE DEF m
    <3>. QED  BY <2>3, <2>6, <2>9, <3>2, <3>3, <3>5, <3>6, <3>7, <3>8, <3>9, <3>10 DEF PageOK, m
  <2>. QED  BY <1>1, <2>1, <2>2, <2>12, <2>13, PageListStep
<1>. QED  BY <1>2, <1>3

----------------------------------------------------------------------------
(* fire *)

\* A list that tells, and what it may be in the middle of.
LEMMA ToldNow ==
    ASSUME IInv, NEW l \in Told
    PROVE  /\ l \in Lists /\ l # PageList /\ l[1] \in Deferreds /\ ListOK(l) /\ TellsOnce(l)
           /\ lists[l] \in Closures(Attached \cup [does : InternalNames, at : Deferreds])
           /\ lists[l].flags = {"once", "memory"}
           /\ lists[l].list \in Seq(Attached \cup [does : InternalNames, at : Deferreds])
           /\ added[l] \in Seq(Attached) /\ called[l] \in Seq(Attached)
           /\ \/ Fresh(l) \/ Gone(l) \/ Over(l)
              \/ \E d \in Deferreds, o \in {"done", "fail"} : l = <<d, o>> /\ Turning(d, o)
           /\ l[2] = "complete" => Fresh(l) \/ Over(l)
<1>1. l \in Lists /\ l # PageList /\ l[1] \in Deferreds /\ ListOK(l) /\ TellsOnce(l)
  BY Names DEF IInv, ListsInv
<1>2. ASSUME NEW d \in Deferreds, NEW o \in {"done", "fail"}, l = <<d, o>>
      PROVE  FlagsOf(l) = {"once", "memory"} /\ (Fresh(l) \/ Gone(l) \/ Over(l) \/ Turning(d, o))
  <2>1. DeferredOK(d) /\ FlagsOf(l) = {"once", "memory"}
    BY <1>2 DEF IInv, ListsInv, FlagsOf
  <2>2. \A p \in {"done", "fail"} : p # o => Other(p) = o
    BY <1>2 DEF Other
  <2>. QED  BY <1>2, <2>1, <2>2 DEF DeferredOK, Open, Turning, Turned
<1>3. ASSUME NEW q \in Requests, l = <<q, "complete">>
      PROVE  FlagsOf(l) = {"once", "memory"} /\ (Fresh(l) \/ Over(l))
  BY <1>3, ListsAssumption DEF IInv, ListsInv, CompleteOK, FlagsOf
<1>4. \/ \E d \in Deferreds, o \in {"done", "fail"} : l = <<d, o>>
      \/ \E q \in Requests : l = <<q, "complete">>
  BY DEF Told
<1>5. FlagsOf(l) = {"once", "memory"} /\ (l[2] = "complete" => Fresh(l) \/ Over(l))
      /\ (Fresh(l) \/ Gone(l) \/ Over(l) \/ \E d \in Deferreds, o \in {"done", "fail"} : l = <<d, o>> /\ Turning(d, o))
  <2>1. CASE \E d \in Deferreds, o \in {"done", "fail"} : l = <<d, o>>
    <3>1. PICK d \in Deferreds, o \in {"done", "fail"} : l = <<d, o>>
      BY <2>1
    <3>2. l[2] # "complete"
      BY <3>1
    <3>. QED  BY <1>2, <3>1, <3>2
  <2>2. CASE \E q \in Requests : l = <<q, "complete">>
    BY <1>3, <2>2
  <2>. QED  BY <1>4, <2>1, <2>2
<1>6. Members(l) = Attached \cup [does : InternalNames, at : Deferreds]
  BY <1>1 DEF Members
<1>7. lists[l] \in Closures(Members(l)) /\ lists[l].flags = FlagsOf(l) /\ added[l] \in Seq(Attached) /\ called[l] \in Seq(Attached)
  BY <1>1 DEF ListOK
<1>8. lists[l].list \in Seq(Members(l))
  BY <1>7 DEF Closures
<1>. QED  BY <1>1, <1>5, <1>6, <1>7, <1>8

\* The step is about the three lists of one deferred.
LEMMA OneDeferred ==
    ASSUME ListsInv, NEW d \in Deferreds,
           \A m \in Lists : m \in {<<d, "done">>, <<d, "fail">>, <<d, "progress">>} \/ Same(m),
           settled' \in [Deferreds -> {"pending", "resolved", "rejected"}],
           \A e \in Deferreds : e # d => settled'[e] = settled[e],
           lists' = [m \in Lists |-> lists'[m]],
           added' = [m \in Lists |-> added'[m]], called' = [m \in Lists |-> called'[m]],
           \A name \in {"done", "fail", "progress"} : ListOK(<<d, name>>)',
           \A name \in {"done", "fail"} : TellsOnce(<<d, name>>)',
           DeferredOK(d)'
    PROVE  ListsInv'
<1>. DEFINE M == {<<d, "done">>, <<d, "fail">>, <<d, "progress">>}
<1>1. \A m \in Lists : m \notin M => Same(m)
  OBVIOUS
<1>2. \A m \in M : ListOK(m)'
  OBVIOUS
<1>3. PageList \notin M /\ (\A r \in Requests : <<r, "complete">> \notin M) /\ <<d, "progress">> \notin Told
      /\ \A e \in Deferreds, name \in {"done", "fail"} : e # d => <<e, name>> \notin M
  BY Names
<1>4. \A m \in M \cap Told : TellsOnce(m)'
  BY <1>3
<1>. HIDE DEF M
<1>5. \A m \in Lists : ListOK(m)'
  BY <1>1, <1>2, SameList DEF ListsInv
<1>6. \A m \in Told : TellsOnce(m)'
  BY <1>1, <1>4, SameList, Names DEF ListsInv
<1>7. \A m \in Lists : m \notin M => (Fresh(m) => Fresh(m)') /\ (Gone(m) => Gone(m)') /\ (Over(m) => Over(m)')
                                     /\ (Prep(m) => Prep(m)' /\ lists'[m] = lists[m])
  BY <1>1, SameList DEF Same
<1>8. ASSUME NEW e \in Deferreds, e # d PROVE DeferredOK(e)'
  <2>1. DeferredOK(e) /\ settled'[e] = settled[e]
    BY <1>8 DEF ListsInv
  <2>2. \A name \in {"done", "fail"} : <<e, name>> \in Lists /\ <<e, name>> \notin M
    BY <1>3, <1>8, Names
  <2>3. Open(e) => Open(e)'
    BY <1>7, <2>1, <2>2 DEF Open
  <2>4. ASSUME NEW o \in {"done", "fail"} PROVE (Turning(e, o) => Turning(e, o)') /\ (Turned(e, o) => Turned(e, o)')
    <3>. DEFINE k == <<e, o>>
                c == <<e, Other(o)>>
    <3>1. k \in Lists /\ c \in Lists /\ k \notin M /\ c \notin M
      BY <2>2 DEF Other
    <3>2. Turning(e, o) => Prep(k)
      BY DEF Turning
    <3>. HIDE DEF k, c
    <3>3. /\ (Fresh(c) => Fresh(c)') /\ (Gone(c) => Gone(c)') /\ (Over(k) => Over(k)')
          /\ (Prep(k) => Prep(k)' /\ lists'[k] = lists[k])
      BY <1>7, <3>1
    <3>. QED  BY <2>1, <3>2, <3>3 DEF Turning, Turned, k, c
  <2>. QED  BY <2>1, <2>3, <2>4 DEF DeferredOK
<1>9. ASSUME NEW r \in Requests PROVE CompleteOK(r)'
  <2>1. CompleteOK(r) /\ <<r, "complete">> \in Lists /\ <<r, "complete">> \notin M
    BY <1>3, Names DEF ListsInv
  <2>. QED  BY <1>7, <2>1 DEF CompleteOK
<1>10. PageOK'
  BY <1>1, <1>3, SameList, Names DEF ListsInv
<1>11. \A e \in Deferreds : DeferredOK(e)'
  BY <1>8
<1>. QED  BY <1>5, <1>6, <1>9, <1>10, <1>11 DEF ListsInv

\* A list starts its loop: what it will call is what is in it.
LEMMA StartedPage ==
    ASSUME IInv, lists'[PageList].list = lists[PageList].list, called'[PageList] = << >>,
           lists'[PageList].flags = lists[PageList].flags, lists'[PageList].gone = lists[PageList].gone,
           lists'[PageList].index = 0, lists'[PageList].firing,
           lists'[PageList].length = Len(lists[PageList].list), TopIs("loop", PageList)'
    PROVE  PageOK'
<1>1. Running(PageList)' = 0
  BY DEF Running
<1>2. Elems(<< >>) = {} /\ Once(<< >>)
  BY DEF Elems, Once
<1>3. "unique" \in lists[PageList].flags /\ ~ lists[PageList].gone => Once(lists[PageList].list)
  BY PageIs DEF PageOK
<1>4. Len(lists[PageList].list) \in Nat /\ DOMAIN lists[PageList].list = 1..Len(lists[PageList].list)
  BY PageIs
<1>. DEFINE n == Len(lists[PageList].list)
<1>5. \A i \in 1..n : ~ (i <= 0)
  BY <1>4
<1>6. 0 + 0 <= n
  BY <1>4
<1>. HIDE DEF n
<1>7. lists'[PageList].length = n /\ Len(lists'[PageList].list) = n /\ DOMAIN lists'[PageList].list = 1..n
  BY <1>4 DEF n
<1>. QED  BY <1>1, <1>2, <1>3, <1>5, <1>6, <1>7 DEF PageOK

\* fire, up to its loop.
LEMMA StepFire ==
    ASSUME IInv, DoFire, UNCHANGED <<ajax, page>> PROVE IInv'
<1>1. PICK l : Top.at = l
  OBVIOUS
<1>. DEFINE r == lists[l]
            a == Top.arg
<1>2. Shape(todo) /\ todo # << >> /\ Top.op = "fire" /\ On("fire") /\ "fire" \in ListOps
      /\ l \in Fires \cup {PageList} /\ l \in Lists /\ a \in Datas /\ a # Nothing
  BY <1>1, ListFrame DEF DoFire, FrameOK, ListOps
<1>3. UNCHANGED <<settled, added, lost>>
  BY DEF DoFire
<1>4. ~ TopIs("loop", l)
  BY <1>2 DEF TopIs, On
<1>5. l \in Told => ~ Prep(l)
  BY <1>4 DEF Prep
<1>6. CASE ~ MayFire(r)
  <2>1. todo' = Tail(todo)
    BY <1>1, <1>2, <1>6, Tops, Joining DEF DoFire, Instead, Top
  <2>2. Touches(l, r, added[l], called[l])
    BY <1>1, <1>2, <1>3, <1>6, SameAt DEF DoFire, Touches
  <2>3. Moves(l) /\ ~ On("loop")' /\ (In(todo', "loop", l) <=> In(todo, "loop", l))
    BY <1>1, <1>2, <2>1, PopMoves
  <2>4. lists'[l] = r /\ added'[l] = added[l] /\ called'[l] = called[l]
    BY <1>1, <1>2, <2>2, <2>3, Touching
  <2>5. Same(l)
    BY <1>4, <2>3, <2>4 DEF Same, TopIs
  <2>6. CASE l = PageList
    <3>1. ListOK(PageList)' /\ PageOK'
      BY <2>5, <2>6, PageIs, SameList
    <3>. QED  BY <1>1, <1>2, <2>2, <2>3, <2>6, <3>1, PageListStep
  <2>7. CASE l \in Told
    <3>1. ~ Fresh(l)
      BY <1>6 DEF Fresh, MayFire
    <3>2. ListOK(l)' /\ TellsOnce(l)' /\ (Gone(l) => Gone(l)') /\ (Over(l) => Over(l)')
      BY <2>5, <2>7, ToldNow, SameList
    <3>. QED  BY <1>1, <1>2, <1>5, <2>2, <2>3, <2>7, <3>1, <3>2, ToldStep
  <2>. QED  BY <1>2, <2>6, <2>7, Names
<1>7. CASE MayFire(r) /\ r.firing
  <2>. DEFINE v == Pushed(r, a)
  <2>1. todo' = Tail(todo)
    BY <1>1, <1>2, <1>7, Tops, Joining DEF DoFire, Instead, Top
  <2>2. Touches(l, v, added[l], called[l])
    BY <1>1, <1>2, <1>3, <1>7, SameAt DEF DoFire, Touches
  <2>3. Moves(l) /\ ~ On("loop")' /\ (In(todo', "loop", l) <=> In(todo, "loop", l))
    BY <1>1, <1>2, <2>1, PopMoves
  <2>4. lists'[l] = v /\ added'[l] = added[l] /\ called'[l] = called[l]
    BY <1>1, <1>2, <2>2, <2>3, Touching
  <2>5. l \notin Told
    <3>1. SUFFICES ASSUME l \in Told PROVE FALSE
      OBVIOUS
    <3>2. r.single /\ ~ Fresh(l) /\ ~ Gone(l)
      BY <1>7, <3>1, ToldNow DEF TellsOnce, Fresh, Gone
    <3>3. Over(l) => r.fired
      BY DEF Over, Rest, Calling, Stuck, HasFired
    <3>. QED  BY <1>4, <1>7, <3>1, <3>2, <3>3, ToldNow DEF Turning, Prep, MayFire
  <2>6. l = PageList
    BY <1>2, <2>5, Names
  <2>7. /\ v \in Closures(Attached)
        /\ v.flags = r.flags /\ v.firing = r.firing /\ v.index = r.index /\ v.length = r.length
        /\ v.list = r.list /\ v.gone = r.gone /\ v.emptied = r.emptied /\ v.memory = r.memory
    BY <1>2, <2>6, PageIs, PushedIs
  <2>8. ~ TopIs("loop", l)'
    BY <2>3 DEF TopIs
  <2>. HIDE DEF v
  <2>9. ListOK(PageList)'
    BY <2>3, <2>4, <2>6, <2>7, <2>8, PageIs DEF ListOK, Members
  <2>10. PageOK'
    <3>1. Running(l) = 1 /\ Running(l)' = 1
      BY <1>4, <2>8 DEF Running
    <3>. QED  BY <1>4, <2>3, <2>4, <2>6, <2>7, <2>8, <3>1, PageIs DEF PageOK
  <2>. QED  BY <1>1, <1>2, <2>2, <2>3, <2>6, <2>9, <2>10, PageListStep
<1>8. CASE MayFire(r) /\ ~ r.firing
  <2>. DEFINE v == Fired(r, a, 0)
  <2>1. todo' = <<Frame("loop", l, Nothing)>> \o Tail(todo)
    BY <1>1, <1>8 DEF DoFire, Instead
  <2>2. Touches(l, v, added[l], << >>)
    BY <1>1, <1>2, <1>3, <1>8, SameAt DEF DoFire, Starts, Touches
  <2>3. ~ In(todo, "loop", l)
    BY <1>2, <1>8 DEF IInv, ListsInv, ListOK
  <2>4. Moves(l) /\ TopIs("loop", l)' /\ In(todo', "loop", l)
    BY <1>1, <1>2, <2>1, <2>3, LoopMoves
  <2>5. lists'[l] = v /\ added'[l] = added[l] /\ called'[l] = << >>
    BY <1>1, <1>2, <2>2, <2>4, Touching
  <2>6. r \in Closures(Members(l)) /\ ListOK(l)
    BY <1>2 DEF IInv, ListsInv, ListOK
  <2>7. /\ v \in Closures(Members(l)) /\ v.flags = r.flags /\ v.gone = r.gone /\ v.stack = r.stack /\ v.single = r.single
        /\ v.list = r.list /\ v.fired /\ v.firing /\ v.index = 0 /\ v.length = Len(r.list)
        /\ "memory" \in r.flags => v.memory = a
    BY <1>2, <2>6, FiredIs
  <2>. HIDE DEF v
  <2>8. Len(r.list) \in Nat
    BY <2>6 DEF Closures
  <2>9. ListOK(l)'
    <3>1. v.length >= Len(v.list) /\ v.index >= -1 /\ v.index >= 0 /\ << >> \in Seq(Attached)
      BY <2>7, <2>8
    <3>. QED  BY <2>4, <2>5, <2>6, <2>7, <3>1 DEF ListOK
  <2>10. CASE l = PageList
    <3>1. PageOK'
      BY <2>4, <2>5, <2>7, <2>10, StartedPage
    <3>. QED  BY <1>1, <1>2, <2>2, <2>4, <2>9, <2>10, <3>1, PageListStep
  <2>11. CASE l \in Told
    <3>1. r.flags = {"once", "memory"} /\ TellsOnce(l) /\ r.single
      BY <2>11, ToldNow DEF TellsOnce
    <3>2. Fresh(l)
      <4>1. ~ r.gone /\ ~ r.fired
        BY <1>8, <3>1 DEF MayFire
      <4>2. ~ Gone(l) /\ ~ Over(l)
        BY <4>1 DEF Gone, Over, Rest, Calling, Stuck, HasFired
      <4>. QED  BY <1>5, <2>11, <4>2, ToldNow DEF Turning
    <3>3. TellsOnce(l)'
      BY <2>5, <2>7, <3>1 DEF TellsOnce
    <3>4. HasFired(l)' /\ lists'[l].firing /\ lists'[l].index = 0 /\ lists'[l].length = Len(lists'[l].list)
          /\ lists'[l].list = Before(l) \o added'[l]
      BY <1>2, <2>5, <2>7, <3>1, <3>2 DEF HasFired, Fresh
    <3>5. CASE \E q \in Requests : l = <<q, "complete">>
      <4>1. l[2] = "complete" /\ l # DoneList
        BY <3>5 DEF DoneList
      <4>2. Before(l) = << >>
        BY <4>1 DEF Before
      <4>3. lists'[l].list = added'[l]
        BY <2>5, <2>11, <3>4, <4>2, ToldNow
      <4>4. Running(l)' = 0
        BY <2>4 DEF Running
      <4>5. Calling(l)'
        <5>. DEFINE n == Len(added'[l])
        <5>1. n \in Nat /\ Len(<< >>) = 0
          BY <2>5, <2>11, ToldNow
        <5>2. Prefix(l)'
          BY <2>5, <5>1 DEF Prefix
        <5>3. 0 + 0 \in 0..n /\ n - 0 = n - (0 + 0) /\ \A k \in 1..(n - (0 + 0)) : 0 + 0 + k = k /\ 0 + k = k
          BY <5>1
        <5>4. Len(lists'[l].list) = n /\ Len(called'[l]) = 0
          BY <2>5, <4>3
        <5>. HIDE DEF n
        <5>. QED  BY <2>4, <3>4, <4>3, <4>4, <5>1, <5>2, <5>3, <5>4 DEF Calling, n
      <4>6. ~ Over(l) /\ ~ Gone(l)
        BY <3>2 DEF Gone, Over, Rest, Calling, Stuck, HasFired, Fresh
      <4>. QED  BY <1>1, <1>2, <1>5, <2>2, <2>4, <2>9, <2>11, <3>3, <4>1, <4>5, <4>6, ToldStep DEF Over
    <3>6. CASE \E d \in Deferreds, o \in {"done", "fail"} : l = <<d, o>>
      <4>1. PICK d \in Deferreds, o \in {"done", "fail"} : l = <<d, o>>
        BY <3>6
      <4>2. Open(d)
        <5>1. \A p \in {"done", "fail"} : ~ TopIs("loop", <<d, p>>)
          BY <1>2 DEF TopIs, On
        <5>2. ~ Gone(l) /\ ~ Over(l)
          BY <3>2 DEF Gone, Over, Rest, Calling, Stuck, HasFired, Fresh
        <5>3. \A p \in {"done", "fail"} : p = o \/ Other(p) = o
          BY DEF Other
        <5>. QED  BY <4>1, <5>1, <5>2, <5>3 DEF IInv, ListsInv, DeferredOK, Turning, Turned, Prep
      <4>. DEFINE e == <<d, Other(o)>>
      <4>3. e \in Lists /\ e # l /\ <<d, "progress">> \in Lists /\ <<d, "progress">> # l /\ e \in Told
        BY <4>1, Names DEF Other
      <4>4. /\ \A m \in Lists : m # l => Same(m)
            /\ lists' = [m \in Lists |-> lists'[m]]
            /\ added' = [m \in Lists |-> added'[m]] /\ called' = [m \in Lists |-> called'[m]]
        BY <1>1, <1>2, <2>2, <2>4, Touching
      <4>5. Fresh(e) /\ ListOK(e) /\ TellsOnce(e) /\ ListOK(<<d, "progress">>)
        BY <4>2, <4>3 DEF Open, Other, IInv, ListsInv
      <4>6. Fresh(e)' /\ ListOK(e)' /\ TellsOnce(e)' /\ ListOK(<<d, "progress">>)'
        BY <4>3, <4>4, <4>5, SameList
      <4>7. Prep(l)'
        <5>1. 0 \in 0..2
          OBVIOUS
        <5>. QED  BY <2>4, <2>5, <3>4, <5>1 DEF Prep
      <4>8. Turning(d, o)'
        BY <1>3, <3>4, <4>1, <4>2, <4>6, <4>7 DEF Turning, Open
      <4>9. \A m \in {<<d, "done">>, <<d, "fail">>, <<d, "progress">>} : ListOK(m)'
        BY <2>9, <4>1, <4>6 DEF Other
      <4>10. TellsOnce(<<d, "done">>)' /\ TellsOnce(<<d, "fail">>)'
        BY <3>3, <4>1, <4>6 DEF Other
      <4>11. DeferredOK(d)'
        BY <4>8 DEF DeferredOK
      <4>12. ListsInv'
        <5>1. \A m \in Lists : m \in {<<d, "done">>, <<d, "fail">>, <<d, "progress">>} \/ Same(m)
          BY <4>1, <4>4
        <5>2. settled' = settled /\ settled \in [Deferreds -> {"pending", "resolved", "rejected"}] /\ ListsInv
          BY <1>3 DEF IInv, ListsInv
        <5>. QED  BY <4>4, <4>9, <4>10, <4>11, <5>1, <5>2, OneDeferred
      <4>13. ReadyInv'
        <5>1. In(todo, "fire", l)
          BY <1>1, <1>2, Tops DEF Top
        <5>2. l = DoneList => isReady
          BY <5>1 DEF IInv, ReadyInv, ReadyEvents
        <5>3. ready' = ready /\ settled'[Doc] = settled[Doc] /\ settled[Doc] # "rejected"
          BY <1>3, DocIs DEF page
        <5>. QED  BY <1>1, <1>2, <2>4, <5>2, <5>3, ReadyMoves
      <4>. QED  BY <1>1, <1>2, <1>3, <2>4, <4>12, <4>13, MovesKeep DEF IInv
    <3>. QED  BY <2>11, <3>5, <3>6 DEF Told
  <2>. QED  BY <1>2, <2>10, <2>11, Names
<1>9. r.firing \in BOOLEAN
  BY SMTT(30), <1>2 DEF IInv, ListsInv, ListOK, Closures
<1>. QED  BY <1>6, <1>7, <1>8

----------------------------------------------------------------------------
(* add *)

\* A sequence with one more item.
LEMMA Appended ==
    ASSUME NEW A, NEW q \in Seq(A), NEW f \in A
    PROVE  /\ Append(q, f) \in Seq(A) /\ Len(q) \in Nat /\ Len(Append(q, f)) = Len(q) + 1
           /\ DOMAIN q = 1..Len(q) /\ DOMAIN Append(q, f) = 1..(Len(q) + 1)
           /\ \A k \in 1..Len(q) : Append(q, f)[k] = q[k]
           /\ Append(q, f)[Len(q) + 1] = f /\ Append(q, f) # q
           /\ Elems(Append(q, f)) = Elems(q) \cup {f}
<1>1. /\ Append(q, f) \in Seq(A) /\ Len(q) \in Nat /\ Len(Append(q, f)) = Len(q) + 1
      /\ DOMAIN q = 1..Len(q) /\ DOMAIN Append(q, f) = 1..(Len(q) + 1)
      /\ \A k \in 1..Len(q) : Append(q, f)[k] = q[k]
      /\ Append(q, f)[Len(q) + 1] = f
  OBVIOUS
<1>2. Append(q, f) # q
  <2>. DEFINE t == Append(q, f)
  <2>1. Len(t) = Len(q) + 1 /\ Len(q) \in Nat
    BY <1>1
  <2>. HIDE DEF t
  <2>. QED  BY <2>1 DEF t
<1>. DEFINE n == Len(q)
            p == Append(q, f)
<1>3. \A k \in 1..(n + 1) : k \in 1..n \/ k = n + 1
  BY <1>1
<1>4. n + 1 \in 1..(n + 1) /\ \A k \in 1..n : k \in 1..(n + 1)
  BY <1>1
<1>5. Elems(p) = Elems(q) \cup {f}
  <2>. HIDE DEF n, p
  <2>1. /\ DOMAIN q = 1..n /\ DOMAIN p = 1..(n + 1) /\ (\A k \in 1..n : p[k] = q[k]) /\ p[n + 1] = f
    BY <1>1 DEF n, p
  <2>. QED  BY <1>3, <1>4, <2>1 DEF Elems
<1>. QED  BY Zenon, <1>1, <1>2, <1>5

\* Appended once, it has no item twice.
LEMMA AppendedOnce ==
    ASSUME NEW A, NEW q \in Seq(A), NEW f \in A, Once(q), f \notin Elems(q)
    PROVE  Once(Append(q, f))
<1>. DEFINE n == Len(q)
            p == Append(q, f)
<1>1. DOMAIN q = 1..n /\ DOMAIN p = 1..(n + 1) /\ (\A k \in 1..n : p[k] = q[k]) /\ p[n + 1] = f /\ n \in Nat
  BY Appended
<1>2. \A k \in 1..(n + 1) : k \in 1..n \/ k = n + 1
  BY <1>1
<1>. HIDE DEF n, p
<1>3. \A k \in 1..n : p[k] # f
  BY <1>1 DEF Elems
<1>4. Once(p)
  BY <1>1, <1>2, <1>3 DEF Once
<1>. QED  BY <1>4 DEF p

\* A loop under way calls what is added to its list, one that rests calls it at once.
LEMMA AddToPage ==
    ASSUME IInv, Top.at = PageList, On("add"), NEW f \in Attached,
           NEW v, NEW q, q = Added(lists[PageList], f),
           IF CallsNow(lists[PageList]) THEN v = Fired(q, q.memory, Len(lists[PageList].list)) ELSE v = q,
           lists'[PageList] = v, called'[PageList] = called[PageList],
           added'[PageList] = (IF q.list = lists[PageList].list THEN added[PageList] ELSE Append(added[PageList], f)),
           IF CallsNow(lists[PageList])
           THEN TopIs("loop", PageList)'
           ELSE ~ TopIs("loop", PageList)' /\ (In(todo', "loop", PageList) <=> In(todo, "loop", PageList))
    PROVE  ListOK(PageList)' /\ PageOK'
<1>. DEFINE r == lists[PageList]
            n == Len(r.list)
            m == Len(q.list)
            s == Elems(called[PageList])
<1>1. /\ r \in Closures(Attached) /\ r.list \in Seq(Attached) /\ n \in Nat /\ r.index \in Int /\ r.index >= -1
      /\ r.length \in Nat /\ (r.firing => n <= r.length) /\ (In(todo, "loop", PageList) => r.firing)
      /\ Elems(r.list) \subseteq Elems(added[PageList]) /\ added[PageList] \in Seq(Attached)
      /\ called[PageList] \in Seq(Attached) /\ r.flags = FlagsOf(PageList) /\ r.firing \in BOOLEAN /\ r.gone \in BOOLEAN
  BY PageIs DEF ListOK
<1>2. /\ q \in Closures(Attached)
      /\ q.flags = r.flags /\ q.gone = r.gone /\ q.stack = r.stack /\ q.single = r.single
      /\ q.memory = r.memory /\ q.fired = r.fired /\ q.firing = r.firing /\ q.index = r.index /\ q.emptied = r.emptied
      /\ \/ q = r /\ (r.gone \/ ("unique" \in r.flags /\ Has(r, f)))
         \/ /\ ~ r.gone /\ ~ ("unique" \in r.flags /\ Has(r, f))
            /\ q.list = Append(r.list, f)
            /\ q.length = IF r.firing THEN n + 1 ELSE r.length
  <2>1. q = Added(r, f) /\ r \in Closures(Attached)
    BY <1>1
  <2>. HIDE DEF r
  <2>. QED  BY <2>1, AddedIs
<1>3. /\ Append(r.list, f) \in Seq(Attached) /\ Len(Append(r.list, f)) = n + 1
      /\ DOMAIN r.list = 1..n /\ DOMAIN Append(r.list, f) = 1..(n + 1)
      /\ \A k \in 1..n : Append(r.list, f)[k] = r.list[k]
      /\ Append(r.list, f)[n + 1] = f /\ Append(r.list, f) # r.list
      /\ Elems(Append(r.list, f)) = Elems(r.list) \cup {f}
  BY <1>1, Appended
<1>4. /\ Append(added[PageList], f) \in Seq(Attached)
      /\ Elems(Append(added[PageList], f)) = Elems(added[PageList]) \cup {f}
  BY <1>1, Appended
<1>. HIDE DEF n, s
<1>5. /\ m \in Nat /\ DOMAIN q.list = 1..m /\ (m = n \/ m = n + 1)
      /\ \A k \in 1..n : k \in 1..m /\ q.list[k] = r.list[k]
      /\ q.firing => m <= q.length
      /\ q.firing /\ r.length = n => q.length = m
      /\ \A k \in 1..m : k \in 1..n \/ (k = n + 1 /\ m = n + 1 /\ q.list[k] = f)
  <2>1. CASE q = r
    BY <1>1, <1>3, <2>1 DEF n
  <2>2. CASE q.list = Append(r.list, f) /\ q.length = IF r.firing THEN n + 1 ELSE r.length
    <3>1. m = n + 1 /\ n \in Nat /\ q.list[n + 1] = f /\ DOMAIN q.list = 1..(n + 1) /\ \A k \in 1..n : q.list[k] = r.list[k]
      BY <1>1, <1>3, <2>2
    <3>2. q.firing => q.length = n + 1
      BY <1>2, <2>2
    <3>. HIDE DEF m
    <3>. QED  BY <3>1, <3>2
  <2>. QED  BY <1>2, <2>1, <2>2
<1>6. /\ added'[PageList] \in Seq(Attached) /\ Elems(q.list) \subseteq Elems(added'[PageList])
  <2>1. CASE q = r
    BY <1>1, <2>1
  <2>2. CASE q.list = Append(r.list, f)
    <3>1. added'[PageList] = Append(added[PageList], f)
      BY <1>3, <2>2
    <3>. QED  BY <1>1, <1>3, <1>4, <2>2, <3>1
  <2>. QED  BY <1>2, <2>1, <2>2
<1>. HIDE DEF m
<1>7. Once(r.list) /\ "unique" \in r.flags /\ ~ r.gone => Once(q.list) /\ (m = n + 1 => f \notin Elems(r.list))
  <2>1. HAVE Once(r.list) /\ "unique" \in r.flags /\ ~ r.gone
  <2>2. CASE q = r
    BY <1>1, <1>3, <2>1, <2>2 DEF m, n
  <2>3. CASE ~ Has(r, f) /\ q.list = Append(r.list, f)
    <3>1. f \notin Elems(r.list)
      BY <2>3 DEF Has
    <3>2. Once(q.list)
      BY <1>1, <2>1, <2>3, <3>1, AppendedOnce
    <3>. QED  BY <3>1, <3>2
  <2>. QED  BY <1>2, <2>1, <2>2, <2>3
<1>8. ~ TopIs("loop", PageList) /\ Running(PageList) = 1
  BY DEF TopIs, On, Running
<1>9. "unique" \in r.flags /\ ~ r.gone =>
      /\ Once(r.list) /\ Once(called[PageList]) /\ s \subseteq Elems(r.list)
      /\ r.firing => \A k \in 1..n : k > r.index + 1 => r.list[k] \notin s
      /\ r.firing /\ ~ r.emptied =>
            /\ r.length = n
            /\ \A k \in 1..n : k <= r.index => r.list[k] \in s
            /\ r.index + 1 <= n
            /\ \A k \in 1..n : k = r.index + 1 /\ In(todo, "loop", PageList) => r.list[k] \in s
      /\ ~ r.firing /\ ~ r.emptied /\ r.memory # Nothing => \A k \in 1..n : r.list[k] \in s
  BY <1>3, <1>8, PageIs DEF PageOK, n, s
<1>10. s \subseteq Elems(r.list) => s \subseteq Elems(q.list)
  BY <1>2, <1>3
<1>11. CASE CallsNow(r)
  <2>1. ~ r.gone /\ ~ r.firing /\ r.memory # Nothing
    BY <1>11 DEF CallsNow
  <2>2. q.memory \in Datas /\ n \in Int
    BY <1>1, <1>2 DEF Closures
  <2>3. v = Fired(q, q.memory, n)
    BY <1>11 DEF n
  <2>4. /\ v \in Closures(Attached) /\ v.flags = q.flags /\ v.gone = q.gone /\ v.list = q.list
        /\ v.firing /\ v.index = n /\ v.length = Len(q.list)
        /\ (~ v.emptied => ~ q.emptied \/ n <= 0)
    BY <1>2, <2>2, <2>3, FiredIs
  <2>5. Running(PageList)' = 0
    BY <1>11 DEF Running
  <2>6. ListOK(PageList)'
    <3>1. v.firing => Len(v.list) <= v.length
      BY <1>5, <2>4 DEF m
    <3>2. n >= -1 /\ n >= 0
      BY <1>1
    <3>. QED  BY <1>1, <1>2, <1>6, <2>4, <3>1, <3>2 DEF ListOK, Members
  <2>7. PageOK'
    <3>. SUFFICES ASSUME "unique" \in r.flags PROVE PageOK'
      BY <1>2, <2>4 DEF PageOK
    <3>1. \A k \in 1..m : k > n + 0 => q.list[k] \notin s
      <4>1. TAKE k \in 1..m
      <4>2. HAVE k > n + 0
      <4>3. k = n + 1 /\ m = n + 1 /\ q.list[k] = f
        BY <1>1, <1>5, <4>2
      <4>. QED  BY <1>7, <1>9, <2>1, <4>3
    <3>2. ~ v.emptied => \A k \in 1..m : k <= n => q.list[k] \in s
      <4>1. HAVE ~ v.emptied
      <4>2. CASE n <= 0
        BY <1>1, <1>5, <4>2
      <4>3. CASE ~ q.emptied
        <5>1. TAKE k \in 1..m
        <5>2. HAVE k <= n
        <5>3. k \in 1..n
          BY <1>1, <1>5, <5>2
        <5>. QED  BY <1>2, <1>5, <1>9, <2>1, <4>3, <5>3
      <4>. QED  BY <2>4, <4>1, <4>2, <4>3
    <3>3. n + 0 <= m
      BY <1>1, <1>5
    <3>4. Len(v.list) = m /\ DOMAIN v.list = 1..m /\ v.length = m
      BY <1>5, <2>4 DEF m
    <3>5. Once(v.list) /\ Once(called[PageList]) /\ s \subseteq Elems(v.list)
      BY <1>7, <1>9, <1>10, <2>1, <2>4
    <3>. QED  BY <1>11, <2>4, <2>5, <3>1, <3>2, <3>3, <3>4, <3>5 DEF PageOK, s
  <2>. QED  BY <2>6, <2>7
<1>12. CASE ~ CallsNow(r)
  <2>1. v = q /\ ~ TopIs("loop", PageList)' /\ (In(todo', "loop", PageList) <=> In(todo, "loop", PageList))
    BY <1>12
  <2>2. Running(PageList)' = 1
    BY <2>1 DEF Running
  <2>3. ListOK(PageList)'
    <3>1. q.firing => Len(q.list) <= q.length
      BY <1>5 DEF m
    <3>. QED  BY <1>1, <1>2, <1>6, <2>1, <3>1 DEF ListOK, Members
  <2>4. PageOK'
    <3>. SUFFICES ASSUME "unique" \in r.flags, ~ r.gone PROVE PageOK'
      BY <1>2, <2>1 DEF PageOK
    <3>. DEFINE x == r.index
    <3>1. r.firing => \A k \in 1..m : k > x + 1 => q.list[k] \notin s
      <4>1. HAVE r.firing
      <4>2. TAKE k \in 1..m
      <4>3. HAVE k > x + 1
      <4>4. CASE k \in 1..n
        BY <1>5, <1>9, <4>1, <4>3, <4>4
      <4>5. CASE m = n + 1 /\ q.list[k] = f
        BY <1>7, <1>9, <4>5
      <4>. QED  BY <1>5, <4>4, <4>5
    <3>2. r.firing /\ ~ r.emptied =>
            /\ q.length = m
            /\ \A k \in 1..m : k <= x => q.list[k] \in s
            /\ x + 1 <= m
            /\ \A k \in 1..m : k = x + 1 /\ In(todo, "loop", PageList) => q.list[k] \in s
      <4>1. HAVE r.firing /\ ~ r.emptied
      <4>2. r.length = n /\ x + 1 <= n /\ n \in Nat /\ x \in Int
        BY <1>1, <1>9, <4>1
      <4>3. q.length = m
        BY <1>2, <1>5, <4>1, <4>2
      <4>4. x + 1 <= m
        BY <1>5, <4>2
      <4>5. \A k \in 1..m : k <= x + 1 => k \in 1..n
        BY <1>5, <4>2
      <4>6. \A k \in 1..m : k <= x => k <= x + 1
        BY <1>5, <4>2
      <4>. HIDE DEF x
      <4>7. \A k \in 1..m : k <= x => q.list[k] \in s
        BY <1>5, <1>9, <4>1, <4>5, <4>6 DEF x
      <4>8. \A k \in 1..m : k = x + 1 /\ In(todo, "loop", PageList) => q.list[k] \in s
        <5>1. TAKE k \in 1..m
        <5>2. HAVE k = x + 1 /\ In(todo, "loop", PageList)
        <5>3. k \in 1..n
          BY <1>5, <4>2, <4>5, <5>2
        <5>. QED  BY <1>5, <1>9, <4>1, <5>2, <5>3 DEF x
      <4>. QED  BY <4>3, <4>4, <4>7, <4>8
    <3>3. r.firing \/ r.memory = Nothing
      BY <1>12 DEF CallsNow
    <3>4. Len(q.list) = m /\ DOMAIN q.list = 1..m
      BY <1>5 DEF m
    <3>5. Once(q.list) /\ Once(called[PageList]) /\ s \subseteq Elems(q.list)
      BY <1>7, <1>9, <1>10
    <3>. HIDE DEF x
    <3>6. q.index = x
      BY <1>2 DEF x
    <3>. QED  BY <1>2, <2>1, <2>2, <3>1, <3>2, <3>3, <3>4, <3>5, <3>6 DEF PageOK, s
  <2>. QED  BY <2>3, <2>4
<1>. QED  BY <1>11, <1>12

\* A list that tells keeps all that is added, unless it is gone.
LEMMA AddToTold ==
    ASSUME IInv, NEW l \in Told, NEW f \in Attached, NEW q, q = Added(lists[l], f)
    PROVE  /\ lists[l].gone => q = lists[l]
           /\ ~ lists[l].gone =>
                 /\ q \in Closures(Members(l)) /\ q.list = Append(lists[l].list, f) /\ q.list # lists[l].list
                 /\ q.flags = lists[l].flags /\ q.gone = lists[l].gone /\ q.stack = lists[l].stack
                 /\ q.single = lists[l].single /\ q.memory = lists[l].memory /\ q.fired = lists[l].fired
                 /\ q.firing = lists[l].firing /\ q.index = lists[l].index
                 /\ q.length = IF lists[l].firing THEN Len(lists[l].list) + 1 ELSE lists[l].length
<1>. DEFINE r == lists[l]
<1>1. r \in Closures(Members(l)) /\ f \in Members(l) /\ "unique" \notin r.flags /\ r.list \in Seq(Members(l))
  BY ToldNow DEF ListOK, Members, Closures
<1>2. CASE r.gone
  BY <1>2 DEF Added
<1>3. CASE ~ r.gone
  <2>. HIDE DEF r
  <2>1. LET p == Added(r, f) IN
        /\ p \in Closures(Members(l)) /\ p.flags = r.flags /\ p.gone = r.gone /\ p.stack = r.stack /\ p.single = r.single
        /\ p.memory = r.memory /\ p.fired = r.fired /\ p.firing = r.firing /\ p.index = r.index
        /\ p.list = Append(r.list, f)
        /\ p.length = IF r.firing THEN Len(r.list) + 1 ELSE r.length
    BY <1>1, <1>3, AddedIs
  <2>2. Append(r.list, f) # r.list
    BY <1>1, Appended
  <2>. QED  BY <1>3, <2>1, <2>2 DEF r
<1>. QED  BY <1>2, <1>3

\* A list that calls at once what is added is one that has told all.
LEMMA RestsIs ==
    ASSUME IInv, NEW l \in Told, CallsNow(lists[l])
    PROVE  Rest(l) /\ l \in Fires
<1>1. ~ lists[l].gone /\ ~ lists[l].firing /\ lists[l].memory # Nothing
  BY DEF CallsNow
<1>2. ~ Fresh(l) /\ ~ Gone(l) /\ ~ Calling(l) /\ ~ Stuck(l) /\ ~ Prep(l)
  BY <1>1 DEF Fresh, Gone, Calling, Stuck, Prep
<1>3. Rest(l)
  BY <1>2, ToldNow DEF Over, Turning
<1>4. l # <<Doc, "fail">>
  <2>1. Fresh(<<Doc, "fail">>) \/ Gone(<<Doc, "fail">>)
    BY DocIs DEF Open, Turning, Turned, Other
  <2>. QED  BY <1>2, <2>1
<1>. QED  BY <1>3, <1>4 DEF Fires

\* add.
LEMMA StepAdd ==
    ASSUME IInv, DoAdd, UNCHANGED <<ajax, page>> PROVE IInv'
<1>1. PICK l, f, q : l = Top.at /\ f = Top.arg /\ q = Added(lists[l], f)
  OBVIOUS
<1>. DEFINE r == lists[l]
            a == IF q.list = r.list THEN added[l] ELSE Append(added[l], f)
            v == IF CallsNow(r) THEN Fired(q, q.memory, Len(r.list)) ELSE q
<1>2. Shape(todo) /\ todo # << >> /\ Top.op = "add" /\ On("add") /\ "add" \in ListOps
      /\ l \in Told \cup {PageList} /\ l \in Lists /\ f \in Attached
  BY <1>1, ListFrame DEF DoAdd, FrameOK, ListOps
<1>3. /\ IF CallsNow(r)
         THEN lists' = [lists EXCEPT ![l] = Fired(q, q.memory, Len(r.list))] /\ Instead(<<Frame("loop", l, Nothing)>>)
         ELSE lists' = [lists EXCEPT ![l] = q] /\ Instead(<< >>)
      /\ added' = [added EXCEPT ![l] = a]
      /\ UNCHANGED <<settled, called, lost>>
  BY <1>1 DEF DoAdd
<1>4. Touches(l, v, a, called[l])
  <2>1. called' = [called EXCEPT ![l] = called[l]]
    BY <1>2, <1>3, SameAt
  <2>2. lists' = [lists EXCEPT ![l] = v]
    BY <1>3
  <2>. HIDE DEF v, a
  <2>. QED  BY <1>3, <2>1, <2>2 DEF Touches
<1>. HIDE DEF v, a
<1>5. ~ TopIs("loop", l) /\ Running(l) = 1
  BY <1>2 DEF TopIs, On, Running
<1>6. CallsNow(r) => Moves(l) /\ TopIs("loop", l)' /\ In(todo', "loop", l)
  <2>1. HAVE CallsNow(r)
  <2>2. todo' = <<Frame("loop", l, Nothing)>> \o Tail(todo)
    BY <1>3, <2>1 DEF Instead
  <2>3. ~ In(todo, "loop", l)
    BY <1>2, <2>1 DEF IInv, ListsInv, ListOK, CallsNow
  <2>4. l \in Fires \cup {PageList}
    BY <1>2, <2>1, RestsIs
  <2>. QED  BY <1>1, <1>2, <2>2, <2>3, <2>4, LoopMoves
<1>7. ~ CallsNow(r) => Moves(l) /\ ~ On("loop")' /\ (In(todo', "loop", l) <=> In(todo, "loop", l))
  <2>1. HAVE ~ CallsNow(r)
  <2>2. todo' = Tail(todo)
    BY <1>2, <1>3, <2>1, Tops, Joining DEF Instead, Top
  <2>. QED  BY <1>1, <1>2, <2>2, PopMoves
<1>8. lists'[l] = v /\ added'[l] = a /\ called'[l] = called[l]
  BY <1>1, <1>2, <1>4, <1>6, <1>7, Touching
<1>9. CASE l = PageList
  <2>1. ListOK(PageList)' /\ PageOK'
    <3>1. IF CallsNow(r) THEN v = Fired(q, q.memory, Len(r.list)) ELSE v = q
      BY DEF v
    <3>2. added'[PageList] = (IF q.list = lists[PageList].list THEN added[PageList] ELSE Append(added[PageList], f))
      BY <1>8, <1>9 DEF a
    <3>3. ~ CallsNow(r) => ~ TopIs("loop", PageList)'
      BY <1>7 DEF TopIs
    <3>4. /\ Top.at = PageList /\ On("add") /\ q = Added(lists[PageList], f)
          /\ lists'[PageList] = v /\ called'[PageList] = called[PageList]
      BY <1>1, <1>2, <1>8, <1>9
    <3>5. CASE CallsNow(lists[PageList])
      <4>1. v = Fired(q, q.memory, Len(lists[PageList].list)) /\ TopIs("loop", PageList)'
        BY <1>6, <1>9, <3>1, <3>5
      <4>. QED  BY <1>2, <3>2, <3>4, <3>5, <4>1, AddToPage
    <3>6. CASE ~ CallsNow(lists[PageList])
      <4>1. v = q /\ ~ TopIs("loop", PageList)' /\ (In(todo', "loop", PageList) <=> In(todo, "loop", PageList))
        BY <1>7, <1>9, <3>1, <3>3, <3>6
      <4>. QED  BY <1>2, <3>2, <3>4, <3>6, <4>1, AddToPage
    <3>. QED  BY <3>5, <3>6
  <2>. QED  BY <1>1, <1>2, <1>4, <1>6, <1>7, <1>9, <2>1, PageListStep
<1>10. CASE l \in Told
  <2>1. /\ r.gone => q = r
        /\ ~ r.gone =>
                 /\ q \in Closures(Members(l)) /\ q.list = Append(r.list, f) /\ q.list # r.list
                 /\ q.flags = r.flags /\ q.gone = r.gone /\ q.stack = r.stack
                 /\ q.single = r.single /\ q.memory = r.memory /\ q.fired = r.fired
                 /\ q.firing = r.firing /\ q.index = r.index
                 /\ q.length = IF r.firing THEN Len(r.list) + 1 ELSE r.length
    BY <1>1, <1>2, <1>10, AddToTold
  <2>2. ListOK(l) /\ TellsOnce(l) /\ r \in Closures(Members(l)) /\ r.flags = {"once", "memory"} /\ ~ Prep(l)
        /\ added[l] \in Seq(Attached) /\ called[l] \in Seq(Attached) /\ r.list \in Seq(Members(l))
    BY <1>5, <1>10, ToldNow DEF ListOK, Prep, Closures
  <2>. DEFINE n == Len(r.list)
              N == Len(added[l])
              c == Len(called[l])
  <2>3. /\ N \in Nat /\ n \in Nat /\ c \in Nat
        /\ Append(added[l], f) \in Seq(Attached) /\ Len(Append(added[l], f)) = N + 1
        /\ (\A k \in 1..N : Append(added[l], f)[k] = added[l][k]) /\ Append(added[l], f)[N + 1] = f
        /\ Elems(Append(added[l], f)) = Elems(added[l]) \cup {f}
    BY <1>2, <2>2, Appended
  <2>4. /\ Append(r.list, f) \in Seq(Members(l)) /\ Len(Append(r.list, f)) = n + 1
        /\ (\A k \in 1..n : Append(r.list, f)[k] = r.list[k]) /\ Append(r.list, f)[n + 1] = f
        /\ Elems(Append(r.list, f)) = Elems(r.list) \cup {f}
    <3>1. f \in Members(l)
      BY <1>2 DEF Members
    <3>. QED  BY <2>2, <3>1, Appended
  <2>5. CASE r.gone
    <3>1. ~ CallsNow(r) /\ v = r /\ a = added[l]
      BY <2>1, <2>5 DEF CallsNow, v, a
    <3>2. Same(l)
      BY <1>5, <1>7, <1>8, <3>1 DEF Same, TopIs
    <3>3. ListOK(l)' /\ TellsOnce(l)' /\ (Fresh(l) => Fresh(l)') /\ (Gone(l) => Gone(l)') /\ (Over(l) => Over(l)')
      BY <2>2, <3>2, SameList
    <3>4. ~ Fresh(l)
      BY <2>5 DEF Fresh
    <3>. QED  BY <1>1, <1>2, <1>4, <1>7, <1>10, <2>2, <3>1, <3>3, <3>4, ToldStep
  <2>6. CASE ~ r.gone
    <3>1. a = Append(added[l], f) /\ ~ Gone(l)
      BY <2>1, <2>6 DEF a, Gone
    <3>2. Elems(q.list) = Elems(r.list) \cup {f} /\ Elems(a) = Elems(added[l]) \cup {f} /\ a \in Seq(Attached)
      BY <2>1, <2>3, <2>4, <2>6, <3>1
    <3>3. \A g \in Elems(q.list) : g.does \in InternalNames \/ g \in Elems(a)
      BY <2>2, <3>2 DEF ListOK
    <3>4. CASE CallsNow(r)
      <4>1. Rest(l) /\ HasFired(l) /\ r.list = << >> /\ called[l] = added[l] /\ n = 0 /\ c = N
        BY <1>10, <3>4, RestsIs DEF Rest
      <4>2. q.memory \in Datas
        BY <2>1, <2>6 DEF Closures
      <4>3. v = Fired(q, q.memory, 0)
        BY <3>4, <4>1 DEF v
      <4>4. /\ v \in Closures(Members(l)) /\ v.flags = q.flags /\ v.gone = q.gone /\ v.stack = q.stack
            /\ v.single = q.single /\ v.list = q.list /\ v.fired /\ v.firing /\ v.index = 0 /\ v.length = Len(q.list)
            /\ v.memory = q.memory
        <5>1. q \in Closures(Members(l)) /\ 0 \in Int /\ "memory" \in q.flags
          BY <2>1, <2>2, <2>6
        <5>. QED  BY <4>2, <4>3, <5>1, FiredIs
      <4>5. Len(q.list) = 1 /\ q.list[1] = f
        BY <2>1, <2>4, <2>6, <4>1
      <4>6. ListOK(l)'
        <5>1. v.length >= Len(v.list) /\ v.index >= -1 /\ v.index >= 0
          BY <4>4, <4>5
        <5>. QED  BY <1>6, <1>8, <2>1, <2>2, <2>6, <3>2, <3>3, <3>4, <4>4, <5>1 DEF ListOK
      <4>7. TellsOnce(l)'
        BY <1>8, <2>1, <2>2, <2>6, <4>4 DEF TellsOnce
      <4>8. Calling(l)'
        <5>1. Running(l)' = 0
          BY <1>6, <3>4 DEF Running
        <5>2. HasFired(l)' /\ lists'[l].firing /\ In(todo', "loop", l) /\ lists'[l].length = 1 /\ Len(lists'[l].list) = 1
              /\ lists'[l].index = 0
          BY <1>6, <1>8, <2>1, <2>6, <3>4, <4>1, <4>4, <4>5 DEF HasFired
        <5>3. Prefix(l)'
          <6>1. c <= N + 1 /\ \A k \in 1..c : k \in 1..N
            BY <2>3, <4>1
          <6>. QED  BY <1>8, <2>3, <3>1, <4>1, <6>1 DEF Prefix
        <5>4. Len(added'[l]) = N + 1 /\ Len(called'[l]) = c
          BY <1>8, <2>3, <3>1
        <5>5. (N + 1) - c = 1 - 0 /\ 0 \in 0..1 /\ c + 1 = N + 1
          BY <2>3, <4>1
        <5>6. lists'[l].list[0 + 1] = added'[l][c + 1]
          BY <1>8, <2>3, <3>1, <4>4, <4>5, <5>5
        <5>. HIDE DEF N, c
        <5>7. \A k \in 1..(1 - 0) : k = 1
          OBVIOUS
        <5>8. /\ 0 + 0 = 0 /\ 0 + 0 \in 0..1 /\ (N + 1) - c = 1 - (0 + 0)
              /\ \A k \in 1..(1 - (0 + 0)) : lists'[l].list[0 + 0 + k] = added'[l][c + k]
          BY <5>5, <5>6, <5>7
        <5>. QED  BY <5>1, <5>2, <5>3, <5>4, <5>8 DEF Calling
      <4>9. ~ Fresh(l)
        BY <4>1 DEF Fresh, HasFired
      <4>. QED  BY <1>1, <1>2, <1>4, <1>6, <1>10, <2>2, <3>1, <3>4, <4>6, <4>7, <4>8, <4>9, ToldStep DEF Over
    <3>5. CASE ~ CallsNow(r)
      <4>1. v = q
        BY <3>5 DEF v
      <4>2. ~ TopIs("loop", l)' /\ Running(l)' = 1
        BY <1>7, <3>5 DEF TopIs, Running
      <4>3. ListOK(l)'
        <5>1. q.firing => Len(q.list) <= q.length
          <6>1. Len(q.list) = n + 1 /\ (q.firing => q.length = n + 1) /\ n + 1 <= n + 1
            BY <2>1, <2>3, <2>4, <2>6
          <6>. HIDE DEF n
          <6>. QED  BY <6>1
        <5>. QED  BY <1>7, <1>8, <2>1, <2>2, <2>6, <3>2, <3>3, <3>5, <4>1, <4>2, <5>1 DEF ListOK
      <4>4. TellsOnce(l)'
        BY <1>8, <2>1, <2>2, <2>6, <4>1 DEF TellsOnce
      <4>5. ASSUME Fresh(l) PROVE Fresh(l)'
        <5>1. r.list = Before(l) \o added[l] /\ Before(l) \in Seq(Members(l)) /\ added[l] \in Seq(Members(l))
          <6>1. Before(l) = << >> \/ Before(l) = <<Callback("settle", l[1]), Callback("disable", l[1]), Callback("lock", l[1])>>
            BY DEF Before, Internal
          <6>2. \A name \in InternalNames : Callback(name, l[1]) \in Members(l)
            BY <1>10, ToldNow DEF Callback, Members
          <6>3. Attached \subseteq Members(l)
            BY DEF Members
          <6>. HIDE DEF r
          <6>4. Before(l) \in Seq(Members(l))
            <7>. DEFINE M == Members(l)
            <7>1. Callback("settle", l[1]) \in M /\ Callback("disable", l[1]) \in M /\ Callback("lock", l[1]) \in M
              BY <6>2 DEF InternalNames
            <7>. HIDE DEF M
            <7>2. << >> \in Seq(M)
              OBVIOUS
            <7>3. <<Callback("settle", l[1]), Callback("disable", l[1]), Callback("lock", l[1])>> \in Seq(M)
              BY <7>1
            <7>4. Before(l) \in Seq(M)
              BY <6>1, <7>2, <7>3
            <7>. QED  BY <7>4 DEF M
          <6>. QED  BY <2>2, <4>5, <6>3, <6>4 DEF Fresh, r
        <5>2. Append(r.list, f) = Before(l) \o Append(added[l], f)
          <6>. DEFINE b == Before(l)
                      p == added[l]
          <6>1. b \in Seq(Members(l)) /\ p \in Seq(Members(l)) /\ f \in Members(l)
            BY <1>2, <5>1 DEF Members
          <6>. HIDE DEF b, p
          <6>2. Append(b \o p, f) = b \o Append(p, f)
            BY <6>1
          <6>. QED  BY <5>1, <6>2 DEF b, p
        <5>. QED  BY <1>8, <2>1, <2>6, <3>1, <4>1, <4>5, <5>2 DEF Fresh
      <4>6. ASSUME Over(l) PROVE Over(l)'
        <5>1. Prefix(l) => Prefix(l)'
          <6>1. N <= N + 1 /\ \A k \in 1..c : c <= N => k \in 1..N
            BY <2>3
          <6>2. c <= N => c <= N + 1
            BY <2>3
          <6>. QED  BY <1>8, <2>3, <3>1, <6>1, <6>2 DEF Prefix
        <5>2. HasFired(l) => HasFired(l)'
          BY <1>8, <2>1, <2>6, <4>1 DEF HasFired
        <5>3. ~ Rest(l)
          BY <3>5 DEF Rest, HasFired, CallsNow
        <5>4. Stuck(l) => Stuck(l)'
          BY <1>7, <1>8, <2>1, <2>6, <3>5, <4>1, <5>1, <5>2 DEF Stuck
        <5>5. ASSUME Calling(l) PROVE Calling(l)'
          <6>. DEFINE x == r.index + 1
          <6>1. /\ r.firing /\ r.length = n /\ x \in 0..n /\ N - c = n - x /\ c <= N
                /\ \A k \in 1..(n - x) : r.list[x + k] = added[l][c + k]
            BY <1>5, <5>5 DEF Calling, Prefix
          <6>. HIDE DEF x, n, N, c
          <6>2. /\ x \in 0..(n + 1) /\ (N + 1) - c = (n + 1) - x /\ x \in Nat
                /\ \A k \in 1..((n + 1) - x) : \/ k \in 1..(n - x) /\ x + k \in 1..n /\ c + k \in 1..N
                                               \/ x + k = n + 1 /\ c + k = N + 1
            BY <2>3, <6>1
          <6>3. \A k \in 1..((n + 1) - x) : Append(r.list, f)[x + k] = Append(added[l], f)[c + k]
            BY <2>3, <2>4, <6>1, <6>2
          <6>4. lists'[l].list = Append(r.list, f) /\ lists'[l].firing /\ lists'[l].length = n + 1 /\ lists'[l].index = r.index
                /\ added'[l] = Append(added[l], f) /\ called'[l] = called[l] /\ In(todo', "loop", l)
            BY <1>7, <1>8, <2>1, <2>6, <3>1, <3>5, <4>1, <5>5, <6>1 DEF Calling, n
          <6>5. Len(lists'[l].list) = n + 1 /\ Len(added'[l]) = N + 1 /\ Len(called'[l]) = c
            BY <2>3, <2>4, <6>4 DEF c
          <6>6. HasFired(l)' /\ Prefix(l)'
            BY <5>1, <5>2, <5>5 DEF Calling
          <6>7. lists'[l].index + Running(l)' = x
            BY <4>2, <6>4 DEF x
          <6>. QED  BY ZenonT(30), <6>2, <6>3, <6>4, <6>5, <6>6, <6>7 DEF Calling
        <5>. QED  BY <4>6, <5>3, <5>4, <5>5 DEF Over
      <4>7. Fresh(l) => ~ In(todo', "loop", l)
        BY <1>7, <2>2, <3>5 DEF Fresh, ListOK
      <4>. QED  BY <1>1, <1>2, <1>4, <1>7, <1>10, <2>2, <3>1, <3>5, <4>3, <4>4, <4>5, <4>6, <4>7, ToldStep
    <3>. QED  BY <3>4, <3>5
  <2>. QED  BY <2>2, <2>5, <2>6
<1>. QED  BY <1>2, <1>9, <1>10

----------------------------------------------------------------------------
(* The loop *)

\* Where the loop stands, and what it would call next.
LEMMA LoopNow ==
    ASSUME IInv, On("loop"), NEW l, Top.at = l
    PROVE  /\ Shape(todo) /\ todo # << >> /\ Top.op = "loop" /\ "loop" \in ListOps
           /\ l \in Fires \cup {PageList} /\ l \in Lists /\ l[1] \in Deferreds \cup {Page}
           /\ TopIs("loop", l) /\ Running(l) = 0 /\ In(todo, "loop", l) /\ ListOK(l)
           /\ lists[l] \in Closures(Members(l)) /\ lists[l].list \in Seq(Members(l))
           /\ lists[l].firing /\ lists[l].index \in Nat /\ lists[l].length \in Nat
           /\ Len(lists[l].list) \in Nat /\ Len(lists[l].list) <= lists[l].length
           /\ added[l] \in Seq(Attached) /\ called[l] \in Seq(Attached)
           /\ l \in Told => ~ Fresh(l) /\ ~ Gone(l) /\ ~ Rest(l) /\ ~ Stuck(l)
<1>1. Shape(todo) /\ todo # << >> /\ Top.op = "loop" /\ "loop" \in ListOps /\ l \in Fires \cup {PageList} /\ l \in Lists
  BY ListFrame DEF ListOps
<1>2. l[1] \in Deferreds \cup {Page}
  BY <1>1, Names
<1>3. TopIs("loop", l) /\ Running(l) = 0 /\ ListOK(l)
  BY <1>1 DEF TopIs, Running, IInv, ListsInv
<1>4. In(todo, "loop", l)
  BY <1>1, Tops DEF Top
<1>5. /\ lists[l] \in Closures(Members(l)) /\ lists[l].firing /\ lists[l].index >= 0
      /\ Len(lists[l].list) <= lists[l].length /\ added[l] \in Seq(Attached) /\ called[l] \in Seq(Attached)
  BY <1>3, <1>4 DEF ListOK
<1>6. lists[l].list \in Seq(Members(l)) /\ lists[l].index \in Int /\ lists[l].length \in Nat
  BY <1>5 DEF Closures
<1>7. lists[l].index \in Nat /\ Len(lists[l].list) \in Nat
  BY <1>5, <1>6
<1>8. ~ Fresh(l) /\ ~ Gone(l) /\ ~ Rest(l) /\ ~ Stuck(l)
  BY <1>4, <1>5 DEF Fresh, Gone, Rest, Stuck
<1>. QED  BY <1>1, <1>2, <1>3, <1>4, <1>5, <1>6, <1>7, <1>8

\* A deferred's own callbacks come first: once one of the page is called they are through.
LEMMA OwnPassed ==
    ASSUME IInv, On("loop"), NEW l \in Told, Top.at = l,
           \/ ~ InLoop(lists[l])
           \/ lists[l].index < Len(lists[l].list) /\ lists[l].list[lists[l].index + 1].does \notin InternalNames
    PROVE  Calling(l) /\ (l[2] # "complete" => ~ Prep(l))
<1>. DEFINE r == lists[l]
<1>1. ASSUME NEW d \in Deferreds, NEW o \in {"done", "fail"}, l = <<d, o>>
      PROVE  ~ Prep(l)
  <2>1. SUFFICES ASSUME Prep(l) PROVE FALSE
    OBVIOUS
  <2>2. r.index \in 0..2 /\ r.list = Before(l) \o added[l] /\ r.length = Len(r.list) /\ ~ r.gone
    BY <2>1 DEF Prep, HasFired
  <2>3. /\ Len(r.list) = Len(added[l]) + 3 /\ Len(added[l]) \in Nat
        /\ r.list[1] = Callback("settle", d) /\ r.list[2] = Callback("disable", d) /\ r.list[3] = Callback("lock", d)
    BY <1>1, <2>2, OwnFirst
  <2>4. r.index < r.length
    BY <2>2, <2>3
  <2>5. r.index + 1 \in {1, 2, 3}
    BY <2>2
  <2>6. r.list[r.index + 1].does \in InternalNames
    BY <2>3, <2>5 DEF Callback, InternalNames
  <2>. QED  BY <2>2, <2>4, <2>6 DEF InLoop
<1>2. l[2] # "complete" => ~ Prep(l)
  BY <1>1 DEF Told
<1>3. ~ \E d \in Deferreds, o \in {"done", "fail"} : l = <<d, o>> /\ Turning(d, o)
  BY <1>1 DEF Turning
<1>. QED  BY <1>2, <1>3, LoopNow, ToldNow DEF Over

\* The loop calls a callback of the page.
LEMMA StepCallNext ==
    ASSUME IInv, CallNext, UNCHANGED <<ajax, page>> PROVE IInv'
<1>1. PICK l : Top.at = l
  OBVIOUS
<1>. DEFINE r == lists[l]
            x == r.index
            L == Len(r.list)
            f == r.list[x + 1]
            c == Len(called[l])
            N == Len(added[l])
<1>2. /\ On("loop") /\ InLoop(r) /\ x < L /\ f.does \notin InternalNames
      /\ called' = [called EXCEPT ![l] = Append(called[l], f)]
      /\ todo' = <<Frame("run", l, f)>> \o todo
      /\ UNCHANGED <<lists, settled, added, lost>>
  BY <1>1 DEF CallNext, Calls
<1>3. /\ Shape(todo) /\ todo # << >> /\ Top.op = "loop" /\ "loop" \in ListOps
      /\ l \in Fires \cup {PageList} /\ l \in Lists /\ TopIs("loop", l) /\ Running(l) = 0 /\ In(todo, "loop", l)
      /\ ListOK(l) /\ r.list \in Seq(Members(l)) /\ r.firing /\ x \in Nat /\ L \in Nat
      /\ added[l] \in Seq(Attached) /\ called[l] \in Seq(Attached)
  BY <1>1, <1>2, LoopNow
<1>4. f \in Attached
  <2>1. x + 1 \in 1..L /\ DOMAIN r.list = 1..L
    BY <1>2, <1>3
  <2>2. f \in Members(l)
    BY <1>3, <2>1
  <2>. QED  BY <1>2, <2>2 DEF Members
<1>. HIDE DEF f
<1>5. Moves(l) /\ ~ On("loop")' /\ (In(todo', "loop", l) <=> In(todo, "loop", l))
  BY <1>1, <1>2, <1>3, <1>4, RunMoves
<1>6. Touches(l, r, added[l], Append(called[l], f))
  BY <1>2, <1>3, SameAt DEF Touches
<1>7. lists'[l] = r /\ added'[l] = added[l] /\ called'[l] = Append(called[l], f)
  BY <1>1, <1>2, <1>3, <1>5, <1>6, Touching
<1>8. ~ TopIs("loop", l)' /\ Running(l)' = 1
  BY <1>5 DEF TopIs, Running
<1>9. /\ Append(called[l], f) \in Seq(Attached) /\ c \in Nat /\ Len(Append(called[l], f)) = c + 1
      /\ (\A k \in 1..c : Append(called[l], f)[k] = called[l][k]) /\ Append(called[l], f)[c + 1] = f
      /\ Elems(Append(called[l], f)) = Elems(called[l]) \cup {f}
  BY <1>3, <1>4, Appended
<1>10. ListOK(l)'
  BY <1>3, <1>5, <1>7, <1>8, <1>9 DEF ListOK
<1>11. CASE l = PageList
  <2>. DEFINE s == Elems(called[PageList])
              t == Elems(called'[PageList])
  <2>1. PageOK'
    <3>. SUFFICES ASSUME "unique" \in r.flags, ~ r.gone PROVE PageOK'
      BY <1>7, <1>11 DEF PageOK
    <3>1. /\ Once(r.list) /\ Once(called[l]) /\ s \subseteq Elems(r.list)
          /\ \A i \in DOMAIN r.list : i > x + 0 => r.list[i] \notin s
          /\ ~ r.emptied =>
                /\ r.length = L
                /\ \A i \in DOMAIN r.list : i <= x => r.list[i] \in s
      BY <1>3, <1>11, PageIs DEF PageOK
    <3>2. DOMAIN r.list = 1..L /\ x + 1 \in 1..L /\ x + 1 > x + 0
      BY <1>2, <1>3
    <3>3. f \notin s /\ f \in Elems(r.list) /\ t = s \cup {f}
      <4>1. f = r.list[x + 1]
        BY DEF f
      <4>2. f \notin s
        BY <3>1, <3>2, <4>1
      <4>3. f \in Elems(r.list)
        BY <3>2, <4>1 DEF Elems
      <4>4. t = s \cup {f}
        BY <1>7, <1>9, <1>11
      <4>. QED  BY <4>2, <4>3, <4>4
    <3>4. Once(called'[l])
      BY <1>3, <1>4, <1>7, <1>11, <3>1, <3>3, AppendedOnce
    <3>5. \A i \in 1..L : i > x + 1 => i > x + 0 /\ i # x + 1
      BY <1>3
    <3>. HIDE DEF s, t, x, L
    <3>6. \A i \in 1..L : i > x + 1 => r.list[i] \notin t
      BY <3>1, <3>2, <3>3, <3>5 DEF Once, f, x
    <3>7. ~ r.emptied => /\ r.length = L
                         /\ \A i \in 1..L : i <= x => r.list[i] \in t
                         /\ \A i \in 1..L : i = x + 1 => r.list[i] \in t
      BY <3>1, <3>2, <3>3 DEF f, x
    <3>8. x + 1 <= L
      BY <3>2 DEF x, L
    <3>9. Once(lists'[PageList].list) /\ Once(called'[PageList]) /\ t \subseteq Elems(r.list)
      BY <1>7, <1>11, <3>1, <3>3, <3>4
    <3>. QED  BY <1>3, <1>7, <1>8, <1>11, <3>2, <3>6, <3>7, <3>8, <3>9 DEF PageOK, t, x, L
  <2>. QED  BY <1>1, <1>2, <1>3, <1>5, <1>6, <1>10, <1>11, <2>1, PageListStep
<1>12. CASE l \in Told
  <2>1. Calling(l) /\ (l[2] # "complete" => ~ Prep(l))
    BY <1>1, <1>2, <1>12, OwnPassed DEF f
  <2>2. ~ Fresh(l) /\ ~ Gone(l)
    BY <1>1, <1>2, <1>12, LoopNow
  <2>3. TellsOnce(l)'
    BY <1>7, <1>12, ToldNow DEF TellsOnce
  <2>4. Calling(l)'
    <3>1. /\ r.length = L /\ N - c = L - x /\ c <= N /\ N \in Nat
          /\ (\A k \in 1..(L - x) : r.list[x + k] = added[l][c + k])
          /\ (\A k \in 1..c : called[l][k] = added[l][k])
      <4>1. r.index + Running(l) = x
        BY <1>3
      <4>2. N \in Nat
        BY <1>3
      <4>. HIDE DEF x
      <4>3. /\ r.length = L /\ N - c = L - x
            /\ \A k \in 1..(L - x) : r.list[x + k] = added[l][c + k]
        BY <2>1, <4>1 DEF Calling
      <4>4. c <= N /\ \A k \in 1..c : called[l][k] = added[l][k]
        BY <2>1 DEF Calling, Prefix
      <4>. QED  BY <4>2, <4>3, <4>4
    <3>. HIDE DEF x, L, N, c
    <3>2. /\ x + 1 \in 0..L /\ N - (c + 1) = L - (x + 1) /\ c + 1 <= N /\ 1 \in 1..(L - x)
          /\ (\A k \in 1..(L - (x + 1)) : 1 + k \in 1..(L - x) /\ x + (1 + k) = (x + 1) + k /\ c + (1 + k) = (c + 1) + k)
          /\ (\A k \in 1..(c + 1) : k \in 1..c \/ k = c + 1)
      BY <1>2, <1>3, <1>9, <3>1
    <3>3. f = added[l][c + 1]
      BY <3>1, <3>2 DEF f, x
    <3>4. \A k \in 1..(L - (x + 1)) : r.list[(x + 1) + k] = added[l][(c + 1) + k]
      BY <3>1, <3>2
    <3>5. Prefix(l)'
      BY <1>7, <1>9, <3>1, <3>2, <3>3 DEF Prefix, N, c
    <3>6. HasFired(l)'
      BY <1>7, <2>1 DEF HasFired, Calling
    <3>7. Len(called'[l]) = c + 1 /\ Len(added'[l]) = N /\ lists'[l].index = x /\ Len(lists'[l].list) = L
      BY <1>7, <1>9 DEF N, x, L
    <3>. QED  BY <1>3, <1>5, <1>7, <1>8, <3>1, <3>2, <3>4, <3>5, <3>6, <3>7 DEF Calling
  <2>. QED  BY <1>1, <1>2, <1>3, <1>5, <1>6, <1>10, <1>12, <2>1, <2>2, <2>3, <2>4, ToldStep DEF Over
<1>. QED  BY <1>3, <1>11, <1>12, Names

\* The page's list when its loop is over: it rests, or starts over for a call that waits.
LEMMA RestedPage ==
    ASSUME IInv, NEW p \in Closures(Attached), lists[PageList].firing,
           p.flags = lists[PageList].flags, p.gone = lists[PageList].gone, p.list = lists[PageList].list,
           p.emptied = lists[PageList].emptied, p.index = lists[PageList].index, p.length = lists[PageList].length,
           ~ p.gone /\ p.memory # Nothing => p.index >= p.length,
           lists'[PageList] = Rested(p), added'[PageList] = added[PageList],
           called'[PageList] = (IF Rested(p).list # << >> THEN called[PageList] ELSE << >>),
           ~ In(todo', "loop", PageList), ~ TopIs("loop", PageList)'
    PROVE  ListOK(PageList)' /\ PageOK'
<1>. DEFINE r == lists[PageList]
            q == Rested(p)
            s == Elems(called[PageList])
            n == Len(r.list)
<1>1. /\ q \in Closures(Attached) /\ q.flags = p.flags /\ ~ q.firing /\ q.index = p.index
      /\ \/ q.list = << >> /\ q.gone
         \/ /\ q.memory = p.memory /\ q.gone = p.gone /\ q.emptied = p.emptied
            /\ q.list = << >> \/ q.list = p.list
  BY RestedIs
<1>. HIDE DEF q
<1>2. lists'[PageList] = q /\ called'[PageList] = (IF q.list # << >> THEN called[PageList] ELSE << >>)
  BY DEF q
<1>3. Elems(<< >>) = {} /\ Once(<< >>) /\ << >> \in Seq(Attached)
  BY DEF Elems, Once
<1>4. /\ ListOK(PageList) /\ PageOK /\ r.index >= -1 /\ called[PageList] \in Seq(Attached) /\ added[PageList] \in Seq(Attached)
      /\ DOMAIN r.list = 1..n /\ n \in Nat /\ r.index \in Int /\ r.length \in Nat
  BY PageIs
<1>5. called'[PageList] \in Seq(Attached)
  BY <1>2, <1>3, <1>4
<1>6. Elems(q.list) \subseteq Elems(r.list)
  BY <1>1, <1>3
<1>7. ListOK(PageList)'
  BY <1>1, <1>2, <1>4, <1>5, <1>6 DEF ListOK, Members
<1>8. PageOK'
  <2>. SUFFICES ASSUME "unique" \in q.flags, ~ q.gone PROVE PageOK'
    BY <1>2 DEF PageOK
  <2>1. q.memory = p.memory /\ q.gone = p.gone /\ q.emptied = p.emptied /\ (q.list = << >> \/ q.list = p.list)
    BY <1>1
  <2>2. CASE q.list = << >>
    BY <1>1, <1>2, <1>3, <2>2 DEF PageOK
  <2>3. CASE q.list # << >>
    <3>1. called'[PageList] = called[PageList] /\ q.list = r.list
      BY <1>2, <2>1, <2>3
    <3>2. /\ Once(r.list) /\ Once(called[PageList]) /\ s \subseteq Elems(r.list)
          /\ ~ r.emptied => /\ r.length = n
                            /\ \A i \in DOMAIN r.list : i <= r.index => r.list[i] \in s
      BY <1>1, <1>4, <2>1 DEF PageOK
    <3>3. ~ q.emptied /\ q.memory # Nothing => \A i \in DOMAIN r.list : r.list[i] \in s
      <4>1. HAVE ~ q.emptied /\ q.memory # Nothing
      <4>2. r.index >= n
        BY <2>1, <3>2, <4>1
      <4>3. \A i \in 1..n : i <= r.index
        BY <1>4, <4>2
      <4>. QED  BY <1>4, <2>1, <3>2, <4>1, <4>3
    <3>. QED  BY <1>1, <1>2, <3>1, <3>2, <3>3 DEF PageOK
  <2>. QED  BY <2>2, <2>3
<1>. QED  BY <1>7, <1>8

\* The page's list starts anew with the data that waited.
LEMMA RestartedPage ==
    ASSUME IInv, NEW p \in Closures(Attached), p.stack # << >>,
           p.flags = lists[PageList].flags, p.gone = lists[PageList].gone, p.list = lists[PageList].list,
           lists'[PageList] = Fired([p EXCEPT !.stack = Tail(@)], Head(p.stack), 0), added'[PageList] = added[PageList],
           called'[PageList] = << >>, In(todo', "loop", PageList), TopIs("loop", PageList)'
    PROVE  ListOK(PageList)' /\ PageOK'
<1>. DEFINE w == [p EXCEPT !.stack = Tail(@)]
            a == Head(p.stack)
            v == Fired(w, a, 0)
<1>1. Tail(p.stack) \in Seq(Datas) /\ a \in Datas
  BY TailIs DEF Closures
<1>2. w \in Closures(Attached) /\ w.flags = p.flags /\ w.gone = p.gone /\ w.list = p.list
  <2>. DEFINE z == Tail(p.stack)
  <2>1. w = [p EXCEPT !.stack = z] /\ z \in Seq(Datas)
    BY <1>1
  <2>. HIDE DEF z, w
  <2>. QED  BY <2>1 DEF Closures
<1>. HIDE DEF w, a
<1>3. 0 \in Int
  OBVIOUS
<1>4. /\ v \in Closures(Attached) /\ v.flags = p.flags /\ v.gone = p.gone /\ v.list = p.list
      /\ v.firing /\ v.index = 0 /\ v.length = Len(p.list)
  BY <1>1, <1>2, <1>3, FiredIs
<1>. HIDE DEF v
<1>5. lists'[PageList] = v
  BY DEF v, w, a
<1>6. PageOK'
  BY <1>4, <1>5, StartedPage
<1>7. ListOK(PageList) /\ Len(p.list) \in Nat
  BY PageIs
<1>8. v.length >= Len(v.list) /\ v.index >= -1 /\ v.index >= 0 /\ << >> \in Seq(Attached)
  BY <1>4, <1>7
<1>. QED  BY <1>4, <1>5, <1>6, <1>7, <1>8 DEF ListOK, Members

\* The page's list after its loop.
LEMMA AfterPageLoop ==
    ASSUME IInv, NEW op \in {"loop", "run"}, On(op), Top.at = PageList, lists[PageList].firing,
           NEW p \in Closures(Attached), NEW rest,
           p.flags = lists[PageList].flags, p.gone = lists[PageList].gone, p.list = lists[PageList].list,
           p.emptied = lists[PageList].emptied, p.index = lists[PageList].index, p.length = lists[PageList].length,
           ~ p.gone /\ p.memory # Nothing => p.index >= p.length,
           AfterLoop(PageList, p, rest), UNCHANGED <<settled, added, lost, ajax, page>>,
           todo' = rest => Moves(PageList) /\ ~ On("loop")' /\ ~ In(todo', "loop", PageList),
           todo' = <<Frame("loop", PageList, Nothing)>> \o rest =>
              Moves(PageList) /\ TopIs("loop", PageList)' /\ In(todo', "loop", PageList)
    PROVE  IInv'
<1>1. PageList \in Lists /\ PageList[1] \notin Deferreds /\ op \in ListOps
  BY Names DEF ListOps
<1>2. added' = [added EXCEPT ![PageList] = added[PageList]]
  BY <1>1, SameAt
<1>3. CASE ~ p.gone /\ ~ p.single /\ p.stack # << >>
  <2>. DEFINE v == Fired([p EXCEPT !.stack = Tail(@)], Head(p.stack), 0)
  <2>1. /\ lists' = [lists EXCEPT ![PageList] = v] /\ called' = [called EXCEPT ![PageList] = << >>]
        /\ todo' = <<Frame("loop", PageList, Nothing)>> \o rest
    BY <1>3 DEF AfterLoop
  <2>2. Moves(PageList) /\ TopIs("loop", PageList)' /\ In(todo', "loop", PageList)
    BY <2>1
  <2>. HIDE DEF v
  <2>3. Touches(PageList, v, added[PageList], << >>)
    BY <1>2, <2>1 DEF Touches
  <2>4. lists'[PageList] = v /\ added'[PageList] = added[PageList] /\ called'[PageList] = << >>
    BY <1>1, <2>2, <2>3, Touching
  <2>5. lists'[PageList] = Fired([p EXCEPT !.stack = Tail(@)], Head(p.stack), 0)
    BY <2>4 DEF v
  <2>6. ListOK(PageList)' /\ PageOK'
    BY <1>3, <2>2, <2>4, <2>5, RestartedPage
  <2>. QED  BY <1>1, <2>2, <2>3, <2>6, PageListStep
<1>4. CASE ~ (~ p.gone /\ ~ p.single /\ p.stack # << >>)
  <2>. DEFINE c == IF Rested(p).list # << >> THEN called[PageList] ELSE << >>
  <2>1. /\ lists' = [lists EXCEPT ![PageList] = Rested(p)] /\ called' = [called EXCEPT ![PageList] = c]
        /\ todo' = rest
    BY <1>1, <1>4 DEF AfterLoop
  <2>2. Moves(PageList) /\ ~ On("loop")' /\ ~ In(todo', "loop", PageList) /\ ~ TopIs("loop", PageList)'
    BY <2>1 DEF TopIs
  <2>. HIDE DEF c
  <2>3. Touches(PageList, Rested(p), added[PageList], c)
    BY <1>2, <2>1 DEF Touches
  <2>4. lists'[PageList] = Rested(p) /\ added'[PageList] = added[PageList] /\ called'[PageList] = c
    BY <1>1, <2>2, <2>3, Touching
  <2>5. called'[PageList] = (IF Rested(p).list # << >> THEN called[PageList] ELSE << >>)
    BY <2>4 DEF c
  <2>6. ListOK(PageList)' /\ PageOK'
    BY <2>2, <2>4, <2>5, RestedPage
  <2>. QED  BY <1>1, <2>2, <2>3, <2>6, PageListStep
<1>. QED  BY <1>3, <1>4

\* The loop is over.
LEMMA StepLoopEnds ==
    ASSUME IInv, LoopEnds, UNCHANGED <<ajax, page>> PROVE IInv'
<1>1. PICK l : Top.at = l
  OBVIOUS
<1>. DEFINE r == lists[l]
            x == r.index
            L == Len(r.list)
            c == Len(called[l])
            N == Len(added[l])
<1>2. On("loop") /\ ~ InLoop(r) /\ AfterLoop(l, r, Tail(todo)) /\ UNCHANGED <<settled, added, lost>>
  BY <1>1 DEF LoopEnds
<1>3. /\ Shape(todo) /\ todo # << >> /\ Top.op = "loop" /\ "loop" \in ListOps
      /\ l \in Fires \cup {PageList} /\ l \in Lists /\ TopIs("loop", l) /\ Running(l) = 0
      /\ ListOK(l) /\ r \in Closures(Members(l)) /\ r.firing /\ x \in Nat /\ L \in Nat /\ r.length \in Nat
      /\ added[l] \in Seq(Attached) /\ called[l] \in Seq(Attached)
  BY <1>1, <1>2, LoopNow
<1>4. todo' = Tail(todo) => Moves(l) /\ ~ On("loop")' /\ ~ In(todo', "loop", l)
  BY <1>1, <1>3, PopMoves
<1>5. CASE l = PageList
  <2>1. todo' = <<Frame("loop", l, Nothing)>> \o Tail(todo) => Moves(l) /\ TopIs("loop", l)' /\ In(todo', "loop", l)
    BY <1>1, <1>3, LoopMoves
  <2>2. ~ r.gone => x >= r.length
    BY <1>2, <1>3 DEF InLoop
  <2>3. r \in Closures(Attached)
    BY <1>3, <1>5 DEF Members
  <2>. QED  BY <1>1, <1>2, <1>3, <1>4, <1>5, <2>1, <2>2, <2>3, AfterPageLoop
<1>6. CASE l \in Told
  <2>1. Calling(l) /\ (l[2] # "complete" => ~ Prep(l))
    BY <1>1, <1>2, <1>6, OwnPassed
  <2>2. ~ Fresh(l) /\ ~ Gone(l) /\ TellsOnce(l) /\ l[1] \in Deferreds /\ r.single /\ ~ r.gone /\ r.memory # Nothing
        /\ HasFired(l) /\ r.stack = << >>
    BY <1>1, <1>2, <1>6, <2>1, LoopNow, ToldNow DEF TellsOnce, Calling, HasFired
  <2>3. lists' = [lists EXCEPT ![l] = Rested(r)] /\ todo' = Tail(todo) /\ called' = [called EXCEPT ![l] = called[l]]
    BY <1>2, <2>2 DEF AfterLoop
  <2>. DEFINE v == Rested(r)
  <2>4. /\ v \in Closures(Members(l)) /\ v.flags = r.flags /\ ~ v.firing /\ v.index = x /\ v.length = r.length
        /\ v.memory = r.memory /\ v.gone = r.gone /\ v.fired = r.fired /\ v.single = r.single /\ v.stack = r.stack
        /\ v.list = << >>
    BY <1>3, <2>2, RestedIs
  <2>5. lists' = [lists EXCEPT ![l] = v]
    BY <2>3
  <2>. HIDE DEF v
  <2>6. Touches(l, v, added[l], called[l])
    BY <1>2, <1>3, <2>3, <2>5, SameAt DEF Touches
  <2>7. lists'[l] = v /\ added'[l] = added[l] /\ called'[l] = called[l]
    BY <1>1, <1>2, <1>3, <1>4, <2>3, <2>6, Touching
  <2>8. ListOK(l)'
    <3>1. Elems(v.list) = {}
      BY <2>4 DEF Elems
    <3>2. ~ TopIs("loop", l)'
      BY <1>4, <2>3 DEF TopIs
    <3>. QED  BY <1>3, <1>4, <2>3, <2>4, <2>7, <3>1, <3>2 DEF ListOK
  <2>9. TellsOnce(l)'
    BY <2>2, <2>4, <2>7 DEF TellsOnce
  <2>10. called[l] = added[l]
    <3>1. x + 0 = x
      BY <1>3
    <3>2. r.length = L /\ x \in 0..L /\ N - c = L - x /\ \A k \in 1..c : called[l][k] = added[l][k]
      BY <1>3, <2>1, <3>1 DEF Calling, Prefix
    <3>3. x >= r.length
      BY <1>2, <1>3, <2>2 DEF InLoop
    <3>4. c \in Nat /\ N \in Nat /\ DOMAIN called[l] = 1..c /\ DOMAIN added[l] = 1..N
      BY <1>3
    <3>. HIDE DEF c, N, x, L
    <3>5. x \in Nat /\ L \in Nat /\ x \in 0..L /\ x >= L /\ N - c = L - x /\ c \in Nat /\ N \in Nat
      BY <1>3, <3>2, <3>3, <3>4 DEF x, L
    <3>6. c = N
      BY <3>5
    <3>. QED  BY <1>3, <3>2, <3>4, <3>5
  <2>11. Rest(l)'
    BY <2>2, <2>4, <2>7, <2>10 DEF Rest, HasFired
  <2>. QED  BY <1>1, <1>2, <1>3, <1>4, <1>6, <2>1, <2>2, <2>3, <2>6, <2>8, <2>9, <2>11, ToldStep DEF Over
<1>. QED  BY <1>3, <1>5, <1>6, Names

----------------------------------------------------------------------------
(* A callback of the page returns *)

\* The loop goes on with the next callback.
LEMMA GoesOn ==
    ASSUME IInv, On("run"), NEW l, Top.at = l, todo' = Tail(todo),
           lists' = [lists EXCEPT ![l].index = @ + 1],
           UNCHANGED <<called, settled, added, lost, ajax, page>>
    PROVE  IInv'
<1>. DEFINE r == lists[l]
            x == r.index
            v == [r EXCEPT !.index = x + 1]
<1>1. Shape(todo) /\ todo # << >> /\ Top.op = "run" /\ "run" \in ListOps /\ l \in Fires \cup {PageList} /\ l \in Lists
  BY ListFrame DEF ListOps
<1>2. Moves(l) /\ TopIs("loop", l)' /\ (In(todo', "loop", l) <=> In(todo, "loop", l))
  BY <1>1, ReturnMoves
<1>3. ListOK(l) /\ r \in Closures(Members(l))
  BY <1>1 DEF IInv, ListsInv, ListOK
<1>4. In(todo, "loop", l) /\ r.firing
  <2>1. In(todo, "loop", l)
    <3>1. /\ Tail(todo) # << >> /\ Head(Tail(todo)).op = "loop" /\ Head(Tail(todo)).at = l /\ Shape(Tail(todo))
          /\ (In(Tail(todo), "loop", l) <=> In(todo, "loop", l))
      BY <1>1, UnderRun
    <3>. QED  BY <3>1, Tops
  <2>. QED  BY <1>3, <2>1 DEF ListOK
<1>5. x \in Int /\ x >= -1
  BY <1>3 DEF ListOK, Closures
<1>6. /\ v \in Closures(Members(l)) /\ v.flags = r.flags /\ v.gone = r.gone /\ v.firing = r.firing /\ v.fired = r.fired
      /\ v.list = r.list /\ v.length = r.length /\ v.memory = r.memory /\ v.emptied = r.emptied /\ v.index = x + 1
      /\ v.single = r.single /\ v.stack = r.stack
  <2>1. x + 1 \in Int
    BY <1>5
  <2>. DEFINE y == x + 1
  <2>. HIDE DEF y
  <2>2. LET w == [r EXCEPT !.index = y] IN
        /\ w \in Closures(Members(l)) /\ w.flags = r.flags /\ w.gone = r.gone /\ w.firing = r.firing /\ w.fired = r.fired
        /\ w.list = r.list /\ w.length = r.length /\ w.memory = r.memory /\ w.emptied = r.emptied /\ w.index = y
        /\ w.single = r.single /\ w.stack = r.stack
    BY <1>3, <2>1 DEF Closures, y
  <2>. QED  BY <2>2 DEF y
<1>7. Touches(l, v, added[l], called[l])
  BY <1>1, SameAt DEF Touches
<1>. HIDE DEF v
<1>8. lists'[l] = v /\ added'[l] = added[l] /\ called'[l] = called[l]
  BY <1>1, <1>2, <1>7, Touching
<1>9. ~ TopIs("loop", l) /\ Running(l) = 1 /\ Running(l)' = 0
  BY <1>1, <1>2 DEF TopIs, On, Running
<1>10. ListOK(l)'
  <2>1. v.index >= -1 /\ v.index >= 0
    BY <1>5, <1>6
  <2>. QED  BY <1>2, <1>3, <1>4, <1>6, <1>8, <2>1 DEF ListOK
<1>11. CASE l = PageList
  <2>. DEFINE s == Elems(called[PageList])
              L == Len(r.list)
  <2>1. PageOK'
    <3>. SUFFICES ASSUME "unique" \in r.flags, ~ r.gone PROVE PageOK'
      BY <1>6, <1>8, <1>11 DEF PageOK
    <3>1. /\ Once(r.list) /\ Once(called[PageList]) /\ s \subseteq Elems(r.list)
          /\ \A i \in DOMAIN r.list : i > x + 1 => r.list[i] \notin s
          /\ ~ r.emptied =>
                /\ r.length = L
                /\ \A i \in DOMAIN r.list : i <= x => r.list[i] \in s
                /\ x + 1 <= L
                /\ \A i \in DOMAIN r.list : i = x + 1 => r.list[i] \in s
      BY <1>4, <1>9, <1>11, PageIs DEF PageOK
    <3>2. DOMAIN r.list = 1..L /\ L \in Nat
      BY <1>11, PageIs
    <3>. HIDE DEF s, x, L
    <3>3. \A i \in 1..L : (i > x + 1 + 0 => i > x + 1) /\ (i <= x + 1 => i <= x \/ i = x + 1)
      <4>1. x \in Int /\ L \in Nat
        BY <1>5, <3>2
      <4>. QED  BY <4>1
    <3>4. x + 1 + 0 = x + 1
      BY <1>5
    <3>5. \A i \in 1..L : i > x + 1 + 0 => r.list[i] \notin s
      BY <3>1, <3>2, <3>3
    <3>6. ~ r.emptied => /\ r.length = L /\ x + 1 + 0 <= L
                         /\ \A i \in 1..L : i <= x + 1 => r.list[i] \in s
      BY <3>1, <3>2, <3>3, <3>4
    <3>. QED  BY ZenonT(30), <1>2, <1>4, <1>6, <1>8, <1>9, <1>11, <3>1, <3>2, <3>5, <3>6 DEF PageOK, s, L
  <2>. QED  BY <1>1, <1>2, <1>7, <1>10, <1>11, <2>1, PageListStep
<1>12. CASE l \in Told
  <2>1. ~ Fresh(l) /\ ~ Gone(l) /\ ~ Prep(l) /\ ~ Rest(l) /\ ~ Stuck(l)
    BY <1>4, <1>9 DEF Fresh, Gone, Prep, Rest, Stuck
  <2>2. Calling(l) /\ TellsOnce(l)
    BY <1>12, <2>1, ToldNow DEF Over, Turning
  <2>3. TellsOnce(l)'
    BY <1>6, <1>8, <2>2 DEF TellsOnce
  <2>4. Calling(l)'
    <3>1. v.index + Running(l)' = r.index + Running(l)
      <4>1. (x + 1) + 0 = x + 1
        BY <1>5
      <4>. QED  BY <1>6, <1>9, <4>1
    <3>2. HasFired(l)' /\ Prefix(l)'
      BY <1>6, <1>8, <2>2 DEF Calling, HasFired, Prefix
    <3>. DEFINE n == r.index + Running(l)
    <3>3. /\ HasFired(l) /\ r.firing /\ In(todo, "loop", l)
          /\ r.length = Len(r.list) /\ n \in 0..Len(r.list)
          /\ Len(added[l]) - Len(called[l]) = Len(r.list) - n
          /\ \A k \in 1..(Len(r.list) - n) : r.list[n + k] = added[l][Len(called[l]) + k]
      BY <2>2 DEF Calling
    <3>4. lists'[l].index + Running(l)' = n
      BY <1>8, <3>1
    <3>5. lists'[l].list = r.list /\ lists'[l].length = r.length /\ lists'[l].firing /\ In(todo', "loop", l)
      BY <1>2, <1>6, <1>8, <3>3
    <3>. DEFINE L == Len(r.list)
                N == Len(added[l])
                c == Len(called[l])
    <3>6. /\ lists'[l].length = L /\ Len(lists'[l].list) = L /\ Len(added'[l]) = N /\ Len(called'[l]) = c
          /\ n \in 0..L /\ N - c = L - n
      BY <1>8, <3>3, <3>5
    <3>7. \A k \in 1..(L - n) : lists'[l].list[n + k] = added'[l][c + k]
      BY <1>8, <3>3, <3>5
    <3>. HIDE DEF n, L, N, c
    <3>. QED  BY <3>2, <3>4, <3>5, <3>6, <3>7 DEF Calling
  <2>. QED  BY <1>1, <1>2, <1>7, <1>10, <1>12, <2>1, <2>3, <2>4, ToldStep DEF Over
<1>. QED  BY <1>1, <1>11, <1>12, Names

\* A callback said false, and the page's list was made to end its loop at that.
LEMMA BreaksOff ==
    ASSUME IInv, On("run"), NEW l, Top.at = l, "stopOnFalse" \in lists[l].flags,
           AfterLoop(l, [lists[l] EXCEPT !.memory = Nothing], Tail(Tail(todo))),
           UNCHANGED <<settled, added, lost, ajax, page>>
    PROVE  IInv'
<1>. DEFINE r == lists[l]
            p == [r EXCEPT !.memory = Nothing]
<1>1. Shape(todo) /\ todo # << >> /\ Top.op = "run" /\ l \in Fires \cup {PageList} /\ l \in Lists
  BY ListFrame DEF ListOps
<1>2. l = PageList
  BY <1>1, ToldNow, Names
<1>3. r \in Closures(Attached) /\ r.firing
  <2>1. /\ Tail(todo) # << >> /\ Head(Tail(todo)).op = "loop" /\ Head(Tail(todo)).at = l /\ Shape(Tail(todo))
        /\ (In(Tail(todo), "loop", l) <=> In(todo, "loop", l))
    BY <1>1, UnderRun
  <2>2. In(todo, "loop", l)
    BY <2>1, Tops
  <2>. QED  BY <1>2, <2>2, PageIs
<1>4. /\ p \in Closures(Attached) /\ p.flags = r.flags /\ p.gone = r.gone /\ p.list = r.list
      /\ p.emptied = r.emptied /\ p.index = r.index /\ p.length = r.length /\ p.memory = Nothing
  <2>1. Nothing \in Datas
    BY DEF Nothing, Data, Datas
  <2>. QED  BY <1>3, <2>1 DEF Closures
<1>5. AfterLoop(PageList, p, Tail(Tail(todo)))
  BY <1>2
<1>. HIDE DEF p
<1>6. Top.at = PageList /\ On("run") /\ "run" \in {"loop", "run"}
  BY <1>2
<1>7. /\ todo' = Tail(Tail(todo)) => Moves(PageList) /\ ~ On("loop")' /\ ~ In(todo', "loop", PageList)
      /\ todo' = <<Frame("loop", PageList, Nothing)>> \o Tail(Tail(todo)) =>
                 Moves(PageList) /\ TopIs("loop", PageList)' /\ In(todo', "loop", PageList)
  BY <1>1, <1>2, BreakMoves
<1>. QED  BY <1>2, <1>3, <1>4, <1>5, <1>6, <1>7, AfterPageLoop

\* beforeSend said false: the request is not to be sent.
LEMMA Refuses ==
    ASSUME IInv, On("page"), Asks(Top), UNCHANGED <<lists, settled, histories, ajax, page>>,
           todo' = <<Frame("install", Top.at, [refused |-> TRUE])>> \o Tail(Tail(todo))
    PROVE  IInv'
<1>1. Shape(todo) /\ todo # << >> /\ Head(todo) = Top /\ Top.op = "page"
  BY RqIs, TopNow
<1>. DEFINE s == Tail(todo)
            f == Frame("install", Top.at, [refused |-> TRUE])
<1>2. s # << >> /\ Head(s).op = "install" /\ Head(s).at = Top.at /\ Head(s) \in Frames
  <2>1. todo \in Seq(Frames)
    BY <1>1 DEF Shape
  <2>2. /\ s \in Seq(Frames) /\ Len(todo) \in Nat /\ Len(todo) > 0 /\ Len(s) = Len(todo) - 1
        /\ (\A i \in 1..Len(s) : s[i] = todo[i + 1]) /\ Head(todo) = todo[1]
    BY <1>1, <2>1, TailIs
  <2>3. 1 \in DOMAIN todo
    BY <2>1, <2>2
  <2>4. 1 < Len(todo) /\ todo[1 + 1].op = "install" /\ todo[1 + 1].at = todo[1].at
    BY <1>1, <2>2, <2>3 DEF Shape
  <2>5. 1 \in 1..Len(s)
    BY <2>2, <2>4
  <2>6. s # << >>
    <3>1. ~ (1 \in 1..Len(<< >>))
      OBVIOUS
    <3>. HIDE DEF s
    <3>. QED  BY <2>5, <3>1
  <2>7. Head(s) = s[1] /\ s[1] \in Frames
    BY <2>2, <2>6, TailIs
  <2>. QED  BY <1>1, <2>2, <2>4, <2>5, <2>6, <2>7
<1>3. Top.at \in Requests
  BY <1>2 DEF Frames, FrameOK, OfRequest, Life
<1>4. f \in Frames /\ f.op = "install" /\ f.at = Top.at
  BY <1>3, OtherFrames DEF Frame
<1>. HIDE DEF f
<1>5. todo' = <<f>> \o Tail(s)
  BY DEF f
<1>6. /\ Shape(s) /\ (\A op, x : In(todo, op, x) <=> (Head(todo).op = op /\ Head(todo).at = x) \/ In(s, op, x))
  BY <1>1, Tops
<1>. HIDE DEF s
<1>7. Fits(f, Tail(s))
  <2>1. \A op \in Counts : ~ In(Tail(s), op, Head(s).at)
    BY <1>2, <1>6, Tops DEF Counts, Life
  <2>. QED  BY <1>2, <1>4, <2>1 DEF Fits, Asks
<1>8. /\ Shape(todo') /\ todo' # << >> /\ Head(todo') = f
      /\ \A op \in Kinds : \A x : In(todo', op, x) <=> \/ f.op = op /\ f.at = x
                                                       \/ In(s, op, x) /\ ~ (Head(s).op = op /\ Head(s).at = x)
      /\ \A x : In(todo', "fire", x) => In(s, "fire", x)
  BY <1>5, <1>2, <1>6, <1>7, Replaced
<1>9. \A op \in Kinds : \A x : In(todo', op, x) <=> In(todo, op, x)
  <2>1. In(s, "install", Top.at) /\ "page" \notin Kinds
    BY <1>2, <1>6, Tops DEF Kinds, Counts, Life, Ends
  <2>. QED  BY <1>1, <1>2, <1>4, <1>6, <1>8, <2>1
<1>10. /\ UNCHANGED <<lists, settled, histories, active, early, ready>> /\ moves' \in Nat /\ rq' = rq
  BY RqIs DEF ajax, page
<1>. QED  BY <1>1, <1>4, <1>6, <1>8, <1>9, <1>10, SameRq, ScriptOnly

\* A callback or a handler of the page returns.
LEMMA StepPageReturns ==
    ASSUME IInv, NEW answer \in BOOLEAN, PageReturns(answer)
    PROVE  IInv'
<1>1. CASE On("run")
  <2>1. PICK l : Top.at = l
    OBVIOUS
  <2>2. Returns(answer) /\ UNCHANGED <<ajax, page>>
    BY <1>1 DEF PageReturns
  <2>3. CASE answer = FALSE /\ "stopOnFalse" \in lists[l].flags
    BY <1>1, <2>1, <2>2, <2>3, BreaksOff DEF Returns
  <2>4. CASE ~ (answer = FALSE /\ "stopOnFalse" \in lists[l].flags)
    <3>1. todo' = Tail(todo)
      BY <1>1, <2>1, <2>2, <2>4, RqIs, TopNow, Tops, Joining DEF Returns, Instead
    <3>2. l \in Lists
      BY <1>1, <2>1, ListFrame DEF ListOps
    <3>3. lists' = [lists EXCEPT ![l].index = @ + 1]
      BY <2>1, <2>2, <2>4 DEF Returns
    <3>. QED  BY <1>1, <2>1, <2>2, <2>4, <3>1, <3>3, GoesOn DEF Returns
  <2>. QED  BY <2>3, <2>4
<1>2. CASE ~ On("run")
  <2>1. On("page") /\ UNCHANGED <<lists, settled, histories, ajax, page>>
    BY <1>2 DEF PageReturns, InPage
  <2>2. CASE Asks(Top) /\ answer = FALSE
    BY <1>2, <2>1, <2>2, Refuses DEF PageReturns, Asks
  <2>3. CASE ~ (Asks(Top) /\ answer = FALSE)
    <3>1. Top.op = "page" /\ todo # << >>
      BY <2>1, RqIs, TopNow
    <3>2. todo' = Tail(todo)
      BY <1>2, <2>3, <3>1 DEF PageReturns, Asks
    <3>3. Top.op \notin Kinds \cup {"run", "ready", "fire", "send", "finish"}
      BY <3>1 DEF Kinds, Counts, Life, Ends
    <3>4. Rest3
      BY <2>1, RqIs, SameRq DEF Rest3, ajax, page
    <3>. QED  BY <3>1, <3>2, <3>3, <3>4, QuietPop
  <2>. QED  BY <2>2, <2>3
<1>. QED  BY <1>1, <1>2

----------------------------------------------------------------------------
(* A callback of the deferred's own *)

Turns(l, e, o) ==
    LET next == [lists[l] EXCEPT !.index = @ + 1] IN
    /\ l = <<e, o>> /\ Turning(e, o) /\ (e = Doc => o = "done")
    /\ \/ /\ lists[l].index = 0
          /\ settled' = [settled EXCEPT ![e] = StateOf(o)] /\ lists' = [lists EXCEPT ![l] = next]
       \/ /\ lists[l].index = 1 /\ settled' = settled
          /\ lists' = [lists EXCEPT ![l] = next, ![<<e, Other(o)>>] = Disabled(@)]
       \/ /\ lists[l].index = 2 /\ settled' = settled
          /\ lists' = [lists EXCEPT ![l] = next, ![<<e, "progress">>] = Locked(@)]

\* A callback of a deferred's own is the one in turn: settle, then disable, then lock.
LEMMA InternalNow ==
    ASSUME IInv, RunInternal, NEW l, Top.at = l
    PROVE  \E e \in Deferreds, o \in {"done", "fail"} : Turns(l, e, o)
<1>. DEFINE r == lists[l]
            x == r.index
            L == Len(r.list)
            g == r.list[x + 1]
<1>1. On("loop") /\ InLoop(r) /\ x < L /\ g.does \in InternalNames
  BY DEF RunInternal, InternalNames
<1>2. /\ l \in Fires \cup {PageList} /\ Running(l) = 0 /\ r.list \in Seq(Members(l)) /\ x \in Nat /\ L \in Nat
      /\ added[l] \in Seq(Attached) /\ called[l] \in Seq(Attached)
      /\ l \in Told => ~ Fresh(l) /\ ~ Gone(l) /\ ~ Rest(l) /\ ~ Stuck(l)
  BY <1>1, LoopNow
<1>3. g \in Members(l) /\ g \notin Attached
  <2>1. x + 1 \in 1..L
    BY <1>1, <1>2
  <2>. QED  BY <1>1, <1>2, <2>1 DEF Attached, Own, InternalNames
<1>4. l \in Told /\ l \in Fires
  BY <1>2, <1>3, Names DEF Members
<1>5. ~ Calling(l)
  <2>. SUFFICES ASSUME Calling(l) PROVE FALSE
    OBVIOUS
  <2>. DEFINE N == Len(added[l])
              c == Len(called[l])
  <2>1. x + Running(l) = x
    BY <1>2
  <2>2. N - c = L - x /\ \A k \in 1..(L - x) : r.list[x + k] = added[l][c + k]
    <3>. HIDE DEF x
    <3>. QED  BY ZenonT(30), <2>1 DEF Calling, x
  <2>3. N \in Nat /\ c \in Nat /\ \A k \in 1..N : added[l][k] \in Attached
    BY <1>2
  <2>. HIDE DEF N, c, L, x
  <2>4. 1 \in 1..(L - x) /\ c + 1 \in 1..N
    BY <1>1, <1>2, <2>2, <2>3
  <2>. QED  BY <1>3, <2>2, <2>3, <2>4 DEF x
<1>6. PICK e \in Deferreds, o \in {"done", "fail"} : l = <<e, o>> /\ Turning(e, o)
  BY <1>2, <1>4, <1>5, ToldNow DEF Over
<1>7. x \in 0..2 /\ r.list = Before(l) \o added[l]
  BY <1>6 DEF Turning, Prep
<1>8. /\ r.list[1] = Callback("settle", e) /\ r.list[2] = Callback("disable", e) /\ r.list[3] = Callback("lock", e)
  <2>1. lists[l].list = Before(l) \o added[l] /\ l = <<e, o>>
    BY <1>6, <1>7
  <2>. HIDE DEF r, x, L, g
  <2>2. /\ lists[l].list[1] = Callback("settle", e) /\ lists[l].list[2] = Callback("disable", e)
        /\ lists[l].list[3] = Callback("lock", e)
    BY <2>1, OwnFirst
  <2>. QED  BY <2>2 DEF r
<1>9. e = Doc => o = "done"
  BY <1>4, <1>6 DEF Fires
<1>10. /\ x = 0 => r.list[x + 1] = Callback("settle", e)
       /\ x = 1 => r.list[x + 1] = Callback("disable", e)
       /\ x = 2 => r.list[x + 1] = Callback("lock", e)
  <2>1. 0 + 1 = 1 /\ 1 + 1 = 2 /\ 2 + 1 = 3
    OBVIOUS
  <2>. QED  BY <1>8, <2>1
<1>11. x = 0 \/ x = 1 \/ x = 2
  BY SMTT(30), <1>7
<1>. DEFINE next == [r EXCEPT !.index = @ + 1]
            S == settled' = [settled EXCEPT ![g.at] = StateOf(l[2])] /\ lists' = [lists EXCEPT ![l] = next]
            D == lists' = [lists EXCEPT ![l] = next, ![<<g.at, Other(l[2])>>] = Disabled(@)] /\ settled' = settled
            K == lists' = [lists EXCEPT ![l] = next, ![<<g.at, "progress">>] = Locked(@)] /\ settled' = settled
<1>12. \/ g.does = "settle" /\ S
       \/ g.does = "disable" /\ D
       \/ g.does = "lock" /\ K
  BY Zenon DEF RunInternal
<1>13. l[1] = e /\ l[2] = o
  BY <1>6
<1>. HIDE DEF S, D, K, next
<1>14. \/ x = 0 /\ S /\ g.at = e
       \/ x = 1 /\ D /\ g.at = e
       \/ x = 2 /\ K /\ g.at = e
  <2>. HIDE DEF x, L
  <2>1. CASE x = 0
    BY <1>10, <1>12, <2>1 DEF Callback
  <2>2. CASE x = 1
    BY <1>10, <1>12, <2>2 DEF Callback
  <2>3. CASE x = 2
    BY <1>10, <1>12, <2>3 DEF Callback
  <2>. QED  BY <1>11, <2>1, <2>2, <2>3
<1>. HIDE DEF g
<1>15. \/ x = 0 /\ settled' = [settled EXCEPT ![e] = StateOf(o)] /\ lists' = [lists EXCEPT ![l] = next]
       \/ x = 1 /\ settled' = settled /\ lists' = [lists EXCEPT ![l] = next, ![<<e, Other(o)>>] = Disabled(@)]
       \/ x = 2 /\ settled' = settled /\ lists' = [lists EXCEPT ![l] = next, ![<<e, "progress">>] = Locked(@)]
  BY <1>13, <1>14 DEF S, D, K
<1>16. Turns(l, e, o)
  BY <1>6, <1>9, <1>15 DEF Turns, next
<1>. QED  BY SMTT(30), <1>16

\* The third of them is the last: what follows are the callbacks of the page.
LEMMA OwnThrough ==
    ASSUME IInv, NEW e \in Deferreds, NEW o \in {"done", "fail"}, NEW l, l = <<e, o>>, Prep(l), lists[l].index = 2,
           lists'[l].list = lists[l].list, lists'[l].length = lists[l].length, lists'[l].index = 3, lists'[l].firing,
           added'[l] = added[l], called'[l] = called[l], Running(l)' = 0, In(todo', "loop", l), HasFired(l)'
    PROVE  Calling(l)'
<1>. DEFINE r == lists[l]
            N == Len(added[l])
<1>1. r.list = Before(l) \o added[l] /\ called[l] = << >> /\ r.length = Len(r.list)
  BY DEF Prep
<1>2. Len(r.list) = N + 3 /\ N \in Nat /\ Follows(r.list, added[l])
  BY <1>1, OwnFirst
<1>3. Prefix(l)'
  <2>1. Len(<< >>) = 0 /\ 0 <= N /\ \A k \in 1..0 : FALSE
    BY <1>2
  <2>. QED  BY <1>1, <2>1 DEF Prefix
<1>4. lists'[l].length = N + 3 /\ Len(lists'[l].list) = N + 3 /\ Len(added'[l]) = N /\ Len(called'[l]) = 0
  <2>1. Len(<< >>) = 0
    OBVIOUS
  <2>. QED  BY <1>1, <1>2, <2>1
<1>5. /\ 3 + 0 \in 0..(N + 3) /\ N - 0 = (N + 3) - (3 + 0)
      /\ \A k \in 1..((N + 3) - (3 + 0)) : k \in 1..N /\ 0 + k = k /\ 3 + 0 + k = 3 + k
  <2>. HIDE DEF N
  <2>. QED  BY <1>2
<1>6. ASSUME NEW k \in 1..((N + 3) - (3 + 0))
      PROVE  lists'[l].list[3 + 0 + k] = added'[l][0 + k]
  <2>1. k \in 1..Len(added[l]) /\ 0 + k = k /\ 3 + 0 + k = 3 + k
    BY <1>5
  <2>2. r.list[3 + k] = added[l][k]
    BY <1>2, <2>1 DEF Follows
  <2>. QED  BY <2>1, <2>2
<1>7. lists'[l].index = 3 /\ Running(l)' = 0 /\ lists'[l].firing /\ HasFired(l)' /\ In(todo', "loop", l)
  OBVIOUS
<1>8. \A k \in 1..((N + 3) - (3 + 0)) : lists'[l].list[3 + 0 + k] = added'[l][0 + k]
  BY <1>6
<1>. HIDE DEF r, N
<1>9. /\ lists'[l].length = Len(lists'[l].list)
      /\ lists'[l].index + Running(l)' \in 0..Len(lists'[l].list)
      /\ Len(added'[l]) - Len(called'[l]) = Len(lists'[l].list) - (lists'[l].index + Running(l)')
  BY <1>4, <1>5, <1>7
<1>10. \A k \in 1..(Len(lists'[l].list) - (lists'[l].index + Running(l)')) :
          lists'[l].list[lists'[l].index + Running(l)' + k] = added'[l][Len(called'[l]) + k]
  <2>. DEFINE n == lists'[l].index + Running(l)'
              L == Len(lists'[l].list)
              c == Len(called'[l])
  <2>1. n = 3 + 0 /\ L = N + 3 /\ c = 0
    BY <1>4, <1>7
  <2>. HIDE DEF n, L, c
  <2>2. \A k \in 1..(L - n) : lists'[l].list[n + k] = added'[l][c + k]
    BY <1>8, <2>1
  <2>. QED  BY <2>2 DEF n, L, c
<1>. QED  BY <1>3, <1>7, <1>9, <1>10 DEF Calling

\* What every one of the three does.
Advances(l) == /\ On("loop") /\ Top.at = l /\ todo' = todo /\ UNCHANGED <<histories, ajax, page>>
               /\ lists' = [m \in Lists |-> lists'[m]]
               /\ lists'[l] = [lists[l] EXCEPT !.index = @ + 1]

\* The list after one of these.
LEMMA Advanced ==
    ASSUME IInv, NEW e \in Deferreds, NEW o \in {"done", "fail"}, NEW l, l = <<e, o>>, Turning(e, o), Advances(l)
    PROVE  /\ ListOK(l)' /\ TellsOnce(l)' /\ HasFired(l)' /\ lists'[l].firing /\ TopIs("loop", l)' /\ In(todo', "loop", l)
           /\ lists'[l].list = lists[l].list /\ lists'[l].length = lists[l].length /\ lists'[l].index = lists[l].index + 1
           /\ lists[l].index \in 0..2 /\ added'[l] = added[l] /\ called'[l] = called[l] /\ Running(l)' = 0
           /\ lists[l].index < 2 => Prep(l)'
<1>. DEFINE r == lists[l]
            x == r.index
            y == x + 1
<1>1. Prep(l) /\ ListOK(l) /\ TellsOnce(l) /\ r \in Closures(Members(l)) /\ x \in 0..2
  BY Names DEF Turning, Prep, IInv, ListsInv, ListOK
<1>2. HasFired(l) /\ r.firing /\ TopIs("loop", l) /\ In(todo, "loop", l)
  BY <1>1, LoopNow DEF Prep, Advances
<1>3. y \in Int /\ y >= -1 /\ y >= 0
  BY <1>1
<1>. HIDE DEF y
<1>4. LET w == [r EXCEPT !.index = y] IN
      /\ w \in Closures(Members(l)) /\ w.flags = r.flags /\ w.gone = r.gone /\ w.firing = r.firing /\ w.fired = r.fired
      /\ w.list = r.list /\ w.length = r.length /\ w.memory = r.memory /\ w.index = y
      /\ w.single = r.single /\ w.stack = r.stack
  BY <1>1, <1>3 DEF Closures
<1>. DEFINE v == [r EXCEPT !.index = y]
<1>. HIDE DEF v
<1>5. /\ v \in Closures(Members(l)) /\ v.flags = r.flags /\ v.gone = r.gone /\ v.firing = r.firing /\ v.fired = r.fired
      /\ v.list = r.list /\ v.length = r.length /\ v.memory = r.memory /\ v.index = y
      /\ v.single = r.single /\ v.stack = r.stack
  BY <1>4 DEF v
<1>6. lists'[l] = v /\ added' = added /\ called' = called /\ todo' = todo
  BY DEF Advances, histories, v, y
<1>7. TopIs("loop", l)' /\ In(todo', "loop", l)
  BY <1>2, <1>6 DEF TopIs, On, Idle, Top
<1>8. Running(l)' = 0
  BY <1>7 DEF Running
<1>9. ListOK(l)'
  BY <1>1, <1>2, <1>3, <1>5, <1>6, <1>7 DEF ListOK
<1>10. TellsOnce(l)' /\ HasFired(l)'
  BY <1>1, <1>2, <1>5, <1>6 DEF TellsOnce, HasFired
<1>11. x < 2 => Prep(l)'
  <2>1. HAVE x < 2
  <2>2. y \in 0..2
    BY <1>1, <2>1 DEF y
  <2>. QED  BY <1>1, <1>2, <1>5, <1>6, <1>7, <1>10, <2>2 DEF Prep
<1>. QED  BY <1>1, <1>2, <1>5, <1>6, <1>7, <1>8, <1>9, <1>10, <1>11 DEF y

\* One of these keeps the invariant if it leaves the other lists of the deferred well.
LEMMA InternalStep ==
    ASSUME IInv, NEW e \in Deferreds, NEW o \in {"done", "fail"}, NEW l, l = <<e, o>>, Turning(e, o), Advances(l),
           e = Doc => o = "done",
           \A m \in Lists : m \notin {<<e, "done">>, <<e, "fail">>, <<e, "progress">>} => lists'[m] = lists[m],
           ListOK(<<e, Other(o)>>)', TellsOnce(<<e, Other(o)>>)', ListOK(<<e, "progress">>)',
           settled' \in [Deferreds -> {"pending", "resolved", "rejected"}],
           \A d \in Deferreds : d # e => settled'[d] = settled[d], settled'[e] = StateOf(o), DeferredOK(e)'
    PROVE  IInv'
<1>1. Shape(todo) /\ todo # << >> /\ Top.op = "loop" /\ "loop" \in ListOps /\ On("loop") /\ Top.at = l /\ l \in Lists
  BY LoopNow DEF Advances
<1>2. todo' = todo /\ UNCHANGED <<histories, ajax, page>> /\ added' = added /\ called' = called /\ lost' = lost
  BY DEF Advances, histories
<1>3. Moves(l) /\ Top' = Top /\ \A op : On(op)' <=> On(op)
  BY <1>1, <1>2, StayMoves
<1>4. RequestsInv' /\ moves' \in Nat /\ ready' = ready /\ Shape(todo')
  BY <1>1, <1>2, <1>3, MovesKeep
<1>5. \A m \in Lists : m \in {<<e, "done">>, <<e, "fail">>, <<e, "progress">>} \/ Same(m)
  BY <1>2, <1>3 DEF Same, TopIs
<1>6. ListOK(l)' /\ TellsOnce(l)' /\ TopIs("loop", l)'
  BY Advanced
<1>7. \A name \in {"done", "fail"} : name = o \/ name = Other(o)
  BY DEF Other
<1>8. \A name \in {"done", "fail", "progress"} : ListOK(<<e, name>>)'
  BY <1>6, <1>7
<1>9. \A name \in {"done", "fail"} : TellsOnce(<<e, name>>)'
  BY <1>6, <1>7
<1>10. /\ lists' = [m \in Lists |-> lists'[m]] /\ ListsInv
       /\ added' = [m \in Lists |-> added'[m]] /\ called' = [m \in Lists |-> called'[m]]
  BY <1>2 DEF Advances, IInv, ListsInv
<1>11. ListsInv'
  BY <1>5, <1>8, <1>9, <1>10, OneDeferred
<1>12. ReadyInv'
  <2>1. e = Doc => settled'[Doc] = "resolved"
    BY DEF StateOf
  <2>2. e # Doc => settled'[Doc] = settled[Doc]
    BY Names
  <2>3. settled'[Doc] # "rejected"
    BY <2>1, <2>2, DocIs
  <2>4. l # DoneList => e # Doc
    BY DEF DoneList
  <2>5. l = DoneList => e = Doc
    BY DEF DoneList
  <2>6. l = DoneList => isReady
    <3>1. ~ Fresh(l)
      BY DEF Turning, Prep, Fresh, HasFired
    <3>. QED  BY <3>1, DoneListIs
  <2>. QED  BY <1>1, <1>3, <1>4, <1>6, <2>1, <2>2, <2>3, <2>4, <2>5, <2>6, ReadyMoves
<1>. QED  BY <1>4, <1>11, <1>12 DEF IInv

\* A callback of a deferred's own runs.
LEMMA StepRunInternal ==
    ASSUME IInv, RunInternal, UNCHANGED <<ajax, page>> PROVE IInv'
<1>1. PICK l : Top.at = l
  OBVIOUS
<1>2. PICK e \in Deferreds, o \in {"done", "fail"} : Turns(l, e, o)
  BY <1>1, InternalNow
<1>. DEFINE r == lists[l]
            x == r.index
            v == [r EXCEPT !.index = @ + 1]
            k == <<e, Other(o)>>
            p == <<e, "progress">>
<1>3. e \in Deferreds /\ o \in {"done", "fail"} /\ l = <<e, o>> /\ Turning(e, o) /\ (e = Doc => o = "done")
  BY <1>2 DEF Turns
<1>4. /\ k \in Lists /\ k \in Told /\ l \in Lists /\ p \in Lists /\ k # l /\ p # l /\ k # p
      /\ lists = [m \in Lists |-> lists[m]] /\ ListOK(k) /\ TellsOnce(k) /\ ListOK(p)
      /\ settled \in [Deferreds -> {"pending", "resolved", "rejected"}]
  BY SMTT(30), <1>3, Names DEF Other, IInv, ListsInv
<1>5. On("loop") /\ todo' = todo /\ UNCHANGED <<histories, ajax, page>> /\ added' = added /\ called' = called
  BY Zenon DEF RunInternal, histories
<1>6. \A m : TopIs("loop", m) => m = l
  BY <1>1 DEF TopIs
<1>7. \A m : (TopIs("loop", m)' <=> TopIs("loop", m)) /\ (In(todo', "loop", m) <=> In(todo, "loop", m))
  BY <1>5 DEF TopIs, On, Idle, Top
<1>8. {<<e, "done">>, <<e, "fail">>, <<e, "progress">>} = {l, k, p} /\ StateOf(o) \in {"resolved", "rejected"}
  BY <1>3 DEF Other, StateOf
<1>9. settled[e] = IF x = 0 THEN "pending" ELSE StateOf(o)
  BY <1>3 DEF Turning
<1>10. IF x = 2 THEN Gone(k) ELSE Fresh(k)
  BY <1>3 DEF Turning
<1>11. \/ x = 0 /\ settled' = [settled EXCEPT ![e] = StateOf(o)] /\ lists' = [lists EXCEPT ![l] = v]
       \/ x = 1 /\ settled' = settled /\ lists' = [[lists EXCEPT ![l] = v] EXCEPT ![k] = Disabled(lists[k])]
       \/ x = 2 /\ settled' = settled /\ lists' = [[lists EXCEPT ![l] = v] EXCEPT ![p] = Locked(lists[p])]
  BY <1>2, <1>4 DEF Turns
<1>. DEFINE f == [lists EXCEPT ![l] = v]
<1>12. f = [m \in Lists |-> f[m]] /\ f[l] = v /\ \A m \in Lists : m # l => f[m] = lists[m]
  <2>. HIDE DEF v
  <2>. QED  BY <1>4, Updated
<1>. HIDE DEF f, k, p
<1>13. CASE x = 0
  <2>1. settled' = [settled EXCEPT ![e] = StateOf(o)] /\ lists' = f
    BY <1>11, <1>13 DEF f
  <2>2. Advances(l)
    BY <1>1, <1>5, <1>12, <2>1 DEF Advances
  <2>3. Same(k) /\ Same(p)
    BY <1>4, <1>5, <1>7, <1>12, <2>1 DEF Same
  <2>4. ListOK(k)' /\ TellsOnce(k)' /\ ListOK(p)' /\ Fresh(k)'
    BY <1>4, <1>10, <1>13, <2>3, SameList
  <2>5. /\ settled' \in [Deferreds -> {"pending", "resolved", "rejected"}] /\ settled'[e] = StateOf(o)
        /\ \A d \in Deferreds : d # e => settled'[d] = settled[d]
    BY <1>3, <1>4, <1>8, <2>1
  <2>6. Prep(l)' /\ lists'[l].index = 1
    BY <1>3, <1>13, <2>2, Advanced
  <2>7. Turning(e, o)'
    BY <1>3, <2>4, <2>5, <2>6 DEF Turning, k
  <2>8. \A m \in Lists : m \notin {<<e, "done">>, <<e, "fail">>, <<e, "progress">>} => lists'[m] = lists[m]
    BY <1>8, <1>12, <2>1
  <2>. QED  BY <1>3, <2>2, <2>4, <2>5, <2>7, <2>8, InternalStep DEF DeferredOK, k, p
<1>14. CASE x = 1
  <2>. DEFINE w == Disabled(lists[k])
  <2>1. settled' = settled /\ lists' = [f EXCEPT ![k] = w]
    BY <1>11, <1>14 DEF f
  <2>2. /\ w \in Closures(Members(k)) /\ w.list = << >> /\ w.gone /\ w.single /\ w.stack = << >> /\ w.memory = Nothing
        /\ w.flags = lists[k].flags /\ w.firing = lists[k].firing /\ w.index = lists[k].index /\ w.length = lists[k].length
    BY <1>4, DisabledIs DEF ListOK
  <2>. HIDE DEF w
  <2>3. lists' = [m \in Lists |-> lists'[m]] /\ lists'[k] = w /\ \A m \in Lists : m # k => lists'[m] = f[m]
    BY <1>4, <1>12, <2>1, Updated
  <2>4. Advances(l)
    BY <1>1, <1>4, <1>5, <1>12, <2>3 DEF Advances
  <2>5. Same(p) /\ ListOK(p)'
    <3>1. Same(p)
      BY <1>4, <1>5, <1>7, <1>12, <2>3 DEF Same
    <3>. QED  BY <1>4, <3>1, SameList
  <2>6. Fresh(k)
    BY <1>10, <1>14
  <2>7. ListOK(k)' /\ TellsOnce(k)' /\ Gone(k)'
    <3>1. Elems(w.list) = {}
      BY <2>2 DEF Elems
    <3>2. ~ w.firing /\ called'[k] = << >>
      BY <1>5, <2>2, <2>6 DEF Fresh
    <3>3. ~ TopIs("loop", k)' /\ ~ In(todo', "loop", k)
      BY <1>4, <1>6, <1>7, <2>6 DEF ListOK, Fresh
    <3>4. ListOK(k)'
      BY <1>4, <1>5, <2>2, <2>3, <3>1, <3>2, <3>3 DEF ListOK
    <3>. QED  BY <2>2, <2>3, <3>2, <3>4 DEF TellsOnce, Gone
  <2>8. Prep(l)' /\ lists'[l].index = 2
    BY <1>3, <1>14, <2>4, Advanced
  <2>9. settled'[e] = StateOf(o) /\ settled' = settled
    BY <1>9, <1>14, <2>1
  <2>10. Turning(e, o)'
    BY <1>3, <2>7, <2>8, <2>9 DEF Turning, k
  <2>11. \A m \in Lists : m \notin {<<e, "done">>, <<e, "fail">>, <<e, "progress">>} => lists'[m] = lists[m]
    BY <1>8, <1>12, <2>3
  <2>. QED  BY <1>3, <1>4, <2>4, <2>5, <2>7, <2>9, <2>10, <2>11, InternalStep DEF DeferredOK, k, p
<1>15. CASE x = 2
  <2>. DEFINE w == Locked(lists[p])
  <2>1. settled' = settled /\ lists' = [f EXCEPT ![p] = w]
    BY <1>11, <1>15 DEF f
  <2>2. /\ w \in Closures(Members(p)) /\ w.flags = lists[p].flags /\ w.firing = lists[p].firing
        /\ w.index = lists[p].index /\ w.length = lists[p].length
        /\ w.list = << >> \/ w.list = lists[p].list
    BY <1>4, LockedIs DEF ListOK
  <2>. HIDE DEF w
  <2>3. lists' = [m \in Lists |-> lists'[m]] /\ lists'[p] = w /\ \A m \in Lists : m # p => lists'[m] = f[m]
    BY <1>4, <1>12, <2>1, Updated
  <2>4. Advances(l)
    BY <1>1, <1>4, <1>5, <1>12, <2>3 DEF Advances
  <2>5. ListOK(k)' /\ TellsOnce(k)' /\ Gone(k)'
    <3>1. Same(k)
      BY <1>4, <1>5, <1>7, <1>12, <2>3 DEF Same
    <3>. QED  BY <1>4, <1>10, <1>15, <3>1, SameList
  <2>6. ListOK(p)'
    <3>1. Elems(<< >>) = {} /\ Len(<< >>) = 0
      BY DEF Elems
    <3>2. Elems(w.list) \subseteq Elems(lists[p].list)
      BY <2>2, <3>1
    <3>3. w.firing => Len(w.list) <= w.length
      <4>1. w.length \in Nat
        BY <2>2 DEF Closures
      <4>2. 0 <= w.length
        BY <4>1
      <4>. QED  BY <1>4, <2>2, <3>1, <4>2 DEF ListOK
    <3>4. ~ TopIs("loop", p)'
      BY <1>4, <1>6, <1>7
    <3>. QED  BY <1>4, <1>5, <1>7, <2>2, <2>3, <3>2, <3>3, <3>4 DEF ListOK
  <2>7. Calling(l)'
    <3>1. /\ HasFired(l)' /\ lists'[l].firing /\ In(todo', "loop", l) /\ Running(l)' = 0
          /\ lists'[l].list = lists[l].list /\ lists'[l].length = lists[l].length /\ lists'[l].index = x + 1
          /\ added'[l] = added[l] /\ called'[l] = called[l]
      BY <1>3, <2>4, Advanced
    <3>2. lists'[l].index = 3
      BY <1>15, <3>1
    <3>3. Prep(l)
      BY <1>3 DEF Turning
    <3>. QED  BY <1>3, <1>15, <3>1, <3>2, <3>3, OwnThrough
  <2>8. settled'[e] = StateOf(o) /\ settled' = settled
    BY <1>9, <1>15, <2>1
  <2>9. Turned(e, o)'
    BY <1>3, <2>5, <2>7, <2>8 DEF Turned, Over, k
  <2>10. \A m \in Lists : m \notin {<<e, "done">>, <<e, "fail">>, <<e, "progress">>} => lists'[m] = lists[m]
    BY <1>8, <1>12, <2>3
  <2>. QED  BY <1>3, <1>4, <2>4, <2>5, <2>6, <2>8, <2>9, <2>10, InternalStep DEF DeferredOK, k, p
<1>. QED  BY <1>11, <1>13, <1>14, <1>15

----------------------------------------------------------------------------
(* The invariant *)

\* A list as it is made.
NewOne(q, A, flags, s) ==
    /\ q \in Closures(A) /\ q.flags = flags /\ q.list = s /\ ~ q.gone /\ q.stack = << >>
    /\ q.single = ("once" \in flags)
    /\ q.memory = Nothing /\ ~ q.fired /\ ~ q.firing /\ q.index = 0 /\ ~ q.emptied

\* A list as jQuery.Callbacks makes it.
LEMMA NewListIs ==
    ASSUME NEW A, NEW flags \in SUBSET {"once", "memory", "unique", "stopOnFalse"}, NEW s \in Seq(A)
    PROVE  NewOne(NewList(flags, s), A, flags, s)
<1>. DEFINE b == "once" \in flags
            q == NewList(flags, s)
<1>1. b \in BOOLEAN /\ Nothing \in Datas /\ << >> \in Seq(Datas) /\ 0 \in Nat /\ 0 \in Int
  BY DEF Datas, Nothing, Data
<1>2. q = [flags |-> flags, list |-> s, gone |-> FALSE, stack |-> << >>, single |-> b,
           memory |-> Nothing, fired |-> FALSE, firing |-> FALSE, length |-> 0, index |-> 0, emptied |-> FALSE]
  BY DEF NewList
<1>3. q.single = b
  <2>. HIDE DEF b
  <2>. QED  BY <1>2
<1>. HIDE DEF b, q
<1>4. /\ q \in Closures(A) /\ q.flags = flags /\ q.list = s /\ ~ q.gone /\ q.stack = << >>
      /\ q.memory = Nothing /\ ~ q.fired /\ ~ q.firing /\ q.index = 0 /\ ~ q.emptied
  BY <1>1, <1>2 DEF Closures
<1>5. q.single = ("once" \in flags)
  BY <1>3 DEF b
<1>6. NewOne(q, A, flags, s)
  BY <1>4, <1>5 DEF NewOne
<1>. QED  BY <1>6 DEF q

\* The lists as a new script finds them.
LEMMA InitList ==
    ASSUME Init, NEW l \in Lists
    PROVE  /\ NewOne(lists[l], Members(l), FlagsOf(l), IF l[1] \in Deferreds THEN Before(l) ELSE InitialList)
           /\ called[l] = << >> /\ added[l] = (IF l[1] \in Deferreds THEN << >> ELSE InitialList)
<1>1. lists[l] = IF l[2] \in {"done", "fail", "progress"}
                 THEN NewDeferred(l[1], l[2])
                 ELSE NewList(Flags[l], IF l[1] \in Deferreds THEN << >> ELSE InitialList)
  BY DEF Init, CallbacksInit
<1>2. called[l] = << >> /\ added[l] = (IF l[1] \in Deferreds THEN << >> ELSE InitialList)
  BY DEF Init, CallbacksInit
<1>3. InitialList \in Seq(Attached)
  <2>1. \A r \in Requests : Callback("own", r) \in Attached
    BY Names DEF Callback, Attached, Own
  <2>2. {Callback("own", r) : r \in Requests} \subseteq Attached
    BY <2>1
  <2>. DEFINE B == {Callback("own", r) : r \in Requests}
  <2>3. InitialList \in Seq(B)
    BY ListsAssumption
  <2>. HIDE DEF B
  <2>. QED  BY <2>2, <2>3 DEF B
<1>4. CASE l[2] \in {"done", "fail", "progress"}
  <2>1. l[1] \in Deferreds /\ l # PageList
    BY <1>4, Names DEF Told, PageList
  <2>. DEFINE flags == {"memory"} \cup IF l[2] = "progress" THEN {} ELSE {"once"}
              s == Internal(l[1], l[2])
  <2>2. flags = FlagsOf(l) /\ flags \in SUBSET {"once", "memory", "unique", "stopOnFalse"}
    BY <1>4 DEF FlagsOf
  <2>3. s = Before(l)
    BY <1>4 DEF Internal, Before
  <2>4. s \in Seq(Members(l))
    <3>. DEFINE M == Members(l)
    <3>1. \A name \in InternalNames : Callback(name, l[1]) \in M
      BY <2>1 DEF Members, Callback
    <3>2. Callback("settle", l[1]) \in M /\ Callback("disable", l[1]) \in M /\ Callback("lock", l[1]) \in M
      BY <3>1 DEF InternalNames
    <3>. HIDE DEF M
    <3>3. <<Callback("settle", l[1]), Callback("disable", l[1]), Callback("lock", l[1])>> \in Seq(M) /\ << >> \in Seq(M)
      BY <3>2
    <3>4. s \in Seq(M)
      BY <3>3 DEF Internal
    <3>. QED  BY <3>4 DEF M
  <2>5. lists[l] = NewList(flags, s)
    BY <1>1, <1>4 DEF NewDeferred
  <2>6. s = IF l[1] \in Deferreds THEN Before(l) ELSE InitialList
    BY <2>1, <2>3
  <2>. HIDE DEF flags, s
  <2>7. NewOne(lists[l], Members(l), flags, s)
    BY <2>2, <2>4, <2>5, NewListIs
  <2>. QED  BY <1>2, <2>2, <2>6, <2>7
<1>5. CASE l[2] \notin {"done", "fail", "progress"}
  <2>. DEFINE s == IF l[1] \in Deferreds THEN << >> ELSE InitialList
  <2>1. Flags[l] = FlagsOf(l) /\ Before(l) = << >> /\ Flags[l] \in SUBSET {"once", "memory", "unique", "stopOnFalse"}
    BY <1>5, ListsAssumption DEF FlagsOf, Before
  <2>2. s \in Seq(Members(l))
    <3>1. Attached \subseteq Members(l)
      BY DEF Members
    <3>. HIDE DEF s
    <3>2. << >> \in Seq(Members(l)) /\ InitialList \in Seq(Members(l))
      BY <1>3, <3>1
    <3>. QED  BY <3>2 DEF s
  <2>3. lists[l] = NewList(Flags[l], s)
    BY <1>1, <1>5
  <2>4. s = IF l[1] \in Deferreds THEN Before(l) ELSE InitialList
    BY <2>1
  <2>. HIDE DEF s
  <2>5. NewOne(lists[l], Members(l), Flags[l], s)
    BY <2>1, <2>2, <2>3, NewListIs
  <2>. QED  BY <1>2, <2>1, <2>4, <2>5
<1>. QED  BY <1>4, <1>5

\* The invariant of the lists holds at first.
LEMMA InitLists ==
    ASSUME Init
    PROVE  ListsInv
<1>1. /\ lists = [l \in Lists |-> lists[l]] /\ added = [l \in Lists |-> added[l]] /\ called = [l \in Lists |-> called[l]]
      /\ settled \in [Deferreds -> {"pending", "resolved", "rejected"}] /\ todo = << >>
      /\ \A d \in Deferreds : settled[d] = "pending"
  BY DEF Init, CallbacksInit
<1>2. \A op, x : ~ In(todo, op, x) /\ ~ TopIs(op, x)
  BY <1>1 DEF In, TopIs, On, Idle
<1>3. Elems(<< >>) = {} /\ << >> \in Seq(Attached) /\ Once(<< >>)
  BY DEF Elems, Once
<1>4. InitialList \in Seq(Attached) /\ Once(InitialList)
  <2>1. \A r \in Requests : Callback("own", r) \in Attached
    BY Names DEF Callback, Attached, Own
  <2>. DEFINE B == {Callback("own", r) : r \in Requests}
  <2>2. InitialList \in Seq(B) /\ B \subseteq Attached
    BY <2>1, ListsAssumption
  <2>. HIDE DEF B
  <2>3. InitialList \in Seq(Attached)
    BY <2>2
  <2>. QED  BY <2>3, ListsAssumption DEF Once
<1>5. ASSUME NEW l \in Lists
      PROVE  ListOK(l)
  <2>1. added[l] \in Seq(Attached) /\ called[l] \in Seq(Attached)
    BY <1>3, <1>4, InitList DEF NewOne
  <2>2. \A f \in Elems(lists[l].list) : f.does \in InternalNames \/ f \in Elems(added[l])
    <3>1. CASE l[1] \in Deferreds
      <4>1. lists[l].list = Before(l)
        BY <3>1, InitList DEF NewOne
      <4>2. \A f \in Elems(Before(l)) : f.does \in InternalNames
        BY <1>3 DEF Before, Internal, Elems, Callback, InternalNames
      <4>. QED  BY <4>1, <4>2
    <3>2. CASE l[1] \notin Deferreds
      BY <3>2, InitList DEF NewOne
    <3>. QED  BY <3>1, <3>2
  <2>3. lists[l].index >= -1
    BY InitList DEF NewOne
  <2>. QED  BY <1>2, <2>1, <2>2, <2>3, InitList DEF ListOK, NewOne
<1>6. ASSUME NEW l \in Told
      PROVE  TellsOnce(l) /\ Fresh(l)
  <2>1. l \in Lists /\ l[1] \in Deferreds /\ FlagsOf(l) = {"once", "memory"}
    BY Names, ListsAssumption DEF Told, FlagsOf
  <2>2. lists[l].list = Before(l) /\ added[l] = << >>
    BY <2>1, InitList DEF NewOne
  <2>3. Before(l) \o << >> = Before(l)
    BY DEF Before, Internal
  <2>. QED  BY <2>1, <2>2, <2>3, InitList DEF TellsOnce, Fresh, NewOne
<1>7. \A d \in Deferreds : DeferredOK(d)
  BY <1>1, <1>6, Names DEF DeferredOK, Open
<1>8. \A r \in Requests : CompleteOK(r)
  BY <1>6, Names DEF CompleteOK
<1>9. PageOK
  <2>1. PageList \in Lists /\ PageList[1] \notin Deferreds
    BY Names
  <2>2. lists[PageList].list = InitialList /\ called[PageList] = << >> /\ ~ lists[PageList].firing /\ lists[PageList].memory = Nothing
    BY <2>1, InitList DEF NewOne
  <2>. QED  BY <1>3, <1>4, <2>2 DEF PageOK
<1>. QED  BY <1>1, <1>5, <1>6, <1>7, <1>8, <1>9 DEF ListsInv

\* The invariant holds at first.
LEMMA InvInit ==
    ASSUME Init
    PROVE  IInv
<1>1. todo = << >> /\ lost = {} /\ settled = [d \in Deferreds |-> "pending"]
  BY DEF Init, CallbacksInit
<1>2. \A op, x : ~ In(todo, op, x) /\ ~ TopIs(op, x) /\ ~ On(op)
  BY <1>1 DEF In, TopIs, On, Idle
<1>3. Shape(todo)
  BY <1>1 DEF Shape
<1>4. rq = [r \in Requests |-> NewRequest] /\ active = 0 /\ moves = 0 /\ early = {}
  BY DEF Init
<1>5. NewRequest \in Variables /\ ~ NewRequest.counted /\ ~ NewRequest.posted
  BY DEF NewRequest, Variables, Texts
<1>6. \A r \in Requests : RqOK(r)
  BY <1>1, <1>2, <1>4, <1>5 DEF RqOK
<1>7. UnderWay = {} /\ ToUncount = {} /\ LostOnes = {}
  BY <1>1, <1>2, <1>4, <1>5 DEF UnderWay, ToUncount, LostOnes
<1>8. Cardinality({}) = 0 /\ 0 + 0 + 0 - 0 = 0
  BY FS_EmptySet
<1>9. active = Cardinality(UnderWay) + Cardinality(ToUncount) + Cardinality(LostOnes) - Cardinality(early)
  BY <1>4, <1>7, <1>8
<1>10. RequestsInv
  BY <1>4, <1>6, <1>9 DEF RequestsInv
<1>11. ReadyInv
  <2>1. /\ readyState = "loading" /\ calledBy = {} /\ readyList = FALSE
        /\ isReady = FALSE /\ readyWait = 1 /\ held = 0
    BY DEF Init, ReadyInit
  <2>2. ~ TopReady(TRUE) /\ ~ TopReady(FALSE)
    BY <1>2 DEF TopReady
  <2>3. settled[Doc] = "pending"
    BY <1>1, Names
  <2>4. ReadyCounts
    <3>1. (IF isReady THEN 0 ELSE 1) = 1 /\ (IF TopReady(TRUE) THEN 1 ELSE 0) = 0
      BY <2>1, <2>2
    <3>2. 1 = 0 + 1 + 0
      OBVIOUS
    <3>3. readyWait = held + (IF isReady THEN 0 ELSE 1) + (IF TopReady(TRUE) THEN 1 ELSE 0)
      BY <2>1, <3>1, <3>2
    <3>4. held \in Nat /\ readyWait \in Int
      <4>1. 0 \in Nat /\ 1 \in Int
        OBVIOUS
      <4>. QED  BY <2>1, <4>1
    <3>5. isReady \in BOOLEAN
      BY <2>1, Zenon
    <3>. QED  BY <3>3, <3>4, <3>5 DEF ReadyCounts
  <2>5. ReadyEvents
    BY <1>2, <2>1, <2>2, <2>3 DEF ReadyEvents
  <2>. QED  BY <2>4, <2>5 DEF ReadyInv
<1>12. ListsInv
  BY InitLists
<1>13. moves \in Nat
  BY <1>4
<1>. QED  BY <1>3, <1>10, <1>11, <1>12, <1>13 DEF IInv

\* The invariant is kept by every step.
LEMMA InvNext ==
    ASSUME IInv, [Next]_vars
    PROVE  IInv'
<1>1. CASE Library
  <2>1. CASE CallbackStep /\ UNCHANGED <<ajax, page>>
    BY <2>1, StepAdd, StepRemove, StepEmpty, StepDisable, StepLock, StepFire, StepCallNext, StepLoopEnds,
       StepCallOfNothing, StepRunInternal DEF CallbackStep
  <2>2. CASE DoReady /\ UNCHANGED <<ajax, moves, early>>
    BY <2>2, StepReady
  <2>. QED  BY <1>1, <2>1, <2>2, StepBegin, StepInstall, StepTransport, StepSetTimeout, StepSend, StepSendFails, StepTry,
               StepCatch, StepReturned, StepAbort, StepFinish, StepUncount DEF Library
<1>2. CASE PageStep
  BY <1>2, StepPost, StepAbortCall, StepAttach, StepUseList, StepAskReady, StepGiveStart, StepPageReturns, StepThrows
     DEF PageStep
<1>3. CASE Browser
  BY <1>3, StepArrive, StepTimesOut, StepParsed, StepLoaded, StepLater DEF Browser, ReadyBrowser
<1>4. CASE UNCHANGED vars
  <2>1. UNCHANGED <<lists, settled, todo, added, called, lost, rq, active, moves, early, readyState, calledBy, readyList,
                    isReady, readyWait, held>>
    BY <1>4 DEF vars, script, histories, ajax, page, ready
  <2>2. Shape(todo)' /\ RequestsInv'
    BY <2>1 DEF IInv, Shape, Asks, RequestsInv, RqOK, UnderWay, ToUncount, LostOnes, In, TopIs, On, Top, Idle
  <2>3. ReadyInv'
    BY <2>1 DEF IInv, ReadyInv, ReadyCounts, ReadyEvents, TopReady, In, TopIs, On, Top, Idle
  <2>4. \A l \in Lists : Same(l)
    <3>. SUFFICES ASSUME NEW l \in Lists PROVE Same(l)
      OBVIOUS
    <3>1. lists'[l] = lists[l] /\ added'[l] = added[l] /\ called'[l] = called[l]
      BY <2>1
    <3>2. (TopIs("loop", l) <=> TopIs("loop", l)') /\ (In(todo', "loop", l) <=> In(todo, "loop", l))
      BY <2>1 DEF TopIs, On, Top, Idle
    <3>. QED  BY <3>1, <3>2 DEF Same
  <2>5. ListsInv'
    <3>1. ListsInv
      BY DEF IInv
    <3>2. ListOK(PageList)' /\ PageOK'
      BY <2>4, <3>1, SameList, Names DEF ListsInv
    <3>3. /\ lists' = [m \in Lists |-> lists'[m]] /\ added' = [m \in Lists |-> added'[m]]
          /\ called' = [m \in Lists |-> called'[m]] /\ settled' = settled
      BY <2>1, <3>1 DEF ListsInv
    <3>. QED  BY <2>4, <3>1, <3>2, <3>3, OnlyPageList
  <2>. QED  BY <2>1, <2>2, <2>3, <2>5 DEF IInv
<1>. QED  BY <1>1, <1>2, <1>3, <1>4 DEF Next

----------------------------------------------------------------------------
(* What the invariant says *)

\* The counter of requests stays within their number: the three sets that make it are disjoint.
LEMMA ActiveBounds ==
    ASSUME RequestsInv
    PROVE  active \in -Cardinality(Requests)..Cardinality(Requests)
<1>. DEFINE A == UnderWay
            B == ToUncount
            C == LostOnes
<1>1. A \subseteq Requests /\ B \subseteq Requests /\ C \subseteq Requests /\ early \subseteq Requests
  BY DEF UnderWay, ToUncount, LostOnes, RequestsInv
<1>2. A \cap B = {} /\ (A \cup B) \cap C = {}
  <2>1. \A r \in Requests : RqOK(r)
    BY DEF RequestsInv
  <2>2. \A r \in Requests : r \in B => rq[r].state = 2 /\ r \notin C
    BY <2>1 DEF RqOK, ToUncount, LostOnes
  <2>3. \A r \in Requests : r \in C => rq[r].state = 2
    BY <2>1 DEF RqOK, LostOnes
  <2>4. \A r \in A : ~ (rq[r].state = 2)
    BY DEF UnderWay
  <2>. HIDE DEF A, B, C
  <2>. QED  BY <1>1, <2>2, <2>3, <2>4
<1>. DEFINE n == Cardinality(Requests)
            a == Cardinality(A)
            b == Cardinality(B)
            c == Cardinality(C)
            e == Cardinality(early)
<1>3. active = a + b + c - e
  BY DEF RequestsInv
<1>. HIDE DEF A, B, C
<1>4. IsFiniteSet(A) /\ IsFiniteSet(B) /\ IsFiniteSet(C) /\ IsFiniteSet(A \cup B) /\ IsFiniteSet(early)
  <2>1. A \cup B \subseteq Requests
    BY <1>1
  <2>. QED  BY <1>1, <2>1, FS_Subset, RequestAssumption
<1>5. Cardinality(A \cup B) = a + b
  <2>1. Cardinality(A \cup B) = a + b - Cardinality({})
    BY <1>2, <1>4, FS_Union
  <2>2. a \in Nat /\ b \in Nat /\ Cardinality({}) = 0
    BY <1>4, FS_CardinalityType, FS_EmptySet
  <2>. HIDE DEF a, b
  <2>. QED  BY <2>1, <2>2
<1>6. Cardinality((A \cup B) \cup C) = a + b + c
  <2>1. Cardinality((A \cup B) \cup C) = Cardinality(A \cup B) + c - Cardinality({})
    BY <1>2, <1>4, FS_Union
  <2>2. a \in Nat /\ b \in Nat /\ c \in Nat /\ Cardinality({}) = 0
    BY <1>4, FS_CardinalityType, FS_EmptySet
  <2>. HIDE DEF a, b, c
  <2>. QED  BY <1>5, <2>1, <2>2
<1>7. a + b + c <= n /\ e <= n
  <2>1. (A \cup B) \cup C \subseteq Requests
    BY <1>1
  <2>2. Cardinality((A \cup B) \cup C) <= n /\ e <= n
    BY <1>1, <2>1, FS_Subset, RequestAssumption
  <2>. QED  BY <1>6, <2>2
<1>8. a \in Nat /\ b \in Nat /\ c \in Nat /\ e \in Nat /\ n \in Nat
  BY <1>4, FS_CardinalityType, RequestAssumption
<1>9. active \in (-n)..n
  <2>. HIDE DEF a, b, c, e, n
  <2>. QED  BY <1>3, <1>7, <1>8
<1>. QED  BY <1>9

\* The invariant gives the types.
LEMMA Types ==
    ASSUME IInv
    PROVE  TypeOK
<1>1. ASSUME NEW l \in Lists
      PROVE  /\ lists[l].flags \subseteq {"once", "memory", "unique", "stopOnFalse"}
             /\ lists[l].index >= -1
             /\ lists[l].length \in Nat
             /\ {lists[l].gone, lists[l].single, lists[l].fired, lists[l].firing} \subseteq BOOLEAN
             /\ \A f \in Elems(lists[l].list) :
                   f.does \in InternalNames \/ f \in Elems(added[l])
  <2>1. ListOK(l)
    BY DEF IInv, ListsInv
  <2>2. lists[l] \in Closures(Members(l))
    BY <2>1 DEF ListOK
  <2>. DEFINE M == Members(l)
  <2>. HIDE DEF M
  <2>3. /\ lists[l].flags \subseteq {"once", "memory", "unique", "stopOnFalse"} /\ lists[l].length \in Nat
        /\ lists[l].gone \in BOOLEAN /\ lists[l].single \in BOOLEAN /\ lists[l].fired \in BOOLEAN
        /\ lists[l].firing \in BOOLEAN
    BY <2>2 DEF M, Closures
  <2>. QED  BY <2>1, <2>3 DEF ListOK
<1>2. settled \in [Deferreds -> {"pending", "resolved", "rejected"}]
  BY DEF IInv, ListsInv
<1>3. \A r \in Requests : /\ rq[r].state \in 0..2
                          /\ rq[r].wire \in {"none", "sent", "answered", "aborted"}
                          /\ rq[r].text \in Texts
  <2>1. \A r \in Requests : rq[r] \in Variables
    BY DEF IInv, RequestsInv, RqOK
  <2>. QED  BY <2>1 DEF Variables
<1>4. early \subseteq Requests /\ active \in -Cardinality(Requests)..Cardinality(Requests)
  BY ActiveBounds DEF IInv, RequestsInv
<1>. QED  BY <1>1, <1>2, <1>3, <1>4 DEF TypeOK

\* Between scripts nothing is left to count out, and no ready call is under way.
LEMMA Counters ==
    ASSUME IInv
    PROVE  CountersAgree
<1>1. ASSUME Idle
      PROVE  /\ active = Cardinality({r \in Requests : rq[r].counted /\ rq[r].state < 2})
                         + Cardinality({r \in Requests : <<"uncount", r>> \in lost}) - Cardinality(early)
             /\ readyWait = held + IF isReady THEN 0 ELSE 1
             /\ isReady => readyState # "loading"
             /\ settled[Doc] # "pending" => isReady
             /\ isReady /\ held = 0 => settled[Doc] = "resolved"
             /\ readyList /\ readyState = "complete" => isReady \/ "timeout" \in calledBy
  <2>1. \A op, x : ~ In(todo, op, x) /\ ~ TopIs(op, x) /\ ~ On(op)
    BY <1>1 DEF Idle, In, TopIs, On
  <2>2. ~ TopReady(TRUE) /\ ~ TopReady(FALSE)
    BY <2>1 DEF TopReady
  <2>3. ToUncount = {}
    BY <2>1 DEF ToUncount
  <2>4. Cardinality({}) = 0
    BY FS_EmptySet
  <2>5. active = Cardinality(UnderWay) + 0 + Cardinality(LostOnes) - Cardinality(early)
    BY <2>3, <2>4 DEF IInv, RequestsInv
  <2>6. Cardinality(UnderWay) \in Nat /\ Cardinality(LostOnes) \in Nat /\ Cardinality(early) \in Nat
    <3>1. UnderWay \subseteq Requests /\ LostOnes \subseteq Requests /\ early \subseteq Requests
      BY DEF IInv, UnderWay, LostOnes, RequestsInv
    <3>. QED  BY <3>1, FS_Subset, FS_CardinalityType, RequestAssumption
  <2>7. active = Cardinality(UnderWay) + Cardinality(LostOnes) - Cardinality(early)
    BY <2>5, <2>6
  <2>8. readyWait = held + (IF isReady THEN 0 ELSE 1)
    <3>1. /\ held \in Nat /\ readyWait \in Int
          /\ readyWait = held + (IF isReady THEN 0 ELSE 1) + (IF TopReady(TRUE) THEN 1 ELSE 0)
      BY DEF IInv, ReadyInv, ReadyCounts
    <3>2. (IF TopReady(TRUE) THEN 1 ELSE 0) = 0
      BY <2>2
    <3>3. (IF isReady THEN 0 ELSE 1) \in Int
      OBVIOUS
    <3>. DEFINE k == IF isReady THEN 0 ELSE 1
                t == IF TopReady(TRUE) THEN 1 ELSE 0
    <3>4. readyWait = held + k + t /\ t = 0 /\ k \in Int /\ held \in Nat
      BY <3>1, <3>2, <3>3
    <3>. HIDE DEF k, t
    <3>5. readyWait = held + k
      BY <3>4
    <3>. QED  BY <3>5 DEF k
  <2>9. /\ isReady => readyState # "loading"
        /\ settled[Doc] # "pending" => isReady
        /\ isReady /\ held = 0 => settled[Doc] = "resolved"
        /\ readyList /\ readyState = "complete" => isReady \/ "timeout" \in calledBy
    BY <2>1, <2>2 DEF IInv, ReadyInv, ReadyEvents
  <2>. QED  BY <2>7, <2>8, <2>9 DEF UnderWay, LostOnes
<1>. QED  BY <1>1 DEF CountersAgree, ActiveAgrees, ReadyAgrees

\* The invariant of the page's list, said of its loop.
LEMMA PageExact ==
    ASSUME IInv
    PROVE  LoopIsExact
<1>. DEFINE r == lists[PageList]
            seen == Elems(called[PageList])
            run == Running(PageList)
<1>. SUFFICES ASSUME r.firing, ~ r.gone, ~ r.emptied, "unique" \in r.flags
              PROVE  /\ r.length = Len(r.list)
                     /\ \A i \in DOMAIN r.list : (i <= r.index => r.list[i] \in seen)
                                                 /\ (i > r.index + 1 => r.list[i] \notin seen)
  BY DEF LoopIsExact
<1>1. r.length = Len(r.list) /\ \A i \in DOMAIN r.list : i <= r.index => r.list[i] \in seen
  BY DEF IInv, ListsInv, PageOK
<1>2. \A i \in DOMAIN r.list : i > r.index + run => r.list[i] \notin seen
  BY DEF IInv, ListsInv, PageOK
<1>3. run \in {0, 1}
  BY DEF Running
<1>4. r.index \in Int /\ \A i \in DOMAIN r.list : i \in Int
  <2>1. r \in Closures(Members(PageList))
    BY Names DEF IInv, ListsInv, ListOK
  <2>. DEFINE M == Members(PageList)
  <2>. HIDE DEF M
  <2>2. r \in Closures(M)
    BY <2>1 DEF M
  <2>. HIDE DEF r
  <2>3. r.index \in Int /\ r.list \in Seq(M)
    BY <2>2 DEF Closures
  <2>4. DOMAIN r.list = 1..Len(r.list)
    BY <2>3
  <2>. QED  BY <2>3, <2>4
<1>. HIDE DEF r, run, seen
<1>5. \A i \in DOMAIN r.list : i > r.index + 1 => r.list[i] \notin seen
  BY <1>2, <1>3, <1>4
<1>. QED  BY <1>1, <1>5

\* Between scripts a list that has begun to call the page's callbacks has called all, or one threw.
LEMMA OverAtRest ==
    ASSUME Idle, NEW l, Over(l)
    PROVE  called[l] = added[l] \/ lists[l].firing
<1>1. ~ In(todo, "loop", l)
  BY DEF Idle, In
<1>. QED  BY <1>1 DEF Over, Rest, Calling, Stuck

\* Between scripts the same holds of every list that tells.
LEMMA AtRest ==
    ASSUME IInv, Idle, NEW l \in Told
    PROVE  lists[l].gone \/ ~ lists[l].fired \/ called[l] = added[l] \/ lists[l].firing
<1>1. \A op, x : ~ TopIs(op, x)
  BY DEF Idle, TopIs, On
<1>2. ~ Prep(l)
  BY <1>1 DEF Prep
<1>3. Fresh(l) \/ Gone(l) \/ Over(l)
  <2>1. CASE \E d \in Deferreds : \E o \in {"done", "fail"} : l = <<d, o>>
    <3>1. PICK d \in Deferreds, o \in {"done", "fail"} : l = <<d, o>>
      BY <2>1
    <3>2. DeferredOK(d)
      BY DEF IInv, ListsInv
    <3>3. \A e \in {"done", "fail"} : ~ Turning(d, e)
      BY <1>1 DEF Turning, Prep
    <3>4. Open(d) \/ \E e \in {"done", "fail"} : Turned(d, e)
      BY <3>2, <3>3 DEF DeferredOK
    <3>5. Open(d) => Fresh(l)
      BY <3>1 DEF Open
    <3>6. ASSUME NEW e \in {"done", "fail"}, Turned(d, e)
          PROVE  Gone(l) \/ Over(l)
      <4>1. e = o => Over(<<d, o>>)
        BY <3>6 DEF Turned
      <4>2. e # o => Other(e) = o
        BY DEF Other
      <4>3. e # o => Gone(<<d, o>>)
        BY <3>6, <4>2 DEF Turned
      <4>. QED  BY <3>1, <4>1, <4>3
    <3>. QED  BY <3>4, <3>5, <3>6
  <2>2. CASE \E r \in Requests : l = <<r, "complete">>
    BY <2>2 DEF IInv, ListsInv, CompleteOK
  <2>. QED  BY <2>1, <2>2 DEF Told
<1>. QED  BY <1>3, OverAtRest DEF Fresh, Gone

\* The invariant gives what ListsCallExactly says.
LEMMA Exact ==
    ASSUME IInv
    PROVE  ListsCallExactly
<1>1. ASSUME NEW l \in (Requests \X {"done", "fail", "complete"}) \cup {DoneList}
      PROVE  l \in Told
  <2>1. CASE l = DoneList
    BY <2>1, Names
  <2>2. CASE l \in Requests \X {"done", "fail", "complete"}
    <3>1. PICK r \in Requests, name \in {"done", "fail", "complete"} : l = <<r, name>>
      BY <2>2
    <3>. QED  BY <3>1, Names
  <2>. QED  BY <2>1, <2>2
<1>2. NobodyMissed
  <2>. SUFFICES ASSUME Idle, NEW l \in (Requests \X {"done", "fail", "complete"}) \cup {DoneList}
                PROVE  lists[l].gone \/ ~ lists[l].fired \/ called[l] = added[l] \/ lists[l].firing
    BY DEF NobodyMissed
  <2>. QED  BY <1>1, AtRest
<1>. QED  BY <1>2, PageExact DEF ListsCallExactly

----------------------------------------------------------------------------
(* The promises *)

\* Nothing of it shows in what the deferreds promise.
KeepsPromises ==
    /\ settled' = settled
    /\ \A d \in Deferreds, o \in {"done", "fail"} : /\ added'[<<d, o>>] = added[<<d, o>>]
                                                   /\ called'[<<d, o>>] = called[<<d, o>>]

AskedOf(d) == [o \in {"resolved", "rejected"} |-> added[<<d, IF o = "resolved" THEN "done" ELSE "fail">>]]
ToldBy(d)  == called[<<d, "done">>] \o called[<<d, "fail">>]

\* Then the promises stutter.
LEMMA Stuttering ==
    ASSUME KeepsPromises
    PROVE  UNCHANGED P!promises
<1>1. \A d \in Deferreds : AskedOf(d)' = AskedOf(d)
  BY DEF KeepsPromises, AskedOf
<1>2. \A d \in Deferreds : ToldBy(d)' = ToldBy(d)
  BY DEF KeepsPromises, ToldBy
<1>3. [d \in Deferreds |-> AskedOf(d)]' = [d \in Deferreds |-> AskedOf(d)]
  BY <1>1
<1>4. [d \in Deferreds |-> ToldBy(d)]' = [d \in Deferreds |-> ToldBy(d)]
  BY <1>2
<1>5. settled' = settled
  BY DEF KeepsPromises
<1>. QED  BY <1>3, <1>4, <1>5 DEF P!promises, AskedOf, ToldBy

\* A change of any other list does not show.
LEMMA Elsewhere ==
    ASSUME IInv, NEW l \in Lists, \A d \in Deferreds, o \in {"done", "fail"} : l # <<d, o>>, NEW a, NEW c,
           settled' = settled, added' = [added EXCEPT ![l] = a], called' = [called EXCEPT ![l] = c]
    PROVE  KeepsPromises
<1>1. added = [m \in Lists |-> added[m]] /\ called = [m \in Lists |-> called[m]]
  BY DEF IInv, ListsInv
<1>2. \A m \in Lists : m # l => added'[m] = added[m]
  BY <1>1, Updated
<1>3. \A m \in Lists : m # l => called'[m] = called[m]
  BY <1>1, Updated
<1>4. \A d \in Deferreds, o \in {"done", "fail"} : <<d, o>> \in Lists
  BY Names
<1>. QED  BY <1>2, <1>3, <1>4 DEF KeepsPromises

\* The deferred's own first callback settles the promise.
LEMMA Settles ==
    ASSUME NEW d \in Deferreds, NEW o \in {"done", "fail"}, settled[d] = "pending",
           settled' = [settled EXCEPT ![d] = StateOf(o)], added' = added, called' = called
    PROVE  P!PromiseNext
<1>1. StateOf(o) \in {"resolved", "rejected"}
  BY DEF StateOf
<1>2. [e \in Deferreds |-> AskedOf(e)]' = [e \in Deferreds |-> AskedOf(e)]
  BY DEF AskedOf
<1>3. [e \in Deferreds |-> ToldBy(e)]' = [e \in Deferreds |-> ToldBy(e)]
  BY DEF ToldBy
<1>4. P!Settle(d, StateOf(o))
  BY <1>2, <1>3 DEF P!Settle, AskedOf, ToldBy
<1>. QED  BY <1>1, <1>4 DEF P!PromiseNext

\* A callback added to done or fail is one asked for.
LEMMA AsksOne ==
    ASSUME IInv, NEW d \in Deferreds, NEW o \in {"done", "fail"}, NEW f \in Attached, NEW l, l = <<d, o>>,
           settled' = settled, called' = called, added' = [added EXCEPT ![l] = Append(added[l], f)]
    PROVE  P!PromiseNext
<1>. DEFINE x == StateOf(o)
            X == {"resolved", "rejected"}
            of(y) == IF y = "resolved" THEN "done" ELSE "fail"
            A == [e \in Deferreds |-> AskedOf(e)]
<1>1. x \in X /\ of(x) = o /\ \A y \in X : y # x => of(y) # o /\ of(y) \in {"done", "fail"}
  BY DEF StateOf
<1>2. l \in Lists /\ \A e \in Deferreds, y \in X : <<e, of(y)>> \in Lists
  BY Names
<1>3. added = [m \in Lists |-> added[m]]
  BY DEF IInv, ListsInv
<1>4. added'[l] = Append(added[l], f) /\ \A m \in Lists : m # l => added'[m] = added[m]
  BY <1>2, <1>3, Updated
<1>5. \A e \in Deferreds : A[e] = AskedOf(e) /\ A'[e] = AskedOf(e)'
  OBVIOUS
<1>6. \A e \in Deferreds : AskedOf(e) = [y \in X |-> added[<<e, of(y)>>]] /\ AskedOf(e)' = [y \in X |-> added'[<<e, of(y)>>]]
  BY DEF AskedOf
<1>7. ASSUME NEW e \in Deferreds, e # d
      PROVE  AskedOf(e)' = AskedOf(e)
  <2>1. \A y \in X : added'[<<e, of(y)>>] = added[<<e, of(y)>>]
    BY <1>2, <1>4, <1>7
  <2>2. AskedOf(e) = [y \in X |-> added[<<e, of(y)>>]] /\ AskedOf(e)' = [y \in X |-> added'[<<e, of(y)>>]]
    BY <1>6
  <2>. HIDE DEF of, X
  <2>. QED  BY <2>1, <2>2
<1>8. AskedOf(d)' = [AskedOf(d) EXCEPT ![x] = Append(AskedOf(d)[x], f)]
  <2>. DEFINE B == AskedOf(d)
              v == Append(added[l], f)
  <2>1. B = [y \in X |-> added[<<d, of(y)>>]] /\ AskedOf(d)' = [y \in X |-> added'[<<d, of(y)>>]]
    BY <1>6
  <2>2. B[x] = added[l]
    BY <1>1, <2>1
  <2>3. \A y \in X : y # x => added'[<<d, of(y)>>] = B[y]
    BY <1>1, <1>2, <1>4, <2>1
  <2>4. added'[<<d, of(x)>>] = v
    BY <1>1, <1>4
  <2>5. [B EXCEPT ![x] = v] = [y \in X |-> IF y = x THEN v ELSE B[y]]
    BY <2>1
  <2>6. \A y \in X : added'[<<d, of(y)>>] = IF y = x THEN v ELSE B[y]
    BY <2>3, <2>4
  <2>. HIDE DEF v, B, of, X
  <2>7. AskedOf(d)' = [B EXCEPT ![x] = v]
    BY <2>1, <2>5, <2>6
  <2>. QED  BY <2>2, <2>7 DEF v, B
<1>9. A' = [A EXCEPT ![d] = AskedOf(d)']
  BY <1>7
<1>10. A' = [A EXCEPT ![d][x] = Append(@, f)]
  BY <1>8, <1>9
<1>11. [e \in Deferreds |-> ToldBy(e)]' = [e \in Deferreds |-> ToldBy(e)]
  BY DEF ToldBy
<1>12. P!Ask(d, x, f)
  BY <1>10, <1>11 DEF P!Ask, AskedOf, ToldBy
<1>13. f \in {Callback(name, e) : name \in Own, e \in Deferreds}
  BY DEF Attached, Callback
<1>. QED  BY <1>1, <1>12, <1>13 DEF P!PromiseNext

\* A page's callback that a deferred's loop calls is the next one in turn.
LEMMA InTurn ==
    ASSUME IInv, On("loop"), NEW d \in Deferreds, NEW o \in {"done", "fail"}, NEW l, l = <<d, o>>, Top.at = l,
           lists[l].index < Len(lists[l].list), lists[l].list[lists[l].index + 1].does \notin InternalNames
    PROVE  /\ settled[d] = StateOf(o) /\ called[<<d, Other(o)>>] = << >>
           /\ Len(called[l]) < Len(added[l]) /\ lists[l].list[lists[l].index + 1] = added[l][Len(called[l]) + 1]
<1>1. l \in Told
  BY Names
<1>2. Calling(l) /\ ~ Prep(l) /\ ~ Fresh(l) /\ ~ Gone(l)
  BY <1>1, OwnPassed, LoopNow
<1>3. Turned(d, o)
  <2>1. DeferredOK(d)
    BY DEF IInv, ListsInv
  <2>2. ~ Open(d)
    BY <1>2 DEF Open
  <2>3. ASSUME NEW e \in {"done", "fail"} PROVE ~ Turning(d, e)
    <3>1. TopIs("loop", <<d, e>>) => e = o
      BY DEF TopIs
    <3>. QED  BY <1>2, <3>1 DEF Turning, Prep
  <2>4. ASSUME NEW e \in {"done", "fail"}, e # o PROVE ~ Turned(d, e)
    <3>1. Other(e) = o
      BY <2>4 DEF Other
    <3>. QED  BY <1>2, <3>1 DEF Turned
  <2>. QED  BY <2>1, <2>2, <2>3, <2>4 DEF DeferredOK
<1>4. settled[d] = StateOf(o) /\ called[<<d, Other(o)>>] = << >>
  BY <1>3 DEF Turned, Gone
<1>. DEFINE n == lists[l].index
            L == Len(lists[l].list)
            c == Len(called[l])
            N == Len(added[l])
<1>5. Running(l) = 0 /\ n \in Nat /\ L \in Nat /\ c \in Nat /\ N \in Nat /\ n < L
  BY <1>1, ToldNow, LoopNow
<1>6. n + 0 = n
  BY <1>5
<1>7. N - c = L - n /\ \A k \in 1..(L - n) : lists[l].list[n + k] = added[l][c + k]
  BY <1>2, <1>5, <1>6 DEF Calling
<1>8. 1 \in 1..(L - n) /\ c < N
  <2>. HIDE DEF n, L, c, N
  <2>. QED  BY <1>5, <1>7
<1>. QED  BY <1>4, <1>7, <1>8

\* The next callback of the list of the outcome, called, is the next one told.
LEMMA TellsOne ==
    ASSUME IInv, NEW d \in Deferreds, NEW o \in {"done", "fail"}, NEW l, l = <<d, o>>, NEW f,
           settled[d] = StateOf(o), called[<<d, Other(o)>>] = << >>, Len(called[l]) < Len(added[l]),
           f = added[l][Len(called[l]) + 1],
           settled' = settled, added' = added, called' = [called EXCEPT ![l] = Append(called[l], f)]
    PROVE  P!PromiseNext
<1>. DEFINE T == [e \in Deferreds |-> ToldBy(e)]
            k == <<d, Other(o)>>
<1>1. /\ l \in Lists /\ k \in Lists /\ k # l /\ l \in Told
      /\ \A e \in Deferreds, y \in {"done", "fail"} : <<e, y>> \in Lists
  BY Names DEF Other
<1>2. called = [m \in Lists |-> called[m]]
  BY DEF IInv, ListsInv
<1>3. called'[l] = Append(called[l], f) /\ \A m \in Lists : m # l => called'[m] = called[m]
  BY <1>1, <1>2, Updated
<1>4. added[l] \in Seq(Attached) /\ called[l] \in Seq(Attached)
  BY <1>1, ToldNow
<1>5. f \in Attached
  <2>1. Len(called[l]) + 1 \in 1..Len(added[l])
    BY <1>4
  <2>. QED  BY <1>4, <2>1
<1>6. Append(called[l], f) \in Seq(Attached)
  BY <1>4, <1>5
<1>7. \A s \in Seq(Attached) : s \o << >> = s /\ << >> \o s = s
  OBVIOUS
<1>8. ToldBy(d) = called[l]
  <2>1. CASE o = "done"
    BY <1>4, <1>7, <2>1 DEF ToldBy, Other
  <2>2. CASE o = "fail"
    BY <1>4, <1>7, <2>2 DEF ToldBy, Other
  <2>. QED  BY <2>1, <2>2
<1>9. ToldBy(d)' = Append(called[l], f)
  <2>1. called'[k] = << >> /\ called'[l] = Append(called[l], f)
    BY <1>1, <1>3
  <2>. DEFINE v == Append(called[l], f)
  <2>. HIDE DEF v
  <2>2. called'[k] = << >> /\ called'[l] = v /\ v \in Seq(Attached)
    BY <1>6, <2>1 DEF v
  <2>3. CASE o = "done"
    <3>1. k = <<d, "fail">>
      BY <2>3 DEF Other
    <3>2. ToldBy(d)' = v
      BY <1>7, <2>2, <2>3, <3>1 DEF ToldBy
    <3>. QED  BY <3>2 DEF v
  <2>4. CASE o = "fail"
    <3>1. k = <<d, "done">>
      BY <2>4 DEF Other
    <3>2. ToldBy(d)' = v
      BY <1>7, <2>2, <2>4, <3>1 DEF ToldBy
    <3>. QED  BY <3>2 DEF v
  <2>. QED  BY <2>3, <2>4
<1>10. ASSUME NEW e \in Deferreds, e # d
       PROVE  ToldBy(e)' = ToldBy(e)
  <2>1. called'[<<e, "done">>] = called[<<e, "done">>] /\ called'[<<e, "fail">>] = called[<<e, "fail">>]
    BY <1>1, <1>3, <1>10
  <2>. QED  BY <2>1 DEF ToldBy
<1>11. T' = [T EXCEPT ![d] = Append(T[d], f)]
  <2>1. T[d] = called[l]
    BY <1>8
  <2>2. T' = [T EXCEPT ![d] = Append(called[l], f)]
    BY <1>9, <1>10
  <2>. QED  BY <2>1, <2>2
<1>12. StateOf(o) \in {"resolved", "rejected"} /\ (IF StateOf(o) = "resolved" THEN "done" ELSE "fail") = o
  BY DEF StateOf
<1>13. AskedOf(d)[settled[d]] = added[l]
  BY <1>12 DEF AskedOf
<1>14. [e \in Deferreds |-> AskedOf(e)]' = [e \in Deferreds |-> AskedOf(e)]
  BY DEF AskedOf
<1>. DEFINE A == [e \in Deferreds |-> AskedOf(e)]
<1>15. A[d][settled[d]] = added[l] /\ T[d] = called[l]
  BY <1>8, <1>13
<1>16. /\ Len(T[d]) < Len(A[d][settled[d]])
       /\ T' = [T EXCEPT ![d] = Append(@, A[d][settled[d]][Len(@) + 1])]
  BY <1>11, <1>15
<1>17. P!Tell(d)
  BY <1>12, <1>14, <1>16 DEF P!Tell, AskedOf, ToldBy
<1>. QED  BY <1>17 DEF P!PromiseNext

\* Nor does a step that changes no outcome and no history.
LEMMA Untouched ==
    ASSUME settled' = settled, added' = added, called' = called
    PROVE  KeepsPromises
BY DEF KeepsPromises

\* The lists that make no promise of a deferred: the completions and the page's own.
LEMMA WhichList ==
    ASSUME NEW l \in Told \cup {PageList}
    PROVE  \/ \E d \in Deferreds, o \in {"done", "fail"} : l = <<d, o>>
           \/ \A d \in Deferreds, o \in {"done", "fail"} : l # <<d, o>>
OBVIOUS

\* A callback of the page is called: told, or it is not a promise's list.
LEMMA PromiseOfCallNext ==
    ASSUME IInv, CallNext, UNCHANGED <<ajax, page>>
    PROVE  KeepsPromises \/ P!PromiseNext
<1>1. PICK l : Top.at = l
  OBVIOUS
<1>. DEFINE f == lists[l].list[lists[l].index + 1]
<1>2. /\ On("loop") /\ lists[l].index < Len(lists[l].list) /\ f.does \notin InternalNames
      /\ called' = [called EXCEPT ![l] = Append(called[l], f)] /\ settled' = settled /\ added' = added
  BY <1>1 DEF CallNext
<1>3. l \in Told \cup {PageList} /\ l \in Lists
  BY <1>1, <1>2, ListFrame DEF ListOps
<1>4. CASE \A d \in Deferreds, o \in {"done", "fail"} : l # <<d, o>>
  <2>1. added' = [added EXCEPT ![l] = added[l]]
    BY <1>2, <1>3, SameAt
  <2>. QED  BY <1>2, <1>3, <1>4, <2>1, Elsewhere
<1>5. CASE \E d \in Deferreds, o \in {"done", "fail"} : l = <<d, o>>
  <2>1. PICK d \in Deferreds, o \in {"done", "fail"} : l = <<d, o>>
    BY <1>5
  <2>2. /\ settled[d] = StateOf(o) /\ called[<<d, Other(o)>>] = << >>
        /\ Len(called[l]) < Len(added[l]) /\ f = added[l][Len(called[l]) + 1]
    BY Zenon, <1>1, <1>2, <2>1, InTurn
  <2>. HIDE DEF f
  <2>. QED  BY <1>2, <2>1, <2>2, TellsOne
<1>. QED  BY <1>3, <1>4, <1>5, WhichList

\* A callback is added: asked for, or passed over, or it is not a promise's list.
LEMMA PromiseOfAdd ==
    ASSUME IInv, DoAdd, UNCHANGED <<ajax, page>>
    PROVE  KeepsPromises \/ P!PromiseNext
<1>1. PICK l : Top.at = l
  OBVIOUS
<1>. DEFINE r == Added(lists[l], Top.arg)
            v == IF r.list = lists[l].list THEN added[l] ELSE Append(added[l], Top.arg)
<1>2. On("add") /\ added' = [added EXCEPT ![l] = v] /\ settled' = settled /\ called' = called
  BY <1>1 DEF DoAdd
<1>3. l \in Told \cup {PageList} /\ l \in Lists /\ Top.arg \in Attached
  BY <1>1, <1>2, ListFrame DEF ListOps, FrameOK
<1>. HIDE DEF r
<1>4. CASE \A d \in Deferreds, o \in {"done", "fail"} : l # <<d, o>>
  <2>1. called' = [called EXCEPT ![l] = called[l]]
    BY <1>2, <1>3, SameAt
  <2>. HIDE DEF v
  <2>. QED  BY <1>2, <1>3, <1>4, <2>1, Elsewhere
<1>5. CASE \E d \in Deferreds, o \in {"done", "fail"} : l = <<d, o>>
  <2>1. PICK d \in Deferreds, o \in {"done", "fail"} : l = <<d, o>>
    BY <1>5
  <2>2. CASE r.list = lists[l].list
    <3>1. added' = [added EXCEPT ![l] = added[l]]
      BY <1>2, <2>2
    <3>2. added' = added
      BY <1>3, <3>1, SameAt
    <3>. QED  BY <1>2, <3>2, Untouched
  <2>3. CASE r.list # lists[l].list
    <3>1. added' = [added EXCEPT ![l] = Append(added[l], Top.arg)]
      BY <1>2, <2>3
    <3>. QED  BY <1>2, <1>3, <2>1, <3>1, AsksOne
  <2>. QED  BY <2>2, <2>3
<1>. QED  BY <1>3, <1>4, <1>5, WhichList

\* A list that tells fires once: it has called nobody before.
LEMMA FreshToFire ==
    ASSUME IInv, On("fire"), NEW l \in Told, Top.at = l, MayFire(lists[l])
    PROVE  Fresh(l)
<1>1. ~ TopIs("loop", l) /\ ~ Prep(l)
  BY DEF TopIs, On, Prep
<1>2. lists[l].single
  BY ToldNow DEF TellsOnce
<1>3. ~ lists[l].gone /\ ~ lists[l].fired
  BY <1>2 DEF MayFire
<1>4. ~ Gone(l) /\ ~ Over(l)
  BY <1>3 DEF Gone, Over, Rest, Calling, Stuck, HasFired
<1>. QED  BY <1>1, <1>4, ToldNow DEF Turning

\* fire forgets no call of a promise.
LEMMA PromiseOfFire ==
    ASSUME IInv, DoFire, UNCHANGED <<ajax, page>>
    PROVE  KeepsPromises
<1>1. PICK l : Top.at = l
  OBVIOUS
<1>2. /\ On("fire") /\ settled' = settled /\ added' = added
      /\ called' = called \/ (MayFire(lists[l]) /\ called' = [called EXCEPT ![l] = << >>])
  BY <1>1 DEF DoFire, Starts
<1>3. l \in Told \cup {PageList} /\ l \in Lists
  BY <1>1, <1>2, ListFrame DEF ListOps
<1>4. CASE called' = called
  BY <1>2, <1>4, Untouched
<1>5. CASE MayFire(lists[l]) /\ called' = [called EXCEPT ![l] = << >>]
  <2>1. CASE l \in Told
    <3>1. called[l] = << >>
      BY <1>1, <1>2, <1>5, <2>1, FreshToFire DEF Fresh
    <3>2. called' = called
      BY <1>3, <1>5, <3>1, SameAt
    <3>. QED  BY <1>2, <3>2, Untouched
  <2>2. CASE l = PageList
    <3>1. \A d \in Deferreds, o \in {"done", "fail"} : l # <<d, o>>
      BY <2>2, Names
    <3>2. added' = [added EXCEPT ![l] = added[l]]
      BY <1>2, <1>3, SameAt
    <3>. QED  BY <1>2, <1>3, <1>5, <3>1, <3>2, Elsewhere
  <2>. QED  BY <1>3, <2>1, <2>2
<1>. QED  BY <1>2, <1>4, <1>5

\* Nor does the end of a loop: no further data wait for a list that fires once.
LEMMA PromiseAfterLoop ==
    ASSUME IInv, NEW l \in Told \cup {PageList}, NEW p, p.single = lists[l].single, p.stack = lists[l].stack, NEW rest,
           AfterLoop(l, p, rest), settled' = settled, added' = added
    PROVE  KeepsPromises
<1>1. l \in Lists
  BY Names
<1>2. CASE l \in Told
  <2>1. l[1] \in Deferreds /\ p.stack = << >>
    BY <1>2, ToldNow DEF TellsOnce
  <2>2. called' = [called EXCEPT ![l] = called[l]]
    BY <2>1 DEF AfterLoop
  <2>3. called' = called
    BY <1>1, <2>2, SameAt
  <2>. QED  BY <2>3, Untouched
<1>3. CASE l = PageList
  <2>1. \A d \in Deferreds, o \in {"done", "fail"} : l # <<d, o>>
    BY <1>3, Names
  <2>2. added' = [added EXCEPT ![l] = added[l]]
    BY <1>1, SameAt
  <2>3. \E c : called' = [called EXCEPT ![l] = c]
    BY DEF AfterLoop
  <2>. QED  BY <1>1, <2>1, <2>2, <2>3, Elsewhere
<1>. QED  BY <1>2, <1>3

\* The end of a loop does not show.
LEMMA PromiseOfLoopEnds ==
    ASSUME IInv, LoopEnds
    PROVE  KeepsPromises
<1>1. PICK l : Top.at = l
  OBVIOUS
<1>2. On("loop") /\ AfterLoop(l, lists[l], Tail(todo)) /\ settled' = settled /\ added' = added
  BY <1>1 DEF LoopEnds
<1>3. l \in Told \cup {PageList}
  BY <1>1, <1>2, ListFrame DEF ListOps
<1>. QED  BY <1>2, <1>3, PromiseAfterLoop

\* The return of a callback does not show.
LEMMA PromiseOfReturns ==
    ASSUME IInv, NEW answer \in BOOLEAN, Returns(answer)
    PROVE  KeepsPromises
<1>1. PICK l : Top.at = l
  OBVIOUS
<1>. DEFINE p == [lists[l] EXCEPT !.memory = Nothing]
<1>2. /\ On("run") /\ settled' = settled /\ added' = added
      /\ called' = called \/ AfterLoop(l, p, Tail(Tail(todo)))
  BY <1>1 DEF Returns
<1>3. l \in Told \cup {PageList} /\ l \in Lists
  BY <1>1, <1>2, ListFrame DEF ListOps
<1>4. p.single = lists[l].single /\ p.stack = lists[l].stack
  <2>1. lists[l] \in Closures(Members(l))
    BY <1>3 DEF IInv, ListsInv, ListOK
  <2>. DEFINE M == Members(l)
  <2>. HIDE DEF M
  <2>2. lists[l] \in Closures(M)
    BY <2>1 DEF M
  <2>. QED  BY <2>2 DEF Closures
<1>. HIDE DEF p
<1>. QED  BY <1>2, <1>3, <1>4, PromiseAfterLoop, Untouched

\* A deferred's own callback settles the promise, once, or does not show.
LEMMA PromiseOfRunInternal ==
    ASSUME IInv, RunInternal, UNCHANGED <<ajax, page>>
    PROVE  KeepsPromises \/ P!PromiseNext
<1>1. PICK l : Top.at = l
  OBVIOUS
<1>2. PICK e \in Deferreds, o \in {"done", "fail"} : Turns(l, e, o)
  BY <1>1, InternalNow
<1>3. added' = added /\ called' = called
  BY Zenon DEF RunInternal, histories
<1>4. \/ settled' = settled
      \/ settled[e] = "pending" /\ settled' = [settled EXCEPT ![e] = StateOf(o)]
  BY <1>2 DEF Turns, Turning
<1>. QED  BY SMTT(30), <1>3, <1>4, Untouched, Settles

\* remove and empty are only used on the page's own list.
LEMMA PromiseOfPageList ==
    ASSUME IInv, DoRemove \/ DoEmpty
    PROVE  KeepsPromises
<1>1. Top.at = PageList
  <2>1. CASE On("remove")
    BY <2>1, ListFrame DEF ListOps, FrameOK
  <2>2. CASE On("empty")
    BY <2>2, ListFrame DEF ListOps, FrameOK
  <2>. QED  BY <2>1, <2>2 DEF DoRemove, DoEmpty
<1>2. /\ settled' = settled /\ added' = added
      /\ called' = called \/ \E c : called' = [called EXCEPT ![PageList] = c]
  BY <1>1 DEF DoRemove, DoEmpty
<1>3. PageList \in Lists /\ \A d \in Deferreds, o \in {"done", "fail"} : PageList # <<d, o>>
  BY Names
<1>4. added' = [added EXCEPT ![PageList] = added[PageList]]
  BY <1>2, <1>3, SameAt
<1>. QED  BY <1>2, <1>3, <1>4, Elsewhere, Untouched

\* Every step of the requests is one of the promises, or does not show.
LEMMA PromiseStep ==
    ASSUME IInv, Next
    PROVE  KeepsPromises \/ P!PromiseNext
<1>1. CASE Library
  <2>1. CASE CallbackStep /\ UNCHANGED <<ajax, page>>
    <3>1. CASE DoDisable \/ DoLock \/ CallOfNothing
      BY <3>1, Untouched DEF DoDisable, DoLock, CallOfNothing, histories
    <3>. QED  BY <2>1, <3>1, PromiseOfAdd, PromiseOfPageList, PromiseOfFire, PromiseOfCallNext, PromiseOfLoopEnds,
                 PromiseOfRunInternal DEF CallbackStep
  <2>2. CASE DoReady /\ UNCHANGED <<ajax, moves, early>>
    BY <2>2, Untouched DEF DoReady, histories
  <2>3. CASE Begin \/ Install \/ Transport \/ SetTimeout \/ Send \/ Try \/ Returned \/ DoAbort \/ Finish \/ Uncount
    <3>1. UNCHANGED <<settled, added, called>>
      BY <2>3 DEF Begin, Install, Transport, SetTimeout, Send, Try, Returned, DoAbort, Finish, Uncount, histories
    <3>. QED  BY SMTT(30), <3>1, Untouched
  <2>4. CASE SendFails \/ Catch
    <3>1. UNCHANGED <<settled, added, called>>
      BY <2>4 DEF SendFails, Catch
    <3>. QED  BY <3>1, Untouched
  <2>. QED  BY <1>1, <2>1, <2>2, <2>3, <2>4 DEF Library
<1>2. CASE PageStep
  <2>1. ASSUME NEW answer \in BOOLEAN, PageReturns(answer)
        PROVE  KeepsPromises
    <3>1. Returns(answer) \/ UNCHANGED <<settled, added, called>>
      BY <2>1 DEF PageReturns, histories
    <3>. QED  BY <3>1, PromiseOfReturns, Untouched
  <2>2. ASSUME NEW f, PageCalls(f)
        PROVE  KeepsPromises
    BY <2>2, Untouched DEF PageCalls, histories
  <2>3. CASE UseList
    BY <2>2, <2>3 DEF UseList
  <2>4. CASE AskReady \/ GiveStart
    BY <2>4, Untouched DEF AskReady, GiveStart, Release, GiveLate, Hold, histories
  <2>5. CASE Throws
    BY <2>5, Untouched DEF Throws
  <2>6. ASSUME NEW r \in Requests, Post(r) \/ Abort(r) \/ \E name \in {"done", "fail", "complete"} : Attach(r, name)
        PROVE  KeepsPromises
    <3>1. CASE Post(r)
      BY <3>1, Untouched DEF Post, histories
    <3>2. CASE Abort(r)
      BY <2>2, <3>2 DEF Abort
    <3>3. CASE \E name \in {"done", "fail", "complete"} : Attach(r, name)
      BY <2>2, <3>3 DEF Attach
    <3>. QED  BY <2>6, <3>1, <3>2, <3>3
  <2>. QED  BY <1>2, <2>1, <2>3, <2>4, <2>5, <2>6 DEF PageStep
<1>3. CASE Browser
  BY <1>3, Untouched DEF Browser, Arrive, TimesOut, ReadyBrowser, Parsed, Loaded, Later, histories
<1>. QED  BY <1>1, <1>2, <1>3 DEF Next

\* A new script's deferreds are promises nobody has asked anything of.
LEMMA PromisesAtFirst ==
    ASSUME Init
    PROVE  P!PromiseInit
<1>1. settled = [d \in Deferreds |-> "pending"]
  BY DEF Init, CallbacksInit
<1>2. \A d \in Deferreds, o \in {"done", "fail"} : added[<<d, o>>] = << >> /\ called[<<d, o>>] = << >>
  <2>1. \A d \in Deferreds, o \in {"done", "fail"} : <<d, o>> \in Lists /\ <<d, o>>[1] \in Deferreds
    BY Names
  <2>. QED  BY <2>1, InitList
<1>3. \A d \in Deferreds : AskedOf(d) = [o \in {"resolved", "rejected"} |-> << >>]
  BY <1>2 DEF AskedOf
<1>4. \A d \in Deferreds : ToldBy(d) = << >>
  <2>1. << >> \o << >> = << >>
    OBVIOUS
  <2>. QED  BY <1>2, <2>1, Zenon DEF ToldBy
<1>5. [d \in Deferreds |-> AskedOf(d)] = [d \in Deferreds |-> [o \in {"resolved", "rejected"} |-> << >>]]
  BY <1>3
<1>6. [d \in Deferreds |-> ToldBy(d)] = [d \in Deferreds |-> << >>]
  BY <1>4
<1>. QED  BY <1>1, <1>5, <1>6 DEF P!PromiseInit, AskedOf, ToldBy

----------------------------------------------------------------------------
(* The theorems *)

\* The invariant, of every state that can be reached: the script is a stack of a certain
\* shape, every request and every list is in one of a few phases, and the counters are
\* the sizes of the sets of those that are counted.
THEOREM Invariance == Spec => []IInv
<1>1. Init => IInv
  BY InvInit
<1>2. IInv /\ [Next]_vars => IInv'
  BY InvNext
<1>. QED  BY <1>1, <1>2, PTL DEF Spec

\* Of every state that can be reached: the closures of the lists, the settled states and the
\* requests have their types, whatever is called from where, and jQuery.active stays within
\* the number of requests, below and above zero.
THEOREM TypeCorrect == Spec => []TypeOK
<1>1. IInv => TypeOK
  BY Types
<1>. QED  BY <1>1, Invariance, PTL

\* Whatever the page does from within its callbacks - adds, removes, empties, fires, aborts,
\* throws - between scripts nobody is left uncalled on a list that has told, unless one of
\* its callbacks threw; and the loop of the page's own list, if made unique, has called those
\* before its place with the latest data and none after it, unless emptied under way.
THEOREM EveryListCallsExactly == Spec => []ListsCallExactly
<1>1. IInv => ListsCallExactly
  BY Exact
<1>. QED  BY <1>1, Invariance, PTL

\* Between scripts jQuery.active is the number of requests under way, plus the completions an
\* exception cut off, minus the requests settled before they were sent; and readyWait is the
\* number of holds on the ready event, and the ready event has fired if nobody holds it.
THEOREM BothCountersAgree == Spec => []CountersAgree
<1>1. IInv => CountersAgree
  BY Counters
<1>. QED  BY <1>1, Invariance, PTL

\* The deferreds of the requests and of the ready event implement Promises: one outcome,
\* settled once, and only its callbacks are told, each once and in the order in which they
\* were attached, before the outcome or after it.
THEOREM RequestsArePromises == Spec => ImplementsPromises
<1>1. Init => P!PromiseInit
  BY PromisesAtFirst
<1>2. IInv /\ [Next]_vars => [P!PromiseNext]_(P!promises)
  <2>. SUFFICES ASSUME IInv, [Next]_vars PROVE [P!PromiseNext]_(P!promises)
    OBVIOUS
  <2>1. CASE Next
    BY <2>1, PromiseStep, Stuttering
  <2>2. CASE UNCHANGED vars
    <3>1. settled' = settled /\ added' = added /\ called' = called
      BY <2>2 DEF vars, script, histories
    <3>. QED  BY <3>1, Untouched, Stuttering
  <2>. QED  BY <2>1, <2>2
<1>. QED  BY <1>1, <1>2, Invariance, PTL DEF Spec, ImplementsPromises, P!PromiseSpec
=============================================================================
