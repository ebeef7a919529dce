------------------------------ MODULE Elements ------------------------------
(***************************************************************************)
(* What jQuery keeps about the elements of a page (jquery-1.8.3.js): the   *)
(* data cache (data, removeData, cleanData), the handlers of events in it  *)
(* (event.add, event.remove), and how an event finds its handlers          *)
(* (event.trigger, event.dispatch).                                        *)
(*                                                                         *)
(* Everything about an element is in one entry of jQuery.cache, whose      *)
(* number the element carries (its expando).  html(), empty() and remove() *)
(* clean the entries of what they take out of the document; the document's *)
(* own removeChild, which home.js calls, does not.                         *)
(*                                                                         *)
(* As a handler may do anything to the page while its event is under way,  *)
(* the script is a stack of frames, todo, like in Callbacks: what to do    *)
(* (op), at which element (at), with what (arg, a record).                 *)
(***************************************************************************)
EXTENDS Integers, Sequences, FiniteSets

CONSTANTS Nodes,      \* elements of the page
          Nobody,     \* no element: no parent, no selector, no function
          Document,   \* the root of the page
          Parent,     \* the parent each element has at first
          Types,      \* types of events
          Functions   \* the functions the page binds

ASSUME TreeAssumption == /\ {Nobody, Document} \cap Nodes = {}
                         /\ Nobody # Document
                         /\ Parent \in [Nodes -> Nodes \cup {Document}]
                         /\ IsFiniteSet(Nodes)

VARIABLES parent,     \* the parent of each element now
          ids,        \* the expando of each element, 0 for none
          cache,      \* jQuery.cache: what is kept under each number
          deletedIds, \* jQuery.deletedIds: numbers to use again
          guid,       \* jQuery.guid, the next new number
          listening,  \* the events for which each element has a listener
          todo,       \* the script: what is left to do
          cut         \* elements taken out by removeChild, for the properties only

store == <<ids, cache, deletedIds, guid>>
dom   == <<parent, store, listening, cut>>

Frame(op, at, arg) == [op |-> op, at |-> at, arg |-> arg]
NoArg              == [none |-> 0]

Idle   == todo = << >>
Top    == Head(todo)
On(op) == ~ Idle /\ Top.op = op
Instead(frames) == todo' = frames \o Tail(todo)
Calls(frames)   == todo' = frames \o todo

---------------------------------------------------------------------------
(* The data cache.  An entry: the handlers by type of event, with how many *)
(* of them are delegated; the queue of animations and its hooks; the state *)
(* of an animation that shows or hides (see Effects).                      *)

NoHandlers == [list |-> << >>, delegates |-> 0]
NoData     == [events |-> [t \in Types |-> NoHandlers], queue |-> << >>, queued |-> FALSE,
               hooks |-> FALSE, fxshow |-> "none", flip |-> "none", olddisplay |-> "none"]

\* _data(elem): what is there, if anything is.
DataOf(e) == IF ids[e] = 0 THEN NoData ELSE cache[ids[e]]

\* A number given back is used before a new one.
FreshId(s) == IF s.deleted # {} THEN CHOOSE i \in s.deleted : TRUE ELSE s.guid

Store == [ids |-> ids, cache |-> cache, deleted |-> deletedIds, guid |-> guid,
          listening |-> listening]

Without(f, i) == [j \in DOMAIN f \ {i} |-> f[j]]

\* data(elem, name, value): the entry is made when first needed.
Stored(s, e, d) ==
    LET i == IF s.ids[e] = 0 THEN FreshId(s) ELSE s.ids[e]
    IN  [s EXCEPT !.ids[e] = i,
                  !.cache = [j \in DOMAIN s.cache \cup {i} |-> IF j = i THEN d ELSE s.cache[j]],
                  !.deleted = @ \ {i},
                  !.guid = IF i = s.guid THEN @ + 1 ELSE @]

\* cleanData([elem]): its listeners, its entry and its expando.
Cleaned(s, e) ==
    IF s.ids[e] = 0 THEN s
    ELSE [s EXCEPT !.ids[e] = 0,
                   !.cache = Without(@, s.ids[e]),
                   !.deleted = @ \cup {s.ids[e]},
                   !.listening = {x \in @ : x[1] # e}]

\* isEmptyDataObject.
Vacant(d) == d = NoData

\* removeData(elem, name): an entry with nothing left in it goes too.
Reduced(s, e, d) == IF s.ids[e] = 0 THEN s
                    ELSE IF Vacant(d) THEN Cleaned(s, e)
                    ELSE [s EXCEPT !.cache[s.ids[e]] = d]

Keep(s) == /\ ids' = s.ids /\ cache' = s.cache /\ deletedIds' = s.deleted
           /\ guid' = s.guid /\ listening' = s.listening

\* cleanData on all of them.
CleanedAll(s, es) ==
    LET gone == {s.ids[e] : e \in es} \ {0}
    IN  [s EXCEPT !.ids = [e \in Nodes |-> IF e \in es THEN 0 ELSE @[e]],
                  !.cache = [i \in DOMAIN @ \ gone |-> @[i]],
                  !.deleted = @ \cup gone,
                  !.listening = {x \in @ : x[1] \notin es}]

---------------------------------------------------------------------------
(* Handlers.                                                               *)

\* A handler: the function, the selector it is delegated to or Nobody, and
\* whether one() has wrapped it.
Handler(fn, selector, once) == [fn |-> fn, selector |-> selector, once |-> once]

\* event.add: delegates in front; the first handler of a type brings a listener.
Bound(s, e, type, h) ==
    LET d  == IF s.ids[e] = 0 THEN NoData ELSE s.cache[s.ids[e]]
        hs == d.events[type]
        new == IF h.selector = Nobody
               THEN [hs EXCEPT !.list = Append(@, h)]
               ELSE [list |-> SubSeq(hs.list, 1, hs.delegates) \o <<h>>
                              \o SubSeq(hs.list, hs.delegates + 1, Len(hs.list)),
                     delegates |-> hs.delegates + 1]
        kept == Stored(s, e, [d EXCEPT !.events[type] = new])
    IN  [kept EXCEPT !.listening = @ \cup {<<e, type>>}]

\* removeEvent: the browser's listener for this type goes.
Deaf(s, e, type) == [s EXCEPT !.listening = @ \ {<<e, type>>}]

\* event.remove: the handlers of this function, or of any if fn is Nobody, that
\* have this selector if one is given.  Without handlers there is no listener,
\* and without data no entry.
MutUnbound(s, e, type, fn, selector) ==
    LET d    == IF s.ids[e] = 0 THEN NoData ELSE s.cache[s.ids[e]]
        stays(h) == (fn # Nobody /\ h.fn # fn) \/ (selector # Nobody /\ h.selector # selector)
    IN  Reduced(s, e, [d EXCEPT !.events[type].list = SelectSeq(@, stays)])
Unbound(s, e, type, fn, selector) ==
    LET d   == IF s.ids[e] = 0 THEN NoData ELSE s.cache[s.ids[e]]
        hs  == d.events[type]
        stays(h)     == (fn # Nobody /\ h.fn # fn) \/ (selector # Nobody /\ h.selector # selector)
        delegated(h) == h.selector # Nobody
        list == SelectSeq(hs.list, stays)
        left == [d EXCEPT !.events[type] =
                    [list |-> list,
                     delegates |-> hs.delegates
                                   - (Len(SelectSeq(hs.list, delegated))
                                      - Len(SelectSeq(list, delegated)))]]
        heard == IF list = << >> /\ hs.list # << >>
                 THEN Deaf(s, e, type) ELSE s
    IN  Reduced(heard, e, left)

---------------------------------------------------------------------------
(* The tree of the document.                                               *)

\* An element and its ancestors, innermost first.
PathUp(e) ==
    LET up[n \in 0..Cardinality(Nodes)] ==
            IF n = 0 THEN <<e>>
            ELSE LET p == parent[up[n - 1][Len(up[n - 1])]]
                 IN  IF p \in Nodes THEN Append(up[n - 1], p) ELSE up[n - 1]
    IN  up[Cardinality(Nodes)]

InDocument(e) == LET path == PathUp(e) IN parent[path[Len(path)]] = Document
Below(e)      == {x \in Nodes : \E i \in DOMAIN PathUp(x) : PathUp(x)[i] = e}

\* remove(): cleaned, and out of the document.
MutRemove(e) == /\ Keep(Cleaned(Store, e))
                /\ parent' = [parent EXCEPT ![e] = Nobody]
                /\ UNCHANGED cut
Remove(e) == /\ Keep(CleanedAll(Store, Below(e)))
             /\ parent' = [parent EXCEPT ![e] = Nobody]
             /\ UNCHANGED cut

\* empty(), html(...): what is inside is cleaned and goes.
Empty(e) == /\ Keep(CleanedAll(Store, Below(e) \ {e}))
            /\ parent' = [x \in Nodes |-> IF parent[x] = e THEN Nobody ELSE parent[x]]
            /\ UNCHANGED cut

\* node.parentNode.removeChild(node), past jQuery.
RemoveNode(e) == /\ parent' = [parent EXCEPT ![e] = Nobody]
                 /\ cut' = cut \cup Below(e)
                 /\ UNCHANGED <<store, listening>>

---------------------------------------------------------------------------
(* Events.                                                                 *)

\* jQuery.Event: the user's own, or one that is triggered.
NewEvent(type, native) == [type |-> type, native |-> native, stopped |-> FALSE]

\* An event on its way up from its target; its way is fixed when it begins.
Event(e, type, native) ==
    LET event == NewEvent(type, native)
    IN  Frame("path", e, [type |-> event.type, native |-> event.native, stopped |-> event.stopped,
                          rest |-> PathUp(e)])

\* dispatch: the handlers at cur for an event from below, as they are now: the
\* delegated ones from the target up, then those bound to cur itself.
Matched(cur, type, target) ==
    LET hs   == DataOf(cur).events[type]
        path == PathUp(target)
        to   == IF \E i \in DOMAIN path : path[i] = cur
                THEN (CHOOSE i \in DOMAIN path : path[i] = cur) - 1 ELSE Len(path)
        group(x, from, last, want) ==
            LET these == SelectSeq(SubSeq(hs.list, from, last), LAMBDA h : h.selector = want)
            IN  [i \in DOMAIN these |-> [at |-> x, h |-> these[i]]]
        upTo[n \in 0..to] == IF n = 0 THEN << >>
                             ELSE upTo[n - 1] \o group(path[n], 1, hs.delegates, path[n])
    IN  upTo[to] \o group(cur, hs.delegates + 1, Len(hs.list), Nobody)

\* The next element on the way: its handlers, if it has any.  The user's own event
\* is told to listeners, one that is triggered looks for handlers; the browser's
\* event that ends it finds jQuery.event.triggered set, and no handler hears that.
PathStep ==
    LET a   == Top.arg
        cur == Head(a.rest)
        next == Frame("path", Top.at, [a EXCEPT !.rest = Tail(@)])
        heard == IF a.native THEN <<cur, a.type>> \in listening
                 ELSE DataOf(cur).events[a.type].list # << >>
    IN  /\ On("path")
        /\ IF a.stopped \/ a.rest = << >> THEN Instead(<< >>)
           ELSE IF heard
           THEN Instead(<<Frame("dispatch", cur, [type |-> a.type, now |-> FALSE, stopped |-> FALSE,
                                                  last |-> Nobody,
                                                  rest |-> Matched(cur, a.type, Top.at)]), next>>)
           ELSE Instead(<<next>>)
        /\ UNCHANGED dom

\* The next handler that was found; what one() has bound is unbound before it runs.
\* Stopping the event ends it with this element's handlers, or at once.
DispatchStep ==
    LET a == Top.arg
        m == Head(a.rest)
    IN  /\ On("dispatch")
        /\ IF a.rest = << >> \/ a.now \/ (a.stopped /\ m.at # a.last)
           THEN Instead(<< >>) /\ UNCHANGED dom
           ELSE /\ Instead(<<Frame("handler", m.at, m.h),
                             Frame("dispatch", Top.at, [a EXCEPT !.rest = Tail(@), !.last = m.at])>>)
                /\ IF m.h.once THEN Keep(Unbound(Store, Top.at, a.type, m.h.fn, m.h.selector))
                   ELSE UNCHANGED <<store, listening>>
                /\ UNCHANGED <<parent, cut>>

\* A handler returns: false stops the event; "now" is stopImmediatePropagation.
HandlerReturns(answer) ==
    /\ On("handler")
    /\ todo' = IF answer = "goes on" THEN Tail(todo)
               ELSE <<[todo[2] EXCEPT !.arg.stopped = TRUE, !.arg.now = (answer = "now")],
                      [todo[3] EXCEPT !.arg.stopped = TRUE]>>
                    \o SubSeq(todo, 4, Len(todo))
    /\ UNCHANGED dom

EventStep == PathStep \/ DispatchStep

ElementsInit == /\ parent = Parent
                /\ ids = [e \in Nodes |-> 0]
                /\ cache = << >>
                /\ deletedIds = {}
                /\ guid = 1
                /\ listening = {}
                /\ todo = << >>
                /\ cut = {}

---------------------------------------------------------------------------
(* Properties of the cache.                                                *)

\* Every element that has a number has an entry of its own under it, no number is
\* both in use and given back, and a number is never in use twice.
CacheIsExact ==
    /\ DOMAIN cache = {ids[e] : e \in Nodes} \ {0}
    /\ \A e, f \in Nodes : ids[e] = ids[f] /\ ids[e] # 0 => e = f
    /\ deletedIds \cap DOMAIN cache = {}
    /\ deletedIds \cup DOMAIN cache = 1..(guid - 1)

\* Delegated handlers are in front, as many as delegateCount says.
DelegatesFirst ==
    \A i \in DOMAIN cache, t \in Types :
       LET hs == cache[i].events[t]
       IN  /\ hs.delegates \in 0..Len(hs.list)
           /\ \A n \in DOMAIN hs.list : (hs.list[n].selector # Nobody) <=> (n <= hs.delegates)

\* An element has a listener for exactly the events it has handlers for.
ListenersAgree ==
    listening = {x \in Nodes \X Types : DataOf(x[1]).events[x[2]].list # << >>}
=============================================================================
