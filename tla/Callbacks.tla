------------------------------ MODULE Callbacks ------------------------------
(***************************************************************************)
(* Lists of callbacks (jquery-1.8.3.js, jQuery.Callbacks) and the deferred *)
(* objects made of three of them (jQuery.Deferred), which carry the web    *)
(* client's requests, its "document is ready" and its animations.          *)
(*                                                                         *)
(* A script runs to completion, but the callbacks it calls may call back   *)
(* into the list that is calling them.  The script is therefore a stack of *)
(* frames, todo: what is left to do, the innermost call first.  Each step  *)
(* takes the first frame and may push the frames of the calls it makes.  A *)
(* frame is what to do (op), to which list or deferred (at), and with what *)
(* (arg).  Nothing runs when todo is empty.                                *)
(*                                                                         *)
(* A callback is a record: what it does, and to which deferred; what the   *)
(* callbacks of the page do (does = "page") is left to the module that     *)
(* uses this one.                                                          *)
(***************************************************************************)
EXTENDS Integers, Sequences, FiniteSets

CONSTANTS Lists,     \* the callback lists; those of deferred d are <<d, "done">>, ...
          Deferreds, \* the deferred objects
          Flags,     \* the options each list was made with
          InitialList \* what the page has put into a list of its own

VARIABLES lists,     \* the variables of each list's closure
          settled,   \* the variable state of each deferred
          todo,      \* the script: what is left to do
          added,     \* the page's callbacks added to each list, for the properties only
          called,    \* those in it that it has called with its latest data, likewise
          lost       \* which frames of deferreds exceptions have cut off, likewise

script    == <<lists, settled, todo>>
histories == <<added, called, lost>>

Data(text) == [text |-> text]
Nothing    == Data("nothing")     \* undefined, false: no data, no argument

Frame(op, at, arg) == [op |-> op, at |-> at, arg |-> arg]
Callback(does, at) == [does |-> does, at |-> at]
Elems(s)           == {s[i] : i \in DOMAIN s}

Idle   == todo = << >>
Top    == Head(todo)
On(op) == ~ Idle /\ Top.op = op

\* Replace the first frame by others, and call others from it.
Instead(frames) == todo' = frames \o Tail(todo)
Calls(frames)   == todo' = frames \o todo

---------------------------------------------------------------------------
(* The closure of a list, and what each method makes of it.                *)

\* gone: list is undefined; single: stack is false or undefined.
NewList(flags, callbacks) ==
    [flags |-> flags, list |-> callbacks, gone |-> FALSE,
     stack |-> << >>, single |-> "once" \in flags,
     memory |-> Nothing, fired |-> FALSE, firing |-> FALSE,
     length |-> 0, index |-> 0,
     emptied |-> FALSE]   \* under the loop, for the properties only

Has(r, f) == f \in Elems(r.list)

\* add: with the option unique a callback that is there already is passed over.
MutAdded(r, f) == IF r.gone \/ ("unique" \in r.flags /\ Has(r, f)) THEN r
                  ELSE [r EXCEPT !.list = Append(@, f)]
Added(r, f) ==
    IF r.gone \/ ("unique" \in r.flags /\ Has(r, f)) THEN r
    ELSE [r EXCEPT !.list   = Append(@, f),
                   !.length = IF r.firing THEN Len(r.list) + 1 ELSE @]

\* A list that remembers its data calls at once what is added when it rests.
CallsNow(r) == ~ r.gone /\ ~ r.firing /\ r.memory # Nothing

\* remove: one occurrence after the other goes; a loop under way is told whether it
\* has passed, or is at, the one that goes.
FirstOf(q, f)  == CHOOSE i \in DOMAIN q : q[i] = f /\ \A j \in DOMAIN q : q[j] = f => i <= j
Dropped(q, i)  == SubSeq(q, 1, i - 1) \o SubSeq(q, i + 1, Len(q))
MutRemoved(r, i) == [r EXCEPT !.list   = Dropped(@, i),
                              !.length = IF r.firing THEN @ - 1 ELSE @]
Removed(r, i) == [r EXCEPT !.list   = Dropped(@, i),
                           !.length = IF r.firing THEN @ - 1 ELSE @,
                           !.index  = IF r.firing /\ i - 1 <= @ THEN @ - 1 ELSE @]

\* empty replaces the list, even under a loop.
Emptied(r)  == [r EXCEPT !.list = << >>, !.gone = FALSE, !.emptied = @ \/ r.firing]
Disabled(r) == [r EXCEPT !.list = << >>, !.gone = TRUE, !.stack = << >>,
                         !.single = TRUE, !.memory = Nothing]
Locked(r)   == LET k == [r EXCEPT !.stack = << >>, !.single = TRUE]
               IN  IF r.memory = Nothing THEN Disabled(k) ELSE k

\* fire, from its start to the head of its loop.
Fired(r, data, start) ==
    [r EXCEPT !.memory = IF "memory" \in r.flags THEN data ELSE Nothing,
              !.fired  = TRUE, !.firing = TRUE,
              !.index  = start, !.length = Len(r.list),
              !.emptied = @ /\ start > 0]

\* fireWith: a list that may fire once ignores the second call, one that is
\* firing remembers it for later.
MayFire(r)    == ~ r.gone /\ (~ r.fired \/ ~ r.single)
Pushed(r, data) == [r EXCEPT !.stack = Append(@, data)]

\* What fire does after its loop, unless another call waits on the stack.
Rested(r) == LET q == [r EXCEPT !.firing = FALSE]
             IN  IF r.gone \/ ~ r.single THEN q
                 ELSE IF r.memory # Nothing THEN [q EXCEPT !.list = << >>]
                 ELSE Disabled(q)

---------------------------------------------------------------------------
(* The frames "add", "remove", "empty", "fire", "disable" and "lock".      *)

DoAdd == LET l == Top.at
             r == Added(lists[l], Top.arg)
         IN  /\ On("add")
             /\ IF CallsNow(lists[l])
                THEN /\ lists' = [lists EXCEPT
                                    ![l] = Fired(r, r.memory, Len(lists[l].list))]
                     /\ Instead(<<Frame("loop", l, Nothing)>>)
                ELSE /\ lists' = [lists EXCEPT ![l] = r]
                     /\ Instead(<< >>)
             /\ added' = [added EXCEPT ![l] =
                             IF r.list = lists[l].list THEN @ ELSE Append(@, Top.arg)]
             /\ UNCHANGED <<settled, called, lost>>

DoRemove == LET l == Top.at
                f == Top.arg
                r == lists[l]
            IN  /\ On("remove")
                /\ \/ /\ ~ r.gone /\ Has(r, f)
                      /\ lists' = [lists EXCEPT ![l] = Removed(@, FirstOf(r.list, f))]
                      /\ called' = [called EXCEPT ![l] = IF f \in Elems(@)
                                                         THEN Dropped(@, FirstOf(@, f)) ELSE @]
                      /\ UNCHANGED todo
                   \/ /\ r.gone \/ ~ Has(r, f)
                      /\ Instead(<< >>)
                      /\ UNCHANGED <<lists, called>>
                /\ UNCHANGED <<settled, added, lost>>

DoEmpty == /\ On("empty")
           /\ lists' = [lists EXCEPT ![Top.at] = Emptied(@)]
           /\ called' = [called EXCEPT ![Top.at] = << >>]
           /\ Instead(<< >>)
           /\ UNCHANGED <<settled, added, lost>>

DoDisable == /\ On("disable")
             /\ lists' = [lists EXCEPT ![Top.at] = Disabled(@)]
             /\ Instead(<< >>)
             /\ UNCHANGED <<settled, histories>>

DoLock == /\ On("lock")
          /\ lists' = [lists EXCEPT ![Top.at] = Locked(@)]
          /\ Instead(<< >>)
          /\ UNCHANGED <<settled, histories>>

\* lists' and called' when list l starts its loop with these data.
Starts(l, data) == /\ lists' = [lists EXCEPT ![l] = Fired(@, data, 0)]
                   /\ called' = [called EXCEPT ![l] = << >>]

DoFire == LET l == Top.at IN
          /\ On("fire")
          /\ \/ /\ ~ MayFire(lists[l])
                /\ Instead(<< >>)
                /\ UNCHANGED <<lists, called>>
             \/ /\ MayFire(lists[l]) /\ lists[l].firing
                /\ lists' = [lists EXCEPT ![l] = Pushed(@, Top.arg)]
                /\ Instead(<< >>)
                /\ UNCHANGED called
             \/ /\ MayFire(lists[l]) /\ ~ lists[l].firing
                /\ Starts(l, Top.arg)
                /\ Instead(<<Frame("loop", l, Nothing)>>)
          /\ UNCHANGED <<settled, added, lost>>

---------------------------------------------------------------------------
(* The loop of fire.                                                       *)

InternalNames == {"settle", "disable", "lock"}
InLoop(r) == ~ r.gone /\ r.index < r.length

\* A callback of the page is a call, with a frame of its own.
CallNext == LET l == Top.at
                r == lists[l]
            IN  /\ On("loop")
                /\ InLoop(r) /\ r.index < Len(r.list)
                /\ r.list[r.index + 1].does \notin InternalNames
                /\ called' = [called EXCEPT ![l] = Append(@, r.list[r.index + 1])]
                /\ Calls(<<Frame("run", l, r.list[r.index + 1])>>)
                /\ UNCHANGED <<lists, settled, added, lost>>

\* The loop is over, or broken off: the next data on the stack, or rest.
AfterLoop(l, r, rest) ==
    IF ~ r.gone /\ ~ r.single /\ r.stack # << >>
    THEN /\ lists' = [lists EXCEPT ![l] = Fired([r EXCEPT !.stack = Tail(@)],
                                                Head(r.stack), 0)]
         /\ called' = [called EXCEPT ![l] = << >>]
         /\ todo' = <<Frame("loop", l, Nothing)>> \o rest
    ELSE /\ lists' = [lists EXCEPT ![l] = Rested(r)]
         /\ todo' = rest
         /\ called' = [called EXCEPT ![l] = IF l[1] \in Deferreds \/ Rested(r).list # << >>
                                            THEN @ ELSE << >>]

LoopEnds == /\ On("loop")
            /\ ~ InLoop(lists[Top.at])
            /\ AfterLoop(Top.at, lists[Top.at], Tail(todo))
            /\ UNCHANGED <<settled, added, lost>>

\* The callback that was called returns; false ends the loop if that was asked.
Returns(answer) ==
    LET l == Top.at
        r == lists[l]
    IN  /\ On("run")
        /\ IF answer = FALSE /\ "stopOnFalse" \in r.flags
           THEN AfterLoop(l, [r EXCEPT !.memory = Nothing], Tail(Tail(todo)))
           ELSE /\ lists' = [lists EXCEPT ![l].index = @ + 1]
                /\ Instead(<< >>)
                /\ UNCHANGED called
        /\ UNCHANGED <<settled, added, lost>>

\* An exception: the frames up to the nearest try are gone, and with them every
\* loop under way, whose firing stays true for good.
Unwound(frames) ==
    LET tries == {i \in DOMAIN frames : frames[i].op = "try"}
    IN  IF tries = {} THEN << >>
        ELSE LET i == CHOOSE j \in tries : \A k \in tries : j <= k
             IN  <<[frames[i] EXCEPT !.op = "catch"]>> \o SubSeq(frames, i + 1, Len(frames))

\* An exception in the first of these frames.
ThrowIn(frames) ==
    LET left == Unwound(frames)
        cut  == SubSeq(frames, 1, Len(frames) - Len(left))
    IN  /\ todo' = left
        /\ lost' = lost \cup {<<f.op, f.at>> : f \in {g \in Elems(cut) : g.at \in Deferreds}}

\* list[firingIndex].apply where empty() has put a shorter list under the loop.
CallOfNothing == LET r == lists[Top.at] IN
                 /\ On("loop")
                 /\ InLoop(r) /\ r.index >= Len(r.list)
                 /\ ThrowIn(todo)
                 /\ UNCHANGED <<lists, settled, added, called>>

---------------------------------------------------------------------------
(* Deferred: the lists done and fail begin with three callbacks of its own.*)

MutInternal(d, name) == <<Callback("settle", d), Callback("lock", d)>>
Internal(d, name) == IF name = "progress" THEN << >>
                     ELSE <<Callback("settle", d), Callback("disable", d), Callback("lock", d)>>

NewDeferred(d, name) == NewList({"memory"} \cup IF name = "progress" THEN {} ELSE {"once"},
                                Internal(d, name))

Other(name) == IF name = "done" THEN "fail" ELSE "done"
StateOf(name) == IF name = "done" THEN "resolved" ELSE "rejected"

\* state = stateString; the other list is disabled; the progress list is locked.
RunInternal ==
    LET l == Top.at
        r == lists[l]
        next == [r EXCEPT !.index = @ + 1]
        does(name) == r.list[r.index + 1].does = name
        d == r.list[r.index + 1].at
    IN  /\ On("loop")
        /\ InLoop(r) /\ r.index < Len(r.list)
        /\ \/ /\ does("settle")
              /\ settled' = [settled EXCEPT ![d] = StateOf(l[2])]
              /\ lists' = [lists EXCEPT ![l] = next]
           \/ /\ does("disable")
              /\ lists' = [lists EXCEPT ![l] = next, ![<<d, Other(l[2])>>] = Disabled(@)]
              /\ UNCHANGED settled
           \/ /\ does("lock")
              /\ lists' = [lists EXCEPT ![l] = next, ![<<d, "progress">>] = Locked(@)]
              /\ UNCHANGED settled
        /\ UNCHANGED <<todo, histories>>

\* resolveWith, rejectWith.
Resolve(d, data) == <<Frame("fire", <<d, "done">>, data)>>
Reject(d, data)  == <<Frame("fire", <<d, "fail">>, data)>>

\* Where a new script finds the lists.
CallbacksInit ==
    /\ lists = [l \in Lists |-> IF l[2] \in {"done", "fail", "progress"}
                                THEN NewDeferred(l[1], l[2])
                                ELSE NewList(Flags[l], IF l[1] \in Deferreds THEN << >>
                                                       ELSE InitialList)]
    /\ settled = [d \in Deferreds |-> "pending"]
    /\ todo = << >>
    /\ added = [l \in Lists |-> IF l[1] \in Deferreds THEN << >> ELSE InitialList]
    /\ called = [l \in Lists |-> << >>]
    /\ lost = {}

\* The steps of the library itself.
CallbackStep == \/ DoAdd \/ DoRemove \/ DoEmpty \/ DoDisable \/ DoLock \/ DoFire
                \/ CallNext \/ LoopEnds \/ CallOfNothing \/ RunInternal
=============================================================================
