------------------------------ MODULE Effects ------------------------------
(***************************************************************************)
(* Animations that show and hide elements (jquery-1.8.3.js: queue and      *)
(* dequeue, animate, Animation, stop, the timers and their tick).          *)
(*                                                                         *)
(* Animations of an element wait in its queue, in the data cache, behind a *)
(* sentinel "inprogress".  Those under way, of all elements, are in one    *)
(* array, jQuery.timers, which the tick goes through by index.  An         *)
(* animation that completes calls the page, which may start or stop others *)
(* or take elements away, while the tick, or a stop, is in the array.      *)
(*                                                                         *)
(* One size stands for the properties that show and hide animate together. *)
(* Time is counted in ticks.                                               *)
(***************************************************************************)
EXTENDS Elements

CONSTANTS CssHidden, \* the elements the stylesheet hides
          Jobs,      \* the animations: what is animated to, in how many ticks
          Stops,     \* <<clearQueue, gotoEnd>> of the calls of stop
          Bindings,  \* <<element, handler>> the page may bind
          MaxMoves   \* bound on what the page does

\* What slideDown, slideUp, slideToggle and the like ask of their properties.
Kinds == {"show", "hide", "toggle"}

ASSUME EffectsAssumption == /\ CssHidden \subseteq Nodes
                            /\ Jobs \subseteq [kind : Kinds, ticks : Nat \ {0}]
                            /\ MaxMoves \in Nat
                            /\ Stops \subseteq BOOLEAN \X BOOLEAN

VARIABLES display,  \* style.display of each element, "" if it has none
          size,     \* its size in its style: "" if it has none, "0", "part", "full"
          timers,   \* jQuery.timers
          interval, \* whether timerId is set
          moves,    \* how much the page has done, for the bound only
          wanted,   \* what show or hide last asked of each element, for the properties only
          rough,    \* elements stopped, and what broke a script or a loop, likewise
          late      \* elements that an animation touched out of the document, likewise

look  == <<display, size>>
past  == <<wanted, rough, late>>
vars  == <<dom, todo, look, timers, interval, moves, past>>

\* The computed display; an element out of the document has only its style's.
CssDisplay(e) == IF display[e] # "" \/ ~ InDocument(e) THEN display[e]
                 ELSE IF e \in CssHidden THEN "none" ELSE "block"
Hidden(e)     == CssDisplay(e) = "none" \/ ~ InDocument(e)

\* css(e, height): the computed size; and style(e, height, value).
CssSize(e)       == IF size[e] # "" THEN size[e] ELSE IF InDocument(e) THEN "full" ELSE "auto"
Styled(e, value) == size' = [size EXCEPT ![e] = value]

\* What a tween starts from.
MutCurrent(e) == size[e]
Current(e)    == IF CssSize(e) = "auto" THEN "0" ELSE CssSize(e)

\* show(): the display kept when the element was hidden, or the stylesheet's, or,
\* where that hides it, the default of its kind of element.
Shown(e, d) ==
    LET plain    == IF d.olddisplay # "block" /\ display[e] = "none" THEN "" ELSE display[e]
        hidden   == ~ InDocument(e) \/ e \in CssHidden
        override == plain = "" /\ hidden
        kept     == d.olddisplay = "block" \/ override
    IN  [display |-> IF plain \in {"", "none"} THEN (IF kept THEN "block" ELSE "") ELSE plain,
         data    |-> IF override THEN [d EXCEPT !.olddisplay = "block"] ELSE d]

\* hide(): the display it had is kept, "" for an element out of the document.
Unseen(e, d) ==
    IF d.olddisplay = "block" \/ CssDisplay(e) = "none" THEN d
    ELSE [d EXCEPT !.olddisplay = IF CssDisplay(e) = "" THEN "blank" ELSE "block"]

---------------------------------------------------------------------------
(* Queues.                                                                 *)

Waiting == [kind |-> "inprogress", ticks |-> 0]

\* fn.queue("fx", job), called by animate.
Queue == LET e == Top.at
             d == [DataOf(e) EXCEPT !.queue = Append(@, Top.arg), !.queued = TRUE,
                                    !.hooks = TRUE]
         IN  /\ On("queue")
             /\ Keep(Stored(Store, e, d))
             /\ Instead(IF Head(d.queue) # Waiting THEN <<Frame("dequeue", e, NoArg)>> ELSE << >>)
             /\ UNCHANGED <<parent, cut, look, timers, interval, moves, past>>

\* dequeue: the sentinel goes and the next job runs behind a new one; when there was
\* nothing, the hooks' list empties queue and hooks.
MutBehind(q) == q
Behind(q)    == <<Waiting>> \o q
MutAfterSentinel(q) == q
AfterSentinel(q)    == IF q # << >> /\ Head(q) = Waiting THEN Tail(q) ELSE q
Dequeue ==
    LET e == Top.at
        d == DataOf(e)
        q == AfterSentinel(d.queue)
        s == Stored(Store, e, [d EXCEPT !.hooks = TRUE])
    IN  /\ On("dequeue")
        /\ IF q = << >>
           THEN /\ Keep(Reduced(s, e, [d EXCEPT !.queue = << >>, !.queued = FALSE, !.hooks = FALSE]))
                /\ Instead(<< >>)
           ELSE /\ Keep(Stored(s, e, [d EXCEPT !.queue = Behind(Tail(q)), !.hooks = TRUE]))
                /\ Instead(<<Frame("job", e, Head(q))>>)
        /\ UNCHANGED <<parent, cut, look, timers, interval, moves, past>>

---------------------------------------------------------------------------
(* One animation.                                                          *)

\* The identity of a timer function: a number no timer and no loop holds.
FreeNumber ==
    LET used == {timers[i].id : i \in DOMAIN timers}
                \cup {todo[i].arg.id : i \in {j \in DOMAIN todo : todo[j].op = "ticked"}}
    IN  CHOOSE n \in 1..(Cardinality(used) + 1) :
           n \notin used /\ \A m \in 1..(n - 1) : m \in used

\* What the page gave as complete, and then the next in the queue.
Completion(e) == <<Frame("complete", e, NoArg), Frame("dequeue", e, NoArg)>>

\* done: hide() if it was to be hidden, what fxshow kept goes, the style's size is
\* put back.
Finish(e, t) ==
    LET hid  == IF t.hides THEN Unseen(e, DataOf(e)) ELSE DataOf(e)
        s    == IF t.hides /\ hid # DataOf(e) THEN Stored(Store, e, hid) ELSE Store
    IN  /\ Keep(Reduced(s, e, [hid EXCEPT !.fxshow = "none", !.flip = "none"]))
        /\ display' = IF t.hides THEN [display EXCEPT ![e] = "none"] ELSE display
        /\ Styled(e, t.orig)
        /\ late' = IF InDocument(e) THEN late ELSE late \cup {e}

\* The show/hide pass: what is shown already is not shown again.
Handled(e, kind) == kind = "toggle" \/ (kind = "show" /\ Hidden(e)) \/ (kind = "hide" /\ ~ Hidden(e))

\* fxshow: whether the element counts as hidden, and what a toggle keeps of that, so
\* that the next one reverses it.
CountsAsHidden(e, d)   == IF d.flip = "none" THEN Hidden(e) ELSE d.flip = "hidden"
Flipped(kind, d, hidden) == IF kind # "toggle" THEN d.flip ELSE IF hidden THEN "shown" ELSE "hidden"

\* The animation's tick with its one tween: an animation that was stopped half way
\* goes on from where it is, to the size that fxshow has kept.
NewTimer(e, d, hidden, ticks) ==
    LET known == d.fxshow # "none"
    IN  [id |-> FreeNumber, elem |-> e, hides |-> ~ hidden, left |-> ticks, settled |-> FALSE,
         start |-> IF hidden /\ ~ known THEN "0" ELSE Current(e),
         end   |-> IF ~ hidden THEN "0" ELSE IF known THEN d.fxshow ELSE Current(e),
         orig  |-> IF d.fxshow \in {"none", "0"} THEN size[e] ELSE d.fxshow]

\* run: the size between start and end.
Run(t) == Styled(t.elem, IF t.start = t.end THEN t.end ELSE "part")

\* fx.timer: the first frame, a place in jQuery.timers, and the interval if there is none.
Started(t) == /\ Styled(t.elem, t.start)
              /\ timers' = Append(timers, t)
              /\ interval' = TRUE

\* defaultPrefilter: a hidden element is shown, and fxshow keeps whether it was
\* hidden and its size.
Prefiltered(e, kind) ==
    LET d      == DataOf(e)
        hidden == CountsAsHidden(e, d)
        shown  == Shown(e, d)
    IN  /\ Keep(Stored(Store, e, [(IF hidden THEN shown.data ELSE d) EXCEPT
                         !.flip = Flipped(kind, d, hidden),
                         !.fxshow = IF @ = "none" THEN Current(e) ELSE @]))
        /\ display' = [display EXCEPT ![e] = IF hidden THEN shown.display ELSE @]

\* Animation: one of nothing completes at once.
Job ==
    LET e    == Top.at
        kind == Top.arg.kind
        d    == DataOf(e)
    IN  /\ On("job")
        /\ IF ~ Handled(e, kind)
           THEN /\ Instead(Completion(e))
                /\ UNCHANGED <<store, listening, look, timers, interval>>
           ELSE /\ Prefiltered(e, kind)
                /\ Started(NewTimer(e, d, CountsAsHidden(e, d), Top.arg.ticks))
                /\ Instead(<< >>)
        /\ late' = IF InDocument(e) THEN late ELSE late \cup {e}
        /\ UNCHANGED <<parent, cut, moves, wanted, rough>>

---------------------------------------------------------------------------
(* The interval, stop, and the loops of both through jQuery.timers.        *)

Dropped(seq, i) == SubSeq(seq, 1, i - 1) \o SubSeq(seq, i + 1, Len(seq))

\* setInterval calls tick: one more tick of time has gone by.
Interval == /\ Idle /\ interval
            /\ timers' = [i \in DOMAIN timers |->
                            [timers[i] EXCEPT !.left = IF @ = 0 THEN 0 ELSE @ - 1]]
            /\ todo' = <<Frame("tick", Nobody, [i |-> 1])>>
            /\ UNCHANGED <<dom, look, interval, moves, past>>

\* fx.stop, when the loop finds no timer left.
Rest == interval' = (interval /\ timers # << >>)

\* The next timer, or the end of the loop: a tween runs, and its last frame completes
\* the animation.
Tick ==
    LET i == Top.arg.i
        t == timers[i]
    IN  /\ On("tick")
        /\ \/ /\ i > Len(timers)
              /\ Rest
              /\ Instead(<< >>)
              /\ UNCHANGED <<store, listening, look, timers, late>>
           \/ /\ i <= Len(timers) /\ t.left > 0
              /\ Run(t)
              /\ Instead(<<Frame("tick", Nobody, [i |-> i + 1])>>)
              /\ UNCHANGED <<store, listening, display, timers, interval, late>>
           \/ /\ i <= Len(timers) /\ t.left = 0 /\ t.settled
              /\ Styled(t.elem, t.end)
              /\ timers' = Dropped(timers, i)
              /\ UNCHANGED <<store, listening, display, interval, todo, late>>
           \/ /\ i <= Len(timers) /\ t.left = 0 /\ ~ t.settled
              /\ Finish(t.elem, t)
              /\ timers' = [timers EXCEPT ![i].settled = TRUE]
              /\ Instead(Completion(t.elem) \o <<Frame("ticked", Nobody, [i |-> i, id |-> t.id])>>)
              /\ UNCHANGED interval
        /\ UNCHANGED <<parent, cut, moves, wanted, rough>>

\* A timer that is over is taken out, if it is still where it was.
Ticked == LET i == Top.arg.i
              there == i <= Len(timers) /\ timers[i].id = Top.arg.id
          IN  /\ On("ticked")
              /\ timers' = IF there THEN Dropped(timers, i) ELSE timers
              /\ Instead(<<Frame("tick", Nobody, [i |-> IF there THEN i ELSE i + 1])>>)
              /\ UNCHANGED <<dom, look, interval, moves, past>>

\* An exception ends the script; one in a handler of the user's event ends what that
\* element's listener does, and the event goes on.
Unwound(frames) ==
    LET native == {i \in DOMAIN frames : frames[i].op = "path" /\ frames[i].arg.native}
    IN  IF native = {} THEN << >>
        ELSE SubSeq(frames, CHOOSE i \in native : TRUE, Len(frames))

\* stop(clearQueue, gotoEnd): the queue is replaced by an empty one, and dequeued.
Stop == LET e == Top.at
            d == DataOf(e)
            s == Stored(Store, e, [d EXCEPT !.queue = << >>, !.queued = TRUE, !.hooks = TRUE])
        IN  /\ On("stop")
            /\ Keep(IF ~ Top.arg.clearQueue THEN Store
                    ELSE Reduced(s, e, [d EXCEPT !.queue = << >>, !.queued = FALSE,
                                                 !.hooks = FALSE]))
            /\ Instead(<<Frame("stops", e, [i |-> Len(timers), none |-> TRUE,
                                            gotoEnd |-> Top.arg.gotoEnd])>>)
            /\ UNCHANGED <<parent, cut, look, timers, interval, moves, past>>

\* The loop of stop, from the last timer to the first; a timer that is over has no
\* elem, and where complete has taken timers out there may be none: an exception.
StopNext ==
    LET e == Top.at
        a == Top.arg
        t == timers[a.i]
        next(none) == Frame("stops", e, [a EXCEPT !.i = @ - 1, !.none = none])
    IN  /\ On("stops")
        /\ \/ /\ a.i = 0
              /\ Instead(IF a.none \/ ~ a.gotoEnd THEN <<Frame("dequeue", e, NoArg)>> ELSE << >>)
              /\ UNCHANGED <<store, listening, look, timers, late, rough>>
           \/ /\ a.i # 0 /\ (a.i > Len(timers) \/ t.settled \/ t.elem # e)
              /\ todo' = IF a.i > Len(timers) THEN Unwound(todo) ELSE <<next(a.none)>> \o Tail(todo)
              /\ rough' = IF a.i > Len(timers) THEN rough \cup {"throw"} ELSE rough
              /\ UNCHANGED <<store, listening, look, timers, late>>
           \/ /\ a.i \in DOMAIN timers /\ ~ t.settled /\ t.elem = e /\ ~ a.gotoEnd
              /\ timers' = Dropped(timers, a.i)
              /\ Instead(<<next(FALSE)>>)
              /\ UNCHANGED <<store, listening, look, late, rough>>
           \/ /\ a.i \in DOMAIN timers /\ ~ t.settled /\ t.elem = e /\ a.gotoEnd
              /\ Finish(e, t)
              /\ timers' = [timers EXCEPT ![a.i].settled = TRUE]
              /\ Instead(Completion(e) \o <<Frame("splice", e, [i |-> a.i]), next(FALSE)>>)
              /\ UNCHANGED rough
        /\ UNCHANGED <<parent, cut, interval, moves, wanted>>

\* timers.splice(index, 1), whatever is there now.
Splice == /\ On("splice")
          /\ timers' = Dropped(timers, Top.arg.i)
          /\ Instead(<< >>)
          /\ UNCHANGED <<dom, look, interval, moves, past>>

---------------------------------------------------------------------------
(* The page.                                                               *)

\* One of its calls: an animation, a stop, elements taken away, a handler bound or
\* unbound, an event triggered.
InLoop == \E i \in DOMAIN todo : todo[i].op \in {"tick", "ticked", "stops", "splice"}

Animate(e, job) == /\ Calls(<<Frame("queue", e, job)>>)
                   /\ wanted' = [wanted EXCEPT ![e] = job.kind]
                   /\ UNCHANGED <<dom, rough>>

CallStop(e, how) == /\ Calls(<<Frame("stop", e, [clearQueue |-> how[1], gotoEnd |-> how[2]])>>)
                    /\ rough' = rough \cup {e} \cup IF InLoop THEN {"stop"} ELSE {}
                    /\ UNCHANGED <<dom, wanted>>

TakeAway(e) == /\ InDocument(e)
               /\ Remove(e) \/ Empty(e) \/ RemoveNode(e)
               /\ UNCHANGED <<todo, wanted, rough>>

Bind(e, h) == /\ InDocument(e)
              /\ h \notin {DataOf(e).events["click"].list[i] :
                              i \in DOMAIN DataOf(e).events["click"].list}
              /\ Keep(Bound(Store, e, "click", h))
              /\ UNCHANGED <<parent, cut, todo, wanted, rough>>
Unbind(e, fn, selector) == /\ Keep(Unbound(Store, e, "click", fn, selector))
                           /\ UNCHANGED <<parent, cut, todo, wanted, rough>>

Happens(e, native) == /\ Calls(<<Event(e, "click", native)>>)
                      /\ UNCHANGED <<dom, wanted, rough>>

PageCall == /\ moves < MaxMoves
            /\ moves' = moves + 1
            /\ \/ \E e \in Nodes : \/ \E job \in Jobs : Animate(e, job)
                                   \/ \E how \in Stops : CallStop(e, how)
                                   \/ TakeAway(e)
                                   \/ Happens(e, FALSE)
               \/ \E b \in Bindings : \/ Bind(b[1], b[2])
                                      \/ Unbind(b[1], b[2].fn, b[2].selector)
            /\ UNCHANGED <<look, timers, interval, late>>

\* The page calls from a timeout of its own, from a handler or from complete.
Timeout  == Idle /\ PageCall
Callback == (On("complete") \/ On("handler")) /\ PageCall

CompleteReturns == /\ On("complete")
                   /\ Instead(<< >>)
                   /\ UNCHANGED <<dom, look, timers, interval, moves, past>>
HandlerDone     == /\ \E answer \in {"goes on", "stop", "now"} : HandlerReturns(answer)
                   /\ UNCHANGED <<look, timers, interval, moves, past>>
Throws          == /\ On("complete") \/ On("handler")
                   /\ todo' = Unwound(todo)
                   /\ rough' = rough \cup {"throw"}
                   /\ UNCHANGED <<dom, look, timers, interval, moves, wanted, late>>

\* The user's click.
Click == /\ Idle /\ moves < MaxMoves
         /\ moves' = moves + 1
         /\ \E e \in Nodes : InDocument(e) /\ Happens(e, TRUE)
         /\ UNCHANGED <<look, timers, interval, late>>

Events == EventStep /\ UNCHANGED <<look, timers, interval, moves, past>>

Script  == \/ Queue \/ Dequeue \/ Job \/ Tick \/ Ticked \/ Stop \/ StopNext \/ Splice
           \/ Events \/ CompleteReturns \/ HandlerDone
Next    == Script \/ Interval \/ Timeout \/ Callback \/ Throws \/ Click

Init == /\ ElementsInit
        /\ display = [e \in Nodes |-> ""] /\ size = [e \in Nodes |-> ""]
        /\ timers = << >> /\ interval = FALSE
        /\ moves = 0
        /\ wanted = [e \in Nodes |-> "nothing"] /\ rough = {} /\ late = {}

Spec     == Init /\ [][Next]_vars
\* A script goes on to its end, callbacks return, and the browser keeps the interval.
FairSpec == Spec /\ WF_vars(Script) /\ WF_vars(Interval)

---------------------------------------------------------------------------
(* Properties.                                                             *)

Sizes == {"", "0", "part", "full"}

TypeOK ==
    /\ parent \in [Nodes -> Nodes \cup {Document, Nobody}]
    /\ ids \in [Nodes -> Nat] /\ guid \in Nat /\ deletedIds \subseteq 1..guid
    /\ display \in [Nodes -> {"", "none", "block"}] /\ size \in [Nodes -> Sizes]
    /\ \A i \in DOMAIN timers :
          /\ timers[i].elem \in Nodes /\ timers[i].left \in Nat
          /\ timers[i].orig \in Sizes /\ {timers[i].start, timers[i].end} \subseteq Sizes \ {""}
    /\ interval \in BOOLEAN /\ moves \in 0..MaxMoves

AtRest == Idle /\ timers = << >>

\* The cache is exact, delegated handlers are counted, and the browser is listened to
\* for exactly the events that have handlers, whatever was bound, unbound, animated
\* and taken away, from within handlers and callbacks too (data, event.add,
\* event.remove, cleanData).
ElementDataOK == CacheIsExact /\ DelegatesFirst /\ ListenersAgree

\* What is kept about an element that is out of the document was left by removeChild,
\* or by an animation that touched the element out there: empty(), html() and remove()
\* leave nothing.
LeaksExplained ==
    Idle => \A e \in Nodes : ids[e] # 0 /\ ~ InDocument(e) => e \in cut \cup late

\* Once all is still, and no exception went through the script, nothing waits in a
\* queue; and where no stop interfered, an element is as the last show() or hide()
\* asked, with the size it had, however the calls came (queue, dequeue, Animation).
LastCallWins ==
    AtRest /\ "throw" \notin rough =>
       \A e \in Nodes :
          /\ DataOf(e).queue = << >> /\ ~ DataOf(e).hooks
          /\ InDocument(e) /\ rough \cap {e, "stop"} = {} /\ e \notin late =>
                /\ wanted[e] = "show" => ~ Hidden(e)
                /\ wanted[e] = "hide" => Hidden(e)
                /\ size[e] = ""

\* Every animation ends, and so does the interval.
AnimationsEnd == <>[](Idle /\ timers = << >> /\ ~ interval)
=============================================================================
