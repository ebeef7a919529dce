-------------------------------- MODULE Ajax --------------------------------
(***************************************************************************)
(* Requests of the web client (jquery-1.8.3.js, jQuery.ajax and the        *)
(* XMLHttpRequest transport), from the call to the last global event.      *)
(*                                                                         *)
(* A request is a deferred object and a list of callbacks "complete"; its  *)
(* jqXHR can be aborted by any callback that has seen it, while it is      *)
(* being prepared, sent or completed.  Everything else happens between     *)
(* scripts: the user clicks, an answer arrives, the timeout runs out.      *)
(* The page also owns one list of callbacks of its own.                    *)
(***************************************************************************)
EXTENDS Ready

CONSTANTS Requests,    \* the calls of $.ajax there may be
          Page,        \* the owner of the page's own list, <<Page, "list">>
          Given,       \* the functions each call of $.ajax is given, by name
          Timed,       \* the requests with a timeout
          Sync,        \* the requests with async: false
          NoTransport, \* the requests no transport accepts
          DataTypes,   \* the dataTypes of each request, "*" for "any"
          Responses,   \* the answers that may arrive
          MaxMoves     \* bound: what the page's code does that is not expected of
                       \* it, further calls of the library and exceptions

ASSUME RequestAssumption == /\ IsFiniteSet(Requests)
                            /\ Timed \cup Sync \cup NoTransport \subseteq Requests
\* An exchange that broke off has status 0 and no statusText.
ASSUME ResponseAssumption == \A a \in Responses : a.status = 0 => a.text = ""
ASSUME BoundAssumption == MaxMoves \in Nat

VARIABLES rq,       \* the variables of each call of ajax and of its transport
          active,   \* jQuery.active
          moves,    \* how many such moves the page has made
          early     \* requests settled before they were sent, and then sent

ajax == <<rq, active>>
page == <<moves, early, ready>>
vars == <<script, histories, ajax, page>>

PageList == <<Page, "list">>
AjaxLists == {<<r, name>> : r \in Requests, name \in {"done", "fail", "progress", "complete"}}

ASSUME ListsAssumption ==
    /\ Doc \notin Requests /\ Page \notin Requests \cup {Doc}
    /\ Deferreds = Requests \cup {Doc}
    /\ Lists = AjaxLists \cup DocLists \cup {PageList}
    /\ Flags \in [Lists -> SUBSET {"once", "memory", "unique", "stopOnFalse"}]
    /\ \A r \in Requests : Flags[<<r, "complete">>] = {"once", "memory"}
    /\ InitialList \in Seq({Callback("own", r) : r \in Requests})
    /\ \A i, j \in DOMAIN InitialList : InitialList[i] = InitialList[j] => i = j

NewRequest == [posted |-> FALSE, known |-> FALSE, state |-> 0, counted |-> FALSE,
               strAbort |-> "canceled", transport |-> FALSE, callback |-> FALSE,
               wire |-> "none", timer |-> FALSE, coded |-> FALSE, text |-> "none"]

Init == /\ CallbacksInit
        /\ ReadyInit
        /\ rq = [r \in Requests |-> NewRequest]
        /\ active = 0
        /\ moves = 0
        /\ early = {}

---------------------------------------------------------------------------
(* What an answer is worth.                                                *)

\* The converters of ajaxSettings and of the script type; "* text" takes anything.
Direct(from, to) == to = "text" \/ (from = "text" /\ to \in {"html", "json", "xml", "script"})

\* ajaxConvert: directly, or by one type in between.
Converts(from, to) == \/ from = to
                      \/ Direct(from, to)
                      \/ \E by \in {"text", "html", "json", "xml", "script"} :
                            Direct(from, by) /\ Direct(by, to)

\* ajaxHandleResponses: the type the answer has, in front of the type wanted.
\* Only where any type will do does the content type say which one it is.
HandleResponses(types, a) ==
    LET any      == types[1] = "*"
        asked    == IF any THEN Tail(types) ELSE types
        wanted   == IF any /\ a.content \in {"xml", "html", "json"}
                    THEN <<a.content>> \o asked ELSE asked
        final    == IF a.xml /\ (wanted = << >> \/ Head(wanted) = "xml") THEN "xml" ELSE "text"
    IN  IF wanted # << >> /\ Head(wanted) = final THEN wanted ELSE <<final>> \o wanted

\* The state ajaxConvert returns; a text may fail to parse.
Convert(types, a) ==
    LET steps == {i \in 1..(Len(types) - 1) : types[i] # types[i + 1]}
    IN  IF \A i \in steps : /\ Converts(types[i], types[i + 1])
                            /\ types[i + 1] \in {"json", "xml"} => a.parses
        THEN "success" ELSE "parsererror"

\* The outcome done() finds: does the request succeed, and the statusText.
MutOutcome(r, a) == [good |-> a.status \in 200..299,
                     text |-> IF a.status \in 200..299 THEN "success" ELSE a.text]
Outcome(r, a) ==
    IF a.status = 304 THEN [good |-> TRUE, text |-> "notmodified"]
    ELSE IF a.status \in 200..299
    THEN LET s == Convert(HandleResponses(DataTypes[r], a), a)
         IN  [good |-> s = "success", text |-> s]
    ELSE [good |-> FALSE,
          text |-> IF a.status # 0 \/ a.text = "" THEN "error" ELSE a.text]

Answer(status, text) == [status |-> status, text |-> text, content |-> "other",
                         xml |-> FALSE, parses |-> TRUE]

---------------------------------------------------------------------------
(* The script of jQuery.ajax: one frame for each part between two calls.   *)

BeforeSend(r) == IF "beforeSend" \in Given[r]
                 THEN <<Frame("page", r, [hook |-> "beforeSend"])>> ELSE << >>
Set(r, field, value) == rq' = [rq EXCEPT ![r][field] = value]

\* The page's code can call the library: a callback of its own runs, or an
\* event of the user has just begun.
Own     == {"start", "success", "error", "complete", "status", "late", "own"}
InPage  == On("page") \/ (On("run") /\ Top.arg.does \in Own)
MayCall == (Idle /\ settled[Doc] # "pending") \/ InPage

\* $.ajax, by an event of the user or by a callback: up to and with the
\* prefilters, which get the jqXHR.
Post(r) == /\ Idle \/ On("run")
           /\ MayCall /\ ~ rq[r].posted
           /\ rq' = [rq EXCEPT ![r].posted = TRUE, ![r].known = "prefilter" \in Hooks,
                               ![r].coded = "statusCode" \in Given[r]]
           /\ Calls(Hook("prefilter", r) \o <<Frame("begin", r, Nothing), Frame("returned", r, Nothing)>>)
           /\ UNCHANGED <<lists, settled, histories, active, page>>

\* After the prefilters: count the request, announce the first one.
Begin == LET r == Top.at IN
         /\ On("begin")
         /\ IF rq[r].state = 2
            THEN Instead(<< >>) /\ UNCHANGED ajax
            ELSE /\ rq' = [rq EXCEPT ![r].counted = TRUE, ![r].known = @ \/ "beforeSend" \in Given[r]]
                 /\ active' = active + 1
                 /\ Instead((IF active = 0 THEN Hook("ajaxStart", r) ELSE << >>)
                            \o BeforeSend(r) \o <<Frame("install", r, [refused |-> FALSE])>>)
         /\ UNCHANGED <<lists, settled, histories, page>>

AddGiven(r, function, name) ==
    IF function \in Given[r] THEN <<Frame("add", <<r, name>>, Callback(function, r))>> ELSE << >>

\* beforeSend said false, or something aborted the request before or in it: this
\* is looked at only if there is a beforeSend.  Otherwise success, error and
\* complete become callbacks.
Install == LET r == Top.at IN
           /\ On("install")
           /\ \/ /\ "beforeSend" \in Given[r]
                 /\ Top.arg.refused \/ rq[r].state = 2
                 /\ Instead(<<Frame("abort", r, Answer(0, rq[r].strAbort))>>)
                 /\ UNCHANGED rq
              \/ /\ "beforeSend" \in Given[r] => (~ Top.arg.refused /\ rq[r].state # 2)
                 /\ Set(r, "strAbort", "abort")
                 /\ Instead(AddGiven(r, "success", "done") \o AddGiven(r, "error", "fail")
                            \o AddGiven(r, "complete", "complete")
                            \o <<Frame("transport", r, Nothing)>>)
           /\ UNCHANGED <<lists, settled, histories, active, page>>

\* inspectPrefiltersOrTransports: some transport takes the request.
Selected(r) == r \notin NoTransport

Transport == LET r == Top.at IN
             /\ On("transport")
             /\ IF ~ Selected(r)
                THEN /\ Instead(<<Frame("finish", r, Answer(-1, "No Transport"))>>)
                     /\ UNCHANGED rq
                ELSE /\ rq' = [rq EXCEPT ![r].transport = TRUE,
                                         ![r].known = @ \/ "ajaxSend" \in Hooks]
                     /\ Instead(Hook("ajaxSend", r) \o <<Frame("timeout", r, Nothing)>>)
             /\ UNCHANGED <<lists, settled, histories, active, page>>

\* The timer, and state = 1, whatever has happened meanwhile.
SetTimeout == LET r == Top.at IN
              /\ On("timeout")
              /\ rq' = [rq EXCEPT ![r].timer = r \in Timed \ Sync, ![r].state = 1]
              /\ early' = IF rq[r].state = 2 THEN early \cup {r} ELSE early
              /\ Instead(<<Frame("send", r, Nothing), Frame("try", r, Nothing)>>)
              /\ UNCHANGED <<lists, settled, histories, active, moves, ready>>

\* The callback waits for the answer.
Listens(r) == /\ rq' = [rq EXCEPT ![r].callback = TRUE, ![r].wire = "sent"]
              /\ Instead(<< >>)

\* transport.send; a synchronous one waits for its answer here.
Send == LET r == Top.at IN
        /\ On("send")
        /\ \/ /\ rq[r].transport /\ r \notin Sync
              /\ Listens(r)
           \/ /\ rq[r].transport /\ r \in Sync
              /\ \E a \in Responses :
                    /\ Set(r, "wire", "answered")
                    /\ Instead(<<Frame("finish", r, a)>>)
        /\ UNCHANGED <<lists, settled, histories, active, page>>

\* transport is undefined: the request is settled already; or the browser throws.
SendFails == LET r == Top.at IN
             /\ On("send")
             /\ ~ rq[r].transport \/ r \in Sync
             /\ ThrowIn(todo)
             /\ UNCHANGED <<lists, settled, added, called, ajax, page>>

Try == /\ On("try")
       /\ Instead(<< >>)
       /\ UNCHANGED <<lists, settled, histories, ajax, page>>

\* An exception while sending is the request's failure; an exception out of a
\* callback of a synchronous request goes on.
MutCatch == /\ On("catch")
            /\ Instead(<< >>)
            /\ UNCHANGED <<lists, settled, histories, ajax, page>>
Catch == LET r == Top.at IN
         /\ On("catch")
         /\ IF rq[r].state < 2
            THEN Instead(<<Frame("finish", r, Answer(-1, "exception"))>>) /\ UNCHANGED lost
            ELSE ThrowIn(Tail(todo))
         /\ UNCHANGED <<lists, settled, added, called, ajax, page>>

Returned == /\ On("returned")
            /\ Set(Top.at, "known", TRUE)
            /\ Instead(<< >>)
            /\ UNCHANGED <<lists, settled, histories, active, page>>

---------------------------------------------------------------------------
(* jqXHR.abort and done.                                                   *)

\* The transport's abort calls its callback once, which aborts the exchange.
DoAbort == LET r == Top.at IN
           /\ On("abort")
           /\ rq' = IF rq[r].transport /\ rq[r].callback
                    THEN [rq EXCEPT ![r].callback = FALSE, ![r].wire = "aborted"]
                    ELSE rq
           /\ Instead(<<Frame("finish", r, Top.arg)>>)
           /\ UNCHANGED <<lists, settled, histories, active, page>>

\* done: called once.  With each call it makes, in their order.
MutDone(r) == FALSE
Done(r) == rq[r].state = 2
Finish ==
    LET r == Top.at
        o == Outcome(r, Top.arg)
        status == Callback("status", r)
    IN  /\ On("finish")
        /\ IF Done(r) THEN Instead(<< >>) /\ UNCHANGED rq
           ELSE /\ rq' = [rq EXCEPT ![r].state = 2, ![r].timer = FALSE, ![r].transport = FALSE,
                                    ![r].text = o.text, ![r].coded = FALSE]
                /\ Instead((IF o.good THEN Resolve(r, Data(o.text)) ELSE Reject(r, Data(o.text)))
                     \o (IF rq[r].coded THEN <<Frame("add", <<r, "done">>, status),
                                               Frame("add", <<r, "fail">>, status)>>
                                        ELSE << >>)
                     \o (IF rq[r].counted
                         THEN Hook(IF o.good THEN "ajaxSuccess" ELSE "ajaxError", r)
                         ELSE << >>)
                     \o <<Frame("fire", <<r, "complete">>, Data(o.text))>>
                     \o (IF rq[r].counted
                         THEN Hook("ajaxComplete", r) \o <<Frame("uncount", r, Nothing)>>
                         ELSE << >>))
        /\ UNCHANGED <<lists, settled, histories, active, page>>

Uncount == /\ On("uncount")
           /\ active' = active - 1
           /\ Instead(IF active = 1 THEN Hook("ajaxStop", Top.at) ELSE << >>)
           /\ UNCHANGED <<lists, settled, histories, rq, page>>

---------------------------------------------------------------------------
(* Between scripts.                                                        *)

\* readyState is 4: the transport's callback, which an abort has taken away.
\* Some browsers throw when they are asked for the status of a broken exchange.
Arrive(r) == /\ Idle /\ rq[r].wire = "sent" /\ rq[r].callback
             /\ rq' = [rq EXCEPT ![r].callback = FALSE, ![r].wire = "answered"]
             /\ \E a \in Responses \cup {Answer(-1, "exception")} :
                   todo' = <<Frame("finish", r, a)>>
             /\ UNCHANGED <<lists, settled, histories, active, page>>

TimesOut(r) == /\ Idle /\ rq[r].timer
               /\ Set(r, "timer", FALSE)
               /\ todo' = <<Frame("abort", r, Answer(0, "timeout"))>>
               /\ UNCHANGED <<lists, settled, histories, active, page>>

---------------------------------------------------------------------------
(* The code of the page.                                                   *)

\* Each call of the page's own into the library is one of the moves it may make.
PageCalls(frame) == /\ MayCall /\ moves < MaxMoves
                    /\ moves' = moves + 1
                    /\ Calls(<<frame>>)
                    /\ UNCHANGED <<lists, settled, histories, ajax, early, ready>>

Abort(r) == /\ rq[r].known
            /\ PageCalls(Frame("abort", r, Answer(0, rq[r].strAbort)))

\* done, fail, complete: one more callback, whenever the page likes.
Attach(r, name) == /\ rq[r].known
                   /\ Callback("late", r) \notin Elems(added[<<r, name>>])
                   /\ PageCalls(Frame("add", <<r, name>>, Callback("late", r)))

\* $(fn) and holdReady, from when the page's first script runs; what it holds it
\* may release or not.
AskReady == /\ Idle \/ InPage
            /\ \/ Release /\ UNCHANGED moves
               \/ (GiveLate \/ Hold) /\ moves < MaxMoves /\ moves' = moves + 1
            /\ UNCHANGED <<ajax, early>>

\* The page's own list: add, remove, empty, fire, disable, lock; by an event of
\* the user or by one of the list's callbacks.
OwnCallbacks == {Callback("own", r) : r \in Requests}
UseList == /\ Idle \/ (On("run") /\ Top.at = PageList)
           /\ \/ \E op \in {"add", "remove"}, f \in OwnCallbacks :
                    PageCalls(Frame(op, PageList, f))
              \/ \E op \in {"empty", "disable", "lock"} : PageCalls(Frame(op, PageList, Nothing))
              \/ PageCalls(Frame("fire", PageList, Data("page")))

PageReturns(answer) ==
    /\ InPage
    /\ IF On("run") THEN Returns(answer)
       ELSE /\ todo' = IF Top.arg.hook = "beforeSend" /\ answer = FALSE
                       THEN <<Frame("install", Top.at, [refused |-> TRUE])>> \o Tail(Tail(todo))
                       ELSE Tail(todo)
            /\ UNCHANGED <<lists, settled, histories>>
    /\ UNCHANGED <<ajax, page>>

\* The callback throws: what was left to do after it is not done.
Throws == /\ InPage /\ moves < MaxMoves
          /\ moves' = moves + 1
          /\ ThrowIn(todo)
          /\ UNCHANGED <<lists, settled, added, called, ajax, early, ready>>

---------------------------------------------------------------------------
Library == \/ CallbackStep /\ UNCHANGED <<ajax, page>>
           \/ Begin \/ Install \/ Transport \/ SetTimeout \/ Send \/ SendFails \/ Try \/ Catch \/ Returned
           \/ DoAbort \/ Finish \/ Uncount
           \/ DoReady /\ UNCHANGED <<ajax, moves, early>>

PageStep == \/ \E r \in Requests : \/ Post(r) \/ Abort(r)
                                   \/ \E name \in {"done", "fail", "complete"} : Attach(r, name)
            \/ UseList
            \/ AskReady
            \/ GiveStart /\ UNCHANGED <<ajax, moves, early>>
            \/ \E answer \in BOOLEAN : PageReturns(answer)
            \/ Throws

Browser == \/ \E r \in Requests : Arrive(r) \/ TimesOut(r)
           \/ ReadyBrowser /\ UNCHANGED <<ajax, moves, early>>

Next == Library \/ PageStep \/ Browser

Spec == Init /\ [][Next]_vars

\* A script runs to its end, each callback of the page returns or throws, and the
\* browser reports an end to every exchange.
Fairness == /\ WF_vars(Library)
            /\ WF_vars(\E answer \in BOOLEAN : PageReturns(answer))
            /\ \A r \in Requests : WF_vars(Arrive(r))
FairSpec == Spec /\ Fairness

---------------------------------------------------------------------------
(* Properties.                                                             *)

Texts == {"none", "success", "notmodified", "parsererror", "error",
          "abort", "canceled", "timeout"}

TypeOK ==
    /\ \A l \in Lists :
          /\ lists[l].flags \subseteq {"once", "memory", "unique", "stopOnFalse"}
          /\ lists[l].index >= -1
          /\ lists[l].length \in Nat
          /\ {lists[l].gone, lists[l].single, lists[l].fired, lists[l].firing} \subseteq BOOLEAN
          /\ \A f \in Elems(lists[l].list) :
                f.does \in InternalNames \/ f \in Elems(added[l])
    /\ settled \in [Deferreds -> {"pending", "resolved", "rejected"}]
    /\ \A r \in Requests : /\ rq[r].state \in 0..2
                           /\ rq[r].wire \in {"none", "sent", "answered", "aborted"}
                           /\ rq[r].text \in Texts
    /\ active \in -Cardinality(Requests)..Cardinality(Requests)
    /\ early \subseteq Requests

\* A request is a promise: whatever the page's callbacks do meanwhile, abort
\* each other's requests, throw, or attach more callbacks, only the callbacks for
\* the one outcome of the request are called, each once and in order.
P == INSTANCE Promises
     WITH Promise   <- Deferreds,
          Outcomes  <- {"resolved", "rejected"},
          Listeners <- {Callback(name, d) : name \in Own, d \in Deferreds},
          Pending   <- "pending",
          outcome   <- settled,
          asked     <- [r \in Deferreds |->
                          [o \in {"resolved", "rejected"} |->
                             added[<<r, IF o = "resolved" THEN "done" ELSE "fail">>]]],
          told      <- [r \in Deferreds |-> called[<<r, "done">>] \o called[<<r, "fail">>]]
ImplementsPromises == P!PromiseSpec

\* When a script is over, no callback of a settled request waits: those of its
\* outcome and those of its completion have all been called, unless one of that
\* list threw, which keeps the list from calling any callback ever after.
NobodyMissed ==
    Idle => \A l \in (Requests \X {"done", "fail", "complete"}) \cup {DoneList} :
               \/ lists[l].gone \/ ~ lists[l].fired
               \/ called[l] = added[l]
               \/ lists[l].firing

\* The page's own list, which may change under its own loop: the callback being
\* called and those before it in the list have had the latest data, those after
\* it have not, one that was removed and added again included, and the loop ends
\* with the list; unless the list was emptied under the loop, which then passes
\* over as many of those added later as it had passed before.
LoopIsExact ==
    LET r    == lists[PageList]
        seen == Elems(called[PageList])
    IN  (r.firing /\ ~ r.gone /\ ~ r.emptied /\ "unique" \in r.flags) =>
           /\ r.length = Len(r.list)
           /\ \A i \in DOMAIN r.list :
                 /\ i <= r.index => r.list[i] \in seen
                 /\ i > r.index + 1 => r.list[i] \notin seen

\* Together: every list, whatever changes it or throws, calls whom it must, once.
ListsCallExactly == NobodyMissed /\ LoopIsExact

\* Between scripts jQuery.active is the number of requests under way, but for two
\* causes: an exception that cut a completion short leaves one too many, and a
\* request settled before it was sent is settled, and counted out, twice.
ActiveAgrees ==
    Idle => LET underWay == {r \in Requests : rq[r].counted /\ rq[r].state < 2}
                extra    == {r \in Requests : <<"uncount", r>> \in lost}
            IN  active = Cardinality(underWay) + Cardinality(extra) - Cardinality(early)

\* Both counters of the library, of the requests under way and of the holds on the
\* ready event, agree with what is under way and held, between scripts.
CountersAgree == ActiveAgrees /\ ReadyAgrees

\* Every request that gets past its prefilters is settled in the end, unless an
\* exception ends the script that was to send it.
EveryRequestEnds ==
    \A r \in Requests :
       rq[r].counted ~> \/ settled[r] # "pending"
                        \/ \E op \in {"begin", "install", "transport", "timeout"} :
                              <<op, r>> \in lost
=============================================================================
