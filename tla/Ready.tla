-------------------------------- MODULE Ready --------------------------------
(***************************************************************************)
(* "The document is ready" (jquery-1.8.3.js, jQuery.ready): the functions  *)
(* a page gives to $(fn) are the callbacks of one deferred, readyList,     *)
(* which is resolved when the document has been parsed and nobody holds    *)
(* it back any more (holdReady).                                           *)
(*                                                                         *)
(* jQuery.ready is called by the browser's DOMContentLoaded and load, by a *)
(* timeout and by holdReady(false); whichever comes first counts.          *)
(***************************************************************************)
EXTENDS Callbacks

CONSTANTS Doc,        \* readyList
          Hooks       \* the prefilters and the events of jQuery the page listens to

VARIABLES readyState, \* of the document
          calledBy,   \* who is yet to call jQuery.ready
          readyList,  \* is there one
          isReady,    \* jQuery.isReady
          readyWait,  \* jQuery.readyWait
          held        \* how many holds the page has not released yet

ready == <<readyState, calledBy, readyList, isReady, readyWait, held>>

DocLists == {<<Doc, name>> : name \in {"done", "fail", "progress"}}
DoneList == <<Doc, "done">>
Start    == Callback("start", Doc)

ReadyInit == /\ readyState = "loading" /\ calledBy = {} /\ readyList = FALSE
             /\ isReady = FALSE /\ readyWait = 1 /\ held = 0

Hook(name, r) == IF name \in Hooks THEN <<Frame("page", r, [hook |-> name])>> ELSE << >>

MutPromised == readyList' = TRUE /\ calledBy' = {"DOMContentLoaded"}

\* ready.promise: readyList is made when it is first readyList for, and with it what
\* will call jQuery.ready: a timeout where the document is complete already.  The
\* branch for old browsers comes to the same two events.
Promised == /\ readyList' = TRUE
            /\ calledBy' = IF readyState = "complete" THEN {"timeout"}
                           ELSE IF readyState = "loading" THEN {"DOMContentLoaded", "load"}
                           ELSE {"load"}

\* $(fn), by the page's first script.
GiveStart == /\ Idle /\ ~ readyList
             /\ Promised
             /\ Calls(<<Frame("add", DoneList, Start)>>)
             /\ UNCHANGED <<lists, settled, histories, readyState, isReady, readyWait, held>>

\* $(fn) once more, at any time.
GiveLate == LET late == Callback("late", Doc) IN
            /\ readyList /\ late \notin Elems(added[DoneList])
            /\ Calls(<<Frame("add", DoneList, late)>>)
            /\ UNCHANGED <<lists, settled, histories, ready>>

ReadyCall(wait) == <<Frame("ready", Doc, [wait |-> wait])>>

\* The browser: DOMContentLoaded, whose listener goes, then load.
Parsed == /\ Idle /\ readyState = "loading"
          /\ readyState' = "interactive"
          /\ calledBy' = calledBy \ {"DOMContentLoaded"}
          /\ Calls(IF "DOMContentLoaded" \in calledBy THEN ReadyCall(FALSE) ELSE << >>)
          /\ UNCHANGED <<lists, settled, histories, readyList, isReady, readyWait, held>>

Loaded == /\ Idle /\ readyState = "interactive"
          /\ readyState' = "complete"
          /\ calledBy' = calledBy \ {"load"}
          /\ Calls(IF "load" \in calledBy THEN ReadyCall(FALSE) ELSE << >>)
          /\ UNCHANGED <<lists, settled, histories, readyList, isReady, readyWait, held>>

Later == /\ Idle /\ "timeout" \in calledBy
         /\ calledBy' = calledBy \ {"timeout"}
         /\ Calls(ReadyCall(FALSE))
         /\ UNCHANGED <<lists, settled, histories, readyState, readyList, isReady, readyWait, held>>

\* holdReady; the page releases only what it holds.
Hold == /\ held' = held + 1
        /\ readyWait' = readyWait + 1
        /\ UNCHANGED <<todo, lists, settled, histories, readyState, calledBy, readyList, isReady>>

Release == /\ held > 0
           /\ held' = held - 1
           /\ Calls(ReadyCall(TRUE))
           /\ UNCHANGED <<lists, settled, histories, readyState, calledBy, readyList, isReady, readyWait>>

\* jQuery.ready(wait): not while it is held, nor again.  A browser that is ahead of
\* itself may have no body yet; then it is tried again.
DoReady ==
    LET wait == Top.arg.wait
        left == readyWait - 1
        tell == Resolve(Doc, Data("ready"))
                \o (IF settled[Doc] = "pending" THEN Hook("ready", Doc) ELSE << >>)
    IN  /\ On("ready")
        /\ \/ /\ IF wait THEN left # 0 ELSE isReady
              /\ readyWait' = IF wait THEN left ELSE readyWait
              /\ Instead(<< >>)
              /\ UNCHANGED <<isReady, calledBy>>
           \/ /\ ~ wait /\ ~ isReady /\ readyState = "interactive"
              /\ calledBy' = calledBy \cup {"timeout"}
              /\ Instead(<< >>)
              /\ UNCHANGED <<isReady, readyWait>>
           \/ /\ IF wait THEN left = 0 ELSE ~ isReady
              /\ isReady' = TRUE
              /\ readyWait' = left
              /\ Instead(IF ~ wait /\ left > 0 THEN << >> ELSE tell)
              /\ UNCHANGED calledBy
        /\ UNCHANGED <<lists, settled, histories, readyState, readyList, held>>

ReadyBrowser == Parsed \/ Loaded \/ Later

\* The document is ready once the browser has called and nobody holds it; then, and
\* not before, the page's functions are told.
ReadyAgrees ==
    Idle => /\ readyWait = held + IF isReady THEN 0 ELSE 1
            /\ isReady => readyState # "loading"
            /\ settled[Doc] # "pending" => isReady
            /\ isReady /\ held = 0 => settled[Doc] = "resolved"
            /\ readyList /\ readyState = "complete" => isReady \/ "timeout" \in calledBy
=============================================================================
