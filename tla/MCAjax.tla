------------------------------- MODULE MCAjax -------------------------------
(***************************************************************************)
(* TLC's instance of Ajax: two requests and one list of the page.          *)
(*                                                                         *)
(* A bound keeps apart what shares no list: a page that makes requests     *)
(* does so between DOMContentLoaded and load; one that uses its own list,  *)
(* holds the ready event or asks for it late makes none.                   *)
(***************************************************************************)
EXTENDS Ajax

CONSTANTS r1, r2, pg, doc

MCRequests  == {r1, r2}
MCDeferreds == {r1, r2, doc}
MCLists     == AjaxLists \cup DocLists \cup {PageList}
MCFlags     == [l \in MCLists |->
                   IF l = PageList THEN {"memory", "unique", "stopOnFalse"} ELSE {"once", "memory"}]
MCGiven     == [r \in MCRequests |-> IF r = r1 THEN {"success"} ELSE {"beforeSend", "complete"}]
MCDataTypes == [r \in MCRequests |-> IF r = r1 THEN <<"*">> ELSE <<"html", "json">>]
MCInitialList == <<Callback("own", r1), Callback("own", r2)>>
MCResponses == {[Answer(200, "") EXCEPT !.content = "json"],
                [Answer(200, "") EXCEPT !.content = "json", !.parses = FALSE]}

Requesting == \E r \in Requests : rq[r].posted
ListUnused == lists[PageList] = NewList(Flags[PageList], InitialList)
MCBound    == Requesting => /\ readyState = "interactive" /\ readyWait = 0
                            /\ added[DoneList] = <<Start>> /\ ListUnused

MCNext     == Next /\ MCBound'
MCFairSpec == Init /\ [][MCNext]_vars /\ Fairness
=============================================================================
