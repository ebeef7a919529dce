------------------------------ MODULE BbsHome ------------------------------
(***************************************************************************)
(* The board's pages (home.html with home.js, utils.js and jquery.cookie,  *)
(* and index.html, where users sign up and in) with their server.          *)
(*                                                                         *)
(* The home page shows a box for each main comment, with its replies in a  *)
(* list and an area to write one.  It asks the server again after whatever *)
(* it wrote; the answers come in any order, each rebuilds what is shown.   *)
(* The reply link of a reply writes "reply to X:" into the area and        *)
(* remembers in a hidden field whom the reply is for and how long those    *)
(* words are; when the area loses the focus empty, a timeout puts the hint *)
(* back.                                                                   *)
(***************************************************************************)
EXTENDS BbsServer

CONSTANTS Typists,   \* the pages whose user writes replies
          Members,   \* the names of the users at first
          Table,     \* the comments at first
          Home,      \* the browsers at the home page at first, with the user of each
          Budgets    \* what the users of the pages may do together, for the bound

ASSUME PageAssumption ==
    /\ Typists \subseteq Pages
    /\ Budgets \subseteq [Pages -> [clicks : Nat, keys : Nat, visits : Nat]]
    /\ DOMAIN Home \subseteq Pages /\ \A p \in DOMAIN Home : Home[p] \in DOMAIN Members

\* The tables at first are as the requests of earlier days, one by one, may leave them.
ASSUME TableAssumption ==
    /\ Members \in Seq(Elems(Members))
    /\ \A u, v \in DOMAIN Members : Members[u] = Members[v] => u = v
    /\ Table \in Seq([user : DOMAIN Members, parent : 0..MaxComments, deleted : BOOLEAN,
                      text : {"long", "whole", "quoted"}, period : Int, why : {{}}])
    /\ Len(Table) <= MaxComments
    /\ \A c \in DOMAIN Table : Table[c].parent < c /\ Table[c].period <= 0
    /\ Orphans(Table) = {}
    /\ \A c, d \in DOMAIN Table :
          /\ Table[c].parent = 0 /\ Table[d].parent = 0
          /\ Table[c].user = Table[d].user /\ Table[c].period = Table[d].period
          => c = d

VARIABLES where,    \* the page each browser shows: "login", "home", or a broken one
          cookie,   \* the cookie: the user's id, or one of these two
          me,       \* myUserId, as the home page read it from the cookie
          leaving,  \* whether a timeout to go to the other page is set
          boxes,    \* the main comments each page shows
          listed,   \* the replies shown for each
          areas,    \* the text area, button and hidden field of each box
          focus,    \* the box whose area has the focus, 0 for none
          pending,  \* the timeouts that put the hint back, oldest first
          budget,   \* what is left of it: clicks for a request, others, pages opened
          written,  \* what the user did to the text of each area, for the properties only
          doubts    \* why a page may not show what it should, likewise

session == <<where, cookie, me, leaving>>
shown   == <<boxes, listed>>
writing == <<areas, focus, pending>>
page    == <<session, shown, writing>>
past    == <<written, doubts>>
vars    == <<server, reqs, page, budget, past>>

Ids == 1..MaxComments

NoCookie   == 0
NullCookie == -1   \* the text "null"

\* The area's text is a beginning, "hint", "prefix" or none, and what was typed; the
\* button's class; the hidden field, with the comment to reply to, 0 for empty.
NewArea == [head |-> "hint", typed |-> FALSE, btn |-> "unset", info |-> 0]
IsEmpty(a) == a.head = "none" /\ ~ a.typed

---------------------------------------------------------------------------
(* What the page sends.                                                    *)

Send(requests) == reqs' = reqs \o requests

GetCommentMain(p)     == Request(p, me[p], "main.find", 0, 0, "none")
GetCommentReply(p, m) == Request(p, me[p], "reply.find", m, m, "none")

\* The text reply() sends: all of it, or what is behind the length in the hidden field.
MutText(a) == IF ~ a.typed THEN (IF a.head = "hint" THEN "hint" ELSE "empty")
              ELSE IF a.info # 0 THEN "cut" ELSE "whole"
Text(a) ==
    IF ~ a.typed THEN (IF a.head = "hint" /\ a.info = 0 THEN "hint" ELSE "empty")
    ELSE IF a.info # 0 THEN (IF a.head = "prefix" THEN "whole" ELSE "cut")
    ELSE IF a.head = "none" THEN "whole" ELSE "more"

---------------------------------------------------------------------------
(* The area: onfocus, onblur, onkeyup, the timeout.                        *)

Focused(a) == IF a.head = "hint" /\ ~ a.typed THEN [a EXCEPT !.head = "none"] ELSE a

\* onblur: an empty area is to have the hint again in 200 ms, and forgets whom it was for.
Later(p, m)   == Append([i \in DOMAIN pending[p] |-> [pending[p][i] EXCEPT !.newest = FALSE]],
                        [box |-> m, newest |-> TRUE])
Blurred(p, m, a) == [area |-> IF IsEmpty(a) THEN [a EXCEPT !.info = 0] ELSE a,
                     pending |-> IF IsEmpty(a) THEN Later(p, m) ELSE pending[p]]

\* The areas and timeouts of a page when the one with the focus loses it.
AfterBlur(p) == IF focus[p] = 0 THEN [areas |-> areas[p], pending |-> pending[p]]
                ELSE LET b == Blurred(p, focus[p], areas[p][focus[p]])
                     IN  [areas |-> [areas[p] EXCEPT ![focus[p]] = b.area], pending |-> b.pending]

Uses(p, what) == budget[p][what] > 0 /\ budget' = [budget EXCEPT ![p][what] = @ - 1]
Key(p)     == where[p] = "home" /\ p \in Typists /\ Uses(p, "keys")

\* The user clicks into the area of a box, or out of it.
Focus(p, m) == LET b == AfterBlur(p) IN
               /\ Key(p) /\ m \in Elems(boxes[p]) /\ focus[p] # m
               /\ areas' = [areas EXCEPT ![p] = [b.areas EXCEPT ![m] = Focused(@)]]
               /\ pending' = [pending EXCEPT ![p] = b.pending]
               /\ focus' = [focus EXCEPT ![p] = m]
               /\ UNCHANGED <<server, reqs, session, shown, past>>
Blur(p) == LET b == AfterBlur(p) IN
           /\ Key(p) /\ focus[p] # 0
           /\ areas' = [areas EXCEPT ![p] = b.areas]
           /\ pending' = [pending EXCEPT ![p] = b.pending]
           /\ focus' = [focus EXCEPT ![p] = 0]
           /\ UNCHANGED <<server, reqs, session, shown, past>>

\* Types some words behind what is there, or clears the area; onkeyup sets the button.
Type(p) == /\ Key(p) /\ focus[p] # 0
           /\ areas' = [areas EXCEPT ![p][focus[p]].typed = TRUE, ![p][focus[p]].btn = "on"]
           /\ UNCHANGED <<server, reqs, session, shown, focus, pending, past>>
Erase(p) == /\ Key(p) /\ focus[p] # 0
            /\ areas' = [areas EXCEPT ![p][focus[p]] =
                           [@ EXCEPT !.head = "none", !.typed = FALSE, !.btn = "off"]]
            /\ written' = [written EXCEPT ![p][focus[p]] = @ \cup {"erased"}]
            /\ UNCHANGED <<server, reqs, session, shown, focus, pending, doubts>>

\* The timeout: the hint, whatever is there by now.
Timeout(p) ==
    LET t == Head(pending[p]) IN
    /\ pending[p] # << >>
    /\ pending' = [pending EXCEPT ![p] = Tail(@)]
    /\ areas' = [areas EXCEPT ![p][t.box] = [@ EXCEPT !.head = "hint", !.typed = FALSE]]
    /\ written' = [written EXCEPT ![p][t.box] =
                     IF IsEmpty(areas[p][t.box]) /\ focus[p] # t.box THEN @ ELSE @ \cup {"timeout"}]
    /\ UNCHANGED <<server, reqs, session, shown, focus, budget, doubts>>

---------------------------------------------------------------------------
(* Clicks.                                                                 *)

Click(p) == where[p] = "home" /\ Uses(p, "clicks")

\* The button of the page: addCommentMain.  What was written stays.
AddCommentMain(p, text) == /\ Click(p)
                           /\ Send(<<Request(p, me[p], "main.add", 0, 0, text)>>)
                           /\ UNCHANGED <<server, page, past>>

\* reply(): the request, then the area is emptied and onblur called.  The words may have
\* a quotation mark.
Reply(p, m) ==
    LET b == AfterBlur(p)
        a == b.areas[m]
        empty == [a EXCEPT !.head = "none", !.typed = FALSE, !.info = 0]
    IN  /\ Click(p) /\ m \in Elems(boxes[p]) /\ p \in Typists
        /\ a.btn = "on"
        /\ \E text \in {Text(a)} \cup IF Text(a) = "whole" THEN {"quoted"} ELSE {} :
              Send(<<[Request(p, me[p], "reply.add", IF a.info = 0 THEN m ELSE a.info, m, text)
                        EXCEPT !.why = written[p][m]]>>)
        /\ areas' = [areas EXCEPT ![p] = [b.areas EXCEPT ![m] = empty]]
        /\ pending' = [pending EXCEPT ![p] = Append(
                          [i \in DOMAIN b.pending |-> [b.pending[i] EXCEPT !.newest = FALSE]],
                          [box |-> m, newest |-> TRUE])]
        /\ focus' = [focus EXCEPT ![p] = 0]
        /\ written' = [written EXCEPT ![p][m] = {"sent"}]
        /\ UNCHANGED <<server, session, shown, doubts>>

\* The grey button: clearTimeout(timer), the newest only.
GreyButton(p, m) ==
    LET b == AfterBlur(p) IN
    /\ Key(p) /\ m \in Elems(boxes[p]) /\ b.areas[m].btn = "off"
    /\ areas' = [areas EXCEPT ![p] = b.areas]
    /\ pending' = [pending EXCEPT ![p] = Only(b.pending, {i \in DOMAIN b.pending : ~ b.pending[i].newest})]
    /\ focus' = [focus EXCEPT ![p] = 0]
    /\ UNCHANGED <<server, reqs, session, shown, past>>

\* operate() on another's reply: the words and the hidden field.
Operate(p, m, c) ==
    LET b == AfterBlur(p) IN
    /\ Key(p) /\ m \in Elems(boxes[p]) /\ c \in Elems(listed[p][m]) /\ comments[c].user # me[p]
    /\ areas' = [areas EXCEPT ![p] = [b.areas EXCEPT ![m] =
                    [@ EXCEPT !.head = "prefix", !.typed = FALSE, !.info = c]]]
    /\ pending' = [pending EXCEPT ![p] = b.pending]
    /\ focus' = [focus EXCEPT ![p] = m]
    /\ written' = [written EXCEPT ![p][m] = {}]
    /\ UNCHANGED <<server, reqs, session, shown, doubts>>

\* operate() on one's own: removeCommentReply.
RemoveCommentReply(p, m, c) ==
    /\ Click(p) /\ m \in Elems(boxes[p]) /\ c \in Elems(listed[p][m]) /\ comments[c].user = me[p]
    /\ Send(<<Request(p, me[p], "delete", c, m, "reply")>>)
    /\ UNCHANGED <<server, page, past>>

\* The cross of one's own comment: removeCommentMain, and then the box, which the
\* event comes to next, takes itself away.
Close(p, m) ==
    /\ Click(p) /\ m \in Elems(boxes[p]) /\ comments[m].user = me[p]
    /\ Send(<<Request(p, me[p], "delete", m, 0, "main")>>)
    /\ boxes' = [boxes EXCEPT ![p] = Only(boxes[p], {j \in DOMAIN boxes[p] : boxes[p][j] # m})]
    /\ focus' = [focus EXCEPT ![p] = IF @ = m THEN 0 ELSE @]
    /\ pending' = [pending EXCEPT ![p] =
                      Only(pending[p], {j \in DOMAIN pending[p] : pending[p][j].box # m})]
    /\ UNCHANGED <<server, session, listed, areas, past>>

---------------------------------------------------------------------------
(* Answers.                                                                *)

\* processCommentMain sorts by time, newest first, but its loop ends after the first
\* round that swaps: the first one goes to the end.
OneRound(list) == IF Len(list) < 2 THEN list ELSE Tail(list) \o <<Head(list)>>

\* A list that is built again has new nodes: what a request was to take away is gone.
Rebuilt(seq, p, inBoxes) ==
    [j \in DOMAIN seq |-> IF seq[j].page = p /\ seq[j].api = "delete" /\ seq[j].box \in inBoxes
                          THEN [seq[j] EXCEPT !.box = 0] ELSE seq[j]]

\* An answer that comes after that of a later request for the same.
Overtaken(i) == \E j \in 1..(i - 1) : /\ reqs[j].page = reqs[i].page
                                      /\ reqs[j].api = reqs[i].api /\ reqs[j].box = reqs[i].box
Doubt(p, i)  == doubts' = [doubts EXCEPT ![p] = IF Overtaken(i) THEN TRUE ELSE @]

\* All boxes are built again, without replies, and their replies asked for.  A failure
\* has cleared the list before it is an exception.
MainFound(p, i) ==
    LET a    == reqs[i].answer
        list == OneRound(a.list)
    IN  /\ boxes' = [boxes EXCEPT ![p] = list]
        /\ listed' = [listed EXCEPT ![p] = [m \in Ids |-> << >>]]
        /\ areas' = [areas EXCEPT ![p] = [m \in Ids |-> NewArea]]
        /\ written' = [written EXCEPT ![p] = [m \in Ids |-> {}]]
        /\ focus' = [focus EXCEPT ![p] = 0]
        /\ pending' = [pending EXCEPT ![p] = << >>]
        /\ reqs' = Rebuilt(Without(i), p, Ids)
                   \o [k \in DOMAIN list |-> GetCommentReply(p, list[k])]
        /\ Doubt(p, i)

\* The replies of a box; none, or a failure, leave the list as it is.
ReplyFound(p, i) ==
    LET r == reqs[i]
        there == r.box \in Elems(boxes[p]) /\ r.answer.list # << >>
    IN  /\ listed' = IF there THEN [listed EXCEPT ![p][r.box] = r.answer.list] ELSE listed
        /\ reqs' = IF there THEN Rebuilt(Without(i), p, {r.box}) ELSE Without(i)
        /\ Doubt(p, i)
        /\ UNCHANGED <<boxes, writing, written>>

\* What is written is asked for again, but after a reply was deleted.
MutAgain(p, r) == IF ~ r.answer.ok \/ r.text = "reply" THEN << >>
                  ELSE IF r.api = "reply.add" THEN <<GetCommentReply(p, r.at)>>
                  ELSE <<GetCommentMain(p)>>
Again(p, r) == IF ~ r.answer.ok \/ r.text = "reply" THEN << >>
               ELSE IF r.api = "reply.add" THEN <<GetCommentReply(p, r.box)>>
               ELSE <<GetCommentMain(p)>>

\* A deleted reply is taken away, if its node is still in the page.
Written(p, i) ==
    LET r == reqs[i] IN
    /\ reqs' = Without(i) \o Again(p, r)
    /\ listed' = IF r.answer.ok /\ r.text = "reply" /\ r.box # 0
                 THEN [listed EXCEPT ![p][r.box] = Only(@, {j \in DOMAIN listed[p][r.box] :
                                                              listed[p][r.box][j] # r.at})]
                 ELSE listed
    /\ UNCHANGED <<boxes, writing, past>>

Answered(p, i) == /\ reqs[i].phase = "answered" /\ reqs[i].page = p
                  /\ UNCHANGED <<server, budget>>

Receive(p, i) == /\ Answered(p, i)
                 /\ \/ reqs[i].api = "main.find" /\ MainFound(p, i)
                    \/ reqs[i].api = "reply.find" /\ ReplyFound(p, i)
                    \/ reqs[i].api \in Writes /\ Written(p, i)
                 /\ UNCHANGED session

---------------------------------------------------------------------------
(* Signing up, in and out.                                                 *)

\* The buttons of index.html, as often as they are clicked.
Login(p, api) == /\ where[p] = "login" /\ Uses(p, "clicks")
                 /\ \E n \in Names : Send(<<Request(p, 0, api, 0, 0, n)>>)
                 /\ UNCHANGED <<server, page, past>>

\* The answer to a sign-in: the cookie, and in a second the other page.
SignedIn(p, i) ==
    LET a == reqs[i].answer IN
    /\ Answered(p, i) /\ reqs[i].api \in {"signin", "signup"}
    /\ reqs' = Without(i)
    /\ IF a.ok /\ reqs[i].api = "signin"
       THEN cookie' = [cookie EXCEPT ![p] = Head(a.list)] /\ leaving' = [leaving EXCEPT ![p] = TRUE]
       ELSE UNCHANGED <<cookie, leaving>>
    /\ UNCHANGED <<where, me, shown, writing, past>>

\* exitLogin: $.cookie(name, null) writes the text "null".
ExitLogin(p) == /\ Click(p) /\ ~ leaving[p]
                /\ cookie' = [cookie EXCEPT ![p] = NullCookie]
                /\ leaving' = [leaving EXCEPT ![p] = TRUE]
                /\ UNCHANGED <<server, reqs, where, me, shown, writing, past>>

\* What the page left asked for goes on, what was answered is of no use.
Left(p) == LET open == Only(reqs, {j \in DOMAIN reqs : reqs[j].page = p
                                                       => reqs[j].phase # "answered"})
           IN  [j \in DOMAIN open |-> IF open[j].page = p THEN [open[j] EXCEPT !.page = NoPage]
                                      ELSE open[j]]

\* index.html goes on to home.html with a cookie that is not "null", home.html back
\* without one; it cannot do anything with "null".
MutShows(at, c) == IF c = NoCookie THEN "login" ELSE "home"
Shows(at, c) == IF c = NoCookie THEN "login"
                ELSE IF c = NullCookie THEN IF at = "home" THEN "broken" ELSE "login"
                ELSE "home"

\* A page starts, with nothing shown or asked for yet but the list.
Arrive(p, at) ==
    /\ where' = [where EXCEPT ![p] = Shows(at, cookie[p])]
    /\ me' = [me EXCEPT ![p] = IF where'[p] = "home" THEN cookie[p] ELSE 0]
    /\ reqs' = Left(p) \o IF where'[p] # "home" THEN << >>
                          ELSE <<Request(p, cookie[p], "main.find", 0, 0, "none")>>
    /\ leaving' = [leaving EXCEPT ![p] = FALSE]
    /\ boxes' = [boxes EXCEPT ![p] = << >>]
    /\ listed' = [listed EXCEPT ![p] = [m \in Ids |-> << >>]]
    /\ areas' = [areas EXCEPT ![p] = [m \in Ids |-> NewArea]]
    /\ written' = [written EXCEPT ![p] = [m \in Ids |-> {}]]
    /\ focus' = [focus EXCEPT ![p] = 0]
    /\ pending' = [pending EXCEPT ![p] = << >>]
    /\ doubts' = [q \in Pages |->
                    IF q = p THEN \/ \E j \in DOMAIN reqs : reqs[j].user = me'[p]
                                  \/ \E o \in Pages \ {p} : me[o] = me'[p]
                    ELSE doubts[q] \/ me[q] = me'[p]]
    /\ UNCHANGED <<server, cookie>>

Leave(p) == /\ leaving[p]
            /\ Arrive(p, IF where[p] = "home" THEN "login" ELSE "home")
            /\ UNCHANGED budget
\* The user opens a page by its address.
Open(p, at) == /\ Uses(p, "visits")
               /\ Arrive(p, at)

---------------------------------------------------------------------------

Writing(p) == \/ Blur(p) \/ Type(p) \/ Erase(p)
              \/ \E m \in Elems(boxes[p]) :
                    \/ Focus(p, m) \/ GreyButton(p, m)
                    \/ \E c \in Elems(listed[p][m]) : Operate(p, m, c)
Clicking(p) == \/ \E text \in {"long", "short"} : AddCommentMain(p, text)
               \/ \E m \in Elems(boxes[p]) :
                     \/ Reply(p, m) \/ Close(p, m)
                     \/ \E c \in Elems(listed[p][m]) : RemoveCommentReply(p, m, c)
               \/ \E api \in {"signup", "signin"} : Login(p, api)
               \/ ExitLogin(p)
               \/ \E at \in {"login", "home"} : Open(p, at)
Client(p) == \/ \E i \in DOMAIN reqs : Receive(p, i) \/ SignedIn(p, i)
             \/ Timeout(p) \/ Leave(p)

Next == \/ \E p \in Pages : Writing(p) \/ Clicking(p) \/ Client(p)
        \/ (Serve \/ TimePasses) /\ UNCHANGED <<page, budget, past>>

\* Those who are not at home are not signed in.  At home the list has been shown.
Init ==
    /\ ServerInit(Members, Table)
    /\ where = [p \in Pages |-> IF p \in DOMAIN Home THEN "home" ELSE "login"]
    /\ cookie = [p \in Pages |-> IF p \in DOMAIN Home THEN Home[p] ELSE NoCookie]
    /\ me = [p \in Pages |-> IF p \in DOMAIN Home THEN Home[p] ELSE 0]
    /\ leaving = [p \in Pages |-> FALSE]
    /\ boxes = [p \in Pages |-> IF p \in DOMAIN Home THEN OneRound(MainList(Table)) ELSE << >>]
    /\ listed = [p \in Pages |-> [m \in Ids |->
                   IF p \in DOMAIN Home /\ m \in DOMAIN Table
                   THEN Sorted(ReplyRows(Table, m) \ {m}) ELSE << >>]]
    /\ areas = [p \in Pages |-> [m \in Ids |-> NewArea]]
    /\ focus = [p \in Pages |-> 0]
    /\ pending = [p \in Pages |-> << >>]
    /\ budget \in Budgets
    /\ written = [p \in Pages |-> [m \in Ids |-> {}]]
    /\ doubts = [p \in Pages |-> FALSE]

Spec == Init /\ [][Next]_vars

---------------------------------------------------------------------------
(* Properties.                                                             *)

TypeOK ==
    /\ \A c \in DOMAIN comments : /\ comments[c].parent \in 0..(c - 1)
                                  /\ comments[c].user \in DOMAIN users
    /\ cookie \in [Pages -> {NoCookie, NullCookie} \cup 1..Len(users)]
    /\ \A p \in Pages : /\ where[p] = "home" => me[p] \in DOMAIN users
                        /\ Elems(boxes[p]) \subseteq DOMAIN comments
                        /\ \A m \in Ids : /\ areas[p][m].info \in 0..Len(comments)
                                          /\ areas[p][m].btn \in {"unset", "on", "off"}
                        /\ focus[p] \in {0} \cup Elems(boxes[p])
                        /\ \A i \in DOMAIN pending[p] : pending[p][i].box \in Elems(boxes[p])

\* A reply that lost its beginning, or has more than what was written, was sent after
\* the user cleared the words put before it, or after the timeout wrote over the area;
\* the hint itself is only sent by a button pressed again or after such a timeout
\* (operate, onblur, reply).
SentAsTyped ==
    \A c \in DOMAIN comments :
       /\ comments[c].text \in {"cut", "more"} => comments[c].why \cap {"erased", "timeout"} # {}
       /\ comments[c].text = "hint" => comments[c].why \cap {"sent", "timeout"} # {}

\* A page that waits for nothing shows what its user has written, unless the answers
\* came in another order, the page was opened while requests of its user, or another
\* page of it, were there, what was cached was stale, the replies have an orphan or a
\* quotation mark, there are more comments than rows, or the database failed (the chains
\* addCommentMain, getCommentMain, processCommentMain, getCommentReply).
OwnWordsShown ==
    \A p \in Pages :
       /\ where[p] = "home" /\ ~ doubts[p] /\ faults = 0 /\ "stale" \notin races
       /\ \A i \in DOMAIN reqs : reqs[i].page # p
       => \A c \in Alive(comments) :
             comments[c].user = me[p] =>
                \/ /\ comments[c].parent = 0
                   /\ \/ c \in Elems(boxes[p])
                      \/ Cardinality({d \in DOMAIN comments : comments[d].parent = 0}) > Rows
                \/ /\ comments[c].parent # 0
                   /\ "orphan" \in races \/ \E d \in DOMAIN comments : comments[d].text = "quoted"
                \/ \E m \in DOMAIN comments : /\ c \in Under(comments, m) \ {m}
                                              /\ comments[m].parent = 0
                                              /\ m \in Elems(boxes[p]) => c \in Elems(listed[p][m])
=============================================================================
