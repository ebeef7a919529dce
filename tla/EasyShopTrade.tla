--------------------------- MODULE EasyShopTrade ---------------------------
(***************************************************************************)
(* The checkout of the easy shop (demo09): the pages mycarts.jsp,          *)
(* mycash.jsp and userinfo.jsp in the browsers, the requests they send,    *)
(* and the tables of goods, accounts and trades behind them.               *)
(*                                                                         *)
(* A purchase is four requests - check the cart, show it, check the        *)
(* account, cash - each a thread and a transaction of its own (             *)
(* TransactionFilter).  Between them only the UserCartSelectCache in the   *)
(* session remembers what was checked, and all tabs of a browser share     *)
(* that session.  The database (InnoDB, external) gives a request the      *)
(* committed rows as of its first select and keeps a row it updated locked *)
(* until commit or rollback.                                               *)
(***************************************************************************)
EXTENDS Integers, Sequences, FiniteSets, Functions

CONSTANTS Pages,      \* browser tabs, each with one request at a time
          Sessions,   \* HTTP sessions, one per browser
          Users,
          Goods,
          Amounts,    \* how many of a good a user may ask for
          Stock,      \* good |-> what is in store at first
          Price,      \* good |-> its price at first
          Balance,    \* what every account holds at first
          NewRests, NewPrices, \* what the administrator may set them to
          MaxChecks,  \* bound: carts checked
          Limits      \* bounds, one is chosen: no purchase begins when so many are committed,
                      \* and so many changes the administrator makes to goods

ASSUME ShopAssumption ==
    /\ IsFiniteSet(Pages) /\ IsFiniteSet(Goods)
    /\ Amounts \subseteq Nat \ {0}
    /\ Stock \in [Goods -> Nat] /\ Price \in [Goods -> Nat]
    /\ NewRests \subseteq Nat /\ NewPrices \subseteq Nat
    /\ Balance \in Nat /\ MaxChecks \in Nat
    /\ Limits \subseteq [trades : Nat, edits : Nat]

VARIABLES
    sessionOf, userOf, limits, \* whose tabs and sessions these are, the bounds; never change
    goods,      \* the committed rows of the goods
    balance,    \* the committed rows of the accounts
    trades,     \* the committed trades, in the order of their commits
    caches,     \* the UserCartSelectCache objects; number 0 is the empty one of a new session
    made,       \* how many caches checkCart has made
    current,    \* session |-> the cache UserService.ucsc refers to
    page,       \* what each tab shows
    req,        \* the request of each tab
    edits, edited,  \* history: changes made to goods, and to which
    overwritten     \* history: users whose account a stale form overwrote

vars == <<sessionOf, userOf, limits, goods, balance, trades, caches, made, current, page, req,
          edits, edited, overwritten>>

----------------------------------------------------------------------------
(* Values *)

Idle == [kind |-> "none"]

\* What mycash.jsp shows, and what checkAccount approved, before there is any.
Nothing == [cache |-> -1]

NewPage == [at |-> "mycarts", shown |-> Nothing, approved |-> Nothing]

\* "touched" is history: goods whose rows were changed since the check read them.
NewCache(touched) == [cart |-> <<>>, data |-> <<>>, state |-> "filling", touched |-> touched]

\* HashMap.put.
Put(map, key, value) == [k \in DOMAIN map \union {key} |-> IF k = key THEN value ELSE map[k]]

User(p) == userOf[sessionOf[p]]

\* getTotalMoney adds up what is in the cart, at the prices the check read ...
Total(cart, data) == SumFunction([g \in DOMAIN cart |-> cart[g] * data[g].price])

\* ... and meets a null pointer when a good of the cart has no data yet.
Whole(c) == DOMAIN caches[c].cart \subseteq DOMAIN caches[c].data

Cashing(p) == req[p].kind = "cash"

\* Rows that a transaction has updated stay locked until it ends; the insert of a trade keeps the
\* users_base row of the user (foreign key) from being updated.
GoodLocked(g) == \E p \in Pages : Cashing(p) /\ g \in req[p].sold
AccountLocked(u) == \E p \in Pages : Cashing(p) /\ User(p) = u /\ req[p].at = "paid"
UserLocked(u) == \E p \in Pages : Cashing(p) /\ User(p) = u

----------------------------------------------------------------------------
(* History: what was read before a commit is stale behind it. *)

TouchCaches(cs, G) == [c \in DOMAIN cs |-> [cs[c] EXCEPT !.touched = @ \union G]]

TouchRequests(rs, G) ==
    [p \in Pages |-> IF rs[p].kind = "check" /\ rs[p].at = "begun"
                       THEN [rs[p] EXCEPT !.touched = @ \union G] ELSE rs[p]]

StaleRequests(rs, u) ==
    [p \in Pages |-> IF rs[p].kind = "account" /\ User(p) = u
                       THEN [rs[p] EXCEPT !.fresh = FALSE] ELSE rs[p]]

StalePages(ps, u) ==
    [p \in Pages |-> IF User(p) # u THEN ps[p]
                     ELSE IF ps[p].at = "userinfo" THEN [ps[p] EXCEPT !.fresh = FALSE]
                     ELSE IF ps[p].approved # Nothing THEN [ps[p] EXCEPT !.approved.fresh = FALSE]
                     ELSE ps[p]]

----------------------------------------------------------------------------
Init ==
    /\ sessionOf \in [Pages -> Sessions]
    /\ userOf \in [Sessions -> Users]
    /\ limits \in Limits
    /\ goods = [g \in Goods |-> [rest |-> Stock[g], sold |-> 0, price |-> Price[g]]]
    /\ balance = [u \in Users |-> Balance]
    /\ trades = <<>>
    /\ caches = [c \in {0} |-> NewCache({})]
    /\ made = 0
    /\ current = [s \in Sessions |-> 0]
    /\ page = [p \in Pages |-> NewPage]
    /\ req = [p \in Pages |-> Idle]
    /\ edits = 0 /\ edited = {} /\ overwritten = {}

frozen == <<sessionOf, userOf, limits>>
database == <<goods, balance, trades>>
history == <<edits, edited, overwritten>>

----------------------------------------------------------------------------
(* trade.do?a=check&id=cart *)

\* The user submits a selection of the cart.  The first select (GoodService counts the goods)
\* fixes what the request sees of the tables.
CheckBegin(p) ==
    /\ page[p].at = "mycarts" /\ req[p] = Idle
    /\ made + Cardinality({q \in Pages : req[q].kind = "check" /\ req[q].at = "begun"}) < MaxChecks
    /\ \E G \in SUBSET Goods \ {{}} : \E want \in [G -> Amounts] :
          req' = [req EXCEPT ![p] = [kind |-> "check", at |-> "begun", want |-> want,
                                     snap |-> goods, touched |-> {}]]
    /\ UNCHANGED <<frozen, database, caches, made, current, page, history>>

\* A new cache goes into the session before there is anything in it.
CheckNew(p) ==
    /\ req[p].kind = "check" /\ req[p].at = "begun"
    /\ made' = made + 1
    /\ caches' = Put(caches, made', NewCache(req[p].touched))
    /\ current' = [current EXCEPT ![sessionOf[p]] = made']
    /\ req' = [req EXCEPT ![p] = [kind |-> "check", at |-> "put", want |-> req[p].want,
                                  snap |-> req[p].snap, cache |-> made',
                                  left |-> DOMAIN req[p].want, short |-> FALSE]]
    /\ UNCHANGED <<frozen, database, page, history>>

\* One entry of the selection into the cart.
CheckPut(p, g) ==
    /\ req[p].kind = "check" /\ req[p].at = "put" /\ g \in req[p].left
    /\ caches' = [caches EXCEPT ![req[p].cache].cart = Put(@, g, req[p].want[g])]
    /\ req' = [req EXCEPT ![p].left = IF @ = {g} THEN DOMAIN req[p].want ELSE @ \ {g},
                          ![p].at = IF req[p].left = {g} THEN "items" ELSE @]
    /\ UNCHANGED <<frozen, database, made, current, page, history>>

\* Mutants of CheckItem: only the last good counts; a good is short only when one more is asked for.
MutItemLast(p, g) ==
    /\ req[p].kind = "check" /\ req[p].at = "items" /\ g \in req[p].left
    /\ caches' = [caches EXCEPT ![req[p].cache].data = Put(@, g, req[p].snap[g])]
    /\ req' = [req EXCEPT ![p].left = @ \ {g}, ![p].short = req[p].want[g] > req[p].snap[g].rest]
    /\ UNCHANGED <<frozen, database, made, current, page, history>>

\* One good of the cart against the stock.
CheckItem(p, g) ==
    /\ req[p].kind = "check" /\ req[p].at = "items" /\ g \in req[p].left
    /\ caches' = [caches EXCEPT ![req[p].cache].data = Put(@, g, req[p].snap[g])]
    /\ req' = [req EXCEPT ![p].left = @ \ {g},
                          ![p].short = @ \/ req[p].want[g] > req[p].snap[g].rest]
    /\ UNCHANGED <<frozen, database, made, current, page, history>>

\* The answer: mycarts.jsp goes on to mycash.jsp when nothing was short.
CheckEnd(p) ==
    /\ req[p].kind = "check" /\ req[p].at = "items" /\ req[p].left = {}
    /\ caches' = [caches EXCEPT ![req[p].cache].state = IF req[p].short THEN "short" ELSE "ok"]
    /\ page' = [page EXCEPT ![p].at = IF req[p].short THEN @ ELSE "mycash"]
    /\ req' = [req EXCEPT ![p] = Idle]
    /\ UNCHANGED <<frozen, database, made, current, history>>

----------------------------------------------------------------------------
(* The pages *)

\* mycash.jsp, when it is loaded, asks (a=confirm) what is in the session's cache and shows the
\* sum; it shows nothing when confirm fails for want of data.
Confirm(p) ==
    LET c == current[sessionOf[p]]
    IN /\ page[p].at = "mycash" /\ req[p] = Idle
       /\ page' = [page EXCEPT ![p].at = "shown",
                               ![p].shown =
             IF Whole(c) THEN [cache |-> c, cart |-> caches[c].cart,
                               total |-> Total(caches[c].cart, caches[c].data)]
             ELSE Nothing]
       /\ UNCHANGED <<frozen, database, caches, made, current, req, history>>

\* The user goes elsewhere (the dialog "pay now?" can be left, too), ...
Leave(p) ==
    /\ page[p].at # "mycarts" /\ req[p] = Idle
    /\ page' = [page EXCEPT ![p] = NewPage]
    /\ UNCHANGED <<frozen, database, caches, made, current, req, history>>

\* ... or comes back to mycash.jsp, in any tab of a browser in which a cart was checked.
Reopen(p) ==
    /\ page[p].at = "mycarts" /\ req[p] = Idle /\ current[sessionOf[p]] # 0
    /\ page' = [page EXCEPT ![p].at = "mycash"]
    /\ UNCHANGED <<frozen, database, caches, made, current, req, history>>

----------------------------------------------------------------------------
(* trade.do?a=check&id=account: as for the cart, the select of GoodService fixes what is seen. *)

AccountBegin(p) ==
    /\ page[p].at = "shown" /\ req[p] = Idle
    /\ req' = [req EXCEPT ![p] = [kind |-> "account", seen |-> balance[User(p)], fresh |-> TRUE]]
    /\ UNCHANGED <<frozen, database, caches, made, current, page, history>>

\* Mutant: the sum is forgotten.
MutAccountCheck(p) ==
    LET c == current[sessionOf[p]]
    IN /\ req[p].kind = "account"
       /\ page' = IF Whole(c) /\ req[p].seen > 0
                    THEN [page EXCEPT ![p].at = "paying",
                                      ![p].approved = [cache |-> c, cart |-> caches[c].cart,
                                                       fresh |-> req[p].fresh]]
                    ELSE page
       /\ req' = [req EXCEPT ![p] = Idle]
       /\ UNCHANGED <<frozen, database, caches, made, current, history>>

\* The page offers to pay if the balance covers the sum; a null pointer or a refusal leaves it
\* as it is.
AccountCheck(p) ==
    LET c == current[sessionOf[p]]
        sum == Total(caches[c].cart, caches[c].data)
    IN /\ req[p].kind = "account"
       /\ page' = IF Whole(c) /\ req[p].seen >= sum
                    THEN [page EXCEPT ![p].at = "paying",
                                      ![p].approved = [cache |-> c, cart |-> caches[c].cart,
                                                       fresh |-> req[p].fresh]]
                    ELSE page
       /\ req' = [req EXCEPT ![p] = Idle]
       /\ UNCHANGED <<frozen, database, caches, made, current, history>>

----------------------------------------------------------------------------
(* trade.do?a=cash *)

\* The constructor of TradeService takes the session's cache, whichever that is by now; the
\* trade is inserted.
CashBegin(p) ==
    LET c == current[sessionOf[p]]
    IN /\ page[p].at = "paying" /\ req[p] = Idle
       /\ Len(trades) < limits.trades
       /\ req' = [req EXCEPT ![p] = [kind |-> "cash", at |-> "loop", cache |-> c,
                                     cart |-> caches[c].cart, sold |-> {}, total |-> 0,
                                     early |-> caches[c].state = "filling"]]
       /\ UNCHANGED <<frozen, database, caches, made, current, page, history>>

\* sellGood and addUserTradeItem for one entry of the HashMap; the iterator throws when the map
\* has grown since (CashFails).
CashSell(p, g) ==
    /\ Cashing(p) /\ req[p].at = "loop"
    /\ g \in DOMAIN req[p].cart \ req[p].sold
    /\ caches[req[p].cache].cart = req[p].cart
    /\ ~GoodLocked(g)
    /\ req' = [req EXCEPT ![p].sold = @ \union {g}]
    /\ UNCHANGED <<frozen, database, caches, made, current, page, history>>

\* Mutant: the prices are read again when it comes to paying.
MutCashTotal(p) ==
    LET c == req[p].cache
    IN /\ Cashing(p) /\ req[p].at = "loop" /\ req[p].sold = DOMAIN req[p].cart
       /\ Whole(c)
       /\ req' = [req EXCEPT ![p].at = "total", ![p].total = Total(caches[c].cart, goods)]
       /\ UNCHANGED <<frozen, database, caches, made, current, page, history>>

\* The argument of pay, computed from the cart as it is now.
CashTotal(p) ==
    LET c == req[p].cache
    IN /\ Cashing(p) /\ req[p].at = "loop" /\ req[p].sold = DOMAIN req[p].cart
       /\ Whole(c)
       /\ req' = [req EXCEPT ![p].at = "total",
                             ![p].total = Total(caches[c].cart, caches[c].data)]
       /\ UNCHANGED <<frozen, database, caches, made, current, page, history>>

CashPay(p) ==
    /\ Cashing(p) /\ req[p].at = "total"
    /\ ~AccountLocked(User(p))
    /\ req' = [req EXCEPT ![p].at = "paid"]
    /\ UNCHANGED <<frozen, database, caches, made, current, page, history>>

\* Mutant: the signs are swapped.
MutSell(rows, cart) ==
    [g \in Goods |-> IF g \in DOMAIN cart
                       THEN [rows[g] EXCEPT !.rest = @ + cart[g], !.sold = @ - cart[g]]
                       ELSE rows[g]]

\* What a trade does to the rows: sellGood and pay are relative updates.
Sell(rows, cart) ==
    [g \in Goods |-> IF g \in DOMAIN cart
                       THEN [rows[g] EXCEPT !.rest = @ - cart[g], !.sold = @ + cart[g]]
                       ELSE rows[g]]

Trade(p) == [user |-> User(p), cache |-> req[p].cache, cart |-> req[p].cart,
             paid |-> req[p].total, early |-> req[p].early]

CashCommit(p) ==
    /\ Cashing(p) /\ req[p].at = "paid"
    /\ goods' = Sell(goods, req[p].cart)
    /\ balance' = [balance EXCEPT ![User(p)] = @ - req[p].total]
    /\ trades' = Append(trades, Trade(p))
    /\ caches' = TouchCaches(caches, req[p].sold)
    /\ req' = StaleRequests(TouchRequests([req EXCEPT ![p] = Idle], req[p].sold), User(p))
    /\ page' = StalePages([page EXCEPT ![p] = NewPage], User(p))
    /\ UNCHANGED <<frozen, made, current, history>>

\* Mutants of CashFails: the exception is swallowed and what was done so far is committed; the
\* sales, or the payment, are committed one by one and survive the rollback.
MutFailsCommitted(p) ==
    /\ Cashing(p)
    /\ goods' = Sell(goods, Restrict(req[p].cart, req[p].sold))
    /\ trades' = Append(trades, [Trade(p) EXCEPT !.cart = Restrict(@, req[p].sold), !.paid = 0])
    /\ req' = [req EXCEPT ![p] = Idle]
    /\ page' = [page EXCEPT ![p].at = "shown", ![p].approved = Nothing]
    /\ UNCHANGED <<frozen, balance, caches, made, current, history>>

MutFailsSold(p) ==
    /\ Cashing(p)
    /\ goods' = Sell(goods, Restrict(req[p].cart, req[p].sold))
    /\ req' = [req EXCEPT ![p] = Idle]
    /\ page' = [page EXCEPT ![p].at = "shown", ![p].approved = Nothing]
    /\ UNCHANGED <<frozen, balance, trades, caches, made, current, history>>

MutFailsPaid(p) ==
    /\ Cashing(p)
    /\ balance' = [balance EXCEPT ![User(p)] = IF req[p].at = "paid" THEN @ - req[p].total ELSE @]
    /\ req' = [req EXCEPT ![p] = Idle]
    /\ page' = [page EXCEPT ![p].at = "shown", ![p].approved = Nothing]
    /\ UNCHANGED <<frozen, goods, trades, caches, made, current, history>>

\* Any exception - no data, a map that grew, a deadlock or a timeout of a lock, a lost
\* connection - ends in the rollback of TransactionFilter.  The page still offers to buy.
CashFails(p) ==
    /\ Cashing(p)
    /\ req' = [req EXCEPT ![p] = Idle]
    /\ page' = [page EXCEPT ![p].at = "shown", ![p].approved = Nothing]
    /\ UNCHANGED <<frozen, database, caches, made, current, history>>

----------------------------------------------------------------------------
(* Other writers of the same rows *)

\* userinfo.jsp shows the balance in a form ...
InfoShown(p) ==
    /\ page[p].at = "mycarts" /\ req[p] = Idle
    /\ page' = [page EXCEPT ![p] = [at |-> "userinfo", form |-> balance[User(p)], fresh |-> TRUE]]
    /\ UNCHANGED <<frozen, database, caches, made, current, req, history>>

\* ... which is posted with the password, changed or not, and written back as it stands.
InfoPosted(p) ==
    LET u == User(p)
        left == [page EXCEPT ![p] = NewPage]
    IN /\ page[p].at = "userinfo" /\ ~UserLocked(u)
       /\ balance' = [balance EXCEPT ![u] = page[p].form]
       /\ overwritten' = IF page[p].fresh THEN overwritten ELSE overwritten \union {u}
       /\ page' = IF page[p].fresh THEN left ELSE StalePages(left, u)
       /\ req' = IF page[p].fresh THEN req ELSE StaleRequests(req, u)
       /\ UNCHANGED <<frozen, goods, trades, caches, made, current, edits, edited>>

\* The administrator sets the number in store and the price of a good.
Modify(g) ==
    /\ edits < limits.edits /\ ~GoodLocked(g)
    /\ \E rest \in NewRests, price \in NewPrices :
          goods' = [goods EXCEPT ![g].rest = rest, ![g].price = price]
    /\ edits' = edits + 1 /\ edited' = edited \union {g}
    /\ caches' = TouchCaches(caches, {g})
    /\ req' = TouchRequests(req, {g})
    /\ UNCHANGED <<frozen, balance, trades, made, current, page, overwritten>>

----------------------------------------------------------------------------
Next ==
    \/ \E p \in Pages :
          \/ CheckBegin(p) \/ CheckNew(p) \/ CheckEnd(p)
          \/ \E g \in Goods : CheckPut(p, g) \/ CheckItem(p, g) \/ CashSell(p, g)
          \/ Confirm(p) \/ Leave(p) \/ Reopen(p)
          \/ AccountBegin(p) \/ AccountCheck(p)
          \/ CashBegin(p) \/ CashTotal(p) \/ CashPay(p) \/ CashCommit(p) \/ CashFails(p)
          \/ InfoShown(p) \/ InfoPosted(p)
    \/ \E g \in Goods : Modify(g)

Spec == Init /\ [][Next]_vars

----------------------------------------------------------------------------
(* Properties *)

Carts == UNION {[G -> Amounts] : G \in SUBSET Goods}
Rows == [rest : Int, sold : Nat, price : Nat]
Trades == [user : Users, cache : 0 .. made, cart : Carts, paid : Nat, early : BOOLEAN]

\* What a tab shows of the purchase, and the form of userinfo.jsp.
Shops == [at : {"mycarts", "mycash", "shown", "paying"},
          shown : {Nothing} \union [cache : 0 .. made, cart : Carts, total : Nat],
          approved : {Nothing} \union [cache : 0 .. made, cart : Carts, fresh : BOOLEAN]]
Infos == [at : {"userinfo"}, form : Int, fresh : BOOLEAN]

\* The requests, a check before and after it has made its cache.
Begun == [kind : {"check"}, at : {"begun"}, want : Carts, snap : [Goods -> Rows],
          touched : SUBSET Goods]
Filling == [kind : {"check"}, at : {"put", "items"}, want : Carts, snap : [Goods -> Rows],
            cache : 1 .. made, left : SUBSET Goods, short : BOOLEAN]
Accounts == [kind : {"account"}, seen : Int, fresh : BOOLEAN]
Cashes == [kind : {"cash"}, at : {"loop", "total", "paid"}, cache : 0 .. made, cart : Carts,
           sold : SUBSET Goods, total : Nat, early : BOOLEAN]

\* Types of all variables.
TypeOK ==
    /\ sessionOf \in [Pages -> Sessions] /\ userOf \in [Sessions -> Users] /\ limits \in Limits
    /\ goods \in [Goods -> Rows]
    /\ balance \in [Users -> Int]
    /\ trades \in Seq(Trades)
    /\ made \in 0 .. MaxChecks /\ DOMAIN caches = 0 .. made
    /\ \A c \in 0 .. made :
          LET data == caches[c].data
          IN /\ DOMAIN data \subseteq Goods /\ data \in [DOMAIN data -> Rows]
             /\ caches[c] \in [cart : Carts, data : {data}, state : {"filling", "ok", "short"},
                               touched : SUBSET Goods]
    /\ current \in [Sessions -> 0 .. made]
    /\ page \in [Pages -> Shops \union Infos]
    /\ req \in [Pages -> {Idle} \union Begun \union Filling \union Accounts \union Cashes]
    /\ edits \in 0 .. limits.edits /\ edited \subseteq Goods /\ overwritten \subseteq Users

Paid(u) == SumFunction([i \in {j \in DOMAIN trades : trades[j].user = u} |-> trades[i].paid])
Traded(g) == SumFunction([i \in {j \in DOMAIN trades : g \in DOMAIN trades[j].cart} |->
                             trades[i].cart[g]])

\* A trade is committed whole and paid at the prices that were checked, however its requests
\* interleave with others and wherever they fail.  The one way around it: cash starts on a cache
\* that a check in another tab is still filling, walks over the few goods there are and then sums
\* up the full cart (TradeService.cash, 162 and 170).
TradeIsPaid ==
    \A i \in DOMAIN trades :
        ~trades[i].early => trades[i].paid = Total(trades[i].cart, caches[trades[i].cache].data)

\* The numbers sold are those of the trades, and the store shrinks by as much unless the
\* administrator set it: no sale is lost between concurrent requests and none survives a rollback.
\* Money leaves an account for trades only, once for each - unless a form of userinfo.jsp that was
\* loaded before a payment is posted after it (UserServlet.doUpdate) and gives the money back.
BooksAgree ==
    /\ \A g \in Goods : /\ goods[g].sold = Traded(g)
                        /\ g \notin edited => goods[g].rest = Stock[g] - goods[g].sold
    /\ \A u \in Users \ overwritten : balance[u] = Balance - Paid(u)

\* p's transaction commits in this step.
Commits(p) == Cashing(p) /\ trades' # trades /\ req'[p] = Idle

\* Nothing locks the store or the account between checkCart, checkAccount and cash; what the
\* checks are worth is this.  A sale leaves less than nothing in store only if some row was changed
\* since it was checked, or the session's cache was meanwhile replaced by one whose check failed or
\* has not finished; and it takes an account below zero only if the account was changed since it
\* was checked or another cart has come into the session.
ShortOnlyByRaces ==
    [][\A p \in Pages : Commits(p) =>
          LET c  == caches[req[p].cache]
              ok == page[p].approved
          IN /\ c.state = "ok" => \A g \in req[p].sold \ c.touched : goods'[g].rest >= 0
             /\ ok.fresh /\ ok.cache = req[p].cache /\ ok.cart = caches[ok.cache].cart
                   => balance'[User(p)] >= 0]_vars

\* Who pays for the very cart mycash.jsp showed pays the very sum it showed, whatever happens to
\* the prices meanwhile.
PaidIsShown ==
    [][\A p \in Pages : Commits(p) =>
          LET seen == page[p].shown
          IN seen.cache = req[p].cache /\ seen.cart = caches[seen.cache].cart
                => req[p].total = seen.total \/ req[p].early]_vars

=============================================================================
