------------------------ MODULE EasyShopTradeProofs ------------------------
(***************************************************************************)
(* For any number of tabs, browsers, users and goods: what the checkout of *)
(* the easy shop promises (EasyShopTrade).                                 *)
(*                                                                         *)
(* The argument: the four requests of a purchase meet only in the cache of *)
(* the session, and what a cache holds only grows until its check is done; *)
(* so a sum over a cart that was covered once stays what it was.  What was *)
(* read of a good or an account is what it is, or is marked.  IInv says    *)
(* this of every page and request (PageInv) and of the caches and trades;  *)
(* Quiet says what a step may do to the pages of others, and QuietKeeps    *)
(* that it leaves them what they have.                                     *)
(***************************************************************************)
EXTENDS EasyShopTrade, SumTheorems

----------------------------------------------------------------------------
(* Carts, data and sums *)

\* The data that caches may hold.
Datas == UNION {[G -> Rows] : G \in SUBSET Goods}

\* f is part of h: a cart of the cart it grows to, the data of a cache of what they become.
Within(f, h) == \A g \in DOMAIN f : g \in DOMAIN h /\ f[g] = h[g]

\* Carts and data are functions on some of the goods.
LEMMA CartIs ==
    ASSUME NEW f
    PROVE  f \in Carts <=> DOMAIN f \subseteq Goods /\ f \in [DOMAIN f -> Amounts]
BY DEF Carts

LEMMA DataIs ==
    ASSUME NEW f
    PROVE  f \in Datas <=> DOMAIN f \subseteq Goods /\ f \in [DOMAIN f -> Rows]
BY DEF Datas

\* A new cache holds a cart and data with nothing in them.
LEMMA NothingYet == <<>> \in Carts /\ <<>> \in Datas /\ DOMAIN <<>> = {}
<1>1. DOMAIN <<>> = {}
  OBVIOUS
<1>2. <<>> \in [{} -> Amounts] /\ <<>> \in [{} -> Rows]
  OBVIOUS
<1>. QED  BY <1>1, <1>2 DEF Carts, Datas

\* Putting an entry into a cart gives a cart, into data gives data, ...
LEMMA PutCart ==
    ASSUME NEW f \in Carts, NEW g \in Goods, NEW n \in Amounts
    PROVE  Put(f, g, n) \in Carts
BY CartIs DEF Put

LEMMA PutData ==
    ASSUME NEW f \in Datas, NEW g \in Goods, NEW n \in Rows
    PROVE  Put(f, g, n) \in Datas
BY DataIs DEF Put

\* ... and a cache at the next number makes one cache more.
LEMMA PutCache ==
    ASSUME NEW n \in Nat, NEW S, NEW cs \in [0 .. n -> S], NEW k \in S
    PROVE  Put(cs, n + 1, k) \in [0 .. n + 1 -> S]
BY DEF Put

\* Carts that are within each other are one; what is within a part is within the whole.
LEMMA WithinTwice ==
    ASSUME NEW f \in Carts, NEW h \in Carts, Within(f, h), Within(h, f)
    PROVE  f = h
<1>1. DOMAIN f = DOMAIN h
  BY DEF Within
<1>. QED  BY <1>1, CartIs DEF Within

LEMMA WithinThrough ==
    ASSUME NEW f, NEW h, NEW k, Within(f, h), Within(h, k)
    PROVE  Within(f, k)
BY DEF Within

\* A sum depends on the prices of its goods only, ...
LEMMA TotalSame ==
    ASSUME NEW cart, NEW data, NEW later, DOMAIN cart \subseteq DOMAIN data, Within(data, later)
    PROVE  Total(cart, later) = Total(cart, data)
<1>1. [g \in DOMAIN cart |-> cart[g] * later[g].price]
        = [g \in DOMAIN cart |-> cart[g] * data[g].price]
  BY DEF Within
<1>. QED  BY <1>1 DEF Total

\* ... and it is a natural number when there are data for all of them.
LEMMA TotalIsNat ==
    ASSUME NEW cart \in Carts, NEW data \in Datas, DOMAIN cart \subseteq DOMAIN data
    PROVE  Total(cart, data) \in Nat
<1>. DEFINE f == [g \in DOMAIN cart |-> cart[g] * data[g].price]
<1>1. IsFiniteSet(DOMAIN f)
  BY CartIs, FS_Subset, ShopAssumption
<1>2. ASSUME NEW g \in DOMAIN f PROVE f[g] \in Nat
  <2>1. cart[g] \in Nat
    BY CartIs, ShopAssumption
  <2>2. data[g].price \in Nat
    BY DataIs DEF Rows
  <2>3. \A a, b \in Nat : a * b \in Nat
    OBVIOUS
  <2>. QED  BY <2>1, <2>2, <2>3
<1>. HIDE DEF f
<1>3. SumFunction(f) \in Nat
  BY <1>1, <1>2, SumFunctionType
<1>. QED  BY <1>3 DEF f, Total

----------------------------------------------------------------------------
(* Types *)

\* What a cache and a request may be.
Caches == [cart : Carts, data : Datas, state : {"filling", "ok", "short"}, touched : SUBSET Goods]
Requests == {Idle} \union Begun \union Filling \union Accounts \union Cashes

\* The types of all variables.  That made does not pass its bound is ChecksBounded.
Types ==
    /\ sessionOf \in [Pages -> Sessions] /\ userOf \in [Sessions -> Users] /\ limits \in Limits
    /\ goods \in [Goods -> Rows]
    /\ balance \in [Users -> Int]
    /\ trades \in Seq(Trades)
    /\ made \in Nat /\ caches \in [0 .. made -> Caches]
    /\ current \in [Sessions -> 0 .. made]
    /\ page \in [Pages -> Shops \union Infos]
    /\ req \in [Pages -> Requests]
    /\ edits \in 0 .. limits.edits /\ edited \subseteq Goods /\ overwritten \subseteq Users

\* What kind of request, and of page, a tab has tells its fields.
LEMMA Shapes ==
    ASSUME Types, NEW p \in Pages
    PROVE  /\ req[p].kind = "check" /\ req[p].at = "begun" => req[p] \in Begun
           /\ req[p].kind = "check" /\ req[p].at # "begun" => req[p] \in Filling
           /\ req[p].kind = "account" => req[p] \in Accounts
           /\ req[p].kind = "cash" => req[p] \in Cashes
           /\ page[p].at = "userinfo" => page[p] \in Infos
           /\ page[p].at # "userinfo" => page[p] \in Shops
           /\ sessionOf[p] \in Sessions /\ User(p) \in Users
           /\ current[sessionOf[p]] \in 0 .. made /\ caches[current[sessionOf[p]]] \in Caches
<1>1. req[p] \in Requests
  BY DEF Types
<1>2. page[p] \in Shops \union Infos
  BY DEF Types
<1>3. sessionOf[p] \in Sessions /\ User(p) \in Users
  BY DEF Types, User
<1>4. current[sessionOf[p]] \in 0 .. made /\ caches[current[sessionOf[p]]] \in Caches
  BY <1>3 DEF Types
<1>5. req[p] = Idle => req[p].kind = "none"
  BY DEF Idle
<1>6. req[p] \in Begun => req[p].kind = "check" /\ req[p].at = "begun"
  BY DEF Begun
<1>7. req[p] \in Filling => req[p].kind = "check" /\ req[p].at # "begun"
  BY DEF Filling
<1>8. req[p] \in Accounts => req[p].kind = "account"
  BY DEF Accounts
<1>9. req[p] \in Cashes => req[p].kind = "cash"
  BY DEF Cashes
<1>10. page[p] \in Shops => page[p].at # "userinfo"
  BY DEF Shops
<1>11. page[p] \in Infos => page[p].at = "userinfo"
  BY DEF Infos
<1>. QED  BY <1>1, <1>2, <1>3, <1>4, <1>5, <1>6, <1>7, <1>8, <1>9, <1>10, <1>11 DEF Requests

\* Types hold at first.
LEMMA StartTypes == Init => Types
<1>. SUFFICES ASSUME Init PROVE Types
  OBVIOUS
<1>1. limits \in Limits /\ limits.edits \in Nat
  BY ShopAssumption DEF Init
<1>2. goods \in [Goods -> Rows]
  BY ShopAssumption DEF Init, Rows
<1>3. NewCache({}) \in Caches
  BY NothingYet DEF NewCache, Caches
<1>4. made = 0 /\ caches \in [0 .. made -> Caches]
  BY <1>3 DEF Init
<1>5. NewPage \in Shops
  BY DEF NewPage, Shops
<1>6. page \in [Pages -> Shops \union Infos]
  BY <1>5 DEF Init
<1>7. req \in [Pages -> Requests]
  BY DEF Init, Requests
<1>8. trades \in Seq(Trades)
  BY DEF Init
<1>9. balance \in [Users -> Int]
  BY ShopAssumption DEF Init
<1>10. current \in [Sessions -> 0 .. made]
  BY DEF Init
<1>. QED  BY <1>1, <1>2, <1>4, <1>6, <1>7, <1>8, <1>9, <1>10 DEF Types, Init

\* A step that makes no cache leaves the types what they are ...
LEMMA TypesKept ==
    ASSUME Types, UNCHANGED <<frozen, made, current>>,
           goods' \in [Goods -> Rows], balance' \in [Users -> Int], trades' \in Seq(Trades),
           caches' \in [0 .. made -> Caches],
           page' \in [Pages -> Shops \union Infos], req' \in [Pages -> Requests],
           edits' \in 0 .. limits.edits, edited' \subseteq Goods, overwritten' \subseteq Users
    PROVE  Types'
<1>1. Filling' = Filling /\ Cashes' = Cashes /\ Shops' = Shops /\ Trades' = Trades
  BY DEF Filling, Cashes, Shops, Trades
<1>2. Requests' = Requests
  BY <1>1 DEF Requests
<1>. QED  BY <1>1, <1>2 DEF Types, frozen

\* ... and most change one request and one page.
LEMMA TypesByPage ==
    ASSUME Types, UNCHANGED <<frozen, database, caches, made, current, history>>,
           NEW p \in Pages,
           req' = req \/ (\E r \in Requests : req' = [req EXCEPT ![p] = r]),
           page' = page \/ (\E s \in Shops \union Infos : page' = [page EXCEPT ![p] = s])
    PROVE  Types'
<1>1. req' \in [Pages -> Requests]
  BY DEF Types
<1>2. page' \in [Pages -> Shops \union Infos]
  BY DEF Types
<1>. QED  BY <1>1, <1>2, TypesKept DEF Types, frozen, database, history

\* The bounds are numbers.
LEMMA LimitsAre == Types => limits.trades \in Nat /\ limits.edits \in Nat
BY ShopAssumption DEF Types

\* The history variables change within their types.
LEMMA TouchedTypes ==
    ASSUME Types
    PROVE  \A G \in SUBSET Goods :
              /\ TouchCaches(caches, G) \in [0 .. made -> Caches]
              /\ \A rs \in [Pages -> Requests] : TouchRequests(rs, G) \in [Pages -> Requests]
<1>. SUFFICES ASSUME NEW G \in SUBSET Goods
              PROVE  /\ TouchCaches(caches, G) \in [0 .. made -> Caches]
                     /\ \A rs \in [Pages -> Requests] :
                           TouchRequests(rs, G) \in [Pages -> Requests]
  OBVIOUS
<1>1. TouchCaches(caches, G) \in [0 .. made -> Caches]
  BY DEF TouchCaches, Types, Caches
<1>2. ASSUME NEW rs \in [Pages -> Requests], NEW p \in Pages,
             rs[p].kind = "check", rs[p].at = "begun"
      PROVE  [rs[p] EXCEPT !.touched = @ \union G] \in Requests
  <2>1. rs[p] \in Begun
    BY <1>2 DEF Requests, Idle, Filling, Accounts, Cashes
  <2>2. [rs[p] EXCEPT !.touched = @ \union G] \in Begun
    BY <2>1 DEF Begun
  <2>. QED  BY <2>2 DEF Requests
<1>. QED  BY <1>1, <1>2 DEF TouchRequests

\* ... and so do requests and pages that are marked stale.
LEMMA StaleTypes ==
    ASSUME NEW u
    PROVE  /\ \A rs \in [Pages -> Requests] : StaleRequests(rs, u) \in [Pages -> Requests]
           /\ \A ps \in [Pages -> Shops \union Infos] :
                  StalePages(ps, u) \in [Pages -> Shops \union Infos]
<1>1. ASSUME NEW rs \in [Pages -> Requests], NEW p \in Pages, rs[p].kind = "account"
      PROVE  [rs[p] EXCEPT !.fresh = FALSE] \in Requests
  <2>1. rs[p] \in Accounts
    BY <1>1 DEF Requests, Idle, Begun, Filling, Cashes
  <2>2. [rs[p] EXCEPT !.fresh = FALSE] \in Accounts
    BY <2>1 DEF Accounts
  <2>. QED  BY <2>2 DEF Requests
<1>2. ASSUME NEW ps \in [Pages -> Shops \union Infos], NEW p \in Pages, ps[p].at = "userinfo"
      PROVE  [ps[p] EXCEPT !.fresh = FALSE] \in Infos
  <2>1. ps[p] \in Infos
    BY <1>2 DEF Shops
  <2>. QED  BY <2>1 DEF Infos
<1>3. ASSUME NEW ps \in [Pages -> Shops \union Infos], NEW p \in Pages,
             ps[p].at # "userinfo", ps[p].approved # Nothing
      PROVE  [ps[p] EXCEPT !.approved.fresh = FALSE] \in Shops
  <2>1. ps[p] \in Shops
    BY <1>3 DEF Infos
  <2>2. ps[p].approved \in [cache : 0 .. made, cart : Carts, fresh : BOOLEAN]
    BY <1>3, <2>1 DEF Shops
  <2>3. [ps[p].approved EXCEPT !.fresh = FALSE]
          \in [cache : 0 .. made, cart : Carts, fresh : BOOLEAN]
    BY <2>2
  <2>. QED  BY <2>1, <2>3 DEF Shops
<1>. QED  BY <1>1, <1>2, <1>3 DEF StaleRequests, StalePages

\* A sale turns rows into rows.
LEMMA SellTypes ==
    ASSUME Types, NEW cart \in Carts
    PROVE  Sell(goods, cart) \in [Goods -> Rows]
<1>1. ASSUME NEW g \in DOMAIN cart
      PROVE  /\ g \in Goods
             /\ [goods[g] EXCEPT !.rest = @ - cart[g], !.sold = @ + cart[g]] \in Rows
  <2>1. g \in Goods /\ cart[g] \in Nat
    BY CartIs, ShopAssumption
  <2>2. goods[g] \in Rows
    BY <2>1 DEF Types
  <2>3. goods[g].rest - cart[g] \in Int /\ goods[g].sold + cart[g] \in Nat
    BY <2>1, <2>2 DEF Rows
  <2>. QED  BY <2>1, <2>2, <2>3 DEF Rows
<1>. QED  BY <1>1 DEF Sell, Types

\* What a check has still to do is of its selection.
LeftWanted(p) ==
    req[p].kind = "check" /\ req[p].at # "begun" => req[p].left \subseteq DOMAIN req[p].want

\* A request stands where its page lets it.
InPlace(p) ==
    /\ req[p].kind = "check" => page[p].at = "mycarts"
    /\ req[p].kind = "account" => page[p].at = "shown"
    /\ req[p].kind = "cash" => page[p].at = "paying"

\* Every step keeps the types of the variables.
LEMMA TypesStep ==
    ASSUME Types, \A p \in Pages : LeftWanted(p) /\ InPlace(p), [Next]_vars
    PROVE  Types'
<1>1. CASE UNCHANGED vars
  BY <1>1 DEF Types, vars, Shops, Requests, Begun, Filling, Cashes, Trades
<1>2. ASSUME NEW p \in Pages, CheckBegin(p)
      PROVE  Types'
  <2>1. PICK want \in Carts :
          req' = [req EXCEPT ![p] = [kind |-> "check", at |-> "begun", want |-> want,
                                     snap |-> goods, touched |-> {}]]
    BY <1>2 DEF CheckBegin, Carts
  <2>3. [kind |-> "check", at |-> "begun", want |-> want, snap |-> goods, touched |-> {}]
          \in Requests
    BY DEF Types, Requests, Begun
  <2>. QED  BY <1>2, <2>1, <2>3, TypesByPage DEF CheckBegin
<1>3. ASSUME NEW p \in Pages, CheckNew(p)
      PROVE  Types'
  <2>1. req[p] \in Begun
    BY <1>3, Shapes DEF CheckNew
  <2>2. NewCache(req[p].touched) \in Caches
    BY <2>1, NothingYet DEF NewCache, Caches, Begun
  <2>3. /\ made' = made + 1 /\ made' \in Nat
        /\ caches' = Put(caches, made + 1, NewCache(req[p].touched))
    BY <1>3 DEF CheckNew, Types
  <2>4. caches' \in [0 .. made' -> Caches]
    BY <2>2, <2>3, PutCache DEF Types
  <2>5. current' \in [Sessions -> 0 .. made']
    BY <1>3, <2>3 DEF CheckNew, Types
  <2>. DEFINE r == [kind |-> "check", at |-> "put", want |-> req[p].want, snap |-> req[p].snap,
                    cache |-> made', left |-> DOMAIN req[p].want, short |-> FALSE]
  <2>6. r \in Filling'
    BY <2>1, <2>3, CartIs DEF Filling, Begun, Types
  <2>7. /\ Filling \subseteq Filling' /\ Cashes \subseteq Cashes'
        /\ Shops \subseteq Shops' /\ Trades \subseteq Trades'
    BY <2>3 DEF Filling, Cashes, Shops, Trades, Types
  <2>8. Requests \subseteq Requests' /\ r \in Requests'
    BY <2>6, <2>7 DEF Requests, Begun
  <2>9. req' = [req EXCEPT ![p] = r]
    BY <1>3 DEF CheckNew
  <2>. HIDE DEF r
  <2>10. req' \in [Pages -> Requests']
    BY <2>8, <2>9 DEF Types
  <2>11. page' \in [Pages -> Shops' \union Infos]
    BY <1>3, <2>7 DEF CheckNew, Types
  <2>12. trades' \in Seq(Trades')
    BY <1>3, <2>7 DEF CheckNew, Types, database
  <2>. QED  BY <1>3, <2>3, <2>4, <2>5, <2>10, <2>11, <2>12
            DEF Types, CheckNew, frozen, database, history, Infos
<1>4. ASSUME NEW p \in Pages, NEW g \in Goods, CheckPut(p, g)
      PROVE  Types'
  <2>1. req[p] \in Filling /\ g \in DOMAIN req[p].want
    BY <1>4, Shapes DEF CheckPut, LeftWanted
  <2>. DEFINE c == req[p].cache
  <2>2. c \in 0 .. made /\ caches[c] \in Caches /\ req[p].want[g] \in Amounts
    BY <2>1, CartIs DEF Filling, Types
  <2>3. Put(caches[c].cart, g, req[p].want[g]) \in Carts
    BY <2>2, PutCart DEF Caches
  <2>4. caches' = [caches EXCEPT ![c].cart = Put(caches[c].cart, g, req[p].want[g])]
    BY <1>4 DEF CheckPut
  <2>. HIDE DEF c
  <2>5. caches' \in [0 .. made -> Caches]
    BY <2>2, <2>3, <2>4 DEF Types, Caches
  <2>6. /\ req'[p] \in Filling
        /\ req' \in [Pages -> Requests]
    <3>1. DOMAIN req[p].want \subseteq Goods
      BY <2>1, CartIs DEF Filling
    <3>2. req'[p] \in Filling
      BY <1>4, <2>1, <3>1 DEF CheckPut, Filling, Types
    <3>. QED  BY <1>4, <3>2 DEF CheckPut, Types, Requests
  <2>. QED  BY <1>4, <2>5, <2>6, TypesKept DEF CheckPut, Types, frozen, database, history
<1>5. ASSUME NEW p \in Pages, NEW g \in Goods, CheckItem(p, g)
      PROVE  Types'
  <2>1. req[p] \in Filling
    BY <1>5, Shapes DEF CheckItem
  <2>. DEFINE c == req[p].cache
  <2>2. c \in 0 .. made /\ caches[c] \in Caches /\ req[p].snap[g] \in Rows
    BY <2>1 DEF Filling, Types
  <2>3. Put(caches[c].data, g, req[p].snap[g]) \in Datas
    BY <2>2, PutData DEF Caches
  <2>4. caches' = [caches EXCEPT ![c].data = Put(caches[c].data, g, req[p].snap[g])]
    BY <1>5 DEF CheckItem
  <2>. HIDE DEF c
  <2>5. caches' \in [0 .. made -> Caches]
    BY <2>2, <2>3, <2>4 DEF Types, Caches
  <2>6. req' \in [Pages -> Requests]
    <3>2. req'[p] \in Filling
      BY <1>5, <2>1 DEF CheckItem, Filling, Types
    <3>. QED  BY <1>5, <3>2 DEF CheckItem, Types, Requests
  <2>. QED  BY <1>5, <2>5, <2>6, TypesKept DEF CheckItem, Types, frozen, database, history
<1>6. ASSUME NEW p \in Pages, CheckEnd(p)
      PROVE  Types'
  <2>1. req[p] \in Filling
    BY <1>6, Shapes DEF CheckEnd
  <2>. DEFINE c == req[p].cache
  <2>2. c \in 0 .. made /\ caches[c] \in Caches
    BY <2>1 DEF Filling, Types
  <2>4. caches' = [caches EXCEPT ![c].state = IF req[p].short THEN "short" ELSE "ok"]
    BY <1>6 DEF CheckEnd
  <2>. HIDE DEF c
  <2>5. caches' \in [0 .. made -> Caches]
    BY <2>2, <2>4 DEF Types, Caches
  <2>6. req' \in [Pages -> Requests]
    BY <1>6 DEF CheckEnd, Types, Requests
  <2>7. page' \in [Pages -> Shops \union Infos]
    <3>1. page[p] \in Shops
      BY <1>6, Shapes DEF CheckEnd, InPlace
    <3>2. page'[p] \in Shops
      BY <1>6, <3>1 DEF CheckEnd, Types, Shops
    <3>. QED  BY <1>6, <3>2 DEF CheckEnd, Types
  <2>. QED  BY <1>6, <2>5, <2>6, <2>7, TypesKept DEF CheckEnd, Types, frozen, database, history
<1>7. ASSUME NEW p \in Pages, Confirm(p)
      PROVE  Types'
  <2>. DEFINE c == current[sessionOf[p]]
              seen == IF Whole(c) THEN [cache |-> c, cart |-> caches[c].cart,
                                        total |-> Total(caches[c].cart, caches[c].data)]
                      ELSE Nothing
  <2>1. page[p] \in Shops
    BY <1>7, Shapes DEF Confirm
  <2>2. c \in 0 .. made /\ caches[c] \in Caches
    BY Shapes
  <2>3. Whole(c) => Total(caches[c].cart, caches[c].data) \in Nat
    BY <2>2, TotalIsNat DEF Whole, Caches
  <2>4. seen \in {Nothing} \union [cache : 0 .. made, cart : Carts, total : Nat]
    BY <2>2, <2>3 DEF Caches
  <2>5. page' = [page EXCEPT ![p].at = "shown", ![p].shown = seen]
    BY <1>7 DEF Confirm
  <2>. HIDE DEF seen
  <2>6. page'[p] \in Shops
    BY <2>1, <2>4, <2>5 DEF Shops, Types
  <2>7. page' \in [Pages -> Shops \union Infos]
    BY <2>5, <2>6 DEF Types
  <2>. QED  BY <1>7, <2>7, TypesKept DEF Confirm, Types, frozen, database, history
<1>8. ASSUME NEW p \in Pages, Leave(p)
      PROVE  Types'
  <2>1. NewPage \in Shops
    BY DEF NewPage, Shops
  <2>. QED  BY <1>8, <2>1, TypesByPage DEF Leave
<1>9. ASSUME NEW p \in Pages, Reopen(p)
      PROVE  Types'
  <2>1. page[p] \in Shops
    BY <1>9, Shapes DEF Reopen
  <2>2. page'[p] \in Shops
    BY <1>9, <2>1 DEF Reopen, Types, Shops
  <2>3. page' \in [Pages -> Shops \union Infos]
    BY <1>9, <2>2 DEF Reopen, Types
  <2>. QED  BY <1>9, <2>3, TypesKept DEF Reopen, Types, frozen, database, history
<1>10. ASSUME NEW p \in Pages, AccountBegin(p)
       PROVE  Types'
  <2>1. [kind |-> "account", seen |-> balance[User(p)], fresh |-> TRUE] \in Requests
    BY Shapes DEF Types, Requests, Accounts
  <2>. QED  BY <1>10, <2>1, TypesByPage DEF AccountBegin
<1>11. ASSUME NEW p \in Pages, AccountCheck(p)
       PROVE  Types'
  <2>. DEFINE c == current[sessionOf[p]]
              ok == [cache |-> c, cart |-> caches[c].cart, fresh |-> req[p].fresh]
  <2>1. page[p] \in Shops /\ req[p] \in Accounts
    BY <1>11, Shapes DEF AccountCheck, InPlace
  <2>2. ok \in [cache : 0 .. made, cart : Carts, fresh : BOOLEAN]
    BY <2>1, Shapes DEF Caches, Accounts
  <2>3. page' = page \/ page' = [page EXCEPT ![p].at = "paying", ![p].approved = ok]
    BY <1>11 DEF AccountCheck
  <2>. HIDE DEF ok
  <2>4. page'[p] \in Shops
    BY <2>1, <2>2, <2>3 DEF Shops, Types
  <2>5. page' \in [Pages -> Shops \union Infos]
    BY <2>3, <2>4 DEF Types
  <2>6. req' \in [Pages -> Requests]
    BY <1>11 DEF AccountCheck, Types, Requests
  <2>. QED  BY <1>11, <2>5, <2>6, TypesKept DEF AccountCheck, Types, frozen, database, history
<1>12. ASSUME NEW p \in Pages, CashBegin(p)
       PROVE  Types'
  <2>. DEFINE c == current[sessionOf[p]]
  <2>1. [kind |-> "cash", at |-> "loop", cache |-> c, cart |-> caches[c].cart, sold |-> {},
         total |-> 0, early |-> caches[c].state = "filling"] \in Requests
    BY Shapes DEF Requests, Cashes, Caches
  <2>. QED  BY <1>12, <2>1, TypesByPage DEF CashBegin
<1>13. ASSUME NEW p \in Pages, NEW g \in Goods, CashSell(p, g)
       PROVE  Types'
  <2>1. req[p] \in Cashes
    BY <1>13, Shapes DEF CashSell, Cashing
  <2>2. req'[p] \in Cashes
    BY <1>13, <2>1 DEF CashSell, Types, Cashes
  <2>3. req' \in [Pages -> Requests]
    BY <1>13, <2>2 DEF CashSell, Types, Requests
  <2>. QED  BY <1>13, <2>3, TypesKept DEF CashSell, Types, frozen, database, history
<1>14. ASSUME NEW p \in Pages, CashTotal(p)
       PROVE  Types'
  <2>. DEFINE c == req[p].cache
  <2>1. req[p] \in Cashes
    BY <1>14, Shapes DEF CashTotal, Cashing
  <2>2. Total(caches[c].cart, caches[c].data) \in Nat
    <3>1. caches[c] \in Caches
      BY <2>1 DEF Cashes, Types
    <3>. QED  BY <1>14, <3>1, TotalIsNat DEF CashTotal, Whole, Caches
  <2>3. req'[p] \in Cashes
    BY <1>14, <2>1, <2>2 DEF CashTotal, Types, Cashes
  <2>4. req' \in [Pages -> Requests]
    BY <1>14, <2>3 DEF CashTotal, Types, Requests
  <2>. QED  BY <1>14, <2>4, TypesKept DEF CashTotal, Types, frozen, database, history
<1>15. ASSUME NEW p \in Pages, CashPay(p)
       PROVE  Types'
  <2>1. req[p] \in Cashes
    BY <1>15, Shapes DEF CashPay, Cashing
  <2>2. req'[p] \in Cashes
    BY <1>15, <2>1 DEF CashPay, Types, Cashes
  <2>3. req' \in [Pages -> Requests]
    BY <1>15, <2>2 DEF CashPay, Types, Requests
  <2>. QED  BY <1>15, <2>3, TypesKept DEF CashPay, Types, frozen, database, history
<1>16. ASSUME NEW p \in Pages, CashCommit(p)
       PROVE  Types'
  <2>1. req[p] \in Cashes /\ User(p) \in Users
    BY <1>16, Shapes DEF CashCommit, Cashing
  <2>2. goods' \in [Goods -> Rows]
    BY <1>16, <2>1, SellTypes DEF CashCommit, Cashes
  <2>3. balance' \in [Users -> Int]
    BY <1>16, <2>1 DEF CashCommit, Types, Cashes
  <2>4. Trade(p) \in Trades
    BY <2>1 DEF Trade, Trades, Cashes
  <2>5. trades' \in Seq(Trades)
    BY <1>16, <2>4 DEF CashCommit, Types
  <2>6. caches' \in [0 .. made -> Caches]
    <3>1. req[p].sold \in SUBSET Goods
      BY <2>1 DEF Cashes
    <3>. QED  BY <1>16, <3>1, TouchedTypes DEF CashCommit
  <2>7. req' \in [Pages -> Requests]
    <3>1. [req EXCEPT ![p] = Idle] \in [Pages -> Requests]
      BY DEF Types, Requests
    <3>2. req[p].sold \in SUBSET Goods
      BY <2>1 DEF Cashes
    <3>3. TouchRequests([req EXCEPT ![p] = Idle], req[p].sold) \in [Pages -> Requests]
      BY <3>1, <3>2, TouchedTypes
    <3>. QED  BY <1>16, <3>3, StaleTypes DEF CashCommit
  <2>8. page' \in [Pages -> Shops \union Infos]
    <3>1. [page EXCEPT ![p] = NewPage] \in [Pages -> Shops \union Infos]
      BY DEF Types, NewPage, Shops
    <3>. QED  BY <1>16, <3>1, StaleTypes DEF CashCommit
  <2>. QED  BY <1>16, <2>2, <2>3, <2>5, <2>6, <2>7, <2>8, TypesKept
            DEF CashCommit, Types, frozen, history
<1>17. ASSUME NEW p \in Pages, CashFails(p)
       PROVE  Types'
  <2>1. page[p] \in Shops
    BY <1>17, Shapes DEF CashFails, Cashing, InPlace
  <2>2. page'[p] \in Shops
    BY <1>17, <2>1 DEF CashFails, Types, Shops
  <2>3. page' \in [Pages -> Shops \union Infos]
    BY <1>17, <2>2 DEF CashFails, Types
  <2>4. req' \in [Pages -> Requests]
    BY <1>17 DEF CashFails, Types, Requests
  <2>. QED  BY <1>17, <2>3, <2>4, TypesKept DEF CashFails, Types, frozen, database, history
<1>18. ASSUME NEW p \in Pages, InfoShown(p)
       PROVE  Types'
  <2>1. [at |-> "userinfo", form |-> balance[User(p)], fresh |-> TRUE] \in Infos
    BY Shapes DEF Types, Infos
  <2>. QED  BY <1>18, <2>1, TypesByPage DEF InfoShown
<1>19. ASSUME NEW p \in Pages, InfoPosted(p)
       PROVE  Types'
  <2>. DEFINE u == User(p)
              left == [page EXCEPT ![p] = NewPage]
  <2>1. page[p] \in Infos /\ u \in Users
    BY <1>19, Shapes DEF InfoPosted
  <2>2. balance' \in [Users -> Int]
    BY <1>19, <2>1 DEF InfoPosted, Infos, Types
  <2>3. overwritten' \subseteq Users
    BY <1>19, <2>1 DEF InfoPosted, Types
  <2>4. left \in [Pages -> Shops \union Infos]
    BY DEF Types, NewPage, Shops
  <2>5. page' \in [Pages -> Shops \union Infos]
    BY <1>19, <2>4, StaleTypes DEF InfoPosted
  <2>6. req' \in [Pages -> Requests]
    <3>1. req \in [Pages -> Requests]
      BY DEF Types
    <3>. QED  BY <1>19, <3>1, StaleTypes DEF InfoPosted
  <2>. QED  BY <1>19, <2>2, <2>3, <2>5, <2>6, TypesKept DEF InfoPosted, Types, frozen
<1>20. ASSUME NEW g \in Goods, Modify(g)
       PROVE  Types'
  <2>1. PICK rest \in NewRests, price \in NewPrices :
          goods' = [goods EXCEPT ![g].rest = rest, ![g].price = price]
    BY <1>20 DEF Modify
  <2>2. rest \in Int /\ price \in Nat
    BY ShopAssumption
  <2>3. goods' \in [Goods -> Rows]
    BY <2>1, <2>2 DEF Types, Rows
  <2>4. edits' \in 0 .. limits.edits
    BY <1>20, LimitsAre DEF Modify, Types
  <2>5. caches' \in [0 .. made -> Caches]
    BY <1>20, TouchedTypes DEF Modify
  <2>6. req' \in [Pages -> Requests]
    <3>1. req \in [Pages -> Requests]
      BY DEF Types
    <3>. QED  BY <1>20, <3>1, TouchedTypes DEF Modify
  <2>. QED  BY <1>20, <2>3, <2>4, <2>5, <2>6, TypesKept DEF Modify, Types, frozen
<1>. QED
  BY <1>1, <1>2, <1>3, <1>4, <1>5, <1>6, <1>7, <1>8, <1>9, <1>10, <1>11, <1>12, <1>13, <1>14, <1>15,
     <1>16, <1>17, <1>18, <1>19, <1>20 DEF Next

----------------------------------------------------------------------------
(* The invariant *)

\* What the request of p is: a check, before and after it made its cache, or one for the account.
Checking(p) == req[p].kind = "check"
Beginning(p) == Checking(p) /\ req[p].at = "begun"
Making(p) == Checking(p) /\ req[p].at # "begun"
Asking(p) == req[p].kind = "account"

\* How far a check has come with its cart and with the stock.
CheckProgress(p) ==
    Making(p) =>
        /\ caches[req[p].cache].state = "filling"
        /\ Within(caches[req[p].cache].cart, req[p].want)
        /\ DOMAIN caches[req[p].cache].cart =
              IF req[p].at = "put" THEN DOMAIN req[p].want \ req[p].left ELSE DOMAIN req[p].want
        /\ DOMAIN caches[req[p].cache].data =
              IF req[p].at = "put" THEN {} ELSE DOMAIN req[p].want \ req[p].left
        /\ req[p].at = "items" /\ ~req[p].short =>
              \A g \in DOMAIN req[p].want \ req[p].left : req[p].want[g] <= req[p].snap[g].rest

\* What a check has read of a good is what the good is, unless it was touched since.
SnapshotFresh(p) ==
    /\ Beginning(p) => \A g \in Goods \ req[p].touched : req[p].snap[g] = goods[g]
    /\ Making(p) => \A g \in Goods \ caches[req[p].cache].touched : req[p].snap[g] = goods[g]

\* The sum mycash.jsp shows is that of the cart it shows, ...
ShownTotal(p) ==
    LET seen == page[p].shown
    IN page[p].at # "userinfo" /\ seen # Nothing =>
        /\ Within(seen.cart, caches[seen.cache].cart)
        /\ DOMAIN seen.cart \subseteq DOMAIN caches[seen.cache].data
        /\ seen.total = Total(seen.cart, caches[seen.cache].data)

\* ... and the cart that was approved is one the account covers, unless that changed since.
ApprovedCovered(p) ==
    LET ok == page[p].approved
    IN page[p].at # "userinfo" /\ ok # Nothing =>
        /\ Within(ok.cart, caches[ok.cache].cart)
        /\ DOMAIN ok.cart \subseteq DOMAIN caches[ok.cache].data
        /\ ok.fresh => Total(ok.cart, caches[ok.cache].data) <= balance[User(p)]

\* What was read of an account is what the account is, unless it is marked stale.
AccountFresh(p) ==
    /\ Asking(p) /\ req[p].fresh => req[p].seen = balance[User(p)]
    /\ page[p].at = "userinfo" /\ page[p].fresh => page[p].form = balance[User(p)]

\* What a cash request has taken from its cache.
CashOfCache(p) ==
    LET c == req[p].cache
    IN Cashing(p) =>
        /\ Within(req[p].cart, caches[c].cart)
        /\ req[p].at # "loop" => req[p].sold = DOMAIN req[p].cart
        /\ ~req[p].early => caches[c].state # "filling" /\ req[p].cart = caches[c].cart
        /\ ~req[p].early /\ req[p].at # "loop" => req[p].total = Total(req[p].cart, caches[c].data)

\* A sum computed while the cart was the approved one is the approved sum.
CashOfApproved(p) ==
    LET ok == page[p].approved
    IN /\ Cashing(p) /\ req[p].at # "loop"
       /\ page[p].at # "userinfo" /\ ok # Nothing
       /\ ok.cache = req[p].cache /\ ok.cart = caches[ok.cache].cart
       => req[p].total = Total(ok.cart, caches[ok.cache].data)

\* What holds of every page and its request.
PageInv(p) ==
    /\ LeftWanted(p) /\ InPlace(p)
    /\ CheckProgress(p) /\ SnapshotFresh(p) /\ ShownTotal(p) /\ ApprovedCovered(p)
    /\ AccountFresh(p) /\ CashOfCache(p) /\ CashOfApproved(p)

\* No two checks fill one cache.
OwnCaches == \A p, q \in Pages : Making(p) /\ Making(q) /\ p # q => req[p].cache # req[q].cache

\* The bound on the checks counts those that have not made their cache yet.
Beginners == {p \in Pages : Beginning(p)}
ChecksBounded == made + Cardinality(Beginners) <= MaxChecks

\* A cache that passed its check has goods that are in store, unless touched since.
OkInStore ==
    \A c \in 0 .. made : caches[c].state = "ok" =>
        \A g \in DOMAIN caches[c].cart \ caches[c].touched : caches[c].cart[g] <= goods[g].rest

\* TradeIsPaid, and that the cache of the trade is finished.
TradesPaid ==
    \A i \in DOMAIN trades : ~trades[i].early =>
        /\ caches[trades[i].cache].state # "filling"
        /\ trades[i].paid = Total(trades[i].cart, caches[trades[i].cache].data)

\* The inductive invariant.
IInv == /\ Types /\ OwnCaches /\ ChecksBounded
        /\ \A p \in Pages : PageInv(p)
        /\ OkInStore /\ TradesPaid /\ BooksAgree

----------------------------------------------------------------------------
(* What a step leaves of the work of others *)

\* Carts and data only grow, those of a finished cache stay; a good that changes is marked.
CachesGrow ==
    /\ made <= made'
    /\ \A c \in 0 .. made :
          /\ Within(caches[c].cart, caches'[c].cart) /\ Within(caches[c].data, caches'[c].data)
          /\ caches[c].touched \subseteq caches'[c].touched
          /\ caches[c].state # "filling" => /\ caches'[c].cart = caches[c].cart
                                            /\ caches'[c].data = caches[c].data
                                            /\ caches'[c].state = caches[c].state
          /\ \A g \in Goods : goods'[g] # goods[g] => g \in caches'[c].touched

\* The request of q is what it was, but for the marks of what is stale.
SameRequest(q) ==
    /\ req'[q].kind = req[q].kind
    /\ Making(q) \/ Cashing(q) => req'[q] = req[q]
    /\ Beginning(q) =>
          /\ req'[q].at = "begun" /\ req'[q].want = req[q].want /\ req'[q].snap = req[q].snap
          /\ req[q].touched \subseteq req'[q].touched
          /\ \A g \in Goods : goods'[g] # goods[g] => g \in req'[q].touched
    /\ Asking(q) =>
          /\ req'[q].seen = req[q].seen
          /\ req'[q].fresh => req[q].fresh /\ balance'[User(q)] = balance[User(q)]

\* The page of q is what it was, but for the marks of what is stale.
SamePage(q) ==
    LET ok == page[q].approved
    IN /\ page'[q].at = page[q].at
       /\ page[q].at = "userinfo" =>
             /\ page'[q].form = page[q].form
             /\ page'[q].fresh => page[q].fresh /\ balance'[User(q)] = balance[User(q)]
       /\ page[q].at # "userinfo" =>
             /\ page'[q].shown = page[q].shown
             /\ page'[q].approved # Nothing =>
                   /\ ok # Nothing
                   /\ page'[q].approved.cache = ok.cache /\ page'[q].approved.cart = ok.cart
                   /\ page'[q].approved.fresh => ok.fresh /\ balance'[User(q)] = balance[User(q)]

\* The cache q fills is filled by nobody else.
SameCache(q) ==
    Making(q) => /\ caches'[req[q].cache].cart = caches[req[q].cache].cart
                 /\ caches'[req[q].cache].data = caches[req[q].cache].data
                 /\ caches'[req[q].cache].state = caches[req[q].cache].state

\* A step of somebody else, seen from the page of q.
Quiet(q) == SameRequest(q) /\ SamePage(q) /\ SameCache(q) /\ User(q)' = User(q)

\* What is within a cart and all covered keeps its sum, however the cache grows.
LEMMA GrowingTotals ==
    ASSUME CachesGrow, NEW c \in 0 .. made, NEW cart,
           Within(cart, caches[c].cart), DOMAIN cart \subseteq DOMAIN caches[c].data
    PROVE  /\ Within(cart, caches'[c].cart) /\ DOMAIN cart \subseteq DOMAIN caches'[c].data
           /\ Total(cart, caches'[c].data) = Total(cart, caches[c].data)
<1>1. Within(caches[c].cart, caches'[c].cart) /\ Within(caches[c].data, caches'[c].data)
  BY DEF CachesGrow
<1>2. Within(cart, caches'[c].cart)
  BY <1>1, WithinThrough
<1>3. DOMAIN cart \subseteq DOMAIN caches'[c].data
  BY <1>1 DEF Within
<1>4. Total(cart, caches'[c].data) = Total(cart, caches[c].data)
  BY <1>1, TotalSame
<1>. QED  BY <1>2, <1>3, <1>4

\* While caches only grow, a step of somebody else keeps what holds of a page.
LEMMA QuietKeeps ==
    ASSUME Types, Types', CachesGrow, NEW q \in Pages, PageInv(q), Quiet(q)
    PROVE  PageInv(q)'
<1>1. CheckProgress(q)'
  <2>1. Making(q)' => Making(q) /\ req'[q] = req[q]
    BY DEF Quiet, SameRequest, Making, Checking, Beginning
  <2>. QED  BY <2>1 DEF PageInv, CheckProgress, Quiet, SameCache
<1>2. SnapshotFresh(q)'
  <2>1. Beginning(q)' => Beginning(q)
    BY DEF Quiet, SameRequest, Making, Checking, Beginning
  <2>2. Making(q)' => Making(q) /\ req'[q] = req[q]
    BY DEF Quiet, SameRequest, Making, Checking, Beginning
  <2>3. ASSUME Beginning(q)', NEW g \in Goods \ req'[q].touched
        PROVE  req'[q].snap[g] = goods'[g]
    BY <2>1, <2>3 DEF PageInv, SnapshotFresh, Quiet, SameRequest
  <2>4. ASSUME Making(q)', NEW g \in Goods \ caches'[req'[q].cache].touched
        PROVE  req'[q].snap[g] = goods'[g]
    <3>1. Making(q) /\ req'[q] = req[q]
      BY <2>2, <2>4
    <3>2. req[q] \in Filling
      BY <3>1, Shapes DEF Making, Checking
    <3>3. req[q].cache \in 0 .. made
      BY <3>2 DEF Filling, Types
    <3>. QED  BY <2>4, <3>1, <3>3 DEF PageInv, SnapshotFresh, CachesGrow
  <2>. QED  BY <2>3, <2>4 DEF SnapshotFresh
<1>3. ShownTotal(q)'
  <2>. DEFINE seen == page[q].shown
  <2>1. SUFFICES ASSUME page'[q].at # "userinfo", page'[q].shown # Nothing
                 PROVE  ShownTotal(q)'
    BY DEF ShownTotal
  <2>2. page'[q].shown = seen /\ page[q].at # "userinfo"
    BY <2>1 DEF Quiet, SamePage
  <2>3. seen.cache \in 0 .. made
    BY <2>1, <2>2, Shapes DEF Shops
  <2>4. /\ Within(seen.cart, caches[seen.cache].cart)
        /\ DOMAIN seen.cart \subseteq DOMAIN caches[seen.cache].data
        /\ seen.total = Total(seen.cart, caches[seen.cache].data)
    BY <2>1, <2>2 DEF PageInv, ShownTotal
  <2>. HIDE DEF seen
  <2>5. /\ Within(seen.cart, caches'[seen.cache].cart)
        /\ DOMAIN seen.cart \subseteq DOMAIN caches'[seen.cache].data
        /\ seen.total = Total(seen.cart, caches'[seen.cache].data)
    BY <2>3, <2>4, GrowingTotals
  <2>. QED  BY <2>2, <2>5 DEF ShownTotal
<1>4. ApprovedCovered(q)' /\ CashOfApproved(q)'
  <2>. DEFINE ok == page[q].approved
  <2>1. SUFFICES ASSUME page'[q].approved # Nothing, page'[q].at # "userinfo"
                 PROVE  ApprovedCovered(q)' /\ CashOfApproved(q)'
    BY DEF ApprovedCovered, CashOfApproved
  <2>2. /\ page[q].at # "userinfo" /\ ok # Nothing
        /\ page'[q].approved.cache = ok.cache /\ page'[q].approved.cart = ok.cart
        /\ page'[q].approved.fresh => ok.fresh /\ balance'[User(q)] = balance[User(q)]
    BY <2>1 DEF Quiet, SamePage
  <2>3. ok.cache \in 0 .. made /\ ok.cart \in Carts
    BY <2>2, Shapes DEF Shops
  <2>4. /\ Within(ok.cart, caches[ok.cache].cart)
        /\ DOMAIN ok.cart \subseteq DOMAIN caches[ok.cache].data
        /\ ok.fresh => Total(ok.cart, caches[ok.cache].data) <= balance[User(q)]
    BY <2>2 DEF PageInv, ApprovedCovered
  <2>. HIDE DEF ok
  <2>5. /\ Within(ok.cart, caches'[ok.cache].cart)
        /\ DOMAIN ok.cart \subseteq DOMAIN caches'[ok.cache].data
        /\ Total(ok.cart, caches'[ok.cache].data) = Total(ok.cart, caches[ok.cache].data)
    BY <2>3, <2>4, GrowingTotals
  <2>6. ApprovedCovered(q)'
    BY <2>2, <2>4, <2>5 DEF ApprovedCovered, Quiet
  <2>7. CashOfApproved(q)'
    <3>1. SUFFICES ASSUME Cashing(q)', req'[q].at # "loop", ok.cache = req'[q].cache,
                          ok.cart = caches'[ok.cache].cart
                   PROVE  req'[q].total = Total(ok.cart, caches'[ok.cache].data)
      BY <2>2 DEF CashOfApproved
    <3>2. Cashing(q) /\ req'[q] = req[q]
      BY <3>1 DEF Quiet, SameRequest, Cashing
    <3>3. caches[ok.cache].cart \in Carts /\ Within(caches[ok.cache].cart, ok.cart)
      BY <2>3, <3>1 DEF CachesGrow, Types, Caches
    <3>4. ok.cart = caches[ok.cache].cart
      BY <2>3, <2>4, <3>3, WithinTwice
    <3>. QED  BY <2>2, <2>5, <3>1, <3>2, <3>4 DEF PageInv, CashOfApproved, ok
  <2>. QED  BY <2>6, <2>7
<1>5. AccountFresh(q)'
  <2>1. Asking(q)' => Asking(q)
    BY DEF Quiet, SameRequest, Asking
  <2>. QED  BY <2>1 DEF PageInv, AccountFresh, Quiet, SameRequest, SamePage
<1>6. CashOfCache(q)'
  <2>. DEFINE c == req[q].cache
  <2>1. SUFFICES ASSUME Cashing(q)'
                 PROVE  CashOfCache(q)'
    BY DEF CashOfCache
  <2>2. Cashing(q) /\ req'[q] = req[q]
    BY <2>1 DEF Quiet, SameRequest, Cashing
  <2>3. c \in 0 .. made
    BY <2>2, Shapes DEF Cashing, Cashes
  <2>4. Within(req[q].cart, caches'[c].cart)
    BY <2>2, <2>3, WithinThrough DEF PageInv, CashOfCache, CachesGrow
  <2>5. ~req[q].early => /\ caches'[c].state # "filling" /\ caches'[c].cart = caches[c].cart
                         /\ caches'[c].data = caches[c].data
    BY <2>2, <2>3 DEF PageInv, CashOfCache, CachesGrow
  <2>. QED  BY <2>2, <2>4, <2>5 DEF PageInv, CashOfCache
<1>7. LeftWanted(q)' /\ InPlace(q)'
  <2>1. LeftWanted(q)'
    BY DEF PageInv, LeftWanted, Quiet, SameRequest, Making, Checking, Beginning
  <2>2. InPlace(q)'
    BY DEF PageInv, InPlace, Quiet, SameRequest, SamePage
  <2>. QED  BY <2>1, <2>2
<1>. QED  BY <1>1, <1>2, <1>3, <1>4, <1>5, <1>6, <1>7 DEF PageInv

----------------------------------------------------------------------------
(* Steps *)

\* Who is quiet begins no check and makes no cache.
LEMMA QuietChecks ==
    ASSUME NEW q \in Pages, Quiet(q)
    PROVE  /\ Beginning(q)' <=> Beginning(q)
           /\ Making(q)' <=> Making(q)
           /\ Making(q) => req'[q] = req[q]
BY DEF Quiet, SameRequest, Making, Beginning, Checking

\* A quiet step keeps whatever a page keeps for itself.
LEMMA OthersQuiet ==
    ASSUME IInv, Types', CachesGrow, NEW p \in Pages, \A q \in Pages \ {p} : Quiet(q), PageInv(p)'
    PROVE  \A q \in Pages : PageInv(q)'
<1>1. ASSUME NEW q \in Pages \ {p} PROVE PageInv(q)'
  BY QuietKeeps DEF IInv
<1>. QED  BY <1>1

\* No check fills the cache of another when p stops or goes on, or begins a new one.
LEMMA OwnersStay ==
    ASSUME OwnCaches, NEW p \in Pages, \A q \in Pages \ {p} : Quiet(q),
           Making(p)' => \/ Making(p) /\ req'[p].cache = req[p].cache
                         \/ \A q \in Pages : Making(q) => req[q].cache # req'[p].cache
    PROVE  OwnCaches'
BY QuietChecks DEF OwnCaches

\* When as many caches are made as checks have begun, the bound is kept.
LEMMA BoundStays ==
    ASSUME IInv, Types', NEW p \in Pages, \A q \in Pages \ {p} : Quiet(q),
           \/ made' = made /\ (Beginning(p)' => Beginning(p))
           \/ made' = made /\ made + Cardinality(Beginners) < MaxChecks
           \/ made' = made + 1 /\ Beginning(p) /\ ~Beginning(p)'
    PROVE  ChecksBounded'
<1>1. IsFiniteSet(Beginners) /\ Cardinality(Beginners) \in Nat /\ made \in Nat /\ MaxChecks \in Nat
  BY FS_Subset, FS_CardinalityType, ShopAssumption DEF Beginners, IInv, Types
<1>2. made + Cardinality(Beginners) <= MaxChecks
  BY DEF IInv, ChecksBounded
<1>3. \A q \in Pages \ {p} : q \in Beginners' <=> q \in Beginners
  BY QuietChecks DEF Beginners
<1>4. Beginners' \subseteq Pages /\ Beginners \subseteq Pages
  BY DEF Beginners
<1>5. p \in Beginners' <=> Beginning(p)'
  BY DEF Beginners
<1>6. p \in Beginners <=> Beginning(p)
  BY DEF Beginners
<1>7. CASE made' = made /\ (Beginning(p)' => Beginning(p))
  <2>1. Beginners' \subseteq Beginners
    BY <1>3, <1>4, <1>5, <1>6, <1>7
  <2>2. Cardinality(Beginners') \in Nat /\ Cardinality(Beginners') <= Cardinality(Beginners)
    BY <1>1, <2>1, FS_Subset, FS_CardinalityType
  <2>. QED  BY <1>1, <1>2, <1>7, <2>2 DEF ChecksBounded
<1>8. CASE made' = made /\ made + Cardinality(Beginners) < MaxChecks
  <2>1. Beginners' \subseteq Beginners \union {p}
    BY <1>3, <1>4
  <2>2. IsFiniteSet(Beginners \union {p}) /\ Cardinality(Beginners \union {p}) \in Nat
          /\ Cardinality(Beginners \union {p}) <= Cardinality(Beginners) + 1
    BY <1>1, FS_AddElement, FS_CardinalityType
  <2>3. Cardinality(Beginners') \in Nat
          /\ Cardinality(Beginners') <= Cardinality(Beginners \union {p})
    BY <2>1, <2>2, FS_Subset, FS_CardinalityType
  <2>. QED  BY <1>1, <1>8, <2>2, <2>3 DEF ChecksBounded
<1>9. CASE made' = made + 1 /\ Beginning(p) /\ ~Beginning(p)'
  <2>1. p \in Beginners /\ Beginners' = Beginners \ {p}
    BY <1>3, <1>4, <1>5, <1>6, <1>9
  <2>2. Cardinality(Beginners') = Cardinality(Beginners) - 1
    BY <1>1, <2>1, FS_RemoveElement
  <2>. QED  BY <1>1, <1>2, <1>9, <2>2 DEF ChecksBounded
<1>. QED  BY <1>7, <1>8, <1>9

\* What was sold and checked stays so while caches only grow.
LEMMA FinishedStay ==
    ASSUME IInv, CachesGrow, trades' = trades
    PROVE  TradesPaid'
<1>1. ASSUME NEW i \in DOMAIN trades
      PROVE  trades[i].cache \in 0 .. made
  <2>1. trades[i] \in Trades
    BY DEF IInv, Types
  <2>. QED  BY <2>1 DEF Trades
<1>. QED  BY <1>1 DEF IInv, TradesPaid, CachesGrow

\* The goods of the caches that are finished stay in store, if nobody finishes one.
LEMMA StoreStays ==
    ASSUME IInv, Types', CachesGrow,
           \A c \in 0 .. made' :
              caches'[c].state = "ok" => c \in 0 .. made /\ caches[c].state = "ok"
    PROVE  OkInStore'
<1>1. SUFFICES ASSUME NEW c \in 0 .. made', caches'[c].state = "ok",
                      NEW g \in DOMAIN caches'[c].cart \ caches'[c].touched
               PROVE  caches'[c].cart[g] <= goods'[g].rest
  BY DEF OkInStore
<1>2. c \in 0 .. made /\ caches[c].state = "ok"
  BY <1>1
<1>3. caches'[c].cart = caches[c].cart /\ caches[c].touched \subseteq caches'[c].touched
  BY <1>2 DEF CachesGrow
<1>4. g \in Goods
  <2>1. caches[c].cart \in Carts
    BY <1>2 DEF IInv, Types, Caches
  <2>. QED  BY <1>3, <2>1, CartIs
<1>5. goods'[g] = goods[g]
  BY <1>2, <1>4 DEF CachesGrow
<1>. QED  BY <1>2, <1>3, <1>5 DEF IInv, OkInStore

\* What the page of p shows, and what it is worth, is none of a check's business.
LEMMA ShownStays ==
    ASSUME Types, CachesGrow, NEW p \in Pages, ShownTotal(p), ApprovedCovered(p),
           page'[p].at # "userinfo" => page[p].at # "userinfo",
           page'[p].shown = page[p].shown, page'[p].approved = page[p].approved,
           balance' = balance, User(p)' = User(p)
    PROVE  ShownTotal(p)' /\ ApprovedCovered(p)'
<1>. DEFINE seen == page[p].shown
            ok == page[p].approved
<1>1. SUFFICES ASSUME page[p].at # "userinfo" PROVE ShownTotal(p)' /\ ApprovedCovered(p)'
  BY DEF ShownTotal, ApprovedCovered
<1>2. page[p] \in Shops
  BY <1>1, Shapes
<1>3. seen # Nothing => seen.cache \in 0 .. made
  BY <1>2 DEF Shops
<1>4. ok # Nothing => ok.cache \in 0 .. made
  BY <1>2 DEF Shops
<1>5. seen # Nothing =>
        /\ Within(seen.cart, caches[seen.cache].cart)
        /\ DOMAIN seen.cart \subseteq DOMAIN caches[seen.cache].data
        /\ seen.total = Total(seen.cart, caches[seen.cache].data)
  BY <1>1 DEF ShownTotal
<1>6. ok # Nothing =>
        /\ Within(ok.cart, caches[ok.cache].cart)
        /\ DOMAIN ok.cart \subseteq DOMAIN caches[ok.cache].data
        /\ ok.fresh => Total(ok.cart, caches[ok.cache].data) <= balance[User(p)]
  BY <1>1 DEF ApprovedCovered
<1>. HIDE DEF seen, ok
<1>7. seen # Nothing =>
        /\ Within(seen.cart, caches'[seen.cache].cart)
        /\ DOMAIN seen.cart \subseteq DOMAIN caches'[seen.cache].data
        /\ seen.total = Total(seen.cart, caches'[seen.cache].data)
  BY <1>3, <1>5, GrowingTotals
<1>8. ok # Nothing =>
        /\ Within(ok.cart, caches'[ok.cache].cart)
        /\ DOMAIN ok.cart \subseteq DOMAIN caches'[ok.cache].data
        /\ Total(ok.cart, caches'[ok.cache].data) = Total(ok.cart, caches[ok.cache].data)
  BY <1>4, <1>6, GrowingTotals
<1>9. ShownTotal(p)'
  BY <1>7 DEF ShownTotal, seen
<1>10. ApprovedCovered(p)'
  BY <1>6, <1>8 DEF ApprovedCovered, ok
<1>. QED  BY <1>9, <1>10

\* A step that leaves the tables and the caches alone.
LEMMA LocalStep ==
    ASSUME IInv, Types', NEW p \in Pages,
           UNCHANGED <<frozen, database, caches, made, history>>,
           \A q \in Pages \ {p} : req'[q] = req[q] /\ page'[q] = page[q],
           ~Making(p)', PageInv(p)',
           Beginning(p)' => made + Cardinality(Beginners) < MaxChecks
    PROVE  IInv'
<1>1. CachesGrow
  BY DEF CachesGrow, Within, IInv, Types, database
<1>2. ASSUME NEW q \in Pages \ {p}
      PROVE  Quiet(q)
  <2>1. SameRequest(q)
    BY DEF SameRequest, Beginning, database
  <2>2. SamePage(q)
    BY DEF SamePage, database
  <2>3. SameCache(q)
    BY DEF SameCache
  <2>. QED  BY <2>1, <2>2, <2>3 DEF Quiet, User, frozen
<1>3. \A q \in Pages : PageInv(q)'
  BY <1>1, <1>2, OthersQuiet
<1>4. OwnCaches'
  BY <1>2, OwnersStay DEF IInv
<1>5. ChecksBounded'
  BY <1>2, BoundStays
<1>6. OkInStore'
  BY <1>1, StoreStays
<1>7. TradesPaid'
  BY <1>1, FinishedStay DEF database
<1>8. BooksAgree'
  BY DEF IInv, BooksAgree, Paid, Traded, database, history
<1>. QED  BY <1>3, <1>4, <1>5, <1>6, <1>7, <1>8 DEF IInv

\* Nothing that the page shows, nor what it is worth, changes with the request alone.
LEMMA PageKept ==
    ASSUME NEW p \in Pages, UNCHANGED <<frozen, database, caches>>, page'[p] = page[p],
           ShownTotal(p), ApprovedCovered(p)
    PROVE  ShownTotal(p)' /\ ApprovedCovered(p)'
BY DEF ShownTotal, ApprovedCovered, User, frozen, database

\* The steps that change one request and one page, and neither tables nor caches.
LEMMA LocalSteps ==
    ASSUME IInv, Types', NEW p \in Pages,
           \/ CheckBegin(p) \/ Confirm(p) \/ Leave(p) \/ Reopen(p) \/ AccountBegin(p)
           \/ AccountCheck(p) \/ CashBegin(p) \/ CashTotal(p) \/ CashPay(p) \/ CashFails(p)
           \/ InfoShown(p) \/ \E g \in Goods : CashSell(p, g)
    PROVE  IInv'
<1>. USE DEF LeftWanted, InPlace, CheckProgress, SnapshotFresh, AccountFresh, CashOfCache,
             CashOfApproved, Checking, Making, Beginning, Asking, Cashing
<1>0. PageInv(p) /\ Types
  BY DEF IInv
<1>1. CASE CheckBegin(p)
  <2>1. PICK G \in SUBSET Goods \ {{}} : \E want \in [G -> Amounts] :
          req' = [req EXCEPT ![p] = [kind |-> "check", at |-> "begun", want |-> want,
                                     snap |-> goods, touched |-> {}]]
    BY <1>1 DEF CheckBegin
  <2>2. req'[p].kind = "check" /\ req'[p].at = "begun" /\ req'[p].snap = goods
    BY <2>1 DEF Types, IInv
  <2>3. page' = page /\ page[p].at = "mycarts" /\ goods' = goods
    BY <1>1 DEF CheckBegin, database
  <2>4. PageInv(p)'
    BY <1>0, <1>1, <2>2, <2>3, PageKept DEF PageInv, CheckBegin
  <2>5. made + Cardinality(Beginners) < MaxChecks
    BY <1>1 DEF CheckBegin, Beginners
  <2>. QED  BY <1>1, <2>2, <2>4, <2>5, LocalStep DEF CheckBegin
<1>2. CASE Confirm(p)
  <2>. DEFINE c == current[sessionOf[p]]
              seen == IF Whole(c) THEN [cache |-> c, cart |-> caches[c].cart,
                                        total |-> Total(caches[c].cart, caches[c].data)]
                      ELSE Nothing
  <2>1. page[p] \in Shops /\ req[p] = Idle
    BY <1>0, <1>2, Shapes DEF Confirm
  <2>2. page'[p] = [page[p] EXCEPT !.at = "shown", !.shown = seen]
    BY <1>0, <1>2 DEF Confirm, Types
  <2>3. seen # Nothing => /\ seen.cache = c /\ seen.cart = caches[c].cart
                          /\ DOMAIN seen.cart \subseteq DOMAIN caches[c].data
                          /\ seen.total = Total(caches[c].cart, caches[c].data)
    BY DEF Whole
  <2>. HIDE DEF seen
  <2>4. page'[p].at = "shown" /\ page'[p].shown = seen /\ page'[p].approved = page[p].approved
    BY <2>1, <2>2 DEF Shops
  <2>5. ShownTotal(p)'
    BY <1>2, <2>3, <2>4 DEF ShownTotal, Within, Confirm, database
  <2>6. ApprovedCovered(p)'
    <3>1. page[p].at # "userinfo"
      BY <1>2 DEF Confirm
    <3>. QED  BY <1>0, <1>2, <2>4, <3>1
              DEF ApprovedCovered, PageInv, User, Confirm, database, frozen
  <2>7. PageInv(p)' /\ req'[p].kind = "none"
    BY <1>2, <2>1, <2>4, <2>5, <2>6 DEF PageInv, Confirm, Idle
  <2>8. \A q \in Pages \ {p} : req'[q] = req[q] /\ page'[q] = page[q]
    BY <1>0, <1>2 DEF Confirm, Types
  <2>. QED  BY <1>2, <2>7, <2>8, LocalStep DEF Confirm
<1>3. CASE Leave(p)
  <2>1. page'[p] = NewPage /\ req'[p].kind = "none"
    BY <1>0, <1>3 DEF Leave, Types, Idle
  <2>2. PageInv(p)'
    BY <2>1 DEF PageInv, NewPage, ShownTotal, ApprovedCovered
  <2>. QED  BY <1>3, <2>1, <2>2, LocalStep DEF Leave
<1>4. CASE Reopen(p)
  <2>1. page[p] \in Shops /\ req[p] = Idle
    BY <1>0, <1>4, Shapes DEF Reopen
  <2>2. /\ page'[p].at = "mycash" /\ page'[p].shown = page[p].shown
        /\ page'[p].approved = page[p].approved /\ page[p].at # "userinfo"
    BY <1>0, <1>4, <2>1 DEF Reopen, Types, Shops
  <2>3. ShownTotal(p)' /\ ApprovedCovered(p)'
    BY <1>0, <1>4, <2>2 DEF PageInv, ShownTotal, ApprovedCovered, User, Reopen, database, frozen
  <2>4. PageInv(p)' /\ req'[p].kind = "none"
    BY <1>4, <2>1, <2>2, <2>3 DEF PageInv, Reopen, Idle
  <2>. QED  BY <1>4, <2>4, LocalStep DEF Reopen
<1>5. CASE AccountBegin(p)
  <2>1. req'[p] = [kind |-> "account", seen |-> balance[User(p)], fresh |-> TRUE]
    BY <1>0, <1>5 DEF AccountBegin, Types
  <2>2. req'[p].kind = "account" /\ req'[p].seen = balance[User(p)]
    BY <2>1
  <2>3. page' = page /\ page[p].at = "shown" /\ User(p)' = User(p) /\ balance' = balance
    BY <1>5 DEF AccountBegin, User, frozen, database
  <2>4. PageInv(p)'
    BY <1>0, <1>5, <2>2, <2>3, PageKept DEF PageInv, AccountBegin
  <2>. QED  BY <1>5, <2>2, <2>4, LocalStep DEF AccountBegin
<1>6. CASE AccountCheck(p)
  <2>. DEFINE c == current[sessionOf[p]]
              ok == [cache |-> c, cart |-> caches[c].cart, fresh |-> req[p].fresh]
              pays == Whole(c) /\ req[p].seen >= Total(caches[c].cart, caches[c].data)
  <2>1. page[p] \in Shops /\ page[p].at = "shown" /\ req[p] \in Accounts
    BY <1>0, <1>6, Shapes DEF PageInv, AccountCheck
  <2>2. pays => /\ page'[p].at = "paying" /\ page'[p].shown = page[p].shown
                /\ page'[p].approved = ok
    BY <1>0, <1>6, <2>1 DEF AccountCheck, Types, Shops
  <2>3. ~pays => page' = page
    BY <1>6 DEF AccountCheck
  <2>4. req'[p].kind = "none"
    BY <1>0, <1>6 DEF AccountCheck, Types, Idle
  <2>5. ShownTotal(p)'
    BY <1>0, <1>6, <2>1, <2>2, <2>3 DEF PageInv, ShownTotal, AccountCheck, database
  <2>6. ApprovedCovered(p)'
    <3>1. CASE pays
      <4>1. ok.cache = c /\ ok.cart = caches[c].cart /\ ok.fresh = req[p].fresh
        OBVIOUS
      <4>2. /\ Within(caches[c].cart, caches[c].cart)
            /\ DOMAIN caches[c].cart \subseteq DOMAIN caches[c].data
        BY <3>1 DEF Within, Whole
      <4>3. req[p].fresh => Total(caches[c].cart, caches[c].data) <= balance[User(p)]
        <5>1. Total(caches[c].cart, caches[c].data) \in Nat
          BY <1>0, <4>2, Shapes, TotalIsNat DEF Caches
        <5>2. req[p].seen \in Int
          BY <2>1 DEF Accounts
        <5>3. req[p].fresh => req[p].seen = balance[User(p)]
          BY <1>0, <1>6 DEF PageInv, AccountCheck
        <5>. QED  BY <3>1, <5>1, <5>2, <5>3
      <4>4. page'[p].approved = ok /\ UNCHANGED <<caches, balance>> /\ User(p)' = User(p)
        BY <1>6, <2>2, <3>1 DEF AccountCheck, database, User, frozen
      <4>. HIDE DEF ok, c
      <4>. QED  BY <4>1, <4>2, <4>3, <4>4 DEF ApprovedCovered
    <3>2. CASE ~pays
      BY <1>0, <1>6, <2>3, <3>2, PageKept DEF PageInv, AccountCheck
    <3>. QED  BY <3>1, <3>2
  <2>7. page'[p].at # "userinfo"
    BY <2>1, <2>2, <2>3
  <2>8. PageInv(p)'
    BY <2>4, <2>5, <2>6, <2>7 DEF PageInv
  <2>9. \A q \in Pages \ {p} : req'[q] = req[q] /\ page'[q] = page[q]
    BY <1>0, <1>6 DEF AccountCheck, Types
  <2>. QED  BY <1>6, <2>4, <2>8, <2>9, LocalStep DEF AccountCheck
<1>7. CASE CashBegin(p)
  <2>. DEFINE c == current[sessionOf[p]]
              filling == caches[c].state = "filling"
  <2>1. req'[p] = [kind |-> "cash", at |-> "loop", cache |-> c, cart |-> caches[c].cart,
                   sold |-> {}, total |-> 0, early |-> filling]
    BY <1>0, <1>7 DEF CashBegin, Types
  <2>2. /\ req'[p].kind = "cash" /\ req'[p].at = "loop" /\ req'[p].cache = c
        /\ req'[p].cart = caches[c].cart
        /\ ~req'[p].early => caches[c].state # "filling"
    <3>. HIDE DEF filling
    <3>1. /\ req'[p].kind = "cash" /\ req'[p].at = "loop" /\ req'[p].cache = c
          /\ req'[p].cart = caches[c].cart /\ req'[p].early = filling
      BY <2>1
    <3>2. ~filling => caches[c].state # "filling"
      BY DEF filling
    <3>. QED  BY <3>1, <3>2
  <2>3. page' = page /\ page[p].at = "paying" /\ caches' = caches
    BY <1>7 DEF CashBegin
  <2>4. CashOfCache(p)'
    BY <2>2, <2>3 DEF Within
  <2>5. PageInv(p)'
    BY <1>0, <1>7, <2>2, <2>3, <2>4, PageKept DEF PageInv, CashBegin
  <2>. QED  BY <1>7, <2>2, <2>5, LocalStep DEF CashBegin
<1>8. CASE CashTotal(p)
  <2>. DEFINE c == req[p].cache
  <2>1. req[p] \in Cashes
    BY <1>0, <1>8, Shapes DEF CashTotal
  <2>2. req'[p] = [req[p] EXCEPT !.at = "total", !.total = Total(caches[c].cart, caches[c].data)]
    BY <1>0, <1>8 DEF CashTotal, Types
  <2>3. /\ req'[p].kind = "cash" /\ req'[p].at = "total" /\ req'[p].cache = c
        /\ req'[p].cart = req[p].cart /\ req'[p].sold = req[p].sold /\ req'[p].early = req[p].early
        /\ req'[p].total = Total(caches[c].cart, caches[c].data)
    BY <2>1, <2>2 DEF Cashes
  <2>4. page' = page /\ caches' = caches /\ req[p].sold = DOMAIN req[p].cart
    BY <1>8 DEF CashTotal
  <2>5. page[p].at = "paying"
    BY <1>0, <1>8 DEF PageInv, CashTotal
  <2>6. CashOfCache(p)' /\ CashOfApproved(p)'
    BY <1>0, <1>8, <2>3, <2>4 DEF PageInv, CashTotal
  <2>7. PageInv(p)'
    BY <1>0, <1>8, <2>3, <2>4, <2>5, <2>6, PageKept DEF PageInv, CashTotal
  <2>8. \A q \in Pages \ {p} : req'[q] = req[q] /\ page'[q] = page[q]
    BY <1>0, <1>8 DEF CashTotal, Types
  <2>. QED  BY <1>8, <2>3, <2>7, <2>8, LocalStep DEF CashTotal
<1>9. CASE CashPay(p)
  <2>1. req[p] \in Cashes
    BY <1>0, <1>9, Shapes DEF CashPay
  <2>2. /\ req'[p].kind = "cash" /\ req'[p].at = "paid" /\ req'[p].cache = req[p].cache
        /\ req'[p].cart = req[p].cart /\ req'[p].sold = req[p].sold /\ req'[p].early = req[p].early
        /\ req'[p].total = req[p].total
    BY <1>0, <1>9, <2>1 DEF CashPay, Types, Cashes
  <2>3. page' = page /\ caches' = caches /\ page[p].at = "paying"
    BY <1>0, <1>9 DEF PageInv, CashPay
  <2>4. CashOfCache(p)' /\ CashOfApproved(p)'
    BY <1>0, <1>9, <2>2, <2>3 DEF PageInv, CashPay
  <2>5. PageInv(p)'
    BY <1>0, <1>9, <2>2, <2>3, <2>4, PageKept DEF PageInv, CashPay
  <2>. QED  BY <1>9, <2>2, <2>5, LocalStep DEF CashPay
<1>10. CASE CashFails(p)
  <2>1. page[p] \in Shops
    BY <1>0, <1>10, Shapes DEF PageInv, CashFails
  <2>2. /\ page'[p].at = "shown" /\ page'[p].shown = page[p].shown
        /\ page'[p].approved = Nothing /\ page[p].at # "userinfo"
    BY <1>0, <1>10, <2>1 DEF CashFails, Types, Shops
  <2>3. req'[p].kind = "none"
    BY <1>0, <1>10 DEF CashFails, Types, Idle
  <2>4. ShownTotal(p)' /\ ApprovedCovered(p)'
    BY <1>0, <1>10, <2>2 DEF PageInv, ShownTotal, ApprovedCovered, CashFails, database
  <2>5. PageInv(p)'
    BY <2>2, <2>3, <2>4 DEF PageInv
  <2>6. \A q \in Pages \ {p} : req'[q] = req[q] /\ page'[q] = page[q]
    BY <1>0, <1>10 DEF CashFails, Types
  <2>. QED  BY <1>10, <2>3, <2>5, <2>6, LocalStep DEF CashFails
<1>11. CASE InfoShown(p)
  <2>1. page'[p] = [at |-> "userinfo", form |-> balance[User(p)], fresh |-> TRUE]
    BY <1>0, <1>11 DEF InfoShown, Types
  <2>2. page'[p].at = "userinfo" /\ page'[p].form = balance[User(p)]
    BY <2>1
  <2>3. req'[p].kind = "none" /\ User(p)' = User(p) /\ balance' = balance
    BY <1>11 DEF InfoShown, Idle, User, frozen, database
  <2>4. PageInv(p)'
    BY <2>2, <2>3 DEF PageInv, ShownTotal, ApprovedCovered
  <2>. QED  BY <1>11, <2>3, <2>4, LocalStep DEF InfoShown
<1>12. ASSUME NEW g \in Goods, CashSell(p, g)
       PROVE  IInv'
  <2>1. req[p] \in Cashes /\ req[p].at = "loop"
    BY <1>0, <1>12, Shapes DEF CashSell
  <2>2. /\ req'[p].kind = "cash" /\ req'[p].at = "loop" /\ req'[p].cache = req[p].cache
        /\ req'[p].cart = req[p].cart /\ req'[p].early = req[p].early
    BY <1>0, <1>12, <2>1 DEF CashSell, Types, Cashes
  <2>3. page' = page /\ caches' = caches /\ page[p].at = "paying"
    BY <1>0, <1>12 DEF PageInv, CashSell
  <2>4. CashOfCache(p)'
    BY <1>0, <1>12, <2>2, <2>3 DEF PageInv, CashSell
  <2>5. PageInv(p)'
    BY <1>0, <1>12, <2>2, <2>3, <2>4, PageKept DEF PageInv, CashSell
  <2>. QED  BY <1>12, <2>2, <2>5, LocalStep DEF CashSell
<1>. QED
  BY <1>1, <1>2, <1>3, <1>4, <1>5, <1>6, <1>7, <1>8, <1>9, <1>10, <1>11, <1>12

\* A check that works on its own cache.
LEMMA FillingStep ==
    ASSUME IInv, Types', NEW p \in Pages, Making(p),
           UNCHANGED <<frozen, database, made, history>>,
           \A q \in Pages \ {p} : req'[q] = req[q] /\ page'[q] = page[q],
           \A d \in 0 .. made : d # req[p].cache => caches'[d] = caches[d],
           Within(caches[req[p].cache].cart, caches'[req[p].cache].cart),
           Within(caches[req[p].cache].data, caches'[req[p].cache].data),
           caches'[req[p].cache].touched = caches[req[p].cache].touched,
           ~Beginning(p)', Making(p)' => req'[p].cache = req[p].cache
    PROVE  /\ CachesGrow
           /\ \A q \in Pages \ {p} : Quiet(q)
           /\ OwnCaches' /\ ChecksBounded' /\ TradesPaid' /\ BooksAgree'
<1>. DEFINE c == req[p].cache
<1>1. PageInv(p) /\ Types /\ OwnCaches
  BY DEF IInv
<1>2. caches[c].state = "filling"
  BY <1>1 DEF PageInv, CheckProgress
<1>3. CachesGrow
  <2>1. \A d \in 0 .. made : d # c => Within(caches[d].cart, caches'[d].cart)
                                        /\ Within(caches[d].data, caches'[d].data)
    BY DEF Within
  <2>. QED  BY <1>1, <1>2, <2>1 DEF CachesGrow, Types, database
<1>4. ASSUME NEW q \in Pages \ {p}
      PROVE  Quiet(q)
  <2>1. SameRequest(q)
    BY DEF SameRequest, Beginning, database
  <2>2. SamePage(q)
    BY DEF SamePage, database
  <2>3. SameCache(q)
    <3>1. SUFFICES ASSUME Making(q) PROVE caches'[req[q].cache] = caches[req[q].cache]
      BY DEF SameCache
    <3>2. req[q] \in Filling
      BY <1>1, <3>1, Shapes DEF Making, Checking
    <3>3. req[q].cache \in 0 .. made
      BY <1>1, <3>2 DEF Filling, Types
    <3>4. req[q].cache # c
      BY <1>1, <3>1 DEF OwnCaches
    <3>. QED  BY <3>3, <3>4
  <2>. QED  BY <2>1, <2>2, <2>3 DEF Quiet, User, frozen
<1>5. OwnCaches'
  BY <1>1, <1>4, OwnersStay
<1>6. ChecksBounded'
  BY <1>4, BoundStays
<1>7. TradesPaid'
  BY <1>3, FinishedStay DEF database
<1>8. BooksAgree'
  BY DEF IInv, BooksAgree, Paid, Traded, database, history
<1>. QED  BY <1>3, <1>4, <1>5, <1>6, <1>7, <1>8

\* The new cache of a check: its number is one nobody knows.
LEMMA CheckNewStep ==
    ASSUME IInv, Types', NEW p \in Pages, CheckNew(p)
    PROVE  IInv'
<1>. DEFINE n == made + 1
            k == NewCache(req[p].touched)
<1>1. PageInv(p) /\ Types /\ OwnCaches /\ made \in Nat /\ Beginning(p) /\ req[p] \in Begun
  BY Shapes DEF IInv, Types, CheckNew, Beginning, Checking
<1>2. made' = n /\ caches' = Put(caches, n, k) /\ page' = page
  BY DEF CheckNew
<1>3. (\A c \in 0 .. made : caches'[c] = caches[c]) /\ caches'[n] = k
  <2>1. DOMAIN caches = 0 .. made
    BY <1>1 DEF Types
  <2>2. n \notin 0 .. made
    BY <1>1
  <2>3. Put(caches, n, k)[n] = k /\ \A c \in DOMAIN caches \ {n} : Put(caches, n, k)[c] = caches[c]
    BY DEF Put
  <2>. HIDE DEF n, k
  <2>. QED  BY <1>2, <2>1, <2>2, <2>3
<1>4. /\ k.cart = <<>> /\ k.data = <<>> /\ k.state = "filling" /\ k.touched = req[p].touched
  BY DEF NewCache
<1>5. /\ req'[p].kind = "check" /\ req'[p].at = "put" /\ req'[p].want = req[p].want
      /\ req'[p].snap = req[p].snap /\ req'[p].cache = n /\ req'[p].left = DOMAIN req[p].want
  BY <1>1, <1>2 DEF CheckNew, Types
<1>6. UNCHANGED <<frozen, database, history>> /\ \A q \in Pages \ {p} : req'[q] = req[q]
  BY <1>1 DEF CheckNew, Types
<1>. HIDE DEF k, n
<1>7. CachesGrow
  BY <1>1, <1>2, <1>3, <1>6 DEF CachesGrow, Within, database, n
<1>8. ASSUME NEW q \in Pages \ {p}
      PROVE  Quiet(q)
  <2>1. SameRequest(q)
    BY <1>6 DEF SameRequest, Beginning, database
  <2>2. SamePage(q)
    BY <1>2, <1>6 DEF SamePage, database
  <2>3. SameCache(q)
    <3>1. SUFFICES ASSUME Making(q) PROVE caches'[req[q].cache] = caches[req[q].cache]
      BY DEF SameCache
    <3>2. req[q] \in Filling
      BY <1>1, <3>1, Shapes DEF Making, Checking
    <3>. QED  BY <1>1, <1>3, <3>2 DEF Filling
  <2>. QED  BY <1>6, <2>1, <2>2, <2>3 DEF Quiet, User, frozen
<1>9. PageInv(p)'
  <2>1. ShownTotal(p)' /\ ApprovedCovered(p)'
    <3>1. page[p].at = "mycarts"
      BY <1>1 DEF PageInv, InPlace, Beginning, Checking
    <3>2. page[p] \in Shops
      BY <1>1, <3>1, Shapes
    <3>3. page[p].shown # Nothing => page[p].shown.cache \in 0 .. made
      BY <3>2 DEF Shops
    <3>4. page[p].approved # Nothing => page[p].approved.cache \in 0 .. made
      BY <3>2 DEF Shops
    <3>. QED  BY <1>1, <1>2, <1>3, <1>6, <3>1, <3>3, <3>4
              DEF PageInv, ShownTotal, ApprovedCovered, User, frozen, database
  <2>2. CheckProgress(p)' /\ LeftWanted(p)'
    BY <1>3, <1>4, <1>5, NothingYet DEF CheckProgress, LeftWanted, Within
  <2>3. SnapshotFresh(p)'
    BY <1>1, <1>3, <1>4, <1>5, <1>6 DEF PageInv, SnapshotFresh, Beginning, database
  <2>4. InPlace(p)' /\ AccountFresh(p)' /\ CashOfCache(p)' /\ CashOfApproved(p)'
    BY <1>1, <1>2, <1>5
       DEF PageInv, InPlace, AccountFresh, CashOfCache, CashOfApproved, Asking, Cashing,
           Beginning, Checking
  <2>. QED  BY <2>1, <2>2, <2>3, <2>4 DEF PageInv
<1>10. OwnCaches'
  <2>1. ASSUME NEW q \in Pages, Making(q) PROVE req[q].cache # req'[p].cache
    <3>1. req[q] \in Filling
      BY <1>1, <2>1, Shapes DEF Making, Checking
    <3>. QED  BY <1>1, <1>5, <3>1 DEF Filling, n
  <2>. QED  BY <1>1, <1>8, <2>1, OwnersStay
<1>11. ChecksBounded'
  BY <1>1, <1>2, <1>5, <1>8, BoundStays DEF Beginning, n
<1>12. OkInStore'
  <2>1. \A c \in 0 .. made' : caches'[c].state = "ok" => c \in 0 .. made /\ caches[c].state = "ok"
    BY <1>1, <1>2, <1>3, <1>4 DEF n
  <2>. QED  BY <1>7, <2>1, StoreStays
<1>13. TradesPaid'
  BY <1>6, <1>7, FinishedStay DEF database
<1>14. BooksAgree'
  BY <1>6 DEF IInv, BooksAgree, Paid, Traded, database, history
<1>15. \A q \in Pages : PageInv(q)'
  BY <1>7, <1>8, <1>9, OthersQuiet
<1>. QED  BY <1>10, <1>11, <1>12, <1>13, <1>14, <1>15 DEF IInv

\* An entry put into the cart of a check is one of the selection.
LEMMA CheckPutStep ==
    ASSUME IInv, Types', NEW p \in Pages, NEW g \in Goods, CheckPut(p, g)
    PROVE  IInv'
<1>. DEFINE c == req[p].cache
            w == req[p].want
<1>1. /\ PageInv(p) /\ Types /\ Making(p) /\ req[p].at = "put" /\ g \in req[p].left
      /\ req[p] \in Filling /\ c \in 0 .. made /\ caches[c] \in Caches
  <2>1. req[p] \in Filling /\ Types
    BY Shapes DEF IInv, CheckPut
  <2>2. c \in 0 .. made /\ caches[c] \in Caches
    BY <2>1 DEF Filling, Types
  <2>. QED  BY <2>1, <2>2 DEF IInv, CheckPut, Making, Checking
<1>2. /\ LeftWanted(p) /\ CheckProgress(p)
      /\ req[p].left \subseteq DOMAIN w
      /\ Within(caches[c].cart, w) /\ DOMAIN caches[c].cart = DOMAIN w \ req[p].left
      /\ DOMAIN caches[c].data = {} /\ caches[c].state = "filling"
  BY <1>1 DEF PageInv, LeftWanted, CheckProgress, Making, Checking
<1>3. /\ caches'[c].cart = Put(caches[c].cart, g, w[g]) /\ caches'[c].data = caches[c].data
      /\ caches'[c].state = caches[c].state /\ caches'[c].touched = caches[c].touched
      /\ \A d \in 0 .. made : d # c => caches'[d] = caches[d]
  BY <1>1 DEF CheckPut, Types, Caches
<1>4. /\ req'[p].kind = "check" /\ req'[p].want = w /\ req'[p].snap = req[p].snap
      /\ req'[p].cache = c
      /\ IF req[p].left = {g} THEN req'[p].at = "items" /\ req'[p].left = DOMAIN w
         ELSE req'[p].at = "put" /\ req'[p].left = req[p].left \ {g}
  BY <1>1 DEF CheckPut, Types, Filling
<1>5. UNCHANGED <<frozen, database, made, history, page>> /\ \A q \in Pages \ {p} : req'[q] = req[q]
  BY <1>1 DEF CheckPut, Types
<1>. HIDE DEF c, w
<1>6. /\ DOMAIN caches'[c].cart = DOMAIN caches[c].cart \union {g}
      /\ Within(caches[c].cart, caches'[c].cart) /\ Within(caches'[c].cart, w)
  <2>1. g \notin DOMAIN caches[c].cart
    BY <1>1, <1>2
  <2>. DEFINE now == Put(caches[c].cart, g, w[g])
  <2>5. DOMAIN now = DOMAIN caches[c].cart \union {g} /\ now[g] = w[g]
    BY DEF Put
  <2>6. Within(caches[c].cart, now)
    BY <2>1 DEF Put, Within
  <2>. HIDE DEF now
  <2>7. caches'[c].cart = now
    BY <1>3 DEF now
  <2>2. DOMAIN caches'[c].cart = DOMAIN caches[c].cart \union {g} /\ caches'[c].cart[g] = w[g]
    BY <2>5, <2>7
  <2>3. Within(caches[c].cart, caches'[c].cart)
    BY <2>6, <2>7
  <2>4. Within(caches'[c].cart, w)
    BY <1>1, <1>2, <2>2, <2>3 DEF Within
  <2>. QED  BY <2>2, <2>3, <2>4
<1>7. /\ CachesGrow /\ \A q \in Pages \ {p} : Quiet(q)
      /\ OwnCaches' /\ ChecksBounded' /\ TradesPaid' /\ BooksAgree'
  <2>1. Within(caches[c].data, caches'[c].data)
    BY <1>3 DEF Within
  <2>2. ~Beginning(p)'
    BY <1>4 DEF Beginning
  <2>. QED  BY <1>1, <1>3, <1>4, <1>5, <1>6, <2>1, <2>2, FillingStep DEF c
<1>8. PageInv(p)'
  <2>1. ShownTotal(p)' /\ ApprovedCovered(p)'
    BY <1>1, <1>5, <1>7, ShownStays DEF PageInv, User, frozen, database
  <2>2. CheckProgress(p)' /\ LeftWanted(p)'
    BY <1>1, <1>2, <1>3, <1>4, <1>6 DEF CheckProgress, LeftWanted, c, w
  <2>3. SnapshotFresh(p)'
    BY <1>1, <1>3, <1>4, <1>5 DEF PageInv, SnapshotFresh, Beginning, Making, Checking, database, c
  <2>4. InPlace(p)' /\ AccountFresh(p)' /\ CashOfCache(p)' /\ CashOfApproved(p)'
    BY <1>1, <1>4, <1>5
       DEF PageInv, InPlace, AccountFresh, CashOfCache, CashOfApproved, Asking, Cashing,
           Making, Checking
  <2>. QED  BY <2>1, <2>2, <2>3, <2>4 DEF PageInv
<1>9. OkInStore'
  <2>1. \A d \in 0 .. made' : caches'[d].state = "ok" => d \in 0 .. made /\ caches[d].state = "ok"
    BY <1>1, <1>2, <1>3, <1>5
  <2>. QED  BY <1>7, <2>1, StoreStays
<1>10. \A q \in Pages : PageInv(q)'
  BY <1>7, <1>8, OthersQuiet
<1>. QED  BY <1>7, <1>9, <1>10 DEF IInv

\* A good held against the stock gets data, and is short or in store as of the snapshot.
LEMMA CheckItemStep ==
    ASSUME IInv, Types', NEW p \in Pages, NEW g \in Goods, CheckItem(p, g)
    PROVE  IInv'
<1>. DEFINE c == req[p].cache
            w == req[p].want
            short == req[p].short \/ w[g] > req[p].snap[g].rest
<1>1. /\ PageInv(p) /\ Types /\ Making(p) /\ req[p].at = "items" /\ g \in req[p].left
      /\ req[p] \in Filling /\ c \in 0 .. made /\ caches[c] \in Caches
  <2>1. req[p] \in Filling /\ Types
    BY Shapes DEF IInv, CheckItem
  <2>2. c \in 0 .. made /\ caches[c] \in Caches
    BY <2>1 DEF Filling, Types
  <2>. QED  BY <2>1, <2>2 DEF IInv, CheckItem, Making, Checking
<1>2. /\ LeftWanted(p) /\ CheckProgress(p)
      /\ req[p].left \subseteq DOMAIN w
      /\ Within(caches[c].cart, w) /\ DOMAIN caches[c].cart = DOMAIN w
      /\ DOMAIN caches[c].data = DOMAIN w \ req[p].left /\ caches[c].state = "filling"
      /\ ~req[p].short => \A x \in DOMAIN w \ req[p].left : w[x] <= req[p].snap[x].rest
  BY <1>1 DEF PageInv, LeftWanted, CheckProgress, Making, Checking
<1>3. /\ caches'[c].data = Put(caches[c].data, g, req[p].snap[g])
      /\ caches'[c].cart = caches[c].cart
      /\ caches'[c].state = caches[c].state /\ caches'[c].touched = caches[c].touched
      /\ \A d \in 0 .. made : d # c => caches'[d] = caches[d]
  BY <1>1 DEF CheckItem, Types, Caches
<1>4. /\ req'[p].kind = "check" /\ req'[p].at = "items" /\ req'[p].want = w
      /\ req'[p].snap = req[p].snap /\ req'[p].cache = c /\ req'[p].left = req[p].left \ {g}
      /\ ~req'[p].short => ~req[p].short /\ ~(w[g] > req[p].snap[g].rest)
  <2>1. req' = [req EXCEPT ![p].left = @ \ {g}, ![p].short = short]
    BY DEF CheckItem
  <2>2. ~short => ~req[p].short /\ ~(w[g] > req[p].snap[g].rest)
    OBVIOUS
  <2>. HIDE DEF short
  <2>3. req'[p] = [req[p] EXCEPT !.left = @ \ {g}, !.short = short]
    BY <1>1, <2>1 DEF Types
  <2>. QED  BY <1>1, <2>2, <2>3 DEF Filling
<1>5. UNCHANGED <<frozen, database, made, history, page>> /\ \A q \in Pages \ {p} : req'[q] = req[q]
  BY <1>1 DEF CheckItem, Types
<1>. HIDE DEF c, w, short
<1>6. /\ DOMAIN caches'[c].data = DOMAIN caches[c].data \union {g}
      /\ Within(caches[c].data, caches'[c].data)
  <2>1. g \notin DOMAIN caches[c].data
    BY <1>1, <1>2
  <2>. DEFINE now == Put(caches[c].data, g, req[p].snap[g])
  <2>2. DOMAIN now = DOMAIN caches[c].data \union {g} /\ Within(caches[c].data, now)
    BY <2>1 DEF Put, Within
  <2>. HIDE DEF now
  <2>3. caches'[c].data = now
    BY <1>3 DEF now
  <2>. QED  BY <2>2, <2>3
<1>7. /\ CachesGrow /\ \A q \in Pages \ {p} : Quiet(q)
      /\ OwnCaches' /\ ChecksBounded' /\ TradesPaid' /\ BooksAgree'
  <2>1. Within(caches[c].cart, caches'[c].cart)
    BY <1>3 DEF Within
  <2>2. ~Beginning(p)'
    BY <1>4 DEF Beginning
  <2>. QED  BY <1>1, <1>3, <1>4, <1>5, <1>6, <2>1, <2>2, FillingStep DEF c
<1>8. PageInv(p)'
  <2>1. ShownTotal(p)' /\ ApprovedCovered(p)'
    BY <1>1, <1>5, <1>7, ShownStays DEF PageInv, User, frozen, database
  <2>2. CheckProgress(p)' /\ LeftWanted(p)'
    <3>1. ASSUME ~req'[p].short, NEW x \in DOMAIN w \ req'[p].left
          PROVE  w[x] <= req[p].snap[x].rest
      <4>1. CASE x = g
        <5>1. w \in Carts /\ req[p].snap \in [Goods -> Rows]
          BY <1>1 DEF Filling, w
        <5>2. g \in DOMAIN w
          BY <1>1, <1>2
        <5>3. w[g] \in Nat /\ req[p].snap[g].rest \in Int
          BY <5>1, <5>2, CartIs, ShopAssumption DEF Rows
        <5>4. ~(w[g] > req[p].snap[g].rest)
          BY <1>4, <3>1
        <5>. QED  BY <4>1, <5>3, <5>4
      <4>2. CASE x # g
        BY <1>2, <1>4, <3>1, <4>2
      <4>. QED  BY <4>1, <4>2
    <3>2. DOMAIN caches'[c].data = DOMAIN w \ req'[p].left
      BY <1>1, <1>2, <1>4, <1>6
    <3>3. LeftWanted(p)'
      BY <1>1, <1>2, <1>4 DEF LeftWanted, w
    <3>. QED  BY <1>2, <1>3, <1>4, <3>1, <3>2, <3>3 DEF CheckProgress
  <2>3. SnapshotFresh(p)'
    BY <1>1, <1>3, <1>4, <1>5 DEF PageInv, SnapshotFresh, Beginning, Making, Checking, database, c
  <2>4. InPlace(p)' /\ AccountFresh(p)' /\ CashOfCache(p)' /\ CashOfApproved(p)'
    BY <1>1, <1>4, <1>5
       DEF PageInv, InPlace, AccountFresh, CashOfCache, CashOfApproved, Asking, Cashing,
           Making, Checking
  <2>. QED  BY <2>1, <2>2, <2>3, <2>4 DEF PageInv
<1>9. OkInStore'
  <2>1. \A d \in 0 .. made' : caches'[d].state = "ok" => d \in 0 .. made /\ caches[d].state = "ok"
    BY <1>1, <1>2, <1>3, <1>5
  <2>. QED  BY <1>7, <2>1, StoreStays
<1>10. \A q \in Pages : PageInv(q)'
  BY <1>7, <1>8, OthersQuiet
<1>. QED  BY <1>7, <1>9, <1>10 DEF IInv

\* The check that ends well is the one that makes OkInStore true.
LEMMA CheckEndStep ==
    ASSUME IInv, Types', NEW p \in Pages, CheckEnd(p)
    PROVE  IInv'
<1>. DEFINE c == req[p].cache
            w == req[p].want
<1>1. /\ PageInv(p) /\ Types /\ Making(p) /\ req[p].at = "items" /\ req[p].left = {}
      /\ req[p] \in Filling /\ c \in 0 .. made /\ caches[c] \in Caches
  <2>1. req[p] \in Filling /\ Types
    BY Shapes DEF IInv, CheckEnd
  <2>2. c \in 0 .. made /\ caches[c] \in Caches
    BY <2>1 DEF Filling, Types
  <2>. QED  BY <2>1, <2>2 DEF IInv, CheckEnd, Making, Checking
<1>2. /\ CheckProgress(p) /\ SnapshotFresh(p)
      /\ Within(caches[c].cart, w) /\ DOMAIN caches[c].cart = DOMAIN w
      /\ ~req[p].short => \A x \in DOMAIN w : w[x] <= req[p].snap[x].rest
  BY <1>1 DEF PageInv, CheckProgress, Making, Checking
<1>3. /\ caches'[c].data = caches[c].data /\ caches'[c].cart = caches[c].cart
      /\ caches'[c].state = (IF req[p].short THEN "short" ELSE "ok")
      /\ caches'[c].touched = caches[c].touched
      /\ \A d \in 0 .. made : d # c => caches'[d] = caches[d]
  BY <1>1 DEF CheckEnd, Types, Caches
<1>4. req'[p].kind = "none" /\ page[p].at # "userinfo" /\ page[p] \in Shops
  <2>1. page[p].at # "userinfo"
    BY <1>1 DEF PageInv, InPlace, Making, Checking
  <2>. QED  BY <1>1, <2>1, Shapes DEF CheckEnd, Types, Idle
<1>5. /\ UNCHANGED <<frozen, database, made, history>>
      /\ \A q \in Pages \ {p} : req'[q] = req[q] /\ page'[q] = page[q]
  BY <1>1 DEF CheckEnd, Types
<1>6. /\ page'[p].shown = page[p].shown /\ page'[p].approved = page[p].approved
      /\ page'[p].at # "userinfo"
  BY <1>1, <1>4 DEF CheckEnd, Types, Shops
<1>. HIDE DEF c, w
<1>7. /\ CachesGrow /\ \A q \in Pages \ {p} : Quiet(q)
      /\ OwnCaches' /\ ChecksBounded' /\ TradesPaid' /\ BooksAgree'
  <2>1. Within(caches[c].cart, caches'[c].cart) /\ Within(caches[c].data, caches'[c].data)
    BY <1>3 DEF Within
  <2>2. ~Beginning(p)' /\ ~Making(p)'
    BY <1>4 DEF Beginning, Making, Checking
  <2>. QED  BY <1>1, <1>3, <1>5, <2>1, <2>2, FillingStep DEF c
<1>8. PageInv(p)'
  <2>1. ShownTotal(p)' /\ ApprovedCovered(p)'
    BY <1>1, <1>4, <1>5, <1>6, <1>7, ShownStays DEF PageInv, User, frozen, database
  <2>. QED  BY <1>4, <1>6, <2>1
            DEF PageInv, CheckProgress, LeftWanted, SnapshotFresh, InPlace, AccountFresh,
                CashOfCache, CashOfApproved, Asking, Cashing, Beginning, Making, Checking
<1>9. OkInStore'
  <2>1. SUFFICES ASSUME NEW d \in 0 .. made, caches'[d].state = "ok",
                        NEW g \in DOMAIN caches'[d].cart \ caches'[d].touched
                 PROVE  caches'[d].cart[g] <= goods'[g].rest
    BY <1>5 DEF OkInStore
  <2>2. goods' = goods
    BY <1>5 DEF database
  <2>3. CASE d # c
    BY <1>3, <2>1, <2>2, <2>3 DEF IInv, OkInStore
  <2>4. CASE d = c
    <3>1. ~req[p].short
      BY <1>3, <2>1, <2>4
    <3>2. g \in DOMAIN w /\ caches'[c].cart[g] = w[g]
      BY <1>2, <1>3, <2>4 DEF Within
    <3>3. w[g] <= req[p].snap[g].rest
      BY <1>2, <3>1, <3>2
    <3>4. g \in Goods \ caches[c].touched
      <4>1. caches[c].cart \in Carts
        BY <1>1 DEF Caches
      <4>. QED  BY <1>3, <2>4, <4>1, CartIs
    <3>5. req[p].snap[g] = goods[g]
      BY <1>1, <1>2, <3>4 DEF SnapshotFresh, c
    <3>. QED  BY <2>2, <2>4, <3>2, <3>3, <3>5
  <2>. QED  BY <2>3, <2>4
<1>10. \A q \in Pages : PageInv(q)'
  BY <1>7, <1>8, OthersQuiet
<1>. QED  BY <1>7, <1>9, <1>10 DEF IInv

----------------------------------------------------------------------------
(* Commits *)

\* A check that has begun is marked by the goods that changed; other requests stay.
LEMMA TouchedRequest ==
    ASSUME NEW rs \in [Pages -> Requests], NEW G, NEW q \in Pages
    PROVE  /\ TouchRequests(rs, G)[q].kind = rs[q].kind
           /\ rs[q].kind = "check" /\ rs[q].at = "begun" =>
                 /\ TouchRequests(rs, G)[q].at = "begun"
                 /\ TouchRequests(rs, G)[q].want = rs[q].want
                 /\ TouchRequests(rs, G)[q].snap = rs[q].snap
                 /\ TouchRequests(rs, G)[q].touched = rs[q].touched \union G
           /\ ~(rs[q].kind = "check" /\ rs[q].at = "begun") => TouchRequests(rs, G)[q] = rs[q]
<1>1. CASE rs[q].kind = "check" /\ rs[q].at = "begun"
  <2>1. rs[q] \in Begun
    BY <1>1 DEF Requests, Idle, Filling, Accounts, Cashes
  <2>2. TouchRequests(rs, G)[q] = [rs[q] EXCEPT !.touched = @ \union G]
    BY <1>1 DEF TouchRequests
  <2>. QED  BY <1>1, <2>1, <2>2 DEF Begun
<1>2. CASE ~(rs[q].kind = "check" /\ rs[q].at = "begun")
  BY <1>2 DEF TouchRequests
<1>. QED  BY <1>1, <1>2

\* A request for the account, of the user whose account changed, is marked stale ...
LEMMA StaleRequest ==
    ASSUME NEW rs \in [Pages -> Requests], NEW u, NEW q \in Pages
    PROVE  /\ StaleRequests(rs, u)[q].kind = rs[q].kind
           /\ rs[q].kind = "account" =>
                 /\ StaleRequests(rs, u)[q].seen = rs[q].seen
                 /\ StaleRequests(rs, u)[q].fresh => rs[q].fresh /\ User(q) # u
           /\ rs[q].kind # "account" => StaleRequests(rs, u)[q] = rs[q]
<1>1. CASE rs[q].kind = "account" /\ User(q) = u
  <2>1. rs[q] \in Accounts
    BY <1>1 DEF Requests, Idle, Begun, Filling, Cashes
  <2>2. StaleRequests(rs, u)[q] = [rs[q] EXCEPT !.fresh = FALSE]
    BY <1>1 DEF StaleRequests
  <2>. QED  BY <1>1, <2>1, <2>2 DEF Accounts
<1>2. CASE ~(rs[q].kind = "account" /\ User(q) = u)
  BY <1>2 DEF StaleRequests
<1>. QED  BY <1>1, <1>2

\* ... and so are the form and the approval that the pages of that user show.
LEMMA StalePage ==
    ASSUME NEW ps \in [Pages -> Shops \union Infos], NEW u, NEW q \in Pages
    PROVE  /\ StalePages(ps, u)[q].at = ps[q].at
           /\ ps[q].at = "userinfo" =>
                 /\ StalePages(ps, u)[q].form = ps[q].form
                 /\ StalePages(ps, u)[q].fresh => ps[q].fresh /\ User(q) # u
           /\ ps[q].at # "userinfo" =>
                 /\ StalePages(ps, u)[q].shown = ps[q].shown
                 /\ StalePages(ps, u)[q].approved # Nothing =>
                       /\ ps[q].approved # Nothing
                       /\ StalePages(ps, u)[q].approved.cache = ps[q].approved.cache
                       /\ StalePages(ps, u)[q].approved.cart = ps[q].approved.cart
                       /\ StalePages(ps, u)[q].approved.fresh => ps[q].approved.fresh /\ User(q) # u
           /\ ps[q] = NewPage => StalePages(ps, u)[q] = NewPage
<1>1. CASE User(q) # u
  BY <1>1 DEF StalePages
<1>2. CASE User(q) = u /\ ps[q].at = "userinfo"
  <2>1. ps[q] \in Infos
    BY <1>2 DEF Shops
  <2>2. StalePages(ps, u)[q] = [ps[q] EXCEPT !.fresh = FALSE]
    BY <1>2 DEF StalePages
  <2>. QED  BY <1>2, <2>1, <2>2 DEF Infos, NewPage
<1>3. CASE User(q) = u /\ ps[q].at # "userinfo" /\ ps[q].approved # Nothing
  <2>. DEFINE ok == ps[q].approved
  <2>1. ps[q] \in Shops
    BY <1>3 DEF Infos
  <2>2. ok \in [cache : 0 .. made, cart : Carts, fresh : BOOLEAN]
    BY <1>3, <2>1 DEF Shops
  <2>3. StalePages(ps, u)[q] = [ps[q] EXCEPT !.approved = [ok EXCEPT !.fresh = FALSE]]
    BY <1>3 DEF StalePages
  <2>4. /\ StalePages(ps, u)[q].at = ps[q].at /\ StalePages(ps, u)[q].shown = ps[q].shown
        /\ StalePages(ps, u)[q].approved = [ok EXCEPT !.fresh = FALSE]
    BY <2>1, <2>3 DEF Shops
  <2>5. /\ [ok EXCEPT !.fresh = FALSE].cache = ok.cache
        /\ [ok EXCEPT !.fresh = FALSE].cart = ok.cart
        /\ [ok EXCEPT !.fresh = FALSE].fresh = FALSE
    BY <2>2
  <2>. HIDE DEF ok
  <2>6. ps[q] # NewPage
    BY <1>3 DEF NewPage
  <2>. QED  BY <1>3, <2>4, <2>5, <2>6 DEF ok
<1>4. CASE User(q) = u /\ ps[q].at # "userinfo" /\ ps[q].approved = Nothing
  BY <1>4 DEF StalePages
<1>. QED  BY <1>1, <1>2, <1>3, <1>4

\* A cache that is only marked.
LEMMA TouchedCaches ==
    ASSUME Types, NEW G \in SUBSET Goods, caches' = TouchCaches(caches, G), made' = made,
           \A g \in Goods : goods'[g] # goods[g] => g \in G
    PROVE  /\ CachesGrow
           /\ \A c \in 0 .. made : /\ caches'[c].cart = caches[c].cart
                                   /\ caches'[c].data = caches[c].data
                                   /\ caches'[c].state = caches[c].state
                                   /\ caches'[c].touched = caches[c].touched \union G
<1>1. ASSUME NEW c \in 0 .. made
      PROVE  /\ caches'[c].cart = caches[c].cart /\ caches'[c].data = caches[c].data
             /\ caches'[c].state = caches[c].state
             /\ caches'[c].touched = caches[c].touched \union G
  <2>1. caches[c] \in Caches
    BY DEF Types
  <2>2. caches'[c] = [caches[c] EXCEPT !.touched = @ \union G]
    BY DEF TouchCaches, Types
  <2>. QED  BY <2>1, <2>2 DEF Caches
<1>2. made <= made'
  BY DEF Types
<1>. QED  BY <1>1, <1>2 DEF CachesGrow, Within

\* The account of one trade more.
LEMMA TradedMore ==
    ASSUME Types, NEW t \in Trades, trades' = Append(trades, t), NEW g \in Goods
    PROVE  /\ g \in DOMAIN t.cart => Traded(g)' = Traded(g) + t.cart[g]
           /\ g \notin DOMAIN t.cart => Traded(g)' = Traded(g)
<1>. DEFINE n == Len(trades) + 1
            f == [i \in {j \in DOMAIN trades : g \in DOMAIN trades[j].cart} |-> trades[i].cart[g]]
            h == [i \in {j \in DOMAIN trades' : g \in DOMAIN trades'[j].cart} |->
                     trades'[i].cart[g]]
<1>1. /\ Len(trades) \in Nat /\ DOMAIN trades = 1 .. Len(trades) /\ DOMAIN trades' = 1 .. n
      /\ trades'[n] = t /\ \A i \in DOMAIN trades : trades'[i] = trades[i]
  BY DEF Types
<1>2. Traded(g) = SumFunction(f) /\ Traded(g)' = SumFunction(h)
  BY DEF Traded
<1>3. /\ \A i \in DOMAIN trades : trades[i] \in Trades
      /\ \A i \in DOMAIN trades' : trades'[i] \in Trades
  <2>1. \A i \in DOMAIN trades : trades[i] \in Trades
    BY DEF Types
  <2>. QED  BY <1>1, <2>1
<1>4. ASSUME NEW i \in DOMAIN trades', g \in DOMAIN trades'[i].cart
      PROVE  trades'[i].cart[g] \in Int
  <2>1. trades'[i].cart \in Carts
    BY <1>3 DEF Trades
  <2>. QED  BY <1>4, <2>1, CartIs, ShopAssumption
<1>5. CASE g \in DOMAIN t.cart
  <2>1. DOMAIN h = DOMAIN f \union {n} /\ n \notin DOMAIN f
    BY <1>1, <1>5
  <2>2. \A y \in DOMAIN f : h[y] = f[y]
    BY <1>1
  <2>3. \A y \in DOMAIN h : h[y] \in Int
    BY <1>4
  <2>4. h[n] = t.cart[g]
    BY <1>1, <1>5
  <2>5. IsFiniteSet(DOMAIN f)
    <3>1. DOMAIN f \subseteq 1 .. Len(trades) /\ IsFiniteSet(1 .. Len(trades))
      BY <1>1, FS_Interval
    <3>. QED  BY <3>1, FS_Subset
  <2>. HIDE DEF f, h, n
  <2>6. SumFunction(h) = SumFunction(f) + h[n]
    BY <2>1, <2>2, <2>3, <2>5, SumExtended
  <2>. QED  BY <1>2, <1>5, <2>4, <2>6
<1>6. CASE g \notin DOMAIN t.cart
  <2>1. {j \in DOMAIN trades' : g \in DOMAIN trades'[j].cart}
          = {j \in DOMAIN trades : g \in DOMAIN trades[j].cart}
    BY <1>1, <1>6
  <2>2. h = f
    BY <1>1, <2>1
  <2>. QED  BY <1>2, <1>6, <2>2
<1>. QED  BY <1>5, <1>6

\* What a user paid, after one trade more.
LEMMA PaidMore ==
    ASSUME Types, NEW t \in Trades, trades' = Append(trades, t), NEW u \in Users
    PROVE  /\ Paid(u) \in Nat
           /\ u = t.user => Paid(u)' = Paid(u) + t.paid
           /\ u # t.user => Paid(u)' = Paid(u)
<1>. DEFINE n == Len(trades) + 1
            f == [i \in {j \in DOMAIN trades : trades[j].user = u} |-> trades[i].paid]
            h == [i \in {j \in DOMAIN trades' : trades'[j].user = u} |-> trades'[i].paid]
<1>1. /\ Len(trades) \in Nat /\ DOMAIN trades = 1 .. Len(trades) /\ DOMAIN trades' = 1 .. n
      /\ trades'[n] = t /\ \A i \in DOMAIN trades : trades'[i] = trades[i]
  BY DEF Types
<1>2. Paid(u) = SumFunction(f) /\ Paid(u)' = SumFunction(h)
  BY DEF Paid
<1>3. /\ \A i \in DOMAIN trades : trades[i] \in Trades
      /\ \A i \in DOMAIN trades' : trades'[i] \in Trades
  <2>1. \A i \in DOMAIN trades : trades[i] \in Trades
    BY DEF Types
  <2>. QED  BY <1>1, <2>1
<1>4. /\ \A i \in DOMAIN trades : trades[i].paid \in Nat
      /\ \A i \in DOMAIN trades' : trades'[i].paid \in Nat
  BY <1>3 DEF Trades
<1>5. IsFiniteSet(DOMAIN f)
  <2>1. DOMAIN f \subseteq 1 .. Len(trades) /\ IsFiniteSet(1 .. Len(trades))
    BY <1>1, FS_Interval
  <2>. QED  BY <2>1, FS_Subset
<1>6. Paid(u) \in Nat
  <2>1. \A x \in DOMAIN f : f[x] \in Nat
    BY <1>4
  <2>. HIDE DEF f, h
  <2>. QED  BY <1>2, <1>5, <2>1, SumFunctionType
<1>7. CASE u = t.user
  <2>1. DOMAIN h = DOMAIN f \union {n} /\ n \notin DOMAIN f
    BY <1>1, <1>7
  <2>2. \A y \in DOMAIN f : h[y] = f[y]
    BY <1>1
  <2>3. \A y \in DOMAIN h : h[y] \in Int
    BY <1>4
  <2>4. h[n] = t.paid
    BY <1>1, <1>7
  <2>. HIDE DEF f, h, n
  <2>5. SumFunction(h) = SumFunction(f) + h[n]
    BY <1>5, <2>1, <2>2, <2>3, SumExtended
  <2>. QED  BY <1>2, <1>6, <1>7, <2>4, <2>5
<1>8. CASE u # t.user
  <2>1. {j \in DOMAIN trades' : trades'[j].user = u} = {j \in DOMAIN trades : trades[j].user = u}
    BY <1>1, <1>8
  <2>2. h = f
    BY <1>1, <2>1
  <2>. QED  BY <1>2, <1>6, <1>8, <2>2
<1>. QED  BY <1>7, <1>8

\* The commit of a trade.
LEMMA CashCommitStep ==
    ASSUME IInv, Types', NEW p \in Pages, CashCommit(p)
    PROVE  IInv'
<1>. DEFINE G == req[p].sold
            cart == req[p].cart
            u == User(p)
            rs == [req EXCEPT ![p] = Idle]
            ps == [page EXCEPT ![p] = NewPage]
<1>1. /\ PageInv(p) /\ Types /\ req[p] \in Cashes /\ req[p].at = "paid"
      /\ G \in SUBSET Goods /\ cart \in Carts /\ u \in Users /\ req[p].cache \in 0 .. made
  <2>1. req[p] \in Cashes /\ u \in Users
    BY Shapes DEF IInv, CashCommit, Cashing
  <2>. QED  BY <2>1 DEF IInv, CashCommit, Cashes
<1>2. G = DOMAIN cart
  BY <1>1 DEF PageInv, CashOfCache, Cashing, CashCommit
<1>3. /\ goods' = Sell(goods, cart) /\ balance' = [balance EXCEPT ![u] = @ - req[p].total]
      /\ trades' = Append(trades, Trade(p)) /\ caches' = TouchCaches(caches, G)
      /\ req' = StaleRequests(TouchRequests(rs, G), u) /\ page' = StalePages(ps, u)
      /\ UNCHANGED <<frozen, made, current, history>>
  BY DEF CashCommit
<1>4. /\ rs \in [Pages -> Requests] /\ TouchRequests(rs, G) \in [Pages -> Requests]
      /\ ps \in [Pages -> Shops \union Infos]
      /\ rs[p] = Idle /\ ps[p] = NewPage /\ \A q \in Pages \ {p} : rs[q] = req[q] /\ ps[q] = page[q]
  <2>1. rs \in [Pages -> Requests] /\ ps \in [Pages -> Shops \union Infos]
    BY <1>1 DEF Types, Requests, NewPage, Shops
  <2>2. TouchRequests(rs, G) \in [Pages -> Requests]
    BY <1>1, <2>1, TouchedTypes
  <2>. QED  BY <1>1, <2>1, <2>2 DEF Types
<1>5. \A g \in Goods : goods'[g] # goods[g] => g \in G
  BY <1>1, <1>2, <1>3 DEF Sell
<1>6. \A q \in Pages : User(q)' = User(q)
  BY <1>3 DEF User, frozen
<1>7. \A v \in Users \ {u} : balance'[v] = balance[v]
  BY <1>1, <1>3 DEF Types
<1>. HIDE DEF G, cart, u, rs, ps
<1>8. CachesGrow /\ \A c \in 0 .. made : /\ caches'[c].cart = caches[c].cart
                                         /\ caches'[c].data = caches[c].data
                                         /\ caches'[c].state = caches[c].state
                                         /\ caches'[c].touched = caches[c].touched \union G
  BY <1>1, <1>3, <1>5, TouchedCaches
<1>9. ASSUME NEW q \in Pages \ {p}
      PROVE  Quiet(q)
  <2>. DEFINE r == TouchRequests(rs, G)
  <2>1. /\ r[q].kind = req[q].kind
        /\ req[q].kind = "check" /\ req[q].at = "begun" =>
              /\ r[q].at = "begun" /\ r[q].want = req[q].want /\ r[q].snap = req[q].snap
              /\ r[q].touched = req[q].touched \union G
        /\ ~(req[q].kind = "check" /\ req[q].at = "begun") => r[q] = req[q]
    BY <1>4, TouchedRequest
  <2>. HIDE DEF r
  <2>2. /\ req'[q].kind = r[q].kind
        /\ r[q].kind = "account" =>
              /\ req'[q].seen = r[q].seen
              /\ req'[q].fresh => r[q].fresh /\ User(q) # u
        /\ r[q].kind # "account" => req'[q] = r[q]
    <3>1. r \in [Pages -> Requests] /\ req'[q] = StaleRequests(r, u)[q]
      BY <1>3, <1>4 DEF r
    <3>. QED  BY <3>1, StaleRequest
  <2>3. User(q) # u => balance'[User(q)] = balance[User(q)]
    BY <1>1, <1>7, Shapes
  <2>4. SameRequest(q)
    BY <1>5, <2>1, <2>2, <2>3 DEF SameRequest, Making, Cashing, Beginning, Checking, Asking
  <2>5. SamePage(q)
    <3>1. /\ page'[q].at = page[q].at
          /\ page[q].at = "userinfo" =>
                /\ page'[q].form = page[q].form
                /\ page'[q].fresh => page[q].fresh /\ User(q) # u
          /\ page[q].at # "userinfo" =>
                /\ page'[q].shown = page[q].shown
                /\ page'[q].approved # Nothing =>
                      /\ page[q].approved # Nothing
                      /\ page'[q].approved.cache = page[q].approved.cache
                      /\ page'[q].approved.cart = page[q].approved.cart
                      /\ page'[q].approved.fresh => page[q].approved.fresh /\ User(q) # u
      BY <1>3, <1>4, StalePage
    <3>. QED  BY <2>3, <3>1 DEF SamePage
  <2>6. SameCache(q)
    <3>1. Making(q) => req[q] \in Filling
      BY <1>1, Shapes DEF Making, Checking
    <3>2. Making(q) => req[q].cache \in 0 .. made
      BY <1>1, <3>1 DEF Filling, Types
    <3>. QED  BY <1>8, <3>2 DEF SameCache
  <2>. QED  BY <1>6, <2>4, <2>5, <2>6 DEF Quiet
<1>10. req'[p].kind = "none" /\ page'[p] = NewPage
  <2>1. TouchRequests(rs, G)[p].kind = "none"
    BY <1>4, TouchedRequest DEF Idle
  <2>2. req'[p].kind = "none"
    BY <1>3, <1>4, <2>1, StaleRequest
  <2>. QED  BY <1>3, <1>4, <2>2, StalePage
<1>11. PageInv(p)'
  BY <1>10 DEF PageInv, NewPage, ShownTotal, ApprovedCovered, LeftWanted, InPlace, CheckProgress,
               SnapshotFresh, AccountFresh, CashOfCache, CashOfApproved, Checking, Making,
               Beginning, Asking, Cashing
<1>12. \A q \in Pages : PageInv(q)'
  BY <1>8, <1>9, <1>11, OthersQuiet
<1>13. OwnCaches' /\ ChecksBounded'
  <2>1. ~Making(p)' /\ ~Beginning(p)'
    BY <1>10 DEF Making, Beginning, Checking
  <2>2. OwnCaches'
    BY <1>9, <2>1, OwnersStay DEF IInv
  <2>. QED  BY <1>3, <1>9, <2>1, <2>2, BoundStays
<1>14. OkInStore'
  <2>1. \A c \in 0 .. made' : caches'[c].state = "ok" => c \in 0 .. made /\ caches[c].state = "ok"
    BY <1>3, <1>8
  <2>. QED  BY <1>8, <2>1, StoreStays
<1>15. Trade(p) \in Trades
  BY <1>1 DEF Trade, Trades, Cashes, u, cart
<1>16. TradesPaid'
  <2>1. SUFFICES ASSUME NEW i \in DOMAIN trades', ~trades'[i].early
                 PROVE  /\ caches'[trades'[i].cache].state # "filling"
                        /\ trades'[i].paid = Total(trades'[i].cart, caches'[trades'[i].cache].data)
    BY DEF TradesPaid
  <2>2. CASE i \in DOMAIN trades
    <3>1. trades[i] \in Trades /\ trades'[i] = trades[i]
      BY <1>1, <1>3, <2>2 DEF Types
    <3>2. trades[i].cache \in 0 .. made
      BY <3>1 DEF Trades
    <3>3. /\ caches[trades[i].cache].state # "filling"
          /\ trades[i].paid = Total(trades[i].cart, caches[trades[i].cache].data)
      BY <2>1, <2>2, <3>1 DEF IInv, TradesPaid
    <3>. QED  BY <1>8, <3>1, <3>2, <3>3
  <2>3. CASE i \notin DOMAIN trades
    <3>1. trades'[i] = Trade(p)
      BY <1>1, <1>3, <2>1, <2>3 DEF Types
    <3>2. /\ Trade(p).early = req[p].early /\ Trade(p).cache = req[p].cache
          /\ Trade(p).cart = req[p].cart /\ Trade(p).paid = req[p].total
      BY DEF Trade
    <3>3. ~req[p].early
      BY <2>1, <3>1, <3>2
    <3>4. /\ caches[req[p].cache].state # "filling"
          /\ req[p].total = Total(req[p].cart, caches[req[p].cache].data)
      BY <1>1, <3>3 DEF PageInv, CashOfCache, Cashing, CashCommit
    <3>. QED  BY <1>1, <1>8, <3>1, <3>2, <3>4
  <2>. QED  BY <2>2, <2>3
<1>17. BooksAgree'
  <2>. DEFINE t == Trade(p)
  <2>1. t.cart = cart /\ t.user = u /\ t.paid = req[p].total /\ req[p].total \in Nat
    BY <1>1 DEF Trade, Cashes, cart, u
  <2>. HIDE DEF t
  <2>2. ASSUME NEW g \in Goods
        PROVE  /\ goods'[g].sold = Traded(g)'
               /\ g \notin edited => goods'[g].rest = Stock[g] - goods'[g].sold
    <3>1. goods[g] \in Rows /\ goods[g].rest \in Int /\ goods[g].sold \in Nat /\ Stock[g] \in Nat
      BY <1>1, ShopAssumption DEF Types, Rows
    <3>2. goods[g].sold = Traded(g) /\ (g \notin edited => goods[g].rest = Stock[g] - goods[g].sold)
      BY DEF IInv, BooksAgree
    <3>3. CASE g \in DOMAIN cart
      <4>1. cart[g] \in Nat
        BY <1>1, <3>3, CartIs, ShopAssumption
      <4>2. goods'[g].rest = goods[g].rest - cart[g] /\ goods'[g].sold = goods[g].sold + cart[g]
        BY <1>3, <3>1, <3>3 DEF Sell, Rows
      <4>3. Traded(g)' = Traded(g) + cart[g]
        BY <1>1, <1>3, <1>15, <2>1, <3>3, TradedMore DEF t
      <4>. QED  BY <3>1, <3>2, <4>1, <4>2, <4>3
    <3>4. CASE g \notin DOMAIN cart
      <4>1. goods'[g] = goods[g]
        BY <1>2, <1>5, <3>4
      <4>2. Traded(g)' = Traded(g)
        BY <1>1, <1>3, <1>15, <2>1, <3>4, TradedMore DEF t
      <4>. QED  BY <3>2, <4>1, <4>2
    <3>. QED  BY <3>3, <3>4
  <2>3. ASSUME NEW v \in Users \ overwritten
        PROVE  balance'[v] = Balance - Paid(v)'
    <3>1. /\ Paid(v) \in Nat
          /\ v = u => Paid(v)' = Paid(v) + req[p].total
          /\ v # u => Paid(v)' = Paid(v)
      BY <1>1, <1>3, <1>15, <2>1, PaidMore DEF t
    <3>2. balance[v] = Balance - Paid(v) /\ Balance \in Nat
      BY ShopAssumption DEF IInv, BooksAgree
    <3>3. CASE v = u
      <4>1. balance'[u] = balance[u] - req[p].total
        BY <1>1, <1>3 DEF Types
      <4>. QED  BY <2>1, <3>1, <3>2, <3>3, <4>1
    <3>4. CASE v # u
      BY <1>7, <3>1, <3>2, <3>4
    <3>. QED  BY <3>3, <3>4
  <2>. QED  BY <1>3, <2>2, <2>3 DEF BooksAgree, history
<1>. QED  BY <1>12, <1>13, <1>14, <1>16, <1>17 DEF IInv

\* The post of a form: what it puts back is what is there, or the marks say so.
LEMMA InfoPostedStep ==
    ASSUME IInv, Types', NEW p \in Pages, InfoPosted(p)
    PROVE  IInv'
<1>. DEFINE u == User(p)
            ps == [page EXCEPT ![p] = NewPage]
<1>1. /\ PageInv(p) /\ Types /\ page[p].at = "userinfo" /\ u \in Users
      /\ req[p].kind = "none"
  <2>1. PageInv(p) /\ Types /\ page[p].at = "userinfo" /\ u \in Users
    BY Shapes DEF IInv, InfoPosted
  <2>2. req[p] \in Requests /\ req[p].kind \notin {"check", "account", "cash"}
    BY <2>1 DEF Types, PageInv, InPlace
  <2>. QED  BY <2>1, <2>2 DEF Requests, Idle, Begun, Filling, Accounts, Cashes
<1>2. /\ balance' = [balance EXCEPT ![u] = page[p].form]
      /\ overwritten' = IF page[p].fresh THEN overwritten ELSE overwritten \union {u}
      /\ page' = IF page[p].fresh THEN ps ELSE StalePages(ps, u)
      /\ req' = IF page[p].fresh THEN req ELSE StaleRequests(req, u)
      /\ UNCHANGED <<frozen, goods, trades, caches, made, current, edits, edited>>
  BY DEF InfoPosted
<1>3. /\ ps \in [Pages -> Shops \union Infos] /\ req \in [Pages -> Requests]
      /\ ps[p] = NewPage /\ \A q \in Pages \ {p} : ps[q] = page[q]
  BY <1>1 DEF Types, NewPage, Shops
<1>4. page[p].fresh => balance' = balance
  <2>1. page[p].fresh => page[p].form = balance[u]
    BY <1>1 DEF PageInv, AccountFresh
  <2>. QED  BY <1>1, <1>2, <2>1 DEF Types
<1>5. \A v \in Users \ {u} : balance'[v] = balance[v]
  BY <1>1, <1>2 DEF Types
<1>6. \A q \in Pages : User(q)' = User(q) /\ User(q) \in Users
  BY <1>1, <1>2, Shapes DEF User, frozen
<1>. HIDE DEF u, ps
<1>7. CachesGrow
  BY <1>1, <1>2 DEF CachesGrow, Within, Types
<1>8. ASSUME NEW q \in Pages \ {p}
      PROVE  Quiet(q)
  <2>1. User(q) # u => balance'[User(q)] = balance[User(q)]
    BY <1>5, <1>6
  <2>2. SameRequest(q) /\ SamePage(q)
    <3>1. CASE page[p].fresh
      <4>1. req'[q] = req[q] /\ page'[q] = page[q] /\ balance' = balance /\ goods' = goods
        BY <1>2, <1>3, <1>4, <3>1
      <4>. QED  BY <4>1 DEF SameRequest, SamePage, Beginning
    <3>2. CASE ~page[p].fresh
      <4>1. /\ req'[q].kind = req[q].kind
            /\ req[q].kind = "account" =>
                  /\ req'[q].seen = req[q].seen
                  /\ req'[q].fresh => req[q].fresh /\ User(q) # u
            /\ req[q].kind # "account" => req'[q] = req[q]
        BY <1>2, <1>3, <3>2, StaleRequest
      <4>2. SameRequest(q)
        BY <1>2, <2>1, <4>1 DEF SameRequest, Making, Cashing, Beginning, Checking, Asking
      <4>3. /\ page'[q].at = page[q].at
            /\ page[q].at = "userinfo" =>
                  /\ page'[q].form = page[q].form
                  /\ page'[q].fresh => page[q].fresh /\ User(q) # u
            /\ page[q].at # "userinfo" =>
                  /\ page'[q].shown = page[q].shown
                  /\ page'[q].approved # Nothing =>
                        /\ page[q].approved # Nothing
                        /\ page'[q].approved.cache = page[q].approved.cache
                        /\ page'[q].approved.cart = page[q].approved.cart
                        /\ page'[q].approved.fresh => page[q].approved.fresh /\ User(q) # u
        BY <1>2, <1>3, <3>2, StalePage
      <4>4. SamePage(q)
        BY <2>1, <4>3 DEF SamePage
      <4>. QED  BY <4>2, <4>4
    <3>. QED  BY <3>1, <3>2
  <2>3. SameCache(q)
    BY <1>2 DEF SameCache
  <2>. QED  BY <1>6, <2>2, <2>3 DEF Quiet
<1>9. req'[p].kind = "none" /\ page'[p] = NewPage
  <2>1. CASE page[p].fresh
    BY <1>1, <1>2, <1>3, <2>1
  <2>2. CASE ~page[p].fresh
    BY <1>1, <1>2, <1>3, <2>2, StaleRequest, StalePage
  <2>. QED  BY <2>1, <2>2
<1>10. PageInv(p)'
  BY <1>9 DEF PageInv, NewPage, ShownTotal, ApprovedCovered, LeftWanted, InPlace, CheckProgress,
              SnapshotFresh, AccountFresh, CashOfCache, CashOfApproved, Checking, Making,
              Beginning, Asking, Cashing
<1>11. \A q \in Pages : PageInv(q)'
  BY <1>7, <1>8, <1>10, OthersQuiet
<1>12. OwnCaches' /\ ChecksBounded'
  <2>1. ~Making(p)' /\ ~Beginning(p)'
    BY <1>9 DEF Making, Beginning, Checking
  <2>2. OwnCaches'
    BY <1>8, <2>1, OwnersStay DEF IInv
  <2>. QED  BY <1>2, <1>8, <2>1, <2>2, BoundStays
<1>13. OkInStore' /\ TradesPaid'
  BY <1>2, <1>7, StoreStays, FinishedStay
<1>14. BooksAgree'
  <2>1. Users \ overwritten' \subseteq Users \ overwritten
    BY <1>2
  <2>2. \A v \in Users \ overwritten' : balance'[v] = balance[v]
    BY <1>2, <1>4, <1>5
  <2>3. \A v \in Users \ overwritten' : balance'[v] = Balance - Paid(v)
    BY <2>1, <2>2 DEF IInv, BooksAgree
  <2>. QED  BY <1>2, <2>3 DEF IInv, BooksAgree, Paid, Traded
<1>. QED  BY <1>11, <1>12, <1>13, <1>14 DEF IInv

\* The administrator changes a good.
LEMMA ModifyStep ==
    ASSUME IInv, Types', NEW g \in Goods, Modify(g)
    PROVE  IInv'
<1>1. /\ Types /\ req \in [Pages -> Requests]
      /\ UNCHANGED <<frozen, balance, trades, made, current, page, overwritten>>
      /\ caches' = TouchCaches(caches, {g}) /\ req' = TouchRequests(req, {g})
      /\ edited' = edited \union {g}
  BY DEF IInv, Types, Modify
<1>2. /\ \A x \in Goods \ {g} : goods'[x] = goods[x]
      /\ goods'[g].sold = goods[g].sold
  <2>1. PICK rest \in NewRests, price \in NewPrices :
          goods' = [goods EXCEPT ![g].rest = rest, ![g].price = price]
    BY DEF Modify
  <2>. QED  BY <1>1, <2>1 DEF Types, Rows
<1>3. \A x \in Goods : goods'[x] # goods[x] => x \in {g}
  BY <1>2
<1>4. CachesGrow /\ \A c \in 0 .. made : /\ caches'[c].cart = caches[c].cart
                                         /\ caches'[c].data = caches[c].data
                                         /\ caches'[c].state = caches[c].state
                                         /\ caches'[c].touched = caches[c].touched \union {g}
  BY <1>1, <1>3, TouchedCaches
<1>5. ASSUME NEW q \in Pages
      PROVE  Quiet(q)
  <2>1. /\ req'[q].kind = req[q].kind
        /\ req[q].kind = "check" /\ req[q].at = "begun" =>
              /\ req'[q].at = "begun" /\ req'[q].want = req[q].want /\ req'[q].snap = req[q].snap
              /\ req'[q].touched = req[q].touched \union {g}
        /\ ~(req[q].kind = "check" /\ req[q].at = "begun") => req'[q] = req[q]
    BY <1>1, TouchedRequest
  <2>2. SameRequest(q)
    BY <1>1, <1>3, <2>1 DEF SameRequest, Making, Cashing, Beginning, Checking, Asking
  <2>3. SamePage(q)
    BY <1>1 DEF SamePage
  <2>4. SameCache(q)
    <3>1. Making(q) => req[q] \in Filling
      BY <1>1, Shapes DEF Making, Checking
    <3>2. Making(q) => req[q].cache \in 0 .. made
      BY <1>1, <3>1 DEF Filling, Types
    <3>. QED  BY <1>4, <3>2 DEF SameCache
  <2>. QED  BY <1>1, <2>2, <2>3, <2>4 DEF Quiet, User, frozen
<1>6. \A q \in Pages : PageInv(q)'
  BY <1>1, <1>4, <1>5, QuietKeeps DEF IInv
<1>7. OwnCaches' /\ ChecksBounded'
  <2>1. OwnCaches'
    BY <1>5, QuietChecks DEF IInv, OwnCaches
  <2>2. Beginners' = Beginners
    BY <1>5, QuietChecks DEF Beginners
  <2>. QED  BY <1>1, <2>1, <2>2 DEF IInv, ChecksBounded
<1>8. OkInStore'
  <2>1. \A c \in 0 .. made' : caches'[c].state = "ok" => c \in 0 .. made /\ caches[c].state = "ok"
    BY <1>1, <1>4
  <2>. QED  BY <1>4, <2>1, StoreStays
<1>9. TradesPaid'
  BY <1>1, <1>4, FinishedStay
<1>10. BooksAgree'
  <2>1. ASSUME NEW x \in Goods
        PROVE  /\ goods'[x].sold = Traded(x)
               /\ x \notin edited' => goods'[x].rest = Stock[x] - goods'[x].sold
    BY <1>1, <1>2 DEF IInv, BooksAgree
  <2>. QED  BY <1>1, <2>1 DEF IInv, BooksAgree, Paid, Traded
<1>. QED  BY <1>6, <1>7, <1>8, <1>9, <1>10 DEF IInv

----------------------------------------------------------------------------
(* The theorems *)

\* The inductive invariant holds at first, ...
LEMMA InitStarts == Init => IInv
<1>. SUFFICES ASSUME Init PROVE IInv
  OBVIOUS
<1>1. Types
  BY StartTypes
<1>2. /\ made = 0 /\ trades = <<>> /\ caches = [c \in {0} |-> NewCache({})]
      /\ balance = [u \in Users |-> Balance]
      /\ goods = [g \in Goods |-> [rest |-> Stock[g], sold |-> 0, price |-> Price[g]]]
  BY DEF Init
<1>3. \A p \in Pages : page[p] = NewPage /\ req[p].kind = "none"
  BY DEF Init, Idle
<1>4. \A p \in Pages : ~Beginning(p) /\ ~Making(p)
  BY <1>3 DEF Beginning, Making, Checking
<1>5. \A p \in Pages : PageInv(p)
  BY <1>3 DEF PageInv, NewPage, ShownTotal, ApprovedCovered, LeftWanted, InPlace, CheckProgress,
              SnapshotFresh, AccountFresh, CashOfCache, CashOfApproved, Checking, Making,
              Beginning, Asking, Cashing
<1>6. OwnCaches
  BY <1>4 DEF OwnCaches
<1>7. ChecksBounded
  <2>1. Beginners = {}
    BY <1>4 DEF Beginners
  <2>2. Cardinality({}) = 0
    BY FS_EmptySet
  <2>. QED  BY <1>2, <2>1, <2>2, ShopAssumption DEF ChecksBounded
<1>8. OkInStore
  <2>1. \A c \in 0 .. made : caches[c].state = "filling"
    BY <1>2 DEF NewCache
  <2>. QED  BY <2>1 DEF OkInStore
<1>9. TradesPaid
  BY <1>2 DEF TradesPaid
<1>10. BooksAgree
  <2>1. ASSUME NEW g \in Goods
        PROVE  Traded(g) = 0
    <3>1. {j \in DOMAIN trades : g \in DOMAIN trades[j].cart} = {}
      BY <1>2
    <3>. DEFINE f == [i \in {j \in DOMAIN trades : g \in DOMAIN trades[j].cart} |->
                         trades[i].cart[g]]
    <3>2. DOMAIN f = {}
      BY <3>1
    <3>. HIDE DEF f
    <3>3. SumFunction(f) = 0
      BY <3>2, SumNothing
    <3>. QED  BY <3>3 DEF Traded, f
  <2>2. ASSUME NEW u \in Users
        PROVE  Paid(u) = 0
    <3>1. {j \in DOMAIN trades : trades[j].user = u} = {}
      BY <1>2
    <3>. DEFINE f == [i \in {j \in DOMAIN trades : trades[j].user = u} |-> trades[i].paid]
    <3>2. DOMAIN f = {}
      BY <3>1
    <3>. HIDE DEF f
    <3>3. SumFunction(f) = 0
      BY <3>2, SumNothing
    <3>. QED  BY <3>3 DEF Paid, f
  <2>. QED  BY <1>2, <2>1, <2>2, ShopAssumption DEF BooksAgree
<1>. QED  BY <1>1, <1>5, <1>6, <1>7, <1>8, <1>9, <1>10 DEF IInv

\* ... its types are kept, ...
LEMMA StepTypes == IInv /\ [Next]_vars => Types'
<1>1. IInv => Types /\ \A p \in Pages : LeftWanted(p) /\ InPlace(p)
  BY DEF IInv, PageInv
<1>. QED  BY <1>1, TypesStep

\* ... and so is all of it.
LEMMA NextKeeps == IInv /\ [Next]_vars => IInv'
<1>. SUFFICES ASSUME IInv, [Next]_vars PROVE IInv'
  OBVIOUS
<1>1. Types'
  BY StepTypes
<1>2. ASSUME NEW p \in Pages,
             \/ CheckBegin(p) \/ Confirm(p) \/ Leave(p) \/ Reopen(p) \/ AccountBegin(p)
             \/ AccountCheck(p) \/ CashBegin(p) \/ CashTotal(p) \/ CashPay(p) \/ CashFails(p)
             \/ InfoShown(p) \/ \E g \in Goods : CashSell(p, g)
      PROVE  IInv'
  BY <1>1, <1>2, LocalSteps
<1>3. ASSUME NEW p \in Pages, CheckNew(p) \/ CheckEnd(p) \/ CashCommit(p) \/ InfoPosted(p)
      PROVE  IInv'
  BY <1>1, <1>3, CheckNewStep, CheckEndStep, CashCommitStep, InfoPostedStep
<1>4. ASSUME NEW p \in Pages, NEW g \in Goods, CheckPut(p, g) \/ CheckItem(p, g)
      PROVE  IInv'
  BY <1>1, <1>4, CheckPutStep, CheckItemStep
<1>5. ASSUME NEW g \in Goods, Modify(g)
      PROVE  IInv'
  BY <1>1, <1>5, ModifyStep
<1>6. CASE UNCHANGED vars
  <2>. USE <1>6 DEF vars
  <2>1. Beginners' = Beginners
    BY DEF Beginners, Beginning, Checking
  <2>2. ASSUME NEW p \in Pages
        PROVE  PageInv(p)'
    <3>1. PageInv(p) /\ User(p)' = User(p)
      BY DEF IInv, User
    <3>2. LeftWanted(p)' /\ InPlace(p)' /\ AccountFresh(p)'
      BY <3>1 DEF PageInv, LeftWanted, InPlace, AccountFresh, Asking
    <3>3. CheckProgress(p)' /\ SnapshotFresh(p)'
      BY <3>1 DEF PageInv, CheckProgress, SnapshotFresh, Making, Beginning, Checking
    <3>4. ShownTotal(p)' /\ ApprovedCovered(p)'
      BY <3>1 DEF PageInv, ShownTotal, ApprovedCovered
    <3>5. CashOfCache(p)' /\ CashOfApproved(p)'
      BY <3>1 DEF PageInv, CashOfCache, CashOfApproved, Cashing
    <3>. QED  BY <3>2, <3>3, <3>4, <3>5 DEF PageInv
  <2>3. OwnCaches' /\ ChecksBounded' /\ OkInStore' /\ TradesPaid'
    BY <2>1 DEF IInv, OwnCaches, Making, Checking, ChecksBounded, OkInStore, TradesPaid
  <2>4. BooksAgree'
    BY DEF IInv, BooksAgree, Paid, Traded
  <2>. QED  BY <1>1, <2>2, <2>3, <2>4 DEF IInv
<1>. QED  BY <1>2, <1>3, <1>4, <1>5, <1>6 DEF Next

\* The inductive invariant always holds.
LEMMA Always == Spec => []IInv
BY InitStarts, NextKeeps, PTL DEF Spec

\* The variables keep their types, and no more carts are checked than the bound allows.
THEOREM TypesHold == Spec => []TypeOK
<1>1. IInv => TypeOK
  <2>. SUFFICES ASSUME IInv PROVE TypeOK
    OBVIOUS
  <2>1. Types
    BY DEF IInv
  <2>2. made \in 0 .. MaxChecks
    <3>1. Cardinality(Beginners) \in Nat
      BY FS_Subset, FS_CardinalityType, ShopAssumption DEF Beginners
    <3>. QED  BY <2>1, <3>1, ShopAssumption DEF IInv, ChecksBounded, Types
  <2>3. DOMAIN caches = 0 .. made
    BY <2>1 DEF Types
  <2>4. ASSUME NEW c \in 0 .. made
        PROVE  /\ DOMAIN caches[c].data \subseteq Goods
               /\ caches[c].data \in [DOMAIN caches[c].data -> Rows]
               /\ caches[c] \in [cart : Carts, data : {caches[c].data},
                                 state : {"filling", "ok", "short"}, touched : SUBSET Goods]
    <3>1. caches[c] \in Caches
      BY <2>1 DEF Types
    <3>2. caches[c].data \in Datas
      BY <3>1 DEF Caches
    <3>. QED  BY <3>1, <3>2, DataIs DEF Caches
  <2>. QED  BY <2>1, <2>2, <2>3, <2>4 DEF Types, TypeOK, Requests
<1>. QED  BY <1>1, Always, PTL

\* A trade whose cash did not start on a cache that was being filled is paid in full, at the
\* prices that were checked (TradeService.cash, TransactionFilter).
THEOREM TradesArePaid == Spec => []TradeIsPaid
<1>1. IInv => TradeIsPaid
  BY DEF IInv, TradesPaid, TradeIsPaid
<1>. QED  BY <1>1, Always, PTL

\* What is sold, in store and in the accounts agrees with the committed trades (sellGood and pay
\* are relative updates in one transaction), but for the forms of userinfo.jsp.
THEOREM BooksHold == Spec => []BooksAgree
<1>1. IInv => BooksAgree
  BY DEF IInv
<1>. QED  BY <1>1, Always, PTL

\* Whose request ends with a trade is who commits it.
LEMMA OnlyCommits ==
    ASSUME IInv, [Next]_vars, NEW p \in Pages, Commits(p)
    PROVE  CashCommit(p)
<1>1. trades' # trades /\ Cashing(p) /\ req'[p] = Idle
  BY DEF Commits
<1>2. ASSUME NEW q \in Pages
      PROVE  /\ CheckBegin(q) \/ CheckNew(q) \/ CheckEnd(q) => trades' = trades
             /\ \A g \in Goods :
                   CheckPut(q, g) \/ CheckItem(q, g) \/ CashSell(q, g) => trades' = trades
             /\ Confirm(q) \/ Leave(q) \/ Reopen(q) => trades' = trades
             /\ AccountBegin(q) \/ AccountCheck(q) => trades' = trades
             /\ CashBegin(q) \/ CashTotal(q) \/ CashPay(q) \/ CashFails(q) => trades' = trades
             /\ InfoShown(q) \/ InfoPosted(q) => trades' = trades
  BY DEF CheckBegin, CheckNew, CheckEnd, CheckPut, CheckItem, CashSell, Confirm, Leave, Reopen,
         AccountBegin, AccountCheck, CashBegin, CashTotal, CashPay, CashFails, InfoShown,
         InfoPosted, database
<1>3. \A g \in Goods : Modify(g) => trades' = trades
  BY DEF Modify
<1>4. PICK q \in Pages : CashCommit(q)
  BY <1>1, <1>2, <1>3 DEF Next, vars
<1>5. CASE q # p
  <2>. DEFINE rs == [req EXCEPT ![q] = Idle]
              r == TouchRequests(rs, req[q].sold)
  <2>1. Types /\ req[q] \in Cashes
    BY <1>4, Shapes DEF IInv, CashCommit, Cashing
  <2>2. rs \in [Pages -> Requests] /\ rs[p].kind = "cash"
    BY <1>1, <1>5, <2>1 DEF Types, Requests, Cashing
  <2>. HIDE DEF rs
  <2>3. r \in [Pages -> Requests]
    BY <2>1, <2>2, TouchedTypes DEF Cashes
  <2>4. r[p].kind = "cash"
    BY <2>2, TouchedRequest
  <2>5. req' = StaleRequests(r, User(q))
    BY <1>4 DEF CashCommit, rs
  <2>. HIDE DEF r
  <2>6. req'[p].kind = "cash"
    BY <2>3, <2>4, <2>5, StaleRequest
  <2>. QED  BY <1>1, <2>6 DEF Idle
<1>. QED  BY <1>4, <1>5

\* Store and accounts fall below zero only when something was changed between a check and the
\* cash that relied on it (TradeService.checkCart, checkAccount, cash).
THEOREM ShortByRacesOnly == Spec => ShortOnlyByRaces
<1>. DEFINE Short(p) ==
              LET c  == caches[req[p].cache]
                  ok == page[p].approved
              IN /\ c.state = "ok" => \A g \in req[p].sold \ c.touched : goods'[g].rest >= 0
                 /\ ok.fresh /\ ok.cache = req[p].cache /\ ok.cart = caches[ok.cache].cart
                       => balance'[User(p)] >= 0
<1>1. ASSUME IInv, [Next]_vars, NEW p \in Pages, Commits(p)
      PROVE  Short(p)
  <2>. DEFINE c == req[p].cache
              ok == page[p].approved
  <2>1. CashCommit(p) /\ PageInv(p) /\ Types
    BY <1>1, OnlyCommits DEF IInv
  <2>2. /\ req[p] \in Cashes /\ page[p] \in Shops /\ page[p].at = "paying" /\ User(p) \in Users
    BY <2>1, Shapes DEF PageInv, InPlace, CashCommit, Cashing
  <2>3. /\ c \in 0 .. made /\ req[p].cart \in Carts /\ req[p].total \in Nat
        /\ req[p].sold = DOMAIN req[p].cart /\ Within(req[p].cart, caches[c].cart)
    BY <2>1, <2>2 DEF Cashes, PageInv, CashOfCache, CashCommit, Cashing
  <2>4. ASSUME caches[c].state = "ok", NEW g \in req[p].sold \ caches[c].touched
        PROVE  goods'[g].rest >= 0
    <3>1. g \in Goods /\ req[p].cart[g] \in Nat
      BY <2>3, CartIs, ShopAssumption
    <3>2. caches[c].cart[g] <= goods[g].rest
      BY <1>1, <2>3, <2>4 DEF IInv, OkInStore, Within
    <3>3. caches[c].cart[g] = req[p].cart[g]
      BY <2>3 DEF Within
    <3>4. goods[g].rest \in Int
      BY <2>1, <3>1 DEF Types, Rows
    <3>5. goods'[g].rest = goods[g].rest - req[p].cart[g]
      <4>1. goods' = Sell(goods, req[p].cart)
        BY <2>1 DEF CashCommit
      <4>2. goods[g] \in Rows /\ g \in DOMAIN req[p].cart
        BY <2>1, <2>3, <3>1 DEF Types
      <4>. QED  BY <3>1, <4>1, <4>2 DEF Sell, Rows
    <3>. QED  BY <3>1, <3>2, <3>3, <3>4, <3>5
  <2>5. ASSUME ok.fresh, ok.cache = c, ok.cart = caches[ok.cache].cart
        PROVE  balance'[User(p)] >= 0
    <3>1. ok # Nothing
      BY <2>3, <2>5 DEF Nothing
    <3>2. Total(ok.cart, caches[ok.cache].data) <= balance[User(p)]
      BY <2>1, <2>2, <2>5, <3>1 DEF PageInv, ApprovedCovered
    <3>3. req[p].total = Total(ok.cart, caches[ok.cache].data)
      BY <2>1, <2>2, <2>5, <3>1 DEF PageInv, CashOfApproved, CashCommit
    <3>4. balance[User(p)] \in Int
      BY <2>1, <2>2 DEF Types
    <3>5. balance'[User(p)] = balance[User(p)] - req[p].total
      BY <2>1, <2>2 DEF CashCommit, Types
    <3>. QED  BY <2>3, <3>2, <3>3, <3>4, <3>5
  <2>. QED  BY <2>4, <2>5
<1>2. IInv /\ [Next]_vars => [\A p \in Pages : Commits(p) => Short(p)]_vars
  BY <1>1
<1>3. Spec => [][\A p \in Pages : Commits(p) => Short(p)]_vars
  BY <1>2, Always, PTL DEF Spec
<1>. QED  BY <1>3 DEF ShortOnlyByRaces

\* Who pays for the cart mycash.jsp showed pays the sum it showed.
THEOREM PaidAsShown == Spec => PaidIsShown
<1>. DEFINE Shown(p) ==
              LET seen == page[p].shown
              IN seen.cache = req[p].cache /\ seen.cart = caches[seen.cache].cart
                    => req[p].total = seen.total \/ req[p].early
<1>1. ASSUME IInv, [Next]_vars, NEW p \in Pages, Commits(p)
      PROVE  Shown(p)
  <2>. DEFINE c == req[p].cache
              seen == page[p].shown
  <2>1. CashCommit(p) /\ PageInv(p) /\ Types
    BY <1>1, OnlyCommits DEF IInv
  <2>2. req[p] \in Cashes /\ page[p].at = "paying" /\ req[p].at = "paid"
    BY <2>1, Shapes DEF PageInv, InPlace, CashCommit, Cashing
  <2>3. c \in 0 .. made
    BY <2>2 DEF Cashes
  <2>4. ASSUME seen.cache = c, seen.cart = caches[seen.cache].cart, ~req[p].early
        PROVE  req[p].total = seen.total
    <3>1. seen # Nothing
      BY <2>3, <2>4 DEF Nothing
    <3>2. seen.total = Total(seen.cart, caches[seen.cache].data)
      BY <2>1, <2>2, <3>1 DEF PageInv, ShownTotal
    <3>3. req[p].cart = caches[c].cart /\ req[p].total = Total(req[p].cart, caches[c].data)
      BY <2>1, <2>2, <2>4 DEF PageInv, CashOfCache, CashCommit
    <3>. QED  BY <2>4, <3>2, <3>3
  <2>. QED  BY <2>4
<1>2. IInv /\ [Next]_vars => [\A p \in Pages : Commits(p) => Shown(p)]_vars
  BY <1>1
<1>3. Spec => [][\A p \in Pages : Commits(p) => Shown(p)]_vars
  BY <1>2, Always, PTL DEF Spec
<1>. QED  BY <1>3 DEF PaidIsShown
=============================================================================
