SPECIFICATION MCSpec
CONSTANTS
    Pages = {p1, p2}
    Sessions = {s1, s2}
    Users = {u1, u2}
    g1 = g1
    g2 = g2
    Goods = {g1, g2}
    Amounts = {1}
    Stock <- MCStock
    Price <- MCPrice
    Balance = 3
    NewRests = {0}
    NewPrices = {3}
    MaxChecks = 2
    Limits <- MCLimits
SYMMETRY Symmetry
INVARIANTS TypeOK TradeIsPaid BooksAgree
PROPERTIES ShortOnlyByRaces PaidIsShown
