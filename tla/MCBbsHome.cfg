SPECIFICATION MCSpec
CONSTANTS
    Ann = Ann
    Bob = Bob
    Visitor = Visitor
    NoPage = NoPage
    Pages = {Ann, Bob, Visitor}
    Typists = {Ann}
    Names = {"eve"}
    Members <- MCMembers
    Table <- MCTable
    Home <- MCHome
    Rows = 2
    MaxComments = 4
    Limits <- MCLimits
    Budgets <- MCBudgets
INVARIANTS
    TypeOK
    
    SentAsTyped
    OwnWordsShown
CHECK_DEADLOCK FALSE
