SPECIFICATION FairSpec
CONSTANTS
    Nobody = Nobody
    Document = Document
    form = form
    content = content
    f = f
    Nodes = {form, content}
    Types = {"click"}
    Functions = {f}
    Parent <- MCParent
    CssHidden = {content}
    Jobs <- MCJobs
    Stops <- MCStops
    Bindings <- MCBindings
    MaxMoves = 3
INVARIANTS
    TypeOK
    
    LeaksExplained
    

    
CHECK_DEADLOCK FALSE
