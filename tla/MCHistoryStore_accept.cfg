SPECIFICATION MCSpec
CONSTANTS
    AggregateId <- MCId
    Obj <- MCObj
    Job <- AllJobs
    Detail <- MCDetail
    Shape <- MCShape
    BootstrapClosure = {"genesis"}
    BootstrapContext = "pinned"
    Process = {p1, p2}
    Nobody = Nobody
    Regimes = {"one", "two"}
INVARIANTS
    TablesAgree
    CommandsOnce
    HistoryIsSound
PROPERTIES
    ImplementsAcceptedHistory

