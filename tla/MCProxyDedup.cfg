SPECIFICATION Spec
CONSTANTS
    read1 = read1
    read2 = read2
    edit1 = edit1
    Calls <- AllCalls
    Strong <- StrongCalls
    ShortWindow = 1
    StrongWindow = 3
    MaxRecent = 2
    MaxTime = 6
SYMMETRY Symmetry
INVARIANTS
    TypeOK
    OnlyCurrentInFlight
    WindowCountsFromCompletion
PROPERTIES
    ReplayOnlyAfterEviction
