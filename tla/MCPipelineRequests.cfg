CONSTANTS
    Family <- Families
    Fact <- SomeFacts
    Batch = 2
    Unset = Unset
    Docs = 2
    Threads = 1
    Size <- TwoSizes
    Requests <- AllRequests
SPECIFICATION Spec
INVARIANTS
    Complete
    TablesAnnounced
    NothingMissing
CHECK_DEADLOCK FALSE
