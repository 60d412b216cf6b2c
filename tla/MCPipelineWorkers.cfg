CONSTANTS
    Family <- Families
    Fact <- SomeFacts
    Batch = 2
    Unset = Unset
    Docs = 7
    Threads = 3
    Size <- SevenSizes
    Requests <- FewRequests
SPECIFICATION FairSpec
INVARIANTS
    Conserved
    HandedOver
    StreamInOrder
    Lookahead
PROPERTIES
    BatchBound
    Terminates
CHECK_DEADLOCK FALSE
