CONSTANTS
    a = a
    b = b
    d = d
    e1 = e1
    Fix <- MCFix
    Other <- MCOther
    File <- MCFile
    Dir <- MCDir
    Edit <- MCEdit
    Writes <- MCWrites
    Prunes <- MCPrunes
    Overlaps <- MCOverlaps
    Cures <- MCCures
    Message <- MCMessage
    MaxFixes = 3
    MaxFaults = 2
    MaxReverts = 1
SPECIFICATION FairSpec
INVARIANTS
    RestIsVerified
    OneFailureIsUndone
PROPERTIES
    ForeignEditsSurvive
    KeptClosesItsFinding
    Transactional
    Terminates
CHECK_DEADLOCK FALSE
