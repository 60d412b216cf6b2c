CONSTANTS
    a = a
    b = b
    d = d
    e1 = e1
    Fix <- MCFix
    Other <- MCOther
    File <- MCFile
    Dir <- MCDir
    Edit = {}
    Writes <- MCWrites
    Prunes <- MCPrunes
    Overlaps <- MCOverlaps
    Cures <- MCCures
    Message <- SharedMessage
    MaxFixes = 3
    MaxFaults = 0
    MaxReverts = 0
SPECIFICATION Spec
PROPERTY KeptClosesItsFinding
CHECK_DEADLOCK FALSE
