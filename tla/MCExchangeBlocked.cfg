CONSTANTS
    f1 = f1
    f2 = f2
    Family <- TwoFamilies
    Other = other
    Capacity = 2
    MaxLines = 3
    Foreign <- ForeignKernel
SPECIFICATION FairSpec
PROPERTY EndsAlways
CHECK_DEADLOCK FALSE
