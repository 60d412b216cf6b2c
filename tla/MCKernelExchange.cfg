CONSTANTS
    f1 = f1
    f2 = f2
    Family <- TwoFamilies
    Other = other
    Capacity = 2
    MaxLines = 3
    Foreign <- EitherKernel
SPECIFICATION FairSpec
INVARIANTS
    OutcomeIsTrue
    NoOrphan
PROPERTY Ends
CHECK_DEADLOCK FALSE
