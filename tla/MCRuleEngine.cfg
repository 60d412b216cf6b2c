SPECIFICATION EngineSpec
CONSTANTS
    r1 = r1
    r2 = r2
    r3 = r3
    r4 = r4
    r5 = r5
    r6 = r6
    fn = fn
    cls = cls
    call = call
    mod = mod
    test = test
    Family <- FiveFamilies
    Rule <- SixRules
    Reads <- SixReads
    ModelNative <- ThreeModelRules
INVARIANT BatchesAreComponents
PROPERTY ImplementsRuleBatches
CHECK_DEADLOCK FALSE
