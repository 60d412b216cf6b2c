SPECIFICATION CalmSpec
CONSTANTS
    r1 = r1
    r2 = r2
    app = app
    lib = lib
    s1 = s1
    s2 = s2
    s3 = s3
    Rule <- TwoRules
    Symbol <- TwoSymbols
    RuleOf <- RulesOfTwo
    FileOf <- FilesOfTwo
    Selection <- Selections
    Delays = 1
    AssertionWindow = 4
    IncidentWindow = 2
    Copies = 2
INVARIANT ResolvedWhenPassing
