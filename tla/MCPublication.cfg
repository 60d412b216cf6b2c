SPECIFICATION Spec
CONSTANTS
    r1 = r1
    r2 = r2
    app = app
    lib = lib
    s1 = s1
    s2 = s2
    s3 = s3
    Rule <- TwoRules
    Symbol <- ThreeSymbols
    RuleOf <- RulesOf
    FileOf <- FilesOf
    Selection <- Selections
    Delays = 1
    AssertionWindow = 4
    IncidentWindow = 2
    Copies = 2
INVARIANTS
    QuietFilesClose
    VerdictsComplete
    SettledIncidentsEnd
PROPERTIES
    SilenceClosesNothing
    RaisedOnce
    RaisedWhileFailing
