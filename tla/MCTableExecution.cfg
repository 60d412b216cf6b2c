SPECIFICATION Spec
CONSTANTS
    r1 = r1
    r2 = r2
    r3 = r3
    r4 = r4
    fn = fn
    mod = mod
    commits = commits
    assets = assets
    git = git
    hub = hub
    py = py
    NoLimit = NoLimit
    Family <- FourFamilies
    Rule <- FourRules
    Reads <- FourReads
    ModelNative <- TwoModelRules
    Provider <- TwoProviders
    Installation <- Installations
    Request = {}
    ExternalFamily <- TwoExternal
    Buildable <- TwoBuildable
    ModuleFact <- mod
    General <- GeneralRules
    Language <- OneLanguage
    Observations <- ObservedLanguages
    Wants <- PythonWants
    Limits <- FailureLimits
    MaxFailures = 2
INVARIANTS
    NoTableAskedTwice
    EveryRuleJudgedOnce
    OneModelTurn
    ReportIsFull
PROPERTY RunEnds
CHECK_DEADLOCK FALSE
