SPECIFICATION EvidenceSpec
CONSTANTS
    git = git
    hub = hub
    commits = commits
    authors = authors
    assets = assets
    fn = fn
    Family <- FourFamilies
    Provider <- TwoProviders
    Installation <- Installations
    Request <- Requests
INVARIANTS
    NoWorkOnACycle
    ErrorNamesTheCause
    SuppliesWhatWasNeeded
PROPERTY CollectionEnds
CHECK_DEADLOCK FALSE
