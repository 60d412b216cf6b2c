SPECIFICATION Spec
CONSTANTS
    Query <- ThreeRules
    Contents <- Counts
    Candidate <- Candidates
    Claim <- Names
    PathOf <- Paths
    ClaimsOf <- Claims
    Estimated <- Bytes
    Counted <- Tokenized
    Values <- ThreeValues
    CandidateBudget = 4
    PromptBudget = 20
    OutputBudget = 2400
    ReasoningTokens = 0
    BatchSize = 2
    Workers = 2
    Closed = {2}
INVARIANTS
    EveryCandidateAnswered
    PlanFits
    NothingManufactured
    UnavailableIsAskedOnce
PROPERTY TurnsEnd
CHECK_DEADLOCK FALSE
