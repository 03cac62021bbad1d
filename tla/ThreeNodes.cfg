SPECIFICATION MCSpec
CONSTANTS
    Node <- Three
    Value = {v1, v2, v3}
    None = None
    NoRecord = NoRecord
    MaxInstance = 2
    MaxProposalID = 2
    MaxInterrupts = 1
    Proposers = {1, 2}
    RestartNodes = {}
    TimerNodes = {2}
    FaultyStore = {}
    Link <- FullLink
    Duplicates = FALSE
SYMMETRY ValueSymmetry
VIEW MCView
CONSTRAINT MCBound
CHECK_DEADLOCK FALSE
INVARIANTS
    CommitResultTruthful
    ChosenOnce
    VotesAgree
PROPERTIES
    PromiseHonoured
    ImplementsReplicatedLog
