\* The fifteen scenarios and those of the quickstart, and every receipt they make with one field changed.
CONSTANTS
    W = w1
    V = w2
    Null = Null
    ParseError = ParseError
    Raised = Raised
    NoLease = NoLease
    Nobody = Nobody
    NoRun = NoRun
    NoReceipt = NoReceipt
    NoVerdict = NoVerdict
    PaddedWitness <- MCPadded
    Workers = {w1, w2}
    Tasks <- MCTasks
    Specs <- AllSpecs
    SupportedVersions <- MCVersions
    Oversized <- MCOversized
    Registered <- Registry
    Deterministic <- Repeatable
    RunResult <- FixtureResults
    Believed <- FixtureBelieved
    RaisesOn <- FixtureRaisesOn
    Repr <- MCNoTexts
    Numeral <- MCNoTexts
    Bytes <- MCNoTexts
    Hex <- MCNoTexts
    FloatMax = 1000
    MaxSleep = 1000
    Claims <- MCClaims
    MaxAttempts = 1
    Outputs = {}
    BuggyWorkers = {}
    Skew = 5
    Ttl = 10
    Deadline = 5
    Reexecuting = FALSE
    MaySetBack = FALSE
    MayRefresh = FALSE
    MaxRestarts = 0
    MaxTime = 20
    MaxSigned = 2
    MaxGrants = 2
SPECIFICATION AdvSpec
INVARIANTS
    RowsMatch
    UnsignedChangeRejected
