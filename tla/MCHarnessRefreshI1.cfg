\* I1 when a receipt is signed again.
CONSTANTS
    w1 = w1
    w2 = w2
    Null = Null
    ParseError = ParseError
    Raised = Raised
    NoLease = NoLease
    Nobody = Nobody
    NoRun = NoRun
    Workers <- MCWorkers
    Tasks <- MCTasks
    Specs <- MCOneTask
    SupportedVersions <- MCVersions
    Oversized <- MCNone
    Registered <- Registry
    Deterministic <- Repeatable
    RunResult <- FixtureResults
    Believed <- FixtureBelieved
    RaisesOn <- FixtureRaisesOn
    Repr <- MCNoTexts
    Numeral <- MCNoTexts
    Bytes <- MCNoTexts
    Hex <- MCNoTexts
    FloatMax = 1000
    MaxSleep = 1000
    Claims <- MCClaims
    MaxAttempts = 1
    Outputs <- MCSums
    BuggyWorkers <- MCNone
    Skew = 0
    Ttl = 1
    Deadline = 1
    Reexecuting = FALSE
    MaySetBack = FALSE
    MayRefresh = TRUE
    MaxRestarts = 0
    MaxTime = 1
    MaxSigned = 3
    MaxGrants = 3
SPECIFICATION Spec
SYMMETRY Symmetric
INVARIANTS
    AtMostOneSuccess
