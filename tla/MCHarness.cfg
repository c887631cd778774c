\* One task, one worker that returns wrong primes, a clock that may be set back,
\* hand-overs, two receipts, a reexecutor; no restarts.
CONSTANTS
    w1 = w1
    w2 = w2
    Null = Null
    ParseError = ParseError
    Raised = Raised
    NoLease = NoLease
    Nobody = Nobody
    NoRun = NoRun
    Workers <- MCWorkers
    Tasks <- MCTasks
    Specs <- MCOnePrime
    SupportedVersions <- MCVersions
    Oversized <- MCNone
    Registered <- Registry
    Deterministic <- Repeatable
    RunResult <- FixtureResults
    Believed <- FixtureBelieved
    RaisesOn <- FixtureRaisesOn
    Repr <- MCNoTexts
    Numeral <- MCNoTexts
    Bytes <- MCNoTexts
    Hex <- MCNoTexts
    FloatMax = 1000
    MaxSleep = 1000
    Claims <- MCClaims
    MaxAttempts = 1
    Outputs <- MCPrimes
    BuggyWorkers <- MCBuggy
    Skew = 0
    Ttl = 1
    Deadline = 1
    Reexecuting = TRUE
    MaySetBack = TRUE
    MayRefresh = FALSE
    MaxRestarts = 0
    MaxTime = 2
    MaxSigned = 2
    MaxGrants = 2
SPECIFICATION Spec
INVARIANTS
    TypeOK
    AtMostOneSuccess
    EpochsInOrder
    ChainsOntoSignedHead
    RecordedIsDocumented
    HonestHolderGetsIn
    AcceptedReverifies
PROPERTIES
    OwnerAtAcceptance
    ImplementsFencedCompletion
