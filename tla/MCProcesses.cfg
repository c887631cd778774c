\* Three processes, one task; the clock may be set back.
CONSTANTS
    p1 = p1
    p2 = p2
    p3 = p3
    Null = Null
    ParseError = ParseError
    Raised = Raised
    Absent = Absent
    Empty = Empty
    NoRun = NoRun
    Procs <- MCProcs
    Specs <- MCSpecs
    SupportedVersions <- MCVersions
    Oversized <- MCNone
    Registered <- MCRegistered
    Deterministic <- MCRegistered
    RunResult <- MCRunResult
    Believed <- MCBelieved
    RaisesOn <- MCRaisesOn
    Skew = 0
    Deadline = 0
    MaxTime = 1
SPECIFICATION Spec
SYMMETRY Symmetric
INVARIANTS
    TypeOK
    ForksAreDetected
    SecondSuccessOnlyByOverlap
    AppendedIsInFile
PROPERTIES
    KeyStays
