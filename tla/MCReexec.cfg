\* Every fixture; lists of up to three items; a child that may take longer than its
\* timeout of one tick.
CONSTANTS
    Null = Null
    ParseError = ParseError
    Raised = Raised
    NoOutcome = NoOutcome
    Repr <- MCRepr
    Numeral <- MCNumeral
    Bytes <- MCBytes
    Hex <- MCHex
    FloatMax = 10
    MaxSleep = 3
    Cases <- MCCases
    Attempts = {1, 2, 3}
    Timeout = 1
    MaxTime = 2
SPECIFICATION FairSpec
\* The system stops once the reexecutor has returned.
CHECK_DEADLOCK FALSE
INVARIANTS
    TypeOK
    HonestClaimStands
    BelievedIsRight
    SettledClaimIsRight
    NoChildLeft
PROPERTIES
    Returns
