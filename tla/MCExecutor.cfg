\* Three attempts, a deadline of two ticks, a caller up to one tick late, and threads
\* that end in any way or never.
CONSTANTS
    MaxAttempts = 3
    Deadline = 2
    BackoffBase = 1
    Endings <- AnyEnding
    SystemTime = TRUE
    Slack = 1
    NoResult = NoResult
SPECIFICATION FairSpec
\* The system stops once execute() has returned.
CHECK_DEADLOCK FALSE
INVARIANTS
    TypeOK
    NeverTwoAtATime
    ResultExplained
    WithinBudget
PROPERTIES
    Terminates
