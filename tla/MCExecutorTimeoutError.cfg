\* A fixture whose own TimeoutError is taken for the one of the wait.
CONSTANTS
    MaxAttempts = 3
    Deadline = 2
    BackoffBase = 1
    Endings <- AnyEnding
    SystemTime = TRUE
    Slack = 1
    NoResult = NoResult
SPECIFICATION Spec
\* The system stops once execute() has returned.
CHECK_DEADLOCK FALSE
INVARIANTS
    OnlyOverdueTimesOut
