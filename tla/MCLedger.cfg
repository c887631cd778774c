\* Every combination of faults, three entries, two crashes.
CONSTANTS
    r1 = r1
    r2 = r2
    Receipts <- MCReceipts
    Unreadable = Unreadable
    Faults <- MCFaults
    MaxEntries = 3
    MaxCrashes = 2
SPECIFICATION Spec
\* A full ledger, or one whose file no longer loads, may stop.
CHECK_DEADLOCK FALSE
SYMMETRY Symmetric
INVARIANTS
    TypeOK
    CrashesKeepChain
    ReturnedIsDurable
    ReturnedIsOneChain
    TamperEvident
