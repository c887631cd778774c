\* Leases under an arbitrary clock, which keeps the bounded instance from
\* deadlocking once every task has had MaxEpoch grants.
CONSTANTS
    w1 = w1
    w2 = w2
    t1 = t1
    t2 = t2
    NoLease = NoLease
    Nobody = Nobody
    Workers <- MCWorkers
    Tasks <- MCTasks
    Times <- MCTimes
    Ttls <- MCTtls
    MaxEpoch = 3
SPECIFICATION Spec
INVARIANTS
    TypeOK
    OneOwnerPerEpoch
    CurrentTokenIsHolders
PROPERTIES
    SupersededForever
    ImplementsFencingToken
