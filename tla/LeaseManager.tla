---------------------------- MODULE LeaseManager ----------------------------
(***************************************************************************)
(* LeaseManager (src/detects/lease.py): time-limited task ownership with a *)
(* monotonic fencing token.  This module holds the state of one manager    *)
(* and its operations; LeaseClients and Harness put actors around it.      *)
(*                                                                         *)
(* The two dictionaries are total functions here: a task without an entry  *)
(* has lease NoLease and maximal epoch 0, which is what the code's         *)
(* .get(task_id) and .get(task_id, 0) return for it.  Times are integers.  *)
(* A claim refused with LeaseHeld changes nothing: it is no step.          *)
(***************************************************************************)
EXTENDS Integers

CONSTANTS
    Tasks,      \* task ids
    Workers,    \* worker ids
    NoLease,    \* the lease of a task that was never claimed
    Nobody      \* what holder() returns for such a task (None in the code)

VARIABLES
    leases,     \* leases[t]: the last lease granted on t, or NoLease
    max_epoch   \* max_epoch[t]: the epoch of the last grant on t, or 0

leaseVars == <<leases, max_epoch>>

Lease == [holder : Workers, epoch : Nat \ {0}, expires_at : Int]

ASSUME NoLeaseAssumption == NoLease \notin Lease
ASSUME NobodyAssumption == Nobody \notin Workers

LeaseTypeOK == /\ leases \in [Tasks -> Lease \cup {NoLease}]
               /\ max_epoch \in [Tasks -> Nat]

LeaseInit == /\ leases = [t \in Tasks |-> NoLease]
             /\ max_epoch = [t \in Tasks |-> 0]

-----------------------------------------------------------------------------
(* The lease on t still protects its holder at time now. *)
Live(t, now) == leases[t] # NoLease /\ now < leases[t].expires_at

(* A renewal that does not ask who holds the lease (mutant of Renew). *)
RenewForAnyone(t, w, ttl, now) ==
    /\ Live(t, now)
    /\ leases' = [leases EXCEPT ![t].expires_at = now + ttl,
                                ![t].holder = w]
    /\ UNCHANGED max_epoch

(* The holder of a live lease claims again: the expiry moves to now + ttl, *)
(* be that later or earlier than before, and the epoch stays.              *)
Renew(t, w, ttl, now) ==
    /\ Live(t, now)
    /\ leases[t].holder = w
    /\ leases' = [leases EXCEPT ![t].expires_at = now + ttl]
    /\ UNCHANGED max_epoch

(* A grant that forgets to record the epoch it hands out (mutant of Grant). *)
GrantUnrecorded(t, w, ttl, now) ==
    /\ ~ Live(t, now)
    /\ UNCHANGED max_epoch
    /\ leases' = [leases EXCEPT ![t] = [holder     |-> w,
                                        epoch      |-> max_epoch[t] + 1,
                                        expires_at |-> now + ttl]]

(* A grant under the epoch before the next one (mutant of Grant). *)
GrantOldEpoch(t, w, ttl, now) ==
    /\ ~ Live(t, now)
    /\ max_epoch' = [max_epoch EXCEPT ![t] = @ + 1]
    /\ leases' = [leases EXCEPT ![t] = [holder     |-> w,
                                        epoch      |-> max_epoch[t],
                                        expires_at |-> now + ttl]]

(* A grant that counts epochs per holder (mutant of Grant). *)
GrantPerHolder(t, w, ttl, now) ==
    LET e == IF leases[t] = NoLease \/ leases[t].holder # w
             THEN 1 ELSE leases[t].epoch + 1
    IN  /\ ~ Live(t, now)
        /\ max_epoch' = [max_epoch EXCEPT ![t] = e]
        /\ leases' = [leases EXCEPT ![t] = [holder     |-> w,
                                            epoch      |-> e,
                                            expires_at |-> now + ttl]]

(* A grant that keeps the epoch when the last holder comes back and, by   *)
(* mistake, also when somebody else does (mutant of Grant).               *)
GrantSameEpoch(t, w, ttl, now) ==
    LET e == IF leases[t] = NoLease THEN 1 ELSE leases[t].epoch
    IN  /\ ~ Live(t, now)
        /\ max_epoch' = [max_epoch EXCEPT ![t] = e]
        /\ leases' = [leases EXCEPT ![t] = [holder     |-> w,
                                            epoch      |-> e,
                                            expires_at |-> now + ttl]]

(* Nobody is protected on t: w gets it under the next epoch.  The previous *)
(* holder may be w itself, whose own older token is then superseded.       *)
Grant(t, w, ttl, now) ==
    /\ ~ Live(t, now)
    /\ max_epoch' = [max_epoch EXCEPT ![t] = @ + 1]
    /\ leases' = [leases EXCEPT ![t] = [holder     |-> w,
                                        epoch      |-> max_epoch[t] + 1,
                                        expires_at |-> now + ttl]]

Claim(t, w, ttl, now) == Renew(t, w, ttl, now) \/ Grant(t, w, ttl, now)

(* What a claim that is not refused returns, evaluated before the claim. *)
ClaimedEpoch(t, now) == IF Live(t, now) THEN leases[t].epoch
                                        ELSE max_epoch[t] + 1

CurrentEpoch(t) == max_epoch[t]

Holder(t) == IF leases[t] = NoLease THEN Nobody ELSE leases[t].holder

-----------------------------------------------------------------------------
(* How the two dictionaries hang together: a task has a lease once it has  *)
(* been granted, and the lease is the one of the last grant.               *)
LeasesMatchEpochs ==
    \A t \in Tasks :
        /\ leases[t] = NoLease => max_epoch[t] = 0
        /\ leases[t] # NoLease => leases[t].epoch = max_epoch[t]

(* What may be said of a token (t, w, e) from the moment a claim returns   *)
(* it: it is not ahead of its task, and while it is current its worker is  *)
(* the holder.                                                             *)
Fenced(t, w, e) == /\ e <= max_epoch[t]
                   /\ e = max_epoch[t] => Holder(t) = w
=============================================================================
