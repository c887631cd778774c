---------------------------- MODULE LeaseClients ----------------------------
(***************************************************************************)
(* Workers that share one LeaseManager and keep claiming tasks, under a    *)
(* clock that may stand still, jump ahead or step backwards: claim() gets  *)
(* `now` from its caller, whose SystemClock is time.time().                *)
(*                                                                         *)
(* `issued` is a history variable: every token a claim ever returned, with *)
(* the worker it was returned to.  A worker stamps that token on its       *)
(* receipts and may present it at any later time, so what matters is what  *)
(* the whole set of tokens in circulation looks like.                      *)
(***************************************************************************)
EXTENDS LeaseManager

CONSTANTS
    Times,      \* the readings the clock may give
    Ttls,       \* the lease durations the callers ask for
    MaxEpoch    \* bound: no task is granted more often than this

ASSUME TimesAssumption == Times \subseteq Int /\ Times # {}
ASSUME TtlsAssumption == Ttls \subseteq Int

VARIABLES
    clock,      \* the current reading of the clock
    issued      \* tokens returned by claim() so far

vars == <<leases, max_epoch, clock, issued>>

Token == [task : Tasks, worker : Workers, epoch : Nat \ {0}]

TypeOK == /\ LeaseTypeOK
          /\ clock \in Times
          /\ issued \subseteq Token

Init == /\ LeaseInit
        /\ clock \in Times
        /\ issued = {}

-----------------------------------------------------------------------------
(* Worker w calls claim(t, w, ttl, clock.now()) and is not refused. *)
WorkerClaims(w, t, ttl) ==
    /\ ClaimedEpoch(t, clock) <= MaxEpoch
    /\ Claim(t, w, ttl, clock)
    /\ issued' = issued \cup
                   {[task |-> t, worker |-> w, epoch |-> ClaimedEpoch(t, clock)]}
    /\ UNCHANGED clock

(* Time passes, or the machine's clock is set, in either direction. *)
ClockMoves == /\ clock' \in Times
              /\ UNCHANGED <<leases, max_epoch, issued>>

Next == \/ \E w \in Workers, t \in Tasks, ttl \in Ttls : WorkerClaims(w, t, ttl)
        \/ ClockMoves

Spec == Init /\ [][Next]_vars

-----------------------------------------------------------------------------
(* A token names one worker: however claims interleave, expire and renew,  *)
(* two workers never hold the same epoch of the same task, so an epoch on  *)
(* a receipt tells whose run it was.                                       *)
OneOwnerPerEpoch ==
    \A a, b \in issued :
        a.task = b.task /\ a.epoch = b.epoch => a.worker = b.worker

(* The verifier compares a receipt's epoch with current_epoch() and never  *)
(* looks at the holder (verifier.py:217-218).  That is enough only because *)
(* a token that still equals the current epoch is always the token of the  *)
(* worker holder() names.                                                  *)
CurrentTokenIsHolders ==
    \A a \in issued :
        a.epoch = CurrentEpoch(a.task) => a.worker = Holder(a.task)

(* The inductive invariant LeaseProofs proves the two above from. *)
LeaseInvariant == /\ TypeOK
                  /\ LeasesMatchEpochs
                  /\ \A a \in issued : Fenced(a.task, a.worker, a.epoch)
                  /\ OneOwnerPerEpoch

(* A token, once superseded, is superseded for good: no later claim,       *)
(* expiry or clock step makes an old token pass the epoch comparison again.*)
SupersededForever ==
    [][\A a \in issued : a.epoch # CurrentEpoch(a.task)
                            => a.epoch # CurrentEpoch(a.task)']_vars

(* The manager implements the abstract fencing token: a renewal and a      *)
(* clock step are stutters, a grant is the abstract hand-over.             *)
Fencing == INSTANCE FencingToken
               WITH epoch <- max_epoch,
                    owner <- [t \in Tasks |-> Holder(t)]

ImplementsFencingToken == Fencing!Spec
=============================================================================
