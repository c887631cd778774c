----------------------------- MODULE LeaseProofs -----------------------------
(***************************************************************************)
(* Proofs about LeaseClients, for any sets of tasks, workers, times and    *)
(* lease durations, and whatever the clock does.  LeaseInvariant is        *)
(* inductive; the fencing properties and the refinement follow from it.    *)
(***************************************************************************)
EXTENDS LeaseClients, LeaseManagerProofs

(* No lease was granted and no token issued yet.                           *)
LEMMA InvariantInit == Init => LeaseInvariant
BY DEF Init, LeaseInit, LeaseInvariant, TypeOK, LeaseTypeOK, LeasesMatchEpochs,
       OneOwnerPerEpoch

(* A claim issues one more token, and fences it.                           *)
LEMMA ClaimKeepsInvariant ==
    ASSUME LeaseInvariant,
           NEW w \in Workers, NEW t \in Tasks, NEW ttl \in Ttls,
           WorkerClaims(w, t, ttl)
    PROVE  LeaseInvariant'
<1>0. PICK e : e = ClaimedEpoch(t, clock)
  OBVIOUS
<1> DEFINE tok == [task |-> t, worker |-> w, epoch |-> e]
<1>1. /\ Claim(t, w, ttl, clock)
      /\ issued' = issued \cup {tok}
      /\ clock' = clock
  BY <1>0 DEF WorkerClaims
<1>2. /\ LeaseTypeOK /\ LeasesMatchEpochs
      /\ clock \in Int /\ clock \in Times /\ ttl \in Int
  BY TimesAssumption, TtlsAssumption DEF LeaseInvariant, TypeOK
<1>3. /\ e \in Nat \ {0}
      /\ (e = max_epoch[t] /\ Holder(t) = w) \/ e = max_epoch[t] + 1
  BY <1>0, <1>1, <1>2, ClaimEffect
<1>4. LeaseTypeOK' /\ LeasesMatchEpochs'
  BY <1>1, <1>2, ClaimKeepsShape
<1>5. tok \in Token
  BY <1>3 DEF Token
<1>6. TypeOK'
  BY <1>1, <1>2, <1>4, <1>5 DEF LeaseInvariant, TypeOK
<1>7. \A a \in issued :
         a \in Token /\ a.task \in Tasks /\ a.worker \in Workers /\ a.epoch \in Nat
  BY DEF LeaseInvariant, TypeOK, Token
<1>8. Fenced(t, w, e)'
  BY <1>0, <1>1, <1>2, ClaimKeepsFenced
<1>9. \A a \in issued : Fenced(a.task, a.worker, a.epoch)'
  <2>1. \A u \in Tasks, v \in Workers, f \in Nat : Fenced(u, v, f) => Fenced(u, v, f)'
    BY <1>0, <1>1, <1>2, ClaimKeepsFenced
  <2> QED
    BY <1>7, <2>1 DEF LeaseInvariant
<1>10. (\A a \in issued : Fenced(a.task, a.worker, a.epoch))'
  BY <1>1, <1>8, <1>9
<1>11. \A a \in issued : a.task = t /\ a.epoch = e => a.worker = w
  <2> SUFFICES ASSUME NEW a \in issued, a.task = t, a.epoch = e
               PROVE  a.worker = w
    OBVIOUS
  <2>1. e <= max_epoch[t] /\ (e = max_epoch[t] => Holder(t) = a.worker)
    BY DEF LeaseInvariant, Fenced
  <2> QED
    BY <1>2, <1>3, <2>1 DEF LeaseTypeOK
<1>12. OneOwnerPerEpoch'
  BY <1>1, <1>11 DEF LeaseInvariant, OneOwnerPerEpoch
<1> QED
  BY <1>4, <1>6, <1>10, <1>12 DEF LeaseInvariant

(* LeaseInvariant is inductive: claims keep it, and the other steps leave  *)
(* what it talks about alone or move the clock within Times.               *)
LEMMA InvariantStep == LeaseInvariant /\ [Next]_vars => LeaseInvariant'
<1> SUFFICES ASSUME LeaseInvariant, [Next]_vars
             PROVE  LeaseInvariant'
  OBVIOUS
<1>1. ASSUME NEW w \in Workers, NEW t \in Tasks, NEW ttl \in Ttls,
             WorkerClaims(w, t, ttl)
      PROVE  LeaseInvariant'
  BY <1>1, ClaimKeepsInvariant
<1>2. CASE ClockMoves \/ UNCHANGED vars
  <2>1. UNCHANGED <<leases, max_epoch, issued>> /\ clock' \in Times
    BY <1>2 DEF ClockMoves, vars, LeaseInvariant, TypeOK
  <2> QED
    BY <2>1 DEF LeaseInvariant, TypeOK, LeaseTypeOK, LeasesMatchEpochs,
                OneOwnerPerEpoch, Fenced, Holder
<1> QED
  BY <1>1, <1>2 DEF Next

(* LeaseInvariant holds in every reachable state. *)
THEOREM InvariantAlways == Spec => []LeaseInvariant
<1> QED
  BY InvariantInit, InvariantStep, PTL DEF Spec

-----------------------------------------------------------------------------
(* The manager's dictionaries keep the shape lease.py gives them. *)
THEOREM TypeCorrect == Spec => []TypeOK
<1>1. LeaseInvariant => TypeOK
  BY DEF LeaseInvariant
<1> QED
  BY <1>1, InvariantAlways, PTL

(* claim() never returns the same epoch of a task to two workers, however  *)
(* many workers there are and whatever the clock does.                     *)
THEOREM OneOwnerPerEpochAlways == Spec => []OneOwnerPerEpoch
<1>1. LeaseInvariant => OneOwnerPerEpoch
  BY DEF LeaseInvariant
<1> QED
  BY <1>1, InvariantAlways, PTL

(* Comparing a token with current_epoch() is as good as asking holder():   *)
(* the reason the verifier need not look at the holder or the expiry.      *)
THEOREM CurrentTokenIsHoldersAlways == Spec => []CurrentTokenIsHolders
<1>1. LeaseInvariant => CurrentTokenIsHolders
  BY DEF LeaseInvariant, Fenced, CurrentTokenIsHolders, CurrentEpoch
<1> QED
  BY <1>1, InvariantAlways, PTL

(* A superseded token stays superseded: epochs of a task never go back to  *)
(* a value that some claim has returned before.                            *)
THEOREM SupersededForeverAlways == Spec => SupersededForever
<1>1. ASSUME LeaseInvariant, [Next]_vars
      PROVE  [\A a \in issued : a.epoch # CurrentEpoch(a.task)
                                  => a.epoch # CurrentEpoch(a.task)']_vars
  <2> SUFFICES ASSUME NEW a \in issued, a.epoch # max_epoch[a.task], Next
               PROVE  a.epoch # max_epoch'[a.task]
    BY <1>1 DEF CurrentEpoch
  <2>1. /\ a \in Token
        /\ a.epoch <= max_epoch[a.task]
        /\ max_epoch \in [Tasks -> Nat]
    BY <1>1 DEF LeaseInvariant, TypeOK, LeaseTypeOK, Fenced
  <2>2. ASSUME NEW w \in Workers, NEW t \in Tasks, NEW ttl \in Ttls,
               WorkerClaims(w, t, ttl)
        PROVE  max_epoch'[a.task] \in Nat /\ max_epoch[a.task] <= max_epoch'[a.task]
    <3>1. /\ LeaseTypeOK /\ LeasesMatchEpochs
          /\ clock \in Int /\ ttl \in Int /\ Claim(t, w, ttl, clock)
      BY <1>1, <2>2, TimesAssumption, TtlsAssumption
         DEF LeaseInvariant, TypeOK, WorkerClaims
    <3>2. /\ max_epoch' = [max_epoch EXCEPT ![t] = ClaimedEpoch(t, clock)]
          /\ ClaimedEpoch(t, clock) \in {max_epoch[t], max_epoch[t] + 1}
      BY <3>1, ClaimEffect
    <3> QED
      BY <2>1, <3>2 DEF Token
  <2>3. CASE ClockMoves
    BY <2>3 DEF ClockMoves
  <2> QED
    BY <2>1, <2>2, <2>3 DEF Next, Token
<1> QED
  BY <1>1, InvariantAlways, PTL DEF Spec, SupersededForever

(* LeaseManager implements the abstract fencing token: it never hands a    *)
(* task over without raising its epoch by exactly one.                     *)
THEOREM Refinement == Spec => ImplementsFencingToken
<1> DEFINE owners == [t \in Tasks |-> Holder(t)]
<1>1. Init => Fencing!Init
  BY DEF Init, LeaseInit, Fencing!Init, Holder
<1>2. ASSUME LeaseInvariant, [Next]_vars
      PROVE  [Fencing!Next]_(Fencing!vars)
  <2>1. ASSUME NEW w \in Workers, NEW t \in Tasks, NEW ttl \in Ttls,
               WorkerClaims(w, t, ttl)
        PROVE  [Fencing!Next]_(Fencing!vars)
    <3>1. /\ LeaseTypeOK /\ LeasesMatchEpochs
          /\ clock \in Int /\ ttl \in Int /\ Claim(t, w, ttl, clock)
      BY <1>2, <2>1, TimesAssumption, TtlsAssumption
         DEF LeaseInvariant, TypeOK, WorkerClaims
    <3>2. max_epoch \in [Tasks -> Nat]
      BY <3>1 DEF LeaseTypeOK
    <3>3. owners' = [owners EXCEPT ![t] = w]
      BY <3>1, ClaimKeepsShape
    <3>4. /\ max_epoch' = [max_epoch EXCEPT ![t] = ClaimedEpoch(t, clock)]
          /\ \/ ClaimedEpoch(t, clock) = max_epoch[t] /\ Holder(t) = w
             \/ ClaimedEpoch(t, clock) = max_epoch[t] + 1
      BY <3>1, ClaimEffect
    <3>5. CASE ClaimedEpoch(t, clock) = max_epoch[t] + 1
      BY <3>2, <3>3, <3>4, <3>5 DEF Fencing!Next, Fencing!Grant
    <3>6. CASE ClaimedEpoch(t, clock) = max_epoch[t] /\ Holder(t) = w
      BY <3>2, <3>3, <3>4, <3>6 DEF Fencing!vars
    <3> QED
      BY <3>4, <3>5, <3>6
  <2>2. CASE ClockMoves \/ UNCHANGED vars
    BY <2>2 DEF ClockMoves, vars, Fencing!vars, Holder
  <2> QED
    BY <1>2, <2>1, <2>2 DEF Next
<1> QED
  BY <1>1, <1>2, InvariantAlways, PTL DEF Spec, ImplementsFencingToken, Fencing!Spec
=============================================================================
