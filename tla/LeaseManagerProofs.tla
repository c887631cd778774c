------------------------- MODULE LeaseManagerProofs -------------------------
(***************************************************************************)
(* What one claim does to the manager's state and to the tokens already in *)
(* circulation.  LeaseProofs and HarnessProofs build on these lemmas.      *)
(***************************************************************************)
EXTENDS LeaseManager, TLAPS

(* A claim by w on t that is not refused, renewal and grant alike: the     *)
(* lease becomes w's, under an epoch that is the current one (and was w's  *)
(* already) or the next.                                                   *)
LEMMA ClaimEffect ==
    ASSUME LeaseTypeOK, LeasesMatchEpochs,
           NEW w \in Workers, NEW t \in Tasks, NEW ttl \in Int, NEW now \in Int,
           Claim(t, w, ttl, now)
    PROVE  /\ ClaimedEpoch(t, now) \in Nat \ {0}
           /\ max_epoch' = [max_epoch EXCEPT ![t] = ClaimedEpoch(t, now)]
           /\ leases' = [leases EXCEPT ![t] =
                            [holder     |-> w,
                             epoch      |-> ClaimedEpoch(t, now),
                             expires_at |-> now + ttl]]
           /\ \/ ClaimedEpoch(t, now) = max_epoch[t] /\ Holder(t) = w
              \/ ClaimedEpoch(t, now) = max_epoch[t] + 1
<1>1. max_epoch \in [Tasks -> Nat] /\ leases \in [Tasks -> Lease \cup {NoLease}]
  BY DEF LeaseTypeOK
<1>2. CASE Renew(t, w, ttl, now)
  <2>1. leases[t] \in Lease /\ leases[t] # NoLease
    BY <1>1, <1>2 DEF Renew, Live
  <2>2. leases[t].epoch = max_epoch[t]
    BY <2>1 DEF LeasesMatchEpochs
  <2>3. ClaimedEpoch(t, now) = leases[t].epoch
    BY <1>2 DEF Renew, ClaimedEpoch
  <2>4. max_epoch' = [max_epoch EXCEPT ![t] = ClaimedEpoch(t, now)]
    BY <1>1, <1>2, <2>2, <2>3 DEF Renew
  <2>5. [leases[t] EXCEPT !.expires_at = now + ttl]
           = [holder |-> w, epoch |-> leases[t].epoch, expires_at |-> now + ttl]
    BY <2>1, <1>2 DEF Renew, Lease
  <2>6. leases' = [leases EXCEPT ![t] = [holder     |-> w,
                                         epoch      |-> ClaimedEpoch(t, now),
                                         expires_at |-> now + ttl]]
    BY <1>1, <1>2, <2>3, <2>5 DEF Renew
  <2>7. Holder(t) = w
    BY <1>2, <2>1 DEF Renew, Holder
  <2> QED
    BY <2>1, <2>2, <2>3, <2>4, <2>6, <2>7 DEF Lease
<1>3. CASE Grant(t, w, ttl, now)
  <2>1. ClaimedEpoch(t, now) = max_epoch[t] + 1
    BY <1>3 DEF Grant, ClaimedEpoch
  <2> QED
    BY <1>1, <1>3, <2>1 DEF Grant
<1> QED
  BY <1>2, <1>3 DEF Claim

(* The types and the agreement of the two dictionaries survive a claim,    *)
(* the claimer is the holder afterwards and nobody else's holder changes.  *)
LEMMA ClaimKeepsShape ==
    ASSUME LeaseTypeOK, LeasesMatchEpochs,
           NEW w \in Workers, NEW t \in Tasks, NEW ttl \in Int, NEW now \in Int,
           Claim(t, w, ttl, now)
    PROVE  /\ LeaseTypeOK'
           /\ LeasesMatchEpochs'
           /\ \A u \in Tasks : Holder(u)' = IF u = t THEN w ELSE Holder(u)
<1> DEFINE e == ClaimedEpoch(t, now)
           l == [holder |-> w, epoch |-> e, expires_at |-> now + ttl]
<1>1. /\ e \in Nat \ {0}
      /\ max_epoch' = [max_epoch EXCEPT ![t] = e]
      /\ leases' = [leases EXCEPT ![t] = l]
  BY ClaimEffect
<1> HIDE DEF e
<1>2. max_epoch \in [Tasks -> Nat] /\ leases \in [Tasks -> Lease \cup {NoLease}]
  BY DEF LeaseTypeOK
<1>3. l \in Lease /\ l # NoLease /\ l.holder = w /\ l.epoch = e
  BY <1>1, NoLeaseAssumption DEF Lease
<1> HIDE DEF l
<1>4. LeaseTypeOK'
  BY <1>1, <1>2, <1>3 DEF LeaseTypeOK
<1>5. LeasesMatchEpochs'
  BY <1>1, <1>2, <1>3 DEF LeasesMatchEpochs
<1>6. \A u \in Tasks : Holder(u)' = IF u = t THEN w ELSE Holder(u)
  BY <1>1, <1>2, <1>3 DEF Holder
<1> QED
  BY <1>4, <1>5, <1>6

(* A claim keeps every token in circulation fenced, and fences its own. *)
LEMMA ClaimKeepsFenced ==
    ASSUME LeaseTypeOK, LeasesMatchEpochs,
           NEW w \in Workers, NEW t \in Tasks, NEW ttl \in Int, NEW now \in Int,
           Claim(t, w, ttl, now),
           NEW e, e = ClaimedEpoch(t, now)
    PROVE  /\ Fenced(t, w, e)'
           /\ \A u \in Tasks, v \in Workers, f \in Nat :
                 Fenced(u, v, f) => Fenced(u, v, f)'
<1>1. /\ e \in Nat \ {0}
      /\ max_epoch' = [max_epoch EXCEPT ![t] = e]
      /\ \/ e = max_epoch[t] /\ Holder(t) = w
         \/ e = max_epoch[t] + 1
  BY ClaimEffect
<1>2. \A u \in Tasks : Holder(u)' = IF u = t THEN w ELSE Holder(u)
  BY ClaimKeepsShape
<1>3. max_epoch \in [Tasks -> Nat]
  BY DEF LeaseTypeOK
<1>4. Fenced(t, w, e)'
  BY <1>1, <1>2, <1>3 DEF Fenced
<1>5. ASSUME NEW u \in Tasks, NEW v \in Workers, NEW f \in Nat, Fenced(u, v, f)
      PROVE  Fenced(u, v, f)'
  <2>1. f <= max_epoch[u] /\ (f = max_epoch[u] => Holder(u) = v)
    BY <1>5 DEF Fenced
  <2>2. CASE u # t
    BY <1>1, <1>2, <1>3, <2>1, <2>2 DEF Fenced
  <2>3. CASE u = t
    BY <1>1, <1>2, <1>3, <2>1, <2>3 DEF Fenced
  <2> QED
    BY <2>2, <2>3
<1> QED
  BY <1>4, <1>5
=============================================================================
