---------------------------- MODULE HarnessProofs ----------------------------
(***************************************************************************)
(* Proofs about Harness, for any workers, specs, fixtures and bounds.      *)
(* HarnessInvariant is inductive; what the ledger promises follows from    *)
(* it: some of it with restarts and receipts signed again, the rest when   *)
(* no receipt is signed twice, or when the lease manager survives.  About  *)
(* Detects, which has the real fixtures: what is recorded is right, and    *)
(* what an honest worker makes gets in.                                    *)
(*                                                                         *)
(* From Scenarios on it is about Adversary, which runs a Harness: what of  *)
(* a receipt is not as its worker signed it, the verifier does not accept; *)
(* and every scenario of the table comes out as it is documented.          *)
(***************************************************************************)
EXTENDS Adversary, LeaseManagerProofs, CommonProofs

(* The parts of the verdict the ledger's properties rest on. *)
LEMMA AcceptedFacts ==
    ASSUME NEW r, NEW spec, Accepted(r, SubmissionContext(spec))
    PROVE  /\ ~ SeenNonce(entries, r.nonce)
           /\ r.prev_ledger_hash = HeadHash(entries)
           /\ r.outcome = "success" =>
                 \/ Successes(entries, r.task_id) = {}
                 \/ TerminalReceiptFor(entries, r.task_id).receipt_id = r.receipt_id
           /\ r.task_id \in DOMAIN max_epoch => r.lease_epoch = max_epoch[r.task_id]
<1> DEFINE ctx == SubmissionContext(spec)
<1>2. Ok(Report(r, ctx))
  BY DEF Accepted
<1>3. /\ NonceUnseen(r, ctx) # "fail"
      /\ PrevLedgerHashMatches(r, ctx) # "fail"
      /\ NoDuplicateCompletion(r, ctx) # "fail"
      /\ LeaseEpochCurrent(r, ctx) # "fail"
  BY <1>2 DEF Ok, Report
<1>4. /\ Has(ctx, "ledger") /\ Has(ctx, "head") /\ Has(ctx, "leases")
      /\ ctx.ledger = entries /\ ctx.head = HeadHash(entries)
      /\ ctx.epochs = max_epoch
  BY DEF SubmissionContext, Has
<1> HIDE DEF ctx
<1>5. ~ SeenNonce(entries, r.nonce)
  BY <1>3, <1>4 DEF NonceUnseen, CheckIf, CheckOf
<1>6. r.prev_ledger_hash = HeadHash(entries)
  BY <1>3, <1>4 DEF PrevLedgerHashMatches, CheckIf, CheckOf
<1>7. r.outcome = "success" =>
         \/ Successes(entries, r.task_id) = {}
         \/ TerminalReceiptFor(entries, r.task_id).receipt_id = r.receipt_id
  BY <1>3, <1>4 DEF NoDuplicateCompletion, CheckIf, CheckOf, Succeeded
<1>8. r.task_id \in DOMAIN max_epoch => r.lease_epoch = max_epoch[r.task_id]
  BY <1>3, <1>4 DEF LeaseEpochCurrent, CheckIf, CheckOf
<1> QED
  BY <1>5, <1>6, <1>7, <1>8

(* Signing adds the signature and keeps every other field. *)
LEMMA SignedFields ==
    ASSUME NEW w, NEW b, "signature" \notin DOMAIN b
    PROVE  /\ DOMAIN Signed(w, b) = DOMAIN b \cup {"signature"}
           /\ \A f \in DOMAIN b : Signed(w, b)[f] = b[f]
BY DEF Signed

(* What a finished run's receipt says. *)
LEMMA FinishedReceipt ==
    ASSUME NEW w, NEW res
    PROVE  LET s == Signed(w, Body(w, res))
           IN  /\ DOMAIN s = Required \cup {"signature"}
               /\ s.receipt_id = signed + 1 /\ s.nonce = signed + 1
               /\ s.task_id = TaskIdFor(run[w].spec)
               /\ s.worker_id = w
               /\ s.lease_epoch = run[w].lease_epoch
               /\ s.outcome = res.outcome
               /\ s.started_at = run[w].started_at
               /\ s.finished_at = res.finished_at
               /\ s.deadline_at = run[w].started_at + Deadline
               /\ s.prev_ledger_hash = HeadHash(entries)
<1> DEFINE b == Body(w, res)
<1>1. /\ DOMAIN b = Required
      /\ b.receipt_id = signed + 1 /\ b.nonce = signed + 1
      /\ b.task_id = TaskIdFor(run[w].spec)
      /\ b.worker_id = w
      /\ b.lease_epoch = run[w].lease_epoch
      /\ b.outcome = res.outcome
      /\ b.started_at = run[w].started_at
      /\ b.finished_at = res.finished_at
      /\ b.deadline_at = run[w].started_at + Deadline
      /\ b.prev_ledger_hash = HeadHash(entries)
  BY DEF Body, ReceiptBody, Required
<1> HIDE DEF b
<1>2. /\ DOMAIN Signed(w, b) = DOMAIN b \cup {"signature"}
      /\ \A f \in DOMAIN b : Signed(w, b)[f] = b[f]
  <2>1. "signature" \notin DOMAIN b
    BY <1>1 DEF Required
  <2> QED
    BY <2>1, SignedFields
<1> QED
  BY <1>1, <1>2 DEF b, Required

(* What a receipt says after it has been signed again. *)
RefreshedBody(r) == [SigningPayload(r) EXCEPT !.nonce = signed + 1,
                                              !.prev_ledger_hash = HeadHash(entries)]

(* It keeps every other field.                                             *)
LEMMA RefreshedReceipt ==
    ASSUME NEW r, DOMAIN r = Required \cup {"signature"}
    PROVE  LET s == Signed(r.worker_id, RefreshedBody(r))
           IN  /\ DOMAIN s = DOMAIN r
               /\ s.nonce = signed + 1
               /\ s.prev_ledger_hash = HeadHash(entries)
               /\ \A f \in DOMAIN r \ {"nonce", "prev_ledger_hash", "signature"} :
                     s[f] = r[f]
<1> DEFINE b == RefreshedBody(r)
<1>1. /\ DOMAIN b = Required
      /\ b.nonce = signed + 1
      /\ b.prev_ledger_hash = HeadHash(entries)
      /\ \A f \in Required \ {"nonce", "prev_ledger_hash"} : b[f] = r[f]
  BY DEF RefreshedBody, SigningPayload, Required
<1> HIDE DEF b
<1>2. /\ DOMAIN Signed(r.worker_id, b) = DOMAIN b \cup {"signature"}
      /\ \A f \in DOMAIN b : Signed(r.worker_id, b)[f] = b[f]
  <2>1. "signature" \notin DOMAIN b
    BY <1>1 DEF Required
  <2> QED
    BY <2>1, SignedFields
<1> QED
  BY <1>1, <1>2 DEF b, Required

-----------------------------------------------------------------------------
(* Nonces count the receipts.                                              *)
LEMMA NonceIsNat == ASSUME TypeOK, NEW r \in wire PROVE r.nonce \in Nat
<1>1. SignedReceipt(r) /\ signed \in Nat
  BY DEF TypeOK
<1>2. r.nonce \in 1..signed
  BY <1>1, Zenon DEF SignedReceipt
<1> QED
  BY <1>1, <1>2

(* The head of the ledger is a hash, be the ledger empty or not.           *)
LEMMA HeadIsHash == TypeOK => HeadHash(entries) \in Hash
<1> SUFFICES ASSUME TypeOK PROVE HeadHash(entries) \in Hash
  OBVIOUS
<1>1. CASE entries = << >>
  BY <1>1 DEF HeadHash, GENESIS, Hash
<1>2. CASE entries # << >>
  <2>1. entries \in Seq(Entry) /\ Len(entries) \in 1..Len(entries)
    BY <1>2, EmptySeq, LenProperties DEF TypeOK
  <2>2. entries[Len(entries)] \in Entry
    BY <2>1, ElementOfSeq
  <2> QED
    BY <1>2, <2>2 DEF HeadHash, Entry
<1> QED
  BY <1>1, <1>2

(* New receipts on the wire leave the type of the old entries alone. *)
LEMMA EntriesKeepType ==
    ASSUME TypeOK, wire \subseteq wire', UNCHANGED entries
    PROVE  entries' \in Seq(Entry')
<1>1. Entry \subseteq Entry'
  BY DEF Entry
<1>2. entries \in Seq(Entry)
  BY DEF TypeOK
<1> QED
  BY <1>1, <1>2, SeqMonotonic

(* A receipt stays one when more receipts are signed. *)
LEMMA SignedReceiptStays ==
    ASSUME NEW r, SignedReceipt(r), signed \in Nat, signed' \in Nat, signed <= signed'
    PROVE  SignedReceipt(r)'
BY DEF SignedReceipt

(* Nothing is owned, signed or recorded yet.                               *)
LEMMA InvariantInit == Init => HarnessInvariant
<1> SUFFICES ASSUME Init PROVE HarnessInvariant
  OBVIOUS
<1>1. entries = << >> /\ wire = {} /\ signed = 0 /\ clock = 0 /\ restarts = 0
      /\ run = [w \in Workers |-> NoRun]
  BY DEF Init
<1>2. LeaseTypeOK /\ LeasesMatchEpochs
  BY DEF Init, LeaseInit, LeaseTypeOK, LeasesMatchEpochs
<1>3. TypeOK
  <2>1. entries \in Seq(Entry)
    BY <1>1, EmptySeq
  <2> QED
    BY <1>1, <1>2, <2>1, BoundsAssumption DEF TypeOK
<1>4. IdsNameReceipts /\ TokensFenced
  BY <1>1 DEF IdsNameReceipts, TokensFenced
<1>5. DOMAIN entries = {}
  BY <1>1
<1>6. LedgerInvariant
  BY <1>5 DEF LedgerInvariant, RecordedOnce, SuccessesShareReceipt, Successes
<1> QED
  BY <1>2, <1>3, <1>4, <1>6 DEF HarnessInvariant

(* The clock moves, a run dies, the process restarts. *)
LEMMA QuietStepsKeepInvariant ==
    ASSUME HarnessInvariant,
           Tick \/ Restart \/ (\E w \in Workers : Crash(w)) \/ UNCHANGED vars
    PROVE  HarnessInvariant'
<1>1. UNCHANGED <<entries, wire, signed>>
  BY DEF Tick, Restart, Crash, vars
<1>2. LedgerInvariant' /\ IdsNameReceipts'
  BY <1>1 DEF HarnessInvariant, LedgerInvariant, RecordedOnce, Recorded,
              SuccessesShareReceipt, IdsNameReceipts
<1>3. LeaseTypeOK' /\ LeasesMatchEpochs'
  <2>1. CASE Restart
    BY <2>1 DEF Restart, LeaseTypeOK, LeasesMatchEpochs
  <2>2. CASE UNCHANGED <<leases, max_epoch>>
    BY <2>2 DEF HarnessInvariant, TypeOK, LeaseTypeOK, LeasesMatchEpochs
  <2> QED
    BY <2>1, <2>2 DEF Tick, Crash, vars
<1>4. /\ clock' \in Nat /\ restarts' \in 0..MaxRestarts
      /\ run' \in [Workers -> Run \cup {NoRun}]
  BY BoundsAssumption DEF HarnessInvariant, TypeOK, Tick, Restart, Crash, vars
<1>5. (\A r \in wire : SignedReceipt(r))'
  BY <1>1 DEF HarnessInvariant, TypeOK, SignedReceipt
<1>6. TypeOK'
  <2>1. TypeOK
    BY DEF HarnessInvariant
  <2>2. entries' \in Seq(Entry')
    BY <1>1, <2>1, EntriesKeepType
  <2>3. signed' \in Nat
    BY <1>1, <2>1 DEF TypeOK
  <2> QED
    BY <1>3, <1>4, <1>5, <2>2, <2>3 DEF TypeOK
<1>7. TokensFenced'
  <2> SUFFICES ASSUME MaxRestarts = 0 PROVE TokensFenced'
    BY DEF TokensFenced
  <2>1. ~ Restart
    BY DEF Restart, HarnessInvariant, TypeOK
  <2>2. UNCHANGED <<leases, max_epoch, wire>>
    BY <2>1 DEF Tick, Crash, vars
  <2>3. \A w \in Workers : run'[w] # NoRun => run'[w] = run[w]
    BY <2>1 DEF Tick, Crash, vars, HarnessInvariant, TypeOK
  <2>4. /\ \A w \in Workers : run[w] # NoRun =>
                Fenced(TaskIdFor(run[w].spec), w, run[w].lease_epoch)
        /\ \A r \in wire : Fenced(r.task_id, r.worker_id, r.lease_epoch)
    BY DEF HarnessInvariant, TokensFenced
  <2> QED
    BY <2>2, <2>3, <2>4 DEF TokensFenced, Fenced, Holder
<1> QED
  BY <1>2, <1>3, <1>6, <1>7 DEF HarnessInvariant

(* A claim fences the new run and keeps everything else fenced. *)
LEMMA StartRunKeepsInvariant ==
    ASSUME HarnessInvariant, NEW w \in Workers, NEW spec \in Specs, StartRun(w, spec)
    PROVE  HarnessInvariant'
<1>0. PICK t \in Tasks : t = TaskIdFor(spec)
  BY SpecsAssumption
<1>1. PICK e : e = ClaimedEpoch(t, clock)
  OBVIOUS
<1>2. /\ Claim(t, w, Ttl, clock)
      /\ run' = [run EXCEPT ![w] =
                    [spec |-> spec, lease_epoch |-> e, started_at |-> clock]]
      /\ UNCHANGED <<clock, entries, wire, signed, restarts>>
  BY <1>0, <1>1 DEF StartRun
<1>3. /\ LeaseTypeOK /\ LeasesMatchEpochs
      /\ clock \in Nat /\ clock \in Int /\ Ttl \in Int
      /\ run \in [Workers -> Run \cup {NoRun}]
  BY TimingAssumption DEF HarnessInvariant, TypeOK
<1>4. e \in Nat \ {0}
  BY <1>1, <1>2, <1>3, ClaimEffect
<1>5. LeaseTypeOK' /\ LeasesMatchEpochs'
  BY <1>2, <1>3, ClaimKeepsShape
<1>6. /\ Fenced(t, w, e)'
      /\ \A u \in Tasks, v \in Workers, f \in Nat : Fenced(u, v, f) => Fenced(u, v, f)'
  BY <1>1, <1>2, <1>3, ClaimKeepsFenced
<1>7. [spec |-> spec, lease_epoch |-> e, started_at |-> clock] \in Run
  <2>1. spec.name \in Registered
    BY DEF StartRun
  <2> QED
    BY <1>3, <1>4, <2>1 DEF Run
<1>8. run' \in [Workers -> Run \cup {NoRun}]
  BY <1>2, <1>3, <1>7
<1>9. TypeOK'
  <2>1. entries' \in Seq(Entry')
    BY <1>2, EntriesKeepType DEF HarnessInvariant
  <2>2. (\A r \in wire : SignedReceipt(r))'
    BY <1>2 DEF HarnessInvariant, TypeOK, SignedReceipt
  <2> QED
    BY <1>2, <1>5, <1>8, <2>1, <2>2 DEF HarnessInvariant, TypeOK
<1>10. TokensFenced'
  <2> SUFFICES ASSUME MaxRestarts = 0
               PROVE  /\ \A v \in Workers : run'[v] # NoRun =>
                            Fenced(TaskIdFor(run[v].spec), v, run[v].lease_epoch)'
                      /\ \A r \in wire : Fenced(r.task_id, r.worker_id, r.lease_epoch)'
    BY <1>2 DEF TokensFenced
  <2>1. ASSUME NEW v \in Workers, run'[v] # NoRun
        PROVE  Fenced(TaskIdFor(run[v].spec), v, run[v].lease_epoch)'
    <3>1. CASE v = w
      <4>1. run'[v].spec = spec /\ run'[v].lease_epoch = e
        BY <1>2, <1>3, <3>1
      <4>2. TaskIdFor(run[v].spec)' = t
        BY <1>0, <4>1 DEF TaskIdFor
      <4> QED
        BY <1>6, <3>1, <4>1, <4>2 DEF Fenced, Holder
    <3>2. CASE v # w
      <4>1. run'[v] = run[v] /\ run[v] \in Run
        BY <1>2, <1>3, <2>1, <3>2
      <4>2. PICK u \in Tasks, f \in Nat :
                u = TaskIdFor(run[v].spec) /\ f = run[v].lease_epoch
        BY <4>1, SpecsAssumption DEF Run
      <4>3. Fenced(u, v, f)
        BY <2>1, <4>1, <4>2 DEF HarnessInvariant, TokensFenced
      <4>4. Fenced(u, v, f)'
        BY <1>6, <4>3
      <4>5. TaskIdFor(run[v].spec)' = u /\ run'[v].lease_epoch = f
        BY <4>1, <4>2 DEF TaskIdFor
      <4> QED
        BY <4>4, <4>5 DEF Fenced, Holder
    <3> QED
      BY <3>1, <3>2
  <2>2. ASSUME NEW r \in wire
        PROVE  Fenced(r.task_id, r.worker_id, r.lease_epoch)'
    BY <1>6 DEF HarnessInvariant, TypeOK, TokensFenced, SignedReceipt
  <2> QED
    BY <2>1, <2>2
<1>11. IdsNameReceipts' /\ LedgerInvariant'
  BY <1>2 DEF HarnessInvariant, IdsNameReceipts, LedgerInvariant, RecordedOnce,
              Recorded, SuccessesShareReceipt
<1> QED
  BY <1>5, <1>9, <1>10, <1>11 DEF HarnessInvariant

(* What every step that puts one more receipt on the wire has to show: its *)
(* nonce is fresh, and its id is fresh or the receipt is an earlier one.   *)
LEMMA NewReceiptKeepsInvariant ==
    ASSUME HarnessInvariant, NEW s,
           wire' = wire \cup {s}, signed' = signed + 1,
           UNCHANGED <<leases, max_epoch, clock, entries, restarts>>,
           run' \in [Workers -> Run \cup {NoRun}],
           \A w \in Workers : run'[w] # NoRun => run'[w] = run[w],
           SignedReceipt(s)', s.nonce = signed + 1,
           \/ s.receipt_id = signed + 1
           \/ /\ MayRefresh
              /\ \E r \in wire : /\ s.receipt_id = r.receipt_id
                                 /\ s.task_id = r.task_id
                                 /\ s.worker_id = r.worker_id
                                 /\ s.lease_epoch = r.lease_epoch
                                 /\ s.outcome = r.outcome
                                 /\ s.output_digest = r.output_digest,
           MaxRestarts = 0 => Fenced(s.task_id, s.worker_id, s.lease_epoch)
    PROVE  HarnessInvariant'
<1>1. TypeOK /\ signed \in Nat /\ signed' \in Nat /\ signed <= signed'
  BY DEF HarnessInvariant, TypeOK
<1>2. \A r \in wire : SignedReceipt(r) /\ r.receipt_id \in 1..signed
  BY <1>1 DEF TypeOK, SignedReceipt
<1>3. \A r \in wire : SignedReceipt(r)'
  BY <1>1, <1>2, SignedReceiptStays
<1>4. LeaseTypeOK' /\ LeasesMatchEpochs'
  BY DEF HarnessInvariant, TypeOK, LeaseTypeOK, LeasesMatchEpochs
<1>5. TypeOK'
  <2>1. entries' \in Seq(Entry')
    BY <1>1, EntriesKeepType
  <2>2. (\A r \in wire : SignedReceipt(r))'
    BY <1>3 DEF SignedReceipt
  <2> QED
    BY <1>1, <1>4, <2>1, <2>2 DEF TypeOK
<1>6. IdsNameReceipts'
  <2>1. CASE s.receipt_id = signed + 1
    <3>1. \A r \in wire : r.receipt_id # s.receipt_id
      BY <1>1, <1>2, <2>1
    <3> QED
      BY <2>1, <3>1 DEF HarnessInvariant, IdsNameReceipts
  <2>2. CASE ~ (s.receipt_id = signed + 1)
    <3>1. MayRefresh
      BY <2>2
    <3>2. PICK r \in wire : /\ s.receipt_id = r.receipt_id
                            /\ s.task_id = r.task_id
                            /\ s.worker_id = r.worker_id
                            /\ s.lease_epoch = r.lease_epoch
                            /\ s.outcome = r.outcome
                            /\ s.output_digest = r.output_digest
      BY <2>2
    <3> QED
      BY <3>1, <3>2 DEF HarnessInvariant, IdsNameReceipts
  <2> QED
    BY <2>1, <2>2
<1>7. TokensFenced'
  BY DEF HarnessInvariant, TokensFenced, Fenced, Holder
<1>8. LedgerInvariant'
  BY DEF HarnessInvariant, LedgerInvariant, RecordedOnce, Recorded, SuccessesShareReceipt
<1> QED
  BY <1>4, <1>5, <1>6, <1>7, <1>8 DEF HarnessInvariant

(* A finished run signs a receipt with a fresh id under the run's token.   *)
LEMMA FinishRunKeepsInvariant ==
    ASSUME HarnessInvariant, NEW w \in Workers, run[w] # NoRun,
           NEW res \in ExecResults(w), FinishRun(w, res)
    PROVE  HarnessInvariant'
<1>0. PICK s : s = Signed(w, Body(w, res))
  OBVIOUS
<1>1. /\ wire' = wire \cup {s} /\ signed' = signed + 1
      /\ run' = [run EXCEPT ![w] = NoRun]
      /\ UNCHANGED <<leases, max_epoch, clock, entries, restarts>>
  BY <1>0 DEF FinishRun
<1>2. /\ DOMAIN s = Required \cup {"signature"}
      /\ s.receipt_id = signed + 1 /\ s.nonce = signed + 1
      /\ s.task_id = TaskIdFor(run[w].spec)
      /\ s.worker_id = w
      /\ s.lease_epoch = run[w].lease_epoch
      /\ s.outcome = res.outcome
      /\ s.started_at = run[w].started_at
      /\ s.finished_at = res.finished_at
      /\ s.deadline_at = run[w].started_at + Deadline
      /\ s.prev_ledger_hash = HeadHash(entries)
  BY <1>0, FinishedReceipt
<1>3. /\ TypeOK /\ signed \in Nat /\ clock \in Nat
      /\ run \in [Workers -> Run \cup {NoRun}]
  BY DEF HarnessInvariant, TypeOK
<1>4. run[w] \in Run
  BY <1>3
<1>5. /\ run[w].spec \in Specs /\ run[w].started_at \in Nat
      /\ run[w].lease_epoch \in Nat \ {0}
      /\ TaskIdFor(run[w].spec) \in Tasks
  BY <1>4, SpecsAssumption DEF Run
<1>6. res.outcome \in {"success", "failure", "timeout"} /\ res.finished_at \in Nat
  <2>1. /\ res.outcome \in {"success", "failure", "timeout"}
        /\ res.finished_at \in {run[w].started_at + Deadline, clock}
    BY DEF ExecResults
  <2> QED
    BY <1>3, <1>5, <2>1, TimingAssumption
<1>7. HeadHash(entries) \in Hash
  BY <1>3, HeadIsHash
<1>8. SignedReceipt(s)'
  BY <1>1, <1>2, <1>3, <1>5, <1>6, <1>7, TimingAssumption DEF SignedReceipt, Required
<1>9. run' \in [Workers -> Run \cup {NoRun}]
      /\ \A v \in Workers : run'[v] # NoRun => run'[v] = run[v]
  BY <1>1, <1>3
<1>10. MaxRestarts = 0 => Fenced(s.task_id, s.worker_id, s.lease_epoch)
  BY <1>2 DEF HarnessInvariant, TokensFenced
<1> QED
  BY <1>1, <1>2, <1>8, <1>9, <1>10, NewReceiptKeepsInvariant

(* A receipt signed again keeps its id and everything its id stands for.   *)
LEMMA RefreshKeepsInvariant ==
    ASSUME HarnessInvariant, NEW r \in wire, Refresh(r)
    PROVE  HarnessInvariant'
<1>0. PICK s : s = Signed(r.worker_id, RefreshedBody(r))
  OBVIOUS
<1>1. /\ MayRefresh
      /\ wire' = wire \cup {s} /\ signed' = signed + 1
      /\ UNCHANGED <<leases, max_epoch, clock, entries, run, restarts>>
  BY <1>0 DEF Refresh, RefreshedBody
<1>2. SignedReceipt(r) /\ TypeOK /\ signed \in Nat
  BY DEF HarnessInvariant, TypeOK
<1>3. DOMAIN r = Required \cup {"signature"}
  BY <1>2 DEF SignedReceipt, Required
<1>4. /\ DOMAIN s = DOMAIN r
      /\ s.nonce = signed + 1
      /\ s.prev_ledger_hash = HeadHash(entries)
      /\ \A f \in DOMAIN r \ {"nonce", "prev_ledger_hash", "signature"} : s[f] = r[f]
  BY <1>0, <1>3, RefreshedReceipt
<1>5. /\ s.receipt_id = r.receipt_id /\ s.task_id = r.task_id
      /\ s.worker_id = r.worker_id /\ s.lease_epoch = r.lease_epoch
      /\ s.outcome = r.outcome /\ s.output_digest = r.output_digest
      /\ s.started_at = r.started_at /\ s.finished_at = r.finished_at
      /\ s.deadline_at = r.deadline_at
  BY <1>3, <1>4 DEF Required
<1>6. HeadHash(entries) \in Hash
  BY <1>2, HeadIsHash
<1>7. SignedReceipt(s)'
  BY <1>1, <1>2, <1>4, <1>5, <1>6 DEF SignedReceipt
<1>8. run' \in [Workers -> Run \cup {NoRun}]
      /\ \A v \in Workers : run'[v] # NoRun => run'[v] = run[v]
  BY <1>1 DEF HarnessInvariant, TypeOK
<1>9. MaxRestarts = 0 => Fenced(s.task_id, s.worker_id, s.lease_epoch)
  BY <1>5 DEF HarnessInvariant, TokensFenced
<1> QED
  BY <1>1, <1>4, <1>5, <1>7, <1>8, <1>9, NewReceiptKeepsInvariant

(* What an accepted submission does to the ledger. *)
LEMMA AppendedEntry ==
    ASSUME TypeOK, NEW r \in wire, wire' = wire,
           entries' = Append(entries, NewEntry(entries, r, r.nonce))
    PROVE  /\ entries' \in Seq(Entry')
           /\ Len(entries) \in Nat /\ Len(entries') = Len(entries) + 1
           /\ DOMAIN entries = 1..Len(entries)
           /\ DOMAIN entries' = 1..(Len(entries) + 1)
           /\ \A i \in 1..Len(entries) : entries'[i] = entries[i]
           /\ entries'[Len(entries) + 1] = NewEntry(entries, r, r.nonce)
<1> DEFINE e == NewEntry(entries, r, r.nonce)
<1>1. entries \in Seq(Entry) /\ Len(entries) \in Nat
  BY LenProperties DEF TypeOK
<1>2. HeadHash(entries) \in Hash
  BY HeadIsHash
<1>3. Digest(HeadHash(entries), Len(entries), r.nonce) \in Hash
  <2>1. r.nonce \in Nat
    BY DEF TypeOK, SignedReceipt
  <2>2. <<Len(entries), r.nonce>> \in Nat \X Nat
    BY <1>1, <2>1
  <2> QED
    BY <1>2, <2>2, AppendProperties DEF Digest, Hash
<1>4. e \in Entry
  BY <1>1, <1>2, <1>3 DEF NewEntry, Entry
<1>5. Entry' = Entry
  BY DEF Entry
<1> HIDE DEF e
<1> QED
  BY <1>1, <1>4, <1>5, AppendedLog DEF e

(* What is accepted has a fresh nonce, and its task no success but its     *)
(* own.                                                                    *)
LEMMA SubmitKeepsInvariant ==
    ASSUME HarnessInvariant, NEW r \in wire, NEW spec \in Specs, Submit(r, spec)
    PROVE  HarnessInvariant'
<1>1. UNCHANGED <<leases, max_epoch, clock, run, wire, signed, restarts>>
  BY DEF Submit
<1>2. TypeOK
  BY DEF HarnessInvariant
<1>3. LeaseTypeOK' /\ LeasesMatchEpochs'
  BY <1>1, <1>2 DEF HarnessInvariant, TypeOK, LeaseTypeOK, LeasesMatchEpochs
<1>4. IdsNameReceipts' /\ TokensFenced'
  BY <1>1 DEF HarnessInvariant, IdsNameReceipts, TokensFenced, Fenced, Holder
<1>5. (\A q \in wire : SignedReceipt(q))'
  BY <1>1, <1>2 DEF TypeOK, SignedReceipt
<1>6. CASE entries' = entries
  <2>1. entries' \in Seq(Entry')
    BY <1>1, <1>2, <1>6, EntriesKeepType
  <2>2. TypeOK'
    BY <1>1, <1>2, <1>3, <1>5, <2>1 DEF TypeOK
  <2>3. LedgerInvariant'
    BY <1>6 DEF HarnessInvariant, LedgerInvariant, RecordedOnce, Recorded,
                SuccessesShareReceipt
  <2> QED
    BY <1>3, <1>4, <2>2, <2>3 DEF HarnessInvariant
<1>7. CASE /\ Accepted(r, SubmissionContext(spec))
           /\ entries' = Append(entries, NewEntry(entries, r, r.nonce))
  <2> DEFINE n == Len(entries)
  <2>1. /\ entries' \in Seq(Entry')
        /\ n \in Nat
        /\ DOMAIN entries = 1..n
        /\ DOMAIN entries' = 1..(n + 1)
        /\ \A i \in 1..n : entries'[i] = entries[i]
        /\ entries'[n + 1].receipt = r
    BY <1>1, <1>2, <1>7, AppendedEntry DEF NewEntry
  <2> HIDE DEF n
  <2>2. TypeOK'
    BY <1>1, <1>2, <1>3, <1>5, <2>1 DEF TypeOK
  <2>3. /\ ~ SeenNonce(entries, r.nonce)
        /\ r.outcome = "success" =>
              \/ Successes(entries, r.task_id) = {}
              \/ TerminalReceiptFor(entries, r.task_id).receipt_id = r.receipt_id
    BY <1>7, AcceptedFacts
  <2>4. \A i \in 1..n : entries[i].receipt \in wire
    <3>1. \A i \in 1..n : entries[i] \in Entry
      BY <1>2, ElementOfSeq DEF TypeOK, n
    <3> QED
      BY <3>1 DEF Entry
  <2>5. RecordedOnce'
    <3>1. \A i \in 1..n : entries[i].receipt.nonce # r.nonce
      BY <2>1, <2>3 DEF SeenNonce
    <3>2. \A i, j \in 1..n :
             entries[i].receipt.nonce = entries[j].receipt.nonce => i = j
      BY <2>1 DEF HarnessInvariant, LedgerInvariant, RecordedOnce, Recorded
    <3>3. \A i \in 1..(n + 1) : i \in 1..n \/ i = n + 1
      BY <2>1
    <3> QED
      BY <2>1, <3>1, <3>2, <3>3 DEF RecordedOnce, Recorded
  <2>6. \A i \in 1..n :
           /\ entries[i].receipt.task_id = r.task_id
           /\ entries[i].receipt.outcome = "success"
           /\ r.outcome = "success"
           => /\ entries[i].receipt.receipt_id = r.receipt_id
              /\ entries[i].receipt.worker_id = r.worker_id
              /\ entries[i].receipt.output_digest = r.output_digest
    <3> SUFFICES ASSUME NEW i \in 1..n,
                        entries[i].receipt.task_id = r.task_id,
                        entries[i].receipt.outcome = "success",
                        r.outcome = "success"
                 PROVE  /\ entries[i].receipt.receipt_id = r.receipt_id
                        /\ entries[i].receipt.worker_id = r.worker_id
                        /\ entries[i].receipt.output_digest = r.output_digest
      OBVIOUS
    <3>1. i \in Successes(entries, r.task_id)
      BY <2>1 DEF Successes
    <3>2. TerminalReceiptFor(entries, r.task_id).receipt_id = r.receipt_id
      BY <2>3, <3>1
    <3>3. PICK k \in Successes(entries, r.task_id) :
              TerminalReceiptFor(entries, r.task_id) = entries[k].receipt
      BY <1>2, <3>1, TerminalIsASuccess DEF TypeOK
    <3>4. entries[i].receipt.receipt_id = entries[k].receipt.receipt_id
      <4>1. r.task_id \in Tasks
        BY <1>2 DEF TypeOK, SignedReceipt
      <4> QED
        BY <3>1, <3>3, <4>1 DEF HarnessInvariant, LedgerInvariant,
                                SuccessesShareReceipt, Recorded
    <3>5. entries[i].receipt.receipt_id = r.receipt_id
      BY <3>2, <3>3, <3>4
    <3> QED
      BY <2>4, <3>5 DEF HarnessInvariant, IdsNameReceipts
  <2>7. SuccessesShareReceipt'
    <3> SUFFICES ASSUME NEW t \in Tasks,
                        NEW i \in Successes(entries, t)',
                        NEW j \in Successes(entries, t)'
                 PROVE  /\ Recorded(i)'.receipt_id = Recorded(j)'.receipt_id
                        /\ Recorded(i)'.worker_id = Recorded(j)'.worker_id
                        /\ Recorded(i)'.output_digest = Recorded(j)'.output_digest
      BY DEF SuccessesShareReceipt
    <3>1. /\ i \in 1..(n + 1) /\ j \in 1..(n + 1)
          /\ entries'[i].receipt.task_id = t /\ entries'[i].receipt.outcome = "success"
          /\ entries'[j].receipt.task_id = t /\ entries'[j].receipt.outcome = "success"
      BY <2>1 DEF Successes
    <3>2. /\ i \in 1..n \/ i = n + 1
          /\ j \in 1..n \/ j = n + 1
      BY <2>1, <3>1
    <3>3. CASE i \in 1..n /\ j \in 1..n
      <4>1. i \in Successes(entries, t) /\ j \in Successes(entries, t)
        BY <2>1, <3>1, <3>3 DEF Successes
      <4> QED
        BY <2>1, <3>3, <4>1 DEF HarnessInvariant, LedgerInvariant,
                                SuccessesShareReceipt, Recorded
    <3>4. CASE i \in 1..n /\ j = n + 1
      BY <2>1, <2>6, <3>1, <3>4 DEF Recorded
    <3>5. CASE i = n + 1 /\ j \in 1..n
      BY <2>1, <2>6, <3>1, <3>5 DEF Recorded
    <3>6. CASE i = n + 1 /\ j = n + 1
      BY <3>6
    <3> QED
      BY <3>2, <3>3, <3>4, <3>5, <3>6
  <2> QED
    BY <1>3, <1>4, <2>2, <2>5, <2>7 DEF HarnessInvariant, LedgerInvariant
<1> QED
  BY <1>6, <1>7 DEF Submit

(* HarnessInvariant is inductive. *)
LEMMA InvariantStep == HarnessInvariant /\ [Next]_vars => HarnessInvariant'
<1> SUFFICES ASSUME HarnessInvariant, [Next]_vars
             PROVE  HarnessInvariant'
  OBVIOUS
<1>1. CASE Tick \/ Restart \/ (\E w \in Workers : Crash(w)) \/ UNCHANGED vars
  BY <1>1, QuietStepsKeepInvariant
<1>2. ASSUME NEW w \in Workers, NEW spec \in Specs, StartRun(w, spec)
      PROVE  HarnessInvariant'
  BY <1>2, StartRunKeepsInvariant
<1>3. ASSUME NEW w \in Workers, run[w] # NoRun,
             NEW res \in ExecResults(w), FinishRun(w, res)
      PROVE  HarnessInvariant'
  BY <1>3, FinishRunKeepsInvariant
<1>4. ASSUME NEW r \in wire, NEW spec \in Specs, Submit(r, spec)
      PROVE  HarnessInvariant'
  BY <1>4, SubmitKeepsInvariant
<1>5. ASSUME NEW r \in wire, Refresh(r)
      PROVE  HarnessInvariant'
  BY <1>5, RefreshKeepsInvariant
<1> QED
  BY <1>1, <1>2, <1>3, <1>4, <1>5 DEF Next

(* HarnessInvariant holds in every reachable state. *)
THEOREM InvariantAlways == Spec => []HarnessInvariant
<1> QED
  BY InvariantInit, InvariantStep, PTL DEF Spec

-----------------------------------------------------------------------------
(* Every variable keeps its type. *)
THEOREM TypeCorrect == Spec => []TypeOK
<1>1. HarnessInvariant => TypeOK
  BY DEF HarnessInvariant
<1> QED
  BY <1>1, InvariantAlways, PTL

(* No submission, in whatever order and however often repeated, records    *)
(* a nonce twice.                                                          *)
THEOREM RecordedOnceAlways == Spec => []RecordedOnce
<1>1. HarnessInvariant => RecordedOnce
  BY DEF HarnessInvariant, LedgerInvariant
<1> QED
  BY <1>1, InvariantAlways, PTL

(* All terminal successes of a task are one receipt: through restarts,     *)
(* double dispatch, redelivery and receipts signed again.                  *)
THEOREM SuccessesShareReceiptAlways == Spec => []SuccessesShareReceipt
<1>1. HarnessInvariant => SuccessesShareReceipt
  BY DEF HarnessInvariant, LedgerInvariant
<1> QED
  BY <1>1, InvariantAlways, PTL

(* I1: a task has at most one terminal success in the ledger, as long as   *)
(* nobody signs the same receipt twice.                                    *)
THEOREM AtMostOneSuccessAlways ==
    ASSUME ~ MayRefresh
    PROVE  Spec => []AtMostOneSuccess
<1>1. HarnessInvariant => AtMostOneSuccess
  <2> SUFFICES ASSUME HarnessInvariant, NEW t \in Tasks,
                      NEW i \in Successes(entries, t), NEW j \in Successes(entries, t)
               PROVE  i = j
    BY DEF AtMostOneSuccess
  <2>1. Recorded(i).receipt_id = Recorded(j).receipt_id
    BY DEF HarnessInvariant, LedgerInvariant, SuccessesShareReceipt
  <2>2. i \in DOMAIN entries /\ j \in DOMAIN entries
    BY DEF Successes
  <2>3. Recorded(i) \in wire /\ Recorded(j) \in wire
    <3>1. entries \in Seq(Entry)
      BY DEF HarnessInvariant, TypeOK
    <3>2. entries[i] \in Entry /\ entries[j] \in Entry
      BY <2>2, <3>1, LenProperties, ElementOfSeq
    <3> QED
      BY <3>2 DEF Entry, Recorded
  <2>4. Recorded(i).nonce = Recorded(j).nonce
    BY <2>1, <2>3 DEF HarnessInvariant, IdsNameReceipts
  <2> QED
    BY <2>2, <2>4 DEF HarnessInvariant, LedgerInvariant, RecordedOnce
<1> QED
  BY <1>1, InvariantAlways, PTL

-----------------------------------------------------------------------------
(* A step that changes the ledger appends one signed receipt to it, over   *)
(* the head the receipt names and under the epoch that is current.         *)
LEMMA LedgerStep ==
    ASSUME HarnessInvariant, [Next]_vars, entries' # entries
    PROVE  \E r \in wire :
              /\ Len(entries) \in Nat /\ Len(entries') = Len(entries) + 1
              /\ DOMAIN entries = 1..Len(entries)
              /\ DOMAIN entries' = 1..(Len(entries) + 1)
              /\ \A i \in 1..Len(entries) : entries'[i] = entries[i]
              /\ entries'[Len(entries) + 1] = NewEntry(entries, r, r.nonce)
              /\ r.prev_ledger_hash = HeadHash(entries)
              /\ r.lease_epoch = max_epoch[r.task_id]
              /\ \E spec \in Specs : Accepted(r, SubmissionContext(spec))
              /\ max_epoch' = max_epoch
<1>1. PICK r \in wire, spec \in Specs : Submit(r, spec)
  BY DEF Next, vars, Tick, Restart, StartRun, Crash, FinishRun, Refresh
<1>2. /\ Accepted(r, SubmissionContext(spec))
      /\ entries' = Append(entries, NewEntry(entries, r, r.nonce))
      /\ wire' = wire /\ max_epoch' = max_epoch
  BY <1>1 DEF Submit
<1>3. TypeOK
  BY DEF HarnessInvariant
<1>4. r.task_id \in DOMAIN max_epoch
  BY <1>3 DEF TypeOK, SignedReceipt, LeaseTypeOK
<1>5. /\ r.prev_ledger_hash = HeadHash(entries)
      /\ r.lease_epoch = max_epoch[r.task_id]
  BY <1>2, <1>4, AcceptedFacts
<1> QED
  BY <1>2, <1>3, <1>5, AppendedEntry

(* What is recorded is a receipt of the worker that holds the lease at     *)
(* that step, as long as the lease manager lives: the verifier compares    *)
(* epochs, and a signed receipt of the current epoch is the holder's.      *)
THEOREM OwnerAtAcceptanceAlways ==
    ASSUME MaxRestarts = 0
    PROVE  Spec => OwnerAtAcceptance
<1> DEFINE Owned == LET q == entries'[Len(entries')].receipt
                    IN  Holder(q.task_id) = q.worker_id
<1>1. ASSUME HarnessInvariant, [Next]_vars, Len(entries') > Len(entries)
      PROVE  Owned
  <2>1. entries' # entries
    <3>1. entries \in Seq(Entry)
      BY <1>1 DEF HarnessInvariant, TypeOK
    <3>2. Len(entries) \in Nat
      BY <3>1, LenProperties
    <3> QED
      BY <1>1, <3>2
  <2>2. PICK r \in wire :
            /\ Len(entries') = Len(entries) + 1
            /\ entries'[Len(entries) + 1] = NewEntry(entries, r, r.nonce)
            /\ r.lease_epoch = max_epoch[r.task_id]
    BY <1>1, <2>1, LedgerStep
  <2>3. entries'[Len(entries')].receipt = r
    BY <2>2 DEF NewEntry
  <2>4. Fenced(r.task_id, r.worker_id, r.lease_epoch)
    BY <1>1 DEF HarnessInvariant, TokensFenced
  <2> QED
    BY <2>2, <2>3, <2>4 DEF Fenced
<1>2. HarnessInvariant /\ [Next]_vars
        => [Len(entries') > Len(entries) => Owned]_vars
  BY <1>1
<1> QED
  BY <1>2, InvariantAlways, PTL DEF Spec, OwnerAtAcceptance

(* Read in order, the receipts of a task never go back to an older lease,  *)
(* as long as the lease manager lives.                                     *)
THEOREM EpochsInOrderAlways ==
    ASSUME MaxRestarts = 0
    PROVE  Spec => []EpochsInOrder
<1>1. Init => EpochsInOrder
  <2>1. DOMAIN << >> = {}
    OBVIOUS
  <2> QED
    BY <2>1 DEF Init, EpochsInOrder
<1>2. HarnessInvariant /\ EpochsInOrder /\ [Next]_vars => EpochsInOrder'
  <2> SUFFICES ASSUME HarnessInvariant, EpochsInOrder, [Next]_vars
               PROVE  EpochsInOrder'
    OBVIOUS
  <2>1. CASE entries' = entries
    BY <2>1 DEF EpochsInOrder, Recorded
  <2>2. CASE entries' # entries
    <3> DEFINE n == Len(entries)
    <3>1. PICK r \in wire :
              /\ n \in Nat
              /\ DOMAIN entries = 1..n /\ DOMAIN entries' = 1..(n + 1)
              /\ \A i \in 1..n : entries'[i] = entries[i]
              /\ entries'[n + 1] = NewEntry(entries, r, r.nonce)
              /\ r.lease_epoch = max_epoch[r.task_id]
      BY <2>2, LedgerStep
    <3>2. entries'[n + 1].receipt = r
      BY <3>1 DEF NewEntry
    <3>3. ASSUME NEW i \in 1..n, entries[i].receipt.task_id = r.task_id
          PROVE  entries[i].receipt.lease_epoch <= r.lease_epoch
      <4>1. entries[i] \in Entry
        <5>1. entries \in Seq(Entry)
          BY DEF HarnessInvariant, TypeOK
        <5> QED
          BY <5>1, ElementOfSeq
      <4>2. entries[i].receipt \in wire
        BY <4>1 DEF Entry
      <4>3. entries[i].receipt.lease_epoch <= max_epoch[entries[i].receipt.task_id]
        BY <4>2 DEF HarnessInvariant, TokensFenced, Fenced
      <4> QED
        BY <3>1, <3>3, <4>3
    <3> HIDE DEF n
    <3> SUFFICES ASSUME NEW i \in 1..(n + 1), NEW j \in 1..(n + 1), i < j,
                        entries'[i].receipt.task_id = entries'[j].receipt.task_id
                 PROVE  entries'[i].receipt.lease_epoch <= entries'[j].receipt.lease_epoch
      BY <3>1 DEF EpochsInOrder, Recorded
    <3>4. i \in 1..n /\ (j \in 1..n \/ j = n + 1)
      BY <3>1
    <3>5. CASE j \in 1..n
      BY <3>1, <3>4, <3>5 DEF EpochsInOrder, Recorded
    <3>6. CASE j = n + 1
      BY <3>1, <3>2, <3>3, <3>4, <3>6
    <3> QED
      BY <3>4, <3>5, <3>6
  <2> QED
    BY <2>1, <2>2
<1> QED
  BY <1>1, <1>2, InvariantAlways, PTL DEF Spec

(* A receipt is recorded exactly where its signer saw the head of the      *)
(* ledger, with any number of restarts and receipts signed again.          *)
THEOREM ChainsOntoSignedHeadAlways == Spec => []ChainsOntoSignedHead
<1> DEFINE Chained == HashesGrow /\ ChainsOntoSignedHead
<1>1. Init => Chained
  <2>1. DOMAIN << >> = {}
    OBVIOUS
  <2> QED
    BY <2>1 DEF Init, HashesGrow, ChainsOntoSignedHead
<1>2. HarnessInvariant /\ Chained /\ [Next]_vars => Chained'
  <2> SUFFICES ASSUME HarnessInvariant, Chained, [Next]_vars
               PROVE  Chained'
    OBVIOUS
  <2>1. CASE entries' = entries
    BY <2>1 DEF HashesGrow, ChainsOntoSignedHead, Recorded
  <2>2. CASE entries' # entries
    <3> DEFINE n == Len(entries)
               head == HeadHash(entries)
    <3>1. PICK r \in wire :
              /\ n \in Nat
              /\ DOMAIN entries = 1..n /\ DOMAIN entries' = 1..(n + 1)
              /\ \A i \in 1..n : entries'[i] = entries[i]
              /\ entries'[n + 1] = NewEntry(entries, r, r.nonce)
              /\ r.prev_ledger_hash = head
      BY <2>2, LedgerStep
    <3>2. TypeOK
      BY DEF HarnessInvariant
    <3>3. Len(head) = n
      <4>1. CASE entries = << >>
        BY <4>1 DEF HeadHash, GENESIS
      <4>2. CASE entries # << >>
        <5>1. n \in 1..n
          BY <3>1, <3>2, <4>2, EmptySeq DEF TypeOK
        <5> QED
          BY <3>1, <4>2, <5>1 DEF HeadHash, HashesGrow
      <4> QED
        BY <4>1, <4>2
    <3>4. head \in Hash /\ r.nonce \in Nat
      BY <3>2, HeadIsHash, NonceIsNat
    <3>5. /\ entries'[n + 1].receipt = r
          /\ entries'[n + 1].prev_hash = head
          /\ entries'[n + 1].entry_hash = Digest(head, n, r.nonce)
      BY <3>1 DEF NewEntry
    <3> HIDE DEF n, head
    <3>6. Len(Digest(head, n, r.nonce)) = n + 1
      <4>1. <<n, r.nonce>> \in Nat \X Nat
        BY <3>1, <3>4
      <4> QED
        BY <3>3, <3>4, <4>1, AppendProperties DEF Digest, Hash
    <3>7. \A i \in 1..(n + 1) : i \in 1..n \/ i = n + 1
      BY <3>1
    <3>8. HashesGrow'
      BY <3>1, <3>5, <3>6, <3>7 DEF HashesGrow
    <3>9. ChainsOntoSignedHead'
      <4> SUFFICES ASSUME NEW i \in 1..(n + 1)
                   PROVE  /\ entries'[i].receipt.prev_ledger_hash = entries'[i].prev_hash
                          /\ Len(entries'[i].receipt.prev_ledger_hash) = i - 1
        BY <3>1 DEF ChainsOntoSignedHead, Recorded
      <4>1. CASE i \in 1..n
        BY <3>1, <4>1 DEF ChainsOntoSignedHead, Recorded
      <4>2. CASE i = n + 1
        BY <3>1, <3>3, <3>5, <4>2
      <4> QED
        BY <3>7, <4>1, <4>2
    <3> QED
      BY <3>8, <3>9
  <2> QED
    BY <2>1, <2>2
<1> QED
  BY <1>1, <1>2, InvariantAlways, PTL DEF Spec
-----------------------------------------------------------------------------
(* What acceptance says of a receipt whatever becomes of ledger, leases    *)
(* and clock afterwards.                                                   *)
Sound(r) ==
    /\ SchemaVersionSupported(r) # "fail"
    /\ WitnessSizeBounded(r) # "fail"
    /\ SignatureValid(r) # "fail"
    /\ OutputDigestMatchesWitness(r) # "fail"
    /\ WithinDeadline(r) # "fail"
    /\ TimestampsOrdered(r) # "fail"
    /\ SuccessHasWitness(r) # "fail"
    /\ Known(r) /\ r.task_name = r.task_id.name

(* The cheap check of the fixture believed its claim. *)
EvidenceHolds(r) ==
    Succeeded(r) =>
        /\ ClaimedOutput(r.witness) \notin RaisesOn[r.task_id.name, r.task_id.inputs]
        /\ ClaimedOutput(r.witness) \in Believed[r.task_id.name, r.task_id.inputs]

ResultIsRight(r) ==
    Reexecuting /\ Succeeded(r) /\ r.task_name \in Deterministic =>
        /\ RunResult[r.task_id.name, r.task_id.inputs] # Raised
        /\ r.output_digest = ResultDigest(RunResult[r.task_id.name, r.task_id.inputs])

ForASpec(r) == \E spec \in Specs : r.task_id = TaskIdFor(spec)

(* The task id tells the fixture and its inputs. *)
LEMMA SpecInTaskId ==
    ASSUME NEW spec
    PROVE  TaskIdFor(spec).name = spec.name /\ TaskIdFor(spec).inputs = spec.inputs
BY DEF TaskIdFor

(* What acceptance says whatever the rest of the context was. *)
LEMMA AcceptedIsSound ==
    ASSUME NEW r, NEW spec \in Specs, Accepted(r, SubmissionContext(spec))
    PROVE  Sound(r) /\ EvidenceHolds(r) /\ ResultIsRight(r) /\ ForASpec(r)
<1> DEFINE ctx == SubmissionContext(spec)
<1>1. Ok(Report(r, ctx)) /\ ~ Raises(r, ctx)
  BY DEF Accepted
<1>2. /\ SchemaVersionSupported(r) # "fail"
      /\ WitnessSizeBounded(r) # "fail"
      /\ SignatureValid(r) # "fail"
      /\ TaskIdMatchesSpec(r, ctx) # "fail"
      /\ TaskNameMatchesSpec(r, ctx) # "fail"
      /\ FixtureKnown(r) # "fail"
      /\ WitnessRecheck(r, ctx) # "fail"
      /\ OutputDigestMatchesWitness(r) # "fail"
      /\ IndependentReexecution(r, ctx) # "fail"
      /\ WithinDeadline(r) # "fail"
      /\ TimestampsOrdered(r) # "fail"
      /\ SuccessHasWitness(r) # "fail"
  BY <1>1 DEF Ok, Report
<1>3. Has(ctx, "spec") /\ ctx.spec = spec /\ (Reexecuting => Has(ctx, "reexecutor"))
  BY DEF SubmissionContext, Has
<1> HIDE DEF ctx
<1>4. r.task_id = TaskIdFor(spec) /\ r.task_name = spec.name /\ Known(r)
  BY <1>2, <1>3 DEF TaskIdMatchesSpec, TaskNameMatchesSpec, FixtureKnown, CheckIf, CheckOf
<1>5. r.task_id.name = spec.name /\ r.task_id.inputs = spec.inputs
  BY <1>4, SpecInTaskId
<1>6. Sound(r)
  BY <1>2, <1>4, <1>5 DEF Sound
<1>7. EvidenceHolds(r)
  BY <1>1, <1>2, <1>3, <1>4, <1>5
     DEF EvidenceHolds, Raises, RechecksWitness, WitnessRecheck, CheckIf, CheckOf
<1>8. ResultIsRight(r)
  BY <1>2, <1>3, <1>4, <1>5
     DEF ResultIsRight, RechecksWitness, IndependentReexecution, Reexecution, CheckIf, CheckOf
<1> QED
  BY <1>4, <1>6, <1>7, <1>8 DEF ForASpec

(* Every entry of the ledger is sound, from the step that records it on. *)
EntriesAreSound ==
    \A i \in DOMAIN entries : /\ Sound(Recorded(i))
                              /\ EvidenceHolds(Recorded(i))
                              /\ ResultIsRight(Recorded(i))
                              /\ ForASpec(Recorded(i))

(* Only accepted receipts are recorded, and entries never change. *)
LEMMA EntriesAreSoundAlways == Spec => []EntriesAreSound
<1>1. Init => EntriesAreSound
  <2>1. DOMAIN << >> = {}
    OBVIOUS
  <2> QED
    BY <2>1 DEF Init, EntriesAreSound
<1>2. HarnessInvariant /\ EntriesAreSound /\ [Next]_vars => EntriesAreSound'
  <2> SUFFICES ASSUME HarnessInvariant, EntriesAreSound, [Next]_vars
               PROVE  EntriesAreSound'
    OBVIOUS
  <2> DEFINE Good(r) == Sound(r) /\ EvidenceHolds(r) /\ ResultIsRight(r) /\ ForASpec(r)
  <2>1. \A i \in DOMAIN entries : Good(entries[i].receipt)
    BY DEF EntriesAreSound, Recorded
  <2>2. SUFFICES \A i \in DOMAIN entries' : Good(entries'[i].receipt)
    BY DEF EntriesAreSound, Recorded, Sound, EvidenceHolds, ResultIsRight, ForASpec
  <2>3. CASE entries' = entries
    BY <2>1, <2>3
  <2>4. CASE entries' # entries
    <3> DEFINE n == Len(entries)
    <3>1. PICK r \in wire :
              /\ DOMAIN entries = 1..n /\ DOMAIN entries' = 1..(n + 1) /\ n \in Nat
              /\ \A i \in 1..n : entries'[i] = entries[i]
              /\ entries'[n + 1] = NewEntry(entries, r, r.nonce)
              /\ \E spec \in Specs : Accepted(r, SubmissionContext(spec))
      BY <2>4, LedgerStep
    <3>2. entries'[n + 1].receipt = r
      BY <3>1 DEF NewEntry
    <3>3. Good(r)
      BY <3>1, AcceptedIsSound
    <3> HIDE DEF n, Good
    <3>4. \A i \in 1..(n + 1) : i \in 1..n \/ i = n + 1
      BY <3>1
    <3> QED
      BY <2>1, <3>1, <3>2, <3>3, <3>4
  <2> QED
    BY <2>3, <2>4
<1> QED
  BY <1>1, <1>2, InvariantAlways, PTL DEF Spec

(* The evidence recorded for a success is evidence about its own task,     *)
(* whatever spec came with the submission.                                 *)
THEOREM RecordedEvidenceHoldsAlways == Spec => []RecordedEvidenceHolds
<1>1. EntriesAreSound => RecordedEvidenceHolds
  BY DEF EntriesAreSound, EvidenceHolds, Succeeded, RecordedEvidenceHolds, Recorded
<1> QED
  BY <1>1, EntriesAreSoundAlways, PTL

(* With a reexecutor no wrong result of a repeatable task is recorded.     *)
THEOREM RecordedResultIsRightAlways == Spec => []RecordedResultIsRight
<1>1. EntriesAreSound => RecordedResultIsRight
  BY DEF EntriesAreSound, Sound, ResultIsRight, Succeeded, RecordedResultIsRight, Recorded
<1> QED
  BY <1>1, EntriesAreSoundAlways, PTL

-----------------------------------------------------------------------------
(* What `detects verify` says of a sound receipt depends on the clock only. *)
LEMMA SoundReverifies ==
    ASSUME NEW r, NEW spec, Sound(r), EvidenceHolds(r), TaskIdFor(spec) = r.task_id
    PROVE  Accepted(r, IsolatedContext(spec)) <=> r.started_at <= clock + Skew
<1> DEFINE ctx == IsolatedContext(spec)
<1>1. /\ Has(ctx, "spec") /\ ctx.spec = spec /\ Has(ctx, "now") /\ ctx.now = clock
      /\ ~ Has(ctx, "ledger") /\ ~ Has(ctx, "leases") /\ ~ Has(ctx, "head")
      /\ ~ Has(ctx, "reexecutor")
  BY DEF IsolatedContext, Has
<1> HIDE DEF ctx
<1>2. r.task_id.name = spec.name /\ r.task_id.inputs = spec.inputs /\ r.task_name = spec.name
  BY SpecInTaskId DEF Sound
<1>3. ~ Raises(r, ctx)
  <2>1. RaisesOn[r.task_name, ctx.spec.inputs]
            = RaisesOn[r.task_id.name, r.task_id.inputs]
    BY <1>1, <1>2, Zenon
  <2> QED
    BY <2>1, Zenon DEF Raises, RechecksWitness, EvidenceHolds
<1>4. /\ TaskIdMatchesSpec(r, ctx) # "fail"
      /\ TaskNameMatchesSpec(r, ctx) # "fail"
      /\ FixtureKnown(r) # "fail"
  BY <1>1, <1>2 DEF TaskIdMatchesSpec, TaskNameMatchesSpec, FixtureKnown, Sound, CheckIf, CheckOf
<1>5. WitnessRecheck(r, ctx) # "fail"
  BY <1>1, <1>2 DEF WitnessRecheck, RechecksWitness, EvidenceHolds, CheckIf, CheckOf
<1>6. /\ IndependentReexecution(r, ctx) # "fail"
      /\ NoDuplicateCompletion(r, ctx) # "fail"
      /\ NonceUnseen(r, ctx) # "fail"
      /\ LeaseEpochCurrent(r, ctx) # "fail"
      /\ PrevLedgerHashMatches(r, ctx) # "fail"
  BY <1>1 DEF IndependentReexecution, NoDuplicateCompletion, NonceUnseen, LeaseEpochCurrent,
              PrevLedgerHashMatches, CheckIf
<1>7. NotFromTheFuture(r, ctx) # "fail" <=> r.started_at <= clock + Skew
  BY <1>1 DEF NotFromTheFuture, CheckIf, CheckOf
<1>8. Ok(Report(r, ctx)) <=> NotFromTheFuture(r, ctx) # "fail"
  BY <1>4, <1>5, <1>6 DEF Ok, Report, Sound
<1> QED
  BY <1>3, <1>7, <1>8 DEF Accepted, ctx

(* A recorded receipt verifies again on its own, for every spec with its   *)
(* task id and whatever has been recorded, leased or restarted since,      *)
(* exactly when the clock is not behind its start.                         *)
THEOREM AcceptedReverifiesAlways == Spec => []AcceptedReverifies
<1>1. EntriesAreSound => AcceptedReverifies
  BY SoundReverifies DEF EntriesAreSound, AcceptedReverifies
<1> QED
  BY <1>1, EntriesAreSoundAlways, PTL
-----------------------------------------------------------------------------
(* What a fixture of the package says of a claim for the inputs of a spec. *)
LEMMA FixtureAnswers ==
    ASSUME NEW name \in Registry, NEW spec \in Specs, NEW output
    PROVE  LET inputs == spec.inputs
           IN  /\ RunResult[name, inputs] = RunFixture(name, inputs, MaxAttempts)
               /\ output \in Believed[name, inputs] <=>
                     /\ output \in Claims
                     /\ CheckWitness(name, inputs, Claimed(output)) = "pass"
               /\ output \in RaisesOn[name, inputs] <=>
                     /\ output \in Claims
                     /\ CheckWitness(name, inputs, Claimed(output)) = Raised
<1> DEFINE call == <<name, spec.inputs>>
<1>1. call \in FixtureCalls /\ call[1] = name /\ call[2] = spec.inputs
  BY DEF FixtureCalls
<1> HIDE DEF call
<1>2. /\ RunResult[call] = RunFixture(call[1], call[2], MaxAttempts)
      /\ Believed[call] = Answered(call, "pass")
      /\ RaisesOn[call] = Answered(call, Raised)
  BY <1>1, FixturesAssumption, Zenon DEF FixtureResults, FixtureBelieved, FixtureRaisesOn
<1> QED
  BY <1>1, <1>2 DEF Answered, call

(* A receipt that was recorded with sound evidence is right for its task.  *)
LEMMA SoundIsDocumented ==
    ASSUME NEW r, Sound(r), EvidenceHolds(r), ResultIsRight(r), ForASpec(r), Succeeded(r)
    PROVE  LET name == r.task_id.name
               inputs == r.task_id.inputs
               claim == Claimed(ClaimedOutput(r.witness))
           IN  /\ RunResult[name, inputs] # Raised => Right(HKey, name, inputs, claim)
               /\ Reexecuting /\ name \in Repeatable =>
                     /\ Right(Itself, name, inputs, claim)
                     /\ name = "nth_prime" =>
                           Cardinality(PrimesUpTo(claim[2])) = IntOf(inputs["n"])
<1>1. PICK spec \in Specs : r.task_id = TaskIdFor(spec)
  BY DEF ForASpec
<1> DEFINE name == spec.name
           inputs == spec.inputs
           output == ClaimedOutput(r.witness)
           result == RunResult[name, inputs]
<1>2. r.task_id.name = name /\ r.task_id.inputs = inputs /\ r.task_name = name
  BY <1>1, SpecInTaskId DEF Sound
<1>3. name \in Registry
  BY <1>2, FixturesAssumption DEF Sound, Known
<1>4. output \in Believed[name, inputs]
  BY <1>2 DEF EvidenceHolds
<1>5. /\ result = RunFixture(name, inputs, MaxAttempts)
      /\ output \in Claims
      /\ CheckWitness(name, inputs, Claimed(output)) = "pass"
  BY <1>3, <1>4, FixtureAnswers
<1>6. Values(inputs) /\ Value(Claimed(output))
  BY <1>5, ValuesAssumption
<1>7. result # Raised => Right(HKey, name, inputs, Claimed(output))
  BY <1>5, <1>6, BelievedMeansRight
<1>8. ASSUME Reexecuting, name \in Repeatable
      PROVE  /\ Right(Itself, name, inputs, Claimed(output))
             /\ name = "nth_prime" =>
                   Cardinality(PrimesUpTo(Claimed(output)[2])) = IntOf(inputs["n"])
  <2>1. result # Raised /\ r.output_digest = ResultDigest(result)
    BY <1>2, <1>8, FixturesAssumption DEF ResultIsRight
  <2>2. r.output_digest = ResultDigest(output)
    BY <1>2, <1>3, FixturesAssumption
       DEF Sound, OutputDigestMatchesWitness, Known, CheckIf, CheckOf
  <2>3. result # Null
    BY <1>3, <2>1, ValuesAssumption
  <2> HIDE DEF result, output
  <2>4. output = result
    BY <2>1, <2>2, DigestsDiffer
  <2>5. Claimed(output) = result
    BY <2>3, <2>4 DEF Claimed
  <2> QED
    BY <1>5, <1>6, <2>1, <2>5, HonestMeansRight
<1> QED
  BY <1>2, <1>7, <1>8

(* What is recorded for a task is what its fixture is documented to        *)
(* compute from the task's inputs, as far as == and repr() see; with a     *)
(* reexecutor, for what can be repeated, it is that very value.            *)
THEOREM RecordedIsDocumentedAlways == Spec => []RecordedIsDocumented
<1>1. EntriesAreSound => RecordedIsDocumented
  <2> SUFFICES ASSUME EntriesAreSound, NEW i \in DOMAIN entries, Succeeded(Recorded(i))
               PROVE  LET r == Recorded(i)
                          name == r.task_id.name
                          inputs == r.task_id.inputs
                          claim == Claimed(ClaimedOutput(r.witness))
                      IN  /\ RunResult[name, inputs] # Raised
                                => Right(HKey, name, inputs, claim)
                          /\ Reexecuting /\ name \in Repeatable =>
                                /\ Right(Itself, name, inputs, claim)
                                /\ name = "nth_prime" =>
                                      Cardinality(PrimesUpTo(claim[2])) = IntOf(inputs["n"])
    BY DEF RecordedIsDocumented, Succeeded
  <2> QED
    BY SoundIsDocumented DEF EntriesAreSound
<1> QED
  BY <1>1, EntriesAreSoundAlways, PTL

-----------------------------------------------------------------------------
(* How the gate implements FencedCompletion: a grant is a hand-over, a     *)
(* renewal and a repeated success are stutters, the first success of a     *)
(* task finalizes it.                                                      *)
CompletionBy(r) == [id |-> r.receipt_id, worker |-> r.worker_id, epoch |-> r.lease_epoch]

Completions == [t \in Tasks |-> Completion(t)]
Owners == [t \in Tasks |-> Holder(t)]

(* No more receipts are signed than the bound allows. *)
LEMMA IdsBoundedAlways == Spec => [](signed <= MaxSigned)
<1>1. Init => signed <= MaxSigned
  BY BoundsAssumption DEF Init
<1>2. HarnessInvariant /\ signed <= MaxSigned /\ [Next]_vars => (signed <= MaxSigned)'
  <2> SUFFICES ASSUME HarnessInvariant, signed <= MaxSigned, [Next]_vars
               PROVE  signed' <= MaxSigned
    OBVIOUS
  <2>1. signed' = signed \/ (signed < MaxSigned /\ signed' = signed + 1)
    BY DEF Next, vars, Tick, Restart, StartRun, Crash, FinishRun, Submit, Refresh
  <2>2. signed \in Nat
    BY DEF HarnessInvariant, TypeOK
  <2> QED
    BY <2>1, <2>2, BoundsAssumption
<1> QED
  BY <1>1, <1>2, InvariantAlways, PTL DEF Spec

(* What an appended receipt does to the completions. *)
LEMMA CompletionsAfterAppend ==
    ASSUME NEW r, NEW n \in Nat,
           DOMAIN entries = 1..n, DOMAIN entries' = 1..(n + 1),
           \A i \in 1..n : entries'[i] = entries[i],
           entries'[n + 1].receipt = r
    PROVE  \A t \in Tasks :
              Completion(t)' = Completion(t) \cup
                  (IF r.task_id = t /\ r.outcome = "success" THEN {CompletionBy(r)} ELSE {})
<1> SUFFICES ASSUME NEW t \in Tasks
             PROVE  Completion(t)' = Completion(t) \cup
                  (IF r.task_id = t /\ r.outcome = "success" THEN {CompletionBy(r)} ELSE {})
  OBVIOUS
<1> DEFINE Old(i) == entries[i].receipt.task_id = t /\ entries[i].receipt.outcome = "success"
           New(i) == entries'[i].receipt.task_id = t /\ entries'[i].receipt.outcome = "success"
           News == r.task_id = t /\ r.outcome = "success"
<1>1. /\ Completion(t) = {CompletionBy(entries[i].receipt) : i \in {i \in 1..n : Old(i)}}
      /\ Completion(t)' =
             {CompletionBy(entries'[i].receipt) : i \in {i \in 1..(n + 1) : New(i)}}
  BY DEF Completion, Successes, Recorded, CompletionBy
<1>2. {i \in 1..(n + 1) : New(i)} =
          {i \in 1..n : Old(i)} \cup (IF News THEN {n + 1} ELSE {})
  OBVIOUS
<1>3. \A i \in 1..n : CompletionBy(entries'[i].receipt) = CompletionBy(entries[i].receipt)
  OBVIOUS
<1> HIDE DEF Old, New
<1> QED
  BY <1>1, <1>2, <1>3

(* Who finalizes an open task, and with what. *)
LEMMA SubmitImplementsGate ==
    ASSUME HarnessInvariant, MaxRestarts = 0, signed <= MaxSigned,
           NEW r \in wire, NEW spec \in Specs, Submit(r, spec)
    PROVE  \/ UNCHANGED <<max_epoch, Owners, Completions>>
           \/ \E t \in Tasks, id \in 1..MaxSigned :
                 /\ Owners[t] # Nobody
                 /\ Completions[t] = {}
                 /\ Completions' = [Completions EXCEPT ![t] =
                        {[id |-> id, worker |-> Owners[t], epoch |-> max_epoch[t]]}]
                 /\ UNCHANGED <<max_epoch, Owners>>
<1>1. UNCHANGED <<leases, max_epoch, Owners>>
  BY DEF Submit, Owners, Holder
<1>2. CASE entries' = entries
  BY <1>1, <1>2 DEF Completions, Completion, Successes, Recorded
<1>3. CASE entries' # entries
  <2> DEFINE n == Len(entries)
             t == r.task_id
  <2>1. /\ Accepted(r, SubmissionContext(spec))
        /\ entries' = Append(entries, NewEntry(entries, r, r.nonce))
        /\ wire' = wire
    BY <1>3 DEF Submit
  <2>2. TypeOK /\ SignedReceipt(r)
    BY DEF HarnessInvariant, TypeOK
  <2>3. t \in Tasks /\ r.worker_id \in Workers /\ r.receipt_id \in 1..MaxSigned
    <3>1. signed \in Nat
      BY <2>2 DEF TypeOK
    <3>2. t \in Tasks /\ r.worker_id \in Workers /\ r.receipt_id \in 1..signed
      BY <2>2 DEF SignedReceipt
    <3> QED
      BY <3>1, <3>2, BoundsAssumption
  <2>4. /\ n \in Nat /\ DOMAIN entries = 1..n /\ DOMAIN entries' = 1..(n + 1)
        /\ \A i \in 1..n : entries'[i] = entries[i]
        /\ entries'[n + 1].receipt = r
    BY <2>1, <2>2, AppendedEntry DEF NewEntry
  <2>5. /\ r.lease_epoch = max_epoch[t]
        /\ r.outcome = "success" =>
              \/ Successes(entries, t) = {}
              \/ TerminalReceiptFor(entries, t).receipt_id = r.receipt_id
    BY <2>1, <2>2, <2>3, AcceptedFacts DEF TypeOK, LeaseTypeOK
  <2>6. Holder(t) = r.worker_id
    BY <2>5 DEF HarnessInvariant, TokensFenced, Fenced
  <2>7. \A u \in Tasks :
            Completion(u)' = Completion(u) \cup
                (IF t = u /\ r.outcome = "success" THEN {CompletionBy(r)} ELSE {})
    BY <2>4, CompletionsAfterAppend
  <2>8. CASE r.outcome # "success"
    BY <1>1, <2>7, <2>8 DEF Completions
  <2>9. CASE r.outcome = "success" /\ Successes(entries, t) = {}
    <3>1. Completion(t) = {}
      BY <2>9 DEF Completion
    <3>2. Completions' = [Completions EXCEPT ![t] = {CompletionBy(r)}]
      BY <2>3, <2>7, <2>9, <3>1 DEF Completions
    <3>3. CompletionBy(r) =
              [id |-> r.receipt_id, worker |-> Owners[t], epoch |-> max_epoch[t]]
      BY <2>3, <2>5, <2>6 DEF CompletionBy, Owners
    <3>4. Owners[t] # Nobody
      BY <2>3, <2>6, NobodyAssumption DEF Owners
    <3>5. Completions[t] = {}
      BY <2>3, <3>1 DEF Completions
    <3> QED
      BY <1>1, <2>3, <3>2, <3>3, <3>4, <3>5
  <2>10. CASE r.outcome = "success" /\ Successes(entries, t) # {}
    <3>0. entries \in Seq(Entry)
      BY <2>2 DEF TypeOK
    <3>1. PICK i \in Successes(entries, t) :
              entries[i].receipt.receipt_id = r.receipt_id
      BY <2>5, <2>10, <3>0, TerminalIsASuccess
    <3>2. entries[i].receipt \in wire
      <4>1. i \in DOMAIN entries
        BY DEF Successes
      <4>2. entries[i] \in Entry
        BY <3>0, <4>1, ElementOfSeq
      <4> QED
        BY <4>2 DEF Entry
    <3>3. CompletionBy(entries[i].receipt) = CompletionBy(r)
      BY <3>1, <3>2 DEF HarnessInvariant, IdsNameReceipts, CompletionBy
    <3>4. CompletionBy(r) \in Completion(t)
      BY <3>3 DEF Completion, Recorded, CompletionBy
    <3>5. \A u \in Tasks : Completion(u)' = Completion(u)
      BY <2>7, <3>4
    <3> QED
      BY <1>1, <3>5 DEF Completions
  <2> QED
    BY <2>5, <2>8, <2>9, <2>10
<1> QED
  BY <1>2, <1>3

(* The gate implements FencedCompletion as long as the lease manager       *)
(* lives, receipts signed again included.                                  *)
THEOREM Refinement ==
    ASSUME MaxRestarts = 0
    PROVE  Spec => ImplementsFencedCompletion
<1>1. Init => Gate!Init
  <2> SUFFICES ASSUME Init PROVE Gate!Init
    OBVIOUS
  <2>1. \A t \in Tasks : Completion(t) = {} /\ Holder(t) = Nobody /\ max_epoch[t] = 0
    <3>1. DOMAIN << >> = {}
      OBVIOUS
    <3> QED
      BY <3>1 DEF Init, LeaseInit, Completion, Successes, Holder
  <2>2. max_epoch = [t \in Tasks |-> 0]
    BY DEF Init, LeaseInit
  <2> QED
    BY <2>1, <2>2 DEF Gate!Init, Gate!Token!Init
<1>2. ASSUME HarnessInvariant, signed <= MaxSigned, [Next]_vars
      PROVE  [Gate!Next]_(Gate!vars)
  <2>1. CASE UNCHANGED <<leases, max_epoch, entries>>
    BY <2>1 DEF Gate!vars, Holder, Completion, Successes, Recorded
  <2>2. ASSUME NEW w \in Workers, NEW spec \in Specs, StartRun(w, spec)
        PROVE  [Gate!Next]_(Gate!vars)
    <3>1. PICK t \in Tasks : t = TaskIdFor(spec)
      BY SpecsAssumption
    <3>2. /\ LeaseTypeOK /\ LeasesMatchEpochs /\ clock \in Int /\ Ttl \in Int
          /\ Claim(t, w, Ttl, clock) /\ entries' = entries
      BY <1>2, <2>2, <3>1, TimingAssumption DEF HarnessInvariant, TypeOK, StartRun
    <3>3. max_epoch \in [Tasks -> Nat]
      BY <3>2 DEF LeaseTypeOK
    <3>4. Owners' = [Owners EXCEPT ![t] = w]
      BY <3>2, ClaimKeepsShape DEF Owners
    <3>5. /\ max_epoch' = [max_epoch EXCEPT ![t] = ClaimedEpoch(t, clock)]
          /\ \/ ClaimedEpoch(t, clock) = max_epoch[t] /\ Holder(t) = w
             \/ ClaimedEpoch(t, clock) = max_epoch[t] + 1
      BY <3>2, ClaimEffect
    <3>6. Completions' = Completions
      BY <3>2 DEF Completions, Completion, Successes, Recorded
    <3>7. CASE ClaimedEpoch(t, clock) = max_epoch[t] + 1
      <4>1. max_epoch' = [max_epoch EXCEPT ![t] = max_epoch[t] + 1]
        BY <3>5, <3>7
      <4> QED
        BY <3>4, <3>6, <4>1
           DEF Gate!Next, Gate!HandOver, Gate!Token!Grant, Owners, Completions
    <3>8. CASE ClaimedEpoch(t, clock) = max_epoch[t] /\ Holder(t) = w
      <4>1. max_epoch' = max_epoch
        BY <3>3, <3>5, <3>8
      <4>2. Owners' = Owners
        BY <3>4, <3>8 DEF Owners
      <4> QED
        BY <3>6, <4>1, <4>2 DEF Gate!vars, Owners, Completions
    <3> QED
      BY <3>5, <3>7, <3>8
  <2>3. ASSUME NEW r \in wire, NEW spec \in Specs, Submit(r, spec)
        PROVE  [Gate!Next]_(Gate!vars)
    BY <1>2, <2>3, SubmitImplementsGate
       DEF Gate!Next, Gate!Finalize, Gate!vars, Owners, Completions
  <2>4. ~ Restart
    BY <1>2 DEF Restart, HarnessInvariant, TypeOK
  <2> QED
    BY <1>2, <2>1, <2>2, <2>3, <2>4 DEF Next, vars, Tick, Crash, FinishRun, Refresh
<1> QED
  BY <1>1, <1>2, InvariantAlways, IdsBoundedAlways, PTL
     DEF Spec, ImplementsFencedCompletion, Gate!Spec
-----------------------------------------------------------------------------
(* What a fixture must be for its honest workers to get in: its own check  *)
(* accepts the result of run() and does not raise on it.                   *)
Fair(spec) ==
    LET result == RunResult[spec.name, spec.inputs]
    IN  result # Raised =>
           /\ result \notin RaisesOn[spec.name, spec.inputs]
           /\ result \in Believed[spec.name, spec.inputs]
           /\ WitnessOf(result) \notin Oversized

(* What is null is neither a digest nor a signature. *)
NullIsNothing == \A x, y : ResultDigest(x) # Null /\ Sign(x, y) # Null

(* Signing does not change what is signed. *)
LEMMA SigningKeepsPayload ==
    ASSUME NEW w, NEW b, "signature" \notin DOMAIN b
    PROVE  SigningPayload(Signed(w, b)) = SigningPayload(b)
<1> DEFINE D == DOMAIN b
<1>1. DOMAIN Signed(w, b) = D \cup {"signature"} /\ \A f \in D : Signed(w, b)[f] = b[f]
  BY SignedFields
<1>2. "signature" \notin D
  OBVIOUS
<1> HIDE DEF D
<1>3. (D \cup {"signature"}) \ {"signature"} = D /\ D \ {"signature"} = D
  BY <1>2
<1>4. SigningPayload(Signed(w, b)) = [f \in D |-> Signed(w, b)[f]]
  BY <1>1, <1>3 DEF SigningPayload
<1>5. SigningPayload(b) = [f \in D |-> b[f]]
  BY <1>3 DEF SigningPayload, D
<1>6. [f \in D |-> Signed(w, b)[f]] = [f \in D |-> b[f]]
  BY <1>1
<1> QED
  BY <1>4, <1>5, <1>6

(* The signature is one over the signed receipt itself. *)
LEMMA SignatureOfSigned ==
    ASSUME NEW w, NEW b, "signature" \notin DOMAIN b
    PROVE  Signed(w, b).signature = Sign(w, SigningPayload(Signed(w, b)))
<1>1. Signed(w, b).signature = Sign(w, SigningPayload(b))
  BY DEF Signed
<1> QED
  BY <1>1, SigningKeepsPayload

(* What a finished run's receipt shows for its result. *)
LEMMA FinishedEvidence ==
    ASSUME NEW w, NEW res
    PROVE  LET s == Signed(w, Body(w, res))
           IN  /\ s.schema_version = "1.0"
               /\ s.task_name = run[w].spec.name
               /\ res.outcome = "success" =>
                     /\ s.witness = WitnessOf(res.output)
                     /\ s.output_digest = ResultDigest(res.output)
               /\ res.outcome # "success" => s.witness = NoWitness
               /\ s.signature = Sign(w, SigningPayload(s))
<1> DEFINE b == Body(w, res)
           s == Signed(w, b)
<1>1. /\ DOMAIN b = Required
      /\ b.schema_version = "1.0"
      /\ b.task_name = run[w].spec.name
      /\ res.outcome = "success" =>
            /\ b.witness = WitnessOf(res.output)
            /\ b.output_digest = ResultDigest(res.output)
      /\ res.outcome # "success" => b.witness = NoWitness
  BY DEF Body, ReceiptBody, Required
<1> HIDE DEF b
<1>2. "signature" \notin DOMAIN b
  BY <1>1 DEF Required
<1>3. s.signature = Sign(w, SigningPayload(s))
  BY <1>2, SignatureOfSigned
<1>4. \A f \in DOMAIN b : s[f] = b[f]
  BY <1>2, SignedFields
<1>5. {"schema_version", "task_name", "witness", "output_digest"} \subseteq DOMAIN b
  BY <1>1 DEF Required
<1> QED
  BY <1>1, <1>3, <1>4, <1>5 DEF b

(* The holder of a current lease gets in: its right result, finished in    *)
(* time and signed over the head of now, is accepted as long as its task   *)
(* has no success, through restarts and whatever else was recorded.        *)
THEOREM HonestHolderGetsInAlways ==
    ASSUME \A spec \in Specs : spec.name \in Registered => Fair(spec), NullIsNothing,
           "1.0" \in SupportedVersions, NoWitness \notin Oversized
    PROVE  Spec => []HonestHolderGetsIn
<1>1. ASSUME HarnessInvariant,
             NEW w \in Workers \ BuggyWorkers, run[w] # NoRun,
             run[w].lease_epoch = max_epoch[TaskIdFor(run[w].spec)],
             Successes(entries, TaskIdFor(run[w].spec)) = {},
             NEW res \in ExecResults(w),
             res.finished_at \in run[w].started_at..(run[w].started_at + Deadline),
             run[w].started_at <= clock + Skew
      PROVE  Accepted(Signed(w, Body(w, res)), SubmissionContext(run[w].spec))
  <2> DEFINE s == Signed(w, Body(w, res))
             spec == run[w].spec
             ctx == SubmissionContext(spec)
             result == RunResult[spec.name, spec.inputs]
  <2>1. TypeOK
    BY <1>1 DEF HarnessInvariant
  <2>2. run[w] \in Run
    BY <1>1, <2>1 DEF TypeOK
  <2>3. /\ spec \in Specs /\ TaskIdFor(spec) \in Tasks /\ spec.name \in Registered
        /\ run[w].lease_epoch \in Nat \ {0} /\ run[w].started_at \in Nat
    BY <2>2, SpecsAssumption DEF Run
  <2>4. /\ s.nonce = signed + 1
        /\ s.task_id = TaskIdFor(spec) /\ s.worker_id = w
        /\ s.lease_epoch = run[w].lease_epoch
        /\ s.outcome = res.outcome
        /\ s.started_at = run[w].started_at
        /\ s.finished_at = res.finished_at
        /\ s.deadline_at = run[w].started_at + Deadline
        /\ s.prev_ledger_hash = HeadHash(entries)
    BY FinishedReceipt
  <2>5. /\ s.schema_version = "1.0" /\ s.task_name = spec.name
        /\ res.outcome = "success" =>
              s.witness = WitnessOf(res.output) /\ s.output_digest = ResultDigest(res.output)
        /\ res.outcome # "success" => s.witness = NoWitness
        /\ s.signature = Sign(w, SigningPayload(s))
    BY FinishedEvidence
  <2>6. res.outcome = "success" => res.output = result /\ result # Raised
    BY <1>1 DEF ExecResults
  <2>7. /\ Has(ctx, "spec") /\ ctx.spec = spec /\ ctx.ledger = entries
        /\ ctx.epochs = max_epoch /\ ctx.now = clock /\ ctx.head = HeadHash(entries)
    BY DEF SubmissionContext, Has
  <2>8. Fair(spec)
    BY <2>3
  <2>9. ~ SeenNonce(entries, signed + 1)
    <3>1. \A i \in DOMAIN entries : entries[i].receipt \in wire
      <4>1. \A i \in DOMAIN entries : entries[i] \in Entry
        BY <2>1, ElementOfSeq, LenProperties DEF TypeOK
      <4> QED
        BY <4>1 DEF Entry
    <3>2. \A r \in wire : r.nonce # signed + 1
      BY <2>1 DEF TypeOK, SignedReceipt
    <3> QED
      BY <3>1, <3>2 DEF SeenNonce
  <2>10. max_epoch[TaskIdFor(spec)] > 0 /\ TaskIdFor(spec) \in DOMAIN max_epoch
    BY <1>1, <2>1, <2>3 DEF TypeOK, LeaseTypeOK
  <2>11. NoWitness # WitnessOf(result) /\ ClaimedOutput(WitnessOf(result)) = result
    BY DEF NoWitness, WitnessOf, ClaimedOutput
  <2> HIDE DEF s, spec, ctx, result
  <2>12. ~ Raises(s, ctx)
    <3>1. CASE res.outcome # "success"
      BY <2>4, <3>1 DEF Raises, RechecksWitness, Succeeded
    <3>2. CASE res.outcome = "success"
      <4>1. ClaimedOutput(s.witness) = result /\ result # Raised
        BY <2>5, <2>6, <2>11, <3>2
      <4>2. result \notin RaisesOn[spec.name, spec.inputs]
        BY <2>8, <4>1 DEF Fair, result
      <4> QED
        BY <2>5, <2>7, <4>1, <4>2 DEF Raises
    <3> QED
      BY <3>1, <3>2
  <2>13. /\ SchemaVersionSupported(s) # "fail"
         /\ SignatureValid(s) # "fail"
         /\ FixtureKnown(s) # "fail"
    BY <2>3, <2>4, <2>5
       DEF SchemaVersionSupported, SignatureValid, FixtureKnown, Known, CheckOf,
           VerifySig, NullIsNothing
  <2>14. WitnessSizeBounded(s) # "fail"
    BY <2>5, <2>6, <2>8 DEF WitnessSizeBounded, CheckOf, Fair, result
  <2>15. TaskIdMatchesSpec(s, ctx) # "fail" /\ TaskNameMatchesSpec(s, ctx) # "fail"
    BY <2>4, <2>5, <2>7 DEF TaskIdMatchesSpec, TaskNameMatchesSpec, CheckIf, CheckOf
  <2>16. WitnessRecheck(s, ctx) # "fail"
    <3>1. result # Raised => result \in Believed[spec.name, spec.inputs]
      BY <2>8 DEF Fair, result
    <3> QED
      BY <2>4, <2>5, <2>6, <2>7, <2>11, <3>1
         DEF WitnessRecheck, RechecksWitness, Succeeded, CheckIf, CheckOf
  <2>17. OutputDigestMatchesWitness(s) # "fail"
    BY <2>4, <2>5, <2>6, <2>11 DEF OutputDigestMatchesWitness, Succeeded, CheckIf, CheckOf
  <2>18. IndependentReexecution(s, ctx) # "fail"
    BY <2>4, <2>5, <2>6, <2>7
       DEF IndependentReexecution, Reexecution, RechecksWitness, Succeeded,
           CheckIf, CheckOf, result
  <2>19. NoDuplicateCompletion(s, ctx) # "fail"
    BY <1>1, <2>4, <2>7 DEF NoDuplicateCompletion, CheckIf, CheckOf, spec
  <2>20. NonceUnseen(s, ctx) # "fail"
    BY <2>4, <2>7, <2>9 DEF NonceUnseen, CheckIf, CheckOf
  <2>21. LeaseEpochCurrent(s, ctx) # "fail"
    BY <1>1, <2>4, <2>7, <2>10 DEF LeaseEpochCurrent, CheckIf, CheckOf, spec
  <2>22. WithinDeadline(s) # "fail" /\ TimestampsOrdered(s) # "fail"
    BY <1>1, <2>3, <2>4, TimingAssumption DEF WithinDeadline, TimestampsOrdered, CheckOf
  <2>23. NotFromTheFuture(s, ctx) # "fail"
    BY <1>1, <2>4, <2>7 DEF NotFromTheFuture, CheckIf, CheckOf
  <2>24. PrevLedgerHashMatches(s, ctx) # "fail"
    BY <2>4, <2>7 DEF PrevLedgerHashMatches, CheckIf, CheckOf
  <2>25. SuccessHasWitness(s) # "fail"
    BY <2>4, <2>5, <2>6, <2>11 DEF SuccessHasWitness, Succeeded, CheckIf, CheckOf,
                                   NullIsNothing
  <2>26. Ok(Report(s, ctx))
    BY <2>13, <2>14, <2>15, <2>16, <2>17, <2>18, <2>19, <2>20, <2>21, <2>22, <2>23,
       <2>24, <2>25 DEF Ok, Report
  <2> QED
    BY <2>12, <2>26 DEF Accepted, s, ctx, spec
<1>2. HarnessInvariant => HonestHolderGetsIn
  BY <1>1 DEF HonestHolderGetsIn
<1> QED
  BY <1>2, InvariantAlways, PTL

(* The fixtures of the package are of that kind. *)
LEMMA FixturesAreFair ==
    ASSUME NEW spec \in Specs, spec.name \in Registered,
           LET result == RunResult[spec.name, spec.inputs]
           IN  result # Raised => WitnessOf(result) \notin Oversized
    PROVE  Fair(spec)
<1> DEFINE name == spec.name
           inputs == spec.inputs
           result == RunResult[name, inputs]
<1>1. name \in Registry
  BY FixturesAssumption
<1>2. SUFFICES ASSUME result # Raised
               PROVE  result \notin RaisesOn[name, inputs] /\ result \in Believed[name, inputs]
  BY DEF Fair
<1>3. result \in Claims /\ result # Null /\ Values(inputs)
  BY <1>1, <1>2, ValuesAssumption
<1>4. result = RunFixture(name, inputs, MaxAttempts)
  BY <1>1, FixtureAnswers
<1> HIDE DEF result
<1>5. Claimed(result) = result
  BY <1>3 DEF Claimed
<1>6. CheckWitness(name, inputs, Claimed(result)) = "pass"
  BY <1>2, <1>3, <1>4, <1>5, HonestMeansRight
<1> QED
  BY <1>1, <1>3, <1>6, FixtureAnswers, RaisedAssumption

(* So a worker of the package that reports what run() returned gets in, on *)
(* whatever inputs, unless the witness alone is too large to be sent.      *)
THEOREM HonestResultsGetInAlways ==
    ASSUME \A spec \in Specs :
              LET result == RunResult[spec.name, spec.inputs]
              IN  spec.name \in Registered /\ result # Raised
                      => WitnessOf(result) \notin Oversized,
           NullIsNothing, "1.0" \in SupportedVersions, NoWitness \notin Oversized
    PROVE  Spec => []HonestHolderGetsIn
<1>1. \A spec \in Specs : spec.name \in Registered => Fair(spec)
  BY FixturesAreFair
<1> QED
  BY <1>1, HonestHolderGetsInAlways

-----------------------------------------------------------------------------
(* The scenarios, in whatever order. *)
Scenarios ==
    {replay_receipt, duplicate_completion, stale_ownership, broken_signature,
     tampered_after_signing, fabricated_witness, task_substitution, truncated_json,
     missing_field, unsupported_schema_version, proof_bomb, late_success_after_timeout,
     signed_wrong_prime, honest_but_unsound_process, forged_runtime_fingerprint,
     tampered_copy, prime_rechecked, prime_reexecuted}

(* The rows are scenarios, and there are some.                             *)
LEMMA RowsAre == Len(Rows) \in Nat \ {0} /\ DOMAIN Rows = 1..Len(Rows)
                 /\ \A i \in DOMAIN Rows : Rows[i] \in Scenarios
<1>1. ATTACKS \in Seq(Scenarios) /\ Len(ATTACKS) = 15
  <2> DEFINE S == Scenarios
  <2>1. ATTACKS = <<replay_receipt, duplicate_completion, stale_ownership, broken_signature,
                    tampered_after_signing, fabricated_witness, task_substitution,
                    truncated_json, missing_field, unsupported_schema_version, proof_bomb,
                    late_success_after_timeout, signed_wrong_prime,
                    honest_but_unsound_process, forged_runtime_fingerprint>>
    BY DEF ATTACKS
  <2> QED
    BY <2>1 DEF Scenarios
<1>2. Quickstart \in Seq(Scenarios) /\ Len(Quickstart) = 3
  BY DEF Quickstart, Scenarios
<1>3. Rows \in Seq(Scenarios) /\ Len(Rows) = 18
  <2>1. Rows = ATTACKS \o Quickstart
    BY DEF Rows
  <2>2. ASSUME NEW S, NEW a \in Seq(S), NEW b \in Seq(S)
        PROVE  a \o b \in Seq(S) /\ Len(a \o b) = Len(a) + Len(b)
    BY ConcatProperties
  <2>3. ATTACKS \o Quickstart \in Seq(Scenarios) /\ Len(ATTACKS \o Quickstart) = 15 + 3
    BY <1>1, <1>2, <2>2, Zenon
  <2> QED
    BY <2>1, <2>3
<1>4. DOMAIN Rows = 1..Len(Rows) /\ \A i \in 1..Len(Rows) : Rows[i] \in Scenarios
  BY <1>3, LenProperties, ElementOfSeq
<1> QED
  BY <1>3, <1>4

(* The calls a scenario makes before its receipt is presented. *)
CallSequences == {<<"execute">>, <<"execute", "submit">>, <<"execute", "submit", "execute">>,
                  <<"execute", "expire", "claim">>}

(* Every scenario begins with a run.                                       *)
LEMMA ScenariosAre ==
    ASSUME NEW s \in Scenarios
    PROVE  /\ s.steps \in CallSequences
           /\ Head(s.steps) = "execute"
           /\ s.steps # << >>
<1>1. s.steps \in CallSequences
  <2>1. /\ replay_receipt.steps \in CallSequences
        /\ duplicate_completion.steps \in CallSequences
        /\ stale_ownership.steps \in CallSequences
        /\ tampered_copy.steps \in CallSequences
    BY DEF replay_receipt, duplicate_completion, stale_ownership, tampered_copy,
           Scenario, CallSequences
  <2>2. /\ broken_signature.steps \in CallSequences
        /\ tampered_after_signing.steps \in CallSequences
        /\ task_substitution.steps \in CallSequences
        /\ truncated_json.steps \in CallSequences
        /\ missing_field.steps \in CallSequences
        /\ unsupported_schema_version.steps \in CallSequences
        /\ honest_but_unsound_process.steps \in CallSequences
        /\ forged_runtime_fingerprint.steps \in CallSequences
    BY DEF broken_signature, tampered_after_signing, task_substitution, truncated_json,
           missing_field, unsupported_schema_version, honest_but_unsound_process,
           forged_runtime_fingerprint, Scenario, CallSequences
  <2>3. /\ fabricated_witness.steps \in CallSequences
        /\ proof_bomb.steps \in CallSequences
        /\ late_success_after_timeout.steps \in CallSequences
        /\ signed_wrong_prime.steps \in CallSequences
        /\ prime_rechecked.steps \in CallSequences
        /\ prime_reexecuted.steps \in CallSequences
    BY DEF fabricated_witness, proof_bomb, late_success_after_timeout, signed_wrong_prime,
           prime_rechecked, prime_reexecuted, Claiming, Scenario, CallSequences
  <2> QED
    BY <2>1, <2>2, <2>3 DEF Scenarios
<1> QED
  BY <1>1 DEF CallSequences

-----------------------------------------------------------------------------
(* A signature names its key and all that it covers. *)
LEMMA SignatureCovers ==
    ASSUME NEW v, NEW w, NEW p, NEW q, Sign(v, p) = Sign(w, q)
    PROVE  v = w /\ p = q
BY DEF Sign

(* Two receipts with the same payload and signature are the same. *)
LEMMA PayloadFixesReceipt ==
    ASSUME NEW p, NEW r,
           p = [g \in Required \cup {"signature"} |-> p[g]],
           r = [g \in Required \cup {"signature"} |-> r[g]],
           SigningPayload(p) = SigningPayload(r), p.signature = r.signature
    PROVE  p = r
<1>1. \A g \in Required : p[g] = r[g]
  <2> TAKE g \in Required
  <2>0. "signature" \notin Required
    BY DEF Required
  <2>1. g \in DOMAIN p \ {"signature"} /\ g \in DOMAIN r \ {"signature"}
    BY <2>0
  <2>2. SigningPayload(p)[g] = p[g] /\ SigningPayload(r)[g] = r[g]
    BY <2>1 DEF SigningPayload
  <2> QED
    BY <2>2
<1> QED
  BY <1>1

(* What parse_receipt makes of an object it accepts. *)
LEMMA ParsedFields ==
    ASSUME NEW raw, ParseReceipt(raw) # ParseError
    PROVE  LET p == ParseReceipt(raw)
           IN  /\ WellFormed(raw)
               /\ p = [g \in Required \cup {"signature"} |-> p[g]]
               /\ \A g \in Required \cup {"signature"} :
                     p[g] = IF g \in DOMAIN raw.fields THEN raw.fields[g].value ELSE Null
BY DEF ParseReceipt

(* A verdict that accepts a receipt has checked its signature. *)
LEMMA OkIsSigned ==
    ASSUME NEW raw, NEW ctx, Judged(raw, ctx) # Raised, Ok(Judged(raw, ctx))
    PROVE  LET p == ParseReceipt(raw)
           IN  /\ p # ParseError
               /\ p.signature # Null
               /\ p.signature = Sign(p.worker_id, SigningPayload(p))
<1> DEFINE p == ParseReceipt(raw)
<1>1. Judged(raw, ctx) = VerifyReceipt(raw, ctx)
  BY DEF Judged
<1>2. p # ParseError
  BY <1>1 DEF VerifyReceipt, Ok
<1>3. Ok(Report(p, ctx))
  BY <1>1, <1>2 DEF VerifyReceipt
<1> HIDE DEF p
<1>4. SignatureValid(p) # "fail"
  BY <1>3 DEF Ok, Report
<1> QED
  BY <1>2, <1>4 DEF SignatureValid, CheckOf, VerifySig, p

(* What is left of a receipt's signature decides: if it is still the one   *)
(* the worker made, and the verdict is ok, every field is the worker's.    *)
LEMMA SameSignature ==
    ASSUME NEW raw, NEW ctx, NEW r,
           SignedByW(r),
           "signature" \in DOMAIN raw.fields, raw.fields["signature"].value = r.signature,
           Judged(raw, ctx) # Raised, Ok(Judged(raw, ctx))
    PROVE  ParseReceipt(raw) = r
<1> DEFINE p == ParseReceipt(raw)
<1>1. /\ p # ParseError
      /\ p.signature = Sign(p.worker_id, SigningPayload(p))
  BY OkIsSigned
<1>2. /\ p = [g \in Required \cup {"signature"} |-> p[g]]
      /\ p.signature = r.signature
  BY <1>1, ParsedFields
<1> HIDE DEF p
<1>3. SigningPayload(p) = SigningPayload(r)
  BY <1>1, <1>2, SignatureCovers DEF SignedByW
<1>4. p = r
  BY <1>2, <1>3, PayloadFixesReceipt DEF SignedByW
<1> QED
  BY <1>4 DEF p

(* One rewritten field, with nothing signed again. *)
LEMMA ChangedReceiptRejected ==
    ASSUME ReceiptFirst, NEW f \in Required \cup {"signature"}, Changes(f)
    PROVE  UnsignedChangeRejected'
<1> DEFINE r == receipt
           fields == Encoded(r).fields
           ctx == RowContext(Rows[row])
<1>1. SignedByW(r)
  BY DEF ReceiptFirst, Changes, Calls
<1>2. PICK raw : /\ \/ \E v \in Another(r, f) :
                          raw = Raw("object", [fields EXCEPT ![f] = Field("exact", v)])
                    \/ raw = Raw("object", [fields EXCEPT ![f] = Field("text", r[f])])
                    \/ raw = Raw("object", [g \in DOMAIN fields \ {f} |-> fields[g]])
                 /\ presented' = [raw |-> raw, changed |-> TRUE]
                 /\ report' = Judged(raw, ctx)
                 /\ receipt' = r
  BY DEF Changes
<1>3. /\ DOMAIN fields = Required \cup {"signature"}
      /\ \A g \in DOMAIN fields : fields[g] = Field("exact", r[g])
  BY <1>1 DEF Encoded, Raw, SignedByW
<1> HIDE DEF ctx, fields
<1>5. ASSUME Judged(raw, ctx) # Raised, Ok(Judged(raw, ctx))
      PROVE  ParseReceipt(raw) = r
  <2>1. /\ ParseReceipt(raw) # ParseError
        /\ ParseReceipt(raw).signature # Null
        /\ ParseReceipt(raw).signature
              = Sign(ParseReceipt(raw).worker_id, SigningPayload(ParseReceipt(raw)))
    BY <1>5, OkIsSigned
  <2>2. /\ WellFormed(raw)
        /\ \A g \in Required \cup {"signature"} :
              ParseReceipt(raw)[g] = IF g \in DOMAIN raw.fields THEN raw.fields[g].value ELSE Null
    BY <2>1, ParsedFields
  <2>3. CASE f # "signature"
    <3>1. "signature" \in DOMAIN raw.fields /\ raw.fields["signature"] = fields["signature"]
      BY <1>2, <1>3, <2>3 DEF Raw
    <3>2. raw.fields["signature"].value = r.signature
        <4>1. fields["signature"] = Field("exact", r["signature"])
        BY <1>3
      <4>2. Field("exact", r["signature"]).value = r["signature"]
        BY DEF Field
      <4> QED
        BY <3>1, <4>1, <4>2
    <3> QED
      BY <1>1, <1>5, <3>1, <3>2, SameSignature
  <2>4. CASE f = "signature"
    <3>1. CASE \E v \in Another(r, f) :
                  raw = Raw("object", [fields EXCEPT ![f] = Field("exact", v)])
      <4>1. PICK v \in {Null, Sign(V, SigningPayload(r))} :
                  raw = Raw("object", [fields EXCEPT ![f] = Field("exact", v)])
        BY <2>4, <3>1 DEF Another
      <4>2. /\ DOMAIN raw.fields = Required \cup {"signature"}
            /\ raw.fields["signature"].value = v
            /\ \A g \in Required : raw.fields[g].value = r[g]
        BY <1>3, <2>4, <4>1 DEF Raw, Field, Required
      <4>3. ParseReceipt(raw).signature = v /\ ParseReceipt(raw).worker_id = W
        BY <1>1, <2>2, <4>2 DEF SignedByW, Required
      <4> QED
        <5>1. CASE v = Null
          BY <2>1, <4>3, <5>1
        <5>2. CASE v = Sign(V, SigningPayload(r))
          <6>1. PICK q : q = SigningPayload(ParseReceipt(raw))
            OBVIOUS
          <6>2. Sign(V, SigningPayload(r)) = Sign(W, q)
            BY <2>1, <4>3, <5>2, <6>1
          <6>3. V = W
            BY <6>2, SignatureCovers
          <6> QED
            BY <6>3, WorkersAssumption
        <5> QED
          BY <4>1, <5>1, <5>2
    <3>2. CASE raw = Raw("object", [fields EXCEPT ![f] = Field("text", r[f])])
      <4>1. "signature" \in DOMAIN raw.fields /\ raw.fields["signature"].written = "text"
        BY <1>3, <2>4, <3>2 DEF Raw, Field
      <4> QED
        BY <2>2, <4>1 DEF WellFormed, Numbers
    <3>3. CASE raw = Raw("object", [g \in DOMAIN fields \ {f} |-> fields[g]])
      <4>1. "signature" \notin DOMAIN raw.fields
        BY <2>4, <3>3 DEF Raw
      <4> QED
        BY <2>1, <2>2, <4>1
    <3> QED
      BY <1>2, <3>1, <3>2, <3>3
  <2> QED
    BY <2>3, <2>4
<1> QED
  BY <1>2, <1>5 DEF UnsignedChangeRejected

(* A scenario starts with a run of worker W, and with no verdict. *)
LEMMA AdvInvariantInit == AdvInit => AdvInvariant
<1> SUFFICES ASSUME AdvInit PROVE AdvInvariant
  OBVIOUS
<1>1. row = 1 /\ row \in DOMAIN Rows /\ todo = Rows[row].steps
  BY RowsAre DEF AdvInit
<1>2. Calls("execute")
  BY <1>1, RowsAre, ScenariosAre DEF Calls
<1>3. DOMAIN run = Workers /\ run[W] = NoRun /\ report = NoVerdict
  BY WorkersAssumption DEF AdvInit, Init
<1> QED
  BY <1>1, <1>2, <1>3 DEF AdvInvariant, ReceiptFirst, UnsignedChangeRejected

(* Every call made around the receipt keeps the invariant, too. *)
LEMMA AdvInvariantStep == AdvInvariant /\ [AdvNext]_advVars => AdvInvariant'
<1> SUFFICES ASSUME AdvInvariant, [AdvNext]_advVars PROVE AdvInvariant'
  OBVIOUS
<1>0. ReceiptFirst /\ UnsignedChangeRejected /\ W \in Workers
  BY WorkersAssumption DEF AdvInvariant
<1>1. CASE StartsRun
  <2>1. /\ Calls("execute") /\ Calls("execute")' /\ DOMAIN run' = DOMAIN run
        /\ UNCHANGED <<row, todo, receipt, presented, report>>
    BY <1>1 DEF StartsRun, StartRun, Calls
  <2> QED
    BY <1>0, <2>1 DEF AdvInvariant, ReceiptFirst, UnsignedChangeRejected
<1>2. CASE EndsRun
  <2>1. PICK res : /\ FinishRun(W, res) /\ receipt' = Signed(W, Body(W, res))
    BY <1>2 DEF EndsRun
  <2>2. /\ run[W] # NoRun /\ Calls("execute")
        /\ run' = [run EXCEPT ![W] = NoRun]
        /\ UNCHANGED <<row, presented, report>>
    BY <1>0, <1>2, <2>1 DEF EndsRun, FinishRun, ReceiptFirst
  <2>3. report = NoVerdict
    BY <1>0, <2>2 DEF ReceiptFirst, Calls
  <2>4. SignedByW(receipt')
    <3>1. PICK b : b = Body(W, res) /\ receipt' = Signed(W, b)
      BY <2>1
    <3>2. receipt' = [f \in DOMAIN receipt' |-> receipt'[f]]
      BY <3>1 DEF Signed
    <3>3. /\ DOMAIN receipt' = Required \cup {"signature"}
          /\ receipt'.worker_id = W
          /\ receipt'.signature = Sign(W, SigningPayload(receipt'))
      BY <2>1, FinishedReceipt, FinishedEvidence
    <3> QED
      BY <3>2, <3>3 DEF SignedByW
  <2> QED
    BY <1>0, <2>2, <2>3, <2>4 DEF AdvInvariant, ReceiptFirst,
     UnsignedChangeRejected, SignedByW
<1>3. ASSUME todo # << >>, ~ Calls("execute"),
             UNCHANGED <<row, run, receipt, presented, report>>
      PROVE  AdvInvariant'
  <2>1. SignedByW(receipt)' /\ run'[W] = NoRun /\ report' = NoVerdict
    BY <1>0, <1>3 DEF ReceiptFirst, SignedByW
  <2> QED
    BY <1>0, <1>3, <2>1 DEF AdvInvariant, ReceiptFirst, UnsignedChangeRejected
<1>4. CASE Submits \/ Expires \/ OtherClaims
  <2>1. /\ todo # << >> /\ ~ Calls("execute")
        /\ UNCHANGED <<row, run, receipt, presented, report>>
    BY <1>4 DEF Submits, Submit, Expires, OtherClaims, Calls
  <2> QED
    BY <1>3, <2>1
<1>5. ASSUME todo = << >>, UNCHANGED <<vars, row, todo, receipt>>
      PROVE  ReceiptFirst'
  <2>1. ~ Calls("execute")
    BY <1>5 DEF Calls
  <2>2. SignedByW(receipt)' /\ run'[W] = NoRun /\ DOMAIN run' = Workers
    BY <1>0, <1>5, <2>1 DEF ReceiptFirst, SignedByW, vars
  <2> QED
    BY <1>0, <1>5, <2>2 DEF ReceiptFirst
<1>6. CASE Presents
  <2>1. todo = << >> /\ UNCHANGED <<vars, row, todo, receipt>> /\ ~ presented'.changed
    BY <1>6 DEF Presents
  <2> QED
    BY <1>5, <2>1 DEF AdvInvariant, UnsignedChangeRejected
<1>7. CASE NextScenario
  <2>1. /\ row' = (row % Len(Rows)) + 1 /\ todo' = Rows[row'].steps
        /\ report' = NoVerdict /\ run' = [w \in Workers |-> NoRun]
    BY <1>7 DEF NextScenario
  <2>2. row' \in DOMAIN Rows
    BY <1>0, <2>1, RowsAre DEF ReceiptFirst
  <2>3. Calls("execute")'
    BY <2>1, <2>2, RowsAre, ScenariosAre DEF Calls
  <2> QED
    BY <1>0, <2>1, <2>2, <2>3 DEF AdvInvariant, ReceiptFirst, UnsignedChangeRejected
<1>8. ASSUME NEW f \in Required \cup {"signature"}, Changes(f)
      PROVE  AdvInvariant'
  <2>1. todo = << >> /\ UNCHANGED <<vars, row, todo, receipt>>
    BY <1>8 DEF Changes
  <2> QED
    BY <1>0, <1>5, <1>8, <2>1, ChangedReceiptRejected DEF AdvInvariant
<1>9. CASE UNCHANGED advVars
  BY <1>0, <1>9 DEF AdvInvariant, ReceiptFirst, UnsignedChangeRejected,
     Calls, SignedByW, advVars, vars
<1> QED
  BY <1>1, <1>2, <1>4, <1>6, <1>7, <1>8, <1>9 DEF AdvNext

(* "The signature no longer covers the body": whatever the scenario and    *)
(* the fixtures are, a receipt of which one field was rewritten, left out, *)
(* or written another way without signing again is accepted only if it     *)
(* still says what the worker signed.                                      *)
THEOREM UnsignedChangeRejectedAlways == AdvSpec => []UnsignedChangeRejected
<1>1. AdvInvariant => UnsignedChangeRejected
  BY DEF AdvInvariant
<1> QED
  BY <1>1, AdvInvariantInit, AdvInvariantStep, PTL DEF AdvSpec
-----------------------------------------------------------------------------
(* The rest is about the verdicts of the scenarios.  Null, an exception    *)
(* and a parse error are told from everything else.                        *)
Distinct == /\ NullIsNothing
            /\ \A i \in DOMAIN CheckOrder : CheckOrder[i] # Null
            /\ Raised \notin Int
            /\ \A x : Sequence(x) => x \notin {Null, Raised}
            /\ \A raw, ctx : VerifyReceipt(raw, ctx) # Raised
            /\ \A r : DOMAIN r = Required \cup {"signature"} => r # ParseError

(* The verdicts in the order of the checks. *)
Verdicts(p, ctx) ==
    <<"pass", SchemaVersionSupported(p), WitnessSizeBounded(p), SignatureValid(p),
      TaskIdMatchesSpec(p, ctx), TaskNameMatchesSpec(p, ctx), FixtureKnown(p),
      WitnessRecheck(p, ctx), OutputDigestMatchesWitness(p),
      IndependentReexecution(p, ctx), NoDuplicateCompletion(p, ctx), NonceUnseen(p, ctx),
      LeaseEpochCurrent(p, ctx), WithinDeadline(p), TimestampsOrdered(p),
      NotFromTheFuture(p, ctx), PrevLedgerHashMatches(p, ctx), SuccessHasWitness(p)>>

(* The report holds these verdicts and no others.                          *)
LEMMA VerdictsInOrder ==
    ASSUME NEW p, NEW ctx
    PROVE  /\ DOMAIN CheckOrder = 1..18
           /\ \A j \in 1..18 : /\ CheckOrder[j] \in DOMAIN Report(p, ctx)
                               /\ Report(p, ctx)[CheckOrder[j]] = Verdicts(p, ctx)[j]
           /\ \A c \in DOMAIN Report(p, ctx) : \E j \in 1..18 : c = CheckOrder[j]
<1>1. DOMAIN CheckOrder = 1..18
  BY DEF CheckOrder
<1>2. ASSUME NEW j \in 1..18
      PROVE  /\ CheckOrder[j] \in DOMAIN Report(p, ctx)
             /\ Report(p, ctx)[CheckOrder[j]] = Verdicts(p, ctx)[j]
  BY DEF CheckOrder, Report, Verdicts
<1>3. ASSUME NEW c \in DOMAIN Report(p, ctx)
      PROVE  \E j \in 1..18 : c = CheckOrder[j]
  BY DEF CheckOrder, Report
<1> QED
  BY <1>1, <1>2, <1>3

(* The first check that fails is the reason of the table. *)
LEMMA FirstFailure ==
    ASSUME NEW verdict, NEW k \in 1..18, DOMAIN CheckOrder = 1..18,
           CheckOrder[k] \in Failed(verdict),
           \A j \in 1..(k - 1) : CheckOrder[j] \notin Failed(verdict)
    PROVE  Reason(verdict) = CheckOrder[k]
<1> DEFINE First(i) == /\ CheckOrder[i] \in Failed(verdict)
                       /\ \A j \in 1..(i - 1) : CheckOrder[j] \notin Failed(verdict)
           first == CHOOSE i \in 1..18 : First(i)
<1>1. First(k)
  OBVIOUS
<1>2. first \in 1..18 /\ First(first)
  BY <1>1
<1>3. Reason(verdict) = CheckOrder[first]
  BY DEF Reason
<1> HIDE DEF first
<1>4. ~ (first < k) /\ ~ (k < first)
  BY <1>1, <1>2
<1>5. first = k
  BY <1>2, <1>4
<1> QED
  BY <1>3, <1>5

(* A receipt is refused as documented ... *)
LEMMA RefusedAsDocumented ==
    ASSUME Distinct, NEW s, NEW raw, NEW ctx, NEW p, p = ParseReceipt(raw), p # ParseError,
           ~ Raises(p, ctx), NEW k \in 1..18, s.expected_check = CheckOrder[k],
           Verdicts(p, ctx)[k] = "fail", \A j \in 1..(k - 1) : Verdicts(p, ctx)[j] # "fail"
    PROVE  AsDocumented(s, Judged(raw, ctx))
<1> DEFINE verdict == Report(p, ctx)
<1>1. verdict = Judged(raw, ctx) /\ verdict = VerifyReceipt(raw, ctx)
  BY DEF Judged, VerifyReceipt
<1>2. DOMAIN CheckOrder = 1..18 /\ \A j \in 1..18 : CheckOrder[j] \in Failed(verdict)
                                                    <=> Verdicts(p, ctx)[j] = "fail"
  BY VerdictsInOrder DEF Failed
<1>3. CheckOrder[k] # Null /\ verdict # Raised
  BY <1>1, <1>2 DEF Distinct
<1> HIDE DEF verdict
<1>4. CheckOrder[k] \in Failed(verdict)
  BY <1>2
<1>5. ~ Ok(verdict)
  BY <1>4 DEF Ok, Failed
<1>6. Reason(verdict) = CheckOrder[k]
  BY <1>2, <1>4, FirstFailure
<1> QED
  BY <1>1, <1>3, <1>4, <1>5, <1>6 DEF AsDocumented, RowOk

(* ... or accepted, ... *)
LEMMA AcceptedAsDocumented ==
    ASSUME Distinct, NEW s, NEW raw, NEW ctx, NEW p, p = ParseReceipt(raw), p # ParseError,
           ~ Raises(p, ctx), s.expected_check = Null,
           \A j \in 1..18 : Verdicts(p, ctx)[j] # "fail"
    PROVE  AsDocumented(s, Judged(raw, ctx))
<1> DEFINE verdict == Report(p, ctx)
<1>1. verdict = Judged(raw, ctx) /\ verdict = VerifyReceipt(raw, ctx)
  BY DEF Judged, VerifyReceipt
<1>2. Ok(verdict)
  BY VerdictsInOrder DEF Ok
<1>3. verdict # Raised
  BY <1>1 DEF Distinct
<1> QED
  BY <1>1, <1>2, <1>3 DEF AsDocumented, RowOk

(* ... or is none. *)
LEMMA UnparsedAsDocumented ==
    ASSUME Distinct, NEW s, NEW raw, NEW ctx, ParseReceipt(raw) = ParseError,
           s.expected_check = "schema_parseable"
    PROVE  AsDocumented(s, Judged(raw, ctx))
<1> DEFINE verdict == [schema_parseable |-> "fail"]
<1>1. verdict = Judged(raw, ctx) /\ verdict = VerifyReceipt(raw, ctx)
  BY DEF Judged, VerifyReceipt
<1>2. ~ Ok(verdict) /\ "schema_parseable" \in Failed(verdict)
  BY DEF Ok, Failed
<1>3. CheckOrder[1] = "schema_parseable" /\ DOMAIN CheckOrder = 1..18
  BY DEF CheckOrder
<1>4. Reason(verdict) = CheckOrder[1]
  BY <1>2, <1>3, FirstFailure
<1>5. verdict # Raised /\ "schema_parseable" # Null
  BY <1>1, <1>3 DEF Distinct
<1> QED
  BY <1>1, <1>2, <1>3, <1>4, <1>5 DEF AsDocumented, RowOk

(* What the checks before the evidence ask for: the right form, signed,    *)
(* and for the task of spec.                                               *)
Formal(p) == p.schema_version = "1.0" /\ p.witness \notin Oversized
SignedBy(p) == p.signature = Sign(p.worker_id, SigningPayload(p))
For(p, spec) == /\ p.task_id = TaskIdFor(spec) /\ p.task_name = spec.name
                /\ spec.name \in Registered

(* A receipt of the right form, signed, and for its task passes the first  *)
(* seven checks.                                                           *)
LEMMA FormalVerdicts ==
    ASSUME Distinct, NEW p, NEW ctx
    PROVE  /\ Formal(p) => \A j \in 1..3 : Verdicts(p, ctx)[j] # "fail"
           /\ SignedBy(p) => Verdicts(p, ctx)[4] # "fail"
           /\ For(p, ctx.spec) => \A j \in 5..7 : Verdicts(p, ctx)[j] # "fail"
<1>1. ASSUME Formal(p)
      PROVE  SchemaVersionSupported(p) # "fail" /\ WitnessSizeBounded(p) # "fail"
  BY <1>1, ScenariosAssumption
     DEF Formal, SchemaVersionSupported, WitnessSizeBounded, CheckOf
<1>2. ASSUME SignedBy(p)
      PROVE  SignatureValid(p) # "fail"
  BY <1>2 DEF SignedBy, SignatureValid, CheckOf, VerifySig, Distinct, NullIsNothing
<1>3. ASSUME For(p, ctx.spec)
      PROVE  /\ TaskIdMatchesSpec(p, ctx) # "fail" /\ TaskNameMatchesSpec(p, ctx) # "fail"
             /\ FixtureKnown(p) # "fail"
  BY <1>3 DEF For, TaskIdMatchesSpec, TaskNameMatchesSpec, FixtureKnown, Known, CheckIf, CheckOf
<1> QED
  BY <1>1, <1>2, <1>3 DEF Verdicts

(* What the checks of the evidence and of the re-execution make of a claim. *)
SucceedsWith(p, output) == p.outcome = "success" /\ p.witness = WitnessOf(output)

(* A success that claims this output is judged by what the fixture says of *)
(* it.                                                                     *)
LEMMA EvidenceVerdicts ==
    ASSUME Distinct, NEW p, NEW ctx, NEW output,
           p.task_name \in Registered, Has(ctx, "spec"), SucceedsWith(p, output)
    PROVE  LET inputs == ctx.spec.inputs
               name == p.task_name
           IN  /\ Raises(p, ctx) <=> output \in RaisesOn[name, inputs]
               /\ Verdicts(p, ctx)[8] = CheckOf(output \in Believed[name, inputs])
               /\ p.output_digest = ResultDigest(output) =>
                     /\ Verdicts(p, ctx)[9] # "fail" /\ Verdicts(p, ctx)[18] # "fail"
                     /\ output = RunResult[name, inputs] /\ output # Raised =>
                           Verdicts(p, ctx)[10] # "fail"
                     /\ /\ Has(ctx, "reexecutor") /\ name \in Deterministic
                        /\ output # RunResult[name, inputs]
                        => Verdicts(p, ctx)[10] = "fail"
               /\ ~ Has(ctx, "reexecutor") => Verdicts(p, ctx)[10] # "fail"
<1> DEFINE inputs == ctx.spec.inputs
           name == p.task_name
<1>1. /\ ClaimedOutput(p.witness) = output /\ p.witness # NoWitness
      /\ p.outcome = "success" /\ Succeeded(p) /\ Known(p) /\ RechecksWitness(p, ctx)
  BY DEF SucceedsWith, ClaimedOutput, WitnessOf, NoWitness, Succeeded, Known, RechecksWitness
<1>2. Raises(p, ctx) <=> output \in RaisesOn[name, inputs]
  BY <1>1 DEF Raises
<1>3. WitnessRecheck(p, ctx) = CheckOf(output \in Believed[name, inputs])
  BY <1>1 DEF WitnessRecheck, CheckIf
<1>4. ASSUME p.output_digest = ResultDigest(output)
      PROVE  OutputDigestMatchesWitness(p) # "fail" /\ SuccessHasWitness(p) # "fail"
  BY <1>1, <1>4 DEF OutputDigestMatchesWitness, SuccessHasWitness, CheckIf, CheckOf,
                    Distinct, NullIsNothing
<1>5. ASSUME p.output_digest = ResultDigest(output), output = RunResult[name, inputs],
             output # Raised
      PROVE  IndependentReexecution(p, ctx) # "fail"
  BY <1>1, <1>5 DEF IndependentReexecution, Reexecution, CheckIf, CheckOf
<1>6. ASSUME p.output_digest = ResultDigest(output), Has(ctx, "reexecutor"),
             name \in Deterministic, output # RunResult[name, inputs]
      PROVE  IndependentReexecution(p, ctx) = "fail"
  <2>1. ResultDigest(RunResult[name, inputs]) # p.output_digest
    BY <1>6, DigestsDiffer
  <2> QED
    BY <1>1, <1>6, <2>1 DEF IndependentReexecution, Reexecution, CheckIf, CheckOf
<1>7. ASSUME ~ Has(ctx, "reexecutor")
      PROVE  IndependentReexecution(p, ctx) # "fail"
  BY <1>7 DEF IndependentReexecution, CheckIf, CheckOf
<1> QED
  BY <1>2, <1>3, <1>4, <1>5, <1>6, <1>7 DEF Verdicts

(* A receipt that is in turn: nothing is recorded, the epoch is current,   *)
(* the head is the one it names, and the times are in order.               *)
LEMMA TurnVerdicts ==
    ASSUME NEW p, NEW ctx
    PROVE  /\ ctx.ledger = << >> =>
                 Verdicts(p, ctx)[11] # "fail" /\ Verdicts(p, ctx)[12] # "fail"
           /\ /\ p.task_id \in DOMAIN ctx.epochs /\ p.lease_epoch \in Nat \ {0}
              /\ p.lease_epoch = ctx.epochs[p.task_id]
              => Verdicts(p, ctx)[13] # "fail"
           /\ /\ p.started_at = 0 /\ p.finished_at = 0 /\ p.deadline_at = Deadline
              /\ ctx.now = 0
              => \A j \in 14..16 : Verdicts(p, ctx)[j] # "fail"
           /\ p.prev_ledger_hash = ctx.head => Verdicts(p, ctx)[17] # "fail"
<1>1. ASSUME ctx.ledger = << >>
      PROVE  NoDuplicateCompletion(p, ctx) # "fail" /\ NonceUnseen(p, ctx) # "fail"
  <2>1. Successes(ctx.ledger, p.task_id) = {} /\ ~ SeenNonce(ctx.ledger, p.nonce)
    BY <1>1 DEF Successes, SeenNonce
  <2> QED
    BY <2>1 DEF NoDuplicateCompletion, NonceUnseen, CheckIf, CheckOf
<1>2. ASSUME p.task_id \in DOMAIN ctx.epochs, p.lease_epoch \in Nat \ {0},
             p.lease_epoch = ctx.epochs[p.task_id]
      PROVE  LeaseEpochCurrent(p, ctx) # "fail"
  BY <1>2 DEF LeaseEpochCurrent, CheckIf, CheckOf
<1>3. ASSUME p.started_at = 0, p.finished_at = 0, p.deadline_at = Deadline, ctx.now = 0
      PROVE  /\ WithinDeadline(p) # "fail" /\ TimestampsOrdered(p) # "fail"
             /\ NotFromTheFuture(p, ctx) # "fail"
  BY <1>3, TimingAssumption
     DEF WithinDeadline, TimestampsOrdered, NotFromTheFuture, CheckIf, CheckOf
<1>4. ASSUME p.prev_ledger_hash = ctx.head
      PROVE  PrevLedgerHashMatches(p, ctx) # "fail"
  BY <1>4 DEF PrevLedgerHashMatches, CheckIf, CheckOf
<1> QED
  BY <1>1, <1>2, <1>3, <1>4 DEF Verdicts

(* What the verifier is given for a scenario. *)
LEMMA RowContextIs ==
    ASSUME NEW s
    PROVE  LET ctx == RowContext(s)
           IN  /\ ctx.spec = s.assigned /\ ctx.ledger = entries /\ ctx.epochs = max_epoch
               /\ ctx.now = clock /\ ctx.head = HeadHash(entries)
               /\ \A a : Has(ctx, a) <=>
                     /\ a \in {"spec", "ledger", "leases", "now", "head", "reexecutor"}
                     /\ a \notin s.lacks
<1> DEFINE ctx == SubmissionContext(s.assigned)
<1>1. /\ ctx.spec = s.assigned /\ ctx.ledger = entries /\ ctx.epochs = max_epoch
      /\ ctx.now = clock /\ ctx.head = HeadHash(entries)
      /\ DOMAIN ctx = {"given", "spec", "ledger", "epochs", "now", "head"}
      /\ ctx.given \cup {"reexecutor"}
            = {"spec", "ledger", "leases", "now", "head", "reexecutor"}
  BY DEF SubmissionContext
<1>2. RowContext(s) = [ctx EXCEPT !.given = (@ \cup {"reexecutor"}) \ s.lacks]
  BY DEF RowContext
<1> HIDE DEF ctx
<1> QED
  BY <1>1, <1>2 DEF Has

-----------------------------------------------------------------------------
(* What the verifier reads of a receipt that was sent as it is. *)
LEMMA SentIsRead ==
    ASSUME Distinct, NEW q, q = [f \in Required \cup {"signature"} |-> q[f]],
           q.outcome \in Outcomes
    PROVE  LET raw == Encoded(q)
           IN  /\ raw.form = "object" /\ DOMAIN raw.fields = Required \cup {"signature"}
               /\ ParseReceipt(Raw("object", [f \in DOMAIN raw.fields |-> raw.fields[f]])) = q
               /\ q # ParseError
<1> DEFINE D == Required \cup {"signature"}
           fields == [f \in D |-> Field("exact", q[f])]
           raw == Raw("object", fields)
<1>1. DOMAIN q = D /\ "outcome" \in D
  BY DEF Required
<1>2. Encoded(q) = raw /\ raw.form = "object" /\ raw.fields = fields /\ DOMAIN fields = D
  BY <1>1 DEF Encoded, Raw
<1>3. \A f \in D : fields[f].written = "exact" /\ fields[f].value = q[f]
  BY DEF Field
<1>4. fields = [f \in DOMAIN fields |-> fields[f]]
  OBVIOUS
<1> HIDE DEF fields, raw
<1>5. WellFormed(raw)
  BY <1>1, <1>2, <1>3 DEF WellFormed
<1>6. ParseReceipt(raw) = [f \in D |-> q[f]]
  <2>1. ParseReceipt(raw) = [f \in D |-> IF f \in DOMAIN fields THEN fields[f].value ELSE Null]
    BY <1>2, <1>5 DEF ParseReceipt
  <2> QED
    BY <1>2, <1>3, <2>1
<1>7. q # ParseError
  BY <1>1 DEF Distinct
<1> QED
  BY <1>2, <1>4, <1>6, <1>7 DEF raw

(* What it reads of the receipt of a scenario: the edits and the rest as   *)
(* it was, with the signature of the worker if it was signed again.        *)
LEMMA PresentedIs ==
    ASSUME Distinct, NEW s, NEW r, SignedByW(r), s.form = "object", s.missing = {},
           r.outcome \in Outcomes,
           "outcome" \in DOMAIN s.edit => s.edit["outcome"] \in Outcomes
    PROVE  LET p == ParseReceipt(Presented(s, r))
           IN  /\ p # ParseError
               /\ \A f \in Required : p[f] = IF f \in DOMAIN s.edit THEN s.edit[f] ELSE r[f]
               /\ s.resigned => p.signature = Sign(W, SigningPayload(p))
               /\ ~ s.resigned =>
                     p.signature = IF "signature" \in DOMAIN s.edit
                                   THEN s.edit["signature"] ELSE r.signature
               /\ ~ s.resigned /\ DOMAIN s.edit = {} => p = r
<1> DEFINE D == Required \cup {"signature"}
           e == Edited(s, r)
           b == SigningPayload(e)
           q == Resigned(s, e)
<1>0. "signature" \notin Required /\ "outcome" \in Required
  BY DEF Required
<1>1. r = [f \in D |-> r[f]] /\ DOMAIN r = D
  BY DEF SignedByW
<1>2. /\ e = [f \in D |-> e[f]]
      /\ \A f \in D : e[f] = IF f \in DOMAIN s.edit THEN s.edit[f] ELSE r[f]
  BY <1>1 DEF Edited
<1> HIDE DEF e
<1>3. DOMAIN b = Required /\ \A f \in Required : b[f] = e[f]
  BY <1>0, <1>2 DEF SigningPayload
<1>4. ASSUME s.resigned
      PROVE  /\ q = [f \in D |-> q[f]]
             /\ \A f \in Required : q[f] = e[f]
             /\ q.signature = Sign(W, SigningPayload(q))
  <2>1. q = Signed(W, b)
    BY <1>4 DEF Resigned
  <2> HIDE DEF b
  <2>2. Signed(W, b) = [f \in D |-> Signed(W, b)[f]]
    BY <1>3 DEF Signed
  <2>3. \A f \in Required : Signed(W, b)[f] = e[f]
    <3>1. \A f \in DOMAIN b : Signed(W, b)[f] = b[f]
      BY <1>0, <1>3 DEF Signed
    <3> QED
      BY <1>3, <3>1
  <2>4. Signed(W, b).signature = Sign(W, SigningPayload(Signed(W, b)))
    BY <1>0, <1>3, SignatureOfSigned
  <2> QED
    BY <2>1, <2>2, <2>3, <2>4
<1>5. ASSUME ~ s.resigned
      PROVE  q = e
  BY <1>5 DEF Resigned
<1>6. q = [f \in D |-> q[f]] /\ \A f \in Required : q[f] = e[f]
  BY <1>2, <1>4, <1>5
<1> HIDE DEF q
<1>7. q.outcome \in Outcomes
  BY <1>0, <1>2, <1>6
<1>8. ParseReceipt(Presented(s, r)) = q /\ q # ParseError
  <2> DEFINE raw == Encoded(q)
  <2>1. /\ DOMAIN raw.fields = D
        /\ ParseReceipt(Raw("object", [f \in DOMAIN raw.fields |-> raw.fields[f]])) = q
        /\ q # ParseError
    BY <1>6, <1>7, SentIsRead
  <2> HIDE DEF raw
  <2>2. DOMAIN raw.fields \ s.missing = DOMAIN raw.fields
    OBVIOUS
  <2>3. Presented(s, r) = Raw("object", [f \in DOMAIN raw.fields |-> raw.fields[f]])
    BY <2>2 DEF Presented, raw, q, e
  <2> QED
    BY <2>1, <2>3
<1>9. ~ s.resigned /\ DOMAIN s.edit = {} => q = r
  BY <1>1, <1>2, <1>5
<1> QED
  BY <1>2, <1>4, <1>5, <1>6, <1>8, <1>9
-----------------------------------------------------------------------------
(* What the fixtures say of the claims of the scenarios. *)

(* What run() returned, an honest worker may claim. *)
LEMMA HonestClaim ==
    ASSUME NEW spec \in Specs, spec.name \in Registered,
           RunResult[spec.name, spec.inputs] # Raised
    PROVE  LET result == RunResult[spec.name, spec.inputs]
           IN  /\ result \in Believed[spec.name, spec.inputs]
               /\ result \notin RaisesOn[spec.name, spec.inputs]
               /\ WitnessOf(result) \notin Oversized
<1> DEFINE result == RunResult[spec.name, spec.inputs]
<1>1. result \in Claims
  BY FixturesAssumption, ValuesAssumption
<1>2. WitnessOf(result) \notin Oversized
  BY <1>1, ScenariosAssumption
<1>3. Fair(spec)
  BY <1>2, FixturesAreFair
<1> QED
  BY <1>2, <1>3 DEF Fair

(* What an input of a scenario is converted to. *)
LEMMA GivenIs ==
    ASSUME Distinct
    PROVE  /\ \A n \in Int : IntOf(Given([k \in {"n"} |-> IntValue(n)], "n")) = n
           /\ \A n \in Int : n # Raised /\ IntValue(n) \notin {Null, Raised}
<1>1. ASSUME NEW n \in Int
      PROVE  IntValue(n) \notin {Null, Raised} /\ n # Raised
  BY DEF IntValue, Distinct, Sequence
<1>2. ASSUME NEW n \in Int
      PROVE  IntOf(Given([k \in {"n"} |-> IntValue(n)], "n")) = n
  <2>1. Given([k \in {"n"} |-> IntValue(n)], "n") = IntValue(n)
    BY DEF Given
  <2> QED
    BY <1>1, <2>1 DEF IntOf, IntValue, NumberKinds
<1> QED
  BY <1>1, <1>2

(* The check of a sum never raises, and believes the closed form. *)
LEMMA SumAnswers ==
    ASSUME Distinct, NEW name \in {"sum_range", "slow_task"}, NEW n \in Int,
           NEW spec \in Specs, spec.inputs = [k \in {"n"} |-> IntValue(n)]
    PROVE  LET inputs == spec.inputs
           IN  /\ \A output : output \notin RaisesOn[name, inputs]
               /\ \A x \in Int : IntValue(x) \in Claims /\ x = ClosedForm(n)
                     => IntValue(x) \in Believed[name, inputs]
               /\ RunResult[name, inputs] \in {Raised, IntValue(ClosedForm(n))}
<1> DEFINE inputs == spec.inputs
<1>1. IntOf(Given(inputs, "n")) = n /\ n # Raised
  BY GivenIs
<1>2. name \in Registry /\ name \in Sums
  BY DEF Registry, Sums
<1>3. ASSUME NEW claim PROVE CheckWitness(name, inputs, claim) = SumRangeCheck(n, claim)
  <2>1. CheckWitness(name, inputs, claim) = SumRangeCheck(IntOf(Given(inputs, "n")), claim)
    BY DEF CheckWitness
  <2> QED
    BY <1>1, <2>1
<1>4. \A claim : SumRangeCheck(n, claim) # Raised
  BY <1>1, RaisedAssumption DEF SumRangeCheck, Answer
<1>5. ASSUME NEW output PROVE output \notin RaisesOn[name, inputs]
  <2>1. CheckWitness(name, inputs, Claimed(output)) # Raised
    BY <1>3, <1>4
  <2> QED
    BY <1>2, <2>1, FixtureAnswers
<1>6. ASSUME NEW x \in Int, IntValue(x) \in Claims, x = ClosedForm(n)
      PROVE  IntValue(x) \in Believed[name, inputs]
  <2>1. Claimed(IntValue(x)) = IntValue(x)
    BY GivenIs DEF Claimed
  <2>2. SumRangeCheck(n, IntValue(x)) = "pass"
    BY <1>1, <1>6 DEF SumRangeCheck, Answer, Key, IntValue, NumberKinds
  <2>3. CheckWitness(name, inputs, Claimed(IntValue(x))) = "pass"
    BY <1>3, <2>1, <2>2
  <2>4. IntValue(x) \in Claims
    BY <1>6
  <2> QED
    BY <1>2, <2>3, <2>4, FixtureAnswers
<1>7. RunResult[name, inputs] \in {Raised, IntValue(ClosedForm(n))}
  <2>1. RunResult[name, inputs] = RunFixture(name, inputs, MaxAttempts)
    BY <1>2, FixtureAnswers
  <2>2. RunFixture(name, inputs, MaxAttempts) \in {Raised, <<"int", ClosedForm(n)>>}
    BY <1>1, <1>2, RunOfSums
  <2> QED
    BY <2>1, <2>2 DEF IntValue
<1> QED
  BY <1>5, <1>6, <1>7

(* Up to ten there are no ten primes. *)
LEMMA TenthPrimeIsLater == \A n \in 2..10 : NthPrime[10] # n
<1>1. ASSUME NEW n \in Int, n >= 2, n <= 10
      PROVE  NthPrime[10] # n
  <2>1. PrimesUpTo(n) \subseteq 2..n
    BY DEF PrimesUpTo
  <2>2. IsFiniteSet(2..n) /\ Cardinality(2..n) = n - 1
    BY <1>1, FS_Interval
  <2>3. Cardinality(PrimesUpTo(n)) <= n - 1
    BY <2>1, <2>2, FS_Subset
  <2>4. Cardinality(PrimesUpTo(NthPrime[10])) = 10
    BY NthPrimeIsNth
  <2> QED
    BY <1>1, <2>3, <2>4
<1> QED
  BY <1>1

(* The check of nth_prime believes 7 for the tenth prime, which it is not. *)
LEMMA PrimeAnswers ==
    ASSUME Distinct, Prime10 \in Specs
    PROVE  LET inputs == Prime10.inputs
           IN  /\ IntValue(7) \in Believed["nth_prime", inputs]
               /\ IntValue(7) \notin RaisesOn["nth_prime", inputs]
               /\ RunResult["nth_prime", inputs] # IntValue(7)
<1> DEFINE inputs == Prime10.inputs
<1>1. "nth_prime" \in Registry /\ inputs = [k \in {"n"} |-> IntValue(10)]
  BY DEF Registry, Prime10, TaskOf
<1>2. IsPrime(7)
  <2>1. ASSUME NEW d \in 2..6, d * d <= 7
        PROVE  7 % d # 0
    <3>1. d = 2
      BY <2>1
    <3> QED
      BY <3>1
  <2> QED
    BY <2>1 DEF IsPrime
<1>3. Claimed(IntValue(7)) = IntValue(7)
  BY GivenIs DEF Claimed
<1>4. CheckWitness("nth_prime", inputs, IntValue(7)) = "pass"
  <2>1. ~ 7 > FloatMax
    BY ScenariosAssumption, FloatAssumption
  <2> QED
    BY <1>2, <2>1 DEF CheckWitness, NthPrimeCheck, Answer, IntValue
<1>5. /\ IntValue(7) \in Believed["nth_prime", inputs]
      /\ IntValue(7) \notin RaisesOn["nth_prime", inputs]
  BY <1>1, <1>3, <1>4, FixtureAnswers, ScenariosAssumption, RaisedAssumption
<1>6. RunFixture("nth_prime", inputs, MaxAttempts) # IntValue(7)
  <2>1. IntOf(Given(inputs, "n")) = 10 /\ 10 # Raised
    BY <1>1, GivenIs
  <2>2. RunFixture("nth_prime", inputs, MaxAttempts) \in {<<"int", NthPrime[10]>>, Raised}
    BY <2>1 DEF RunFixture, NthPrimeRun
  <2>3. NthPrime[10] # 7
    BY TenthPrimeIsLater
  <2>4. IntValue(7) # Raised
    <3>1. Sequence(IntValue(7))
      BY DEF Sequence, IntValue
    <3> QED
      BY <3>1 DEF Distinct
  <2> QED
    BY <2>2, <2>3, <2>4 DEF IntValue
<1>7. RunResult["nth_prime", inputs] # IntValue(7)
  BY <1>1, <1>6, FixtureAnswers
<1> QED
  BY <1>5, <1>7

(* The check of sort_list fails a list of numbers that descends somewhere, *)
(* and compares all of it without raising.                                 *)
LEMMA DescendingFails ==
    ASSUME NEW items, items # Raised, NEW claim, claim[1] = "list",
           Sequence(claim[2]), \A i \in DOMAIN claim[2] : claim[2][i][1] = "int",
           NEW k \in 1..(Len(claim[2]) - 1), claim[2][k + 1][2] < claim[2][k][2]
    PROVE  SortCheck(items, claim) = "fail"
<1> DEFINE out == claim[2]
<1>1. Len(out) \in Nat /\ DOMAIN out = 1..Len(out)
  BY DEF Sequence
<1>2. \A i \in 1..(Len(out) - 1) : Comparable(out[i], out[i + 1])
  <2>1. ASSUME NEW v, NEW w, v[1] = "int", w[1] = "int"
        PROVE  Comparable(v, w)
    BY <2>1 DEF Comparable, ScalarsCompare, NumberKinds
  <2>2. \A i \in 1..(Len(out) - 1) : out[i][1] = "int" /\ out[i + 1][1] = "int"
    BY <1>1
  <2> QED
    BY <2>1, <2>2
<1>3. Less(out[k + 1], out[k])
  BY <1>1 DEF Less
<1> HIDE DEF out
<1>4. k \in 1..(Len(out) - 1)
  BY DEF out
<1> QED
  BY <1>2, <1>3, <1>4 DEF SortCheck, Answer, out

(* The two lists claimed for a sort are of that kind. *)
LEMMA IntListIs ==
    ASSUME NEW seq, Sequence(seq)
    PROVE  /\ IntList(seq) = <<"list", IntList(seq)[2]>>
           /\ Sequence(IntList(seq)[2]) /\ Len(IntList(seq)[2]) = Len(seq)
           /\ \A i \in DOMAIN seq : IntList(seq)[2][i] = IntValue(seq[i])
<1> DEFINE list == [i \in DOMAIN seq |-> IntValue(seq[i])]
<1>1. IntList(seq) = <<"list", list>> /\ IntList(seq)[2] = list
  BY DEF IntList
<1>2. Len(seq) \in Nat /\ DOMAIN seq = 1..Len(seq) /\ DOMAIN list = 1..Len(seq)
  BY DEF Sequence
<1>3. \A i \in DOMAIN seq : list[i] = IntValue(seq[i])
  OBVIOUS
<1> HIDE DEF list
<1>4. Len(list) = Len(seq)
  BY <1>2
<1> QED
  BY <1>1, <1>2, <1>3, <1>4 DEF Sequence

(* A list that goes down somewhere is not a sorted list, whatever was to   *)
(* be sorted; to say so raises nothing.                                    *)
LEMMA SortAnswers ==
    ASSUME Distinct, NEW spec \in Specs, NEW seq, Sequence(seq),
           spec.inputs = [k \in {"items"} |-> IntList(seq)],
           NEW claimed, Sequence(claimed),
           NEW k \in 1..(Len(claimed) - 1), claimed[k + 1] < claimed[k]
    PROVE  LET output == IntList(claimed)
           IN  /\ output \notin Believed["sort_list", spec.inputs]
               /\ output \notin RaisesOn["sort_list", spec.inputs]
<1> DEFINE items == ItemsOf(Given(spec.inputs, "items"))
           output == IntList(claimed)
<1>1. Given(spec.inputs, "items") = IntList(seq)
  BY DEF Given
<1>2. IntList(seq) # Raised /\ IntList(seq)[2] # Raised /\ output \notin {Null, Raised}
  <2>1. ASSUME NEW s, Sequence(s)
        PROVE  IntList(s) \notin {Null, Raised} /\ IntList(s)[2] # Raised
    <3>1. Sequence(IntList(s)[2]) /\ IntList(s) = <<"list", IntList(s)[2]>>
      BY <2>1, IntListIs
    <3>2. Sequence(<<"list", IntList(s)[2]>>)
      BY DEF Sequence
    <3> QED
      BY <3>1, <3>2 DEF Distinct
  <2> QED
    BY <2>1
<1>3. items # Raised
  BY <1>1, <1>2, IntListIs DEF ItemsOf
<1>4. /\ output[1] = "list" /\ Sequence(output[2]) /\ Len(output[2]) = Len(claimed)
      /\ \A i \in DOMAIN claimed : output[2][i] = IntValue(claimed[i])
  <2>1. /\ output = <<"list", output[2]>>
        /\ Sequence(output[2]) /\ Len(output[2]) = Len(claimed)
        /\ \A i \in DOMAIN claimed : output[2][i] = IntValue(claimed[i])
    BY IntListIs
  <2> HIDE DEF output
  <2>2. output[1] = "list"
    BY <2>1
  <2> QED
    BY <2>1, <2>2
<1>5. DOMAIN output[2] = DOMAIN claimed /\ k \in DOMAIN claimed /\ k + 1 \in DOMAIN claimed
  BY <1>4 DEF Sequence
<1>6. Claimed(output) = output
  BY <1>2 DEF Claimed
<1> HIDE DEF items, output
<1>7. SortCheck(items, output) = "fail"
  <2>1. \A i \in DOMAIN output[2] : output[2][i][1] = "int"
    BY <1>4, <1>5 DEF IntValue
  <2>2. output[2][k + 1][2] < output[2][k][2]
    BY <1>4, <1>5 DEF IntValue
  <2> QED
    BY <1>3, <1>4, <2>1, <2>2, DescendingFails
<1>8. CheckWitness("sort_list", spec.inputs, Claimed(output)) = "fail"
  BY <1>6, <1>7 DEF CheckWitness, items
<1>9. "sort_list" \in Registry
  BY DEF Registry
<1> QED
  BY <1>8, <1>9, FixtureAnswers, RaisedAssumption DEF output

(* A sum up to 1 is another task than one up to 50. *)
LEMMA TasksDiffer == TaskIdFor(Sum(1)) # TaskIdFor(Sum(50))
<1>1. TaskIdFor(Sum(1)).inputs["n"][2] = 1 /\ TaskIdFor(Sum(50)).inputs["n"][2] = 50
  BY DEF TaskIdFor, Sum, TaskOf, IntValue
<1> QED
  BY <1>1
-----------------------------------------------------------------------------
(* What is left of the calls after each of them. *)
LEMMA CallTails ==
    /\ Tail(<<"execute">>) = << >>
    /\ Tail(<<"execute", "submit">>) = <<"submit">>
    /\ Tail(<<"execute", "submit", "execute">>) = <<"submit", "execute">>
    /\ Tail(<<"execute", "expire", "claim">>) = <<"expire", "claim">>
    /\ Tail(<<"submit", "execute">>) = <<"execute">> /\ Tail(<<"submit">>) = << >>
    /\ Tail(<<"expire", "claim">>) = <<"claim">> /\ Tail(<<"claim">>) = << >>
    /\ <<"submit">> # << >> /\ <<"submit", "execute">> # << >>
    /\ <<"expire", "claim">> # << >> /\ <<"execute">> # << >>
OBVIOUS

(* How far a scenario is when its receipt is presented. *)
LEMMA Presentable ==
    ASSUME row \in DOMAIN Rows, Progress, todo = << >>
    PROVE  /\ Steps = <<"execute">> => HasRun
           /\ Steps = <<"execute", "submit">> => HasSubmitted
           /\ Steps = <<"execute", "submit", "execute">> => HasRunAgain
           /\ Steps = <<"execute", "expire", "claim">> => Superseded
<1>1. Steps \in CallSequences /\ Steps # << >>
  BY RowsAre, ScenariosAre DEF Steps
<1>2. ~ NotRun /\ ~ LeftTime
  BY <1>1 DEF NotRun, LeftTime
<1>3. HasRun => Steps = <<"execute">>
  BY <1>1, CallTails DEF HasRun, CallSequences
<1>4. HasSubmitted => Steps = <<"execute", "submit">>
  <2> SUFFICES ASSUME HasSubmitted PROVE Steps = <<"execute", "submit">>
    OBVIOUS
  <2>1. Len(Steps) > 1 /\ Steps[2] = "submit" /\ Tail(Tail(Steps)) = << >>
    BY DEF HasSubmitted
  <2>2. Steps # <<"execute">> /\ Steps # <<"execute", "expire", "claim">>
    BY <2>1
  <2>3. Steps # <<"execute", "submit", "execute">>
    BY <2>1, CallTails
  <2> QED
    BY <1>1, <2>2, <2>3 DEF CallSequences
<1>5. HasRunAgain => Steps = <<"execute", "submit", "execute">>
  BY DEF HasRunAgain
<1>6. Superseded => Steps = <<"execute", "expire", "claim">>
  BY DEF Superseded
<1> QED
  BY <1>2, <1>3, <1>4, <1>5, <1>6 DEF Progress

(* The tasks of the scenarios are tasks of the harness. *)
LEMMA SpecsOfRows ==
    ASSUME row \in DOMAIN Rows
    PROVE  /\ Rows[row].spec \in Specs /\ Rows[row].assigned \in Specs
           /\ TaskIdFor(Rows[row].spec) \in Tasks
<1>1. Rows[row].spec \in AllSpecs /\ Rows[row].assigned \in AllSpecs
  BY DEF AllSpecs
<1> QED
  BY <1>1, ScenariosAssumption, SpecsAssumption

(* The evidence of a receipt as W signs it stands. *)
LEMMA HonestRow ==
    ASSUME Distinct, row \in DOMAIN Rows, NEW r, NEW id, NEW head, RunReceipt(r, id, head),
           Rows[row].spec.name # "slow_task",
           NEW p, p.task_id = r.task_id, p.task_name = r.task_name,
           p.outcome = r.outcome, p.witness = r.witness
    PROVE  LET spec == Rows[row].spec
           IN  /\ For(p, spec) /\ p.witness \notin Oversized
               /\ SucceedsWith(p, RunResult[spec.name, spec.inputs])
               /\ \A ctx : Has(ctx, "spec") /\ ctx.spec = spec =>
                     /\ ~ Raises(p, ctx) /\ Verdicts(p, ctx)[8] # "fail"
                     /\ p.output_digest = r.output_digest =>
                           /\ Verdicts(p, ctx)[9] # "fail" /\ Verdicts(p, ctx)[10] # "fail"
                           /\ Verdicts(p, ctx)[18] # "fail"
<1> DEFINE spec == Rows[row].spec
           result == RunResult[spec.name, spec.inputs]
<1>1. /\ r.task_id = TaskIdFor(spec) /\ r.task_name = spec.name /\ spec.name \in Registered
      /\ r.outcome = "success" /\ result # Raised /\ r.witness = WitnessOf(result)
      /\ r.output_digest = ResultDigest(result)
  BY DEF RunReceipt, UsualOutcome
<1>2. spec \in Specs
  BY SpecsOfRows
<1>3. /\ result \in Believed[spec.name, spec.inputs]
      /\ result \notin RaisesOn[spec.name, spec.inputs]
      /\ WitnessOf(result) \notin Oversized
  BY <1>1, <1>2, HonestClaim
<1>4. For(p, spec) /\ p.witness \notin Oversized /\ SucceedsWith(p, result)
  BY <1>1, <1>3 DEF For, SucceedsWith
<1> HIDE DEF result, spec
<1>5. ASSUME NEW ctx, Has(ctx, "spec"), ctx.spec = spec
      PROVE  /\ ~ Raises(p, ctx) /\ Verdicts(p, ctx)[8] # "fail"
             /\ p.output_digest = r.output_digest =>
                   /\ Verdicts(p, ctx)[9] # "fail" /\ Verdicts(p, ctx)[10] # "fail"
                   /\ Verdicts(p, ctx)[18] # "fail"
  <2>1. p.task_name \in Registered /\ p.task_name = spec.name
    BY <1>1
  <2>2. /\ Raises(p, ctx) <=> result \in RaisesOn[p.task_name, ctx.spec.inputs]
        /\ Verdicts(p, ctx)[8] = CheckOf(result \in Believed[p.task_name, ctx.spec.inputs])
        /\ p.output_digest = ResultDigest(result) =>
              /\ Verdicts(p, ctx)[9] # "fail" /\ Verdicts(p, ctx)[18] # "fail"
              /\ result = RunResult[p.task_name, ctx.spec.inputs] /\ result # Raised =>
                    Verdicts(p, ctx)[10] # "fail"
    BY <1>4, <1>5, <2>1, EvidenceVerdicts
  <2>3. result = RunResult[p.task_name, ctx.spec.inputs]
    BY <1>5, <2>1 DEF result
  <2> QED
    BY <1>1, <1>3, <1>5, <2>1, <2>2, <2>3 DEF CheckOf
<1> QED
  BY <1>4, <1>5 DEF spec, result

(* A receipt of W's is in turn until something else is recorded or         *)
(* somebody else has the lease.                                            *)
LEMMA FirstInTurn ==
    ASSUME row \in DOMAIN Rows, LeaseTypeOK, HasRun, NEW ctx,
           ctx.ledger = entries, ctx.epochs = max_epoch, ctx.now = clock,
           ctx.head = HeadHash(entries),
           NEW p, p.task_id = receipt.task_id, p.lease_epoch = receipt.lease_epoch,
           p.prev_ledger_hash = receipt.prev_ledger_hash
    PROVE  /\ \A j \in {11, 12, 13, 17} : Verdicts(p, ctx)[j] # "fail"
           /\ /\ p.started_at = receipt.started_at /\ p.deadline_at = receipt.deadline_at
              /\ p.finished_at = 0
              => \A j \in 14..16 : Verdicts(p, ctx)[j] # "fail"
<1> DEFINE t == TaskIdFor(Rows[row].spec)
<1>1. /\ receipt.task_id = t /\ receipt.lease_epoch \in Nat \ {0}
      /\ receipt.prev_ledger_hash = GENESIS
      /\ receipt.started_at = 0 /\ receipt.deadline_at = Deadline
  BY DEF HasRun, FirstReceipt, RunReceipt
<1>2. entries = << >> /\ clock = 0 /\ max_epoch[t] = receipt.lease_epoch
  BY <1>1 DEF HasRun, HoldsTask
<1>3. t \in DOMAIN max_epoch
  BY SpecsOfRows DEF LeaseTypeOK
<1>4. HeadHash(entries) = GENESIS
  BY <1>2 DEF HeadHash
<1> HIDE DEF t
<1> QED
  BY <1>1, <1>2, <1>3, <1>4, TurnVerdicts
-----------------------------------------------------------------------------
(* The scenarios, one after the other. *)
Ready == row \in DOMAIN Rows /\ LeaseTypeOK /\ Progress /\ todo = << >>

Matches(s) == AsDocumented(s, Judged(Presented(s, receipt), RowContext(s)))

Unedited(s) == /\ s.form = "object" /\ s.missing = {} /\ s.edit = << >> /\ s.resigned = FALSE
               /\ s.assigned = s.spec /\ s.spec.name # "slow_task"

(* A receipt that is presented as it was signed fails none of the checks   *)
(* of its form and its evidence.                                           *)
LEMMA UneditedRow ==
    ASSUME Distinct, Ready, Unedited(Rows[row]), NEW id, NEW head, RunReceipt(receipt, id, head)
    PROVE  LET s == Rows[row]
               ctx == RowContext(s)
           IN  /\ ParseReceipt(Presented(s, receipt)) = receipt /\ receipt # ParseError
               /\ Has(ctx, "spec") => ~ Raises(receipt, ctx)
               /\ Has(ctx, "spec") =>
                     \A j \in 1..10 \cup {18} : Verdicts(receipt, ctx)[j] # "fail"
<1> DEFINE s == Rows[row]
           ctx == RowContext(s)
<1>1. /\ SignedByW(receipt) /\ receipt.outcome \in Outcomes
      /\ receipt.schema_version = "1.0"
  BY DEF RunReceipt, UsualOutcome, Outcomes
<1>2. s.form = "object" /\ s.missing = {} /\ DOMAIN s.edit = {} /\ ~ s.resigned
      /\ s.assigned = s.spec /\ s.spec.name # "slow_task" /\ row \in DOMAIN Rows
  BY DEF Unedited, Ready
<1>3. ctx.spec = s.spec
  BY <1>2, RowContextIs
<1> HIDE DEF s, ctx
<1>4. ParseReceipt(Presented(s, receipt)) = receipt /\ receipt # ParseError
  BY <1>1, <1>2, PresentedIs
<1>5. /\ For(receipt, s.spec) /\ receipt.witness \notin Oversized
      /\ Has(ctx, "spec") =>
            /\ ~ Raises(receipt, ctx) /\ Verdicts(receipt, ctx)[8] # "fail"
            /\ Verdicts(receipt, ctx)[9] # "fail" /\ Verdicts(receipt, ctx)[10] # "fail"
            /\ Verdicts(receipt, ctx)[18] # "fail"
  BY <1>2, <1>3, HonestRow DEF s
<1>6. Formal(receipt) /\ SignedBy(receipt) /\ For(receipt, ctx.spec)
  BY <1>1, <1>3, <1>5 DEF Formal, SignedBy, SignedByW
<1>7. \A j \in 1..7 : Verdicts(receipt, ctx)[j] # "fail"
  <2>1. /\ \A j \in 1..3 : Verdicts(receipt, ctx)[j] # "fail"
        /\ Verdicts(receipt, ctx)[4] # "fail"
        /\ \A j \in 5..7 : Verdicts(receipt, ctx)[j] # "fail"
    BY <1>6, FormalVerdicts
  <2> QED
    BY <2>1
<1> QED
  BY <1>4, <1>5, <1>7 DEF s, ctx

(* A submitted receipt presented again: its nonce was seen.                *)
LEMMA ReplayRow ==
    ASSUME Distinct, Ready, Rows[row] = replay_receipt
    PROVE  Matches(Rows[row])
<1> DEFINE s == Rows[row]
           ctx == RowContext(s)
<1>1. /\ Unedited(s) /\ s.lacks = {} /\ s.expected_check = "nonce_unseen"
      /\ s.steps = <<"execute", "submit">>
  BY DEF replay_receipt, Scenario, Unedited, Sum, TaskOf
<1>2. HasSubmitted
  BY <1>1, Presentable DEF Ready, Steps
<1>3. RunReceipt(receipt, 1, GENESIS) /\ entries = LogOf(receipt)
  BY <1>2 DEF HasSubmitted, FirstReceipt
<1>4. /\ ctx.ledger = entries /\ Has(ctx, "spec") /\ Has(ctx, "ledger")
  BY <1>1, RowContextIs
<1> HIDE DEF ctx
<1>5. /\ ParseReceipt(Presented(s, receipt)) = receipt /\ receipt # ParseError
      /\ ~ Raises(receipt, ctx)
      /\ \A j \in 1..10 : Verdicts(receipt, ctx)[j] # "fail"
  BY <1>1, <1>3, <1>4, UneditedRow DEF ctx
<1>6. /\ entries[1].receipt = receipt /\ DOMAIN entries = {1}
  BY <1>3 DEF LogOf, NewEntry
<1>7. Verdicts(receipt, ctx)[11] # "fail"
  <2>1. Successes(entries, receipt.task_id) \in {{}, {1}}
    BY <1>6 DEF Successes
  <2>2. CASE Successes(entries, receipt.task_id) = {1}
    <3>1. TerminalReceiptFor(entries, receipt.task_id) = entries[1].receipt
      BY <2>2 DEF TerminalReceiptFor
    <3>2. NoDuplicateCompletion(receipt, ctx) # "fail"
      BY <1>4, <1>6, <3>1 DEF NoDuplicateCompletion, CheckIf, CheckOf
    <3> QED
      BY <3>2 DEF Verdicts
  <2>3. CASE Successes(entries, receipt.task_id) = {}
    <3>1. NoDuplicateCompletion(receipt, ctx) # "fail"
      BY <1>4, <2>3 DEF NoDuplicateCompletion, CheckIf, CheckOf
    <3> QED
      BY <3>1 DEF Verdicts
  <2> QED
    BY <2>1, <2>2, <2>3
<1>8. Verdicts(receipt, ctx)[12] = "fail"
  <2>1. SeenNonce(ctx.ledger, receipt.nonce)
    BY <1>4, <1>6 DEF SeenNonce
  <2>2. NonceUnseen(receipt, ctx) = "fail"
    BY <1>4, <2>1 DEF NonceUnseen, CheckIf, CheckOf
  <2> QED
    BY <2>2 DEF Verdicts
<1>9. s.expected_check = CheckOrder[12] /\ \A j \in 1..11 : Verdicts(receipt, ctx)[j] # "fail"
  BY <1>1, <1>5, <1>7 DEF CheckOrder
<1> QED
  BY <1>5, <1>8, <1>9, RefusedAsDocumented DEF Matches, ctx

(* A second receipt for a task that is done: it has a success already.     *)
LEMMA DuplicateRow ==
    ASSUME Distinct, Ready, Rows[row] = duplicate_completion
    PROVE  Matches(Rows[row])
<1> DEFINE s == Rows[row]
           ctx == RowContext(s)
           first == entries[1].receipt
<1>1. /\ Unedited(s) /\ s.lacks = {} /\ s.expected_check = "no_duplicate_completion"
      /\ s.steps = <<"execute", "submit", "execute">>
  BY DEF duplicate_completion, Scenario, Unedited, Sum, TaskOf
<1>2. HasRunAgain
  BY <1>1, Presentable DEF Ready, Steps
<1>3. /\ RunReceipt(first, 1, GENESIS) /\ entries = LogOf(first)
      /\ RunReceipt(receipt, 2, HeadHash(entries))
  BY <1>2 DEF HasRunAgain
<1>4. /\ ctx.ledger = entries /\ Has(ctx, "spec") /\ Has(ctx, "ledger")
  BY <1>1, RowContextIs
<1> HIDE DEF ctx
<1>5. /\ ParseReceipt(Presented(s, receipt)) = receipt /\ receipt # ParseError
      /\ ~ Raises(receipt, ctx)
      /\ \A j \in 1..10 : Verdicts(receipt, ctx)[j] # "fail"
  BY <1>1, <1>3, <1>4, UneditedRow DEF ctx
<1>6. DOMAIN entries = {1}
  BY <1>3 DEF LogOf
<1>7. /\ first.task_id = receipt.task_id /\ first.outcome = receipt.outcome
      /\ first.receipt_id = 1 /\ receipt.receipt_id = 2 /\ receipt.outcome = "success"
  BY <1>1, <1>3 DEF RunReceipt, UsualOutcome, Unedited
<1>8. Verdicts(receipt, ctx)[11] = "fail"
  <2>1. Successes(entries, receipt.task_id) = {1}
    BY <1>6, <1>7 DEF Successes
  <2>2. TerminalReceiptFor(entries, receipt.task_id) = first
    BY <2>1 DEF TerminalReceiptFor
  <2>3. NoDuplicateCompletion(receipt, ctx) = "fail"
    BY <1>4, <1>7, <2>1, <2>2 DEF NoDuplicateCompletion, CheckIf, CheckOf, Succeeded
  <2> QED
    BY <2>3 DEF Verdicts
<1>9. s.expected_check = CheckOrder[11]
  BY <1>1 DEF CheckOrder
<1> QED
  BY <1>5, <1>8, <1>9, RefusedAsDocumented DEF Matches, ctx

(* The receipt of a worker that lost its lease: its epoch is not current.  *)
LEMMA StaleRow ==
    ASSUME Distinct, Ready, Rows[row] = stale_ownership
    PROVE  Matches(Rows[row])
<1> DEFINE s == Rows[row]
           ctx == RowContext(s)
<1>1. /\ Unedited(s) /\ s.lacks = {} /\ s.expected_check = "lease_epoch_current"
      /\ s.steps = <<"execute", "expire", "claim">>
  BY DEF stale_ownership, Scenario, Unedited, Sum, TaskOf
<1>2. Superseded
  BY <1>1, Presentable DEF Ready, Steps
<1>3. /\ RunReceipt(receipt, 1, GENESIS) /\ entries = << >>
      /\ receipt.lease_epoch # max_epoch[receipt.task_id]
      /\ receipt.task_id \in Tasks
  BY <1>2, SpecsOfRows DEF Superseded, FirstReceipt, RunReceipt, Ready
<1>4. /\ ctx.ledger = entries /\ ctx.epochs = max_epoch /\ Has(ctx, "spec")
      /\ Has(ctx, "leases")
  BY <1>1, RowContextIs
<1> HIDE DEF ctx
<1>5. /\ ParseReceipt(Presented(s, receipt)) = receipt /\ receipt # ParseError
      /\ ~ Raises(receipt, ctx)
      /\ \A j \in 1..10 : Verdicts(receipt, ctx)[j] # "fail"
  BY <1>1, <1>3, <1>4, UneditedRow DEF ctx
<1>6. Verdicts(receipt, ctx)[11] # "fail" /\ Verdicts(receipt, ctx)[12] # "fail"
  BY <1>3, <1>4, TurnVerdicts
<1>7. Verdicts(receipt, ctx)[13] = "fail"
  <2>1. DOMAIN max_epoch = Tasks
    BY DEF Ready, LeaseTypeOK
  <2>2. LeaseEpochCurrent(receipt, ctx) = "fail"
    BY <1>3, <1>4, <2>1 DEF LeaseEpochCurrent, CheckIf, CheckOf
  <2> QED
    BY <2>2 DEF Verdicts
<1>8. s.expected_check = CheckOrder[13] /\ \A j \in 1..12 : Verdicts(receipt, ctx)[j] # "fail"
  BY <1>1, <1>5, <1>6 DEF CheckOrder
<1> QED
  BY <1>5, <1>7, <1>8, RefusedAsDocumented DEF Matches, ctx

(* An honest receipt in its turn fails nothing.                            *)
LEMMA HonestWorkRow ==
    ASSUME Distinct, Ready, Rows[row] = honest_but_unsound_process
    PROVE  Matches(Rows[row])
<1> DEFINE s == Rows[row]
           ctx == RowContext(s)
<1>1. /\ Unedited(s) /\ s.lacks = {} /\ s.expected_check = Null
      /\ s.steps = <<"execute">>
  BY DEF honest_but_unsound_process, Scenario, Unedited, Sum, TaskOf
<1>2. HasRun
  BY <1>1, Presentable DEF Ready, Steps
<1>3. RunReceipt(receipt, 1, GENESIS) /\ receipt.finished_at = 0
  BY <1>1, <1>2 DEF HasRun, FirstReceipt, RunReceipt, UsualOutcome, Unedited
<1>4. /\ ctx.ledger = entries /\ ctx.epochs = max_epoch /\ Has(ctx, "spec")
      /\ ctx.now = clock /\ ctx.head = HeadHash(entries)
  BY <1>1, RowContextIs
<1> HIDE DEF ctx
<1>5. /\ ParseReceipt(Presented(s, receipt)) = receipt /\ receipt # ParseError
      /\ ~ Raises(receipt, ctx)
      /\ \A j \in 1..10 \cup {18} : Verdicts(receipt, ctx)[j] # "fail"
  BY <1>1, <1>3, <1>4, UneditedRow DEF ctx
<1>6. \A j \in {11, 12, 13, 17} \cup 14..16 : Verdicts(receipt, ctx)[j] # "fail"
  BY <1>2, <1>3, <1>4, FirstInTurn DEF Ready
<1>7. \A j \in 1..18 : Verdicts(receipt, ctx)[j] # "fail"
  BY <1>5, <1>6
<1> QED
  BY <1>1, <1>5, <1>7, AcceptedAsDocumented DEF Matches, ctx

-----------------------------------------------------------------------------
(* What is edited into a receipt that the verifier can read.               *)
Edits(s) == /\ s.form = "object" /\ s.missing = {} /\ s.spec.name # "slow_task"
            /\ s.steps = <<"execute">>
            /\ "outcome" \in DOMAIN s.edit => s.edit["outcome"] = "success"

(* The receipt that such a scenario presents.                              *)
LEMMA EditedRow ==
    ASSUME Distinct, Ready, Edits(Rows[row])
    PROVE  LET s == Rows[row]
               p == ParseReceipt(Presented(s, receipt))
           IN  /\ HasRun /\ RunReceipt(receipt, 1, GENESIS) /\ receipt.finished_at = 0
               /\ p # ParseError
               /\ \A f \in Required : p[f] = IF f \in DOMAIN s.edit THEN s.edit[f] ELSE receipt[f]
               /\ s.resigned /\ "worker_id" \notin DOMAIN s.edit => SignedBy(p)
               /\ ~ s.resigned =>
                     p.signature = IF "signature" \in DOMAIN s.edit
                                   THEN s.edit["signature"] ELSE receipt.signature
               /\ ~ s.resigned /\ DOMAIN s.edit = {} => SignedBy(p)
<1> DEFINE s == Rows[row]
           p == ParseReceipt(Presented(s, receipt))
<1>1. HasRun
  BY Presentable DEF Ready, Edits, Steps
<1>2. RunReceipt(receipt, 1, GENESIS) /\ receipt.finished_at = 0
  BY <1>1 DEF HasRun, FirstReceipt, RunReceipt, UsualOutcome, Edits
<1>3. SignedByW(receipt) /\ receipt.outcome \in Outcomes /\ receipt.worker_id = W
  BY <1>2 DEF RunReceipt, UsualOutcome, Outcomes, SignedByW
<1>4. /\ s.form = "object" /\ s.missing = {}
      /\ "outcome" \in DOMAIN s.edit => s.edit["outcome"] \in Outcomes
  BY DEF Edits, Outcomes
<1> HIDE DEF s
<1>5. /\ p # ParseError
      /\ \A f \in Required : p[f] = IF f \in DOMAIN s.edit THEN s.edit[f] ELSE receipt[f]
      /\ s.resigned => p.signature = Sign(W, SigningPayload(p))
      /\ ~ s.resigned =>
            p.signature = IF "signature" \in DOMAIN s.edit
                          THEN s.edit["signature"] ELSE receipt.signature
      /\ ~ s.resigned /\ DOMAIN s.edit = {} => p = receipt
  BY <1>3, <1>4, PresentedIs
<1> HIDE DEF p
<1>6. s.resigned /\ "worker_id" \notin DOMAIN s.edit => SignedBy(p)
  BY <1>3, <1>5 DEF SignedBy, Required
<1>7. ~ s.resigned /\ DOMAIN s.edit = {} => SignedBy(p)
  BY <1>3, <1>5 DEF SignedBy, SignedByW
<1> QED
  BY <1>1, <1>2, <1>5, <1>6, <1>7 DEF s, p

(* An edit that is not signed again fails the signature.                   *)
LEMMA UnsignedRow ==
    ASSUME Distinct, Ready, Edits(Rows[row]), Rows[row].assigned = Rows[row].spec,
           Rows[row].lacks = {}, Rows[row].expected_check = "signature_valid",
           ~ Rows[row].resigned,
           {"schema_version", "task_id", "task_name", "outcome", "witness"}
              \cap DOMAIN Rows[row].edit = {},
           ~ SignedBy(ParseReceipt(Presented(Rows[row], receipt)))
    PROVE  Matches(Rows[row])
<1> DEFINE s == Rows[row]
           ctx == RowContext(s)
           p == ParseReceipt(Presented(s, receipt))
<1>1. /\ RunReceipt(receipt, 1, GENESIS) /\ p # ParseError
      /\ \A f \in Required : p[f] = IF f \in DOMAIN s.edit THEN s.edit[f] ELSE receipt[f]
  BY EditedRow
<1>2. ctx.spec = s.spec /\ Has(ctx, "spec")
  BY RowContextIs
<1>3. s.spec.name # "slow_task" /\ row \in DOMAIN Rows
  BY DEF Edits, Ready
<1> HIDE DEF s, ctx, p
<1>4. /\ p.task_id = receipt.task_id /\ p.task_name = receipt.task_name
      /\ p.outcome = receipt.outcome /\ p.witness = receipt.witness
      /\ p.schema_version = "1.0"
  BY <1>1 DEF Required, RunReceipt, s
<1>5. p.witness \notin Oversized /\ ~ Raises(p, ctx)
  BY <1>1, <1>2, <1>3, <1>4, HonestRow DEF s
<1>6. \A j \in 1..3 : Verdicts(p, ctx)[j] # "fail"
  BY <1>4, <1>5, FormalVerdicts DEF Formal
<1>7. Verdicts(p, ctx)[4] = "fail"
  <2>1. SignatureValid(p) = "fail"
    BY DEF SignatureValid, CheckOf, VerifySig, SignedBy, p, s
  <2> QED
    BY <2>1 DEF Verdicts
<1>8. s.expected_check = CheckOrder[4]
  BY DEF CheckOrder, s
<1> QED
  BY <1>1, <1>5, <1>6, <1>7, <1>8, RefusedAsDocumented DEF Matches, s, ctx, p

(* A signature nobody's key made.                                          *)
LEMMA BrokenSignatureRow ==
    ASSUME Distinct, Ready, Rows[row] = broken_signature
    PROVE  Matches(Rows[row])
<1> DEFINE s == Rows[row]
           p == ParseReceipt(Presented(s, receipt))
<1>1. /\ Edits(s) /\ s.assigned = s.spec /\ s.lacks = {} /\ ~ s.resigned
      /\ s.expected_check = "signature_valid" /\ DOMAIN s.edit = {"signature"}
      /\ s.edit["signature"] = Sign(Nobody, << >>)
  BY DEF broken_signature, Scenario, Edits, Sum, TaskOf
<1>2. /\ RunReceipt(receipt, 1, GENESIS) /\ p.signature = Sign(Nobody, << >>)
      /\ \A f \in Required : p[f] = IF f \in DOMAIN s.edit THEN s.edit[f] ELSE receipt[f]
  BY <1>1, EditedRow
<1> HIDE DEF p
<1>3. p.worker_id = W /\ W # Nobody
  BY <1>1, <1>2, NobodyAssumption, WorkersAssumption DEF RunReceipt, SignedByW, Required
<1>4. ~ SignedBy(p)
  BY <1>2, <1>3, SignatureCovers DEF SignedBy
<1> QED
  BY <1>1, <1>4, UnsignedRow DEF p

(* Another digest under the old signature.                                 *)
LEMMA TamperedRow ==
    ASSUME Distinct, Ready, Rows[row] = tampered_after_signing
    PROVE  Matches(Rows[row])
<1> DEFINE s == Rows[row]
           p == ParseReceipt(Presented(s, receipt))
           result == RunResult[s.spec.name, s.spec.inputs]
<1>1. /\ Edits(s) /\ s.assigned = s.spec /\ s.lacks = {} /\ ~ s.resigned
      /\ s.expected_check = "signature_valid" /\ DOMAIN s.edit = {"output_digest"}
      /\ s.edit["output_digest"] = ResultDigest(IntValue(0))
      /\ s.spec.name = "sum_range" /\ s.spec.inputs = [k \in {"n"} |-> IntValue(5)]
  BY DEF tampered_after_signing, Scenario, Edits, Sum, TaskOf
<1>2. /\ RunReceipt(receipt, 1, GENESIS) /\ p.signature = receipt.signature
      /\ \A f \in Required : p[f] = IF f \in DOMAIN s.edit THEN s.edit[f] ELSE receipt[f]
  BY <1>1, EditedRow DEF Required
<1>3. result # Raised /\ receipt.output_digest = ResultDigest(result)
  BY <1>1, <1>2 DEF RunReceipt, UsualOutcome
<1>4. result # IntValue(0)
  <2>1. result \in {Raised, IntValue(ClosedForm(5))}
    <3>1. s.spec \in Specs /\ 5 \in Int
      BY SpecsOfRows DEF Ready
    <3> QED
      BY <1>1, <3>1, SumAnswers
  <2>2. IntValue(ClosedForm(5)) # IntValue(0)
    BY DEF IntValue, ClosedForm
  <2> QED
    BY <1>3, <2>1, <2>2
<1>5. p.output_digest # receipt.output_digest
  <2>1. p.output_digest = ResultDigest(IntValue(0))
    BY <1>1, <1>2 DEF Required
  <2> HIDE DEF p, result
  <2> QED
    BY <1>3, <1>4, <2>1, DigestsDiffer
<1>6. SigningPayload(p) # SigningPayload(receipt)
  <2>1. "output_digest" \in DOMAIN p \ {"signature"}
    <3>1. p = [g \in Required \cup {"signature"} |-> p[g]]
      BY <1>1, EditedRow, ParsedFields
    <3> QED
      BY <3>1 DEF Required
  <2>2. "output_digest" \in DOMAIN receipt \ {"signature"}
    BY <1>2 DEF RunReceipt, SignedByW, Required
  <2> HIDE DEF p
  <2>3. SigningPayload(p)["output_digest"] = p.output_digest
    BY <2>1 DEF SigningPayload
  <2>4. SigningPayload(receipt)["output_digest"] = receipt.output_digest
    BY <2>2 DEF SigningPayload
  <2> QED
    BY <1>5, <2>3, <2>4
<1>7. receipt.signature = Sign(W, SigningPayload(receipt))
  BY <1>2 DEF RunReceipt, SignedByW
<1> HIDE DEF p
<1>8. ~ SignedBy(p)
  BY <1>2, <1>6, <1>7, SignatureCovers DEF SignedBy
<1> QED
  BY <1>1, <1>8, UnsignedRow DEF p

(* Work on one task sold as work on another.                               *)
LEMMA SubstitutionRow ==
    ASSUME Distinct, Ready, Rows[row] = task_substitution
    PROVE  Matches(Rows[row])
<1> DEFINE s == Rows[row]
           ctx == RowContext(s)
           p == ParseReceipt(Presented(s, receipt))
           result == RunResult[s.spec.name, s.spec.inputs]
<1>1. /\ Edits(s) /\ DOMAIN s.edit = {} /\ s.lacks = {} /\ ~ s.resigned
      /\ s.expected_check = "task_id_matches_spec"
      /\ s.spec = Sum(1) /\ s.assigned = Sum(50) /\ s.spec.name = "sum_range"
      /\ s.assigned.inputs = [k \in {"n"} |-> IntValue(50)]
  BY DEF task_substitution, Scenario, Edits, Sum, TaskOf
<1>2. /\ RunReceipt(receipt, 1, GENESIS) /\ p # ParseError /\ SignedBy(p)
      /\ \A f \in Required : p[f] = receipt[f]
  BY <1>1, EditedRow
<1>3. ctx.spec = s.assigned /\ Has(ctx, "spec")
  BY <1>1, RowContextIs
<1>4. s.assigned \in Specs /\ row \in DOMAIN Rows
  BY SpecsOfRows DEF Ready
<1> HIDE DEF ctx, p
<1>5. /\ p.task_id = receipt.task_id /\ p.task_name = receipt.task_name
      /\ p.outcome = receipt.outcome /\ p.witness = receipt.witness
      /\ p.schema_version = "1.0" /\ p.task_id = TaskIdFor(s.spec)
  BY <1>2 DEF Required, RunReceipt
<1>6. /\ p.witness \notin Oversized /\ SucceedsWith(p, result) /\ For(p, s.spec)
  BY <1>1, <1>2, <1>4, <1>5, HonestRow
<1>7. ~ Raises(p, ctx)
  <2>1. Raises(p, ctx) <=> result \in RaisesOn[p.task_name, ctx.spec.inputs]
    BY <1>3, <1>6, EvidenceVerdicts DEF For
  <2>2. result \notin RaisesOn["sum_range", s.assigned.inputs]
    <3>1. 50 \in Int
      OBVIOUS
    <3> QED
      BY <1>1, <1>4, <3>1, SumAnswers
  <2> QED
    BY <1>1, <1>3, <1>6, <2>1, <2>2 DEF For
<1>8. \A j \in 1..4 : Verdicts(p, ctx)[j] # "fail"
  <2>1. (\A j \in 1..3 : Verdicts(p, ctx)[j] # "fail") /\ Verdicts(p, ctx)[4] # "fail"
    BY <1>2, <1>5, <1>6, FormalVerdicts DEF Formal
  <2> QED
    BY <2>1
<1>9. Verdicts(p, ctx)[5] = "fail"
  <2>1. TaskIdMatchesSpec(p, ctx) = "fail"
    BY <1>1, <1>3, <1>5, TasksDiffer DEF TaskIdMatchesSpec, CheckIf, CheckOf
  <2> QED
    BY <2>1 DEF Verdicts
<1>10. s.expected_check = CheckOrder[5]
  BY <1>1 DEF CheckOrder
<1> QED
  BY <1>2, <1>7, <1>8, <1>9, <1>10, RefusedAsDocumented DEF Matches, ctx, p

(* Input that is not a receipt.                                            *)
LEMMA UnparsedRows ==
    ASSUME Distinct, Ready, Rows[row] \in {truncated_json, missing_field}
    PROVE  Matches(Rows[row])
<1> DEFINE s == Rows[row]
           raw == Presented(s, receipt)
<1>1. /\ s.expected_check = "schema_parseable"
      /\ s.form # "object" \/ s.missing = {"worker_id"}
  BY DEF truncated_json, missing_field, Scenario
<1> HIDE DEF s
<1>2. /\ raw.form = s.form
      /\ "worker_id" \in s.missing => "worker_id" \notin DOMAIN raw.fields
  BY DEF Presented, Raw
<1> HIDE DEF raw
<1>3. ~ WellFormed(raw)
  BY <1>1, <1>2 DEF WellFormed, Required
<1>4. ParseReceipt(raw) = ParseError
  BY <1>3 DEF ParseReceipt
<1> QED
  BY <1>1, <1>4, UnparsedAsDocumented DEF Matches, raw, s

(* A schema version that is not supported.                                 *)
LEMMA UnsupportedRow ==
    ASSUME Distinct, Ready, Rows[row] = unsupported_schema_version
    PROVE  Matches(Rows[row])
<1> DEFINE s == Rows[row]
           ctx == RowContext(s)
           p == ParseReceipt(Presented(s, receipt))
<1>1. /\ Edits(s) /\ s.assigned = s.spec /\ s.lacks = {"head"}
      /\ s.expected_check = "schema_version_supported"
      /\ DOMAIN s.edit = {"schema_version"} /\ s.edit["schema_version"] = "0.0"
      /\ s.spec.name # "slow_task"
  BY DEF unsupported_schema_version, Scenario, Edits, Sum, TaskOf
<1>2. /\ RunReceipt(receipt, 1, GENESIS) /\ p # ParseError
      /\ \A f \in Required : p[f] = IF f \in DOMAIN s.edit THEN s.edit[f] ELSE receipt[f]
  BY <1>1, EditedRow
<1>3. ctx.spec = s.spec /\ Has(ctx, "spec") /\ row \in DOMAIN Rows
  BY <1>1, RowContextIs DEF Ready
<1> HIDE DEF ctx, p
<1>4. /\ p.task_id = receipt.task_id /\ p.task_name = receipt.task_name
      /\ p.outcome = receipt.outcome /\ p.witness = receipt.witness
      /\ p.schema_version = "0.0"
  BY <1>1, <1>2 DEF Required
<1>5. ~ Raises(p, ctx)
  BY <1>1, <1>2, <1>3, <1>4, HonestRow
<1>6. Verdicts(p, ctx)[1] # "fail" /\ Verdicts(p, ctx)[2] = "fail"
  BY <1>4, ScenariosAssumption DEF Verdicts, SchemaVersionSupported, CheckOf
<1>7. s.expected_check = CheckOrder[2]
  BY <1>1 DEF CheckOrder
<1> QED
  BY <1>2, <1>5, <1>6, <1>7, RefusedAsDocumented DEF Matches, ctx, p

(* A witness beyond the limit.                                             *)
LEMMA ProofBombRow ==
    ASSUME Distinct, Ready, Rows[row] = proof_bomb
    PROVE  Matches(Rows[row])
<1> DEFINE s == Rows[row]
           ctx == RowContext(s)
           p == ParseReceipt(Presented(s, receipt))
<1>1. /\ Edits(s) /\ s.assigned = s.spec /\ s.lacks = {"head"}
      /\ s.expected_check = "witness_size_bounded"
      /\ DOMAIN s.edit = {"outcome", "witness", "output_digest"}
      /\ s.edit["witness"] = PaddedWitness
      /\ s.spec.name = "sum_range" /\ s.spec.inputs = [k \in {"n"} |-> IntValue(5)]
  BY DEF proof_bomb, Claiming, Scenario, Edits, Sum, TaskOf
<1>2. /\ RunReceipt(receipt, 1, GENESIS) /\ p # ParseError
      /\ \A f \in Required : p[f] = IF f \in DOMAIN s.edit THEN s.edit[f] ELSE receipt[f]
  BY <1>1, EditedRow
<1>3. ctx.spec = s.spec /\ s.spec \in Specs
  BY <1>1, RowContextIs, SpecsOfRows DEF Ready
<1> HIDE DEF ctx, p
<1>4. /\ p.task_name = "sum_range" /\ p.witness = PaddedWitness
      /\ p.schema_version = "1.0"
  BY <1>1, <1>2 DEF Required, RunReceipt
<1>5. ~ Raises(p, ctx)
  <2>1. \A output : output \notin RaisesOn["sum_range", s.spec.inputs]
    <3>1. 5 \in Int
      OBVIOUS
    <3> QED
      BY <1>1, <1>3, <3>1, SumAnswers
  <2> QED
    BY <1>3, <1>4, <2>1 DEF Raises
<1>6. /\ Verdicts(p, ctx)[1] # "fail" /\ Verdicts(p, ctx)[2] # "fail"
      /\ Verdicts(p, ctx)[3] = "fail"
  BY <1>4, ScenariosAssumption
     DEF Verdicts, SchemaVersionSupported, WitnessSizeBounded, CheckOf
<1>7. s.expected_check = CheckOrder[3] /\ \A j \in 1..2 : Verdicts(p, ctx)[j] # "fail"
  BY <1>1, <1>6 DEF CheckOrder
<1> QED
  BY <1>2, <1>5, <1>6, <1>7, RefusedAsDocumented DEF Matches, ctx, p

(* A worker that says something else of its machine, and signs it.         *)
LEMMA ForgedRuntimeRow ==
    ASSUME Distinct, Ready, Rows[row] = forged_runtime_fingerprint
    PROVE  Matches(Rows[row])
<1> DEFINE s == Rows[row]
           ctx == RowContext(s)
           p == ParseReceipt(Presented(s, receipt))
<1>1. /\ Edits(s) /\ s.assigned = s.spec /\ s.lacks = {} /\ s.resigned
      /\ s.expected_check = Null /\ DOMAIN s.edit = {"runtime"}
      /\ s.spec.name # "slow_task"
  BY DEF forged_runtime_fingerprint, Scenario, Edits, Sum, TaskOf
<1>2. /\ HasRun /\ RunReceipt(receipt, 1, GENESIS) /\ receipt.finished_at = 0
      /\ p # ParseError /\ SignedBy(p)
      /\ \A f \in Required : p[f] = IF f \in DOMAIN s.edit THEN s.edit[f] ELSE receipt[f]
  BY <1>1, EditedRow
<1>3. /\ ctx.spec = s.spec /\ Has(ctx, "spec") /\ row \in DOMAIN Rows /\ LeaseTypeOK
      /\ ctx.ledger = entries /\ ctx.epochs = max_epoch
      /\ ctx.now = clock /\ ctx.head = HeadHash(entries)
  BY <1>1, RowContextIs DEF Ready
<1> HIDE DEF ctx, p
<1>4. /\ p.task_id = receipt.task_id /\ p.task_name = receipt.task_name
      /\ p.outcome = receipt.outcome /\ p.witness = receipt.witness
      /\ p.output_digest = receipt.output_digest /\ p.schema_version = "1.0"
      /\ p.lease_epoch = receipt.lease_epoch
      /\ p.prev_ledger_hash = receipt.prev_ledger_hash
      /\ p.started_at = receipt.started_at /\ p.deadline_at = receipt.deadline_at
      /\ p.finished_at = 0
  BY <1>1, <1>2 DEF Required, RunReceipt
<1>5. /\ For(p, ctx.spec) /\ p.witness \notin Oversized /\ ~ Raises(p, ctx)
      /\ \A j \in {8, 9, 10, 18} : Verdicts(p, ctx)[j] # "fail"
  <2>1. /\ For(p, s.spec) /\ p.witness \notin Oversized
        /\ \A c : Has(c, "spec") /\ c.spec = s.spec =>
              /\ ~ Raises(p, c) /\ Verdicts(p, c)[8] # "fail"
              /\ p.output_digest = receipt.output_digest =>
                    /\ Verdicts(p, c)[9] # "fail" /\ Verdicts(p, c)[10] # "fail"
                    /\ Verdicts(p, c)[18] # "fail"
    <3>1. /\ RunReceipt(receipt, 1, GENESIS) /\ s.spec.name # "slow_task"
          /\ row \in DOMAIN Rows
          /\ p.task_id = receipt.task_id /\ p.task_name = receipt.task_name
          /\ p.outcome = receipt.outcome /\ p.witness = receipt.witness
      BY <1>1, <1>2, <1>3, <1>4
    <3> QED
      BY <3>1, HonestRow
  <2>2. /\ ~ Raises(p, ctx) /\ Verdicts(p, ctx)[8] # "fail"
        /\ Verdicts(p, ctx)[9] # "fail" /\ Verdicts(p, ctx)[10] # "fail"
        /\ Verdicts(p, ctx)[18] # "fail"
    BY <1>3, <1>4, <2>1
  <2> QED
    BY <1>3, <2>1, <2>2
<1>6. /\ \A j \in 1..3 : Verdicts(p, ctx)[j] # "fail"
      /\ Verdicts(p, ctx)[4] # "fail"
      /\ \A j \in 5..7 : Verdicts(p, ctx)[j] # "fail"
  BY <1>2, <1>4, <1>5, FormalVerdicts DEF Formal
<1>7. \A j \in {11, 12, 13, 17} \cup 14..16 : Verdicts(p, ctx)[j] # "fail"
  BY <1>2, <1>3, <1>4, FirstInTurn
<1>8. \A j \in 1..18 : Verdicts(p, ctx)[j] # "fail"
  BY <1>5, <1>6, <1>7
<1> QED
  BY <1>1, <1>2, <1>5, <1>8, AcceptedAsDocumented DEF Matches, ctx, p

-----------------------------------------------------------------------------
(* Another output claimed and signed.                                      *)
ClaimsOutput(s, output) ==
    /\ s.form = "object" /\ s.missing = {} /\ s.resigned /\ s.assigned = s.spec
    /\ DOMAIN s.edit \subseteq {"outcome", "witness", "output_digest", "finished_at"}
    /\ "witness" \in DOMAIN s.edit /\ s.edit["witness"] = WitnessOf(output)
    /\ IF "outcome" \in DOMAIN s.edit THEN s.edit["outcome"] = "success"
                                        ELSE s.spec.name # "slow_task"
    /\ "output_digest" \in DOMAIN s.edit => s.edit["output_digest"] = ResultDigest(output)
    /\ "finished_at" \notin DOMAIN s.edit => s.spec.name # "slow_task"
    /\ output \in Claims

(* The receipt that such a scenario presents: W's own, but for the claim.  *)
LEMMA ClaimingRow ==
    ASSUME Distinct, Ready, NEW id, NEW head, RunReceipt(receipt, id, head),
           NEW output, ClaimsOutput(Rows[row], output)
    PROVE  LET s == Rows[row]
               p == ParseReceipt(Presented(s, receipt))
           IN  /\ p # ParseError /\ SucceedsWith(p, output)
               /\ p.task_name = s.spec.name /\ p.task_name \in Registered
               /\ \A f \in {"task_id", "lease_epoch", "prev_ledger_hash", "started_at",
                            "deadline_at"} : p[f] = receipt[f]
               /\ "output_digest" \in DOMAIN s.edit => p.output_digest = ResultDigest(output)
               /\ p.finished_at = IF "finished_at" \in DOMAIN s.edit
                                  THEN s.edit["finished_at"] ELSE 0
               /\ \A ctx : ctx.spec = s.spec =>
                     \A j \in 1..7 : Verdicts(p, ctx)[j] # "fail"
<1> DEFINE s == Rows[row]
           p == ParseReceipt(Presented(s, receipt))
<1>1. /\ SignedByW(receipt) /\ receipt.worker_id = W /\ receipt.outcome \in Outcomes
      /\ receipt.schema_version = "1.0" /\ For(receipt, s.spec)
      /\ s.spec.name # "slow_task" => receipt.outcome = "success" /\ receipt.finished_at = 0
  BY DEF RunReceipt, UsualOutcome, Outcomes, SignedByW, For
<1>2. /\ s.form = "object" /\ s.missing = {} /\ s.resigned
      /\ "outcome" \in DOMAIN s.edit => s.edit["outcome"] \in Outcomes
  BY DEF ClaimsOutput, Outcomes
<1> HIDE DEF s
<1>3. /\ p # ParseError
      /\ \A f \in Required : p[f] = IF f \in DOMAIN s.edit THEN s.edit[f] ELSE receipt[f]
      /\ p.signature = Sign(W, SigningPayload(p))
  BY <1>1, <1>2, PresentedIs
<1> HIDE DEF p
<1>4. /\ \A f \in {"task_id", "lease_epoch", "prev_ledger_hash", "started_at",
                   "deadline_at", "worker_id", "schema_version", "task_name"} :
            p[f] = receipt[f]
      /\ "output_digest" \in DOMAIN s.edit => p.output_digest = s.edit["output_digest"]
      /\ p.finished_at = IF "finished_at" \in DOMAIN s.edit
                         THEN s.edit["finished_at"] ELSE receipt.finished_at
      /\ p.witness = s.edit["witness"]
      /\ p.outcome = IF "outcome" \in DOMAIN s.edit THEN s.edit["outcome"] ELSE receipt.outcome
  BY <1>3 DEF ClaimsOutput, s, Required
<1>5. SucceedsWith(p, output) /\ p.witness \notin Oversized
  BY <1>1, <1>4, ScenariosAssumption DEF ClaimsOutput, s, SucceedsWith
<1>6. Formal(p) /\ SignedBy(p) /\ For(p, s.spec)
  BY <1>1, <1>3, <1>4, <1>5 DEF Formal, SignedBy, For
<1>7. ASSUME NEW ctx, ctx.spec = s.spec
      PROVE  \A j \in 1..7 : Verdicts(p, ctx)[j] # "fail"
  <2>1. /\ \A j \in 1..3 : Verdicts(p, ctx)[j] # "fail"
        /\ Verdicts(p, ctx)[4] # "fail"
        /\ \A j \in 5..7 : Verdicts(p, ctx)[j] # "fail"
    BY <1>6, <1>7, FormalVerdicts
  <2> QED
    BY <2>1
<1>8. "output_digest" \in DOMAIN s.edit => p.output_digest = ResultDigest(output)
  BY <1>4 DEF ClaimsOutput, s
<1>9. p.finished_at = IF "finished_at" \in DOMAIN s.edit THEN s.edit["finished_at"] ELSE 0
  BY <1>1, <1>4 DEF ClaimsOutput, s
<1>10. p.task_name = s.spec.name /\ p.task_name \in Registered
  BY <1>6 DEF For
<1> QED
  BY <1>3, <1>4, <1>5, <1>7, <1>8, <1>9, <1>10 DEF s, p

(* What the fixture's check and the re-execution make of it.               *)
LEMMA ClaimedEvidence ==
    ASSUME Distinct, Ready, NEW id, NEW head, RunReceipt(receipt, id, head),
           NEW output, ClaimsOutput(Rows[row], output), "spec" \notin Rows[row].lacks
    PROVE  LET s == Rows[row]
               ctx == RowContext(s)
               p == ParseReceipt(Presented(s, receipt))
               name == s.spec.name
               inputs == s.spec.inputs
           IN  /\ ctx.spec = s.spec
               /\ \A j \in 1..7 : Verdicts(p, ctx)[j] # "fail"
               /\ Raises(p, ctx) <=> output \in RaisesOn[name, inputs]
               /\ Verdicts(p, ctx)[8] = CheckOf(output \in Believed[name, inputs])
               /\ "output_digest" \in DOMAIN s.edit =>
                     /\ Verdicts(p, ctx)[9] # "fail" /\ Verdicts(p, ctx)[18] # "fail"
                     /\ /\ "reexecutor" \notin s.lacks /\ name \in Deterministic
                        /\ output # RunResult[name, inputs]
                        => Verdicts(p, ctx)[10] = "fail"
               /\ "reexecutor" \in s.lacks \/ name \notin Deterministic
                     => Verdicts(p, ctx)[10] # "fail"
<1> DEFINE s == Rows[row]
           ctx == RowContext(s)
           p == ParseReceipt(Presented(s, receipt))
           name == s.spec.name
           inputs == s.spec.inputs
<1>1. /\ p # ParseError /\ SucceedsWith(p, output)
      /\ p.task_name = name /\ p.task_name \in Registered
      /\ "output_digest" \in DOMAIN s.edit => p.output_digest = ResultDigest(output)
      /\ \A c : c.spec = s.spec => \A j \in 1..7 : Verdicts(p, c)[j] # "fail"
  BY ClaimingRow
<1>2. /\ ctx.spec = s.spec /\ Has(ctx, "spec")
      /\ Has(ctx, "reexecutor") <=> "reexecutor" \notin s.lacks
  BY RowContextIs DEF ClaimsOutput
<1> HIDE DEF s, ctx, p
<1>3. \A j \in 1..7 : Verdicts(p, ctx)[j] # "fail"
  BY <1>1, <1>2
<1>4. /\ Raises(p, ctx) <=> output \in RaisesOn[name, inputs]
      /\ Verdicts(p, ctx)[8] = CheckOf(output \in Believed[name, inputs])
      /\ p.output_digest = ResultDigest(output) =>
            /\ Verdicts(p, ctx)[9] # "fail" /\ Verdicts(p, ctx)[18] # "fail"
            /\ /\ Has(ctx, "reexecutor") /\ name \in Deterministic
               /\ output # RunResult[name, inputs]
               => Verdicts(p, ctx)[10] = "fail"
      /\ ~ Has(ctx, "reexecutor") => Verdicts(p, ctx)[10] # "fail"
  BY <1>1, <1>2, EvidenceVerdicts
<1>5. name \notin Deterministic => Verdicts(p, ctx)[10] # "fail"
  <2>1. name \notin Deterministic => IndependentReexecution(p, ctx) # "fail"
    BY <1>1 DEF IndependentReexecution, Reexecution, CheckIf, CheckOf
  <2> QED
    BY <2>1 DEF Verdicts
<1> QED
  BY <1>1, <1>2, <1>3, <1>4, <1>5 DEF s, ctx, p

(* A list that is not sorted, claimed for a sort; quickstart.py presents   *)
(* one after the honest receipt was submitted.                             *)
LEMMA UnsortedRow ==
    ASSUME Distinct, Ready, Rows[row] \in {fabricated_witness, tampered_copy}
    PROVE  Matches(Rows[row])
<1> DEFINE s == Rows[row]
           ctx == RowContext(s)
           p == ParseReceipt(Presented(s, receipt))
           inputs == s.spec.inputs
<1>1. /\ s.expected_check = "witness_recheck" /\ s.spec.name = "sort_list"
      /\ "spec" \notin s.lacks
      /\ s.steps \in {<<"execute">>, <<"execute", "submit">>}
  <2>1. CASE s = fabricated_witness
    BY <2>1 DEF fabricated_witness, Claiming, Scenario, Sort5391, TaskOf
  <2>2. CASE s = tampered_copy
    BY <2>2 DEF tampered_copy, Scenario, Sort93713, TaskOf
  <2> QED
    BY <2>1, <2>2
<1>2. RunReceipt(receipt, 1, GENESIS)
  BY <1>1, Presentable DEF Ready, Steps, HasRun, HasSubmitted, FirstReceipt
<1>3. s.spec \in Specs
  BY SpecsOfRows DEF Ready
<1>4. PICK output : /\ ClaimsOutput(s, output)
                    /\ output \notin Believed["sort_list", inputs]
                    /\ output \notin RaisesOn["sort_list", inputs]
  <2>1. CASE s = fabricated_witness
    <3> DEFINE output == IntList(<<1, 3, 9, 5>>)
    <3>1. ClaimsOutput(s, output)
      BY <2>1, ScenariosAssumption
         DEF fabricated_witness, ClaimsOutput, Claiming, Scenario, Sort5391, TaskOf,
             ClaimedOutput, WitnessOf, NoWitness
    <3>2. inputs = [k \in {"items"} |-> IntList(<<5, 3, 9, 1>>)]
      BY <2>1 DEF fabricated_witness, Claiming, Scenario, Sort5391, TaskOf
    <3>3. /\ output \notin Believed["sort_list", inputs]
          /\ output \notin RaisesOn["sort_list", inputs]
      <4> DEFINE seq == <<5, 3, 9, 1>>
                 claimed == <<1, 3, 9, 5>>
      <4>1. Sequence(seq) /\ Sequence(claimed)
        BY DEF Sequence
      <4>2. 3 \in 1..(Len(claimed) - 1) /\ claimed[3 + 1] < claimed[3]
        OBVIOUS
      <4> HIDE DEF seq, claimed
      <4>3. inputs = [k \in {"items"} |-> IntList(seq)]
        BY <3>2 DEF seq
      <4> QED
        BY <1>3, <4>1, <4>2, <4>3, SortAnswers DEF claimed
    <3> QED
      BY <3>1, <3>3
  <2>2. CASE s = tampered_copy
    <3> DEFINE output == IntList(<<9, 3, 7, 1, 3>>)
    <3>1. ClaimsOutput(s, output)
      BY <2>2, ScenariosAssumption
         DEF tampered_copy, ClaimsOutput, Scenario, Sort93713, TaskOf
    <3>2. inputs = [k \in {"items"} |-> IntList(<<9, 3, 7, 1, 3>>)]
      BY <2>2 DEF tampered_copy, Scenario, Sort93713, TaskOf
    <3>3. /\ output \notin Believed["sort_list", inputs]
          /\ output \notin RaisesOn["sort_list", inputs]
      <4> DEFINE seq == <<9, 3, 7, 1, 3>>
      <4>1. Sequence(seq)
        BY DEF Sequence
      <4>2. 1 \in 1..(Len(seq) - 1) /\ seq[1 + 1] < seq[1]
        OBVIOUS
      <4> HIDE DEF seq
      <4>3. inputs = [k \in {"items"} |-> IntList(seq)]
        BY <3>2 DEF seq
      <4> QED
        BY <1>3, <4>1, <4>2, <4>3, SortAnswers DEF seq
    <3> QED
      BY <3>1, <3>3
  <2> QED
    BY <2>1, <2>2
<1>5. /\ p # ParseError
      /\ \A j \in 1..7 : Verdicts(p, ctx)[j] # "fail"
      /\ ~ Raises(p, ctx) /\ Verdicts(p, ctx)[8] = "fail"
  <2>1. p # ParseError
    BY <1>2, <1>4, ClaimingRow
  <2>2. /\ \A j \in 1..7 : Verdicts(p, ctx)[j] # "fail"
        /\ Raises(p, ctx) <=> output \in RaisesOn[s.spec.name, inputs]
        /\ Verdicts(p, ctx)[8] = CheckOf(output \in Believed[s.spec.name, inputs])
    BY <1>1, <1>2, <1>4, ClaimedEvidence
  <2> QED
    BY <1>1, <1>4, <2>1, <2>2 DEF CheckOf
<1>6. s.expected_check = CheckOrder[8]
  BY <1>1 DEF CheckOrder
<1> HIDE DEF ctx, p
<1> QED
  BY <1>5, <1>6, RefusedAsDocumented DEF Matches, ctx, p

(* 7 claimed for the tenth prime: the cheap check believes it, and only    *)
(* the re-execution tells.                                                 *)
LEMMA WrongPrimeIs ==
    ASSUME Distinct, Ready,
           Rows[row] \in {signed_wrong_prime, prime_rechecked, prime_reexecuted}
    PROVE  LET s == Rows[row]
               ctx == RowContext(s)
               p == ParseReceipt(Presented(s, receipt))
           IN  /\ HasRun /\ p # ParseError /\ ~ Raises(p, ctx) /\ ctx.spec = s.spec
               /\ p.finished_at = 0
               /\ \A f \in {"task_id", "lease_epoch", "prev_ledger_hash", "started_at",
                            "deadline_at"} : p[f] = receipt[f]
               /\ \A j \in 1..9 \cup {18} : Verdicts(p, ctx)[j] # "fail"
               /\ "reexecutor" \notin s.lacks => Verdicts(p, ctx)[10] = "fail"
               /\ "reexecutor" \in s.lacks => Verdicts(p, ctx)[10] # "fail"
<1> DEFINE s == Rows[row]
           ctx == RowContext(s)
           p == ParseReceipt(Presented(s, receipt))
           output == IntValue(7)
<1>1. /\ s.spec = Prime10 /\ s.spec.name = "nth_prime" /\ "spec" \notin s.lacks
      /\ s.steps = <<"execute">> /\ DOMAIN s.edit = {"outcome", "witness", "output_digest"}
      /\ ClaimsOutput(s, output)
  <2>1. output \in Claims
    BY ScenariosAssumption
  <2>2. CASE s = signed_wrong_prime
    BY <2>1, <2>2 DEF signed_wrong_prime, Claiming, Scenario, Prime10, TaskOf, ClaimsOutput,
                      ClaimedOutput, WitnessOf, NoWitness
  <2>3. CASE s = prime_rechecked
    BY <2>1, <2>3 DEF prime_rechecked, Claiming, Scenario, Prime10, TaskOf, ClaimsOutput,
                      ClaimedOutput, WitnessOf, NoWitness
  <2>4. CASE s = prime_reexecuted
    BY <2>1, <2>4 DEF prime_reexecuted, signed_wrong_prime, Claiming, Scenario, Prime10,
                      TaskOf, ClaimsOutput, ClaimedOutput, WitnessOf, NoWitness
  <2> QED
    BY <2>2, <2>3, <2>4
<1>2. HasRun /\ RunReceipt(receipt, 1, GENESIS)
  BY <1>1, Presentable DEF Ready, Steps, HasRun, FirstReceipt
<1>3. Prime10 \in Specs
  BY <1>1, SpecsOfRows DEF Ready
<1>4. /\ output \in Believed["nth_prime", s.spec.inputs]
      /\ output \notin RaisesOn["nth_prime", s.spec.inputs]
      /\ RunResult["nth_prime", s.spec.inputs] # output
  BY <1>1, <1>3, PrimeAnswers
<1>5. "nth_prime" \in Deterministic
  BY FixturesAssumption DEF Repeatable, Registry
<1>6. /\ p # ParseError
      /\ \A f \in {"task_id", "lease_epoch", "prev_ledger_hash", "started_at",
                   "deadline_at"} : p[f] = receipt[f]
      /\ p.finished_at = IF "finished_at" \in DOMAIN s.edit THEN s.edit["finished_at"] ELSE 0
  BY <1>1, <1>2, ClaimingRow
<1>7. /\ ctx.spec = s.spec
      /\ \A j \in 1..7 : Verdicts(p, ctx)[j] # "fail"
      /\ Raises(p, ctx) <=> output \in RaisesOn["nth_prime", s.spec.inputs]
      /\ Verdicts(p, ctx)[8] = CheckOf(output \in Believed["nth_prime", s.spec.inputs])
      /\ "output_digest" \in DOMAIN s.edit =>
            /\ Verdicts(p, ctx)[9] # "fail" /\ Verdicts(p, ctx)[18] # "fail"
            /\ /\ "reexecutor" \notin s.lacks /\ "nth_prime" \in Deterministic
               /\ output # RunResult["nth_prime", s.spec.inputs]
               => Verdicts(p, ctx)[10] = "fail"
      /\ "reexecutor" \in s.lacks => Verdicts(p, ctx)[10] # "fail"
  BY <1>1, <1>2, ClaimedEvidence
<1> HIDE DEF ctx, p, output
<1>8. Verdicts(p, ctx)[8] # "fail"
  BY <1>4, <1>7 DEF CheckOf
<1>9. \A j \in 1..9 \cup {18} : Verdicts(p, ctx)[j] # "fail"
  <2>1. Verdicts(p, ctx)[9] # "fail" /\ Verdicts(p, ctx)[18] # "fail"
    BY <1>1, <1>7
  <2>2. \A j \in 1..7 : Verdicts(p, ctx)[j] # "fail"
    BY <1>7
  <2> QED
    BY <1>8, <2>1, <2>2
<1> QED
  BY <1>1, <1>2, <1>4, <1>5, <1>6, <1>7, <1>9 DEF ctx, p

(* A wrong prime: only running the task again shows that it is one.        *)
LEMMA WrongPrimeRows ==
    ASSUME Distinct, Ready,
           Rows[row] \in {signed_wrong_prime, prime_rechecked, prime_reexecuted}
    PROVE  Matches(Rows[row])
<1> DEFINE s == Rows[row]
           ctx == RowContext(s)
           p == ParseReceipt(Presented(s, receipt))
<1>1. /\ HasRun /\ p # ParseError /\ ~ Raises(p, ctx) /\ p.finished_at = 0
      /\ \A f \in {"task_id", "lease_epoch", "prev_ledger_hash", "started_at",
                   "deadline_at"} : p[f] = receipt[f]
      /\ \A j \in 1..9 \cup {18} : Verdicts(p, ctx)[j] # "fail"
      /\ "reexecutor" \notin s.lacks => Verdicts(p, ctx)[10] = "fail"
      /\ "reexecutor" \in s.lacks => Verdicts(p, ctx)[10] # "fail"
  BY WrongPrimeIs
<1>2. \/ "reexecutor" \notin s.lacks /\ s.expected_check = "independent_reexecution"
      \/ "reexecutor" \in s.lacks /\ s.expected_check = Null
  <2>1. CASE s = signed_wrong_prime
    BY <2>1 DEF signed_wrong_prime, Claiming, Scenario
  <2>2. CASE s = prime_rechecked
    BY <2>2 DEF prime_rechecked, Claiming, Scenario
  <2>3. CASE s = prime_reexecuted
    BY <2>3 DEF prime_reexecuted, signed_wrong_prime, Claiming, Scenario
  <2> QED
    BY <2>1, <2>2, <2>3
<1>3. /\ ctx.ledger = entries /\ ctx.epochs = max_epoch
      /\ ctx.now = clock /\ ctx.head = HeadHash(entries)
      /\ row \in DOMAIN Rows /\ LeaseTypeOK
  BY RowContextIs DEF Ready
<1> HIDE DEF s, ctx, p
<1>4. CASE "reexecutor" \notin s.lacks
  <2>1. s.expected_check = CheckOrder[10] /\ \A j \in 1..9 : Verdicts(p, ctx)[j] # "fail"
    BY <1>1, <1>2, <1>4 DEF CheckOrder
  <2> QED
    BY <1>1, <1>4, <2>1, RefusedAsDocumented DEF Matches, s, ctx, p
<1>5. CASE "reexecutor" \in s.lacks
  <2>1. \A j \in {11, 12, 13, 17} \cup 14..16 : Verdicts(p, ctx)[j] # "fail"
    <3>1. /\ p.task_id = receipt.task_id /\ p.lease_epoch = receipt.lease_epoch
          /\ p.prev_ledger_hash = receipt.prev_ledger_hash
          /\ p.started_at = receipt.started_at /\ p.deadline_at = receipt.deadline_at
      BY <1>1
    <3> QED
      BY <1>1, <1>3, <3>1, FirstInTurn
  <2>2. \A j \in 1..18 : Verdicts(p, ctx)[j] # "fail"
    BY <1>1, <1>5, <2>1
  <2> QED
    BY <1>1, <1>2, <1>5, <2>2, AcceptedAsDocumented DEF Matches, s, ctx, p
<1> QED
  BY <1>4, <1>5

(* A success reported after the deadline for a run that timed out.         *)
LEMMA LateRow ==
    ASSUME Distinct, Ready, Rows[row] = late_success_after_timeout
    PROVE  Matches(Rows[row])
<1> DEFINE s == Rows[row]
           ctx == RowContext(s)
           p == ParseReceipt(Presented(s, receipt))
           output == IntValue(55)
<1>1. /\ s.expected_check = "within_deadline" /\ s.lacks = {}
      /\ s.spec.name = "slow_task" /\ s.spec.inputs = [k \in {"n"} |-> IntValue(10)]
      /\ s.steps = <<"execute">>
      /\ DOMAIN s.edit = {"outcome", "witness", "output_digest", "finished_at"}
      /\ s.edit["finished_at"] = Deadline + 5
      /\ ClaimsOutput(s, output)
  <2> DEFINE claiming == Claiming(Scenario(Slow10, "within_deadline"), WitnessOf(output))
             edit == [f \in DOMAIN claiming.edit \cup {"finished_at"} |->
                         IF f = "finished_at" THEN Deadline + 5 ELSE claiming.edit[f]]
  <2>1. /\ DOMAIN claiming.edit = {"outcome", "witness", "output_digest"}
        /\ claiming.edit["outcome"] = "success"
        /\ claiming.edit["witness"] = WitnessOf(output)
        /\ claiming.edit["output_digest"] = ResultDigest(output)
        /\ claiming.expected_check = "within_deadline" /\ claiming.lacks = {}
        /\ claiming.spec = Slow10 /\ claiming.assigned = Slow10
        /\ claiming.steps = <<"execute">> /\ claiming.form = "object"
        /\ claiming.missing = {} /\ claiming.resigned = TRUE
        /\ DOMAIN claiming = {"spec", "assigned", "steps", "edit", "resigned", "form",
                              "missing", "lacks", "expected_check"}
    BY DEF Claiming, Scenario, ClaimedOutput, WitnessOf, NoWitness
  <2>2. s = [claiming EXCEPT !.edit = edit]
    BY DEF late_success_after_timeout
  <2> HIDE DEF claiming, s
  <2>3. /\ s.expected_check = "within_deadline" /\ s.lacks = {}
        /\ s.spec = Slow10 /\ s.assigned = Slow10 /\ s.steps = <<"execute">>
        /\ s.form = "object" /\ s.missing = {} /\ s.resigned = TRUE /\ s.edit = edit
    BY <2>1, <2>2
  <2>4. /\ DOMAIN edit = {"outcome", "witness", "output_digest", "finished_at"}
        /\ edit["outcome"] = "success" /\ edit["witness"] = WitnessOf(output)
        /\ edit["output_digest"] = ResultDigest(output)
        /\ edit["finished_at"] = Deadline + 5
    BY <2>1
  <2>5. output \in Claims
    BY ScenariosAssumption
  <2>6. Slow10.name = "slow_task" /\ Slow10.inputs = [k \in {"n"} |-> IntValue(10)]
    BY DEF Slow10, TaskOf
  <2> HIDE DEF edit, output
  <2>7. ClaimsOutput(s, output)
    BY <2>3, <2>4, <2>5 DEF ClaimsOutput
  <2> QED
    BY <2>3, <2>4, <2>6, <2>7
<1>2. HasRun /\ RunReceipt(receipt, 1, GENESIS)
  BY <1>1, Presentable DEF Ready, Steps, HasRun, FirstReceipt
<1>3. s.spec \in Specs /\ row \in DOMAIN Rows /\ LeaseTypeOK
  BY SpecsOfRows DEF Ready
<1>4. /\ output \in Believed["slow_task", s.spec.inputs]
      /\ output \notin RaisesOn["slow_task", s.spec.inputs]
  <2>1. ClosedForm(10) = 55 /\ 10 \in Int /\ 55 \in Int
    BY DEF ClosedForm
  <2>2. IntValue(55) \in Claims
    BY ScenariosAssumption
  <2> QED
    BY <1>1, <1>3, <2>1, <2>2, SumAnswers
<1>5. "slow_task" \notin Deterministic
  BY FixturesAssumption DEF Repeatable, Registry
<1>6. /\ p # ParseError
      /\ p.task_id = receipt.task_id /\ p.lease_epoch = receipt.lease_epoch
      /\ p.prev_ledger_hash = receipt.prev_ledger_hash
      /\ p.deadline_at = receipt.deadline_at
      /\ p.finished_at = Deadline + 5
  <2>1. /\ p # ParseError
        /\ \A f \in {"task_id", "lease_epoch", "prev_ledger_hash", "started_at",
                     "deadline_at"} : p[f] = receipt[f]
        /\ p.finished_at = IF "finished_at" \in DOMAIN s.edit THEN s.edit["finished_at"] ELSE 0
    BY <1>1, <1>2, ClaimingRow
  <2> HIDE DEF p
  <2> QED
    BY <1>1, <2>1
<1>7. /\ \A j \in 1..7 : Verdicts(p, ctx)[j] # "fail"
      /\ Raises(p, ctx) <=> output \in RaisesOn["slow_task", s.spec.inputs]
      /\ Verdicts(p, ctx)[8] = CheckOf(output \in Believed["slow_task", s.spec.inputs])
      /\ Verdicts(p, ctx)[9] # "fail" /\ Verdicts(p, ctx)[10] # "fail"
  <2>1. /\ \A j \in 1..7 : Verdicts(p, ctx)[j] # "fail"
        /\ Raises(p, ctx) <=> output \in RaisesOn["slow_task", s.spec.inputs]
        /\ Verdicts(p, ctx)[8] = CheckOf(output \in Believed["slow_task", s.spec.inputs])
        /\ "output_digest" \in DOMAIN s.edit => Verdicts(p, ctx)[9] # "fail"
        /\ "slow_task" \notin Deterministic => Verdicts(p, ctx)[10] # "fail"
    BY <1>1, <1>2, ClaimedEvidence
  <2> QED
    BY <1>1, <1>5, <2>1
<1>8. /\ ctx.ledger = entries /\ ctx.epochs = max_epoch
      /\ ctx.now = clock /\ ctx.head = HeadHash(entries)
  BY RowContextIs
<1> HIDE DEF ctx, p, output
<1>9. Verdicts(p, ctx)[8] # "fail" /\ ~ Raises(p, ctx)
  BY <1>4, <1>7 DEF CheckOf
<1>10. \A j \in {11, 12, 13} : Verdicts(p, ctx)[j] # "fail"
  BY <1>2, <1>3, <1>6, <1>8, FirstInTurn
<1>11. Verdicts(p, ctx)[14] = "fail"
  <2>1. p.deadline_at = Deadline
    BY <1>2, <1>6 DEF RunReceipt
  <2>2. WithinDeadline(p) = "fail"
    BY <1>6, <2>1, TimingAssumption DEF WithinDeadline, CheckOf
  <2> QED
    BY <2>2 DEF Verdicts
<1>12. \A j \in 1..13 : Verdicts(p, ctx)[j] # "fail"
  <2>1. \A j \in 1..7 : Verdicts(p, ctx)[j] # "fail"
    BY <1>7
  <2>2. Verdicts(p, ctx)[9] # "fail" /\ Verdicts(p, ctx)[10] # "fail"
    BY <1>7
  <2> QED
    BY <1>9, <1>10, <2>1, <2>2
<1>13. s.expected_check = CheckOrder[14]
  BY <1>1 DEF CheckOrder
<1> QED
  BY <1>6, <1>9, <1>11, <1>12, <1>13, RefusedAsDocumented DEF Matches, ctx, p

(* Every row of the table comes out as its scenario says.                  *)
LEMMA EveryRowMatches ==
    ASSUME Distinct, Ready
    PROVE  Matches(Rows[row])
<1>1. Rows[row] \in Scenarios
  BY RowsAre DEF Ready
<1> QED
  BY <1>1, ReplayRow, DuplicateRow, StaleRow, BrokenSignatureRow, TamperedRow, UnsortedRow,
     SubstitutionRow, UnparsedRows, UnsupportedRow, ProofBombRow, LateRow, WrongPrimeRows,
     HonestWorkRow, ForgedRuntimeRow DEF Scenarios
-----------------------------------------------------------------------------
(* The calls of the scenarios, one after the other.                        *)

(* A scenario that times out makes no other call.                          *)
LEMMA SlowOnesOnlyExecute ==
    ASSUME NEW s \in Scenarios, s.spec.name = "slow_task"
    PROVE  s.steps = <<"execute">>
<1>1. /\ replay_receipt.spec.name # "slow_task"
      /\ duplicate_completion.spec.name # "slow_task"
      /\ stale_ownership.spec.name # "slow_task"
      /\ tampered_copy.spec.name # "slow_task"
  BY DEF replay_receipt, duplicate_completion, stale_ownership, tampered_copy,
         Scenario, Sum, Sort93713, TaskOf
<1>2. /\ broken_signature.steps = <<"execute">>
      /\ tampered_after_signing.steps = <<"execute">>
      /\ task_substitution.steps = <<"execute">>
      /\ truncated_json.steps = <<"execute">>
      /\ missing_field.steps = <<"execute">>
      /\ unsupported_schema_version.steps = <<"execute">>
      /\ honest_but_unsound_process.steps = <<"execute">>
      /\ forged_runtime_fingerprint.steps = <<"execute">>
  BY DEF broken_signature, tampered_after_signing, task_substitution, truncated_json,
         missing_field, unsupported_schema_version, honest_but_unsound_process,
         forged_runtime_fingerprint, Scenario
<1>3. /\ fabricated_witness.steps = <<"execute">>
      /\ proof_bomb.steps = <<"execute">>
      /\ late_success_after_timeout.steps = <<"execute">>
      /\ signed_wrong_prime.steps = <<"execute">>
      /\ prime_rechecked.steps = <<"execute">>
      /\ prime_reexecuted.steps = <<"execute">>
  BY DEF fabricated_witness, proof_bomb, late_success_after_timeout, signed_wrong_prime,
         prime_rechecked, prime_reexecuted, Claiming, Scenario
<1> QED
  BY <1>1, <1>2, <1>3 DEF Scenarios

(* The receipt a scenario submits first is accepted.                       *)
LEMMA FirstSubmission ==
    ASSUME Distinct, row \in DOMAIN Rows, LeaseTypeOK, HasRun, todo # << >>
    PROVE  Accepted(receipt, SubmissionContext(Rows[row].spec))
<1> DEFINE spec == Rows[row].spec
           ctx == SubmissionContext(spec)
<1>1. spec.name # "slow_task"
  <2>1. Steps # <<"execute">>
    BY CallTails DEF HasRun
  <2> QED
    BY <2>1, RowsAre, SlowOnesOnlyExecute DEF Steps
<1>2. RunReceipt(receipt, 1, GENESIS)
  BY DEF HasRun, FirstReceipt
<1>3. /\ SignedByW(receipt) /\ receipt.schema_version = "1.0"
      /\ receipt.outcome = "success" /\ receipt.finished_at = 0
  BY <1>1, <1>2 DEF RunReceipt, UsualOutcome
<1>4. /\ ctx.spec = spec /\ ctx.ledger = entries /\ ctx.epochs = max_epoch
      /\ ctx.now = clock /\ ctx.head = HeadHash(entries) /\ Has(ctx, "spec")
  BY DEF SubmissionContext, Has
<1> HIDE DEF ctx
<1>5. /\ For(receipt, ctx.spec) /\ receipt.witness \notin Oversized /\ ~ Raises(receipt, ctx)
      /\ \A j \in {8, 9, 10, 18} : Verdicts(receipt, ctx)[j] # "fail"
  <2>1. /\ For(receipt, spec) /\ receipt.witness \notin Oversized
        /\ \A c : Has(c, "spec") /\ c.spec = spec =>
              /\ ~ Raises(receipt, c)
              /\ \A j \in {8, 9, 10, 18} : Verdicts(receipt, c)[j] # "fail"
    BY <1>1, <1>2, HonestRow
  <2> QED
    BY <1>4, <2>1
<1>6. Formal(receipt) /\ SignedBy(receipt)
  BY <1>3, <1>5 DEF Formal, SignedBy, SignedByW
<1>7. \A j \in 1..7 : Verdicts(receipt, ctx)[j] # "fail"
  <2>1. /\ \A j \in 1..3 : Verdicts(receipt, ctx)[j] # "fail"
        /\ Verdicts(receipt, ctx)[4] # "fail"
        /\ \A j \in 5..7 : Verdicts(receipt, ctx)[j] # "fail"
    BY <1>5, <1>6, FormalVerdicts
  <2> QED
    BY <2>1
<1>8. \A j \in {11, 12, 13, 17} \cup 14..16 : Verdicts(receipt, ctx)[j] # "fail"
  BY <1>3, <1>4, FirstInTurn
<1>9. \A j \in 1..18 : Verdicts(receipt, ctx)[j] # "fail"
  <2>1. \A j \in {8, 9, 10, 18} : Verdicts(receipt, ctx)[j] # "fail"
    BY <1>5
  <2>2. 1..18 = 1..7 \cup {8, 9, 10, 18} \cup ({11, 12, 13, 17} \cup 14..16)
    OBVIOUS
  <2> QED
    BY <1>7, <1>8, <2>1, <2>2, Zenon
<1>10. Ok(Report(receipt, ctx))
  BY <1>9, VerdictsInOrder DEF Ok
<1> QED
  BY <1>5, <1>10 DEF Accepted, ctx

(* A scenario begins with an environment of its own.                       *)
LEMMA RowsInit == AdvInit => RowsInvariant
<1> SUFFICES ASSUME AdvInit PROVE RowsInvariant
  OBVIOUS
<1>1. AdvInvariant
  BY AdvInvariantInit
<1>2. LeaseTypeOK /\ LeasesMatchEpochs
  BY DEF AdvInit, Init, LeaseInit, LeaseTypeOK, LeasesMatchEpochs
<1>3. NotRun
  BY WorkersAssumption DEF AdvInit, Init, NotRun, MayRun, Steps
<1>4. RowsMatch
  BY DEF AdvInit, RowsMatch
<1> QED
  BY <1>1, <1>2, <1>3, <1>4 DEF RowsInvariant, Progress

(* What the scenario has come to when it makes its next call.              *)
LEMMA NextCall ==
    ASSUME row \in DOMAIN Rows, Progress
    PROVE  /\ Calls("execute") => NotRun \/ (HasSubmitted /\ todo = <<"execute">>)
           /\ Calls("submit") => HasRun /\ Len(Steps) > 1 /\ Steps[2] = "submit"
           /\ Calls("expire") => HasRun /\ Steps = <<"execute", "expire", "claim">>
           /\ Calls("claim") => LeftTime
<1>1. Steps \in CallSequences /\ Head(Steps) = "execute"
  BY RowsAre, ScenariosAre DEF Steps
<1>2. CASE NotRun
  BY <1>1, <1>2 DEF NotRun, Calls
<1>3. CASE HasRun
  BY <1>1, <1>3, CallTails DEF HasRun, Calls, CallSequences
<1>4. CASE HasSubmitted
  <2>1. Steps = <<"execute", "submit">> \/ Steps = <<"execute", "submit", "execute">>
    BY <1>1, <1>4 DEF HasSubmitted, CallSequences
  <2>2. todo = << >> \/ todo = <<"execute">>
    BY <1>4, <2>1, CallTails DEF HasSubmitted
  <2> QED
    BY <1>4, <2>2 DEF Calls
<1>5. CASE HasRunAgain \/ Superseded
  BY <1>5 DEF HasRunAgain, Superseded, Calls
<1>6. CASE LeftTime
  BY <1>6 DEF LeftTime, Calls
<1> QED
  BY <1>2, <1>3, <1>4, <1>5, <1>6 DEF Progress

(* Claiming the task starts a run under a token that is W's.               *)
LEMMA StartsRunKeepsRows ==
    ASSUME RowsInvariant, AdvInvariant', StartsRun
    PROVE  RowsInvariant'
<1> DEFINE spec == Rows[row].spec
           t == TaskIdFor(spec)
           e == ClaimedEpoch(t, clock)
<1>1. /\ row \in DOMAIN Rows /\ DOMAIN run = Workers /\ report = NoVerdict
      /\ LeaseTypeOK /\ LeasesMatchEpochs
      /\ NotRun \/ (HasSubmitted /\ todo = <<"execute">>)
  <2>1. row \in DOMAIN Rows /\ DOMAIN run = Workers /\ todo # << >>
    BY DEF RowsInvariant, AdvInvariant, ReceiptFirst, StartsRun, Calls
  <2> QED
    BY <2>1, NextCall DEF RowsInvariant, AdvInvariant, ReceiptFirst, StartsRun
<1>2. MayRun /\ clock = 0
  BY <1>1 DEF NotRun, HasSubmitted, MayRun
<1>3. /\ run[W] = NoRun /\ spec.name \in Registered
      /\ Claim(t, W, Ttl, clock)
      /\ run' = [run EXCEPT ![W] = [spec |-> spec, lease_epoch |-> e, started_at |-> clock]]
      /\ UNCHANGED <<clock, entries, signed, row, todo, receipt, presented, report>>
  BY DEF StartsRun, StartRun
<1>4. W \in Workers /\ t \in Tasks /\ Ttl \in Int /\ clock \in Int
  BY <1>1, <1>2, WorkersAssumption, SpecsOfRows, TimingAssumption
<1>5. /\ e \in Nat \ {0} /\ max_epoch' = [max_epoch EXCEPT ![t] = e]
      /\ LeaseTypeOK' /\ LeasesMatchEpochs' /\ Holder(t)' = W
  BY <1>1, <1>3, <1>4, ClaimEffect, ClaimKeepsShape
<1>6. max_epoch'[t] = e
  BY <1>1, <1>4, <1>5 DEF LeaseTypeOK
<1> HIDE DEF e
<1>7. /\ run'[W].spec = spec /\ run'[W].lease_epoch = e /\ run'[W].started_at = 0
  BY <1>1, <1>2, <1>3, <1>4
<1>8. MayRun'
  BY <1>2, <1>3, <1>5, <1>6, <1>7 DEF MayRun, HoldsTask, Holder
<1>9. NotRun' \/ HasSubmitted'
  BY <1>1, <1>3, <1>8 DEF NotRun, HasSubmitted, Steps, FirstReceipt, RunReceipt, UsualOutcome,
                          SignedByW, LogOf
<1>10. RowsMatch'
  BY <1>1, <1>3 DEF RowsMatch
<1> QED
  BY <1>5, <1>9, <1>10 DEF RowsInvariant, Progress

(* What W has signed when the run is over.                                 *)
LEMMA RunIsSigned ==
    ASSUME row \in DOMAIN Rows, MayRun, run[W] # NoRun, NEW res \in ExecResults(W),
           res.outcome = UsualOutcome
    PROVE  /\ RunReceipt(Signed(W, Body(W, res)), signed + 1, HeadHash(entries))
           /\ HoldsTask(Signed(W, Body(W, res)).lease_epoch)
<1> DEFINE spec == Rows[row].spec
           result == RunResult[spec.name, spec.inputs]
           s == Signed(W, Body(W, res))
<1>1. /\ clock = 0 /\ run[W].spec = spec /\ spec.name \in Registered
      /\ run[W].started_at = 0 /\ run[W].lease_epoch \in Nat \ {0}
      /\ HoldsTask(run[W].lease_epoch)
  BY DEF MayRun
<1>2. /\ s.receipt_id = signed + 1 /\ s.nonce = signed + 1
      /\ s.task_id = TaskIdFor(spec) /\ s.worker_id = W
      /\ s.lease_epoch = run[W].lease_epoch /\ s.outcome = res.outcome
      /\ s.started_at = 0 /\ s.finished_at = res.finished_at
      /\ s.deadline_at = run[W].started_at + Deadline
      /\ s.prev_ledger_hash = HeadHash(entries)
      /\ DOMAIN s = Required \cup {"signature"}
  <2>1. /\ s.receipt_id = signed + 1 /\ s.nonce = signed + 1
        /\ s.task_id = TaskIdFor(run[W].spec) /\ s.worker_id = W
        /\ s.lease_epoch = run[W].lease_epoch /\ s.outcome = res.outcome
        /\ s.started_at = run[W].started_at /\ s.finished_at = res.finished_at
        /\ s.deadline_at = run[W].started_at + Deadline
        /\ s.prev_ledger_hash = HeadHash(entries)
        /\ DOMAIN s = Required \cup {"signature"}
    BY FinishedReceipt
  <2> HIDE DEF s
  <2> QED
    BY <1>1, <2>1
<1>3. /\ s.schema_version = "1.0" /\ s.task_name = spec.name
      /\ res.outcome = "success" =>
            /\ s.witness = WitnessOf(res.output)
            /\ s.output_digest = ResultDigest(res.output)
      /\ s.signature = Sign(W, SigningPayload(s))
  BY <1>1, FinishedEvidence
<1>4. s = [f \in Required \cup {"signature"} |-> s[f]]
  <2>1. s = [f \in DOMAIN s |-> s[f]]
    BY DEF Signed
  <2> QED
    BY <1>2, <2>1
<1>5. s.deadline_at = Deadline
  BY <1>1, <1>2, TimingAssumption
<1>6. res.outcome = "success" =>
         res.output = result /\ result # Raised /\ res.finished_at = 0
  BY <1>1, ScenariosAssumption DEF ExecResults
<1> HIDE DEF s, result
<1>7. SignedByW(s)
  BY <1>2, <1>3, <1>4 DEF SignedByW
<1> QED
  BY <1>1, <1>2, <1>3, <1>5, <1>6, <1>7 DEF RunReceipt, s, result

(* The end of the run is the receipt of its result.                        *)
LEMMA EndsRunKeepsRows ==
    ASSUME RowsInvariant, AdvInvariant', EndsRun
    PROVE  RowsInvariant'
<1>1. /\ row \in DOMAIN Rows /\ report = NoVerdict /\ Calls("execute")
      /\ NotRun \/ (HasSubmitted /\ todo = <<"execute">>)
  <2>1. row \in DOMAIN Rows /\ Calls("execute") /\ todo # << >>
    BY DEF RowsInvariant, AdvInvariant, ReceiptFirst, EndsRun, Calls
  <2> QED
    BY <2>1, NextCall DEF RowsInvariant, AdvInvariant, ReceiptFirst
<1>2. MayRun /\ clock = 0 /\ run[W] # NoRun
  BY <1>1 DEF NotRun, HasSubmitted, MayRun, EndsRun
<1>3. PICK res \in ExecResults(W) : /\ res.outcome = UsualOutcome
                                    /\ FinishRun(W, res)
                                    /\ receipt' = Signed(W, Body(W, res))
  BY DEF EndsRun
<1>4. /\ todo' = Tail(todo) /\ signed' = signed + 1
      /\ UNCHANGED <<leases, max_epoch, clock, entries, row, presented, report>>
  BY <1>3 DEF EndsRun, FinishRun
<1>5. RunReceipt(receipt', signed + 1, HeadHash(entries)) /\ HoldsTask(receipt'.lease_epoch)
  BY <1>1, <1>2, <1>3, RunIsSigned
<1>6. ASSUME NotRun
      PROVE  Progress'
  <2>1. todo' = Tail(Steps) /\ entries = << >> /\ signed = 0 /\ HeadHash(entries) = GENESIS
    BY <1>4, <1>6 DEF NotRun, HeadHash
  <2>2. RunReceipt(receipt', 1, GENESIS) /\ signed' = 1
    BY <1>4, <1>5, <2>1
  <2>3. HasRun'
    BY <1>2, <1>4, <1>5, <2>1, <2>2
       DEF HasRun, FirstReceipt, RunReceipt, UsualOutcome, SignedByW, HoldsTask, Holder, Steps
  <2> QED
    BY <2>3 DEF Progress
<1>7. ASSUME HasSubmitted, todo = <<"execute">>
      PROVE  Progress'
  <2>1. Steps = <<"execute", "submit", "execute">> /\ todo' = << >>
    <3>1. Steps \in CallSequences /\ Steps[2] = "submit" /\ Tail(Tail(Steps)) = <<"execute">>
      BY <1>1, <1>7, RowsAre, ScenariosAre DEF HasSubmitted, Steps
    <3>2. Steps # <<"execute", "submit">>
      BY <3>1, CallTails
    <3>3. Len(Steps) > 1
      BY <1>7 DEF HasSubmitted
    <3> QED
      BY <1>4, <1>7, <3>1, <3>2, <3>3, CallTails DEF CallSequences
  <2>2. RunReceipt(receipt, 1, GENESIS) /\ entries = LogOf(receipt) /\ signed = 1
    BY <1>7 DEF HasSubmitted, FirstReceipt
  <2>3. entries[1].receipt = receipt
    BY <2>2 DEF LogOf, NewEntry
  <2>4. RunReceipt(receipt', 2, HeadHash(entries))
    BY <1>5, <2>2
  <2>5. HasRunAgain'
    <3>1. /\ RunReceipt(entries[1].receipt, 1, GENESIS)'
          /\ RunReceipt(receipt, 2, HeadHash(entries))'
          /\ (entries = LogOf(entries[1].receipt))'
      BY <1>4, <2>2, <2>3, <2>4
         DEF RunReceipt, UsualOutcome, SignedByW, LogOf, HeadHash
    <3> QED
      BY <1>2, <1>4, <2>1, <3>1 DEF HasRunAgain, Steps
  <2> QED
    BY <2>5 DEF Progress
<1>8. LeaseTypeOK' /\ LeasesMatchEpochs'
  BY <1>4 DEF RowsInvariant, LeaseTypeOK, LeasesMatchEpochs
<1>9. RowsMatch'
  BY <1>1, <1>4 DEF RowsMatch
<1> QED
  BY <1>1, <1>6, <1>7, <1>8, <1>9 DEF RowsInvariant

(* The first submission is recorded.                                       *)
LEMMA SubmitsKeepsRows ==
    ASSUME Distinct, RowsInvariant, AdvInvariant', Submits
    PROVE  RowsInvariant'
<1>1. /\ row \in DOMAIN Rows /\ report = NoVerdict /\ todo # << >> /\ run[W] = NoRun
      /\ HasRun /\ Len(Steps) > 1 /\ Steps[2] = "submit"
  <2>1. row \in DOMAIN Rows /\ todo # << >> /\ ~ Calls("execute")
    BY DEF RowsInvariant, AdvInvariant, ReceiptFirst, Submits, Calls
  <2> QED
    BY <2>1, NextCall DEF RowsInvariant, AdvInvariant, ReceiptFirst, Submits
<1>2. /\ todo = Tail(Steps) /\ entries = << >> /\ clock = 0 /\ FirstReceipt
  BY <1>1 DEF HasRun
<1>3. /\ Submit(receipt, Rows[row].spec) /\ todo' = Tail(todo)
      /\ UNCHANGED <<leases, max_epoch, clock, run, signed, row, receipt, presented, report>>
  BY DEF Submits, Submit
<1>4. entries' = LogOf(receipt)
  <2>1. Accepted(receipt, SubmissionContext(Rows[row].spec))
    BY <1>1, FirstSubmission DEF RowsInvariant
  <2>2. entries' = Append(<< >>, NewEntry(<< >>, receipt, receipt.nonce))
    BY <1>2, <1>3, <2>1 DEF Submit
  <2> QED
    BY <2>2 DEF LogOf
<1>5. HasSubmitted'
  <2>1. FirstReceipt' /\ (entries = LogOf(receipt))'
    BY <1>2, <1>3, <1>4
       DEF FirstReceipt, RunReceipt, UsualOutcome, SignedByW, LogOf
  <2>2. MayRun'
    BY <1>1, <1>2, <1>3 DEF MayRun
  <2> QED
    BY <1>1, <1>2, <1>3, <2>1, <2>2 DEF HasSubmitted, Steps
<1>6. LeaseTypeOK' /\ LeasesMatchEpochs' /\ RowsMatch'
  BY <1>1, <1>3 DEF RowsInvariant, LeaseTypeOK, LeasesMatchEpochs, RowsMatch
<1> QED
  BY <1>5, <1>6 DEF RowsInvariant, Progress

(* The lease runs out ...                                                  *)
LEMMA ExpiresKeepsRows ==
    ASSUME RowsInvariant, AdvInvariant', Expires
    PROVE  RowsInvariant'
<1>1. /\ row \in DOMAIN Rows /\ report = NoVerdict
      /\ HasRun /\ Steps = <<"execute", "expire", "claim">>
  <2>1. row \in DOMAIN Rows /\ todo # << >>
    BY DEF RowsInvariant, AdvInvariant, ReceiptFirst, Expires, Calls
  <2> QED
    BY <2>1, NextCall DEF RowsInvariant, AdvInvariant, ReceiptFirst, Expires
<1>2. /\ todo = <<"expire", "claim">> /\ entries = << >> /\ clock = 0 /\ FirstReceipt
      /\ HoldsTask(receipt.lease_epoch)
  BY <1>1, CallTails DEF HasRun
<1>3. /\ clock' = clock + 2 * Ttl /\ todo' = Tail(todo)
      /\ UNCHANGED <<leases, max_epoch, entries, signed, row, receipt, presented, report>>
  BY DEF Expires
<1>4. clock' = 2 * Ttl
  BY <1>2, <1>3, TimingAssumption
<1>5. LeftTime'
  BY <1>1, <1>2, <1>3, <1>4, CallTails
     DEF LeftTime, Steps, FirstReceipt, RunReceipt, UsualOutcome, SignedByW, HoldsTask, Holder
<1>6. LeaseTypeOK' /\ LeasesMatchEpochs' /\ RowsMatch'
  BY <1>1, <1>3 DEF RowsInvariant, LeaseTypeOK, LeasesMatchEpochs, RowsMatch
<1> QED
  BY <1>5, <1>6 DEF RowsInvariant, Progress

(* ... and goes to somebody else, whose token is a later one.              *)
LEMMA OtherClaimsKeepsRows ==
    ASSUME RowsInvariant, AdvInvariant', OtherClaims
    PROVE  RowsInvariant'
<1>1. row \in DOMAIN Rows /\ report = NoVerdict /\ LeftTime
  <2>1. row \in DOMAIN Rows /\ todo # << >>
    BY DEF RowsInvariant, AdvInvariant, ReceiptFirst, OtherClaims, Calls
  <2> QED
    BY <2>1, NextCall DEF RowsInvariant, AdvInvariant, ReceiptFirst, OtherClaims
<1>2. /\ Steps = <<"execute", "expire", "claim">> /\ todo = <<"claim">>
      /\ entries = << >> /\ clock = 2 * Ttl /\ FirstReceipt
      /\ HoldsTask(receipt.lease_epoch)
  BY <1>1 DEF LeftTime
<1> DEFINE t == receipt.task_id
           e == ClaimedEpoch(t, clock)
<1>3. /\ Claim(t, V, Ttl, clock) /\ todo' = Tail(todo)
      /\ UNCHANGED <<clock, entries, signed, row, receipt, presented, report>>
  BY DEF OtherClaims
<1>4. /\ t = TaskIdFor(Rows[row].spec) /\ t \in Tasks
      /\ V \in Workers /\ V # W /\ Ttl \in Int /\ clock \in Int
      /\ LeaseTypeOK /\ LeasesMatchEpochs
  <2>1. 2 * Ttl \in Int
    BY TimingAssumption
  <2> QED
    BY <1>1, <1>2, <2>1, WorkersAssumption, TimingAssumption, SpecsOfRows
       DEF FirstReceipt, RunReceipt, RowsInvariant
<1>5. max_epoch[t] = receipt.lease_epoch /\ Holder(t) = W /\ max_epoch[t] \in Nat
  BY <1>2, <1>4 DEF HoldsTask, LeaseTypeOK
<1>6. /\ max_epoch' = [max_epoch EXCEPT ![t] = e]
      /\ (e = max_epoch[t] /\ Holder(t) = V) \/ e = max_epoch[t] + 1
      /\ LeaseTypeOK' /\ LeasesMatchEpochs'
  BY <1>3, <1>4, ClaimEffect, ClaimKeepsShape
<1> HIDE DEF e
<1>7. max_epoch'[t] # receipt.lease_epoch
  BY <1>4, <1>5, <1>6 DEF LeaseTypeOK
<1> HIDE DEF t
<1>8. (receipt.lease_epoch # max_epoch[receipt.task_id])'
  BY <1>3, <1>7 DEF t
<1>9. Superseded'
  BY <1>2, <1>3, <1>8, CallTails
     DEF Superseded, Steps, FirstReceipt, RunReceipt, UsualOutcome, SignedByW
<1>10. RowsMatch'
  BY <1>1, <1>3 DEF RowsMatch
<1> QED
  BY <1>6, <1>9, <1>10 DEF RowsInvariant, Progress

(* A verdict changes nothing of what it is about.                          *)
LEMMA VerdictKeepsRows ==
    ASSUME RowsInvariant, UNCHANGED <<vars, row, todo, receipt>>
    PROVE  LeaseTypeOK' /\ LeasesMatchEpochs' /\ Progress'
<1>1. UNCHANGED <<leases, max_epoch, clock, entries, run, signed>>
  BY DEF vars
<1>2. LeaseTypeOK' /\ LeasesMatchEpochs'
  BY <1>1 DEF RowsInvariant, LeaseTypeOK, LeasesMatchEpochs
<1>3. /\ MayRun => MayRun'
      /\ HoldsTask(receipt.lease_epoch) => HoldsTask(receipt.lease_epoch)'
      /\ FirstReceipt => FirstReceipt'
  BY <1>1 DEF MayRun, HoldsTask, Holder, FirstReceipt, RunReceipt, UsualOutcome, SignedByW
<1>4. /\ NotRun => NotRun'
      /\ HasRun => HasRun'
      /\ HasSubmitted => HasSubmitted'
      /\ LeftTime => LeftTime'
  BY <1>1, <1>3 DEF NotRun, HasRun, HasSubmitted, LeftTime, LogOf, Steps
<1>5. /\ HasRunAgain => HasRunAgain'
      /\ Superseded => Superseded'
  BY <1>1, <1>3 DEF HasRunAgain, Superseded, LogOf, RunReceipt, UsualOutcome, SignedByW, Steps
<1>6. Progress'
  <2>1. Progress
    BY DEF RowsInvariant
  <2> QED
    BY <1>4, <1>5, <2>1, Zenon DEF Progress
<1> QED
  BY <1>2, <1>6

(* Whatever is called, the table goes on to come out as documented.        *)
LEMMA RowsStep == Distinct /\ RowsInvariant /\ [AdvNext]_advVars => RowsInvariant'
<1> SUFFICES ASSUME Distinct, RowsInvariant, [AdvNext]_advVars PROVE RowsInvariant'
  OBVIOUS
<1>0. AdvInvariant' /\ row \in DOMAIN Rows
  BY AdvInvariantStep DEF RowsInvariant, AdvInvariant, ReceiptFirst
<1>1. CASE StartsRun
  BY <1>0, <1>1, StartsRunKeepsRows
<1>2. CASE EndsRun
  BY <1>0, <1>2, EndsRunKeepsRows
<1>3. CASE Submits
  BY <1>0, <1>3, SubmitsKeepsRows
<1>4. CASE Expires
  BY <1>0, <1>4, ExpiresKeepsRows
<1>5. CASE OtherClaims
  BY <1>0, <1>5, OtherClaimsKeepsRows
<1>6. CASE Presents
  <2>1. /\ todo = << >> /\ UNCHANGED <<vars, row, todo, receipt>>
        /\ report' = Judged(Presented(Rows[row], receipt), RowContext(Rows[row]))
    BY <1>6 DEF Presents
  <2>2. Ready
    BY <1>0, <2>1 DEF Ready, RowsInvariant
  <2>3. AsDocumented(Rows[row], report')
    BY <2>1, <2>2, EveryRowMatches DEF Matches
  <2>4. RowsMatch'
    BY <2>1, <2>3 DEF RowsMatch, AsDocumented, RowOk, Reason
  <2> QED
    BY <1>0, <2>1, <2>4, VerdictKeepsRows DEF RowsInvariant
<1>7. CASE NextScenario
  <2>1. /\ todo' = Rows[row'].steps /\ report' = NoVerdict
        /\ leases' = [t \in Tasks |-> NoLease] /\ max_epoch' = [t \in Tasks |-> 0]
        /\ clock' = 0 /\ entries' = << >> /\ run' = [w \in Workers |-> NoRun] /\ signed' = 0
    BY <1>7 DEF NextScenario
  <2>2. LeaseTypeOK' /\ LeasesMatchEpochs'
    BY <2>1 DEF LeaseTypeOK, LeasesMatchEpochs
  <2>3. NotRun'
    BY <2>1, WorkersAssumption DEF NotRun, MayRun, Steps
  <2>4. RowsMatch'
    BY <2>1 DEF RowsMatch
  <2> QED
    BY <1>0, <2>2, <2>3, <2>4 DEF RowsInvariant, Progress
<1>8. ASSUME NEW f \in Required \cup {"signature"}, Changes(f)
      PROVE  RowsInvariant'
  <2>1. UNCHANGED <<vars, row, todo, receipt>> /\ presented'.changed = TRUE
    BY <1>8 DEF Changes
  <2>2. RowsMatch'
    BY <2>1 DEF RowsMatch
  <2> QED
    BY <1>0, <2>1, <2>2, VerdictKeepsRows DEF RowsInvariant
<1>9. CASE UNCHANGED advVars
  <2>1. UNCHANGED <<vars, row, todo, receipt>> /\ UNCHANGED <<presented, report>>
    BY <1>9 DEF advVars
  <2>2. RowsMatch'
    BY <2>1 DEF RowsInvariant, RowsMatch, AsDocumented, RowOk, Reason
  <2> QED
    BY <1>0, <2>1, <2>2, VerdictKeepsRows DEF RowsInvariant
<1> QED
  BY <1>1, <1>2, <1>3, <1>4, <1>5, <1>6, <1>7, <1>8, <1>9 DEF AdvNext

(* "The bundled adversary must behave exactly as its documentation says":  *)
(* every scenario of the table and of the quick start, in whatever order   *)
(* and however often it is run, with any lease time, deadline, bounds and  *)
(* honest fixtures as they are written, is accepted, or refused first for  *)
(* the reason it is there for.                                             *)
THEOREM RowsMatchAlways ==
    ASSUME Distinct
    PROVE  AdvSpec => []RowsMatch
<1>1. RowsInvariant /\ [AdvNext]_advVars => RowsInvariant'
  BY RowsStep
<1>2. RowsInvariant => RowsMatch
  BY DEF RowsInvariant
<1> QED
  BY <1>1, <1>2, RowsInit, PTL DEF AdvSpec
=============================================================================
