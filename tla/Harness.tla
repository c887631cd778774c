------------------------------- MODULE Harness -------------------------------
(***************************************************************************)
(* The harness (src/detects/harness.py) with the workers and the network   *)
(* around it.  Every worker has a Harness of its own over one shared       *)
(* LeaseManager and one shared Ledger, as in test_stale_ownership.py       *)
(* and in the adversary.                                                   *)
(*                                                                         *)
(* execute_and_sign is two steps, because other workers and the clock move *)
(* while the fixture runs: StartRun claims the lease and notes started_at, *)
(* FinishRun is everything after execute() returned.  submit is one step:  *)
(* verification and append.  A signed receipt goes to `wire` and stays     *)
(* there: it may be submitted at any later time, in any order, any number  *)
(* of times, with any spec, or never.                                      *)
(***************************************************************************)
EXTENDS LeaseManager, Verifier

CONSTANTS
    Specs,          \* task specs workers are given
    Outputs,        \* results a run can produce
    BuggyWorkers,   \* workers whose result may be wrong
    NoRun,          \* "this worker is not running anything"
    Ttl,            \* lease_ttl_s
    Deadline,       \* deadline_s
    Reexecuting,    \* the harness was given a reexecutor
    MaySetBack,     \* the clock may be set back
    MayRefresh,     \* workers may re-sign a receipt they still hold
    MaxRestarts,    \* bound: how often the process restarts
    MaxTime,        \* bound: the last instant
    MaxSigned,      \* bound: how many receipts are ever signed
    MaxGrants       \* bound: how often a task's lease is granted

ASSUME SpecsAssumption == \A s \in Specs : TaskIdFor(s) \in Tasks
ASSUME TimingAssumption == Ttl \in Int /\ Deadline \in Nat /\ Skew \in Nat
ASSUME FlagsAssumption ==
    Reexecuting \in BOOLEAN /\ MaySetBack \in BOOLEAN /\ MayRefresh \in BOOLEAN
ASSUME BoundsAssumption == MaxRestarts \in Nat /\ MaxTime \in Nat /\ MaxSigned \in Nat

VARIABLES
    clock,      \* the shared Clock
    entries,    \* the ledger's entries
    run,        \* run[w]: what worker w is executing, or NoRun
    wire,       \* every receipt ever signed
    signed,     \* how many receipts were signed; the source of fresh ids
    restarts    \* how often the process restarted

vars == <<leases, max_epoch, clock, entries, run, wire, signed, restarts>>

Run == [spec : {s \in Specs : s.name \in Registered}, lease_epoch : Nat \ {0}, started_at : Nat]

Init == /\ LeaseInit
        /\ clock = 0
        /\ entries = << >>
        /\ run = [w \in Workers |-> NoRun]
        /\ wire = {}
        /\ signed = 0
        /\ restarts = 0

-----------------------------------------------------------------------------
(* SystemClock reads the time of day: it goes on, and it may be set back. *)
Tick == /\ clock' \in 0..MaxTime
        /\ clock' = clock + 1 \/ (MaySetBack /\ clock' < clock)
        /\ UNCHANGED <<leases, max_epoch, entries, run, wire, signed, restarts>>

(* execute_and_sign up to the call of execute(): an unknown fixture raises *)
(* before the lease is claimed, a held lease raises out of it.             *)
StartRun(w, spec) ==
    /\ run[w] = NoRun
    /\ spec.name \in Registered
    /\ ClaimedEpoch(TaskIdFor(spec), clock) <= MaxGrants
    /\ Claim(TaskIdFor(spec), w, Ttl, clock)
    /\ run' = [run EXCEPT ![w] =
                  [spec        |-> spec,
                   lease_epoch |-> ClaimedEpoch(TaskIdFor(spec), clock),
                   started_at  |-> clock]]
    /\ UNCHANGED <<clock, entries, wire, signed, restarts>>

(* What execute() can return for this run, as far as the receipt shows: a   *)
(* timeout is always stamped with the deadline, however late it is noticed; *)
(* success and failure are stamped with the clock, which after retries may  *)
(* be past the deadline.  Only a buggy worker's result differs from run()'s.*)
ExecResults(w) ==
    LET correct == RunResult[run[w].spec.name, run[w].spec.inputs]
        outputs == IF w \in BuggyWorkers THEN Outputs
                   ELSE {correct} \ {Raised}
    IN  [outcome : {"timeout"}, output : {Null},
         finished_at : {run[w].started_at + Deadline}]
        \cup [outcome : {"failure"}, output : {Null}, finished_at : {clock}]
        \cup [outcome : {"success"}, output : outputs, finished_at : {clock}]

(* The receipt of a finished run before it is signed. *)
Body(w, res) == ReceiptBody(w, run[w], run[w].started_at + Deadline, res,
                            signed + 1, HeadHash(entries))

(* execute_and_sign from the return of execute() to its own. *)
FinishRun(w, res) ==
    /\ run[w] # NoRun
    /\ signed < MaxSigned
    /\ wire' = wire \cup {Signed(w, Body(w, res))}
    /\ signed' = signed + 1
    /\ run' = [run EXCEPT ![w] = NoRun]
    /\ UNCHANGED <<leases, max_epoch, clock, entries, restarts>>

-----------------------------------------------------------------------------
(* A submission that leaves out the ledger and its head (mutant). *)
ContextWithoutLedger(spec) ==
    [given  |-> {"spec", "leases", "now"}
                \cup (IF Reexecuting THEN {"reexecutor"} ELSE {}),
     spec   |-> spec,
     ledger |-> entries,
     epochs |-> max_epoch,
     now    |-> clock,
     head   |-> HeadHash(entries)]

(* The arguments submit() gives verify_receipt. *)
SubmissionContext(spec) ==
    [given  |-> {"spec", "ledger", "leases", "now", "head"}
                \cup (IF Reexecuting THEN {"reexecutor"} ELSE {}),
     spec   |-> spec,
     ledger |-> entries,
     epochs |-> max_epoch,
     now    |-> clock,
     head   |-> HeadHash(entries)]

(* A re-verification that repeats the submission's checks (mutant). *)
IsolatedWithLedger(spec) == [SubmissionContext(spec) EXCEPT !.given = {"spec", "ledger", "now"}]

(* The arguments `detects verify` gives it for a stored receipt. *)
IsolatedContext(spec) ==
    [given  |-> {"spec", "now"},
     spec   |-> spec,
     ledger |-> entries,
     epochs |-> max_epoch,
     now    |-> clock,
     head   |-> HeadHash(entries)]

(* submit(): accepted and appended, or refused (or raised out of) and the  *)
(* ledger left as it is.                                                   *)
Submit(r, spec) ==
    /\ entries' = IF Accepted(r, SubmissionContext(spec))
                  THEN Append(entries, NewEntry(entries, r, r.nonce))
                  ELSE entries
    /\ UNCHANGED <<leases, max_epoch, clock, run, wire, signed, restarts>>

(* A worker whose receipt was refused for a stale head keeps its id and    *)
(* signs it again with a fresh nonce and the head of now (a receipt edited *)
(* and re-signed with the worker's own key, as adversary._resign does).    *)
Refresh(r) ==
    LET body == [SigningPayload(r) EXCEPT !.nonce = signed + 1,
                                          !.prev_ledger_hash = HeadHash(entries)]
    IN  /\ MayRefresh
        /\ signed < MaxSigned
        /\ wire' = wire \cup {Signed(r.worker_id, body)}
        /\ signed' = signed + 1
        /\ UNCHANGED <<leases, max_epoch, clock, entries, run, restarts>>

(* A worker dies in the middle of a run: no receipt, the lease stays. *)
Crash(w) ==
    /\ run[w] # NoRun
    /\ run' = [run EXCEPT ![w] = NoRun]
    /\ UNCHANGED <<leases, max_epoch, clock, entries, wire, signed, restarts>>

(* The process restarts: the Ledger is loaded again from its file, the     *)
(* LeaseManager starts empty, runs are gone, receipts are still around.    *)
Restart ==
    /\ restarts < MaxRestarts
    /\ restarts' = restarts + 1
    /\ leases' = [t \in Tasks |-> NoLease]
    /\ max_epoch' = [t \in Tasks |-> 0]
    /\ run' = [w \in Workers |-> NoRun]
    /\ UNCHANGED <<clock, entries, wire, signed>>

Next == \/ Tick
        \/ Restart
        \/ \E w \in Workers, spec \in Specs : StartRun(w, spec)
        \/ \E w \in Workers : Crash(w)
        \/ \E w \in Workers : run[w] # NoRun /\ \E res \in ExecResults(w) : FinishRun(w, res)
        \/ \E r \in wire, spec \in Specs : Submit(r, spec)
        \/ \E r \in wire : Refresh(r)

Spec == Init /\ [][Next]_vars

-----------------------------------------------------------------------------
Hash == Seq(Nat \X Nat)

(* A receipt anybody ever signed, in this run of the system. *)
SignedReceipt(r) ==
    /\ DOMAIN r = Required \cup {"signature"}
    /\ r.receipt_id \in 1..signed /\ r.nonce \in 1..signed
    /\ r.task_id \in Tasks /\ r.worker_id \in Workers
    /\ r.lease_epoch \in Nat \ {0}
    /\ r.outcome \in {"success", "failure", "timeout"}
    /\ r.started_at \in Nat /\ r.finished_at \in Nat /\ r.deadline_at \in Nat
    /\ r.prev_ledger_hash \in Hash

Entry == [seq : Nat, prev_hash : Hash, receipt : wire, entry_hash : Hash]

TypeOK == /\ LeaseTypeOK
          /\ clock \in Nat /\ signed \in Nat /\ restarts \in 0..MaxRestarts
          /\ run \in [Workers -> Run \cup {NoRun}]
          /\ \A r \in wire : SignedReceipt(r)
          /\ entries \in Seq(Entry)

Recorded(i) == entries[i].receipt

(* I1 (tests/test_invariants.py:4): a task has at most one terminal        *)
(* success in the ledger, whoever ran it how often and in whatever order   *)
(* the receipts arrive.                                                    *)
AtMostOneSuccess ==
    \A t \in Tasks : \A i, j \in Successes(entries, t) : i = j

(* What remains of I1 when receipts may be signed again: all successes of  *)
(* a task are the same receipt, by the same worker under the same token.   *)
SuccessesShareReceipt ==
    \A t \in Tasks : \A i, j \in Successes(entries, t) :
        /\ Recorded(i).receipt_id = Recorded(j).receipt_id
        /\ Recorded(i).worker_id = Recorded(j).worker_id
        /\ Recorded(i).output_digest = Recorded(j).output_digest

(* A receipt the network redelivers is never recorded a second time. *)
RecordedOnce ==
    \A i, j \in DOMAIN entries : Recorded(i).nonce = Recorded(j).nonce => i = j

(* A receipt is recorded exactly where its signer saw the head of the      *)
(* ledger: nothing was accepted between its signing and its acceptance.    *)
ChainsOntoSignedHead ==
    \A i \in DOMAIN entries :
        /\ Recorded(i).prev_ledger_hash = entries[i].prev_hash
        /\ Len(Recorded(i).prev_ledger_hash) = i - 1

(* Read in the ledger's order, the receipts of a task never go back to an  *)
(* older lease: a superseded worker cannot slip in behind its successor.   *)
EpochsInOrder ==
    \A i, j \in DOMAIN entries :
        i < j /\ Recorded(i).task_id = Recorded(j).task_id
            => Recorded(i).lease_epoch <= Recorded(j).lease_epoch

(* Stale ownership (lease.py:4-7): what is recorded at a step is a receipt *)
(* of the worker that holds the lease at that step.  The verifier compares *)
(* epochs only; that the holder is the right one is a consequence.         *)
OwnerAtAcceptance ==
    [][Len(entries') > Len(entries) =>
          LET r == entries'[Len(entries')].receipt
          IN  Holder(r.task_id) = r.worker_id]_vars

(* Once accepted, always acceptable: `detects verify` on a recorded        *)
(* receipt says ACCEPT whenever the clock is not behind the receipt, for   *)
(* every spec with the receipt's task id, although the receipt's nonce,    *)
(* task and epoch are long used up (NOTES.md, "A real bug I hit while      *)
(* building").  Only a clock set back makes it say REJECT, and then only   *)
(* until it has caught up.                                                 *)
AcceptedReverifies ==
    \A i \in DOMAIN entries : \A spec \in Specs :
        TaskIdFor(spec) = Recorded(i).task_id =>
            (Accepted(Recorded(i), IsolatedContext(spec))
                <=> Recorded(i).started_at <= clock + Skew)

(* The holder of a current lease gets in: whatever was recorded before, a  *)
(* right result that is finished in time and signed over the head of now   *)
(* is accepted as long as the task has no success yet.  A worker that the  *)
(* head keeps moving away from can therefore always try again.             *)
HonestHolderGetsIn ==
    \A w \in Workers \ BuggyWorkers :
        LET task_id == TaskIdFor(run[w].spec)
        IN  /\ run[w] # NoRun
            /\ run[w].lease_epoch = max_epoch[task_id]
            /\ Successes(entries, task_id) = {}
            => \A res \in ExecResults(w) :
                  /\ res.finished_at \in run[w].started_at..(run[w].started_at + Deadline)
                  /\ run[w].started_at <= clock + Skew
                  => Accepted(Signed(w, Body(w, res)), SubmissionContext(run[w].spec))

(* The evidence recorded for a success is evidence about its own task: the *)
(* claimed output passes the cheap check of the fixture and inputs that    *)
(* the task id was computed from, whatever spec came with the submission.  *)
RecordedEvidenceHolds ==
    \A i \in DOMAIN entries :
        LET r == Recorded(i)
        IN  r.outcome = "success" =>
                ClaimedOutput(r.witness) \in Believed[r.task_id.name, r.task_id.inputs]

(* With a reexecutor no wrong result of a repeatable task gets in: what is *)
(* recorded for it is what run() computes for the inputs in the task id.   *)
RecordedResultIsRight ==
    Reexecuting =>
        \A i \in DOMAIN entries :
            LET r == Recorded(i)
            IN  r.outcome = "success" /\ r.task_name \in Deterministic =>
                    r.output_digest =
                        ResultDigest(RunResult[r.task_name, r.task_id.inputs])

(* The gate implements the abstract one as long as the lease manager       *)
(* lives: a completion is the receipt id, worker and token of a success.   *)
Completion(t) ==
    {[id |-> Recorded(i).receipt_id, worker |-> Recorded(i).worker_id,
      epoch |-> Recorded(i).lease_epoch] : i \in Successes(entries, t)}

Gate == INSTANCE FencedCompletion
            WITH Ids <- 1..MaxSigned,
                 epoch <- max_epoch,
                 owner <- [t \in Tasks |-> Holder(t)],
                 completion <- [t \in Tasks |-> Completion(t)]

ImplementsFencedCompletion == Gate!Spec

-----------------------------------------------------------------------------
(* The inductive invariants HarnessProofs proves these properties from.    *)

(* Receipts that share an id are the same receipt, signed more than once:  *)
(* all they can differ in is the nonce, the head and the signature.        *)
IdsNameReceipts ==
    /\ \A r, q \in wire : r.receipt_id = q.receipt_id =>
          /\ r.task_id = q.task_id
          /\ r.worker_id = q.worker_id
          /\ r.lease_epoch = q.lease_epoch
          /\ r.outcome = q.outcome
          /\ r.output_digest = q.output_digest
    /\ MayRefresh \/ \A r \in wire : r.receipt_id = r.nonce

(* As long as the lease manager lives, the tokens of runs and of signed    *)
(* receipts are fenced.                                                    *)
TokensFenced ==
    MaxRestarts = 0 =>
        /\ \A w \in Workers : run[w] # NoRun =>
              Fenced(TaskIdFor(run[w].spec), w, run[w].lease_epoch)
        /\ \A r \in wire : Fenced(r.task_id, r.worker_id, r.lease_epoch)

(* The ledger's own part: who finished a task, and nothing twice. *)
LedgerInvariant == RecordedOnce /\ SuccessesShareReceipt

(* The hash of an entry is one link longer than the one before it. *)
HashesGrow == \A i \in DOMAIN entries : Len(entries[i].entry_hash) = i

HarnessInvariant == /\ TypeOK
                    /\ LeasesMatchEpochs
                    /\ IdsNameReceipts
                    /\ TokensFenced
                    /\ LedgerInvariant
=============================================================================
