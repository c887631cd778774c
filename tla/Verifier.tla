------------------------------ MODULE Verifier ------------------------------
(***************************************************************************)
(* verify_receipt (src/detects/verifier.py): a pure function from a        *)
(* receipt and whatever context the caller has to a report of named        *)
(* checks, each "pass", "fail" or "skip".  One operator per check, in the  *)
(* code's order; Report puts them together and Accepted is report.ok.      *)
(*                                                                         *)
(* A fixture is what the registry knows about it: RunResult is what run()  *)
(* returns or raises on inputs, Believed and RaisesOn are the outputs that *)
(* check_witness() accepts, and that it raises an exception on.            *)
(***************************************************************************)
EXTENDS LedgerLog, Schema

CONSTANTS
    SupportedVersions,  \* SUPPORTED_SCHEMA_VERSIONS
    Oversized,          \* witnesses whose encoding exceeds max_witness_bytes
    Registered,         \* names in the fixture registry
    Deterministic,      \* those of them that may be re-executed
    RunResult,          \* RunResult[name, inputs]: an output, or Raised
    Believed,           \* Believed[name, inputs]: a set of outputs
    RaisesOn,           \* RaisesOn[name, inputs]: a set of outputs
    Skew                \* clock_skew_s

-----------------------------------------------------------------------------
(* Check.passed / Check.skipped of one check. *)
CheckOf(passed) == IF passed THEN "pass" ELSE "fail"
CheckIf(given, passed) == IF given THEN CheckOf(passed) ELSE "skip"

(* ctx.given names the optional arguments the caller supplied. *)
Has(ctx, arg) == arg \in ctx.given

Succeeded(r) == r.outcome = "success"
Known(r) == r.task_name \in Registered

SchemaVersionSupported(r) == CheckOf(r.schema_version \in SupportedVersions)

WitnessSizeBounded(r) == CheckOf(r.witness \notin Oversized)

SignatureValid(r) ==
    CheckOf(/\ r.signature # Null
            /\ VerifySig(r.worker_id, SigningPayload(r), r.signature))

(* Compares the names only (mutant of TaskIdMatchesSpec). *)
TaskIdNamesSpec(r, ctx) ==
    CheckIf(Has(ctx, "spec"), r.task_id.name = ctx.spec.name)

TaskIdMatchesSpec(r, ctx) ==
    CheckIf(Has(ctx, "spec"), r.task_id = TaskIdFor(ctx.spec))

TaskNameMatchesSpec(r, ctx) ==
    CheckIf(Has(ctx, "spec"), r.task_name = ctx.spec.name)

FixtureKnown(r) == CheckOf(Known(r))

(* The fixture is the one the receipt names, the inputs are the spec's. *)
RechecksWitness(r, ctx) == Known(r) /\ Succeeded(r) /\ Has(ctx, "spec")

WitnessRecheck(r, ctx) ==
    CheckIf(RechecksWitness(r, ctx),
            ClaimedOutput(r.witness) \in Believed[r.task_name, ctx.spec.inputs])

(* check_witness() is called outside any try: what it raises, verify_receipt *)
(* raises.  So do a reexecutor that raises, which is modelled in Reexec, and *)
(* canon_bytes() on a NaN or an infinity in witness or times, which no value *)
(* here is.                                                                  *)
Raises(r, ctx) ==
    /\ RechecksWitness(r, ctx)
    /\ ClaimedOutput(r.witness) \in RaisesOn[r.task_name, ctx.spec.inputs]

OutputDigestMatchesWitness(r) ==
    CheckIf(Known(r) /\ Succeeded(r),
            r.output_digest = ResultDigest(ClaimedOutput(r.witness)))

(* A reexecutor's answer for a registered fixture. *)
Reexecution(name, inputs) ==
    IF name \notin Deterministic
    THEN [status |-> "nondeterministic", output_digest |-> Null]
    ELSE IF RunResult[name, inputs] = Raised
         THEN [status |-> "error", output_digest |-> Null]
         ELSE [status |-> "ok",
               output_digest |-> ResultDigest(RunResult[name, inputs])]

(* The comparison forgotten: any run that can be repeated will do (mutant  *)
(* of IndependentReexecution).                                             *)
ReexecutionRuns(r, ctx) ==
    LET res == Reexecution(r.task_name, ctx.spec.inputs)
    IN  CheckIf(/\ Has(ctx, "reexecutor") /\ RechecksWitness(r, ctx)
                /\ res.status # "nondeterministic",
                res.status = "ok")

IndependentReexecution(r, ctx) ==
    LET res == Reexecution(r.task_name, ctx.spec.inputs)
    IN  CheckIf(/\ Has(ctx, "reexecutor") /\ RechecksWitness(r, ctx)
                /\ res.status # "nondeterministic",
                res.status = "ok" /\ res.output_digest = r.output_digest)

(* Asks whether this very receipt is recorded, not whether the task is     *)
(* (mutant of NoDuplicateCompletion).                                      *)
NoDuplicateReceipt(r, ctx) ==
    CheckIf(Has(ctx, "ledger") /\ Succeeded(r),
            \A i \in Successes(ctx.ledger, r.task_id) :
                ctx.ledger[i].receipt.receipt_id # r.receipt_id)

NoDuplicateCompletion(r, ctx) ==
    CheckIf(Has(ctx, "ledger") /\ Succeeded(r),
            \/ Successes(ctx.ledger, r.task_id) = {}
            \/ TerminalReceiptFor(ctx.ledger, r.task_id).receipt_id = r.receipt_id)

NonceUnseen(r, ctx) ==
    CheckIf(Has(ctx, "ledger"), ~ SeenNonce(ctx.ledger, r.nonce))

(* An epoch that was granted is good enough (mutant of LeaseEpochCurrent). *)
LeaseEpochGranted(r, ctx) ==
    LET cur == IF r.task_id \in DOMAIN ctx.epochs THEN ctx.epochs[r.task_id] ELSE 0
    IN  CheckIf(Has(ctx, "leases"), cur > 0 /\ r.lease_epoch <= cur)

LeaseEpochCurrent(r, ctx) ==
    LET cur == IF r.task_id \in DOMAIN ctx.epochs THEN ctx.epochs[r.task_id] ELSE 0
    IN  CheckIf(Has(ctx, "leases"), cur > 0 /\ r.lease_epoch = cur)

(* The deadline itself is too late (mutant of WithinDeadline). *)
BeforeDeadline(r) == CheckOf(r.finished_at < r.deadline_at)

WithinDeadline(r) == CheckOf(r.finished_at <= r.deadline_at)

TimestampsOrdered(r) == CheckOf(r.started_at <= r.finished_at)

NotFromTheFuture(r, ctx) ==
    CheckIf(Has(ctx, "now"), r.started_at <= ctx.now + Skew)

(* Any head the ledger has had will do (mutant of PrevLedgerHashMatches). *)
PrevLedgerHashKnown(r, ctx) ==
    CheckIf(Has(ctx, "head"),
            Len(r.prev_ledger_hash) <= Len(ctx.head))

PrevLedgerHashMatches(r, ctx) ==
    CheckIf(Has(ctx, "head"), r.prev_ledger_hash = ctx.head)

SuccessHasWitness(r) ==
    CheckIf(Succeeded(r), r.witness # NoWitness /\ r.output_digest # Null)

-----------------------------------------------------------------------------
(* The VerdictReport of a receipt that parses. *)
Report(r, ctx) ==
    [schema_parseable              |-> "pass",
     schema_version_supported      |-> SchemaVersionSupported(r),
     witness_size_bounded          |-> WitnessSizeBounded(r),
     signature_valid               |-> SignatureValid(r),
     task_id_matches_spec          |-> TaskIdMatchesSpec(r, ctx),
     task_name_matches_spec        |-> TaskNameMatchesSpec(r, ctx),
     fixture_known                 |-> FixtureKnown(r),
     witness_recheck               |-> WitnessRecheck(r, ctx),
     output_digest_matches_witness |-> OutputDigestMatchesWitness(r),
     independent_reexecution       |-> IndependentReexecution(r, ctx),
     no_duplicate_completion       |-> NoDuplicateCompletion(r, ctx),
     nonce_unseen                  |-> NonceUnseen(r, ctx),
     lease_epoch_current           |-> LeaseEpochCurrent(r, ctx),
     within_deadline               |-> WithinDeadline(r),
     timestamps_ordered            |-> TimestampsOrdered(r),
     not_from_the_future           |-> NotFromTheFuture(r, ctx),
     prev_ledger_hash_matches      |-> PrevLedgerHashMatches(r, ctx),
     success_has_witness           |-> SuccessHasWitness(r)]

(* A receipt that does not parse gets a report of one check. *)
VerifyReceipt(raw, ctx) ==
    LET r == ParseReceipt(raw)
    IN  IF r = ParseError THEN [schema_parseable |-> "fail"] ELSE Report(r, ctx)

(* VerdictReport.ok and VerdictReport.failed() *)
Ok(report) == \A c \in DOMAIN report : report[c] # "fail"
Failed(report) == {c \in DOMAIN report : report[c] = "fail"}

(* verify_receipt returns (it does not raise) for a receipt that parses to *)
(* r, and its report is ok.                                                *)
Accepted(r, ctx) == ~ Raises(r, ctx) /\ Ok(Report(r, ctx))
=============================================================================
