------------------------------ MODULE Adversary ------------------------------
(***************************************************************************)
(* The bundled scenarios of src/detects/adversary.py and the scoreboard    *)
(* (scoreboard.py) that compares each of them with its documentation: a    *)
(* receipt is made by the real harness, something happens to it or around  *)
(* it, and the verifier judges it.                                         *)
(*                                                                         *)
(* The calls of examples/quickstart.py are scenarios, too.                 *)
(*                                                                         *)
(* Every scenario starts with a harness, a lease manager, a ledger and a   *)
(* ManualClock of its own: Detects, with worker W and another worker V.    *)
(* Besides the scenarios, any one field of the receipt may be rewritten    *)
(* without signing it again.                                               *)
(***************************************************************************)
EXTENDS Detects

CONSTANTS
    W, V,           \* the worker of the scenario, and another one
    NoReceipt,      \* no receipt was made yet
    NoVerdict,      \* nothing was judged yet
    PaddedWitness   \* {"claimed_output": 15, "pad": "AAA..."}

ASSUME WorkersAssumption == {W, V} \subseteq Workers /\ W # V

VARIABLES
    row,            \* the scenario: its place in Rows
    todo,           \* the calls still to be made before the receipt is presented
    receipt,        \* the last receipt execute_and_sign returned
    presented,      \* what the verifier was given, and whether by the scenario
    report          \* what it said

advVars == <<vars, row, todo, receipt, presented, report>>

-----------------------------------------------------------------------------
IntValue(n) == <<"int", n>>
IntList(seq) == <<"list", [i \in DOMAIN seq |-> IntValue(seq[i])]>>

TaskOf(name, inputs, postconditions) ==
    [name |-> name, inputs |-> inputs, declared_postconditions |-> postconditions]

Sum(n) == TaskOf("sum_range", [k \in {"n"} |-> IntValue(n)], <<"output_equals_closed_form">>)

Sort5391 == TaskOf("sort_list", [k \in {"items"} |-> IntList(<<5, 3, 9, 1>>)],
                   <<"is_permutation", "is_ordered">>)

Sort93713 == TaskOf("sort_list", [k \in {"items"} |-> IntList(<<9, 3, 7, 1, 3>>)],
                    <<"is_permutation", "is_ordered">>)

Prime10 == TaskOf("nth_prime", [k \in {"n"} |-> IntValue(10)], <<"output_is_prime">>)

Slow10 == TaskOf("slow_task", [k \in {"n"} |-> IntValue(10)], <<"output_equals_closed_form">>)

(* A receipt presented as it was signed, with the ledger's head, for the   *)
(* task it was made for; Null for a scenario that is to be accepted.       *)
Scenario(spec, expected_check) ==
    [spec |-> spec, assigned |-> spec, steps |-> <<"execute">>,
     edit |-> << >>, resigned |-> FALSE, form |-> "object", missing |-> {},
     lacks |-> {}, expected_check |-> expected_check]

(* A success that claims another output, signed again. *)
Claiming(scenario, witness) ==
    [scenario EXCEPT
        !.resigned = TRUE,
        !.edit = [f \in {"outcome", "witness", "output_digest"} |->
                     CASE f = "outcome" -> "success"
                       [] f = "witness" -> witness
                       [] f = "output_digest" -> ResultDigest(ClaimedOutput(witness))]]

(* Good receipts at the wrong time. *)
replay_receipt ==
    [Scenario(Sum(10), "nonce_unseen") EXCEPT !.steps = <<"execute", "submit">>]

duplicate_completion ==
    [Scenario(Sum(100), "no_duplicate_completion")
        EXCEPT !.steps = <<"execute", "submit", "execute">>]

stale_ownership ==
    [Scenario(Sum(7), "lease_epoch_current")
        EXCEPT !.steps = <<"execute", "expire", "claim">>]

(* Evidence that does not hold. *)
broken_signature ==
    [Scenario(Sum(5), "signature_valid")
        EXCEPT !.edit = [f \in {"signature"} |-> Sign(Nobody, << >>)]]

tampered_after_signing ==
    [Scenario(Sum(5), "signature_valid")
        EXCEPT !.edit = [f \in {"output_digest"} |-> ResultDigest(IntValue(0))]]

fabricated_witness ==
    Claiming(Scenario(Sort5391, "witness_recheck"), WitnessOf(IntList(<<1, 3, 9, 5>>)))

task_substitution ==
    [Scenario(Sum(1), "task_id_matches_spec") EXCEPT !.assigned = Sum(50)]

(* Input that is not a receipt of this schema; no head is supplied. *)
truncated_json ==
    [Scenario(Sum(5), "schema_parseable") EXCEPT !.form = "not JSON", !.lacks = {"head"}]

missing_field ==
    [Scenario(Sum(5), "schema_parseable") EXCEPT !.missing = {"worker_id"}, !.lacks = {"head"}]

unsupported_schema_version ==
    [Scenario(Sum(5), "schema_version_supported")
        EXCEPT !.edit = [f \in {"schema_version"} |-> "0.0"],
               !.resigned = TRUE, !.lacks = {"head"}]

proof_bomb ==
    [Claiming(Scenario(Sum(5), "witness_size_bounded"), PaddedWitness)
        EXCEPT !.lacks = {"head"}]

(* Claims of a worker with a key: a success that is late, a wrong prime. *)
late_success_after_timeout ==
    LET claiming == Claiming(Scenario(Slow10, "within_deadline"), WitnessOf(IntValue(55)))
        edit == claiming.edit
    IN  [claiming EXCEPT !.edit = [f \in DOMAIN edit \cup {"finished_at"} |->
                                      IF f = "finished_at" THEN Deadline + 5 ELSE edit[f]]]

signed_wrong_prime ==
    Claiming(Scenario(Prime10, "independent_reexecution"), WitnessOf(IntValue(7)))

(* What detects does not reject, by design. *)
honest_but_unsound_process == Scenario(Sum(100), Null)

forged_runtime_fingerprint ==
    [Scenario(Sum(100), Null)
        EXCEPT !.edit = [f \in {"runtime"} |-> "a trusted enclave"], !.resigned = TRUE]

ATTACKS ==
    <<replay_receipt, duplicate_completion, stale_ownership, broken_signature,
      tampered_after_signing, fabricated_witness, task_substitution, truncated_json,
      missing_field, unsupported_schema_version, proof_bomb, late_success_after_timeout,
      signed_wrong_prime, honest_but_unsound_process, forged_runtime_fingerprint>>

(* The other calls of examples/quickstart.py: a tampered copy of a receipt *)
(* that was submitted, and the wrong prime without and with re-execution.  *)
tampered_copy ==
    [Scenario(Sort93713, "witness_recheck")
        EXCEPT !.steps = <<"execute", "submit">>,
               !.edit = [f \in {"witness"} |-> WitnessOf(IntList(<<9, 3, 7, 1, 3>>))],
               !.resigned = TRUE, !.lacks = {"head", "reexecutor"}]

prime_rechecked ==
    [Claiming(Scenario(Prime10, Null), WitnessOf(IntValue(7)))
        EXCEPT !.lacks = {"ledger", "leases", "head", "reexecutor"}]

prime_reexecuted ==
    [signed_wrong_prime EXCEPT !.lacks = {"ledger", "leases", "head"}]

Quickstart == <<tampered_copy, prime_rechecked, prime_reexecuted>>

Rows == ATTACKS \o Quickstart

AllSpecs == {Rows[i].spec : i \in DOMAIN Rows}
            \cup {Rows[i].assigned : i \in DOMAIN Rows}

(* What the scenarios rest on: an honest worker W, the schema version of   *)
(* this code, and witnesses of the usual size.                             *)
ASSUME ScenariosAssumption ==
    /\ AllSpecs \subseteq Specs /\ W \notin BuggyWorkers
    /\ "1.0" \in SupportedVersions /\ "0.0" \notin SupportedVersions /\ FloatMax >= 7
    /\ PaddedWitness \in Oversized
    /\ NoWitness \notin Oversized
    /\ \A output \in Claims : WitnessOf(output) \notin Oversized
    /\ {IntValue(7), IntValue(55), IntList(<<1, 3, 9, 5>>), IntList(<<9, 3, 7, 1, 3>>)}
          \subseteq Claims

-----------------------------------------------------------------------------
AdvInit == /\ Init
           /\ row = 1
           /\ todo = Rows[row].steps
           /\ receipt = NoReceipt
           /\ presented = NoReceipt
           /\ report = NoVerdict

Calls(call) == todo # << >> /\ Head(todo) = call

(* h.execute_and_sign, on a machine that is fast enough for every fixture  *)
(* but slow_task.                                                          *)
StartsRun == /\ Calls("execute")
             /\ StartRun(W, Rows[row].spec)
             /\ UNCHANGED <<row, todo, receipt, presented, report>>

UsualOutcome == IF Rows[row].spec.name = "slow_task" THEN "timeout" ELSE "success"

EndsRun == /\ run[W] # NoRun
           /\ \E res \in ExecResults(W) :
                 /\ res.outcome = UsualOutcome
                 /\ FinishRun(W, res)
                 /\ receipt' = Signed(W, Body(W, res))
           /\ todo' = Tail(todo)
           /\ UNCHANGED <<row, presented, report>>

Submits == /\ Calls("submit")
           /\ Submit(receipt, Rows[row].spec)
           /\ todo' = Tail(todo)
           /\ UNCHANGED <<row, receipt, presented, report>>

(* clock.advance() past the lease, and another worker's claim. *)
Expires == /\ Calls("expire")
           /\ clock' = clock + 2 * Ttl
           /\ todo' = Tail(todo)
           /\ UNCHANGED <<leases, max_epoch, entries, run, wire, signed, restarts,
                          row, receipt, presented, report>>

OtherClaims == /\ Calls("claim")
               /\ Claim(receipt.task_id, V, Ttl, clock)
               /\ todo' = Tail(todo)
               /\ UNCHANGED <<clock, entries, run, wire, signed, restarts,
                              row, receipt, presented, report>>

(* What becomes of the receipt on its way to the verifier. *)
Edited(s, r) == [f \in DOMAIN r |-> IF f \in DOMAIN s.edit THEN s.edit[f] ELSE r[f]]

Resigned(s, r) == IF s.resigned THEN Signed(W, SigningPayload(r)) ELSE r

Presented(s, r) ==
    LET raw == Encoded(Resigned(s, Edited(s, r)))
    IN  Raw(s.form, [f \in DOMAIN raw.fields \ s.missing |-> raw.fields[f]])

(* _verify and the calls of verify_receipt: always with a reexecutor. *)
RowContext(s) ==
    [SubmissionContext(s.assigned) EXCEPT
        !.given = (@ \cup {"reexecutor"}) \ s.lacks]

Judged(raw, ctx) ==
    LET r == ParseReceipt(raw)
    IN  IF r # ParseError /\ Raises(r, ctx) THEN Raised ELSE VerifyReceipt(raw, ctx)

Presents == LET s == Rows[row]
                raw == Presented(s, receipt)
            IN  /\ todo = << >> /\ report = NoVerdict
                /\ presented' = [raw |-> raw, changed |-> FALSE]
                /\ report' = Judged(raw, RowContext(s))
                /\ UNCHANGED <<vars, row, todo, receipt>>

(* Another value for a field of receipt r, of the field's type. *)
Another(r, f) ==
    CASE f \in {"lease_epoch", "receipt_id", "nonce"} -> {r[f] + 1, 1}
      [] f \in {"started_at", "finished_at", "deadline_at"} -> {r[f] + 1, 0}
      [] f = "outcome" -> Outcomes
      [] f = "worker_id" -> {W, V}
      [] f = "task_id" -> {TaskIdFor(s) : s \in AllSpecs}
      [] f = "task_name" -> {s.name : s \in AllSpecs} \cup {"unheard_of"}
      [] f = "witness" -> {NoWitness, WitnessOf(IntValue(7))}
      [] f = "output_digest" -> {Null, ResultDigest(IntValue(7))}
      [] f = "prev_ledger_hash" -> {GENESIS, HeadHash(entries)}
      [] f = "signature" -> {Null, Sign(V, SigningPayload(r))}
      [] OTHER -> {"0.0"}

(* One field of the receipt rewritten, left out, or its number written as  *)
(* text, and nothing signed again.                                         *)
Changes(f) ==
    LET s == Rows[row]
        fields == Encoded(receipt).fields
        Raws == {Raw("object", [fields EXCEPT ![f] = Field("exact", v)]) :
                    v \in Another(receipt, f)}
                \cup {Raw("object", [fields EXCEPT ![f] = Field("text", receipt[f])]),
                      Raw("object", [g \in DOMAIN fields \ {f} |-> fields[g]])}
    IN  /\ todo = << >> /\ report = NoVerdict
        /\ \E raw \in Raws : /\ presented' = [raw |-> raw, changed |-> TRUE]
                             /\ report' = Judged(raw, RowContext(s))
        /\ UNCHANGED <<vars, row, todo, receipt>>

(* run_all: the next scenario, in an environment of its own; the table may *)
(* be made again.                                                          *)
NextScenario ==
    /\ report # NoVerdict
    /\ row' = (row % Len(Rows)) + 1
    /\ todo' = Rows[row'].steps
    /\ receipt' = NoReceipt /\ presented' = NoReceipt /\ report' = NoVerdict
    /\ leases' = [t \in Tasks |-> NoLease] /\ max_epoch' = [t \in Tasks |-> 0]
    /\ clock' = 0 /\ entries' = << >> /\ run' = [w \in Workers |-> NoRun]
    /\ wire' = {} /\ signed' = 0 /\ restarts' = 0

AdvNext == \/ StartsRun \/ EndsRun \/ Submits \/ Expires \/ OtherClaims
           \/ Presents \/ NextScenario
           \/ \E f \in Required \cup {"signature"} : Changes(f)

AdvSpec == AdvInit /\ [][AdvNext]_advVars

-----------------------------------------------------------------------------
(* The order in which the checks are made and reported. *)
CheckOrder ==
    <<"schema_parseable", "schema_version_supported", "witness_size_bounded",
      "signature_valid", "task_id_matches_spec", "task_name_matches_spec",
      "fixture_known", "witness_recheck", "output_digest_matches_witness",
      "independent_reexecution", "no_duplicate_completion", "nonce_unseen",
      "lease_epoch_current", "within_deadline", "timestamps_ordered",
      "not_from_the_future", "prev_ledger_hash_matches", "success_has_witness">>

(* The reason the table gives: the first check that failed. *)
Reason(verdict) ==
    CheckOrder[CHOOSE i \in DOMAIN CheckOrder :
                  /\ CheckOrder[i] \in Failed(verdict)
                  /\ \A j \in 1..(i - 1) : CheckOrder[j] \notin Failed(verdict)]

(* _row_ok *)
RowOk(s, verdict) == /\ Ok(verdict) <=> s.expected_check = Null
                     /\ s.expected_check # Null => s.expected_check \in Failed(verdict)

AsDocumented(s, verdict) ==
    /\ verdict # Raised
    /\ RowOk(s, verdict)
    /\ s.expected_check # Null => Reason(verdict) = s.expected_check

(* "The bundled adversary must behave exactly as its documentation says"   *)
(* (tests/test_scoreboard.py:1-3), and the reason shown for a refusal is   *)
(* the check the scenario is there for.                                    *)
RowsMatch ==
    (report # NoVerdict /\ ~ presented.changed) => AsDocumented(Rows[row], report)

(* "The signature no longer covers the body": if any one field of a receipt *)
(* is not as it was signed, whatever the field, the receipt is not accepted; *)
(* one that is still means the same.                                       *)
UnsignedChangeRejected ==
    (report # NoVerdict /\ presented.changed /\ report # Raised)
        => (Ok(report) => ParseReceipt(presented.raw) = receipt)

-----------------------------------------------------------------------------
(* The inductive invariant HarnessProofs proves this from. *)

(* The receipt is the one worker W signed. *)
SignedByW(r) == /\ r = [f \in Required \cup {"signature"} |-> r[f]]
                /\ r.worker_id = W
                /\ r.signature = Sign(W, SigningPayload(r))

(* There is a receipt of the worker's before anything else is done with    *)
(* it, and nothing happens to it once the verifier has said what it says.  *)
ReceiptFirst == /\ row \in DOMAIN Rows
                /\ DOMAIN run = Workers
                /\ run[W] # NoRun => Calls("execute")
                /\ report # NoVerdict => todo = << >>
                /\ Calls("execute") \/ SignedByW(receipt)

AdvInvariant == ReceiptFirst /\ UnsignedChangeRejected

(* What W signs at the end of its id-th run, over a ledger with this head. *)
RunReceipt(r, id, head) ==
    LET spec == Rows[row].spec
        result == RunResult[spec.name, spec.inputs]
    IN  /\ SignedByW(r)
        /\ r.schema_version = "1.0"
        /\ r.receipt_id = id /\ r.nonce = id /\ r.prev_ledger_hash = head
        /\ r.task_id = TaskIdFor(spec) /\ r.task_name = spec.name
        /\ spec.name \in Registered
        /\ r.lease_epoch \in Nat \ {0}
        /\ r.started_at = 0 /\ r.deadline_at = Deadline
        /\ r.outcome = UsualOutcome
        /\ r.outcome = "success" => /\ result # Raised
                                    /\ r.witness = WitnessOf(result)
                                    /\ r.output_digest = ResultDigest(result)
                                    /\ r.finished_at = 0

(* W has the scenario's task, under this token. *)
HoldsTask(epoch) == LET t == TaskIdFor(Rows[row].spec)
                    IN  max_epoch[t] = epoch /\ Holder(t) = W

MayRun == /\ clock = 0
          /\ run[W] # NoRun => /\ run[W].spec = Rows[row].spec
                               /\ run[W].spec.name \in Registered
                               /\ run[W].started_at = 0
                               /\ run[W].lease_epoch \in Nat \ {0}
                               /\ HoldsTask(run[W].lease_epoch)

(* How far the calls of the scenario have got, and what they have left. *)
Steps == Rows[row].steps

NotRun == todo = Steps /\ entries = << >> /\ signed = 0 /\ MayRun

FirstReceipt == RunReceipt(receipt, 1, GENESIS) /\ signed = 1

HasRun == /\ todo = Tail(Steps) /\ entries = << >> /\ clock = 0
          /\ FirstReceipt /\ HoldsTask(receipt.lease_epoch)

LogOf(r) == <<NewEntry(<< >>, r, r.nonce)>>

HasSubmitted == /\ Len(Steps) > 1 /\ Steps[2] = "submit" /\ todo = Tail(Tail(Steps))
                /\ entries = LogOf(receipt)
                /\ FirstReceipt /\ MayRun

HasRunAgain == /\ Steps = <<"execute", "submit", "execute">> /\ todo = << >> /\ clock = 0
               /\ LET r == entries[1].receipt
                  IN  RunReceipt(r, 1, GENESIS) /\ entries = LogOf(r)
               /\ RunReceipt(receipt, 2, HeadHash(entries))

LeftTime == /\ Steps = <<"execute", "expire", "claim">> /\ todo = <<"claim">>
            /\ entries = << >> /\ clock = 2 * Ttl
            /\ FirstReceipt /\ HoldsTask(receipt.lease_epoch)

Superseded == /\ Steps = <<"execute", "expire", "claim">> /\ todo = << >>
              /\ entries = << >>
              /\ FirstReceipt /\ receipt.lease_epoch # max_epoch[receipt.task_id]

Progress == NotRun \/ HasRun \/ HasSubmitted \/ HasRunAgain \/ LeftTime \/ Superseded

RowsInvariant == AdvInvariant /\ LeaseTypeOK /\ LeasesMatchEpochs /\ Progress /\ RowsMatch
=============================================================================
