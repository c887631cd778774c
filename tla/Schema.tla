------------------------------- MODULE Schema --------------------------------
(***************************************************************************)
(* The objects of src/detects/schema.py and what they are made of: task    *)
(* ids, witnesses, signatures, receipts, and parse_receipt, which turns    *)
(* whatever arrives into a receipt or refuses it.                          *)
(*                                                                         *)
(* Digests and signatures are terms: a digest is injective and only the    *)
(* key of a worker makes that worker's signatures.  Of a receipt's fields, *)
(* run_id, attempt, detail and postconditions are left out: nothing reads  *)
(* them.                                                                   *)
(***************************************************************************)
EXTENDS Integers, Sequences, FiniteSets

CONSTANTS
    Null,           \* JSON null / Python None
    Raised,         \* "this call raises an exception"
    ParseError      \* parse_receipt raises DetectsParseError

-----------------------------------------------------------------------------
(* How often each item occurs in a sequence: what is left of a list once   *)
(* it has been sorted.                                                     *)
Multiset(seq) == [x \in {seq[i] : i \in DOMAIN seq} |->
                      Cardinality({i \in DOMAIN seq : seq[i] = x})]

(* The content address of a task spec; the order in which postconditions   *)
(* are declared does not matter.                                           *)
TaskIdFor(spec) == [name     |-> spec.name,
                    inputs   |-> spec.inputs,
                    declared |-> Multiset(spec.declared_postconditions)]

(* digest() of a result: an injective term. *)
ResultDigest(output) == <<"sha256", output>>

(* A witness is {} or {"claimed_output": o}. *)
NoWitness == << >>
WitnessOf(output) == <<output>>
ClaimedOutput(witness) == IF witness = NoWitness THEN Null ELSE witness[1]

(* What describes the run but not its result left unsigned (mutant of      *)
(* SigningPayload).                                                        *)
SigningResult(r) == [f \in DOMAIN r \ {"signature", "runtime", "started_at"} |-> r[f]]

SigningPayload(r) == [f \in DOMAIN r \ {"signature"} |-> r[f]]

Sign(key, payload) == [key |-> key, payload |-> payload]

VerifySig(worker_id, payload, signature) == signature = Sign(worker_id, payload)

-----------------------------------------------------------------------------
(* What the worker says about its own code and machine; no check reads it. *)
RuntimeFingerprint == "code, python, platform, registry"

(* The receipt of worker w's finished run before it is signed: res is what *)
(* execute() returned, id stands for the two identifiers drawn for it, and *)
(* head is the ledger head w saw.                                          *)
ReceiptBody(w, run, deadline_at, res, id, head) ==
    LET success == res.outcome = "success"
    IN  [schema_version   |-> "1.0",
         receipt_id       |-> id,
         task_id          |-> TaskIdFor(run.spec),
         task_name        |-> run.spec.name,
         lease_epoch      |-> run.lease_epoch,
         worker_id        |-> w,
         runtime          |-> RuntimeFingerprint,
         outcome          |-> res.outcome,
         output_digest    |-> IF success THEN ResultDigest(res.output) ELSE Null,
         witness          |-> IF success THEN WitnessOf(res.output) ELSE NoWitness,
         started_at       |-> run.started_at,
         finished_at      |-> res.finished_at,
         deadline_at      |-> deadline_at,
         nonce            |-> id,
         prev_ledger_hash |-> head]

Signed(w, body) ==
    [f \in DOMAIN body \cup {"signature"} |->
        IF f = "signature" THEN Sign(w, SigningPayload(body)) ELSE body[f]]

-----------------------------------------------------------------------------
Required == {"schema_version", "receipt_id", "task_id", "task_name",
             "lease_epoch", "worker_id", "runtime", "outcome",
             "output_digest", "witness", "started_at", "finished_at",
             "deadline_at", "nonce", "prev_ledger_hash"}

Numbers == {"lease_epoch", "started_at", "finished_at", "deadline_at"}

Outcomes == {"success", "failure", "timeout"}

(* Input is not UTF-8, not JSON, not an object, or an object whose fields  *)
(* are each written exactly as the schema has them, as a number in text    *)
(* ("1" for 1), or as something of another type.                           *)
Raw(form, fields) == [form |-> form, fields |-> fields]
Field(written, value) == [written |-> written, value |-> value]

Encoded(r) == Raw("object", [f \in DOMAIN r |-> Field("exact", r[f])])

(* The model forbids unknown fields, requires all but the signature, and   *)
(* accepts the text of a number for the number: what it returns does not   *)
(* show how it was written.                                                *)
WellFormed(raw) ==
    /\ raw.form = "object"
    /\ Required \subseteq DOMAIN raw.fields
    /\ DOMAIN raw.fields \subseteq Required \cup {"signature"}
    /\ \A f \in DOMAIN raw.fields :
          \/ raw.fields[f].written = "exact"
          \/ raw.fields[f].written = "text" /\ f \in Numbers
    /\ raw.fields["outcome"].value \in Outcomes

ParseReceipt(raw) ==
    IF WellFormed(raw)
    THEN [f \in Required \cup {"signature"} |->
             IF f \in DOMAIN raw.fields THEN raw.fields[f].value ELSE Null]
    ELSE ParseError
=============================================================================
