------------------------------ MODULE Detects -------------------------------
(***************************************************************************)
(* The package with the fixtures it comes with (src/detects/__init__.py):  *)
(* Harness, to which a fixture is what it returns and which outputs its    *)
(* check accepts, over the run() and check_witness() of Fixtures.          *)
(***************************************************************************)
EXTENDS Harness, Fixtures

CONSTANTS
    Claims,         \* the outputs receipts claim; Null is none
    MaxAttempts     \* policy.max_attempts

(* get_fixture(name), on the inputs of any of the specs: verify_receipt    *)
(* takes the name from the receipt and the inputs from the spec.           *)
FixtureCalls == Registry \X {s.inputs : s \in Specs}

(* witness.get("claimed_output") *)
Claimed(output) == IF output = Null THEN <<"none", 0>> ELSE output

(* A run that is repeated until it returns returns what the last attempt   *)
(* would, if any attempt does.                                             *)
FixtureResults == [call \in FixtureCalls |-> RunFixture(call[1], call[2], MaxAttempts)]

Answered(call, answer) ==
    {output \in Claims : CheckWitness(call[1], call[2], Claimed(output)) = answer}

FixtureBelieved == [call \in FixtureCalls |-> Answered(call, "pass")]
FixtureRaisesOn == [call \in FixtureCalls |-> Answered(call, Raised)]

ASSUME FixturesAssumption == /\ Registered = Registry
                             /\ Deterministic = Repeatable
                             /\ RunResult = FixtureResults
                             /\ Believed = FixtureBelieved
                             /\ RaisesOn = FixtureRaisesOn

(* Inputs and claims are values, and what run() returns may be claimed. *)
ASSUME ValuesAssumption ==
    /\ \A s \in Specs : Values(s.inputs)
    /\ \A output \in Claims : Value(Claimed(output))
    /\ \A s \in Specs : s.name \in Registry =>
          RunResult[s.name, s.inputs] \in (Claims \ {Null}) \cup {Raised}

-----------------------------------------------------------------------------
(* What is recorded for a task is right: the claim of a success is what    *)
(* the fixture is documented to compute from the inputs in the task id, as *)
(* far as Python's == and repr() see, whatever workers claim and whichever *)
(* spec a receipt is submitted with, if the task has a result at all.      *)
(* With a reexecutor, a task that can be repeated has one, and it is that  *)
(* very one: not a number of another type, not another prime.              *)
RecordedIsDocumented ==
    \A i \in DOMAIN entries :
        LET r == Recorded(i)
            name == r.task_id.name
            inputs == r.task_id.inputs
            claim == Claimed(ClaimedOutput(r.witness))
        IN  r.outcome = "success" =>
                /\ RunResult[name, inputs] # Raised => Right(HKey, name, inputs, claim)
                /\ Reexecuting /\ name \in Repeatable =>
                      /\ Right(Itself, name, inputs, claim)
                      /\ name = "nth_prime" =>
                            Cardinality(PrimesUpTo(claim[2])) = IntOf(inputs["n"])
=============================================================================
