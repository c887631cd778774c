------------------------------- MODULE Reexec --------------------------------
(***************************************************************************)
(* Checking a claimed output: the fixture's own check_witness(), and       *)
(* independent re-execution (src/detects/reexec.py), in this process or in *)
(* a child process with a timeout.                                         *)
(*                                                                         *)
(* Two actors: the verifier that called the reexecutor, and the child it   *)
(* starts, which may be slow, be killed from outside, or print something   *)
(* that is not a result.  What the code catches is an outcome "error";     *)
(* what it does not catch leaves the reexecutor, and verify_receipt with   *)
(* it, without an outcome.                                                 *)
(***************************************************************************)
EXTENDS Fixtures

CONSTANTS
    Cases,      \* [name, inputs, claim]: the claims to be checked
    Attempts,   \* bound: the attempts after which a claim may have been made
    Timeout,    \* timeout_s
    MaxTime,    \* bound: elapsed time
    NoOutcome

ASSUME TimesAssumption == Timeout \in Nat /\ MaxTime \in Nat /\ Timeout <= MaxTime

ASSUME CasesAssumption ==
    \A c \in Cases : Value(c.claim) /\ Values(c.inputs)

ASSUME ClaimsAssumption == \A c \in Cases : c.claim # Raised

VARIABLES
    case,       \* what is being checked
    isolated,   \* SubprocessReexecutor, not InProcessReexecutor
    work,       \* how long the fixture runs, at least
    pc,         \* where the reexecutor is
    child,      \* the child process
    elapsed,    \* time since the fixture or the child was started
    outcome     \* the ReexecOutcome

vars == <<case, isolated, work, pc, child, elapsed, outcome>>

OutcomeOf(status, output_digest) == [status |-> status, output_digest |-> output_digest]

(* One run of the fixture, in either process. *)
Result == RunFixture(case.name, case.inputs, 1)

RunOutcome == IF Result = Raised THEN OutcomeOf("error", Null)
              ELSE OutcomeOf("ok", ResultDigest(Result))

(* How a child ends: with the digest of what it computed; with an exit     *)
(* code; with an output that is not JSON; or with JSON that has no digest  *)
(* in it, or bytes that are not text.                                      *)
Ended == {"done", "failed", "garbled", "misread"}

TypeOK == /\ case \in Cases /\ isolated \in BOOLEAN /\ work \in 0..MaxTime
          /\ pc \in {"called", "running", "waiting", "returned", "raised"}
          /\ child \in {"none", "running", "killed"} \cup Ended
          /\ elapsed \in 0..MaxTime
          /\ IF pc # "returned" THEN outcome = NoOutcome
             ELSE outcome \in {RunOutcome, OutcomeOf("error", Null),
                               OutcomeOf("nondeterministic", Null)}

Init == /\ case \in Cases
        /\ isolated \in BOOLEAN
        /\ work \in 0..MaxTime
        /\ pc = "called"
        /\ child = "none"
        /\ elapsed = 0
        /\ outcome = NoOutcome

-----------------------------------------------------------------------------
Return(res) == /\ pc' = "returned"
               /\ outcome' = res
               /\ UNCHANGED <<case, isolated, work, elapsed>>

(* The test for determinism left out (mutant of Refused). *)
RefusedUnknown == case.name \notin Registry

(* _guard: only a registered fixture that can be repeated is run again. *)
Refused == case.name \notin Registry \/ case.name \notin Repeatable

Refuse == /\ pc = "called"
          /\ Refused
          /\ Return(OutcomeOf(IF case.name \in Registry THEN "nondeterministic" ELSE "error",
                              Null))
          /\ UNCHANGED child

(* InProcessReexecutor: runs the fixture here, for as long as it takes. *)
Run == /\ pc = "called" /\ ~ Refused /\ ~ isolated
       /\ pc' = "running"
       /\ UNCHANGED <<case, isolated, work, child, elapsed, outcome>>

RunEnds == /\ pc = "running"
           /\ elapsed >= work
           /\ Return(RunOutcome)
           /\ UNCHANGED child

(* SubprocessReexecutor: starts the child and waits for it. *)
Spawn == /\ pc = "called" /\ ~ Refused /\ isolated
         /\ pc' = "waiting"
         /\ child' = "running"
         /\ UNCHANGED <<case, isolated, work, elapsed, outcome>>

(* The child cannot be started: an OSError nothing catches. *)
SpawnRaises == /\ pc = "called" /\ ~ Refused /\ isolated
               /\ pc' = "raised"
               /\ UNCHANGED <<case, isolated, work, child, elapsed, outcome>>

(* _main: the child prints the digest of what it computed, or exits with   *)
(* an error if that raised.                                                *)
ChildEnds == /\ child = "running"
             /\ elapsed >= work
             /\ child' = IF Result = Raised THEN "failed" ELSE "done"
             /\ UNCHANGED <<case, isolated, work, pc, elapsed, outcome>>

(* The child is killed from outside, or prints something else. *)
ChildFails == /\ child = "running"
              /\ child' \in Ended \ {"done"}
              /\ UNCHANGED <<case, isolated, work, pc, elapsed, outcome>>

(* Giving up on the child without killing it (mutant of TimesOut). *)
TimesOutOnly == /\ pc = "waiting"
                /\ elapsed >= Timeout
                /\ Return(OutcomeOf("error", Null))
                /\ UNCHANGED child

(* Waiting for the child to end before giving up on it (mutant of TimesOut). *)
TimesOutAfterChild == /\ pc = "waiting"
                      /\ elapsed >= Timeout
                      /\ child # "running"
                      /\ Return(OutcomeOf("error", Null))
                      /\ UNCHANGED child

(* The wait runs out, perhaps just when the child is done: subprocess.run  *)
(* kills it before it raises TimeoutExpired.                               *)
TimesOut == /\ pc = "waiting"
            /\ elapsed >= Timeout
            /\ Return(OutcomeOf("error", Null))
            /\ child' = IF child = "running" THEN "killed" ELSE child

(* The answer of a child that failed is taken, too (mutant of Collect). *)
CollectAny == /\ pc = "waiting"
              /\ child \in Ended \ {"misread"}
              /\ Return(OutcomeOf("ok", Null))
              /\ UNCHANGED child

(* The child ended within the time: its return code, then its output. *)
Collect == /\ pc = "waiting"
           /\ child \in Ended \ {"misread"}
           /\ Return(IF child = "done" THEN OutcomeOf("ok", ResultDigest(Result))
                     ELSE OutcomeOf("error", Null))
           /\ UNCHANGED child

(* Bytes that are no text are an error inside subprocess.run(), JSON       *)
(* without output_digest one behind the try: neither is caught.            *)
CollectRaises == /\ pc = "waiting"
                 /\ child = "misread"
                 /\ pc' = "raised"
                 /\ UNCHANGED <<case, isolated, work, child, elapsed, outcome>>

Tick == /\ pc \in {"running", "waiting"} /\ elapsed < MaxTime
        /\ elapsed' = elapsed + 1
        /\ UNCHANGED <<case, isolated, work, pc, child, outcome>>

Verifier == \/ Refuse \/ Run \/ RunEnds
            \/ Spawn \/ SpawnRaises \/ TimesOut \/ Collect \/ CollectRaises

Next == Verifier \/ ChildEnds \/ ChildFails \/ Tick

Spec == Init /\ [][Next]_vars

(* Time goes on and the verifier is scheduled; nothing is assumed of the   *)
(* child.                                                                  *)
FairSpec == Spec /\ WF_vars(Verifier) /\ WF_vars(Tick)

-----------------------------------------------------------------------------
Witness == CheckWitness(case.name, case.inputs, case.claim)

(* Any run that ends will do (mutant of Verdict). *)
VerdictRuns == IF outcome.status = "nondeterministic" THEN "skip"
               ELSE IF outcome.status = "ok" THEN "pass" ELSE "fail"

(* independent_reexecution in the report on a receipt with this claim. *)
Verdict == IF outcome.status = "nondeterministic" THEN "skip"
           ELSE IF /\ outcome.status = "ok"
                   /\ outcome.output_digest = ResultDigest(case.claim)
                THEN "pass" ELSE "fail"

Honest == \E attempt \in Attempts :
             case.claim = RunFixture(case.name, case.inputs, attempt)

Lost == isolated /\ (child \in {"failed", "garbled", "killed"} \/ elapsed >= Timeout)

NoUsableChild == isolated /\ child \in {"none", "misread"}

(* The output of run(), at whatever attempt, is the documented one; its    *)
(* receipt passes the fixture's check, and is not refused because of the   *)
(* re-execution unless a child was lost or too slow: a fixture that cannot *)
(* be repeated must not be ("nondeterministic ... skipped", reexec.py:22). *)
(* It is left without a verdict only if no child could be started, or one  *)
(* printed what is no result.                                              *)
HonestClaimStands ==
    Honest =>
        /\ Right(Itself, case.name, case.inputs, case.claim)
        /\ case.name = "nth_prime" =>
              Cardinality(PrimesUpTo(case.claim[2])) = IntOf(case.inputs["n"])
        /\ Witness = "pass"
        /\ pc = "returned" /\ ~ Lost => Verdict # "fail"
        /\ pc = "raised" => NoUsableChild

(* A claim the cheap check believes of a task that has a result is the     *)
(* documented one as far as Python's == and repr() see: the check of       *)
(* sort_list takes a text for the list it is the text of, the check of     *)
(* nth_prime any prime for the n-th.                                       *)
BelievedIsRight ==
    (Witness = "pass" /\ Result # Raised) => Right(HKey, case.name, case.inputs, case.claim)

(* A claim that passes re-execution is, type and all, what run() computes: *)
(* no timing, no dying child and no guess gets another one through.        *)
SettledClaimIsRight ==
    (pc = "returned" /\ Verdict = "pass") => case.claim = Result

(* When the call is over the child is gone: nothing goes on computing for  *)
(* a verdict that was given, or never will be.                             *)
NoChildLeft == pc \in {"returned", "raised"} => child # "running"

(* A re-execution in a child process ends, however long the fixture runs.  *)
Returns == isolated ~> pc \in {"returned", "raised"}

-----------------------------------------------------------------------------
(* Why: a child runs only while it is waited for, and is done only if the  *)
(* fixture returned.                                                       *)
ChildWaitedFor == /\ child = "running" => pc = "waiting"
                  /\ child = "done" => Result # Raised

(* And an outcome is that of a run, unless there was to be none, or the    *)
(* child that was to make it is lost.                                      *)
OutcomeFits ==
    /\ pc \in {"running", "waiting"} => ~ Refused
    /\ pc = "waiting" => isolated
    /\ pc = "called" => child = "none"
    /\ pc = "raised" => NoUsableChild
    /\ pc = "returned" =>
          \/ ~ Refused /\ outcome = RunOutcome
          \/ Refused /\ case.name \in Registry /\ outcome.status = "nondeterministic"
          \/ case.name \notin Registry
          \/ Lost

ReexecInvariant == TypeOK /\ ChildWaitedFor /\ OutcomeFits
=============================================================================
