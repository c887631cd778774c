---------------------------- MODULE ReexecProofs -----------------------------
(***************************************************************************)
(* Proofs about Reexec, for any cases and times: the invariant of the      *)
(* re-execution, and what it and the checks make of a claim.               *)
(***************************************************************************)
EXTENDS Reexec, CommonProofs

(* The invariant holds at the start, when there is no child. *)
LEMMA InvariantInit == Init => ReexecInvariant
BY TimesAssumption DEF Init, ReexecInvariant, TypeOK, ChildWaitedFor, OutcomeFits, Ended

(* What is computed depends only on what does not change. *)
LEMMA ResultUnchanged ==
    ASSUME UNCHANGED case
    PROVE  Result' = Result /\ RunOutcome' = RunOutcome
BY DEF Result, RunOutcome, OutcomeOf

(* Every step of the verifier, the child and the clock keeps it: first     *)
(* what is known of the child, then what the outcome is.                   *)
LEMMA ChildStep ==
    TypeOK /\ ChildWaitedFor /\ [Next]_vars => TypeOK' /\ ChildWaitedFor'
<1> SUFFICES ASSUME TypeOK, ChildWaitedFor, [Next]_vars
             PROVE  TypeOK' /\ ChildWaitedFor'
    OBVIOUS
<1> USE TimesAssumption DEF TypeOK, ChildWaitedFor, Ended
<1>1. UNCHANGED case
  BY DEF Next, vars, Verifier, Refuse, Run, RunEnds, Spawn, SpawnRaises, TimesOut,
         Collect, CollectRaises, Return, ChildEnds, ChildFails, Tick
<1>2. Result' = Result /\ RunOutcome' = RunOutcome
  BY <1>1, ResultUnchanged
<1>3. CASE Refuse
  BY <1>2, <1>3 DEF Refuse, Return
<1>4. CASE Run
  BY <1>2, <1>4 DEF Run
<1>5. CASE RunEnds
  BY <1>2, <1>5 DEF RunEnds, Return
<1>6. CASE Spawn
  BY <1>2, <1>6 DEF Spawn
<1>7. CASE TimesOut
  BY <1>2, <1>7 DEF TimesOut, Return
<1>8. CASE Collect
  <2>1. child = "done" => RunOutcome = OutcomeOf("ok", ResultDigest(Result))
    BY DEF RunOutcome
  <2> QED
    BY <1>2, <1>8, <2>1 DEF Collect, Return
<1>9. CASE ChildEnds
  BY <1>2, <1>9 DEF ChildEnds
<1>10. CASE ChildFails
  BY <1>2, <1>10 DEF ChildFails
<1>11. CASE Tick
  BY <1>2, <1>11 DEF Tick
<1>12. CASE UNCHANGED vars
  BY <1>2, <1>12 DEF vars
<1>13. CASE SpawnRaises
  BY <1>2, <1>13 DEF SpawnRaises
<1>14. CASE CollectRaises
  BY <1>2, <1>14 DEF CollectRaises
<1> QED
  BY <1>3, <1>4, <1>5, <1>6, <1>7, <1>8, <1>9, <1>10, <1>11, <1>12, <1>13, <1>14
     DEF Next, Verifier

(* The outcome says what became of the evidence.                           *)
LEMMA OutcomeStep == ReexecInvariant /\ [Next]_vars => OutcomeFits'
<1> SUFFICES ASSUME TypeOK, ChildWaitedFor, OutcomeFits, [Next]_vars
             PROVE  OutcomeFits'
  BY DEF ReexecInvariant
<1>1. UNCHANGED case
  BY DEF Next, vars, Verifier, Refuse, Run, RunEnds, Spawn, SpawnRaises, TimesOut,
         Collect, CollectRaises, Return, ChildEnds, ChildFails, Tick
<1>2. Result' = Result /\ RunOutcome' = RunOutcome /\ Refused' = Refused
  BY <1>1, ResultUnchanged DEF Refused
<1>3. CASE Refuse
  <2>1. /\ pc' = "returned" /\ Refused
        /\ case.name \in Registry => outcome'.status = "nondeterministic"
    BY <1>3 DEF Refuse, Return, OutcomeOf
  <2> QED
    BY <1>1, <1>2, <2>1 DEF OutcomeFits
<1>4. CASE Run \/ Spawn
  BY <1>2, <1>4 DEF Run, Spawn, OutcomeFits
<1>5. CASE RunEnds
  <2>1. pc' = "returned" /\ outcome' = RunOutcome /\ ~ Refused
    BY <1>5 DEF RunEnds, Return, OutcomeFits
  <2> QED
    BY <1>2, <2>1 DEF OutcomeFits
<1>6. CASE TimesOut
  <2>1. /\ pc' = "returned" /\ isolated /\ isolated' = isolated
        /\ elapsed >= Timeout /\ elapsed' = elapsed
    BY <1>6 DEF TimesOut, Return, OutcomeFits
  <2> QED
    BY <2>1 DEF OutcomeFits, Lost
<1>7. CASE Collect
  <2>1. /\ pc' = "returned" /\ isolated /\ isolated' = isolated /\ ~ Refused
        /\ child \in {"done", "failed", "garbled"} /\ child' = child
    BY <1>7 DEF Collect, Return, OutcomeFits, Ended
  <2>2. child = "done" => outcome' = RunOutcome
    BY <1>7 DEF Collect, Return, ChildWaitedFor, RunOutcome
  <2> QED
    BY <1>2, <2>1, <2>2 DEF OutcomeFits, Lost
<1>8. CASE ChildEnds \/ ChildFails \/ Tick
  <2>1. /\ pc \in {"running", "waiting"} /\ pc' = pc /\ isolated' = isolated
    BY <1>8 DEF ChildEnds, ChildFails, Tick, ChildWaitedFor
  <2> QED
    BY <1>2, <2>1 DEF OutcomeFits
<1>9. CASE UNCHANGED vars
  BY <1>1, <1>2, <1>9 DEF vars, OutcomeFits, Lost, NoUsableChild
<1>10. CASE SpawnRaises \/ CollectRaises
  BY <1>10 DEF SpawnRaises, CollectRaises, OutcomeFits, NoUsableChild
<1> QED
  BY <1>3, <1>4, <1>5, <1>6, <1>7, <1>8, <1>9, <1>10 DEF Next, Verifier

(* Every step keeps the whole invariant.                                   *)
LEMMA InvariantStep == ReexecInvariant /\ [Next]_vars => ReexecInvariant'
BY ChildStep, OutcomeStep DEF ReexecInvariant

(* The invariant of a re-execution, whoever is scheduled when. *)
THEOREM InvariantAlways == Spec => []ReexecInvariant
BY InvariantInit, InvariantStep, PTL DEF Spec

(* Types of the reexecutor's and the child's state: a call that returned   *)
(* has an outcome of its run or none of any run, one that raised has none. *)
THEOREM TypeCorrect == Spec => []TypeOK
<1>1. ReexecInvariant => TypeOK
  BY DEF ReexecInvariant
<1> QED
  BY <1>1, InvariantAlways, PTL

(* No verdict leaves a child behind. *)
THEOREM NoChildLeftAlways == Spec => []NoChildLeft
<1>1. ReexecInvariant => NoChildLeft
  BY DEF ReexecInvariant, ChildWaitedFor, NoChildLeft
<1> QED
  BY <1>1, InvariantAlways, PTL

(* A claim that passes re-execution is what run() computes, whatever the   *)
(* fixtures are and however the child fares.                               *)
THEOREM SettledClaimIsRightAlways == Spec => []SettledClaimIsRight
<1>1. ReexecInvariant => SettledClaimIsRight
  <2> SUFFICES ASSUME ReexecInvariant, pc = "returned", Verdict = "pass"
               PROVE  case.claim = Result
    BY DEF SettledClaimIsRight
  <2>1. /\ outcome.status = "ok"
        /\ outcome.output_digest = ResultDigest(case.claim)
    BY DEF Verdict
  <2>2. outcome = RunOutcome
    BY <2>1 DEF ReexecInvariant, TypeOK, OutcomeOf
  <2>3. outcome.output_digest = ResultDigest(Result)
    BY <2>1, <2>2 DEF RunOutcome, OutcomeOf
  <2> QED
    BY <2>1, <2>3, DigestsDiffer
<1> QED
  BY <1>1, InvariantAlways, PTL

-----------------------------------------------------------------------------
(* What a fixture's cheap check accepts is what the fixture is documented  *)
(* to compute, for inputs and claims of any size: the closed form is the   *)
(* sum, neighbours in order and equal counts are a sort, distinct keys in  *)
(* first-seen order are the list without repetitions, and a number without *)
(* a divisor up to its root is a prime.                                    *)
THEOREM BelievedIsRightAlways == Spec => []BelievedIsRight
<1>1. ReexecInvariant => BelievedIsRight
  BY CasesAssumption, BelievedMeansRight
     DEF ReexecInvariant, TypeOK, BelievedIsRight, Witness, Result
<1> QED
  BY <1>1, InvariantAlways, PTL

(* The other way round: what run() returns, at whatever attempt, is the    *)
(* documented output and passes the check; nth_prime finds the n-th prime, *)
(* of which there always is one; and re-execution refuses none of it for   *)
(* any other reason than a child that is lost or too slow, or leaves it    *)
(* undecided for any other than a child that cannot be started or misread. *)
THEOREM HonestClaimStandsAlways == Spec => []HonestClaimStands
<1>1. ReexecInvariant => HonestClaimStands
  <2> SUFFICES ASSUME ReexecInvariant, Honest
               PROVE  /\ Right(Itself, case.name, case.inputs, case.claim)
                      /\ case.name = "nth_prime" =>
                            Cardinality(PrimesUpTo(case.claim[2])) = IntOf(case.inputs["n"])
                      /\ Witness = "pass"
                      /\ pc = "returned" /\ ~ Lost => Verdict # "fail"
                      /\ pc = "raised" => NoUsableChild
    BY DEF HonestClaimStands
  <2>1. case \in Cases /\ Values(case.inputs) /\ case.claim # Raised
    BY CasesAssumption, ClaimsAssumption DEF ReexecInvariant, TypeOK
  <2>2. PICK attempt : case.claim = RunFixture(case.name, case.inputs, attempt)
    BY DEF Honest
  <2>3. /\ Right(Itself, case.name, case.inputs, case.claim)
        /\ case.name = "nth_prime" =>
              Cardinality(PrimesUpTo(case.claim[2])) = IntOf(case.inputs["n"])
        /\ Witness = "pass"
        /\ case.name \in Registry
    BY <2>1, <2>2, HonestMeansRight DEF Witness
  <2>4. case.name \in Repeatable => case.claim = Result
    BY <2>2, RepeatableAgree DEF Result
  <2>5. ASSUME pc = "returned", ~ Lost
        PROVE  Verdict # "fail"
    <3>1. \/ ~ Refused /\ outcome = RunOutcome
          \/ outcome.status = "nondeterministic"
      BY <2>3, <2>5 DEF ReexecInvariant, OutcomeFits
    <3>2. CASE ~ Refused /\ outcome = RunOutcome
      <4>1. case.claim = Result /\ Result # Raised
        BY <2>1, <2>4, <3>2 DEF Refused
      <4>2. outcome.status = "ok" /\ outcome.output_digest = ResultDigest(case.claim)
        BY <3>2, <4>1 DEF RunOutcome, OutcomeOf
      <4> QED
        BY <4>2 DEF Verdict
    <3>3. CASE outcome.status = "nondeterministic"
      BY <3>3 DEF Verdict
    <3> QED
      BY <3>1, <3>2, <3>3
  <2>6. pc = "raised" => NoUsableChild
    BY DEF ReexecInvariant, OutcomeFits
  <2> QED
    BY <2>3, <2>5, <2>6
<1> QED
  BY <1>1, InvariantAlways, PTL

=============================================================================
