--------------------------- MODULE ExecutorProofs ---------------------------
(***************************************************************************)
(* What execute() guarantees for any number of attempts, any deadline and  *)
(* backoff, any clock, and any delay of threads and caller.                *)
(***************************************************************************)
EXTENDS Executor, CommonProofs

(* Nothing has been executed yet.                                          *)
LEMMA InvariantInit == Init => ExecutorInvariant
  BY ParametersAssumption
     DEF Init, ExecutorInvariant, TypeOK, Progress, Outcome, Times, Attempts, Started_at,
         Unfinished

(* What is queued or running is the attempt the caller waits for or has    *)
(* returned about.                                                         *)
LEMMA UnfinishedIsCurrent ==
    ASSUME TypeOK, Progress, NEW a \in Attempts, thread[a] \in Unfinished
    PROVE  a = attempt /\ pc \in {"waiting", "done"}
<1>1. a \in Int /\ attempt \in Int
  BY DEF TypeOK, Attempts
<1>2. a = attempt
  <2>1. thread[a] # "raised" /\ thread[a] # "absent"
    BY DEF Unfinished
  <2>2. ~ (a < attempt) /\ ~ (a > attempt)
    BY <2>1, Zenon DEF Progress
  <2> QED
    BY <1>1, <2>2
<1>3. pc \notin {"loop", "backoff", "raised"}
  BY <1>2 DEF Progress, Unfinished
<1>4. pc \in {"loop", "waiting", "backoff", "done", "raised"}
  BY DEF TypeOK
<1> QED
  BY <1>2, <1>3, <1>4

(* A step that only moves the work item of one attempt. *)
LEMMA ThreadStep ==
    ASSUME ExecutorInvariant,
           NEW a \in Attempts, Begin(a) \/ \E ending \in Endings : End(a, ending)
    PROVE  ExecutorInvariant'
<1>1. PICK state \in {"running"} \cup Endings :
          /\ thread' = [thread EXCEPT ![a] = state]
          /\ thread[a] \in Unfinished
          /\ UNCHANGED <<max_attempts, pc, attempt, since, wake, elapsed, clock, result>>
  BY DEF Begin, End, Unfinished
<1>2. TypeOK /\ Progress /\ Outcome /\ Times
  BY DEF ExecutorInvariant
<1>3. thread' \in [Attempts -> {"absent", "cancelled"} \cup Unfinished \cup Endings]
  BY <1>1, <1>2 DEF TypeOK, Unfinished
<1>4. TypeOK'
  BY <1>1, <1>2, <1>3 DEF TypeOK
<1>5. a = attempt /\ pc \in {"waiting", "done"}
  BY <1>1, <1>2, UnfinishedIsCurrent
<1>6. state # "queued"
  BY <1>1, EndingsAssumption
<1>7. Progress'
  BY <1>1, <1>2, <1>5 DEF Progress, TypeOK
<1>8. Outcome'
  <2>1. thread'[attempt] = state /\ thread[attempt] \in Unfinished
    BY <1>1, <1>2, <1>5 DEF TypeOK
  <2> QED
    BY <1>1, <1>2, <1>6, <2>1 DEF Outcome, Unfinished, ExecResult
<1>9. Times'
  BY <1>1, <1>2 DEF Times
<1> QED
  BY <1>4, <1>7, <1>8, <1>9 DEF ExecutorInvariant

(* No more attempts are made than there may be.                            *)
LEMMA AttemptBounded ==
    ASSUME TypeOK
    PROVE  attempt \in 0..MaxAttempts
  BY ParametersAssumption DEF TypeOK

(* What a result must be for a step of the caller to return it. *)
LEMMA ReturnStep ==
    ASSUME ExecutorInvariant,
           NEW outcome \in {"success", "failure", "timeout"}, NEW finished_at \in Nat,
           Return(outcome, finished_at), UNCHANGED max_attempts,
           thread' \in [Attempts -> {"absent", "cancelled"} \cup Unfinished \cup Endings],
           \A a \in Attempts : a # attempt => thread'[a] = thread[a],
           outcome = "success" => attempt # 0 /\ thread'[attempt] = "returned",
           outcome = "failure" => /\ attempt = max_attempts
                                  /\ attempt # 0 => thread'[attempt] = "raised",
           outcome = "timeout" => /\ attempt # 0 /\ thread'[attempt] # "queued"
                                  /\ \/ elapsed >= since + Deadline
                                     \/ thread'[attempt] = "raised TimeoutError",
           finished_at = IF outcome = "timeout" THEN Started_at + Deadline ELSE clock
    PROVE  ExecutorInvariant'
<1> DEFINE res == [outcome |-> outcome, attempts |-> attempt, finished_at |-> finished_at]
<1>1. /\ pc' = "done" /\ result' = res
      /\ attempt' = attempt /\ since' = since /\ wake' = wake
      /\ elapsed' = elapsed /\ clock' = clock /\ max_attempts' = max_attempts
  BY DEF Return
<1>2. TypeOK /\ Progress /\ Times
  BY DEF ExecutorInvariant
<1>3. attempt \in 0..MaxAttempts
  BY <1>2, AttemptBounded
<1>4. /\ res \in ExecResult /\ res.outcome = outcome /\ res.attempts = attempt
      /\ res.finished_at = finished_at
  BY <1>3 DEF ExecResult
<1> HIDE DEF res
<1>5. TypeOK'
  <2>1. /\ max_attempts \in 0..MaxAttempts /\ attempt \in 0..max_attempts
        /\ since \in Nat /\ wake \in Int /\ elapsed \in Nat /\ clock \in Nat
    BY <1>2 DEF TypeOK
  <2>2. result' \in ExecResult \cup {NoResult}
    BY <1>1, <1>4
  <2>3. pc' \in {"loop", "waiting", "backoff", "done", "raised"} /\ pc' # "waiting"
    BY <1>1
  <2> QED
    BY <1>1, <2>1, <2>2, <2>3, Zenon DEF TypeOK
<1>6. Progress'
  BY <1>1, <1>2 DEF Progress
<1>7. Outcome'
  BY <1>1, <1>4 DEF Outcome
<1>8. Times'
  BY <1>1, <1>2 DEF Times
<1> QED
  BY <1>5, <1>6, <1>7, <1>8 DEF ExecutorInvariant

(* No step of the caller, of a thread or of time breaks the invariant. *)
LEMMA InvariantStep ==
    ASSUME ExecutorInvariant, [Next]_vars
    PROVE  ExecutorInvariant'
<1>0. TypeOK /\ Progress /\ Outcome /\ Times
  BY DEF ExecutorInvariant
<1>1. CASE Submit
  <2>1. /\ pc = "loop" /\ attempt < max_attempts /\ attempt' = attempt + 1
        /\ thread' = [thread EXCEPT ![attempt + 1] = "queued"]
        /\ since' = elapsed /\ pc' = "waiting"
        /\ UNCHANGED <<max_attempts, wake, elapsed, clock, result>>
    BY <1>1 DEF Submit
  <2>2. attempt \in Nat /\ max_attempts \in Nat /\ attempt + 1 \in 1..max_attempts
        /\ max_attempts <= MaxAttempts
    BY <1>0, <2>1, ParametersAssumption DEF TypeOK
  <2>3. attempt + 1 \in Attempts
    BY <2>2, ParametersAssumption DEF Attempts
  <2>4. thread' \in [Attempts -> {"absent", "cancelled"} \cup Unfinished \cup Endings]
    BY <1>0, <2>1 DEF TypeOK, Unfinished
  <2>5. TypeOK'
    BY <1>0, <2>1, <2>2, <2>4 DEF TypeOK
  <2>6. Progress'
    <3>1. ASSUME NEW a \in Attempts
          PROVE  /\ a < attempt + 1 => thread'[a] = "raised"
                 /\ a > attempt + 1 => thread'[a] = "absent"
      <4>1. a \in Int /\ (a < attempt + 1 => a < attempt \/ a = attempt)
        BY <2>2 DEF Attempts
      <4>2. a # attempt + 1 => thread'[a] = thread[a]
        BY <1>0, <2>1 DEF TypeOK
      <4> QED
        BY <1>0, <2>1, <2>2, <4>1, <4>2 DEF Progress
    <3> QED
      BY <2>1, <3>1 DEF Progress
  <2>7. Outcome'
    BY <1>0, <2>1 DEF Outcome
  <2>8. Times'
    BY <1>0, <2>1 DEF Times, TypeOK
  <2> QED
    BY <2>5, <2>6, <2>7, <2>8 DEF ExecutorInvariant
<1>2. CASE Timeout
  <2>0. attempt \in 0..max_attempts /\ max_attempts \in 0..MaxAttempts /\ attempt # 0
    BY <1>0, <1>2 DEF TypeOK, Timeout
  <2>1. /\ attempt \in Attempts
        /\ thread \in [Attempts -> {"absent", "cancelled"} \cup Unfinished \cup Endings]
    BY <1>0, <2>0, ParametersAssumption DEF TypeOK, Attempts
  <2>2. elapsed >= since + Deadline \/ thread'[attempt] = "raised TimeoutError"
    BY <1>2 DEF Timeout, Overdue, Shutdown
  <2>3. /\ thread' \in [Attempts -> {"absent", "cancelled"} \cup Unfinished \cup Endings]
        /\ \A a \in Attempts : a # attempt => thread'[a] = thread[a]
        /\ thread'[attempt] # "queued"
    <3>1. CASE thread[attempt] = "queued"
      BY <1>2, <2>1, <3>1 DEF Timeout, Shutdown
    <3>2. CASE thread[attempt] # "queued"
      BY <1>2, <2>1, <3>2 DEF Timeout, Shutdown
    <3> QED
      BY <3>1, <3>2
  <2>4. Started_at + Deadline \in Nat
    BY ParametersAssumption DEF Started_at
  <2>5. Return("timeout", Started_at + Deadline) /\ UNCHANGED max_attempts /\ attempt # 0
    BY <1>0, <1>2 DEF Timeout, TypeOK, Return
  <2> QED
    BY <2>2, <2>3, <2>4, <2>5, ReturnStep
<1>3. ASSUME NEW outcome \in {"success", "failure"},
             Return(outcome, clock), UNCHANGED thread,
             outcome = "success" => attempt # 0 /\ thread[attempt] = "returned",
             outcome = "failure" => /\ attempt = max_attempts
                                    /\ attempt # 0 => thread[attempt] = "raised"
      PROVE  ExecutorInvariant'
  <2>1. /\ clock \in Nat
        /\ thread' \in [Attempts -> {"absent", "cancelled"} \cup Unfinished \cup Endings]
    BY <1>0, <1>3 DEF TypeOK
  <2> QED
    BY <1>3, <2>1, ReturnStep DEF Return
<1>4. CASE GiveUp
  BY <1>3, <1>4 DEF GiveUp
<1>5. CASE Succeed
  BY <1>0, <1>3, <1>5 DEF Succeed, TypeOK
<1>6. CASE Exhausted
  <2>1. attempt # 0 => attempt \in Attempts
    BY <1>0, ParametersAssumption DEF TypeOK, Attempts
  <2>2. attempt # 0 => thread[attempt] = "raised"
    BY <1>0, <1>6, <2>1 DEF Exhausted, Progress
  <2> QED
    BY <1>3, <1>6, <2>2 DEF Exhausted
<1>7. CASE Retry
  <2>1. attempt \in Nat \ {0} /\ attempt - 1 \in Nat
    BY <1>0, <1>7, ParametersAssumption DEF Retry, TypeOK
  <2>2. 2 ^ (attempt - 1) \in Int
    BY <2>1
  <2>3. wake' \in Int
    BY <1>0, <1>7, <2>2, ParametersAssumption DEF Retry, Backoff, TypeOK
  <2>4. /\ pc = "waiting" /\ thread[attempt] = "raised" /\ pc' = "backoff"
        /\ UNCHANGED <<max_attempts, attempt, thread, since, elapsed, clock, result>>
    BY <1>7 DEF Retry
  <2>5. TypeOK'
    BY <1>0, <2>3, <2>4 DEF TypeOK
  <2>6. Progress' /\ Outcome' /\ Times'
    BY <1>0, <2>4 DEF Progress, Outcome, Times
  <2> QED
    BY <2>5, <2>6 DEF ExecutorInvariant
<1>8. CASE WakeUp
  BY <1>0, <1>8 DEF WakeUp, ExecutorInvariant, TypeOK, Progress, Outcome, Times
<1>9. CASE Tick
  <2>1. /\ elapsed' = elapsed + 1 /\ clock' \in Nat /\ pc # "done"
        /\ UNCHANGED <<max_attempts, pc, attempt, thread, since, wake, result>>
    BY <1>0, <1>9 DEF Tick, TypeOK
  <2>2. TypeOK' /\ Outcome'
    BY <1>0, <2>1 DEF TypeOK, Outcome
  <2>3. Times'
    BY <1>0, <1>9 DEF Tick, Times, TypeOK, Started_at
  <2>4. Progress'
    BY <1>0, <2>1, Zenon DEF Progress
  <2> QED
    BY <2>2, <2>3, <2>4 DEF ExecutorInvariant
<1>10. ASSUME NEW a \in Attempts, Begin(a) \/ \E ending \in Endings : End(a, ending)
       PROVE  ExecutorInvariant'
  BY <1>10, ThreadStep
<1>11. CASE UNCHANGED vars
  BY <1>0, <1>11 DEF vars, ExecutorInvariant, TypeOK, Progress, Outcome, Times
<1>12. CASE Escape
  BY <1>0, <1>12 DEF Escape, ExecutorInvariant, TypeOK, Progress, Outcome, Times
<1> QED
  BY <1>1, <1>2, <1>4, <1>5, <1>6, <1>7, <1>8, <1>9, <1>10, <1>11, <1>12 DEF Next, Caller

(* The invariant of an execution, whatever the fixture and the clock do.   *)
THEOREM InvariantAlways == Spec => []ExecutorInvariant
<1>1. ExecutorInvariant /\ [Next]_vars => ExecutorInvariant'
  BY InvariantStep
<1> QED
  BY <1>1, InvariantInit, PTL DEF Spec

(* Types stay right: in particular the loop never goes past max_attempts.  *)
THEOREM TypeCorrect == Spec => []TypeOK
<1>1. ExecutorInvariant => TypeOK
  BY DEF ExecutorInvariant
<1> QED
  BY <1>1, InvariantAlways, PTL

(* No retry overlaps the attempt it retries, and only a timed-out attempt  *)
(* outlives execute().                                                     *)
THEOREM NeverTwoAtATimeAlways == Spec => []NeverTwoAtATime
<1>1. ExecutorInvariant => NeverTwoAtATime
  <2> SUFFICES ASSUME ExecutorInvariant, NEW a \in Attempts, thread[a] \in Unfinished
               PROVE  /\ a = attempt
                      /\ \/ pc = "waiting"
                         \/ /\ pc = "done"
                            /\ result.outcome = "timeout"
                            /\ thread[a] = "running"
    BY DEF NeverTwoAtATime
  <2>1. TypeOK /\ Progress /\ Outcome
    BY DEF ExecutorInvariant
  <2>2. a = attempt /\ pc \in {"waiting", "done"}
    BY <2>1, UnfinishedIsCurrent
  <2>3. CASE pc = "done"
    <3>1. result.outcome = "timeout"
      <4>1. result \in ExecResult
        BY <2>1, <2>3 DEF Outcome
      <4>2. attempt # 0 /\ thread[attempt] # "returned" /\ thread[attempt] # "raised"
        BY <2>2, ParametersAssumption DEF Attempts, Unfinished
      <4>3. result.outcome # "success" /\ result.outcome # "failure"
        BY <2>1, <2>3, <4>2 DEF Outcome
      <4> QED
        BY <4>1, <4>3 DEF ExecResult
    <3> QED
      BY <2>1, <2>2, <2>3, <3>1 DEF Outcome, Unfinished
  <2> QED
    BY <2>2, <2>3
<1> QED
  BY <1>1, InvariantAlways, PTL

(* The result of fixtures that raise no TimeoutError is always an account  *)
(* of what the attempts did, and when.                                     *)
THEOREM ResultExplainedAlways == Spec => []ResultExplained
<1>1. ExecutorInvariant => ResultExplained
  <2> SUFFICES ASSUME ExecutorInvariant, result # NoResult, ~ RaisesTimeoutError
               PROVE  ResultExplained
    BY DEF ResultExplained
  <2>1. TypeOK /\ Progress /\ Outcome /\ Times
    BY DEF ExecutorInvariant
  <2>2. /\ result \in ExecResult /\ result.attempts = attempt
        /\ result.outcome = "success" => thread[attempt] = "returned"
        /\ result.outcome = "failure" => /\ attempt = max_attempts
                                         /\ attempt # 0 => thread[attempt] = "raised"
        /\ result.finished_at = IF result.outcome = "timeout" THEN Started_at + Deadline
                                ELSE clock
    BY <2>1 DEF Outcome
  <2>3. /\ \A a \in Attempts : a < attempt => thread[a] = "raised"
        /\ \A a \in Attempts : a > attempt => thread[a] = "absent"
    BY <2>1 DEF Progress
  <2>4. attempt \in Nat /\ max_attempts \in Nat
    BY <2>1, ParametersAssumption DEF TypeOK
  <2>5. result.outcome = "failure" => RaisedBefore(max_attempts + 1)
    <3>1. SUFFICES ASSUME result.outcome = "failure", NEW b \in Attempts,
                          b < max_attempts + 1
                   PROVE  thread[b] = "raised"
      BY DEF RaisedBefore
    <3>2. b \in Int /\ (b < attempt \/ b = attempt) /\ b # 0
      BY <2>2, <2>4, <3>1 DEF Attempts
    <3> QED
      BY <2>2, <2>3, <3>1, <3>2
  <2>6. result.outcome = "timeout" => elapsed >= since + Deadline
    <3>1. result.outcome = "timeout" => attempt \in Attempts
      <4>1. result.outcome = "timeout" => attempt # 0
        BY <2>1 DEF Outcome
      <4>2. attempt \in 0..MaxAttempts
        BY <2>1, AttemptBounded
      <4> QED
        BY <4>1, <4>2, ParametersAssumption DEF Attempts
    <3> QED
      BY <2>1, <3>1 DEF Outcome, RaisesTimeoutError
  <2>7. ASSUME SystemTime
        PROVE  /\ result.finished_at <= Started_at + elapsed
               /\ result.outcome # "timeout" => result.finished_at >= Started_at + since
    <3>1. since \in Nat /\ elapsed \in Nat /\ since <= elapsed
          /\ clock = Started_at + elapsed
      BY <2>1, <2>7 DEF TypeOK, Times
    <3> QED
      BY <2>2, <2>6, <3>1, ParametersAssumption DEF Started_at
  <2> QED
    BY <2>2, <2>3, <2>5, <2>6, <2>7 DEF ResultExplained, RaisedBefore
<1> QED
  BY <1>1, InvariantAlways, PTL
-----------------------------------------------------------------------------
(* The budget of n attempts, from that of one attempt less. *)
LEMMA BudgetStep ==
    /\ \A n \in 0..MaxAttempts : Budget[n] \in Nat /\ Pause(n) \in Nat
    /\ Budget[0] = 0
    /\ \A n \in 0..(MaxAttempts - 1) :
          Budget[n + 1] = Budget[n] + Pause(n) + Deadline + Slack
<1> DEFINE step == [p \in Nat \X Nat |-> p[2] + Pause(p[1]) + Deadline + Slack]
<1>1. \A n \in Nat : Pause(n) \in Nat
  <2> TAKE n \in Nat
  <2>1. n # 0 => 2 ^ (n - 1) \in Nat
    BY PowersAreNatural
  <2> QED
    BY <2>1, ParametersAssumption DEF Pause
<1>2. step \in [Nat \X Nat -> Nat]
  BY <1>1, ParametersAssumption
<1>3. \A p \in Nat \X Nat : step[p] = p[2] + Pause(p[1]) + Deadline + Slack
  OBVIOUS
<1> HIDE DEF step
<1>4. PICK f : Recursive(f, Nat, 0, step)
  BY <1>2, Recursion
<1>5. \A n \in Nat : f[n + 1] = f[n] + Pause(n) + Deadline + Slack
  BY <1>3, <1>4 DEF Recursive
<1> DEFINE g == [n \in 0..MaxAttempts |-> f[n]]
<1>6. g = [n \in 0..MaxAttempts |->
             IF n = 0 THEN 0 ELSE g[n - 1] + Pause(n - 1) + Deadline + Slack]
  <2>1. ASSUME NEW n \in 0..MaxAttempts
        PROVE  g[n] = IF n = 0 THEN 0 ELSE g[n - 1] + Pause(n - 1) + Deadline + Slack
    <3>1. CASE n = 0
      BY <1>4, <3>1 DEF Recursive
    <3>2. CASE n # 0
      <4>1. n - 1 \in Nat /\ n - 1 \in 0..MaxAttempts /\ (n - 1) + 1 = n
        BY <3>2, ParametersAssumption
      <4>2. g[n] = f[n] /\ g[n - 1] = f[n - 1]
        BY <4>1
      <4> HIDE DEF g
      <4> QED
        BY <1>5, <3>2, <4>1, <4>2
    <3> QED
      BY <3>1, <3>2
  <2> QED
    BY <2>1
<1> HIDE DEF g
<1>7. Budget = [n \in 0..MaxAttempts |->
                  IF n = 0 THEN 0 ELSE Budget[n - 1] + Pause(n - 1) + Deadline + Slack]
  BY <1>6 DEF Budget
<1>8. \A n \in Nat : n \in 0..MaxAttempts => Budget[n] \in Nat
  <2> DEFINE Typed == {n \in Nat : n \in 0..MaxAttempts => Budget[n] \in Nat}
  <2>1. 0 \in Typed
    BY <1>7
  <2>2. ASSUME NEW n \in Nat, n \in Typed, n + 1 \in 0..MaxAttempts
        PROVE  Budget[n + 1] \in Nat
    <3>1. n \in 0..MaxAttempts /\ n + 1 # 0 /\ (n + 1) - 1 = n
      BY <2>2, ParametersAssumption
    <3>2. Budget[n + 1] = Budget[n] + Pause(n) + Deadline + Slack
      BY <1>7, <2>2, <3>1
    <3> QED
      BY <1>1, <2>2, <3>1, <3>2, ParametersAssumption
  <2>3. \A n \in Nat : n \in Typed => n + 1 \in Typed
    BY <2>2
  <2>4. Nat \subseteq Typed
    <3> HIDE DEF Typed
    <3> QED
      BY <2>1, <2>3, Induction
  <2> QED
    BY <2>4
<1>9. ASSUME NEW n \in 0..(MaxAttempts - 1)
      PROVE  Budget[n + 1] = Budget[n] + Pause(n) + Deadline + Slack
  <2>1. n + 1 \in 0..MaxAttempts /\ n + 1 # 0 /\ (n + 1) - 1 = n
    BY ParametersAssumption
  <2> QED
    BY <1>7, <2>1
<1>10. Budget[0] = 0
  BY <1>7, ParametersAssumption
<1> QED
  BY <1>1, <1>8, <1>9, <1>10

(* More attempts, more time. *)
LEMMA BudgetGrows ==
    ASSUME NEW m \in 0..MaxAttempts, NEW n \in 0..m
    PROVE  Budget[n] <= Budget[m]
<1> DEFINE Above == {k \in Nat : n + k <= m => Budget[n] <= Budget[n + k]}
<1>1. 0 \in Above
  BY BudgetStep, ParametersAssumption
<1>2. ASSUME NEW k \in Nat, k \in Above, n + (k + 1) <= m
      PROVE  Budget[n] <= Budget[n + (k + 1)]
  <2>1. n + k \in 0..(MaxAttempts - 1) /\ n + k \in 0..MaxAttempts
        /\ n \in 0..MaxAttempts /\ n + (k + 1) = (n + k) + 1 /\ n + k <= m
    BY <1>2, ParametersAssumption
  <2>2. Budget[n + (k + 1)] = Budget[n + k] + Pause(n + k) + Deadline + Slack
    BY <2>1, BudgetStep
  <2>3. Budget[n] \in Nat /\ Budget[n + k] \in Nat /\ Pause(n + k) \in Nat
    BY <2>1, BudgetStep
  <2> QED
    BY <1>2, <2>1, <2>2, <2>3, ParametersAssumption
<1>3. Nat \subseteq Above
  <2>1. \A k \in Nat : k \in Above => k + 1 \in Above
    BY <1>2
  <2> HIDE DEF Above
  <2> QED
    BY <1>1, <2>1, Induction
<1>4. m - n \in Nat /\ n + (m - n) = m
  OBVIOUS
<1> QED
  BY <1>3, <1>4

(* The caller never waits longer than its budget says.  A step of a thread *)
(* takes no time of its own.                                               *)
LEMMA PacedStep ==
    ASSUME ExecutorInvariant, Paced, [Next]_vars
    PROVE  Paced'
<1>0. /\ attempt \in 0..max_attempts /\ max_attempts \in 0..MaxAttempts
      /\ attempt \in 0..MaxAttempts /\ attempt \in Nat /\ max_attempts \in Nat
      /\ since \in Nat /\ wake \in Int /\ elapsed \in Nat
      /\ pc = "waiting" => attempt # 0
  BY AttemptBounded, ParametersAssumption DEF ExecutorInvariant, TypeOK
<1>1. /\ Budget[attempt] \in Nat /\ Pause(attempt) \in Nat
      /\ attempt < max_attempts =>
            Budget[attempt + 1] = Budget[attempt] + Pause(attempt) + Deadline + Slack
  BY <1>0, BudgetStep, ParametersAssumption
<1>2. CASE Submit
  BY <1>0, <1>1, <1>2, ParametersAssumption DEF Submit, Paced
<1>3. CASE Timeout
  <2>1. pc = "waiting" /\ pc' = "done" /\ UNCHANGED <<attempt, elapsed>>
    BY <1>3 DEF Timeout, Return
  <2> QED
    BY <1>0, <1>1, <2>1, ParametersAssumption DEF Paced
<1>4. CASE Retry
  <2>1. attempt # 0
    BY <1>0, <1>4 DEF Retry
  <2>2. Pause(attempt) = Backoff + Slack
    BY <2>1 DEF Pause, Backoff
  <2>3. wake' = elapsed + Backoff /\ Backoff \in Nat
    <3>1. 2 ^ (attempt - 1) \in Nat
      BY <1>0, <2>1, PowersAreNatural
    <3> QED
      BY <1>4, <3>1, ParametersAssumption DEF Retry, Backoff
  <2>4. /\ pc = "waiting" /\ pc' = "backoff" /\ attempt < max_attempts
        /\ UNCHANGED <<max_attempts, attempt, elapsed>>
    BY <1>4 DEF Retry
  <2> HIDE DEF Backoff
  <2> QED
    BY <1>0, <1>1, <2>1, <2>2, <2>3, <2>4, ParametersAssumption DEF Paced
<1>5. CASE GiveUp
  BY <1>0, <1>1, <1>5, ParametersAssumption DEF GiveUp, Return, Paced
<1>6. CASE WakeUp
  BY <1>0, <1>1, <1>6, ParametersAssumption DEF WakeUp, Paced
<1>7. CASE Succeed
  BY <1>0, <1>1, <1>7, ParametersAssumption DEF Succeed, Return, Paced
<1>8. CASE Exhausted
  <2>1. attempt = 0
    BY <1>0, <1>8 DEF Exhausted, Paced
  <2>2. Pause(0) = 0
    BY DEF Pause
  <2> QED
    BY <1>0, <1>1, <1>8, <2>1, <2>2 DEF Exhausted, Return, Paced
<1>9. CASE Tick
  BY <1>0, <1>1, <1>9, ParametersAssumption DEF Tick, Paced
<1>10. ASSUME NEW a \in Attempts, Begin(a) \/ \E ending \in Endings : End(a, ending)
       PROVE  Paced'
  BY <1>10 DEF Begin, End, Paced
<1>11. CASE UNCHANGED vars
  BY <1>11 DEF vars, Paced
<1>12. CASE Escape
  <2>1. pc = "waiting" /\ pc' = "raised" /\ UNCHANGED <<attempt, elapsed>>
    BY <1>12 DEF Escape
  <2> QED
    BY <1>0, <1>1, <2>1, ParametersAssumption DEF Paced
<1> QED
  BY <1>2, <1>3, <1>4, <1>5, <1>6, <1>7, <1>8, <1>9, <1>10, <1>11, <1>12 DEF Next, Caller

(* execute() is back within its budget, for any number of attempts and any *)
(* deadline and backoff, however long the fixture runs and however late    *)
(* the caller is scheduled within the slack.                               *)
THEOREM WithinBudgetAlways == Spec => []WithinBudget
<1>1. Init => Paced
  <2>1. Pause(0) = 0
    BY DEF Pause
  <2> QED
    BY <2>1, BudgetStep DEF Init, Paced
<1>2. ExecutorInvariant /\ Paced /\ [Next]_vars => Paced'
  BY PacedStep
<1>3. ExecutorInvariant /\ Paced => WithinBudget
  <2> SUFFICES ASSUME ExecutorInvariant, Paced
               PROVE  elapsed <= Budget[max_attempts]
    BY DEF WithinBudget
  <2>0. /\ attempt \in 0..max_attempts /\ max_attempts \in 0..MaxAttempts
        /\ attempt \in 0..MaxAttempts /\ attempt \in Nat /\ max_attempts \in Nat
        /\ since \in Nat /\ wake \in Int /\ elapsed \in Nat
        /\ pc \in {"loop", "waiting", "backoff", "done", "raised"}
    BY AttemptBounded, ParametersAssumption DEF ExecutorInvariant, TypeOK
  <2>1. /\ Budget[attempt] \in Nat /\ Pause(attempt) \in Nat /\ Pause(0) = 0
        /\ Budget[max_attempts] \in Nat /\ Budget[attempt] <= Budget[max_attempts]
    BY <2>0, BudgetStep, BudgetGrows DEF Pause
  <2>2. CASE pc \in {"loop", "backoff"} /\ attempt < max_attempts
    <3>1. Budget[attempt + 1] = Budget[attempt] + Pause(attempt) + Deadline + Slack
      BY <2>0, <2>2, BudgetStep, ParametersAssumption
    <3>2. Budget[attempt + 1] <= Budget[max_attempts] /\ Budget[attempt + 1] \in Nat
      BY <2>0, <2>2, BudgetStep, BudgetGrows, ParametersAssumption
    <3> QED
      BY <2>0, <2>1, <2>2, <3>1, <3>2, ParametersAssumption DEF Paced
  <2>3. CASE pc \in {"loop", "backoff"} /\ ~ (attempt < max_attempts)
    BY <2>0, <2>1, <2>3 DEF Paced
  <2>4. CASE pc \in {"waiting", "done", "raised"}
    BY <2>0, <2>1, <2>4, ParametersAssumption DEF Paced
  <2> QED
    BY <2>0, <2>2, <2>3, <2>4
<1> QED
  BY <1>1, <1>2, <1>3, InvariantAlways, PTL DEF Spec
=============================================================================
