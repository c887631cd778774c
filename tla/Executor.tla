------------------------------ MODULE Executor ------------------------------
(***************************************************************************)
(* execute() (src/detects/executor.py): one fixture run with a timeout per *)
(* attempt and bounded retries.                                            *)
(*                                                                         *)
(* Two kinds of actor: the caller, which loops over attempts and waits,    *)
(* and one thread per attempt, which may take any time, end in any way or  *)
(* never end, and cannot be killed.  Elapsed time and the injected clock   *)
(* are two different things: the wait uses the first, what is recorded     *)
(* mostly the second.                                                      *)
(***************************************************************************)
EXTENDS Integers

CONSTANTS
    MaxAttempts,    \* bound: the largest max_attempts
    Deadline,       \* deadline_s
    BackoffBase,    \* backoff_base_s
    Endings,        \* how fixture.run() may end
    SystemTime,     \* the injected clock runs with time (SystemClock) or
                    \* stands still during a run (ManualClock)
    Slack,          \* how late the caller may be to notice a time has come
    NoResult

ASSUME ParametersAssumption == /\ MaxAttempts \in Nat /\ Deadline \in Nat
                               /\ BackoffBase \in Nat /\ Slack \in Nat
ASSUME EndingsAssumption ==
    Endings \subseteq {"returned", "raised", "raised TimeoutError", "raised BaseException"}
ASSUME ClockAssumption == SystemTime \in BOOLEAN

VARIABLES
    max_attempts,   \* the parameter of this call
    pc,             \* where the caller is
    attempt,        \* the attempt it is at, 0 before the first
    thread,         \* thread[a]: the work item of attempt a
    since,          \* elapsed time when the wait for the attempt began
    wake,           \* elapsed time when the backoff is over
    elapsed,        \* real time since execute() was called
    clock,          \* clock.now() - started_at
    result          \* what execute() returned

vars == <<max_attempts, pc, attempt, thread, since, wake, elapsed, clock, result>>

Attempts == 1..MaxAttempts
Unfinished == {"queued", "running"}
Started_at == 0

ExecResult == [outcome : {"success", "failure", "timeout"},
               attempts : 0..MaxAttempts, finished_at : Nat]

TypeOK == /\ max_attempts \in 0..MaxAttempts
          /\ pc \in {"loop", "waiting", "backoff", "done", "raised"}
          /\ attempt \in 0..max_attempts
          /\ thread \in [Attempts -> {"absent", "cancelled"} \cup Unfinished \cup Endings]
          /\ since \in Nat /\ wake \in Int /\ elapsed \in Nat /\ clock \in Nat
          /\ result \in ExecResult \cup {NoResult}
          /\ pc = "waiting" => attempt # 0

Init == /\ max_attempts \in 0..MaxAttempts
        /\ pc = "loop"
        /\ attempt = 0
        /\ thread = [a \in Attempts |-> "absent"]
        /\ since = 0
        /\ wake = 0
        /\ elapsed = 0
        /\ clock = Started_at
        /\ result = NoResult

-----------------------------------------------------------------------------
(* One attempt more than max_attempts (mutant of Submit). *)
SubmitOneMore == /\ pc = "loop"
                 /\ attempt <= max_attempts
                 /\ attempt' = attempt + 1
                 /\ thread' = [thread EXCEPT ![attempt + 1] = "queued"]
                 /\ since' = elapsed
                 /\ pc' = "waiting"
                 /\ UNCHANGED <<max_attempts, wake, elapsed, clock, result>>

(* A thread of its own for the attempt, and the wait for its future. *)
Submit == /\ pc = "loop"
          /\ attempt < max_attempts
          /\ attempt' = attempt + 1
          /\ thread' = [thread EXCEPT ![attempt + 1] = "queued"]
          /\ since' = elapsed
          /\ pc' = "waiting"
          /\ UNCHANGED <<max_attempts, wake, elapsed, clock, result>>

Begin(a) == /\ thread[a] = "queued"
            /\ thread' = [thread EXCEPT ![a] = "running"]
            /\ UNCHANGED <<max_attempts, pc, attempt, since, wake, elapsed, clock, result>>

End(a, ending) == /\ thread[a] = "running"
                  /\ thread' = [thread EXCEPT ![a] = ending]
                  /\ UNCHANGED <<max_attempts, pc, attempt, since, wake, elapsed, clock, result>>

Return(outcome, finished_at) ==
    /\ pc' = "done"
    /\ result' = [outcome |-> outcome, attempts |-> attempt, finished_at |-> finished_at]
    /\ UNCHANGED <<max_attempts, attempt, since, wake, elapsed, clock>>

(* pool.shutdown(wait=False, cancel_futures=True): a work item no thread   *)
(* has taken yet never runs, a running one goes on.                        *)
Shutdown == thread' = IF thread[attempt] = "queued"
                      THEN [thread EXCEPT ![attempt] = "cancelled"]
                      ELSE thread

Overdue == elapsed >= since + Deadline /\ thread[attempt] \in Unfinished

(* Shutting the pool down with wait=True (mutant of Timeout). *)
TimeoutJoins == /\ pc = "waiting"
                /\ Overdue
                /\ thread[attempt] # "running"
                /\ Return("timeout", Started_at + Deadline)
                /\ Shutdown

(* A timeout that is retried like a failure (mutant of Timeout). *)
TimeoutRetried == /\ pc = "waiting"
                  /\ Overdue
                  /\ pc' = "loop"
                  /\ Shutdown
                  /\ UNCHANGED <<max_attempts, attempt, since, wake, elapsed, clock, result>>

(* except FutureTimeout: the wait ran out, or, since both are the builtin  *)
(* TimeoutError, the fixture raised one itself.                            *)
Timeout == /\ pc = "waiting"
           /\ Overdue \/ thread[attempt] = "raised TimeoutError"
           /\ Return("timeout", Started_at + Deadline)
           /\ Shutdown

(* A backoff of base * 2^attempt (mutant of Backoff). *)
BackoffDoubled == BackoffBase * 2 ^ attempt

(* Seconds slept after the attempt. *)
Backoff == BackoffBase * 2 ^ (attempt - 1)

(* Giving up on the first exception (mutant of GiveUp). *)
GiveUpAtOnce == /\ pc = "waiting"
                /\ thread[attempt] = "raised"
                /\ Return("failure", clock)
                /\ UNCHANGED thread

(* except Exception, on an attempt that is not the last one. *)
Retry == /\ pc = "waiting"
         /\ thread[attempt] = "raised"
         /\ attempt < max_attempts
         /\ wake' = elapsed + Backoff
         /\ pc' = "backoff"
         /\ UNCHANGED <<max_attempts, attempt, thread, since, elapsed, clock, result>>

(* and on the last one. *)
GiveUp == /\ pc = "waiting"
          /\ thread[attempt] = "raised"
          /\ attempt = max_attempts
          /\ Return("failure", clock)
          /\ UNCHANGED thread

(* result() raises what the fixture raised, and what is no Exception, a     *)
(* SystemExit for example, is caught by nothing: it leaves execute().      *)
Escape == /\ pc = "waiting"
          /\ thread[attempt] = "raised BaseException"
          /\ pc' = "raised"
          /\ UNCHANGED <<max_attempts, attempt, thread, since, wake, elapsed, clock, result>>

WakeUp == /\ pc = "backoff"
          /\ elapsed >= wake
          /\ pc' = "loop"
          /\ UNCHANGED <<max_attempts, attempt, thread, since, wake, elapsed, clock, result>>

Succeed == /\ pc = "waiting"
           /\ thread[attempt] = "returned"
           /\ Return("success", clock)
           /\ UNCHANGED thread

(* The loop that never ran: max_attempts is 0. *)
Exhausted == /\ pc = "loop"
             /\ attempt = max_attempts
             /\ Return("failure", clock)
             /\ UNCHANGED thread

Caller == \/ Submit \/ Timeout \/ Retry \/ GiveUp
          \/ Escape \/ WakeUp \/ Succeed \/ Exhausted

(* Time passes while the caller waits, Slack past the time it waits for. *)
Tick == /\ \/ pc = "waiting" /\ elapsed < since + Deadline + Slack
           \/ pc = "backoff" /\ elapsed < wake + Slack
        /\ elapsed' = elapsed + 1
        /\ clock' = IF SystemTime THEN clock + 1 ELSE clock
        /\ UNCHANGED <<max_attempts, pc, attempt, thread, since, wake, result>>

Next == \/ Caller
        \/ Tick
        \/ \E a \in Attempts : Begin(a) \/ \E ending \in Endings : End(a, ending)

Spec == Init /\ [][Next]_vars

(* Time goes on and the caller is scheduled.  Nothing is assumed of the    *)
(* threads: a fixture may run for ever.                                    *)
FairSpec == Spec /\ WF_vars(Caller) /\ WF_vars(Tick)

-----------------------------------------------------------------------------
(* "A timed-out worker thread cannot be force-killed ... it is abandoned"  *)
(* (executor.py:10-11), and a timeout is not retried: a fixture never runs *)
(* twice at a time, and after execute() returned it only still runs if it  *)
(* was reported as timed out.                                              *)
NeverTwoAtATime ==
    \A a \in Attempts : thread[a] \in Unfinished =>
        /\ a = attempt
        /\ \/ pc = "waiting"
           \/ /\ pc = "done"
              /\ result.outcome = "timeout"
              /\ thread[a] = "running"

(* "Exceeding deadline_s on an attempt is a timeout" and "a raised         *)
(* exception is a transient failure: retry" (executor.py:5-7): an attempt   *)
(* is reported as timed out only if its deadline has passed.               *)
OnlyOverdueTimesOut ==
    result # NoResult /\ result.outcome = "timeout" => elapsed >= since + Deadline

RaisesTimeoutError == \E a \in Attempts : thread[a] = "raised TimeoutError"

RaisedBefore(a) == \A b \in Attempts : b < a => thread[b] = "raised"

(* The result says what happened, of fixtures that raise no TimeoutError:  *)
(* success if the attempt it names returned, failure if there were         *)
(* max_attempts and all raised, timeout if the named attempt was not done  *)
(* within a deadline of its own; all before it raised.  A running clock    *)
(* stamps it with a time after that attempt began and not after now, a     *)
(* timeout with the deadline of the first attempt (executor.py:62).        *)
ResultExplained ==
    result # NoResult /\ ~ RaisesTimeoutError =>
        /\ RaisedBefore(result.attempts)
        /\ \A a \in Attempts : a > result.attempts => thread[a] = "absent"
        /\ result.outcome = "success" => thread[result.attempts] = "returned"
        /\ result.outcome = "failure" => /\ result.attempts = max_attempts
                                         /\ RaisedBefore(max_attempts + 1)
        /\ result.outcome = "timeout" => /\ elapsed >= since + Deadline
                                         /\ result.finished_at = Started_at + Deadline
        /\ SystemTime =>
              /\ result.finished_at <= Started_at + elapsed
              /\ result.outcome # "timeout" => result.finished_at >= Started_at + since

(* The time n attempts may take: for each the sleep before it, which the   *)
(* first has not, and a deadline.                                          *)
Pause(n) == IF n = 0 THEN 0 ELSE BackoffBase * 2 ^ (n - 1) + Slack

Budget[n \in 0..MaxAttempts] ==
    IF n = 0 THEN 0 ELSE Budget[n - 1] + Pause(n - 1) + Deadline + Slack

(* However the fixture behaves, execute() is back after max_attempts       *)
(* deadlines and the backoffs between them, plus what the scheduler adds.  *)
WithinBudget == elapsed <= Budget[max_attempts]

(* execute() comes back, even from a fixture that never does. *)
Terminates == <>(pc \in {"done", "raised"})

-----------------------------------------------------------------------------
(* Why: all attempts before the current one raised, none after it was      *)
(* made, and the caller is past the current one only if it raised, too,    *)
(* and out of the loop without a result only if nothing caught it.         *)
Progress ==
    \A a \in Attempts :
        /\ a < attempt => thread[a] = "raised"
        /\ a > attempt => thread[a] = "absent"
        /\ a = attempt /\ pc \in {"loop", "backoff"} => thread[a] = "raised"
        /\ a = attempt /\ pc = "raised" => thread[a] = "raised BaseException"

Outcome ==
    IF pc # "done" THEN result = NoResult
    ELSE /\ result \in ExecResult
         /\ result.attempts = attempt
         /\ result.outcome = "success" => attempt # 0 /\ thread[attempt] = "returned"
         /\ result.outcome = "failure" =>
               /\ attempt = max_attempts
               /\ attempt # 0 => thread[attempt] = "raised"
         /\ result.outcome = "timeout" =>
               /\ attempt # 0 /\ thread[attempt] # "queued"
               /\ \/ elapsed >= since + Deadline
                  \/ thread[attempt] = "raised TimeoutError"
         /\ result.finished_at = IF result.outcome = "timeout" THEN Started_at + Deadline
                                 ELSE clock

(* The two times: a wait began before now, and the clock runs or stands.   *)
Times == /\ since <= elapsed
         /\ clock = IF SystemTime THEN Started_at + elapsed ELSE Started_at

ExecutorInvariant == TypeOK /\ Progress /\ Outcome /\ Times

(* How much of the budget is used up at each place of the caller.  The     *)
(* loop goes round again only while there are attempts left.               *)
Paced ==
    /\ pc = "loop" => /\ elapsed <= Budget[attempt] + Pause(attempt)
                      /\ attempt # 0 => attempt < max_attempts
    /\ pc = "waiting" => /\ since + Deadline + Slack <= Budget[attempt]
                         /\ elapsed <= since + Deadline + Slack
    /\ pc = "backoff" => /\ wake + Slack <= Budget[attempt] + Pause(attempt)
                         /\ elapsed <= wake + Slack
                         /\ attempt < max_attempts /\ attempt # 0
    /\ pc \in {"done", "raised"} => elapsed <= Budget[attempt]
=============================================================================
