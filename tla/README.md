# A verification project for `detects`

TLA+ models of `detects` (the repository beside this directory, code in
`src/src/detects/`), the TLC runs that check them, and TLAPS proofs about them.
`detects` turns an agent's claim that it completed a task into a signed receipt
and decides whether to believe it: a worker claims a *lease* with a fencing
epoch, *executes* a fixture, *signs* a receipt chained onto the head of the
*ledger*, and submits it; a pure *verifier* of 18 named checks accepts or
refuses it; what is accepted is appended to the ledger.

Contents: [inventory](#1-inventory) · [modules](#2-modules) ·
[runs](#3-runs) · [fairness](#4-fairness) · [proofs](#5-proofs) ·
[findings](#6-findings) · [not modelled](#7-not-modelled) · [plan](#8-plan)

How to run it: `tlc -config MCLedger.cfg MCLedger.tla` (a `.cfg` belongs to the
module whose name it starts with), `tlapm LedgerProofs.tla`.

## 1. Inventory

| Component | State it keeps | Operations | Talks to |
|---|---|---|---|
| Lease manager, `lease.py` | per task the last lease (holder, epoch, expiry) and the highest epoch; in memory only | `claim`, `current_epoch`, `holder` | called by the harness; read by the verifier |
| Ledger, `ledger.py` | the list of entries and, optionally, a JSONL file | load, `append`, `terminal_receipt_for`, `seen_nonce`, `head_hash`, `verify_chain` | called by harness and CLI; read by the verifier |
| Harness, `harness.py` | none of its own | `execute_and_sign`, `submit`, `run_task` | all of the others |
| Verifier, `verifier.py` | none: a function | 18 checks, one report | reads ledger, leases; calls fixtures and the reexecutor |
| Executor, `executor.py` | one thread per attempt, while it runs | `execute` with timeout, retries, backoff | runs fixtures, reads the clock |
| Schema, `schema.py` | none | `task_id_for`, `parse_receipt`, `signing_payload` | used by all |
| Re-execution, `reexec.py` | a child process while it runs | `reexecute`, in this process or in a child | called by the verifier |
| Fixtures, `fixtures.py` | a registry, constant | `run`, `check_witness` | called by executor, verifier, reexecutor |
| Identity, `identity.py`, and digests, `canon.py` | a key and its file | `generate`, `load`, `save`, `sign`, `verify`, `digest` | harness, verifier, ledger, CLI |
| Clock, `clock.py` | `ManualClock`: its reading | `now`, `advance` | harness, executor |
| Command line, `cli.py` | the key and ledger files | `run`, `verify`, `ledger`, `verify-chain`, … | builds the objects above for one command |
| Adversary, `adversary.py`, `scoreboard.py`, and the quickstart | none | 15 scenarios, the table of their verdicts | harness, verifier |

What is hard about them, and what makes them correct:

* **Leases.** Claims of several workers, expiry, a clock that is `time.time()`
  and may be set back. A token must name one worker; a superseded token must
  never become current again; and, because the verifier compares epochs and
  never asks for the holder, a token that is current must be the holder's.
* **Gate (harness, verifier, ledger together).** A receipt is signed over a
  ledger head and submitted at any later time, again, or never, while other
  workers take over its task, the ledger grows, the clock is set back, and the
  process restarts with its ledger but without its leases. A task must be
  finalized once, by the worker that owns it then; nothing may be recorded twice
  or off its place; what is recorded must stay verifiable; and who holds a
  current lease and did the work must be able to get in.
* **Ledger file.** The process can die inside a write or survive a failing one,
  and the file can end in a cut line. What loads must be a chain, what
  `append()` returned must stay.
* **Several processes.** Invocations of `detects run` share a key file and a
  ledger file that nothing locks. A fork of the chain must be visible, no line
  may be lost, and a key in use must not be replaced.
* **Executor.** A wait with a timeout races a thread nobody can kill. No two
  attempts may overlap, the result must be an account of what happened, and
  `execute()` must return.
* **Re-execution and fixtures.** The cheap checks are necessary conditions over
  values that come from JSON, compared with Python's `==`; a child process can
  be late, die or print something else. No wrong claim may pass a re-execution,
  no honest one may fail it without a reason, no child may be left behind.

`PROJECT.json` lists the hazards one by one, each at its line with the properties
that would catch it.

## 2. Modules

```
FencingToken        abstract: an epoch that counts hand-overs
FencedCompletion    abstract: a task is finalized once, by its owner   (INSTANCE FencingToken)
LeaseManager        the two dictionaries of lease.py and claim()
  LeaseClients      + workers, any clock, tokens in circulation        (implements FencingToken)
LedgerLog           the chain as operators: NewEntry, VerifyChain, TerminalReceiptFor, SeenNonce
  Ledger            + a file, crashes and failing writes
Schema              task ids, receipts, signatures, parse_receipt
  Verifier          LedgerLog + Schema + the 18 checks as operators
    Harness         Verifier + LeaseManager + workers, network, restarts  (implements FencedCompletion)
      Detects       Harness + Fixtures: the package with its own fixtures
        Adversary   + the bundled scenarios and the quickstart
    Processes       Verifier + several processes over two files
Executor            execute() and its threads
Fixtures            Schema + run() and check_witness() of the seven fixtures over JSON values
  Reexec            + the reexecutors and the child process
MC*                 instances for TLC
*Proofs             theorems; CommonProofs holds the lemmas that several of them use
```

**LeaseManager / LeaseClients** (`lease.py`). `leases` and `max_epoch` are the two
dictionaries, total: a missing task has `NoLease` and epoch 0. `claim()` is
`Claim == Renew \/ Grant`; refused with `LeaseHeld` it changes nothing and is no
step. Time is an integer handed in by the caller. `LeaseClients` adds workers
that claim in any order under a clock that may go anywhere at any step, and the
history variable `issued`, every token ever returned. One claim is one step:
the code takes no lock, and nothing in the repository claims from two threads.

**LedgerLog / Ledger** (`ledger.py`). An entry hash is the term
`Append(prev_hash, <<seq, receipt>>)`, so equal hashes mean equal content, which
is what SHA-256 over canonical JSON is taken to give. `Ledger` is one process
over one file at a time: `AppendEntry` (memory first, then the line),
`AppendRaises` (the write fails and the process lives on: the entry stays in
memory), `CrashInAppend`, `Stop`, `Load` (parses every line, verifies
nothing). `torn` says the last line has no newline: what is written next runs
into it and the joined line is not JSON. `faults`, chosen at the start and
constant from then on, says which faults the history has: a write that gets out
a fragment, one that gets out all but the newline, a failed write that is
survived. So one run covers all combinations and a property can say which it
tolerates.

**Schema / Verifier** (`schema.py`, `verifier.py`). A receipt is a record of the
fields the checks read. Digests and signatures are terms. What arrives is `Raw`:
not an object, or fields that are each written as the schema has them, as a
number in text, or otherwise; `ParseReceipt` says which of it pydantic takes. A
context is a record with the set `given` of optional arguments, and a check
whose argument is not given is `"skip"`. Each check is an operator of its name,
`Report` collects them, `Accepted` is "returned, and `report.ok`". Here a fixture
is what it returns (`RunResult`), the outputs its check accepts (`Believed`) and
the outputs its check raises on (`RaisesOn`), per inputs; `Raised` stands for an
exception. `Raises` says when `verify_receipt` does not return because of a
`check_witness`, which may index inputs of another task or not cope with the
claim. There are two more ways. A reexecutor that raises (`reexec.py:88`, `:106`)
is part of `Reexec`. `canon_bytes` raises `ValueError` on a NaN or an infinity, in
the witness at `verifier.py:82` or in a time at `verifier.py:90`; no value of the
models is one.

**Harness** (`harness.py`, with `cli.py` and `adversary._resign`).
`execute_and_sign` is two steps, `StartRun` (fixture lookup, claim, `started_at`)
and `FinishRun` (everything after `execute()` returned: the receipt over the
*current* head, signed), because workers and clock move in between. `Submit` is
`submit()`: verify with the ledger, leases, time and head of now, append if
accepted. A signed receipt goes to `wire` and stays there: it can be submitted at
any time, in any order, any number of times, with any spec, or never, which is
loss, delay, duplication and reordering in one. `Refresh` signs a receipt again
under its old id with a new nonce and head. `Crash` is a worker that dies or an
`execute_and_sign` that raises after its claim. `Restart` is the next process over
the same ledger file: leases and runs gone, ledger and receipts kept. `Tick`
moves the shared clock on or, if `MaySetBack`, to any earlier reading.

**Processes** (`cli.py`, `identity.py`). A process is one `detects run`: it finds
or generates a key (`FindsNoKey`, `OpensKeyFile`, `WritesKey`, because
`write_text()` empties the file first; `LoadsKey`), loads the ledger and claims
epoch 1 of a lease manager of its own (`Starts`), signs, is accepted or refused
against the entries it *loaded*, and `Appends` a line to the file of *now*. It
may die anywhere before that. Every process is at its own place and the clock
goes anywhere. `seq` of a line is the number of entries its writer knew, which
is what the properties are stated with.

**Executor** (`executor.py`). The caller's loop (`Submit`, `Timeout`, `Retry`,
`GiveUp`, `WakeUp`, `Succeed`, `Exhausted`) and one work item per attempt that is
queued, begins, ends in any way or hangs. An attempt ends by returning, by an
exception, by a `TimeoutError` of its own, or by a `BaseException` that is no
`Exception` and leaves `execute()` without a result (`Escape`). `elapsed` is real time, which the wait
and the sleep use; `clock` is the injected clock, which the result is stamped
with, and runs with time or stands still. `Slack` is how late the caller may
notice.

**Detects** (`__init__.py` puts the same parts together). The gate again, but
`RunResult`, `Believed` and `RaisesOn` are no longer free: `FixturesAssumption` says
that they are what `RunFixture` and `CheckWitness` of `Fixtures` return and answer,
and `ValuesAssumption` that the inputs of the tasks and the outputs workers claim
are values of the kinds modelled. `RecordedIsDocumented` is the purpose of the
package in one sentence: what the ledger holds for a task is what its fixture
is documented to compute from the inputs of that task. The runs of the gate
(`MCHarness`) are over these fixtures, too. The proofs about the gate cite
`FixturesAssumption` only where their assumptions below say so; all others hold for
fixtures of any kind, `RecordedResultIsRight` among them, the claim that what is
recorded is whatever run() returns, which is proved only (`RecordedIsDocumented` is what the run checks).

**Fixtures / Reexec** (`fixtures.py`, `reexec.py`). A value is a kind and a
content: int of any size, whole float, bool, none, list, text. A text is a number
that says its place in the order of texts; `Numeral`, `Bytes` and `Hex` say which
int or which bytes a text writes, and which text the digest of some bytes is.
`FloatMax` and `MaxSleep` are the largest int a float holds and the longest time
`time.sleep()` takes: beyond them `nth_prime` and `slow_task` raise.
`RunFixture` and `CheckWitness` are the seven pairs of functions over them, with
what Python does to them: `True == 1.0 == 1`, a list hashed by its text, an
`int()` that reads texts, comparisons and lookups that raise. `NextPrime`
is the search loop of `_nth_prime_run`, candidate by candidate and without a bound:
that it ends is proved, not assumed. `Reexec` is one call of a
reexecutor for one claim: the guard, then the run in this process, or a child
that ends, fails, prints something else or runs on while the wait runs out.
What the code catches is an outcome `"error"`. What it does not leaves the call at
`pc = "raised"`: a child that cannot be started (`SpawnRaises`), JSON without
`output_digest`, bytes that are no text (`CollectRaises`).
`Verdict` is what `independent_reexecution` says of the outcome. `Scalar`, `FlatList`,
`Element` and `List` say what a value is. What the fixtures are *documented* to
compute is `Right`, written without the way they compute it: `SumTo` adds up,
`HasTwoDivisors` and `PrimesUpTo` count divisors, `IsSort` asks for a one-to-one
rearrangement in order, `IsDedupe` for the first occurrences in order.

**Adversary** (`adversary.py`, `scoreboard.py`, `examples/quickstart.py`). `Rows` are
the fifteen scenarios and three calls of the quickstart, each a task, the calls
made before the receipt is presented, what is edited, whether it is signed
again, which arguments the verifier lacks, and the documented verdict. The calls
are actions of `Harness`; the fixtures are those of `Fixtures`, through `Detects`.
Each scenario is a definition named as in the code, a record made from `Scenario`
(present what was signed) by what is different about it. `Changes` presents the
same receipt with one field rewritten, left out or written as text instead.

The abstract modules are specifications in their own right. `ImplementsFencingToken`
maps `epoch` to `max_epoch` and `owner` to `holder()`: a renewal is a stutter, a
grant a hand-over. `ImplementsFencedCompletion` adds `completion`, the set of
(receipt id, worker, epoch) of the recorded successes of a task: whatever leases,
nonces, heads and clocks do, it goes from `{}` to one element, the owner's, and
never changes.

Operators marked *mutant* in the modules are plausible bugs of the definition
they name; no specification uses them. Each property is kept only if putting one
of them in the place of the original makes TLC report that property.

## 3. Runs

Expected to pass:

| Run | Question | States | Bounds |
|---|---|---|---|
| `MCLeaseClients` | Are tokens unambiguous, is the current one the holder's, is a superseded one gone for good, under any clock? Does the manager implement `FencingToken`? | 20 164 | 2 workers, 2 tasks, 4 clock readings, 2 ttls, 3 epochs per task |
| `MCLedger` | What loads, and what is kept, under every combination of crashes and faults? | 15 264 | 2 receipts, 3 entries, 2 crashes |
| `MCExecutor` | Overlap, account of the result, time budget, termination | 1 875 | `max_attempts` 0 to 3, deadline 2, one tick late |
| `MCHarness` | One completion per task by the owner, only documented results, the way in for an honest holder, re-verification, `FencedCompletion`; the clock may be set back | 493 575 | 2 workers (one claims wrong primes and right ones of a wrong type), 1 task, 2 receipts, 2 epochs, times 0 to 2, ttl 1 |
| `MCHarnessFaults` | What a restart and re-signed receipts leave true | 572 116 | 2 workers (one returns wrong sums), 2 tasks, 2 receipts, 1 restart, times 0 to 1 |
| `MCProcesses` | What overlapping `detects run`s do to the key and the ledger | 385 158 | 3 processes, 1 task, times 0 to 1 |
| `MCReexec` | Does an honest claim stand, is a believed one right, is a settled one the result; does no child stay, does the call return? | 853 778 | 7 fixtures; lists of up to 3 items of mixed types; n from -2 to 5; attempts 1 to 3; timeout 1 of 2 ticks |
| `MCAdversary` | Is every scenario judged as documented, and every unsigned change refused? | 1 235 | 15 scenarios, 3 calls of the quickstart, every field |

Expected to be violated, each on one property that a doc line states
([findings](#6-findings)): `MCLedgerGap`, `MCHarnessRefreshI1`,
`MCHarnessRestartStale`, `MCExecutorTimeoutError`.

Why the bounds are enough. Every property but the chain's relates at most two
tokens, receipts or entries of one task. Two workers give the one that is
superseded and the one that supersedes it. Two crashes let a torn line be
written, glued to, and loaded; three entries let a gap be followed by an entry
that names what is missing. Three processes let a fork be continued, and let a
key be replaced for one that is already using it. Three attempts let a retry be
followed by another. Two tasks let evidence and positions be mixed up. Lists of
three are the shortest in which order and repetition are independent; the first
four primes include a square (4) and 9 among the claims to be told apart.
With ttl 1 every lease is live, exactly at its expiry and past it within the
run. `FloatMax` 10 lets one of the claims, 11, be an int beyond every float.
Where the theorems of section 5 cover a property, the bounds do not matter.

Deadlock checking is off where the system really may stop: `execute()` or a
reexecutor has returned or raised; a ledger is full or its file does not load. Elsewhere a
clock always moves, and the scenarios start over. Symmetry is used where workers,
processes or receipts are interchangeable (not where one of the workers is the
buggy one, nor with liveness).

## 4. Fairness

`Executor` states weak fairness of the caller (a Python thread that is not blocked
gets to run) and of time while something waits for it. Nothing is assumed of the
attempts' threads: a fixture may never return, and `Terminates` holds all the
same, because the wait has a timeout and `shutdown(wait=False)` does not join.
`Reexec` assumes the same of the verifier and of time, and nothing of the child:
`Returns` holds for `SubprocessReexecutor` because the wait has a timeout and kills
what it waited for. It is not stated for `InProcessReexecutor`, which waits for
the fixture however long that takes.

The gate has no liveness of its own: a worker that never gets a receipt in,
because the head has moved each time, is a behaviour the code allows. What can
be said without a promise about the other workers is a safety property:
`HonestHolderGetsIn`, the holder of a current lease is never locked out of an open
task.

## 5. Proofs

| Theorem | For every … | Assumes |
|---|---|---|
| `LeaseProofs!TypeCorrect`, `OneOwnerPerEpochAlways`, `CurrentTokenIsHoldersAlways`, `SupersededForeverAlways`, `Refinement` | workers, tasks, ttls, clock | – |
| `LedgerProofs!TypeCorrect`, `TamperEvidentAlways`, `ReturnedIsOneChainAlways` | receipts, log length, crashes, faults | `Unreadable \notin Entry` |
| `LedgerProofs!CrashesKeepChainAlways`, `ReturnedIsDurableAlways` | the same | the same; which faults are tolerated is part of the property |
| `ExecutorProofs!TypeCorrect`, `NeverTwoAtATimeAlways`, `ResultExplainedAlways`, `WithinBudgetAlways` | number of attempts, deadline, backoff, delays, clock, endings | – (that no fixture raises `TimeoutError` is part of `ResultExplained`) |
| `HarnessProofs!TypeCorrect`, `RecordedOnceAlways`, `SuccessesShareReceiptAlways`, `ChainsOntoSignedHeadAlways`, `RecordedEvidenceHoldsAlways`, `RecordedResultIsRightAlways`, `AcceptedReverifiesAlways` | workers, specs, fixtures, bounds, restarts, re-signing, clock | – |
| `HarnessProofs!AtMostOneSuccessAlways` | the same | `~ MayRefresh` |
| `HarnessProofs!OwnerAtAcceptanceAlways`, `EpochsInOrderAlways`, `Refinement` (of `FencedCompletion`) | the same, re-signing included | `MaxRestarts = 0` |
| `HarnessProofs!HonestHolderGetsInAlways` | the same, restarts and re-signing included | registered fixtures whose check believes their own result (`Fair`), schema version 1.0 supported, null is neither digest nor signature (`NullIsNothing`) |
| `HarnessProofs!RecordedIsDocumentedAlways` | workers, tasks, inputs and claims of all seven fixtures, of any size; the same bounds | the fixtures are those of `Fixtures`; inputs and claims are values of the kinds modelled |
| `HarnessProofs!HonestResultsGetInAlways` | the same | the same; 1.0 supported, `NullIsNothing`, no honest witness over the size limit: nothing about the fixtures is assumed any more |
| `HarnessProofs!UnsignedChangeRejectedAlways` (of `AdvSpec`) | fixtures, bounds, change of one field, scenario of the table | – |
| `HarnessProofs!RowsMatchAlways` (of `AdvSpec`) | lease time, deadline, bounds, claims, other workers; order and repetition of the scenarios | the fixtures are those of `Fixtures`; `ScenariosAssumption`; `Distinct` |
| `ProcessesProofs!TypeCorrect`, `ForksAreDetectedAlways`, `SecondSuccessOnlyByOverlapAlways`, `AppendedIsInFileAlways`, `KeyStaysAlways` | processes, tasks, fixtures, clock | – |
| `ReexecProofs!TypeCorrect`, `NoChildLeftAlways`, `SettledClaimIsRightAlways`, `BelievedIsRightAlways`, `HonestClaimStandsAlways` | inputs and claims of all seven fixtures, of any size; attempts, times | inputs and claims are values of the kinds modelled, `Raised` is none of them |

The constants' own assumptions are named `ASSUME`s of the modules that declare them;
TLC evaluates them in the runs. Beside the obvious (`NoLease` is no lease, `Nobody`
no worker, numbers are numbers, specs have tasks) they are: `NumeralAssumption`
(texts that write a number write an int), `BytesAssumption` (texts that write
bytes have bytes, whose digest is a text), `FloatAssumption` (there is a largest
int a float holds, and a longest sleep), `RaisedAssumption` (an exception is
no answer of a check), the claims and inputs of `Cases` in `Reexec` are values,
`FixturesAssumption` and `ValuesAssumption` of `Detects` as above, and
`ScenariosAssumption` of `Adversary` (worker W is honest, 1.0 is a supported version
and 0.0 is not, the padded witness is over the limit and the usual ones are not, floats
hold the bundled scenarios' primes).

Two hypotheses are about markers rather than about the system, and TLA+ leaves
such things open: whether a model value is also, say, an integer cannot be
derived. `NullIsNothing` says that null is no digest and no signature. `Distinct`
adds that null is no name of a check and no list, an exception no number, list or
report, and a parse error no receipt. All of it holds of any three values
outside those sets, as the model values of the runs are.

*Leases.* `LeaseInvariant` strengthens the properties by `LeasesMatchEpochs` (the
lease on record is the last grant's) and `Fenced` for every issued token: it is
not ahead of its task, and while current its worker is the holder. Without the
first part a grant after a renewal could hand out an old epoch; without the
second nothing is known of an older token when a new one is issued.

*Ledger.* `LedgerInvariant` has three layers, for fewer and fewer faults. Types
need that a torn file has a line. The chain (no process survives a failed write)
needs: if every line of the file can be read, the file holds a chain and, while a
process is up, exactly its memory; an unreadable line never goes away and stops
every later load. Durability (also no cut right before the newline) needs that a
torn line is unreadable and no process is up over it, so nothing is ever written
behind it. `ReturnedIsOneChain` tolerates every fault: `OneChain` says that the hash
of each returned entry is within the head hash of the memory and, if it loads,
of the file, because a write leaves the file as it was, unreadable, or ending in
an entry over the memory's head. `TamperEvident` needs only types and that the
chain verified: if the replaced entry's own hash fits, it differs from the next
entry's `prev_hash`.

*Executor.* `Progress` (attempts before the current one raised, later ones do not
exist, and the caller is past the current one only if it raised), `Outcome` (what
a result says about the current attempt, its stamp included) and `Times` (a wait
began before now; the clock runs with real time or stands still). `WithinBudget` speaks of the end only;
`Paced` says for every place of the caller how much of the budget is used up
there: what the attempts so far may take in the loop, less one deadline (or one
pause) and its slack while the caller waits (or sleeps). `Budget` is a recursive
function; that it has the value its equation says is the lemma `Recursion`.

*Harness.* `HarnessInvariant` adds `IdsNameReceipts` (receipts with one id agree on
task, worker, epoch, outcome, digest) and the lease facts. A step that appends
gives `AcceptedFacts`: nonce unseen, head equal, the recorded success of the task
absent or of the same id. With `IdsNameReceipts` the successes of a task are one
receipt; if nothing is re-signed, ids and nonces coincide and there is one. While
the lease manager lives, `TokensFenced` says of every run and every signed receipt
that its token is not ahead and, if current, the holder's; the epoch check
then makes the appended receipt the holder's (`OwnerAtAcceptance`), and no entry
before it has a later epoch (`EpochsInOrder`). A grant is therefore a hand-over
of `FencedCompletion`, the first success of a task finalizes it in the owner's
name, and a further one is the same completion again (`Refinement`). `HashesGrow`
makes a head's length the position it names (`ChainsOntoSignedHead`).
`EntriesAreSound` keeps for every entry what its acceptance says regardless of
ledger, leases and clock (`Sound`, `EvidenceHolds`, `ResultIsRight`); the task id,
which names fixture and inputs, carries it from the spec of the submission to
any other spec of that task. Both assumptions are needed: `MCHarnessRefreshI1`
and `MCHarnessRestartStale` show what happens without them.

*Unsigned changes.* `AdvInvariant` adds `ReceiptFirst`: from its first call on, what a
scenario has is the receipt worker W signed (`SignedByW`). A signature is a term
over the payload, and the payload determines every field but the signature
(`PayloadFixesReceipt`). So a changed receipt that parses and whose signature
verifies is, field for field, the one that was signed
(`ChangedReceiptRejected`). Every row of the table begins with a run
(`RowsBegin`), which is all that is used of it.

*With the real fixtures.* `FixtureAnswers` turns `FixturesAssumption` into: the run's
result is `RunFixture`'s, and what is believed is what `CheckWitness` passes.
`SoundIsDocumented` then reads a sound entry against the lemmas about the fixtures
(below): evidence that holds is right as far as `==` and `repr()` see, and a claim
equal to the run's result is the documented value itself. So
`RecordedIsDocumentedAlways` follows from `EntriesAreSound`. `FixturesAreFair` is the
converse direction: each fixture's check passes its own result on any inputs,
so what `HonestHolderGetsInAlways` assumes of a fixture is a fact for these seven.

*Scenarios.* A scenario is a sequence of at most three calls, so `RowsInvariant` says
where it is (`Progress`): before its next run (`NotRun`), with one receipt over an
empty ledger (`HasRun`), with that receipt submitted (`HasSubmitted`), with a second
one over the new head (`HasRunAgain`), past the lease (`LeftTime`), or with the task
in other hands (`Superseded`). Each case says what the last receipt is, field by
field (`RunReceipt`), what the ledger holds, and whose token is current; the lease
facts (`LeasesMatchEpochs`) are needed for the claim of the other worker to be a
grant. `NextCall` says which calls each scenario makes at all. A step of a scenario
goes from one case to the next (`StartsRunKeepsRows` to `OtherClaimsKeepsRows`). For
the verdict, `EveryRowMatches` has one case for each of the eighteen rows: with the
receipt, the ledger and the leases known, the checks before the documented one
pass or are skipped, and that one fails; for the accepted ones all eighteen
pass. The reason shown is then the first failed check.

*Processes.* `ProcessInvariant`: what a process under way has loaded is a prefix of
the file, which only grows; its receipt is signed over the last entry of it, and
if accepted repeats no success in it; so every line tells how much of the file
its writer knew (`LinesKnowTheirPast`). If the chain verifies, that is all of it.

*Re-execution.* `ChildWaitedFor`: a child runs only while it is waited for, and is
done only if the fixture returned. `OutcomeFits`: what is returned is the outcome
of the run, unless the task was to be refused or the child is lost, and the call
raises only over a child that did not start or printed no result.

*Fixtures.* `BelievedIsRight` and `HonestClaimStands` are about computations over
ints and lists of any size, so they need induction over data. The library's
induction theorems take an operator and cannot be used; `LeastNatural` (from
well-foundedness of `<`) gives `Induction`, for a *set* of numbers instead of a
predicate, and `Recursion`, that a function given by a first value and a step
exists. From these:

* `sum_range`: `SumTo` satisfies its equation, and the closed form is its solution.
* `nth_prime`: trial division up to the root finds the numbers with exactly two
  divisors (`SmallDivisor`, `PrimesHaveTwoDivisors`); there is always a further
  prime (`PrimesGoOn`, Euclid's argument over a common multiple of the first n
  numbers), so the search ends at the next one (`NextPrimeIsFirst`), and the
  n-th value has n primes up to it (`NthPrimeIsNth`).
* `sort_list`: Python's order of numbers, texts and lists is transitive wherever it
  does not raise (`OrderTransitive`; for two lists the earlier of two first
  differences decides), so sorted neighbours make a sorted list
  (`NeighboursSuffice`), and equal counts make a rearrangement
  (`CountsGivePermutation`: one bijection per key, put together). For `run()`, the
  order of a stable sort is total (`StableOrder`), and in a finite total order
  every element has a place of its own (`PlacesInOrder`).
* `dedupe`: as many keys as items means that no two share one (`AllKeysDiffer`), and
  the order of first occurrences is the order of the items.
* `flaky_task`, `slow_task` and `sha_blob` follow from their definitions.

`Believed` and `Honest` claims therefore are right, and `OutcomeFits` carries that
over to the verdict of the re-execution.

These lemmas, which several components use, are in `CommonProofs`: induction and
recursion over numbers, sums, primes, Python's order, sorting, deduplication,
what the fixtures return (`HonestMeansRight`) and believe (`BelievedMeansRight`).

Every invariant and every action property a passing run checks is stated by a
theorem. Only model-checked: liveness (`Terminates`, `Returns`), which the prover
cannot reason about; and the runs expected to be violated.

## 6. Findings

| Run | What the code does | What the repository says |
|---|---|---|
| `MCHarnessRefreshI1` | `verifier.py:188` lets a success through if the recorded one has the same `receipt_id`; the receipt re-signed with a new nonce and head is a second success entry. All successes are still one receipt (`SuccessesShareReceipt`). | `tests/test_invariants.py:4`, I1 |
| `MCHarnessRestartStale` | Epochs are in memory only: after a restart epoch 1 is handed out again and the superseded worker's old epoch 1 receipt passes. The task is still finalized once. | `lease.py:4-7` |
| `MCExecutorTimeoutError` | `executor.py:54` catches `concurrent.futures.TimeoutError`, from Python 3.11 on the builtin one: a `TimeoutError` the fixture raises at once is a timeout, not retried, stamped with a deadline that lies ahead. | `executor.py:5-7` |
| `MCLedgerGap` | `append()` extends memory before it writes; after a failed write that is survived the next line is chained to an entry the file lacks. | `ledger.py:3` |

Smaller things the models show without a run of their own:

* *Verifier.* It "never raises on bad input" (`verifier.py:3`, and the repository's
  `README.md:85`), but there are calls on which it does. `check_witness` is outside
  any `try` (`verifier.py:143`; `Raises`, which `MCAdversary` reaches when it
  changes the task name). `canon_bytes` refuses a NaN or an infinity
  (`verifier.py:82`, `:90`; not in the models). A reexecutor raises when its child
  cannot be started or prints bytes that are no text (`reexec.py:88`), or JSON
  without `output_digest` (`reexec.py:106`; `SpawnRaises`, `CollectRaises`).
* *Ledger.* A line cut right before its newline loads, and the next `append()`
  writes behind it: both entries are then unreadable, one of which had been
  returned (`ReturnedIsDurable` excludes this case by name).
* *Processes.* Two overlapping runs of a task may both report an appended
  success; `verify-chain` then fails (`ForksAreDetected`), and every later run
  builds on the broken file. A process that dies while it writes the key file
  leaves an empty one, and every later run raises. Of two processes that both
  find no key, one ends up with a worker id nobody has the key of.
* *Clock.* While the clock is set back behind its start, an accepted receipt
  re-verifies as REJECT (`AcceptedReverifies` says exactly when).
* *Executor.* The timeout is per attempt, `deadline_at` per run: after a retry a
  success may be stamped past its deadline and be refused. A fixture that raises
  `SystemExit` or another `BaseException` is not caught at `executor.py:66`: it
  leaves `execute()` and `execute_and_sign`, whose lease stays until it expires
  (`Escape`, and `Crash` of `Harness`). A timeout's `finished_at` is
  `started_at + deadline_s`, not a reading of the clock as `executor.py:8` says.
* *Schema.* A number written as text is read as the number: a receipt that is not
  byte for byte what was signed is accepted, with the same meaning.
* *Fixtures.* The checks take `True` and `1.0` for `1`; the check of `sort_list` takes
  a text for the list it is the text of; `nth_prime`'s raises `OverflowError` on an
  int no float can hold; `sum_range`'s lacks the run's test for a negative n.
  Re-execution compares digests and catches all of these.
* *Re-execution.* In this process it has no timeout.

## 7. Not modelled

* `claim()` and `submit()` under threads of one process: nothing in the repository
  shares a manager or a ledger between threads. Between processes `submit()` is
  split (`Processes`).
* `keygen`, which replaces a key without asking; argument parsing, printing, the
  layout of the table, the receipt's own file; package exports.
* The canonical encoding: digests are injective terms. The runtime fingerprint,
  which no check reads, is one value.
* In the fixtures: dicts, fractions, NaN, lists nested more than once, texts given
  where a list is wanted. A `sleep_s` that is a fraction, as in the bundled scenario
  of `slow_task`, is left to its default; the time `slow_task` takes is the
  executor's. The square root in `nth_prime`'s trial division is taken as exact.
* NaN and infinities, which `json` reads and `canon_bytes` refuses: the verifier
  raises on them (see [findings](#6-findings)).
* In `Reexec`: a child that prints a digest prints that of its result. A
  `KeyboardInterrupt` of the caller, here as in `Executor`.
* Several clocks at once: the workers of `Harness` share one.
* Aliasing: `append()` keeps the caller's dict. Receipts are values here, and
  nothing in the repository changes one after it was appended.

## 8. Plan

Done: `FencingToken`, `LeaseManager`, `LeaseClients`; `LedgerLog`, `Ledger`; `Schema`,
`Verifier`, `FencedCompletion`, `Harness`, `Detects`, `Adversary`; `Processes`;
`Executor`; `Fixtures`, `Reexec`; and their proofs. What could still be added:

1. `keygen` as an action of `Processes`, with `KeyStays` restricted to histories
   without it.
2. A theorem that what `Executor` returns is among the `ExecResults` that `Harness`
   runs with.
3. The values left out of `Fixtures`: dicts, fractions, deeper lists.
