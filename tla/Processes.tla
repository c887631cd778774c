------------------------------ MODULE Processes ------------------------------
(***************************************************************************)
(* Several `detects run` processes (src/detects/cli.py) over one key file  *)
(* and one ledger file.  Each process loads the ledger when it starts and  *)
(* never looks at the file again: it verifies its receipt against the      *)
(* entries it loaded, and appends one line to whatever the file is then.   *)
(* Nothing locks either file.                                              *)
(*                                                                         *)
(* A process is one invocation of the command; its name stands for the     *)
(* nonce and the receipt id drawn in it, and for the key it generates if   *)
(* it does.  A line is appended by one write; Ledger has the torn ones.    *)
(***************************************************************************)
EXTENDS Verifier

CONSTANTS
    Procs,      \* invocations of detects run
    Specs,      \* tasks they are called with
    Deadline,   \* --deadline
    Absent,     \* there is no key file
    Empty,      \* it was opened for writing and nothing is in it yet
    NoRun,      \* "this process is not running a task"
    MaxTime     \* bound: the last instant

ASSUME FilesAssumption == Absent # Empty /\ Absent \notin Procs /\ Empty \notin Procs
ASSUME NumbersAssumption == Deadline \in Nat /\ MaxTime \in Nat

VARIABLES
    clock,      \* the time of day, for all processes
    key_file,   \* the key in it, Absent or Empty
    lines,      \* the ledger file
    pc,         \* how far a process is
    key,        \* the key it has loaded or generated
    memory,     \* the entries of its Ledger object
    run,        \* what it executes, or NoRun
    receipt     \* what it has signed, or NoRun

vars == <<clock, key_file, lines, pc, key, memory, run, receipt>>
ofProcess == <<pc, key, memory, run, receipt>>

Init == /\ clock = 0
        /\ key_file = Absent
        /\ lines = << >>
        /\ pc = [p \in Procs |-> "idle"]
        /\ key = [p \in Procs |-> Absent]
        /\ memory = [p \in Procs |-> << >>]
        /\ run = [p \in Procs |-> NoRun]
        /\ receipt = [p \in Procs |-> NoRun]

Goes(p, from, to) == pc[p] = from /\ pc' = [pc EXCEPT ![p] = to]

-----------------------------------------------------------------------------
Tick == /\ clock' \in 0..MaxTime
        /\ clock' # clock
        /\ UNCHANGED <<key_file, lines, ofProcess>>

(* A key is generated whether there is one or not (mutant of FindsNoKey). *)
AsksNobody(p) ==
    /\ Goes(p, "idle", "generated")
    /\ key' = [key EXCEPT ![p] = p]
    /\ UNCHANGED <<clock, key_file, lines, memory, run, receipt>>

(* The process finds no key file and generates a key. *)
FindsNoKey(p) ==
    /\ key_file = Absent
    /\ Goes(p, "idle", "generated")
    /\ key' = [key EXCEPT ![p] = p]
    /\ UNCHANGED <<clock, key_file, lines, memory, run, receipt>>

(* What is in the file is taken for a key (mutant of LoadsKey). *)
LoadsAnything(p) ==
    /\ key_file # Absent
    /\ Goes(p, "idle", "ready")
    /\ key' = [key EXCEPT ![p] = key_file]
    /\ UNCHANGED <<clock, key_file, lines, memory, run, receipt>>

(* It finds one and loads it; what is not a key yet raises. *)
LoadsKey(p) ==
    /\ key_file # Absent
    /\ Goes(p, "idle", IF key_file = Empty THEN "over" ELSE "ready")
    /\ key' = [key EXCEPT ![p] = IF key_file = Empty THEN Absent ELSE key_file]
    /\ UNCHANGED <<clock, key_file, lines, memory, run, receipt>>

(* write_text() empties the file and then writes to it. *)
OpensKeyFile(p) ==
    /\ Goes(p, "generated", "opened")
    /\ key_file' = Empty
    /\ UNCHANGED <<clock, lines, key, memory, run, receipt>>

WritesKey(p) ==
    /\ Goes(p, "opened", "ready")
    /\ key_file' = key[p]
    /\ UNCHANGED <<clock, lines, key, memory, run, receipt>>

(* Ledger(path), a new LeaseManager, which grants epoch 1, and execute()   *)
(* is called.                                                              *)
Starts(p, spec) ==
    /\ spec.name \in Registered
    /\ Goes(p, "ready", "running")
    /\ memory' = [memory EXCEPT ![p] = lines]
    /\ run' = [run EXCEPT ![p] =
                  [spec |-> spec, lease_epoch |-> 1, started_at |-> clock]]
    /\ UNCHANGED <<clock, key_file, lines, key, receipt>>

(* What execute() returns, see Harness. *)
ExecResults(p) ==
    LET correct == RunResult[run[p].spec.name, run[p].spec.inputs]
    IN  [outcome : {"timeout"}, output : {Null},
         finished_at : {run[p].started_at + Deadline}]
        \cup [outcome : {"failure"}, output : {Null}, finished_at : {clock}]
        \cup [outcome : {"success"}, output : {correct} \ {Raised}, finished_at : {clock}]

Signs(p, res) ==
    /\ Goes(p, "running", "signed")
    /\ receipt' = [receipt EXCEPT ![p] =
                      Signed(key[p], ReceiptBody(key[p], run[p],
                                                 run[p].started_at + Deadline,
                                                 res, p, HeadHash(memory[p])))]
    /\ UNCHANGED <<clock, key_file, lines, key, memory, run>>

-----------------------------------------------------------------------------
(* The arguments of submit() in this process. *)
SubmissionContext(p) ==
    [given  |-> {"spec", "ledger", "leases", "now", "head"},
     spec   |-> run[p].spec,
     ledger |-> memory[p],
     epochs |-> [t \in {TaskIdFor(run[p].spec)} |-> 1],
     now    |-> clock,
     head   |-> HeadHash(memory[p])]

(* The line is built over the end of the file of now (mutant of NewLine). *)
NewLineOverFile(p) == NewEntry(lines, receipt[p], receipt[p])

NewLine(p) == NewEntry(memory[p], receipt[p], receipt[p])

(* The file is written anew from memory (mutant of Appends). *)
Rewrites(p) ==
    /\ Goes(p, "accepted", "appended")
    /\ lines' = Append(memory[p], NewLine(p))
    /\ UNCHANGED <<clock, key_file, key, memory, run, receipt>>

(* A process that ends without having appended leaves nothing behind. *)
Ends(p) ==
    /\ pc' = [pc EXCEPT ![p] = "over"]
    /\ key' = [key EXCEPT ![p] = Absent]
    /\ memory' = [memory EXCEPT ![p] = << >>]
    /\ run' = [run EXCEPT ![p] = NoRun]
    /\ receipt' = [receipt EXCEPT ![p] = NoRun]
    /\ UNCHANGED <<clock, key_file, lines>>

(* submit(): the verdict ... *)
Accepts(p) ==
    /\ Goes(p, "signed", "accepted")
    /\ Accepted(receipt[p], SubmissionContext(p))
    /\ UNCHANGED <<clock, key_file, lines, key, memory, run, receipt>>

Rejects(p) ==
    /\ pc[p] = "signed"
    /\ ~ Accepted(receipt[p], SubmissionContext(p))
    /\ Ends(p)

(* ... and the append, to the end of the file whatever it is. *)
Appends(p) ==
    /\ Goes(p, "accepted", "appended")
    /\ lines' = Append(lines, NewLine(p))
    /\ UNCHANGED <<clock, key_file, key, memory, run, receipt>>

(* A process is killed before it has appended anything. *)
Dies(p) == pc[p] \notin {"idle", "appended", "over"} /\ Ends(p)

Next == \/ Tick
        \/ \E p \in Procs : \/ FindsNoKey(p)
                            \/ LoadsKey(p)
                            \/ OpensKeyFile(p)
                            \/ WritesKey(p)
                            \/ \E spec \in Specs : Starts(p, spec)
                            \/ pc[p] = "running" /\ \E res \in ExecResults(p) : Signs(p, res)
                            \/ Accepts(p)
                            \/ Rejects(p)
                            \/ Appends(p)
                            \/ Dies(p)

Spec == Init /\ [][Next]_vars

-----------------------------------------------------------------------------
TypeOK ==
    /\ clock \in Nat
    /\ key_file \in Procs \cup {Absent, Empty}
    /\ pc \in [Procs -> {"idle", "generated", "opened", "ready", "running",
                         "signed", "accepted", "appended", "over"}]
    /\ key \in [Procs -> Procs \cup {Absent, Empty}]
    /\ \A i \in DOMAIN lines : lines[i].seq \in Nat /\ lines[i].receipt.nonce \in Procs
    /\ \A p \in Procs : pc[p] \notin {"idle", "over"} => key[p] \in Procs

RecordedBy(i) == lines[i].receipt

(* Two processes that overlap may both record a success of a task, and     *)
(* then their entries have the same place in the chain: as long as         *)
(* `detects verify-chain` says OK, the file is one that a single process   *)
(* would have written, with one success per task and every receipt on the  *)
(* head its signer saw.                                                    *)
ForksAreDetected ==
    VerifyChain(lines) =>
        /\ \A i \in DOMAIN lines : \A j \in Successes(lines, RecordedBy(i).task_id) :
               RecordedBy(i).outcome = "success" => i = j
        /\ \A i \in DOMAIN lines : RecordedBy(i).prev_ledger_hash = Previous(lines, i)

(* A second success of a task is only ever recorded by a process that      *)
(* loaded the ledger before the first one was in it (an entry's seq is the *)
(* number of entries its writer had loaded): runs that do not overlap      *)
(* finish a task once, whatever else the file holds.                       *)
SecondSuccessOnlyByOverlap ==
    \A i, j \in DOMAIN lines :
        /\ i < j
        /\ RecordedBy(i).task_id = RecordedBy(j).task_id
        /\ RecordedBy(i).outcome = "success" /\ RecordedBy(j).outcome = "success"
        => lines[j].seq < i

(* What a process reported as appended is in the file from then on,        *)
(* whatever the processes beside it write.                                 *)
AppendedIsInFile ==
    \A p \in Procs : pc[p] = "appended" =>
        \E i \in DOMAIN lines : RecordedBy(i) = receipt[p]

(* Whoever is between finding no key and having written one can replace    *)
(* the key of others, whose worker id is then gone.  Once a key is in the  *)
(* file and nobody is, this is over for good.                              *)
Settled == /\ key_file \in Procs
           /\ \A p \in Procs : pc[p] \notin {"generated", "opened"}

KeyStays == [][Settled => Settled' /\ key_file' = key_file]_vars

-----------------------------------------------------------------------------
(* Why: a process that is under way has loaded the first lines of the      *)
(* file, which only grows; its receipt is signed over the last of them and *)
(* says nothing they have said; and so every line tells which lines its    *)
(* writer knew.                                                            *)
UnderWay(p) == pc[p] \in {"running", "signed", "accepted"}

LoadedFromFile ==
    \A p \in Procs : UnderWay(p) =>
        /\ Len(memory[p]) <= Len(lines)
        /\ \A k \in 1..Len(memory[p]) : memory[p][k] = lines[k]

SignedOverMemory ==
    \A p \in Procs : pc[p] \in {"signed", "accepted"} =>
        /\ receipt[p].nonce = p /\ receipt[p].receipt_id = p
        /\ receipt[p].prev_ledger_hash = HeadHash(memory[p])

AcceptedIsNews ==
    \A p \in Procs : pc[p] = "accepted" /\ receipt[p].outcome = "success" =>
        Successes(memory[p], receipt[p].task_id) = {}

WrittenOnce ==
    \A i \in DOMAIN lines :
        /\ RecordedBy(i).receipt_id \in Procs
        /\ pc[RecordedBy(i).receipt_id] = "appended"

LinesKnowTheirPast ==
    \A i \in DOMAIN lines :
        /\ lines[i].seq \in 0..(i - 1)
        /\ lines[i].prev_hash = RecordedBy(i).prev_ledger_hash
        /\ RecordedBy(i).outcome = "success" =>
              \A j \in 1..lines[i].seq :
                  RecordedBy(j).outcome = "success" =>
                      RecordedBy(j).task_id # RecordedBy(i).task_id

ProcessInvariant == /\ TypeOK
                    /\ LoadedFromFile
                    /\ SignedOverMemory
                    /\ AcceptedIsNews
                    /\ WrittenOnce
                    /\ LinesKnowTheirPast
                    /\ AppendedIsInFile
=============================================================================
