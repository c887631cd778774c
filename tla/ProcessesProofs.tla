-------------------------- MODULE ProcessesProofs ---------------------------
(***************************************************************************)
(* Proofs about Processes, for any number of processes, tasks, fixtures    *)
(* and any clock.  ProcessInvariant, with the shape of the functions it    *)
(* speaks of, is inductive.                                                *)
(***************************************************************************)
EXTENDS Processes, CommonProofs

IsLog(log) == \E S : log \in Seq(S)

Shape == /\ IsLog(lines)
         /\ DOMAIN memory = Procs /\ DOMAIN receipt = Procs
         /\ \A p \in Procs : IsLog(memory[p])

(* The entries of a log are numbered from 1.                               *)
LEMMA LogDomain ==
    ASSUME NEW log, IsLog(log)
    PROVE  Len(log) \in Nat /\ DOMAIN log = 1..Len(log)
BY LenProperties DEF IsLog

(* A log with an entry appended is a log, too.                             *)
LEMMA LogAppended ==
    ASSUME NEW log, IsLog(log), NEW e
    PROVE  /\ IsLog(Append(log, e))
           /\ Len(log) \in Nat
           /\ Len(Append(log, e)) = Len(log) + 1
           /\ DOMAIN log = 1..Len(log)
           /\ DOMAIN Append(log, e) = 1..(Len(log) + 1)
           /\ \A i \in 1..Len(log) : Append(log, e)[i] = log[i]
           /\ Append(log, e)[Len(log) + 1] = e
<1>1. PICK S : log \in Seq(S)
  BY DEF IsLog
<1> DEFINE T == S \cup {e}
<1>2. log \in Seq(T) /\ e \in T
  BY <1>1, SeqMonotonic
<1> HIDE DEF T
<1> QED
  BY <1>2, AppendedLog DEF IsLog

-----------------------------------------------------------------------------
(* What a process signs. *)
LEMMA SignedFields ==
    ASSUME NEW w, NEW b, "signature" \notin DOMAIN b
    PROVE  \A f \in DOMAIN b : Signed(w, b)[f] = b[f]
BY DEF Signed

(* The identifiers and the head a receipt is signed with.                  *)
LEMMA SignedReceiptFields ==
    ASSUME NEW w, NEW r, NEW d, NEW res, NEW id, NEW head
    PROVE  LET s == Signed(w, ReceiptBody(w, r, d, res, id, head))
           IN  s.nonce = id /\ s.receipt_id = id /\ s.prev_ledger_hash = head
<1> DEFINE b == ReceiptBody(w, r, d, res, id, head)
<1>1. /\ "signature" \notin DOMAIN b
      /\ "nonce" \in DOMAIN b /\ "receipt_id" \in DOMAIN b
      /\ "prev_ledger_hash" \in DOMAIN b
      /\ b.nonce = id /\ b.receipt_id = id /\ b.prev_ledger_hash = head
  BY DEF ReceiptBody
<1> HIDE DEF b
<1>2. \A f \in DOMAIN b : Signed(w, b)[f] = b[f]
  BY <1>1, SignedFields
<1> QED
  BY <1>1, <1>2 DEF b

(* The part of the verdict that keeps a task to one success. *)
LEMMA AcceptedFacts ==
    ASSUME NEW p, Accepted(receipt[p], SubmissionContext(p)),
           receipt[p].outcome = "success"
    PROVE  \/ Successes(memory[p], receipt[p].task_id) = {}
           \/ TerminalReceiptFor(memory[p], receipt[p].task_id).receipt_id
                  = receipt[p].receipt_id
<1> DEFINE ctx == SubmissionContext(p)
           r == receipt[p]
<1>1. Ok(Report(r, ctx))
  BY DEF Accepted
<1>2. NoDuplicateCompletion(r, ctx) # "fail"
  BY <1>1 DEF Ok, Report
<1>3. Has(ctx, "ledger") /\ ctx.ledger = memory[p]
  BY DEF SubmissionContext, Has
<1> HIDE DEF ctx
<1> QED
  BY <1>2, <1>3 DEF NoDuplicateCompletion, CheckIf, CheckOf, Succeeded

-----------------------------------------------------------------------------
(* No process has done anything yet.                                       *)
LEMMA TypeInit == Init => TypeOK
<1> SUFFICES ASSUME Init PROVE TypeOK
  OBVIOUS
<1>1. DOMAIN lines = {}
  BY DEF Init
<1>2. /\ clock \in Nat /\ key_file \in Procs \cup {Absent, Empty}
      /\ key \in [Procs -> Procs \cup {Absent, Empty}]
      /\ pc = [p \in Procs |-> "idle"]
  BY DEF Init
<1> QED
  BY <1>1, <1>2 DEF TypeOK

(* Nothing was loaded, signed or recorded yet.                             *)
LEMMA InvariantInit == Init => ProcessInvariant /\ Shape
<1> SUFFICES ASSUME Init PROVE ProcessInvariant /\ Shape
  OBVIOUS
<1>1. DOMAIN lines = {} /\ lines = << >> /\ pc = [p \in Procs |-> "idle"]
  BY DEF Init
<1>2. << >> \in Seq({})
  BY EmptySeq
<1>3. Shape
  BY <1>2 DEF Init, Shape, IsLog
<1>4. LoadedFromFile /\ SignedOverMemory /\ AcceptedIsNews /\ AppendedIsInFile
  BY <1>1 DEF LoadedFromFile, SignedOverMemory, AcceptedIsNews, AppendedIsInFile, UnderWay
<1>5. WrittenOnce /\ LinesKnowTheirPast
  BY <1>1 DEF WrittenOnce, LinesKnowTheirPast
<1> QED
  BY <1>3, <1>4, <1>5, TypeInit DEF ProcessInvariant

(* What a process does up to the start of its task, and how it ends.       *)
Settling(p) == FindsNoKey(p) \/ LoadsKey(p) \/ OpensKeyFile(p) \/ WritesKey(p)
Ending(p) == Rejects(p) \/ Dies(p)

(* What kinds of steps there are.                                          *)
LEMMA StepCases ==
    ASSUME [Next]_vars
    PROVE  \/ UNCHANGED vars
           \/ Tick
           \/ \E p \in Procs :
                 \/ Settling(p)
                 \/ Ending(p)
                 \/ \E spec \in Specs : Starts(p, spec)
                 \/ pc[p] = "running" /\ \E res \in ExecResults(p) : Signs(p, res)
                 \/ Accepts(p)
                 \/ Appends(p)
BY DEF Next, Settling, Ending

-----------------------------------------------------------------------------
PcOK == pc \in [Procs -> {"idle", "generated", "opened", "ready", "running",
                          "signed", "accepted", "appended", "over"}]

KeysOK == /\ key_file \in Procs \cup {Absent, Empty}
          /\ key \in [Procs -> Procs \cup {Absent, Empty}]
          /\ \A p \in Procs : pc[p] \notin {"idle", "over"} => key[p] \in Procs

LinesOK == \A i \in DOMAIN lines : lines[i].seq \in Nat /\ lines[i].receipt.nonce \in Procs

(* The type invariant, by what the steps touch.                            *)
LEMMA TypeParts == TypeOK <=> clock \in Nat /\ PcOK /\ KeysOK /\ LinesOK
BY DEF TypeOK, PcOK, KeysOK, LinesOK

(* Processes go through their states only.                                 *)
LEMMA PcStep == PcOK /\ [Next]_vars => PcOK'
<1> SUFFICES ASSUME PcOK, [Next]_vars PROVE PcOK'
  OBVIOUS
<1>1. CASE UNCHANGED vars \/ Tick
  BY <1>1 DEF vars, ofProcess, Tick, PcOK
<1>2. ASSUME NEW p \in Procs, Settling(p) PROVE PcOK'
  BY <1>2 DEF Settling, FindsNoKey, LoadsKey, OpensKeyFile, WritesKey, Goes, PcOK
<1>3. ASSUME NEW p \in Procs, Ending(p) PROVE PcOK'
  BY <1>3 DEF Ending, Rejects, Dies, Ends, PcOK
<1>4. ASSUME NEW p \in Procs, NEW spec \in Specs, Starts(p, spec) PROVE PcOK'
  BY <1>4 DEF Starts, Goes, PcOK
<1>5. ASSUME NEW p \in Procs, NEW res, Signs(p, res) PROVE PcOK'
  BY <1>5 DEF Signs, Goes, PcOK
<1>6. ASSUME NEW p \in Procs, Accepts(p) \/ Appends(p) PROVE PcOK'
  BY <1>6 DEF Accepts, Appends, Goes, PcOK
<1> QED
  BY <1>1, <1>2, <1>3, <1>4, <1>5, <1>6, StepCases

(* A process that is past its key file has the key of some process.        *)
LEMMA KeysStep == PcOK /\ KeysOK /\ [Next]_vars => KeysOK'
<1> SUFFICES ASSUME PcOK, KeysOK, [Next]_vars PROVE KeysOK'
  OBVIOUS
<1>1. CASE UNCHANGED vars \/ Tick
  BY <1>1 DEF vars, ofProcess, Tick, KeysOK
<1>2. ASSUME NEW p \in Procs, Settling(p) PROVE KeysOK'
  <2>1. CASE FindsNoKey(p)
    BY <2>1 DEF FindsNoKey, Goes, KeysOK, PcOK
  <2>2. CASE LoadsKey(p)
    BY <2>2 DEF LoadsKey, Goes, KeysOK, PcOK
  <2>3. CASE OpensKeyFile(p) \/ WritesKey(p)
    BY <2>3 DEF OpensKeyFile, WritesKey, Goes, KeysOK, PcOK
  <2> QED
    BY <1>2, <2>1, <2>2, <2>3 DEF Settling
<1>3. ASSUME NEW p \in Procs, Ending(p) PROVE KeysOK'
  BY <1>3 DEF Ending, Rejects, Dies, Ends, KeysOK, PcOK
<1>4. ASSUME NEW p \in Procs, NEW spec \in Specs, Starts(p, spec) PROVE KeysOK'
  BY <1>4 DEF Starts, Goes, KeysOK, PcOK
<1>5. ASSUME NEW p \in Procs, NEW res, Signs(p, res) PROVE KeysOK'
  BY <1>5 DEF Signs, Goes, KeysOK, PcOK
<1>6. ASSUME NEW p \in Procs, Accepts(p) \/ Appends(p) PROVE KeysOK'
  BY <1>6 DEF Accepts, Appends, Goes, KeysOK, PcOK
<1> QED
  BY <1>1, <1>2, <1>3, <1>4, <1>5, <1>6, StepCases

(* The clock shows a time.                                                 *)
LEMMA ClockStep == clock \in Nat /\ [Next]_vars => clock' \in Nat
<1> SUFFICES ASSUME clock \in Nat, [Next]_vars PROVE clock' \in Nat
  OBVIOUS
<1>1. CASE Tick
  BY <1>1, NumbersAssumption DEF Tick
<1>2. ~ Tick => clock' = clock
  BY DEF Next, vars, FindsNoKey, LoadsKey, OpensKeyFile, WritesKey, Starts, Signs,
         Accepts, Rejects, Appends, Dies, Ends
<1> QED
  BY <1>1, <1>2

(* The file is only ever changed by an append. *)
LEMMA LinesChange ==
    ASSUME [Next]_vars
    PROVE  lines' = lines \/ \E p \in Procs : Appends(p)
BY DEF Next, vars, Tick, ofProcess, FindsNoKey, LoadsKey, OpensKeyFile, WritesKey,
       Starts, Signs, Accepts, Rejects, Dies, Ends

-----------------------------------------------------------------------------
(* What is said about processes that have loaded the ledger, and lines. *)
Rest == /\ Shape
        /\ LinesOK
        /\ LoadedFromFile
        /\ SignedOverMemory
        /\ AcceptedIsNews
        /\ WrittenOnce
        /\ LinesKnowTheirPast
        /\ AppendedIsInFile

(* A step that leaves the file, and every process that goes on, alone. *)
LEMMA OthersStepKeepsRest ==
    ASSUME Rest, Shape', lines' = lines,
           \A q \in Procs : pc'[q] \in {"running", "signed", "accepted", "appended"} =>
               /\ pc'[q] = pc[q]
               /\ memory'[q] = memory[q]
               /\ receipt'[q] = receipt[q],
           \A q \in Procs : pc[q] = "appended" => pc'[q] = "appended"
    PROVE  Rest'
<1>1. LinesOK' /\ LinesKnowTheirPast'
  BY DEF Rest, LinesOK, LinesKnowTheirPast, RecordedBy
<1>2. LoadedFromFile' /\ SignedOverMemory' /\ AcceptedIsNews'
  <2>1. LoadedFromFile'
    BY DEF Rest, LoadedFromFile, UnderWay
  <2>2. SignedOverMemory'
    BY DEF Rest, SignedOverMemory
  <2>3. AcceptedIsNews'
    BY DEF Rest, AcceptedIsNews
  <2> QED
    BY <2>1, <2>2, <2>3
<1>3. WrittenOnce' /\ AppendedIsInFile'
  BY DEF Rest, WrittenOnce, AppendedIsInFile, RecordedBy
<1> QED
  BY <1>1, <1>2, <1>3 DEF Rest

(* Nothing is read of the ledger before the task starts.                   *)
LEMMA SettlingKeepsRest ==
    ASSUME Rest, PcOK, NEW p \in Procs, Settling(p)
    PROVE  Rest'
<1>1. /\ UNCHANGED <<lines, memory, receipt>>
      /\ pc[p] \in {"idle", "generated", "opened"}
      /\ \E to \in {"generated", "opened", "ready", "over"} : pc' = [pc EXCEPT ![p] = to]
  BY DEF Settling, FindsNoKey, LoadsKey, OpensKeyFile, WritesKey, Goes
<1>2. Shape'
  BY <1>1 DEF Rest, Shape
<1>3. \A q \in Procs : \/ pc'[q] = pc[q]
                       \/ q = p /\ pc'[q] \in {"generated", "opened", "ready", "over"}
  BY <1>1 DEF PcOK
<1> QED
  BY <1>1, <1>2, <1>3, OthersStepKeepsRest

(* A process that ends takes nothing back from the file.                   *)
LEMMA EndingKeepsRest ==
    ASSUME Rest, PcOK, NEW p \in Procs, Ending(p)
    PROVE  Rest'
<1>1. /\ lines' = lines
      /\ pc[p] # "appended"
      /\ pc' = [pc EXCEPT ![p] = "over"]
      /\ memory' = [memory EXCEPT ![p] = << >>]
      /\ receipt' = [receipt EXCEPT ![p] = NoRun]
  BY DEF Ending, Rejects, Dies, Ends
<1>2. Shape'
  <2>1. IsLog(<< >>)
    BY EmptySeq DEF IsLog
  <2> QED
    BY <1>1, <2>1 DEF Rest, Shape
<1>3. \A q \in Procs : \/ q = p /\ pc'[q] = "over"
                       \/ /\ q # p /\ pc'[q] = pc[q]
                          /\ memory'[q] = memory[q] /\ receipt'[q] = receipt[q]
  BY <1>1 DEF PcOK, Rest, Shape
<1> QED
  BY <1>1, <1>2, <1>3, OthersStepKeepsRest

(* A process knows the lines it found in the file.                         *)
LEMMA StartsKeepsRest ==
    ASSUME Rest, PcOK, NEW p \in Procs, NEW spec \in Specs, Starts(p, spec)
    PROVE  Rest'
<1>1. /\ UNCHANGED <<lines, receipt>>
      /\ pc[p] = "ready" /\ pc' = [pc EXCEPT ![p] = "running"]
      /\ memory' = [memory EXCEPT ![p] = lines]
  BY DEF Starts, Goes
<1>2. Shape'
  BY <1>1 DEF Rest, Shape
<1>3. \A q \in Procs : \/ q = p /\ pc'[q] = "running" /\ memory'[q] = lines
                       \/ q # p /\ pc'[q] = pc[q] /\ memory'[q] = memory[q]
  BY <1>1 DEF PcOK, Rest, Shape
<1>4. LinesOK' /\ LinesKnowTheirPast'
  BY <1>1 DEF Rest, LinesOK, LinesKnowTheirPast, RecordedBy
<1>5. LoadedFromFile'
  <2>1. Len(lines) \in Nat
    BY LogDomain DEF Rest, Shape
  <2> QED
    BY <1>1, <1>3, <2>1 DEF Rest, LoadedFromFile, UnderWay
<1>6. SignedOverMemory' /\ AcceptedIsNews'
  BY <1>1, <1>3 DEF Rest, SignedOverMemory, AcceptedIsNews
<1>7. WrittenOnce' /\ AppendedIsInFile'
  <2>1. \A q \in Procs : pc'[q] = "appended" <=> pc[q] = "appended"
    BY <1>1, <1>3
  <2> QED
    BY <1>1, <2>1 DEF Rest, WrittenOnce, AppendedIsInFile, RecordedBy
<1> QED
  BY <1>2, <1>4, <1>5, <1>6, <1>7 DEF Rest

(* A receipt is signed over the head of what its process knows.            *)
LEMMA SignsKeepsRest ==
    ASSUME Rest, PcOK, NEW p \in Procs, NEW res, Signs(p, res)
    PROVE  Rest'
<1>1. /\ UNCHANGED <<lines, memory>>
      /\ pc[p] = "running" /\ pc' = [pc EXCEPT ![p] = "signed"]
      /\ \E r : /\ receipt' = [receipt EXCEPT ![p] = r]
                /\ r.nonce = p /\ r.receipt_id = p
                /\ r.prev_ledger_hash = HeadHash(memory[p])
  <2> DEFINE r == Signed(key[p], ReceiptBody(key[p], run[p],
                                             run[p].started_at + Deadline,
                                             res, p, HeadHash(memory[p])))
  <2>1. /\ UNCHANGED <<lines, memory>>
        /\ pc[p] = "running" /\ pc' = [pc EXCEPT ![p] = "signed"]
        /\ receipt' = [receipt EXCEPT ![p] = r]
    BY DEF Signs, Goes
  <2>2. r.nonce = p /\ r.receipt_id = p /\ r.prev_ledger_hash = HeadHash(memory[p])
    BY SignedReceiptFields
  <2> HIDE DEF r
  <2> QED
    BY <2>1, <2>2
<1>2. Shape'
  BY <1>1 DEF Rest, Shape
<1>3. \A q \in Procs :
         \/ /\ q = p /\ pc'[q] = "signed" /\ pc[q] = "running"
            /\ receipt'[q].nonce = p /\ receipt'[q].receipt_id = p
            /\ receipt'[q].prev_ledger_hash = HeadHash(memory[p])
         \/ q # p /\ pc'[q] = pc[q] /\ receipt'[q] = receipt[q]
  BY <1>1 DEF PcOK, Rest, Shape
<1>4. LinesOK' /\ LinesKnowTheirPast'
  BY <1>1 DEF Rest, LinesOK, LinesKnowTheirPast, RecordedBy
<1>5. LoadedFromFile'
  BY <1>1, <1>3 DEF Rest, LoadedFromFile, UnderWay
<1>6. SignedOverMemory' /\ AcceptedIsNews'
  <2>1. memory' = memory /\ SignedOverMemory /\ AcceptedIsNews
    BY <1>1 DEF Rest
  <2>2. SignedOverMemory'
    BY <1>3, <2>1 DEF SignedOverMemory
  <2>3. AcceptedIsNews'
    BY <1>3, <2>1 DEF AcceptedIsNews
  <2> QED
    BY <2>2, <2>3
<1>7. WrittenOnce' /\ AppendedIsInFile'
  BY <1>1, <1>3 DEF Rest, WrittenOnce, AppendedIsInFile, RecordedBy
<1> QED
  BY <1>2, <1>4, <1>5, <1>6, <1>7 DEF Rest

(* What is accepted is news to its process.                                *)
LEMMA AcceptsKeepsRest ==
    ASSUME Rest, PcOK, NEW p \in Procs, Accepts(p)
    PROVE  Rest'
<1>1. /\ UNCHANGED <<lines, memory, receipt>>
      /\ pc[p] = "signed" /\ pc' = [pc EXCEPT ![p] = "accepted"]
      /\ Accepted(receipt[p], SubmissionContext(p))
  BY DEF Accepts, Goes
<1>2. Shape'
  BY <1>1 DEF Rest, Shape
<1>3. \A q \in Procs : \/ q = p /\ pc'[q] = "accepted"
                       \/ q # p /\ pc'[q] = pc[q]
  BY <1>1 DEF PcOK
<1>4. LinesOK' /\ LinesKnowTheirPast'
  BY <1>1 DEF Rest, LinesOK, LinesKnowTheirPast, RecordedBy
<1>5. LoadedFromFile' /\ SignedOverMemory'
  BY <1>1, <1>3 DEF Rest, LoadedFromFile, SignedOverMemory, UnderWay
<1>6. AcceptedIsNews'
  <2> DEFINE task == receipt[p].task_id
  <2>1. receipt[p].outcome = "success" => Successes(memory[p], task) = {}
    <3> SUFFICES ASSUME receipt[p].outcome = "success", Successes(memory[p], task) # {}
                 PROVE  FALSE
      OBVIOUS
    <3>1. TerminalReceiptFor(memory[p], task).receipt_id = receipt[p].receipt_id
      BY <1>1, AcceptedFacts
    <3>2. PICK S : memory[p] \in Seq(S)
      BY DEF Rest, Shape, IsLog
    <3>3. PICK i \in Successes(memory[p], task) :
              TerminalReceiptFor(memory[p], task) = memory[p][i].receipt
      BY <3>2, TerminalIsASuccess
    <3>4. i \in 1..Len(memory[p])
      BY <3>2, LenProperties DEF Successes
    <3>5. i \in DOMAIN lines /\ memory[p][i] = lines[i]
      <4>1. /\ Len(memory[p]) <= Len(lines)
            /\ \A k \in 1..Len(memory[p]) : memory[p][k] = lines[k]
        BY <1>1 DEF Rest, LoadedFromFile, UnderWay
      <4>2. /\ Len(lines) \in Nat /\ DOMAIN lines = 1..Len(lines)
            /\ Len(memory[p]) \in Nat
        BY LogDomain DEF Rest, Shape
      <4> QED
        BY <3>4, <4>1, <4>2
    <3>6. lines[i].receipt.receipt_id = p
      BY <1>1, <3>1, <3>3, <3>5 DEF Rest, SignedOverMemory
    <3>7. pc[p] = "appended"
      BY <3>5, <3>6 DEF Rest, WrittenOnce, RecordedBy
    <3> QED
      BY <1>1, <3>7
  <2>2. AcceptedIsNews /\ memory' = memory /\ receipt' = receipt
    BY <1>1 DEF Rest
  <2> HIDE DEF task
  <2> QED
    BY <1>3, <2>1, <2>2 DEF AcceptedIsNews, task
<1>7. WrittenOnce' /\ AppendedIsInFile'
  BY <1>1, <1>3 DEF Rest, WrittenOnce, AppendedIsInFile, RecordedBy
<1> QED
  BY <1>2, <1>4, <1>5, <1>6, <1>7 DEF Rest

(* The line goes to the end of the file, whatever others wrote before it.  *)
LEMMA AppendsKeepsRest ==
    ASSUME Rest, PcOK, NEW p \in Procs, Appends(p)
    PROVE  Rest'
<1> DEFINE n == Len(lines)
           m == Len(memory[p])
           e == NewLine(p)
           r == receipt[p]
<1>1. /\ UNCHANGED <<memory, receipt>>
      /\ pc[p] = "accepted" /\ pc' = [pc EXCEPT ![p] = "appended"]
      /\ lines' = Append(lines, e)
  BY DEF Appends, Goes
<1>2. /\ IsLog(lines') /\ n \in Nat
      /\ DOMAIN lines = 1..n /\ DOMAIN lines' = 1..(n + 1) /\ Len(lines') = n + 1
      /\ \A i \in 1..n : lines'[i] = lines[i]
      /\ lines'[n + 1] = e
  BY <1>1, LogAppended DEF Rest, Shape
<1>3. \A q \in Procs : \/ q = p /\ pc'[q] = "appended" /\ pc[q] = "accepted"
                       \/ q # p /\ pc'[q] = pc[q]
  BY <1>1 DEF PcOK
<1>4. /\ m \in Nat /\ m <= n
      /\ DOMAIN memory[p] = 1..m
      /\ \A k \in 1..m : memory[p][k] = lines[k]
  <2>1. m \in Nat /\ DOMAIN memory[p] = 1..m
    BY LogDomain DEF Rest, Shape
  <2> QED
    BY <1>1, <2>1 DEF Rest, LoadedFromFile, UnderWay
<1>5. /\ r.nonce = p /\ r.receipt_id = p
      /\ r.prev_ledger_hash = HeadHash(memory[p])
  BY <1>1 DEF Rest, SignedOverMemory
<1>6. e.seq = m /\ e.prev_hash = HeadHash(memory[p]) /\ e.receipt = r
  BY DEF NewLine, NewEntry
<1>7. r.outcome = "success" => Successes(memory[p], r.task_id) = {}
  BY <1>1 DEF Rest, AcceptedIsNews
<1> HIDE DEF n, m, e, r
<1>8. \A i \in 1..(n + 1) : i \in 1..n \/ i = n + 1
  BY <1>2
<1>9. Shape'
  BY <1>1, <1>2 DEF Rest, Shape
<1>10. LinesOK'
  BY <1>2, <1>4, <1>5, <1>6, <1>8 DEF Rest, LinesOK
<1>11. LoadedFromFile'
  <2> SUFFICES ASSUME NEW q \in Procs, UnderWay(q)'
               PROVE  /\ Len(memory[q]) <= n + 1
                      /\ \A k \in 1..Len(memory[q]) : memory[q][k] = lines'[k]
    BY <1>1, <1>2 DEF LoadedFromFile
  <2>1. UnderWay(q)
    BY <1>3 DEF UnderWay
  <2>2. Len(memory[q]) \in Nat /\ Len(memory[q]) <= n
        /\ \A k \in 1..Len(memory[q]) : memory[q][k] = lines[k]
    BY <2>1, LogDomain DEF Rest, Shape, LoadedFromFile, n
  <2> QED
    BY <1>2, <2>2
<1>12. SignedOverMemory' /\ AcceptedIsNews'
  <2>1. SignedOverMemory /\ AcceptedIsNews /\ memory' = memory /\ receipt' = receipt
    BY <1>1 DEF Rest
  <2> QED
    BY <1>3, <2>1 DEF SignedOverMemory, AcceptedIsNews
<1>13. WrittenOnce'
  <2> SUFFICES ASSUME NEW i \in 1..(n + 1)
               PROVE  /\ lines'[i].receipt.receipt_id \in Procs
                      /\ pc'[lines'[i].receipt.receipt_id] = "appended"
    BY <1>2 DEF WrittenOnce, RecordedBy
  <2>1. CASE i = n + 1
    BY <1>2, <1>3, <1>5, <1>6, <2>1
  <2>2. CASE i \in 1..n
    <3>1. /\ lines[i].receipt.receipt_id \in Procs
          /\ pc[lines[i].receipt.receipt_id] = "appended"
      BY <1>2, <2>2 DEF Rest, WrittenOnce, RecordedBy
    <3> QED
      BY <1>2, <1>3, <2>2, <3>1
  <2> QED
    BY <1>8, <2>1, <2>2
<1>14. LinesKnowTheirPast'
  <2> DEFINE Knows(log, i) ==
          /\ log[i].seq \in 0..(i - 1)
          /\ log[i].prev_hash = log[i].receipt.prev_ledger_hash
          /\ log[i].receipt.outcome = "success" =>
                \A j \in 1..log[i].seq :
                    log[j].receipt.outcome = "success" =>
                        log[j].receipt.task_id # log[i].receipt.task_id
  <2>1. \A i \in 1..n : Knows(lines, i)
    BY <1>2 DEF Rest, LinesKnowTheirPast, RecordedBy
  <2>2. ASSUME NEW i \in 1..n PROVE Knows(lines', i)
    <3>1. lines'[i] = lines[i] /\ lines[i].seq \in 0..(i - 1)
      BY <1>2, <2>1
    <3>2. \A j \in 1..lines[i].seq : lines'[j] = lines[j]
      BY <1>2, <3>1
    <3> QED
      BY <2>1, <3>1, <3>2
  <2>3. Knows(lines', n + 1)
    <3>1. lines'[n + 1].seq = m /\ lines'[n + 1].receipt = r
          /\ lines'[n + 1].prev_hash = r.prev_ledger_hash
      BY <1>2, <1>5, <1>6
    <3>2. m \in 0..((n + 1) - 1)
      BY <1>2, <1>4
    <3>3. \A j \in 1..m : lines'[j] = memory[p][j] /\ j \in DOMAIN memory[p]
      BY <1>2, <1>4
    <3>4. r.outcome = "success" =>
             \A j \in 1..m : lines'[j].receipt.outcome = "success" =>
                 lines'[j].receipt.task_id # r.task_id
      BY <1>7, <3>3 DEF Successes
    <3> QED
      BY <3>1, <3>2, <3>4
  <2>4. \A i \in 1..(n + 1) : Knows(lines', i)
    BY <1>8, <2>2, <2>3
  <2> QED
    BY <1>2, <2>4 DEF LinesKnowTheirPast, RecordedBy
<1>15. AppendedIsInFile'
  <2> SUFFICES ASSUME NEW q \in Procs, pc'[q] = "appended"
               PROVE  \E i \in 1..(n + 1) : lines'[i].receipt = receipt[q]
    BY <1>1, <1>2 DEF AppendedIsInFile, RecordedBy
  <2>1. CASE q = p
    BY <1>2, <1>6, <2>1 DEF r
  <2>2. CASE q # p
    <3>1. pc[q] = "appended"
      BY <1>3, <2>2
    <3>2. PICK i \in 1..n : lines[i].receipt = receipt[q]
      BY <1>2, <3>1 DEF Rest, AppendedIsInFile, RecordedBy
    <3> QED
      BY <1>2, <3>2
  <2> QED
    BY <2>1, <2>2
<1> QED
  BY <1>9, <1>10, <1>11, <1>12, <1>13, <1>14, <1>15 DEF Rest

-----------------------------------------------------------------------------
(* The invariant is the type invariant and the rest.                       *)
LEMMA InvariantIsRest ==
    ProcessInvariant /\ Shape <=> (clock \in Nat /\ PcOK /\ KeysOK) /\ Rest
BY TypeParts DEF ProcessInvariant, Rest

(* Every kind of step keeps the rest.                                      *)
LEMMA RestStep == Rest /\ PcOK /\ [Next]_vars => Rest'
<1> SUFFICES ASSUME Rest, PcOK, [Next]_vars PROVE Rest'
  OBVIOUS
<1>1. CASE UNCHANGED vars \/ Tick
  <2>1. UNCHANGED <<lines, pc, memory, receipt>>
    BY <1>1 DEF vars, ofProcess, Tick
  <2>2. Shape'
    BY <2>1 DEF Rest, Shape
  <2> QED
    BY <2>1, <2>2, OthersStepKeepsRest
<1>2. ASSUME NEW p \in Procs, Settling(p) PROVE Rest'
  BY <1>2, SettlingKeepsRest
<1>3. ASSUME NEW p \in Procs, Ending(p) PROVE Rest'
  BY <1>3, EndingKeepsRest
<1>4. ASSUME NEW p \in Procs, NEW spec \in Specs, Starts(p, spec) PROVE Rest'
  BY <1>4, StartsKeepsRest
<1>5. ASSUME NEW p \in Procs, NEW res, Signs(p, res) PROVE Rest'
  BY <1>5, SignsKeepsRest
<1>6. ASSUME NEW p \in Procs, Accepts(p) PROVE Rest'
  BY <1>6, AcceptsKeepsRest
<1>7. ASSUME NEW p \in Procs, Appends(p) PROVE Rest'
  BY <1>7, AppendsKeepsRest
<1> QED
  BY <1>1, <1>2, <1>3, <1>4, <1>5, <1>6, <1>7, StepCases

(* ProcessInvariant holds at every step, for any number of processes. *)
THEOREM InvariantAlways == Spec => [](ProcessInvariant /\ Shape)
<1>1. ProcessInvariant /\ Shape /\ [Next]_vars => (ProcessInvariant /\ Shape)'
  <2> SUFFICES ASSUME ProcessInvariant /\ Shape, [Next]_vars
               PROVE  (ProcessInvariant /\ Shape)'
    OBVIOUS
  <2>1. (clock \in Nat /\ PcOK /\ KeysOK) /\ Rest
    BY InvariantIsRest
  <2>2. (clock \in Nat /\ PcOK /\ KeysOK)' /\ Rest'
    BY <2>1, ClockStep, PcStep, KeysStep, RestStep
  <2>3. TypeOK'
    BY <2>2 DEF TypeOK, PcOK, KeysOK, LinesOK, Rest
  <2> QED
    BY <2>2, <2>3 DEF ProcessInvariant, Rest
<1> QED
  BY <1>1, InvariantInit, PTL DEF Spec

(* The types of cli.py's state in every interleaving of its processes: in  *)
(* particular a process never gets past an empty key file.                 *)
THEOREM TypeCorrect == Spec => []TypeOK
<1>1. ProcessInvariant /\ Shape => TypeOK
  BY DEF ProcessInvariant
<1> QED
  BY <1>1, InvariantAlways, PTL

(* Runs of cmd_run that do not overlap finish a task once.                 *)
THEOREM SecondSuccessOnlyByOverlapAlways == Spec => []SecondSuccessOnlyByOverlap
<1>1. ProcessInvariant /\ Shape => SecondSuccessOnlyByOverlap
  <2> SUFFICES ASSUME ProcessInvariant, Shape,
                      NEW i \in DOMAIN lines, NEW j \in DOMAIN lines, i < j,
                      RecordedBy(i).task_id = RecordedBy(j).task_id,
                      RecordedBy(i).outcome = "success",
                      RecordedBy(j).outcome = "success"
               PROVE  lines[j].seq < i
    BY DEF SecondSuccessOnlyByOverlap
  <2>1. i \in Nat \ {0}
    BY LogDomain DEF Shape
  <2>2. /\ lines[j].seq \in Nat
        /\ ~ (i \in 1..lines[j].seq)
    BY DEF ProcessInvariant, LinesKnowTheirPast
  <2> QED
    BY <2>1, <2>2
<1> QED
  BY <1>1, InvariantAlways, PTL

(* When verify_chain() accepts the file, the processes that wrote it might *)
(* as well have run one after the other.                                   *)
THEOREM ForksAreDetectedAlways == Spec => []ForksAreDetected
<1>1. ProcessInvariant /\ Shape => ForksAreDetected
  <2> SUFFICES ASSUME ProcessInvariant, Shape, VerifyChain(lines)
               PROVE  ForksAreDetected
    BY DEF ForksAreDetected
  <2>1. \A i \in DOMAIN lines : i \in Nat \ {0}
    BY LogDomain DEF Shape
  <2>2. \A i \in DOMAIN lines : lines[i].seq = i - 1 /\ lines[i].prev_hash = Previous(lines, i)
    BY DEF VerifyChain
  <2>3. \A i \in DOMAIN lines : RecordedBy(i).prev_ledger_hash = Previous(lines, i)
    BY <2>2 DEF ProcessInvariant, LinesKnowTheirPast
  <2>4. ASSUME NEW i \in DOMAIN lines, NEW j \in DOMAIN lines, i < j,
               RecordedBy(i).outcome = "success", RecordedBy(j).outcome = "success"
        PROVE  RecordedBy(i).task_id # RecordedBy(j).task_id
    <3>1. i \in 1..lines[j].seq
      BY <2>1, <2>2, <2>4
    <3> QED
      BY <2>4, <3>1 DEF ProcessInvariant, LinesKnowTheirPast
  <2>5. ASSUME NEW i \in DOMAIN lines, NEW j \in Successes(lines, RecordedBy(i).task_id),
               RecordedBy(i).outcome = "success"
        PROVE  i = j
    <3>1. /\ j \in DOMAIN lines
          /\ RecordedBy(j).task_id = RecordedBy(i).task_id
          /\ RecordedBy(j).outcome = "success"
      BY DEF Successes, RecordedBy
    <3>2. ~ (i < j) /\ ~ (j < i)
      BY <2>4, <2>5, <3>1
    <3> QED
      BY <2>1, <3>1, <3>2
  <2> QED
    BY <2>3, <2>5 DEF ForksAreDetected
<1> QED
  BY <1>1, InvariantAlways, PTL

(* An entry a process reported as appended stays in the file.              *)
THEOREM AppendedIsInFileAlways == Spec => []AppendedIsInFile
<1>1. ProcessInvariant /\ Shape => AppendedIsInFile
  BY DEF ProcessInvariant
<1> QED
  BY <1>1, InvariantAlways, PTL

(* Once a key is in the key file and nobody is about to write one, it is   *)
(* there for good.                                                         *)
THEOREM KeyStaysAlways == Spec => KeyStays
<1>1. TypeOK /\ [Next]_vars => [Settled => Settled' /\ key_file' = key_file]_vars
  <2> SUFFICES ASSUME TypeOK, [Next]_vars, Settled
               PROVE  (Settled' /\ key_file' = key_file) \/ UNCHANGED vars
    OBVIOUS
  <2>1. /\ key_file # Absent /\ key_file \in Procs
        /\ \A p \in Procs : pc[p] # "generated" /\ pc[p] # "opened"
    BY FilesAssumption DEF Settled
  <2>2. PcOK
    BY TypeParts
  <2>3. ASSUME key_file' = key_file,
               \A q \in Procs : pc'[q] \in {pc[q], "ready", "running", "signed",
                                            "accepted", "appended", "over"}
        PROVE  Settled'
    BY <2>1, <2>3 DEF Settled
  <2>4. CASE Tick
    BY <2>3, <2>4 DEF Tick, ofProcess
  <2>5. ASSUME NEW p \in Procs, Settling(p) PROVE Settled' /\ key_file' = key_file
    <3>1. LoadsKey(p)
      BY <2>1, <2>5 DEF Settling, FindsNoKey, OpensKeyFile, WritesKey, Goes
    <3> QED
      BY <2>2, <2>3, <3>1 DEF LoadsKey, Goes, PcOK
  <2>6. ASSUME NEW p \in Procs, Ending(p) PROVE Settled' /\ key_file' = key_file
    BY <2>2, <2>3, <2>6 DEF Ending, Rejects, Dies, Ends, PcOK
  <2>7. ASSUME NEW p \in Procs, NEW spec \in Specs, Starts(p, spec)
        PROVE  Settled' /\ key_file' = key_file
    BY <2>2, <2>3, <2>7 DEF Starts, Goes, PcOK
  <2>8. ASSUME NEW p \in Procs, NEW res, Signs(p, res)
        PROVE  Settled' /\ key_file' = key_file
    BY <2>2, <2>3, <2>8 DEF Signs, Goes, PcOK
  <2>9. ASSUME NEW p \in Procs, Accepts(p) \/ Appends(p)
        PROVE  Settled' /\ key_file' = key_file
    BY <2>2, <2>3, <2>9 DEF Accepts, Appends, Goes, PcOK
  <2> QED
    BY <2>4, <2>5, <2>6, <2>7, <2>8, <2>9, StepCases
<1> QED
  BY <1>1, TypeCorrect, PTL DEF Spec, KeyStays
=============================================================================
