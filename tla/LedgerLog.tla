----------------------------- MODULE LedgerLog ------------------------------
(***************************************************************************)
(* The hash-chained log of src/detects/ledger.py as operators on a         *)
(* sequence of entries, shared by Ledger (memory and disk) and Harness     *)
(* (what the verifier reads and submit() appends to).                      *)
(*                                                                         *)
(* SHA-256 over canonical JSON is taken to be free of collisions, so the   *)
(* digest of an entry body is modelled by the term it is computed from:    *)
(* the previous digest with the entry's sequence number and content at its *)
(* end.  `content` is whatever tells two receipts apart.                   *)
(***************************************************************************)
EXTENDS Integers, Sequences

GENESIS == << >>

(* digest({"seq": seq, "prev_hash": prev, "receipt": ...}) *)
Digest(prev, seq, content) == Append(prev, <<seq, content>>)

HeadHash(log) == IF log = << >> THEN GENESIS ELSE log[Len(log)].entry_hash

(* The entry append() builds on top of log; seq counts from 0. *)
NewEntry(log, receipt, content) ==
    [seq        |-> Len(log),
     prev_hash  |-> HeadHash(log),
     receipt    |-> receipt,
     entry_hash |-> Digest(HeadHash(log), Len(log), content)]

(* Where the log records a terminal success of the task. *)
Successes(log, task) ==
    {i \in DOMAIN log : /\ log[i].receipt.task_id = task
                        /\ log[i].receipt.outcome = "success"}

(* The first success recorded for a task that has one. *)
TerminalReceiptFor(log, task) ==
    log[CHOOSE i \in Successes(log, task) :
            \A j \in Successes(log, task) : i <= j].receipt

SeenNonce(log, nonce) == \E i \in DOMAIN log : log[i].receipt.nonce = nonce

-----------------------------------------------------------------------------
(* The hash entry i of a log has to chain onto. *)
Previous(log, i) == IF i = 1 THEN GENESIS ELSE log[i - 1].entry_hash

(* Every link is there but what the entries say is not hashed again        *)
(* (mutant of VerifyChain).                                                *)
VerifyLinks(log) ==
    \A i \in DOMAIN log : /\ log[i].seq = i - 1
                          /\ log[i].prev_hash = Previous(log, i)

(* verify_chain() on a log whose receipts are their own content. *)
VerifyChain(log) ==
    \A i \in DOMAIN log :
        /\ log[i].seq = i - 1
        /\ log[i].prev_hash = Previous(log, i)
        /\ log[i].entry_hash = Digest(log[i].prev_hash, log[i].seq, log[i].receipt)
=============================================================================
