-------------------------- MODULE FencedCompletion --------------------------
(***************************************************************************)
(* What the whole gate - leases, verifier and ledger together - promises   *)
(* about a task: it is finalized at most once, by the worker that owns it  *)
(* at that moment, under the fencing token current at that moment, and the *)
(* record of its completion never changes afterwards.  No messages, clocks,*)
(* receipts or hashes.                                                     *)
(***************************************************************************)
EXTENDS Naturals

CONSTANTS
    Tasks,
    Workers,
    Nobody,
    Ids         \* what a completion may be known by (receipt ids)

VARIABLES
    epoch,
    owner,
    completion  \* completion[t]: {} while t is open, then its one completion

vars == <<epoch, owner, completion>>

Token == INSTANCE FencingToken

Init == /\ Token!Init
        /\ completion = [t \in Tasks |-> {}]

HandOver(t, w) == /\ Token!Grant(t, w)
                  /\ UNCHANGED completion

Finalize(t, id) ==
    /\ owner[t] # Nobody
    /\ completion[t] = {}
    /\ completion' = [completion EXCEPT ![t] =
                          {[id |-> id, worker |-> owner[t], epoch |-> epoch[t]]}]
    /\ UNCHANGED <<epoch, owner>>

Next == \/ \E t \in Tasks, w \in Workers : HandOver(t, w)
        \/ \E t \in Tasks, id \in Ids : Finalize(t, id)

Spec == Init /\ [][Next]_vars
=============================================================================
