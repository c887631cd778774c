---------------------------- MODULE FencingToken ----------------------------
(***************************************************************************)
(* What lease.py promises, without leases, clocks or expiry: every task    *)
(* has a fencing epoch that only counts upwards, and the owner of a task   *)
(* changes only together with its epoch, which then grows by exactly one.  *)
(*                                                                         *)
(* "Each time a task changes hands its epoch increases by one"             *)
(*                                              (src/detects/lease.py:3)   *)
(***************************************************************************)
EXTENDS Naturals

CONSTANTS
    Tasks,      \* task ids
    Workers,    \* worker ids
    Nobody      \* the owner of a task nobody has claimed yet

VARIABLES
    epoch,      \* epoch[t]: the current fencing token of task t
    owner       \* owner[t]: the worker the current token was granted to

vars == <<epoch, owner>>

Init == /\ epoch = [t \in Tasks |-> 0]
        /\ owner = [t \in Tasks |-> Nobody]

(* Task t is handed to worker w under a fresh token. *)
Grant(t, w) == /\ epoch' = [epoch EXCEPT ![t] = @ + 1]
               /\ owner' = [owner EXCEPT ![t] = w]

Next == \E t \in Tasks, w \in Workers : Grant(t, w)

Spec == Init /\ [][Next]_vars
=============================================================================
