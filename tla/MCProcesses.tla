----------------------------- MODULE MCProcesses -----------------------------
(***************************************************************************)
(* Three runs of the command, in a row or overlapping, over one task that  *)
(* succeeds, as sum_range does.                                            *)
(***************************************************************************)
EXTENDS Processes, TLC

CONSTANTS p1, p2, p3

MCProcs == {p1, p2, p3}
Symmetric == Permutations(MCProcs)

MCSpecs == {[name |-> "sum_range", inputs |-> "n=2", declared_postconditions |-> << >>]}
MCRegistered == {"sum_range"}
MCRunResult == [c \in {<<"sum_range", "n=2">>} |-> 3]
MCBelieved == [c \in {<<"sum_range", "n=2">>} |-> {3}]
MCRaisesOn == [c \in {<<"sum_range", "n=2">>} |-> {}]
MCVersions == {"1.0"}
MCNone == {}
==============================================================================
