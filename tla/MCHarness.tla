----------------------------- MODULE MCHarness ------------------------------
(***************************************************************************)
(* Small instances of the gate over the fixtures of the package: two       *)
(* workers, and tasks of two fixtures.  The sums up to 2 and 3 are 3 and   *)
(* 6, and the check believes nothing else; the second prime is 3, and the  *)
(* check believes any prime.                                               *)
(***************************************************************************)
EXTENDS Detects, TLC

CONSTANTS w1, w2

MCWorkers == {w1, w2}
Symmetric == Permutations(MCWorkers)

int(n) == <<"int", n>>

TaskOf(name, input, value, postconditions) ==
    [name |-> name, inputs |-> [k \in {input} |-> value],
     declared_postconditions |-> postconditions]

Sum2 == TaskOf("sum_range", "n", int(2), <<"a", "b">>)
Sum2Permuted == TaskOf("sum_range", "n", int(2), <<"b", "a">>)
Sum3 == TaskOf("sum_range", "n", int(3), << >>)
Prime2 == TaskOf("nth_prime", "n", int(2), << >>)

(* One task, whose check is only necessary; one declared in two ways; two  *)
(* of one fixture.                                                         *)
MCOnePrime == {Prime2}
MCOneTask == {Sum2, Sum2Permuted}
MCTwoTasks == {Sum2, Sum3}
MCTasks == {TaskIdFor(s) : s \in Specs}

(* A run ends with one of these: the right one or another; for a prime, a  *)
(* wrong one that is a prime, and a right number of a wrong type.          *)
MCSums == {int(3), int(6)}
MCPrimes == {int(2), int(3), <<"float", 3>>}
MCClaims == MCSums \cup MCPrimes \cup {Null}

MCNone == {}
MCNoTexts == << >>
MCVersions == {"1.0"}
MCBuggy == {w2}
=============================================================================
