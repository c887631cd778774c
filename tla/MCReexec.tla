------------------------------ MODULE MCReexec -------------------------------
(***************************************************************************)
(* Claims about each of the fixtures.  Texts, in their order: 1 is "03",    *)
(* which int() and fromhex() both take, 2 the digest of the one byte 03,   *)
(* 3 "[1]" and 4 "x".  11 is a prime no float can hold.                    *)
(***************************************************************************)
EXTENDS Reexec, SequencesExt

int(n) == <<"int", n>>
text(x) == <<"str", x>>
list(seq) == <<"list", seq>>
None == <<"none", 0>>
True == <<"bool", 1>>
List1 == list(<<int(1)>>)

MCRepr == [v \in {list(<<int(1)>>)} |-> 3]
MCNumeral == [x \in {1} |-> 3]
MCBytes == [x \in {1} |-> "03"]
MCHex == [b \in {"03"} |-> 2]

Lists(S, n) == {list(s) : s \in BoundedSeq(S, n)}
MixedLists == Lists({int(1), int(2), True}, 3) \cup Lists({int(2), None, text(3), List1}, 2)
Claims == {int(n) : n \in -1..11} \cup {True, None, text(1), text(2), <<"float", 3>>, List1}

With(k, values) == {[x \in {k} |-> v] : v \in values}
NoInputs == {[x \in {} |-> 0]}

CasesOf(names, inputs, claims) == [name : names, inputs : inputs, claim : claims]

Number(k) == With(k, {int(n) : n \in -2..5} \cup {True, None, text(1), text(4)})
TwoAnd(k, values) == {[x \in {"n", k} |-> IF x = "n" THEN int(2) ELSE v] : v \in values}

MCCases ==
    CasesOf({"sum_range", "nth_prime", "slow_task", "unheard_of"}, NoInputs \cup Number("n"), Claims)
    \cup CasesOf({"slow_task"},
                 TwoAnd("sleep_s", {int(-1), int(0), int(4), None, text(1), text(4)}), Claims)
    \cup CasesOf({"flaky_task"}, TwoAnd("fail_times", {int(k) : k \in 0..2}), Claims)
    \cup CasesOf({"sort_list", "dedupe"}, With("items", MixedLists \cup {None}),
                 MixedLists \cup {text(3)})
    \cup CasesOf({"sha_blob"}, NoInputs \cup With("blob_hex", {text(1), text(4), int(1)}), Claims)
=============================================================================
