----------------------------- MODULE MCAdversary -----------------------------
(***************************************************************************)
(* The scenarios, with every output that occurs in one.  The task of 50    *)
(* stands for the one of 1 000 000, which TLC's integers cannot square.    *)
(***************************************************************************)
EXTENDS Adversary

MCTasks == {TaskIdFor(s) : s \in AllSpecs}
MCVersions == {"1.0"}
MCPadded == <<IntValue(15), "pad">>
MCOversized == {MCPadded}
MCNoTexts == << >>

MCResults == {RunFixture(c[1], c[2], 1) : c \in Registry \X {s.inputs : s \in AllSpecs}}
MCClaims == (MCResults \ {Raised})
            \cup {Null, IntList(<<1, 3, 9, 5>>), IntList(<<9, 3, 7, 1, 3>>),
                  IntValue(0), IntValue(7), IntValue(15), IntValue(55)}
=============================================================================
