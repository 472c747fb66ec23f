---------------------------- MODULE MCNetworkScan ----------------------------
(***************************************************************************)
(* Instances of NetworkScan: a tree of blocks given by parents, and what   *)
(* the blocks hold.                                                        *)
(*                                                                         *)
(*    g0 - a1 - a2 - a3                                                    *)
(*           |\                                                            *)
(*           | b2 - b3                                                     *)
(*           c2                                                            *)
(***************************************************************************)
EXTENDS NetworkScan

CONSTANTS p1, p2, s1, s2

MCParent == [a1 |-> "g0", a2 |-> "a1", a3 |-> "a2", b2 |-> "a1", b3 |-> "b2", c2 |-> "a1"]
MCBlock == {"g0"} \cup DOMAIN MCParent
MCDepth == [b \in MCBlock |->
    LET depth[c \in MCBlock] == IF c = "g0" THEN 0 ELSE depth[MCParent[c]] + 1 IN depth[b]]
MCChain ==
    LET at[b \in MCBlock] == [h \in 0..3 |->
          IF h > MCDepth[b] THEN None ELSE IF h = MCDepth[b] THEN b ELSE at[MCParent[b]][h]]
    IN  at

\* p1 is in a2 and, on the other branch, in b3; p2 is in a2, and b2 spends
\* its inputs.
BothTx == {p1, p2}
BothHolds == [b \in MCBlock |->
    CASE b = "a2" -> {p1, p2} [] b = "b3" -> {p1} [] OTHER -> {}]
BothSpends == [b \in MCBlock |-> IF b = "b2" THEN {p2} ELSE {}]
EachOwner == [x \in BothTx |-> IF x = p1 THEN s1 ELSE s2]

\* p1 alone: moved to another block, or in the other branch only.
OneTx == {p1}
OneOwner == [x \in OneTx |-> s1]
MovedHolds == [b \in MCBlock |-> IF b \in {"a2", "b3"} THEN {p1} ELSE {}]
LateHolds == [b \in MCBlock |-> IF b = "b3" THEN {p1} ELSE {}]
NoSpends == [b \in MCBlock |-> {}]

\* p1 alone: in a2, in b3 too, and its inputs spent in c2.
RivalSpends == [b \in MCBlock |-> IF b = "c2" THEN {p1} ELSE {}]

Stores == {s1, s2}
OneStore == {s1}

Grow == {<<MCParent[b], b>> : b \in DOMAIN MCParent \ {"c2"}}
Replace == {<<"a2", "b3">>, <<"a2", "b2">>, <<"a3", "b3">>}
Return == {<<"b2", "a3">>, <<"b3", "a3">>, <<"b3", "a2">>}
OnceSwitches == Grow \cup Replace
RivalSwitches == OnceSwitches \cup {<<"a2", "c2">>, <<"b2", "c2">>}
AllSwitches == Grow \cup Replace \cup Return

\* What the theorems ask of the node holds without the moves of Return.
ASSUME OnceIsForGood == Return \cap Switches = {} => NeverReturns

AllUnits == {"idle", "open", "extend", "phase", "located", "judged", "rewind"}
=============================================================================
