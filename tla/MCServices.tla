----------------------------- MODULE MCServices -----------------------------
(* The services of a node for TLC.                                              *)
EXTENDS Services, SequencesExt

(* Three calls of a process of one node, or one call of one at each.         *)
PubSubBudgets == {("p" :> 3) @@ ("q" :> 0), ("p" :> 1) @@ ("q" :> 1)}

(* One order of each set of applications.                                    *)
DependencyLists == {SetToSeq(s) : s \in SUBSET App}

=============================================================================
