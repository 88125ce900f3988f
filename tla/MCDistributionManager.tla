------------------------ MODULE MCDistributionManager ------------------------
(* Instances of DistributionManager for TLC. *)
EXTENDS DistributionManager

CONSTANTS n1, n2

Budget(dials, losses, calls) == [dials |-> dials, losses |-> losses, calls |-> calls]

(* Two connections and nothing else, or one that may be lost and            *)
(* disconnected while the node is watched.                                  *)
ReplaceOrLose == {Budget(2, 0, 0), Budget(1, 1, 2)}

DialsOnly == {Budget(2, 0, 0)}
=============================================================================
