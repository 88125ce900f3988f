------------------------------ MODULE MCCluster -----------------------------
(* The cluster for TLC: the budgets of its components. *)
EXTENDS Cluster

(* A process of one node monitors, links, exits and loses the other; the     *)
(* budgets are the combinations that matter, kept apart.                     *)
MonitorsAndLinks ==
    {[monitors |-> 1, links |-> 0, losses |-> 1, exits |-> 1],
     [monitors |-> 0, links |-> 2, losses |-> 0, exits |-> 1],
     [monitors |-> 0, links |-> 1, losses |-> 1, exits |-> 1]}

(* Two calls and a loss, or one call, a loss and two connections.            *)
CallsAndConnects ==
    {[calls |-> 2, losses |-> 1, connects |-> 0], [calls |-> 1, losses |-> 1, connects |-> 2]}

(* What a BEAM node sends: payloads and requests together, or signals.       *)
PayloadsAndSignals ==
    {[payloads |-> 2, requests |-> 0, signals |-> 1],
     [payloads |-> 0, requests |-> 2, signals |-> 0],
     [payloads |-> 1, requests |-> 1, signals |-> 0],
     [payloads |-> 0, requests |-> 0, signals |-> 3]}

(* One connection is dialed, one lost, and there are two other calls.        *)
OneDial == {[dials |-> 1, losses |-> 1, calls |-> 2]}

=============================================================================
