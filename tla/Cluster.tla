------------------------------- MODULE Cluster ------------------------------
(* The parts of a cluster of two nodes, and a server that is stopped: the       *)
(* requests of RemoteSpawn, and each of the others in an instance of its own.   *)
(* In the code they share the runtime and the connections, which each module    *)
(* has as far as it needs them, and nothing else: a behaviour is one of the     *)
(* component in focus.                                                          *)
EXTENDS RemoteSpawn, Sequences

CONSTANTS
    Focus,                                   \* the components of a run
    ProcA, ProcB,                            \* the processes of the two nodes
    RemoteBudgets, QueueCapacity,            \* RemoteProcess
    Group, GroupBudgets,                     \* ProcessGroups
    GlobalName, MaxRegisters, MaxNameLosses, \* GlobalRegistry
    BeamConn, Capacity,                      \* BeamLink
    DistNode, Dialer, MaxConn, DialBudgets,  \* DistributionManager
    BeamLocal, BeamPeer, BeamBudgets,        \* BeamMessages
    Server, Client, MaxCalls, MaxSends, MaxLater   \* GenServer

VARIABLE focus  \* the component of a behaviour

VARIABLES
    rp_up, rp_cleaning, rp_wire, rp_handling, rp_outgoing, rp_incoming, rp_links,
    rp_trackedOut, rp_trackedIn, rp_trackedLinks, rp_call, rp_status, rp_why,
    rp_trapping, rp_downs, rp_budget, rp_lost

Rem == INSTANCE RemoteProcess WITH
    up <- rp_up, cleaning <- rp_cleaning, wire <- rp_wire, handling <- rp_handling,
    outgoing <- rp_outgoing, incoming <- rp_incoming, links <- rp_links,
    trackedOut <- rp_trackedOut, trackedIn <- rp_trackedIn,
    trackedLinks <- rp_trackedLinks, call <- rp_call, status <- rp_status,
    why <- rp_why, trapping <- rp_trapping, downs <- rp_downs, budget <- rp_budget,
    lost <- rp_lost, Budgets <- RemoteBudgets, Capacity <- QueueCapacity
rpVars ==
    <<rp_up, rp_cleaning, rp_wire, rp_handling, rp_outgoing, rp_incoming, rp_links,
      rp_trackedOut, rp_trackedIn, rp_trackedLinks, rp_call, rp_status, rp_why,
      rp_trapping, rp_downs, rp_budget, rp_lost>>

VARIABLES
    pg_groups, pg_listed, pg_reverse, pg_at, pg_up, pg_wire, pg_budget

Grp == INSTANCE ProcessGroups WITH
    groups <- pg_groups, listed <- pg_listed, reverse <- pg_reverse, at <- pg_at,
    up <- pg_up, wire <- pg_wire, budget <- pg_budget, Budgets <- GroupBudgets
pgVars ==
    <<pg_groups, pg_listed, pg_reverse, pg_at, pg_up, pg_wire, pg_budget>>

VARIABLES
    gr_names, gr_doing, gr_syncing, gr_up, gr_wire, gr_registers, gr_losses, gr_told,
    gr_taken

Glo == INSTANCE GlobalRegistry WITH
    names <- gr_names, doing <- gr_doing, syncing <- gr_syncing, up <- gr_up,
    wire <- gr_wire, registers <- gr_registers, losses <- gr_losses, told <- gr_told,
    taken <- gr_taken,
    PidA <- ProcA, PidB <- ProcB, Name <- GlobalName, MaxLosses <- MaxNameLosses
grVars ==
    <<gr_names, gr_doing, gr_syncing, gr_up, gr_wire, gr_registers, gr_losses, gr_told,
      gr_taken>>

VARIABLES
    bl_stage, bl_entry, bl_queue, bl_sender, bl_receiver, bl_inbound

Beam == INSTANCE BeamLink WITH
    stage <- bl_stage, entry <- bl_entry, queue <- bl_queue, sender <- bl_sender,
    receiver <- bl_receiver, inbound <- bl_inbound, Conn <- BeamConn
blVars ==
    <<bl_stage, bl_entry, bl_queue, bl_sender, bl_receiver, bl_inbound>>

VARIABLES
    dm_budget, dm_nextConn, dm_from, dm_to, dm_open, dm_calling, dm_accepting, dm_nodes,
    dm_addrToNode, dm_sender, dm_receiver, dm_on, dm_suspects, dm_dropping, dm_watching

Mgr == INSTANCE DistributionManager WITH
    budget <- dm_budget, nextConn <- dm_nextConn, from <- dm_from, to <- dm_to,
    open <- dm_open, calling <- dm_calling, accepting <- dm_accepting,
    nodes <- dm_nodes, addrToNode <- dm_addrToNode, sender <- dm_sender,
    receiver <- dm_receiver, on <- dm_on, suspects <- dm_suspects,
    dropping <- dm_dropping, watching <- dm_watching,
    Node <- DistNode, Budgets <- DialBudgets
dmVars ==
    <<dm_budget, dm_nextConn, dm_from, dm_to, dm_open, dm_calling, dm_accepting,
      dm_nodes, dm_addrToNode, dm_sender, dm_receiver, dm_on, dm_suspects, dm_dropping,
      dm_watching>>

VARIABLES
    bm_wire, bm_receiver, bm_handling, bm_answers, bm_status, bm_trapping,
    bm_named, bm_inbox, bm_links, bm_monitors, bm_budget, bm_sent, bm_linked,
    bm_ended, bm_told

Msg == INSTANCE BeamMessages WITH
    wire <- bm_wire, receiver <- bm_receiver, handling <- bm_handling,
    answers <- bm_answers, status <- bm_status, trapping <- bm_trapping,
    named <- bm_named, inbox <- bm_inbox, links <- bm_links,
    monitors <- bm_monitors, budget <- bm_budget, sent <- bm_sent,
    linked <- bm_linked, ended <- bm_ended, told <- bm_told,
    Local <- BeamLocal, Peer <- BeamPeer, Budgets <- BeamBudgets
bmVars ==
    <<bm_wire, bm_receiver, bm_handling, bm_answers, bm_status, bm_trapping,
      bm_named, bm_inbox, bm_links, bm_monitors, bm_budget, bm_sent,
      bm_linked, bm_ended, bm_told>>

VARIABLES
    gs_phase, gs_started, gs_name, gs_mailbox, gs_later, gs_deferred,
    gs_nextCall, gs_sends, gs_scheduled, gs_from, gs_waiting, gs_inbox,
    gs_outcome, gs_served

Gen == INSTANCE GenServer WITH
    phase <- gs_phase, started <- gs_started, name <- gs_name,
    mailbox <- gs_mailbox, later <- gs_later, deferred <- gs_deferred,
    nextCall <- gs_nextCall, sends <- gs_sends, scheduled <- gs_scheduled,
    from <- gs_from, waiting <- gs_waiting, inbox <- gs_inbox,
    outcome <- gs_outcome, served <- gs_served
gsVars ==
    <<gs_phase, gs_started, gs_name, gs_mailbox, gs_later, gs_deferred,
      gs_nextCall, gs_sends, gs_scheduled, gs_from, gs_waiting, gs_inbox,
      gs_outcome, gs_served>>

clusterVars ==
    <<focus, rpVars, pgVars, grVars, blVars, dmVars, bmVars, gsVars, vars>>

(* The mark for "no process" is not among the processes of the two nodes.      *)
ASSUME PidAssumption == Glo!NoPid \notin Glo!Pid

(* A process is on one node.                                                    *)
ASSUME NodesAssumption == ProcA \cap ProcB = {}

(* The bounds of the remote links and monitors, and the room of a queue.        *)
ASSUME RemoteAssumption ==
    /\ RemoteBudgets \subseteq [monitors : Nat, links : Nat, losses : Nat, exits : Nat]
    /\ QueueCapacity \in Nat

(* The room of the channel of a BEAM connection, and the mark for "no entry in   *)
(* the table".                                                                  *)
ASSUME LinkAssumption == Capacity \in Nat /\ Beam!NoConn \notin BeamConn

(* "nobody" is not among the processes a BEAM node sends to, and the bounds of    *)
(* what it sends.                                                               *)
ASSUME BeamAssumption ==
    /\ Msg!Nobody \notin BeamLocal
    /\ BeamBudgets \subseteq [payloads : Nat, requests : Nat, signals : Nat]

(* The components that are not in focus stay in one initial state. *)
ClusterInit ==
    /\ focus \in Focus
    /\ Rem!Init
    /\ \/ focus = "remote"
       \/ rp_trapping = {} /\ rp_budget = CHOOSE b \in RemoteBudgets : TRUE
    /\ Grp!Init
    /\ \/ focus = "groups"
       \/ pg_up = [n \in DOMAIN pg_up |-> TRUE] /\ pg_budget = CHOOSE b \in GroupBudgets : TRUE
    /\ Glo!Init
    /\ Init
    /\ \/ focus = "spawn"
       \/ function /\ kind = CHOOSE k \in [Call -> Kind] : TRUE
    /\ Beam!Init
    /\ Mgr!Init
    /\ Msg!Init
    /\ \/ focus = "messages"
       \/ /\ bm_status = [p \in DOMAIN bm_status |-> "alive"] /\ bm_trapping = {}
          /\ bm_named = "nobody" /\ bm_budget = CHOOSE b \in BeamBudgets : TRUE
    /\ Gen!Init

ClusterNext ==
    \/ focus = "remote" /\ Rem!Next
       /\ UNCHANGED <<focus, pgVars, grVars, vars, blVars, dmVars, bmVars, gsVars>>
    \/ focus = "groups" /\ Grp!Next
       /\ UNCHANGED <<focus, rpVars, grVars, vars, blVars, dmVars, bmVars, gsVars>>
    \/ focus = "global" /\ Glo!Next
       /\ UNCHANGED <<focus, rpVars, pgVars, vars, blVars, dmVars, bmVars, gsVars>>
    \/ focus = "spawn" /\ Next
       /\ UNCHANGED <<focus, rpVars, pgVars, grVars, blVars, dmVars, bmVars, gsVars>>
    \/ focus = "beam" /\ Beam!Next
       /\ UNCHANGED <<focus, rpVars, pgVars, grVars, vars, dmVars, bmVars, gsVars>>
    \/ focus = "nodes" /\ Mgr!Next
       /\ UNCHANGED <<focus, rpVars, pgVars, grVars, vars, blVars, bmVars, gsVars>>
    \/ focus = "messages" /\ Msg!Next
       /\ UNCHANGED <<focus, rpVars, pgVars, grVars, vars, blVars, dmVars, gsVars>>
    \/ focus = "stops" /\ Gen!Next
       /\ UNCHANGED <<focus, rpVars, pgVars, grVars, vars, blVars, dmVars, bmVars>>

ClusterSpec == ClusterInit /\ [][ClusterNext]_clusterVars

(* The loops of the connection manager and the tasks of the servers go on    *)
(* while they can.                                                           *)
ClusterFairSpec ==
    /\ ClusterSpec
    /\ WF_dmVars(focus = "nodes" /\ Mgr!Progress)
    /\ WF_gsVars(focus = "stops" /\ Gen!Progress)

-----------------------------------------------------------------------------
(* What the components promise. Each part is stated, with the code it is     *)
(* about, in the module of its component. One that is not in focus is in an   *)
(* initial state, of which there is nothing to say.                          *)

(* process_monitor.rs: nobody goes on waiting for a process of a node that    *)
(* was lost, and a monitor on a process that ended has its answer.           *)
RemoteSafe == focus = "remote" => Rem!TypeOK /\ Rem!NoWaitForLostNode /\ Rem!MonitorAnswered

(* pg.rs: a group has no member that nothing will take out of it.            *)
GroupsSafe == focus = "groups" => Grp!TypeOK /\ Grp!NoStrayMember

(* global.rs: nodes that are connected come to know each other's names.      *)
GlobalSafe == focus = "global" => Glo!TypeOK /\ Glo!EveryNodeKnows

(* manager.rs, of a BEAM peer: the sender task is not passed over by the      *)
(* receiver task at the mutex of their connection.                           *)
SenderHasItsTurn == Beam!SenderHasItsTurn

(* manager.rs, of a BEAM peer: its messages take effect in the order they     *)
(* were sent, both nodes agree on the links, and an exit is felt.            *)
BeamSafe == focus = "messages" => Msg!TypeOK /\ Msg!InOrder /\ Msg!LinksAgree /\ Msg!ExitFelt

(* manager.rs: every process that watches a node is told of its loss.        *)
DisconnectNoticed == Mgr!DisconnectNoticed

(* gen_server: a server that has a stop message to take ends.                *)
StopEnds == Gen!StopEnds

(* process_monitor.rs: "Normal exits don't propagate to non-trapping          *)
(* processes".                                                               *)
NormalExitHarmless == Rem!NormalExitHarmless

=============================================================================
