-------------------------- MODULE DistributionManager --------------------------
(***************************************************************************)
(* The connections between nodes: distribution/manager.rs, and the node    *)
(* monitors of distribution/monitor.rs.                                    *)
(*                                                                         *)
(* Each node keeps one entry per connected node.  A connection comes into  *)
(* the table by connect_to on one side and handle_incoming_connection on   *)
(* the other, which do not exclude each other; two loops per connection    *)
(* and the heartbeat take it out.  The tables are concurrent maps: a step  *)
(* is one access to `nodes`, and what the code does between two awaits is  *)
(* split where another thread can get in between.  The connection itself   *)
(* (quinn) is external: what is known of it here is at which ends it is    *)
(* still open.                                                             *)
(***************************************************************************)
EXTENDS Naturals, FiniteSets

CONSTANTS
    Node,
    Dialer,     \* bound: the nodes that call connect_to
    MaxConn,    \* bound: connections dialed
    Budgets     \* bounds: what a behaviour may have of dials, of ends that time
                \* out although nobody closed, and of other calls

ASSUME ManagerAssumption ==
    /\ Node # {} /\ Dialer \subseteq Node
    /\ MaxConn \in Nat
    /\ Budgets # {} /\ Budgets \subseteq [{"dials", "losses", "calls"} -> Nat]

Conn == 1 .. MaxConn
NoConn == 0

VARIABLES
    budget,      \* what is left of the budget
    nextConn,    \* the connection that is dialed next
    from, to,    \* who dialed a connection, and whom
    open,        \* the ends at which a connection is open
    calling,     \* connect_to: how far the dialing end is
    accepting,   \* handle_incoming_connection: how far the other end is
    nodes,       \* DistributionManager.nodes
    addrToNode,  \* addr_to_node: the nodes connect_to takes for connected
    sender, receiver,  \* message_sender_loop and message_receiver_loop
    on,          \* the connection a receiver loop has cloned and waits on
    suspects,    \* heartbeat_loop: nodes_to_check that were timed out
    dropping,    \* removals of an entry whose clean up is still to be done
    watching     \* NodeMonitorRegistry.local_monitors: the watched nodes

linkVars == <<from, to, open>>
shakeVars == <<calling, accepting>>
loopVars == <<sender, receiver, on>>
tableVars == <<nodes, addrToNode>>
monitorVars == <<suspects, dropping, watching>>
counters == <<budget, nextConn>>
vars == <<counters, linkVars, shakeVars, tableVars, loopVars, monitorVars>>

Calling == {"none", "hello", "checked", "done"}
Accepting == {"none", "hello", "accepted", "welcomed", "done", "failed"}
Loop == {"none", "run", "closing"}

TypeOK ==
    /\ budget \in [{"dials", "losses", "calls"} -> Nat]
    /\ nextConn \in 1 .. MaxConn + 1
    /\ from \in [Conn -> Node] /\ to \in [Conn -> Node]
    /\ open \in [Conn -> SUBSET Node]
    /\ calling \in [Conn -> Calling] /\ accepting \in [Conn -> Accepting]
    /\ nodes \in [Node -> [Node -> Conn \cup {NoConn}]]
    /\ addrToNode \in [Node -> SUBSET Node]
    /\ sender \in [Node -> [Conn -> Loop]] /\ receiver \in [Node -> [Conn -> Loop]]
    /\ on \in [Node -> [Conn -> Conn \cup {NoConn}]]
    /\ suspects \in [Node -> SUBSET Node]
    /\ dropping \in [Node -> [Node -> Nat]]
    /\ watching \in [Node -> SUBSET Node]

Init ==
    /\ budget \in Budgets /\ nextConn = 1
    /\ from = [c \in Conn |-> CHOOSE n \in Node : TRUE] /\ to = from
    /\ open = [c \in Conn |-> {}]
    /\ calling = [c \in Conn |-> "none"] /\ accepting = calling
    /\ nodes = [n \in Node |-> [m \in Node |-> NoConn]]
    /\ addrToNode = [n \in Node |-> {}]
    /\ sender = [n \in Node |-> [c \in Conn |-> "none"]] /\ receiver = sender
    /\ on = [n \in Node |-> [c \in Conn |-> NoConn]]
    /\ suspects = addrToNode /\ watching = addrToNode
    /\ dropping = [n \in Node |-> [m \in Node |-> 0]]

Ends(c) == IF c < nextConn THEN {from[c], to[c]} ELSE {}
Peer(n, c) == IF n = from[c] THEN to[c] ELSE from[c]

Closed(n, c) == c # NoConn /\ n \notin open[c]

Spend(what) ==
    /\ budget[what] > 0
    /\ budget' = [budget EXCEPT ![what] = @ - 1]

(* A handle to the connection is alive at n.                               *)
Holds(n, c) ==
    \/ nodes[n][Peer(n, c)] = c
    \/ \E d \in Conn : on[n][d] = c
    \/ n = from[c] /\ calling[c] \in {"hello", "checked"}
    \/ n = to[c] /\ accepting[c] \in {"hello", "accepted", "welcomed"}

-----------------------------------------------------------------------------
(* connect_to: it refuses an address it knows to be connected, dials and   *)
(* sends Hello.                                                            *)
ConnectTo(n, m) ==
    LET c == nextConn IN
    /\ n \in Dialer /\ n # m
    /\ m \notin addrToNode[n]
    /\ c \in Conn /\ Spend("dials")
    /\ nextConn' = c + 1
    /\ from' = [from EXCEPT ![c] = n]
    /\ to' = [to EXCEPT ![c] = m]
    /\ open' = [open EXCEPT ![c] = {n, m}]
    /\ calling' = [calling EXCEPT ![c] = "hello"]
    /\ accepting' = [accepting EXCEPT ![c] = "hello"]
    /\ UNCHANGED <<tableVars, loopVars, monitorVars>>

(* Welcome came: is there a connection to this node by now?                *)
Welcomed(c) ==
    LET n == from[c] IN
    /\ calling[c] = "hello"
    /\ n \in open[c] /\ accepting[c] \in {"welcomed", "done"}
    /\ \/ /\ nodes[n][to[c]] # NoConn
          /\ open' = [open EXCEPT ![c] = @ \ {n}]
          /\ calling' = [calling EXCEPT ![c] = "done"]
       \/ /\ nodes[n][to[c]] = NoConn
          /\ calling' = [calling EXCEPT ![c] = "checked"]
          /\ UNCHANGED open
    /\ UNCHANGED <<counters, from, to, accepting, tableVars, loopVars, monitorVars>>

NotWelcomed(c) ==
    /\ calling[c] = "hello" /\ from[c] \notin open[c]
    /\ calling' = [calling EXCEPT ![c] = "done"]
    /\ UNCHANGED <<counters, linkVars, accepting, tableVars, loopVars, monitorVars>>

(* Mutant of Insert: the sender loop is not spawned. *)
InsertNoSender(n, c) ==
    /\ nodes' = [nodes EXCEPT ![n][Peer(n, c)] = c]
    /\ addrToNode' = [addrToNode EXCEPT ![n] = @ \cup {Peer(n, c)}]
    /\ receiver' = [receiver EXCEPT ![n][c] = "run"]
    /\ UNCHANGED <<counters, linkVars, sender, on, monitorVars>>

(* The connection goes into the tables and its two loops are spawned.      *)
Insert(n, c) ==
    /\ nodes' = [nodes EXCEPT ![n][Peer(n, c)] = c]
    /\ addrToNode' = [addrToNode EXCEPT ![n] = @ \cup {Peer(n, c)}]
    /\ sender' = [sender EXCEPT ![n][c] = "run"]
    /\ receiver' = [receiver EXCEPT ![n][c] = "run"]
    /\ UNCHANGED <<counters, linkVars, on, monitorVars>>

ConnectInsert(c) ==
    /\ calling[c] = "checked"
    /\ calling' = [calling EXCEPT ![c] = "done"]
    /\ Insert(from[c], c)
    /\ UNCHANGED accepting

(* handle_incoming_connection, once Hello came: an entry that is already   *)
(* there goes, with its connection, and nobody is told.                    *)
AcceptHello(c) ==
    LET n == to[c]
        old == nodes[n][from[c]] IN
    /\ accepting[c] = "hello" /\ n \in open[c]
    /\ accepting' = [accepting EXCEPT ![c] = "accepted"]
    /\ \/ /\ old # NoConn
          /\ nodes' = [nodes EXCEPT ![n][from[c]] = NoConn]
          /\ addrToNode' = [addrToNode EXCEPT ![n] = @ \ {from[c]}]
          /\ open' = [open EXCEPT ![old] = @ \ {n}]
       \/ old = NoConn /\ UNCHANGED <<tableVars, open>>
    /\ UNCHANGED <<counters, from, to, calling, loopVars, monitorVars>>

(* The handler returns early when Hello does not come or Welcome cannot be *)
(* sent.                                                                   *)
SendWelcome(c) ==
    /\ accepting[c] = "accepted" /\ to[c] \in open[c]
    /\ accepting' = [accepting EXCEPT ![c] = "welcomed"]
    /\ UNCHANGED <<counters, linkVars, calling, tableVars, loopVars, monitorVars>>

AcceptFails(c) ==
    /\ accepting[c] \in {"hello", "accepted"} /\ to[c] \notin open[c]
    /\ accepting' = [accepting EXCEPT ![c] = "failed"]
    /\ UNCHANGED <<counters, linkVars, calling, tableVars, loopVars, monitorVars>>

AcceptInsert(c) ==
    /\ accepting[c] = "welcomed"
    /\ accepting' = [accepting EXCEPT ![c] = "done"]
    /\ Insert(to[c], c)
    /\ UNCHANGED calling

Handshake(c) ==
    \/ Welcomed(c) \/ NotWelcomed(c) \/ ConnectInsert(c)
    \/ AcceptHello(c) \/ SendWelcome(c) \/ AcceptFails(c) \/ AcceptInsert(c)

-----------------------------------------------------------------------------
(* The loops take an entry for their own connection when its address is    *)
(* the one they were spawned with.  A node has one endpoint, so all its    *)
(* connections have the same address.                                      *)
SameAddress(n, c) == nodes[n][Peer(n, c)] # NoConn

(* Mutant of Remove: the node monitors are not notified. *)
RemoveUntold(n, m) ==
    /\ nodes' = [nodes EXCEPT ![n][m] = NoConn]
    /\ UNCHANGED dropping

(* The entry goes; the address and the monitors follow (CleanUp).          *)
Remove(n, m) ==
    /\ nodes' = [nodes EXCEPT ![n][m] = NoConn]
    /\ dropping' = [dropping EXCEPT ![n][m] = @ + 1]

(* Mutant of LoopEnds: the loop is left without a clean up. *)
LoopEndsOnly(n, c) ==
    UNCHANGED <<counters, linkVars, shakeVars, tableVars, monitorVars>>

LoopEnds(n, c) ==
    /\ \/ SameAddress(n, c) /\ Remove(n, Peer(n, c))
       \/ ~SameAddress(n, c) /\ UNCHANGED <<nodes, dropping>>
    /\ UNCHANGED <<counters, linkVars, shakeVars, addrToNode, suspects, watching>>

(* message_sender_loop ends when its queue went with the entry, or when a  *)
(* message cannot be sent.                                                 *)
SenderEnds(n, c) ==
    /\ sender[n][c] = "run"
    /\ nodes[n][Peer(n, c)] # c \/ Closed(n, c)
    /\ sender' = [sender EXCEPT ![n][c] = "none"]
    /\ LoopEnds(n, c)
    /\ UNCHANGED <<receiver, on>>

(* message_receiver_loop clones the connection of the entry and waits on   *)
(* it with no lock held.  It looks again when a message came and was       *)
(* handled; without an entry, or with a closed connection, it ends.        *)
ReceiverLooks(n, c) ==
    /\ receiver[n][c] = "run"
    /\ ~Closed(n, on[n][c])
    /\ on' = [on EXCEPT ![n][c] = nodes[n][Peer(n, c)]]
    /\ \/ SameAddress(n, c) /\ UNCHANGED receiver
       \/ ~SameAddress(n, c) /\ receiver' = [receiver EXCEPT ![n][c] = "closing"]
    /\ UNCHANGED <<counters, linkVars, shakeVars, tableVars, sender, monitorVars>>

ReceiverEnds(n, c) ==
    /\ \/ receiver[n][c] = "closing"
       \/ receiver[n][c] = "run" /\ Closed(n, on[n][c])
    /\ receiver' = [receiver EXCEPT ![n][c] = "none"]
    /\ on' = [on EXCEPT ![n][c] = NoConn]
    /\ LoopEnds(n, c)
    /\ UNCHANGED sender

(* What follows a removal: addr_to_node, then notify_node_down.            *)
CleanUp(n, m) ==
    /\ dropping[n][m] > 0
    /\ dropping' = [dropping EXCEPT ![n][m] = @ - 1]
    /\ addrToNode' = [addrToNode EXCEPT ![n] = @ \ {m}]
    /\ watching' = [watching EXCEPT ![n] = @ \ {m}]
    /\ UNCHANGED <<counters, linkVars, shakeVars, nodes, loopVars, suspects>>

-----------------------------------------------------------------------------
(* heartbeat_loop first collects who timed out, then disconnects them.     *)
Suspect(n, m) ==
    LET c == nodes[n][m] IN
    /\ c # NoConn /\ m \notin suspects[n]
    /\ Spend("losses")
    /\ suspects' = [suspects EXCEPT ![n] = @ \cup {m}]
    /\ UNCHANGED <<nextConn, linkVars, shakeVars, tableVars, loopVars, dropping, watching>>

Disconnect(n, m) ==
    LET c == nodes[n][m] IN
    /\ c # NoConn
    /\ Remove(n, m)
    /\ open' = [open EXCEPT ![c] = @ \ {n}]

HeartbeatTimeout(n, m) ==
    /\ m \in suspects[n]
    /\ suspects' = [suspects EXCEPT ![n] = @ \ {m}]
    /\ \/ Disconnect(n, m)
       \/ nodes[n][m] = NoConn /\ UNCHANGED <<nodes, dropping, open>>
    /\ UNCHANGED <<counters, from, to, shakeVars, addrToNode, loopVars, watching>>

DisconnectFrom(n, m) ==
    /\ Spend("calls")
    /\ Disconnect(n, m)
    /\ UNCHANGED <<nextConn, from, to, shakeVars, addrToNode, loopVars, suspects, watching>>

(* monitor_node does not ask whether the node is connected.                *)
MonitorNode(n, m) ==
    /\ Spend("calls")
    /\ n # m
    /\ watching' = [watching EXCEPT ![n] = @ \cup {m}]
    /\ UNCHANGED <<nextConn, linkVars, shakeVars, tableVars, loopVars, suspects, dropping>>

DemonitorNode(n, m) ==
    /\ Spend("calls")
    /\ m \in watching[n]
    /\ watching' = [watching EXCEPT ![n] = @ \ {m}]
    /\ UNCHANGED <<nextConn, linkVars, shakeVars, tableVars, loopVars, suspects, dropping>>

-----------------------------------------------------------------------------
(* quinn: an end closes when its last handle goes, when the other end has  *)
(* closed, or by a timeout of its own.                                     *)
CloseEnd(n, c) ==
    /\ n \in open[c]
    /\ open' = [open EXCEPT ![c] = @ \ {n}]
    /\ UNCHANGED <<nextConn, from, to, shakeVars, tableVars, loopVars, monitorVars>>

Dropped(n, c) == ~Holds(n, c) /\ CloseEnd(n, c) /\ UNCHANGED budget

PeerClosed(n, c) == Peer(n, c) \notin open[c] /\ CloseEnd(n, c) /\ UNCHANGED budget

Lose(n, c) == Spend("losses") /\ CloseEnd(n, c)

-----------------------------------------------------------------------------
ReceiverLoop(n, c) ==
    n \in Ends(c) /\ (ReceiverLooks(n, c) \/ ReceiverEnds(n, c))

Quinn(n, c) ==
    n \in Ends(c) /\ (Dropped(n, c) \/ PeerClosed(n, c) \/ Lose(n, c))

User(n, m) ==
    ConnectTo(n, m) \/ DisconnectFrom(n, m) \/ MonitorNode(n, m) \/ DemonitorNode(n, m)

Next ==
    \/ \E n, m \in Node :
          User(n, m) \/ Suspect(n, m) \/ HeartbeatTimeout(n, m) \/ CleanUp(n, m)
    \/ \E c \in Conn : Handshake(c)
    \/ \E n \in Node, c \in Conn : (n \in Ends(c) /\ SenderEnds(n, c)) \/ ReceiverLoop(n, c) \/ Quinn(n, c)

Spec == Init /\ [][Next]_vars

(* A receiver loop has something to wake up for: it looks at the table, its *)
(* connection is closed, or the other end has it in its table and pings.   *)
Awake(n, c) ==
    LET d == on[n][c] IN
    d # NoConn => Closed(n, d) \/ nodes[Peer(n, d)][n] = d

(* What goes on by itself: a task that is woken runs on, and the close of  *)
(* a connection reaches its other end.                                     *)
Progress ==
    \/ \E n, m \in Node : HeartbeatTimeout(n, m) \/ CleanUp(n, m)
    \/ \E c \in Conn : Handshake(c)
    \/ \E n \in Node, c \in Conn :
          /\ n \in Ends(c)
          /\ \/ SenderEnds(n, c)
             \/ Awake(n, c) /\ ReceiverLoop(n, c)
             \/ Dropped(n, c) \/ PeerClosed(n, c)

(* Callers, timeouts and losses owe nothing.                               *)
FairSpec == Spec /\ WF_vars(Progress)

-----------------------------------------------------------------------------
(* Both loops of the connection in an entry are still there, so somebody    *)
(* will see it close: nothing in the table is left unattended.             *)
Attended ==
    \A n, m \in Node, c \in Conn :
        nodes[n][m] = c =>
            /\ n \in Ends(c) /\ m = Peer(n, c)
            /\ sender[n][c] = "run" /\ receiver[n][c] # "none"

(* Left alone, two nodes come to agree on the connection they have, and it *)
(* is an open one: no close is missed by the loops of the other end.       *)
EndsAgree ==
    []<>(\A n, m \in Node, c \in Conn :
            nodes[n][m] = c => open[c] = {n, m} /\ nodes[m][n] = c)

(* One of the loops spawned for a connection stops.                        *)
LoopStops(n, c) ==
    \/ sender[n][c] # "none" /\ sender'[n][c] = "none"
    \/ receiver[n][c] # "none" /\ receiver'[n][c] = "none"

(* A loop removes the entry of its own connection only: message_sender_loop *)
(* and message_receiver_loop skip the clean up after a replacement.        *)
NoForeignCleanUp ==
    [][\A n \in Node, c \in Conn :
          LoopStops(n, c) => \A m \in Node : nodes'[n][m] # nodes[n][m] => nodes[n][m] = c]_vars

(* monitor_node's promise: who watches a node while it is connected hears   *)
(* when it is not any more.  The exception is a replacement that took the  *)
(* old entry and then failed before it put in its own.                     *)
DisconnectNoticed ==
    \A n \in Node : \A m \in Node \ {n} :
        []((m \in watching[n] /\ nodes[n][m] # NoConn)
           => \/ <>(m \notin watching[n])
              \/ []<>(nodes[n][m] # NoConn)
              \/ <>(\E c \in Conn : to[c] = n /\ accepting[c] = "failed"))
=============================================================================
