------------------------------- MODULE Presence -------------------------------
(***************************************************************************)
(* The replicated presence table: presence/crdt.rs, and the servers that   *)
(* exchange its deltas, presence/server.rs.                                *)
(*                                                                         *)
(* Every node runs one server.  What it depends on is kept as small as it  *)
(* can be told apart from here: the connections as each end sees them      *)
(* (distribution/manager.rs), the nodes whose server is in the local copy  *)
(* of the process group (distribution/pg.rs) and the node monitors         *)
(* (distribution/monitor.rs).  Two nodes exchange messages in order over a *)
(* wire; the receiver loop applies group messages to the group table and   *)
(* appends the others to the mailbox of the server.                        *)
(***************************************************************************)
EXTENDS Naturals, Sequences, FiniteSets

CONSTANTS
    Node,      \* nodes; a replica is named after its node
    Pid,       \* processes whose presence is tracked
    Topic, Key,
    Stable,    \* nodes whose servers run and know each other at the start
    MaxCalls,  \* bound: calls made to all servers together
    MaxStarts, \* bound: servers started later
    MaxDrops,  \* bound: connections given up by one end
    MaxEvents  \* bound: all of these together

ASSUME PresenceAssumption ==
    /\ Stable \subseteq Node
    /\ IsFiniteSet(Topic)
    /\ MaxCalls \in Nat /\ MaxStarts \in Nat /\ MaxDrops \in Nat /\ MaxEvents \in Nat

VARIABLES
    calls, drops,  \* counters of the bounds
    started,   \* nodes whose server completed its init
    up,        \* DistributionManager.nodes of each node
    members,   \* remote nodes in each node's copy of the pg group
    monitors,  \* NodeMonitorRegistry.local_monitors of each node
    monitored, \* Presence.monitored_nodes
    clock,     \* PresenceCrdt.clock
    context,   \* PresenceCrdt.context
    values,    \* PresenceCrdt.values: the tracked entries of each server
    pidIndex,  \* PresenceCrdt.pid_index
    wire,      \* wire[m][n]: what is on its way from m to n
    mailbox,   \* the mailbox of each server
    gone       \* history: tags each server has removed or was told to remove

netVars == <<started, up, members>>
crdtVars == <<clock, context, values, pidIndex>>
monitorVars == <<monitors, monitored>>
vars == <<calls, drops, netVars, crdtVars, monitorVars, wire, mailbox, gone>>

Tag == [replica : Node, clock : Nat \ {0}]
Slot == Topic \X Key
TrackedEntry == [slot : Slot, pid : Pid, tag : Tag]
Context == [Node -> Nat]
NoContext == [r \in Node |-> 0]

MessageType == {"delta", "sync_request", "sync_response", "member", "node_down"}
Message == [type : MessageType, from : Node, joins : SUBSET TrackedEntry,
            leaves : SUBSET Tag, context : Context]

Delta(n, joins, leaves, ctx) ==
    [type |-> "delta", from |-> n, joins |-> joins, leaves |-> leaves, context |-> ctx]
SyncRequest(n, ctx) ==
    [type |-> "sync_request", from |-> n, joins |-> {}, leaves |-> {}, context |-> ctx]
SyncResponse(n, joins, ctx) ==
    [type |-> "sync_response", from |-> n, joins |-> joins, leaves |-> {}, context |-> ctx]
Plain(type, n) ==
    [type |-> type, from |-> n, joins |-> {}, leaves |-> {}, context |-> NoContext]

TypeOK ==
    /\ calls \in Nat /\ drops \in Nat
    /\ started \subseteq Node
    /\ up \in [Node -> SUBSET Node]
    /\ members \in [Node -> SUBSET Node]
    /\ monitors \in [Node -> SUBSET Node]
    /\ monitored \in [Node -> SUBSET Node]
    /\ clock \in Context
    /\ context \in [Node -> Context]
    /\ values \in [Node -> SUBSET TrackedEntry]
    /\ pidIndex \in [Node -> [Pid -> SUBSET Slot]]
    /\ wire \in [Node -> [Node -> Seq(Message)]]
    /\ mailbox \in [Node -> Seq(Message)]
    /\ gone \in [Node -> SUBSET Tag]

Others(n, S) == IF n \in S THEN S \ {n} ELSE {}

(* The stable nodes are connected, know each other's servers and monitor   *)
(* each other; the rest has neither a connection nor a server yet.         *)
Init ==
    /\ calls = 0 /\ drops = 0
    /\ started = Stable
    /\ up = [n \in Node |-> Others(n, Stable)]
    /\ members = up /\ monitors = up /\ monitored = up
    /\ clock = NoContext
    /\ context = [n \in Node |-> NoContext]
    /\ values = [n \in Node |-> {}]
    /\ pidIndex = [n \in Node |-> [p \in Pid |-> {}]]
    /\ wire = [m \in Node |-> [n \in Node |-> <<>>]]
    /\ mailbox = [n \in Node |-> <<>>]
    /\ gone = [n \in Node |-> {}]

-----------------------------------------------------------------------------
(* Sending: what is sent over a connection the other end has given up is   *)
(* lost, and so is what is sent to a node without a connection.            *)
Arrives(n, m) == m \in up[n] /\ n \in up[m]

Send(n, S, msgs) ==
    wire' = [wire EXCEPT ![n] =
        [m \in Node |-> IF m \in S /\ Arrives(n, m) THEN @[m] \o msgs ELSE @[m]]]

(* broadcast_crdt_delta: to the group members on other nodes. *)
Broadcast(n, msg) == Send(n, members[n], <<msg>>)

-----------------------------------------------------------------------------
(* The calls of PresenceCrdt, each with the delta that the server takes    *)
(* and broadcasts in the same handler.                                     *)
TagsOf(entries) == {e.tag : e \in entries}

Held(n, slot, p) == {e \in values[n] : e.slot = slot /\ e.pid = p}

(* What the bounds count; everything else follows from these events.       *)
Bounded == calls + drops + Cardinality(started \ Stable) < MaxEvents

Called == Bounded /\ calls < MaxCalls /\ calls' = calls + 1

NewEntry(n, slot, p) ==
    [slot |-> slot, pid |-> p, tag |-> [replica |-> n, clock |-> clock[n] + 1]]

(* What track() changes besides the values. *)
Stamp(n, slot, p) ==
    /\ clock' = [clock EXCEPT ![n] = @ + 1]
    /\ context' = [context EXCEPT ![n][n] = clock[n] + 1]
    /\ pidIndex' = [pidIndex EXCEPT ![n][p] = @ \cup {slot}]

Track(n, slot, p) ==
    /\ n \in started /\ Called
    /\ Stamp(n, slot, p)
    /\ values' = [values EXCEPT ![n] = @ \cup {NewEntry(n, slot, p)}]
    /\ Broadcast(n, Delta(n, {NewEntry(n, slot, p)}, {}, context'[n]))
    /\ UNCHANGED <<drops, netVars, monitorVars, mailbox, gone>>

(* Removes the presences of p at the slot, whichever replica they are of.  *)
Untrack(n, slot, p) ==
    LET removed == Held(n, slot, p) IN
    /\ n \in started /\ Called
    /\ values' = [values EXCEPT ![n] = @ \ removed]
    /\ gone' = [gone EXCEPT ![n] = @ \cup TagsOf(removed)]
    /\ pidIndex' = [pidIndex EXCEPT ![n][p] = @ \ {slot}]
    /\ IF removed = {} THEN UNCHANGED wire
       ELSE Broadcast(n, Delta(n, {}, TagsOf(removed), context[n]))
    /\ UNCHANGED <<drops, netVars, monitorVars, clock, context, mailbox>>

(* Finds the entries of p by way of the index only.  The one delta is      *)
(* broadcast once for every topic that lost an entry.                      *)
UntrackAll(n, p) ==
    LET removed == {e \in values[n] : e.pid = p /\ e.slot \in pidIndex[n][p]}
        delta == Delta(n, {}, TagsOf(removed), context[n])
        topics == {e.slot[1] : e \in removed}
    IN
    /\ n \in started /\ Called
    /\ values' = [values EXCEPT ![n] = @ \ removed]
    /\ gone' = [gone EXCEPT ![n] = @ \cup TagsOf(removed)]
    /\ pidIndex' = [pidIndex EXCEPT ![n][p] = {}]
    /\ Send(n, members[n], [i \in 1 .. Cardinality(topics) |-> delta])
    /\ UNCHANGED <<drops, netVars, monitorVars, clock, context, mailbox>>

(* Untrack and track under one delta. *)
Update(n, slot, p) ==
    LET removed == Held(n, slot, p) IN
    /\ n \in started /\ Called
    /\ Stamp(n, slot, p)
    /\ values' = [values EXCEPT ![n] = (@ \ removed) \cup {NewEntry(n, slot, p)}]
    /\ gone' = [gone EXCEPT ![n] = @ \cup TagsOf(removed)]
    /\ Broadcast(n, Delta(n, {NewEntry(n, slot, p)}, TagsOf(removed), context'[n]))
    /\ UNCHANGED <<drops, netVars, monitorVars, mailbox>>

-----------------------------------------------------------------------------
(* Merging.  Leaves are by tag.  Whether a join is news is asked of the    *)
(* context as it was before the merge, so that one delta may bring several *)
(* clocks of a replica in any order.                                       *)
Kept(n, msg) == {e \in values[n] : e.tag \notin msg.leaves}

(* Mutants of News: the context is raised before it is asked, and it is    *)
(* not asked at all.                                                       *)
NewsContextFirst(n, msg) ==
    {e \in msg.joins : e.tag.clock > msg.context[e.tag.replica]
                       /\ e.tag.clock > context[n][e.tag.replica]}
NewsNoContext(n, msg) == {e \in msg.joins : \A d \in Kept(n, msg) : d.tag # e.tag}

News(n, msg) == {e \in msg.joins : e.tag.clock > context[n][e.tag.replica]}

Later(a, b) == IF a > b THEN a ELSE b

(* Mutant of Indexed: the entries of others are not indexed. *)
IndexedOwn(n, entries) ==
    [p \in Pid |-> pidIndex[n][p]
        \cup {e.slot : e \in {d \in entries : d.pid = p /\ d.tag.replica = n}}]

Indexed(n, entries) ==
    [p \in Pid |-> pidIndex[n][p] \cup {e.slot : e \in {d \in entries : d.pid = p}}]

Merge(n, msg) ==
    /\ values' = [values EXCEPT ![n] = Kept(n, msg) \cup News(n, msg)]
    /\ pidIndex' = [pidIndex EXCEPT ![n] = Indexed(n, News(n, msg))]
    /\ context' = [context EXCEPT ![n] =
                      [r \in Node |-> Later(@[r], msg.context[r])]]
    /\ gone' = [gone EXCEPT ![n] = @ \cup msg.leaves]
    /\ UNCHANGED clock

-----------------------------------------------------------------------------
(* The handlers of the server. *)
Receive(n, type) ==
    /\ n \in started /\ mailbox[n] # <<>>
    /\ Head(mailbox[n]).type = type
    /\ mailbox' = [mailbox EXCEPT ![n] = Tail(@)]

Watch(n, S) ==
    /\ monitors' = [monitors EXCEPT ![n] = @ \cup S]
    /\ monitored' = [monitored EXCEPT ![n] = @ \cup S]

(* A join of a replica that is not monitored yet is answered with the      *)
(* entries held before the merge.                                          *)
HandleDelta(n) ==
    LET msg == Head(mailbox[n])
        new == {e.tag.replica : e \in msg.joins} \ (monitored[n] \cup {n})
    IN
    /\ Receive(n, "delta")
    /\ Watch(n, new)
    /\ IF values[n] = {} THEN UNCHANGED wire
       ELSE Send(n, new \cap members[n], <<Delta(n, values[n], {}, context[n])>>)
    /\ Merge(n, msg)
    /\ UNCHANGED <<calls, drops, netVars>>

(* extract(): what the requester's context does not cover. *)
Unseen(n, ctx) == {e \in values[n] : e.tag.clock > ctx[e.tag.replica]}

HandleSyncRequest(n) ==
    LET msg == Head(mailbox[n])
        joins == Unseen(n, msg.context)
    IN
    /\ Receive(n, "sync_request")
    /\ Watch(n, {msg.from} \ {n})
    /\ IF joins = {} THEN UNCHANGED wire
       ELSE Send(n, {msg.from}, <<SyncResponse(n, joins, context[n])>>)
    /\ UNCHANGED <<calls, drops, netVars, crdtVars, gone>>

HandleSyncResponse(n) ==
    /\ Receive(n, "sync_response")
    /\ Merge(n, Head(mailbox[n]))
    /\ UNCHANGED <<calls, drops, netVars, monitorVars, wire>>

(* remove_down_replica: neither the context nor the index is lowered. *)
HandleNodeDown(n) ==
    LET m == Head(mailbox[n]).from
        removed == {e \in values[n] : e.tag.replica = m}
    IN
    /\ Receive(n, "node_down")
    /\ values' = [values EXCEPT ![n] = @ \ removed]
    /\ gone' = [gone EXCEPT ![n] = @ \cup TagsOf(removed)]
    /\ monitored' = [monitored EXCEPT ![n] = @ \ {m}]
    /\ UNCHANGED <<calls, drops, netVars, monitors, clock, context, pidIndex, wire>>

(* complete_init: the members are read before joining the group; the join  *)
(* goes to every connected node, the request to every member.  All         *)
(* connected nodes are monitored.                                          *)
CompleteInit(n) ==
    /\ n \notin started
    /\ Bounded /\ Cardinality(started \ Stable) < MaxStarts
    /\ started' = started \cup {n}
    /\ Watch(n, members[n] \cup up[n])
    /\ wire' = [wire EXCEPT ![n] = [m \in Node |->
           IF ~Arrives(n, m) THEN @[m]
           ELSE Append(@[m], Plain("member", n))
                \o (IF m \in members[n] THEN <<SyncRequest(n, context[n])>> ELSE <<>>)]]
    /\ UNCHANGED <<calls, drops, up, members, crdtVars, mailbox, gone>>

-----------------------------------------------------------------------------
(* The connections. *)

(* The receiver loop of n takes what m sent. *)
Deliver(m, n) ==
    /\ m \in up[n]
    /\ wire[m][n] # <<>>
    /\ wire' = [wire EXCEPT ![m][n] = Tail(@)]
    /\ \/ /\ Head(wire[m][n]).type = "member"
          /\ members' = [members EXCEPT ![n] = @ \cup {m}]
          /\ UNCHANGED mailbox
       \/ /\ Head(wire[m][n]).type # "member"
          /\ mailbox' = [mailbox EXCEPT ![n] = Append(@, Head(wire[m][n]))]
          /\ UNCHANGED members
    /\ UNCHANGED <<calls, drops, started, up, crdtVars, monitorVars, gone>>

(* request_sync on a fresh connection pushes the local group members. *)
Greeting(n) == IF n \in started THEN <<Plain("member", n)>> ELSE <<>>

(* n connects to m.  An end that has not noticed the loss of the previous  *)
(* connection replaces it: its members go, its monitors are not told.      *)
Connect(n, m) ==
    /\ m \notin up[n] /\ m # n
    /\ up' = [up EXCEPT ![n] = @ \cup {m}, ![m] = @ \cup {n}]
    /\ members' = [members EXCEPT ![m] = @ \ {n}]
    /\ wire' = [wire EXCEPT ![n][m] = Greeting(n), ![m][n] = Greeting(m)]
    /\ UNCHANGED <<calls, drops, started, crdtVars, monitorVars, mailbox, gone>>

(* n gives up its connection to m, whether it asked for that or found it   *)
(* broken: monitors first, then the group.  What m sent is lost, of what n *)
(* sent a prefix may still arrive.                                         *)
Lose(n, m) ==
    /\ m \in up[n] /\ m # n
    /\ Bounded /\ drops < MaxDrops
    /\ drops' = drops + 1
    /\ up' = [up EXCEPT ![n] = @ \ {m}]
    /\ members' = [members EXCEPT ![n] = @ \ {m}]
    /\ monitors' = [monitors EXCEPT ![n] = @ \ {m}]
    /\ mailbox' = IF m \in monitors[n]
                  THEN [mailbox EXCEPT ![n] = Append(@, Plain("node_down", m))]
                  ELSE mailbox
    /\ \E k \in 0 .. Len(wire[n][m]) :
           wire' = [wire EXCEPT ![n][m] = SubSeq(@, 1, k), ![m][n] = <<>>]
    /\ UNCHANGED <<calls, started, monitored, crdtVars, gone>>

-----------------------------------------------------------------------------
Client(n) ==
    \E p \in Pid :
        \/ UntrackAll(n, p)
        \/ \E slot \in Slot : Track(n, slot, p) \/ Untrack(n, slot, p) \/ Update(n, slot, p)

Server(n) ==
    \/ CompleteInit(n)
    \/ HandleDelta(n) \/ HandleSyncRequest(n) \/ HandleSyncResponse(n)
    \/ HandleNodeDown(n)

Network(n, m) == Deliver(n, m) \/ Connect(n, m) \/ Lose(n, m)

Next ==
    \/ \E n \in Node : Client(n) \/ Server(n)
    \/ \E n, m \in Node : Network(n, m)

Spec == Init /\ [][Next]_vars

-----------------------------------------------------------------------------
(* A presence that a server removed, or was told to remove, never comes    *)
(* back to it: neither by a delta that was overtaken by the leave, nor by  *)
(* the full state another server still holds.                              *)
RemovedStaysRemoved == \A n \in Node : TagsOf(values[n]) \cap gone[n] = {}

(* untrack_all() looks a process up in the index only and misses no entry, *)
(* whoever tracked it: the index covers the entries of every process.      *)
IndexCovers == \A n \in Node : \A e \in values[n] : e.slot \in pidIndex[n][e.pid]

(* Nothing is on its way and the servers that run are connected.           *)
Quiet ==
    /\ \A n, m \in Node : wire[n][m] = <<>>
    /\ \A n, m \in started : n # m => n \in up[m]
    /\ \A n \in Node : mailbox[n] = <<>>

(* Two servers that stay connected agree on all entries once everything    *)
(* sent has been handled, whatever was called on them in which order.      *)
PairConverges ==
    Quiet /\ Cardinality(started) = 2 /\ drops = 0
    => \A n, m \in started : values[n] = values[m]

(* "This provides eventually consistent presence across the cluster":      *)
(* once everything sent has been handled, all servers hold the same        *)
(* entries.                                                                *)
Converges == Quiet /\ started = Node => \A n, m \in Node : values[n] = values[m]

=============================================================================
