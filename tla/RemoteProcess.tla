---------------------------- MODULE RemoteProcess ----------------------------
(***************************************************************************)
(* distribution/process_monitor.rs and its part of manager.rs: monitors    *)
(* and links between processes of two nodes.                               *)
(*                                                                         *)
(* A call of monitor_process() or link_process() runs in the caller's task *)
(* and touches the table, the tracking of the node and the queue to the    *)
(* node one after another; meanwhile the connection may be lost, cleaned   *)
(* up after and made anew by other tasks.  What a node keeps of links in   *)
(* the handles of its processes decides nothing and is left out; the lists *)
(* of node_tracking are sets here.                                         *)
(***************************************************************************)
EXTENDS Naturals, Sequences, FiniteSets

CONSTANTS
    ProcA, ProcB,  \* the processes of the one and of the other node
    Budgets,       \* bounds of the behaviours: monitors made, calls of link_process()
                   \* and unlink_process(), losses of the connection noticed, exits
    Capacity       \* messages the queue to a node holds

Node == {"a", "b"}
Process == ProcA \cup ProcB
Home(p) == IF p \in ProcA THEN "a" ELSE "b"
Peer(n) == IF n = "a" THEN "b" ELSE "a"
Remote(p) == IF p \in ProcA THEN ProcB ELSE ProcA
Pair == (ProcA \X ProcB) \cup (ProcB \X ProcA)
Monitor == [by : Process, of : Process, ref : Nat]
Reason == {"normal", "error", "killed", "noproc"}
Message ==
    ({"MonitorProcess", "DemonitorProcess"} \X Monitor) \cup ({"ProcessDown"} \X Monitor \X Reason)
        \cup ({"Link", "Unlink"} \X Pair) \cup ({"Exit"} \X Pair \X Reason)
NoCall == <<>>

VARIABLES
    up,          \* the node has an entry for its peer in `nodes'
    cleaning,    \* a lost connection whose process tables are not yet cleaned
    wire,        \* messages a node has sent on the present connection
    handling,    \* the message a node is in the middle of handling
    outgoing, incoming, links,             \* the tables of both nodes
    trackedOut, trackedIn, trackedLinks,   \* node_tracking of both nodes
    call,        \* what is left to do of the call each process is in
    status,      \* how far the exit of each process has come
    why,         \* the reason it left with
    trapping,    \* processes that trap exits
    downs,       \* DOWN messages delivered
    budget,      \* what is left of the bounds; its monitors number the references
    lost         \* history: a connection or a message was lost

netVars == <<up, cleaning>>
wireVars == <<wire, lost>>
monitorVars == <<outgoing, incoming, trackedOut, trackedIn>>
linkVars == <<links, trackedLinks>>
procVars == <<status, why, trapping, downs>>
vars == <<netVars, budget, wireVars, handling, call, monitorVars, linkVars, procVars>>

TypeOK ==
    /\ up \in [Node -> BOOLEAN] /\ cleaning \in [Node -> BOOLEAN]
    /\ wire \in [Node -> Seq(Message)] /\ \A n \in Node : Len(wire[n]) <= Capacity
    /\ handling \in [Node -> {<<>>} \cup ({"MonitorProcess"} \X Monitor) \cup ({"Link"} \X Pair)]
    /\ call \in [Process -> {NoCall} \cup ({"track_monitor", "send_monitor"} \X Monitor)
                              \cup ({"track_link", "send_link"} \X Process)]
    /\ budget \in [monitors : Nat, links : Nat, losses : Nat, exits : Nat] /\ lost \in BOOLEAN
    /\ outgoing \cup incoming \cup trackedOut \cup trackedIn \subseteq Monitor
    /\ links \cup trackedLinks \subseteq Pair
    /\ status \in [Process -> {"alive", "marked", "terminated", "notified", "gone"}]
    /\ why \in [Process -> {"normal", "error", "killed"}]
    /\ trapping \subseteq Process
    /\ downs \subseteq [ref : Nat, reason : {"error", "noconnection"}]

Init ==
    /\ up = [n \in Node |-> TRUE] /\ cleaning = [n \in Node |-> FALSE]
    /\ wire = [n \in Node |-> <<>>] /\ handling = wire
    /\ outgoing = {} /\ incoming = {} /\ links = {}
    /\ trackedOut = {} /\ trackedIn = {} /\ trackedLinks = {}
    /\ call = [p \in Process |-> NoCall]
    /\ status = [p \in Process |-> "alive"]
    /\ trapping \in SUBSET Process
    /\ why = [p \in Process |-> "normal"]
    /\ downs = {}
    /\ budget \in Budgets
    /\ lost = FALSE

-----------------------------------------------------------------------------
(* try_send() to the peer of n: nothing if there is no entry for it, and   *)
(* what the queue cannot hold is dropped.                                  *)
Full(q, ms) == Len(q) + Len(ms) > Capacity
Queued(q, ms) == IF Full(q, ms) THEN q \o SubSeq(ms, 1, Capacity - Len(q)) ELSE q \o ms

Sends(n, ms) ==
    IF up[n]
    THEN wire' = [wire EXCEPT ![n] = Queued(@, ms)] /\ lost' = (lost \/ Full(wire[n], ms))
    ELSE UNCHANGED wireVars

(* The task of a process that was marked terminated runs on. *)
Runs(p) == status[p] \in {"alive", "marked"}
Alive(p) == status[p] = "alive"
Idle(p) == Runs(p) /\ call[p] = NoCall

Goes(p, step) == call' = [call EXCEPT ![p] = step]

Spend(what) ==
    /\ budget[what] > 0
    /\ budget' = [budget EXCEPT ![what] = @ - 1]

(* monitor_process(): the entry, then its tracking, then the message. *)
MonitorProcess(p, q) ==
    /\ Idle(p) /\ Spend("monitors")
    /\ LET m == [by |-> p, of |-> q, ref |-> budget.monitors]
       IN  outgoing' = outgoing \cup {m} /\ Goes(p, <<"track_monitor", m>>)
    /\ UNCHANGED <<netVars, wireVars, handling, incoming, trackedOut, trackedIn, linkVars, procVars>>

TrackMonitor(p) ==
    /\ call[p] # NoCall /\ call[p][1] = "track_monitor"
    /\ trackedOut' = trackedOut \cup {call[p][2]}
    /\ Goes(p, <<"send_monitor", call[p][2]>>)
    /\ UNCHANGED <<budget, netVars, wireVars, handling, outgoing, incoming, trackedIn, linkVars, procVars>>

(* Mutant of SendMonitor: NotConnected is returned and the entry stays. *)
SendMonitorKeeps(p) ==
    /\ call[p] # NoCall /\ call[p][1] = "send_monitor"
    /\ Sends(Home(p), <<<<"MonitorProcess", call[p][2]>>>>)
    /\ Goes(p, NoCall)
    /\ UNCHANGED <<budget, netVars, handling, monitorVars, linkVars, procVars>>

SendMonitor(p) ==
    /\ call[p] # NoCall /\ call[p][1] = "send_monitor"
    /\ Sends(Home(p), <<<<"MonitorProcess", call[p][2]>>>>)
    /\ outgoing' = IF up[Home(p)] THEN outgoing ELSE outgoing \ {call[p][2]}
    /\ Goes(p, NoCall)
    /\ UNCHANGED <<budget, netVars, handling, incoming, trackedOut, trackedIn, linkVars, procVars>>

(* demonitor_process(): the tracking of the node keeps the monitor. *)
DemonitorProcess(p, m) ==
    /\ Idle(p) /\ m \in trackedOut /\ m.by = p
    /\ outgoing' = outgoing \ {m}
    /\ Sends(Home(p), <<<<"DemonitorProcess", m>>>>)
    /\ UNCHANGED <<budget, netVars, handling, call, incoming, trackedOut, trackedIn, linkVars, procVars>>

(* link_process(): entry, tracking and message; without a connection only  *)
(* the entry is taken back.                                                *)
LinkProcess(p, q) ==
    /\ Idle(p) /\ Spend("links")
    /\ links' = links \cup {<<p, q>>}
    /\ Goes(p, <<"track_link", q>>)
    /\ UNCHANGED <<netVars, wireVars, handling, monitorVars, trackedLinks, procVars>>

TrackLink(p) ==
    /\ call[p] # NoCall /\ call[p][1] = "track_link"
    /\ trackedLinks' = trackedLinks \cup {<<p, call[p][2]>>}
    /\ Goes(p, <<"send_link", call[p][2]>>)
    /\ UNCHANGED <<budget, netVars, wireVars, handling, monitorVars, links, procVars>>

SendLink(p) ==
    /\ call[p] # NoCall /\ call[p][1] = "send_link"
    /\ Sends(Home(p), <<<<"Link", <<p, call[p][2]>>>>>>)
    /\ links' = IF up[Home(p)] THEN links ELSE links \ {<<p, call[p][2]>>}
    /\ Goes(p, NoCall)
    /\ UNCHANGED <<budget, netVars, handling, monitorVars, trackedLinks, procVars>>

(* unlink_process(): the tracking of the node keeps the pair. *)
UnlinkProcess(p, q) ==
    /\ Idle(p) /\ Spend("links")
    /\ links' = links \ {<<p, q>>}
    /\ Sends(Home(p), <<<<"Unlink", <<p, q>>>>>>)
    /\ UNCHANGED <<netVars, handling, call, monitorVars, trackedLinks, procVars>>

-----------------------------------------------------------------------------
(* handle_process_exit: from the moment its function has returned the      *)
(* process is not alive; then the other node is told and what the process  *)
(* monitored forgotten; the registry loses it last.  For a process that    *)
(* was marked terminated before nothing of this is done.                   *)
Terminate(p, reason) ==
    /\ status[p] = "alive" /\ call[p] = NoCall /\ Spend("exits")
    /\ status' = [status EXCEPT ![p] = "terminated"]
    /\ why' = [why EXCEPT ![p] = reason]
    /\ UNCHANGED <<netVars, wireVars, handling, call, monitorVars, linkVars, trapping, downs>>

Orders(S) == {s \in [1 .. Cardinality(S) -> S] : \A x \in S : \E i \in DOMAIN s : s[i] = x}

NotifyProcessDown(p) ==
    /\ status[p] = "terminated"
    /\ status' = [status EXCEPT ![p] = "notified"]
    /\ \E ms \in Orders({m \in incoming : m.of = p}), ls \in Orders({l \in links : l[1] = p}) :
          Sends(Home(p), [i \in DOMAIN ms |-> <<"ProcessDown", ms[i], why[p]>>]
                         \o [i \in DOMAIN ls |-> <<"Exit", ls[i], why[p]>>])
    /\ incoming' = {m \in incoming : m.of # p}
    /\ outgoing' = {m \in outgoing : m.by # p}
    /\ links' = {l \in links : l[1] # p}
    /\ UNCHANGED <<budget, netVars, handling, call, trackedOut, trackedIn, trackedLinks,
                   why, trapping, downs>>

Unregister(p) ==
    /\ status[p] = "notified"
    /\ status' = [status EXCEPT ![p] = "gone"]
    /\ UNCHANGED <<budget, netVars, wireVars, handling, call, monitorVars, linkVars, why, trapping, downs>>

-----------------------------------------------------------------------------
(* The other node's messages, handled one by one.  The two handlers that   *)
(* first write and then ask whether the process lives take two actions.    *)
Receive(n) == up[n] /\ up[Peer(n)] /\ handling[n] = <<>> /\ wire[Peer(n)] # <<>>
Takes(n) == wire' = [wire EXCEPT ![Peer(n)] = Tail(@)] /\ UNCHANGED lost
Next1(n) == Head(wire[Peer(n)])

HandleMonitor(n) ==
    /\ Receive(n) /\ Next1(n)[1] = "MonitorProcess"
    /\ Takes(n)
    /\ incoming' = incoming \cup {Next1(n)[2]} /\ trackedIn' = trackedIn \cup {Next1(n)[2]}
    /\ handling' = [handling EXCEPT ![n] = Next1(n)]
    /\ UNCHANGED <<budget, netVars, call, outgoing, trackedOut, linkVars, procVars>>

HandleMonitorChecks(n) ==
    /\ handling[n] # <<>> /\ handling[n][1] = "MonitorProcess"
    /\ handling' = [handling EXCEPT ![n] = <<>>]
    /\ LET m == handling[n][2]
       IN  IF Alive(m.of)
           THEN UNCHANGED <<wireVars, incoming>>
           ELSE Sends(n, <<<<"ProcessDown", m, "noproc">>>>) /\ incoming' = incoming \ {m}
    /\ UNCHANGED <<budget, netVars, call, outgoing, trackedOut, trackedIn, linkVars, procVars>>

HandleDemonitor(n) ==
    /\ Receive(n) /\ Next1(n)[1] = "DemonitorProcess"
    /\ Takes(n)
    /\ incoming' = incoming \ {Next1(n)[2]}
    /\ UNCHANGED <<budget, netVars, handling, call, outgoing, trackedOut, trackedIn, linkVars, procVars>>

(* ExitReason::from(&str): whatever the text on the wire says, the reason  *)
(* that is made of it is an error.                                         *)
Parsed(text) == "error"

Delivered(ms) == downs' = downs \cup {[ref |-> m.ref, reason |-> r] : m \in {x \in ms[1] : Runs(x.by)}, r \in {ms[2]}}

HandleDown(n) ==
    /\ Receive(n) /\ Next1(n)[1] = "ProcessDown"
    /\ Takes(n)
    /\ Delivered(<<outgoing \cap {Next1(n)[2]}, Parsed(Next1(n)[3])>>)
    /\ outgoing' = outgoing \ {Next1(n)[2]}
    /\ UNCHANGED <<budget, netVars, handling, call, incoming, trackedOut, trackedIn, linkVars,
                   status, why, trapping>>

(* handle_incoming_link asks first and writes then; a process that is not  *)
(* alive answers with its exit.                                            *)
HandleLink(n) ==
    /\ Receive(n) /\ Next1(n)[1] = "Link"
    /\ LET from == Next1(n)[2][1]  target == Next1(n)[2][2]
       IN  IF Alive(target)
           THEN Takes(n) /\ handling' = [handling EXCEPT ![n] = Next1(n)]
           ELSE /\ wire' = [wire EXCEPT ![Peer(n)] = Tail(@),
                                         ![n] = Queued(@, <<<<"Exit", <<target, from>>, "error">>>>)]
                /\ UNCHANGED <<lost, handling>>
    /\ UNCHANGED <<budget, netVars, call, monitorVars, linkVars, procVars>>

HandleLinkAdds(n) ==
    /\ handling[n] # <<>> /\ handling[n][1] = "Link"
    /\ handling' = [handling EXCEPT ![n] = <<>>]
    /\ LET l == <<handling[n][2][2], handling[n][2][1]>>
       IN  links' = links \cup {l} /\ trackedLinks' = trackedLinks \cup {l}
    /\ UNCHANGED <<budget, netVars, wireVars, call, monitorVars, procVars>>

HandleUnlink(n) ==
    /\ Receive(n) /\ Next1(n)[1] = "Unlink"
    /\ Takes(n)
    /\ LET l == Next1(n)[2] IN links' = links \ {<<l[2], l[1]>>}
    /\ UNCHANGED <<budget, netVars, handling, call, monitorVars, trackedLinks, procVars>>

(* mark_terminated(): a flag, and nobody is told. *)
Strike(P) ==
    status' = [p \in Process |-> IF p \in P /\ status[p] = "alive" THEN "marked" ELSE status[p]]

(* handle_incoming_exit: nobody asks whether the link still exists; what   *)
(* killed and what left normally is told from the parsed reason.           *)
HandleExit(n) ==
    /\ Receive(n) /\ Next1(n)[1] = "Exit"
    /\ Takes(n)
    /\ LET from == Next1(n)[2][1]  target == Next1(n)[2][2]  reason == Parsed(Next1(n)[3])
       IN  /\ links' = links \ {<<target, from>>}
           /\ Strike(IF reason = "killed" \/ (target \notin trapping /\ reason # "normal") THEN {target} ELSE {})
    /\ UNCHANGED <<budget, netVars, handling, call, monitorVars, trackedLinks,
                   why, trapping, downs>>

-----------------------------------------------------------------------------
(* A node finds its connection lost: the entry goes at once, the process   *)
(* tables are cleaned a moment later by the same task.                     *)
LoseConnection(n) ==
    /\ up[n] /\ ~cleaning[n] /\ Spend("losses")
    /\ up' = [up EXCEPT ![n] = FALSE] /\ lost' = TRUE
    /\ cleaning' = [cleaning EXCEPT ![n] = TRUE]
    /\ UNCHANGED <<wire, handling, call, monitorVars, linkVars, procVars>>

HandleNodeDown(n) ==
    /\ cleaning[n]
    /\ cleaning' = [cleaning EXCEPT ![n] = FALSE]
    /\ LET out == {m \in trackedOut : Home(m.by) = n}
           in == {m \in trackedIn : Home(m.of) = n}
           linked == {l \in trackedLinks : Home(l[1]) = n}
       IN  /\ outgoing' = outgoing \ out
           /\ incoming' = {m \in incoming : \A t \in in : ~(t.of = m.of /\ t.by = m.by)}
           /\ links' = links \ linked
           /\ trackedOut' = trackedOut \ out /\ trackedIn' = trackedIn \ in
           /\ trackedLinks' = trackedLinks \ linked
           /\ Delivered(<<out, "noconnection">>)
           /\ Strike({l[1] : l \in linked} \ trapping)
    /\ UNCHANGED <<budget, up, wireVars, handling, call, why, trapping>>

(* A new connection.  Where the loss was not noticed the entry is replaced *)
(* and nothing of the process tables is cleaned.                           *)
Reconnect(n) ==
    /\ ~up[n]
    /\ up' = [k \in Node |-> TRUE]
    /\ wire' = [k \in Node |-> <<>>]
    /\ UNCHANGED <<budget, cleaning, lost, handling, call, monitorVars, linkVars, procVars>>

-----------------------------------------------------------------------------
User == \E p \in Process :
    \/ \E q \in Remote(p) : MonitorProcess(p, q) \/ LinkProcess(p, q) \/ UnlinkProcess(p, q)
    \/ \E m \in trackedOut : DemonitorProcess(p, m)
    \/ TrackMonitor(p) \/ SendMonitor(p) \/ TrackLink(p) \/ SendLink(p)
    \/ \E reason \in {"normal", "error", "killed"} : Terminate(p, reason)
    \/ NotifyProcessDown(p) \/ Unregister(p)

Handler == \E n \in Node :
    \/ HandleMonitor(n) \/ HandleMonitorChecks(n) \/ HandleDemonitor(n) \/ HandleDown(n)
    \/ HandleLink(n) \/ HandleLinkAdds(n) \/ HandleUnlink(n) \/ HandleExit(n)

Network == \E n \in Node : LoseConnection(n) \/ HandleNodeDown(n) \/ Reconnect(n)

Next == User \/ Handler \/ Network

Spec == Init /\ [][Next]_vars

-----------------------------------------------------------------------------
(* Whoever monitors a process of a node is not left waiting for a node     *)
(* that is lost: while there is no connection and no clean-up to come, the *)
(* only monitors of its processes are those of calls still under way,      *)
(* however the three steps of a call fall around the loss.                 *)
NoWaitForLostNode ==
    \A n \in Node : ~up[n] /\ ~cleaning[n] =>
        \A m \in outgoing : Home(m.by) = n => call[m.by] # NoCall

(* The monitor of a process that has left is answered: as long as nothing  *)
(* was lost, a monitor whose target has told of its exit is under way to   *)
(* the target's node or being handled there, or its answer is under way    *)
(* back - the two nodes write the table and read the liveness of the       *)
(* target in opposite orders.                                              *)
OnWire(n, type, m) == \E i \in DOMAIN wire[n] : wire[n][i][1] = type /\ wire[n][i][2] = m
MonitorAnswered ==
    ~lost => \A m \in outgoing : status[m.of] \in {"notified", "gone"} =>
        \/ call[m.by] # NoCall
        \/ OnWire(Home(m.by), "MonitorProcess", m)
        \/ handling[Home(m.of)] = <<"MonitorProcess", m>>
        \/ OnWire(Home(m.of), "ProcessDown", m)

(* handle_incoming_exit: "Normal exits don't propagate to non-trapping     *)
(* processes": no process is struck by a message that says that a process  *)
(* linked to it has ended normally.                                        *)
NormalExitHarmless ==
    [][\A n \in Node :
          /\ Receive(n) /\ Next1(n)[1] = "Exit" /\ Next1(n)[3] = "normal"
          /\ wire'[Peer(n)] = Tail(wire[Peer(n)])
          => status' = status]_vars
=============================================================================
