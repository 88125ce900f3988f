----------------------------- MODULE BeamMessages -----------------------------
(***************************************************************************)
(* manager.rs, from handle_spawn_request to deliver_etf_to_local, with its *)
(* part of process_monitor.rs: what the messages of a BEAM node do to the  *)
(* processes of this one.                                                  *)
(*                                                                         *)
(* The receiver task of the connection awaits the handler of a message     *)
(* before it receives the next one.  The BEAM node keeps to its protocol:  *)
(* it links what is not linked, unlinks what is, and the end of one of its *)
(* processes is told to all that are linked to it.                         *)
(***************************************************************************)
EXTENDS Naturals, Sequences, FiniteSets

CONSTANTS
    Local,     \* processes of this node, those still to be spawned included
    Peer,      \* processes of the BEAM node
    Budgets    \* bounds of the behaviours: payloads, requests and signals sent

Nobody == "nobody"
Request == [form : {"malformed", "unknown", "known"}, opts : SUBSET {"link", "monitor"}]
Pair == Local \X Peer
Message ==
    ({"Send"} \X (Local \cup {"name"}) \X Nat) \cup ({"SpawnRequest"} \X Request \X Nat)
        \cup ({"Link", "Unlink", "Exit", "Monitor", "Demonitor"} \X Pair) \cup {<<"Other">>}

VARIABLES
    wire,      \* messages under way on the connection
    receiver,  \* the receiver task: receives, handles a link, ended
    handling,  \* the link it handles
    answers,   \* SpawnReply messages sent
    status,    \* none, alive, marked terminated, gone
    trapping,  \* processes that trap exits
    named,     \* the process registered under the name
    inbox,     \* what was delivered to each process
    links, monitors,  \* process_monitors: <<local, peer>>
    budget,    \* what is left of the bounds
    sent,      \* the number of the last message sent
    linked,    \* the BEAM node's own record of its links
    ended,     \* processes of the BEAM node that have ended
    told       \* history: <<local, peer>> of the exits sent

peerVars == <<budget, sent, linked, ended, told>>
connVars == <<receiver, handling>>
procVars == <<status, trapping, named, inbox>>
tableVars == <<links, monitors>>
vars == <<wire, answers, peerVars, connVars, procVars, tableVars>>

TypeOK ==
    /\ wire \in Seq(Message)
    /\ answers \in Seq([to : Nat, pid : Local \cup {Nobody}, flags : SUBSET {"link", "monitor"}])
    /\ receiver \in {"receives", "links", "ended"}
    /\ handling \in Pair \cup {<<>>}
    /\ status \in [Local -> {"none", "alive", "marked", "gone"}]
    /\ trapping \subseteq Local /\ named \in Local \cup {Nobody}
    /\ inbox \in [Local -> Seq(({"payload"} \X Nat) \cup ({"exit"} \X Pair))]
    /\ budget \in [payloads : Nat, requests : Nat, signals : Nat]
    /\ links \cup monitors \cup linked \cup told \subseteq Pair
    /\ ended \subseteq Peer /\ sent \in Nat

Init ==
    /\ wire = <<>> /\ answers = <<>>
    /\ receiver = "receives" /\ handling = <<>>
    /\ status \in [Local -> {"none", "alive"}] /\ \E p \in Local : status[p] = "alive"
    /\ trapping \in SUBSET {p \in Local : status[p] = "alive"}
    /\ named \in {p \in Local : status[p] = "alive"} \cup {Nobody}
    /\ inbox = [p \in Local |-> <<>>]
    /\ links = {} /\ monitors = {}
    /\ budget \in Budgets /\ sent = 0
    /\ linked = {} /\ ended = {} /\ told = {}

-----------------------------------------------------------------------------
(* The BEAM node, and the socket to it.                                    *)
Spend(what) ==
    /\ receiver # "ended" /\ budget[what] > 0
    /\ budget' = [budget EXCEPT ![what] = @ - 1]
    /\ sent' = sent + 1

SendPayload(dest) ==
    /\ Spend("payloads")
    /\ wire' = Append(wire, <<"Send", dest, sent'>>)
    /\ UNCHANGED <<answers, linked, ended, told, connVars, procVars, tableVars>>

SendRequest(request) ==
    /\ Spend("requests")
    /\ wire' = Append(wire, <<"SpawnRequest", request, sent'>>)
    /\ UNCHANGED <<answers, linked, ended, told, connVars, procVars, tableVars>>

(* A link, an unlink of either protocol, a monitor and its cancellation.   *)
SendSignal(p, q) ==
    /\ q \notin ended /\ status[p] # "none"
    /\ Spend("signals")
    /\ \/ /\ <<p, q>> \notin linked
          /\ linked' = linked \cup {<<p, q>>}
          /\ wire' = Append(wire, <<"Link", <<p, q>>>>)
       \/ /\ <<p, q>> \in linked
          /\ linked' = linked \ {<<p, q>>}
          /\ wire' = Append(wire, <<"Unlink", <<p, q>>>>)
       \/ /\ \E type \in {"Monitor", "Demonitor"} : wire' = Append(wire, <<type, <<p, q>>>>)
          /\ UNCHANGED linked
    /\ UNCHANGED <<answers, ended, told, connVars, procVars, tableVars>>

(* All that are linked are told, in no particular order. *)
Orders(S) == {s \in [1 .. Cardinality(S) -> S] : \A x \in S : \E i \in DOMAIN s : s[i] = x}

PeerEnds(q) ==
    /\ q \notin ended
    /\ Spend("signals")
    /\ ended' = ended \cup {q}
    /\ LET Of == {l \in linked : l[2] = q}
       IN  /\ \E ls \in Orders(Of) : wire' = wire \o [i \in DOMAIN ls |-> <<"Exit", ls[i]>>]
           /\ told' = told \cup Of
           /\ linked' = linked \ Of
    /\ UNCHANGED <<answers, connVars, procVars, tableVars>>

(* UnlinkIdAck, a message of a process this node cannot have monitored, a  *)
(* term that is not a pid, an atom or a reference, and the rest.           *)
SendOther ==
    /\ Spend("signals")
    /\ wire' = Append(wire, <<"Other">>)
    /\ UNCHANGED <<answers, linked, ended, told, connVars, procVars, tableVars>>

-----------------------------------------------------------------------------
(* Mutant of Takes: the handlers are tasks of their own, and run in any    *)
(* order.                                                                  *)
TakesAny(i) ==
    i \in DOMAIN wire /\ wire' = SubSeq(wire, 1, i - 1) \o SubSeq(wire, i + 1, Len(wire))

Takes(i) == i = 1 /\ wire # <<>> /\ wire' = Tail(wire)

Receive(type, i) ==
    /\ receiver = "receives"
    /\ i \in DOMAIN wire /\ wire[i][1] = type
    /\ Takes(i)

(* Whoever is in the registry is delivered to, marked terminated or not.   *)
Delivered(p, what) ==
    inbox' = IF p # Nobody /\ status[p] \in {"alive", "marked"}
             THEN [inbox EXCEPT ![p] = Append(@, what)] ELSE inbox

(* Send, SendSender and RegSend. *)
HandleSend(i) ==
    /\ Receive("Send", i)
    /\ Delivered(IF wire[i][2] = "name" THEN named ELSE wire[i][2], <<"payload", wire[i][3]>>)
    /\ UNCHANGED <<answers, peerVars, connVars, status, trapping, named, tableVars>>

(* handle_incoming_link asks first and writes then.  The exit for a target *)
(* that is not alive has no queue to go to: get_node_tx() knows native     *)
(* nodes only.                                                             *)
HandleLink(i) ==
    /\ Receive("Link", i)
    /\ IF status[wire[i][2][1]] = "alive"
       THEN receiver' = "links" /\ handling' = wire[i][2]
       ELSE UNCHANGED connVars
    /\ UNCHANGED <<answers, peerVars, procVars, tableVars>>

HandleLinkAdds ==
    /\ receiver = "links"
    /\ links' = links \cup {handling}
    /\ receiver' = "receives" /\ handling' = <<>>
    /\ UNCHANGED <<wire, answers, peerVars, procVars, monitors>>

HandleUnlink(i) ==
    /\ Receive("Unlink", i)
    /\ links' = links \ {wire[i][2]}
    /\ UNCHANGED <<answers, peerVars, connVars, procVars, monitors>>

(* extract_exit_reason makes a text of the reason and handle_incoming_exit *)
(* an error of the text: whoever does not trap exits is struck.            *)
HandleExit(i) ==
    /\ Receive("Exit", i)
    /\ LET p == wire[i][2][1]
       IN  /\ links' = links \ {wire[i][2]}
           /\ IF p \in trapping
              THEN Delivered(p, <<"exit", wire[i][2]>>) /\ UNCHANGED status
              ELSE /\ status' = [status EXCEPT ![p] = IF @ = "alive" THEN "marked" ELSE @]
                   /\ UNCHANGED inbox
    /\ UNCHANGED <<answers, peerVars, connVars, trapping, named, monitors>>

(* Nobody asks whether the process to be monitored is alive.               *)
HandleMonitor(i) ==
    /\ Receive("Monitor", i)
    /\ monitors' = monitors \cup {wire[i][2]}
    /\ UNCHANGED <<answers, peerVars, connVars, procVars, links>>

HandleDemonitor(i) ==
    /\ Receive("Demonitor", i)
    /\ monitors' = monitors \ {wire[i][2]}
    /\ UNCHANGED <<answers, peerVars, connVars, procVars, links>>

HandleOther(i) ==
    /\ Receive("Other", i)
    /\ UNCHANGED <<answers, peerVars, connVars, procVars, tableVars>>

(* handle_spawn_request: an MFA that cannot be read and a function that is *)
(* not registered are answered with an error.  execute_spawn sets up       *)
(* neither link nor monitor; the reply says that it did.  A reply that     *)
(* cannot be sent is logged.                                               *)
Reply(number, pid, flags) == Append(answers, [to |-> number, pid |-> pid, flags |-> flags])

RefuseSpawn(i) ==
    /\ Receive("SpawnRequest", i)
    /\ wire[i][2].form # "known"
    /\ answers' \in {answers, Reply(wire[i][3], Nobody, {})}
    /\ UNCHANGED <<peerVars, connVars, procVars, tableVars>>

ExecuteSpawn(i, p) ==
    /\ Receive("SpawnRequest", i)
    /\ wire[i][2].form = "known" /\ status[p] = "none"
    /\ status' = [status EXCEPT ![p] = "alive"]
    /\ answers' \in {answers, Reply(wire[i][3], p, wire[i][2].opts)}
    /\ UNCHANGED <<peerVars, connVars, trapping, named, inbox, tableVars>>

(* The connection is lost; the links and monitors of its processes stay.   *)
ReceiveFails ==
    /\ receiver = "receives"
    /\ receiver' = "ended" /\ wire' = <<>>
    /\ UNCHANGED <<answers, handling, peerVars, procVars, tableVars>>

(* handle_process_exit: links and monitors of peers of the BEAM node go,   *)
(* and the peers are not told.                                             *)
ProcessExits(p) ==
    /\ status[p] = "alive"
    /\ status' = [status EXCEPT ![p] = "gone"]
    /\ named' = IF named = p THEN Nobody ELSE named
    /\ links' = {l \in links : l[1] # p} /\ monitors' = {m \in monitors : m[1] # p}
    /\ UNCHANGED <<wire, answers, peerVars, connVars, trapping, inbox>>

Beam ==
    \/ \E dest \in {p \in Local : status[p] # "none"} \cup {"name"} : SendPayload(dest)
    \/ \E request \in Request : SendRequest(request)
    \/ \E p \in Local, q \in Peer : SendSignal(p, q)
    \/ \E q \in Peer : PeerEnds(q)
    \/ SendOther

Handler == \E i \in DOMAIN wire :
    \/ HandleSend(i) \/ HandleLink(i) \/ HandleUnlink(i) \/ HandleExit(i)
    \/ HandleMonitor(i) \/ HandleDemonitor(i) \/ HandleOther(i)
    \/ RefuseSpawn(i) \/ \E p \in Local : ExecuteSpawn(i, p)

Next == Beam \/ Handler \/ HandleLinkAdds \/ ReceiveFails \/ \E p \in Local : ProcessExits(p)

Spec == Init /\ [][Next]_vars

-----------------------------------------------------------------------------
(* Messages of a process to another arrive in the order they were sent,    *)
(* whether they name it by pid or by name, and requests to spawn are       *)
(* answered in theirs.                                                     *)
InOrder ==
    /\ \A p \in Local : \A i, j \in DOMAIN inbox[p] :
           i < j /\ inbox[p][i][1] = "payload" /\ inbox[p][j][1] = "payload"
           => inbox[p][i][2] < inbox[p][j][2]
    /\ \A i, j \in DOMAIN answers : i < j => answers[i].to < answers[j].to

(* Both nodes agree on the links of a process that is alive: what the BEAM *)
(* node takes for linked is in the table here once the connection has      *)
(* nothing more to say of it, and nothing else is.                         *)
LinksAgree ==
    receiver = "receives" => \A l \in Pair :
        status[l[1]] = "alive" /\ (\A i \in DOMAIN wire : wire[i][1] \in {"Send", "SpawnRequest", "Other"})
        => (l \in links <=> l \in linked)

(* The end of a linked peer is felt: whoever does not trap exits is struck *)
(* by it or gone, whoever does finds it in the mailbox.  Nobody is struck  *)
(* without such an end.                                                    *)
ExitFelt ==
    /\ receiver # "ended" => \A l \in told :
           \/ \E i \in DOMAIN wire : wire[i] = <<"Exit", l>>
           \/ status[l[1]] # "alive"
           \/ \E i \in DOMAIN inbox[l[1]] : inbox[l[1]][i] = <<"exit", l>>
    /\ \A p \in Local : status[p] = "marked" => \E l \in told : l[1] = p
=============================================================================
