---------------------------- MODULE ProcessGroups ----------------------------
(***************************************************************************)
(* distribution/pg.rs: named groups of processes, kept by every node in    *)
(* two concurrent maps and synchronised by messages.                       *)
(*                                                                         *)
(* Its processes, which join and leave for themselves, the receiver of the *)
(* connection, the clean-up after its loss and the task that connected     *)
(* work on the maps of a node.  Each access to a map and each send is a    *)
(* step of its own; a task has in at[t] what is left of its operation.     *)
(***************************************************************************)
EXTENDS Naturals, Sequences

CONSTANTS
    ProcA, ProcB,  \* the processes of the one and of the other node
    Group,
    Budgets        \* bounds of the behaviours: calls of join(), leave() and leave_all(),
                   \* losses of the connection, entries made for a connection

Node == {"a", "b"}
Process == ProcA \cup ProcB
Home(p) == IF p \in ProcA THEN "a" ELSE "b"
Peer(n) == IF n = "a" THEN "b" ELSE "a"
Local(n) == IF n = "a" THEN ProcA ELSE ProcB
User(p) == <<"process", p>>
Receiver(n) == <<"receiver", n>>
Cleaner(n) == <<"cleaner", n>>
Connector(n) == <<"connector", n>>
Task == ({"process"} \X Process) \cup ({"receiver", "cleaner", "connector"} \X Node)
NodeOf(t) == IF t[1] = "process" THEN Home(t[2]) ELSE t[2]

Entry == Group \X Process
Message(P) ==
    ({"Join", "Leave"} \X Group \X P) \cup ({"LeaveAll"} \X P) \cup {<<"SyncRequest">>}
        \cup ({"SyncResponse"} \X SUBSET (Group \X P))
Nothing == <<>>

VARIABLES
    groups,   \* at each node: <<group, process>> pairs
    listed,   \* the groups a node has a set of members for, be it empty
    reverse,  \* pid_to_groups at each node, as pairs of the same form
    at,       \* of each task: its next step, the entry in hand, the entries and the
              \* processes still to take, whether the group was left empty, its message
    up,       \* the node has an entry for its peer
    wire,     \* messages a node has sent
    budget    \* what is left of the bounds

vars == <<groups, listed, reverse, at, up, wire, budget>>

Work ==
    [do : {"rest", "add", "track", "leave", "untrack", "unlist", "take", "purge", "say",
           "collect", "ask", "push", "answer"},
     entry : Entry \cup {Nothing}, todo : SUBSET Entry, procs : SUBSET Process,
     empty : BOOLEAN, say : Message(Process) \cup {Nothing}]

TypeOK ==
    /\ groups \in [Node -> SUBSET Entry] /\ listed \in [Node -> SUBSET Group]
    /\ reverse \in [Node -> SUBSET Entry]
    /\ at \in [Task -> Work]
    /\ up \in [Node -> BOOLEAN]
    /\ wire \in [Node -> Seq(Message(Process))]

Op(do, todo, procs, say) ==
    [do |-> do, entry |-> Nothing, todo |-> todo, procs |-> procs, empty |-> FALSE, say |-> say]
Rest == Op("rest", {}, {}, Nothing)

Init ==
    /\ groups = [n \in Node |-> {}] /\ listed = groups /\ reverse = groups
    /\ at = [t \in Task |-> Rest]
    /\ \E connected \in BOOLEAN : up = [n \in Node |-> connected]
    /\ wire = [n \in Node |-> <<>>]
    /\ budget \in Budgets

-----------------------------------------------------------------------------
(* The steps on the maps. *)
Ready(t, do) == at[t].do = do /\ ~at[t].empty

(* What a task does next: more of the same, the next process, its message. *)
Onward(r, more) ==
    [r EXCEPT !.do = IF r.todo # {} THEN more
                     ELSE IF r.procs # {} THEN "take"
                     ELSE IF r.say # Nothing THEN "say" ELSE "rest"]

Add(t) ==
    /\ Ready(t, "add")
    /\ \E e \in at[t].todo :
        /\ groups' = [groups EXCEPT ![NodeOf(t)] = @ \cup {e}]
        /\ listed' = [listed EXCEPT ![NodeOf(t)] = @ \cup {e[1]}]
        /\ at' = [at EXCEPT ![t] = [at[t] EXCEPT !.do = "track", !.entry = e, !.todo = @ \ {e}]]
    /\ UNCHANGED <<reverse, up, wire, budget>>

(* Mutant of Track: the reverse map is kept for the processes of the node only. *)
TrackLocalOnly(t) ==
    /\ Ready(t, "track")
    /\ reverse' = [reverse EXCEPT ![NodeOf(t)] = @ \cup ({at[t].entry} \cap (Group \X Local(NodeOf(t))))]
    /\ at' = [at EXCEPT ![t] = Onward([at[t] EXCEPT !.entry = Nothing], "add")]
    /\ UNCHANGED <<groups, listed, up, wire, budget>>

Track(t) ==
    /\ Ready(t, "track")
    /\ reverse' = [reverse EXCEPT ![NodeOf(t)] = @ \cup {at[t].entry}]
    /\ at' = [at EXCEPT ![t] = Onward([at[t] EXCEPT !.entry = Nothing], "add")]
    /\ UNCHANGED <<groups, listed, up, wire, budget>>

(* members.remove(), of leave() or of what takes a process out of all its  *)
(* groups.                                                                 *)
Drop(t) ==
    /\ Ready(t, "leave") \/ Ready(t, "purge")
    /\ \E e \in at[t].todo :
        LET n == NodeOf(t)
            left == at[t].do = "leave"
            empty == e[1] \in listed[n] /\ \A x \in groups[n] : x[1] = e[1] => x = e
            r == [at[t] EXCEPT !.entry = IF left \/ empty THEN e ELSE Nothing,
                               !.todo = @ \ {e}, !.empty = empty]
        IN  /\ groups' = [groups EXCEPT ![n] = @ \ {e}]
            /\ at' = [at EXCEPT ![t] = IF left THEN [r EXCEPT !.do = "untrack"] ELSE Onward(r, "purge")]
    /\ UNCHANGED <<listed, reverse, up, wire, budget>>

(* The lock of a group that was left empty is let go of, and the group is  *)
(* removed, whoever has joined it by then.                                 *)
Clear(t) ==
    /\ at[t].empty
    /\ LET n == NodeOf(t)  g == at[t].entry[1]
       IN  /\ groups' = [groups EXCEPT ![n] = {e \in @ : e[1] # g}]
           /\ listed' = [listed EXCEPT ![n] = @ \ {g}]
           /\ at' = [at EXCEPT ![t] = [at[t] EXCEPT !.empty = FALSE,
                                       !.entry = IF at[t].do = "untrack" THEN @ ELSE Nothing]]
    /\ UNCHANGED <<reverse, up, wire, budget>>

(* The same for the groups of a process: a set left empty is removed once  *)
(* its lock is let go of.                                                  *)
Of(p, S) == {e \in S : e[2] = p}

Untrack(t) ==
    /\ Ready(t, "untrack")
    /\ LET n == NodeOf(t)  e == at[t].entry
       IN  /\ reverse' = [reverse EXCEPT ![n] = @ \ {e}]
           /\ at' = [at EXCEPT ![t] =
                  IF Of(e[2], reverse[n]) = {e} THEN [at[t] EXCEPT !.do = "unlist"]
                  ELSE Onward([at[t] EXCEPT !.entry = Nothing], "leave")]
    /\ UNCHANGED <<groups, listed, up, wire, budget>>

Unlist(t) ==
    /\ Ready(t, "unlist")
    /\ LET n == NodeOf(t)
       IN  reverse' = [reverse EXCEPT ![n] = @ \ Of(at[t].entry[2], @)]
    /\ at' = [at EXCEPT ![t] = Onward([at[t] EXCEPT !.entry = Nothing], "leave")]
    /\ UNCHANGED <<groups, listed, up, wire, budget>>

(* pid_to_groups.remove(): of a process without groups there is nothing to *)
(* tell.                                                                   *)
Take(t) ==
    /\ Ready(t, "take")
    /\ \E p \in at[t].procs :
        LET n == NodeOf(t)
            mine == Of(p, reverse[n])
            r == [at[t] EXCEPT !.todo = mine, !.procs = @ \ {p},
                               !.say = IF mine = {} THEN Nothing ELSE @]
        IN  /\ reverse' = [reverse EXCEPT ![n] = @ \ mine]
            /\ at' = [at EXCEPT ![t] = Onward(r, "purge")]
    /\ UNCHANGED <<groups, listed, up, wire, budget>>

-----------------------------------------------------------------------------
(* The steps on the connection. *)
Members(n, S) == {e \in S : e[2] \in Local(n)}

Sends(n, m) == wire' = IF up[n] THEN [wire EXCEPT ![n] = Append(@, m)] ELSE wire

Say(t) ==
    /\ Ready(t, "say")
    /\ Sends(NodeOf(t), at[t].say)
    /\ at' = [at EXCEPT ![t] = Rest]
    /\ UNCHANGED <<groups, listed, reverse, up, budget>>

(* request_sync(): the question, and what one has unless it is nothing.    *)
RequestSync(t) ==
    /\ Ready(t, "ask")
    /\ Sends(NodeOf(t), <<"SyncRequest">>)
    /\ at' = [at EXCEPT ![t] = Op("push", {}, {}, Nothing)]
    /\ UNCHANGED <<groups, listed, reverse, up, budget>>

Snapshot(t) ==
    /\ Ready(t, "push") \/ Ready(t, "answer")
    /\ LET n == NodeOf(t)  mine == Members(n, groups[n])
       IN  at' = [at EXCEPT ![t] =
               IF mine = {} /\ at[t].do = "push" THEN Rest
               ELSE Op("say", {}, {}, <<"SyncResponse", mine>>)]
    /\ UNCHANGED <<groups, listed, reverse, up, wire, budget>>

(* remove_node_members(): first the pids of the node are collected.        *)
Collect(t) ==
    /\ Ready(t, "collect")
    /\ LET n == NodeOf(t)
           lost == {e[2] : e \in Members(Peer(n), reverse[n])}
       IN  at' = [at EXCEPT ![t] = Onward(Op("collect", {}, lost, Nothing), "purge")]
    /\ UNCHANGED <<groups, listed, reverse, up, wire, budget>>

-----------------------------------------------------------------------------
Spend(what) ==
    /\ budget[what] > 0
    /\ budget' = [budget EXCEPT ![what] = @ - 1]

Begins(t, r) == at[t] = Rest /\ at' = [at EXCEPT ![t] = r]

(* join(), leave() and leave_all() *)
Join(p, g) == Begins(User(p), Op("add", {<<g, p>>}, {}, <<"Join", g, p>>))
Leave(p, g) == Begins(User(p), Op("leave", {<<g, p>>}, {}, <<"Leave", g, p>>))
LeaveAll(p) == Begins(User(p), Op("take", {}, {p}, <<"LeaveAll", p>>))

Call(p) ==
    /\ Spend("calls")
    /\ (\E g \in Group : Join(p, g) \/ Leave(p, g)) \/ LeaveAll(p)
    /\ UNCHANGED <<groups, listed, reverse, up, wire>>

(* handle_message(); joins and members learnt are not passed on.           *)
Handle(m) ==
    CASE m[1] = "Join" -> Op("add", {<<m[2], m[3]>>}, {}, Nothing)
      [] m[1] = "Leave" -> Op("leave", {<<m[2], m[3]>>}, {}, Nothing)
      [] m[1] = "LeaveAll" -> Op("take", {}, {m[2]}, Nothing)
      [] m[1] = "SyncRequest" -> Op("answer", {}, {}, Nothing)
      [] m[1] = "SyncResponse" -> Onward(Op("add", m[2], {}, Nothing), "add")

Receive(n) ==
    /\ up[n] /\ wire[Peer(n)] # <<>>
    /\ Begins(Receiver(n), Handle(Head(wire[Peer(n)])))
    /\ wire' = [wire EXCEPT ![Peer(n)] = Tail(@)]
    /\ UNCHANGED <<groups, listed, reverse, up, budget>>

(* A side enters the new connection in its table and asks for a sync. *)
Connect(n) ==
    /\ ~up[n] /\ Spend("connects")
    /\ up' = [up EXCEPT ![n] = TRUE]
    /\ Begins(Connector(n), Op("ask", {}, {}, Nothing))
    /\ UNCHANGED <<groups, listed, reverse, wire>>

(* The connection is lost; the task that took out the entry cleans up.     *)
Lose ==
    /\ Spend("losses")
    /\ \A n \in Node : up[n] /\ at[Cleaner(n)] = Rest
    /\ up' = [n \in Node |-> FALSE]
    /\ wire' = [n \in Node |-> <<>>]
    /\ at' = [t \in Task |-> IF t[1] = "cleaner" THEN Op("collect", {}, {}, Nothing) ELSE at[t]]
    /\ UNCHANGED <<groups, listed, reverse>>

Next ==
    \/ \E t \in Task :
        \/ Add(t) \/ Track(t) \/ Drop(t) \/ Clear(t) \/ Untrack(t) \/ Unlist(t) \/ Take(t)
        \/ Say(t) \/ RequestSync(t) \/ Snapshot(t) \/ Collect(t)
    \/ \E p \in Process : Call(p)
    \/ \E n \in Node : Receive(n) \/ Connect(n)
    \/ Lose

Spec == Init /\ [][Next]_vars

-----------------------------------------------------------------------------
(* leave_all() and the clean-up after a lost node find what they remove by *)
(* the reverse map: when the tasks of a node rest, no member of a group is *)
(* without its reverse entry, whatever the receiver and the clean-up of a  *)
(* connection did at once.                                                 *)
NoStrayMember ==
    \A n \in Node : (\A t \in Task : NodeOf(t) = n => at[t] = Rest) => groups[n] \subseteq reverse[n]

=============================================================================
