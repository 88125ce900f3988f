--------------------------- MODULE GlobalRegistry ---------------------------
(***************************************************************************)
(* distribution/global.rs: names known to every node, each node with a map *)
(* of its own and messages to keep them alike.                             *)
(*                                                                         *)
(* register() looks, inserts and broadcasts in three accesses; a new       *)
(* connection is synchronised by a question and by a snapshot that follow  *)
(* its entry in `nodes'.  Nothing is removed when a node is lost.          *)
(***************************************************************************)
EXTENDS Naturals, Sequences

CONSTANTS
    PidA, PidB,    \* processes of the one and of the other node
    Name,
    MaxRegisters,  \* bound: calls of register() and unregister()
    MaxLosses      \* bound: connections lost

Node == {"a", "b"}
Pid == PidA \cup PidB
Peer(n) == IF n = "a" THEN "b" ELSE "a"
Home(p) == IF p \in PidA THEN "a" ELSE "b"
NoPid == "no_pid"
Entry == Name \X Pid
Message ==
    ({"Register"} \X Name \X Pid) \cup ({"Unregister"} \X Name)
    \cup {<<"SyncRequest">>} \cup ({"SyncResponse"} \X SUBSET Entry)

VARIABLES
    names,   \* the map of each node
    doing,   \* the step each caller of register() is at
    syncing, \* the steps a new connection has still to take at each node
    up,      \* the node has an entry for its peer
    wire,    \* messages a node has sent
    registers, losses,  \* counters of the bounds
    told,    \* history: registrations that returned true
    taken    \* history: names somebody unregistered

vars == <<names, doing, syncing, up, wire, registers, losses, told, taken>>

TypeOK ==
    /\ names \in [Node -> [Name -> Pid \cup {NoPid}]]
    /\ doing \in [Pid -> {<<>>} \cup ({"insert", "broadcast"} \X Name)]
    /\ syncing \in [Node -> {"none", "request", "push"}]
    /\ up \in [Node -> BOOLEAN] /\ wire \in [Node -> Seq(Message)]
    /\ registers \in Nat /\ losses \in Nat
    /\ told \subseteq Entry /\ taken \subseteq Name

Init ==
    /\ names = [n \in Node |-> [k \in Name |-> NoPid]]
    /\ doing = [p \in Pid |-> <<>>]
    /\ syncing = [n \in Node |-> "none"]
    /\ up = [n \in Node |-> FALSE]
    /\ wire = [n \in Node |-> <<>>]
    /\ registers = 0 /\ losses = 0
    /\ told = {} /\ taken = {}

Sends(n, m) == wire' = IF up[n] THEN [wire EXCEPT ![n] = Append(@, m)] ELSE wire

(* register(): false if the name is there; else insert, then broadcast. *)
Register(p, k) ==
    /\ registers < MaxRegisters /\ registers' = registers + 1
    /\ doing[p] = <<>>
    /\ doing' = [doing EXCEPT ![p] = IF names[Home(p)][k] = NoPid THEN <<"insert", k>> ELSE <<>>]
    /\ UNCHANGED <<names, syncing, up, wire, losses, told, taken>>

Insert(p) ==
    /\ doing[p] # <<>> /\ doing[p][1] = "insert"
    /\ names' = [names EXCEPT ![Home(p)][doing[p][2]] = p]
    /\ doing' = [doing EXCEPT ![p] = <<"broadcast", doing[p][2]>>]
    /\ UNCHANGED <<syncing, up, wire, registers, losses, told, taken>>

Broadcast(p) ==
    /\ doing[p] # <<>> /\ doing[p][1] = "broadcast"
    /\ Sends(Home(p), <<"Register", doing[p][2], p>>)
    /\ told' = told \cup {<<doing[p][2], p>>}
    /\ doing' = [doing EXCEPT ![p] = <<>>]
    /\ UNCHANGED <<names, syncing, up, registers, losses, taken>>

(* unregister(): whoever holds the name, on whichever node. *)
Unregister(n, k) ==
    /\ registers < MaxRegisters /\ registers' = registers + 1
    /\ names[n][k] # NoPid
    /\ names' = [names EXCEPT ![n][k] = NoPid]
    /\ Sends(n, <<"Unregister", k>>)
    /\ taken' = taken \cup {k}
    /\ UNCHANGED <<doing, syncing, up, losses, told>>

-----------------------------------------------------------------------------
Snapshot(n) == {e \in Entry : names[n][e[1]] = e[2]}

(* or_insert: what is there stays. *)
OrInsert(n, E) ==
    names' = [names EXCEPT ![n] = [k \in Name |->
        IF @[k] = NoPid /\ \E e \in E : e[1] = k THEN (CHOOSE e \in E : e[1] = k)[2] ELSE @[k]]]

HandleMessage(n) ==
    /\ up[n] /\ wire[Peer(n)] # <<>>
    /\ LET m == Head(wire[Peer(n)])
           rest == [wire EXCEPT ![Peer(n)] = Tail(@)]
       IN  \/ /\ m[1] = "Register" /\ OrInsert(n, {<<m[2], m[3]>>}) /\ wire' = rest
           \/ /\ m[1] = "Unregister" /\ names' = [names EXCEPT ![n][m[2]] = NoPid] /\ wire' = rest
           \/ /\ m[1] = "SyncRequest" /\ UNCHANGED names
              /\ wire' = [rest EXCEPT ![n] = Append(@, <<"SyncResponse", Snapshot(n)>>)]
           \/ /\ m[1] = "SyncResponse" /\ OrInsert(n, m[2]) /\ wire' = rest
    /\ UNCHANGED <<doing, syncing, up, registers, losses, told, taken>>

(* Mutant of Connect: the sync is asked for before the entry is made. *)
ConnectSyncsFirst(n) ==
    /\ ~up[n]
    /\ \/ syncing[n] = "none" /\ syncing' = [syncing EXCEPT ![n] = "request"] /\ UNCHANGED up
       \/ up' = [up EXCEPT ![n] = TRUE] /\ UNCHANGED syncing
    /\ UNCHANGED <<names, doing, wire, registers, losses, told, taken>>

(* Either side of a connection enters the other, then asks for its names   *)
(* and sends its own.                                                      *)
Connect(n) ==
    /\ ~up[n] /\ syncing[n] = "none"
    /\ up' = [up EXCEPT ![n] = TRUE]
    /\ syncing' = [syncing EXCEPT ![n] = "request"]
    /\ UNCHANGED <<names, doing, wire, registers, losses, told, taken>>

RequestSync(n) ==
    /\ \/ /\ syncing[n] = "request"
          /\ Sends(n, <<"SyncRequest">>)
          /\ syncing' = [syncing EXCEPT ![n] = "push"]
       \/ /\ syncing[n] = "push"
          /\ IF Snapshot(n) = {} THEN UNCHANGED wire ELSE Sends(n, <<"SyncResponse", Snapshot(n)>>)
          /\ syncing' = [syncing EXCEPT ![n] = "none"]
    /\ UNCHANGED <<names, doing, up, registers, losses, told, taken>>

Lose ==
    /\ losses < MaxLosses /\ losses' = losses + 1
    /\ \E n \in Node : up[n]
    /\ up' = [n \in Node |-> FALSE]
    /\ wire' = [n \in Node |-> <<>>]
    /\ UNCHANGED <<names, doing, syncing, registers, told, taken>>

Next ==
    \/ \E p \in Pid : Insert(p) \/ Broadcast(p) \/ \E k \in Name : Register(p, k)
    \/ \E n \in Node :
          \/ HandleMessage(n) \/ Connect(n) \/ RequestSync(n)
          \/ \E k \in Name : Unregister(n, k)
    \/ Lose

Spec == Init /\ [][Next]_vars

-----------------------------------------------------------------------------
(* A registration reaches every node, whether it falls before, into or     *)
(* after the synchronisation of a new connection: when the nodes are       *)
(* connected and at rest, a name that was registered and never             *)
(* unregistered is known at both.                                          *)
AtRest ==
    /\ \A n \in Node : up[n] /\ wire[n] = <<>> /\ syncing[n] = "none"
    /\ \A p \in Pid : doing[p] = <<>>
EveryNodeKnows ==
    AtRest => \A e \in told : e[1] \notin taken => \A n \in Node : names[n][e[1]] # NoPid

=============================================================================
