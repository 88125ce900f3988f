---------------------- MODULE DistributionManagerProofs ----------------------
(* What holds of the connection table of DistributionManager for every set  *)
(* of nodes and every bound.                                                *)
EXTENDS DistributionManager, TLAPS

(* Only a connection that was dialed is in a handshake.                     *)
Started ==
    \A c \in Conn : calling[c] # "none" \/ accepting[c] # "none" => c < nextConn

IInv == TypeOK /\ Started /\ Attended

-----------------------------------------------------------------------------
LEMMA PeerType ==
    ASSUME TypeOK, NEW n \in Node, NEW c \in Conn
    PROVE  Peer(n, c) \in Node
BY DEF TypeOK, Peer

LEMMA SpendType ==
    ASSUME TypeOK, NEW what \in {"dials", "losses", "calls"}, Spend(what)
    PROVE  budget' \in [{"dials", "losses", "calls"} -> Nat]
<1>1. budget \in [{"dials", "losses", "calls"} -> Nat]
    BY DEF TypeOK
<1>2. budget[what] \in Nat /\ budget[what] - 1 \in Nat
    BY <1>1 DEF Spend
<1>3. budget' = [budget EXCEPT ![what] = budget[what] - 1]
    BY DEF Spend
<1>. QED  BY <1>1, <1>2, <1>3

LEMMA CloseEndType ==
    ASSUME TypeOK, NEW n \in Node, NEW c \in Conn, CloseEnd(n, c),
           budget' \in [{"dials", "losses", "calls"} -> Nat]
    PROVE  TypeOK'
BY DEF TypeOK, CloseEnd, shakeVars, tableVars, loopVars, monitorVars

LEMMA RemoveType ==
    ASSUME TypeOK, NEW n \in Node, NEW m \in Node, Remove(n, m)
    PROVE  /\ nodes' \in [Node -> [Node -> Conn \cup {NoConn}]]
           /\ dropping' \in [Node -> [Node -> Nat]]
BY DEF TypeOK, Remove

LEMMA LoopEndsType ==
    ASSUME TypeOK, NEW n \in Node, NEW c \in Conn, LoopEnds(n, c)
    PROVE  /\ nodes' \in [Node -> [Node -> Conn \cup {NoConn}]]
           /\ dropping' \in [Node -> [Node -> Nat]]
<1>1. CASE SameAddress(n, c) /\ Remove(n, Peer(n, c))
    BY <1>1, PeerType, RemoveType
<1>2. CASE UNCHANGED <<nodes, dropping>>
    BY <1>2 DEF TypeOK
<1>. QED  BY <1>1, <1>2 DEF LoopEnds

LEMMA InsertType ==
    ASSUME TypeOK, NEW n \in Node, NEW c \in Conn, Insert(n, c),
           calling' \in [Conn -> Calling], accepting' \in [Conn -> Accepting]
    PROVE  TypeOK'
<1>1. Peer(n, c) \in Node
    BY PeerType
<1>2. nodes' \in [Node -> [Node -> Conn \cup {NoConn}]]
    BY <1>1 DEF TypeOK, Insert
<1>3. addrToNode' \in [Node -> SUBSET Node]
    BY <1>1 DEF TypeOK, Insert
<1>4. sender' \in [Node -> [Conn -> Loop]] /\ receiver' \in [Node -> [Conn -> Loop]]
    BY DEF TypeOK, Insert, Loop
<1>. QED  BY <1>2, <1>3, <1>4 DEF TypeOK, Insert, counters, linkVars, monitorVars

LEMMA DisconnectType ==
    ASSUME TypeOK, NEW n \in Node, NEW m \in Node, Disconnect(n, m)
    PROVE  /\ nodes' \in [Node -> [Node -> Conn \cup {NoConn}]]
           /\ dropping' \in [Node -> [Node -> Nat]]
           /\ open' \in [Conn -> SUBSET Node]
<1>1. nodes[n][m] \in Conn
    BY DEF TypeOK, Disconnect
<1>2. open' \in [Conn -> SUBSET Node]
    BY <1>1 DEF TypeOK, Disconnect
<1>. QED  BY <1>2, RemoveType DEF Disconnect

(* One step per action: the types of what it changes.                       *)
LEMMA UserType ==
    ASSUME TypeOK, ManagerAssumption, NEW n \in Node, NEW m \in Node, User(n, m)
    PROVE  TypeOK'
<1>1. CASE ConnectTo(n, m)
    <2>. DEFINE c == nextConn
    <2>1. c \in Conn /\ c + 1 \in 1 .. MaxConn + 1
        BY <1>1 DEF ConnectTo, Conn, ManagerAssumption
    <2>2. budget' \in [{"dials", "losses", "calls"} -> Nat]
        BY <1>1, SpendType DEF ConnectTo
    <2>3. /\ from' \in [Conn -> Node] /\ to' \in [Conn -> Node]
          /\ open' \in [Conn -> SUBSET Node]
        BY <1>1, <2>1 DEF ConnectTo, TypeOK
    <2>4. calling' \in [Conn -> Calling] /\ accepting' \in [Conn -> Accepting]
        BY <1>1, <2>1 DEF ConnectTo, TypeOK, Calling, Accepting
    <2>. QED  BY <1>1, <2>1, <2>2, <2>3, <2>4
             DEF ConnectTo, TypeOK, tableVars, loopVars, monitorVars
<1>2. CASE DisconnectFrom(n, m)
    <2>1. budget' \in [{"dials", "losses", "calls"} -> Nat]
        BY <1>2, SpendType DEF DisconnectFrom
    <2>. QED  BY <1>2, <2>1, DisconnectType
             DEF DisconnectFrom, TypeOK, shakeVars, loopVars
<1>3. CASE MonitorNode(n, m)
    <2>1. budget' \in [{"dials", "losses", "calls"} -> Nat]
        BY <1>3, SpendType DEF MonitorNode
    <2>. QED  BY <1>3, <2>1
             DEF MonitorNode, TypeOK, linkVars, shakeVars, tableVars, loopVars
<1>4. CASE DemonitorNode(n, m)
    <2>1. budget' \in [{"dials", "losses", "calls"} -> Nat]
        BY <1>4, SpendType DEF DemonitorNode
    <2>. QED  BY <1>4, <2>1
             DEF DemonitorNode, TypeOK, linkVars, shakeVars, tableVars, loopVars
<1>. QED  BY <1>1, <1>2, <1>3, <1>4 DEF User

LEMMA HeartbeatType ==
    ASSUME TypeOK, NEW n \in Node, NEW m \in Node,
           Suspect(n, m) \/ HeartbeatTimeout(n, m) \/ CleanUp(n, m)
    PROVE  TypeOK'
<1>1. CASE Suspect(n, m)
    <2>1. budget' \in [{"dials", "losses", "calls"} -> Nat]
        BY <1>1, SpendType DEF Suspect
    <2>. QED  BY <1>1, <2>1
             DEF Suspect, TypeOK, linkVars, shakeVars, tableVars, loopVars
<1>2. CASE HeartbeatTimeout(n, m)
    <2>1. /\ nodes' \in [Node -> [Node -> Conn \cup {NoConn}]]
          /\ dropping' \in [Node -> [Node -> Nat]]
          /\ open' \in [Conn -> SUBSET Node]
        <3>1. CASE Disconnect(n, m)
            BY <3>1, DisconnectType
        <3>2. CASE UNCHANGED <<nodes, dropping, open>>
            BY <3>2 DEF TypeOK
        <3>. QED  BY <1>2, <3>1, <3>2 DEF HeartbeatTimeout
    <2>2. suspects' \in [Node -> SUBSET Node]
        BY <1>2 DEF HeartbeatTimeout, TypeOK
    <2>. QED  BY <1>2, <2>1, <2>2
             DEF HeartbeatTimeout, TypeOK, counters, shakeVars, loopVars
<1>3. CASE CleanUp(n, m)
    <2>1. dropping[n][m] \in Nat /\ dropping[n][m] - 1 \in Nat
        BY <1>3 DEF CleanUp, TypeOK
    <2>2. dropping' \in [Node -> [Node -> Nat]]
        BY <1>3, <2>1 DEF CleanUp, TypeOK
    <2>. QED  BY <1>3, <2>2
             DEF CleanUp, TypeOK, counters, linkVars, shakeVars, loopVars
<1>. QED  BY <1>1, <1>2, <1>3

LEMMA HandshakeType ==
    ASSUME TypeOK, NEW c \in Conn, Handshake(c)
    PROVE  TypeOK'
<1>1. from[c] \in Node /\ to[c] \in Node
    BY DEF TypeOK
<1>2. CASE Welcomed(c)
    <2>1. calling' \in [Conn -> Calling]
        BY <1>2 DEF Welcomed, TypeOK, Calling
    <2>2. open' \in [Conn -> SUBSET Node]
        <3>1. open \in [Conn -> SUBSET Node]
            BY DEF TypeOK
        <3>2. open' = open \/ open' = [open EXCEPT ![c] = open[c] \ {from[c]}]
            BY <1>2 DEF Welcomed
        <3>. QED  BY <3>1, <3>2
    <2>. QED  BY <1>2, <2>1, <2>2
             DEF Welcomed, TypeOK, counters, tableVars, loopVars, monitorVars
<1>3. CASE NotWelcomed(c)
    BY <1>3 DEF NotWelcomed, TypeOK, Calling, counters, linkVars, tableVars,
         loopVars, monitorVars
<1>4. CASE ConnectInsert(c)
    <2>1. calling' \in [Conn -> Calling] /\ accepting' \in [Conn -> Accepting]
        BY <1>4 DEF ConnectInsert, TypeOK, Calling
    <2>. QED  BY <1>1, <1>4, <2>1, InsertType DEF ConnectInsert
<1>5. CASE AcceptHello(c)
    <2>1. accepting' \in [Conn -> Accepting]
        BY <1>5 DEF AcceptHello, TypeOK, Accepting
    <2>2. /\ nodes' \in [Node -> [Node -> Conn \cup {NoConn}]]
          /\ addrToNode' \in [Node -> SUBSET Node]
          /\ open' \in [Conn -> SUBSET Node]
        <3>. DEFINE n == to[c]
                    old == nodes[n][from[c]]
        <3>1. CASE old = NoConn /\ UNCHANGED <<tableVars, open>>
            BY <3>1 DEF TypeOK, tableVars
        <3>2. CASE /\ old # NoConn
                   /\ nodes' = [nodes EXCEPT ![n][from[c]] = NoConn]
                   /\ addrToNode' = [addrToNode EXCEPT ![n] = @ \ {from[c]}]
                   /\ open' = [open EXCEPT ![old] = @ \ {n}]
            <4>1. old \in Conn
                BY <1>1, <3>2 DEF TypeOK
            <4>. QED  BY <1>1, <3>2, <4>1 DEF TypeOK
        <3>. QED  BY <1>5, <3>1, <3>2 DEF AcceptHello
    <2>. QED  BY <1>5, <2>1, <2>2
             DEF AcceptHello, TypeOK, counters, loopVars, monitorVars
<1>6. CASE SendWelcome(c)
    BY <1>6 DEF SendWelcome, TypeOK, Accepting, counters, linkVars, tableVars,
         loopVars, monitorVars
<1>7. CASE AcceptFails(c)
    BY <1>7 DEF AcceptFails, TypeOK, Accepting, counters, linkVars, tableVars,
         loopVars, monitorVars
<1>8. CASE AcceptInsert(c)
    <2>1. calling' \in [Conn -> Calling] /\ accepting' \in [Conn -> Accepting]
        BY <1>8 DEF AcceptInsert, TypeOK, Accepting
    <2>. QED  BY <1>1, <1>8, <2>1, InsertType DEF AcceptInsert
<1>. QED  BY <1>2, <1>3, <1>4, <1>5, <1>6, <1>7, <1>8 DEF Handshake

LEMMA LoopType ==
    ASSUME TypeOK, NEW n \in Node, NEW c \in Conn,
           SenderEnds(n, c) \/ ReceiverLooks(n, c) \/ ReceiverEnds(n, c)
    PROVE  TypeOK'
<1>1. CASE SenderEnds(n, c)
    <2>1. sender' \in [Node -> [Conn -> Loop]]
        BY <1>1 DEF SenderEnds, TypeOK, Loop
    <2>. QED  BY <1>1, <2>1, LoopEndsType
             DEF SenderEnds, LoopEnds, TypeOK, counters, linkVars, shakeVars
<1>2. CASE ReceiverLooks(n, c)
    <2>1. receiver' \in [Node -> [Conn -> Loop]]
        <3>1. receiver \in [Node -> [Conn -> Loop]] /\ "closing" \in Loop
            BY DEF TypeOK, Loop
        <3>2. \/ receiver' = receiver
              \/ receiver' = [receiver EXCEPT ![n][c] = "closing"]
            BY <1>2 DEF ReceiverLooks
        <3>. QED  BY <3>1, <3>2
    <2>2. nodes[n][Peer(n, c)] \in Conn \cup {NoConn}
        BY PeerType DEF TypeOK
    <2>3. on' \in [Node -> [Conn -> Conn \cup {NoConn}]]
        BY <1>2, <2>2 DEF ReceiverLooks, TypeOK
    <2>. QED  BY <1>2, <2>1, <2>3
             DEF ReceiverLooks, TypeOK, counters, linkVars, shakeVars, tableVars,
                 monitorVars
<1>3. CASE ReceiverEnds(n, c)
    <2>1. receiver' \in [Node -> [Conn -> Loop]]
        BY <1>3 DEF ReceiverEnds, TypeOK, Loop
    <2>2. on' \in [Node -> [Conn -> Conn \cup {NoConn}]]
        BY <1>3 DEF ReceiverEnds, TypeOK
    <2>. QED  BY <1>3, <2>1, <2>2, LoopEndsType
             DEF ReceiverEnds, LoopEnds, TypeOK, counters, linkVars, shakeVars
<1>. QED  BY <1>1, <1>2, <1>3

LEMMA QuinnType ==
    ASSUME TypeOK, NEW n \in Node, NEW c \in Conn, Quinn(n, c)
    PROVE  TypeOK'
<1>1. CloseEnd(n, c)
    BY DEF Quinn, Dropped, PeerClosed, Lose
<1>2. budget' \in [{"dials", "losses", "calls"} -> Nat]
    <2>1. CASE UNCHANGED budget
        BY <2>1 DEF TypeOK
    <2>2. CASE Spend("losses")
        BY <2>2, SpendType
    <2>. QED  BY <2>1, <2>2 DEF Quinn, Dropped, PeerClosed, Lose
<1>. QED  BY <1>1, <1>2, CloseEndType

LEMMA TypeStep ==
    ASSUME TypeOK, ManagerAssumption, [Next]_vars
    PROVE  TypeOK'
<1>1. CASE UNCHANGED vars
    BY <1>1 DEF TypeOK, vars, counters, linkVars, shakeVars, tableVars, loopVars,
         monitorVars
<1>2. CASE Next
    BY <1>2, UserType, HeartbeatType, HandshakeType, LoopType, QuinnType
       DEF Next, ReceiverLoop
<1>. QED  BY <1>1, <1>2

-----------------------------------------------------------------------------
(* Most steps start no connection and no loop, and at most take entries     *)
(* out of the table.                                                        *)
Shrinks ==
    /\ UNCHANGED <<nextConn, from, to, sender>>
    /\ \A n, m \in Node : nodes'[n][m] \in {nodes[n][m], NoConn}
    /\ \A n \in Node, c \in Conn : receiver'[n][c] = "none" => receiver[n][c] = "none"

LEMMA ShrinksAttended ==
    ASSUME Attended, Shrinks
    PROVE  Attended'
BY DEF Attended, Shrinks, Ends, Peer, Conn, NoConn

LEMMA RemoveShrinks ==
    ASSUME TypeOK, NEW n \in Node, NEW m \in Node, Remove(n, m)
    PROVE  \A i, j \in Node :
              nodes'[i][j] = IF i = n /\ j = m THEN NoConn ELSE nodes[i][j]
BY DEF TypeOK, Remove

LEMMA MostShrink ==
    ASSUME TypeOK,
           NEW n \in Node, NEW m \in Node, NEW c \in Conn,
           \/ DisconnectFrom(n, m) \/ MonitorNode(n, m) \/ DemonitorNode(n, m)
           \/ Suspect(n, m) \/ HeartbeatTimeout(n, m) \/ CleanUp(n, m)
           \/ Welcomed(c) \/ NotWelcomed(c) \/ AcceptHello(c) \/ SendWelcome(c)
           \/ AcceptFails(c) \/ ReceiverLooks(n, c) \/ Quinn(n, c)
    PROVE  Shrinks
<1>. USE DEF loopVars, linkVars, tableVars
<1>1. CASE DisconnectFrom(n, m) \/ HeartbeatTimeout(n, m)
    BY <1>1, RemoveShrinks DEF DisconnectFrom, HeartbeatTimeout, Disconnect, Shrinks, counters
<1>2. CASE \/ MonitorNode(n, m) \/ DemonitorNode(n, m) \/ Suspect(n, m) \/ CleanUp(n, m)
    BY <1>2 DEF MonitorNode, DemonitorNode, Suspect, CleanUp, Shrinks, counters
<1>3. CASE \/ Welcomed(c) \/ NotWelcomed(c) \/ SendWelcome(c) \/ AcceptFails(c)
    BY <1>3 DEF Welcomed, NotWelcomed, SendWelcome, AcceptFails, Shrinks, counters
<1>4. CASE AcceptHello(c)
    <2>1. from[c] \in Node /\ to[c] \in Node
        BY DEF TypeOK
    <2>2. \/ nodes' = nodes
          \/ nodes' = [nodes EXCEPT ![to[c]][from[c]] = NoConn]
        BY <1>4 DEF AcceptHello
    <2>3. \A i, j \in Node : nodes'[i][j] \in {nodes[i][j], NoConn}
        <3>1. nodes \in [Node -> [Node -> Conn \cup {NoConn}]]
            BY DEF TypeOK
        <3>. QED  BY <2>1, <2>2, <3>1
    <2>. QED  BY <1>4, <2>3 DEF AcceptHello, Shrinks, counters
<1>5. CASE ReceiverLooks(n, c)
    <2>1. \/ receiver' = receiver
          \/ receiver' = [receiver EXCEPT ![n][c] = "closing"]
        BY <1>5 DEF ReceiverLooks
    <2>2. \A i \in Node, d \in Conn : receiver'[i][d] = "none" => receiver[i][d] = "none"
        <3>1. receiver \in [Node -> [Conn -> Loop]]
            BY DEF TypeOK
        <3>. QED  BY <2>1, <3>1
    <2>. QED  BY <1>5, <2>2 DEF ReceiverLooks, Shrinks, counters
<1>6. CASE Quinn(n, c)
    BY <1>6 DEF Quinn, Dropped, PeerClosed, Lose, CloseEnd, Shrinks
<1>. QED  BY <1>1, <1>2, <1>3, <1>4, <1>5, <1>6

(* connect_to: the connection is a new one, no entry is about it.           *)
LEMMA ConnectToAttended ==
    ASSUME TypeOK, ManagerAssumption, Attended,
           NEW n \in Node, NEW m \in Node, ConnectTo(n, m)
    PROVE  Attended'
<1>1. /\ nextConn \in Conn /\ nextConn' = nextConn + 1
      /\ from' = [from EXCEPT ![nextConn] = n]
      /\ to' = [to EXCEPT ![nextConn] = m]
      /\ UNCHANGED <<nodes, sender, receiver>>
    BY DEF ConnectTo, tableVars, loopVars
<1>. SUFFICES ASSUME NEW i \in Node, NEW j \in Node, NEW d \in Conn, nodes[i][j] = d
              PROVE  /\ i \in Ends(d)' /\ j = Peer(i, d)'
                     /\ sender[i][d] = "run" /\ receiver[i][d] # "none"
    BY <1>1 DEF Attended
<1>2. /\ i \in Ends(d) /\ j = Peer(i, d)
      /\ sender[i][d] = "run" /\ receiver[i][d] # "none"
    BY DEF Attended
<1>3. d < nextConn
    BY <1>2 DEF Ends
<1>4. d < nextConn'
    BY <1>1, <1>3 DEF Conn, ManagerAssumption
<1>5. d # nextConn
    BY <1>1, <1>3 DEF Conn, ManagerAssumption
<1>6. from'[d] = from[d] /\ to'[d] = to[d]
    BY <1>1, <1>5 DEF TypeOK
<1>. QED  BY <1>2, <1>3, <1>4, <1>6 DEF Ends, Peer

(* What both sides of a handshake end with.                                 *)
LEMMA InsertAttended ==
    ASSUME TypeOK, Attended, NEW n \in Node, NEW c \in Conn,
           n \in Ends(c), Insert(n, c)
    PROVE  Attended'
<1>. DEFINE p == Peer(n, c)
<1>1. /\ p \in Node
      /\ nodes' = [nodes EXCEPT ![n][p] = c]
      /\ sender' = [sender EXCEPT ![n][c] = "run"]
      /\ receiver' = [receiver EXCEPT ![n][c] = "run"]
      /\ UNCHANGED <<nextConn, from, to>>
    BY PeerType DEF Insert, counters, linkVars
<1>. SUFFICES ASSUME NEW i \in Node, NEW j \in Node, NEW d \in Conn, nodes'[i][j] = d
              PROVE  /\ i \in Ends(d)' /\ j = Peer(i, d)'
                     /\ sender'[i][d] = "run" /\ receiver'[i][d] # "none"
    BY DEF Attended
<1>2. Ends(d)' = Ends(d) /\ Peer(i, d)' = Peer(i, d)
    BY <1>1 DEF Ends, Peer
<1>3. CASE i = n /\ j = p
    <2>1. d = c
        BY <1>1, <1>3 DEF TypeOK
    <2>2. sender'[n][c] = "run" /\ receiver'[n][c] = "run"
        BY <1>1 DEF TypeOK
    <2>. QED  BY <1>2, <1>3, <2>1, <2>2
<1>4. CASE ~(i = n /\ j = p)
    <2>1. nodes[i][j] = d
        BY <1>1, <1>4 DEF TypeOK
    <2>2. /\ i \in Ends(d) /\ j = Peer(i, d)
          /\ sender[i][d] = "run" /\ receiver[i][d] # "none"
        BY <2>1 DEF Attended
    <2>3. sender'[i][d] = "run" /\ receiver'[i][d] # "none"
        BY <1>1, <2>2 DEF TypeOK
    <2>. QED  BY <1>2, <2>2, <2>3
<1>. QED  BY <1>3, <1>4

(* A loop that ends takes with it the entry of its connection, if that is   *)
(* still the one in the table.                                              *)
LEMMA LoopEndsAttended ==
    ASSUME TypeOK, Attended, NEW n \in Node, NEW c \in Conn,
           SenderEnds(n, c) \/ ReceiverEnds(n, c)
    PROVE  Attended'
<1>. DEFINE p == Peer(n, c)
<1>1. p \in Node /\ LoopEnds(n, c) /\ UNCHANGED <<nextConn, from, to>>
    BY PeerType DEF SenderEnds, ReceiverEnds, LoopEnds, counters, linkVars
<1>2. \A i \in Node, d \in Conn :
         ~(i = n /\ d = c) => sender'[i][d] = sender[i][d] /\ receiver'[i][d] = receiver[i][d]
    BY DEF SenderEnds, ReceiverEnds, TypeOK
<1>3. \A i, j \in Node : nodes'[i][j] \in {nodes[i][j], NoConn}
    BY <1>1, RemoveShrinks DEF LoopEnds
<1>4. nodes'[n][p] # c
    <2>1. CASE SameAddress(n, c)
        BY <1>1, <2>1, RemoveShrinks DEF LoopEnds, Conn, NoConn
    <2>2. CASE ~SameAddress(n, c)
        BY <1>1, <2>2 DEF LoopEnds, SameAddress, Conn, NoConn
    <2>. QED  BY <2>1, <2>2
<1>. SUFFICES ASSUME NEW i \in Node, NEW j \in Node, NEW d \in Conn, nodes'[i][j] = d
              PROVE  /\ i \in Ends(d)' /\ j = Peer(i, d)'
                     /\ sender'[i][d] = "run" /\ receiver'[i][d] # "none"
    BY DEF Attended
<1>5. Ends(d)' = Ends(d) /\ Peer(i, d)' = Peer(i, d)
    BY <1>1 DEF Ends, Peer
<1>6. nodes[i][j] = d
    BY <1>3 DEF Conn, NoConn
<1>7. /\ i \in Ends(d) /\ j = Peer(i, d)
      /\ sender[i][d] = "run" /\ receiver[i][d] # "none"
    BY <1>6 DEF Attended
<1>8. ~(i = n /\ d = c)
    BY <1>4, <1>7
<1>. QED  BY <1>2, <1>5, <1>7, <1>8

-----------------------------------------------------------------------------
LEMMA StartedStep ==
    ASSUME TypeOK, ManagerAssumption, Started, [Next]_vars
    PROVE  Started'
<1>1. CASE \E n, m \in Node : ConnectTo(n, m)
    <2>1. /\ nextConn \in Conn /\ nextConn' = nextConn + 1
          /\ calling' = [calling EXCEPT ![nextConn] = "hello"]
          /\ accepting' = [accepting EXCEPT ![nextConn] = "hello"]
        BY <1>1 DEF ConnectTo
    <2>2. \A d \in Conn : d < nextConn => d < nextConn'
        BY <2>1 DEF Conn, ManagerAssumption
    <2>3. nextConn < nextConn'
        BY <2>1 DEF Conn, ManagerAssumption
    <2>. QED  BY <2>1, <2>2, <2>3 DEF Started, TypeOK
<1>2. CASE \E c \in Conn : Handshake(c)
    <2>. SUFFICES ASSUME NEW c \in Conn, Handshake(c)
                  PROVE  Started'
        BY <1>2
    <2>1. nextConn' = nextConn /\ (calling[c] # "none" \/ accepting[c] # "none")
        BY DEF Handshake, Welcomed, NotWelcomed, ConnectInsert, AcceptHello,
             SendWelcome, AcceptFails, AcceptInsert, Insert, counters
    <2>2. \A d \in Conn : d # c => calling'[d] = calling[d] /\ accepting'[d] = accepting[d]
        BY DEF Handshake, Welcomed, NotWelcomed, ConnectInsert, AcceptHello,
             SendWelcome, AcceptFails, AcceptInsert, TypeOK
    <2>. QED  BY <2>1, <2>2 DEF Started
<1>3. CASE UNCHANGED <<nextConn, shakeVars>>
    BY <1>3 DEF Started, shakeVars
<1>4. CASE \E n, m \in Node :
             \/ DisconnectFrom(n, m) \/ MonitorNode(n, m) \/ DemonitorNode(n, m)
             \/ Suspect(n, m) \/ HeartbeatTimeout(n, m) \/ CleanUp(n, m)
    BY <1>3, <1>4 DEF DisconnectFrom, MonitorNode, DemonitorNode, Suspect,
       HeartbeatTimeout, CleanUp, counters
<1>5. CASE \E n \in Node, c \in Conn :
             SenderEnds(n, c) \/ ReceiverLoop(n, c) \/ Quinn(n, c)
    BY <1>3, <1>5 DEF SenderEnds, ReceiverLoop, ReceiverLooks, ReceiverEnds, LoopEnds,
       Quinn, Dropped, PeerClosed, Lose, CloseEnd, counters
<1>6. CASE UNCHANGED vars
    BY <1>3, <1>6 DEF vars, counters
<1>. QED  BY <1>1, <1>2, <1>4, <1>5, <1>6 DEF Next, User

LEMMA AttendedStep ==
    ASSUME IInv, ManagerAssumption, [Next]_vars
    PROVE  Attended'
<1>. USE DEF IInv
<1>1. CASE \E n, m \in Node : ConnectTo(n, m)
    BY <1>1, ConnectToAttended
<1>2. CASE \E c \in Conn : ConnectInsert(c)
    <2>. SUFFICES ASSUME NEW c \in Conn, ConnectInsert(c)
                  PROVE  Attended'
        BY <1>2
    <2>1. from[c] \in Node /\ from[c] \in Ends(c)
        BY DEF ConnectInsert, Started, Ends, TypeOK
    <2>. QED  BY <2>1, InsertAttended DEF ConnectInsert
<1>3. CASE \E c \in Conn : AcceptInsert(c)
    <2>. SUFFICES ASSUME NEW c \in Conn, AcceptInsert(c)
                  PROVE  Attended'
        BY <1>3
    <2>1. to[c] \in Node /\ to[c] \in Ends(c)
        BY DEF AcceptInsert, Started, Ends, TypeOK
    <2>. QED  BY <2>1, InsertAttended DEF AcceptInsert
<1>4. CASE \E n \in Node, c \in Conn : SenderEnds(n, c) \/ ReceiverEnds(n, c)
    BY <1>4, LoopEndsAttended
<1>5. CASE \E n, m \in Node :
             \/ DisconnectFrom(n, m) \/ MonitorNode(n, m) \/ DemonitorNode(n, m)
             \/ Suspect(n, m) \/ HeartbeatTimeout(n, m) \/ CleanUp(n, m)
    <2>1. Conn = {} => Attended'
        BY DEF Attended
    <2>2. \A c \in Conn : Shrinks
        BY <1>5, MostShrink
    <2>. QED  BY <2>1, <2>2, ShrinksAttended
<1>6. CASE \E c \in Conn : \/ Welcomed(c) \/ NotWelcomed(c) \/ AcceptHello(c)
                           \/ SendWelcome(c) \/ AcceptFails(c)
    <2>1. \E n \in Node : TRUE
        BY DEF ManagerAssumption
    <2>2. Shrinks
        BY <1>6, <2>1, MostShrink
    <2>. QED  BY <2>2, ShrinksAttended
<1>7. CASE \E n \in Node, c \in Conn : ReceiverLooks(n, c) \/ Quinn(n, c)
    <2>1. Shrinks
        BY <1>7, MostShrink
    <2>. QED  BY <2>1, ShrinksAttended
<1>8. CASE UNCHANGED vars
    BY <1>8 DEF vars, counters, linkVars, tableVars, loopVars, Attended, Ends, Peer
<1>. QED  BY <1>1, <1>2, <1>3, <1>4, <1>5, <1>6, <1>7, <1>8
         DEF Next, User, Handshake, ReceiverLoop

LEMMA InitInv ==
    ASSUME ManagerAssumption, Init
    PROVE  IInv
<1>1. (CHOOSE n \in Node : TRUE) \in Node
    BY DEF ManagerAssumption
<1>2. TypeOK
    BY <1>1 DEF Init, TypeOK, ManagerAssumption, Calling, Accepting, Loop
<1>3. Started
    BY DEF Init, Started
<1>4. Attended
    BY DEF Init, Attended, Conn, NoConn
<1>. QED  BY <1>2, <1>3, <1>4 DEF IInv

(* The inductive invariant of the connection table.                         *)
THEOREM Invariant == Spec => []IInv
<1>1. ManagerAssumption
    BY ManagerAssumption
<1>2. Init => IInv
    BY <1>1, InitInv
<1>3. IInv /\ [Next]_vars => IInv'
    BY <1>1, TypeStep, StartedStep, AttendedStep DEF IInv
<1>. QED  BY <1>2, <1>3, PTL DEF Spec

(* The tables of the connection manager keep their types.                   *)
THEOREM TypeCorrect == Spec => []TypeOK
<1>1. IInv => TypeOK
    BY DEF IInv
<1>. QED  BY <1>1, Invariant, PTL

(* An entry of `nodes` always has both of its loops, however connects,      *)
(* replacements, heartbeat and disconnects interleave.                      *)
THEOREM TableAttended == Spec => []Attended
<1>1. IInv => Attended
    BY DEF IInv
<1>. QED  BY <1>1, Invariant, PTL
=============================================================================
