--------------------------- MODULE ClusterProofs ---------------------------
EXTENDS Cluster, SequenceTheorems, FiniteSetTheorems, TLAPS

-----------------------------------------------------------------------------
(* A message that tells who receives it of a name. *)
Brings(m, k) ==
    \/ m[1] = "Register" /\ m[2] = k
    \/ m[1] = "SyncResponse" /\ \E e \in m[2] : e[1] = k

(* A name that nobody has unregistered has no message under way that would     *)
(* take it out, and stays at the node of who is registering it.                 *)
HomeKnows ==
    /\ \A n \in Glo!Node : \A i \in 1 .. Len(gr_wire[n]) :
          gr_wire[n][i][1] = "Unregister" => gr_wire[n][i][2] \in gr_taken
    /\ \A p \in Glo!Pid :
          gr_doing[p] # <<>> /\ gr_doing[p][1] = "broadcast" /\ gr_doing[p][2] \notin gr_taken =>
              gr_names[Glo!Home(p)][gr_doing[p][2]] # Glo!NoPid
    /\ \A e \in gr_told : e[1] \notin gr_taken => gr_names[Glo!Home(e[2])][e[1]] # Glo!NoPid

(* The other node knows it, or will be told: by a message under way, by the     *)
(* synchronisation that goes on, or by the one that a new connection begins.    *)
PeerWillKnow ==
    \A e \in gr_told :
        LET n == Glo!Home(e[2])
        IN  e[1] \notin gr_taken =>
                \/ gr_names[Glo!Peer(n)][e[1]] # Glo!NoPid
                \/ ~gr_up[n] \/ gr_syncing[n] # "none"
                \/ \E i \in 1 .. Len(gr_wire[n]) : Brings(gr_wire[n][i], e[1])

GlobalInv == Glo!TypeOK /\ HomeKnows /\ PeerWillKnow

LEMMA GlobalInitOK == Glo!Init => GlobalInv
<1> SUFFICES ASSUME Glo!Init PROVE GlobalInv
  OBVIOUS
<1>1. gr_wire \in [Glo!Node -> Seq(Glo!Message)] /\ \A n \in Glo!Node : Len(gr_wire[n]) = 0
  BY EmptySeq DEF Glo!Init
<1>2. gr_names \in [Glo!Node -> [GlobalName -> Glo!Pid \cup {Glo!NoPid}]] /\ gr_doing \in [Glo!Pid -> {<<>>}]
  BY DEF Glo!Init
<1>3. Glo!TypeOK
  BY <1>1, <1>2 DEF Glo!Init, Glo!TypeOK
<1>4. HomeKnows /\ PeerWillKnow
  BY <1>1 DEF Glo!Init, HomeKnows, PeerWillKnow
<1>5. QED BY <1>3, <1>4 DEF GlobalInv

(* What is sent goes to the end of what is under way, or nowhere.               *)
LEMMA GlobalSendsOK ==
    ASSUME Glo!TypeOK, NEW n \in Glo!Node, NEW m \in Glo!Message, Glo!Sends(n, m)
    PROVE  /\ gr_wire' \in [Glo!Node -> Seq(Glo!Message)]
           /\ \A x \in Glo!Node : \A i \in 1 .. Len(gr_wire[x]) :
                 i \in 1 .. Len(gr_wire'[x]) /\ gr_wire'[x][i] = gr_wire[x][i]
           /\ \A x \in Glo!Node : \A i \in 1 .. Len(gr_wire'[x]) :
                 \/ i \in 1 .. Len(gr_wire[x]) /\ gr_wire'[x][i] = gr_wire[x][i]
                 \/ x = n /\ gr_wire'[x][i] = m
           /\ gr_up[n] => \E i \in 1 .. Len(gr_wire'[n]) : gr_wire'[n][i] = m
<1>1. gr_wire \in [Glo!Node -> Seq(Glo!Message)]
  BY DEF Glo!TypeOK
<1>2. CASE ~gr_up[n]
  BY <1>1, <1>2 DEF Glo!Sends
<1>3. CASE gr_up[n]
  <2> DEFINE q == Append(gr_wire[n], m)
  <2>1. gr_wire' = [gr_wire EXCEPT ![n] = q]
    BY <1>3 DEF Glo!Sends
  <2>2. /\ q \in Seq(Glo!Message) /\ Len(q) = Len(gr_wire[n]) + 1 /\ q[Len(gr_wire[n]) + 1] = m
        /\ \A i \in 1 .. Len(gr_wire[n]) : q[i] = gr_wire[n][i]
        /\ Len(gr_wire[n]) \in Nat
    BY <1>1, LenProperties
  <2> HIDE DEF q
  <2>3. gr_wire'[n] = q /\ \A x \in Glo!Node \ {n} : gr_wire'[x] = gr_wire[x]
    BY <1>1, <2>1
  <2>4. gr_wire' \in [Glo!Node -> Seq(Glo!Message)]
    BY <1>1, <2>1, <2>2
  <2>5. \A i \in 1 .. Len(gr_wire'[n]) : i \in 1 .. Len(gr_wire[n]) \/ i = Len(gr_wire[n]) + 1
    BY <2>2, <2>3
  <2>6. \A i \in 1 .. Len(gr_wire[n]) : i \in 1 .. Len(gr_wire'[n])
    BY <2>2, <2>3
  <2>7. Len(gr_wire[n]) + 1 \in 1 .. Len(gr_wire'[n])
    BY <2>2, <2>3
  <2>8. QED BY <2>2, <2>3, <2>4, <2>5, <2>6, <2>7
<1>4. QED BY <1>2, <1>3

(* or_insert() forgets no name, and learns those it is given. *)
LEMMA GlobalOrInsertOK ==
    ASSUME Glo!TypeOK, NEW n \in Glo!Node, NEW E \in SUBSET Glo!Entry, Glo!OrInsert(n, E)
    PROVE  /\ gr_names' \in [Glo!Node -> [GlobalName -> Glo!Pid \cup {Glo!NoPid}]]
           /\ \A x \in Glo!Node, k \in GlobalName : gr_names[x][k] # Glo!NoPid => gr_names'[x][k] # Glo!NoPid
           /\ \A e \in E : gr_names'[n][e[1]] # Glo!NoPid
<1> DEFINE learnt(k) == CHOOSE e \in E : e[1] = k
           row == [k \in GlobalName |-> IF gr_names[n][k] = Glo!NoPid /\ \E e \in E : e[1] = k
                                  THEN learnt(k)[2] ELSE gr_names[n][k]]
<1>1. gr_names' = [gr_names EXCEPT ![n] = row] /\ gr_names \in [Glo!Node -> [GlobalName -> Glo!Pid \cup {Glo!NoPid}]]
  BY DEF Glo!OrInsert, Glo!TypeOK
<1>2. \A k \in GlobalName : (\E e \in E : e[1] = k) => learnt(k)[2] \in Glo!Pid
  BY DEF Glo!Entry
<1>3. /\ row \in [GlobalName -> Glo!Pid \cup {Glo!NoPid}]
      /\ \A k \in GlobalName : gr_names[n][k] # Glo!NoPid => row[k] # Glo!NoPid
      /\ \A e \in E : e[1] \in GlobalName /\ row[e[1]] # Glo!NoPid
  <2>1. \A k \in GlobalName : row[k] \in Glo!Pid \cup {Glo!NoPid}
    BY <1>1, <1>2
  <2>2. \A k \in GlobalName : gr_names[n][k] # Glo!NoPid => row[k] # Glo!NoPid
    OBVIOUS
  <2>3. ASSUME NEW e \in E PROVE e[1] \in GlobalName /\ row[e[1]] # Glo!NoPid
    <3>1. e[1] \in GlobalName
      BY DEF Glo!Entry
    <3>2. QED BY <1>2, <3>1, PidAssumption
  <2>4. QED BY <2>1, <2>2, <2>3
<1> HIDE DEF row
<1>4. QED BY <1>1, <1>3

LEMMA GlobalNodesOK == (\A n \in Glo!Node : Glo!Peer(n) \in Glo!Node /\ Glo!Peer(n) # n /\ Glo!Peer(Glo!Peer(n)) = n)
                 /\ (\A p \in Glo!Pid : Glo!Home(p) \in Glo!Node)
                 /\ (\A n, x \in Glo!Node : x = n \/ x = Glo!Peer(n))
  BY DEF Glo!Node, Glo!Peer, Glo!Home

LEMMA GlobalTypeOK_Told == Glo!TypeOK => \A e \in gr_told : e[1] \in GlobalName /\ e[2] \in Glo!Pid /\ Glo!Home(e[2]) \in Glo!Node
  BY GlobalNodesOK DEF Glo!TypeOK, Glo!Entry

LEMMA GlobalRegisterOK == ASSUME GlobalInv, NEW p \in Glo!Pid, NEW k \in GlobalName, Glo!Register(p, k) PROVE GlobalInv'
<1>1. gr_doing' \in [Glo!Pid -> {<<>>} \cup ({"insert", "broadcast"} \X GlobalName)]
      /\ \A q \in Glo!Pid : gr_doing'[q] # <<>> /\ gr_doing'[q][1] = "broadcast" => gr_doing'[q] = gr_doing[q]
  BY DEF GlobalInv, Glo!TypeOK, Glo!Register
<1>2. UNCHANGED <<gr_names, gr_syncing, gr_up, gr_wire, gr_losses, gr_told, gr_taken>> /\ gr_registers' \in Nat
  BY DEF GlobalInv, Glo!TypeOK, Glo!Register
<1>3. Glo!TypeOK'
  BY <1>1, <1>2 DEF GlobalInv, Glo!TypeOK
<1>4. HomeKnows'
  BY <1>1, <1>2 DEF GlobalInv, HomeKnows
<1>5. PeerWillKnow'
  BY <1>2 DEF GlobalInv, PeerWillKnow
<1>6. QED BY <1>3, <1>4, <1>5 DEF GlobalInv

LEMMA GlobalInsertOK == ASSUME GlobalInv, NEW p \in Glo!Pid, Glo!Insert(p) PROVE GlobalInv'
<1> DEFINE k == gr_doing[p][2]
<1>1. k \in GlobalName /\ Glo!Home(p) \in Glo!Node /\ p # Glo!NoPid
  BY GlobalNodesOK, PidAssumption DEF GlobalInv, Glo!TypeOK, Glo!Insert
<1>2. /\ gr_doing' = [gr_doing EXCEPT ![p] = <<"broadcast", k>>]
      /\ gr_names' = [gr_names EXCEPT ![Glo!Home(p)][k] = p]
      /\ UNCHANGED <<gr_syncing, gr_up, gr_wire, gr_registers, gr_losses, gr_told, gr_taken>>
  BY DEF Glo!Insert
<1> HIDE DEF k
<1>3. /\ gr_names'[Glo!Home(p)][k] = p
      /\ \A x \in Glo!Node, j \in GlobalName : gr_names[x][j] # Glo!NoPid => gr_names'[x][j] # Glo!NoPid
      /\ gr_names' \in [Glo!Node -> [GlobalName -> Glo!Pid \cup {Glo!NoPid}]]
  BY <1>1, <1>2 DEF GlobalInv, Glo!TypeOK
<1>4. Glo!TypeOK'
  BY <1>1, <1>2, <1>3 DEF GlobalInv, Glo!TypeOK
<1>5. HomeKnows'
  <2>1. ASSUME NEW q \in Glo!Pid, gr_doing'[q] # <<>>, gr_doing'[q][1] = "broadcast", gr_doing'[q][2] \notin gr_taken
        PROVE  gr_names'[Glo!Home(q)][gr_doing'[q][2]] # Glo!NoPid
    <3>1. CASE q = p
      BY <1>1, <1>2, <1>3, <3>1 DEF GlobalInv, Glo!TypeOK
    <3>2. CASE q # p
      <4>1. gr_doing'[q] = gr_doing[q] /\ gr_doing[q][2] \in GlobalName /\ Glo!Home(q) \in Glo!Node
        BY <1>2, <2>1, <3>2, GlobalNodesOK DEF GlobalInv, Glo!TypeOK
      <4>2. QED BY <1>3, <2>1, <4>1 DEF GlobalInv, HomeKnows
    <3>3. QED BY <3>1, <3>2
  <2>2. \A e \in gr_told : e[1] \notin gr_taken => gr_names'[Glo!Home(e[2])][e[1]] # Glo!NoPid
    BY <1>3, GlobalTypeOK_Told DEF GlobalInv, HomeKnows
  <2>3. QED BY <1>2, <2>1, <2>2 DEF GlobalInv, HomeKnows
<1>6. PeerWillKnow'
  BY <1>2, <1>3, GlobalTypeOK_Told, GlobalNodesOK DEF GlobalInv, PeerWillKnow
<1>7. QED BY <1>4, <1>5, <1>6 DEF GlobalInv

LEMMA GlobalBroadcastOK == ASSUME GlobalInv, NEW p \in Glo!Pid, Glo!Broadcast(p) PROVE GlobalInv'
<1> DEFINE k == gr_doing[p][2]
           m == <<"Register", k, p>>
<1>1. k \in GlobalName /\ Glo!Home(p) \in Glo!Node /\ gr_doing[p] # <<>> /\ gr_doing[p][1] = "broadcast"
  BY GlobalNodesOK DEF GlobalInv, Glo!TypeOK, Glo!Broadcast
<1>2. /\ Glo!Sends(Glo!Home(p), m) /\ gr_told' = gr_told \cup {<<k, p>>}
      /\ gr_doing' = [gr_doing EXCEPT ![p] = <<>>]
      /\ UNCHANGED <<gr_names, gr_syncing, gr_up, gr_registers, gr_losses, gr_taken>>
  BY DEF Glo!Broadcast
<1>3. m \in Glo!Message /\ m[1] # "Unregister" /\ Brings(m, k)
  BY <1>1 DEF Glo!Message, Brings
<1>4. k \notin gr_taken => gr_names[Glo!Home(p)][k] # Glo!NoPid
  BY <1>1 DEF GlobalInv, HomeKnows
<1> HIDE DEF k, m
<1>5. /\ gr_wire' \in [Glo!Node -> Seq(Glo!Message)]
      /\ \A x \in Glo!Node : \A i \in 1 .. Len(gr_wire[x]) :
            i \in 1 .. Len(gr_wire'[x]) /\ gr_wire'[x][i] = gr_wire[x][i]
      /\ \A x \in Glo!Node : \A i \in 1 .. Len(gr_wire'[x]) :
            \/ i \in 1 .. Len(gr_wire[x]) /\ gr_wire'[x][i] = gr_wire[x][i]
            \/ gr_wire'[x][i] = m
      /\ gr_up[Glo!Home(p)] => \E i \in 1 .. Len(gr_wire'[Glo!Home(p)]) : gr_wire'[Glo!Home(p)][i] = m
  <2> DEFINE h == Glo!Home(p)
  <2>1. Glo!TypeOK /\ h \in Glo!Node /\ m \in Glo!Message /\ Glo!Sends(h, m)
    BY <1>1, <1>2, <1>3 DEF GlobalInv
  <2> HIDE DEF h
  <2>2. /\ gr_wire' \in [Glo!Node -> Seq(Glo!Message)]
        /\ \A x \in Glo!Node : \A i \in 1 .. Len(gr_wire[x]) :
              i \in 1 .. Len(gr_wire'[x]) /\ gr_wire'[x][i] = gr_wire[x][i]
        /\ \A x \in Glo!Node : \A i \in 1 .. Len(gr_wire'[x]) :
              \/ i \in 1 .. Len(gr_wire[x]) /\ gr_wire'[x][i] = gr_wire[x][i]
              \/ x = h /\ gr_wire'[x][i] = m
        /\ gr_up[h] => \E i \in 1 .. Len(gr_wire'[h]) : gr_wire'[h][i] = m
    BY <2>1, GlobalSendsOK
  <2>3. QED BY <2>2 DEF h
<1>6. Glo!TypeOK'
  BY <1>1, <1>2, <1>5 DEF GlobalInv, Glo!TypeOK, Glo!Entry
<1>7. HomeKnows'
  <2>1. \A q \in Glo!Pid : gr_doing'[q] # <<>> => gr_doing'[q] = gr_doing[q]
    BY <1>2 DEF GlobalInv, Glo!TypeOK
  <2>2. <<k, p>>[1] = k /\ <<k, p>>[2] = p /\ \A e \in gr_told' : e \in gr_told \/ e = <<k, p>>
    BY <1>2
  <2>3. QED BY <1>2, <1>3, <1>4, <1>5, <2>1, <2>2 DEF GlobalInv, HomeKnows
<1>8. PeerWillKnow'
  <2> SUFFICES ASSUME NEW e \in gr_told', e[1] \notin gr_taken
               PROVE  \/ gr_names[Glo!Peer(Glo!Home(e[2]))][e[1]] # Glo!NoPid
                      \/ ~gr_up[Glo!Home(e[2])] \/ gr_syncing[Glo!Home(e[2])] # "none"
                      \/ \E i \in 1 .. Len(gr_wire'[Glo!Home(e[2])]) : Brings(gr_wire'[Glo!Home(e[2])][i], e[1])
    BY <1>2 DEF PeerWillKnow
  <2>1. CASE e \in gr_told
    BY <1>5, <2>1, GlobalTypeOK_Told DEF GlobalInv, PeerWillKnow
  <2>2. CASE e = <<k, p>>
    BY <1>3, <1>5, <2>2
  <2>3. QED BY <1>2, <2>1, <2>2
<1>9. QED BY <1>6, <1>7, <1>8 DEF GlobalInv

LEMMA GlobalUnregisterOK == ASSUME GlobalInv, NEW n \in Glo!Node, NEW k \in GlobalName, Glo!Unregister(n, k) PROVE GlobalInv'
<1> DEFINE m == <<"Unregister", k>>
<1>1. /\ Glo!Sends(n, m) /\ gr_taken' = gr_taken \cup {k} /\ gr_names' = [gr_names EXCEPT ![n][k] = Glo!NoPid]
      /\ gr_registers' = gr_registers + 1 /\ UNCHANGED <<gr_doing, gr_syncing, gr_up, gr_losses, gr_told>>
  BY DEF Glo!Unregister
<1>2. m \in Glo!Message /\ m[1] = "Unregister" /\ m[2] = k
  BY DEF Glo!Message
<1> HIDE DEF m
<1>3. /\ gr_wire' \in [Glo!Node -> Seq(Glo!Message)]
      /\ \A x \in Glo!Node : \A i \in 1 .. Len(gr_wire[x]) :
            i \in 1 .. Len(gr_wire'[x]) /\ gr_wire'[x][i] = gr_wire[x][i]
      /\ \A x \in Glo!Node : \A i \in 1 .. Len(gr_wire'[x]) :
            \/ i \in 1 .. Len(gr_wire[x]) /\ gr_wire'[x][i] = gr_wire[x][i]
            \/ gr_wire'[x][i] = m
  BY <1>1, <1>2, GlobalSendsOK DEF GlobalInv
<1>4. /\ gr_names' \in [Glo!Node -> [GlobalName -> Glo!Pid \cup {Glo!NoPid}]]
      /\ \A x \in Glo!Node, j \in GlobalName \ {k} : gr_names'[x][j] = gr_names[x][j]
  BY <1>1 DEF GlobalInv, Glo!TypeOK
<1>5. Glo!TypeOK'
  BY <1>1, <1>3, <1>4 DEF GlobalInv, Glo!TypeOK
<1>6. HomeKnows'
  <2>1. ASSUME NEW q \in Glo!Pid, gr_doing[q] # <<>>, gr_doing[q][1] = "broadcast", gr_doing[q][2] \notin gr_taken'
        PROVE  gr_names'[Glo!Home(q)][gr_doing[q][2]] # Glo!NoPid
    <3>1. gr_doing[q][2] \in GlobalName \ {k} /\ Glo!Home(q) \in Glo!Node
      BY <1>1, <2>1, GlobalNodesOK DEF GlobalInv, Glo!TypeOK
    <3>2. QED BY <1>1, <1>4, <2>1, <3>1 DEF GlobalInv, HomeKnows
  <2>2. \A e \in gr_told : e[1] \notin gr_taken' => gr_names'[Glo!Home(e[2])][e[1]] # Glo!NoPid
    BY <1>1, <1>4, GlobalTypeOK_Told DEF GlobalInv, HomeKnows
  <2>3. \A x \in Glo!Node : \A i \in 1 .. Len(gr_wire'[x]) :
            gr_wire'[x][i][1] = "Unregister" => gr_wire'[x][i][2] \in gr_taken'
    BY <1>1, <1>2, <1>3 DEF GlobalInv, HomeKnows
  <2>4. QED BY <1>1, <2>1, <2>2, <2>3 DEF HomeKnows
<1>7. PeerWillKnow'
  BY <1>1, <1>3, <1>4, GlobalTypeOK_Told, GlobalNodesOK DEF GlobalInv, PeerWillKnow
<1>8. QED BY <1>5, <1>6, <1>7 DEF GlobalInv

LEMMA GlobalConnectOK == ASSUME GlobalInv, NEW n \in Glo!Node, Glo!Connect(n) PROVE GlobalInv'
<1>1. Glo!TypeOK'
  BY DEF GlobalInv, Glo!TypeOK, Glo!Connect
<1>2. HomeKnows'
  BY DEF GlobalInv, HomeKnows, Glo!Connect
<1>3. PeerWillKnow'
  BY GlobalTypeOK_Told DEF GlobalInv, Glo!TypeOK, PeerWillKnow, Glo!Connect
<1>4. QED BY <1>1, <1>2, <1>3 DEF GlobalInv

LEMMA GlobalLoseOK == ASSUME GlobalInv, Glo!Lose PROVE GlobalInv'
<1>1. /\ gr_wire' \in [Glo!Node -> Seq(Glo!Message)] /\ \A n \in Glo!Node : Len(gr_wire'[n]) = 0 /\ ~gr_up'[n]
      /\ gr_up' \in [Glo!Node -> BOOLEAN] /\ gr_losses' \in Nat
      /\ UNCHANGED <<gr_names, gr_doing, gr_syncing, gr_registers, gr_told, gr_taken>>
  BY EmptySeq DEF GlobalInv, Glo!TypeOK, Glo!Lose
<1>2. Glo!TypeOK'
  BY <1>1 DEF GlobalInv, Glo!TypeOK
<1>3. HomeKnows'
  BY <1>1 DEF GlobalInv, HomeKnows
<1>4. PeerWillKnow'
  BY <1>1, GlobalTypeOK_Told DEF GlobalInv, PeerWillKnow
<1>5. QED BY <1>2, <1>3, <1>4 DEF GlobalInv

LEMMA GlobalRequestSyncOK == ASSUME GlobalInv, NEW n \in Glo!Node, Glo!RequestSync(n) PROVE GlobalInv'
<1>1. /\ Glo!Snapshot(n) \in SUBSET Glo!Entry
      /\ <<"SyncRequest">> \in Glo!Message /\ <<"SyncResponse", Glo!Snapshot(n)>> \in Glo!Message
  BY DEF Glo!Snapshot, Glo!Message
<1>2. UNCHANGED <<gr_names, gr_doing, gr_up, gr_registers, gr_losses, gr_told, gr_taken>>
  BY DEF Glo!RequestSync
<1>3. gr_syncing' \in [Glo!Node -> {"none", "request", "push"}]
      /\ \A x \in Glo!Node \ {n} : gr_syncing'[x] = gr_syncing[x]
  BY DEF GlobalInv, Glo!TypeOK, Glo!RequestSync
<1>4. ASSUME NEW m \in Glo!Message, m[1] # "Unregister", Glo!Sends(n, m),
             \/ gr_syncing'[n] # "none"
             \/ \A k \in GlobalName : gr_names[n][k] # Glo!NoPid => Brings(m, k)
      PROVE  GlobalInv'
  <2>1. /\ gr_wire' \in [Glo!Node -> Seq(Glo!Message)]
        /\ \A x \in Glo!Node : \A i \in 1 .. Len(gr_wire[x]) :
              i \in 1 .. Len(gr_wire'[x]) /\ gr_wire'[x][i] = gr_wire[x][i]
        /\ \A x \in Glo!Node : \A i \in 1 .. Len(gr_wire'[x]) :
              \/ i \in 1 .. Len(gr_wire[x]) /\ gr_wire'[x][i] = gr_wire[x][i]
              \/ gr_wire'[x][i] = m
        /\ gr_up[n] => \E i \in 1 .. Len(gr_wire'[n]) : gr_wire'[n][i] = m
    BY <1>4, GlobalSendsOK DEF GlobalInv
  <2>2. Glo!TypeOK'
    BY <1>2, <1>3, <2>1 DEF GlobalInv, Glo!TypeOK
  <2>3. HomeKnows'
    BY <1>2, <1>4, <2>1 DEF GlobalInv, HomeKnows
  <2>4. PeerWillKnow'
    <3> SUFFICES ASSUME NEW e \in gr_told, e[1] \notin gr_taken
                 PROVE  \/ gr_names[Glo!Peer(Glo!Home(e[2]))][e[1]] # Glo!NoPid
                        \/ ~gr_up[Glo!Home(e[2])] \/ gr_syncing'[Glo!Home(e[2])] # "none"
                        \/ \E i \in 1 .. Len(gr_wire'[Glo!Home(e[2])]) : Brings(gr_wire'[Glo!Home(e[2])][i], e[1])
      BY <1>2 DEF PeerWillKnow
    <3>1. e[1] \in GlobalName /\ Glo!Home(e[2]) \in Glo!Node /\ gr_names[Glo!Home(e[2])][e[1]] # Glo!NoPid
      BY GlobalTypeOK_Told DEF GlobalInv, HomeKnows
    <3>2. CASE Glo!Home(e[2]) = n
      BY <1>4, <2>1, <3>1, <3>2
    <3>3. CASE Glo!Home(e[2]) # n
      <4>1. \/ gr_names[Glo!Peer(Glo!Home(e[2]))][e[1]] # Glo!NoPid
            \/ ~gr_up[Glo!Home(e[2])] \/ gr_syncing[Glo!Home(e[2])] # "none"
            \/ \E i \in 1 .. Len(gr_wire[Glo!Home(e[2])]) : Brings(gr_wire[Glo!Home(e[2])][i], e[1])
        BY DEF GlobalInv, PeerWillKnow
      <4>2. gr_syncing'[Glo!Home(e[2])] = gr_syncing[Glo!Home(e[2])]
        BY <1>3, <3>1, <3>3
      <4>3. \A i \in 1 .. Len(gr_wire[Glo!Home(e[2])]) :
                i \in 1 .. Len(gr_wire'[Glo!Home(e[2])]) /\ gr_wire'[Glo!Home(e[2])][i] = gr_wire[Glo!Home(e[2])][i]
        BY <2>1, <3>1
      <4>4. QED BY <4>1, <4>2, <4>3
    <3>4. QED BY <3>2, <3>3
  <2>5. QED BY <2>2, <2>3, <2>4 DEF GlobalInv
<1>5. ASSUME gr_syncing[n] = "request", Glo!Sends(n, <<"SyncRequest">>),
             gr_syncing' = [gr_syncing EXCEPT ![n] = "push"]
      PROVE  GlobalInv'
  <2>1. gr_syncing'[n] # "none"
    BY <1>5 DEF GlobalInv, Glo!TypeOK
  <2>2. <<"SyncRequest">>[1] # "Unregister"
    OBVIOUS
  <2>3. QED BY <1>1, <1>4, <1>5, <2>1, <2>2
<1>6. ASSUME gr_syncing[n] = "push", Glo!Snapshot(n) # {}, Glo!Sends(n, <<"SyncResponse", Glo!Snapshot(n)>>)
      PROVE  GlobalInv'
  <2>1. ASSUME NEW k \in GlobalName, gr_names[n][k] # Glo!NoPid
        PROVE  Brings(<<"SyncResponse", Glo!Snapshot(n)>>, k)
    <3>1. <<k, gr_names[n][k]>> \in Glo!Snapshot(n)
      BY <2>1 DEF GlobalInv, Glo!TypeOK, Glo!Snapshot, Glo!Entry
    <3>2. QED BY <3>1 DEF Brings
  <2>2. <<"SyncResponse", Glo!Snapshot(n)>>[1] # "Unregister"
    OBVIOUS
  <2>3. QED BY <1>1, <1>4, <1>6, <2>1, <2>2
<1>7. ASSUME gr_syncing[n] = "push", Glo!Snapshot(n) = {}, UNCHANGED gr_wire
      PROVE  GlobalInv'
  <2>1. \A k \in GlobalName : gr_names[n][k] = Glo!NoPid
    <3> SUFFICES ASSUME NEW k \in GlobalName, gr_names[n][k] # Glo!NoPid PROVE FALSE
      OBVIOUS
    <3>1. <<k, gr_names[n][k]>> \in Glo!Snapshot(n)
      BY DEF GlobalInv, Glo!TypeOK, Glo!Snapshot, Glo!Entry
    <3>2. QED BY <1>7, <3>1
  <2>2. Glo!TypeOK'
    BY <1>2, <1>3, <1>7 DEF GlobalInv, Glo!TypeOK
  <2>3. HomeKnows'
    BY <1>2, <1>7 DEF GlobalInv, HomeKnows
  <2>4. \A e \in gr_told : e[1] \notin gr_taken => Glo!Home(e[2]) # n
    BY <2>1, GlobalTypeOK_Told DEF GlobalInv, HomeKnows
  <2>5. PeerWillKnow'
    BY <1>2, <1>3, <1>7, <2>4, GlobalTypeOK_Told DEF GlobalInv, PeerWillKnow
  <2>6. QED BY <2>2, <2>3, <2>5 DEF GlobalInv
<1>8. QED BY <1>5, <1>6, <1>7 DEF Glo!RequestSync

(* The message in hand is the first of those the peer has sent. *)
LEMMA GlobalReceiveOK ==
    ASSUME GlobalInv, NEW n \in Glo!Node, gr_wire[Glo!Peer(n)] # <<>>
    PROVE  LET s == Glo!Peer(n)  m == Head(gr_wire[s])
           IN  /\ s \in Glo!Node /\ m \in Glo!Message /\ Tail(gr_wire[s]) \in Seq(Glo!Message)
               /\ 1 \in 1 .. Len(gr_wire[s]) /\ m = gr_wire[s][1]
               /\ \A i \in 1 .. Len(Tail(gr_wire[s])) :
                     i + 1 \in 1 .. Len(gr_wire[s]) /\ Tail(gr_wire[s])[i] = gr_wire[s][i + 1]
               /\ \A i \in 1 .. Len(gr_wire[s]) :
                     \/ i = 1
                     \/ i - 1 \in 1 .. Len(Tail(gr_wire[s])) /\ Tail(gr_wire[s])[i - 1] = gr_wire[s][i]
<1> DEFINE q == gr_wire[Glo!Peer(n)]
<1>1. Glo!Peer(n) \in Glo!Node /\ q \in Seq(Glo!Message) /\ q # <<>>
  BY GlobalNodesOK DEF GlobalInv, Glo!TypeOK
<1> HIDE DEF q
<1>2. Len(q) \in Nat \ {0}
  BY <1>1, EmptySeq
<1>3. /\ Head(q) \in Glo!Message /\ Head(q) = q[1] /\ Tail(q) \in Seq(Glo!Message) /\ Len(Tail(q)) = Len(q) - 1
      /\ \A i \in 1 .. Len(Tail(q)) : Tail(q)[i] = q[i + 1]
  BY <1>1, HeadTailProperties
<1>4. \A i \in 1 .. Len(Tail(q)) : i + 1 \in 1 .. Len(q)
  BY <1>2, <1>3
<1>5. ASSUME NEW i \in 1 .. Len(q), i # 1
      PROVE  i - 1 \in 1 .. Len(Tail(q)) /\ Tail(q)[i - 1] = q[i]
  <2>1. i - 1 \in 1 .. Len(Tail(q)) /\ (i - 1) + 1 = i
    BY <1>2, <1>3, <1>5
  <2>2. QED BY <1>3, <2>1
<1>6. 1 \in 1 .. Len(q)
  BY <1>2
<1>7. QED BY <1>1, <1>3, <1>4, <1>5, <1>6 DEF q

(* What a node may do with a message in hand that was told of some names: it     *)
(* comes to know them, and forgets none but those that were unregistered.         *)
LEMMA GlobalHandledOK ==
    ASSUME GlobalInv, NEW n \in Glo!Node, gr_up[n], gr_wire[Glo!Peer(n)] # <<>>,
           UNCHANGED <<gr_doing, gr_syncing, gr_up, gr_registers, gr_losses, gr_told, gr_taken>>,
           gr_names' \in [Glo!Node -> [GlobalName -> Glo!Pid \cup {Glo!NoPid}]],
           \A x \in Glo!Node, k \in GlobalName : gr_names[x][k] # Glo!NoPid /\ k \notin gr_taken => gr_names'[x][k] # Glo!NoPid,
           \A k \in GlobalName : Brings(Head(gr_wire[Glo!Peer(n)]), k) /\ k \notin gr_taken => gr_names'[n][k] # Glo!NoPid,
           gr_wire' \in [Glo!Node -> Seq(Glo!Message)], gr_wire'[Glo!Peer(n)] = Tail(gr_wire[Glo!Peer(n)]),
           \A i \in 1 .. Len(gr_wire[n]) : i \in 1 .. Len(gr_wire'[n]) /\ gr_wire'[n][i] = gr_wire[n][i],
           \A i \in 1 .. Len(gr_wire'[n]) :
               \/ i \in 1 .. Len(gr_wire[n]) /\ gr_wire'[n][i] = gr_wire[n][i]
               \/ gr_wire'[n][i][1] # "Unregister"
    PROVE  GlobalInv'
<1>1. Glo!TypeOK'
  BY DEF GlobalInv, Glo!TypeOK
<1>2. \A x \in Glo!Node : x = n \/ x = Glo!Peer(n)
  BY GlobalNodesOK
<1>3. /\ \A i \in 1 .. Len(Tail(gr_wire[Glo!Peer(n)])) :
            i + 1 \in 1 .. Len(gr_wire[Glo!Peer(n)]) /\ Tail(gr_wire[Glo!Peer(n)])[i] = gr_wire[Glo!Peer(n)][i + 1]
      /\ \A i \in 1 .. Len(gr_wire[Glo!Peer(n)]) :
            \/ i = 1 /\ gr_wire[Glo!Peer(n)][i] = Head(gr_wire[Glo!Peer(n)])
            \/ i - 1 \in 1 .. Len(Tail(gr_wire[Glo!Peer(n)])) /\ Tail(gr_wire[Glo!Peer(n)])[i - 1] = gr_wire[Glo!Peer(n)][i]
      /\ Glo!Peer(n) \in Glo!Node
  BY GlobalReceiveOK
<1>4. HomeKnows'
  <2>1. ASSUME NEW x \in Glo!Node, NEW i \in 1 .. Len(gr_wire'[x]), gr_wire'[x][i][1] = "Unregister"
        PROVE  gr_wire'[x][i][2] \in gr_taken
    <3>1. CASE x = n
      BY <2>1, <3>1 DEF GlobalInv, HomeKnows
    <3>2. CASE x = Glo!Peer(n)
      <4>1. gr_wire'[x] = Tail(gr_wire[Glo!Peer(n)])
        BY <3>2
      <4>2. i + 1 \in 1 .. Len(gr_wire[Glo!Peer(n)]) /\ gr_wire'[x][i] = gr_wire[Glo!Peer(n)][i + 1]
        BY <1>3, <2>1, <4>1
      <4>3. QED BY <1>3, <2>1, <4>2 DEF GlobalInv, HomeKnows
    <3>3. QED BY <1>2, <3>1, <3>2
  <2>2. ASSUME NEW q \in Glo!Pid, gr_doing[q] # <<>>, gr_doing[q][1] = "broadcast", gr_doing[q][2] \notin gr_taken
        PROVE  gr_names'[Glo!Home(q)][gr_doing[q][2]] # Glo!NoPid
    <3>1. gr_doing[q][2] \in GlobalName /\ Glo!Home(q) \in Glo!Node
      BY <2>2, GlobalNodesOK DEF GlobalInv, Glo!TypeOK
    <3>2. QED BY <2>2, <3>1 DEF GlobalInv, HomeKnows
  <2>3. \A e \in gr_told : e[1] \notin gr_taken => gr_names'[Glo!Home(e[2])][e[1]] # Glo!NoPid
    BY GlobalTypeOK_Told DEF GlobalInv, HomeKnows
  <2>4. QED BY <2>1, <2>2, <2>3 DEF HomeKnows
<1>5. PeerWillKnow'
  <2> SUFFICES ASSUME NEW e \in gr_told, e[1] \notin gr_taken
               PROVE  \/ gr_names'[Glo!Peer(Glo!Home(e[2]))][e[1]] # Glo!NoPid
                      \/ ~gr_up[Glo!Home(e[2])] \/ gr_syncing[Glo!Home(e[2])] # "none"
                      \/ \E i \in 1 .. Len(gr_wire'[Glo!Home(e[2])]) : Brings(gr_wire'[Glo!Home(e[2])][i], e[1])
    BY DEF PeerWillKnow
  <2>1. e[1] \in GlobalName /\ Glo!Home(e[2]) \in Glo!Node /\ Glo!Peer(Glo!Home(e[2])) \in Glo!Node /\ Glo!Peer(Glo!Peer(n)) = n
    BY GlobalTypeOK_Told, GlobalNodesOK DEF GlobalInv
  <2>2. CASE \/ gr_names[Glo!Peer(Glo!Home(e[2]))][e[1]] # Glo!NoPid
             \/ ~gr_up[Glo!Home(e[2])] \/ gr_syncing[Glo!Home(e[2])] # "none"
    BY <2>1, <2>2
  <2>3. ASSUME NEW i \in 1 .. Len(gr_wire[Glo!Home(e[2])]), Brings(gr_wire[Glo!Home(e[2])][i], e[1])
        PROVE  \/ gr_names'[Glo!Peer(Glo!Home(e[2]))][e[1]] # Glo!NoPid
               \/ \E j \in 1 .. Len(gr_wire'[Glo!Home(e[2])]) : Brings(gr_wire'[Glo!Home(e[2])][j], e[1])
    <3>1. CASE Glo!Home(e[2]) = n
      BY <2>3, <3>1
    <3>2. CASE Glo!Home(e[2]) = Glo!Peer(n) /\ i = 1 /\ gr_wire[Glo!Peer(n)][i] = Head(gr_wire[Glo!Peer(n)])
      BY <2>1, <2>3, <3>2
    <3>3. CASE /\ Glo!Home(e[2]) = Glo!Peer(n) /\ i - 1 \in 1 .. Len(Tail(gr_wire[Glo!Peer(n)]))
               /\ Tail(gr_wire[Glo!Peer(n)])[i - 1] = gr_wire[Glo!Peer(n)][i]
      <4>1. gr_wire'[Glo!Home(e[2])] = Tail(gr_wire[Glo!Peer(n)])
        BY <3>3
      <4>2. i - 1 \in 1 .. Len(gr_wire'[Glo!Home(e[2])]) /\ Brings(gr_wire'[Glo!Home(e[2])][i - 1], e[1])
        BY <2>3, <3>3, <4>1
      <4>3. QED BY <4>2
    <3>4. QED BY <1>2, <1>3, <2>1, <2>3, <3>1, <3>2, <3>3
  <2>4. QED BY <2>2, <2>3 DEF GlobalInv, PeerWillKnow
<1>6. QED BY <1>1, <1>4, <1>5 DEF GlobalInv

LEMMA GlobalHandleMessageOK == ASSUME GlobalInv, NEW n \in Glo!Node, Glo!HandleMessage(n) PROVE GlobalInv'
<1> DEFINE s == Glo!Peer(n)
           m == Head(gr_wire[s])
           rest == [gr_wire EXCEPT ![s] = Tail(@)]
<1>1. /\ gr_up[n] /\ gr_wire[s] # <<>>
      /\ UNCHANGED <<gr_doing, gr_syncing, gr_up, gr_registers, gr_losses, gr_told, gr_taken>>
  BY DEF Glo!HandleMessage
<1>2. /\ s \in Glo!Node /\ s # n /\ m \in Glo!Message /\ Tail(gr_wire[s]) \in Seq(Glo!Message)
      /\ 1 \in 1 .. Len(gr_wire[s]) /\ m = gr_wire[s][1]
  BY <1>1, GlobalReceiveOK, GlobalNodesOK
<1>3. /\ rest \in [Glo!Node -> Seq(Glo!Message)] /\ rest[s] = Tail(gr_wire[s]) /\ rest[n] = gr_wire[n]
      /\ gr_wire \in [Glo!Node -> Seq(Glo!Message)] /\ Glo!TypeOK
  BY <1>2 DEF GlobalInv, Glo!TypeOK
<1>4. m[1] = "Unregister" => m[2] \in gr_taken
  BY <1>2 DEF GlobalInv, HomeKnows
<1> HIDE DEF s, m, rest
<1>5. ASSUME m[1] = "Register", Glo!OrInsert(n, {<<m[2], m[3]>>}), gr_wire' = rest PROVE GlobalInv'
  <2>1. {<<m[2], m[3]>>} \in SUBSET Glo!Entry
    BY <1>2, <1>5 DEF Glo!Message, Glo!Entry
  <2>2. /\ gr_names' \in [Glo!Node -> [GlobalName -> Glo!Pid \cup {Glo!NoPid}]]
        /\ \A x \in Glo!Node, k \in GlobalName : gr_names[x][k] # Glo!NoPid => gr_names'[x][k] # Glo!NoPid
        /\ \A e \in {<<m[2], m[3]>>} : gr_names'[n][e[1]] # Glo!NoPid
    BY <1>3, <1>5, <2>1, GlobalOrInsertOK
  <2>3. \A k \in GlobalName : Brings(m, k) => gr_names'[n][k] # Glo!NoPid
    BY <1>5, <2>2 DEF Brings
  <2>4. QED BY <1>1, <1>3, <1>5, <2>2, <2>3, GlobalHandledOK DEF s, m
<1>6. ASSUME m[1] = "Unregister", gr_names' = [gr_names EXCEPT ![n][m[2]] = Glo!NoPid], gr_wire' = rest
      PROVE  GlobalInv'
  <2>1. m[2] \in GlobalName
    BY <1>2, <1>6 DEF Glo!Message
  <2>2. /\ gr_names' \in [Glo!Node -> [GlobalName -> Glo!Pid \cup {Glo!NoPid}]]
        /\ \A x \in Glo!Node, k \in GlobalName : k # m[2] => gr_names'[x][k] = gr_names[x][k]
    BY <1>3, <1>6, <2>1 DEF Glo!TypeOK
  <2>3. \A k \in GlobalName : ~Brings(m, k)
    BY <1>6 DEF Brings
  <2>4. QED BY <1>1, <1>3, <1>4, <1>6, <2>2, <2>3, GlobalHandledOK DEF s, m
<1>7. ASSUME m[1] = "SyncRequest", UNCHANGED gr_names,
             gr_wire' = [rest EXCEPT ![n] = Append(@, <<"SyncResponse", Glo!Snapshot(n)>>)]
      PROVE  GlobalInv'
  <2> DEFINE answer == <<"SyncResponse", Glo!Snapshot(n)>>
             q == Append(gr_wire[n], answer)
  <2>1. answer \in Glo!Message /\ answer[1] # "Unregister"
    BY DEF Glo!Message, Glo!Snapshot
  <2> HIDE DEF answer
  <2>2. /\ q \in Seq(Glo!Message) /\ Len(gr_wire[n]) \in Nat /\ Len(q) = Len(gr_wire[n]) + 1
        /\ q[Len(gr_wire[n]) + 1] = answer /\ \A i \in 1 .. Len(gr_wire[n]) : q[i] = gr_wire[n][i]
    BY <1>3, <2>1, LenProperties
  <2>3. gr_wire' = [rest EXCEPT ![n] = q]
    BY <1>3, <1>7 DEF answer
  <2> HIDE DEF q
  <2>4. gr_wire' \in [Glo!Node -> Seq(Glo!Message)] /\ gr_wire'[s] = Tail(gr_wire[s]) /\ gr_wire'[n] = q
    BY <1>2, <1>3, <2>2, <2>3
  <2>5. \A i \in 1 .. Len(gr_wire'[n]) : i \in 1 .. Len(gr_wire[n]) \/ i = Len(gr_wire[n]) + 1
    BY <2>2, <2>4
  <2>6. \A i \in 1 .. Len(gr_wire[n]) : i \in 1 .. Len(gr_wire'[n])
    BY <2>2, <2>4
  <2>7. \A k \in GlobalName : ~Brings(m, k)
    BY <1>7 DEF Brings
  <2>8. gr_names' \in [Glo!Node -> [GlobalName -> Glo!Pid \cup {Glo!NoPid}]]
    BY <1>3, <1>7 DEF Glo!TypeOK
  <2>9. QED BY <1>1, <1>7, <2>1, <2>2, <2>4, <2>5, <2>6, <2>7, <2>8, GlobalHandledOK DEF s, m
<1>8. ASSUME m[1] = "SyncResponse", Glo!OrInsert(n, m[2]), gr_wire' = rest PROVE GlobalInv'
  <2>1. m[2] \in SUBSET Glo!Entry
    BY <1>2, <1>8 DEF Glo!Message
  <2>2. /\ gr_names' \in [Glo!Node -> [GlobalName -> Glo!Pid \cup {Glo!NoPid}]]
        /\ \A x \in Glo!Node, k \in GlobalName : gr_names[x][k] # Glo!NoPid => gr_names'[x][k] # Glo!NoPid
        /\ \A e \in m[2] : gr_names'[n][e[1]] # Glo!NoPid
    BY <1>3, <1>8, <2>1, GlobalOrInsertOK
  <2>3. \A k \in GlobalName : Brings(m, k) => gr_names'[n][k] # Glo!NoPid
    BY <1>8, <2>2 DEF Brings
  <2>4. QED BY <1>1, <1>3, <1>8, <2>2, <2>3, GlobalHandledOK DEF s, m
<1>9. QED BY <1>5, <1>6, <1>7, <1>8 DEF Glo!HandleMessage, s, m, rest

LEMMA GlobalStepOK == GlobalInv /\ [Glo!Next]_(Glo!vars) => GlobalInv'
<1> SUFFICES ASSUME GlobalInv, [Glo!Next]_(Glo!vars) PROVE GlobalInv'
  OBVIOUS
<1>1. ASSUME NEW p \in Glo!Pid, Glo!Insert(p) \/ Glo!Broadcast(p) PROVE GlobalInv'
  BY <1>1, GlobalInsertOK, GlobalBroadcastOK
<1>2. ASSUME NEW p \in Glo!Pid, NEW k \in GlobalName, Glo!Register(p, k) PROVE GlobalInv'
  BY <1>2, GlobalRegisterOK
<1>3. ASSUME NEW n \in Glo!Node, Glo!HandleMessage(n) \/ Glo!Connect(n) \/ Glo!RequestSync(n) PROVE GlobalInv'
  BY <1>3, GlobalHandleMessageOK, GlobalConnectOK, GlobalRequestSyncOK
<1>4. ASSUME NEW n \in Glo!Node, NEW k \in GlobalName, Glo!Unregister(n, k) PROVE GlobalInv'
  BY <1>4, GlobalUnregisterOK
<1>5. CASE Glo!Lose
  BY <1>5, GlobalLoseOK
<1>6. CASE UNCHANGED Glo!vars
  BY <1>6 DEF Glo!vars, GlobalInv, Glo!TypeOK, HomeKnows, PeerWillKnow
<1>7. QED BY <1>1, <1>2, <1>3, <1>4, <1>5, <1>6 DEF Glo!Next

LEMMA GlobalSafeOK == GlobalInv => Glo!EveryNodeKnows
<1> SUFFICES ASSUME GlobalInv, Glo!AtRest, NEW e \in gr_told, e[1] \notin gr_taken, NEW n \in Glo!Node
             PROVE  gr_names[n][e[1]] # Glo!NoPid
  BY DEF Glo!EveryNodeKnows
<1>1. /\ e[1] \in GlobalName /\ Glo!Home(e[2]) \in Glo!Node
      /\ gr_up[Glo!Home(e[2])] /\ gr_syncing[Glo!Home(e[2])] = "none" /\ Len(gr_wire[Glo!Home(e[2])]) = 0
  BY GlobalTypeOK_Told DEF GlobalInv, Glo!AtRest
<1>2. gr_names[Glo!Home(e[2])][e[1]] # Glo!NoPid /\ gr_names[Glo!Peer(Glo!Home(e[2]))][e[1]] # Glo!NoPid
  BY <1>1 DEF GlobalInv, HomeKnows, PeerWillKnow
<1>3. QED BY <1>1, <1>2, GlobalNodesOK

LEMMA GlobalInFocus == GlobalInv /\ [ClusterNext]_clusterVars => GlobalInv'
<1>1. ClusterNext => Glo!Next \/ UNCHANGED grVars
  BY DEF ClusterNext
<1>2. UNCHANGED clusterVars => UNCHANGED grVars
  BY DEF clusterVars
<1>3. UNCHANGED grVars => UNCHANGED Glo!vars
  BY DEF grVars, Glo!vars
<1>4. QED BY <1>1, <1>2, <1>3, GlobalStepOK

(* global.rs: nodes that are connected come to know each other's names.           *)
THEOREM GlobalCorrect == ClusterSpec => []GlobalSafe
<1>1. ClusterInit => GlobalInv
  BY GlobalInitOK DEF ClusterInit
<1>2. GlobalInv => GlobalSafe
  BY GlobalSafeOK DEF GlobalInv, GlobalSafe
<1>3. QED BY <1>1, <1>2, GlobalInFocus, PTL DEF ClusterSpec

-----------------------------------------------------------------------------
(* Whose entries a task works on: a process on its own, the receiver and the    *)
(* clean-up of a node on those of the other node's.                             *)
Charge(t) ==
    CASE t[1] = "process" -> {t[2]}
      [] t[1] = "connector" -> {}
      [] OTHER -> Grp!Local(Grp!Peer(t[2]))

Kept(t, r) ==
    /\ r.entry # Grp!Nothing => r.entry[2] \in Charge(t)
    /\ r.todo \subseteq Group \X Charge(t) /\ r.procs \subseteq Charge(t)
    /\ r.say # Grp!Nothing => r.say \in Grp!Message(Grp!Local(Grp!NodeOf(t)))
    /\ r.do \in {"add", "track", "leave", "untrack", "unlist"} => t[1] \in {"process", "receiver"}
    /\ r.do \in {"track", "untrack", "unlist"} \/ r.empty => r.entry # Grp!Nothing
    /\ r.empty => r.do \in {"untrack", "purge", "take", "say", "rest"}
    /\ r.do = "say" => r.say # Grp!Nothing
    /\ r.do = "collect" => t[1] = "cleaner"

ChargeKept == \A t \in Grp!Task : Kept(t, pg_at[t])

WiresOwn ==
    \A n \in Grp!Node : \A i \in 1 .. Len(pg_wire[n]) : pg_wire[n][i] \in Grp!Message(Grp!Local(n))

Covers(r, e) == (r.do = "track" /\ r.entry = e) \/ (r.do = "purge" /\ e \in r.todo)

(* A member without a reverse entry is about to get one, or about to go.        *)
StrayCovered ==
    \A n \in Grp!Node : \A e \in pg_groups[n] \ pg_reverse[n] :
        \E t \in Grp!Task : Grp!NodeOf(t) = n /\ Covers(pg_at[t], e)

(* What loses its reverse entry in leave() is no member any more.               *)
LeftFirst ==
    \A t \in Grp!Task :
        /\ pg_at[t].do = "untrack" => pg_at[t].entry \notin pg_groups[Grp!NodeOf(t)]
        /\ pg_at[t].do = "unlist" => Grp!Of(pg_at[t].entry[2], pg_reverse[Grp!NodeOf(t)]) = {}

GroupsInv == Grp!TypeOK /\ ChargeKept /\ WiresOwn /\ StrayCovered /\ LeftFirst

LEMMA GroupsInitOK == Grp!Init => GroupsInv
<1> SUFFICES ASSUME Grp!Init PROVE GroupsInv
  OBVIOUS
<1>1. Grp!Rest \in Grp!Work /\ Grp!Rest.do = "rest" /\ Grp!Rest.entry = Grp!Nothing /\ Grp!Rest.todo = {}
      /\ Grp!Rest.procs = {} /\ Grp!Rest.say = Grp!Nothing /\ ~Grp!Rest.empty
  BY DEF Grp!Rest, Grp!Op, Grp!Work
<1>2. Grp!TypeOK
  BY <1>1, EmptySeq DEF Grp!Init, Grp!TypeOK
<1>3. ChargeKept /\ LeftFirst
  BY <1>1 DEF Grp!Init, ChargeKept, Kept, LeftFirst
<1>4. WiresOwn
  BY EmptySeq DEF Grp!Init, WiresOwn
<1>5. StrayCovered
  BY DEF Grp!Init, StrayCovered
<1>6. QED BY <1>2, <1>3, <1>4, <1>5 DEF GroupsInv

LEMMA GroupsTasksOK ==
    ASSUME NEW t \in Grp!Task
    PROVE  /\ Grp!NodeOf(t) \in Grp!Node /\ Charge(t) \subseteq Grp!Process
           /\ Charge(t) \subseteq Grp!Local(Grp!NodeOf(t)) \/ t[1] # "process"
           /\ t[1] \in {"process", "receiver", "cleaner", "connector"}
<1>1. CASE t \in {"process"} \X Grp!Process
  BY <1>1 DEF Grp!NodeOf, Charge, Grp!Node, Grp!Home, Grp!Local, Grp!Process
<1>2. CASE t \in {"receiver", "cleaner", "connector"} \X Grp!Node
  BY <1>2 DEF Grp!NodeOf, Charge, Grp!Node, Grp!Peer, Grp!Local, Grp!Process
<1>3. QED BY <1>1, <1>2 DEF Grp!Task

(* One task of a node at most puts a process into groups, or takes it from one.  *)
LEMMA GroupsAloneOK ==
    ASSUME NEW t \in Grp!Task, NEW u \in Grp!Task, Grp!NodeOf(t) = Grp!NodeOf(u),
           t[1] \in {"process", "receiver"}, u[1] \in {"process", "receiver"},
           NEW p \in Charge(t), p \in Charge(u)
    PROVE  t = u
<1>1. CASE t[1] = "process" /\ u[1] = "process"
  BY <1>1 DEF Grp!Task, Charge
<1>2. CASE t[1] = "receiver" /\ u[1] = "receiver"
  BY <1>2 DEF Grp!Task, Grp!NodeOf
<1>3. ~(t[1] = "process" /\ u[1] = "receiver")
  BY NodesAssumption DEF Grp!Task, Charge, Grp!NodeOf, Grp!Home, Grp!Local, Grp!Peer, Grp!Node, Grp!Process
<1>4. ~(u[1] = "process" /\ t[1] = "receiver")
  BY NodesAssumption DEF Grp!Task, Charge, Grp!NodeOf, Grp!Home, Grp!Local, Grp!Peer, Grp!Node, Grp!Process
<1>5. QED BY <1>1, <1>2, <1>3, <1>4

LEMMA GroupsOnwardOK ==
    ASSUME NEW r \in Grp!Work, NEW more \in {"add", "leave", "purge"}
    PROVE  LET s == Grp!Onward(r, more)
           IN  /\ s \in Grp!Work /\ s.entry = r.entry /\ s.todo = r.todo /\ s.procs = r.procs
               /\ s.empty = r.empty /\ s.say = r.say
               /\ s.do \in {more, "take", "say", "rest"}
               /\ s.do = more <=> r.todo # {}
               /\ s.do = "say" => r.say # Grp!Nothing
  BY DEF Grp!Onward, Grp!Work

(* A step of one task, as to what the others rely on.                            *)
LEMMA GroupsTaskOK ==
    ASSUME GroupsInv, NEW t \in Grp!Task, NEW r \in Grp!Work, pg_at' = [pg_at EXCEPT ![t] = r], Kept(t, r),
           pg_groups' \in [Grp!Node -> SUBSET Grp!Entry], pg_listed' \in [Grp!Node -> SUBSET Group],
           pg_reverse' \in [Grp!Node -> SUBSET Grp!Entry], pg_up' \in [Grp!Node -> BOOLEAN],
           pg_wire' \in [Grp!Node -> Seq(Grp!Message(Grp!Process))], WiresOwn',
           \A n \in Grp!Node \ {Grp!NodeOf(t)} : pg_groups'[n] = pg_groups[n] /\ pg_reverse'[n] = pg_reverse[n],
           \A e \in pg_groups'[Grp!NodeOf(t)] \ pg_reverse'[Grp!NodeOf(t)] :
               Covers(r, e) \/ (e \in pg_groups[Grp!NodeOf(t)] \ pg_reverse[Grp!NodeOf(t)] /\ ~Covers(pg_at[t], e)),
           \A e \in pg_groups'[Grp!NodeOf(t)] \ pg_groups[Grp!NodeOf(t)] :
               e[2] \in Charge(t) /\ t[1] \in {"process", "receiver"},
           \A e \in pg_reverse'[Grp!NodeOf(t)] \ pg_reverse[Grp!NodeOf(t)] :
               e[2] \in Charge(t) /\ t[1] \in {"process", "receiver"},
           r.do = "untrack" => r.entry \notin pg_groups'[Grp!NodeOf(t)],
           r.do = "unlist" => Grp!Of(r.entry[2], pg_reverse'[Grp!NodeOf(t)]) = {}
    PROVE  GroupsInv'
<1>0. pg_at'[t] = r /\ (\A u \in Grp!Task \ {t} : pg_at'[u] = pg_at[u]) /\ Grp!NodeOf(t) \in Grp!Node
  BY GroupsTasksOK DEF GroupsInv, Grp!TypeOK
<1>1. Grp!TypeOK'
  BY DEF GroupsInv, Grp!TypeOK
<1>2. ChargeKept'
  BY <1>0 DEF GroupsInv, ChargeKept
<1>3. StrayCovered'
  <2> SUFFICES ASSUME NEW n \in Grp!Node, NEW e \in pg_groups'[n] \ pg_reverse'[n]
               PROVE  \E u \in Grp!Task : Grp!NodeOf(u) = n /\ Covers(pg_at'[u], e)
    BY DEF StrayCovered
  <2>1. CASE n = Grp!NodeOf(t) /\ Covers(r, e)
    BY <1>0, <2>1
  <2>2. CASE e \in pg_groups[n] \ pg_reverse[n] /\ (n = Grp!NodeOf(t) => ~Covers(pg_at[t], e))
    <3>1. PICK u \in Grp!Task : Grp!NodeOf(u) = n /\ Covers(pg_at[u], e)
      BY <2>2 DEF GroupsInv, StrayCovered
    <3>2. u # t
      BY <2>2, <3>1
    <3>3. QED BY <1>0, <3>1, <3>2
  <2>3. QED BY <2>1, <2>2
<1>4. LeftFirst'
  <2> SUFFICES ASSUME NEW u \in Grp!Task
               PROVE  /\ pg_at'[u].do = "untrack" => pg_at'[u].entry \notin pg_groups'[Grp!NodeOf(u)]
                      /\ pg_at'[u].do = "unlist" => Grp!Of(pg_at'[u].entry[2], pg_reverse'[Grp!NodeOf(u)]) = {}
    BY DEF LeftFirst
  <2>1. CASE u = t
    BY <1>0, <2>1
  <2>2. CASE u # t /\ Grp!NodeOf(u) # Grp!NodeOf(t)
    <3>1. Grp!NodeOf(u) \in Grp!Node \ {Grp!NodeOf(t)} /\ pg_at'[u] = pg_at[u]
      BY <1>0, <2>2, GroupsTasksOK
    <3>2. pg_groups'[Grp!NodeOf(u)] = pg_groups[Grp!NodeOf(u)] /\ pg_reverse'[Grp!NodeOf(u)] = pg_reverse[Grp!NodeOf(u)]
      BY <3>1
    <3>3. QED BY <3>1, <3>2 DEF GroupsInv, LeftFirst
  <2>3. CASE u # t /\ Grp!NodeOf(u) = Grp!NodeOf(t)
    <3>1. pg_at'[u] = pg_at[u]
      BY <1>0, <2>3
    <3>2. ASSUME pg_at[u].do \in {"untrack", "unlist"}
          PROVE  /\ pg_at[u].entry[2] \in Charge(u) /\ u[1] \in {"process", "receiver"}
                 /\ ~(pg_at[u].entry[2] \in Charge(t) /\ t[1] \in {"process", "receiver"})
      <4>1. pg_at[u].entry[2] \in Charge(u) /\ u[1] \in {"process", "receiver"}
        BY <3>2 DEF GroupsInv, ChargeKept, Kept
      <4>2. QED BY <2>3, <4>1, GroupsAloneOK
    <3>3. pg_at[u].do = "untrack" => pg_at[u].entry \notin pg_groups'[Grp!NodeOf(t)]
      BY <2>3, <3>2 DEF GroupsInv, LeftFirst
    <3>4. ASSUME pg_at[u].do = "unlist" PROVE Grp!Of(pg_at[u].entry[2], pg_reverse'[Grp!NodeOf(t)]) = {}
      BY <2>3, <3>2, <3>4 DEF GroupsInv, LeftFirst, Grp!Of
    <3>5. QED BY <2>3, <3>1, <3>3, <3>4
  <2>4. QED BY <2>1, <2>2, <2>3
<1>5. QED BY <1>1, <1>2, <1>3, <1>4 DEF GroupsInv

(* What a task has in hand is as ChargeKept says.                                *)
LEMMA GroupsHandOK ==
    ASSUME GroupsInv, NEW t \in Grp!Task
    PROVE  pg_at[t] \in Grp!Work /\ Kept(t, pg_at[t]) /\ Grp!NodeOf(t) \in Grp!Node
  BY GroupsTasksOK DEF GroupsInv, Grp!TypeOK, ChargeKept

LEMMA GroupsSameWires == GroupsInv /\ pg_wire' = pg_wire => pg_wire' \in [Grp!Node -> Seq(Grp!Message(Grp!Process))] /\ WiresOwn'
  BY DEF GroupsInv, Grp!TypeOK, WiresOwn

LEMMA GroupsAddOK == ASSUME GroupsInv, NEW t \in Grp!Task, Grp!Add(t) PROVE GroupsInv'
<1> DEFINE n == Grp!NodeOf(t)
<1>1. PICK e \in pg_at[t].todo :
          /\ pg_groups' = [pg_groups EXCEPT ![n] = @ \cup {e}]
          /\ pg_listed' = [pg_listed EXCEPT ![n] = @ \cup {e[1]}]
          /\ pg_at' = [pg_at EXCEPT ![t] = [pg_at[t] EXCEPT !.do = "track", !.entry = e, !.todo = @ \ {e}]]
  BY DEF Grp!Add
<1>2. pg_at[t].do = "add" /\ ~pg_at[t].empty /\ UNCHANGED <<pg_reverse, pg_up, pg_wire, pg_budget>>
  BY DEF Grp!Add, Grp!Ready
<1> DEFINE r == [pg_at[t] EXCEPT !.do = "track", !.entry = e, !.todo = @ \ {e}]
<1>0. e \in Grp!Entry /\ e # Grp!Nothing
  BY GroupsHandOK DEF Grp!Work, Grp!Entry, Grp!Nothing
<1>3. /\ r \in Grp!Work /\ r.do = "track" /\ r.entry = e /\ r.todo = pg_at[t].todo \ {e}
      /\ r.procs = pg_at[t].procs /\ r.empty = pg_at[t].empty /\ r.say = pg_at[t].say
  BY <1>0, GroupsHandOK DEF Grp!Work
<1>4. Kept(t, r) /\ e[2] \in Charge(t) /\ t[1] \in {"process", "receiver"}
  BY <1>0, <1>2, <1>3, GroupsHandOK DEF Kept
<1>5. /\ pg_groups' \in [Grp!Node -> SUBSET Grp!Entry] /\ pg_listed' \in [Grp!Node -> SUBSET Group]
      /\ pg_groups'[n] = pg_groups[n] \cup {e} /\ \A x \in Grp!Node \ {n} : pg_groups'[x] = pg_groups[x]
  BY <1>0, <1>1, GroupsHandOK DEF GroupsInv, Grp!TypeOK, Grp!Entry
<1>6. pg_reverse' \in [Grp!Node -> SUBSET Grp!Entry] /\ pg_up' \in [Grp!Node -> BOOLEAN] /\ pg_at' = [pg_at EXCEPT ![t] = r]
  BY <1>1, <1>2 DEF GroupsInv, Grp!TypeOK
<1>7. ~Covers(pg_at[t], e) /\ Covers(r, e) /\ \A d : ~Covers(pg_at[t], d)
  BY <1>2, <1>3 DEF Covers
<1> HIDE DEF r
<1>8. QED BY <1>2, <1>3, <1>4, <1>5, <1>6, <1>7, GroupsTaskOK, GroupsSameWires

LEMMA GroupsTrackOK == ASSUME GroupsInv, NEW t \in Grp!Task, Grp!Track(t) PROVE GroupsInv'
<1> DEFINE n == Grp!NodeOf(t)  e == pg_at[t].entry
           s == [pg_at[t] EXCEPT !.entry = Grp!Nothing]  r == Grp!Onward(s, "add")
<1>1. /\ pg_at[t].do = "track" /\ ~pg_at[t].empty /\ UNCHANGED <<pg_groups, pg_listed, pg_up, pg_wire, pg_budget>>
      /\ pg_reverse' = [pg_reverse EXCEPT ![n] = @ \cup {e}] /\ pg_at' = [pg_at EXCEPT ![t] = r]
  BY DEF Grp!Track, Grp!Ready
<1>2. e \in Grp!Entry /\ e[2] \in Charge(t) /\ t[1] \in {"process", "receiver"}
  BY <1>1, GroupsHandOK DEF Kept, Grp!Work
<1>3. /\ s \in Grp!Work /\ s.do = "track" /\ s.entry = Grp!Nothing /\ s.todo = pg_at[t].todo
      /\ s.procs = pg_at[t].procs /\ s.empty = pg_at[t].empty /\ s.say = pg_at[t].say
  BY <1>1, GroupsHandOK DEF Grp!Work
<1> HIDE DEF s
<1>4. /\ r \in Grp!Work /\ r.entry = Grp!Nothing /\ r.todo = pg_at[t].todo
      /\ r.procs = pg_at[t].procs /\ r.empty = pg_at[t].empty /\ r.say = pg_at[t].say
      /\ r.do \in {"add", "take", "say", "rest"} /\ (r.do = "say" => r.say # Grp!Nothing)
  BY <1>3, GroupsOnwardOK
<1> HIDE DEF r
<1>5. Kept(t, r)
  BY <1>1, <1>2, <1>4, GroupsHandOK DEF Kept
<1>6. /\ pg_reverse' \in [Grp!Node -> SUBSET Grp!Entry] /\ pg_reverse'[n] = pg_reverse[n] \cup {e}
      /\ \A x \in Grp!Node \ {n} : pg_reverse'[x] = pg_reverse[x]
  BY <1>1, <1>2, GroupsHandOK DEF GroupsInv, Grp!TypeOK
<1>7. pg_groups' \in [Grp!Node -> SUBSET Grp!Entry] /\ pg_listed' \in [Grp!Node -> SUBSET Group] /\ pg_up' \in [Grp!Node -> BOOLEAN]
  BY <1>1 DEF GroupsInv, Grp!TypeOK
<1>8. \A d : Covers(pg_at[t], d) => d = e
  BY <1>1 DEF Covers
<1> HIDE DEF e
<1>9. QED BY <1>1, <1>2, <1>4, <1>5, <1>6, <1>7, <1>8, GroupsTaskOK, GroupsSameWires

LEMMA GroupsDropOK == ASSUME GroupsInv, NEW t \in Grp!Task, Grp!Drop(t) PROVE GroupsInv'
<1> DEFINE n == Grp!NodeOf(t)
<1>1. PICK e \in pg_at[t].todo :
          LET left == pg_at[t].do = "leave"
              empty == e[1] \in pg_listed[n] /\ \A x \in pg_groups[n] : x[1] = e[1] => x = e
              r == [pg_at[t] EXCEPT !.entry = IF left \/ empty THEN e ELSE Grp!Nothing,
                                 !.todo = @ \ {e}, !.empty = empty]
          IN  /\ pg_groups' = [pg_groups EXCEPT ![n] = @ \ {e}]
              /\ pg_at' = [pg_at EXCEPT ![t] = IF left THEN [r EXCEPT !.do = "untrack"] ELSE Grp!Onward(r, "purge")]
  BY DEF Grp!Drop
<1>2. /\ pg_at[t].do = "leave" \/ pg_at[t].do = "purge"
      /\ ~pg_at[t].empty /\ UNCHANGED <<pg_listed, pg_reverse, pg_up, pg_wire, pg_budget>>
  BY DEF Grp!Drop, Grp!Ready
<1> DEFINE empty == e[1] \in pg_listed[n] /\ \A x \in pg_groups[n] : x[1] = e[1] => x = e
           s == [pg_at[t] EXCEPT !.entry = IF pg_at[t].do = "leave" \/ empty THEN e ELSE Grp!Nothing,
                              !.todo = @ \ {e}, !.empty = empty]
           r == IF pg_at[t].do = "leave" THEN [s EXCEPT !.do = "untrack"] ELSE Grp!Onward(s, "purge")
<1>3. pg_groups' = [pg_groups EXCEPT ![n] = @ \ {e}] /\ pg_at' = [pg_at EXCEPT ![t] = r]
  BY <1>1
<1>4. e \in Grp!Entry /\ e # Grp!Nothing /\ e[2] \in Charge(t) /\ empty \in BOOLEAN
  BY GroupsHandOK DEF Kept, Grp!Work, Grp!Entry, Grp!Nothing
<1> HIDE DEF empty
<1>5. /\ s \in Grp!Work /\ s.do = pg_at[t].do /\ s.todo = pg_at[t].todo \ {e}
      /\ s.entry = IF pg_at[t].do = "leave" \/ empty THEN e ELSE Grp!Nothing
      /\ s.procs = pg_at[t].procs /\ s.empty = empty /\ s.say = pg_at[t].say
  BY <1>2, <1>4, GroupsHandOK DEF Grp!Work
<1> HIDE DEF s
<1>6. /\ r \in Grp!Work /\ r.todo = s.todo /\ r.entry = s.entry
      /\ r.procs = s.procs /\ r.empty = s.empty /\ r.say = s.say
      /\ pg_at[t].do = "leave" => r.do = "untrack"
      /\ pg_at[t].do = "purge" => /\ r.do \in {"purge", "take", "say", "rest"} /\ (r.do = "purge" <=> s.todo # {})
                               /\ (r.do = "say" => r.say # Grp!Nothing)
  <2>1. CASE pg_at[t].do = "leave"
    BY <1>5, <2>1 DEF Grp!Work
  <2>2. CASE pg_at[t].do = "purge"
    <3>1. r = Grp!Onward(s, "purge")
      BY <2>2
    <3>2. QED BY <1>5, <2>2, <3>1, GroupsOnwardOK
  <2>3. QED BY <1>2, <2>1, <2>2
<1> HIDE DEF r
<1>7. Kept(t, r)
  BY <1>2, <1>4, <1>5, <1>6, GroupsHandOK DEF Kept
<1>8. /\ pg_groups' \in [Grp!Node -> SUBSET Grp!Entry] /\ pg_groups'[n] = pg_groups[n] \ {e}
      /\ \A x \in Grp!Node \ {n} : pg_groups'[x] = pg_groups[x]
  BY <1>3, GroupsHandOK DEF GroupsInv, Grp!TypeOK
<1>9. /\ pg_reverse' \in [Grp!Node -> SUBSET Grp!Entry] /\ pg_listed' \in [Grp!Node -> SUBSET Group]
      /\ pg_up' \in [Grp!Node -> BOOLEAN] /\ pg_reverse' = pg_reverse
  BY <1>2 DEF GroupsInv, Grp!TypeOK
<1>10. ASSUME NEW d \in pg_groups'[n] \ pg_reverse'[n] PROVE Covers(r, d) \/ ~Covers(pg_at[t], d)
  BY <1>2, <1>5, <1>6, <1>8 DEF Covers
<1>11. r.do = "untrack" => r.entry = e
  BY <1>2, <1>5, <1>6
<1>12. r.do # "unlist"
  BY <1>2, <1>6
<1>13. QED BY <1>2, <1>3, <1>6, <1>7, <1>8, <1>9, <1>10, <1>11, <1>12, GroupsTaskOK, GroupsSameWires

LEMMA GroupsClearOK == ASSUME GroupsInv, NEW t \in Grp!Task, Grp!Clear(t) PROVE GroupsInv'
<1> DEFINE n == Grp!NodeOf(t)  g == pg_at[t].entry[1]
           r == [pg_at[t] EXCEPT !.empty = FALSE, !.entry = IF pg_at[t].do = "untrack" THEN @ ELSE Grp!Nothing]
<1>1. /\ pg_groups' = [pg_groups EXCEPT ![n] = {e \in @ : e[1] # g}]
      /\ pg_listed' = [pg_listed EXCEPT ![n] = @ \ {g}] /\ pg_at' = [pg_at EXCEPT ![t] = r]
      /\ pg_at[t].empty /\ UNCHANGED <<pg_reverse, pg_up, pg_wire, pg_budget>>
  BY DEF Grp!Clear
<1>2. /\ r \in Grp!Work /\ r.do = pg_at[t].do /\ r.todo = pg_at[t].todo /\ ~r.empty
      /\ r.entry = IF pg_at[t].do = "untrack" THEN pg_at[t].entry ELSE Grp!Nothing
      /\ r.procs = pg_at[t].procs /\ r.say = pg_at[t].say
  BY GroupsHandOK DEF Grp!Work
<1>3. /\ pg_groups' \in [Grp!Node -> SUBSET Grp!Entry] /\ pg_groups'[n] \subseteq pg_groups[n]
      /\ \A x \in Grp!Node \ {n} : pg_groups'[x] = pg_groups[x]
      /\ pg_listed' \in [Grp!Node -> SUBSET Group]
  BY <1>1, GroupsHandOK DEF GroupsInv, Grp!TypeOK
<1>4. /\ pg_reverse' \in [Grp!Node -> SUBSET Grp!Entry] /\ pg_up' \in [Grp!Node -> BOOLEAN] /\ pg_reverse' = pg_reverse
  BY <1>1 DEF GroupsInv, Grp!TypeOK
<1>5. pg_at[t].do # "track" /\ pg_at[t].do # "unlist"
  BY <1>1, GroupsHandOK DEF Kept
<1> HIDE DEF r
<1>6. Kept(t, r)
  BY <1>2, <1>5, GroupsHandOK DEF Kept
<1>7. \A d : Covers(pg_at[t], d) => Covers(r, d)
  BY <1>2, <1>5 DEF Covers
<1>8. r.do = "untrack" => r.entry \notin pg_groups[n]
  BY <1>2 DEF GroupsInv, LeftFirst
<1>9. QED BY <1>1, <1>2, <1>3, <1>4, <1>5, <1>6, <1>7, <1>8, GroupsTaskOK, GroupsSameWires

LEMMA GroupsUntrackOK == ASSUME GroupsInv, NEW t \in Grp!Task, Grp!Untrack(t) PROVE GroupsInv'
<1> DEFINE n == Grp!NodeOf(t)  e == pg_at[t].entry
           s == [pg_at[t] EXCEPT !.entry = Grp!Nothing]
           r == IF Grp!Of(e[2], pg_reverse[n]) = {e} THEN [pg_at[t] EXCEPT !.do = "unlist"]
                ELSE Grp!Onward(s, "leave")
<1>1. /\ pg_at[t].do = "untrack" /\ ~pg_at[t].empty /\ UNCHANGED <<pg_groups, pg_listed, pg_up, pg_wire, pg_budget>>
      /\ pg_reverse' = [pg_reverse EXCEPT ![n] = @ \ {e}] /\ pg_at' = [pg_at EXCEPT ![t] = r]
  BY DEF Grp!Untrack, Grp!Ready
<1>2. e \in Grp!Entry /\ e[2] \in Charge(t) /\ t[1] \in {"process", "receiver"} /\ e # Grp!Nothing
  BY <1>1, GroupsHandOK DEF Kept, Grp!Work
<1>3. /\ s \in Grp!Work /\ s.do = "untrack" /\ s.entry = Grp!Nothing /\ s.todo = pg_at[t].todo
      /\ s.procs = pg_at[t].procs /\ s.empty = pg_at[t].empty /\ s.say = pg_at[t].say
  BY <1>1, GroupsHandOK DEF Grp!Work
<1> HIDE DEF s
<1>4. /\ pg_reverse' \in [Grp!Node -> SUBSET Grp!Entry] /\ pg_reverse'[n] = pg_reverse[n] \ {e}
      /\ \A x \in Grp!Node \ {n} : pg_reverse'[x] = pg_reverse[x]
  BY <1>1, <1>2, GroupsHandOK DEF GroupsInv, Grp!TypeOK
<1>5. /\ r \in Grp!Work /\ r.todo = pg_at[t].todo
      /\ r.procs = pg_at[t].procs /\ ~r.empty /\ r.say = pg_at[t].say
      /\ \/ r.do = "unlist" /\ r.entry = e /\ Grp!Of(e[2], pg_reverse[n]) = {e}
         \/ r.do \in {"leave", "take", "say", "rest"} /\ r.entry = Grp!Nothing /\ (r.do = "say" => r.say # Grp!Nothing)
  <2>1. CASE Grp!Of(e[2], pg_reverse[n]) = {e}
    BY <1>1, <2>1, GroupsHandOK DEF Grp!Work
  <2>2. CASE Grp!Of(e[2], pg_reverse[n]) # {e}
    <3>1. r = Grp!Onward(s, "leave")
      BY <2>2
    <3>2. QED BY <1>1, <1>3, <3>1, GroupsOnwardOK
  <2>3. QED BY <2>1, <2>2
<1> HIDE DEF r
<1>6. Kept(t, r)
  BY <1>1, <1>2, <1>5, GroupsHandOK DEF Kept
<1>7. pg_groups' \in [Grp!Node -> SUBSET Grp!Entry] /\ pg_listed' \in [Grp!Node -> SUBSET Group] /\ pg_up' \in [Grp!Node -> BOOLEAN]
  BY <1>1 DEF GroupsInv, Grp!TypeOK
<1>8. e \notin pg_groups[n] /\ \A d : ~Covers(pg_at[t], d)
  BY <1>1 DEF GroupsInv, LeftFirst, Covers
<1>9. r.do = "unlist" => Grp!Of(r.entry[2], pg_reverse'[n]) = {}
  BY <1>4, <1>5 DEF Grp!Of
<1>10. r.do # "untrack"
  BY <1>5
<1> HIDE DEF e
<1>11. QED BY <1>1, <1>4, <1>5, <1>6, <1>7, <1>8, <1>9, <1>10, GroupsTaskOK, GroupsSameWires

LEMMA GroupsUnlistOK == ASSUME GroupsInv, NEW t \in Grp!Task, Grp!Unlist(t) PROVE GroupsInv'
<1> DEFINE n == Grp!NodeOf(t)  s == [pg_at[t] EXCEPT !.entry = Grp!Nothing]  r == Grp!Onward(s, "leave")
<1>1. /\ pg_at[t].do = "unlist" /\ ~pg_at[t].empty /\ UNCHANGED <<pg_groups, pg_listed, pg_up, pg_wire, pg_budget>>
      /\ pg_reverse' = [pg_reverse EXCEPT ![n] = @ \ Grp!Of(pg_at[t].entry[2], @)] /\ pg_at' = [pg_at EXCEPT ![t] = r]
  BY DEF Grp!Unlist, Grp!Ready
<1>2. Grp!Of(pg_at[t].entry[2], pg_reverse[n]) = {}
  BY <1>1 DEF GroupsInv, LeftFirst
<1>3. pg_reverse' = pg_reverse
  BY <1>1, <1>2, GroupsHandOK DEF GroupsInv, Grp!TypeOK
<1>4. /\ s \in Grp!Work /\ s.entry = Grp!Nothing /\ s.todo = pg_at[t].todo
      /\ s.procs = pg_at[t].procs /\ s.empty = pg_at[t].empty /\ s.say = pg_at[t].say
  BY <1>1, GroupsHandOK DEF Grp!Work
<1> HIDE DEF s
<1>5. /\ r \in Grp!Work /\ r.entry = Grp!Nothing /\ r.todo = pg_at[t].todo
      /\ r.procs = pg_at[t].procs /\ r.empty = pg_at[t].empty /\ r.say = pg_at[t].say
      /\ r.do \in {"leave", "take", "say", "rest"} /\ (r.do = "say" => r.say # Grp!Nothing)
  BY <1>4, GroupsOnwardOK
<1> HIDE DEF r
<1>6. Kept(t, r)
  <2>1. pg_at[t].do = "unlist" /\ ~pg_at[t].empty /\ Kept(t, pg_at[t])
    BY <1>1, GroupsHandOK
  <2>2. QED BY <1>5, <2>1 DEF Kept
<1>7. /\ pg_groups' \in [Grp!Node -> SUBSET Grp!Entry] /\ pg_listed' \in [Grp!Node -> SUBSET Group]
      /\ pg_up' \in [Grp!Node -> BOOLEAN] /\ pg_reverse' \in [Grp!Node -> SUBSET Grp!Entry]
  BY <1>1, <1>3 DEF GroupsInv, Grp!TypeOK
<1>8. \A d : ~Covers(pg_at[t], d)
  BY <1>1 DEF Covers
<1>9. QED BY <1>1, <1>3, <1>5, <1>6, <1>7, <1>8, GroupsTaskOK, GroupsSameWires

LEMMA GroupsTakeOK == ASSUME GroupsInv, NEW t \in Grp!Task, Grp!Take(t) PROVE GroupsInv'
<1> DEFINE n == Grp!NodeOf(t)
<1>1. PICK p \in pg_at[t].procs :
          LET mine == Grp!Of(p, pg_reverse[n])
              s == [pg_at[t] EXCEPT !.todo = mine, !.procs = @ \ {p},
                                 !.say = IF mine = {} THEN Grp!Nothing ELSE @]
          IN  /\ pg_reverse' = [pg_reverse EXCEPT ![n] = @ \ mine]
              /\ pg_at' = [pg_at EXCEPT ![t] = Grp!Onward(s, "purge")]
  BY DEF Grp!Take
<1> DEFINE mine == Grp!Of(p, pg_reverse[n])
           s == [pg_at[t] EXCEPT !.todo = mine, !.procs = @ \ {p},
                              !.say = IF mine = {} THEN Grp!Nothing ELSE @]
           r == Grp!Onward(s, "purge")
<1>2. /\ pg_at[t].do = "take" /\ ~pg_at[t].empty /\ UNCHANGED <<pg_groups, pg_listed, pg_up, pg_wire, pg_budget>>
      /\ pg_reverse' = [pg_reverse EXCEPT ![n] = @ \ mine] /\ pg_at' = [pg_at EXCEPT ![t] = r]
  BY <1>1 DEF Grp!Take, Grp!Ready
<1>3. p \in Charge(t) /\ mine \subseteq Group \X Charge(t) /\ mine \subseteq Grp!Entry
  BY GroupsHandOK DEF Kept, Grp!Of, GroupsInv, Grp!TypeOK, Grp!Entry
<1> HIDE DEF mine
<1>4. /\ s \in Grp!Work /\ s.entry = pg_at[t].entry /\ s.todo = mine /\ s.procs = pg_at[t].procs \ {p}
      /\ s.empty = pg_at[t].empty /\ s.say \in {Grp!Nothing, pg_at[t].say}
  BY <1>2, <1>3, GroupsHandOK DEF Grp!Work
<1> HIDE DEF s
<1>5. /\ r \in Grp!Work /\ r.entry = pg_at[t].entry /\ r.todo = mine /\ r.procs = pg_at[t].procs \ {p}
      /\ r.empty = pg_at[t].empty /\ r.say \in {Grp!Nothing, pg_at[t].say}
      /\ r.do \in {"purge", "take", "say", "rest"} /\ (r.do = "purge" <=> mine # {})
      /\ r.do = "say" => r.say # Grp!Nothing
  BY <1>4, GroupsOnwardOK
<1> HIDE DEF r
<1>6. Kept(t, r)
  BY <1>2, <1>3, <1>5, GroupsHandOK DEF Kept
<1>7. /\ pg_reverse' \in [Grp!Node -> SUBSET Grp!Entry] /\ pg_reverse'[n] = pg_reverse[n] \ mine
      /\ \A x \in Grp!Node \ {n} : pg_reverse'[x] = pg_reverse[x]
  BY <1>2, <1>3, GroupsHandOK DEF GroupsInv, Grp!TypeOK
<1>8. pg_groups' \in [Grp!Node -> SUBSET Grp!Entry] /\ pg_listed' \in [Grp!Node -> SUBSET Group] /\ pg_up' \in [Grp!Node -> BOOLEAN]
  BY <1>2 DEF GroupsInv, Grp!TypeOK
<1>9. \A d : ~Covers(pg_at[t], d) /\ (d \in mine => Covers(r, d))
  BY <1>2, <1>5 DEF Covers
<1>10. QED BY <1>2, <1>3, <1>5, <1>6, <1>7, <1>8, <1>9, GroupsTaskOK, GroupsSameWires

LEMMA GroupsSendsOK ==
    ASSUME GroupsInv, NEW n \in Grp!Node, NEW m \in Grp!Message(Grp!Local(n)), Grp!Sends(n, m)
    PROVE  pg_wire' \in [Grp!Node -> Seq(Grp!Message(Grp!Process))] /\ WiresOwn'
<1>1. CASE ~pg_up[n]
  BY <1>1, GroupsSameWires DEF Grp!Sends
<1>2. CASE pg_up[n]
  <2>1. pg_wire' = [pg_wire EXCEPT ![n] = Append(pg_wire[n], m)]
    BY <1>2 DEF Grp!Sends
  <2>2. m \in Grp!Message(Grp!Process)
    BY DEF Grp!Message, Grp!Local, Grp!Process
  <2>3. pg_wire[n] \in Seq(Grp!Message(Grp!Process))
    BY DEF GroupsInv, Grp!TypeOK
  <2>4. /\ Append(pg_wire[n], m) \in Seq(Grp!Message(Grp!Process))
        /\ \A i \in 1 .. Len(Append(pg_wire[n], m)) : Append(pg_wire[n], m)[i] \in Grp!Message(Grp!Local(n))
    <3>1. /\ Len(Append(pg_wire[n], m)) = Len(pg_wire[n]) + 1 /\ Len(pg_wire[n]) \in Nat
          /\ Append(pg_wire[n], m)[Len(pg_wire[n]) + 1] = m
          /\ \A i \in 1 .. Len(pg_wire[n]) : Append(pg_wire[n], m)[i] = pg_wire[n][i]
          /\ Append(pg_wire[n], m) \in Seq(Grp!Message(Grp!Process))
      BY <2>2, <2>3, LenProperties
    <3>2. \A i \in 1 .. Len(pg_wire[n]) : pg_wire[n][i] \in Grp!Message(Grp!Local(n))
      BY DEF GroupsInv, WiresOwn
    <3>3. QED BY <3>1, <3>2
  <2>5. pg_wire' \in [Grp!Node -> Seq(Grp!Message(Grp!Process))] /\ pg_wire'[n] = Append(pg_wire[n], m)
        /\ \A x \in Grp!Node \ {n} : pg_wire'[x] = pg_wire[x]
    BY <2>1, <2>4 DEF GroupsInv, Grp!TypeOK
  <2>6. QED BY <2>4, <2>5 DEF GroupsInv, WiresOwn
<1>3. QED BY <1>1, <1>2

(* A step that leaves the maps alone. *)
LEMMA GroupsQuietOK ==
    ASSUME GroupsInv, NEW t \in Grp!Task, NEW r \in Grp!Work, pg_at' = [pg_at EXCEPT ![t] = r], Kept(t, r),
           UNCHANGED <<pg_groups, pg_listed, pg_reverse>>, pg_up' \in [Grp!Node -> BOOLEAN],
           pg_wire' \in [Grp!Node -> Seq(Grp!Message(Grp!Process))], WiresOwn',
           pg_at[t].do \notin {"track", "purge"}, r.do \notin {"untrack", "unlist"}
    PROVE  GroupsInv'
<1>1. pg_groups' \in [Grp!Node -> SUBSET Grp!Entry] /\ pg_reverse' \in [Grp!Node -> SUBSET Grp!Entry] /\ pg_listed' \in [Grp!Node -> SUBSET Group]
  BY DEF GroupsInv, Grp!TypeOK
<1>2. \A d : ~Covers(pg_at[t], d)
  BY DEF Covers
<1>3. QED BY <1>1, <1>2, GroupsTaskOK

LEMMA GroupsOpOK ==
    ASSUME NEW do, NEW todo, NEW procs, NEW say
    PROVE  LET r == Grp!Op(do, todo, procs, say)
           IN  /\ r.do = do /\ r.entry = Grp!Nothing /\ r.todo = todo /\ r.procs = procs
               /\ ~r.empty /\ r.say = say
               /\ (r \in Grp!Work <=> /\ do \in {"rest", "add", "track", "leave", "untrack", "unlist",
                                             "take", "purge", "say", "collect", "ask", "push", "answer"}
                                  /\ todo \in SUBSET Grp!Entry /\ procs \in SUBSET Grp!Process
                                  /\ say \in Grp!Message(Grp!Process) \cup {Grp!Nothing})
  BY DEF Grp!Op, Grp!Work

LEMMA GroupsRestOK == Grp!Rest \in Grp!Work /\ Grp!Rest.do = "rest" /\ \A t \in Grp!Task : Kept(t, Grp!Rest)
<1>1. Grp!Rest \in Grp!Work /\ Grp!Rest.do = "rest" /\ Grp!Rest.entry = Grp!Nothing /\ Grp!Rest.todo = {}
      /\ Grp!Rest.procs = {} /\ Grp!Rest.say = Grp!Nothing /\ ~Grp!Rest.empty
  BY DEF Grp!Rest, Grp!Op, Grp!Work
<1>2. QED BY <1>1 DEF Kept

LEMMA GroupsSayOK == ASSUME GroupsInv, NEW t \in Grp!Task, Grp!Say(t) PROVE GroupsInv'
<1>1. /\ pg_at[t].do = "say" /\ Grp!Sends(Grp!NodeOf(t), pg_at[t].say) /\ pg_at' = [pg_at EXCEPT ![t] = Grp!Rest]
      /\ UNCHANGED <<pg_groups, pg_listed, pg_reverse, pg_up, pg_budget>>
  BY DEF Grp!Say, Grp!Ready
<1>2. pg_at[t].say \in Grp!Message(Grp!Local(Grp!NodeOf(t)))
  BY <1>1, GroupsHandOK DEF Kept
<1>3. pg_wire' \in [Grp!Node -> Seq(Grp!Message(Grp!Process))] /\ WiresOwn'
  BY <1>1, <1>2, GroupsHandOK, GroupsSendsOK
<1>4. pg_up' \in [Grp!Node -> BOOLEAN]
  BY <1>1 DEF GroupsInv, Grp!TypeOK
<1>5. QED BY <1>1, <1>3, <1>4, GroupsRestOK, GroupsQuietOK

LEMMA GroupsRequestSyncOK == ASSUME GroupsInv, NEW t \in Grp!Task, Grp!RequestSync(t) PROVE GroupsInv'
<1> DEFINE r == Grp!Op("push", {}, {}, Grp!Nothing)
<1>1. /\ pg_at[t].do = "ask" /\ Grp!Sends(Grp!NodeOf(t), <<"SyncRequest">>) /\ pg_at' = [pg_at EXCEPT ![t] = r]
      /\ UNCHANGED <<pg_groups, pg_listed, pg_reverse, pg_up, pg_budget>>
  BY DEF Grp!RequestSync, Grp!Ready
<1>2. <<"SyncRequest">> \in Grp!Message(Grp!Local(Grp!NodeOf(t)))
  BY DEF Grp!Message
<1>3. pg_wire' \in [Grp!Node -> Seq(Grp!Message(Grp!Process))] /\ WiresOwn'
  BY <1>1, <1>2, GroupsHandOK, GroupsSendsOK
<1>4. pg_up' \in [Grp!Node -> BOOLEAN]
  BY <1>1 DEF GroupsInv, Grp!TypeOK
<1>5. r \in Grp!Work /\ Kept(t, r) /\ r.do = "push"
  BY GroupsOpOK DEF Kept
<1> HIDE DEF r
<1>6. QED BY <1>1, <1>3, <1>4, <1>5, GroupsQuietOK

LEMMA GroupsSnapshotOK == ASSUME GroupsInv, NEW t \in Grp!Task, Grp!Snapshot(t) PROVE GroupsInv'
<1> DEFINE mine == Grp!Members(Grp!NodeOf(t), pg_groups[Grp!NodeOf(t)])
           r == IF mine = {} /\ pg_at[t].do = "push" THEN Grp!Rest
                ELSE Grp!Op("say", {}, {}, <<"SyncResponse", mine>>)
<1>1. /\ pg_at[t].do \in {"push", "answer"} /\ pg_at' = [pg_at EXCEPT ![t] = r]
      /\ UNCHANGED <<pg_groups, pg_listed, pg_reverse, pg_up, pg_wire, pg_budget>>
  BY DEF Grp!Snapshot, Grp!Ready
<1>2. /\ <<"SyncResponse", mine>> \in Grp!Message(Grp!Local(Grp!NodeOf(t)))
      /\ <<"SyncResponse", mine>> \in Grp!Message(Grp!Process)
  <2>1. mine \in SUBSET (Group \X Grp!Local(Grp!NodeOf(t))) /\ mine \in SUBSET (Group \X Grp!Process)
    BY GroupsHandOK DEF GroupsInv, Grp!TypeOK, Grp!Members, Grp!Entry
  <2> HIDE DEF mine
  <2>2. QED BY <2>1 DEF Grp!Message
<1> DEFINE s == Grp!Op("say", {}, {}, <<"SyncResponse", mine>>)
<1>3. s \in Grp!Work /\ Kept(t, s) /\ s.do = "say"
  <2> DEFINE m == <<"SyncResponse", mine>>
  <2> HIDE DEF m
  <2>1. Grp!Op("say", {}, {}, m) \in Grp!Work /\ Kept(t, Grp!Op("say", {}, {}, m)) /\ Grp!Op("say", {}, {}, m).do = "say"
    <3>1. m \in Grp!Message(Grp!Local(Grp!NodeOf(t))) /\ m \in Grp!Message(Grp!Process) /\ m # Grp!Nothing
      BY <1>2 DEF m, Grp!Nothing
    <3>2. QED BY <3>1, GroupsOpOK DEF Kept
  <2>2. QED BY <2>1 DEF m
<1>4. r \in Grp!Work /\ Kept(t, r) /\ r.do \in {"say", "rest"}
  BY <1>3, GroupsRestOK
<1> HIDE DEF r
<1>5. pg_up' \in [Grp!Node -> BOOLEAN]
  BY <1>1 DEF GroupsInv, Grp!TypeOK
<1>6. QED BY <1>1, <1>4, <1>5, GroupsQuietOK, GroupsSameWires

LEMMA GroupsCollectOK == ASSUME GroupsInv, NEW t \in Grp!Task, Grp!Collect(t) PROVE GroupsInv'
<1> DEFINE n == Grp!NodeOf(t)
           lost == {e[2] : e \in Grp!Members(Grp!Peer(n), pg_reverse[n])}
           s == Grp!Op("collect", {}, lost, Grp!Nothing)
           r == Grp!Onward(s, "purge")
<1>1. /\ pg_at[t].do = "collect" /\ pg_at' = [pg_at EXCEPT ![t] = r]
      /\ UNCHANGED <<pg_groups, pg_listed, pg_reverse, pg_up, pg_wire, pg_budget>>
  BY DEF Grp!Collect, Grp!Ready
<1>2. lost \subseteq Grp!Local(Grp!Peer(n)) /\ t[1] = "cleaner"
  BY <1>1, GroupsHandOK DEF Grp!Members, Kept
<1>3. lost \subseteq Charge(t) /\ lost \subseteq Grp!Process
  BY <1>2, GroupsTasksOK DEF Charge, Grp!NodeOf
<1> HIDE DEF lost
<1>4. s \in Grp!Work /\ s.entry = Grp!Nothing /\ s.todo = {} /\ s.procs = lost /\ ~s.empty /\ s.say = Grp!Nothing
  BY <1>3, GroupsOpOK
<1> HIDE DEF s
<1>5. /\ r \in Grp!Work /\ r.entry = Grp!Nothing /\ r.todo = {} /\ r.procs = lost /\ ~r.empty
      /\ r.say = Grp!Nothing /\ r.do \in {"take", "rest", "purge"}
  BY <1>4, GroupsOnwardOK
<1> HIDE DEF r
<1>6. Kept(t, r)
  BY <1>3, <1>5 DEF Kept
<1>7. pg_up' \in [Grp!Node -> BOOLEAN]
  BY <1>1 DEF GroupsInv, Grp!TypeOK
<1>8. QED BY <1>1, <1>5, <1>6, <1>7, GroupsQuietOK, GroupsSameWires

LEMMA GroupsMessageOK ==
    ASSUME NEW P, NEW m \in Grp!Message(P)
    PROVE  \/ m[1] = "Join" /\ <<m[2], m[3]>> \in Group \X P
           \/ m[1] = "Leave" /\ <<m[2], m[3]>> \in Group \X P
           \/ m[1] = "LeaveAll" /\ m[2] \in P
           \/ m[1] = "SyncRequest"
           \/ m[1] = "SyncResponse" /\ m[2] \subseteq Group \X P
<1>1. CASE m \in {"Join", "Leave"} \X Group \X P
  BY <1>1
<1>2. CASE m \in {"LeaveAll"} \X P
  BY <1>2
<1>3. CASE m = <<"SyncRequest">>
  BY <1>3
<1>4. CASE m \in {"SyncResponse"} \X SUBSET (Group \X P)
  BY <1>4
<1>5. QED BY <1>1, <1>2, <1>3, <1>4 DEF Grp!Message

LEMMA GroupsCallOK == ASSUME GroupsInv, NEW p \in Grp!Process, Grp!Call(p) PROVE GroupsInv'
<1> DEFINE t == Grp!User(p)
<1>1. t \in Grp!Task /\ t[1] = "process" /\ t[2] = p /\ Grp!NodeOf(t) = Grp!Home(p) /\ Charge(t) = {p}
      /\ p \in Grp!Local(Grp!Home(p))
  BY DEF Grp!User, Grp!Task, Grp!NodeOf, Charge, Grp!Home, Grp!Local, Grp!Process
<1>2. /\ UNCHANGED <<pg_groups, pg_listed, pg_reverse, pg_up, pg_wire>> /\ pg_at[t] = Grp!Rest
      /\ \/ \E g \in Group : pg_at' = [pg_at EXCEPT ![t] = Grp!Op("add", {<<g, p>>}, {}, <<"Join", g, p>>)]
         \/ \E g \in Group : pg_at' = [pg_at EXCEPT ![t] = Grp!Op("leave", {<<g, p>>}, {}, <<"Leave", g, p>>)]
         \/ pg_at' = [pg_at EXCEPT ![t] = Grp!Op("take", {}, {p}, <<"LeaveAll", p>>)]
  BY DEF Grp!Call, Grp!Join, Grp!Leave, Grp!LeaveAll, Grp!Begins
<1>3. \A P : p \in P => <<"LeaveAll", p>> \in Grp!Message(P)
                        /\ \A g \in Group : <<"Join", g, p>> \in Grp!Message(P) /\ <<"Leave", g, p>> \in Grp!Message(P)
  BY DEF Grp!Message
<1>4. \A g \in Group : <<g, p>> \in Grp!Entry /\ <<g, p>> \in Group \X {p}
  BY DEF Grp!Entry
<1> HIDE DEF t
<1>5. PICK r \in Grp!Work : pg_at' = [pg_at EXCEPT ![t] = r] /\ Kept(t, r) /\ r.do \in {"add", "leave", "take"}
  <2>1. CASE \E g \in Group : pg_at' = [pg_at EXCEPT ![t] = Grp!Op("add", {<<g, p>>}, {}, <<"Join", g, p>>)]
    <3>1. PICK g \in Group : pg_at' = [pg_at EXCEPT ![t] = Grp!Op("add", {<<g, p>>}, {}, <<"Join", g, p>>)]
      BY <2>1
    <3> DEFINE m == <<"Join", g, p>>  e == <<g, p>>
    <3>2. m \in Grp!Message(Grp!Local(Grp!NodeOf(t))) /\ m \in Grp!Message(Grp!Process) /\ m # Grp!Nothing /\ e \in Grp!Entry
          /\ e \in Group \X Charge(t)
      BY <1>1, <1>3, <1>4 DEF Grp!Nothing
    <3> HIDE DEF m, e
    <3>3. Grp!Op("add", {e}, {}, m) \in Grp!Work /\ Kept(t, Grp!Op("add", {e}, {}, m)) /\ Grp!Op("add", {e}, {}, m).do = "add"
      BY <1>1, <3>2, GroupsOpOK DEF Kept
    <3>4. QED BY <3>1, <3>3 DEF m, e
  <2>2. CASE \E g \in Group : pg_at' = [pg_at EXCEPT ![t] = Grp!Op("leave", {<<g, p>>}, {}, <<"Leave", g, p>>)]
    <3>1. PICK g \in Group : pg_at' = [pg_at EXCEPT ![t] = Grp!Op("leave", {<<g, p>>}, {}, <<"Leave", g, p>>)]
      BY <2>2
    <3> DEFINE m == <<"Leave", g, p>>  e == <<g, p>>
    <3>2. m \in Grp!Message(Grp!Local(Grp!NodeOf(t))) /\ m \in Grp!Message(Grp!Process) /\ m # Grp!Nothing /\ e \in Grp!Entry
          /\ e \in Group \X Charge(t)
      BY <1>1, <1>3, <1>4 DEF Grp!Nothing
    <3> HIDE DEF m, e
    <3>3. Grp!Op("leave", {e}, {}, m) \in Grp!Work /\ Kept(t, Grp!Op("leave", {e}, {}, m)) /\ Grp!Op("leave", {e}, {}, m).do = "leave"
      BY <1>1, <3>2, GroupsOpOK DEF Kept
    <3>4. QED BY <3>1, <3>3 DEF m, e
  <2>3. CASE pg_at' = [pg_at EXCEPT ![t] = Grp!Op("take", {}, {p}, <<"LeaveAll", p>>)]
    <3> DEFINE m == <<"LeaveAll", p>>
    <3>2. m \in Grp!Message(Grp!Local(Grp!NodeOf(t))) /\ m \in Grp!Message(Grp!Process) /\ m # Grp!Nothing
      BY <1>1, <1>3 DEF Grp!Nothing
    <3> HIDE DEF m
    <3>3. Grp!Op("take", {}, {p}, m) \in Grp!Work /\ Kept(t, Grp!Op("take", {}, {p}, m)) /\ Grp!Op("take", {}, {p}, m).do = "take"
      BY <1>1, <3>2, GroupsOpOK DEF Kept
    <3>4. QED BY <2>3, <3>3 DEF m
  <2>4. QED BY <1>2, <2>1, <2>2, <2>3
<1>6. pg_up' \in [Grp!Node -> BOOLEAN] /\ pg_wire' = pg_wire
  BY <1>2 DEF GroupsInv, Grp!TypeOK
<1>7. QED BY <1>1, <1>2, <1>5, <1>6, GroupsRestOK, GroupsQuietOK, GroupsSameWires

LEMMA GroupsReceiveOK == ASSUME GroupsInv, NEW n \in Grp!Node, Grp!Receive(n) PROVE GroupsInv'
<1> DEFINE t == Grp!Receiver(n)  q == pg_wire[Grp!Peer(n)]  m == Head(q)
<1>1. /\ q # <<>> /\ pg_at[t] = Grp!Rest /\ pg_at' = [pg_at EXCEPT ![t] = Grp!Handle(m)]
      /\ pg_wire' = [pg_wire EXCEPT ![Grp!Peer(n)] = Tail(q)]
      /\ UNCHANGED <<pg_groups, pg_listed, pg_reverse, pg_up, pg_budget>>
  BY DEF Grp!Receive, Grp!Begins
<1>2. /\ t \in Grp!Task /\ t[1] = "receiver" /\ Grp!NodeOf(t) = n /\ Charge(t) = Grp!Local(Grp!Peer(n))
      /\ Grp!Peer(n) \in Grp!Node /\ Grp!Local(Grp!Peer(n)) \subseteq Grp!Process
  BY DEF Grp!Receiver, Grp!Task, Grp!NodeOf, Charge, Grp!Peer, Grp!Node, Grp!Local, Grp!Process
<1>3. q \in Seq(Grp!Message(Grp!Process)) /\ \A i \in 1 .. Len(q) : q[i] \in Grp!Message(Grp!Local(Grp!Peer(n)))
  BY <1>2 DEF GroupsInv, Grp!TypeOK, WiresOwn
<1> HIDE DEF q
<1>4. /\ m \in Grp!Message(Grp!Local(Grp!Peer(n))) /\ Tail(q) \in Seq(Grp!Message(Grp!Process))
      /\ \A i \in 1 .. Len(Tail(q)) : Tail(q)[i] \in Grp!Message(Grp!Local(Grp!Peer(n)))
  <2>1. /\ m = q[1] /\ Len(q) \in Nat \ {0} /\ Tail(q) \in Seq(Grp!Message(Grp!Process))
        /\ Len(Tail(q)) = Len(q) - 1 /\ \A i \in 1 .. Len(Tail(q)) : Tail(q)[i] = q[i + 1]
    BY <1>1, <1>3, HeadTailProperties, EmptySeq, LenProperties
  <2>2. QED BY <1>3, <2>1
<1>5. pg_wire' \in [Grp!Node -> Seq(Grp!Message(Grp!Process))] /\ WiresOwn'
  <2>1. /\ pg_wire' \in [Grp!Node -> Seq(Grp!Message(Grp!Process))] /\ pg_wire'[Grp!Peer(n)] = Tail(q)
        /\ \A x \in Grp!Node \ {Grp!Peer(n)} : pg_wire'[x] = pg_wire[x]
    BY <1>1, <1>2, <1>4 DEF GroupsInv, Grp!TypeOK
  <2>2. QED BY <1>4, <2>1 DEF GroupsInv, WiresOwn
<1> HIDE DEF m, t
<1>6. Grp!Handle(m) \in Grp!Work /\ Kept(t, Grp!Handle(m)) /\ Grp!Handle(m).do \in {"add", "leave", "take", "answer", "rest"}
  <2> DEFINE e == <<m[2], m[3]>>
  <2>1. CASE m[1] = "Join" /\ e \in Group \X Grp!Local(Grp!Peer(n))
    <3>1. e \in Grp!Entry /\ Grp!Handle(m) = Grp!Op("add", {e}, {}, Grp!Nothing) /\ e \in Group \X Charge(t)
      BY <1>2, <2>1 DEF Grp!Handle, Grp!Entry
    <3> HIDE DEF e
    <3>2. QED BY <1>2, <3>1, GroupsOpOK DEF Kept
  <2>2. CASE m[1] = "Leave" /\ e \in Group \X Grp!Local(Grp!Peer(n))
    <3>1. e \in Grp!Entry /\ Grp!Handle(m) = Grp!Op("leave", {e}, {}, Grp!Nothing) /\ e \in Group \X Charge(t)
      BY <1>2, <2>2 DEF Grp!Handle, Grp!Entry
    <3> HIDE DEF e
    <3>2. QED BY <1>2, <3>1, GroupsOpOK DEF Kept
  <2>3. CASE m[1] = "LeaveAll" /\ m[2] \in Grp!Local(Grp!Peer(n))
    <3>1. Grp!Handle(m) = Grp!Op("take", {}, {m[2]}, Grp!Nothing) /\ m[2] \in Charge(t) /\ m[2] \in Grp!Process
      BY <1>2, <2>3 DEF Grp!Handle
    <3>2. QED BY <1>2, <3>1, GroupsOpOK DEF Kept
  <2>4. CASE m[1] = "SyncRequest"
    <3>1. Grp!Handle(m) = Grp!Op("answer", {}, {}, Grp!Nothing)
      BY <2>4 DEF Grp!Handle
    <3>2. QED BY <1>2, <3>1, GroupsOpOK DEF Kept
  <2>5. CASE m[1] = "SyncResponse" /\ m[2] \subseteq Group \X Grp!Local(Grp!Peer(n))
    <3> DEFINE s == Grp!Op("add", m[2], {}, Grp!Nothing)
    <3>1. Grp!Handle(m) = Grp!Onward(s, "add") /\ m[2] \subseteq Grp!Entry /\ m[2] \subseteq Group \X Charge(t)
      BY <1>2, <2>5 DEF Grp!Handle, Grp!Entry
    <3>2. /\ s \in Grp!Work /\ s.entry = Grp!Nothing /\ s.todo = m[2] /\ s.procs = {} /\ ~s.empty
          /\ s.say = Grp!Nothing
      BY <3>1, GroupsOpOK
    <3> HIDE DEF s
    <3>3. /\ Grp!Handle(m) \in Grp!Work /\ Grp!Handle(m).entry = Grp!Nothing /\ Grp!Handle(m).todo = m[2]
          /\ Grp!Handle(m).procs = {} /\ ~Grp!Handle(m).empty /\ Grp!Handle(m).say = Grp!Nothing
          /\ Grp!Handle(m).do \in {"add", "take", "rest"}
      BY <3>1, <3>2, GroupsOnwardOK
    <3>4. QED BY <1>2, <3>1, <3>3 DEF Kept
  <2>6. QED BY <1>4, <2>1, <2>2, <2>3, <2>4, <2>5, GroupsMessageOK
<1>7. pg_up' \in [Grp!Node -> BOOLEAN]
  BY <1>1 DEF GroupsInv, Grp!TypeOK
<1>8. QED BY <1>1, <1>2, <1>5, <1>6, <1>7, GroupsRestOK, GroupsQuietOK

LEMMA GroupsConnectOK == ASSUME GroupsInv, NEW n \in Grp!Node, Grp!Connect(n) PROVE GroupsInv'
<1> DEFINE t == Grp!Connector(n)  r == Grp!Op("ask", {}, {}, Grp!Nothing)
<1>1. /\ pg_at[t] = Grp!Rest /\ pg_at' = [pg_at EXCEPT ![t] = r] /\ pg_up' = [pg_up EXCEPT ![n] = TRUE]
      /\ UNCHANGED <<pg_groups, pg_listed, pg_reverse, pg_wire>>
  BY DEF Grp!Connect, Grp!Begins
<1>2. t \in Grp!Task
  BY DEF Grp!Connector, Grp!Task
<1>3. r \in Grp!Work /\ Kept(t, r) /\ r.do = "ask"
  BY GroupsOpOK DEF Kept
<1> HIDE DEF r
<1>4. pg_up' \in [Grp!Node -> BOOLEAN]
  BY <1>1 DEF GroupsInv, Grp!TypeOK
<1>5. QED BY <1>1, <1>2, <1>3, <1>4, GroupsRestOK, GroupsQuietOK, GroupsSameWires

LEMMA GroupsLoseOK == ASSUME GroupsInv, Grp!Lose PROVE GroupsInv'
<1> DEFINE r == Grp!Op("collect", {}, {}, Grp!Nothing)
<1>1. /\ \A n \in Grp!Node : pg_at[Grp!Cleaner(n)] = Grp!Rest
      /\ pg_up' = [n \in Grp!Node |-> FALSE] /\ pg_wire' = [n \in Grp!Node |-> <<>>]
      /\ pg_at' = [t \in Grp!Task |-> IF t[1] = "cleaner" THEN r ELSE pg_at[t]]
      /\ UNCHANGED <<pg_groups, pg_listed, pg_reverse>>
  BY DEF Grp!Lose
<1>2. r \in Grp!Work /\ r.do = "collect" /\ \A t \in Grp!Task : t[1] = "cleaner" => Kept(t, r)
  BY GroupsOpOK DEF Kept
<1>3. \A t \in Grp!Task : t[1] = "cleaner" => pg_at[t] = Grp!Rest
  BY <1>1 DEF Grp!Task, Grp!Cleaner
<1> HIDE DEF r
<1>4. Grp!TypeOK' /\ WiresOwn'
  BY <1>1, <1>2, EmptySeq DEF GroupsInv, Grp!TypeOK, WiresOwn
<1>5. ChargeKept'
  BY <1>1, <1>2 DEF GroupsInv, ChargeKept
<1>6. \A t \in Grp!Task : t[1] = "cleaner" => \A e : ~Covers(pg_at[t], e)
  BY <1>3, GroupsRestOK DEF Covers
<1>7. StrayCovered'
  BY <1>1, <1>6 DEF GroupsInv, StrayCovered
<1>8. LeftFirst'
  BY <1>1, <1>2 DEF GroupsInv, LeftFirst
<1>9. QED BY <1>4, <1>5, <1>7, <1>8 DEF GroupsInv

LEMMA GroupsStepOK == GroupsInv /\ [Grp!Next]_(Grp!vars) => GroupsInv'
<1> SUFFICES ASSUME GroupsInv, [Grp!Next]_(Grp!vars) PROVE GroupsInv'
  OBVIOUS
<1>1. CASE UNCHANGED Grp!vars
  BY <1>1 DEF Grp!vars, GroupsInv, Grp!TypeOK, ChargeKept, WiresOwn, StrayCovered, LeftFirst
<1>2. CASE Grp!Next
  BY <1>2, GroupsAddOK, GroupsTrackOK, GroupsDropOK, GroupsClearOK, GroupsUntrackOK, GroupsUnlistOK, GroupsTakeOK, GroupsSayOK, GroupsRequestSyncOK,
     GroupsSnapshotOK, GroupsCollectOK, GroupsCallOK, GroupsReceiveOK, GroupsConnectOK, GroupsLoseOK DEF Grp!Next
<1>3. QED BY <1>1, <1>2

LEMMA GroupsSafeOK == GroupsInv => Grp!NoStrayMember
  BY GroupsRestOK DEF GroupsInv, StrayCovered, Grp!NoStrayMember, Covers

LEMMA GroupsInFocus == GroupsInv /\ [ClusterNext]_clusterVars => GroupsInv'
<1>1. ClusterNext => Grp!Next \/ UNCHANGED pgVars
  BY DEF ClusterNext
<1>2. UNCHANGED clusterVars => UNCHANGED pgVars
  BY DEF clusterVars
<1>3. UNCHANGED pgVars => UNCHANGED Grp!vars
  BY DEF pgVars, Grp!vars
<1>4. QED BY <1>1, <1>2, <1>3, GroupsStepOK

(* pg.rs: a group has no member that nothing will take out of it.                 *)
THEOREM GroupsCorrect == ClusterSpec => []GroupsSafe
<1>1. ClusterInit => GroupsInv
  BY GroupsInitOK DEF ClusterInit
<1>2. GroupsInv => GroupsSafe
  BY GroupsSafeOK DEF GroupsInv, GroupsSafe
<1>3. QED BY <1>1, <1>2, GroupsInFocus, PTL DEF ClusterSpec

-----------------------------------------------------------------------------
(* A message is among those of a sequence. *)
Has(q, x) == \E i \in 1 .. Len(q) : q[i] = x

(* A monitor is of a process of the other node, and its messages are sent by    *)
(* the node of the one or of the other.                                         *)
Across(m) == Rem!Home(m.of) = Rem!Peer(Rem!Home(m.by))
MessagesOwn ==
    /\ \A m \in rp_outgoing \cup rp_trackedOut : Across(m)
    /\ \A p \in Rem!Process : rp_call[p] # Rem!NoCall /\ rp_call[p][1] \in {"track_monitor", "send_monitor"} =>
           Across(rp_call[p][2]) /\ rp_call[p][2].by = p
    /\ \A n \in Rem!Node, m \in Rem!Monitor :
           /\ Has(rp_wire[n], <<"MonitorProcess", m>>) => Across(m) /\ Rem!Home(m.by) = n
           /\ Has(rp_wire[n], <<"DemonitorProcess", m>>) => Across(m) /\ Rem!Home(m.by) = n
           /\ rp_handling[n] = <<"MonitorProcess", m>> => Across(m) /\ Rem!Home(m.of) = n

LinkCalls ==
    \A p \in Rem!Process : rp_call[p] # Rem!NoCall /\ rp_call[p][1] \in {"track_link", "send_link"} =>
        <<p, rp_call[p][2]>> \in Rem!Pair

(* A monitor is in the tracking of the node unless its call is about to put it   *)
(* there; a lost connection is cleaned up after, or the call takes the monitor   *)
(* back itself.                                                                 *)
Tracked ==
    \A m \in rp_outgoing :
        \/ rp_call[m.by] = <<"track_monitor", m>>
        \/ m \in rp_trackedOut /\ (rp_up[Rem!Home(m.by)] \/ rp_cleaning[Rem!Home(m.by)] \/ rp_call[m.by] = <<"send_monitor", m>>)

(* A monitor that was taken back is not made again: its reference is used up.    *)
Taken ==
    /\ \A m \in rp_trackedOut \cup rp_outgoing : rp_budget.monitors < m.ref
    /\ \A p \in Rem!Process : rp_call[p] # Rem!NoCall /\ rp_call[p][1] \in {"track_monitor", "send_monitor"} =>
           rp_budget.monitors < rp_call[p][2].ref
    /\ \A n \in Rem!Node, m \in Rem!Monitor : Has(rp_wire[n], <<"DemonitorProcess", m>>) =>
           m \notin rp_outgoing /\ rp_budget.monitors < m.ref

(* A monitor is on its way to its target's node, known there before the target    *)
(* has told of its exit, or answered.                                           *)
Answered(m) ==
    \/ rp_call[m.by] \in {<<"track_monitor", m>>, <<"send_monitor", m>>}
    \/ Has(rp_wire[Rem!Home(m.by)], <<"MonitorProcess", m>>)
    \/ rp_handling[Rem!Home(m.of)] = <<"MonitorProcess", m>>
    \/ \E r \in Rem!Reason : Has(rp_wire[Rem!Home(m.of)], <<"ProcessDown", m, r>>)
    \/ m \in rp_incoming /\ rp_status[m.of] \notin {"notified", "gone"}

Followed ==
    ~rp_lost =>
        /\ \A n \in Rem!Node : rp_up[n] /\ ~rp_cleaning[n]
        /\ \A m \in rp_outgoing : Answered(m)
        /\ \A n \in Rem!Node, m \in Rem!Monitor : rp_handling[n] = <<"MonitorProcess", m>> =>
               m \in rp_incoming \/ rp_status[m.of] \in {"notified", "gone"}

RemoteInv ==
    /\ Rem!TypeOK /\ IsFiniteSet(rp_incoming) /\ IsFiniteSet(rp_links)
    /\ MessagesOwn /\ LinkCalls /\ Tracked /\ Taken /\ Followed

LEMMA RemoteInitOK == Rem!Init => RemoteInv
<1> SUFFICES ASSUME Rem!Init PROVE RemoteInv
  OBVIOUS
<1>1. \A n \in Rem!Node : rp_wire[n] = <<>> /\ rp_handling[n] = <<>>
  BY DEF Rem!Init
<1>2. Rem!TypeOK
  <2>1. rp_wire \in [Rem!Node -> Seq(Rem!Message)] /\ \A n \in Rem!Node : Len(rp_wire[n]) = 0
    BY EmptySeq DEF Rem!Init
  <2>2. \A n \in Rem!Node : Len(rp_wire[n]) <= QueueCapacity
    BY <2>1, RemoteAssumption
  <2>3. rp_budget \in [monitors : Nat, links : Nat, losses : Nat, exits : Nat]
    BY RemoteAssumption DEF Rem!Init
  <2>4. QED BY <2>1, <2>2, <2>3 DEF Rem!Init, Rem!TypeOK
<1>3. IsFiniteSet(rp_incoming) /\ IsFiniteSet(rp_links)
  BY FS_EmptySet DEF Rem!Init
<1>4. \A n \in Rem!Node : \A x : ~Has(rp_wire[n], x) /\ rp_handling[n] = <<>>
  BY <1>1, EmptySeq DEF Has
<1>5. MessagesOwn /\ LinkCalls /\ Tracked /\ Taken
  BY <1>4 DEF Rem!Init, MessagesOwn, LinkCalls, Tracked, Taken
<1>6. Followed
  BY <1>4 DEF Rem!Init, Followed
<1>7. QED BY <1>2, <1>3, <1>5, <1>6 DEF RemoteInv

LEMMA RemoteNodesOK ==
    /\ \A n \in Rem!Node : Rem!Peer(n) \in Rem!Node /\ Rem!Peer(n) # n /\ Rem!Peer(Rem!Peer(n)) = n
    /\ \A p \in Rem!Process : Rem!Home(p) \in Rem!Node
    /\ \A p \in Rem!Process : \A q \in Rem!Remote(p) :
           q \in Rem!Process /\ Rem!Home(q) = Rem!Peer(Rem!Home(p)) /\ <<p, q>> \in Rem!Pair /\ <<q, p>> \in Rem!Pair
    /\ \A l \in Rem!Pair : l = <<l[1], l[2]>> /\ l[1] \in Rem!Process /\ l[2] \in Rem!Process /\ <<l[2], l[1]>> \in Rem!Pair
<1>1. \A n \in Rem!Node : Rem!Peer(n) \in Rem!Node /\ Rem!Peer(n) # n /\ Rem!Peer(Rem!Peer(n)) = n
  BY DEF Rem!Node, Rem!Peer
<1>2. \A p \in Rem!Process : Rem!Home(p) \in Rem!Node
  BY DEF Rem!Process, Rem!Home, Rem!Node
<1>3. \A p \in Rem!Process : \A q \in Rem!Remote(p) :
          q \in Rem!Process /\ Rem!Home(q) = Rem!Peer(Rem!Home(p)) /\ <<p, q>> \in Rem!Pair /\ <<q, p>> \in Rem!Pair
  BY NodesAssumption DEF Rem!Process, Rem!Remote, Rem!Home, Rem!Peer, Rem!Pair
<1>4. \A l \in Rem!Pair : l = <<l[1], l[2]>> /\ l[1] \in Rem!Process /\ l[2] \in Rem!Process /\ <<l[2], l[1]>> \in Rem!Pair
  BY DEF Rem!Pair, Rem!Process
<1>5. QED BY <1>1, <1>2, <1>3, <1>4

LEMMA RemoteMessageOK ==
    ASSUME NEW x \in Rem!Message
    PROVE  /\ x[1] \in {"MonitorProcess", "DemonitorProcess"} => x[2] \in Rem!Monitor /\ x = <<x[1], x[2]>>
           /\ x[1] = "ProcessDown" => x[2] \in Rem!Monitor /\ x[3] \in Rem!Reason /\ x = <<x[1], x[2], x[3]>>
           /\ x[1] \in {"Link", "Unlink"} => x[2] \in Rem!Pair /\ x = <<x[1], x[2]>>
           /\ x[1] = "Exit" => x[2] \in Rem!Pair /\ x[3] \in Rem!Reason /\ x = <<x[1], x[2], x[3]>>
<1>1. CASE x \in {"MonitorProcess", "DemonitorProcess"} \X Rem!Monitor
  BY <1>1
<1>2. CASE x \in {"ProcessDown"} \X Rem!Monitor \X Rem!Reason
  BY <1>2
<1>3. CASE x \in {"Link", "Unlink"} \X Rem!Pair
  BY <1>3
<1>4. CASE x \in {"Exit"} \X Rem!Pair \X Rem!Reason
  BY <1>4
<1>5. QED BY <1>1, <1>2, <1>3, <1>4 DEF Rem!Message

LEMMA RemoteOneOK ==
    ASSUME NEW S, NEW x \in S
    PROVE  <<x>> \in Seq(S) /\ Len(<<x>>) = 1 /\ \A y : Has(<<x>>, y) <=> y = x
  BY DEF Has

LEMMA RemoteConcatOK ==
    ASSUME NEW S, NEW q \in Seq(S), NEW ms \in Seq(S)
    PROVE  /\ q \o ms \in Seq(S) /\ Len(q \o ms) = Len(q) + Len(ms)
           /\ \A y : Has(q \o ms, y) <=> Has(q, y) \/ Has(ms, y)
<1>1. /\ q \o ms \in Seq(S) /\ Len(q \o ms) = Len(q) + Len(ms) /\ Len(q) \in Nat /\ Len(ms) \in Nat
      /\ \A i \in 1 .. Len(q) + Len(ms) :
             (q \o ms)[i] = IF i <= Len(q) THEN q[i] ELSE ms[i - Len(q)]
  BY ConcatProperties, LenProperties
<1>2. ASSUME NEW y, Has(q \o ms, y) PROVE Has(q, y) \/ Has(ms, y)
  <2>1. PICK i \in 1 .. Len(q) + Len(ms) : (q \o ms)[i] = y
    BY <1>1, <1>2 DEF Has
  <2>2. CASE i <= Len(q)
    BY <1>1, <2>1, <2>2 DEF Has
  <2>3. CASE i > Len(q)
    <3>1. i - Len(q) \in 1 .. Len(ms) /\ ms[i - Len(q)] = y
      BY <1>1, <2>1, <2>3
    <3>2. QED BY <3>1 DEF Has
  <2>4. QED BY <1>1, <2>2, <2>3
<1>3. ASSUME NEW y, Has(q, y) PROVE Has(q \o ms, y)
  <2>1. PICK i \in 1 .. Len(q) : q[i] = y
    BY <1>3 DEF Has
  <2>2. i \in 1 .. Len(q \o ms) /\ (q \o ms)[i] = y
    BY <1>1, <2>1
  <2>3. QED BY <2>2 DEF Has
<1>4. ASSUME NEW y, Has(ms, y) PROVE Has(q \o ms, y)
  <2>1. PICK i \in 1 .. Len(ms) : ms[i] = y
    BY <1>4 DEF Has
  <2>2. i + Len(q) \in 1 .. Len(q \o ms) /\ i + Len(q) \in 1 .. Len(q) + Len(ms)
        /\ (i + Len(q)) - Len(q) = i /\ ~(i + Len(q) <= Len(q))
    BY <1>1, <2>1
  <2>3. (q \o ms)[i + Len(q)] = y
    BY <1>1, <2>1, <2>2
  <2>4. QED BY <2>2, <2>3 DEF Has
<1>5. QED BY <1>1, <1>2, <1>3, <1>4

LEMMA RemoteTailOK ==
    ASSUME NEW S, NEW q \in Seq(S), q # <<>>
    PROVE  /\ Tail(q) \in Seq(S) /\ Len(Tail(q)) = Len(q) - 1 /\ Head(q) \in S /\ Has(q, Head(q))
           /\ \A y : Has(Tail(q), y) => Has(q, y)
           /\ \A y : Has(q, y) => y = Head(q) \/ Has(Tail(q), y)
<1>1. /\ Len(q) \in Nat \ {0} /\ Tail(q) \in Seq(S) /\ Len(Tail(q)) = Len(q) - 1
      /\ \A i \in 1 .. Len(Tail(q)) : Tail(q)[i] = q[i + 1]
      /\ Head(q) = q[1] /\ q[1] \in S
  BY HeadTailProperties, EmptySeq, LenProperties, ElementOfSeq
<1>2. Has(q, Head(q))
  BY <1>1 DEF Has
<1>3. ASSUME NEW y, Has(Tail(q), y) PROVE Has(q, y)
  <2>1. PICK i \in 1 .. Len(Tail(q)) : Tail(q)[i] = y
    BY <1>3 DEF Has
  <2>2. i + 1 \in 1 .. Len(q) /\ q[i + 1] = y
    BY <1>1, <2>1
  <2>3. QED BY <2>2 DEF Has
<1>4. ASSUME NEW y, Has(q, y), y # Head(q) PROVE Has(Tail(q), y)
  <2>1. PICK i \in 1 .. Len(q) : q[i] = y
    BY <1>4 DEF Has
  <2>2. i - 1 \in 1 .. Len(Tail(q)) /\ (i - 1) + 1 = i
    BY <1>1, <1>4, <2>1
  <2>3. Tail(q)[i - 1] = y
    BY <1>1, <2>1, <2>2
  <2>4. QED BY <2>2, <2>3 DEF Has
<1>5. QED BY <1>1, <1>2, <1>3, <1>4

(* What the queue cannot hold is dropped, and what is in it stays.              *)
LEMMA RemoteQueuedOK ==
    ASSUME NEW S, NEW q \in Seq(S), NEW ms \in Seq(S), Len(q) <= QueueCapacity
    PROVE  /\ Rem!Queued(q, ms) \in Seq(S) /\ Len(Rem!Queued(q, ms)) <= QueueCapacity
           /\ \A y : Has(q, y) => Has(Rem!Queued(q, ms), y)
           /\ \A y : Has(Rem!Queued(q, ms), y) => Has(q, y) \/ Has(ms, y)
           /\ ~Rem!Full(q, ms) => \A y : Has(ms, y) => Has(Rem!Queued(q, ms), y)
<1>0. Len(q) \in Nat /\ Len(ms) \in Nat /\ QueueCapacity \in Nat
  BY RemoteAssumption, LenProperties
<1>1. CASE ~Rem!Full(q, ms)
  <2>1. Rem!Queued(q, ms) = q \o ms /\ Len(q) + Len(ms) <= QueueCapacity
    BY <1>0, <1>1 DEF Rem!Queued, Rem!Full
  <2>2. QED BY <1>1, <2>1, RemoteConcatOK
<1>2. CASE Rem!Full(q, ms)
  <2> DEFINE k == QueueCapacity - Len(q)  s == SubSeq(ms, 1, k)
  <2>1. Rem!Queued(q, ms) = q \o s /\ k \in 0 .. Len(ms)
    BY <1>0, <1>2 DEF Rem!Queued, Rem!Full
  <2>2. s \in Seq(S) /\ Len(s) = k /\ \A i \in 1 .. k : s[i] = ms[i]
    <3>1. CASE k = 0
      <4>1. s = <<>>
        BY <3>1, <2>1, SubSeqEmpty
      <4>2. QED BY <3>1, <4>1, EmptySeq
    <3>2. CASE k # 0
      <4>1. 1 \in 1 .. Len(ms) + 1 /\ k \in 0 .. Len(ms) /\ 1 <= k + 1
        BY <1>0, <2>1
      <4>2. QED BY <1>0, <4>1, <3>2, SubSeqProperties
    <3>3. QED BY <3>1, <3>2
  <2> HIDE DEF s
  <2>3. \A y : Has(s, y) => Has(ms, y)
    <3> SUFFICES ASSUME NEW y, Has(s, y) PROVE Has(ms, y)
      OBVIOUS
    <3>1. PICK i \in 1 .. k : s[i] = y
      BY <2>2 DEF Has
    <3>2. i \in 1 .. Len(ms) /\ ms[i] = y
      BY <1>0, <2>1, <2>2, <3>1
    <3>3. QED BY <3>2 DEF Has
  <2>4. /\ q \o s \in Seq(S) /\ Len(q \o s) = Len(q) + Len(s)
        /\ \A y : Has(q \o s, y) <=> Has(q, y) \/ Has(s, y)
    BY <2>2, RemoteConcatOK
  <2>5. Len(q \o s) <= QueueCapacity
    BY <1>0, <2>1, <2>2, <2>4
  <2>6. QED BY <1>2, <2>1, <2>3, <2>4, <2>5
<1>3. QED BY <1>1, <1>2

LEMMA RemoteSendsOK ==
    ASSUME RemoteInv, NEW n \in Rem!Node, NEW ms \in Seq(Rem!Message), Rem!Sends(n, ms)
    PROVE  /\ rp_wire' \in [Rem!Node -> Seq(Rem!Message)] /\ \A x \in Rem!Node : Len(rp_wire'[x]) <= QueueCapacity
           /\ rp_lost' \in BOOLEAN /\ (rp_lost => rp_lost')
           /\ \A x \in Rem!Node : \A y : Has(rp_wire[x], y) => Has(rp_wire'[x], y)
           /\ \A x \in Rem!Node : \A y : Has(rp_wire'[x], y) => Has(rp_wire[x], y) \/ (x = n /\ Has(ms, y))
           /\ ~rp_lost' => \A y : Has(ms, y) => Has(rp_wire'[n], y)
<1>1. rp_wire \in [Rem!Node -> Seq(Rem!Message)] /\ (\A x \in Rem!Node : Len(rp_wire[x]) <= QueueCapacity) /\ rp_lost \in BOOLEAN
  BY DEF RemoteInv, Rem!TypeOK
<1>2. CASE ~rp_up[n]
  BY <1>1, <1>2 DEF Rem!Sends, Rem!wireVars, RemoteInv, Followed
<1>3. CASE rp_up[n]
  <2>1. rp_wire' = [rp_wire EXCEPT ![n] = Rem!Queued(rp_wire[n], ms)] /\ rp_lost' = (rp_lost \/ Rem!Full(rp_wire[n], ms))
    BY <1>3 DEF Rem!Sends
  <2>2. rp_wire'[n] = Rem!Queued(rp_wire[n], ms) /\ \A x \in Rem!Node \ {n} : rp_wire'[x] = rp_wire[x]
    BY <1>1, <2>1
  <2>3. /\ Rem!Queued(rp_wire[n], ms) \in Seq(Rem!Message) /\ Len(Rem!Queued(rp_wire[n], ms)) <= QueueCapacity
        /\ \A y : Has(rp_wire[n], y) => Has(Rem!Queued(rp_wire[n], ms), y)
        /\ \A y : Has(Rem!Queued(rp_wire[n], ms), y) => Has(rp_wire[n], y) \/ Has(ms, y)
        /\ ~Rem!Full(rp_wire[n], ms) => \A y : Has(ms, y) => Has(Rem!Queued(rp_wire[n], ms), y)
    BY <1>1, RemoteQueuedOK
  <2>4. rp_wire' \in [Rem!Node -> Seq(Rem!Message)]
    BY <1>1, <2>1, <2>3
  <2>5. rp_lost' \in BOOLEAN /\ (rp_lost => rp_lost') /\ (~rp_lost' => ~Rem!Full(rp_wire[n], ms))
    BY <2>1 DEF Rem!Full
  <2>6. QED BY <1>1, <2>2, <2>3, <2>4, <2>5
<1>4. QED BY <1>2, <1>3

LEMMA RemoteTakesOK ==
    ASSUME RemoteInv, NEW n \in Rem!Node, Rem!Receive(n), rp_wire' = [rp_wire EXCEPT ![Rem!Peer(n)] = Tail(@)]
    PROVE  /\ rp_wire' \in [Rem!Node -> Seq(Rem!Message)] /\ \A x \in Rem!Node : Len(rp_wire'[x]) <= QueueCapacity
           /\ Rem!Next1(n) \in Rem!Message /\ Has(rp_wire[Rem!Peer(n)], Rem!Next1(n))
           /\ \A x \in Rem!Node : \A y : Has(rp_wire'[x], y) => Has(rp_wire[x], y)
           /\ \A x \in Rem!Node : \A y : Has(rp_wire[x], y) => Has(rp_wire'[x], y) \/ (x = Rem!Peer(n) /\ y = Rem!Next1(n))
<1>1. rp_wire \in [Rem!Node -> Seq(Rem!Message)] /\ (\A x \in Rem!Node : Len(rp_wire[x]) <= QueueCapacity) /\ Rem!Peer(n) \in Rem!Node
  BY RemoteNodesOK DEF RemoteInv, Rem!TypeOK
<1> DEFINE q == rp_wire[Rem!Peer(n)]
<1>2. q \in Seq(Rem!Message) /\ q # <<>> /\ Len(q) \in Nat /\ QueueCapacity \in Nat /\ Len(q) <= QueueCapacity
  BY <1>1, RemoteAssumption, LenProperties DEF Rem!Receive
<1>3. rp_wire'[Rem!Peer(n)] = Tail(q) /\ \A x \in Rem!Node \ {Rem!Peer(n)} : rp_wire'[x] = rp_wire[x]
  BY <1>1
<1> HIDE DEF q
<1>4. /\ Tail(q) \in Seq(Rem!Message) /\ Len(Tail(q)) = Len(q) - 1 /\ Head(q) \in Rem!Message /\ Has(q, Head(q))
      /\ \A y : Has(Tail(q), y) => Has(q, y)
      /\ \A y : Has(q, y) => y = Head(q) \/ Has(Tail(q), y)
  BY <1>2, RemoteTailOK
<1>5. Len(Tail(q)) <= QueueCapacity
  BY <1>2, <1>4
<1>6. rp_wire' \in [Rem!Node -> Seq(Rem!Message)]
  BY <1>1, <1>4 DEF q
<1>7. QED BY <1>1, <1>3, <1>4, <1>5, <1>6 DEF q, Rem!Next1

OfMonitors == ({"MonitorProcess", "DemonitorProcess"} \X Rem!Monitor) \cup ({"ProcessDown"} \X Rem!Monitor \X Rem!Reason)
InMonitorCall(c) == c # Rem!NoCall /\ c[1] \in {"track_monitor", "send_monitor"}

(* A step that is of no monitor. *)
LEMMA RemoteOthersOK ==
    ASSUME RemoteInv, Rem!TypeOK', LinkCalls', IsFiniteSet(rp_links'),
           UNCHANGED <<rp_outgoing, rp_incoming, rp_trackedOut, rp_trackedIn, rp_up, rp_cleaning>>,
           rp_budget'.monitors = rp_budget.monitors, rp_lost => rp_lost',
           \A x \in Rem!Node, y \in OfMonitors : Has(rp_wire'[x], y) <=> Has(rp_wire[x], y),
           \A p \in Rem!Process : rp_call'[p] = rp_call[p] \/ (~InMonitorCall(rp_call[p]) /\ ~InMonitorCall(rp_call'[p])),
           \A x \in Rem!Node, m \in Rem!Monitor :
               rp_handling'[x] = <<"MonitorProcess", m>> <=> rp_handling[x] = <<"MonitorProcess", m>>,
           \A p \in Rem!Process : rp_status'[p] \in {"notified", "gone"} <=> rp_status[p] \in {"notified", "gone"}
    PROVE  RemoteInv'
<1>1. \A m \in Rem!Monitor : /\ <<"MonitorProcess", m>> \in OfMonitors
                         /\ <<"DemonitorProcess", m>> \in OfMonitors
                         /\ \A r \in Rem!Reason : <<"ProcessDown", m, r>> \in OfMonitors
  BY DEF OfMonitors
<1>2. \A m \in rp_outgoing : m \in Rem!Monitor /\ m.by \in Rem!Process /\ m.of \in Rem!Process
                          /\ Rem!Home(m.by) \in Rem!Node /\ Rem!Home(m.of) \in Rem!Node
  BY RemoteNodesOK DEF RemoteInv, Rem!TypeOK, Rem!Monitor
<1>3. \A p \in Rem!Process, m \in Rem!Monitor :
          /\ rp_call'[p] = <<"track_monitor", m>> <=> rp_call[p] = <<"track_monitor", m>>
          /\ rp_call'[p] = <<"send_monitor", m>> <=> rp_call[p] = <<"send_monitor", m>>
  <2>1. \A m : InMonitorCall(<<"track_monitor", m>>) /\ InMonitorCall(<<"send_monitor", m>>)
    BY DEF InMonitorCall, Rem!NoCall
  <2>2. QED BY <2>1
<1>4. MessagesOwn'
  BY <1>1 DEF RemoteInv, MessagesOwn, Across, InMonitorCall
<1>5. Tracked'
  BY <1>2, <1>3 DEF RemoteInv, Tracked
<1>6. Taken'
  BY <1>1 DEF RemoteInv, Taken, InMonitorCall
<1>7. Followed'
  <2>1. \A m \in rp_outgoing : Answered(m) => Answered(m)'
    BY <1>1, <1>2, <1>3 DEF Answered
  <2>2. \A n \in Rem!Node, m \in Rem!Monitor : m.of \in Rem!Process
    BY DEF Rem!Monitor
  <2>3. QED BY <2>1, <2>2 DEF RemoteInv, Followed
<1>8. QED BY <1>4, <1>5, <1>6, <1>7 DEF RemoteInv

LEMMA RemotePlainOK ==
    ASSUME RemoteInv, NEW P \in SUBSET Rem!Process, Rem!Strike(P)
    PROVE  /\ rp_status' \in [Rem!Process -> {"alive", "marked", "terminated", "notified", "gone"}]
           /\ \A p \in Rem!Process : rp_status'[p] \in {"notified", "gone"} <=> rp_status[p] \in {"notified", "gone"}
  BY DEF Rem!Strike, RemoteInv, Rem!TypeOK

LEMMA RemoteTypesOK ==
    RemoteInv => /\ rp_wire \in [Rem!Node -> Seq(Rem!Message)] /\ rp_handling \in [Rem!Node -> {<<>>} \cup ({"MonitorProcess"} \X Rem!Monitor) \cup ({"Link"} \X Rem!Pair)]
                 /\ rp_call \in [Rem!Process -> {Rem!NoCall} \cup ({"track_monitor", "send_monitor"} \X Rem!Monitor)
                                         \cup ({"track_link", "send_link"} \X Rem!Process)]
                 /\ rp_status \in [Rem!Process -> {"alive", "marked", "terminated", "notified", "gone"}]
                 /\ rp_budget \in [monitors : Nat, links : Nat, losses : Nat, exits : Nat]
                 /\ \A n \in Rem!Node : Len(rp_wire[n]) <= QueueCapacity
                 /\ rp_lost \in BOOLEAN
  BY DEF RemoteInv, Rem!TypeOK

LEMMA RemoteSpendOK ==
    ASSUME RemoteInv, NEW what \in {"monitors", "links", "losses", "exits"}, Rem!Spend(what)
    PROVE  /\ rp_budget' \in [monitors : Nat, links : Nat, losses : Nat, exits : Nat]
           /\ rp_budget'.monitors <= rp_budget.monitors
           /\ what # "monitors" => rp_budget'.monitors = rp_budget.monitors
           /\ what = "monitors" => rp_budget'.monitors < rp_budget.monitors
  BY RemoteTypesOK DEF Rem!Spend

LEMMA RemoteLinkProcessOK == ASSUME RemoteInv, NEW p \in Rem!Process, NEW q \in Rem!Remote(p), Rem!LinkProcess(p, q) PROVE RemoteInv'
<1>1. /\ rp_call[p] = Rem!NoCall /\ rp_links' = rp_links \cup {<<p, q>>} /\ rp_call' = [rp_call EXCEPT ![p] = <<"track_link", q>>]
      /\ Rem!Spend("links")
      /\ UNCHANGED <<Rem!netVars, Rem!wireVars, rp_handling, Rem!monitorVars, rp_trackedLinks, Rem!procVars>>
  BY DEF Rem!LinkProcess, Rem!Idle, Rem!Goes
<1>2. q \in Rem!Process /\ <<p, q>> \in Rem!Pair
  BY RemoteNodesOK
<1>3. IsFiniteSet(rp_links')
  BY <1>1, FS_AddElement DEF RemoteInv
<1>4. /\ rp_call' \in [Rem!Process -> {Rem!NoCall} \cup ({"track_monitor", "send_monitor"} \X Rem!Monitor)
                             \cup ({"track_link", "send_link"} \X Rem!Process)]
      /\ rp_call'[p] = <<"track_link", q>> /\ \A x \in Rem!Process \ {p} : rp_call'[x] = rp_call[x]
  BY <1>1, <1>2, RemoteTypesOK
<1>5. Rem!TypeOK'
  BY <1>1, <1>2, <1>4, RemoteSpendOK DEF RemoteInv, Rem!TypeOK, Rem!netVars, Rem!wireVars, Rem!monitorVars, Rem!procVars
<1>6. LinkCalls'
  BY <1>2, <1>4 DEF RemoteInv, LinkCalls
<1>7. QED BY <1>1, <1>3, <1>4, <1>5, <1>6, RemoteSpendOK, RemoteOthersOK DEF Rem!netVars, Rem!wireVars, Rem!monitorVars, Rem!procVars, InMonitorCall

LEMMA RemoteTrackLinkOK == ASSUME RemoteInv, NEW p \in Rem!Process, Rem!TrackLink(p) PROVE RemoteInv'
<1>1. /\ rp_call[p] # Rem!NoCall /\ rp_call[p][1] = "track_link" /\ rp_trackedLinks' = rp_trackedLinks \cup {<<p, rp_call[p][2]>>}
      /\ rp_call' = [rp_call EXCEPT ![p] = <<"send_link", rp_call[p][2]>>]
      /\ UNCHANGED <<rp_budget, Rem!netVars, Rem!wireVars, rp_handling, Rem!monitorVars, rp_links, Rem!procVars>>
  BY DEF Rem!TrackLink, Rem!Goes
<1>2. rp_call[p][2] \in Rem!Process /\ <<p, rp_call[p][2]>> \in Rem!Pair
  BY <1>1, RemoteTypesOK DEF RemoteInv, LinkCalls
<1>4. /\ rp_call' \in [Rem!Process -> {Rem!NoCall} \cup ({"track_monitor", "send_monitor"} \X Rem!Monitor)
                             \cup ({"track_link", "send_link"} \X Rem!Process)]
      /\ rp_call'[p] = <<"send_link", rp_call[p][2]>> /\ \A x \in Rem!Process \ {p} : rp_call'[x] = rp_call[x]
  BY <1>1, <1>2, RemoteTypesOK
<1>5. Rem!TypeOK'
  BY <1>1, <1>2, <1>4 DEF RemoteInv, Rem!TypeOK, Rem!netVars, Rem!wireVars, Rem!monitorVars, Rem!procVars
<1>6. LinkCalls'
  BY <1>2, <1>4 DEF RemoteInv, LinkCalls
<1>7. QED BY <1>1, <1>4, <1>5, <1>6, RemoteOthersOK DEF RemoteInv, Rem!netVars, Rem!wireVars, Rem!monitorVars, Rem!procVars, InMonitorCall

(* What a message of a link leaves of those of monitors. *)
LEMMA RemoteLinkMessageOK ==
    ASSUME NEW x \in Rem!Message, x[1] \in {"Link", "Unlink", "Exit"} PROVE x \notin OfMonitors
<1>1. \A y \in OfMonitors : y[1] \in {"MonitorProcess", "DemonitorProcess", "ProcessDown"}
  BY DEF OfMonitors
<1>2. QED BY <1>1

LEMMA RemoteSendsLinkOK ==
    ASSUME RemoteInv, NEW n \in Rem!Node, NEW m \in Rem!Message, m[1] \in {"Link", "Unlink", "Exit"}, Rem!Sends(n, <<m>>)
    PROVE  /\ rp_wire' \in [Rem!Node -> Seq(Rem!Message)] /\ \A x \in Rem!Node : Len(rp_wire'[x]) <= QueueCapacity
           /\ rp_lost' \in BOOLEAN /\ (rp_lost => rp_lost')
           /\ \A x \in Rem!Node, y \in OfMonitors : Has(rp_wire'[x], y) <=> Has(rp_wire[x], y)
<1>1. <<m>> \in Seq(Rem!Message) /\ \A y : Has(<<m>>, y) <=> y = m
  BY RemoteOneOK
<1>2. m \notin OfMonitors
  BY RemoteLinkMessageOK
<1>3. QED BY <1>1, <1>2, RemoteSendsOK

LEMMA RemoteTakesLinkOK ==
    ASSUME RemoteInv, NEW n \in Rem!Node, Rem!Receive(n), Rem!Takes(n), Rem!Next1(n)[1] \in {"Link", "Unlink", "Exit"}
    PROVE  /\ rp_wire' \in [Rem!Node -> Seq(Rem!Message)] /\ \A x \in Rem!Node : Len(rp_wire'[x]) <= QueueCapacity
           /\ rp_lost' \in BOOLEAN /\ rp_lost' = rp_lost /\ Rem!Next1(n) \in Rem!Message
           /\ \A x \in Rem!Node, y \in OfMonitors : Has(rp_wire'[x], y) <=> Has(rp_wire[x], y)
<1>1. rp_lost' = rp_lost /\ rp_wire' = [rp_wire EXCEPT ![Rem!Peer(n)] = Tail(@)]
  BY DEF Rem!Takes
<1>2. Rem!Next1(n) \in Rem!Message /\ Rem!Next1(n) \notin OfMonitors
  BY <1>1, RemoteTakesOK, RemoteLinkMessageOK
<1>3. QED BY <1>1, <1>2, RemoteTakesOK, RemoteTypesOK

LEMMA RemoteSendLinkOK == ASSUME RemoteInv, NEW p \in Rem!Process, Rem!SendLink(p) PROVE RemoteInv'
<1> DEFINE l == <<p, rp_call[p][2]>>  m == <<"Link", l>>
<1>1. /\ rp_call[p] # Rem!NoCall /\ rp_call[p][1] = "send_link" /\ Rem!Sends(Rem!Home(p), <<m>>)
      /\ rp_links' = IF rp_up[Rem!Home(p)] THEN rp_links ELSE rp_links \ {l}
      /\ rp_call' = [rp_call EXCEPT ![p] = Rem!NoCall]
      /\ UNCHANGED <<rp_budget, Rem!netVars, rp_handling, Rem!monitorVars, rp_trackedLinks, Rem!procVars>>
  BY DEF Rem!SendLink, Rem!Goes
<1>2. l \in Rem!Pair
  BY <1>1 DEF RemoteInv, LinkCalls
<1>3. m \in Rem!Message /\ m[1] = "Link"
  BY <1>2 DEF Rem!Message
<1> HIDE DEF m, l
<1>4. /\ rp_wire' \in [Rem!Node -> Seq(Rem!Message)] /\ \A x \in Rem!Node : Len(rp_wire'[x]) <= QueueCapacity
      /\ rp_lost' \in BOOLEAN /\ (rp_lost => rp_lost')
      /\ \A x \in Rem!Node, y \in OfMonitors : Has(rp_wire'[x], y) <=> Has(rp_wire[x], y)
  BY <1>1, <1>3, RemoteSendsLinkOK, RemoteNodesOK
<1>5. /\ rp_call' \in [Rem!Process -> {Rem!NoCall} \cup ({"track_monitor", "send_monitor"} \X Rem!Monitor)
                             \cup ({"track_link", "send_link"} \X Rem!Process)]
      /\ rp_call'[p] = Rem!NoCall /\ \A x \in Rem!Process \ {p} : rp_call'[x] = rp_call[x]
  BY <1>1, RemoteTypesOK
<1>6. Rem!TypeOK'
  BY <1>1, <1>4, <1>5 DEF RemoteInv, Rem!TypeOK, Rem!netVars, Rem!monitorVars, Rem!procVars
<1>7. LinkCalls'
  BY <1>5 DEF RemoteInv, LinkCalls
<1>8. rp_links' \subseteq rp_links /\ IsFiniteSet(rp_links')
  BY <1>1, FS_Subset DEF RemoteInv
<1>9. QED BY <1>1, <1>4, <1>5, <1>6, <1>7, <1>8, RemoteOthersOK DEF Rem!netVars, Rem!monitorVars, Rem!procVars, InMonitorCall

LEMMA RemoteUnlinkProcessOK == ASSUME RemoteInv, NEW p \in Rem!Process, NEW q \in Rem!Remote(p), Rem!UnlinkProcess(p, q) PROVE RemoteInv'
<1> DEFINE l == <<p, q>>  m == <<"Unlink", l>>
<1>1. /\ Rem!Sends(Rem!Home(p), <<m>>) /\ Rem!Spend("links") /\ rp_links' = rp_links \ {l}
      /\ UNCHANGED <<Rem!netVars, rp_handling, rp_call, Rem!monitorVars, rp_trackedLinks, Rem!procVars>>
  BY DEF Rem!UnlinkProcess
<1>3. m \in Rem!Message /\ m[1] = "Unlink"
  BY RemoteNodesOK DEF Rem!Message
<1> HIDE DEF m, l
<1>4. /\ rp_wire' \in [Rem!Node -> Seq(Rem!Message)] /\ \A x \in Rem!Node : Len(rp_wire'[x]) <= QueueCapacity
      /\ rp_lost' \in BOOLEAN /\ (rp_lost => rp_lost')
      /\ \A x \in Rem!Node, y \in OfMonitors : Has(rp_wire'[x], y) <=> Has(rp_wire[x], y)
  BY <1>1, <1>3, RemoteSendsLinkOK, RemoteNodesOK
<1>6. Rem!TypeOK'
  BY <1>1, <1>4, RemoteSpendOK DEF RemoteInv, Rem!TypeOK, Rem!netVars, Rem!monitorVars, Rem!procVars
<1>7. LinkCalls'
  BY <1>1 DEF RemoteInv, LinkCalls
<1>8. rp_links' \subseteq rp_links /\ IsFiniteSet(rp_links')
  BY <1>1, FS_Subset DEF RemoteInv
<1>9. QED BY <1>1, <1>4, <1>6, <1>7, <1>8, RemoteSpendOK, RemoteOthersOK DEF Rem!netVars, Rem!monitorVars, Rem!procVars

LEMMA RemoteTerminateOK ==
    ASSUME RemoteInv, NEW p \in Rem!Process, NEW reason \in {"normal", "error", "killed"}, Rem!Terminate(p, reason)
    PROVE  RemoteInv'
<1>1. /\ rp_status[p] = "alive" /\ Rem!Spend("exits") /\ rp_status' = [rp_status EXCEPT ![p] = "terminated"]
      /\ rp_why' = [rp_why EXCEPT ![p] = reason]
      /\ UNCHANGED <<Rem!netVars, Rem!wireVars, rp_handling, rp_call, Rem!monitorVars, Rem!linkVars, rp_trapping, rp_downs>>
  BY DEF Rem!Terminate
<1>2. Rem!TypeOK'
  BY <1>1, RemoteSpendOK DEF RemoteInv, Rem!TypeOK, Rem!netVars, Rem!wireVars, Rem!monitorVars, Rem!linkVars
<1>3. \A x \in Rem!Process : rp_status'[x] \in {"notified", "gone"} <=> rp_status[x] \in {"notified", "gone"}
  BY <1>1, RemoteTypesOK
<1>4. LinkCalls' /\ IsFiniteSet(rp_links')
  BY <1>1 DEF RemoteInv, LinkCalls, Rem!linkVars
<1>5. QED BY <1>1, <1>2, <1>3, <1>4, RemoteSpendOK, RemoteOthersOK DEF Rem!netVars, Rem!wireVars, Rem!monitorVars

LEMMA RemoteUnregisterOK == ASSUME RemoteInv, NEW p \in Rem!Process, Rem!Unregister(p) PROVE RemoteInv'
<1>1. /\ rp_status[p] = "notified" /\ rp_status' = [rp_status EXCEPT ![p] = "gone"]
      /\ UNCHANGED <<rp_budget, Rem!netVars, Rem!wireVars, rp_handling, rp_call, Rem!monitorVars, Rem!linkVars, rp_why, rp_trapping, rp_downs>>
  BY DEF Rem!Unregister
<1>2. Rem!TypeOK'
  BY <1>1 DEF RemoteInv, Rem!TypeOK, Rem!netVars, Rem!wireVars, Rem!monitorVars, Rem!linkVars
<1>3. \A x \in Rem!Process : rp_status'[x] \in {"notified", "gone"} <=> rp_status[x] \in {"notified", "gone"}
  BY <1>1, RemoteTypesOK
<1>4. LinkCalls' /\ IsFiniteSet(rp_links')
  BY <1>1 DEF RemoteInv, LinkCalls, Rem!linkVars
<1>5. QED BY <1>1, <1>2, <1>3, <1>4, RemoteOthersOK DEF Rem!netVars, Rem!wireVars, Rem!monitorVars

LEMMA RemoteHandleLinkOK == ASSUME RemoteInv, NEW n \in Rem!Node, Rem!HandleLink(n) PROVE RemoteInv'
<1> DEFINE x == Rem!Next1(n)  from == Rem!Next1(n)[2][1]  target == Rem!Next1(n)[2][2]
           e == <<"Exit", <<target, from>>, "error">>
<1>1. /\ Rem!Receive(n) /\ x[1] = "Link"
      /\ \/ Rem!Takes(n) /\ rp_handling' = [rp_handling EXCEPT ![n] = x]
         \/ /\ rp_wire' = [rp_wire EXCEPT ![Rem!Peer(n)] = Tail(@), ![n] = Rem!Queued(@, <<e>>)]
            /\ UNCHANGED <<rp_lost, rp_handling>>
      /\ UNCHANGED <<rp_budget, Rem!netVars, rp_call, Rem!monitorVars, Rem!linkVars, Rem!procVars>>
  BY DEF Rem!HandleLink
<1>2. x \in Rem!Message /\ rp_wire[Rem!Peer(n)] \in Seq(Rem!Message) /\ rp_wire[Rem!Peer(n)] # <<>> /\ Rem!Peer(n) \in Rem!Node /\ Rem!Peer(n) # n
  <2>1. rp_wire[Rem!Peer(n)] \in Seq(Rem!Message) /\ rp_wire[Rem!Peer(n)] # <<>> /\ Rem!Peer(n) \in Rem!Node /\ Rem!Peer(n) # n
    BY <1>1, RemoteNodesOK, RemoteTypesOK DEF Rem!Receive
  <2>2. QED BY <2>1, RemoteTailOK DEF Rem!Next1
<1>3. x[2] \in Rem!Pair /\ x = <<"Link", x[2]>> /\ x \notin OfMonitors
  BY <1>1, <1>2, RemoteMessageOK, RemoteLinkMessageOK
<1>4. e \in Rem!Message /\ e[1] = "Exit" /\ e \notin OfMonitors
  <2>1. e \in Rem!Message
    BY <1>3, RemoteNodesOK DEF Rem!Message, Rem!Reason
  <2>2. QED BY <2>1, RemoteLinkMessageOK
<1>5. LinkCalls' /\ IsFiniteSet(rp_links')
  BY <1>1 DEF RemoteInv, LinkCalls, Rem!linkVars
<1>6. CASE Rem!Takes(n) /\ rp_handling' = [rp_handling EXCEPT ![n] = x]
  <2>1. /\ rp_wire' \in [Rem!Node -> Seq(Rem!Message)] /\ \A y \in Rem!Node : Len(rp_wire'[y]) <= QueueCapacity
        /\ rp_lost' \in BOOLEAN /\ rp_lost' = rp_lost
        /\ \A z \in Rem!Node, y \in OfMonitors : Has(rp_wire'[z], y) <=> Has(rp_wire[z], y)
    BY <1>1, <1>6, RemoteTakesLinkOK
  <2>2. rp_handling[n] = <<>> /\ rp_handling'[n] = x /\ \A z \in Rem!Node \ {n} : rp_handling'[z] = rp_handling[z]
    BY <1>1, <1>6, RemoteTypesOK DEF Rem!Receive
  <2>3. rp_handling' \in [Rem!Node -> {<<>>} \cup ({"MonitorProcess"} \X Rem!Monitor) \cup ({"Link"} \X Rem!Pair)]
    BY <1>3, <1>6, RemoteTypesOK
  <2>4. Rem!TypeOK'
    BY <1>1, <2>1, <2>3 DEF RemoteInv, Rem!TypeOK, Rem!netVars, Rem!monitorVars, Rem!linkVars, Rem!procVars
  <2>5. \A m : x # <<"MonitorProcess", m>> /\ <<>> # <<"MonitorProcess", m>>
    BY <1>1
  <2> HIDE DEF x
  <2>6. QED BY <1>1, <1>5, <2>1, <2>2, <2>4, <2>5, RemoteOthersOK DEF Rem!netVars, Rem!monitorVars, Rem!procVars
<1>7. CASE rp_wire' = [rp_wire EXCEPT ![Rem!Peer(n)] = Tail(@), ![n] = Rem!Queued(@, <<e>>)] /\ UNCHANGED <<rp_lost, rp_handling>>
  <2> DEFINE q == rp_wire[Rem!Peer(n)]
  <2> HIDE DEF e, x
  <2>1. /\ Tail(q) \in Seq(Rem!Message) /\ Len(Tail(q)) = Len(q) - 1 /\ Len(q) <= QueueCapacity /\ Len(q) \in Nat
        /\ \A y : Has(Tail(q), y) => Has(q, y)
        /\ \A y : Has(q, y) => y = x \/ Has(Tail(q), y)
    BY <1>2, RemoteTailOK, LenProperties, RemoteTypesOK DEF x, Rem!Next1
  <2>2. Len(Tail(q)) <= QueueCapacity
    BY <2>1, RemoteAssumption
  <2> DEFINE r == Rem!Queued(rp_wire[n], <<e>>)
  <2>3. /\ r \in Seq(Rem!Message) /\ Len(r) <= QueueCapacity
        /\ \A y : Has(rp_wire[n], y) => Has(r, y)
        /\ \A y : Has(r, y) => Has(rp_wire[n], y) \/ y = e
    <3>1. <<e>> \in Seq(Rem!Message) /\ \A y : Has(<<e>>, y) <=> y = e
      BY <1>4, RemoteOneOK
    <3>2. rp_wire[n] \in Seq(Rem!Message) /\ Len(rp_wire[n]) <= QueueCapacity
      BY RemoteTypesOK
    <3>3. QED BY <3>1, <3>2, RemoteQueuedOK
  <2> HIDE DEF r
  <2>4. /\ rp_wire'[n] = r /\ rp_wire'[Rem!Peer(n)] = Tail(q) /\ \A z \in Rem!Node : z = n \/ z = Rem!Peer(n)
        /\ rp_wire' \in [Rem!Node -> Seq(Rem!Message)]
    <3>1. \A z \in Rem!Node : z = n \/ z = Rem!Peer(n)
      BY DEF Rem!Node, Rem!Peer
    <3>2. rp_wire' = [[rp_wire EXCEPT ![Rem!Peer(n)] = Tail(q)] EXCEPT ![n] = r]
      BY <1>7, <1>2 DEF r
    <3>3. QED BY <1>2, <2>1, <2>3, <3>1, <3>2, RemoteTypesOK
  <2>5. \A z \in Rem!Node, y \in OfMonitors : Has(rp_wire'[z], y) <=> Has(rp_wire[z], y)
    BY <1>3, <1>4, <2>1, <2>3, <2>4
  <2>6. Rem!TypeOK'
    BY <1>1, <1>7, <2>2, <2>3, <2>4 DEF RemoteInv, Rem!TypeOK, Rem!netVars, Rem!monitorVars, Rem!linkVars, Rem!procVars
  <2>7. QED BY <1>1, <1>5, <1>7, <2>5, <2>6, RemoteOthersOK DEF Rem!netVars, Rem!monitorVars, Rem!procVars
<1>8. QED BY <1>1, <1>6, <1>7

LEMMA RemoteHandleLinkAddsOK == ASSUME RemoteInv, NEW n \in Rem!Node, Rem!HandleLinkAdds(n) PROVE RemoteInv'
<1> DEFINE l == <<rp_handling[n][2][2], rp_handling[n][2][1]>>
<1>1. /\ rp_handling[n] # <<>> /\ rp_handling[n][1] = "Link" /\ rp_handling' = [rp_handling EXCEPT ![n] = <<>>]
      /\ rp_links' = rp_links \cup {l} /\ rp_trackedLinks' = rp_trackedLinks \cup {l}
      /\ UNCHANGED <<rp_budget, Rem!netVars, Rem!wireVars, rp_call, Rem!monitorVars, Rem!procVars>>
  BY DEF Rem!HandleLinkAdds
<1>2. l \in Rem!Pair
  BY <1>1, RemoteTypesOK, RemoteNodesOK
<1> HIDE DEF l
<1>3. /\ rp_handling' \in [Rem!Node -> {<<>>} \cup ({"MonitorProcess"} \X Rem!Monitor) \cup ({"Link"} \X Rem!Pair)]
      /\ rp_handling'[n] = <<>> /\ \A z \in Rem!Node \ {n} : rp_handling'[z] = rp_handling[z]
  BY <1>1, RemoteTypesOK
<1>4. Rem!TypeOK'
  BY <1>1, <1>2, <1>3 DEF RemoteInv, Rem!TypeOK, Rem!netVars, Rem!wireVars, Rem!monitorVars, Rem!procVars
<1>5. LinkCalls' /\ IsFiniteSet(rp_links')
  BY <1>1, FS_AddElement DEF RemoteInv, LinkCalls
<1>6. \A m : rp_handling[n] # <<"MonitorProcess", m>> /\ <<>> # <<"MonitorProcess", m>>
  BY <1>1
<1>7. QED BY <1>1, <1>3, <1>4, <1>5, <1>6, RemoteOthersOK DEF Rem!netVars, Rem!wireVars, Rem!monitorVars, Rem!procVars

LEMMA RemoteHandleUnlinkOK == ASSUME RemoteInv, NEW n \in Rem!Node, Rem!HandleUnlink(n) PROVE RemoteInv'
<1>1. /\ Rem!Receive(n) /\ Rem!Next1(n)[1] = "Unlink" /\ Rem!Takes(n) /\ rp_links' \subseteq rp_links
      /\ UNCHANGED <<rp_budget, Rem!netVars, rp_handling, rp_call, Rem!monitorVars, rp_trackedLinks, Rem!procVars>>
  BY DEF Rem!HandleUnlink
<1>2. /\ rp_wire' \in [Rem!Node -> Seq(Rem!Message)] /\ \A y \in Rem!Node : Len(rp_wire'[y]) <= QueueCapacity
      /\ rp_lost' \in BOOLEAN /\ rp_lost' = rp_lost
      /\ \A z \in Rem!Node, y \in OfMonitors : Has(rp_wire'[z], y) <=> Has(rp_wire[z], y)
  BY <1>1, RemoteTakesLinkOK
<1>3. Rem!TypeOK'
  BY <1>1, <1>2 DEF RemoteInv, Rem!TypeOK, Rem!netVars, Rem!monitorVars, Rem!procVars
<1>4. LinkCalls' /\ IsFiniteSet(rp_links')
  BY <1>1, FS_Subset DEF RemoteInv, LinkCalls
<1>5. QED BY <1>1, <1>2, <1>3, <1>4, RemoteOthersOK DEF Rem!netVars, Rem!monitorVars, Rem!procVars

LEMMA RemoteHandleExitOK == ASSUME RemoteInv, NEW n \in Rem!Node, Rem!HandleExit(n) PROVE RemoteInv'
<1> DEFINE target == Rem!Next1(n)[2][2]
<1>1. /\ Rem!Receive(n) /\ Rem!Next1(n)[1] = "Exit" /\ Rem!Takes(n) /\ rp_links' \subseteq rp_links
      /\ Rem!Strike({target}) \/ Rem!Strike({})
      /\ UNCHANGED <<rp_budget, Rem!netVars, rp_handling, rp_call, Rem!monitorVars, rp_trackedLinks, rp_why, rp_trapping, rp_downs>>
  BY DEF Rem!HandleExit
<1>2. /\ rp_wire' \in [Rem!Node -> Seq(Rem!Message)] /\ \A y \in Rem!Node : Len(rp_wire'[y]) <= QueueCapacity
      /\ rp_lost' \in BOOLEAN /\ rp_lost' = rp_lost /\ Rem!Next1(n) \in Rem!Message
      /\ \A z \in Rem!Node, y \in OfMonitors : Has(rp_wire'[z], y) <=> Has(rp_wire[z], y)
  BY <1>1, RemoteTakesLinkOK
<1>3. target \in Rem!Process
  BY <1>1, <1>2, RemoteMessageOK, RemoteNodesOK
<1>4. /\ rp_status' \in [Rem!Process -> {"alive", "marked", "terminated", "notified", "gone"}]
      /\ \A p \in Rem!Process : rp_status'[p] \in {"notified", "gone"} <=> rp_status[p] \in {"notified", "gone"}
  BY <1>1, <1>3, RemotePlainOK
<1>5. Rem!TypeOK'
  BY <1>1, <1>2, <1>4 DEF RemoteInv, Rem!TypeOK, Rem!netVars, Rem!monitorVars
<1>6. LinkCalls' /\ IsFiniteSet(rp_links')
  BY <1>1, FS_Subset DEF RemoteInv, LinkCalls
<1>7. QED BY <1>1, <1>2, <1>4, <1>5, <1>6, RemoteOthersOK DEF Rem!netVars, Rem!monitorVars

LEMMA RemoteCallsOK ==
    ASSUME RemoteInv, NEW p \in Rem!Process, rp_call[p] # Rem!NoCall, rp_call[p][1] \in {"track_monitor", "send_monitor"}
    PROVE  /\ rp_call[p][2] \in Rem!Monitor /\ rp_call[p] = <<rp_call[p][1], rp_call[p][2]>> /\ Across(rp_call[p][2])
           /\ rp_call[p][2].by = p /\ rp_budget.monitors < rp_call[p][2].ref
<1>1. rp_call[p] \in ({"track_monitor", "send_monitor"} \X Rem!Monitor) \cup ({"track_link", "send_link"} \X Rem!Process)
  BY RemoteTypesOK
<1>2. rp_call[p] \in {"track_monitor", "send_monitor"} \X Rem!Monitor
  BY <1>1
<1>3. QED BY <1>2 DEF RemoteInv, MessagesOwn, Taken

LEMMA RemoteMonitorsOK ==
    RemoteInv => \A m \in rp_outgoing \cup rp_trackedOut \cup rp_incoming \cup rp_trackedIn :
        /\ m \in Rem!Monitor /\ m.by \in Rem!Process /\ m.of \in Rem!Process /\ m.ref \in Nat
        /\ Rem!Home(m.by) \in Rem!Node /\ Rem!Home(m.of) \in Rem!Node
  BY RemoteNodesOK DEF RemoteInv, Rem!TypeOK, Rem!Monitor

LEMMA RemoteMonitorProcessOK == ASSUME RemoteInv, NEW p \in Rem!Process, NEW q \in Rem!Remote(p), Rem!MonitorProcess(p, q) PROVE RemoteInv'
<1>0. PICK m : m = [by |-> p, of |-> q, ref |-> rp_budget.monitors]
  OBVIOUS
<1>1. /\ rp_call[p] = Rem!NoCall /\ Rem!Spend("monitors")
      /\ rp_outgoing' = rp_outgoing \cup {m} /\ rp_call' = [rp_call EXCEPT ![p] = <<"track_monitor", m>>]
      /\ UNCHANGED <<Rem!netVars, Rem!wireVars, rp_handling, rp_incoming, rp_trackedOut, rp_trackedIn, Rem!linkVars, Rem!procVars>>
  BY <1>0 DEF Rem!MonitorProcess, Rem!Idle, Rem!Goes
<1>2. q \in Rem!Process /\ Rem!Home(q) = Rem!Peer(Rem!Home(p))
  BY RemoteNodesOK
<1>3. /\ rp_budget' \in [monitors : Nat, links : Nat, losses : Nat, exits : Nat]
      /\ rp_budget'.monitors < rp_budget.monitors /\ rp_budget.monitors \in Nat /\ rp_budget'.monitors \in Nat
  BY <1>1, RemoteSpendOK, RemoteTypesOK
<1>4. m \in Rem!Monitor /\ m.by = p /\ m.of = q /\ m.ref = rp_budget.monitors /\ Across(m)
  BY <1>0, <1>2, <1>3 DEF Rem!Monitor, Across
<1>5. /\ rp_call' \in [Rem!Process -> {Rem!NoCall} \cup ({"track_monitor", "send_monitor"} \X Rem!Monitor)
                             \cup ({"track_link", "send_link"} \X Rem!Process)]
      /\ rp_call'[p] = <<"track_monitor", m>> /\ \A x \in Rem!Process \ {p} : rp_call'[x] = rp_call[x]
  BY <1>1, <1>4, RemoteTypesOK
<1>6. Rem!TypeOK'
  BY <1>1, <1>3, <1>4, <1>5 DEF RemoteInv, Rem!TypeOK, Rem!netVars, Rem!wireVars, Rem!linkVars, Rem!procVars
<1>7. LinkCalls' /\ IsFiniteSet(rp_incoming') /\ IsFiniteSet(rp_links')
  BY <1>1, <1>5 DEF RemoteInv, LinkCalls, Rem!linkVars
<1>8. MessagesOwn'
  BY <1>1, <1>4, <1>5 DEF RemoteInv, MessagesOwn, Rem!wireVars, Across
<1>9. Tracked'
  <2> SUFFICES ASSUME NEW x \in rp_outgoing, x # m
               PROVE  (rp_call[x.by] = <<"track_monitor", x>>
                       \/ (x \in rp_trackedOut /\ (rp_up[Rem!Home(x.by)] \/ rp_cleaning[Rem!Home(x.by)] \/ rp_call[x.by] = <<"send_monitor", x>>)))'
    BY <1>1, <1>4, <1>5 DEF Tracked
  <2>1. CASE x.by = p
    BY <1>1, <2>1 DEF RemoteInv, Tracked, Rem!netVars, Rem!NoCall
  <2>2. CASE x.by # p
    <3>1. rp_call'[x.by] = rp_call[x.by]
      BY <1>5, <2>2, RemoteMonitorsOK
    <3>2. \/ rp_call[x.by] = <<"track_monitor", x>>
          \/ x \in rp_trackedOut /\ (rp_up[Rem!Home(x.by)] \/ rp_cleaning[Rem!Home(x.by)] \/ rp_call[x.by] = <<"send_monitor", x>>)
      BY DEF RemoteInv, Tracked
    <3>3. UNCHANGED <<rp_up, rp_cleaning>> /\ rp_trackedOut \subseteq rp_trackedOut'
      BY <1>1 DEF Rem!netVars
    <3>4. QED BY <3>1, <3>2, <3>3
  <2>3. QED BY <2>1, <2>2
<1>10. Taken'
  <2>1. \A x \in rp_trackedOut \cup rp_outgoing : rp_budget'.monitors < x.ref
    BY <1>3, RemoteMonitorsOK DEF RemoteInv, Taken
  <2>2. \A x \in Rem!Process : rp_call'[x] # Rem!NoCall /\ rp_call'[x][1] \in {"track_monitor", "send_monitor"} =>
           rp_budget'.monitors < rp_call'[x][2].ref
    <3> SUFFICES ASSUME NEW x \in Rem!Process \ {p}, rp_call[x] # Rem!NoCall, rp_call[x][1] \in {"track_monitor", "send_monitor"}
                 PROVE  rp_budget'.monitors < rp_call[x][2].ref
      BY <1>3, <1>4, <1>5
    <3>1. rp_call[x][2] \in Rem!Monitor /\ rp_budget.monitors < rp_call[x][2].ref
      BY RemoteCallsOK
    <3>2. QED BY <1>3, <3>1 DEF Rem!Monitor
  <2>3. \A n \in Rem!Node, x \in Rem!Monitor : Has(rp_wire'[n], <<"DemonitorProcess", x>>) =>
             x \notin rp_outgoing' /\ rp_budget'.monitors < x.ref
    <3> SUFFICES ASSUME NEW n \in Rem!Node, NEW x \in Rem!Monitor, Has(rp_wire[n], <<"DemonitorProcess", x>>)
                 PROVE  x \notin rp_outgoing' /\ rp_budget'.monitors < x.ref
      BY <1>1 DEF Rem!wireVars
    <3>1. x \notin rp_outgoing /\ rp_budget.monitors < x.ref /\ x.ref \in Nat
      BY DEF RemoteInv, Taken, Rem!Monitor
    <3>2. QED BY <1>1, <1>3, <1>4, <3>1
  <2>4. QED BY <1>1, <1>3, <1>4, <2>1, <2>2, <2>3 DEF Taken
<1>11. Followed'
  <2> SUFFICES ASSUME ~rp_lost PROVE Followed'
    BY <1>1 DEF Followed, Rem!wireVars
  <2>1. ASSUME NEW x \in rp_outgoing PROVE Answered(x)'
    <3>1. Answered(x)
      BY DEF RemoteInv, Followed
    <3>2. CASE x.by = p
      BY <1>1, <3>1, <3>2 DEF Answered, Rem!NoCall, Rem!wireVars, Rem!procVars
    <3>3. CASE x.by # p
      BY <1>1, <1>5, <3>1, <3>3, RemoteMonitorsOK DEF Answered, Rem!wireVars, Rem!procVars
    <3>4. QED BY <3>2, <3>3
  <2>2. Answered(m)'
    <3>1. rp_call'[m.by] = <<"track_monitor", m>>
      BY <1>4, <1>5
    <3>2. QED BY <3>1 DEF Answered
  <2>3. \A x \in rp_outgoing' : Answered(x)'
    BY <1>1, <2>1, <2>2
  <2>4. /\ \A n \in Rem!Node : rp_up'[n] /\ ~rp_cleaning'[n]
        /\ \A n \in Rem!Node, x \in Rem!Monitor : rp_handling'[n] = <<"MonitorProcess", x>> =>
               x \in rp_incoming' \/ rp_status'[x.of] \in {"notified", "gone"}
    BY <1>1 DEF RemoteInv, Followed, Rem!netVars, Rem!procVars
  <2>5. QED BY <2>3, <2>4 DEF Followed
<1>12. QED BY <1>6, <1>7, <1>8, <1>9, <1>10, <1>11 DEF RemoteInv

LEMMA RemoteTrackMonitorOK == ASSUME RemoteInv, NEW p \in Rem!Process, Rem!TrackMonitor(p) PROVE RemoteInv'
<1> DEFINE m == rp_call[p][2]
<1>1. /\ rp_call[p] # Rem!NoCall /\ rp_call[p][1] = "track_monitor" /\ rp_trackedOut' = rp_trackedOut \cup {m}
      /\ rp_call' = [rp_call EXCEPT ![p] = <<"send_monitor", m>>]
      /\ UNCHANGED <<rp_budget, Rem!netVars, Rem!wireVars, rp_handling, rp_outgoing, rp_incoming, rp_trackedIn, Rem!linkVars, Rem!procVars>>
  BY DEF Rem!TrackMonitor, Rem!Goes
<1>2. m \in Rem!Monitor /\ rp_call[p] = <<"track_monitor", m>> /\ Across(m) /\ m.by = p /\ rp_budget.monitors < m.ref
  BY <1>1, RemoteCallsOK
<1> HIDE DEF m
<1>3. /\ rp_call' \in [Rem!Process -> {Rem!NoCall} \cup ({"track_monitor", "send_monitor"} \X Rem!Monitor)
                             \cup ({"track_link", "send_link"} \X Rem!Process)]
      /\ rp_call'[p] = <<"send_monitor", m>> /\ \A x \in Rem!Process \ {p} : rp_call'[x] = rp_call[x]
  BY <1>1, <1>2, RemoteTypesOK
<1>4. Rem!TypeOK'
  BY <1>1, <1>2, <1>3 DEF RemoteInv, Rem!TypeOK, Rem!netVars, Rem!wireVars, Rem!linkVars, Rem!procVars
<1>5. LinkCalls' /\ IsFiniteSet(rp_incoming') /\ IsFiniteSet(rp_links')
  BY <1>1, <1>3 DEF RemoteInv, LinkCalls, Rem!linkVars
<1>6. MessagesOwn'
  BY <1>1, <1>2, <1>3 DEF RemoteInv, MessagesOwn, Rem!wireVars, Across
<1>7. Tracked'
  <2> SUFFICES ASSUME NEW x \in rp_outgoing
               PROVE  (rp_call[x.by] = <<"track_monitor", x>>
                       \/ (x \in rp_trackedOut /\ (rp_up[Rem!Home(x.by)] \/ rp_cleaning[Rem!Home(x.by)] \/ rp_call[x.by] = <<"send_monitor", x>>)))'
    BY <1>1 DEF Tracked
  <2>1. CASE x.by = p
    BY <1>1, <1>2, <1>3, <2>1 DEF RemoteInv, Tracked, Rem!netVars
  <2>2. CASE x.by # p
    <3>1. rp_call'[x.by] = rp_call[x.by]
      BY <1>3, <2>2, RemoteMonitorsOK
    <3>2. \/ rp_call[x.by] = <<"track_monitor", x>>
          \/ x \in rp_trackedOut /\ (rp_up[Rem!Home(x.by)] \/ rp_cleaning[Rem!Home(x.by)] \/ rp_call[x.by] = <<"send_monitor", x>>)
      BY DEF RemoteInv, Tracked
    <3>3. UNCHANGED <<rp_up, rp_cleaning>> /\ rp_trackedOut \subseteq rp_trackedOut'
      BY <1>1 DEF Rem!netVars
    <3>4. QED BY <3>1, <3>2, <3>3
  <2>3. QED BY <2>1, <2>2
<1>8. Taken'
  BY <1>1, <1>2, <1>3 DEF RemoteInv, Taken, Rem!wireVars
<1>9. Followed'
  <2> SUFFICES ASSUME ~rp_lost PROVE Followed'
    BY <1>1 DEF Followed, Rem!wireVars
  <2>1. ASSUME NEW x \in rp_outgoing PROVE Answered(x)'
    <3>1. Answered(x)
      BY DEF RemoteInv, Followed
    <3>2. CASE x.by = p
      BY <1>1, <1>2, <1>3, <3>1, <3>2 DEF Answered, Rem!wireVars, Rem!procVars
    <3>3. CASE x.by # p
      BY <1>1, <1>3, <3>1, <3>3, RemoteMonitorsOK DEF Answered, Rem!wireVars, Rem!procVars
    <3>4. QED BY <3>2, <3>3
  <2>2. QED BY <1>1, <2>1 DEF RemoteInv, Followed, Rem!netVars, Rem!procVars, Rem!wireVars
<1>10. QED BY <1>4, <1>5, <1>6, <1>7, <1>8, <1>9 DEF RemoteInv

LEMMA RemoteSendMonitorOK == ASSUME RemoteInv, NEW p \in Rem!Process, Rem!SendMonitor(p) PROVE RemoteInv'
<1> DEFINE m == rp_call[p][2]  h == Rem!Home(p)  ms == <<<<"MonitorProcess", m>>>>
<1>1. /\ rp_call[p] # Rem!NoCall /\ rp_call[p][1] = "send_monitor" /\ Rem!Sends(h, ms)
      /\ rp_outgoing' = IF rp_up[h] THEN rp_outgoing ELSE rp_outgoing \ {m}
      /\ rp_call' = [rp_call EXCEPT ![p] = Rem!NoCall]
      /\ UNCHANGED <<rp_budget, Rem!netVars, rp_handling, rp_incoming, rp_trackedOut, rp_trackedIn, Rem!linkVars, Rem!procVars>>
  BY DEF Rem!SendMonitor, Rem!Goes
<1>2. m \in Rem!Monitor /\ rp_call[p] = <<"send_monitor", m>> /\ Across(m) /\ m.by = p /\ rp_budget.monitors < m.ref
  BY <1>1, RemoteCallsOK
<1>3. h \in Rem!Node
  BY RemoteNodesOK
<1>4. ms \in Seq(Rem!Message) /\ \A y : Has(ms, y) <=> y = <<"MonitorProcess", m>>
  <2>1. <<"MonitorProcess", m>> \in Rem!Message
    BY <1>2 DEF Rem!Message
  <2>2. QED BY <2>1, RemoteOneOK
<1> HIDE DEF m, h, ms
<1>5. /\ rp_wire' \in [Rem!Node -> Seq(Rem!Message)] /\ \A x \in Rem!Node : Len(rp_wire'[x]) <= QueueCapacity
      /\ rp_lost' \in BOOLEAN /\ (rp_lost => rp_lost')
      /\ \A x \in Rem!Node : \A y : Has(rp_wire[x], y) => Has(rp_wire'[x], y)
      /\ \A x \in Rem!Node : \A y : Has(rp_wire'[x], y) => Has(rp_wire[x], y) \/ (x = h /\ y = <<"MonitorProcess", m>>)
      /\ ~rp_lost' => Has(rp_wire'[h], <<"MonitorProcess", m>>)
  BY <1>1, <1>3, <1>4, RemoteSendsOK
<1>6. /\ rp_call' \in [Rem!Process -> {Rem!NoCall} \cup ({"track_monitor", "send_monitor"} \X Rem!Monitor)
                             \cup ({"track_link", "send_link"} \X Rem!Process)]
      /\ rp_call'[p] = Rem!NoCall /\ \A x \in Rem!Process \ {p} : rp_call'[x] = rp_call[x]
  BY <1>1, <1>2, RemoteTypesOK
<1>7. Rem!TypeOK'
  BY <1>1, <1>2, <1>5, <1>6 DEF RemoteInv, Rem!TypeOK, Rem!netVars, Rem!linkVars, Rem!procVars
<1>8. LinkCalls' /\ IsFiniteSet(rp_incoming') /\ IsFiniteSet(rp_links')
  BY <1>1, <1>6 DEF RemoteInv, LinkCalls, Rem!linkVars
<1>9. MessagesOwn'
  <2>1. rp_outgoing' \cup rp_trackedOut' \subseteq rp_outgoing \cup rp_trackedOut
    BY <1>1
  <2>2. \A n \in Rem!Node, x \in Rem!Monitor :
           /\ Has(rp_wire'[n], <<"MonitorProcess", x>>) => Across(x) /\ Rem!Home(x.by) = n
           /\ Has(rp_wire'[n], <<"DemonitorProcess", x>>) => Across(x) /\ Rem!Home(x.by) = n
    BY <1>2, <1>5 DEF RemoteInv, MessagesOwn, h
  <2>3. QED BY <1>1, <1>6, <2>1, <2>2 DEF RemoteInv, MessagesOwn, Across
<1>10. Tracked'
  <2> SUFFICES ASSUME NEW x \in rp_outgoing'
               PROVE  (rp_call[x.by] = <<"track_monitor", x>>
                       \/ (x \in rp_trackedOut /\ (rp_up[Rem!Home(x.by)] \/ rp_cleaning[Rem!Home(x.by)] \/ rp_call[x.by] = <<"send_monitor", x>>)))'
    BY DEF Tracked
  <2>0. x \in rp_outgoing /\ (x = m => rp_up[h])
    BY <1>1
  <2>1. CASE x.by = p
    BY <1>1, <1>2, <2>0, <2>1 DEF RemoteInv, Tracked, Rem!netVars, h
  <2>2. CASE x.by # p
    <3>1. rp_call'[x.by] = rp_call[x.by]
      BY <1>6, <2>0, <2>2, RemoteMonitorsOK
    <3>2. \/ rp_call[x.by] = <<"track_monitor", x>>
          \/ x \in rp_trackedOut /\ (rp_up[Rem!Home(x.by)] \/ rp_cleaning[Rem!Home(x.by)] \/ rp_call[x.by] = <<"send_monitor", x>>)
      BY <2>0 DEF RemoteInv, Tracked
    <3>3. UNCHANGED <<rp_up, rp_cleaning>> /\ rp_trackedOut \subseteq rp_trackedOut'
      BY <1>1 DEF Rem!netVars
    <3>4. QED BY <3>1, <3>2, <3>3
  <2>3. QED BY <2>1, <2>2
<1>11. Taken'
  <2>1. \A n \in Rem!Node, x \in Rem!Monitor : Has(rp_wire'[n], <<"DemonitorProcess", x>>) => Has(rp_wire[n], <<"DemonitorProcess", x>>)
    BY <1>5
  <2>2. rp_outgoing' \subseteq rp_outgoing
    BY <1>1
  <2>3. QED BY <1>1, <1>6, <2>1, <2>2 DEF RemoteInv, Taken
<1>12. Followed'
  <2> SUFFICES ASSUME ~rp_lost, ~rp_lost' PROVE Followed'
    BY <1>5 DEF Followed
  <2>1. ASSUME NEW x \in rp_outgoing PROVE Answered(x)'
    <3>1. Answered(x)
      BY DEF RemoteInv, Followed
    <3>2. CASE x = m
      BY <1>2, <1>5, <3>2 DEF Answered, h
    <3>3. CASE x.by = p /\ x # m
      <4>1. rp_call[x.by] # <<"track_monitor", x>> /\ rp_call[x.by] # <<"send_monitor", x>>
        BY <1>2, <3>3
      <4>2. Rem!Home(x.by) \in Rem!Node /\ Rem!Home(x.of) \in Rem!Node
        BY RemoteMonitorsOK
      <4>3. QED BY <1>1, <1>5, <3>1, <4>1, <4>2 DEF Answered, Rem!procVars
    <3>4. CASE x.by # p
      BY <1>1, <1>5, <1>6, <3>1, <3>4, RemoteMonitorsOK DEF Answered, Rem!procVars
    <3>5. QED BY <3>2, <3>3, <3>4
  <2>2. rp_outgoing' \subseteq rp_outgoing
    BY <1>1
  <2>3. QED BY <1>1, <2>1, <2>2 DEF RemoteInv, Followed, Rem!netVars, Rem!procVars
<1>13. QED BY <1>7, <1>8, <1>9, <1>10, <1>11, <1>12 DEF RemoteInv

LEMMA RemoteDemonitorProcessOK ==
    ASSUME RemoteInv, NEW p \in Rem!Process, NEW m \in rp_trackedOut, Rem!DemonitorProcess(p, m) PROVE RemoteInv'
<1> DEFINE h == Rem!Home(p)  ms == <<<<"DemonitorProcess", m>>>>
<1>1. /\ rp_call[p] = Rem!NoCall /\ m.by = p /\ rp_outgoing' = rp_outgoing \ {m} /\ Rem!Sends(h, ms)
      /\ UNCHANGED <<rp_budget, Rem!netVars, rp_handling, rp_call, rp_incoming, rp_trackedOut, rp_trackedIn, Rem!linkVars, Rem!procVars>>
  BY DEF Rem!DemonitorProcess, Rem!Idle
<1>2. m \in Rem!Monitor /\ Across(m) /\ rp_budget.monitors < m.ref
  BY RemoteMonitorsOK DEF RemoteInv, MessagesOwn, Taken
<1>3. h \in Rem!Node
  BY RemoteNodesOK
<1>4. ms \in Seq(Rem!Message) /\ \A y : Has(ms, y) <=> y = <<"DemonitorProcess", m>>
  <2>1. <<"DemonitorProcess", m>> \in Rem!Message
    BY <1>2 DEF Rem!Message
  <2>2. QED BY <2>1, RemoteOneOK
<1> HIDE DEF h, ms
<1>5. /\ rp_wire' \in [Rem!Node -> Seq(Rem!Message)] /\ \A x \in Rem!Node : Len(rp_wire'[x]) <= QueueCapacity
      /\ rp_lost' \in BOOLEAN /\ (rp_lost => rp_lost')
      /\ \A x \in Rem!Node : \A y : Has(rp_wire[x], y) => Has(rp_wire'[x], y)
      /\ \A x \in Rem!Node : \A y : Has(rp_wire'[x], y) => Has(rp_wire[x], y) \/ (x = h /\ y = <<"DemonitorProcess", m>>)
  BY <1>1, <1>3, <1>4, RemoteSendsOK
<1>7. Rem!TypeOK'
  BY <1>1, <1>5 DEF RemoteInv, Rem!TypeOK, Rem!netVars, Rem!linkVars, Rem!procVars
<1>8. LinkCalls' /\ IsFiniteSet(rp_incoming') /\ IsFiniteSet(rp_links')
  BY <1>1 DEF RemoteInv, LinkCalls, Rem!linkVars
<1>9. MessagesOwn'
  <2>2. \A n \in Rem!Node, x \in Rem!Monitor :
           /\ Has(rp_wire'[n], <<"MonitorProcess", x>>) => Across(x) /\ Rem!Home(x.by) = n
           /\ Has(rp_wire'[n], <<"DemonitorProcess", x>>) => Across(x) /\ Rem!Home(x.by) = n
    BY <1>1, <1>2, <1>5 DEF RemoteInv, MessagesOwn, h
  <2>3. QED BY <1>1, <2>2 DEF RemoteInv, MessagesOwn, Across
<1>10. Tracked'
  BY <1>1 DEF RemoteInv, Tracked, Rem!netVars
<1>11. Taken'
  <2>1. \A n \in Rem!Node, x \in Rem!Monitor : Has(rp_wire'[n], <<"DemonitorProcess", x>>) =>
             x \notin rp_outgoing' /\ rp_budget.monitors < x.ref
    BY <1>1, <1>2, <1>5 DEF RemoteInv, Taken
  <2>3. QED BY <1>1, <2>1 DEF RemoteInv, Taken
<1>12. Followed'
  <2> SUFFICES ASSUME ~rp_lost PROVE Followed'
    BY <1>5 DEF Followed
  <2>1. ASSUME NEW x \in rp_outgoing PROVE Answered(x)'
    <3>1. Answered(x)
      BY DEF RemoteInv, Followed
    <3>2. QED BY <1>1, <1>5, <3>1, RemoteMonitorsOK DEF Answered, Rem!procVars
  <2>2. rp_outgoing' \subseteq rp_outgoing
    BY <1>1
  <2>3. QED BY <1>1, <2>1, <2>2 DEF RemoteInv, Followed, Rem!netVars, Rem!procVars
<1>13. QED BY <1>7, <1>8, <1>9, <1>10, <1>11, <1>12 DEF RemoteInv

LEMMA RemoteOrdersOK ==
    ASSUME NEW S, IsFiniteSet(S), NEW s \in Rem!Orders(S)
    PROVE  /\ Cardinality(S) \in Nat /\ DOMAIN s = 1 .. Cardinality(S)
           /\ \A i \in DOMAIN s : s[i] \in S
           /\ \A x \in S : \E i \in DOMAIN s : s[i] = x
<1>1. Rem!Cardinality(S) = Cardinality(S)
  BY DEF Rem!Cardinality, Cardinality
<1>2. QED BY <1>1, FS_CardinalityType DEF Rem!Orders

LEMMA RemoteListOK ==
    ASSUME NEW T, NEW t \in Seq(T), NEW k \in Nat, DOMAIN t = 1 .. k
    PROVE  Len(t) = k /\ \A y : Has(t, y) <=> \E i \in 1 .. k : t[i] = y
<1>1. Len(t) \in Nat /\ 1 .. Len(t) = 1 .. k
  BY LenProperties
<1>2. Len(t) = k
  BY <1>1
<1>3. QED BY <1>1, <1>2 DEF Has

LEMMA RemoteNotifyProcessDownOK == ASSUME RemoteInv, NEW p \in Rem!Process, Rem!NotifyProcessDown(p) PROVE RemoteInv'
<1> DEFINE M == {m \in rp_incoming : m.of = p}  L == {l \in rp_links : l[1] = p}  h == Rem!Home(p)
<1>1. /\ rp_status[p] = "terminated" /\ rp_status' = [rp_status EXCEPT ![p] = "notified"]
      /\ rp_incoming' = {m \in rp_incoming : m.of # p} /\ rp_outgoing' = {m \in rp_outgoing : m.by # p}
      /\ rp_links' = {l \in rp_links : l[1] # p}
      /\ UNCHANGED <<rp_budget, Rem!netVars, rp_handling, rp_call, rp_trackedOut, rp_trackedIn, rp_trackedLinks,
                     rp_why, rp_trapping, rp_downs>>
  BY DEF Rem!NotifyProcessDown
<1>2. PICK ms \in Rem!Orders(M), ls \in Rem!Orders(L) :
          Rem!Sends(h, [i \in DOMAIN ms |-> <<"ProcessDown", ms[i], rp_why[p]>>]
                   \o [i \in DOMAIN ls |-> <<"Exit", ls[i], rp_why[p]>>])
  BY DEF Rem!NotifyProcessDown
<1> DEFINE f == [i \in DOMAIN ms |-> <<"ProcessDown", ms[i], rp_why[p]>>]
           g == [i \in DOMAIN ls |-> <<"Exit", ls[i], rp_why[p]>>]
<1>3. IsFiniteSet(M) /\ IsFiniteSet(L) /\ M \subseteq Rem!Monitor /\ L \subseteq Rem!Pair /\ rp_why[p] \in Rem!Reason
      /\ M \subseteq rp_incoming
  BY FS_Subset DEF RemoteInv, Rem!TypeOK, Rem!Reason
<1>4. /\ Cardinality(M) \in Nat /\ DOMAIN ms = 1 .. Cardinality(M)
      /\ \A i \in DOMAIN ms : ms[i] \in M
      /\ \A x \in M : \E i \in DOMAIN ms : ms[i] = x
  <2> HIDE DEF M
  <2>1. QED BY <1>3, RemoteOrdersOK
<1>5. /\ Cardinality(L) \in Nat /\ DOMAIN ls = 1 .. Cardinality(L)
      /\ \A i \in DOMAIN ls : ls[i] \in L
  <2> HIDE DEF L
  <2>1. QED BY <1>3, RemoteOrdersOK
<1>6. f \in Seq(Rem!Message) /\ \A y : Has(f, y) <=> \E m \in M : y = <<"ProcessDown", m, rp_why[p]>>
  <2>1. f \in [1 .. Cardinality(M) -> Rem!Message]
    <3>1. \A i \in DOMAIN ms : ms[i] \in Rem!Monitor
      BY <1>3, <1>4
    <3> HIDE DEF M
    <3>2. QED BY <1>3, <1>4, <3>1 DEF Rem!Message
  <2>2. f \in Seq(Rem!Message) /\ \A y : Has(f, y) <=> \E i \in 1 .. Cardinality(M) : f[i] = y
    <3> HIDE DEF f, M
    <3>1. f \in Seq(Rem!Message) /\ DOMAIN f = 1 .. Cardinality(M)
      BY <1>4, <2>1, SeqDef
    <3>2. QED BY <1>4, <3>1, RemoteListOK
  <2>3. \A y : (\E i \in 1 .. Cardinality(M) : f[i] = y) <=> \E m \in M : y = <<"ProcessDown", m, rp_why[p]>>
    <3> HIDE DEF M
    <3>1. QED BY <1>4
  <2> HIDE DEF f, M
  <2>4. QED BY <2>2, <2>3
<1>7. g \in Seq(Rem!Message) /\ \A y : Has(g, y) => y[1] = "Exit"
  <2>1. g \in [1 .. Cardinality(L) -> Rem!Message]
    <3>1. \A i \in DOMAIN ls : ls[i] \in Rem!Pair
      BY <1>3, <1>5
    <3> HIDE DEF L
    <3>2. QED BY <1>3, <1>5, <3>1 DEF Rem!Message
  <2>2. g \in Seq(Rem!Message) /\ \A y : Has(g, y) <=> \E i \in 1 .. Cardinality(L) : g[i] = y
    <3> HIDE DEF g, L
    <3>1. g \in Seq(Rem!Message) /\ DOMAIN g = 1 .. Cardinality(L)
      BY <1>5, <2>1, SeqDef
    <3>2. QED BY <1>5, <3>1, RemoteListOK
  <2>3. \A i \in 1 .. Cardinality(L) : g[i][1] = "Exit"
    <3> HIDE DEF L
    <3>1. QED BY <1>5
  <2> HIDE DEF g, L
  <2>4. QED BY <2>2, <2>3
<1> DEFINE q == f \o g
<1>8. q \in Seq(Rem!Message) /\ \A y : Has(q, y) <=> Has(f, y) \/ Has(g, y)
  <2> HIDE DEF f, g
  <2>1. QED BY <1>6, <1>7, RemoteConcatOK
<1>9. \A y : Has(q, y) => y[1] \in {"ProcessDown", "Exit"}
  BY <1>6, <1>7, <1>8
<1>10. \A m \in M : Has(q, <<"ProcessDown", m, rp_why[p]>>)
  <2> HIDE DEF f, g, M, q
  <2>1. QED BY <1>6, <1>8
<1>11. h \in Rem!Node /\ Rem!Sends(h, q)
  BY <1>2, RemoteNodesOK
<1> HIDE DEF f, g, q, h, M, L
<1>12. /\ rp_wire' \in [Rem!Node -> Seq(Rem!Message)] /\ \A x \in Rem!Node : Len(rp_wire'[x]) <= QueueCapacity
       /\ rp_lost' \in BOOLEAN /\ (rp_lost => rp_lost')
       /\ \A x \in Rem!Node : \A y : Has(rp_wire[x], y) => Has(rp_wire'[x], y)
       /\ \A x \in Rem!Node : \A y : Has(rp_wire'[x], y) => Has(rp_wire[x], y) \/ (x = h /\ Has(q, y))
       /\ ~rp_lost' => \A y : Has(q, y) => Has(rp_wire'[h], y)
  BY <1>8, <1>11, RemoteSendsOK
<1>13. \A n \in Rem!Node, m \in Rem!Monitor :
           /\ Has(rp_wire'[n], <<"MonitorProcess", m>>) => Has(rp_wire[n], <<"MonitorProcess", m>>)
           /\ Has(rp_wire'[n], <<"DemonitorProcess", m>>) => Has(rp_wire[n], <<"DemonitorProcess", m>>)
  <2>1. \A m : ~Has(q, <<"MonitorProcess", m>>) /\ ~Has(q, <<"DemonitorProcess", m>>)
    BY <1>9
  <2>2. QED BY <1>12, <2>1
<1>14. /\ rp_status' \in [Rem!Process -> {"alive", "marked", "terminated", "notified", "gone"}]
       /\ rp_status'[p] = "notified" /\ \A x \in Rem!Process \ {p} : rp_status'[x] = rp_status[x]
  BY <1>1, RemoteTypesOK
<1>15. Rem!TypeOK'
  BY <1>1, <1>12, <1>14 DEF RemoteInv, Rem!TypeOK, Rem!netVars
<1>16. /\ rp_incoming' \subseteq rp_incoming /\ rp_outgoing' \subseteq rp_outgoing /\ rp_links' \subseteq rp_links
  BY <1>1
<1>17. LinkCalls' /\ IsFiniteSet(rp_incoming') /\ IsFiniteSet(rp_links')
  BY <1>1, <1>16, FS_Subset DEF RemoteInv, LinkCalls
<1>18. MessagesOwn'
  BY <1>1, <1>13, <1>16 DEF RemoteInv, MessagesOwn, Across
<1>19. Tracked'
  BY <1>1, <1>16 DEF RemoteInv, Tracked, Rem!netVars
<1>20. Taken'
  BY <1>1, <1>13, <1>16 DEF RemoteInv, Taken
<1>21. Followed'
  <2> SUFFICES ASSUME ~rp_lost, ~rp_lost' PROVE Followed'
    BY <1>12 DEF Followed
  <2>1. ASSUME NEW x \in rp_outgoing PROVE Answered(x)'
    <3>1. Answered(x) /\ x \in Rem!Monitor /\ x.of \in Rem!Process /\ Rem!Home(x.by) \in Rem!Node /\ Rem!Home(x.of) \in Rem!Node
      BY RemoteMonitorsOK DEF RemoteInv, Followed
    <3>2. CASE x \in rp_incoming /\ x.of = p
      <4>1. Has(rp_wire'[Rem!Home(x.of)], <<"ProcessDown", x, rp_why[p]>>)
        BY <1>10, <1>12, <3>2 DEF M, h
      <4>2. QED BY <1>3, <4>1 DEF Answered
    <3>3. CASE x \in rp_incoming /\ x.of # p
      <4>1. x \in rp_incoming' /\ rp_status'[x.of] = rp_status[x.of]
        BY <1>1, <1>14, <3>1, <3>3
      <4>2. QED BY <1>1, <1>12, <3>1, <4>1 DEF Answered
    <3>4. CASE x \notin rp_incoming
      BY <1>1, <1>12, <3>1, <3>4 DEF Answered
    <3>5. QED BY <3>2, <3>3, <3>4
  <2>2. ASSUME NEW n \in Rem!Node, NEW m \in Rem!Monitor, rp_handling[n] = <<"MonitorProcess", m>>
        PROVE  m \in rp_incoming' \/ rp_status'[m.of] \in {"notified", "gone"}
    <3>1. m \in rp_incoming \/ rp_status[m.of] \in {"notified", "gone"}
      BY <2>2 DEF RemoteInv, Followed
    <3>2. m.of \in Rem!Process
      BY DEF Rem!Monitor
    <3>3. QED BY <1>1, <1>14, <3>1, <3>2
  <2>3. QED BY <1>1, <1>16, <2>1, <2>2 DEF RemoteInv, Followed, Rem!netVars
<1>22. QED BY <1>15, <1>17, <1>18, <1>19, <1>20, <1>21 DEF RemoteInv

(* The next message of the other node, taken, and what it leaves.               *)
LEMMA RemoteTakesMonitorOK ==
    ASSUME RemoteInv, NEW n \in Rem!Node, Rem!Receive(n), Rem!Takes(n),
           Rem!Next1(n)[1] \in {"MonitorProcess", "DemonitorProcess", "ProcessDown"}
    PROVE  /\ rp_wire' \in [Rem!Node -> Seq(Rem!Message)] /\ \A x \in Rem!Node : Len(rp_wire'[x]) <= QueueCapacity
           /\ rp_lost' = rp_lost /\ Rem!Peer(n) \in Rem!Node /\ Rem!Peer(n) # n /\ Rem!Peer(Rem!Peer(n)) = n
           /\ rp_handling[n] = <<>> /\ Rem!Next1(n)[2] \in Rem!Monitor
           /\ Rem!Next1(n)[1] # "ProcessDown" => Rem!Next1(n) = <<Rem!Next1(n)[1], Rem!Next1(n)[2]>> /\ Across(Rem!Next1(n)[2]) /\ Rem!Home(Rem!Next1(n)[2].of) = n
           /\ Has(rp_wire[Rem!Peer(n)], Rem!Next1(n))
           /\ \A x \in Rem!Node : \A y : Has(rp_wire'[x], y) => Has(rp_wire[x], y)
           /\ \A x \in Rem!Node : \A y : Has(rp_wire[x], y) => Has(rp_wire'[x], y) \/ (x = Rem!Peer(n) /\ y = Rem!Next1(n))
<1>1. rp_lost' = rp_lost /\ rp_wire' = [rp_wire EXCEPT ![Rem!Peer(n)] = Tail(@)] /\ rp_handling[n] = <<>>
  BY DEF Rem!Takes, Rem!Receive
<1>2. /\ rp_wire' \in [Rem!Node -> Seq(Rem!Message)] /\ \A x \in Rem!Node : Len(rp_wire'[x]) <= QueueCapacity
      /\ Rem!Next1(n) \in Rem!Message /\ Has(rp_wire[Rem!Peer(n)], Rem!Next1(n))
      /\ \A x \in Rem!Node : \A y : Has(rp_wire'[x], y) => Has(rp_wire[x], y)
      /\ \A x \in Rem!Node : \A y : Has(rp_wire[x], y) => Has(rp_wire'[x], y) \/ (x = Rem!Peer(n) /\ y = Rem!Next1(n))
  BY <1>1, RemoteTakesOK
<1>3. Rem!Peer(n) \in Rem!Node /\ Rem!Peer(n) # n /\ Rem!Peer(Rem!Peer(n)) = n
  BY RemoteNodesOK
<1>4. Rem!Next1(n)[2] \in Rem!Monitor /\ (Rem!Next1(n)[1] # "ProcessDown" => Rem!Next1(n) = <<Rem!Next1(n)[1], Rem!Next1(n)[2]>>)
  BY <1>2, RemoteMessageOK
<1>5. ASSUME Rem!Next1(n)[1] # "ProcessDown" PROVE Across(Rem!Next1(n)[2]) /\ Rem!Home(Rem!Next1(n)[2].of) = n
  <2>1. \/ Has(rp_wire[Rem!Peer(n)], <<"MonitorProcess", Rem!Next1(n)[2]>>)
        \/ Has(rp_wire[Rem!Peer(n)], <<"DemonitorProcess", Rem!Next1(n)[2]>>)
    BY <1>2, <1>4, <1>5
  <2>2. Across(Rem!Next1(n)[2]) /\ Rem!Home(Rem!Next1(n)[2].by) = Rem!Peer(n)
    BY <1>3, <1>4, <2>1 DEF RemoteInv, MessagesOwn
  <2>3. QED BY <1>3, <2>2 DEF Across
<1>6. QED BY <1>1, <1>2, <1>3, <1>4, <1>5

LEMMA RemoteHandleMonitorOK == ASSUME RemoteInv, NEW n \in Rem!Node, Rem!HandleMonitor(n) PROVE RemoteInv'
<1>0. PICK x, m : x = Rem!Next1(n) /\ m = x[2]
  OBVIOUS
<1>1. /\ Rem!Receive(n) /\ Rem!Takes(n) /\ x[1] = "MonitorProcess"
      /\ rp_incoming' = rp_incoming \cup {m} /\ rp_trackedIn' = rp_trackedIn \cup {m}
      /\ rp_handling' = [rp_handling EXCEPT ![n] = x]
      /\ UNCHANGED <<rp_budget, Rem!netVars, rp_call, rp_outgoing, rp_trackedOut, Rem!linkVars, Rem!procVars>>
  BY <1>0 DEF Rem!HandleMonitor
<1>2. /\ rp_wire' \in [Rem!Node -> Seq(Rem!Message)] /\ \A y \in Rem!Node : Len(rp_wire'[y]) <= QueueCapacity
      /\ rp_lost' = rp_lost /\ Rem!Peer(n) \in Rem!Node /\ Rem!Peer(n) # n /\ Rem!Peer(Rem!Peer(n)) = n
      /\ rp_handling[n] = <<>> /\ m \in Rem!Monitor
      /\ x = <<"MonitorProcess", m>> /\ Across(m) /\ Rem!Home(m.of) = n
      /\ \A y \in Rem!Node : \A z : Has(rp_wire'[y], z) => Has(rp_wire[y], z)
      /\ \A y \in Rem!Node : \A z : Has(rp_wire[y], z) => Has(rp_wire'[y], z) \/ (y = Rem!Peer(n) /\ z = x)
  BY <1>0, <1>1, RemoteTakesMonitorOK
<1>3. /\ rp_handling' \in [Rem!Node -> {<<>>} \cup ({"MonitorProcess"} \X Rem!Monitor) \cup ({"Link"} \X Rem!Pair)]
      /\ rp_handling'[n] = <<"MonitorProcess", m>> /\ \A z \in Rem!Node \ {n} : rp_handling'[z] = rp_handling[z]
  BY <1>1, <1>2, RemoteTypesOK
<1>4. Rem!TypeOK'
  BY <1>1, <1>2, <1>3 DEF RemoteInv, Rem!TypeOK, Rem!netVars, Rem!linkVars, Rem!procVars
<1>5. LinkCalls' /\ IsFiniteSet(rp_incoming') /\ IsFiniteSet(rp_links')
  BY <1>1, FS_AddElement DEF RemoteInv, LinkCalls, Rem!linkVars
<1>6. MessagesOwn'
  BY <1>1, <1>2, <1>3 DEF RemoteInv, MessagesOwn, Across
<1>7. Tracked'
  BY <1>1 DEF RemoteInv, Tracked, Rem!netVars
<1>8. Taken'
  BY <1>1, <1>2 DEF RemoteInv, Taken
<1>9. Followed'
  <2> SUFFICES ASSUME ~rp_lost PROVE Followed'
    BY <1>2 DEF Followed
  <2>1. ASSUME NEW y \in rp_outgoing PROVE Answered(y)'
    <3>1. Answered(y) /\ Rem!Home(y.by) \in Rem!Node /\ Rem!Home(y.of) \in Rem!Node
      BY RemoteMonitorsOK DEF RemoteInv, Followed
    <3>2. CASE y = m
      BY <1>2, <1>3, <3>2 DEF Answered
    <3>3. CASE y # m
      <4>1. /\ Has(rp_wire[Rem!Home(y.by)], <<"MonitorProcess", y>>) => Has(rp_wire'[Rem!Home(y.by)], <<"MonitorProcess", y>>)
            /\ \A r : Has(rp_wire[Rem!Home(y.of)], <<"ProcessDown", y, r>>) => Has(rp_wire'[Rem!Home(y.of)], <<"ProcessDown", y, r>>)
        BY <1>2, <3>1, <3>3
      <4>2. rp_handling[Rem!Home(y.of)] = <<"MonitorProcess", y>> => rp_handling'[Rem!Home(y.of)] = <<"MonitorProcess", y>>
        <5>1. CASE Rem!Home(y.of) = n
          <6>1. rp_handling[Rem!Home(y.of)] = <<>>
            BY <1>2, <5>1
          <6>2. <<"MonitorProcess", y>> # <<>>
            OBVIOUS
          <6>3. QED BY <6>1, <6>2
        <5>2. CASE Rem!Home(y.of) # n
          BY <1>3, <3>1, <5>2
        <5>3. QED BY <5>1, <5>2
      <4>3. QED BY <1>1, <3>1, <4>1, <4>2 DEF Answered, Rem!procVars
    <3>4. QED BY <3>2, <3>3
  <2>2. ASSUME NEW k \in Rem!Node, NEW y \in Rem!Monitor, rp_handling'[k] = <<"MonitorProcess", y>>
        PROVE  y \in rp_incoming' \/ rp_status'[y.of] \in {"notified", "gone"}
    BY <1>1, <1>3, <2>2 DEF RemoteInv, Followed, Rem!procVars
  <2>3. QED BY <1>1, <2>1, <2>2 DEF RemoteInv, Followed, Rem!netVars
<1>10. QED BY <1>4, <1>5, <1>6, <1>7, <1>8, <1>9 DEF RemoteInv

LEMMA RemoteHandleMonitorChecksOK == ASSUME RemoteInv, NEW n \in Rem!Node, Rem!HandleMonitorChecks(n) PROVE RemoteInv'
<1>0. PICK m : m = rp_handling[n][2]
  OBVIOUS
<1> DEFINE ms == <<<<"ProcessDown", m, "noproc">>>>
<1>1. /\ rp_handling[n] # <<>> /\ rp_handling[n][1] = "MonitorProcess"
      /\ rp_handling' = [rp_handling EXCEPT ![n] = <<>>]
      /\ \/ Rem!Alive(m.of) /\ UNCHANGED <<Rem!wireVars, rp_incoming>>
         \/ ~Rem!Alive(m.of) /\ Rem!Sends(n, ms) /\ rp_incoming' = rp_incoming \ {m}
      /\ UNCHANGED <<rp_budget, Rem!netVars, rp_call, rp_outgoing, rp_trackedOut, rp_trackedIn, Rem!linkVars, Rem!procVars>>
  BY <1>0 DEF Rem!HandleMonitorChecks
<1>2. m \in Rem!Monitor /\ rp_handling[n] = <<"MonitorProcess", m>> /\ Across(m) /\ Rem!Home(m.of) = n
  <2>1. rp_handling[n] \in ({"MonitorProcess"} \X Rem!Monitor) \cup ({"Link"} \X Rem!Pair)
    BY <1>1, RemoteTypesOK
  <2>2. m \in Rem!Monitor /\ rp_handling[n] = <<"MonitorProcess", m>>
    BY <1>0, <1>1, <2>1
  <2>3. QED BY <2>2 DEF RemoteInv, MessagesOwn
<1>3. ms \in Seq(Rem!Message) /\ \A y : Has(ms, y) <=> y = <<"ProcessDown", m, "noproc">>
  <2>1. <<"ProcessDown", m, "noproc">> \in Rem!Message
    BY <1>2 DEF Rem!Message, Rem!Reason
  <2>2. QED BY <2>1, RemoteOneOK
<1> HIDE DEF ms
<1>4. /\ rp_wire' \in [Rem!Node -> Seq(Rem!Message)] /\ \A x \in Rem!Node : Len(rp_wire'[x]) <= QueueCapacity
      /\ rp_lost' \in BOOLEAN /\ (rp_lost => rp_lost')
      /\ \A x \in Rem!Node : \A y : Has(rp_wire[x], y) => Has(rp_wire'[x], y)
      /\ \A x \in Rem!Node : \A y : Has(rp_wire'[x], y) => Has(rp_wire[x], y) \/ (x = n /\ y = <<"ProcessDown", m, "noproc">>)
      /\ ~rp_lost' => Has(rp_wire'[n], <<"ProcessDown", m, "noproc">>) \/ Rem!Alive(m.of)
  <2>1. CASE UNCHANGED <<Rem!wireVars, rp_incoming>> /\ Rem!Alive(m.of)
    BY <2>1, RemoteTypesOK DEF Rem!wireVars
  <2>2. CASE Rem!Sends(n, ms)
    <3>1. /\ rp_wire' \in [Rem!Node -> Seq(Rem!Message)] /\ \A x \in Rem!Node : Len(rp_wire'[x]) <= QueueCapacity
          /\ rp_lost' \in BOOLEAN /\ (rp_lost => rp_lost')
          /\ \A x \in Rem!Node : \A y : Has(rp_wire[x], y) => Has(rp_wire'[x], y)
          /\ \A x \in Rem!Node : \A y : Has(rp_wire'[x], y) => Has(rp_wire[x], y) \/ (x = n /\ Has(ms, y))
          /\ ~rp_lost' => \A y : Has(ms, y) => Has(rp_wire'[n], y)
      BY <1>3, <2>2, RemoteSendsOK
    <3>2. QED BY <1>3, <3>1
  <2>3. QED BY <1>1, <2>1, <2>2
<1>5. /\ rp_handling' \in [Rem!Node -> {<<>>} \cup ({"MonitorProcess"} \X Rem!Monitor) \cup ({"Link"} \X Rem!Pair)]
      /\ rp_handling'[n] = <<>> /\ \A z \in Rem!Node \ {n} : rp_handling'[z] = rp_handling[z]
  BY <1>1, RemoteTypesOK
<1>6. rp_incoming' \subseteq rp_incoming /\ rp_incoming \subseteq rp_incoming' \cup {m} /\ (Rem!Alive(m.of) => rp_incoming' = rp_incoming)
  BY <1>1
<1>7. Rem!TypeOK'
  BY <1>1, <1>4, <1>5, <1>6 DEF RemoteInv, Rem!TypeOK, Rem!netVars, Rem!linkVars, Rem!procVars
<1>8. LinkCalls' /\ IsFiniteSet(rp_incoming') /\ IsFiniteSet(rp_links')
  BY <1>1, <1>6, FS_Subset DEF RemoteInv, LinkCalls, Rem!linkVars
<1>9. \A x \in Rem!Node, y \in Rem!Monitor :
          /\ Has(rp_wire'[x], <<"MonitorProcess", y>>) => Has(rp_wire[x], <<"MonitorProcess", y>>)
          /\ Has(rp_wire'[x], <<"DemonitorProcess", y>>) => Has(rp_wire[x], <<"DemonitorProcess", y>>)
  BY <1>4
<1>10. \A x \in Rem!Node, y \in Rem!Monitor : rp_handling'[x] = <<"MonitorProcess", y>> =>
           rp_handling[x] = <<"MonitorProcess", y>> /\ x # n
  BY <1>5
<1>11. MessagesOwn'
  BY <1>1, <1>9, <1>10 DEF RemoteInv, MessagesOwn, Across
<1>12. Tracked'
  BY <1>1 DEF RemoteInv, Tracked, Rem!netVars
<1>13. Taken'
  BY <1>1, <1>9 DEF RemoteInv, Taken
<1>14. Followed'
  <2> SUFFICES ASSUME ~rp_lost, ~rp_lost' PROVE Followed'
    BY <1>4 DEF Followed
  <2>1. ASSUME NEW y \in rp_outgoing PROVE Answered(y)'
    <3>1. Answered(y) /\ y \in Rem!Monitor /\ y.of \in Rem!Process /\ Rem!Home(y.by) \in Rem!Node /\ Rem!Home(y.of) \in Rem!Node
      BY RemoteMonitorsOK DEF RemoteInv, Followed
    <3>2. CASE y = m /\ Rem!Alive(m.of)
      <4>1. m \in rp_incoming' /\ rp_status'[m.of] = rp_status[m.of] /\ rp_status[m.of] = "alive"
        BY <1>1, <1>2, <1>6, <3>2 DEF RemoteInv, Followed, Rem!procVars, Rem!Alive
      <4>2. QED BY <3>2, <4>1 DEF Answered
    <3>3. CASE y = m /\ ~Rem!Alive(m.of)
      BY <1>2, <1>4, <3>3 DEF Answered, Rem!Reason
    <3>4. CASE y # m
      <4>1. rp_handling[Rem!Home(y.of)] = <<"MonitorProcess", y>> => rp_handling'[Rem!Home(y.of)] = <<"MonitorProcess", y>>
        BY <1>2, <1>5, <3>1, <3>4
      <4>2. y \in rp_incoming => y \in rp_incoming'
        BY <1>6, <3>4
      <4>3. QED BY <1>1, <1>4, <3>1, <4>1, <4>2 DEF Answered, Rem!procVars
    <3>5. QED BY <3>2, <3>3, <3>4
  <2>2. ASSUME NEW k \in Rem!Node, NEW y \in Rem!Monitor, rp_handling'[k] = <<"MonitorProcess", y>>
        PROVE  y \in rp_incoming' \/ rp_status'[y.of] \in {"notified", "gone"}
    <3>1. rp_handling[k] = <<"MonitorProcess", y>> /\ k # n
      BY <1>10, <2>2
    <3>2. Rem!Home(y.of) = k /\ (y \in rp_incoming \/ rp_status[y.of] \in {"notified", "gone"})
      BY <3>1 DEF RemoteInv, MessagesOwn, Followed
    <3>3. y # m
      BY <1>2, <3>1, <3>2
    <3>4. QED BY <1>1, <1>6, <3>2, <3>3 DEF Rem!procVars
  <2>3. QED BY <1>1, <2>1, <2>2 DEF RemoteInv, Followed, Rem!netVars
<1>15. QED BY <1>7, <1>8, <1>11, <1>12, <1>13, <1>14 DEF RemoteInv

LEMMA RemoteHandleDemonitorOK == ASSUME RemoteInv, NEW n \in Rem!Node, Rem!HandleDemonitor(n) PROVE RemoteInv'
<1>0. PICK x, m : x = Rem!Next1(n) /\ m = x[2]
  OBVIOUS
<1>1. /\ Rem!Receive(n) /\ Rem!Takes(n) /\ x[1] = "DemonitorProcess" /\ rp_incoming' = rp_incoming \ {m}
      /\ UNCHANGED <<rp_budget, Rem!netVars, rp_handling, rp_call, rp_outgoing, rp_trackedOut, rp_trackedIn, Rem!linkVars, Rem!procVars>>
  BY <1>0 DEF Rem!HandleDemonitor
<1>2. /\ rp_wire' \in [Rem!Node -> Seq(Rem!Message)] /\ \A y \in Rem!Node : Len(rp_wire'[y]) <= QueueCapacity
      /\ rp_lost' = rp_lost /\ Rem!Peer(n) \in Rem!Node
      /\ rp_handling[n] = <<>> /\ m \in Rem!Monitor
      /\ x = <<"DemonitorProcess", m>> /\ Rem!Home(m.of) = n /\ Has(rp_wire[Rem!Peer(n)], x)
      /\ \A y \in Rem!Node : \A z : Has(rp_wire'[y], z) => Has(rp_wire[y], z)
      /\ \A y \in Rem!Node : \A z : Has(rp_wire[y], z) => Has(rp_wire'[y], z) \/ (y = Rem!Peer(n) /\ z = x)
  BY <1>0, <1>1, RemoteTakesMonitorOK
<1>3. m \notin rp_outgoing
  BY <1>2 DEF RemoteInv, Taken
<1>4. Rem!TypeOK'
  BY <1>1, <1>2 DEF RemoteInv, Rem!TypeOK, Rem!netVars, Rem!linkVars, Rem!procVars
<1>5. LinkCalls' /\ IsFiniteSet(rp_incoming') /\ IsFiniteSet(rp_links')
  BY <1>1, FS_RemoveElement DEF RemoteInv, LinkCalls, Rem!linkVars
<1>6. MessagesOwn'
  BY <1>1, <1>2 DEF RemoteInv, MessagesOwn, Across
<1>7. Tracked'
  BY <1>1 DEF RemoteInv, Tracked, Rem!netVars
<1>8. Taken'
  BY <1>1, <1>2 DEF RemoteInv, Taken
<1>9. Followed'
  <2> SUFFICES ASSUME ~rp_lost PROVE Followed'
    BY <1>2 DEF Followed
  <2>1. ASSUME NEW y \in rp_outgoing PROVE Answered(y)'
    <3>1. Answered(y) /\ Rem!Home(y.by) \in Rem!Node /\ Rem!Home(y.of) \in Rem!Node /\ y # m
      BY <1>3, RemoteMonitorsOK DEF RemoteInv, Followed
    <3>2. /\ Has(rp_wire[Rem!Home(y.by)], <<"MonitorProcess", y>>) => Has(rp_wire'[Rem!Home(y.by)], <<"MonitorProcess", y>>)
          /\ \A r : Has(rp_wire[Rem!Home(y.of)], <<"ProcessDown", y, r>>) => Has(rp_wire'[Rem!Home(y.of)], <<"ProcessDown", y, r>>)
      BY <1>2, <3>1
    <3>3. QED BY <1>1, <3>1, <3>2 DEF Answered, Rem!procVars
  <2>2. ASSUME NEW k \in Rem!Node, NEW y \in Rem!Monitor, rp_handling[k] = <<"MonitorProcess", y>>
        PROVE  y \in rp_incoming' \/ rp_status[y.of] \in {"notified", "gone"}
    <3>1. Rem!Home(y.of) = k /\ k # n /\ (y \in rp_incoming \/ rp_status[y.of] \in {"notified", "gone"})
      <4>1. Rem!Home(y.of) = k
        BY <2>2 DEF RemoteInv, MessagesOwn
      <4>2. y \in rp_incoming \/ rp_status[y.of] \in {"notified", "gone"}
        BY <2>2 DEF RemoteInv, Followed
      <4>3. k # n
        <5>1. rp_handling[n] = <<>> /\ <<>> # <<"MonitorProcess", y>>
          BY <1>2
        <5>2. QED BY <2>2, <5>1
      <4>4. QED BY <4>1, <4>2, <4>3
    <3>2. QED BY <1>1, <1>2, <3>1
  <2>3. QED BY <1>1, <2>1, <2>2 DEF RemoteInv, Followed, Rem!netVars, Rem!procVars
<1>10. QED BY <1>4, <1>5, <1>6, <1>7, <1>8, <1>9 DEF RemoteInv

LEMMA RemoteDeliveredOK ==
    ASSUME RemoteInv, NEW M \in SUBSET Rem!Monitor, NEW r \in {"error", "noconnection"}, Rem!Delivered(<<M, r>>)
    PROVE  rp_downs' \subseteq [ref : Nat, reason : {"error", "noconnection"}]
<1>1. rp_downs \subseteq [ref : Nat, reason : {"error", "noconnection"}]
  BY DEF RemoteInv, Rem!TypeOK
<1>2. rp_downs' = rp_downs \cup {[ref |-> m.ref, reason |-> s] : m \in {x \in M : Rem!Runs(x.by)}, s \in {r}}
  BY DEF Rem!Delivered
<1>3. \A m \in M : m.ref \in Nat
  BY DEF Rem!Monitor
<1>4. QED BY <1>1, <1>2, <1>3

LEMMA RemoteHandleDownOK == ASSUME RemoteInv, NEW n \in Rem!Node, Rem!HandleDown(n) PROVE RemoteInv'
<1>0. PICK x, m : x = Rem!Next1(n) /\ m = x[2]
  OBVIOUS
<1>1. /\ Rem!Receive(n) /\ Rem!Takes(n) /\ x[1] = "ProcessDown" /\ rp_outgoing' = rp_outgoing \ {m}
      /\ Rem!Delivered(<<rp_outgoing \cap {m}, "error">>)
      /\ UNCHANGED <<rp_budget, Rem!netVars, rp_handling, rp_call, rp_incoming, rp_trackedOut, rp_trackedIn, Rem!linkVars,
                     rp_status, rp_why, rp_trapping>>
  BY <1>0 DEF Rem!HandleDown, Rem!Parsed
<1>2. /\ rp_wire' \in [Rem!Node -> Seq(Rem!Message)] /\ \A y \in Rem!Node : Len(rp_wire'[y]) <= QueueCapacity
      /\ rp_lost' = rp_lost /\ x[2] = m
      /\ \A y \in Rem!Node : \A z : Has(rp_wire'[y], z) => Has(rp_wire[y], z)
      /\ \A y \in Rem!Node : \A z : Has(rp_wire[y], z) => Has(rp_wire'[y], z) \/ (y = Rem!Peer(n) /\ z = x)
  BY <1>0, <1>1, RemoteTakesMonitorOK
<1>3. Rem!TypeOK'
  <2>1. rp_downs' \subseteq [ref : Nat, reason : {"error", "noconnection"}]
    <3>1. rp_outgoing \cap {m} \in SUBSET Rem!Monitor
      BY DEF RemoteInv, Rem!TypeOK
    <3>2. QED BY <1>1, <3>1, RemoteDeliveredOK
  <2>2. QED BY <1>1, <1>2, <2>1 DEF RemoteInv, Rem!TypeOK, Rem!netVars, Rem!linkVars
<1>5. LinkCalls' /\ IsFiniteSet(rp_incoming') /\ IsFiniteSet(rp_links')
  BY <1>1 DEF RemoteInv, LinkCalls, Rem!linkVars
<1>6. MessagesOwn'
  BY <1>1, <1>2 DEF RemoteInv, MessagesOwn, Across
<1>7. Tracked'
  BY <1>1 DEF RemoteInv, Tracked, Rem!netVars
<1>8. Taken'
  BY <1>1, <1>2 DEF RemoteInv, Taken
<1>9. Followed'
  <2> SUFFICES ASSUME ~rp_lost PROVE Followed'
    BY <1>2 DEF Followed
  <2>1. ASSUME NEW y \in rp_outgoing, y # m PROVE Answered(y)'
    <3>1. Answered(y) /\ Rem!Home(y.by) \in Rem!Node /\ Rem!Home(y.of) \in Rem!Node
      BY RemoteMonitorsOK DEF RemoteInv, Followed
    <3>2. /\ Has(rp_wire[Rem!Home(y.by)], <<"MonitorProcess", y>>) => Has(rp_wire'[Rem!Home(y.by)], <<"MonitorProcess", y>>)
          /\ \A r : Has(rp_wire[Rem!Home(y.of)], <<"ProcessDown", y, r>>) => Has(rp_wire'[Rem!Home(y.of)], <<"ProcessDown", y, r>>)
      BY <1>1, <1>2, <2>1, <3>1
    <3>3. QED BY <1>1, <3>1, <3>2 DEF Answered
  <2>3. QED BY <1>1, <2>1 DEF RemoteInv, Followed, Rem!netVars
<1>10. QED BY <1>3, <1>5, <1>6, <1>7, <1>8, <1>9 DEF RemoteInv

LEMMA RemoteLoseConnectionOK == ASSUME RemoteInv, NEW n \in Rem!Node, Rem!LoseConnection(n) PROVE RemoteInv'
<1>1. /\ Rem!Spend("losses") /\ rp_up' = [rp_up EXCEPT ![n] = FALSE] /\ rp_lost' = TRUE
      /\ rp_cleaning' = [rp_cleaning EXCEPT ![n] = TRUE]
      /\ UNCHANGED <<rp_wire, rp_handling, rp_call, Rem!monitorVars, Rem!linkVars, Rem!procVars>>
  BY DEF Rem!LoseConnection
<1>2. /\ rp_budget' \in [monitors : Nat, links : Nat, losses : Nat, exits : Nat]
      /\ rp_budget'.monitors = rp_budget.monitors
  BY <1>1, RemoteSpendOK
<1>3. rp_up \in [Rem!Node -> BOOLEAN] /\ rp_cleaning \in [Rem!Node -> BOOLEAN]
  BY DEF RemoteInv, Rem!TypeOK
<1>4. Rem!TypeOK'
  BY <1>1, <1>2, <1>3 DEF RemoteInv, Rem!TypeOK, Rem!monitorVars, Rem!linkVars, Rem!procVars
<1>5. LinkCalls' /\ IsFiniteSet(rp_incoming') /\ IsFiniteSet(rp_links') /\ MessagesOwn'
  BY <1>1 DEF RemoteInv, LinkCalls, Rem!linkVars, Rem!monitorVars, MessagesOwn, Across
<1>6. Tracked'
  <2>1. \A k \in Rem!Node : (rp_up[k] => rp_up'[k] \/ rp_cleaning'[k]) /\ (rp_cleaning[k] => rp_cleaning'[k])
    BY <1>1, <1>3
  <2>2. QED BY <1>1, <2>1, RemoteMonitorsOK DEF RemoteInv, Tracked, Rem!monitorVars
<1>7. Taken' /\ Followed'
  BY <1>1, <1>2 DEF RemoteInv, Taken, Followed, Rem!monitorVars
<1>8. QED BY <1>4, <1>5, <1>6, <1>7 DEF RemoteInv

LEMMA RemoteHandleNodeDownOK == ASSUME RemoteInv, NEW n \in Rem!Node, Rem!HandleNodeDown(n) PROVE RemoteInv'
<1> DEFINE out == {m \in rp_trackedOut : Rem!Home(m.by) = n}
           linked == {l \in rp_trackedLinks : Rem!Home(l[1]) = n}
           P == {l[1] : l \in linked} \ rp_trapping
<1>1. /\ rp_cleaning[n] /\ rp_cleaning' = [rp_cleaning EXCEPT ![n] = FALSE]
      /\ rp_outgoing' = rp_outgoing \ out /\ rp_incoming' \subseteq rp_incoming /\ rp_links' \subseteq rp_links
      /\ rp_trackedOut' = rp_trackedOut \ out /\ rp_trackedIn' \subseteq rp_trackedIn /\ rp_trackedLinks' \subseteq rp_trackedLinks
      /\ Rem!Delivered(<<out, "noconnection">>) /\ Rem!Strike(P)
      /\ UNCHANGED <<rp_budget, rp_up, Rem!wireVars, rp_handling, rp_call, rp_why, rp_trapping>>
  BY DEF Rem!HandleNodeDown
<1>2. rp_lost
  BY <1>1 DEF RemoteInv, Followed
<1>3. rp_downs' \subseteq [ref : Nat, reason : {"error", "noconnection"}]
  <2>1. out \in SUBSET Rem!Monitor
    BY DEF RemoteInv, Rem!TypeOK
  <2> HIDE DEF out
  <2>2. QED BY <1>1, <2>1, RemoteDeliveredOK
<1>4. rp_status' \in [Rem!Process -> {"alive", "marked", "terminated", "notified", "gone"}]
  <2>1. P \in SUBSET Rem!Process
    <3>1. rp_trackedLinks \subseteq Rem!Pair
      BY DEF RemoteInv, Rem!TypeOK
    <3>2. \A l \in linked : l[1] \in Rem!Process
      BY <3>1, RemoteNodesOK
    <3> HIDE DEF linked
    <3>3. QED BY <3>2
  <2> HIDE DEF P
  <2>2. QED BY <1>1, <2>1, RemotePlainOK
<1>5. Rem!TypeOK'
  <2>1. rp_cleaning' \in [Rem!Node -> BOOLEAN] /\ out \subseteq rp_trackedOut
    BY <1>1 DEF RemoteInv, Rem!TypeOK
  <2> HIDE DEF out, linked, P
  <2>2. QED BY <1>1, <1>3, <1>4, <2>1 DEF RemoteInv, Rem!TypeOK, Rem!wireVars
<1>6. LinkCalls' /\ IsFiniteSet(rp_incoming') /\ IsFiniteSet(rp_links')
  BY <1>1, FS_Subset DEF RemoteInv, LinkCalls
<1>7. rp_outgoing' \subseteq rp_outgoing /\ rp_trackedOut' \subseteq rp_trackedOut
  BY <1>1
<1>8. MessagesOwn'
  BY <1>1, <1>7 DEF RemoteInv, MessagesOwn, Across, Rem!wireVars
<1>9. Tracked'
  <2> SUFFICES ASSUME NEW x \in rp_outgoing'
               PROVE  (rp_call[x.by] = <<"track_monitor", x>>
                       \/ (x \in rp_trackedOut /\ (rp_up[Rem!Home(x.by)] \/ rp_cleaning[Rem!Home(x.by)] \/ rp_call[x.by] = <<"send_monitor", x>>)))'
    BY DEF Tracked
  <2>1. x \in rp_outgoing /\ x \notin out
    BY <1>1
  <2>2. \/ rp_call[x.by] = <<"track_monitor", x>>
        \/ x \in rp_trackedOut /\ (rp_up[Rem!Home(x.by)] \/ rp_cleaning[Rem!Home(x.by)] \/ rp_call[x.by] = <<"send_monitor", x>>)
    BY <2>1 DEF RemoteInv, Tracked
  <2>3. x \in rp_trackedOut => x \in rp_trackedOut' /\ rp_cleaning'[Rem!Home(x.by)] = rp_cleaning[Rem!Home(x.by)]
    <3>1. rp_cleaning \in [Rem!Node -> BOOLEAN] /\ Rem!Home(x.by) \in Rem!Node
      BY <2>1, RemoteMonitorsOK DEF RemoteInv, Rem!TypeOK
    <3>2. QED BY <1>1, <2>1, <3>1
  <2>4. QED BY <1>1, <2>2, <2>3
<1>10. Taken' /\ Followed'
  BY <1>1, <1>2, <1>7 DEF RemoteInv, Taken, Followed, Rem!wireVars
<1>11. QED BY <1>5, <1>6, <1>8, <1>9, <1>10 DEF RemoteInv

LEMMA RemoteReconnectOK == ASSUME RemoteInv, NEW n \in Rem!Node, Rem!Reconnect(n) PROVE RemoteInv'
<1>1. /\ ~rp_up[n] /\ rp_up' = [k \in Rem!Node |-> TRUE] /\ rp_wire' = [k \in Rem!Node |-> <<>>]
      /\ UNCHANGED <<rp_budget, rp_cleaning, rp_lost, rp_handling, rp_call, Rem!monitorVars, Rem!linkVars, Rem!procVars>>
  BY DEF Rem!Reconnect
<1>2. rp_lost
  BY <1>1 DEF RemoteInv, Followed
<1>3. \A k \in Rem!Node : rp_wire'[k] = <<>> /\ Len(rp_wire'[k]) = 0 /\ \A y : ~Has(rp_wire'[k], y)
  BY <1>1, EmptySeq DEF Has
<1>4. Rem!TypeOK'
  <2>1. rp_wire' \in [Rem!Node -> Seq(Rem!Message)] /\ \A k \in Rem!Node : Len(rp_wire'[k]) <= QueueCapacity
    BY <1>1, <1>3, EmptySeq, RemoteAssumption
  <2>2. QED BY <1>1, <2>1 DEF RemoteInv, Rem!TypeOK, Rem!monitorVars, Rem!linkVars, Rem!procVars
<1>5. LinkCalls' /\ IsFiniteSet(rp_incoming') /\ IsFiniteSet(rp_links')
  BY <1>1 DEF RemoteInv, LinkCalls, Rem!linkVars, Rem!monitorVars
<1>6. MessagesOwn'
  BY <1>1, <1>3 DEF RemoteInv, MessagesOwn, Across, Rem!monitorVars
<1>7. Tracked'
  BY <1>1, RemoteMonitorsOK DEF RemoteInv, Tracked, Rem!monitorVars
<1>8. Taken' /\ Followed'
  BY <1>1, <1>2, <1>3 DEF RemoteInv, Taken, Followed, Rem!monitorVars
<1>9. QED BY <1>4, <1>5, <1>6, <1>7, <1>8 DEF RemoteInv

LEMMA RemoteStepOK == RemoteInv /\ [Rem!Next]_(Rem!vars) => RemoteInv'
<1> SUFFICES ASSUME RemoteInv, [Rem!Next]_(Rem!vars) PROVE RemoteInv'
  OBVIOUS
<1>1. CASE Rem!User
  <2> SUFFICES ASSUME NEW p \in Rem!Process,
                      \/ \E q \in Rem!Remote(p) : Rem!MonitorProcess(p, q) \/ Rem!LinkProcess(p, q) \/ Rem!UnlinkProcess(p, q)
                      \/ \E m \in rp_trackedOut : Rem!DemonitorProcess(p, m)
                      \/ Rem!TrackMonitor(p) \/ Rem!SendMonitor(p) \/ Rem!TrackLink(p) \/ Rem!SendLink(p)
                      \/ \E reason \in {"normal", "error", "killed"} : Rem!Terminate(p, reason)
                      \/ Rem!NotifyProcessDown(p) \/ Rem!Unregister(p)
               PROVE  RemoteInv'
    BY <1>1 DEF Rem!User
  <2>1. CASE \E q \in Rem!Remote(p) : Rem!MonitorProcess(p, q) \/ Rem!LinkProcess(p, q) \/ Rem!UnlinkProcess(p, q)
    BY <2>1, RemoteMonitorProcessOK, RemoteLinkProcessOK, RemoteUnlinkProcessOK
  <2>2. CASE \E m \in rp_trackedOut : Rem!DemonitorProcess(p, m)
    BY <2>2, RemoteDemonitorProcessOK
  <2>3. CASE Rem!TrackMonitor(p) \/ Rem!SendMonitor(p) \/ Rem!TrackLink(p) \/ Rem!SendLink(p)
    BY <2>3, RemoteTrackMonitorOK, RemoteSendMonitorOK, RemoteTrackLinkOK, RemoteSendLinkOK
  <2>4. CASE \E reason \in {"normal", "error", "killed"} : Rem!Terminate(p, reason)
    BY <2>4, RemoteTerminateOK
  <2>5. CASE Rem!NotifyProcessDown(p) \/ Rem!Unregister(p)
    BY <2>5, RemoteNotifyProcessDownOK, RemoteUnregisterOK
  <2>6. QED BY <2>1, <2>2, <2>3, <2>4, <2>5
<1>2. CASE Rem!Handler
  <2> SUFFICES ASSUME NEW n \in Rem!Node,
                      \/ Rem!HandleMonitor(n) \/ Rem!HandleMonitorChecks(n) \/ Rem!HandleDemonitor(n) \/ Rem!HandleDown(n)
                      \/ Rem!HandleLink(n) \/ Rem!HandleLinkAdds(n) \/ Rem!HandleUnlink(n) \/ Rem!HandleExit(n)
               PROVE  RemoteInv'
    BY <1>2 DEF Rem!Handler
  <2>1. QED BY RemoteHandleMonitorOK, RemoteHandleMonitorChecksOK, RemoteHandleDemonitorOK, RemoteHandleDownOK,
               RemoteHandleLinkOK, RemoteHandleLinkAddsOK, RemoteHandleUnlinkOK, RemoteHandleExitOK
<1>3. CASE Rem!Network
  BY <1>3, RemoteLoseConnectionOK, RemoteHandleNodeDownOK, RemoteReconnectOK DEF Rem!Network
<1>4. CASE UNCHANGED Rem!vars
  <2>1. UNCHANGED <<rp_up, rp_cleaning, rp_wire, rp_handling, rp_outgoing, rp_incoming, rp_links, rp_trackedOut, rp_trackedIn,
                    rp_trackedLinks, rp_call, rp_status, rp_why, rp_trapping, rp_downs, rp_budget, rp_lost>>
    BY <1>4 DEF Rem!vars, Rem!netVars, Rem!wireVars, Rem!monitorVars, Rem!linkVars, Rem!procVars
  <2>2. Rem!TypeOK'
    BY <2>1 DEF RemoteInv, Rem!TypeOK
  <2>3. LinkCalls' /\ IsFiniteSet(rp_links')
    BY <2>1 DEF RemoteInv, LinkCalls
  <2>4. QED BY <2>1, <2>2, <2>3, RemoteOthersOK
<1>5. QED BY <1>1, <1>2, <1>3, <1>4 DEF Rem!Next

LEMMA RemoteSafeOK == RemoteInv => Rem!NoWaitForLostNode /\ Rem!MonitorAnswered
<1> SUFFICES ASSUME RemoteInv PROVE Rem!NoWaitForLostNode /\ Rem!MonitorAnswered
  OBVIOUS
<1>1. Rem!NoWaitForLostNode
  BY DEF RemoteInv, Tracked, Rem!NoWaitForLostNode, Rem!NoCall
<1>2. ASSUME NEW n \in Rem!Node, NEW x, NEW type, NEW m, Has(rp_wire[n], x), x[1] = type, x[2] = m
      PROVE  Rem!OnWire(n, type, m)
  <2>1. DOMAIN rp_wire[n] = 1 .. Len(rp_wire[n])
    BY RemoteTypesOK, LenProperties
  <2>2. QED BY <1>2, <2>1 DEF Rem!OnWire, Has
<1>3. Rem!MonitorAnswered
  <2> SUFFICES ASSUME ~rp_lost, NEW m \in rp_outgoing, rp_status[m.of] \in {"notified", "gone"}
               PROVE  \/ rp_call[m.by] # Rem!NoCall
                      \/ Rem!OnWire(Rem!Home(m.by), "MonitorProcess", m)
                      \/ rp_handling[Rem!Home(m.of)] = <<"MonitorProcess", m>>
                      \/ Rem!OnWire(Rem!Home(m.of), "ProcessDown", m)
    BY DEF Rem!MonitorAnswered
  <2>1. Answered(m) /\ Rem!Home(m.by) \in Rem!Node /\ Rem!Home(m.of) \in Rem!Node
    BY RemoteMonitorsOK DEF RemoteInv, Followed
  <2>2. Has(rp_wire[Rem!Home(m.by)], <<"MonitorProcess", m>>) => Rem!OnWire(Rem!Home(m.by), "MonitorProcess", m)
    BY <1>2, <2>1
  <2>3. \A r \in Rem!Reason : Has(rp_wire[Rem!Home(m.of)], <<"ProcessDown", m, r>>) => Rem!OnWire(Rem!Home(m.of), "ProcessDown", m)
    BY <1>2, <2>1
  <2>4. <<"track_monitor", m>> # Rem!NoCall /\ <<"send_monitor", m>> # Rem!NoCall
    BY DEF Rem!NoCall
  <2>5. QED BY <2>1, <2>2, <2>3, <2>4 DEF Answered
<1>4. QED BY <1>1, <1>3

LEMMA RemoteInFocus == RemoteInv /\ [ClusterNext]_clusterVars => RemoteInv'
<1>1. ClusterNext => Rem!Next \/ UNCHANGED rpVars
  BY DEF ClusterNext
<1>2. UNCHANGED clusterVars => UNCHANGED rpVars
  BY DEF clusterVars
<1>3. UNCHANGED rpVars => UNCHANGED Rem!vars
  BY DEF rpVars, Rem!vars, Rem!netVars, Rem!wireVars, Rem!monitorVars, Rem!linkVars, Rem!procVars
<1>4. QED BY <1>1, <1>2, <1>3, RemoteStepOK

(* process_monitor.rs: nobody goes on waiting for a process of a node that was   *)
(* lost, and a monitor on a process that ended has its answer.                    *)
THEOREM RemoteCorrect == ClusterSpec => []RemoteSafe
<1>1. ClusterInit => RemoteInv
  BY RemoteInitOK DEF ClusterInit
<1>2. RemoteInv => RemoteSafe
  BY RemoteSafeOK DEF RemoteInv, RemoteSafe
<1>3. QED BY <1>1, <1>2, RemoteInFocus, PTL DEF ClusterSpec

-----------------------------------------------------------------------------
Numbered(x) == x[1] \in {"Send", "SpawnRequest"}
OfLink(x, l) == x[1] \in {"Link", "Unlink", "Exit"} /\ x[2] = l

(* The numbers on the wire rise, and what was taken off it is behind them.       *)
Ascending ==
    /\ \A i, j \in 1 .. Len(bm_wire) : i < j /\ Numbered(bm_wire[i]) /\ Numbered(bm_wire[j]) => bm_wire[i][3] < bm_wire[j][3]
    /\ \A i \in 1 .. Len(bm_wire) : Numbered(bm_wire[i]) => bm_wire[i][3] <= bm_sent
Behind(n, q, last) == n <= last /\ \A k \in 1 .. Len(q) : Numbered(q[k]) => n < q[k][3]
Came == \A p \in BeamLocal : \A i \in 1 .. Len(bm_inbox[p]) : bm_inbox[p][i][1] = "payload" => Behind(bm_inbox[p][i][2], bm_wire, bm_sent)
Replied == \A i \in 1 .. Len(bm_answers) : Behind(bm_answers[i].to, bm_wire, bm_sent)

(* The last that a queue has to say of a link is that it is there, or is not.    *)
Ends(q, l, there) ==
    \E i \in 1 .. Len(q) : OfLink(q[i], l)
        /\ \A j \in i .. Len(q) : OfLink(q[j], l) => (q[j][1] = "Link" <=> there)
Silent(q, l) == \A i \in 1 .. Len(q) : ~OfLink(q[i], l)
Adding(l) == bm_receiver = "links" /\ bm_handling = l
Decided ==
    bm_receiver # "ended" => \A l \in Msg!Pair : bm_status[l[1]] = "alive" =>
        Ends(bm_wire, l, l \in bm_linked) \/ (Silent(bm_wire, l) /\ (l \in bm_links \/ Adding(l) <=> l \in bm_linked))

(* Of a process that is still to be spawned nothing was said.                   *)
Unborn ==
    \A l \in Msg!Pair : bm_status[l[1]] = "none" =>
        Silent(bm_wire, l) /\ ~Adding(l) /\ l \notin bm_links /\ l \notin bm_linked /\ l \notin bm_told

Felt(l) ==
    \/ \E i \in 1 .. Len(bm_wire) : bm_wire[i] = <<"Exit", l>>
    \/ bm_status[l[1]] # "alive"
    \/ \E i \in 1 .. Len(bm_inbox[l[1]]) : bm_inbox[l[1]][i] = <<"exit", l>>
EndsFelt ==
    /\ bm_receiver # "ended" => \A l \in bm_told : Felt(l)
    /\ \A p \in BeamLocal : bm_status[p] = "marked" => \E l \in bm_told : l[1] = p
    /\ \A i \in 1 .. Len(bm_wire) : bm_wire[i][1] = "Exit" => bm_wire[i][2] \in bm_told

BeamInv ==
    /\ Msg!TypeOK /\ IsFiniteSet(bm_linked) /\ (bm_receiver = "links" => bm_handling \in Msg!Pair)
    /\ Ascending /\ Came /\ Replied /\ Msg!InOrder
    /\ Unborn /\ Decided /\ EndsFelt

Entry == ({"payload"} \X Nat) \cup ({"exit"} \X Msg!Pair)
AnswerSent == [to : Nat, pid : BeamLocal \cup {Msg!Nobody}, flags : SUBSET {"link", "monitor"}]

LEMMA BeamTypesOK ==
    BeamInv => /\ bm_wire \in Seq(Msg!Message) /\ bm_answers \in Seq(AnswerSent) /\ bm_inbox \in [BeamLocal -> Seq(Entry)]
               /\ bm_sent \in Nat /\ bm_status \in [BeamLocal -> {"none", "alive", "marked", "gone"}]
               /\ Len(bm_wire) \in Nat /\ Len(bm_answers) \in Nat /\ \A p \in BeamLocal : Len(bm_inbox[p]) \in Nat
<1> SUFFICES ASSUME BeamInv
             PROVE  /\ bm_wire \in Seq(Msg!Message) /\ bm_answers \in Seq(AnswerSent) /\ bm_inbox \in [BeamLocal -> Seq(Entry)]
                    /\ bm_sent \in Nat /\ bm_status \in [BeamLocal -> {"none", "alive", "marked", "gone"}]
                    /\ Len(bm_wire) \in Nat /\ Len(bm_answers) \in Nat /\ \A p \in BeamLocal : Len(bm_inbox[p]) \in Nat
  OBVIOUS
<1>1. /\ bm_wire \in Seq(Msg!Message) /\ bm_answers \in Seq(AnswerSent) /\ bm_inbox \in [BeamLocal -> Seq(Entry)]
      /\ bm_sent \in Nat /\ bm_status \in [BeamLocal -> {"none", "alive", "marked", "gone"}]
  BY DEF BeamInv, Msg!TypeOK, Entry, AnswerSent
<1>2. QED BY <1>1, LenProperties

LEMMA BeamMessageOK ==
    ASSUME NEW x \in Msg!Message
    PROVE  /\ x[1] = "Send" => x[2] \in BeamLocal \cup {"name"} /\ x[3] \in Nat
           /\ x[1] = "SpawnRequest" => x[2] \in Msg!Request /\ x[3] \in Nat
           /\ x[1] \in {"Link", "Unlink", "Exit", "Monitor", "Demonitor"} => x[2] \in Msg!Pair /\ x = <<x[1], x[2]>>
           /\ Numbered(x) => x[3] \in Nat
<1>1. CASE x \in {"Send"} \X (BeamLocal \cup {"name"}) \X Nat
  BY <1>1 DEF Numbered
<1>2. CASE x \in {"SpawnRequest"} \X Msg!Request \X Nat
  BY <1>2 DEF Numbered
<1>3. CASE x \in {"Link", "Unlink", "Exit", "Monitor", "Demonitor"} \X Msg!Pair
  BY <1>3 DEF Numbered
<1>4. CASE x = <<"Other">>
  BY <1>4 DEF Numbered
<1>5. QED BY <1>1, <1>2, <1>3, <1>4 DEF Msg!Message

LEMMA BeamPairOK == \A l \in Msg!Pair : l[1] \in BeamLocal /\ l[2] \in BeamPeer /\ l = <<l[1], l[2]>>
  BY DEF Msg!Pair

LEMMA BeamInitOK == Msg!Init => BeamInv
<1> SUFFICES ASSUME Msg!Init PROVE BeamInv
  OBVIOUS
<1>1. /\ bm_wire = <<>> /\ bm_answers = <<>> /\ Len(bm_wire) = 0 /\ Len(bm_answers) = 0
      /\ bm_wire \in Seq(Msg!Message)
      /\ bm_answers \in Seq([to : Nat, pid : BeamLocal \cup {Msg!Nobody}, flags : SUBSET {"link", "monitor"}])
  BY EmptySeq DEF Msg!Init
<1>2. /\ bm_inbox \in [BeamLocal -> Seq(({"payload"} \X Nat) \cup ({"exit"} \X Msg!Pair))]
      /\ \A p \in BeamLocal : Len(bm_inbox[p]) = 0 /\ bm_inbox[p] = <<>>
  BY EmptySeq DEF Msg!Init
<1>3. Msg!TypeOK
  BY <1>1, <1>2, BeamAssumption DEF Msg!Init, Msg!TypeOK
<1>4. IsFiniteSet(bm_linked) /\ bm_receiver = "receives"
  BY FS_EmptySet DEF Msg!Init
<1>5. Ascending /\ Came /\ Replied
  BY <1>1, <1>2 DEF Ascending, Came, Replied
<1>6. Msg!InOrder
  BY <1>1, <1>2 DEF Msg!InOrder
<1>7. Unborn /\ Decided /\ EndsFelt
  BY <1>1, <1>4 DEF Msg!Init, Unborn, Decided, EndsFelt, Silent, Adding
<1>8. QED BY <1>3, <1>4, <1>5, <1>6, <1>7 DEF BeamInv

(* What the BEAM node sends, at the end of the wire.                             *)
LEMMA BeamSentNumbersOK ==
    ASSUME BeamInv, NEW s \in Seq(Msg!Message), bm_wire' = bm_wire \o s, bm_sent' = bm_sent + 1,
           \A i \in 1 .. Len(s) : Numbered(s[i]) => s[i][3] = bm_sent + 1 /\ Len(s) = 1,
           UNCHANGED <<bm_inbox, bm_answers>>
    PROVE  Ascending' /\ Came' /\ Replied' /\ Msg!InOrder'
<1>1. /\ Len(bm_wire') = Len(bm_wire) + Len(s) /\ Len(bm_wire) \in Nat /\ Len(s) \in Nat /\ bm_sent \in Nat
      /\ \A i \in 1 .. Len(bm_wire) + Len(s) : bm_wire'[i] = IF i <= Len(bm_wire) THEN bm_wire[i] ELSE s[i - Len(bm_wire)]
  BY ConcatProperties, LenProperties, BeamTypesOK
<1>2. \A i \in 1 .. Len(bm_wire) : bm_wire'[i] = bm_wire[i] /\ (Numbered(bm_wire[i]) => bm_wire[i][3] \in Nat)
  <2>1. \A i \in 1 .. Len(bm_wire) : bm_wire[i] \in Msg!Message
    BY BeamTypesOK, ElementOfSeq
  <2>2. QED BY <1>1, <2>1, BeamMessageOK
<1>3. \A i \in 1 .. Len(bm_wire') : i \in 1 .. Len(bm_wire) \/ (i > Len(bm_wire) /\ i - Len(bm_wire) \in 1 .. Len(s) /\ bm_wire'[i] = s[i - Len(bm_wire)])
  BY <1>1
<1>4. \A i \in 1 .. Len(bm_wire') : i \notin 1 .. Len(bm_wire) /\ Numbered(bm_wire'[i]) => bm_wire'[i][3] = bm_sent + 1 /\ i = Len(bm_wire')
  <2> SUFFICES ASSUME NEW i \in 1 .. Len(bm_wire'), i \notin 1 .. Len(bm_wire), Numbered(bm_wire'[i])
               PROVE  bm_wire'[i][3] = bm_sent + 1 /\ i = Len(bm_wire')
    OBVIOUS
  <2>1. i > Len(bm_wire) /\ i - Len(bm_wire) \in 1 .. Len(s) /\ bm_wire'[i] = s[i - Len(bm_wire)]
    BY <1>3
  <2>2. bm_wire'[i][3] = bm_sent + 1 /\ Len(s) = 1
    BY <2>1
  <2>3. QED BY <1>1, <2>1, <2>2
<1>5. Ascending'
  <2>1. ASSUME NEW i \in 1 .. Len(bm_wire'), NEW j \in 1 .. Len(bm_wire'), i < j, Numbered(bm_wire'[i]), Numbered(bm_wire'[j])
        PROVE  bm_wire'[i][3] < bm_wire'[j][3]
    <3>1. i \in 1 .. Len(bm_wire)
      BY <1>1, <1>4, <2>1
    <3>2. CASE j \in 1 .. Len(bm_wire)
      BY <1>2, <2>1, <3>1, <3>2 DEF BeamInv, Ascending
    <3>3. CASE j \notin 1 .. Len(bm_wire)
      <4>1. bm_wire[i][3] <= bm_sent /\ bm_wire'[j][3] = bm_sent + 1 /\ bm_wire'[i] = bm_wire[i] /\ bm_wire[i][3] \in Nat
        BY <1>2, <1>4, <2>1, <3>1, <3>3 DEF BeamInv, Ascending
      <4>2. QED BY <1>1, <4>1
    <3>4. QED BY <3>2, <3>3
  <2>2. ASSUME NEW i \in 1 .. Len(bm_wire'), Numbered(bm_wire'[i]) PROVE bm_wire'[i][3] <= bm_sent'
    <3>1. CASE i \in 1 .. Len(bm_wire)
      <4>1. bm_wire[i][3] <= bm_sent /\ bm_wire'[i] = bm_wire[i] /\ bm_wire[i][3] \in Nat
        BY <1>2, <2>2, <3>1 DEF BeamInv, Ascending
      <4>2. QED BY <1>1, <4>1
    <3>2. CASE i \notin 1 .. Len(bm_wire)
      BY <1>1, <1>4, <2>2, <3>2
    <3>3. QED BY <3>1, <3>2
  <2>3. QED BY <2>1, <2>2 DEF Ascending
<1>6. ASSUME NEW n \in Nat, Behind(n, bm_wire, bm_sent) PROVE Behind(n, bm_wire', bm_sent')
  <2>1. n <= bm_sent
    BY <1>6 DEF Behind
  <2>2. ASSUME NEW k \in 1 .. Len(bm_wire'), Numbered(bm_wire'[k]) PROVE n < bm_wire'[k][3]
    <3>1. CASE k \in 1 .. Len(bm_wire)
      BY <1>2, <1>6, <2>2, <3>1 DEF Behind
    <3>2. CASE k \notin 1 .. Len(bm_wire)
      <4>1. bm_wire'[k][3] = bm_sent + 1
        BY <1>4, <2>2, <3>2
      <4>2. QED BY <1>1, <2>1, <4>1
    <3>3. QED BY <3>1, <3>2
  <2>3. n <= bm_sent'
    BY <1>1, <2>1
  <2>4. QED BY <2>2, <2>3 DEF Behind
<1>7. Came'
  <2>1. \A p \in BeamLocal : \A i \in 1 .. Len(bm_inbox[p]) : bm_inbox[p][i] \in Entry
    BY BeamTypesOK, ElementOfSeq
  <2>2. \A y \in Entry : y[1] = "payload" => y[2] \in Nat
    BY DEF Entry
  <2>3. QED BY <1>6, <2>1, <2>2 DEF BeamInv, Came
<1>8. Replied'
  <2>1. \A i \in 1 .. Len(bm_answers) : bm_answers[i] \in AnswerSent
    BY BeamTypesOK, ElementOfSeq
  <2>2. \A y \in AnswerSent : y.to \in Nat
    BY DEF AnswerSent
  <2>3. QED BY <1>6, <2>1, <2>2 DEF BeamInv, Replied
<1>9. Msg!InOrder'
  BY DEF BeamInv, Msg!InOrder
<1>10. QED BY <1>5, <1>7, <1>8, <1>9

LEMMA BeamSentLinksOK ==
    ASSUME BeamInv, NEW s \in Seq(Msg!Message), bm_wire' = bm_wire \o s, bm_receiver # "ended",
           UNCHANGED <<bm_receiver, bm_handling, bm_status, bm_links, bm_inbox>>,
           \A l \in Msg!Pair : \/ (\A i \in 1 .. Len(s) : ~OfLink(s[i], l)) /\ (l \in bm_linked' <=> l \in bm_linked)
                           \/ /\ \E i \in 1 .. Len(s) : OfLink(s[i], l)
                              /\ \A i \in 1 .. Len(s) : OfLink(s[i], l) => (s[i][1] = "Link" <=> l \in bm_linked')
                              /\ bm_status[l[1]] # "none",
           bm_told \subseteq bm_told', bm_told' \subseteq Msg!Pair,
           \A l \in bm_told' : l \in bm_told \/ \E i \in 1 .. Len(s) : s[i] = <<"Exit", l>>,
           \A i \in 1 .. Len(s) : s[i][1] = "Exit" => s[i][2] \in bm_told'
    PROVE  Unborn' /\ Decided' /\ EndsFelt'
<1>1. /\ Len(bm_wire') = Len(bm_wire) + Len(s) /\ Len(bm_wire) \in Nat /\ Len(s) \in Nat
      /\ \A i \in 1 .. Len(bm_wire) + Len(s) : bm_wire'[i] = IF i <= Len(bm_wire) THEN bm_wire[i] ELSE s[i - Len(bm_wire)]
  BY ConcatProperties, LenProperties, BeamTypesOK
<1>2. \A i \in 1 .. Len(bm_wire) : i \in 1 .. Len(bm_wire') /\ bm_wire'[i] = bm_wire[i]
  BY <1>1
<1>3. \A i \in 1 .. Len(bm_wire') : i \in 1 .. Len(bm_wire) \/ (i > Len(bm_wire) /\ i - Len(bm_wire) \in 1 .. Len(s) /\ bm_wire'[i] = s[i - Len(bm_wire)])
  BY <1>1
<1>4. \A i \in 1 .. Len(s) : i + Len(bm_wire) \in 1 .. Len(bm_wire') /\ bm_wire'[i + Len(bm_wire)] = s[i] /\ i + Len(bm_wire) > Len(bm_wire)
  <2> SUFFICES ASSUME NEW i \in 1 .. Len(s)
               PROVE  i + Len(bm_wire) \in 1 .. Len(bm_wire') /\ bm_wire'[i + Len(bm_wire)] = s[i] /\ i + Len(bm_wire) > Len(bm_wire)
    OBVIOUS
  <2>1. /\ i + Len(bm_wire) \in 1 .. Len(bm_wire) + Len(s) /\ ~(i + Len(bm_wire) <= Len(bm_wire))
        /\ (i + Len(bm_wire)) - Len(bm_wire) = i /\ i + Len(bm_wire) > Len(bm_wire)
    BY <1>1
  <2>2. QED BY <1>1, <2>1
<1>5. ASSUME NEW l \in Msg!Pair, \A i \in 1 .. Len(s) : ~OfLink(s[i], l)
      PROVE  /\ Silent(bm_wire, l) => Silent(bm_wire', l)
             /\ \A there : Ends(bm_wire, l, there) => Ends(bm_wire', l, there)
  <2>1. \A i \in 1 .. Len(bm_wire') : i \in 1 .. Len(bm_wire) \/ ~OfLink(bm_wire'[i], l)
    BY <1>3, <1>5
  <2>2. Silent(bm_wire, l) => Silent(bm_wire', l)
    BY <1>2, <2>1 DEF Silent
  <2>3. ASSUME NEW there, Ends(bm_wire, l, there) PROVE Ends(bm_wire', l, there)
    <3>1. PICK i \in 1 .. Len(bm_wire) : OfLink(bm_wire[i], l)
              /\ \A j \in i .. Len(bm_wire) : OfLink(bm_wire[j], l) => (bm_wire[j][1] = "Link" <=> there)
      BY <2>3 DEF Ends
    <3>2. ASSUME NEW j \in i .. Len(bm_wire'), OfLink(bm_wire'[j], l) PROVE bm_wire'[j][1] = "Link" <=> there
      <4>1. j \in 1 .. Len(bm_wire') /\ j \in i .. Len(bm_wire)
        BY <1>1, <2>1, <3>2
      <4>2. QED BY <1>2, <3>1, <3>2, <4>1
    <3>3. QED BY <1>2, <3>1, <3>2 DEF Ends
  <2>4. QED BY <2>2, <2>3
<1>6. ASSUME NEW l \in Msg!Pair, NEW k \in 1 .. Len(s), OfLink(s[k], l),
             \A i \in 1 .. Len(s) : OfLink(s[i], l) => (s[i][1] = "Link" <=> l \in bm_linked')
      PROVE  Ends(bm_wire', l, l \in bm_linked')
  <2>1. k + Len(bm_wire) \in 1 .. Len(bm_wire') /\ bm_wire'[k + Len(bm_wire)] = s[k] /\ k + Len(bm_wire) > Len(bm_wire)
    BY <1>4
  <2>2. ASSUME NEW j \in k + Len(bm_wire) .. Len(bm_wire'), OfLink(bm_wire'[j], l) PROVE bm_wire'[j][1] = "Link" <=> l \in bm_linked'
    <3>1. j \in 1 .. Len(bm_wire') /\ j \notin 1 .. Len(bm_wire)
      BY <1>1, <2>1
    <3>2. j - Len(bm_wire) \in 1 .. Len(s) /\ bm_wire'[j] = s[j - Len(bm_wire)]
      BY <1>3, <3>1
    <3>3. QED BY <1>6, <2>2, <3>2
  <2>3. OfLink(bm_wire'[k + Len(bm_wire)], l)
    BY <1>6, <2>1
  <2>4. QED BY <2>1, <2>2, <2>3 DEF Ends
<1>7. Decided'
  <2> SUFFICES ASSUME NEW l \in Msg!Pair, bm_status[l[1]] = "alive"
               PROVE  Ends(bm_wire', l, l \in bm_linked')
                      \/ (Silent(bm_wire', l) /\ (l \in bm_links' \/ Adding(l)' <=> l \in bm_linked'))
    BY DEF Decided
  <2>1. CASE (\A i \in 1 .. Len(s) : ~OfLink(s[i], l)) /\ (l \in bm_linked' <=> l \in bm_linked)
    <3>1. Ends(bm_wire, l, l \in bm_linked) \/ (Silent(bm_wire, l) /\ (l \in bm_links \/ Adding(l) <=> l \in bm_linked))
      BY DEF BeamInv, Decided
    <3>2. (Silent(bm_wire, l) => Silent(bm_wire', l)) /\ (Ends(bm_wire, l, l \in bm_linked) => Ends(bm_wire', l, l \in bm_linked))
      BY <1>5, <2>1
    <3>3. Ends(bm_wire', l, l \in bm_linked) => Ends(bm_wire', l, l \in bm_linked')
      BY <2>1 DEF Ends
    <3>4. Adding(l)' <=> Adding(l)
      BY DEF Adding
    <3>5. QED BY <2>1, <3>1, <3>2, <3>3, <3>4
  <2>2. CASE \E i \in 1 .. Len(s) : OfLink(s[i], l)
    BY <1>6, <2>2
  <2>3. QED BY <2>1, <2>2
<1>8. Unborn'
  <2> SUFFICES ASSUME NEW l \in Msg!Pair, bm_status[l[1]] = "none"
               PROVE  Silent(bm_wire', l) /\ ~Adding(l)' /\ l \notin bm_links' /\ l \notin bm_linked' /\ l \notin bm_told'
    BY DEF Unborn
  <2>1. Silent(bm_wire, l) /\ ~Adding(l) /\ l \notin bm_links /\ l \notin bm_linked /\ l \notin bm_told
    BY DEF BeamInv, Unborn
  <2>2. (\A i \in 1 .. Len(s) : ~OfLink(s[i], l)) /\ (l \in bm_linked' <=> l \in bm_linked)
    OBVIOUS
  <2>3. l \notin bm_told'
    <3>1. OfLink(<<"Exit", l>>, l)
      BY DEF OfLink
    <3>2. QED BY <2>1, <2>2, <3>1
  <2>4. QED BY <1>5, <2>1, <2>2, <2>3 DEF Adding
<1>9. EndsFelt'
  <2>1. ASSUME NEW l \in bm_told' PROVE Felt(l)'
    <3>1. CASE l \in bm_told
      <4>1. Felt(l)
        BY <3>1 DEF BeamInv, EndsFelt
      <4>2. QED BY <1>2, <4>1 DEF Felt
    <3>2. CASE \E i \in 1 .. Len(s) : s[i] = <<"Exit", l>>
      BY <1>4, <3>2 DEF Felt
    <3>3. QED BY <3>1, <3>2
  <2>2. \A p \in BeamLocal : bm_status'[p] = "marked" => \E l \in bm_told' : l[1] = p
    BY DEF BeamInv, EndsFelt
  <2>3. \A i \in 1 .. Len(bm_wire') : bm_wire'[i][1] = "Exit" => bm_wire'[i][2] \in bm_told'
    BY <1>2, <1>3 DEF BeamInv, EndsFelt
  <2>4. QED BY <2>1, <2>2, <2>3 DEF EndsFelt
<1>10. QED BY <1>7, <1>8, <1>9

(* The message a handler takes off the wire, and those that stay.               *)
LEMMA BeamTakenOK ==
    ASSUME BeamInv, NEW i, NEW type, Msg!Receive(type, i)
    PROVE  /\ i = 1 /\ bm_receiver = "receives" /\ bm_wire[1][1] = type /\ bm_wire[1] \in Msg!Message
           /\ bm_wire' \in Seq(Msg!Message) /\ 1 \in 1 .. Len(bm_wire)
           /\ Len(bm_wire') \in Nat /\ Len(bm_wire) \in Nat /\ Len(bm_wire') = Len(bm_wire) - 1
           /\ \A k \in 1 .. Len(bm_wire') : k + 1 \in 1 .. Len(bm_wire) /\ bm_wire'[k] = bm_wire[k + 1]
           /\ \A k \in 1 .. Len(bm_wire) : k = 1 \/ (k - 1 \in 1 .. Len(bm_wire') /\ bm_wire'[k - 1] = bm_wire[k])
<1>1. i = 1 /\ bm_receiver = "receives" /\ bm_wire[1][1] = type /\ bm_wire # <<>> /\ bm_wire' = Tail(bm_wire) /\ bm_wire \in Seq(Msg!Message)
  BY BeamTypesOK DEF Msg!Receive, Msg!Takes
<1>2. /\ Len(bm_wire) \in Nat \ {0} /\ Tail(bm_wire) \in Seq(Msg!Message) /\ Len(Tail(bm_wire)) = Len(bm_wire) - 1
      /\ \A k \in 1 .. Len(Tail(bm_wire)) : Tail(bm_wire)[k] = bm_wire[k + 1]
  BY <1>1, HeadTailProperties, EmptySeq
<1>3. 1 \in 1 .. Len(bm_wire) /\ bm_wire[1] \in Msg!Message
  BY <1>1, <1>2, ElementOfSeq
<1>4. \A k \in 1 .. Len(bm_wire') : k + 1 \in 1 .. Len(bm_wire) /\ bm_wire'[k] = bm_wire[k + 1]
  BY <1>1, <1>2
<1>5. ASSUME NEW k \in 1 .. Len(bm_wire), k # 1 PROVE k - 1 \in 1 .. Len(bm_wire') /\ bm_wire'[k - 1] = bm_wire[k]
  <2>1. k - 1 \in 1 .. Len(bm_wire') /\ (k - 1) + 1 = k
    BY <1>1, <1>2, <1>5
  <2>2. QED BY <1>4, <2>1
<1>6. QED BY <1>1, <1>2, <1>3, <1>4, <1>5

LEMMA BeamTakenNumbersOK ==
    ASSUME BeamInv, NEW i, NEW type, Msg!Receive(type, i), bm_sent' = bm_sent,
           \A p \in BeamLocal : \/ bm_inbox'[p] = bm_inbox[p]
                            \/ \E y : bm_inbox'[p] = Append(bm_inbox[p], y)
                                      /\ (y[1] = "payload" => Numbered(bm_wire[1]) /\ y[2] = bm_wire[1][3]),
           \/ bm_answers' = bm_answers
           \/ \E a \in AnswerSent : bm_answers' = Append(bm_answers, a) /\ Numbered(bm_wire[1]) /\ a.to = bm_wire[1][3]
    PROVE  Ascending' /\ Came' /\ Replied' /\ Msg!InOrder'
<1>1. /\ bm_wire[1] \in Msg!Message /\ 1 \in 1 .. Len(bm_wire) /\ Len(bm_wire') \in Nat /\ Len(bm_wire) \in Nat
      /\ \A k \in 1 .. Len(bm_wire') : k + 1 \in 1 .. Len(bm_wire) /\ bm_wire'[k] = bm_wire[k + 1]
  BY BeamTakenOK
<1>2. Ascending'
  <2>1. ASSUME NEW j \in 1 .. Len(bm_wire'), NEW k \in 1 .. Len(bm_wire'), j < k, Numbered(bm_wire'[j]), Numbered(bm_wire'[k])
        PROVE  bm_wire'[j][3] < bm_wire'[k][3]
    <3>1. j + 1 \in 1 .. Len(bm_wire) /\ k + 1 \in 1 .. Len(bm_wire) /\ j + 1 < k + 1 /\ bm_wire'[j] = bm_wire[j + 1] /\ bm_wire'[k] = bm_wire[k + 1]
      BY <1>1, <2>1
    <3>2. QED BY <2>1, <3>1 DEF BeamInv, Ascending
  <2>2. \A k \in 1 .. Len(bm_wire') : Numbered(bm_wire'[k]) => bm_wire'[k][3] <= bm_sent'
    BY <1>1 DEF BeamInv, Ascending
  <2>3. QED BY <2>1, <2>2 DEF Ascending
<1>3. \A n : Behind(n, bm_wire, bm_sent) => Behind(n, bm_wire', bm_sent')
  BY <1>1 DEF Behind
<1>4. Numbered(bm_wire[1]) => Behind(bm_wire[1][3], bm_wire', bm_sent')
  <2> SUFFICES ASSUME Numbered(bm_wire[1]) PROVE bm_wire[1][3] <= bm_sent' /\ \A k \in 1 .. Len(bm_wire') : Numbered(bm_wire'[k]) => bm_wire[1][3] < bm_wire'[k][3]
    BY DEF Behind
  <2>1. bm_wire[1][3] <= bm_sent
    BY <1>1 DEF BeamInv, Ascending
  <2>2. ASSUME NEW k \in 1 .. Len(bm_wire'), Numbered(bm_wire'[k]) PROVE bm_wire[1][3] < bm_wire'[k][3]
    <3>1. k + 1 \in 1 .. Len(bm_wire) /\ 1 < k + 1 /\ bm_wire'[k] = bm_wire[k + 1]
      BY <1>1
    <3>2. QED BY <1>1, <2>2, <3>1 DEF BeamInv, Ascending
  <2>3. QED BY <2>1, <2>2
<1>5. ASSUME NEW p \in BeamLocal
      PROVE  /\ \A j \in 1 .. Len(bm_inbox'[p]) : bm_inbox'[p][j][1] = "payload" => Behind(bm_inbox'[p][j][2], bm_wire', bm_sent')
             /\ \A j, k \in 1 .. Len(bm_inbox'[p]) : j < k /\ bm_inbox'[p][j][1] = "payload" /\ bm_inbox'[p][k][1] = "payload"
                    => bm_inbox'[p][j][2] < bm_inbox'[p][k][2]
  <2> DEFINE b == bm_inbox[p]
  <2>1. b \in Seq(Entry) /\ Len(b) \in Nat /\ DOMAIN b = 1 .. Len(b)
    BY BeamTypesOK, LenProperties
  <2>2. \A j \in 1 .. Len(b) : b[j][1] = "payload" => Behind(b[j][2], bm_wire, bm_sent)
    BY DEF BeamInv, Came
  <2>3. \A j, k \in 1 .. Len(b) : j < k /\ b[j][1] = "payload" /\ b[k][1] = "payload" => b[j][2] < b[k][2]
    BY <2>1 DEF BeamInv, Msg!InOrder
  <2>4. CASE bm_inbox'[p] = b
    BY <1>3, <2>2, <2>3, <2>4
  <2>5. ASSUME NEW y, bm_inbox'[p] = Append(b, y), y[1] = "payload" => Numbered(bm_wire[1]) /\ y[2] = bm_wire[1][3]
        PROVE  /\ \A j \in 1 .. Len(bm_inbox'[p]) : bm_inbox'[p][j][1] = "payload" => Behind(bm_inbox'[p][j][2], bm_wire', bm_sent')
               /\ \A j, k \in 1 .. Len(bm_inbox'[p]) : j < k /\ bm_inbox'[p][j][1] = "payload" /\ bm_inbox'[p][k][1] = "payload"
                      => bm_inbox'[p][j][2] < bm_inbox'[p][k][2]
    <3> DEFINE c == bm_inbox'[p]
    <3>1. Len(c) = Len(b) + 1 /\ (\A j \in 1 .. Len(b) : c[j] = b[j]) /\ c[Len(b) + 1] = y
      BY <2>1, <2>5
    <3> HIDE DEF b, c
    <3>2. \A j \in 1 .. Len(c) : j \in 1 .. Len(b) \/ j = Len(b) + 1
      BY <2>1, <3>1
    <3>3. y[1] = "payload" => Behind(y[2], bm_wire', bm_sent')
      BY <1>4, <2>5
    <3>4. \A j \in 1 .. Len(c) : c[j][1] = "payload" => Behind(c[j][2], bm_wire', bm_sent')
      BY <1>3, <2>2, <3>1, <3>2, <3>3
    <3>5. ASSUME NEW j \in 1 .. Len(c), NEW k \in 1 .. Len(c), j < k, c[j][1] = "payload", c[k][1] = "payload"
          PROVE  c[j][2] < c[k][2]
      <4>1. j \in 1 .. Len(b)
        BY <2>1, <3>1, <3>2, <3>5
      <4>2. CASE k \in 1 .. Len(b)
        BY <2>3, <3>1, <3>5, <4>1, <4>2
      <4>3. CASE k = Len(b) + 1
        <5>1. Behind(b[j][2], bm_wire, bm_sent) /\ Numbered(bm_wire[1]) /\ y[2] = bm_wire[1][3] /\ c[k] = y /\ c[j] = b[j]
          BY <2>2, <2>5, <3>1, <3>5, <4>1, <4>3
        <5>2. QED BY <1>1, <5>1 DEF Behind
      <4>4. QED BY <3>2, <4>2, <4>3
    <3>6. QED BY <3>4, <3>5 DEF c
  <2>6. QED BY <2>4, <2>5
<1>6. Came'
  BY <1>5 DEF Came
<1>7. /\ \A j \in 1 .. Len(bm_answers') : Behind(bm_answers'[j].to, bm_wire', bm_sent')
      /\ \A j, k \in 1 .. Len(bm_answers') : j < k => bm_answers'[j].to < bm_answers'[k].to
  <2> DEFINE b == bm_answers
  <2>1. b \in Seq(AnswerSent) /\ Len(b) \in Nat /\ DOMAIN b = 1 .. Len(b)
    BY BeamTypesOK, LenProperties
  <2>2. \A j \in 1 .. Len(b) : Behind(b[j].to, bm_wire, bm_sent)
    BY DEF BeamInv, Replied
  <2>3. \A j, k \in 1 .. Len(b) : j < k => b[j].to < b[k].to
    BY <2>1 DEF BeamInv, Msg!InOrder
  <2>4. CASE bm_answers' = b
    BY <1>3, <2>2, <2>3, <2>4
  <2>5. ASSUME NEW a \in AnswerSent, bm_answers' = Append(b, a), Numbered(bm_wire[1]), a.to = bm_wire[1][3]
        PROVE  /\ \A j \in 1 .. Len(bm_answers') : Behind(bm_answers'[j].to, bm_wire', bm_sent')
               /\ \A j, k \in 1 .. Len(bm_answers') : j < k => bm_answers'[j].to < bm_answers'[k].to
    <3> DEFINE c == bm_answers'
    <3>1. Len(c) = Len(b) + 1 /\ (\A j \in 1 .. Len(b) : c[j] = b[j]) /\ c[Len(b) + 1] = a
      <4>1. /\ Len(Append(bm_answers, a)) = Len(bm_answers) + 1 /\ Append(bm_answers, a)[Len(bm_answers) + 1] = a
            /\ \A j \in 1 .. Len(bm_answers) : Append(bm_answers, a)[j] = bm_answers[j]
        BY <2>1, AppendProperties
      <4>2. QED BY <2>5, <4>1
    <3> HIDE DEF b, c
    <3>2. \A j \in 1 .. Len(c) : j \in 1 .. Len(b) \/ j = Len(b) + 1
      BY <2>1, <3>1
    <3>3. Behind(a.to, bm_wire', bm_sent')
      BY <1>4, <2>5
    <3>4. \A j \in 1 .. Len(c) : Behind(c[j].to, bm_wire', bm_sent')
      BY <1>3, <2>2, <3>1, <3>2, <3>3
    <3>5. ASSUME NEW j \in 1 .. Len(c), NEW k \in 1 .. Len(c), j < k PROVE c[j].to < c[k].to
      <4>1. j \in 1 .. Len(b)
        BY <2>1, <3>1, <3>2, <3>5
      <4>2. CASE k \in 1 .. Len(b)
        BY <2>3, <3>1, <3>5, <4>1, <4>2
      <4>3. CASE k = Len(b) + 1
        <5>1. Behind(b[j].to, bm_wire, bm_sent) /\ c[k] = a /\ c[j] = b[j]
          BY <2>2, <3>1, <4>1, <4>3
        <5>2. QED BY <1>1, <2>5, <5>1 DEF Behind
      <4>4. QED BY <3>2, <4>2, <4>3
    <3>6. QED BY <3>4, <3>5 DEF c
  <2>6. QED BY <2>4, <2>5
<1>8. Replied'
  BY <1>7 DEF Replied
<1>9. Msg!InOrder'
  <2>1. \A p \in BeamLocal : \A j, k \in DOMAIN bm_inbox'[p] : j < k /\ bm_inbox'[p][j][1] = "payload" /\ bm_inbox'[p][k][1] = "payload"
                    => bm_inbox'[p][j][2] < bm_inbox'[p][k][2]
    <3> SUFFICES ASSUME NEW p \in BeamLocal PROVE DOMAIN bm_inbox'[p] = 1 .. Len(bm_inbox'[p])
      BY <1>5
    <3>1. bm_inbox[p] \in Seq(Entry)
      BY BeamTypesOK
    <3>2. QED BY <3>1
  <2>2. DOMAIN bm_answers' = 1 .. Len(bm_answers')
    BY BeamTypesOK
  <2>3. QED BY <1>7, <2>1, <2>2 DEF Msg!InOrder
<1>10. QED BY <1>2, <1>6, <1>8, <1>9

LEMMA BeamTakenLinksOK ==
    ASSUME BeamInv, NEW i, NEW type, Msg!Receive(type, i), bm_receiver' \in {"receives", "links"},
           UNCHANGED <<bm_linked, bm_told>>,
           \A l \in Msg!Pair : bm_status'[l[1]] = "alive" =>
               (l \in bm_links' \/ Adding(l)' <=> IF OfLink(bm_wire[1], l) THEN bm_wire[1][1] = "Link" ELSE l \in bm_links),
           \A p \in BeamLocal : bm_status'[p] = "alive" => bm_status[p] \in {"alive", "none"},
           \A p \in BeamLocal : bm_status'[p] = "none" => bm_status[p] = "none",
           \A l \in Msg!Pair : bm_status'[l[1]] = "none" => ~Adding(l)' /\ (l \in bm_links' => l \in bm_links),
           \A l \in bm_told : bm_wire[1] = <<"Exit", l>> =>
               bm_status'[l[1]] # "alive" \/ \E k \in 1 .. Len(bm_inbox'[l[1]]) : bm_inbox'[l[1]][k] = <<"exit", l>>,
           \A p \in BeamLocal : \A k \in 1 .. Len(bm_inbox[p]) : k \in 1 .. Len(bm_inbox'[p]) /\ bm_inbox'[p][k] = bm_inbox[p][k],
           \A p \in BeamLocal : bm_status'[p] = "marked" => bm_status[p] = "marked" \/ \E l \in Msg!Pair : bm_wire[1] = <<"Exit", l>> /\ l[1] = p
    PROVE  Unborn' /\ Decided' /\ EndsFelt'
<1>1. /\ bm_wire[1] \in Msg!Message /\ 1 \in 1 .. Len(bm_wire) /\ bm_receiver = "receives" /\ Len(bm_wire') \in Nat /\ Len(bm_wire) \in Nat
      /\ Len(bm_wire') = Len(bm_wire) - 1
      /\ \A k \in 1 .. Len(bm_wire') : k + 1 \in 1 .. Len(bm_wire) /\ bm_wire'[k] = bm_wire[k + 1]
      /\ \A k \in 1 .. Len(bm_wire) : k = 1 \/ (k - 1 \in 1 .. Len(bm_wire') /\ bm_wire'[k - 1] = bm_wire[k])
  BY BeamTakenOK
<1>2. \A l : Silent(bm_wire, l) => Silent(bm_wire', l)
  BY <1>1 DEF Silent
<1>3. \A l \in Msg!Pair : ~Adding(l)
  BY <1>1 DEF Adding
<1>4. Unborn'
  <2> SUFFICES ASSUME NEW l \in Msg!Pair, bm_status'[l[1]] = "none"
               PROVE  Silent(bm_wire', l) /\ ~Adding(l)' /\ l \notin bm_links' /\ l \notin bm_linked' /\ l \notin bm_told'
    BY DEF Unborn
  <2>1. bm_status[l[1]] = "none"
    BY BeamPairOK
  <2>2. QED BY <1>2, <2>1 DEF BeamInv, Unborn
<1>5. Decided'
  <2> SUFFICES ASSUME NEW l \in Msg!Pair, bm_status'[l[1]] = "alive"
               PROVE  Ends(bm_wire', l, l \in bm_linked')
                      \/ (Silent(bm_wire', l) /\ (l \in bm_links' \/ Adding(l)' <=> l \in bm_linked'))
    BY DEF Decided
  <2>1. CASE bm_status[l[1]] = "none"
    <3>1. Silent(bm_wire, l) /\ l \notin bm_links /\ l \notin bm_linked
      BY <2>1 DEF BeamInv, Unborn
    <3>2. ~OfLink(bm_wire[1], l)
      BY <1>1, <3>1 DEF Silent
    <3>3. QED BY <1>2, <3>1, <3>2
  <2>2. CASE bm_status[l[1]] = "alive"
    <3>1. Ends(bm_wire, l, l \in bm_linked) \/ (Silent(bm_wire, l) /\ (l \in bm_links <=> l \in bm_linked))
      BY <1>1, <1>3, <2>2 DEF BeamInv, Decided
    <3>2. CASE Silent(bm_wire, l) /\ (l \in bm_links <=> l \in bm_linked)
      <4>1. ~OfLink(bm_wire[1], l)
        BY <1>1, <3>2 DEF Silent
      <4>2. QED BY <1>2, <3>2, <4>1
    <3>3. CASE Ends(bm_wire, l, l \in bm_linked)
      <4>1. PICK k \in 1 .. Len(bm_wire) : OfLink(bm_wire[k], l)
                /\ \A j \in k .. Len(bm_wire) : OfLink(bm_wire[j], l) => (bm_wire[j][1] = "Link" <=> l \in bm_linked)
        BY <3>3 DEF Ends
      <4>2. ASSUME NEW m \in 1 .. Len(bm_wire'), OfLink(bm_wire'[m], l), k <= m + 1 PROVE Ends(bm_wire', l, l \in bm_linked')
        <5>1. ASSUME NEW j \in m .. Len(bm_wire'), OfLink(bm_wire'[j], l) PROVE bm_wire'[j][1] = "Link" <=> l \in bm_linked'
          <6>1. j \in 1 .. Len(bm_wire') /\ j + 1 \in k .. Len(bm_wire)
            BY <1>1, <4>2
          <6>2. bm_wire'[j] = bm_wire[j + 1]
            BY <1>1, <6>1
          <6>3. QED BY <4>1, <5>1, <6>1, <6>2
        <5>2. QED BY <4>2, <5>1 DEF Ends
      <4>3. CASE k # 1
        <5>1. k - 1 \in 1 .. Len(bm_wire') /\ bm_wire'[k - 1] = bm_wire[k] /\ k <= (k - 1) + 1
          BY <1>1, <4>3
        <5>2. QED BY <4>1, <4>2, <5>1
      <4>4. CASE k = 1 /\ ~Silent(bm_wire', l)
        <5>1. PICK m \in 1 .. Len(bm_wire') : OfLink(bm_wire'[m], l)
          BY <4>4 DEF Silent
        <5>2. k <= m + 1
          BY <4>4, <1>1
        <5>3. QED BY <4>2, <5>1, <5>2
      <4>5. CASE k = 1 /\ Silent(bm_wire', l)
        <5>1. OfLink(bm_wire[1], l) /\ 1 \in k .. Len(bm_wire)
          BY <1>1, <4>1, <4>5
        <5>2. bm_wire[1][1] = "Link" <=> l \in bm_linked
          BY <4>1, <5>1
        <5>3. QED BY <4>5, <5>1, <5>2
      <4>6. QED BY <4>3, <4>4, <4>5
    <3>4. QED BY <3>1, <3>2, <3>3
  <2>3. QED BY <2>1, <2>2, BeamPairOK
<1>6. EndsFelt'
  <2>1. ASSUME NEW l \in bm_told PROVE Felt(l)'
    <3>1. l \in Msg!Pair /\ Felt(l) /\ bm_status[l[1]] # "none" /\ l[1] \in BeamLocal
      BY <1>1, <2>1, BeamPairOK DEF BeamInv, EndsFelt, Unborn, Msg!TypeOK
    <3>2. CASE \E k \in 1 .. Len(bm_wire) : bm_wire[k] = <<"Exit", l>>
      <4>1. PICK k \in 1 .. Len(bm_wire) : bm_wire[k] = <<"Exit", l>>
        BY <3>2
      <4>2. CASE k = 1
        BY <4>1, <4>2 DEF Felt
      <4>3. CASE k # 1
        <5>1. k - 1 \in 1 .. Len(bm_wire') /\ bm_wire'[k - 1] = <<"Exit", l>>
          BY <1>1, <4>1, <4>3
        <5>2. QED BY <5>1 DEF Felt
      <4>4. QED BY <4>2, <4>3
    <3>3. CASE bm_status[l[1]] # "alive"
      BY <3>1, <3>3 DEF Felt
    <3>4. CASE \E k \in 1 .. Len(bm_inbox[l[1]]) : bm_inbox[l[1]][k] = <<"exit", l>>
      BY <3>1, <3>4 DEF Felt
    <3>5. QED BY <3>1, <3>2, <3>3, <3>4 DEF Felt
  <2>2. ASSUME NEW p \in BeamLocal, bm_status'[p] = "marked" PROVE \E l \in bm_told' : l[1] = p
    <3>1. CASE bm_status[p] = "marked"
      BY <3>1 DEF BeamInv, EndsFelt
    <3>2. ASSUME NEW l \in Msg!Pair, bm_wire[1] = <<"Exit", l>>, l[1] = p PROVE \E m \in bm_told' : m[1] = p
      <4>1. bm_wire[1][2] \in bm_told
        BY <1>1, <3>2 DEF BeamInv, EndsFelt
      <4>2. QED BY <3>2, <4>1
    <3>3. QED BY <2>2, <3>1, <3>2
  <2>3. \A k \in 1 .. Len(bm_wire') : bm_wire'[k][1] = "Exit" => bm_wire'[k][2] \in bm_told'
    BY <1>1 DEF BeamInv, EndsFelt
  <2>4. QED BY <2>1, <2>2, <2>3 DEF EndsFelt
<1>7. QED BY <1>4, <1>5, <1>6

LEMMA BeamAppendOneOK ==
    ASSUME BeamInv, NEW x \in Msg!Message, bm_wire' = Append(bm_wire, x)
    PROVE  /\ bm_wire' \in Seq(Msg!Message) /\ bm_wire' = bm_wire \o <<x>> /\ <<x>> \in Seq(Msg!Message)
           /\ Len(<<x>>) = 1 /\ \A i \in 1 .. Len(<<x>>) : <<x>>[i] = x
           /\ \E i \in 1 .. Len(<<x>>) : <<x>>[i] = x
<1>1. bm_wire \in Seq(Msg!Message)
  BY BeamTypesOK
<1>2. bm_wire' \in Seq(Msg!Message) /\ bm_wire' = bm_wire \o <<x>>
  BY <1>1, AppendProperties, AppendIsConcat
<1>3. <<x>> \in Seq(Msg!Message) /\ Len(<<x>>) = 1 /\ <<x>>[1] = x
  OBVIOUS
<1>4. QED BY <1>2, <1>3

LEMMA BeamSpendOK ==
    ASSUME BeamInv, NEW what \in {"payloads", "requests", "signals"}, Msg!Spend(what)
    PROVE  /\ bm_budget' \in [payloads : Nat, requests : Nat, signals : Nat]
           /\ bm_sent' = bm_sent + 1 /\ bm_sent' \in Nat /\ bm_receiver # "ended"
<1>1. bm_budget \in [payloads : Nat, requests : Nat, signals : Nat] /\ bm_sent \in Nat
  BY DEF BeamInv, Msg!TypeOK
<1>2. QED BY <1>1 DEF Msg!Spend

(* A message that is not about the link of two processes. *)
LEMMA BeamSendsOtherOK ==
    ASSUME BeamInv, NEW x \in Msg!Message, bm_wire' = Append(bm_wire, x), x[1] \notin {"Link", "Unlink", "Exit"},
           NEW what \in {"payloads", "requests", "signals"}, Msg!Spend(what),
           Numbered(x) => x[3] = bm_sent + 1,
           UNCHANGED <<bm_answers, bm_linked, bm_ended, bm_told, Msg!connVars, Msg!procVars, Msg!tableVars>>
    PROVE  BeamInv'
<1>1. /\ bm_wire' \in Seq(Msg!Message) /\ bm_wire' = bm_wire \o <<x>> /\ <<x>> \in Seq(Msg!Message)
      /\ Len(<<x>>) = 1 /\ \A i \in 1 .. Len(<<x>>) : <<x>>[i] = x
  BY BeamAppendOneOK
<1>2. /\ bm_budget' \in [payloads : Nat, requests : Nat, signals : Nat]
      /\ bm_sent' = bm_sent + 1 /\ bm_sent' \in Nat /\ bm_receiver # "ended"
  BY BeamSpendOK
<1>3. UNCHANGED <<bm_answers, bm_linked, bm_ended, bm_told, bm_receiver, bm_handling, bm_status, bm_trapping, bm_named, bm_inbox, bm_links, bm_monitors>>
  BY DEF Msg!connVars, Msg!procVars, Msg!tableVars
<1>4. Msg!TypeOK'
  BY <1>1, <1>2, <1>3 DEF BeamInv, Msg!TypeOK
<1>5. Ascending' /\ Came' /\ Replied' /\ Msg!InOrder'
  BY <1>1, <1>2, <1>3, BeamSentNumbersOK
<1>6. Unborn' /\ Decided' /\ EndsFelt'
  <2>1. \A l : \A i \in 1 .. Len(<<x>>) : ~OfLink(<<x>>[i], l)
    BY <1>1 DEF OfLink
  <2>2. \A i \in 1 .. Len(<<x>>) : <<x>>[i][1] # "Exit"
    BY <1>1
  <2>3. bm_told' \subseteq Msg!Pair /\ bm_told \subseteq bm_told' /\ \A l \in bm_told' : l \in bm_told
    BY <1>3 DEF BeamInv, Msg!TypeOK
  <2>4. QED BY <1>1, <1>2, <1>3, <2>1, <2>2, <2>3, BeamSentLinksOK
<1>7. QED BY <1>3, <1>4, <1>5, <1>6 DEF BeamInv

LEMMA BeamSendPayloadOK ==
    ASSUME BeamInv, NEW dest \in {p \in BeamLocal : bm_status[p] # "none"} \cup {"name"}, Msg!SendPayload(dest) PROVE BeamInv'
<1> DEFINE x == <<"Send", dest, bm_sent + 1>>
<1>1. Msg!Spend("payloads") /\ UNCHANGED <<bm_answers, bm_linked, bm_ended, bm_told, Msg!connVars, Msg!procVars, Msg!tableVars>>
  BY DEF Msg!SendPayload
<1>2. bm_wire' = Append(bm_wire, x)
  BY <1>1, BeamSpendOK DEF Msg!SendPayload
<1>3. x \in Msg!Message /\ x[1] = "Send" /\ x[3] = bm_sent + 1
  <2>1. bm_sent + 1 \in Nat
    BY BeamTypesOK
  <2>2. QED BY <2>1 DEF Msg!Message
<1> HIDE DEF x
<1>4. QED BY <1>1, <1>2, <1>3, BeamSendsOtherOK

LEMMA BeamSendRequestOK == ASSUME BeamInv, NEW request \in Msg!Request, Msg!SendRequest(request) PROVE BeamInv'
<1> DEFINE x == <<"SpawnRequest", request, bm_sent + 1>>
<1>1. Msg!Spend("requests") /\ UNCHANGED <<bm_answers, bm_linked, bm_ended, bm_told, Msg!connVars, Msg!procVars, Msg!tableVars>>
  BY DEF Msg!SendRequest
<1>2. bm_wire' = Append(bm_wire, x)
  BY <1>1, BeamSpendOK DEF Msg!SendRequest
<1>3. x \in Msg!Message /\ x[1] = "SpawnRequest" /\ x[3] = bm_sent + 1
  <2>1. bm_sent + 1 \in Nat
    BY BeamTypesOK
  <2>2. QED BY <2>1 DEF Msg!Message
<1> HIDE DEF x
<1>4. QED BY <1>1, <1>2, <1>3, BeamSendsOtherOK

LEMMA BeamSendOtherOK == ASSUME BeamInv, Msg!SendOther PROVE BeamInv'
<1> DEFINE x == <<"Other">>
<1>1. Msg!Spend("signals") /\ UNCHANGED <<bm_answers, bm_linked, bm_ended, bm_told, Msg!connVars, Msg!procVars, Msg!tableVars>>
      /\ bm_wire' = Append(bm_wire, x)
  BY DEF Msg!SendOther
<1>2. x \in Msg!Message /\ x[1] = "Other"
  BY DEF Msg!Message
<1>3. ~Numbered(x)
  BY <1>2 DEF Numbered
<1> HIDE DEF x
<1>4. QED BY <1>1, <1>2, <1>3, BeamSendsOtherOK

LEMMA BeamSendSignalOK == ASSUME BeamInv, NEW p \in BeamLocal, NEW q \in BeamPeer, Msg!SendSignal(p, q) PROVE BeamInv'
<1>0. PICK l : l = <<p, q>>
  OBVIOUS
<1>1. /\ bm_status[p] # "none" /\ Msg!Spend("signals")
      /\ \/ bm_linked' = bm_linked \cup {l} /\ bm_wire' = Append(bm_wire, <<"Link", l>>)
         \/ bm_linked' = bm_linked \ {l} /\ bm_wire' = Append(bm_wire, <<"Unlink", l>>)
         \/ bm_wire' = Append(bm_wire, <<"Monitor", l>>) /\ UNCHANGED bm_linked
         \/ bm_wire' = Append(bm_wire, <<"Demonitor", l>>) /\ UNCHANGED bm_linked
      /\ UNCHANGED <<bm_answers, bm_ended, bm_told, Msg!connVars, Msg!procVars, Msg!tableVars>>
  BY <1>0 DEF Msg!SendSignal
<1>2. l \in Msg!Pair /\ l[1] = p
  BY <1>0 DEF Msg!Pair
<1>3. ASSUME NEW x, x \in {<<"Monitor", l>>, <<"Demonitor", l>>}, bm_wire' = Append(bm_wire, x), UNCHANGED bm_linked
      PROVE  BeamInv'
  <2>1. x \in Msg!Message /\ x[1] \notin {"Link", "Unlink", "Exit"} /\ ~Numbered(x)
    BY <1>2, <1>3 DEF Msg!Message, Numbered
  <2>2. QED BY <1>1, <1>3, <2>1, BeamSendsOtherOK
<1>4. ASSUME NEW x, x \in {<<"Link", l>>, <<"Unlink", l>>}, bm_wire' = Append(bm_wire, x),
             bm_linked' = IF x[1] = "Link" THEN bm_linked \cup {l} ELSE bm_linked \ {l}
      PROVE  BeamInv'
  <2>1. x \in Msg!Message /\ x[1] \in {"Link", "Unlink"} /\ x[2] = l /\ ~Numbered(x)
    BY <1>2, <1>4 DEF Msg!Message, Numbered
  <2>2. /\ bm_wire' \in Seq(Msg!Message) /\ bm_wire' = bm_wire \o <<x>> /\ <<x>> \in Seq(Msg!Message)
        /\ Len(<<x>>) = 1 /\ \A i \in 1 .. Len(<<x>>) : <<x>>[i] = x
        /\ \E i \in 1 .. Len(<<x>>) : <<x>>[i] = x
    BY <1>4, <2>1, BeamAppendOneOK
  <2>3. /\ bm_budget' \in [payloads : Nat, requests : Nat, signals : Nat]
        /\ bm_sent' = bm_sent + 1 /\ bm_sent' \in Nat /\ bm_receiver # "ended"
    BY <1>1, BeamSpendOK
  <2>4. UNCHANGED <<bm_answers, bm_ended, bm_told, bm_receiver, bm_handling, bm_status, bm_trapping, bm_named, bm_inbox, bm_links, bm_monitors>>
    BY <1>1 DEF Msg!connVars, Msg!procVars, Msg!tableVars
  <2>5. Msg!TypeOK'
    BY <1>2, <1>4, <2>2, <2>3, <2>4 DEF BeamInv, Msg!TypeOK
  <2>6. Ascending' /\ Came' /\ Replied' /\ Msg!InOrder'
    BY <2>1, <2>2, <2>3, <2>4, BeamSentNumbersOK
  <2>7. IsFiniteSet(bm_linked')
    BY <1>4, FS_AddElement, FS_RemoveElement DEF BeamInv
  <2>8. Unborn' /\ Decided' /\ EndsFelt'
    <3>1. ASSUME NEW m \in Msg!Pair
          PROVE  \/ (\A i \in 1 .. Len(<<x>>) : ~OfLink(<<x>>[i], m)) /\ (m \in bm_linked' <=> m \in bm_linked)
                 \/ /\ \E i \in 1 .. Len(<<x>>) : OfLink(<<x>>[i], m)
                    /\ \A i \in 1 .. Len(<<x>>) : OfLink(<<x>>[i], m) => (<<x>>[i][1] = "Link" <=> m \in bm_linked')
                    /\ bm_status[m[1]] # "none"
      <4>1. CASE m = l
        <5>1. OfLink(x, m) /\ (x[1] = "Link" <=> m \in bm_linked') /\ bm_status[m[1]] # "none"
          BY <1>1, <1>2, <1>4, <2>1, <4>1 DEF OfLink
        <5>2. QED BY <2>2, <5>1
      <4>2. CASE m # l
        <5>1. ~OfLink(x, m) /\ (m \in bm_linked' <=> m \in bm_linked)
          BY <1>4, <2>1, <4>2 DEF OfLink
        <5>2. QED BY <2>2, <5>1
      <4>3. QED BY <4>1, <4>2
    <3>2. \A i \in 1 .. Len(<<x>>) : <<x>>[i][1] # "Exit"
      BY <2>1, <2>2
    <3>3. bm_told' \subseteq Msg!Pair /\ bm_told \subseteq bm_told' /\ \A m \in bm_told' : m \in bm_told
      BY <2>4 DEF BeamInv, Msg!TypeOK
    <3>4. QED BY <2>2, <2>3, <2>4, <3>1, <3>2, <3>3, BeamSentLinksOK
  <2>9. QED BY <2>4, <2>5, <2>6, <2>7, <2>8 DEF BeamInv
<1>5. <<"Link", l>>[1] = "Link" /\ <<"Unlink", l>>[1] # "Link"
  OBVIOUS
<1>6. QED BY <1>1, <1>3, <1>4, <1>5

LEMMA BeamOrdersOK ==
    ASSUME NEW S, IsFiniteSet(S), NEW s \in Msg!Orders(S)
    PROVE  /\ Cardinality(S) \in Nat /\ DOMAIN s = 1 .. Cardinality(S)
           /\ \A i \in DOMAIN s : s[i] \in S
           /\ \A x \in S : \E i \in DOMAIN s : s[i] = x
<1>1. Msg!Cardinality(S) = Cardinality(S)
  BY DEF Msg!Cardinality, Cardinality
<1>2. QED BY <1>1, FS_CardinalityType DEF Msg!Orders

LEMMA BeamPeerEndsOK == ASSUME BeamInv, NEW q \in BeamPeer, Msg!PeerEnds(q) PROVE BeamInv'
<1> DEFINE M == {l \in bm_linked : l[2] = q}
<1>1. /\ Msg!Spend("signals") /\ bm_ended' = bm_ended \cup {q} /\ bm_told' = bm_told \cup M /\ bm_linked' = bm_linked \ M
      /\ UNCHANGED <<bm_answers, Msg!connVars, Msg!procVars, Msg!tableVars>>
  BY DEF Msg!PeerEnds
<1>2. PICK ls \in Msg!Orders(M) : bm_wire' = bm_wire \o [i \in DOMAIN ls |-> <<"Exit", ls[i]>>]
  BY DEF Msg!PeerEnds
<1> DEFINE s == [i \in DOMAIN ls |-> <<"Exit", ls[i]>>]
<1>3. IsFiniteSet(M) /\ M \subseteq Msg!Pair /\ M \subseteq bm_linked
  BY FS_Subset DEF BeamInv, Msg!TypeOK
<1> HIDE DEF M
<1>4. /\ Cardinality(M) \in Nat /\ DOMAIN ls = 1 .. Cardinality(M)
      /\ \A i \in DOMAIN ls : ls[i] \in M
      /\ \A x \in M : \E i \in DOMAIN ls : ls[i] = x
  BY <1>3, BeamOrdersOK
<1>5. PICK k \in Nat : DOMAIN ls = 1 .. k
  BY <1>4
<1>6. s \in Seq(Msg!Message) /\ 1 .. Len(s) = 1 .. k /\ \A i \in 1 .. k : s[i] = <<"Exit", ls[i]>>
  <2>1. \A i \in 1 .. k : ls[i] \in Msg!Pair
    BY <1>3, <1>4, <1>5
  <2>2. s \in [1 .. k -> Msg!Message] /\ DOMAIN s = 1 .. k
    BY <1>5, <2>1 DEF Msg!Message
  <2>3. s \in Seq(Msg!Message)
    BY <2>2, SeqDef
  <2>4. \A i \in 1 .. k : s[i] = <<"Exit", ls[i]>>
    BY <1>5
  <2> HIDE DEF s
  <2>5. QED BY <2>2, <2>3, <2>4, LenProperties
<1>7. bm_wire' = bm_wire \o s
  BY <1>2
<1> HIDE DEF s
<1>8. bm_wire' \in Seq(Msg!Message)
  BY <1>6, <1>7, ConcatProperties, BeamTypesOK
<1>9. /\ bm_budget' \in [payloads : Nat, requests : Nat, signals : Nat]
      /\ bm_sent' = bm_sent + 1 /\ bm_sent' \in Nat /\ bm_receiver # "ended"
  BY <1>1, BeamSpendOK
<1>10. UNCHANGED <<bm_answers, bm_receiver, bm_handling, bm_status, bm_trapping, bm_named, bm_inbox, bm_links, bm_monitors>>
  BY <1>1 DEF Msg!connVars, Msg!procVars, Msg!tableVars
<1>11. Msg!TypeOK'
  BY <1>1, <1>3, <1>8, <1>9, <1>10 DEF BeamInv, Msg!TypeOK
<1>12. \A i \in 1 .. Len(s) : s[i][1] = "Exit" /\ s[i][2] \in M /\ s[i] = <<"Exit", s[i][2]>> /\ ~Numbered(s[i])
  BY <1>4, <1>5, <1>6 DEF Numbered
<1>13. \A l \in M : \E i \in 1 .. Len(s) : s[i] = <<"Exit", l>>
  BY <1>4, <1>5, <1>6
<1>14. Ascending' /\ Came' /\ Replied' /\ Msg!InOrder'
  BY <1>6, <1>7, <1>9, <1>10, <1>12, BeamSentNumbersOK
<1>15. IsFiniteSet(bm_linked')
  BY <1>1, FS_Subset DEF BeamInv
<1>16. Unborn' /\ Decided' /\ EndsFelt'
  <2>1. ASSUME NEW l \in Msg!Pair
        PROVE  \/ (\A i \in 1 .. Len(s) : ~OfLink(s[i], l)) /\ (l \in bm_linked' <=> l \in bm_linked)
               \/ /\ \E i \in 1 .. Len(s) : OfLink(s[i], l)
                  /\ \A i \in 1 .. Len(s) : OfLink(s[i], l) => (s[i][1] = "Link" <=> l \in bm_linked')
                  /\ bm_status[l[1]] # "none"
    <3>1. CASE l \in M
      <4>1. PICK i \in 1 .. Len(s) : s[i] = <<"Exit", l>>
        BY <1>13, <3>1
      <4>2. OfLink(s[i], l)
        BY <4>1 DEF OfLink
      <4>3. l \notin bm_linked' /\ bm_status[l[1]] # "none"
        BY <1>1, <1>3, <3>1 DEF BeamInv, Unborn
      <4>4. QED BY <1>12, <4>2, <4>3
    <3>2. CASE l \notin M
      BY <1>1, <1>12, <3>2 DEF OfLink
    <3>3. QED BY <3>1, <3>2
  <2>2. bm_told' \subseteq Msg!Pair /\ bm_told \subseteq bm_told' /\ \A l \in bm_told' : l \in bm_told \/ l \in M
    BY <1>1, <1>3 DEF BeamInv, Msg!TypeOK
  <2>3. \A i \in 1 .. Len(s) : s[i][1] = "Exit" => s[i][2] \in bm_told'
    BY <1>1, <1>12
  <2>4. QED BY <1>6, <1>7, <1>9, <1>10, <1>13, <2>1, <2>2, <2>3, BeamSentLinksOK
<1>17. QED BY <1>10, <1>11, <1>14, <1>15, <1>16 DEF BeamInv

LEMMA BeamDeliveredOK ==
    ASSUME BeamInv, NEW p \in BeamLocal \cup {Msg!Nobody}, NEW y \in Entry, Msg!Delivered(p, y)
    PROVE  /\ bm_inbox' \in [BeamLocal -> Seq(Entry)]
           /\ \A q \in BeamLocal : bm_inbox'[q] = bm_inbox[q] \/ bm_inbox'[q] = Append(bm_inbox[q], y)
           /\ \A q \in BeamLocal : \A k \in 1 .. Len(bm_inbox[q]) : k \in 1 .. Len(bm_inbox'[q]) /\ bm_inbox'[q][k] = bm_inbox[q][k]
           /\ p \in BeamLocal /\ bm_status[p] \in {"alive", "marked"} => \E k \in 1 .. Len(bm_inbox'[p]) : bm_inbox'[p][k] = y
<1>1. bm_inbox \in [BeamLocal -> Seq(Entry)]
  BY BeamTypesOK
<1>2. CASE p # Msg!Nobody /\ bm_status[p] \in {"alive", "marked"}
  <2>1. bm_inbox' = [bm_inbox EXCEPT ![p] = Append(bm_inbox[p], y)] /\ p \in BeamLocal
    BY <1>2 DEF Msg!Delivered
  <2>2. /\ Append(bm_inbox[p], y) \in Seq(Entry) /\ Len(Append(bm_inbox[p], y)) = Len(bm_inbox[p]) + 1 /\ Len(bm_inbox[p]) \in Nat
        /\ \A k \in 1 .. Len(bm_inbox[p]) : Append(bm_inbox[p], y)[k] = bm_inbox[p][k]
        /\ Append(bm_inbox[p], y)[Len(bm_inbox[p]) + 1] = y
    BY <1>1, <2>1, AppendProperties, LenProperties
  <2>3. bm_inbox' \in [BeamLocal -> Seq(Entry)] /\ bm_inbox'[p] = Append(bm_inbox[p], y) /\ \A q \in BeamLocal \ {p} : bm_inbox'[q] = bm_inbox[q]
    BY <1>1, <2>1, <2>2
  <2>4. \A k \in 1 .. Len(bm_inbox[p]) : k \in 1 .. Len(bm_inbox'[p]) /\ bm_inbox'[p][k] = bm_inbox[p][k]
    BY <2>2, <2>3
  <2>5. Len(bm_inbox[p]) + 1 \in 1 .. Len(bm_inbox'[p])
    BY <2>2, <2>3
  <2>6. QED BY <2>2, <2>3, <2>4, <2>5
<1>3. CASE ~(p # Msg!Nobody /\ bm_status[p] \in {"alive", "marked"})
  BY <1>1, <1>3, BeamAssumption DEF Msg!Delivered
<1>4. QED BY <1>2, <1>3

(* A handler that leaves the links, and who is alive, as they are.              *)
LEMMA BeamHandlesOtherOK ==
    ASSUME BeamInv, NEW i, NEW type \in {"Send", "SpawnRequest", "Monitor", "Demonitor", "Other"}, Msg!Receive(type, i),
           UNCHANGED <<bm_receiver, bm_handling, bm_links, Msg!peerVars, bm_status>>,
           Msg!TypeOK', Ascending' /\ Came' /\ Replied' /\ Msg!InOrder',
           \A p \in BeamLocal : \A k \in 1 .. Len(bm_inbox[p]) : k \in 1 .. Len(bm_inbox'[p]) /\ bm_inbox'[p][k] = bm_inbox[p][k]
    PROVE  BeamInv'
<1>1. bm_wire[1][1] = type /\ bm_receiver = "receives"
  BY BeamTakenOK
<1>2. UNCHANGED <<bm_linked, bm_told, bm_receiver, bm_handling, bm_links, bm_status>>
  BY DEF Msg!peerVars
<1>3. \A l : ~OfLink(bm_wire[1], l) /\ bm_wire[1] # <<"Exit", l>> /\ ~Adding(l) /\ ~Adding(l)'
  BY <1>1, <1>2 DEF OfLink, Adding
<1>4. Unborn' /\ Decided' /\ EndsFelt'
  BY <1>1, <1>2, <1>3, BeamTakenLinksOK
<1>5. QED BY <1>1, <1>2, <1>4 DEF BeamInv

LEMMA BeamHandleSendOK == ASSUME BeamInv, NEW i, Msg!HandleSend(i) PROVE BeamInv'
<1> DEFINE d == IF bm_wire[1][2] = "name" THEN bm_named ELSE bm_wire[1][2]  y == <<"payload", bm_wire[1][3]>>
<1>1. Msg!Receive("Send", i) /\ i = 1
  BY BeamTakenOK DEF Msg!HandleSend
<1>2. /\ Msg!Delivered(d, y)
      /\ UNCHANGED <<bm_answers, Msg!peerVars, bm_receiver, bm_handling, bm_status, bm_trapping, bm_named, bm_links, bm_monitors>>
  BY <1>1 DEF Msg!HandleSend, Msg!connVars, Msg!tableVars
<1>3. bm_wire[1] \in Msg!Message /\ bm_wire[1][1] = "Send" /\ bm_wire' \in Seq(Msg!Message)
  BY <1>1, BeamTakenOK
<1>4. d \in BeamLocal \cup {Msg!Nobody} /\ y \in Entry /\ y[2] = bm_wire[1][3] /\ Numbered(bm_wire[1])
  BY <1>3, BeamMessageOK DEF BeamInv, Msg!TypeOK, Entry, Numbered
<1> HIDE DEF d, y
<1>5. /\ bm_inbox' \in [BeamLocal -> Seq(Entry)]
      /\ \A q \in BeamLocal : bm_inbox'[q] = bm_inbox[q] \/ bm_inbox'[q] = Append(bm_inbox[q], y)
      /\ \A q \in BeamLocal : \A k \in 1 .. Len(bm_inbox[q]) : k \in 1 .. Len(bm_inbox'[q]) /\ bm_inbox'[q][k] = bm_inbox[q][k]
  BY <1>2, <1>4, BeamDeliveredOK
<1>6. Msg!TypeOK'
  BY <1>2, <1>3, <1>5 DEF BeamInv, Msg!TypeOK, Entry, Msg!peerVars
<1>7. Ascending' /\ Came' /\ Replied' /\ Msg!InOrder'
  BY <1>1, <1>2, <1>4, <1>5, BeamTakenNumbersOK DEF Msg!peerVars
<1>8. QED BY <1>1, <1>2, <1>5, <1>6, <1>7, BeamHandlesOtherOK

(* A handler that delivers nothing and answers nothing.                         *)
LEMMA BeamQuietOK ==
    ASSUME BeamInv, NEW i, NEW type, Msg!Receive(type, i), UNCHANGED <<bm_answers, Msg!peerVars, bm_inbox>>
    PROVE  Ascending' /\ Came' /\ Replied' /\ Msg!InOrder'
<1>1. UNCHANGED <<bm_answers, bm_sent, bm_inbox>>
  BY DEF Msg!peerVars
<1>2. QED BY <1>1, BeamTakenNumbersOK

LEMMA BeamHandleMonitorOK == ASSUME BeamInv, NEW i, Msg!HandleMonitor(i) \/ Msg!HandleDemonitor(i) \/ Msg!HandleOther(i) PROVE BeamInv'
<1>1. PICK type \in {"Monitor", "Demonitor", "Other"} :
          /\ Msg!Receive(type, i)
          /\ bm_monitors' \subseteq bm_monitors \cup (IF type = "Monitor" THEN {bm_wire[i][2]} ELSE {})
          /\ UNCHANGED <<bm_answers, Msg!peerVars, Msg!connVars, Msg!procVars, bm_links>>
  BY DEF Msg!HandleMonitor, Msg!HandleDemonitor, Msg!HandleOther, Msg!tableVars
<1>2. UNCHANGED <<bm_answers, Msg!peerVars, bm_receiver, bm_handling, bm_status, bm_trapping, bm_named, bm_inbox, bm_links>>
  BY <1>1 DEF Msg!connVars, Msg!procVars
<1>3. i = 1 /\ bm_wire[1] \in Msg!Message /\ bm_wire[1][1] = type /\ bm_wire' \in Seq(Msg!Message)
  BY <1>1, BeamTakenOK
<1>4. bm_monitors' \subseteq Msg!Pair
  BY <1>1, <1>3, BeamMessageOK DEF BeamInv, Msg!TypeOK
<1>5. Msg!TypeOK'
  BY <1>2, <1>3, <1>4 DEF BeamInv, Msg!TypeOK, Msg!peerVars
<1>6. Ascending' /\ Came' /\ Replied' /\ Msg!InOrder'
  BY <1>1, <1>2, BeamQuietOK
<1>7. \A p \in BeamLocal : \A k \in 1 .. Len(bm_inbox[p]) : k \in 1 .. Len(bm_inbox'[p]) /\ bm_inbox'[p][k] = bm_inbox[p][k]
  BY <1>2
<1>8. QED BY <1>1, <1>2, <1>5, <1>6, <1>7, BeamHandlesOtherOK

LEMMA BeamRepliesOK ==
    ASSUME BeamInv, NEW x \in Msg!Message, x[1] = "SpawnRequest", NEW pid \in BeamLocal \cup {Msg!Nobody},
           NEW flags \in SUBSET {"link", "monitor"}, bm_answers' \in {bm_answers, Msg!Reply(x[3], pid, flags)}
    PROVE  /\ bm_answers' \in Seq(AnswerSent)
           /\ bm_answers' = bm_answers \/ \E a \in AnswerSent : bm_answers' = Append(bm_answers, a) /\ a.to = x[3]
<1>1. PICK a : a = [to |-> x[3], pid |-> pid, flags |-> flags]
  OBVIOUS
<1>2. a \in AnswerSent /\ a.to = x[3]
  BY <1>1, BeamMessageOK DEF AnswerSent
<1>3. bm_answers' = bm_answers \/ bm_answers' = Append(bm_answers, a)
  BY <1>1 DEF Msg!Reply
<1>4. bm_answers \in Seq(AnswerSent)
  BY BeamTypesOK
<1>5. QED BY <1>2, <1>3, <1>4, AppendProperties

LEMMA BeamRefuseSpawnOK == ASSUME BeamInv, NEW i, Msg!RefuseSpawn(i) PROVE BeamInv'
<1>1. /\ Msg!Receive("SpawnRequest", i) /\ i = 1 /\ bm_wire[1] \in Msg!Message /\ bm_wire[1][1] = "SpawnRequest"
      /\ bm_wire' \in Seq(Msg!Message)
  BY BeamTakenOK DEF Msg!RefuseSpawn
<1>2. /\ bm_answers' \in {bm_answers, Msg!Reply(bm_wire[1][3], Msg!Nobody, {})}
      /\ UNCHANGED <<Msg!peerVars, bm_receiver, bm_handling, bm_status, bm_trapping, bm_named, bm_inbox, bm_links, bm_monitors>>
  BY <1>1 DEF Msg!RefuseSpawn, Msg!connVars, Msg!procVars, Msg!tableVars
<1>3. /\ bm_answers' \in Seq(AnswerSent)
      /\ bm_answers' = bm_answers \/ \E a \in AnswerSent : bm_answers' = Append(bm_answers, a) /\ a.to = bm_wire[1][3]
  <2>1. {} \in SUBSET {"link", "monitor"} /\ Msg!Nobody \in BeamLocal \cup {Msg!Nobody}
    OBVIOUS
  <2>2. QED BY <1>1, <1>2, <2>1, BeamRepliesOK
<1>4. Msg!TypeOK'
  BY <1>1, <1>2, <1>3 DEF BeamInv, Msg!TypeOK, AnswerSent, Msg!peerVars
<1>5. Ascending' /\ Came' /\ Replied' /\ Msg!InOrder'
  BY <1>1, <1>2, <1>3, BeamTakenNumbersOK DEF Msg!peerVars, Numbered
<1>6. \A p \in BeamLocal : \A k \in 1 .. Len(bm_inbox[p]) : k \in 1 .. Len(bm_inbox'[p]) /\ bm_inbox'[p][k] = bm_inbox[p][k]
  BY <1>2
<1>7. QED BY <1>1, <1>2, <1>4, <1>5, <1>6, BeamHandlesOtherOK

LEMMA BeamExecuteSpawnOK == ASSUME BeamInv, NEW i, NEW p \in BeamLocal, Msg!ExecuteSpawn(i, p) PROVE BeamInv'
<1>1. /\ Msg!Receive("SpawnRequest", i) /\ i = 1 /\ bm_wire[1] \in Msg!Message /\ bm_wire[1][1] = "SpawnRequest"
      /\ bm_wire' \in Seq(Msg!Message) /\ bm_receiver = "receives"
  BY BeamTakenOK DEF Msg!ExecuteSpawn
<1>2. /\ bm_answers' \in {bm_answers, Msg!Reply(bm_wire[1][3], p, bm_wire[1][2].opts)}
      /\ bm_status[p] = "none" /\ bm_status' = [bm_status EXCEPT ![p] = "alive"]
      /\ UNCHANGED <<Msg!peerVars, bm_receiver, bm_handling, bm_trapping, bm_named, bm_inbox, bm_links, bm_monitors>>
  BY <1>1 DEF Msg!ExecuteSpawn, Msg!connVars, Msg!tableVars
<1>3. bm_wire[1][2].opts \in SUBSET {"link", "monitor"}
  BY <1>1, BeamMessageOK DEF Msg!Request
<1>4. /\ bm_answers' \in Seq(AnswerSent)
      /\ bm_answers' = bm_answers \/ \E a \in AnswerSent : bm_answers' = Append(bm_answers, a) /\ a.to = bm_wire[1][3]
  BY <1>1, <1>2, <1>3, BeamRepliesOK
<1>5. Msg!TypeOK'
  BY <1>1, <1>2, <1>4 DEF BeamInv, Msg!TypeOK, AnswerSent, Msg!peerVars
<1>6. Ascending' /\ Came' /\ Replied' /\ Msg!InOrder'
  BY <1>1, <1>2, <1>4, BeamTakenNumbersOK DEF Msg!peerVars, Numbered
<1>7. \A l : ~OfLink(bm_wire[1], l) /\ bm_wire[1] # <<"Exit", l>> /\ ~Adding(l) /\ ~Adding(l)'
  BY <1>1, <1>2 DEF OfLink, Adding
<1>8. /\ bm_status'[p] = "alive" /\ \A q \in BeamLocal \ {p} : bm_status'[q] = bm_status[q]
      /\ UNCHANGED <<bm_linked, bm_told>>
  BY <1>2, BeamTypesOK DEF Msg!peerVars
<1>9. /\ \A q \in BeamLocal : bm_status'[q] = "alive" => bm_status[q] \in {"alive", "none"}
      /\ \A q \in BeamLocal : bm_status'[q] = "none" => bm_status[q] = "none"
      /\ \A q \in BeamLocal : bm_status'[q] = "marked" => bm_status[q] = "marked"
  BY <1>2, <1>8
<1>10. Unborn' /\ Decided' /\ EndsFelt'
  BY <1>1, <1>2, <1>7, <1>8, <1>9, BeamTakenLinksOK
<1>11. QED BY <1>1, <1>2, <1>5, <1>6, <1>8, <1>10 DEF BeamInv

LEMMA BeamHandleLinkOK == ASSUME BeamInv, NEW i, Msg!HandleLink(i) PROVE BeamInv'
<1>0. PICK l : l = bm_wire[1][2]
  OBVIOUS
<1>1. /\ Msg!Receive("Link", i) /\ i = 1 /\ bm_wire[1] \in Msg!Message /\ bm_wire[1][1] = "Link"
      /\ bm_wire' \in Seq(Msg!Message) /\ bm_receiver = "receives"
  BY BeamTakenOK DEF Msg!HandleLink
<1>2. /\ \/ bm_status[l[1]] = "alive" /\ bm_receiver' = "links" /\ bm_handling' = l
         \/ bm_status[l[1]] # "alive" /\ UNCHANGED <<bm_receiver, bm_handling>>
      /\ UNCHANGED <<bm_answers, Msg!peerVars, bm_status, bm_trapping, bm_named, bm_inbox, bm_links, bm_monitors>>
  BY <1>0, <1>1 DEF Msg!HandleLink, Msg!connVars, Msg!procVars, Msg!tableVars
<1>3. l \in Msg!Pair
  BY <1>0, <1>1, BeamMessageOK
<1>4. Msg!TypeOK'
  BY <1>1, <1>2, <1>3 DEF BeamInv, Msg!TypeOK, Msg!peerVars
<1>5. Ascending' /\ Came' /\ Replied' /\ Msg!InOrder'
  BY <1>1, <1>2, BeamQuietOK
<1>6. \A m \in Msg!Pair : bm_status'[m[1]] = "alive" =>
          (m \in bm_links' \/ Adding(m)' <=> IF OfLink(bm_wire[1], m) THEN bm_wire[1][1] = "Link" ELSE m \in bm_links)
  <2> SUFFICES ASSUME NEW m \in Msg!Pair, bm_status[m[1]] = "alive"
               PROVE  m \in bm_links \/ Adding(m)' <=> IF OfLink(bm_wire[1], m) THEN TRUE ELSE m \in bm_links
    BY <1>1, <1>2
  <2>1. OfLink(bm_wire[1], m) <=> m = l
    BY <1>0, <1>1 DEF OfLink
  <2>2. CASE m = l
    BY <1>2, <2>1, <2>2 DEF Adding
  <2>3. CASE m # l
    BY <1>1, <1>2, <2>1, <2>3 DEF Adding
  <2>4. QED BY <2>2, <2>3
<1>7. \A m \in Msg!Pair : bm_status'[m[1]] = "none" => ~Adding(m)' /\ (m \in bm_links' => m \in bm_links)
  BY <1>1, <1>2 DEF Adding
<1>8. \A m : bm_wire[1] # <<"Exit", m>>
  BY <1>1
<1>9. bm_receiver' \in {"receives", "links"} /\ UNCHANGED <<bm_linked, bm_told>>
  BY <1>1, <1>2 DEF Msg!peerVars
<1>10. Unborn' /\ Decided' /\ EndsFelt'
  BY <1>1, <1>2, <1>6, <1>7, <1>8, <1>9, BeamTakenLinksOK
<1>11. QED BY <1>1, <1>2, <1>3, <1>4, <1>5, <1>9, <1>10 DEF BeamInv

LEMMA BeamHandleUnlinkOK == ASSUME BeamInv, NEW i, Msg!HandleUnlink(i) PROVE BeamInv'
<1>0. PICK l : l = bm_wire[1][2]
  OBVIOUS
<1>1. /\ Msg!Receive("Unlink", i) /\ i = 1 /\ bm_wire[1] \in Msg!Message /\ bm_wire[1][1] = "Unlink"
      /\ bm_wire' \in Seq(Msg!Message) /\ bm_receiver = "receives"
  BY BeamTakenOK DEF Msg!HandleUnlink
<1>2. /\ bm_links' = bm_links \ {l}
      /\ UNCHANGED <<bm_answers, Msg!peerVars, bm_receiver, bm_handling, bm_status, bm_trapping, bm_named, bm_inbox, bm_monitors>>
  BY <1>0, <1>1 DEF Msg!HandleUnlink, Msg!connVars, Msg!procVars
<1>4. Msg!TypeOK'
  BY <1>1, <1>2 DEF BeamInv, Msg!TypeOK, Msg!peerVars
<1>5. Ascending' /\ Came' /\ Replied' /\ Msg!InOrder'
  BY <1>1, <1>2, BeamQuietOK
<1>6. \A m : ~Adding(m)' /\ (OfLink(bm_wire[1], m) <=> m = l) /\ bm_wire[1] # <<"Exit", m>>
  BY <1>0, <1>1, <1>2 DEF Adding, OfLink
<1>7. \A m \in Msg!Pair : bm_status'[m[1]] = "alive" =>
          (m \in bm_links' \/ Adding(m)' <=> IF OfLink(bm_wire[1], m) THEN bm_wire[1][1] = "Link" ELSE m \in bm_links)
  BY <1>1, <1>2, <1>6
<1>8. bm_receiver' \in {"receives", "links"} /\ UNCHANGED <<bm_linked, bm_told>>
  BY <1>1, <1>2 DEF Msg!peerVars
<1>9. Unborn' /\ Decided' /\ EndsFelt'
  BY <1>1, <1>2, <1>6, <1>7, <1>8, BeamTakenLinksOK
<1>10. QED BY <1>1, <1>2, <1>4, <1>5, <1>8, <1>9 DEF BeamInv

LEMMA BeamHandleExitOK == ASSUME BeamInv, NEW i, Msg!HandleExit(i) PROVE BeamInv'
<1>0. PICK l, p : l = bm_wire[1][2] /\ p = l[1]
  OBVIOUS
<1>1. /\ Msg!Receive("Exit", i) /\ i = 1 /\ bm_wire[1] \in Msg!Message /\ bm_wire[1][1] = "Exit"
      /\ bm_wire' \in Seq(Msg!Message) /\ bm_receiver = "receives"
  BY BeamTakenOK DEF Msg!HandleExit
<1>2. /\ bm_links' = bm_links \ {l}
      /\ \/ Msg!Delivered(p, <<"exit", l>>) /\ UNCHANGED bm_status
         \/ /\ bm_status' = [bm_status EXCEPT ![p] = IF @ = "alive" THEN "marked" ELSE @]
            /\ UNCHANGED bm_inbox
      /\ UNCHANGED <<bm_answers, Msg!peerVars, bm_receiver, bm_handling, bm_trapping, bm_named, bm_monitors>>
  BY <1>0, <1>1 DEF Msg!HandleExit, Msg!connVars
<1>3. l \in Msg!Pair /\ p \in BeamLocal /\ bm_wire[1] = <<"Exit", l>> /\ <<"exit", l>> \in Entry
  BY <1>0, <1>1, BeamMessageOK, BeamPairOK DEF Entry
<1>4. /\ bm_inbox' \in [BeamLocal -> Seq(Entry)]
      /\ \A q \in BeamLocal : bm_inbox'[q] = bm_inbox[q] \/ bm_inbox'[q] = Append(bm_inbox[q], <<"exit", l>>)
      /\ \A q \in BeamLocal : \A k \in 1 .. Len(bm_inbox[q]) : k \in 1 .. Len(bm_inbox'[q]) /\ bm_inbox'[q][k] = bm_inbox[q][k]
      /\ bm_status'[p] = "alive" => \E k \in 1 .. Len(bm_inbox'[p]) : bm_inbox'[p][k] = <<"exit", l>>
      /\ bm_status' \in [BeamLocal -> {"none", "alive", "marked", "gone"}]
      /\ \A q \in BeamLocal : bm_status'[q] = bm_status[q] \/ (q = p /\ bm_status[p] = "alive" /\ bm_status'[p] = "marked")
  <2>1. CASE Msg!Delivered(p, <<"exit", l>>) /\ UNCHANGED bm_status
    BY <1>3, <2>1, BeamDeliveredOK, BeamTypesOK
  <2>2. CASE bm_status' = [bm_status EXCEPT ![p] = IF @ = "alive" THEN "marked" ELSE @] /\ UNCHANGED bm_inbox
    BY <1>3, <2>2, BeamTypesOK
  <2>3. QED BY <1>2, <2>1, <2>2
<1>5. Msg!TypeOK'
  BY <1>1, <1>2, <1>4 DEF BeamInv, Msg!TypeOK, Entry, Msg!peerVars
<1>6. Ascending' /\ Came' /\ Replied' /\ Msg!InOrder'
  <2>1. <<"exit", l>>[1] # "payload" /\ bm_sent' = bm_sent /\ bm_answers' = bm_answers
    BY <1>2 DEF Msg!peerVars
  <2>2. QED BY <1>1, <1>4, <2>1, BeamTakenNumbersOK
<1>7. \A m : ~Adding(m)' /\ (OfLink(bm_wire[1], m) <=> m = l) /\ (bm_wire[1] = <<"Exit", m>> <=> m = l)
  BY <1>0, <1>1, <1>2, <1>3 DEF Adding, OfLink
<1>8. \A m \in Msg!Pair : bm_status'[m[1]] = "alive" =>
          (m \in bm_links' \/ Adding(m)' <=> IF OfLink(bm_wire[1], m) THEN bm_wire[1][1] = "Link" ELSE m \in bm_links)
  BY <1>1, <1>2, <1>7
<1>9. bm_receiver' \in {"receives", "links"} /\ UNCHANGED <<bm_linked, bm_told>>
  BY <1>1, <1>2 DEF Msg!peerVars
<1>10. /\ \A q \in BeamLocal : bm_status'[q] = "alive" => bm_status[q] \in {"alive", "none"}
       /\ \A q \in BeamLocal : bm_status'[q] = "none" => bm_status[q] = "none"
       /\ \A q \in BeamLocal : bm_status'[q] = "marked" => bm_status[q] = "marked" \/ \E m \in Msg!Pair : bm_wire[1] = <<"Exit", m>> /\ m[1] = q
       /\ \A m \in bm_told : bm_wire[1] = <<"Exit", m>> =>
              bm_status'[m[1]] # "alive" \/ \E k \in 1 .. Len(bm_inbox'[m[1]]) : bm_inbox'[m[1]][k] = <<"exit", m>>
  BY <1>0, <1>3, <1>4, <1>7
<1>11. \A m \in Msg!Pair : bm_status'[m[1]] = "none" => ~Adding(m)' /\ (m \in bm_links' => m \in bm_links)
  BY <1>2, <1>7
<1>12. Unborn' /\ Decided' /\ EndsFelt'
  BY <1>1, <1>4, <1>8, <1>9, <1>10, <1>11, BeamTakenLinksOK
<1>13. QED BY <1>1, <1>2, <1>5, <1>6, <1>9, <1>12 DEF BeamInv

LEMMA BeamHandleLinkAddsOK == ASSUME BeamInv, Msg!HandleLinkAdds PROVE BeamInv'
<1>1. /\ bm_receiver = "links" /\ bm_links' = bm_links \cup {bm_handling} /\ bm_receiver' = "receives" /\ bm_handling' = <<>>
      /\ UNCHANGED <<bm_wire, bm_answers, bm_budget, bm_sent, bm_linked, bm_ended, bm_told, bm_status, bm_trapping, bm_named, bm_inbox, bm_monitors>>
  BY DEF Msg!HandleLinkAdds, Msg!peerVars, Msg!procVars
<1>2. bm_handling \in Msg!Pair
  BY <1>1 DEF BeamInv
<1>3. Msg!TypeOK'
  BY <1>1, <1>2 DEF BeamInv, Msg!TypeOK
<1>4. Ascending' /\ Came' /\ Replied' /\ Msg!InOrder'
  BY <1>1 DEF BeamInv, Ascending, Came, Replied, Msg!InOrder
<1>5. \A l : ~Adding(l)' /\ (l \in bm_links' <=> l \in bm_links \/ Adding(l))
  BY <1>1 DEF Adding
<1>6. Unborn'
  BY <1>1, <1>5 DEF BeamInv, Unborn
<1>7. Decided'
  BY <1>1, <1>5 DEF BeamInv, Decided
<1>8. EndsFelt'
  BY <1>1 DEF BeamInv, EndsFelt, Felt
<1>9. QED BY <1>1, <1>3, <1>4, <1>6, <1>7, <1>8 DEF BeamInv

LEMMA BeamReceiveFailsOK == ASSUME BeamInv, Msg!ReceiveFails PROVE BeamInv'
<1>1. /\ bm_receiver' = "ended" /\ bm_wire' = <<>>
      /\ UNCHANGED <<bm_answers, bm_handling, bm_budget, bm_sent, bm_linked, bm_ended, bm_told, bm_status, bm_trapping, bm_named, bm_inbox, bm_links, bm_monitors>>
  BY DEF Msg!ReceiveFails, Msg!peerVars, Msg!procVars, Msg!tableVars
<1>2. bm_wire' \in Seq(Msg!Message) /\ Len(bm_wire') = 0
  BY <1>1, EmptySeq
<1>3. Msg!TypeOK'
  BY <1>1, <1>2 DEF BeamInv, Msg!TypeOK
<1>4. Ascending'
  BY <1>2 DEF Ascending
<1>5. \A n : Behind(n, bm_wire, bm_sent) => Behind(n, bm_wire', bm_sent')
  BY <1>1, <1>2 DEF Behind
<1>6. Came' /\ Replied' /\ Msg!InOrder'
  BY <1>1, <1>5 DEF BeamInv, Came, Replied, Msg!InOrder
<1>7. Unborn'
  BY <1>1, <1>2 DEF BeamInv, Unborn, Silent, Adding
<1>8. Decided' /\ EndsFelt'
  BY <1>1, <1>2 DEF BeamInv, Decided, EndsFelt
<1>9. QED BY <1>1, <1>3, <1>4, <1>6, <1>7, <1>8 DEF BeamInv

LEMMA BeamProcessExitsOK == ASSUME BeamInv, NEW p \in BeamLocal, Msg!ProcessExits(p) PROVE BeamInv'
<1>1. /\ bm_status[p] = "alive" /\ bm_status' = [bm_status EXCEPT ![p] = "gone"]
      /\ bm_named' \in {bm_named, Msg!Nobody}
      /\ bm_links' = {l \in bm_links : l[1] # p} /\ bm_monitors' \subseteq bm_monitors
      /\ UNCHANGED <<bm_wire, bm_answers, bm_budget, bm_sent, bm_linked, bm_ended, bm_told, bm_receiver, bm_handling, bm_trapping, bm_inbox>>
  BY DEF Msg!ProcessExits, Msg!peerVars, Msg!connVars
<1>2. /\ bm_status' \in [BeamLocal -> {"none", "alive", "marked", "gone"}] /\ bm_status'[p] = "gone"
      /\ \A q \in BeamLocal \ {p} : bm_status'[q] = bm_status[q]
  BY <1>1, BeamTypesOK
<1>3. Msg!TypeOK'
  BY <1>1, <1>2 DEF BeamInv, Msg!TypeOK
<1>4. Ascending' /\ Came' /\ Replied' /\ Msg!InOrder'
  BY <1>1 DEF BeamInv, Ascending, Came, Replied, Msg!InOrder
<1>5. \A l \in Msg!Pair : bm_status'[l[1]] \in {"none", "alive", "marked"} =>
          bm_status'[l[1]] = bm_status[l[1]] /\ (l \in bm_links' <=> l \in bm_links)
  BY <1>1, <1>2, BeamPairOK
<1>6. Unborn'
  BY <1>1, <1>5 DEF BeamInv, Unborn, Adding
<1>7. Decided'
  BY <1>1, <1>5 DEF BeamInv, Decided, Adding
<1>8. EndsFelt'
  <2>1. \A l \in bm_told : l \in Msg!Pair
    BY DEF BeamInv, Msg!TypeOK
  <2>2. \A l \in bm_told : Felt(l) => Felt(l)'
    BY <1>1, <1>5, <2>1 DEF Felt
  <2>3. \A q \in BeamLocal : bm_status'[q] = "marked" => bm_status[q] = "marked"
    BY <1>2
  <2>4. QED BY <1>1, <2>2, <2>3 DEF BeamInv, EndsFelt
<1>9. QED BY <1>1, <1>3, <1>4, <1>6, <1>7, <1>8 DEF BeamInv

LEMMA BeamStepOK == BeamInv /\ [Msg!Next]_(Msg!vars) => BeamInv'
<1> SUFFICES ASSUME BeamInv, [Msg!Next]_(Msg!vars) PROVE BeamInv'
  OBVIOUS
<1>1. CASE Msg!Beam
  BY <1>1, BeamSendPayloadOK, BeamSendRequestOK, BeamSendSignalOK, BeamPeerEndsOK, BeamSendOtherOK DEF Msg!Beam
<1>2. CASE Msg!Handler
  BY <1>2, BeamHandleSendOK, BeamHandleLinkOK, BeamHandleUnlinkOK, BeamHandleExitOK, BeamHandleMonitorOK,
     BeamRefuseSpawnOK, BeamExecuteSpawnOK DEF Msg!Handler
<1>3. CASE Msg!HandleLinkAdds \/ Msg!ReceiveFails \/ \E p \in BeamLocal : Msg!ProcessExits(p)
  BY <1>3, BeamHandleLinkAddsOK, BeamReceiveFailsOK, BeamProcessExitsOK
<1>4. CASE UNCHANGED Msg!vars
  <2>1. UNCHANGED <<bm_wire, bm_answers, bm_budget, bm_sent, bm_linked, bm_ended, bm_told, bm_receiver, bm_handling,
                    bm_status, bm_trapping, bm_named, bm_inbox, bm_links, bm_monitors>>
    BY <1>4 DEF Msg!vars, Msg!peerVars, Msg!connVars, Msg!procVars, Msg!tableVars
  <2>2. Msg!TypeOK'
    BY <2>1 DEF BeamInv, Msg!TypeOK
  <2>3. Ascending' /\ Came' /\ Replied' /\ Msg!InOrder'
    BY <2>1 DEF BeamInv, Ascending, Came, Replied, Msg!InOrder
  <2>4. Unborn' /\ Decided' /\ EndsFelt'
    BY <2>1 DEF BeamInv, Unborn, Decided, EndsFelt, Felt, Adding
  <2>5. QED BY <2>1, <2>2, <2>3, <2>4 DEF BeamInv
<1>5. QED BY <1>1, <1>2, <1>3, <1>4 DEF Msg!Next

LEMMA BeamSafeOK == BeamInv => Msg!InOrder /\ Msg!LinksAgree /\ Msg!ExitFelt
<1> SUFFICES ASSUME BeamInv PROVE Msg!InOrder /\ Msg!LinksAgree /\ Msg!ExitFelt
  OBVIOUS
<1>1. DOMAIN bm_wire = 1 .. Len(bm_wire) /\ \A p \in BeamLocal : DOMAIN bm_inbox[p] = 1 .. Len(bm_inbox[p])
  BY BeamTypesOK, LenProperties
<1>2. Msg!LinksAgree
  <2> SUFFICES ASSUME bm_receiver = "receives", NEW l \in Msg!Pair, bm_status[l[1]] = "alive",
                      \A i \in DOMAIN bm_wire : bm_wire[i][1] \in {"Send", "SpawnRequest", "Other"}
               PROVE  l \in bm_links <=> l \in bm_linked
    BY DEF Msg!LinksAgree
  <2>1. \A i \in 1 .. Len(bm_wire) : ~OfLink(bm_wire[i], l)
    BY <1>1 DEF OfLink
  <2>2. ~Ends(bm_wire, l, l \in bm_linked) /\ ~Adding(l)
    BY <2>1 DEF Ends, Adding
  <2>3. QED BY <2>2 DEF BeamInv, Decided
<1>3. Msg!ExitFelt
  <2>1. ASSUME bm_receiver # "ended", NEW l \in bm_told
        PROVE  \/ \E i \in DOMAIN bm_wire : bm_wire[i] = <<"Exit", l>>
               \/ bm_status[l[1]] # "alive"
               \/ \E i \in DOMAIN bm_inbox[l[1]] : bm_inbox[l[1]][i] = <<"exit", l>>
    <3>1. Felt(l) /\ l[1] \in BeamLocal
      BY <2>1, BeamPairOK DEF BeamInv, EndsFelt, Msg!TypeOK
    <3>2. QED BY <1>1, <3>1 DEF Felt
  <2>2. QED BY <2>1 DEF BeamInv, EndsFelt, Msg!ExitFelt
<1>4. QED BY <1>2, <1>3 DEF BeamInv

LEMMA BeamInFocus == BeamInv /\ [ClusterNext]_clusterVars => BeamInv'
<1>1. ClusterNext => Msg!Next \/ UNCHANGED bmVars
  BY DEF ClusterNext
<1>2. UNCHANGED clusterVars => UNCHANGED bmVars
  BY DEF clusterVars
<1>3. UNCHANGED bmVars => UNCHANGED Msg!vars
  BY DEF bmVars, Msg!vars, Msg!peerVars, Msg!connVars, Msg!procVars, Msg!tableVars
<1>4. QED BY <1>1, <1>2, <1>3, BeamStepOK

(* manager.rs, of a BEAM peer: its messages take effect in the order they were   *)
(* sent, both nodes agree on the links, and an exit is felt.                      *)
THEOREM BeamCorrect == ClusterSpec => []BeamSafe
<1>1. ClusterInit => BeamInv
  BY BeamInitOK DEF ClusterInit
<1>2. BeamInv => BeamSafe
  BY BeamSafeOK DEF BeamInv, BeamSafe
<1>3. QED BY <1>1, <1>2, BeamInFocus, PTL DEF ClusterSpec

-----------------------------------------------------------------------------
(* Who was asked was asked by somebody, who may have given up since.       *)
SpawnAsked(r) == outcome[r] \notin {"idle", "refused"}

(* What is under way belongs to requests that were made, and an answer to a *)
(* spawn to one that was served.                                           *)
SpawnUnderWay ==
    /\ \A r \in requests : SpawnAsked(r)
    /\ \A a \in answers : kind[a[1]] # "ping" => a[1] \in served

SpawnInv == TypeOK /\ SpawnUnderWay /\ function \in BOOLEAN

(* How RemoteCall sees a request, and what it allows.                       *)
SpawnSeen(r) == IF outcome[r] = "refused" \/ kind[r] = "ping" THEN "idle" ELSE outcome[r]
ServedSpawns == {r \in served : kind[r] # "ping"}
SpawnAllowed == [Promise!Next]_(Promise!vars)

LEMMA SpawnUnseen ==
    ASSUME \A r \in Call : SpawnSeen(r)' = SpawnSeen(r), UNCHANGED ServedSpawns
    PROVE  UNCHANGED Promise!vars
  BY DEF SpawnSeen, ServedSpawns, Promise!vars

LEMMA SpawnSeenStep ==
    ASSUME NEW r \in Call, NEW before, NEW after,
           SpawnSeen(r) = before, SpawnSeen(r)' = after,
           \A q \in Call \ {r} : SpawnSeen(q)' = SpawnSeen(q),
           UNCHANGED ServedSpawns
    PROVE  Promise!Step(r, before, after)
  BY DEF SpawnSeen, ServedSpawns, Promise!Step

(* One more answer is an answer, and is to its request.                    *)
LEMMA SpawnAnswers ==
    ASSUME answers \subseteq Call \X BOOLEAN, NEW r \in Call, NEW success \in BOOLEAN,
           answers' = answers \cup {<<r, success>>}
    PROVE  /\ answers' \subseteq Call \X BOOLEAN
           /\ \A a \in answers' : a \in answers \/ a[1] = r
  OBVIOUS

LEMMA SpawnInitOK == Init => SpawnInv /\ Promise!Init
  BY DEF Init, SpawnInv, TypeOK, SpawnUnderWay, Promise!Init, Kind

(* What neither the caller nor the answering node sees of a request.       *)
SpawnSilent ==
    \/ \E r \in Call : NotConnected(r) \/ QueueFull(r) \/ HeartbeatPong(r) \/ ProcessExits(r)
    \/ Register \/ Lose \/ Reconnect

LEMMA SpawnSilentOK == ASSUME SpawnInv, SpawnSilent PROVE SpawnInv' /\ UNCHANGED Promise!vars
<1>1. ASSUME NEW r \in Call, NotConnected(r) PROVE SpawnInv' /\ UNCHANGED Promise!vars
  <2>1. SpawnInv'
    BY <1>1 DEF SpawnInv, TypeOK, SpawnUnderWay, SpawnAsked, NotConnected, Becomes, netVars, remoteVars
  <2>2. \A q \in Call : SpawnSeen(q)' = SpawnSeen(q)
    BY <1>1 DEF SpawnInv, TypeOK, SpawnSeen, NotConnected, Becomes, netVars, remoteVars
  <2>3. QED BY <1>1, <2>1, <2>2, SpawnUnseen DEF ServedSpawns, NotConnected, remoteVars
<1>2. ASSUME NEW r \in Call, QueueFull(r) PROVE SpawnInv' /\ UNCHANGED Promise!vars
  <2>1. SpawnInv'
    BY <1>2 DEF SpawnInv, TypeOK, SpawnUnderWay, SpawnAsked, QueueFull, Becomes, netVars, remoteVars
  <2>2. \A q \in Call : SpawnSeen(q)' = SpawnSeen(q)
    BY <1>2 DEF SpawnInv, TypeOK, SpawnSeen, QueueFull, Becomes, netVars, remoteVars
  <2>3. QED BY <1>2, <2>1, <2>2, SpawnUnseen DEF ServedSpawns, QueueFull, remoteVars
<1>3. ASSUME NEW r \in Call, HeartbeatPong(r) PROVE SpawnInv' /\ UNCHANGED Promise!vars
  <2>1. SpawnInv'
    <3>1. TypeOK'
      BY <1>3, SpawnAnswers DEF SpawnInv, TypeOK, HeartbeatPong, netVars, remoteVars
    <3>2. SpawnUnderWay'
      BY <1>3, SpawnAnswers DEF SpawnInv, TypeOK, SpawnUnderWay, SpawnAsked, HeartbeatPong, netVars, remoteVars
    <3>3. QED BY <1>3, <3>1, <3>2 DEF SpawnInv, HeartbeatPong, remoteVars
  <2>2. QED BY <1>3, <2>1 DEF HeartbeatPong, netVars, remoteVars, Promise!vars
<1>4. ASSUME NEW r \in Call, ProcessExits(r) PROVE SpawnInv' /\ UNCHANGED Promise!vars
  <2>1. SpawnInv'
    <3>1. TypeOK'
      BY <1>4 DEF SpawnInv, TypeOK, ProcessExits, netVars
    <3>2. SpawnUnderWay'
      BY <1>4 DEF SpawnInv, SpawnUnderWay, SpawnAsked, ProcessExits, netVars
    <3>3. QED BY <1>4, <3>1, <3>2 DEF SpawnInv, ProcessExits
  <2>2. QED BY <1>4, <2>1 DEF ProcessExits, netVars, Promise!vars
<1>5. CASE Register
  <2>1. SpawnInv'
    <3>1. TypeOK'
      BY <1>5 DEF SpawnInv, TypeOK, Register, netVars
    <3>2. SpawnUnderWay'
      BY <1>5 DEF SpawnInv, SpawnUnderWay, SpawnAsked, Register, netVars
    <3>3. QED BY <1>5, <3>1, <3>2 DEF SpawnInv, Register
  <2>2. QED BY <1>5, <2>1 DEF Register, netVars, Promise!vars
<1>6. CASE Lose
  <2>1. SpawnInv'
    <3>1. TypeOK'
      BY <1>6 DEF SpawnInv, TypeOK, Lose, remoteVars
    <3>2. SpawnUnderWay'
      BY <1>6 DEF SpawnInv, SpawnUnderWay, SpawnAsked, Lose, remoteVars
    <3>3. QED BY <1>6, <3>1, <3>2 DEF SpawnInv, Lose, remoteVars
  <2>2. QED BY <1>6, <2>1 DEF Lose, remoteVars, Promise!vars
<1>7. CASE Reconnect
  <2>1. SpawnInv'
    <3>1. TypeOK'
      BY <1>7 DEF SpawnInv, TypeOK, Reconnect, remoteVars
    <3>2. SpawnUnderWay'
      BY <1>7 DEF SpawnInv, SpawnUnderWay, SpawnAsked, Reconnect, remoteVars
    <3>3. QED BY <1>7, <3>1, <3>2 DEF SpawnInv, Reconnect, remoteVars
  <2>2. QED BY <1>7, <2>1 DEF Reconnect, remoteVars, Promise!vars
<1>8. QED BY <1>1, <1>2, <1>3, <1>4, <1>5, <1>6, <1>7 DEF SpawnSilent

(* What the caller does: a request is issued, or its waiter gives up.      *)
LEMMA SpawnCallerOK ==
    ASSUME SpawnInv, NEW r \in Call, Request(r) \/ TimesOut(r)
    PROVE  SpawnInv' /\ SpawnAllowed
<1>1. SpawnInv'
  BY DEF SpawnInv, TypeOK, SpawnUnderWay, SpawnAsked, Request, TimesOut, Becomes, netVars, remoteVars
<1>2. CASE kind[r] = "ping"
  <2>1. \A q \in Call : SpawnSeen(q)' = SpawnSeen(q)
    BY <1>2 DEF SpawnInv, TypeOK, SpawnSeen, Request, TimesOut, Becomes, netVars, remoteVars
  <2>2. QED BY <1>1, <2>1, SpawnUnseen DEF SpawnAllowed, ServedSpawns, Request, TimesOut, remoteVars
<1>3. CASE kind[r] # "ping" /\ Request(r)
  <2>1. Promise!Issue(r)
    BY <1>3, SpawnSeenStep DEF SpawnInv, TypeOK, SpawnSeen, ServedSpawns, Request, Becomes, remoteVars, Promise!Issue
  <2>2. QED BY <1>1, <2>1 DEF SpawnAllowed, Promise!Next
<1>4. CASE kind[r] # "ping" /\ TimesOut(r)
  <2>1. Promise!GiveUp(r)
    BY <1>4, SpawnSeenStep DEF SpawnInv, TypeOK, SpawnSeen, ServedSpawns, TimesOut, Becomes, remoteVars, Promise!GiveUp
  <2>2. QED BY <1>1, <2>1 DEF SpawnAllowed, Promise!Next
<1>5. QED BY <1>2, <1>3, <1>4

(* The other node serves a request, and may do so once its caller gave up.  *)
LEMMA SpawnServingOK ==
    ASSUME SpawnInv, NEW r \in Call, HandlePing(r) \/ ExecuteSpawn(r)
    PROVE  SpawnInv' /\ SpawnAllowed
<1>1. CASE HandlePing(r)
  <2>1. SpawnInv'
    <3>1. TypeOK'
      BY <1>1, SpawnAnswers DEF SpawnInv, TypeOK, HandlePing, Answer
    <3>2. SpawnUnderWay'
      BY <1>1, SpawnAnswers DEF SpawnInv, TypeOK, SpawnUnderWay, SpawnAsked, HandlePing, Answer
    <3>3. QED BY <1>1, <3>1, <3>2 DEF SpawnInv, HandlePing, Answer
  <2>2. UNCHANGED ServedSpawns
    BY <1>1 DEF ServedSpawns, HandlePing, Answer
  <2>3. QED BY <1>1, <2>1, <2>2, SpawnUnseen DEF SpawnAllowed, SpawnSeen, HandlePing, Answer
<1>2. CASE ExecuteSpawn(r)
  <2>1. SpawnInv'
    <3>1. TypeOK'
      BY <1>2, SpawnAnswers DEF SpawnInv, TypeOK, ExecuteSpawn, Answer
    <3>2. SpawnUnderWay'
      BY <1>2, SpawnAnswers DEF SpawnInv, TypeOK, SpawnUnderWay, SpawnAsked, ExecuteSpawn, Answer
    <3>3. QED BY <1>2, <3>1, <3>2 DEF SpawnInv, ExecuteSpawn, Answer
  <2>2. SpawnAsked(r) /\ kind[r] # "ping"
    BY <1>2 DEF SpawnInv, SpawnUnderWay, ExecuteSpawn, Answer, Spawns
  <2>3. CASE r \in served
    BY <1>2, <2>1, <2>3, SpawnUnseen DEF SpawnAllowed, SpawnSeen, ServedSpawns, ExecuteSpawn, Answer
  <2>4. CASE r \notin served
    <3>1. Promise!Serve(r)
      BY <1>2, <2>2, <2>4 DEF SpawnInv, TypeOK, SpawnAsked, ExecuteSpawn, Answer, Promise!Serve
    <3>2. QED BY <2>1, <3>1 DEF SpawnAllowed, Promise!Next
  <2>5. QED BY <2>3, <2>4
<1>3. QED BY <1>1, <1>2

(* An answer returns to the waiter of its own request, if it still waits.  *)
LEMMA SpawnCompleteOK ==
    ASSUME SpawnInv, NEW r \in Call, NEW success \in BOOLEAN, Complete(r, success)
    PROVE  SpawnInv' /\ SpawnAllowed
<1>1. SpawnInv'
  <2>1. TypeOK'
    BY DEF SpawnInv, TypeOK, Complete, remoteVars
  <2>2. SpawnUnderWay'
    BY DEF SpawnInv, TypeOK, SpawnUnderWay, SpawnAsked, Complete, remoteVars
  <2>3. QED BY <2>1, <2>2 DEF SpawnInv, Complete, remoteVars
<1>2. CASE r \in pending /\ outcome[r] = "pending" /\ kind[r] # "ping"
  <2>1. r \in {q \in served : kind[q] # "ping"}
    BY <1>2 DEF SpawnInv, SpawnUnderWay, Complete
  <2>2. Promise!Return(r)
    <3>1. SpawnSeen(r) = "pending" /\ SpawnSeen(r)' = "answered"
      BY <1>2 DEF SpawnInv, TypeOK, SpawnSeen, Complete
    <3>2. \A q \in Call \ {r} : SpawnSeen(q)' = SpawnSeen(q)
      BY <1>2 DEF SpawnInv, TypeOK, SpawnSeen, Complete
    <3>3. UNCHANGED ServedSpawns
      BY DEF ServedSpawns, Complete, remoteVars
    <3>4. QED BY <2>1, <3>1, <3>2, <3>3, SpawnSeenStep DEF Promise!Return
  <2>3. QED BY <1>1, <2>2 DEF SpawnAllowed, Promise!Next
<1>3. CASE ~(r \in pending /\ outcome[r] = "pending" /\ kind[r] # "ping")
  <2>1. \A q \in Call : SpawnSeen(q)' = SpawnSeen(q)
    BY <1>3 DEF SpawnInv, TypeOK, SpawnSeen, Complete
  <2>2. QED BY <1>1, <2>1, SpawnUnseen DEF SpawnAllowed, ServedSpawns, Complete, remoteVars
<1>4. QED BY <1>2, <1>3

LEMMA SpawnStepOK == ASSUME SpawnInv, [Next]_vars PROVE SpawnInv' /\ SpawnAllowed
<1>1. CASE UNCHANGED vars
  BY <1>1 DEF SpawnInv, TypeOK, SpawnUnderWay, SpawnAsked, vars, netVars, remoteVars, SpawnAllowed, Promise!vars
<1>2. CASE SpawnSilent
  BY <1>2, SpawnSilentOK DEF SpawnAllowed
<1>3. ASSUME NEW r \in Call, Request(r) \/ TimesOut(r) PROVE SpawnInv' /\ SpawnAllowed
  BY <1>3, SpawnCallerOK
<1>4. ASSUME NEW r \in Call, HandlePing(r) \/ ExecuteSpawn(r) PROVE SpawnInv' /\ SpawnAllowed
  BY <1>4, SpawnServingOK
<1>5. ASSUME NEW r \in Call, NEW success \in BOOLEAN, Complete(r, success)
      PROVE  SpawnInv' /\ SpawnAllowed
  BY <1>5, SpawnCompleteOK
<1>6. QED BY <1>1, <1>2, <1>3, <1>4, <1>5 DEF Next, SpawnSilent

(* spawn_impl, execute_spawn, complete_spawn: what a spawn promises is what *)
(* a call promises, whatever times out, is lost or comes too late.          *)
THEOREM SpawnsCorrect == Spec => SpawnsImplement
<1>1. Init => SpawnInv /\ Promise!Init
  BY SpawnInitOK
<1>2. SpawnInv /\ [Next]_vars => SpawnInv' /\ [Promise!Next]_(Promise!vars)
  BY SpawnStepOK DEF SpawnAllowed
<1>3. QED BY <1>1, <1>2, PTL DEF Spec, SpawnsImplement, Promise!Spec

(* Every reachable state of the tables of requests is well formed: only     *)
(* spawned processes that were known to be monitored are reported.         *)
THEOREM SpawnTypeCorrect == Spec => []TypeOK
<1>1. Init => SpawnInv
  BY SpawnInitOK
<1>2. SpawnInv /\ [Next]_vars => SpawnInv'
  BY SpawnStepOK
<1>3. SpawnInv => TypeOK
  BY DEF SpawnInv
<1>4. QED BY <1>1, <1>2, <1>3, PTL DEF Spec

LEMMA SpawnFocus == [ClusterNext]_clusterVars => [Next]_vars
<1>1. ClusterNext => Next \/ UNCHANGED vars
  BY DEF ClusterNext
<1>2. UNCHANGED clusterVars => UNCHANGED vars
  BY DEF clusterVars
<1>3. QED BY <1>1, <1>2

(* The same of the spawns of a cluster.                                     *)
THEOREM ClusterSpawnsCorrect == ClusterSpec => SpawnsImplement
<1>1. ClusterInit => SpawnInv /\ Promise!Init
  BY SpawnInitOK DEF ClusterInit
<1>2. SpawnInv /\ [ClusterNext]_clusterVars => SpawnInv' /\ [Promise!Next]_(Promise!vars)
  BY SpawnFocus, SpawnStepOK DEF SpawnAllowed
<1>3. QED BY <1>1, <1>2, PTL DEF ClusterSpec, SpawnsImplement, Promise!Spec

-----------------------------------------------------------------------------
(* The sender waits only while the receiver has the mutex.                 *)
LinkWaits == \A c \in BeamConn : bl_sender[c] = "waits" => bl_receiver[c] = "receives"

(* Before the handshake is done there is nothing to send and nobody to     *)
(* wait.                                                                   *)
LinkNotYet ==
    \A c \in BeamConn :
        bl_stage[c] # "done" =>
            bl_entry # c /\ bl_queue[c] = 0 /\ bl_sender[c] = "rest" /\ bl_receiver[c] = "none"

LinkInv == Beam!TypeOK /\ LinkWaits /\ LinkNotYet

(* What a step may not do: the receiver takes the mutex while the sender    *)
(* waits for it.                                                           *)
LinkTurn == \A c \in BeamConn :
            bl_receiver[c] = "waits" /\ bl_receiver'[c] = "receives" => bl_sender[c] # "waits"

LEMMA LinkInitOK == ASSUME Beam!Init PROVE LinkInv
  BY LinkAssumption DEF Beam!Init, LinkInv, Beam!TypeOK, LinkWaits, LinkNotYet

(* Messages that are queued or arrive move neither task.                   *)
LEMMA LinkMessagesOK ==
    ASSUME LinkInv, Beam!SendToErlang \/ \E c \in BeamConn : Beam!Arrives(c)
    PROVE  LinkInv' /\ LinkTurn
<1>1. CASE Beam!SendToErlang
  BY <1>1, LinkAssumption DEF LinkInv, Beam!TypeOK, LinkWaits, LinkNotYet, LinkTurn, Beam!SendToErlang
<1>2. ASSUME NEW c \in BeamConn, Beam!Arrives(c) PROVE LinkInv' /\ LinkTurn
  BY <1>2 DEF LinkInv, Beam!TypeOK, LinkWaits, LinkNotYet, LinkTurn, Beam!Arrives
<1>3. QED BY <1>1, <1>2

(* A handshake makes the receiver of a connection whose sender rests.      *)
LEMMA LinkConnectingOK ==
    ASSUME LinkInv, NEW c \in BeamConn, Beam!ConnectErlang(c) \/ Beam!Connected(c)
    PROVE  LinkInv' /\ LinkTurn
<1>1. CASE Beam!ConnectErlang(c)
  BY <1>1 DEF LinkInv, Beam!TypeOK, LinkWaits, LinkNotYet, LinkTurn, Beam!ConnectErlang
<1>2. CASE Beam!Connected(c)
  BY <1>2 DEF LinkInv, Beam!TypeOK, LinkWaits, LinkNotYet, LinkTurn, Beam!Connected
<1>3. QED BY <1>1, <1>2

(* The receiver gives the mutex to a sender that waits, and takes it only   *)
(* when nobody has it: then nobody waits.                                  *)
LEMMA LinkReceiverOK ==
    ASSUME LinkInv, NEW c \in BeamConn,
           Beam!ReceiverLocks(c) \/ Beam!Receives(c) \/ Beam!ReceiverLoops(c) \/ Beam!ReceiveFails(c) \/ Beam!ReceiverEnds(c)
    PROVE  LinkInv' /\ LinkTurn
<1>1. CASE Beam!ReceiverLocks(c)
  BY <1>1 DEF LinkInv, Beam!TypeOK, LinkWaits, LinkNotYet, LinkTurn, Beam!ReceiverLocks, Beam!Receiver, Beam!Held
<1>2. CASE Beam!Receives(c)
  BY <1>2 DEF LinkInv, Beam!TypeOK, LinkWaits, LinkNotYet, LinkTurn, Beam!Receives, Beam!Receiver, Beam!Passes
<1>3. CASE Beam!ReceiverLoops(c)
  BY <1>3 DEF LinkInv, Beam!TypeOK, LinkWaits, LinkNotYet, LinkTurn, Beam!ReceiverLoops, Beam!Receiver
<1>4. CASE Beam!ReceiveFails(c)
  BY <1>4 DEF LinkInv, Beam!TypeOK, LinkWaits, LinkNotYet, LinkTurn, Beam!ReceiveFails, Beam!Receiver, Beam!Passes
<1>5. CASE Beam!ReceiverEnds(c)
  BY <1>5, LinkAssumption DEF LinkInv, Beam!TypeOK, LinkWaits, LinkNotYet, LinkTurn, Beam!ReceiverEnds, Beam!Receiver
<1>6. QED BY <1>1, <1>2, <1>3, <1>4, <1>5

(* The sender waits only where the receiver has the mutex.                 *)
LEMMA LinkSenderOK ==
    ASSUME LinkInv, NEW c \in BeamConn, Beam!SenderTakes(c) \/ Beam!Sends(c) \/ Beam!SenderEnds(c)
    PROVE  LinkInv' /\ LinkTurn
<1>1. CASE Beam!SenderTakes(c)
  BY <1>1, LinkAssumption DEF LinkInv, Beam!TypeOK, LinkWaits, LinkNotYet, LinkTurn, Beam!SenderTakes, Beam!Held
<1>2. CASE Beam!Sends(c)
  BY <1>2 DEF LinkInv, Beam!TypeOK, LinkWaits, LinkNotYet, LinkTurn, Beam!Sends
<1>3. CASE Beam!SenderEnds(c)
  BY <1>3 DEF LinkInv, Beam!TypeOK, LinkWaits, LinkNotYet, LinkTurn, Beam!SenderEnds
<1>4. QED BY <1>1, <1>2, <1>3

LEMMA LinkStepOK == ASSUME LinkInv, [Beam!Next]_(Beam!vars) PROVE LinkInv' /\ [LinkTurn]_(Beam!vars)
<1>1. CASE UNCHANGED Beam!vars
  BY <1>1 DEF LinkInv, Beam!TypeOK, LinkWaits, LinkNotYet, Beam!vars
<1>2. CASE Beam!Next
  <2>1. CASE Beam!SendToErlang \/ \E c \in BeamConn : Beam!Arrives(c)
    BY <2>1, LinkMessagesOK
  <2>2. ASSUME NEW c \in BeamConn, Beam!ConnectErlang(c) \/ Beam!Connected(c) PROVE LinkInv' /\ LinkTurn
    BY <2>2, LinkConnectingOK
  <2>3. ASSUME NEW c \in BeamConn,
               \/ Beam!ReceiverLocks(c) \/ Beam!Receives(c) \/ Beam!ReceiverLoops(c)
               \/ Beam!ReceiveFails(c) \/ Beam!ReceiverEnds(c)
        PROVE  LinkInv' /\ LinkTurn
    BY <2>3, LinkReceiverOK
  <2>4. ASSUME NEW c \in BeamConn, Beam!SenderTakes(c) \/ Beam!Sends(c) \/ Beam!SenderEnds(c)
        PROVE  LinkInv' /\ LinkTurn
    BY <2>4, LinkSenderOK
  <2>5. QED BY <1>2, <2>1, <2>2, <2>3, <2>4 DEF Beam!Next, Beam!Progress
<1>3. QED BY <1>1, <1>2

LEMMA LinkFocus == [ClusterNext]_clusterVars => [Beam!Next]_(Beam!vars)
<1>1. ClusterNext => Beam!Next \/ UNCHANGED blVars
  BY DEF ClusterNext
<1>2. UNCHANGED clusterVars => UNCHANGED blVars
  BY DEF clusterVars
<1>3. UNCHANGED blVars => UNCHANGED Beam!vars
  BY DEF blVars, Beam!vars
<1>4. QED BY <1>1, <1>2, <1>3

(* manager.rs, the sender and the receiver task of connect_erlang: a        *)
(* message that waits for the mutex of its connection waits for at most one *)
(* message of the other side.                                              *)
THEOREM TurnCorrect == ClusterSpec => SenderHasItsTurn
<1>1. ClusterInit => LinkInv
  BY LinkInitOK DEF ClusterInit
<1>2. LinkInv /\ [ClusterNext]_clusterVars => LinkInv' /\ [LinkTurn]_(Beam!vars)
  BY LinkFocus, LinkStepOK
<1>3. ClusterSpec => [][LinkTurn]_(Beam!vars)
  BY <1>1, <1>2, PTL DEF ClusterSpec
<1>4. QED BY <1>3 DEF SenderHasItsTurn, Beam!SenderHasItsTurn, LinkTurn

=============================================================================
