-------------------------------- MODULE PubSub --------------------------------
(***************************************************************************)
(* pubsub/server.rs: one PubSub server of the same name at each of two     *)
(* nodes, and the processes that subscribe at their server and broadcast.  *)
(*                                                                         *)
(* A server is a GenServer: it takes one message at a time, and a turn is  *)
(* one action.  Its registry is a duplicate one that no other task writes. *)
(* Servers know each other through a process group; the connection between *)
(* the nodes is not lost here.                                             *)
(***************************************************************************)
EXTENDS Naturals, Sequences

CONSTANTS
    ProcA, ProcB,  \* the processes of the one and of the other node
    Topic,
    CallBudgets,   \* bounds of the behaviours: calls each process may make
    MaxBroadcasts  \* bound: broadcasts of all processes

Node == {"a", "b"}
Process == ProcA \cup ProcB
Home(p) == IF p \in ProcA THEN "a" ELSE "b"
Peer(n) == IF n = "a" THEN "b" ELSE "a"
Msg == 1 .. MaxBroadcasts
Nobody == "nobody"
NoTopic == "no_topic"

(* A call, a broadcast or the first message of a server; ref numbers the   *)
(* calls of a process and the broadcasts.                                  *)
CallKind == {"subscribe", "unsubscribe", "unsubscribe_all", "subscribers"}
CastKind == {"broadcast", "local_broadcast"}
Message == [kind : CallKind \cup CastKind \cup {"idle", "complete_init", "raw"},
            by : Process \cup {Nobody}, topic : Topic \cup {NoTopic},
            pid : Process \cup {Nobody}, ref : Nat]
Idle == [kind |-> "idle", by |-> Nobody, topic |-> NoTopic, pid |-> Nobody, ref |-> 0]
CompleteInit == [Idle EXCEPT !.kind = "complete_init"]

VARIABLES
    mailbox,     \* what each server has yet to take
    wire,        \* what a server has sent to its peer
    named,       \* the server is registered under its name
    known,       \* get_members(pg_group) at a node has the server of the peer
    entries,     \* the registry of each server: how often it has a process under a topic
    calling,     \* the call each process waits for
    replied,     \* the reference of the last reply sent to each process
    budget,      \* calls each process may still make
    nextMsg,     \* the next broadcast
    topicOf,     \* the topic of each broadcast
    origin,      \* the node of whoever made each broadcast
    reached,     \* history: copies put into mailboxes, as <<message, process>>
    subscribed,  \* history: subscriptions that were answered, as <<process, topic>>
    silent,      \* history: unsubscriptions that were answered
    awaited,     \* history: what the call of a process will bring about, as <<process, topic>>
    due          \* history: who was a subscriber when a broadcast was made

callVars == <<calling, replied, budget, subscribed, silent, awaited>>
castVars == <<nextMsg, topicOf, origin, due>>
vars == <<mailbox, wire, named, known, entries, callVars, castVars, reached>>

TypeOK ==
    /\ mailbox \in [Node -> Seq(Message)] /\ wire \in [Node -> Seq(Message)]
    /\ named \in [Node -> BOOLEAN] /\ known \in [Node -> BOOLEAN]
    /\ entries \in [Node -> [Topic -> [Process -> Nat]]]
    /\ calling \in [Process -> Message] /\ replied \in [Process -> Nat]
    /\ budget \in [Process -> Nat] /\ nextMsg \in 1 .. MaxBroadcasts + 1
    /\ topicOf \in [Msg -> Topic \cup {NoTopic}] /\ origin \in [Msg -> Node \cup {Nobody}]
    /\ reached \subseteq Msg \X Process /\ due \subseteq Msg \X Process
    /\ subscribed \subseteq Process \X Topic /\ silent \subseteq Process \X Topic
    /\ awaited \in [Process -> SUBSET (Process \X Topic)]

(* start_link(): the server takes its first message from a task of its own.*)
Init ==
    /\ mailbox = [n \in Node |-> <<CompleteInit>>]
    /\ wire = [n \in Node |-> <<>>]
    /\ named = [n \in Node |-> FALSE] /\ known = named
    /\ entries = [n \in Node |-> [t \in Topic |-> [p \in Process |-> 0]]]
    /\ calling = [p \in Process |-> Idle]
    /\ replied = [p \in Process |-> 0]
    /\ budget \in CallBudgets /\ nextMsg = 1
    /\ topicOf = [m \in Msg |-> NoTopic] /\ origin = [m \in Msg |-> Nobody]
    /\ reached = {} /\ subscribed = {} /\ silent = {} /\ due = {}
    /\ awaited = [p \in Process |-> {}]

-----------------------------------------------------------------------------
(* The processes.  A server is found by its name, at the caller's node.    *)
Post(n, m) == mailbox' = [mailbox EXCEPT ![n] = Append(@, m)]

(* Whose subscription to what a call is about: a server minds those of the *)
(* processes of its node only.                                             *)
Concerns(p, kind, t, q) ==
    {q} \X (IF Home(q) # Home(p) \/ kind = "subscribers" THEN {}
            ELSE IF kind = "unsubscribe_all" THEN Topic ELSE {t})

(* subscribe_pid(), unsubscribe_pid(), unsubscribe_all(), subscribers().   *)
(* A call takes back what was brought about, or is awaited, by the calls   *)
(* to the contrary.                                                        *)
MakeCall(p, kind, t, q) ==
    /\ named[Home(p)] /\ calling[p] = Idle /\ budget[p] > 0
    /\ kind = "subscribers" => q = p  \* it names no process
    /\ LET m == [kind |-> kind, by |-> p, topic |-> t, pid |-> q, ref |-> budget[p]]
       IN  Post(Home(p), m) /\ calling' = [calling EXCEPT ![p] = m]
    /\ budget' = [budget EXCEPT ![p] = @ - 1]
    /\ LET about == Concerns(p, kind, t, q)
       IN  /\ awaited' = [x \in Process |->
                  IF x = p THEN about
                  ELSE IF (calling[x].kind = "subscribe") = (kind = "subscribe") THEN awaited[x]
                  ELSE awaited[x] \ about]
           /\ IF kind = "subscribe"
              THEN silent' = silent \ about /\ UNCHANGED <<subscribed, due>>
              ELSE /\ subscribed' = subscribed \ about
                   /\ due' = {d \in due : <<d[2], topicOf[d[1]]>> \notin about}
                   /\ UNCHANGED silent
    /\ UNCHANGED <<wire, named, known, entries, replied, nextMsg, topicOf, origin, reached>>

CallReturns(p) ==
    /\ calling[p] # Idle /\ replied[p] = calling[p].ref
    /\ calling' = [calling EXCEPT ![p] = Idle]
    /\ IF calling[p].kind = "subscribe"
       THEN subscribed' = subscribed \cup awaited[p] /\ UNCHANGED silent
       ELSE silent' = silent \cup awaited[p] /\ UNCHANGED subscribed
    /\ awaited' = [awaited EXCEPT ![p] = {}]
    /\ UNCHANGED <<mailbox, wire, named, known, entries, replied, budget, castVars, reached>>

CallTimesOut(p) ==
    /\ calling[p] # Idle
    /\ calling' = [calling EXCEPT ![p] = Idle]
    /\ awaited' = [awaited EXCEPT ![p] = {}]
    /\ UNCHANGED <<mailbox, wire, named, known, entries, replied, budget, subscribed, silent, castVars, reached>>

(* broadcast(), local_broadcast() and the two that exclude a process.      *)
Broadcast(p, kind, t, exclude) ==
    /\ named[Home(p)] /\ calling[p] = Idle /\ nextMsg \in Msg
    /\ Post(Home(p), [kind |-> kind, by |-> p, topic |-> t, pid |-> exclude, ref |-> nextMsg])
    /\ topicOf' = [topicOf EXCEPT ![nextMsg] = t]
    /\ origin' = [origin EXCEPT ![nextMsg] = Home(p)]
    /\ nextMsg' = nextMsg + 1
    /\ due' = due \cup {<<nextMsg, q>> : q \in {x \in Process \ {exclude} :
                   /\ <<x, t>> \in subscribed
                   /\ Home(x) = Home(p) \/ (kind = "broadcast" /\ known[Home(p)])}}
    /\ UNCHANGED <<wire, named, known, entries, callVars, reached>>

-----------------------------------------------------------------------------
(* The servers. *)
Takes(n, kinds) ==
    /\ mailbox[n] # <<>> /\ Head(mailbox[n]).kind \in kinds
    /\ mailbox' = [mailbox EXCEPT ![n] = Tail(@)]

(* pg::join and the registration of the name. *)
HandleContinue(n) ==
    /\ Takes(n, {"complete_init"})
    /\ named' = [named EXCEPT ![n] = TRUE]
    /\ UNCHANGED <<wire, known, entries, callVars, castVars, reached>>

(* The group of the peer learns of the new member, by pg's own messages.   *)
LearnMember(n) ==
    /\ named[Peer(n)] /\ ~known[n]
    /\ known' = [known EXCEPT ![n] = TRUE]
    /\ UNCHANGED <<mailbox, wire, named, entries, callVars, castVars, reached>>

(* Mutant of Unregister: everything under the key.                        *)
UnregisterKey(count, p) == [q \in Process |-> 0]

(* retain(): a process that has subscribed twice has two entries.          *)
Unregister(count, p) == [count EXCEPT ![p] = 0]

(* What a call leaves of the entries of a topic.                           *)
Registered(n, m, t) ==
    IF m.kind = "subscribe" /\ Home(m.pid) = n /\ m.topic = t
    THEN [entries[n][t] EXCEPT ![m.pid] = @ + 1]
    ELSE IF \/ m.kind = "unsubscribe" /\ Home(m.pid) = n /\ m.topic = t
            \/ m.kind = "unsubscribe_all"
    THEN Unregister(entries[n][t], m.pid)
    ELSE entries[n][t]

HandleCall(n) ==
    /\ Takes(n, CallKind)
    /\ LET m == Head(mailbox[n])
       IN  /\ entries' = [entries EXCEPT ![n] = [t \in Topic |-> Registered(n, m, t)]]
           /\ replied' = [replied EXCEPT ![m.by] = m.ref]
    /\ UNCHANGED <<wire, named, known, calling, budget, subscribed, silent, awaited, castVars, reached>>

(* dispatch_local: a copy for each entry but the excluded process's.       *)
Dispatch(n, m) ==
    reached' = reached \cup
        {<<m.ref, p>> : p \in {q \in Process : entries[n][m.topic][q] > 0} \ {m.pid}}

(* forward_to_remote_nodes: the bytes go without the envelope of a cast.   *)
HandleCast(n) ==
    /\ Takes(n, CastKind)
    /\ LET m == Head(mailbox[n])
       IN  /\ Dispatch(n, m)
           /\ wire' = IF m.kind = "broadcast" /\ known[n]
                      THEN [wire EXCEPT ![n] = Append(@, [m EXCEPT !.kind = "raw"])] ELSE wire
    /\ UNCHANGED <<named, known, entries, callVars, castVars>>

Arrive(n) ==
    /\ wire[Peer(n)] # <<>>
    /\ wire' = [wire EXCEPT ![Peer(n)] = Tail(@)]
    /\ Post(n, Head(wire[Peer(n)]))
    /\ UNCHANGED <<named, known, entries, callVars, castVars, reached>>

(* Bytes that are no envelope, no ProtocolMessage and no PubSubInfo go to  *)
(* handle_raw_info(), which PubSub leaves as it is: it does nothing.       *)
HandleRawInfo(n) ==
    /\ Takes(n, {"raw"})
    /\ UNCHANGED <<wire, named, known, entries, callVars, castVars, reached>>

-----------------------------------------------------------------------------
Next ==
    \/ \E n \in Node :
          \/ HandleContinue(n) \/ LearnMember(n) \/ HandleCall(n) \/ HandleCast(n)
          \/ Arrive(n) \/ HandleRawInfo(n)
    \/ \E p \in Process :
          \/ CallReturns(p) \/ CallTimesOut(p)
          \/ \E t \in Topic, kind \in CallKind, q \in Process : MakeCall(p, kind, t, q)
          \/ \E t \in Topic, kind \in CastKind, x \in Process \cup {Nobody} : Broadcast(p, kind, t, x)

Spec == Init /\ [][Next]_vars

-----------------------------------------------------------------------------
Quiet == \A n \in Node : mailbox[n] = <<>> /\ wire[n] = <<>>

(* A process whose unsubscription was answered gets no further copy of     *)
(* that topic until somebody subscribes it again, however often it had     *)
(* subscribed and whatever else had been asked before: what was queued     *)
(* earlier, broadcasts and subscriptions, has been dispatched by then.     *)
UnsubscribedSilent ==
    [][\A c \in reached' \ reached : <<c[2], topicOf[c[1]]>> \notin silent]_vars

(* Whoever has subscribed at its node gets every broadcast made there from *)
(* then on, unless it unsubscribes or is excluded.                         *)
LocalHears == Quiet => \A d \in due : Home(d[2]) = origin[d[1]] => d \in reached

(* "Broadcast a message to all subscribers of a topic (local + remote)."   *)
RemoteHears == Quiet => due \subseteq reached
=============================================================================
