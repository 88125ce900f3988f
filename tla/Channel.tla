------------------------------- MODULE Channel -------------------------------
(***************************************************************************)
(* channel/{core,transport,websocket}.rs: the sessions of connected        *)
(* clients, each a process that reads the requests of its client and its   *)
(* own mailbox in turn, and the channels its client has joined.            *)
(*                                                                         *)
(* A callback of a channel is awaited, so that its beginning and its end   *)
(* are steps of their own.  What callbacks return is chosen freely, as is  *)
(* the success of a write to the client.                                   *)
(***************************************************************************)
EXTENDS Naturals, Sequences, FiniteSets

CONSTANTS
    Session,
    Transport,    \* of these the sessions run by run_transport_loop; the others are WebSocket ones
    Topic,
    Handled,      \* of these the topics some registered channel matches
    MaxRequests,  \* bound: requests of all clients
    MaxSends      \* bound: broadcasts and other messages to sessions

WebSocket == Session \ Transport
Other == "other"  \* a message that is no ChannelReply
NoTopic == "no_topic"
Idle == [op |-> "idle", topic |-> NoTopic, todo |-> {}, results |-> {}]
Doing(op, t) == [Idle EXCEPT !.op = op, !.topic = t]
Callback == {"join", "event", "leave", "stop", "info", "terminate"}

VARIABLES
    stage,    \* of each session; "failed" and "panicked" are ends without clean-up
    doing,    \* the request or message a session is working on
    joined,   \* channels: the topics each session has an instance for
    group,    \* the members of the process group of each topic
    mailbox,  \* pushes, by their topic, and other messages
    told,     \* what the last successful reply about a topic told the client
    stopped,  \* history: topics a channel has left of itself since the last join
    requests, sends  \* counters of the bounds

vars == <<stage, doing, joined, group, mailbox, told, stopped, requests, sends>>

TypeOK ==
    /\ stage \in [Session -> {"open", "closing", "ended", "failed", "panicked"}]
    /\ doing \in [Session -> [op : Callback \cup {"idle"}, topic : Topic \cup {NoTopic},
                              todo : SUBSET Topic, results : SUBSET Topic]]
    /\ joined \in [Session -> SUBSET Handled]
    /\ group \in [Topic -> SUBSET Session]
    /\ mailbox \in [Session -> Seq(Topic \cup {Other})]
    /\ told \in [Session -> [Topic -> {"nothing", "joined", "left", "unknown"}]]
    /\ stopped \subseteq Session \X Topic
    /\ requests \in 0 .. MaxRequests /\ sends \in 0 .. MaxSends

Init ==
    /\ stage = [c \in Session |-> "open"]
    /\ doing = [c \in Session |-> Idle]
    /\ joined = [c \in Session |-> {}]
    /\ group = [t \in Topic |-> {}]
    /\ mailbox = [c \in Session |-> <<>>]
    /\ told = [c \in Session |-> [t \in Topic |-> "nothing"]]
    /\ stopped = {} /\ requests = 0 /\ sends = 0

-----------------------------------------------------------------------------
Running(c) == stage[c] \in {"open", "closing"}
Begins(c, d) == doing' = [doing EXCEPT ![c] = d]
Ends(c) == Begins(c, Idle)

(* The topics of a set, one after another. *)
Order(S) == CHOOSE s \in [1 .. Cardinality(S) -> S] : \A i, j \in DOMAIN s : s[i] = s[j] => i = j

(* A copy for every member of the groups of some topics but one session;   *)
(* a process that is no more takes none.                                   *)
Nobody == "nobody"
Copies(topics, but) ==
    /\ sends + Cardinality(topics) <= MaxSends
    /\ sends' = sends + Cardinality(topics)
    /\ mailbox' = [c \in Session |->
           IF c = but \/ ~Running(c) THEN mailbox[c]
           ELSE mailbox[c] \o Order({t \in topics : c \in group[t]})]

(* A reply is written.  When that fails a transport returns with the error *)
(* and cleans nothing up; a WebSocket session goes on.                     *)
Replies(c, t, answer) ==
    \/ told' = [told EXCEPT ![c][t] = answer] /\ UNCHANGED stage
    \/ /\ stage' = IF c \in Transport THEN [stage EXCEPT ![c] = "failed"] ELSE stage
       /\ told' = [told EXCEPT ![c][t] = "unknown"]

-----------------------------------------------------------------------------
(* The requests of the client. *)
Request(c) ==
    /\ stage[c] = "open" /\ doing[c] = Idle
    /\ requests < MaxRequests
    /\ requests' = requests + 1

(* phx_join: refused when joined or when no handler matches the topic.     *)
Join(c, t) ==
    /\ Request(c)
    /\ IF t \in joined[c] \/ t \notin Handled
       THEN Replies(c, t, told[c][t]) /\ UNCHANGED doing
       ELSE Begins(c, Doing("join", t)) /\ UNCHANGED <<stage, told>>
    /\ UNCHANGED <<joined, group, mailbox, stopped, sends>>

JoinReturns(c) ==
    LET t == doing[c].topic
    IN  /\ doing[c].op = "join"
        /\ Ends(c)
        /\ \/ /\ group' = [group EXCEPT ![t] = @ \cup {c}]
              /\ joined' = [joined EXCEPT ![c] = @ \cup {t}]
              /\ stopped' = stopped \ {<<c, t>>}
              /\ Replies(c, t, "joined")
           \/ Replies(c, t, told[c][t]) /\ UNCHANGED <<group, joined, stopped>>
        /\ UNCHANGED <<mailbox, requests, sends>>

(* The channel goes and terminate() is called; the group comes after it.   *)
Terminates(c, op, t) ==
    /\ joined' = [joined EXCEPT ![c] = @ \ {t}]
    /\ Begins(c, Doing(op, t))

(* phx_leave: answered with ok, joined or not. *)
Leave(c, t) ==
    /\ Request(c)
    /\ IF t \in joined[c]
       THEN Terminates(c, "leave", t) /\ UNCHANGED <<stage, told>>
       ELSE Replies(c, t, "left") /\ UNCHANGED <<joined, doing>>
    /\ UNCHANGED <<group, mailbox, stopped, sends>>

(* Mutant of LeaveGroup: terminate() is the last that is done. *)
LeaveGroupNot(c, t) == UNCHANGED group

LeaveGroup(c, t) == group' = [group EXCEPT ![t] = @ \ {c}]

(* The end of terminate(), after a request to leave, the Stop of a channel *)
(* or the end of the connection.  Of a Stop the client hears nothing.      *)
TerminateReturns(c) ==
    LET t == doing[c].topic
    IN  /\ doing[c].op \in {"leave", "stop", "terminate"}
        /\ LeaveGroup(c, t)
        /\ Ends(c)
        /\ stopped' = IF doing[c].op = "stop" THEN stopped \cup {<<c, t>>} ELSE stopped
        /\ IF doing[c].op = "leave" THEN Replies(c, t, "left") ELSE UNCHANGED <<stage, told>>
        /\ UNCHANGED <<joined, mailbox, requests, sends>>

(* Any other event: without a channel an error or nothing. *)
Event(c, t) ==
    /\ Request(c)
    /\ IF t \in joined[c]
       THEN Begins(c, Doing("event", t)) /\ UNCHANGED <<stage, told>>
       ELSE UNCHANGED doing /\ Replies(c, t, told[c][t])
    /\ UNCHANGED <<joined, group, mailbox, stopped, sends>>

(* handle_event returns: NoReply, Reply and Push touch the client only,    *)
(* Broadcast and BroadcastFrom reach the group, Stop leaves the channel.   *)
EventReturns(c) ==
    LET t == doing[c].topic
    IN  /\ doing[c].op = "event"
        /\ \/ Ends(c) /\ Replies(c, t, told[c][t]) /\ UNCHANGED <<mailbox, joined, sends>>
           \/ /\ Ends(c) /\ Replies(c, t, told[c][t])
              /\ \E but \in {c, Nobody} : Copies({t}, but)
              /\ UNCHANGED joined
           \/ Terminates(c, "stop", t) /\ UNCHANGED <<stage, told, mailbox, sends>>
        /\ UNCHANGED <<group, stopped, requests>>

-----------------------------------------------------------------------------
(* The mailbox: every message goes to handle_info of each joined channel.  *)
(* A push is written to the client, by a transport before, by a WebSocket  *)
(* session after that.                                                     *)
Mail(c) ==
    /\ stage[c] = "open" /\ doing[c] = Idle /\ mailbox[c] # <<>>
    /\ mailbox' = [mailbox EXCEPT ![c] = Tail(@)]
    /\ \/ /\ Begins(c, [Doing("info", IF Head(mailbox[c]) = Other THEN NoTopic ELSE Head(mailbox[c]))
                           EXCEPT !.todo = joined[c]])
          /\ UNCHANGED stage
       \/ /\ Head(mailbox[c]) # Other /\ c \in Transport
          /\ stage' = [stage EXCEPT ![c] = "failed"]
          /\ UNCHANGED doing
    /\ UNCHANGED <<joined, group, told, stopped, requests, sends>>

(* Only the Broadcast results of a WebSocket session are acted upon.       *)
InfoReturns(c) ==
    /\ doing[c].op = "info"
    /\ \E t \in doing[c].todo : \E results \in {doing[c].results, doing[c].results \cup {t}} :
          Begins(c, [doing[c] EXCEPT !.todo = @ \ {t}, !.results = IF c \in WebSocket THEN results ELSE @])
    /\ UNCHANGED <<stage, joined, group, mailbox, told, stopped, requests, sends>>

MailDone(c) ==
    /\ doing[c].op = "info" /\ doing[c].todo = {}
    /\ Copies(doing[c].results, Nobody)
    /\ Ends(c)
    /\ \/ UNCHANGED stage
       \/ /\ doing[c].topic # NoTopic /\ c \in WebSocket
          /\ stage' = [stage EXCEPT ![c] = "closing"]
    /\ UNCHANGED <<joined, group, told, stopped, requests>>

(* Any other process sends the session a message. *)
Inform(c) ==
    /\ Running(c) /\ sends < MaxSends
    /\ sends' = sends + 1
    /\ mailbox' = [mailbox EXCEPT ![c] = Append(@, Other)]
    /\ UNCHANGED <<stage, doing, joined, group, told, stopped, requests>>

-----------------------------------------------------------------------------
(* What callbacks do: broadcast to the topic, with or without the sender,  *)
(* push to the client by way of the own mailbox, and call a server, which  *)
(* throws away what comes into the mailbox before the reply.               *)
CallbackSends(c) ==
    LET t == doing[c].topic
    IN  /\ doing[c].op \in Callback \ {"info"}
        /\ \/ \E but \in {c, Nobody} : Copies({t}, but)
           \/ /\ sends < MaxSends /\ sends' = sends + 1
              /\ mailbox' = [mailbox EXCEPT ![c] = Append(@, t)]
        /\ UNCHANGED <<stage, doing, joined, group, told, stopped, requests>>

CallbackCalls(c) ==
    /\ doing[c].op \in Callback /\ mailbox[c] # <<>>
    /\ mailbox' = [mailbox EXCEPT ![c] = Tail(@)]
    /\ UNCHANGED <<stage, doing, joined, group, told, stopped, requests, sends>>

(* A callback panics: the process is no more, and nothing is cleaned up.   *)
Panic(c) ==
    /\ doing[c].op \in Callback
    /\ stage' = [stage EXCEPT ![c] = "panicked"]
    /\ Ends(c)
    /\ mailbox' = [mailbox EXCEPT ![c] = <<>>]
    /\ UNCHANGED <<joined, group, told, stopped, requests, sends>>

-----------------------------------------------------------------------------
(* The connection ends: the channels are terminated one after another.     *)
Disconnect(c) ==
    /\ stage[c] = "open" /\ doing[c] = Idle
    /\ stage' = [stage EXCEPT ![c] = "closing"]
    /\ UNCHANGED <<doing, joined, group, mailbox, told, stopped, requests, sends>>

TerminateNext(c) ==
    /\ stage[c] = "closing" /\ doing[c] = Idle
    /\ \/ /\ \E t \in joined[c] : Terminates(c, "terminate", t)
          /\ UNCHANGED <<stage, mailbox>>
       \/ /\ joined[c] = {}
          /\ stage' = [stage EXCEPT ![c] = "ended"]
          /\ mailbox' = [mailbox EXCEPT ![c] = <<>>]
          /\ UNCHANGED <<joined, doing>>
    /\ UNCHANGED <<group, told, stopped, requests, sends>>

Next ==
    \E c \in Session :
        \/ \E t \in Topic : Join(c, t) \/ Leave(c, t) \/ Event(c, t)
        \/ JoinReturns(c) \/ TerminateReturns(c) \/ EventReturns(c)
        \/ Mail(c) \/ InfoReturns(c) \/ MailDone(c) \/ Inform(c)
        \/ CallbackSends(c) \/ CallbackCalls(c) \/ Panic(c)
        \/ Disconnect(c) \/ TerminateNext(c)

Spec == Init /\ [][Next]_vars

-----------------------------------------------------------------------------
(* The group of a topic has exactly the sessions with a channel for it, or *)
(* whose channel is in terminate(): whoever has left, was stopped or has   *)
(* disconnected is sent nothing any more.  A session that panicked or      *)
(* whose write failed stays a member for ever.                             *)
MembersAreJoined ==
    \A c \in Session, t \in Topic :
        stage[c] \notin {"failed", "panicked"} =>
            (c \in group[t] <=>
                \/ t \in joined[c]
                \/ doing[c].topic = t /\ doing[c].op \in {"leave", "stop", "terminate"})

(* While a session works on nothing, what its client was last told of a    *)
(* topic is true, unless the reply was lost or the channel has stopped.    *)
ToldTruly ==
    \A c \in Session, t \in Topic :
        stage[c] = "open" /\ doing[c] = Idle =>
            /\ told[c][t] = "joined" => t \in joined[c] \/ <<c, t>> \in stopped
            /\ told[c][t] = "left" => t \notin joined[c]
=============================================================================
