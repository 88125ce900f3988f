--------------------------------- MODULE Chat ---------------------------------
(***************************************************************************)
(* examples/chat: the sessions of TCP clients, the rooms they join and the *)
(* processes that keep the history of the rooms.                           *)
(*                                                                         *)
(* A session is one task: it works off commands and its mailbox, several   *)
(* commands in a row where they came in one packet.  While it waits for    *)
(* the answer of a server it throws away what else is in its mailbox.  Of  *)
(* presence and PubSub, which have modules of their own, there are only    *)
(* the calls; what comes between an answer and the next step of the        *)
(* session counts as coming after it.  The delayed PushPresenceState is    *)
(* left out: it is sent without the tag by which handle_info_raw knows it, *)
(* and so is the time limit of the calls, which here are always answered.  *)
(***************************************************************************)
EXTENDS Naturals, Sequences, FiniteSets

CONSTANTS
    Session, Room, Nick,
    MaxHistory,   \* MAX_HISTORY
    MaxCommands   \* bound: commands of all clients

NoNick == "no_nick"
NoProcess == <<>>
Process == Room \X Session  \* a process is named for the room and who started it
Number == 0 .. MaxCommands  \* a message is numbered for the command it came with
Message ==
    [type : {"AfterJoin"}]
        \cup [type : {"new_msg"}, room : Room, number : Number]
        \cup [type : {"history"}, room : Room, numbers : SUBSET Number]
        \cup [type : {"user_joined", "user_left"}, room : Room, who : Session \X Nick]
Request == [type : {"StoreMessage"}, number : Number] \cup [type : {"GetHistory"}, of : Session]
Idle == [step |-> "idle", room |-> "no_room", todo |-> {}, number |-> 0]

VARIABLES
    stage,     \* open, closing after a quit or a lost connection, ended
    doing,     \* the step each session has come to in a command or a message
    nick,      \* the nick of each session
    channels,  \* ChannelServer: the nick each joined channel was given
    group,     \* the process group of each room
    mailbox,
    name,      \* the global name of each room
    alive,     \* processes of rooms
    box,       \* the mailbox of each of them
    history,
    commands,  \* counter of a bound
    shown,     \* messages the client of each session has been sent
    view,      \* who the client takes for present in a room
    caughtUp,  \* history: rooms whose history the session has had since it joined
    lost       \* history: the pushes each session has thrown away

roomVars == <<name, alive, box, history>>
clientVars == <<shown, view, caughtUp>>
vars == <<stage, doing, nick, channels, group, mailbox, roomVars, commands, clientVars, lost>>

Joined(c) == {r \in Room : channels[c][r] # NoNick}

TypeOK ==
    /\ stage \in [Session -> {"open", "closing", "ended"}]
    /\ doing \in [Session -> [step : {"idle", "start", "register", "track", "broadcast", "after",
                                      "history", "untrack", "leave", "ask"},
                              room : Room \cup {"no_room"}, todo : SUBSET Room,
                              number : Number]]
    /\ nick \in [Session -> Nick \cup {NoNick}]
    /\ channels \in [Session -> [Room -> Nick \cup {NoNick}]]
    /\ group \in [Room -> SUBSET Session]
    /\ mailbox \in [Session -> Seq(Message)] /\ lost \in [Session -> SUBSET Message]
    /\ name \in [Room -> Process \cup {NoProcess}]
    /\ alive \subseteq Process
    /\ box \in [Process -> Seq(Request)] /\ history \in [Process -> Seq(Number)]
    /\ commands \in Number
    /\ shown \in [Session -> SUBSET Number]
    /\ view \in [Session -> [Room -> SUBSET (Session \X Nick)]]
    /\ caughtUp \in [Session -> SUBSET Room]

Init ==
    /\ stage = [c \in Session |-> "open"]
    /\ doing = [c \in Session |-> Idle]
    /\ nick \in [Session -> Nick \cup {NoNick}]  \* some have set theirs already
    /\ channels = [c \in Session |-> [r \in Room |-> NoNick]]
    /\ group = [r \in Room |-> {}]
    /\ mailbox = [c \in Session |-> <<>>]
    /\ name = [r \in Room |-> NoProcess]
    /\ alive = {}
    /\ box = [p \in Process |-> <<>>] /\ history = box
    /\ commands = 0
    /\ shown = [c \in Session |-> {}]
    /\ view = [c \in Session |-> [r \in Room |-> {}]]
    /\ caughtUp = [c \in Session |-> {}]
    /\ lost = [c \in Session |-> {}]

-----------------------------------------------------------------------------
Now(c, step) == stage[c] # "ended" /\ doing[c].step = step
Goes(c, step, r) == doing' = [doing EXCEPT ![c].step = step, ![c].room = r]
Rests(c) == doing' = [doing EXCEPT ![c] = Idle]

Command(c) ==
    /\ stage[c] = "open" /\ Now(c, "idle")
    /\ commands < MaxCommands
    /\ commands' = commands + 1

(* A push to every member of the group but one. *)
Nobody == "nobody"
Push(r, but, msg) ==
    mailbox' = [c \in Session |->
        IF c \in group[r] \ {but} /\ stage[c] # "ended" THEN Append(mailbox[c], msg) ELSE mailbox[c]]

(* What wait_for_reply leaves of the mailbox, and what it takes. *)
Answered(c, then) ==
    /\ LET news == {mailbox[c][i] : i \in DOMAIN mailbox[c]}
       IN  lost' = [lost EXCEPT ![c] =
                       @ \cup {m \in news : m.type \in {"new_msg", "history", "user_left"}}]
    /\ mailbox' = [mailbox EXCEPT ![c] = then]

(* handle_nick: the channels that were joined keep theirs. *)
SetNick(c, k) ==
    /\ Command(c) /\ k # nick[c]
    /\ nick' = [nick EXCEPT ![c] = k]
    /\ UNCHANGED <<stage, doing, channels, group, mailbox, roomVars, clientVars, lost>>

-----------------------------------------------------------------------------
(* handle_join, and the join of RoomChannel: the room is looked up, or     *)
(* started and registered; the loser of a race ends its own.               *)
Join(c, r) ==
    /\ Command(c)
    /\ nick[c] # NoNick /\ r \notin Joined(c)
    /\ Goes(c, IF name[r] = NoProcess THEN "start" ELSE "track", r)
    /\ UNCHANGED <<stage, nick, channels, group, mailbox, roomVars, clientVars, lost>>

StartRoom(c) ==
    /\ Now(c, "start")
    /\ alive' = alive \cup {<<doing[c].room, c>>}
    /\ Goes(c, "register", doing[c].room)
    /\ UNCHANGED <<stage, nick, channels, group, mailbox, name, box, history, commands, clientVars, lost>>

(* Mutant of WithoutLoser: its process is not ended. *)
WithLoser(p) == alive

WithoutLoser(p) == alive \ {p}

RegisterRoom(c) ==
    /\ Now(c, "register")
    /\ LET r == doing[c].room  own == <<r, c>>
       IN  /\ IF name[r] = NoProcess
              THEN name' = [name EXCEPT ![r] = own] /\ UNCHANGED alive
              ELSE alive' = WithoutLoser(own) /\ UNCHANGED name
           /\ Goes(c, "track", r)
    /\ UNCHANGED <<stage, nick, channels, group, mailbox, box, history, commands, clientVars, lost>>

(* track_pid() and subscribe_pid() have answered; AfterJoin is sent, the   *)
(* channel kept and the group joined.                                      *)
Enter(c) ==
    /\ Now(c, "track")
    /\ LET r == doing[c].room
       IN  /\ Answered(c, <<[type |-> "AfterJoin"]>>)
           /\ channels' = [channels EXCEPT ![c][r] = nick[c]]
           /\ group' = [group EXCEPT ![r] = @ \cup {c}]
           /\ view' = [view EXCEPT ![c][r] = {}]
           /\ caughtUp' = [caughtUp EXCEPT ![c] = @ \ {r}]
    /\ Rests(c)
    /\ UNCHANGED <<stage, nick, roomVars, commands, shown>>

(* handle_leave, and the channels of a session that is closing one by one: *)
(* terminate() tells the others, with the nick of the channel.             *)
Leave(c, r) ==
    /\ r \in Joined(c)
    /\ \/ Command(c)
       \/ stage[c] = "closing" /\ Now(c, "idle") /\ UNCHANGED commands
    /\ Push(r, c, [type |-> "user_left", room |-> r, who |-> <<c, channels[c][r]>>])
    /\ channels' = [channels EXCEPT ![c][r] = NoNick]
    /\ Goes(c, "untrack", r)
    /\ UNCHANGED <<stage, nick, group, roomVars, clientVars, lost>>

(* untrack_pid() and unsubscribe_pid() have answered. *)
Untracked(c) ==
    /\ Now(c, "untrack")
    /\ Answered(c, <<>>)
    /\ Goes(c, "leave", doing[c].room)
    /\ UNCHANGED <<stage, nick, channels, group, roomVars, commands, clientVars>>

LeaveGroup(c) ==
    /\ Now(c, "leave")
    /\ group' = [group EXCEPT ![doing[c].room] = @ \ {c}]
    /\ Rests(c)
    /\ UNCHANGED <<stage, nick, channels, mailbox, roomVars, commands, clientVars, lost>>

(* Quit, a closed connection, a read error; then the end of the task. *)
Close(c) ==
    /\ Command(c)
    /\ stage' = [stage EXCEPT ![c] = "closing"]
    /\ UNCHANGED <<doing, nick, channels, group, mailbox, roomVars, clientVars, lost>>

End(c) ==
    /\ stage[c] = "closing" /\ Now(c, "idle") /\ Joined(c) = {}
    /\ stage' = [stage EXCEPT ![c] = "ended"]
    /\ UNCHANGED <<doing, nick, channels, group, mailbox, roomVars, commands, clientVars, lost>>

-----------------------------------------------------------------------------
(* handle_msg: the message is cast to the room, then pushed to the group,  *)
(* its sender included.                                                    *)
Msg(c, r) ==
    /\ Command(c) /\ r \in Joined(c)
    /\ box' = [box EXCEPT ![name[r]] = Append(@, [type |-> "StoreMessage", number |-> commands'])]
    /\ doing' = [doing EXCEPT ![c] = [step |-> "broadcast", room |-> r, todo |-> {},
                                        number |-> commands']]
    /\ UNCHANGED <<stage, nick, channels, group, mailbox, name, alive, history, clientVars, lost>>

(* The members are those of the group by now. *)
Broadcast(c) ==
    /\ Now(c, "broadcast")
    /\ LET r == doing[c].room
       IN  Push(r, Nobody, [type |-> "new_msg", room |-> r, number |-> doing[c].number])
    /\ Rests(c)
    /\ UNCHANGED <<stage, nick, channels, group, roomVars, commands, clientVars, lost>>

(* ListRooms and ListUsers: an answer that only the client sees. *)
Ask(c) ==
    /\ Command(c)
    /\ Goes(c, "ask", "no_room")
    /\ UNCHANGED <<stage, nick, channels, group, mailbox, roomVars, clientVars, lost>>

Listed(c) ==
    /\ Now(c, "ask")
    /\ Answered(c, <<>>) /\ Rests(c)
    /\ UNCHANGED <<stage, nick, channels, group, roomVars, commands, clientVars>>

-----------------------------------------------------------------------------
(* handle_channel_message: a push goes to the client, whether or not the   *)
(* session is still in the room.                                           *)
Takes(c, type) ==
    /\ stage[c] = "open" /\ Now(c, "idle")
    /\ mailbox[c] # <<>> /\ Head(mailbox[c]).type = type
    /\ mailbox' = [mailbox EXCEPT ![c] = Tail(@)]

ForwardMessage(c) ==
    /\ Takes(c, "new_msg")
    /\ shown' = [shown EXCEPT ![c] = @ \cup {Head(mailbox[c]).number}]
    /\ UNCHANGED <<stage, doing, nick, channels, group, roomVars, commands, view, caughtUp, lost>>

ForwardHistory(c) ==
    /\ Takes(c, "history")
    /\ LET m == Head(mailbox[c])
       IN  /\ shown' = [shown EXCEPT ![c] = @ \cup m.numbers]
           /\ caughtUp' = [caughtUp EXCEPT ![c] = @ \cup {m.room}]
    /\ UNCHANGED <<stage, doing, nick, channels, group, roomVars, commands, view, lost>>

ForwardPresence(c) ==
    /\ \/ /\ Takes(c, "user_joined")
          /\ LET m == Head(mailbox[c])
             IN  view' = [view EXCEPT ![c][m.room] = @ \cup {m.who}]
       \/ /\ Takes(c, "user_left")
          /\ LET m == Head(mailbox[c])
             IN  view' = [view EXCEPT ![c][m.room] = @ \ {m.who}]
    /\ UNCHANGED <<stage, doing, nick, channels, group, roomVars, commands, shown, caughtUp, lost>>

(* handle_info_any: AfterJoin does not say of which channel, and every     *)
(* channel of the session takes it for its own.                            *)
HandleAfterJoin(c) ==
    /\ Takes(c, "AfterJoin")
    /\ doing' = [doing EXCEPT ![c].step = "after", ![c].todo = Joined(c)]
    /\ UNCHANGED <<stage, nick, channels, group, roomVars, commands, clientVars, lost>>

AnnounceJoin(c, r) ==
    /\ Now(c, "after") /\ r \in doing[c].todo
    /\ Push(r, c, [type |-> "user_joined", room |-> r, who |-> <<c, channels[c][r]>>])
    /\ box' = [box EXCEPT ![name[r]] = Append(@, [type |-> "GetHistory", of |-> c])]
    /\ doing' = [doing EXCEPT ![c].step = "history", ![c].room = r, ![c].todo = @ \ {r}]
    /\ UNCHANGED <<stage, nick, channels, group, name, alive, history, commands, clientVars, lost>>

AnnouncedAll(c) ==
    /\ Now(c, "after") /\ doing[c].todo = {}
    /\ Rests(c)
    /\ UNCHANGED <<stage, nick, channels, group, mailbox, roomVars, commands, clientVars, lost>>

-----------------------------------------------------------------------------
(* Room: a cast stores a message and trims; a call answers with what is    *)
(* kept, and the session that waited sends it to itself.                   *)
Kept(p) == {history[p][i] : i \in DOMAIN history[p]}

StoreMessage(p) ==
    /\ box[p] # <<>> /\ Head(box[p]).type = "StoreMessage"
    /\ box' = [box EXCEPT ![p] = Tail(@)]
    /\ LET all == Append(history[p], Head(box[p]).number)
           over == IF Len(all) > MaxHistory THEN Len(all) - MaxHistory ELSE 0
       IN  history' = [history EXCEPT ![p] = SubSeq(all, over + 1, Len(all))]
    /\ UNCHANGED <<stage, doing, nick, channels, group, mailbox, name, alive, commands,
                   clientVars, lost>>

GetHistory(p) ==
    /\ box[p] # <<>> /\ Head(box[p]).type = "GetHistory"
    /\ box' = [box EXCEPT ![p] = Tail(@)]
    /\ LET c == Head(box[p]).of
       IN  /\ Answered(c, IF Kept(p) = {} THEN <<>>
                          ELSE <<[type |-> "history", room |-> p[1], numbers |-> Kept(p)]>>)
           /\ Goes(c, "after", p[1])
    /\ UNCHANGED <<stage, nick, channels, group, name, alive, history, commands, clientVars>>

-----------------------------------------------------------------------------
Next ==
    \/ \E c \in Session :
          \/ \E k \in Nick : SetNick(c, k)
          \/ \E r \in Room : Join(c, r) \/ Leave(c, r) \/ Msg(c, r) \/ AnnounceJoin(c, r)
          \/ StartRoom(c) \/ RegisterRoom(c) \/ Enter(c)
          \/ Untracked(c) \/ LeaveGroup(c) \/ Close(c) \/ End(c)
          \/ Broadcast(c) \/ Ask(c) \/ Listed(c)
          \/ ForwardMessage(c) \/ ForwardHistory(c) \/ ForwardPresence(c)
          \/ HandleAfterJoin(c) \/ AnnouncedAll(c)
    \/ \E p \in alive : StoreMessage(p) \/ GetHistory(p)

Spec == Init /\ [][Next]_vars

-----------------------------------------------------------------------------
(* get_or_create_room, two sessions at once: the process of a room that    *)
(* nobody is about to register is the one that has the name.               *)
OneRoom ==
    \A p \in alive :
        \/ name[p[1]] = p
        \/ doing[p[2]].step = "register" /\ doing[p[2]].room = p[1]

(* handle_msg casts before it broadcasts, and a session is in the group    *)
(* before it asks for the history.  So a client that was given the history *)
(* has every message of the room the room still keeps, unless the session  *)
(* threw the message away while it waited for a server.                    *)
Dropped(c) == {m.number : m \in {l \in lost[c] : l.type = "new_msg"}}
                  \cup UNION {m.numbers : m \in {l \in lost[c] : l.type = "history"}}
OnTheWay(r) == {d \in Session : doing[d].step = "broadcast" /\ doing[d].room = r}

NoGap ==
    \A c \in Session, r \in Room :
        ( /\ r \in Joined(c) \cap caughtUp[c]
          /\ stage[c] = "open" /\ doing[c] = Idle /\ mailbox[c] = <<>> )
        => Kept(name[r]) \subseteq
               shown[c] \cup Dropped(c) \cup {doing[d].number : d \in OnTheWay(r)}

(* broadcast_from_json with the nick of the channel: whom the client of a  *)
(* member takes for present is, under that nick, or the message that he    *)
(* left is still to come or was thrown away.                               *)
Gone(r, who) == [type |-> "user_left", room |-> r, who |-> who]

ViewsTrue ==
    \A c \in Session : \A r \in Joined(c) : \A who \in view[c][r] :
        \/ channels[who[1]][r] = who[2]
        \/ Gone(r, who) \in lost[c] \cup {mailbox[c][i] : i \in DOMAIN mailbox[c]}
=============================================================================
