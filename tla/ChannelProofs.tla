--------------------------- MODULE ChannelProofs ---------------------------
EXTENDS Services, SequenceTheorems, FiniteSetTheorems, TLAPS

-----------------------------------------------------------------------------
Answers == {"nothing", "joined", "left", "unknown"}
Leaving == {"leave", "stop", "terminate"}

(* A session in a callback for a topic: of join() the topic is not joined yet, *)
(* of handle_event() it is, and of terminate() it no longer is.                *)
Handling(c) ==
    /\ ch_doing[c].op \in Chan!Callback \ {"info"} => ch_doing[c].topic \in ChannelTopic
    /\ ch_doing[c].op = "join" =>
           ch_doing[c].topic \in HandledTopic \ ch_joined[c] /\ c \notin ch_group[ch_doing[c].topic]
    /\ ch_doing[c].op = "event" => ch_doing[c].topic \in ch_joined[c]
    /\ ch_doing[c].op \in Leaving => ch_doing[c].topic \notin ch_joined[c]
    /\ ch_doing[c].op = "terminate" => ch_stage[c] # "open"
    /\ ch_doing[c].op # "idle" => ch_stage[c] \in {"open", "closing"}

Belongs(c) ==
    \A t \in ChannelTopic :
        ch_stage[c] \notin {"failed", "panicked"} =>
            (c \in ch_group[t] <=> t \in ch_joined[c] \/ (ch_doing[c].topic = t /\ ch_doing[c].op \in Leaving))

(* What an open session has told its client, in a callback and between two.    *)
Tells(c) ==
    \A t \in ChannelTopic :
        ch_stage[c] = "open" =>
            /\ ch_told[c][t] = "joined" =>
                  \/ t \in ch_joined[c]
                  \/ <<c, t>> \in ch_stopped
                  \/ ch_doing[c].op \in {"leave", "stop"} /\ ch_doing[c].topic = t
            /\ ch_told[c][t] = "left" => t \notin ch_joined[c]

ChannelInv == Chan!TypeOK /\ \A c \in Session : Handling(c) /\ Belongs(c) /\ Tells(c)

LEMMA ChannelSafeOK == ChannelInv => Chan!TypeOK /\ Chan!MembersAreJoined /\ Chan!ToldTruly
<1> SUFFICES ASSUME ChannelInv PROVE Chan!MembersAreJoined /\ Chan!ToldTruly
  BY DEF ChannelInv
<1>1. \A c \in Session : Belongs(c) /\ Tells(c)
  BY DEF ChannelInv
<1>2. Chan!MembersAreJoined
  <2> SUFFICES ASSUME NEW c \in Session, NEW t \in ChannelTopic, ch_stage[c] \notin {"failed", "panicked"}
               PROVE  c \in ch_group[t] <=>
                          \/ t \in ch_joined[c]
                          \/ ch_doing[c].topic = t /\ ch_doing[c].op \in {"leave", "stop", "terminate"}
    BY DEF Chan!MembersAreJoined
  <2>1. Belongs(c)
    BY <1>1
  <2>2. QED BY <2>1 DEF Belongs, Leaving
<1>3. Chan!Idle.op = "idle"
  BY DEF Chan!Idle
<1>4. Chan!ToldTruly
  BY <1>1, <1>3 DEF Tells, Chan!ToldTruly
<1>5. QED BY <1>2, <1>4

LEMMA ChannelInitOK == Chan!Init => ChannelInv
<1> SUFFICES ASSUME Chan!Init PROVE ChannelInv
  OBVIOUS
<1>1. Chan!TypeOK
  BY ChannelAssumption, EmptySeq DEF Chan!Init, Chan!TypeOK, Chan!Idle
<1>2. \A c \in Session : Handling(c) /\ Belongs(c) /\ Tells(c)
  BY DEF Chan!Init, Handling, Belongs, Tells, Chan!Idle, Chan!Callback, Leaving
<1>3. QED BY <1>1, <1>2 DEF ChannelInv

(* The copies of a broadcast keep the mailboxes what they are.                 *)
LEMMA ChannelCountOK ==
    ASSUME NEW S, IsFiniteSet(S)
    PROVE  Chan!Cardinality(S) \in Nat /\ ExistsBijection(1 .. Chan!Cardinality(S), S)
<1>1. Chan!Cardinality(S) = Cardinality(S)
  BY DEF Chan!Cardinality, Cardinality
<1>2. QED BY <1>1, FS_CardinalityType

LEMMA ChannelOrderOK == ASSUME NEW S, IsFiniteSet(S) PROVE Chan!Order(S) \in Seq(S)
<1> DEFINE n == Chan!Cardinality(S)
<1>1. n \in Nat /\ ExistsBijection(1 .. n, S)
  BY ChannelCountOK
<1>2. PICK f \in Bijection(1 .. n, S) : TRUE
  BY <1>1 DEF ExistsBijection
<1>3. f \in [1 .. n -> S] /\ \A i, j \in DOMAIN f : f[i] = f[j] => i = j
  BY <1>2 DEF Bijection, Injection, IsInjective
<1>4. Chan!Order(S) \in [1 .. n -> S]
  BY <1>3 DEF Chan!Order
<1>5. QED BY <1>1, <1>4, SeqDef

LEMMA ChannelCopiesOK ==
    ASSUME Chan!TypeOK, NEW topics \in SUBSET ChannelTopic, NEW but, Chan!Copies(topics, but)
    PROVE  ch_mailbox' \in [Session -> Seq(ChannelTopic \cup {Chan!Other})] /\ ch_sends' \in 0 .. MaxNotices
<1>1. IsFiniteSet(topics)
  BY ChannelAssumption, FS_Subset
<1>2. Chan!Cardinality(topics) \in Nat
  BY <1>1, ChannelCountOK
<1>3. ch_sends' \in 0 .. MaxNotices
  BY <1>2, ChannelAssumption DEF Chan!Copies, Chan!TypeOK
<1>4. ASSUME NEW c \in Session
      PROVE  ch_mailbox[c] \o Chan!Order({t \in topics : c \in ch_group[t]}) \in Seq(ChannelTopic \cup {Chan!Other})
  <2> DEFINE T == {t \in topics : c \in ch_group[t]}
  <2>1. IsFiniteSet(T) /\ T \subseteq ChannelTopic
    BY <1>1, FS_Subset
  <2>2. Chan!Order(T) \in Seq(T)
    BY <2>1, ChannelOrderOK
  <2>3. Chan!Order(T) \in Seq(ChannelTopic \cup {Chan!Other})
    BY <2>1, <2>2, SeqMonotonic
  <2>4. ch_mailbox[c] \in Seq(ChannelTopic \cup {Chan!Other})
    BY DEF Chan!TypeOK
  <2>5. QED BY <2>3, <2>4, ConcatProperties
<1>5. ch_mailbox' \in [Session -> Seq(ChannelTopic \cup {Chan!Other})]
  BY <1>4 DEF Chan!Copies, Chan!TypeOK
<1>6. QED BY <1>3, <1>5

(* A reply is all that a step writes of what was told.                         *)
LEMMA ChannelToldOK ==
    ASSUME ch_told \in [Session -> [ChannelTopic -> Answers]], NEW c \in Session, NEW t \in ChannelTopic,
           NEW a \in Answers, ch_told' = [ch_told EXCEPT ![c][t] = a]
    PROVE  /\ ch_told' \in [Session -> [ChannelTopic -> Answers]]
           /\ \A d \in Session, u \in ChannelTopic :
                 ch_told'[d][u] = IF d = c /\ u = t THEN a ELSE ch_told[d][u]
<1>1. ch_told' \in [Session -> [ChannelTopic -> Answers]]
  OBVIOUS
<1>2. ch_told'[c] = [ch_told[c] EXCEPT ![t] = a] /\ \A d \in Session \ {c} : ch_told'[d] = ch_told[d]
  OBVIOUS
<1>3. ch_told[c] \in [ChannelTopic -> Answers]
  OBVIOUS
<1>4. \A u \in ChannelTopic : ch_told'[c][u] = IF u = t THEN a ELSE ch_told[c][u]
  BY <1>2, <1>3
<1>5. QED BY <1>1, <1>2, <1>4

LEMMA ChannelRepliesOK ==
    ASSUME Chan!TypeOK, NEW c \in Session, NEW t \in ChannelTopic, NEW answer \in Answers,
           Chan!Replies(c, t, answer)
    PROVE  /\ ch_told' \in [Session -> [ChannelTopic -> Answers]]
           /\ \A d \in Session, u \in ChannelTopic : d # c \/ u # t => ch_told'[d][u] = ch_told[d][u]
           /\ ch_told'[c][t] \in {answer, "unknown"}
           /\ ch_stage' \in [Session -> {"open", "closing", "ended", "failed", "panicked"}]
           /\ \A d \in Session : ch_stage'[d] # ch_stage[d] => d = c /\ ch_stage'[d] = "failed"
<1>1. ch_told \in [Session -> [ChannelTopic -> Answers]] /\ "unknown" \in Answers
  BY DEF Chan!TypeOK, Answers
<1>2. PICK a \in {answer, "unknown"} : ch_told' = [ch_told EXCEPT ![c][t] = a]
  BY DEF Chan!Replies
<1>3. /\ ch_told' \in [Session -> [ChannelTopic -> Answers]]
      /\ \A d \in Session, u \in ChannelTopic :
            ch_told'[d][u] = IF d = c /\ u = t THEN a ELSE ch_told[d][u]
  BY <1>1, <1>2, ChannelToldOK
<1>4. /\ ch_stage' \in [Session -> {"open", "closing", "ended", "failed", "panicked"}]
      /\ \A d \in Session : ch_stage'[d] # ch_stage[d] => d = c /\ ch_stage'[d] = "failed"
  BY DEF Chan!Replies, Chan!TypeOK
<1>5. QED BY <1>2, <1>3, <1>4

(* A step of a session leaves what is said of the others as it was.            *)
Others(c) ==
    \A d \in Session \ {c} :
        /\ ch_stage'[d] = ch_stage[d] /\ ch_doing'[d] = ch_doing[d] /\ ch_joined'[d] = ch_joined[d]
        /\ \A t \in ChannelTopic : /\ ch_told'[d][t] = ch_told[d][t]
                           /\ (d \in ch_group'[t] <=> d \in ch_group[t])
                           /\ (<<d, t>> \in ch_stopped' <=> <<d, t>> \in ch_stopped)

LEMMA ChannelOthersOK ==
    ASSUME ChannelInv, Chan!TypeOK', NEW c \in Session, Others(c),
           Handling(c)' /\ Belongs(c)' /\ Tells(c)'
    PROVE  ChannelInv'
<1>1. ASSUME NEW d \in Session \ {c} PROVE Handling(d)' /\ Belongs(d)' /\ Tells(d)'
  <2>1. /\ ch_stage'[d] = ch_stage[d] /\ ch_doing'[d] = ch_doing[d] /\ ch_joined'[d] = ch_joined[d]
        /\ \A t \in ChannelTopic : /\ ch_told'[d][t] = ch_told[d][t]
                           /\ (d \in ch_group'[t] <=> d \in ch_group[t])
                           /\ (<<d, t>> \in ch_stopped' <=> <<d, t>> \in ch_stopped)
    BY DEF Others
  <2>6. Handling(d) /\ Belongs(d) /\ Tells(d)
    BY DEF ChannelInv
  <2>2. Handling(d)'
    BY <2>1, <2>6, ChannelAssumption DEF Handling, Chan!Callback, Leaving
  <2>3. Belongs(d)'
    BY <2>1, <2>6 DEF Belongs
  <2>4. Tells(d)'
    BY <2>1, <2>6 DEF Tells
  <2>5. QED BY <2>2, <2>3, <2>4
<1>2. QED BY <1>1 DEF ChannelInv

(* A session that has failed or panicked works on nothing, and is owed nothing. *)
LEMMA ChannelGoneOK ==
    ASSUME NEW c \in Session, ch_stage[c] \in {"failed", "panicked"}, ch_doing[c].op = "idle"
    PROVE  Handling(c) /\ Belongs(c) /\ Tells(c)
BY DEF Handling, Belongs, Tells, Chan!Callback, Leaving

(* So does one that only begins or ends to work on messages.                    *)
LEMMA ChannelQuietOK ==
    ASSUME ChannelInv, NEW c \in Session, ch_doing'[c].op \in {"idle", "info"},
           ch_doing[c].op \in {"idle", "info", "event"},
           ch_stage'[c] \in {ch_stage[c], "failed", "panicked", "closing"},
           ch_stage[c] \notin {"failed", "panicked"},
           ch_doing'[c].op = "info" => ch_stage'[c] \in {"open", "closing"},
           ch_joined'[c] = ch_joined[c], ch_group' = ch_group, ch_stopped' = ch_stopped,
           \A t \in ChannelTopic : ch_told'[c][t] \in {ch_told[c][t], "unknown"}
    PROVE  Handling(c)' /\ Belongs(c)' /\ Tells(c)'
<1>1. Handling(c)'
  BY DEF Handling, Chan!Callback, Leaving
<1>2. Belongs(c)'
  BY DEF ChannelInv, Belongs, Leaving
<1>3. Tells(c)'
  BY DEF ChannelInv, Tells
<1>4. QED BY <1>1, <1>2, <1>3

Works == [op : Chan!Callback \cup {"idle"}, topic : ChannelTopic \cup {Chan!NoTopic},
          todo : SUBSET ChannelTopic, results : SUBSET ChannelTopic]

(* A session begins a callback, or ends its work.                               *)
LEMMA ChannelIdleOK == ASSUME Chan!TypeOK, NEW c \in Session
    PROVE /\ Chan!Ends(c) => /\ ch_doing' \in [Session -> Works]
                       /\ ch_doing'[c].op = "idle" /\ \A d \in Session \ {c} : ch_doing'[d] = ch_doing[d]
          /\ \A t \in ChannelTopic \cup {Chan!NoTopic}, op \in Chan!Callback : Chan!Begins(c, Chan!Doing(op, t)) =>
                 /\ ch_doing' \in [Session -> Works]
                 /\ ch_doing'[c].op = op /\ ch_doing'[c].topic = t
                 /\ \A d \in Session \ {c} : ch_doing'[d] = ch_doing[d]
<1>1. ch_doing \in [Session -> Works]
  BY DEF Chan!TypeOK, Works
<1>2. ASSUME Chan!Ends(c) PROVE /\ ch_doing' \in [Session -> Works]
                       /\ ch_doing'[c].op = "idle" /\ \A d \in Session \ {c} : ch_doing'[d] = ch_doing[d]
  BY <1>1, <1>2 DEF Chan!Ends, Chan!Begins, Chan!Idle, Works
<1>3. ASSUME NEW t \in ChannelTopic \cup {Chan!NoTopic}, NEW op \in Chan!Callback, Chan!Begins(c, Chan!Doing(op, t))
      PROVE /\ ch_doing' \in [Session -> Works]
                 /\ ch_doing'[c].op = op /\ ch_doing'[c].topic = t
                 /\ \A d \in Session \ {c} : ch_doing'[d] = ch_doing[d]
  <2>1. Chan!Doing(op, t) = [op |-> op, topic |-> t, todo |-> {}, results |-> {}]
    <3>1. Chan!Idle = [op |-> "idle", topic |-> Chan!NoTopic, todo |-> {}, results |-> {}]
      BY DEF Chan!Idle
    <3>2. Chan!Doing(op, t) = [Chan!Idle EXCEPT !.op = op, !.topic = t]
      BY DEF Chan!Doing
    <3>3. QED BY <3>1, <3>2
  <2>2. QED BY <1>1, <1>3, <2>1 DEF Chan!Begins, Works
<1>4. QED BY <1>2, <1>3

(* A request that is refused, or answered at once.                              *)
LEMMA ChannelAnsweredOK ==
    ASSUME ChannelInv, NEW c \in Session, NEW t \in ChannelTopic, NEW answer \in Answers,
           Chan!Request(c), Chan!Replies(c, t, answer),
           answer = ch_told[c][t] \/ (answer = "left" /\ t \notin ch_joined[c]),
           UNCHANGED <<ch_doing, ch_joined, ch_group, ch_mailbox, ch_stopped, ch_sends>>
    PROVE  ChannelInv'
<1>1. /\ ch_stage[c] = "open" /\ ch_doing[c].op = "idle" /\ ch_requests' \in 0 .. MaxRequests
  BY ChannelAssumption DEF Chan!Request, Chan!Idle, ChannelInv, Chan!TypeOK
<1>2. Chan!TypeOK /\ Handling(c) /\ Belongs(c) /\ Tells(c)
  BY DEF ChannelInv
<1>3. /\ ch_told' \in [Session -> [ChannelTopic -> Answers]]
      /\ \A d \in Session, u \in ChannelTopic : d # c \/ u # t => ch_told'[d][u] = ch_told[d][u]
      /\ ch_told'[c][t] \in {answer, "unknown"}
      /\ ch_stage' \in [Session -> {"open", "closing", "ended", "failed", "panicked"}]
      /\ \A d \in Session : ch_stage'[d] # ch_stage[d] => d = c /\ ch_stage'[d] = "failed"
  BY <1>2, ChannelRepliesOK
<1>4. Chan!TypeOK'
  BY <1>1, <1>2, <1>3 DEF Chan!TypeOK, Answers
<1>5. Others(c)
  BY <1>3 DEF Others
<1>6. Handling(c)' /\ Belongs(c)'
  BY <1>1, <1>2, <1>3 DEF Handling, Belongs, Leaving, Chan!Callback
<1>7. Tells(c)'
  BY <1>1, <1>2, <1>3 DEF Tells
<1>8. QED BY <1>4, <1>5, <1>6, <1>7, ChannelOthersOK

LEMMA ChannelJoinOK ==
    ASSUME ChannelInv, NEW c \in Session, NEW t \in ChannelTopic, Chan!Join(c, t)
    PROVE  ChannelInv'
<1>1. /\ ch_stage[c] = "open" /\ ch_doing[c].op = "idle" /\ ch_requests' \in 0 .. MaxRequests
  BY ChannelAssumption DEF Chan!Join, Chan!Request, Chan!Idle, ChannelInv, Chan!TypeOK
<1>2. Chan!TypeOK /\ Handling(c) /\ Belongs(c) /\ Tells(c)
  BY DEF ChannelInv
<1>3. CASE (t \in ch_joined[c] \/ t \notin HandledTopic) /\ Chan!Replies(c, t, ch_told[c][t]) /\ UNCHANGED ch_doing
  <2>1. ch_told[c][t] \in Answers
    BY <1>2 DEF Chan!TypeOK, Answers
  <2>2. QED BY <1>3, <2>1, ChannelAnsweredOK DEF Chan!Join
<1>4. CASE t \in HandledTopic \ ch_joined[c] /\ Chan!Begins(c, Chan!Doing("join", t)) /\ UNCHANGED <<ch_stage, ch_told>>
  <2>1. /\ ch_doing' \in [Session -> Works] /\ ch_doing'[c].op = "join" /\ ch_doing'[c].topic = t
        /\ \A d \in Session \ {c} : ch_doing'[d] = ch_doing[d]
    BY <1>2, <1>4, ChannelIdleOK DEF Chan!Callback
  <2>2. Chan!TypeOK'
    BY <1>1, <1>2, <1>4, <2>1 DEF Chan!Join, Chan!TypeOK, Works
  <2>3. Others(c)
    BY <1>4, <2>1 DEF Chan!Join, Others
  <2>4. c \notin ch_group[t]
    BY <1>1, <1>2, <1>4 DEF Belongs, Leaving
  <2>5. Handling(c)' /\ Belongs(c)' /\ Tells(c)'
    BY <1>1, <1>2, <1>4, <2>1, <2>4 DEF Chan!Join, Handling, Belongs, Tells, Leaving, Chan!Callback
  <2>6. QED BY <2>2, <2>3, <2>5, ChannelOthersOK
<1>5. QED BY <1>3, <1>4 DEF Chan!Join

(* A channel goes, and terminate() is called.                                   *)
LEMMA ChannelTerminatesOK ==
    ASSUME ChannelInv, Chan!TypeOK', NEW c \in Session, NEW t \in ch_joined[c], NEW op \in Leaving,
           Chan!Terminates(c, op, t), ch_doing[c].op \in {"idle", "event"}, ch_stage[c] \in {"open", "closing"},
           op = "terminate" => ch_stage[c] = "closing",
           UNCHANGED <<ch_stage, ch_group, ch_told, ch_stopped>>
    PROVE  ChannelInv'
<1>1. Chan!TypeOK /\ Handling(c) /\ Belongs(c) /\ Tells(c) /\ t \in ChannelTopic
  BY ChannelAssumption DEF ChannelInv, Chan!TypeOK
<1>2. /\ ch_doing'[c].op = op /\ ch_doing'[c].topic = t
      /\ \A d \in Session \ {c} : ch_doing'[d] = ch_doing[d]
  BY <1>1, ChannelIdleOK DEF Chan!Terminates, Chan!Callback, Leaving
<1>3. ch_joined'[c] = ch_joined[c] \ {t} /\ \A d \in Session \ {c} : ch_joined'[d] = ch_joined[d]
  BY <1>1 DEF Chan!Terminates, Chan!TypeOK
<1>4. Others(c)
  BY <1>2, <1>3 DEF Others
<1>5. Handling(c)'
  BY <1>1, <1>2, <1>3 DEF Handling, Leaving, Chan!Callback
<1>6. Belongs(c)'
  BY <1>1, <1>2, <1>3 DEF Belongs, Leaving
<1>7. Tells(c)'
  BY <1>1, <1>2, <1>3 DEF Tells, Leaving
<1>8. QED BY <1>4, <1>5, <1>6, <1>7, ChannelOthersOK

LEMMA ChannelTerminatesType ==
    ASSUME Chan!TypeOK, NEW c \in Session, NEW t \in ch_joined[c], NEW op \in Leaving, Chan!Terminates(c, op, t)
    PROVE  ch_doing' \in [Session -> Works] /\ ch_joined' \in [Session -> SUBSET HandledTopic]
<1>1. t \in ChannelTopic
  BY ChannelAssumption DEF Chan!TypeOK
<1>2. QED BY <1>1, ChannelIdleOK DEF Chan!TypeOK, Chan!Terminates, Chan!Callback, Leaving

LEMMA ChannelLeaveOK ==
    ASSUME ChannelInv, NEW c \in Session, NEW t \in ChannelTopic, Chan!Leave(c, t)
    PROVE  ChannelInv'
<1>1. /\ ch_stage[c] = "open" /\ ch_doing[c].op = "idle" /\ ch_requests' \in 0 .. MaxRequests
  BY ChannelAssumption DEF Chan!Leave, Chan!Request, Chan!Idle, ChannelInv, Chan!TypeOK
<1>2. CASE t \notin ch_joined[c]
  BY <1>2, ChannelAnsweredOK DEF Chan!Leave, Answers
<1>3. CASE t \in ch_joined[c]
  <2>1. Chan!Terminates(c, "leave", t) /\ UNCHANGED <<ch_stage, ch_told, ch_group, ch_mailbox, ch_stopped, ch_sends>>
    BY <1>3 DEF Chan!Leave
  <2>2. Chan!TypeOK'
    BY <1>1, <1>3, <2>1, ChannelTerminatesType DEF ChannelInv, Chan!TypeOK, Works, Leaving
  <2>3. QED BY <1>1, <1>3, <2>1, <2>2, ChannelTerminatesOK DEF Leaving
<1>4. QED BY <1>2, <1>3

LEMMA ChannelEventOK ==
    ASSUME ChannelInv, NEW c \in Session, NEW t \in ChannelTopic, Chan!Event(c, t)
    PROVE  ChannelInv'
<1>1. /\ ch_stage[c] = "open" /\ ch_doing[c].op = "idle" /\ ch_requests' \in 0 .. MaxRequests
  BY ChannelAssumption DEF Chan!Event, Chan!Request, Chan!Idle, ChannelInv, Chan!TypeOK
<1>2. Chan!TypeOK /\ Handling(c) /\ Belongs(c) /\ Tells(c)
  BY DEF ChannelInv
<1>3. CASE t \notin ch_joined[c]
  <2>1. ch_told[c][t] \in Answers
    BY <1>2 DEF Chan!TypeOK, Answers
  <2>2. QED BY <1>3, <2>1, ChannelAnsweredOK DEF Chan!Event
<1>4. CASE t \in ch_joined[c]
  <2>1. /\ Chan!Begins(c, Chan!Doing("event", t))
        /\ UNCHANGED <<ch_stage, ch_told, ch_joined, ch_group, ch_mailbox, ch_stopped, ch_sends>>
    BY <1>4 DEF Chan!Event
  <2>2. /\ ch_doing' \in [Session -> Works] /\ ch_doing'[c].op = "event" /\ ch_doing'[c].topic = t
        /\ \A d \in Session \ {c} : ch_doing'[d] = ch_doing[d]
    BY <1>2, <2>1, ChannelIdleOK DEF Chan!Callback
  <2>3. Chan!TypeOK'
    BY <1>1, <1>2, <2>1, <2>2 DEF Chan!TypeOK, Works
  <2>4. Others(c)
    BY <2>1, <2>2 DEF Others
  <2>5. Handling(c)' /\ Belongs(c)' /\ Tells(c)'
    BY <1>1, <1>2, <1>4, <2>1, <2>2 DEF Handling, Belongs, Tells, Leaving, Chan!Callback
  <2>6. QED BY <2>3, <2>4, <2>5, ChannelOthersOK
<1>5. QED BY <1>3, <1>4

(* The ends of the callbacks.                                                   *)
LEMMA ChannelJoinReturnsOK ==
    ASSUME ChannelInv, NEW c \in Session, Chan!JoinReturns(c)
    PROVE  ChannelInv'
<1> DEFINE t == ch_doing[c].topic
<1>1. Chan!TypeOK /\ Handling(c) /\ Belongs(c) /\ Tells(c) /\ ch_doing[c].op = "join" /\ t \in HandledTopic /\ t \in ChannelTopic
  BY ChannelAssumption DEF ChannelInv, Chan!JoinReturns, Handling
<1>2. /\ ch_doing' \in [Session -> Works] /\ ch_doing'[c].op = "idle"
      /\ \A d \in Session \ {c} : ch_doing'[d] = ch_doing[d]
  BY <1>1, ChannelIdleOK DEF Chan!JoinReturns
<1>3. t \notin ch_joined[c] /\ c \notin ch_group[t] /\ ch_stage[c] \in {"open", "closing"}
  BY <1>1 DEF Handling
<1>4. PICK answer \in Answers :
          /\ Chan!Replies(c, t, answer)
          /\ \/ /\ ch_group' = [ch_group EXCEPT ![t] = @ \cup {c}]
                /\ ch_joined' = [ch_joined EXCEPT ![c] = @ \cup {t}]
                /\ ch_stopped' = ch_stopped \ {<<c, t>>}
                /\ answer = "joined"
             \/ answer = ch_told[c][t] /\ UNCHANGED <<ch_group, ch_joined, ch_stopped>>
  BY <1>1 DEF Chan!JoinReturns, Chan!TypeOK, Answers
<1>5. /\ ch_told' \in [Session -> [ChannelTopic -> Answers]]
      /\ \A d \in Session, u \in ChannelTopic : d # c \/ u # t => ch_told'[d][u] = ch_told[d][u]
      /\ ch_told'[c][t] \in {answer, "unknown"}
      /\ ch_stage' \in [Session -> {"open", "closing", "ended", "failed", "panicked"}]
      /\ \A d \in Session : ch_stage'[d] # ch_stage[d] => d = c /\ ch_stage'[d] = "failed"
  <2> HIDE DEF t
  <2> QED BY <1>1, <1>4, ChannelRepliesOK
<1>6. UNCHANGED <<ch_mailbox, ch_requests, ch_sends>>
  BY DEF Chan!JoinReturns
<1>7. CASE /\ ch_group' = [ch_group EXCEPT ![t] = @ \cup {c}]
           /\ ch_joined' = [ch_joined EXCEPT ![c] = @ \cup {t}]
           /\ ch_stopped' = ch_stopped \ {<<c, t>>}
           /\ answer = "joined"
  <2> HIDE DEF t
  <2>1. Chan!TypeOK'
    BY <1>1, <1>2, <1>5, <1>6, <1>7 DEF Chan!TypeOK, Works, Answers
  <2>2. /\ ch_joined'[c] = ch_joined[c] \cup {t} /\ \A d \in Session \ {c} : ch_joined'[d] = ch_joined[d]
        /\ \A d \in Session, u \in ChannelTopic : d \in ch_group'[u] <=> (d \in ch_group[u] \/ (d = c /\ u = t))
        /\ \A d \in Session, u \in ChannelTopic :
              <<d, u>> \in ch_stopped' <=> <<d, u>> \in ch_stopped /\ ~(d = c /\ u = t)
    BY <1>1, <1>7 DEF Chan!TypeOK
  <2>3. Others(c)
    BY <1>2, <1>5, <2>2 DEF Others
  <2>4. Handling(c)'
    BY <1>2 DEF Handling, Leaving, Chan!Callback
  <2>5. Belongs(c)'
    BY <1>1, <1>2, <1>5, <2>2 DEF Belongs, Leaving
  <2>6. Tells(c)'
    BY <1>1, <1>2, <1>5, <1>7, <2>2 DEF Tells
  <2>7. QED BY <2>1, <2>3, <2>4, <2>5, <2>6, ChannelOthersOK
<1>8. CASE answer = ch_told[c][t] /\ UNCHANGED <<ch_group, ch_joined, ch_stopped>>
  <2> HIDE DEF t
  <2>1. Chan!TypeOK'
    BY <1>1, <1>2, <1>5, <1>6, <1>8 DEF Chan!TypeOK, Works, Answers
  <2>3. Others(c)
    BY <1>2, <1>5, <1>8 DEF Others
  <2>4. Handling(c)'
    BY <1>2 DEF Handling, Leaving, Chan!Callback
  <2>5. Belongs(c)'
    BY <1>1, <1>2, <1>5, <1>8 DEF Belongs, Leaving
  <2>6. Tells(c)'
    BY <1>1, <1>2, <1>5, <1>8 DEF Tells
  <2>7. QED BY <2>1, <2>3, <2>4, <2>5, <2>6, ChannelOthersOK
<1>9. QED BY <1>4, <1>7, <1>8

LEMMA ChannelTerminateReturnsOK ==
    ASSUME ChannelInv, NEW c \in Session, Chan!TerminateReturns(c)
    PROVE  ChannelInv'
<1>1. PICK t \in ChannelTopic : t = ch_doing[c].topic
  BY DEF ChannelInv, Chan!TerminateReturns, Handling, Chan!Callback
<1>2. Chan!TypeOK /\ Handling(c) /\ Belongs(c) /\ Tells(c) /\ ch_doing[c].op \in Leaving
  BY DEF ChannelInv, Chan!TerminateReturns, Leaving
<1>3. /\ ch_doing' \in [Session -> Works] /\ ch_doing'[c].op = "idle"
      /\ \A d \in Session \ {c} : ch_doing'[d] = ch_doing[d]
  BY <1>2, ChannelIdleOK DEF Chan!TerminateReturns
<1>4. t \notin ch_joined[c] /\ ch_stage[c] \in {"open", "closing"}
      /\ (ch_doing[c].op = "terminate" => ch_stage[c] # "open")
  BY <1>1, <1>2 DEF Handling, Leaving
<1>5. /\ ch_group' \in [ChannelTopic -> SUBSET Session]
      /\ \A d \in Session, u \in ChannelTopic : d \in ch_group'[u] <=> d \in ch_group[u] /\ ~(d = c /\ u = t)
  BY <1>1, <1>2 DEF Chan!TerminateReturns, Chan!LeaveGroup, Chan!TypeOK
<1>6. /\ ch_stopped' \subseteq Session \X ChannelTopic
      /\ \A d \in Session, u \in ChannelTopic :
            <<d, u>> \in ch_stopped' <=> <<d, u>> \in ch_stopped \/ (ch_doing[c].op = "stop" /\ d = c /\ u = t)
  BY <1>1, <1>2 DEF Chan!TerminateReturns, Chan!TypeOK
<1>7. /\ ch_told' \in [Session -> [ChannelTopic -> Answers]]
      /\ \A d \in Session, u \in ChannelTopic : d # c \/ u # t => ch_told'[d][u] = ch_told[d][u]
      /\ IF ch_doing[c].op = "leave" THEN ch_told'[c][t] \in {"left", "unknown"} ELSE ch_told'[c][t] = ch_told[c][t]
      /\ ch_stage' \in [Session -> {"open", "closing", "ended", "failed", "panicked"}]
      /\ \A d \in Session : ch_stage'[d] # ch_stage[d] => d = c /\ ch_stage'[d] = "failed"
  <2>1. CASE ch_doing[c].op = "leave"
    <3>1. Chan!Replies(c, t, "left") /\ "left" \in Answers
      BY <1>1, <2>1 DEF Chan!TerminateReturns, Answers
    <3>2. QED BY <1>2, <2>1, <3>1, ChannelRepliesOK
  <2>2. CASE ch_doing[c].op # "leave"
    BY <1>2, <2>2 DEF Chan!TerminateReturns, Chan!TypeOK, Answers
  <2>3. QED BY <2>1, <2>2
<1>8. UNCHANGED <<ch_joined, ch_mailbox, ch_requests, ch_sends>>
  BY DEF Chan!TerminateReturns
<1>9. Chan!TypeOK'
  BY <1>2, <1>3, <1>5, <1>6, <1>7, <1>8 DEF Chan!TypeOK, Works, Answers
<1>10. Others(c)
  BY <1>3, <1>5, <1>6, <1>7, <1>8 DEF Others
<1>11. Handling(c)'
  BY <1>3 DEF Handling, Leaving, Chan!Callback
<1>12. Belongs(c)'
  BY <1>1, <1>2, <1>3, <1>4, <1>5, <1>7, <1>8 DEF Belongs, Leaving
<1>13. Tells(c)'
  BY <1>1, <1>2, <1>3, <1>4, <1>6, <1>7, <1>8 DEF Tells, Leaving
<1>14. QED BY <1>9, <1>10, <1>11, <1>12, <1>13, ChannelOthersOK

LEMMA ChannelEventReturnsOK ==
    ASSUME ChannelInv, NEW c \in Session, Chan!EventReturns(c)
    PROVE  ChannelInv'
<1>1. PICK t \in ChannelTopic : t = ch_doing[c].topic
  BY DEF ChannelInv, Chan!EventReturns, Handling, Chan!Callback
<1>2. Chan!TypeOK /\ Handling(c) /\ Belongs(c) /\ Tells(c) /\ ch_doing[c].op = "event"
  BY DEF ChannelInv, Chan!EventReturns
<1>3. t \in ch_joined[c] /\ ch_stage[c] \in {"open", "closing"}
  BY <1>1, <1>2 DEF Handling
<1>4. CASE /\ Chan!Ends(c) /\ Chan!Replies(c, t, ch_told[c][t]) /\ UNCHANGED ch_joined
           /\ ch_mailbox' \in [Session -> Seq(ChannelTopic \cup {Chan!Other})] /\ ch_sends' \in 0 .. MaxNotices
  <2>1. ch_told[c][t] \in Answers
    BY <1>2 DEF Chan!TypeOK, Answers
  <2>2. /\ ch_told' \in [Session -> [ChannelTopic -> Answers]]
        /\ \A d \in Session, u \in ChannelTopic : d # c \/ u # t => ch_told'[d][u] = ch_told[d][u]
        /\ ch_told'[c][t] \in {ch_told[c][t], "unknown"}
        /\ ch_stage' \in [Session -> {"open", "closing", "ended", "failed", "panicked"}]
        /\ \A d \in Session : ch_stage'[d] # ch_stage[d] => d = c /\ ch_stage'[d] = "failed"
    BY <1>2, <1>4, <2>1, ChannelRepliesOK
  <2>3. /\ ch_doing' \in [Session -> Works] /\ ch_doing'[c].op = "idle"
        /\ \A d \in Session \ {c} : ch_doing'[d] = ch_doing[d]
    BY <1>2, <1>4, ChannelIdleOK
  <2>4. Chan!TypeOK'
    BY <1>2, <1>4, <2>2, <2>3 DEF Chan!EventReturns, Chan!TypeOK, Works, Answers
  <2>5. Others(c)
    BY <1>4, <2>2, <2>3 DEF Chan!EventReturns, Others
  <2>6. Handling(c)' /\ Belongs(c)' /\ Tells(c)'
    BY <1>2, <1>3, <1>4, <2>2, <2>3, ChannelQuietOK DEF Chan!EventReturns
  <2>7. QED BY <2>4, <2>5, <2>6, ChannelOthersOK
<1>5. CASE Chan!Terminates(c, "stop", t) /\ UNCHANGED <<ch_stage, ch_told, ch_mailbox, ch_sends>>
  <2>1. Chan!TypeOK'
    BY <1>2, <1>3, <1>5, ChannelTerminatesType DEF Chan!EventReturns, Chan!TypeOK, Works, Leaving
  <2>2. QED BY <1>2, <1>3, <1>5, <2>1, ChannelTerminatesOK DEF Chan!EventReturns, Leaving
<1>6. CASE /\ Chan!Ends(c) /\ Chan!Replies(c, t, ch_told[c][t]) /\ UNCHANGED <<ch_mailbox, ch_joined, ch_sends>>
  BY <1>2, <1>4, <1>6 DEF Chan!TypeOK
<1>7. ASSUME NEW but, Chan!Ends(c), Chan!Replies(c, t, ch_told[c][t]), Chan!Copies({t}, but), UNCHANGED ch_joined
      PROVE  ChannelInv'
  <2>1. ch_mailbox' \in [Session -> Seq(ChannelTopic \cup {Chan!Other})] /\ ch_sends' \in 0 .. MaxNotices
    BY <1>2, <1>7, ChannelCopiesOK
  <2>2. QED BY <1>4, <1>7, <2>1
<1>8. QED BY <1>1, <1>5, <1>6, <1>7 DEF Chan!EventReturns

(* The mailbox.                                                                 *)
LEMMA ChannelMailTail ==
    ASSUME Chan!TypeOK, NEW c \in Session, ch_mailbox[c] # <<>>, ch_mailbox' = [ch_mailbox EXCEPT ![c] = Tail(@)]
    PROVE  ch_mailbox' \in [Session -> Seq(ChannelTopic \cup {Chan!Other})] /\ Head(ch_mailbox[c]) \in ChannelTopic \cup {Chan!Other}
BY HeadTailProperties DEF Chan!TypeOK

LEMMA ChannelMailOK ==
    ASSUME ChannelInv, NEW c \in Session, Chan!Mail(c)
    PROVE  ChannelInv'
<1>1. Chan!TypeOK /\ ch_doing[c].op = "idle" /\ ch_stage[c] = "open"
  BY DEF ChannelInv, Chan!Mail, Chan!Idle
<1>2. ch_mailbox' \in [Session -> Seq(ChannelTopic \cup {Chan!Other})] /\ Head(ch_mailbox[c]) \in ChannelTopic \cup {Chan!Other}
  BY <1>1, ChannelMailTail DEF Chan!Mail
<1>3. CASE /\ Chan!Begins(c, [Chan!Doing("info", IF Head(ch_mailbox[c]) = Chan!Other THEN Chan!NoTopic ELSE Head(ch_mailbox[c]))
                            EXCEPT !.todo = ch_joined[c]])
           /\ UNCHANGED ch_stage
  <2>1. PICK t \in ChannelTopic \cup {Chan!NoTopic} :
            t = IF Head(ch_mailbox[c]) = Chan!Other THEN Chan!NoTopic ELSE Head(ch_mailbox[c])
    BY <1>2
  <2>2. [Chan!Doing("info", t) EXCEPT !.todo = ch_joined[c]] =
            [op |-> "info", topic |-> t, todo |-> ch_joined[c], results |-> {}]
    <3>1. Chan!Idle = [op |-> "idle", topic |-> Chan!NoTopic, todo |-> {}, results |-> {}]
      BY DEF Chan!Idle
    <3>2. Chan!Doing("info", t) = [Chan!Idle EXCEPT !.op = "info", !.topic = t]
      BY DEF Chan!Doing
    <3>3. Chan!Doing("info", t) = [op |-> "info", topic |-> t, todo |-> {}, results |-> {}]
      BY <3>1, <3>2
    <3>4. QED BY <3>3
  <2>3. ch_doing' = [ch_doing EXCEPT ![c] = [op |-> "info", topic |-> t, todo |-> ch_joined[c], results |-> {}]]
    BY <1>3, <2>1, <2>2 DEF Chan!Begins
  <2>4. ch_joined[c] \subseteq ChannelTopic
    BY <1>1, ChannelAssumption DEF Chan!TypeOK
  <2>5. Chan!TypeOK'
    BY <1>1, <1>2, <1>3, <2>3, <2>4 DEF Chan!Mail, Chan!TypeOK, Chan!Callback
  <2>6. ch_doing'[c].op = "info" /\ \A d \in Session \ {c} : ch_doing'[d] = ch_doing[d]
    BY <1>1, <2>3 DEF Chan!TypeOK
  <2>7. Others(c)
    BY <1>3, <2>6 DEF Chan!Mail, Others
  <2>8. Handling(c)' /\ Belongs(c)' /\ Tells(c)'
    BY <1>1, <1>3, <2>6, ChannelQuietOK DEF Chan!Mail
  <2>9. QED BY <2>5, <2>7, <2>8, ChannelOthersOK
<1>4. CASE ch_stage' = [ch_stage EXCEPT ![c] = "failed"] /\ UNCHANGED ch_doing
  <2>1. Chan!TypeOK'
    BY <1>1, <1>2, <1>4 DEF Chan!Mail, Chan!TypeOK
  <2>2. ch_stage'[c] = "failed" /\ \A d \in Session \ {c} : ch_stage'[d] = ch_stage[d]
    BY <1>1, <1>4 DEF Chan!TypeOK
  <2>3. Others(c)
    BY <1>4, <2>2 DEF Chan!Mail, Others
  <2>4. Handling(c)' /\ Belongs(c)' /\ Tells(c)'
    BY <1>1, <1>4, <2>2, ChannelQuietOK DEF Chan!Mail
  <2>5. QED BY <2>1, <2>3, <2>4, ChannelOthersOK
<1>5. QED BY <1>3, <1>4 DEF Chan!Mail

LEMMA ChannelInfoReturnsOK ==
    ASSUME ChannelInv, NEW c \in Session, Chan!InfoReturns(c)
    PROVE  ChannelInv'
<1>0. PICK t \in ch_doing[c].todo :
          \E results \in {ch_doing[c].results, ch_doing[c].results \cup {t}} :
              Chan!Begins(c, [ch_doing[c] EXCEPT !.todo = @ \ {t},
                                         !.results = IF c \in Chan!WebSocket THEN results ELSE @])
  BY DEF Chan!InfoReturns
<1>1. PICK results \in {ch_doing[c].results, ch_doing[c].results \cup {t}} :
          Chan!Begins(c, [ch_doing[c] EXCEPT !.todo = @ \ {t},
                                     !.results = IF c \in Chan!WebSocket THEN results ELSE @])
  BY <1>0
<1>2. Chan!TypeOK /\ ch_doing[c].op = "info" /\ ch_doing[c] \in Works /\ Handling(c)
  BY DEF ChannelInv, Chan!InfoReturns, Chan!TypeOK, Works
<1>3. PICK got \in SUBSET ChannelTopic :
          got = IF c \in Chan!WebSocket THEN results ELSE ch_doing[c].results
  BY <1>2 DEF Works
<1>4. ch_doing' = [ch_doing EXCEPT ![c] = [ch_doing[c] EXCEPT !.todo = @ \ {t}, !.results = got]]
  BY <1>1, <1>3 DEF Chan!Begins
<1>5. [ch_doing[c] EXCEPT !.todo = @ \ {t}, !.results = got] \in Works
      /\ [ch_doing[c] EXCEPT !.todo = @ \ {t}, !.results = got].op = "info"
  BY <1>2, <1>3 DEF Works
<1>6. ch_doing' \in [Session -> Works] /\ ch_doing'[c].op = "info" /\ \A d \in Session \ {c} : ch_doing'[d] = ch_doing[d]
  BY <1>2, <1>4, <1>5 DEF Chan!TypeOK, Works
<1>7. Chan!TypeOK'
  BY <1>2, <1>6 DEF Chan!InfoReturns, Chan!TypeOK, Works
<1>8. Others(c)
  BY <1>6 DEF Chan!InfoReturns, Others
<1>9. ch_stage[c] \in {"open", "closing"}
  BY <1>2 DEF Handling
<1>10. Handling(c)' /\ Belongs(c)' /\ Tells(c)'
  BY <1>2, <1>6, <1>9, ChannelQuietOK DEF Chan!InfoReturns
<1>11. QED BY <1>7, <1>8, <1>10, ChannelOthersOK

LEMMA ChannelMailDoneOK ==
    ASSUME ChannelInv, NEW c \in Session, Chan!MailDone(c)
    PROVE  ChannelInv'
<1>1. Chan!TypeOK /\ ch_doing[c].op = "info" /\ ch_doing[c].results \in SUBSET ChannelTopic /\ Handling(c)
  BY DEF ChannelInv, Chan!MailDone, Chan!TypeOK
<1>2. ch_mailbox' \in [Session -> Seq(ChannelTopic \cup {Chan!Other})] /\ ch_sends' \in 0 .. MaxNotices
  BY <1>1, ChannelCopiesOK DEF Chan!MailDone
<1>3. /\ ch_doing' \in [Session -> Works] /\ ch_doing'[c].op = "idle"
      /\ \A d \in Session \ {c} : ch_doing'[d] = ch_doing[d]
  BY <1>1, ChannelIdleOK DEF Chan!MailDone
<1>4. ch_stage[c] \in {"open", "closing"}
  BY <1>1 DEF Handling
<1>5. /\ ch_stage' \in [Session -> {"open", "closing", "ended", "failed", "panicked"}]
      /\ ch_stage'[c] \in {ch_stage[c], "closing"} /\ \A d \in Session \ {c} : ch_stage'[d] = ch_stage[d]
  BY <1>1 DEF Chan!MailDone, Chan!TypeOK
<1>6. Chan!TypeOK'
  BY <1>1, <1>2, <1>3, <1>5 DEF Chan!MailDone, Chan!TypeOK, Works
<1>7. Others(c)
  BY <1>3, <1>5 DEF Chan!MailDone, Others
<1>8. Handling(c)' /\ Belongs(c)' /\ Tells(c)'
  BY <1>1, <1>3, <1>4, <1>5, ChannelQuietOK DEF Chan!MailDone
<1>9. QED BY <1>6, <1>7, <1>8, ChannelOthersOK

(* Messages sent and messages thrown away.                                      *)
LEMMA ChannelOnlyMailOK ==
    ASSUME ChannelInv, ch_mailbox' \in [Session -> Seq(ChannelTopic \cup {Chan!Other})], ch_sends' \in 0 .. MaxNotices,
           UNCHANGED <<ch_stage, ch_doing, ch_joined, ch_group, ch_told, ch_stopped, ch_requests>>
    PROVE  ChannelInv'
<1>1. Chan!TypeOK'
  BY DEF ChannelInv, Chan!TypeOK
<1>2. ASSUME NEW c \in Session PROVE Handling(c)' /\ Belongs(c)' /\ Tells(c)'
  <2>1. Handling(c) /\ Belongs(c) /\ Tells(c)
    BY DEF ChannelInv
  <2>2. QED BY <2>1 DEF Handling, Belongs, Tells
<1>3. QED BY <1>1, <1>2 DEF ChannelInv

LEMMA ChannelSendsOK ==
    ASSUME ChannelInv, NEW c \in Session, Chan!Inform(c) \/ Chan!CallbackSends(c) \/ Chan!CallbackCalls(c)
    PROVE  ChannelInv'
<1>1. Chan!TypeOK /\ Handling(c)
  BY DEF ChannelInv
<1>2. ASSUME NEW m \in ChannelTopic \cup {Chan!Other}, ch_sends < MaxNotices, ch_sends' = ch_sends + 1,
             ch_mailbox' = [ch_mailbox EXCEPT ![c] = Append(@, m)]
      PROVE  ch_mailbox' \in [Session -> Seq(ChannelTopic \cup {Chan!Other})] /\ ch_sends' \in 0 .. MaxNotices
  BY <1>1, <1>2, ChannelAssumption, AppendProperties DEF Chan!TypeOK
<1>3. CASE Chan!Inform(c)
  BY <1>2, <1>3, ChannelOnlyMailOK DEF Chan!Inform
<1>4. CASE Chan!CallbackSends(c)
  <2>1. ch_doing[c].topic \in ChannelTopic
    BY <1>1, <1>4 DEF Chan!CallbackSends, Handling
  <2>2. ch_mailbox' \in [Session -> Seq(ChannelTopic \cup {Chan!Other})] /\ ch_sends' \in 0 .. MaxNotices
    BY <1>1, <1>2, <1>4, <2>1, ChannelCopiesOK DEF Chan!CallbackSends
  <2>3. QED BY <1>4, <2>2, ChannelOnlyMailOK DEF Chan!CallbackSends
<1>5. CASE Chan!CallbackCalls(c)
  <2>1. ch_mailbox' \in [Session -> Seq(ChannelTopic \cup {Chan!Other})]
    BY <1>1, <1>5, ChannelMailTail DEF Chan!CallbackCalls
  <2>2. QED BY <1>1, <1>5, <2>1, ChannelOnlyMailOK DEF Chan!CallbackCalls, Chan!TypeOK
<1>6. QED BY <1>3, <1>4, <1>5

(* The ends of a session.                                                       *)
LEMMA ChannelPanicOK ==
    ASSUME ChannelInv, NEW c \in Session, Chan!Panic(c)
    PROVE  ChannelInv'
<1>1. Chan!TypeOK
  BY DEF ChannelInv
<1>2. /\ ch_doing' \in [Session -> Works] /\ ch_doing'[c].op = "idle"
      /\ \A d \in Session \ {c} : ch_doing'[d] = ch_doing[d]
  BY <1>1, ChannelIdleOK DEF Chan!Panic
<1>3. ch_stage'[c] = "panicked" /\ \A d \in Session \ {c} : ch_stage'[d] = ch_stage[d]
  BY <1>1 DEF Chan!Panic, Chan!TypeOK
<1>4. ch_mailbox' \in [Session -> Seq(ChannelTopic \cup {Chan!Other})]
  BY <1>1, EmptySeq DEF Chan!Panic, Chan!TypeOK
<1>5. Chan!TypeOK'
  BY <1>1, <1>2, <1>4 DEF Chan!Panic, Chan!TypeOK, Works
<1>6. Others(c)
  BY <1>2, <1>3 DEF Chan!Panic, Others
<1>7. Handling(c)' /\ Belongs(c)' /\ Tells(c)'
  BY <1>2, <1>3 DEF Handling, Belongs, Tells, Chan!Callback, Leaving
<1>8. QED BY <1>5, <1>6, <1>7, ChannelOthersOK

LEMMA ChannelClosingOK ==
    ASSUME ChannelInv, NEW c \in Session, Chan!Disconnect(c) \/ Chan!TerminateNext(c)
    PROVE  ChannelInv'
<1>1. Chan!TypeOK /\ Handling(c) /\ Belongs(c) /\ Tells(c) /\ ch_doing[c].op = "idle"
      /\ ch_stage[c] \in {"open", "closing"}
  BY DEF ChannelInv, Chan!Disconnect, Chan!TerminateNext, Chan!Idle
<1>2. CASE \E t \in ch_joined[c] : Chan!Terminates(c, "terminate", t) /\ Chan!TerminateNext(c)
           /\ UNCHANGED <<ch_stage, ch_mailbox>>
  <2>1. PICK t \in ch_joined[c] : Chan!Terminates(c, "terminate", t)
    BY <1>2
  <2>2. UNCHANGED <<ch_stage, ch_mailbox, ch_group, ch_told, ch_stopped, ch_requests, ch_sends>> /\ ch_stage[c] = "closing"
    BY <1>2 DEF Chan!TerminateNext
  <2>3. Chan!TypeOK'
    BY <1>1, <2>1, <2>2, ChannelTerminatesType DEF Chan!TypeOK, Works, Leaving
  <2>4. QED BY <1>1, <2>1, <2>2, <2>3, ChannelTerminatesOK DEF Leaving
<1>3. ASSUME NEW s \in {"closing", "ended"}, ch_stage' = [ch_stage EXCEPT ![c] = s],
             ch_mailbox' \in [Session -> Seq(ChannelTopic \cup {Chan!Other})],
             UNCHANGED <<ch_doing, ch_joined, ch_group, ch_told, ch_stopped, ch_requests, ch_sends>>
      PROVE  ChannelInv'
  <2>1. Chan!TypeOK'
    BY <1>1, <1>3 DEF Chan!TypeOK
  <2>2. ch_stage'[c] = s /\ \A d \in Session \ {c} : ch_stage'[d] = ch_stage[d]
    BY <1>1, <1>3 DEF Chan!TypeOK
  <2>3. Others(c)
    BY <1>3, <2>2 DEF Others
  <2>4. Handling(c)' /\ Belongs(c)' /\ Tells(c)'
    BY <1>1, <1>3, <2>2 DEF Handling, Belongs, Tells, Chan!Callback, Leaving
  <2>5. QED BY <2>1, <2>3, <2>4, ChannelOthersOK
<1>4. CASE Chan!Disconnect(c)
  BY <1>1, <1>3, <1>4 DEF Chan!Disconnect, Chan!TypeOK
<1>5. CASE Chan!TerminateNext(c) /\ ch_stage' = [ch_stage EXCEPT ![c] = "ended"] /\ UNCHANGED <<ch_joined, ch_doing>>
           /\ ch_mailbox' = [ch_mailbox EXCEPT ![c] = <<>>]
  BY <1>1, <1>3, <1>5, EmptySeq DEF Chan!TerminateNext, Chan!TypeOK
<1>6. QED BY <1>2, <1>4, <1>5 DEF Chan!TerminateNext

LEMMA ChannelStepOK == ChannelInv /\ [Chan!Next]_(Chan!vars) => ChannelInv'
<1> SUFFICES ASSUME ChannelInv, [Chan!Next]_(Chan!vars) PROVE ChannelInv'
  OBVIOUS
<1>1. ASSUME NEW c \in Session, NEW t \in ChannelTopic, Chan!Join(c, t) \/ Chan!Leave(c, t) \/ Chan!Event(c, t)
      PROVE  ChannelInv'
  BY <1>1, ChannelJoinOK, ChannelLeaveOK, ChannelEventOK
<1>2. ASSUME NEW c \in Session,
             \/ Chan!JoinReturns(c) \/ Chan!TerminateReturns(c) \/ Chan!EventReturns(c)
             \/ Chan!Mail(c) \/ Chan!InfoReturns(c) \/ Chan!MailDone(c) \/ Chan!Inform(c)
             \/ Chan!CallbackSends(c) \/ Chan!CallbackCalls(c) \/ Chan!Panic(c)
             \/ Chan!Disconnect(c) \/ Chan!TerminateNext(c)
      PROVE  ChannelInv'
  BY <1>2, ChannelJoinReturnsOK, ChannelTerminateReturnsOK, ChannelEventReturnsOK, ChannelMailOK, ChannelInfoReturnsOK, ChannelMailDoneOK,
     ChannelSendsOK, ChannelPanicOK, ChannelClosingOK
<1>3. CASE UNCHANGED Chan!vars
  BY <1>3, ChannelOnlyMailOK DEF Chan!vars, ChannelInv, Chan!TypeOK
<1>4. QED BY <1>1, <1>2, <1>3 DEF Chan!Next

LEMMA ChannelInFocus == ChannelInv /\ [ServicesNext]_servicesVars => ChannelInv'
<1>1. ServicesNext => Chan!Next \/ UNCHANGED chVars
  BY DEF ServicesNext
<1>2. UNCHANGED servicesVars => UNCHANGED chVars
  BY DEF servicesVars
<1>3. UNCHANGED chVars => UNCHANGED Chan!vars
  BY DEF chVars, Chan!vars
<1>4. QED BY <1>1, <1>2, <1>3, ChannelStepOK

(* channel: a member of a topic's group has joined the topic, and a client was   *)
(* told so.                                                                       *)
THEOREM ChannelCorrect == ServicesSpec => []ChannelSafe
<1>1. ServicesInit => ChannelInv
  BY ChannelInitOK DEF ServicesInit
<1>2. ChannelInv => ChannelSafe
  BY ChannelSafeOK DEF ChannelInv, ChannelSafe
<1>3. QED BY <1>1, <1>2, ChannelInFocus, PTL DEF ServicesSpec

-----------------------------------------------------------------------------
(* The calls and casts in a mailbox are what their senders meant. No two calls   *)
(* of a process have the same reference, and none has been answered.             *)
CallOf(n, m) ==
    /\ m.by \in Pub!Process /\ Pub!Home(m.by) = n /\ m.topic \in Topic /\ m.pid \in Pub!Process
    /\ m.ref > ps_budget[m.by] /\ m.ref # ps_replied[m.by]
CastOf(m) == m.ref \in Pub!Msg /\ m.ref < ps_nextMsg /\ m.topic \in Topic /\ m.topic = ps_topicOf[m.ref]

Posted ==
    \A n \in Pub!Node : \A i \in DOMAIN ps_mailbox[n] :
        /\ ps_mailbox[n][i].kind \in Pub!CallKind => CallOf(n, ps_mailbox[n][i])
        /\ ps_mailbox[n][i].kind \in Pub!CastKind => CastOf(ps_mailbox[n][i])
CallsDiffer ==
    \A n \in Pub!Node : \A i, j \in DOMAIN ps_mailbox[n] :
        /\ ps_mailbox[n][i].kind \in Pub!CallKind /\ ps_mailbox[n][j].kind \in Pub!CallKind
        /\ ps_mailbox[n][i].by = ps_mailbox[n][j].by /\ ps_mailbox[n][i].ref = ps_mailbox[n][j].ref
        => i = j
Forwarded == \A n \in Pub!Node : \A i \in DOMAIN ps_wire[n] : ps_wire[n][i].kind = "raw"
Waiting ==
    \A p \in Pub!Process :
        /\ ps_replied[p] = 0 \/ ps_replied[p] > ps_budget[p]
        /\ ps_calling[p] # Pub!Idle =>
              ps_calling[p].kind \in Pub!CallKind /\ ps_calling[p].by = p /\ ps_calling[p].ref > ps_budget[p]

(* What a message asks for a process and a topic, and what holds of them.        *)
Against(w) == IF w = "in" THEN "out" ELSE "in"
Says(m, q, t, w) ==
    /\ m.pid = q
    /\ IF w = "in" THEN m.kind = "subscribe" /\ m.topic = t
       ELSE m.kind = "unsubscribe_all" \/ (m.kind = "unsubscribe" /\ m.topic = t)
Is(q, t) == IF ps_entries[Pub!Home(q)][t][q] > 0 THEN "in" ELSE "out"
AtHome == \A n \in Pub!Node, t \in Topic, q \in Pub!Process : ps_entries[n][t][q] > 0 => Pub!Home(q) = n

(* A process is in or out, and no message is on its way that would change that.  *)
Stands(q, t, w) ==
    /\ Is(q, t) = w
    /\ \A i \in DOMAIN ps_mailbox[Pub!Home(q)] : ~Says(ps_mailbox[Pub!Home(q)][i], q, t, Against(w))
(* Or the call is on its way that will make it so.                               *)
Comes(m, q, t, w) ==
    \E i \in DOMAIN ps_mailbox[Pub!Home(q)] :
        /\ ps_mailbox[Pub!Home(q)][i] = m /\ Says(m, q, t, w)
        /\ \A j \in DOMAIN ps_mailbox[Pub!Home(q)] :
              j > i => ~Says(ps_mailbox[Pub!Home(q)][j], q, t, Against(w))

Standing ==
    /\ \A s \in ps_subscribed : Stands(s[1], s[2], "in")
    /\ \A s \in ps_silent : Stands(s[1], s[2], "out")
Wish(p) == IF ps_calling[p].kind = "subscribe" THEN "in" ELSE "out"
Coming ==
    \A p \in Pub!Process : ps_calling[p] # Pub!Idle =>
        \A s \in ps_awaited[p] :
            /\ Pub!Home(s[1]) = Pub!Home(p)
            /\ Stands(s[1], s[2], Wish(p)) \/ Comes(ps_calling[p], s[1], s[2], Wish(p))
Due ==
    \A d \in ps_due :
        /\ d[1] < ps_nextMsg /\ <<d[2], ps_topicOf[d[1]]>> \in ps_subscribed
        /\ Pub!Home(d[2]) = ps_origin[d[1]] =>
              \/ d \in ps_reached
              \/ \E i \in DOMAIN ps_mailbox[Pub!Home(d[2])] :
                    /\ ps_mailbox[Pub!Home(d[2])][i].kind \in Pub!CastKind
                    /\ ps_mailbox[Pub!Home(d[2])][i].ref = d[1] /\ ps_mailbox[Pub!Home(d[2])][i].pid # d[2]

Mail == Posted /\ CallsDiffer /\ Forwarded /\ Waiting /\ AtHome
PubSubInv == Pub!TypeOK /\ Mail /\ Standing /\ Coming /\ Due

LEMMA PubSubSafeOK == PubSubInv => Pub!LocalHears
<1> SUFFICES ASSUME PubSubInv, Pub!Quiet, NEW d \in ps_due, Pub!Home(d[2]) = ps_origin[d[1]] PROVE d \in ps_reached
  BY DEF Pub!LocalHears
<1>1. Pub!Home(d[2]) \in Pub!Node
  BY DEF Pub!Home, Pub!Node
<1>2. ps_mailbox[Pub!Home(d[2])] = <<>>
  BY <1>1 DEF Pub!Quiet
<1>3. DOMAIN ps_mailbox[Pub!Home(d[2])] = {}
  BY <1>2
<1>4. QED BY <1>3 DEF PubSubInv, Due

LEMMA PubSubHomeOK == \A p : Pub!Home(p) \in Pub!Node
BY DEF Pub!Home, Pub!Node

LEMMA PubSubInitOK == Pub!Init => PubSubInv
<1> SUFFICES ASSUME Pub!Init PROVE PubSubInv
  OBVIOUS
<1>1. Pub!Idle \in Pub!Message /\ Pub!CompleteInit \in Pub!Message /\ Pub!CompleteInit.kind = "complete_init"
  BY DEF Pub!Idle, Pub!CompleteInit, Pub!Message
<1>2. <<Pub!CompleteInit>> \in Seq(Pub!Message)
  BY <1>1
<1>3. /\ \A n \in Pub!Node : ps_mailbox[n] = <<Pub!CompleteInit>> /\ ps_wire[n] = <<>>
      /\ ps_subscribed = {} /\ ps_silent = {} /\ ps_due = {} /\ ps_calling = [p \in Pub!Process |-> Pub!Idle]
      /\ ps_replied = [p \in Pub!Process |-> 0]
      /\ ps_entries = [n \in Pub!Node |-> [t \in Topic |-> [p \in Pub!Process |-> 0]]]
  BY DEF Pub!Init
<1>4. Pub!TypeOK
  BY <1>1, <1>2, PubSubAssumption, EmptySeq DEF Pub!Init, Pub!TypeOK, Pub!Msg, Pub!Process
<1>5. Posted /\ CallsDiffer /\ Forwarded /\ Waiting /\ AtHome
  <2>1. Posted
    BY <1>1, <1>3 DEF Posted, Pub!CallKind, Pub!CastKind
  <2>2. CallsDiffer /\ Forwarded /\ Waiting /\ AtHome
    BY <1>3, <1>1 DEF CallsDiffer, Forwarded, Waiting, AtHome
  <2>3. QED BY <2>1, <2>2
<1>6. Standing /\ Coming /\ Due
  BY <1>3 DEF Standing, Coming, Due
<1>7. QED BY <1>4, <1>5, <1>6 DEF PubSubInv, Mail

(* A message is put into a mailbox.                                              *)
LEMMA PubSubPostType ==
    ASSUME ps_mailbox \in [Pub!Node -> Seq(Pub!Message)], NEW n \in Pub!Node, NEW m \in Pub!Message, Pub!Post(n, m)
    PROVE  /\ ps_mailbox' \in [Pub!Node -> Seq(Pub!Message)]
           /\ \A k \in Pub!Node \ {n} : ps_mailbox'[k] = ps_mailbox[k]
           /\ DOMAIN ps_mailbox'[n] = 1 .. Len(ps_mailbox[n]) + 1 /\ DOMAIN ps_mailbox[n] = 1 .. Len(ps_mailbox[n])
           /\ Len(ps_mailbox[n]) \in Nat
           /\ ps_mailbox'[n][Len(ps_mailbox[n]) + 1] = m
           /\ \A i \in DOMAIN ps_mailbox[n] : ps_mailbox'[n][i] = ps_mailbox[n][i]
<1>1. ps_mailbox[n] \in Seq(Pub!Message) /\ ps_mailbox'[n] = Append(ps_mailbox[n], m)
  BY DEF Pub!Post
<1>2. Append(ps_mailbox[n], m) \in Seq(Pub!Message)
  BY <1>1, AppendProperties
<1>3. ps_mailbox' \in [Pub!Node -> Seq(Pub!Message)] /\ \A k \in Pub!Node \ {n} : ps_mailbox'[k] = ps_mailbox[k]
  BY <1>2 DEF Pub!Post
<1>4. QED BY <1>1, <1>3, AppendProperties, LenProperties

(* A server takes the first message of its mailbox.                              *)
LEMMA PubSubTakesType ==
    ASSUME ps_mailbox \in [Pub!Node -> Seq(Pub!Message)], NEW n \in Pub!Node, NEW kinds, Pub!Takes(n, kinds)
    PROVE  /\ ps_mailbox' \in [Pub!Node -> Seq(Pub!Message)]
           /\ \A k \in Pub!Node \ {n} : ps_mailbox'[k] = ps_mailbox[k]
           /\ Len(ps_mailbox[n]) \in Nat \ {0}
           /\ DOMAIN ps_mailbox'[n] = 1 .. Len(ps_mailbox[n]) - 1 /\ DOMAIN ps_mailbox[n] = 1 .. Len(ps_mailbox[n])
           /\ \A i \in DOMAIN ps_mailbox'[n] : ps_mailbox'[n][i] = ps_mailbox[n][i + 1]
           /\ 1 \in DOMAIN ps_mailbox[n] /\ Head(ps_mailbox[n]) = ps_mailbox[n][1]
           /\ Head(ps_mailbox[n]) \in Pub!Message /\ Head(ps_mailbox[n]).kind \in kinds
<1>1. ps_mailbox[n] \in Seq(Pub!Message) /\ ps_mailbox[n] # <<>> /\ ps_mailbox'[n] = Tail(ps_mailbox[n])
      /\ Head(ps_mailbox[n]).kind \in kinds
  BY DEF Pub!Takes
<1>2. ps_mailbox' \in [Pub!Node -> Seq(Pub!Message)] /\ \A k \in Pub!Node \ {n} : ps_mailbox'[k] = ps_mailbox[k]
  BY <1>1, HeadTailProperties DEF Pub!Takes
<1>3. /\ Len(ps_mailbox[n]) \in Nat \ {0} /\ DOMAIN ps_mailbox[n] = 1 .. Len(ps_mailbox[n])
      /\ Tail(ps_mailbox[n]) \in Seq(Pub!Message) /\ Len(Tail(ps_mailbox[n])) = Len(ps_mailbox[n]) - 1
      /\ \A i \in 1 .. Len(ps_mailbox[n]) - 1 : Tail(ps_mailbox[n])[i] = ps_mailbox[n][i + 1]
      /\ Head(ps_mailbox[n]) \in Pub!Message /\ Head(ps_mailbox[n]) = ps_mailbox[n][1]
  BY <1>1, HeadTailProperties, LenProperties, EmptySeq
<1>4. DOMAIN Tail(ps_mailbox[n]) = 1 .. Len(ps_mailbox[n]) - 1
  BY <1>3, LenProperties
<1>5. QED BY <1>1, <1>2, <1>3, <1>4

LEMMA PubSubStandsPost ==
    ASSUME ps_mailbox \in [Pub!Node -> Seq(Pub!Message)], NEW n \in Pub!Node, NEW m \in Pub!Message, Pub!Post(n, m),
           UNCHANGED ps_entries, NEW q, NEW t, NEW w, Stands(q, t, w),
           n = Pub!Home(q) => ~Says(m, q, t, Against(w))
    PROVE  Stands(q, t, w)'
<1>1. Pub!Home(q) \in Pub!Node
  BY PubSubHomeOK
<1>2. \A i \in DOMAIN ps_mailbox'[Pub!Home(q)] : ~Says(ps_mailbox'[Pub!Home(q)][i], q, t, Against(w))
  <2>1. CASE n # Pub!Home(q)
    BY <1>1, <2>1, PubSubPostType DEF Stands
  <2>2. CASE n = Pub!Home(q)
    <3> SUFFICES ASSUME NEW i \in DOMAIN ps_mailbox'[n] PROVE ~Says(ps_mailbox'[n][i], q, t, Against(w))
      BY <2>2
    <3>1. i \in DOMAIN ps_mailbox[n] \/ i = Len(ps_mailbox[n]) + 1
      BY PubSubPostType
    <3>2. QED BY <2>2, <3>1, PubSubPostType DEF Stands
  <2>3. QED BY <2>1, <2>2
<1>3. QED BY <1>2 DEF Stands, Is

LEMMA PubSubComesPost ==
    ASSUME ps_mailbox \in [Pub!Node -> Seq(Pub!Message)], NEW n \in Pub!Node, NEW m \in Pub!Message, Pub!Post(n, m),
           NEW c, NEW q, NEW t, NEW w, Comes(c, q, t, w),
           n = Pub!Home(q) => ~Says(m, q, t, Against(w))
    PROVE  \E i \in DOMAIN ps_mailbox'[Pub!Home(q)] :
               /\ ps_mailbox'[Pub!Home(q)][i] = c /\ Says(c, q, t, w)
               /\ \A j \in DOMAIN ps_mailbox'[Pub!Home(q)] :
                     j > i => ~Says(ps_mailbox'[Pub!Home(q)][j], q, t, Against(w))
<1>1. Pub!Home(q) \in Pub!Node
  BY PubSubHomeOK
<1>2. PICK i \in DOMAIN ps_mailbox[Pub!Home(q)] :
        /\ ps_mailbox[Pub!Home(q)][i] = c /\ Says(c, q, t, w)
        /\ \A j \in DOMAIN ps_mailbox[Pub!Home(q)] :
              j > i => ~Says(ps_mailbox[Pub!Home(q)][j], q, t, Against(w))
  BY DEF Comes
<1>3. CASE n # Pub!Home(q)
  BY <1>1, <1>2, <1>3, PubSubPostType
<1>4. CASE n = Pub!Home(q)
  <2>1. i \in DOMAIN ps_mailbox'[n] /\ ps_mailbox'[n][i] = c
    BY <1>2, <1>4, PubSubPostType
  <2>2. ASSUME NEW j \in DOMAIN ps_mailbox'[n], j > i PROVE ~Says(ps_mailbox'[n][j], q, t, Against(w))
    <3>1. j \in DOMAIN ps_mailbox[n] \/ j = Len(ps_mailbox[n]) + 1
      <4>1. j \in 1 .. Len(ps_mailbox[n]) + 1 /\ DOMAIN ps_mailbox[n] = 1 .. Len(ps_mailbox[n]) /\ Len(ps_mailbox[n]) \in Nat
        BY PubSubPostType
      <4>2. QED BY <4>1
    <3>2. QED BY <1>2, <1>4, <2>2, <3>1, PubSubPostType
  <2>3. QED BY <1>2, <1>4, <2>1, <2>2
<1>5. QED BY <1>3, <1>4

LEMMA PubSubStandsTakes ==
    ASSUME ps_mailbox \in [Pub!Node -> Seq(Pub!Message)], NEW n \in Pub!Node, NEW kinds, Pub!Takes(n, kinds),
           NEW q, NEW t, NEW w, Stands(q, t, w)
    PROVE  /\ \A i \in DOMAIN ps_mailbox'[Pub!Home(q)] : ~Says(ps_mailbox'[Pub!Home(q)][i], q, t, Against(w))
           /\ n = Pub!Home(q) => ~Says(Head(ps_mailbox[n]), q, t, Against(w))
<1>1. Pub!Home(q) \in Pub!Node
  BY PubSubHomeOK
<1>2. CASE n # Pub!Home(q)
  BY <1>1, <1>2, PubSubTakesType DEF Stands
<1>3. CASE n = Pub!Home(q)
  <2>1. ASSUME NEW i \in DOMAIN ps_mailbox'[n] PROVE ~Says(ps_mailbox'[n][i], q, t, Against(w))
    <3>1. i + 1 \in DOMAIN ps_mailbox[n] /\ ps_mailbox'[n][i] = ps_mailbox[n][i + 1]
      BY PubSubTakesType
    <3>2. QED BY <1>3, <3>1 DEF Stands
  <2>2. ~Says(Head(ps_mailbox[n]), q, t, Against(w))
    BY <1>3, PubSubTakesType DEF Stands
  <2>3. QED BY <1>3, <2>1, <2>2
<1>4. QED BY <1>2, <1>3

LEMMA PubSubComesTakes ==
    ASSUME ps_mailbox \in [Pub!Node -> Seq(Pub!Message)], NEW n \in Pub!Node, NEW kinds, Pub!Takes(n, kinds),
           NEW c, NEW q, NEW t, NEW w, Comes(c, q, t, w)
    PROVE  \/ \E i \in DOMAIN ps_mailbox'[Pub!Home(q)] :
               /\ ps_mailbox'[Pub!Home(q)][i] = c /\ Says(c, q, t, w)
               /\ \A j \in DOMAIN ps_mailbox'[Pub!Home(q)] :
                     j > i => ~Says(ps_mailbox'[Pub!Home(q)][j], q, t, Against(w))
           \/ /\ n = Pub!Home(q) /\ c = Head(ps_mailbox[n]) /\ Says(c, q, t, w)
              /\ \A j \in DOMAIN ps_mailbox'[n] : ~Says(ps_mailbox'[n][j], q, t, Against(w))
<1>1. Pub!Home(q) \in Pub!Node
  BY PubSubHomeOK
<1>2. PICK i \in DOMAIN ps_mailbox[Pub!Home(q)] :
        /\ ps_mailbox[Pub!Home(q)][i] = c /\ Says(c, q, t, w)
        /\ \A j \in DOMAIN ps_mailbox[Pub!Home(q)] :
              j > i => ~Says(ps_mailbox[Pub!Home(q)][j], q, t, Against(w))
  BY DEF Comes
<1>3. CASE n # Pub!Home(q)
  BY <1>1, <1>2, <1>3, PubSubTakesType
<1>4. CASE n = Pub!Home(q)
  <2>1. i \in 1 .. Len(ps_mailbox[n]) /\ Len(ps_mailbox[n]) \in Nat
    BY <1>2, <1>4, PubSubTakesType
  <2>2. ASSUME NEW j \in DOMAIN ps_mailbox'[n], j > i - 1 PROVE ~Says(ps_mailbox'[n][j], q, t, Against(w))
    <3>1. j + 1 \in DOMAIN ps_mailbox[n] /\ ps_mailbox'[n][j] = ps_mailbox[n][j + 1] /\ j + 1 > i
      BY <2>1, <2>2, PubSubTakesType
    <3>2. QED BY <1>2, <1>4, <3>1
  <2>3. CASE i = 1
    <3>1. c = Head(ps_mailbox[n])
      BY <1>2, <1>4, <2>3, PubSubTakesType
    <3>2. \A j \in DOMAIN ps_mailbox'[n] : j > i - 1
      BY <2>3, PubSubTakesType
    <3>3. QED BY <1>2, <1>4, <2>2, <3>1, <3>2
  <2>4. CASE i # 1
    <3>1. i - 1 \in DOMAIN ps_mailbox'[n] /\ ps_mailbox'[n][i - 1] = ps_mailbox[n][i]
      BY <2>1, <2>4, PubSubTakesType
    <3>2. QED BY <1>2, <1>4, <2>2, <3>1
  <2>5. QED BY <2>3, <2>4
<1>5. QED BY <1>3, <1>4

(* What is in the mailboxes stays in order.                                      *)
LEMMA PubSubPostedPost ==
    ASSUME Pub!TypeOK, Posted, CallsDiffer, NEW n \in Pub!Node, NEW m \in Pub!Message, Pub!Post(n, m),
           ps_budget' \in [Pub!Process -> Nat], \A x \in Pub!Process : ps_budget'[x] <= ps_budget[x],
           ps_replied' = ps_replied, ps_nextMsg' \in Nat, ps_nextMsg' >= ps_nextMsg,
           \A k \in Pub!Msg : k < ps_nextMsg => ps_topicOf'[k] = ps_topicOf[k],
           m.kind \in Pub!CallKind =>
              /\ m.by \in Pub!Process /\ Pub!Home(m.by) = n /\ m.topic \in Topic /\ m.pid \in Pub!Process
              /\ m.ref > ps_budget'[m.by] /\ m.ref # ps_replied[m.by]
              /\ \A i \in DOMAIN ps_mailbox[n] :
                    ps_mailbox[n][i].kind \in Pub!CallKind /\ ps_mailbox[n][i].by = m.by
                        => ps_mailbox[n][i].ref # m.ref,
           m.kind \in Pub!CastKind =>
              m.ref \in Pub!Msg /\ m.ref < ps_nextMsg' /\ m.topic \in Topic /\ m.topic = ps_topicOf'[m.ref]
    PROVE  Posted' /\ CallsDiffer'
<1>1. /\ \A k \in Pub!Node \ {n} : ps_mailbox'[k] = ps_mailbox[k]
      /\ DOMAIN ps_mailbox'[n] = 1 .. Len(ps_mailbox[n]) + 1 /\ DOMAIN ps_mailbox[n] = 1 .. Len(ps_mailbox[n])
      /\ Len(ps_mailbox[n]) \in Nat /\ ps_mailbox'[n][Len(ps_mailbox[n]) + 1] = m
      /\ \A i \in DOMAIN ps_mailbox[n] : ps_mailbox'[n][i] = ps_mailbox[n][i]
  BY PubSubPostType DEF Pub!TypeOK
<1>2. \A k \in Pub!Node : \A i \in DOMAIN ps_mailbox'[k] :
          (k = n /\ ps_mailbox'[k][i] = m) \/ (i \in DOMAIN ps_mailbox[k] /\ ps_mailbox'[k][i] = ps_mailbox[k][i])
  <2> SUFFICES ASSUME NEW i \in DOMAIN ps_mailbox'[n]
               PROVE  ps_mailbox'[n][i] = m \/ (i \in DOMAIN ps_mailbox[n] /\ ps_mailbox'[n][i] = ps_mailbox[n][i])
    BY <1>1
  <2>1. i \in DOMAIN ps_mailbox[n] \/ i = Len(ps_mailbox[n]) + 1
    BY <1>1
  <2>2. QED BY <1>1, <2>1
<1>3. \A k \in Pub!Node, x \in Pub!Message : x.kind \in Pub!CallKind /\ CallOf(k, x) => CallOf(k, x)'
  BY DEF CallOf, Pub!TypeOK, Pub!Message
<1>4. \A x \in Pub!Message : CastOf(x) => CastOf(x)'
  BY DEF CastOf, Pub!TypeOK, Pub!Msg
<1>5. \A k \in Pub!Node : \A i \in DOMAIN ps_mailbox[k] : ps_mailbox[k][i] \in Pub!Message
  BY ElementOfSeq, LenProperties DEF Pub!TypeOK
<1>6. m.kind \in Pub!CallKind => CallOf(n, m)'
  BY DEF CallOf
<1>7. m.kind \in Pub!CastKind => CastOf(m)'
  BY DEF CastOf
<1>8. ASSUME NEW k \in Pub!Node, NEW i \in DOMAIN ps_mailbox'[k], NEW x, x = ps_mailbox'[k][i]
      PROVE  /\ x.kind \in Pub!CallKind => CallOf(k, x)'
             /\ x.kind \in Pub!CastKind => CastOf(x)'
  <2>1. CASE k = n /\ x = m
    BY <1>6, <1>7, <2>1
  <2>2. CASE i \in DOMAIN ps_mailbox[k] /\ x = ps_mailbox[k][i]
    BY <1>3, <1>4, <1>5, <2>2 DEF Posted
  <2>3. QED BY <1>2, <1>8, <2>1, <2>2
<1>9. Posted'
  BY <1>8 DEF Posted, CallOf, CastOf
<1>10. CallsDiffer'
  <2> SUFFICES ASSUME NEW k \in Pub!Node, NEW i \in DOMAIN ps_mailbox'[k], NEW j \in DOMAIN ps_mailbox'[k],
                      ps_mailbox'[k][i].kind \in Pub!CallKind, ps_mailbox'[k][j].kind \in Pub!CallKind,
                      ps_mailbox'[k][i].by = ps_mailbox'[k][j].by, ps_mailbox'[k][i].ref = ps_mailbox'[k][j].ref
               PROVE  i = j
    BY DEF CallsDiffer
  <2>1. CASE k # n
    BY <1>1, <2>1 DEF CallsDiffer
  <2>2. CASE k = n
    <3>1. /\ i \in DOMAIN ps_mailbox[n] \/ i = Len(ps_mailbox[n]) + 1
          /\ j \in DOMAIN ps_mailbox[n] \/ j = Len(ps_mailbox[n]) + 1
      BY <1>1, <2>2
    <3>2. CASE i \in DOMAIN ps_mailbox[n] /\ j \in DOMAIN ps_mailbox[n]
      BY <1>1, <2>2, <3>2 DEF CallsDiffer
    <3>3. CASE i = Len(ps_mailbox[n]) + 1 /\ j \in DOMAIN ps_mailbox[n]
      BY <1>1, <2>2, <3>3
    <3>4. CASE j = Len(ps_mailbox[n]) + 1 /\ i \in DOMAIN ps_mailbox[n]
      BY <1>1, <2>2, <3>4
    <3>5. QED BY <3>1, <3>2, <3>3, <3>4
  <2>3. QED BY <2>1, <2>2
<1>11. QED BY <1>9, <1>10

LEMMA PubSubPostedTakes ==
    ASSUME Pub!TypeOK, Posted, CallsDiffer, NEW n \in Pub!Node, NEW kinds, Pub!Takes(n, kinds),
           UNCHANGED <<ps_budget, ps_nextMsg, ps_topicOf>>,
           \A k \in Pub!Node : \A i \in DOMAIN ps_mailbox'[k] :
               ps_mailbox'[k][i].kind \in Pub!CallKind => ps_mailbox'[k][i].ref # ps_replied'[ps_mailbox'[k][i].by]
    PROVE  Posted' /\ CallsDiffer'
<1>1. /\ \A k \in Pub!Node \ {n} : ps_mailbox'[k] = ps_mailbox[k]
      /\ Len(ps_mailbox[n]) \in Nat \ {0}
      /\ DOMAIN ps_mailbox'[n] = 1 .. Len(ps_mailbox[n]) - 1 /\ DOMAIN ps_mailbox[n] = 1 .. Len(ps_mailbox[n])
      /\ \A i \in DOMAIN ps_mailbox'[n] : ps_mailbox'[n][i] = ps_mailbox[n][i + 1]
  BY PubSubTakesType DEF Pub!TypeOK
<1>2. \A i \in DOMAIN ps_mailbox'[n] : i \in Int /\ i + 1 \in DOMAIN ps_mailbox[n]
  BY <1>1
<1>3. ASSUME NEW k \in Pub!Node, NEW i \in DOMAIN ps_mailbox'[k]
      PROVE  \E j \in DOMAIN ps_mailbox[k] : ps_mailbox'[k][i] = ps_mailbox[k][j]
  BY <1>1, <1>2
<1>4. ASSUME NEW k \in Pub!Node, NEW i \in DOMAIN ps_mailbox'[k], NEW x, x = ps_mailbox'[k][i]
      PROVE  /\ x.kind \in Pub!CallKind => CallOf(k, x)'
             /\ x.kind \in Pub!CastKind => CastOf(x)'
  <2>1. PICK j \in DOMAIN ps_mailbox[k] : x = ps_mailbox[k][j]
    BY <1>3, <1>4
  <2>2. /\ x.kind \in Pub!CallKind => CallOf(k, x) /\ x.ref # ps_replied'[x.by]
        /\ x.kind \in Pub!CastKind => CastOf(x)
    BY <1>4, <2>1 DEF Posted
  <2>3. QED BY <2>2 DEF CallOf, CastOf
<1>5. Posted'
  BY <1>4 DEF Posted, CallOf, CastOf
<1>6. CallsDiffer'
  <2> SUFFICES ASSUME NEW k \in Pub!Node, NEW i \in DOMAIN ps_mailbox'[k], NEW j \in DOMAIN ps_mailbox'[k],
                      ps_mailbox'[k][i].kind \in Pub!CallKind, ps_mailbox'[k][j].kind \in Pub!CallKind,
                      ps_mailbox'[k][i].by = ps_mailbox'[k][j].by, ps_mailbox'[k][i].ref = ps_mailbox'[k][j].ref
               PROVE  i = j
    BY DEF CallsDiffer
  <2>1. CASE k # n
    BY <1>1, <2>1 DEF CallsDiffer
  <2>2. CASE k = n
    <3>1. /\ i \in Int /\ i + 1 \in DOMAIN ps_mailbox[n] /\ ps_mailbox'[n][i] = ps_mailbox[n][i + 1]
          /\ j \in Int /\ j + 1 \in DOMAIN ps_mailbox[n] /\ ps_mailbox'[n][j] = ps_mailbox[n][j + 1]
      BY <1>1, <1>2, <2>2
    <3>2. i + 1 = j + 1
      BY <2>2, <3>1 DEF CallsDiffer
    <3>3. QED BY <3>1, <3>2
  <2>3. QED BY <2>1, <2>2
<1>7. QED BY <1>5, <1>6

(* What a turn of a server leaves of the broadcasts that are due.                *)
LEMMA PubSubDueTakes ==
    ASSUME Pub!TypeOK, Due, NEW n \in Pub!Node, NEW kinds, Pub!Takes(n, kinds),
           UNCHANGED <<ps_due, ps_nextMsg, ps_topicOf, ps_origin, ps_subscribed>>, ps_reached \subseteq ps_reached',
           \A d \in ps_due : /\ Pub!Home(d[2]) = n /\ Head(ps_mailbox[n]).kind \in Pub!CastKind
                          /\ Head(ps_mailbox[n]).ref = d[1] /\ Head(ps_mailbox[n]).pid # d[2]
                          => d \in ps_reached'
    PROVE  Due'
<1> SUFFICES ASSUME NEW d \in ps_due, Pub!Home(d[2]) = ps_origin[d[1]], d \notin ps_reached'
             PROVE  \E i \in DOMAIN ps_mailbox'[Pub!Home(d[2])] :
                        /\ ps_mailbox'[Pub!Home(d[2])][i].kind \in Pub!CastKind
                        /\ ps_mailbox'[Pub!Home(d[2])][i].ref = d[1] /\ ps_mailbox'[Pub!Home(d[2])][i].pid # d[2]
  BY DEF Due
<1>1. PICK i \in DOMAIN ps_mailbox[Pub!Home(d[2])] :
          /\ ps_mailbox[Pub!Home(d[2])][i].kind \in Pub!CastKind
          /\ ps_mailbox[Pub!Home(d[2])][i].ref = d[1] /\ ps_mailbox[Pub!Home(d[2])][i].pid # d[2]
  BY DEF Due
<1>2. CASE Pub!Home(d[2]) # n
  <2>1. ps_mailbox'[Pub!Home(d[2])] = ps_mailbox[Pub!Home(d[2])]
    BY <1>2, PubSubHomeOK, PubSubTakesType DEF Pub!TypeOK
  <2>2. QED BY <1>1, <2>1
<1>3. CASE Pub!Home(d[2]) = n
  <2>1. i # 1 /\ i \in 1 .. Len(ps_mailbox[n])
    BY <1>1, <1>3, PubSubTakesType DEF Pub!TypeOK
  <2>2. i - 1 \in DOMAIN ps_mailbox'[n] /\ ps_mailbox'[n][i - 1] = ps_mailbox[n][i]
    BY <2>1, PubSubTakesType DEF Pub!TypeOK
  <2>3. QED BY <1>1, <1>3, <2>2
<1>4. QED BY <1>2, <1>3

(* A turn that is about no call.                                                 *)
LEMMA PubSubTakesQuiet ==
    ASSUME PubSubInv, NEW n \in Pub!Node, NEW kinds, Pub!Takes(n, kinds), kinds \cap Pub!CallKind = {},
           UNCHANGED <<ps_entries, ps_calling, ps_replied, ps_budget, ps_subscribed, ps_silent, ps_awaited, Pub!castVars>>
    PROVE  Posted' /\ CallsDiffer' /\ Waiting' /\ AtHome' /\ Standing' /\ Coming'
<1>1. Pub!TypeOK /\ Posted /\ CallsDiffer /\ Waiting /\ AtHome /\ Standing /\ Coming
  BY DEF PubSubInv, Mail
<1>2. UNCHANGED <<ps_nextMsg, ps_topicOf, ps_origin, ps_due>>
  BY DEF Pub!castVars
<1>3. \A k \in Pub!Node : \A i \in DOMAIN ps_mailbox'[k] :
          ps_mailbox'[k][i].kind \in Pub!CallKind => ps_mailbox'[k][i].ref # ps_replied'[ps_mailbox'[k][i].by]
  <2> SUFFICES ASSUME NEW k \in Pub!Node, NEW i \in DOMAIN ps_mailbox'[k], ps_mailbox'[k][i].kind \in Pub!CallKind
               PROVE  ps_mailbox'[k][i].ref # ps_replied[ps_mailbox'[k][i].by]
    OBVIOUS
  <2>1. CASE k # n
    BY <1>1, <2>1, PubSubTakesType DEF Posted, CallOf, Pub!TypeOK
  <2>2. CASE k = n
    <3>1. i + 1 \in DOMAIN ps_mailbox[n] /\ ps_mailbox'[n][i] = ps_mailbox[n][i + 1]
      BY <1>1, <2>2, PubSubTakesType DEF Pub!TypeOK
    <3>2. QED BY <1>1, <2>2, <3>1 DEF Posted, CallOf
  <2>3. QED BY <2>1, <2>2
<1>4. Posted' /\ CallsDiffer'
  BY <1>1, <1>2, <1>3, PubSubPostedTakes
<1>5. Waiting' /\ AtHome'
  BY <1>1 DEF Waiting, AtHome
<1>6. \A q, t, w : Stands(q, t, w) => Stands(q, t, w)'
  <2> SUFFICES ASSUME NEW q, NEW t, NEW w, Stands(q, t, w) PROVE Stands(q, t, w)'
    OBVIOUS
  <2>1. \A i \in DOMAIN ps_mailbox'[Pub!Home(q)] : ~Says(ps_mailbox'[Pub!Home(q)][i], q, t, Against(w))
    BY <1>1, PubSubStandsTakes DEF Pub!TypeOK
  <2>2. QED BY <2>1 DEF Stands, Is
<1>7. Standing'
  BY <1>1, <1>6 DEF Standing
<1>8. Coming'
  <2> SUFFICES ASSUME NEW p \in Pub!Process, ps_calling[p] # Pub!Idle, NEW s \in ps_awaited[p]
               PROVE  /\ Pub!Home(s[1]) = Pub!Home(p)
                      /\ Stands(s[1], s[2], Wish(p))' \/ Comes(ps_calling[p], s[1], s[2], Wish(p))'
    BY DEF Coming
  <2> DEFINE q == s[1]
             t == s[2]
  <2>1. PICK w, c : w = Wish(p) /\ w = Wish(p)' /\ c = ps_calling[p] /\ c = ps_calling'[p]
    BY DEF Wish
  <2>2. Pub!Home(q) = Pub!Home(p) /\ (Stands(q, t, w) \/ Comes(c, q, t, w))
    BY <1>1, <2>1 DEF Coming
  <2>3. CASE Stands(q, t, w)
    <3>1. Stands(q, t, w)'
      BY <1>6, <2>3
    <3>2. QED BY <2>1, <2>2, <3>1 DEF Stands
  <2>4. CASE Comes(c, q, t, w)
    <3>1. c # Head(ps_mailbox[n])
      <4>1. c.kind \in Pub!CallKind
        BY <1>1, <2>1 DEF Waiting
      <4>2. Head(ps_mailbox[n]).kind \in kinds
        BY DEF Pub!Takes
      <4>3. QED BY <4>1, <4>2
    <3> HIDE DEF q, t
    <3>2. Comes(c, q, t, w)'
      <4>1. ps_mailbox \in [Pub!Node -> Seq(Pub!Message)]
        BY <1>1 DEF Pub!TypeOK
      <4>2. \E i \in DOMAIN ps_mailbox'[Pub!Home(q)] :
               /\ ps_mailbox'[Pub!Home(q)][i] = c /\ Says(c, q, t, w)
               /\ \A j \in DOMAIN ps_mailbox'[Pub!Home(q)] :
                     j > i => ~Says(ps_mailbox'[Pub!Home(q)][j], q, t, Against(w))
        BY <2>4, <3>1, <4>1, PubSubComesTakes
      <4>3. QED BY <4>2 DEF Comes
    <3> USE DEF q, t
    <3>3. QED BY <2>1, <2>2, <3>2 DEF Comes
  <2>5. QED BY <2>2, <2>3, <2>4
<1>9. QED BY <1>4, <1>5, <1>7, <1>8

LEMMA PubSubQuietTurnOK ==
    ASSUME PubSubInv, NEW n \in Pub!Node, Pub!HandleContinue(n) \/ Pub!HandleRawInfo(n)
    PROVE  PubSubInv'
<1>1. Pub!TypeOK /\ Mail /\ Standing /\ Coming /\ Due
  BY DEF PubSubInv
<1>2. PICK kinds : Pub!Takes(n, kinds) /\ kinds \cap Pub!CallKind = {} /\ kinds \cap Pub!CastKind = {}
  BY DEF Pub!HandleContinue, Pub!HandleRawInfo, Pub!CallKind, Pub!CastKind
<1>3. /\ UNCHANGED <<ps_wire, ps_entries, ps_calling, ps_replied, ps_budget, ps_subscribed, ps_silent, ps_awaited, Pub!castVars, ps_reached>>
      /\ UNCHANGED <<ps_nextMsg, ps_topicOf, ps_origin, ps_due, ps_known>> /\ ps_named' \in [Pub!Node -> BOOLEAN]
  BY <1>1 DEF Pub!HandleContinue, Pub!HandleRawInfo, Pub!castVars, Pub!callVars, Pub!TypeOK
<1>4. ps_mailbox' \in [Pub!Node -> Seq(Pub!Message)] /\ Head(ps_mailbox[n]).kind \in kinds
  BY <1>1, <1>2, PubSubTakesType DEF Pub!TypeOK
<1>5. Pub!TypeOK'
  BY <1>1, <1>3, <1>4 DEF Pub!TypeOK
<1>6. Posted' /\ CallsDiffer' /\ Waiting' /\ AtHome' /\ Standing' /\ Coming'
  BY <1>2, <1>3, PubSubTakesQuiet
<1>7. Head(ps_mailbox[n]).kind \notin Pub!CastKind
  BY <1>2, <1>4
<1>8. Due'
  BY <1>1, <1>2, <1>3, <1>7, PubSubDueTakes
<1>9. Forwarded'
  BY <1>1, <1>3 DEF Mail, Forwarded
<1>10. QED BY <1>5, <1>6, <1>8, <1>9 DEF PubSubInv, Mail

LEMMA PubSubHandleCastOK ==
    ASSUME PubSubInv, NEW n \in Pub!Node, Pub!HandleCast(n)
    PROVE  PubSubInv' /\ \A c \in ps_reached' \ ps_reached : <<c[2], ps_topicOf[c[1]]>> \notin ps_silent
<1>1. Pub!TypeOK /\ Mail /\ Standing /\ Coming /\ Due
  BY DEF PubSubInv
<1>2. PICK m : m = Head(ps_mailbox[n])
  OBVIOUS
<1>3. /\ ps_mailbox' \in [Pub!Node -> Seq(Pub!Message)] /\ m \in Pub!Message /\ m.kind \in Pub!CastKind
      /\ 1 \in DOMAIN ps_mailbox[n] /\ m = ps_mailbox[n][1]
  BY <1>1, <1>2, PubSubTakesType DEF Pub!TypeOK, Pub!HandleCast
<1>4. m.ref \in Pub!Msg /\ m.topic \in Topic /\ m.topic = ps_topicOf[m.ref]
  BY <1>1, <1>3 DEF Mail, Posted, CastOf
<1>5. /\ UNCHANGED <<ps_entries, ps_calling, ps_replied, ps_budget, ps_subscribed, ps_silent, ps_awaited, Pub!castVars>>
      /\ UNCHANGED <<ps_nextMsg, ps_topicOf, ps_origin, ps_due, ps_known, ps_named>> /\ Pub!Takes(n, Pub!CastKind)
      /\ Pub!CastKind \cap Pub!CallKind = {}
  BY DEF Pub!HandleCast, Pub!castVars, Pub!callVars, Pub!CallKind, Pub!CastKind
<1>6. ps_reached' = ps_reached \cup {<<m.ref, p>> : p \in {q \in Pub!Process : ps_entries[n][m.topic][q] > 0} \ {m.pid}}
  BY <1>2 DEF Pub!HandleCast, Pub!Dispatch
<1>7. /\ ps_wire' \in [Pub!Node -> Seq(Pub!Message)]
      /\ \A k \in Pub!Node : \A i \in DOMAIN ps_wire'[k] : ps_wire'[k][i].kind = "raw"
  <2>1. CASE ps_wire' = ps_wire
    BY <1>1, <2>1 DEF Pub!TypeOK, Mail, Forwarded
  <2>2. CASE ps_wire' = [ps_wire EXCEPT ![n] = Append(@, [m EXCEPT !.kind = "raw"])]
    <3>5. [m EXCEPT !.kind = "raw"] \in Pub!Message /\ [m EXCEPT !.kind = "raw"].kind = "raw"
      BY <1>3 DEF Pub!Message
    <3>1. PICK r \in Pub!Message : r = [m EXCEPT !.kind = "raw"] /\ r.kind = "raw"
      BY <3>5
    <3>2. ps_wire[n] \in Seq(Pub!Message) /\ ps_wire' = [ps_wire EXCEPT ![n] = Append(ps_wire[n], r)]
      BY <1>1, <2>2, <3>1 DEF Pub!TypeOK
    <3>3. /\ Append(ps_wire[n], r) \in Seq(Pub!Message)
          /\ \A i \in DOMAIN Append(ps_wire[n], r) : Append(ps_wire[n], r)[i].kind = "raw"
      <4>1. \A i \in 1 .. Len(ps_wire[n]) : ps_wire[n][i].kind = "raw"
        BY <1>1, <3>2, LenProperties DEF Mail, Forwarded
      <4>2. QED BY <3>1, <3>2, <4>1, AppendProperties, LenProperties
    <3>4. QED BY <1>1, <3>2, <3>3 DEF Pub!TypeOK, Mail, Forwarded
  <2>3. QED BY <1>2, <2>1, <2>2 DEF Pub!HandleCast
<1>8. ps_reached' \subseteq Pub!Msg \X Pub!Process
  BY <1>1, <1>4, <1>6 DEF Pub!TypeOK
<1>9. Pub!TypeOK'
  BY <1>1, <1>3, <1>5, <1>7, <1>8 DEF Pub!TypeOK
<1>10. Posted' /\ CallsDiffer' /\ Waiting' /\ AtHome' /\ Standing' /\ Coming'
  BY <1>5, PubSubTakesQuiet
<1>11. ASSUME NEW d \in ps_due, Pub!Home(d[2]) = n, m.ref = d[1], m.pid # d[2]
       PROVE  d \in ps_reached'
  <2>1. d = <<d[1], d[2]>> /\ d[2] \in Pub!Process
    BY <1>1 DEF Pub!TypeOK
  <2>2. <<d[2], m.topic>> \in ps_subscribed
    BY <1>1, <1>4, <1>11 DEF Due
  <2>3. Stands(d[2], m.topic, "in")
    BY <1>1, <2>2 DEF Standing
  <2>4. ps_entries[n][m.topic][d[2]] > 0
    BY <1>11, <2>3 DEF Stands, Is
  <2>5. QED BY <1>6, <1>11, <2>1, <2>4
<1>12. Due'
  BY <1>1, <1>2, <1>5, <1>6, <1>11, PubSubDueTakes
<1>13. Forwarded'
  BY <1>7 DEF Forwarded
<1>14. ASSUME NEW c \in ps_reached' \ ps_reached PROVE <<c[2], ps_topicOf[c[1]]>> \notin ps_silent
  <2>1. PICK p \in Pub!Process : c = <<m.ref, p>> /\ ps_entries[n][m.topic][p] > 0
    BY <1>6
  <2>2. Pub!Home(p) = n
    BY <1>1, <1>4, <2>1 DEF Mail, AtHome
  <2>3. Is(p, m.topic) = "in"
    BY <2>1, <2>2 DEF Is
  <2>4. <<p, m.topic>> \notin ps_silent
    BY <1>1, <2>3 DEF Standing, Stands
  <2>5. QED BY <1>4, <2>1, <2>4
<1>15. QED BY <1>9, <1>10, <1>12, <1>13, <1>14 DEF PubSubInv, Mail

(* A call does to the registry of its node what it says.                         *)
LEMMA PubSubHandledOK ==
    ASSUME Pub!TypeOK, AtHome, NEW n \in Pub!Node, Pub!HandleCall(n), NEW m \in Pub!Message, m = Head(ps_mailbox[n]),
           m.pid \in Pub!Process, m.topic \in Topic
    PROVE  /\ ps_entries' \in [Pub!Node -> [Topic -> [Pub!Process -> Nat]]]
           /\ \A k \in Pub!Node \ {n} : ps_entries'[k] = ps_entries[k]
           /\ \A q \in Pub!Process, t \in Topic :
                 ps_entries'[n][t][q] =
                     IF m.kind = "subscribe" /\ Pub!Home(m.pid) = n /\ m.topic = t /\ m.pid = q
                     THEN ps_entries[n][t][q] + 1
                     ELSE IF /\ m.pid = q
                             /\ \/ m.kind = "unsubscribe" /\ Pub!Home(m.pid) = n /\ m.topic = t
                                \/ m.kind = "unsubscribe_all"
                     THEN 0 ELSE ps_entries[n][t][q]
<1>1. ps_entries' = [ps_entries EXCEPT ![n] = [t \in Topic |-> Pub!Registered(n, m, t)]]
  BY DEF Pub!HandleCall
<1>2. ps_entries \in [Pub!Node -> [Topic -> [Pub!Process -> Nat]]]
  BY DEF Pub!TypeOK
<1>3. ASSUME NEW t \in Topic PROVE ps_entries[n][t] \in [Pub!Process -> Nat]
  BY <1>2
<1>4. \A t \in Topic : Pub!Registered(n, m, t) \in [Pub!Process -> Nat]
  BY <1>3 DEF Pub!Registered, Pub!Unregister
<1>5. \A q \in Pub!Process, t \in Topic :
          Pub!Registered(n, m, t)[q] =
                     IF m.kind = "subscribe" /\ Pub!Home(m.pid) = n /\ m.topic = t /\ m.pid = q
                     THEN ps_entries[n][t][q] + 1
                     ELSE IF /\ m.pid = q
                             /\ \/ m.kind = "unsubscribe" /\ Pub!Home(m.pid) = n /\ m.topic = t
                                \/ m.kind = "unsubscribe_all"
                     THEN 0 ELSE ps_entries[n][t][q]
  BY <1>3 DEF Pub!Registered, Pub!Unregister
<1>6. ps_entries'[n] = [t \in Topic |-> Pub!Registered(n, m, t)] /\ \A k \in Pub!Node \ {n} : ps_entries'[k] = ps_entries[k]
  BY <1>1, <1>2
<1>7. ps_entries' \in [Pub!Node -> [Topic -> [Pub!Process -> Nat]]]
  BY <1>1, <1>2, <1>4
<1>8. QED BY <1>5, <1>6, <1>7

LEMMA PubSubHandleCallOK ==
    ASSUME PubSubInv, NEW n \in Pub!Node, Pub!HandleCall(n)
    PROVE  PubSubInv'
<1>1. Pub!TypeOK /\ Mail /\ Standing /\ Coming /\ Due /\ ps_mailbox \in [Pub!Node -> Seq(Pub!Message)]
  BY DEF PubSubInv, Pub!TypeOK
<1>2. PICK m : m = Head(ps_mailbox[n])
  OBVIOUS
<1>3. /\ ps_mailbox' \in [Pub!Node -> Seq(Pub!Message)] /\ m \in Pub!Message /\ m.kind \in Pub!CallKind
      /\ 1 \in DOMAIN ps_mailbox[n] /\ m = ps_mailbox[n][1]
  BY <1>1, <1>2, PubSubTakesType DEF Pub!HandleCall
<1>4. m.by \in Pub!Process /\ Pub!Home(m.by) = n /\ m.topic \in Topic /\ m.pid \in Pub!Process
      /\ m.ref > ps_budget[m.by] /\ m.ref # ps_replied[m.by] /\ m.ref \in Nat
  BY <1>1, <1>3 DEF Mail, Posted, CallOf, Pub!Message
<1>5. /\ ps_replied' = [ps_replied EXCEPT ![m.by] = m.ref] /\ Pub!Takes(n, Pub!CallKind)
      /\ UNCHANGED <<ps_wire, ps_named, ps_known, ps_calling, ps_budget, ps_subscribed, ps_silent, ps_awaited, ps_reached>>
      /\ UNCHANGED <<ps_nextMsg, ps_topicOf, ps_origin, ps_due>>
  BY <1>2 DEF Pub!HandleCall, Pub!castVars
<1>6. /\ ps_entries' \in [Pub!Node -> [Topic -> [Pub!Process -> Nat]]]
      /\ \A k \in Pub!Node \ {n} : ps_entries'[k] = ps_entries[k]
      /\ \A q \in Pub!Process, t \in Topic :
             ps_entries'[n][t][q] =
                     IF m.kind = "subscribe" /\ Pub!Home(m.pid) = n /\ m.topic = t /\ m.pid = q
                     THEN ps_entries[n][t][q] + 1
                     ELSE IF /\ m.pid = q
                             /\ \/ m.kind = "unsubscribe" /\ Pub!Home(m.pid) = n /\ m.topic = t
                                \/ m.kind = "unsubscribe_all"
                     THEN 0 ELSE ps_entries[n][t][q]
  BY <1>1, <1>2, <1>3, <1>4, PubSubHandledOK DEF Mail
<1>7. ps_replied' \in [Pub!Process -> Nat] /\ \A x \in Pub!Process : ps_replied'[x] = IF x = m.by THEN m.ref ELSE ps_replied[x]
  BY <1>1, <1>4, <1>5 DEF Pub!TypeOK
<1>8. Pub!TypeOK'
  BY <1>1, <1>3, <1>5, <1>6, <1>7 DEF Pub!TypeOK
<1>9. \A k \in Pub!Node : \A i \in DOMAIN ps_mailbox'[k] :
          ps_mailbox'[k][i].kind \in Pub!CallKind => ps_mailbox'[k][i].ref # ps_replied'[ps_mailbox'[k][i].by]
  <2> SUFFICES ASSUME NEW k \in Pub!Node, NEW i \in DOMAIN ps_mailbox'[k], ps_mailbox'[k][i].kind \in Pub!CallKind
               PROVE  ps_mailbox'[k][i].ref # ps_replied'[ps_mailbox'[k][i].by]
    OBVIOUS
  <2>1. CASE k # n
    <3>1. ps_mailbox'[k] = ps_mailbox[k]
      BY <1>1, <1>5, <2>1, PubSubTakesType
    <3>2. CallOf(k, ps_mailbox[k][i])
      BY <1>1, <3>1 DEF Mail, Posted
    <3>3. QED BY <1>4, <1>7, <2>1, <3>1, <3>2 DEF CallOf
  <2>2. CASE k = n
    <3>1. i \in Int /\ i > 0 /\ i + 1 \in DOMAIN ps_mailbox[n] /\ ps_mailbox'[n][i] = ps_mailbox[n][i + 1]
      BY <1>1, <1>5, <2>2, PubSubTakesType
    <3>2. CallOf(n, ps_mailbox[n][i + 1])
      BY <1>1, <2>2, <3>1 DEF Mail, Posted
    <3>3. ps_mailbox[n][i + 1].by = m.by => ps_mailbox[n][i + 1].ref # m.ref
      <4>1. i + 1 # 1
        BY <3>1
      <4>2. QED BY <1>1, <1>3, <2>2, <3>1, <4>1 DEF Mail, CallsDiffer
    <3>4. QED BY <1>7, <2>2, <3>1, <3>2, <3>3 DEF CallOf
  <2>3. QED BY <2>1, <2>2
<1>10. Posted' /\ CallsDiffer'
  BY <1>1, <1>5, <1>9, PubSubPostedTakes DEF Mail
<1>11. Waiting' /\ Forwarded'
  BY <1>1, <1>4, <1>5, <1>7 DEF Mail, Waiting, Forwarded
<1>12. AtHome'
  <2> SUFFICES ASSUME NEW k \in Pub!Node, NEW t \in Topic, NEW q \in Pub!Process, ps_entries'[k][t][q] > 0
               PROVE  Pub!Home(q) = k
    BY DEF AtHome
  <2>1. ps_entries[k][t][q] > 0 => Pub!Home(q) = k
    BY <1>1 DEF Mail, AtHome
  <2>2. ps_entries[n][t][q] \in Nat
    BY <1>1 DEF Pub!TypeOK
  <2>3. CASE k # n
    BY <1>6, <2>1, <2>3
  <2>4. CASE k = n
    BY <1>6, <2>1, <2>2, <2>4
  <2>5. QED BY <2>3, <2>4
<1>13. ASSUME NEW q \in Pub!Process, NEW t \in Topic, Pub!Home(q) # n \/ ~(Says(m, q, t, "in") \/ Says(m, q, t, "out"))
       PROVE  Is(q, t)' = Is(q, t)
  <2>1. Pub!Home(q) \in Pub!Node
    BY PubSubHomeOK
  <2>2. CASE Pub!Home(q) # n
    BY <1>6, <2>1, <2>2 DEF Is
  <2>3. CASE Pub!Home(q) = n
    BY <1>6, <1>13, <2>3 DEF Is, Says
  <2>4. QED BY <2>2, <2>3
<1>14. ASSUME NEW q \in Pub!Process, NEW t \in Topic, Pub!Home(q) = n, NEW w \in {"in", "out"}, Says(m, q, t, w)
       PROVE  Is(q, t)' = w
  <2>1. ps_entries[n][t][q] \in Nat
    BY <1>1 DEF Pub!TypeOK
  <2>2. QED BY <1>6, <1>14, <2>1 DEF Is, Says
<1>15. ASSUME NEW q \in Pub!Process, NEW t \in Topic, NEW w \in {"in", "out"}, Stands(q, t, w)
       PROVE  Stands(q, t, w)'
  <2>1. /\ \A i \in DOMAIN ps_mailbox'[Pub!Home(q)] : ~Says(ps_mailbox'[Pub!Home(q)][i], q, t, Against(w))
        /\ n = Pub!Home(q) => ~Says(m, q, t, Against(w))
    BY <1>1, <1>2, <1>5, <1>15, PubSubStandsTakes
  <2>2. Is(q, t)' = w
    BY <1>13, <1>14, <1>15, <2>1 DEF Stands, Against
  <2>3. QED BY <2>1, <2>2 DEF Stands
<1>16. Standing'
  BY <1>1, <1>5, <1>15 DEF Standing, Pub!TypeOK
<1>17. Coming'
  <2> SUFFICES ASSUME NEW p \in Pub!Process, ps_calling[p] # Pub!Idle, NEW s \in ps_awaited[p]
               PROVE  /\ Pub!Home(s[1]) = Pub!Home(p)
                      /\ Stands(s[1], s[2], Wish(p))' \/ Comes(ps_calling[p], s[1], s[2], Wish(p))'
    BY <1>5 DEF Coming
  <2>0. PICK w \in {"in", "out"} : w = Wish(p) /\ w = Wish(p)'
    BY <1>5 DEF Wish
  <2>6. PICK c : c = ps_calling[p] /\ c = ps_calling'[p]
    BY <1>5
  <2>1. w = Wish(p) /\ w = Wish(p)' /\ c = ps_calling[p] /\ c = ps_calling'[p]
    BY <2>0, <2>6
  <2>2. PICK q \in Pub!Process, t \in Topic : q = s[1] /\ t = s[2]
    BY <1>1 DEF Pub!TypeOK
  <2>3. Pub!Home(q) = Pub!Home(p) /\ (Stands(q, t, w) \/ Comes(c, q, t, w))
    BY <1>1, <2>1, <2>2 DEF Coming
  <2>4. Stands(q, t, w)' \/ Comes(c, q, t, w)'
    <3>1. CASE Stands(q, t, w)
      BY <1>15, <3>1
    <3>2. CASE Comes(c, q, t, w)
      <4>1. \/ \E i \in DOMAIN ps_mailbox'[Pub!Home(q)] :
                 /\ ps_mailbox'[Pub!Home(q)][i] = c /\ Says(c, q, t, w)
                 /\ \A j \in DOMAIN ps_mailbox'[Pub!Home(q)] :
                       j > i => ~Says(ps_mailbox'[Pub!Home(q)][j], q, t, Against(w))
            \/ /\ n = Pub!Home(q) /\ c = m /\ Says(c, q, t, w)
               /\ \A j \in DOMAIN ps_mailbox'[n] : ~Says(ps_mailbox'[n][j], q, t, Against(w))
        BY <1>1, <1>2, <1>5, <3>2, PubSubComesTakes
      <4>2. QED BY <1>14, <4>1 DEF Comes, Stands
    <3>3. QED BY <2>3, <3>1, <3>2
  <2>5. QED BY <2>1, <2>2, <2>3, <2>4 DEF Stands, Comes
<1>18. Due'
  <2>1. m.kind \notin Pub!CastKind
    BY <1>3 DEF Pub!CallKind, Pub!CastKind
  <2>2. QED BY <1>1, <1>2, <1>5, <2>1, PubSubDueTakes
<1>19. QED BY <1>8, <1>10, <1>11, <1>12, <1>16, <1>17, <1>18 DEF PubSubInv, Mail

(* A message that is no call is put into a mailbox.                              *)
LEMMA PubSubNoCallPosted ==
    ASSUME PubSubInv, NEW n \in Pub!Node, NEW m \in Pub!Message, Pub!Post(n, m), m.kind \notin Pub!CallKind,
           UNCHANGED <<ps_entries, Pub!callVars>>
    PROVE  Waiting' /\ AtHome' /\ Standing' /\ Coming'
<1>1. Pub!TypeOK /\ Mail /\ Standing /\ Coming /\ ps_mailbox \in [Pub!Node -> Seq(Pub!Message)]
  BY DEF PubSubInv, Pub!TypeOK
<1>2. UNCHANGED <<ps_entries, ps_calling, ps_replied, ps_budget, ps_subscribed, ps_silent, ps_awaited>>
  BY DEF Pub!callVars
<1>3. \A q, t, w : ~Says(m, q, t, w)
  BY DEF Says, Pub!CallKind
<1>4. \A q, t, w : Stands(q, t, w) => Stands(q, t, w)'
  BY <1>1, <1>2, <1>3, PubSubStandsPost
<1>5. ASSUME NEW c, NEW q, NEW t, NEW w, Comes(c, q, t, w) PROVE Comes(c, q, t, w)'
  BY <1>1, <1>3, <1>5, PubSubComesPost DEF Comes
<1>6. Waiting' /\ AtHome' /\ Standing'
  BY <1>1, <1>2, <1>4 DEF Mail, Waiting, AtHome, Standing
<1>7. Coming'
  <2> SUFFICES ASSUME NEW p \in Pub!Process, ps_calling[p] # Pub!Idle, NEW s \in ps_awaited[p]
               PROVE  /\ Pub!Home(s[1]) = Pub!Home(p)
                      /\ Stands(s[1], s[2], Wish(p))' \/ Comes(ps_calling[p], s[1], s[2], Wish(p))'
    BY <1>2 DEF Coming
  <2>1. PICK w : w = Wish(p) /\ w = Wish(p)'
    BY <1>2 DEF Wish
  <2>2. PICK c : c = ps_calling[p] /\ c = ps_calling'[p]
    BY <1>2
  <2>3. Pub!Home(s[1]) = Pub!Home(p) /\ (Stands(s[1], s[2], w) \/ Comes(c, s[1], s[2], w))
    BY <1>1, <2>1, <2>2 DEF Coming
  <2>4. PICK q, t : q = s[1] /\ t = s[2]
    OBVIOUS
  <2>5. Stands(q, t, w)' \/ Comes(c, q, t, w)'
    BY <1>4, <1>5, <2>3, <2>4
  <2>6. QED BY <2>1, <2>2, <2>3, <2>4, <2>5 DEF Stands, Comes
<1>8. QED BY <1>6, <1>7

(* A broadcast that is on its way stays there when something is put behind it.   *)
LEMMA PubSubOnItsWay ==
    ASSUME Pub!TypeOK, NEW n \in Pub!Node, NEW m \in Pub!Message, Pub!Post(n, m), NEW q, NEW ref,
           \E i \in DOMAIN ps_mailbox[Pub!Home(q)] :
               /\ ps_mailbox[Pub!Home(q)][i].kind \in Pub!CastKind
               /\ ps_mailbox[Pub!Home(q)][i].ref = ref /\ ps_mailbox[Pub!Home(q)][i].pid # q
    PROVE  \E i \in DOMAIN ps_mailbox'[Pub!Home(q)] :
               /\ ps_mailbox'[Pub!Home(q)][i].kind \in Pub!CastKind
               /\ ps_mailbox'[Pub!Home(q)][i].ref = ref /\ ps_mailbox'[Pub!Home(q)][i].pid # q
<1>1. PICK i \in DOMAIN ps_mailbox[Pub!Home(q)] :
               /\ ps_mailbox[Pub!Home(q)][i].kind \in Pub!CastKind
               /\ ps_mailbox[Pub!Home(q)][i].ref = ref /\ ps_mailbox[Pub!Home(q)][i].pid # q
  OBVIOUS
<1>2. i \in DOMAIN ps_mailbox'[Pub!Home(q)] /\ ps_mailbox'[Pub!Home(q)][i] = ps_mailbox[Pub!Home(q)][i]
  <2>1. CASE Pub!Home(q) = n
    BY <1>1, <2>1, PubSubPostType DEF Pub!TypeOK
  <2>2. CASE Pub!Home(q) # n
    BY <1>1, <2>2, PubSubHomeOK, PubSubPostType DEF Pub!TypeOK
  <2>3. QED BY <2>1, <2>2
<1>3. QED BY <1>1, <1>2

LEMMA PubSubArriveOK ==
    ASSUME PubSubInv, NEW n \in Pub!Node, Pub!Arrive(n)
    PROVE  PubSubInv'
<1>1. Pub!TypeOK /\ Mail /\ Due /\ ps_mailbox \in [Pub!Node -> Seq(Pub!Message)]
  BY DEF PubSubInv, Pub!TypeOK
<1>2. PICK m : m = Head(ps_wire[Pub!Peer(n)])
  OBVIOUS
<1>3. /\ Pub!Post(n, m) /\ UNCHANGED <<ps_named, ps_known, ps_entries, Pub!callVars, Pub!castVars, ps_reached>>
      /\ UNCHANGED <<ps_calling, ps_replied, ps_budget, ps_subscribed, ps_silent, ps_awaited, ps_nextMsg, ps_topicOf, ps_origin, ps_due>>
  BY <1>2 DEF Pub!Arrive, Pub!callVars, Pub!castVars
<1>4. Pub!Peer(n) \in Pub!Node /\ ps_wire[Pub!Peer(n)] \in Seq(Pub!Message) /\ ps_wire[Pub!Peer(n)] # <<>>
  BY <1>1 DEF Pub!Arrive, Pub!Peer, Pub!Node, Pub!TypeOK
<1>5. /\ m \in Pub!Message /\ m.kind = "raw" /\ ps_wire' \in [Pub!Node -> Seq(Pub!Message)] /\ Forwarded'
  <2>1. /\ m = ps_wire[Pub!Peer(n)][1] /\ m \in Pub!Message /\ 1 \in DOMAIN ps_wire[Pub!Peer(n)]
        /\ Tail(ps_wire[Pub!Peer(n)]) \in Seq(Pub!Message)
        /\ Len(ps_wire[Pub!Peer(n)]) \in Nat \ {0} /\ DOMAIN ps_wire[Pub!Peer(n)] = 1 .. Len(ps_wire[Pub!Peer(n)])
    BY <1>2, <1>4, HeadTailProperties, LenProperties, EmptySeq
  <2>2. \A i \in DOMAIN Tail(ps_wire[Pub!Peer(n)]) : Tail(ps_wire[Pub!Peer(n)])[i].kind = "raw"
    <3>1. \A i \in 1 .. Len(ps_wire[Pub!Peer(n)]) : ps_wire[Pub!Peer(n)][i].kind = "raw"
      BY <1>1, <1>4, <2>1 DEF Mail, Forwarded
    <3>2. /\ Len(Tail(ps_wire[Pub!Peer(n)])) = Len(ps_wire[Pub!Peer(n)]) - 1
          /\ \A i \in 1 .. Len(ps_wire[Pub!Peer(n)]) - 1 : Tail(ps_wire[Pub!Peer(n)])[i] = ps_wire[Pub!Peer(n)][i + 1]
          /\ DOMAIN Tail(ps_wire[Pub!Peer(n)]) = 1 .. Len(Tail(ps_wire[Pub!Peer(n)]))
      BY <1>4, <2>1, HeadTailProperties, LenProperties
    <3>3. QED BY <2>1, <3>1, <3>2
  <2>3. ps_wire' = [ps_wire EXCEPT ![Pub!Peer(n)] = Tail(ps_wire[Pub!Peer(n)])]
    BY DEF Pub!Arrive
  <2>4. Forwarded'
    BY <1>1, <2>2, <2>3, <1>4 DEF Forwarded, Mail, Pub!TypeOK
  <2>5. m.kind = "raw"
    BY <1>1, <1>4, <2>1 DEF Mail, Forwarded
  <2>6. QED BY <1>1, <2>1, <2>3, <2>4, <2>5 DEF Pub!TypeOK
<1>6. m.kind \notin Pub!CallKind /\ m.kind \notin Pub!CastKind
  BY <1>5 DEF Pub!CallKind, Pub!CastKind
<1>7. ps_mailbox' \in [Pub!Node -> Seq(Pub!Message)]
  BY <1>1, <1>3, <1>5, PubSubPostType
<1>8. Pub!TypeOK'
  BY <1>1, <1>3, <1>5, <1>7 DEF Pub!TypeOK
<1>9. Posted' /\ CallsDiffer'
  <2>1. \A x \in Pub!Process : ps_budget[x] <= ps_budget[x]
    BY <1>1 DEF Pub!TypeOK
  <2>2. ps_nextMsg \in Nat /\ ps_nextMsg <= ps_nextMsg
    BY <1>1, PubSubAssumption DEF Pub!TypeOK
  <2>3. QED BY <1>1, <1>3, <1>5, <1>6, <2>1, <2>2, PubSubPostedPost DEF Mail, Pub!TypeOK
<1>10. Waiting' /\ AtHome' /\ Standing' /\ Coming'
  BY <1>3, <1>5, <1>6, PubSubNoCallPosted
<1>11. Due'
  <2> SUFFICES ASSUME NEW d \in ps_due, Pub!Home(d[2]) = ps_origin[d[1]], d \notin ps_reached
               PROVE  \E i \in DOMAIN ps_mailbox'[Pub!Home(d[2])] :
                          /\ ps_mailbox'[Pub!Home(d[2])][i].kind \in Pub!CastKind
                          /\ ps_mailbox'[Pub!Home(d[2])][i].ref = d[1] /\ ps_mailbox'[Pub!Home(d[2])][i].pid # d[2]
    BY <1>1, <1>3 DEF Due
  <2>1. \E i \in DOMAIN ps_mailbox[Pub!Home(d[2])] :
            /\ ps_mailbox[Pub!Home(d[2])][i].kind \in Pub!CastKind
            /\ ps_mailbox[Pub!Home(d[2])][i].ref = d[1] /\ ps_mailbox[Pub!Home(d[2])][i].pid # d[2]
    BY <1>1 DEF Due
  <2>2. QED BY <1>1, <1>3, <1>5, <2>1, PubSubOnItsWay
<1>12. QED BY <1>5, <1>8, <1>9, <1>10, <1>11 DEF PubSubInv, Mail

LEMMA PubSubBroadcastOK ==
    ASSUME PubSubInv, NEW p \in Pub!Process, NEW kind \in Pub!CastKind, NEW t \in Topic,
           NEW x \in Pub!Process \cup {Pub!Nobody}, Pub!Broadcast(p, kind, t, x)
    PROVE  PubSubInv'
<1>1. Pub!TypeOK /\ Mail /\ Standing /\ Due /\ ps_mailbox \in [Pub!Node -> Seq(Pub!Message)]
      /\ ps_nextMsg \in Pub!Msg /\ ps_nextMsg \in Nat
  <2>1. Pub!TypeOK /\ Mail /\ Standing /\ Due /\ ps_mailbox \in [Pub!Node -> Seq(Pub!Message)]
    BY DEF PubSubInv, Pub!TypeOK
  <2>2. ps_nextMsg \in Pub!Msg
    BY DEF Pub!Broadcast
  <2>3. QED BY <2>1, <2>2, PubSubAssumption DEF Pub!Msg
<1>2. PICK n \in Pub!Node : n = Pub!Home(p)
  BY PubSubHomeOK
<1>3. PICK m : m = [kind |-> kind, by |-> p, topic |-> t, pid |-> x, ref |-> ps_nextMsg]
  OBVIOUS
<1>4. /\ m \in Pub!Message /\ m.kind = kind /\ m.ref = ps_nextMsg /\ m.pid = x /\ m.topic = t
      /\ m.kind \notin Pub!CallKind
  BY <1>1, <1>3 DEF Pub!Message, Pub!CallKind, Pub!CastKind
<1>5. /\ Pub!Post(n, m) /\ UNCHANGED <<ps_wire, ps_named, ps_known, ps_entries, Pub!callVars, ps_reached>>
      /\ UNCHANGED <<ps_calling, ps_replied, ps_budget, ps_subscribed, ps_silent, ps_awaited>>
      /\ ps_nextMsg' = ps_nextMsg + 1
  BY <1>2, <1>3 DEF Pub!Broadcast, Pub!callVars
<1>6. /\ ps_topicOf' \in [Pub!Msg -> Topic \cup {Pub!NoTopic}] /\ ps_topicOf'[ps_nextMsg] = t
      /\ \A k \in Pub!Msg : k < ps_nextMsg => ps_topicOf'[k] = ps_topicOf[k] /\ ps_origin'[k] = ps_origin[k]
      /\ ps_origin' \in [Pub!Msg -> Pub!Node \cup {Pub!Nobody}] /\ ps_origin'[ps_nextMsg] = n
  BY <1>1, <1>2 DEF Pub!Broadcast, Pub!TypeOK, Pub!Msg
<1>7. \A d \in ps_due' : \/ d \in ps_due
                      \/ /\ d[1] = ps_nextMsg /\ d[2] \in Pub!Process \ {x} /\ <<d[2], t>> \in ps_subscribed
                         /\ d \in Pub!Msg \X Pub!Process
  <2>1. ps_due' = ps_due \cup {<<ps_nextMsg, q>> : q \in {y \in Pub!Process \ {x} :
                   /\ <<y, t>> \in ps_subscribed
                   /\ Pub!Home(y) = Pub!Home(p) \/ (kind = "broadcast" /\ ps_known[Pub!Home(p)])}}
    BY DEF Pub!Broadcast
  <2>2. ASSUME NEW d \in ps_due', d \notin ps_due
        PROVE  /\ d[1] = ps_nextMsg /\ d[2] \in Pub!Process \ {x} /\ <<d[2], t>> \in ps_subscribed
               /\ d \in Pub!Msg \X Pub!Process
    <3>1. PICK q \in Pub!Process \ {x} : d = <<ps_nextMsg, q>> /\ <<q, t>> \in ps_subscribed
      BY <2>1, <2>2
    <3>2. QED BY <1>1, <3>1
  <2>3. QED BY <2>2
<1>8. ps_mailbox' \in [Pub!Node -> Seq(Pub!Message)] /\ ps_nextMsg' \in 1 .. MaxBroadcasts + 1
  BY <1>1, <1>4, <1>5, PubSubPostType, PubSubAssumption DEF Pub!Msg
<1>9. Pub!TypeOK'
  BY <1>1, <1>5, <1>6, <1>7, <1>8 DEF Pub!TypeOK
<1>10. Posted' /\ CallsDiffer'
  <2>1. \A y \in Pub!Process : ps_budget[y] <= ps_budget[y]
    BY <1>1 DEF Pub!TypeOK
  <2>2. ps_nextMsg' \in Nat /\ ps_nextMsg' >= ps_nextMsg /\ ps_nextMsg < ps_nextMsg'
    BY <1>1, <1>5
  <2>3. QED BY <1>1, <1>4, <1>5, <1>6, <2>1, <2>2, PubSubPostedPost DEF Mail, Pub!TypeOK
<1>11. Waiting' /\ AtHome' /\ Standing' /\ Coming'
  BY <1>4, <1>5, PubSubNoCallPosted
<1>12. Forwarded'
  BY <1>1, <1>5 DEF Mail, Forwarded
<1>13. Due'
  <2> SUFFICES ASSUME NEW d \in ps_due'
               PROVE  /\ d[1] < ps_nextMsg' /\ <<d[2], ps_topicOf'[d[1]]>> \in ps_subscribed
                      /\ Pub!Home(d[2]) = ps_origin'[d[1]] =>
                            \/ d \in ps_reached
                            \/ \E i \in DOMAIN ps_mailbox'[Pub!Home(d[2])] :
                                  /\ ps_mailbox'[Pub!Home(d[2])][i].kind \in Pub!CastKind
                                  /\ ps_mailbox'[Pub!Home(d[2])][i].ref = d[1]
                                  /\ ps_mailbox'[Pub!Home(d[2])][i].pid # d[2]
    BY <1>5 DEF Due
  <2>1. CASE d \in ps_due
    <3>1. /\ d[1] \in Pub!Msg /\ d[1] < ps_nextMsg /\ <<d[2], ps_topicOf[d[1]]>> \in ps_subscribed
          /\ Pub!Home(d[2]) = ps_origin[d[1]] =>
                \/ d \in ps_reached
                \/ \E i \in DOMAIN ps_mailbox[Pub!Home(d[2])] :
                      /\ ps_mailbox[Pub!Home(d[2])][i].kind \in Pub!CastKind
                      /\ ps_mailbox[Pub!Home(d[2])][i].ref = d[1] /\ ps_mailbox[Pub!Home(d[2])][i].pid # d[2]
      BY <1>1, <2>1 DEF Due, Pub!TypeOK
    <3>2. ps_topicOf'[d[1]] = ps_topicOf[d[1]] /\ ps_origin'[d[1]] = ps_origin[d[1]] /\ d[1] < ps_nextMsg'
      BY <1>1, <1>5, <1>6, <3>1 DEF Pub!Msg
    <3>3. QED BY <1>1, <1>4, <1>5, <3>1, <3>2, PubSubOnItsWay
  <2>2. CASE d[1] = ps_nextMsg /\ d[2] \in Pub!Process \ {x} /\ <<d[2], t>> \in ps_subscribed
    <3>1. d[1] < ps_nextMsg' /\ <<d[2], ps_topicOf'[d[1]]>> \in ps_subscribed /\ ps_origin'[d[1]] = n
      BY <1>1, <1>5, <1>6, <2>2
    <3>2. Len(ps_mailbox[n]) + 1 \in DOMAIN ps_mailbox'[n] /\ ps_mailbox'[n][Len(ps_mailbox[n]) + 1] = m
      BY <1>1, <1>4, <1>5, PubSubPostType
    <3>3. QED BY <1>4, <2>2, <3>1, <3>2
  <2>3. QED BY <1>7, <2>1, <2>2
<1>14. QED BY <1>9, <1>10, <1>11, <1>12, <1>13 DEF PubSubInv, Mail

(* What a call asks of a pair is what it is said to concern.                     *)
LEMMA PubSubConcernsOK ==
    ASSUME NEW p \in Pub!Process, NEW q \in Pub!Process, NEW t \in Topic, NEW kind \in Pub!CallKind,
           NEW m, m.kind = kind, m.pid = q, m.topic = t
    PROVE  /\ Pub!Concerns(p, kind, t, q) \subseteq Pub!Process \X Topic
           /\ \A s \in Pub!Concerns(p, kind, t, q) :
                 /\ s[1] = q /\ Pub!Home(q) = Pub!Home(p)
                 /\ Says(m, s[1], s[2], IF kind = "subscribe" THEN "in" ELSE "out")
           /\ \A r \in Pub!Process, u \in Topic, w \in {"in", "out"} :
                 Pub!Home(r) = Pub!Home(p) /\ Says(m, r, u, w) =>
                    <<r, u>> \in Pub!Concerns(p, kind, t, q) /\ w = IF kind = "subscribe" THEN "in" ELSE "out"
<1>1. ASSUME NEW s \in Pub!Concerns(p, kind, t, q)
      PROVE  /\ s \in Pub!Process \X Topic /\ s[1] = q /\ Pub!Home(q) = Pub!Home(p) /\ kind # "subscribers"
             /\ kind = "unsubscribe_all" \/ s[2] = t
  BY <1>1 DEF Pub!Concerns
<1>2. \A s \in Pub!Concerns(p, kind, t, q) :
          Says(m, s[1], s[2], IF kind = "subscribe" THEN "in" ELSE "out")
  BY <1>1 DEF Says, Pub!CallKind
<1>3. ASSUME NEW r \in Pub!Process, NEW u \in Topic, NEW w \in {"in", "out"},
             Pub!Home(r) = Pub!Home(p), Says(m, r, u, w)
      PROVE  <<r, u>> \in Pub!Concerns(p, kind, t, q) /\ w = IF kind = "subscribe" THEN "in" ELSE "out"
  BY <1>3 DEF Says, Pub!Concerns
<1>4. QED BY <1>1, <1>2, <1>3

LEMMA PubSubMakeCallOK ==
    ASSUME PubSubInv, NEW p \in Pub!Process, NEW kind \in Pub!CallKind, NEW t \in Topic, NEW q \in Pub!Process,
           Pub!MakeCall(p, kind, t, q)
    PROVE  PubSubInv'
<1>1. Pub!TypeOK /\ Mail /\ Standing /\ Coming /\ Due /\ ps_mailbox \in [Pub!Node -> Seq(Pub!Message)]
  BY DEF PubSubInv, Pub!TypeOK
<1>2. PICK n \in Pub!Node : n = Pub!Home(p)
  BY PubSubHomeOK
<1>3. PICK m : m = [kind |-> kind, by |-> p, topic |-> t, pid |-> q, ref |-> ps_budget[p]]
  OBVIOUS
<1>4. /\ ps_budget[p] \in Nat /\ ps_budget[p] > 0 /\ ps_calling[p] = Pub!Idle
      /\ ps_budget' \in [Pub!Process -> Nat] /\ ps_budget'[p] = ps_budget[p] - 1
      /\ \A x \in Pub!Process \ {p} : ps_budget'[x] = ps_budget[x]
  BY <1>1 DEF Pub!MakeCall, Pub!TypeOK
<1>5. /\ m \in Pub!Message /\ m.kind = kind /\ m.ref = ps_budget[p] /\ m.pid = q /\ m.topic = t /\ m.by = p
      /\ m.kind \notin Pub!CastKind /\ m # Pub!Idle
  BY <1>3, <1>4 DEF Pub!Message, Pub!CallKind, Pub!CastKind, Pub!Idle
<1>6. PICK about : about = Pub!Concerns(p, kind, t, q)
  OBVIOUS
<1>7. /\ about \subseteq Pub!Process \X Topic
      /\ \A s \in about : s[1] = q /\ Pub!Home(q) = n
                          /\ Says(m, s[1], s[2], IF kind = "subscribe" THEN "in" ELSE "out")
      /\ \A r \in Pub!Process, u \in Topic, w \in {"in", "out"} :
             Pub!Home(r) = n /\ Says(m, r, u, w) =>
                <<r, u>> \in about /\ w = IF kind = "subscribe" THEN "in" ELSE "out"
  BY <1>2, <1>5, <1>6, PubSubConcernsOK
<1>8. /\ Pub!Post(n, m) /\ ps_calling' = [ps_calling EXCEPT ![p] = m]
      /\ UNCHANGED <<ps_wire, ps_named, ps_known, ps_entries, ps_replied, ps_nextMsg, ps_topicOf, ps_origin, ps_reached>>
      /\ ps_awaited' = [x \in Pub!Process |->
             IF x = p THEN about
             ELSE IF (ps_calling[x].kind = "subscribe") = (kind = "subscribe") THEN ps_awaited[x]
             ELSE ps_awaited[x] \ about]
  BY <1>2, <1>3, <1>6 DEF Pub!MakeCall
<1>9. /\ ps_subscribed' = IF kind = "subscribe" THEN ps_subscribed ELSE ps_subscribed \ about
      /\ ps_silent' = IF kind = "subscribe" THEN ps_silent \ about ELSE ps_silent
      /\ ps_due' = IF kind = "subscribe" THEN ps_due
                ELSE {d \in ps_due : <<d[2], ps_topicOf[d[1]]>> \notin about}
  BY <1>6 DEF Pub!MakeCall
<1>10. Pub!TypeOK'
  <2>1. ps_calling' \in [Pub!Process -> Pub!Message] /\ ps_mailbox' \in [Pub!Node -> Seq(Pub!Message)]
    BY <1>1, <1>5, <1>8, PubSubPostType DEF Pub!TypeOK
  <2>2. ps_awaited' \in [Pub!Process -> SUBSET (Pub!Process \X Topic)]
    BY <1>1, <1>7, <1>8 DEF Pub!TypeOK
  <2>3. /\ ps_subscribed' \subseteq Pub!Process \X Topic /\ ps_silent' \subseteq Pub!Process \X Topic
        /\ ps_due' \subseteq Pub!Msg \X Pub!Process
    BY <1>1, <1>9 DEF Pub!TypeOK
  <2>4. QED BY <1>1, <1>4, <1>8, <2>1, <2>2, <2>3 DEF Pub!TypeOK
<1>11. Posted' /\ CallsDiffer'
  <2>1. ASSUME NEW x \in Pub!Process PROVE ps_budget'[x] <= ps_budget[x]
    <3>1. ps_budget[x] \in Nat
      BY <1>1 DEF Pub!TypeOK
    <3>2. QED BY <1>4, <3>1
  <2>2. ps_nextMsg' \in Nat /\ ps_nextMsg' >= ps_nextMsg
    BY <1>1, <1>8, PubSubAssumption DEF Pub!TypeOK
  <2>3. m.ref > ps_budget'[p] /\ m.ref # ps_replied[p]
    <3>1. ps_replied[p] = 0 \/ ps_replied[p] > ps_budget[p]
      BY <1>1 DEF Mail, Waiting
    <3>2. ps_replied[p] \in Nat
      BY <1>1 DEF Pub!TypeOK
    <3>3. QED BY <1>4, <1>5, <3>1, <3>2
  <2>4. ASSUME NEW i \in DOMAIN ps_mailbox[n], ps_mailbox[n][i].kind \in Pub!CallKind, ps_mailbox[n][i].by = p
        PROVE  ps_mailbox[n][i].ref # m.ref
    <3>1. ps_mailbox[n][i].ref > ps_budget[p]
      BY <1>1, <2>4 DEF Mail, Posted, CallOf
    <3>2. QED BY <1>4, <1>5, <3>1
  <2>5. /\ m.by \in Pub!Process /\ Pub!Home(m.by) = n /\ m.topic \in Topic /\ m.pid \in Pub!Process
        /\ m.ref > ps_budget'[m.by] /\ m.ref # ps_replied[m.by]
        /\ \A i \in DOMAIN ps_mailbox[n] :
              ps_mailbox[n][i].kind \in Pub!CallKind /\ ps_mailbox[n][i].by = m.by => ps_mailbox[n][i].ref # m.ref
    BY <1>2, <1>5, <2>3, <2>4
  <2>6. \A k \in Pub!Msg : k < ps_nextMsg => ps_topicOf'[k] = ps_topicOf[k]
    BY <1>8
  <2>7. QED BY <1>1, <1>4, <1>5, <1>8, <2>1, <2>2, <2>5, <2>6, PubSubPostedPost DEF Mail
<1>12. Waiting'
  <2> SUFFICES ASSUME NEW x \in Pub!Process
               PROVE  /\ ps_replied[x] = 0 \/ ps_replied[x] > ps_budget'[x]
                      /\ ps_calling'[x] # Pub!Idle =>
                            /\ ps_calling'[x].kind \in Pub!CallKind /\ ps_calling'[x].by = x
                            /\ ps_calling'[x].ref > ps_budget'[x]
    BY <1>8 DEF Waiting
  <2>1. /\ ps_replied[x] = 0 \/ ps_replied[x] > ps_budget[x]
        /\ ps_calling[x] # Pub!Idle =>
              ps_calling[x].kind \in Pub!CallKind /\ ps_calling[x].by = x /\ ps_calling[x].ref > ps_budget[x]
        /\ ps_replied[x] \in Nat
    BY <1>1 DEF Mail, Waiting, Pub!TypeOK
  <2>2. CASE x = p
    <3>1. ps_calling'[p] = m
      BY <1>1, <1>8 DEF Pub!TypeOK
    <3>2. QED BY <1>4, <1>5, <2>1, <2>2, <3>1
  <2>3. CASE x # p
    <3>1. ps_calling'[x] = ps_calling[x] /\ ps_budget'[x] = ps_budget[x]
      BY <1>1, <1>4, <1>8, <2>3 DEF Pub!TypeOK
    <3>2. QED BY <2>1, <3>1
  <2>4. QED BY <2>2, <2>3
<1>13. Forwarded' /\ AtHome'
  BY <1>1, <1>8 DEF Mail, Forwarded, AtHome
<1>14. ASSUME NEW r \in Pub!Process, NEW u \in Topic, NEW w \in {"in", "out"}, Stands(r, u, w),
              <<r, u>> \in about => w = IF kind = "subscribe" THEN "in" ELSE "out"
       PROVE  Stands(r, u, w)'
  <2>1. n = Pub!Home(r) => ~Says(m, r, u, Against(w))
    BY <1>7, <1>14 DEF Against
  <2>2. QED BY <1>1, <1>5, <1>8, <1>14, <2>1, PubSubStandsPost
<1>15. Standing'
  <2>1. ASSUME NEW s \in ps_subscribed' PROVE Stands(s[1], s[2], "in")'
    <3>1. PICK r \in Pub!Process, u \in Topic : s = <<r, u>> /\ s \in ps_subscribed
      BY <1>1, <1>9, <2>1 DEF Pub!TypeOK
    <3>2. Stands(r, u, "in")'
      BY <1>1, <1>9, <1>14, <2>1, <3>1 DEF Standing
    <3>3. QED BY <3>1, <3>2 DEF Stands
  <2>2. ASSUME NEW s \in ps_silent' PROVE Stands(s[1], s[2], "out")'
    <3>1. PICK r \in Pub!Process, u \in Topic : s = <<r, u>> /\ s \in ps_silent
      BY <1>1, <1>9, <2>2 DEF Pub!TypeOK
    <3>2. Stands(r, u, "out")'
      BY <1>1, <1>9, <1>14, <2>2, <3>1 DEF Standing
    <3>3. QED BY <3>1, <3>2 DEF Stands
  <2>3. QED BY <2>1, <2>2 DEF Standing, Stands
<1>16. Coming'
  <2> SUFFICES ASSUME NEW x \in Pub!Process, ps_calling'[x] # Pub!Idle, NEW s \in ps_awaited'[x]
               PROVE  /\ Pub!Home(s[1]) = Pub!Home(x)
                      /\ Stands(s[1], s[2], Wish(x))' \/ Comes(ps_calling[x], s[1], s[2], Wish(x))'
    BY DEF Coming
  <2>1. PICK r \in Pub!Process, u \in Topic : s = <<r, u>>
    BY <1>10 DEF Pub!TypeOK
  <2>2. PICK w \in {"in", "out"} : w = Wish(x)'
    BY DEF Wish
  <2>3. PICK c : c = ps_calling'[x]
    OBVIOUS
  <2>4. CASE x = p
    <3>1. c = m /\ <<r, u>> \in about
      BY <1>1, <1>8, <2>1, <2>3, <2>4 DEF Pub!TypeOK
    <3>2. w = IF kind = "subscribe" THEN "in" ELSE "out"
      BY <1>5, <2>2, <2>3, <3>1 DEF Wish
    <3>3. Pub!Home(r) = n /\ Says(m, r, u, w)
      BY <1>7, <3>1, <3>2
    <3>4. /\ Len(ps_mailbox[n]) + 1 \in DOMAIN ps_mailbox'[n] /\ ps_mailbox'[n][Len(ps_mailbox[n]) + 1] = m
          /\ \A j \in DOMAIN ps_mailbox'[n] : ~(j > Len(ps_mailbox[n]) + 1)
      BY <1>1, <1>5, <1>8, PubSubPostType
    <3>5. Comes(c, r, u, w)'
      BY <3>1, <3>3, <3>4 DEF Comes
    <3>6. QED BY <1>2, <2>1, <2>2, <2>3, <2>4, <3>3, <3>5 DEF Comes
  <2>5. CASE x # p
    <3>1. c = ps_calling[x] /\ w = Wish(x) /\ ps_calling[x] # Pub!Idle
      BY <1>1, <1>8, <2>2, <2>3, <2>5 DEF Pub!TypeOK, Wish
    <3>2. /\ <<r, u>> \in ps_awaited[x]
          /\ <<r, u>> \in about => w = IF kind = "subscribe" THEN "in" ELSE "out"
      BY <1>8, <2>1, <2>5, <3>1 DEF Wish
    <3>3. Pub!Home(r) = Pub!Home(x) /\ (Stands(r, u, w) \/ Comes(c, r, u, w))
      BY <1>1, <3>1, <3>2 DEF Coming
    <3>4. n = Pub!Home(r) => ~Says(m, r, u, Against(w))
      BY <1>7, <3>2 DEF Against
    <3>5. Stands(r, u, w)' \/ Comes(c, r, u, w)'
      <4>1. CASE Stands(r, u, w)
        BY <1>14, <3>2, <4>1
      <4>2. CASE Comes(c, r, u, w)
        <5>1. \E i \in DOMAIN ps_mailbox'[Pub!Home(r)] :
                 /\ ps_mailbox'[Pub!Home(r)][i] = c /\ Says(c, r, u, w)
                 /\ \A j \in DOMAIN ps_mailbox'[Pub!Home(r)] :
                       j > i => ~Says(ps_mailbox'[Pub!Home(r)][j], r, u, Against(w))
          BY <1>1, <1>5, <1>8, <3>4, <4>2, PubSubComesPost
        <5>2. QED BY <5>1 DEF Comes
      <4>3. QED BY <3>3, <4>1, <4>2
    <3>6. QED BY <2>1, <2>2, <2>3, <3>3, <3>5 DEF Comes, Stands
  <2>6. QED BY <2>4, <2>5
<1>17. Due'
  <2> SUFFICES ASSUME NEW d \in ps_due'
               PROVE  /\ d[1] < ps_nextMsg /\ <<d[2], ps_topicOf[d[1]]>> \in ps_subscribed'
                      /\ Pub!Home(d[2]) = ps_origin[d[1]] =>
                            \/ d \in ps_reached
                            \/ \E i \in DOMAIN ps_mailbox'[Pub!Home(d[2])] :
                                  /\ ps_mailbox'[Pub!Home(d[2])][i].kind \in Pub!CastKind
                                  /\ ps_mailbox'[Pub!Home(d[2])][i].ref = d[1]
                                  /\ ps_mailbox'[Pub!Home(d[2])][i].pid # d[2]
    BY <1>8 DEF Due
  <2>1. d \in ps_due /\ (kind # "subscribe" => <<d[2], ps_topicOf[d[1]]>> \notin about)
    BY <1>9
  <2>2. /\ d[1] < ps_nextMsg /\ <<d[2], ps_topicOf[d[1]]>> \in ps_subscribed
        /\ Pub!Home(d[2]) = ps_origin[d[1]] =>
              \/ d \in ps_reached
              \/ \E i \in DOMAIN ps_mailbox[Pub!Home(d[2])] :
                    /\ ps_mailbox[Pub!Home(d[2])][i].kind \in Pub!CastKind
                    /\ ps_mailbox[Pub!Home(d[2])][i].ref = d[1] /\ ps_mailbox[Pub!Home(d[2])][i].pid # d[2]
    BY <1>1, <2>1 DEF Due
  <2>3. <<d[2], ps_topicOf[d[1]]>> \in ps_subscribed'
    BY <1>9, <2>1, <2>2
  <2>4. ASSUME \E i \in DOMAIN ps_mailbox[Pub!Home(d[2])] :
                   /\ ps_mailbox[Pub!Home(d[2])][i].kind \in Pub!CastKind
                   /\ ps_mailbox[Pub!Home(d[2])][i].ref = d[1] /\ ps_mailbox[Pub!Home(d[2])][i].pid # d[2]
        PROVE  \E i \in DOMAIN ps_mailbox'[Pub!Home(d[2])] :
                   /\ ps_mailbox'[Pub!Home(d[2])][i].kind \in Pub!CastKind
                   /\ ps_mailbox'[Pub!Home(d[2])][i].ref = d[1] /\ ps_mailbox'[Pub!Home(d[2])][i].pid # d[2]
    <3>1. Pub!TypeOK /\ m \in Pub!Message /\ Pub!Post(n, m)
      BY <1>1, <1>5, <1>8
    <3>2. QED BY <2>4, <3>1, PubSubOnItsWay
  <2>5. QED BY <2>2, <2>3, <2>4
<1>18. QED BY <1>10, <1>11, <1>12, <1>13, <1>15, <1>16, <1>17 DEF PubSubInv, Mail

(* The answer to a call, or that there was none in time.                         *)
LEMMA PubSubCallEndsOK ==
    ASSUME PubSubInv, NEW p \in Pub!Process, Pub!CallReturns(p) \/ Pub!CallTimesOut(p)
    PROVE  PubSubInv'
<1>1. Pub!TypeOK /\ Mail /\ Standing /\ Coming /\ Due
  BY DEF PubSubInv
<1>2. /\ ps_calling[p] # Pub!Idle /\ ps_calling' = [ps_calling EXCEPT ![p] = Pub!Idle]
      /\ ps_awaited' = [ps_awaited EXCEPT ![p] = {}]
      /\ UNCHANGED <<ps_mailbox, ps_wire, ps_named, ps_known, ps_entries, ps_replied, ps_budget, ps_reached>>
      /\ UNCHANGED <<ps_nextMsg, ps_topicOf, ps_origin, ps_due>>
  BY DEF Pub!CallReturns, Pub!CallTimesOut, Pub!castVars
<1>3. /\ ps_subscribed \subseteq ps_subscribed' /\ ps_subscribed' \subseteq Pub!Process \X Topic
      /\ \A s \in ps_subscribed' \ ps_subscribed : Stands(s[1], s[2], "in")
      /\ ps_silent' \subseteq Pub!Process \X Topic
      /\ \A s \in ps_silent' \ ps_silent : Stands(s[1], s[2], "out")
  <2>1. CASE Pub!CallTimesOut(p)
    BY <1>1, <2>1 DEF Pub!CallTimesOut, Pub!TypeOK
  <2>2. CASE Pub!CallReturns(p)
    <3>1. ASSUME NEW s \in ps_awaited[p] PROVE Stands(s[1], s[2], Wish(p))
      <4>1. Pub!Home(s[1]) = Pub!Home(p) /\ (Stands(s[1], s[2], Wish(p)) \/ Comes(ps_calling[p], s[1], s[2], Wish(p)))
        BY <1>1, <1>2, <3>1 DEF Coming
      <4>2. ~Comes(ps_calling[p], s[1], s[2], Wish(p))
        <5> SUFFICES ASSUME NEW i \in DOMAIN ps_mailbox[Pub!Home(p)], ps_mailbox[Pub!Home(p)][i] = ps_calling[p]
                     PROVE  FALSE
          BY <4>1 DEF Comes
        <5>1. ps_calling[p].kind \in Pub!CallKind /\ ps_calling[p].by = p
          BY <1>1, <1>2 DEF Mail, Waiting
        <5>2. ps_calling[p].ref # ps_replied[p]
          BY <1>1, <5>1, PubSubHomeOK DEF Mail, Posted, CallOf
        <5>3. QED BY <2>2, <5>2 DEF Pub!CallReturns
      <4>3. QED BY <4>1, <4>2
    <3>2. ps_awaited[p] \subseteq Pub!Process \X Topic
      BY <1>1 DEF Pub!TypeOK
    <3>3. CASE ps_calling[p].kind = "subscribe"
      BY <1>1, <2>2, <3>1, <3>2, <3>3 DEF Pub!CallReturns, Wish, Pub!TypeOK
    <3>4. CASE ps_calling[p].kind # "subscribe"
      BY <1>1, <2>2, <3>1, <3>2, <3>4 DEF Pub!CallReturns, Wish, Pub!TypeOK
    <3>5. QED BY <3>3, <3>4
  <2>3. QED BY <2>1, <2>2
<1>4. Pub!Idle \in Pub!Message
  BY DEF Pub!Idle, Pub!Message
<1>5. Pub!TypeOK'
  BY <1>1, <1>2, <1>3, <1>4 DEF Pub!TypeOK
<1>6. \A q, t, w : Stands(q, t, w) => Stands(q, t, w)'
  BY <1>2 DEF Stands, Is
<1>7. Standing'
  <2>1. ASSUME NEW s \in ps_subscribed' PROVE Stands(s[1], s[2], "in")
    BY <1>1, <1>3 DEF Standing
  <2>2. ASSUME NEW s \in ps_silent' PROVE Stands(s[1], s[2], "out")
    BY <1>1, <1>3 DEF Standing
  <2>3. QED BY <1>2, <2>1, <2>2 DEF Standing, Stands, Is
<1>8. ps_calling'[p] = Pub!Idle /\ \A x \in Pub!Process \ {p} : ps_calling'[x] = ps_calling[x] /\ ps_awaited'[x] = ps_awaited[x]
  BY <1>1, <1>2 DEF Pub!TypeOK
<1>9. Coming'
  <2> SUFFICES ASSUME NEW x \in Pub!Process \ {p}, ps_calling[x] # Pub!Idle, NEW s \in ps_awaited[x]
               PROVE  /\ Pub!Home(s[1]) = Pub!Home(x)
                      /\ Stands(s[1], s[2], Wish(x))' \/ Comes(ps_calling[x], s[1], s[2], Wish(x))'
    BY <1>8 DEF Coming
  <2>1. Pub!Home(s[1]) = Pub!Home(x) /\ (Stands(s[1], s[2], Wish(x)) \/ Comes(ps_calling[x], s[1], s[2], Wish(x)))
    BY <1>1 DEF Coming
  <2>2. Wish(x)' = Wish(x) /\ ps_calling'[x] = ps_calling[x]
    BY <1>8 DEF Wish
  <2>3. QED BY <1>2, <2>1, <2>2 DEF Stands, Is, Comes
<1>10. Posted' /\ CallsDiffer' /\ Forwarded' /\ AtHome'
  BY <1>1, <1>2 DEF Mail, Posted, CallsDiffer, Forwarded, AtHome, CallOf, CastOf
<1>11. Waiting'
  BY <1>1, <1>2, <1>8 DEF Mail, Waiting
<1>12. Due'
  BY <1>1, <1>2, <1>3 DEF Due
<1>13. QED BY <1>5, <1>7, <1>9, <1>10, <1>11, <1>12 DEF PubSubInv, Mail

LEMMA PubSubStutterOK ==
    ASSUME PubSubInv, UNCHANGED <<ps_mailbox, ps_wire, ps_named, ps_entries, ps_calling, ps_replied, ps_budget, ps_nextMsg, ps_topicOf,
                                  ps_origin, ps_reached, ps_subscribed, ps_silent, ps_due, ps_awaited>>,
           ps_known' \in [Pub!Node -> BOOLEAN]
    PROVE  PubSubInv'
<1>1. Pub!TypeOK /\ Posted /\ CallsDiffer /\ Forwarded /\ Waiting /\ AtHome /\ Standing /\ Coming /\ Due
  BY DEF PubSubInv, Mail
<1>2. Pub!TypeOK'
  BY <1>1 DEF Pub!TypeOK
<1>3. Posted' /\ CallsDiffer' /\ Forwarded' /\ Waiting' /\ AtHome' /\ Due'
  BY <1>1 DEF Posted, CallOf, CastOf, CallsDiffer, Forwarded, Waiting, AtHome, Due
<1>4. Standing' /\ Coming'
  BY <1>1 DEF Standing, Coming, Stands, Is, Comes, Wish
<1>5. QED BY <1>2, <1>3, <1>4 DEF PubSubInv, Mail

LEMMA PubSubTurns ==
    ASSUME PubSubInv, [Pub!Next]_(Pub!vars)
    PROVE  /\ PubSubInv'
           /\ \A c \in ps_reached' \ ps_reached : <<c[2], ps_topicOf[c[1]]>> \notin ps_silent
<1>1. ASSUME NEW n \in Pub!Node, Pub!HandleCast(n)
      PROVE  PubSubInv' /\ \A c \in ps_reached' \ ps_reached : <<c[2], ps_topicOf[c[1]]>> \notin ps_silent
  BY <1>1, PubSubHandleCastOK
<1>2. ASSUME NEW n \in Pub!Node, Pub!HandleContinue(n) \/ Pub!LearnMember(n) \/ Pub!HandleCall(n) \/ Pub!Arrive(n) \/ Pub!HandleRawInfo(n)
      PROVE  PubSubInv' /\ ps_reached' = ps_reached
  <2>1. ASSUME Pub!LearnMember(n) PROVE PubSubInv'
    BY <2>1, PubSubStutterOK DEF Pub!LearnMember, Pub!callVars, Pub!castVars, PubSubInv, Pub!TypeOK
  <2>2. ps_reached' = ps_reached
    BY <1>2 DEF Pub!HandleContinue, Pub!LearnMember, Pub!HandleCall, Pub!Arrive, Pub!HandleRawInfo
  <2>3. QED BY <1>2, <2>1, <2>2, PubSubQuietTurnOK, PubSubHandleCallOK, PubSubArriveOK
<1>3. ASSUME NEW p \in Pub!Process, Pub!CallReturns(p) \/ Pub!CallTimesOut(p)
      PROVE  PubSubInv' /\ ps_reached' = ps_reached
  BY <1>3, PubSubCallEndsOK DEF Pub!CallReturns, Pub!CallTimesOut
<1>4. ASSUME NEW p \in Pub!Process, NEW t \in Topic, NEW kind \in Pub!CallKind, NEW q \in Pub!Process, Pub!MakeCall(p, kind, t, q)
      PROVE  PubSubInv' /\ ps_reached' = ps_reached
  BY <1>4, PubSubMakeCallOK DEF Pub!MakeCall
<1>5. ASSUME NEW p \in Pub!Process, NEW t \in Topic, NEW kind \in Pub!CastKind,
             NEW x \in Pub!Process \cup {Pub!Nobody}, Pub!Broadcast(p, kind, t, x)
      PROVE  PubSubInv' /\ ps_reached' = ps_reached
  BY <1>5, PubSubBroadcastOK DEF Pub!Broadcast
<1>6. CASE UNCHANGED Pub!vars
  BY <1>6, PubSubStutterOK DEF Pub!vars, Pub!callVars, Pub!castVars, PubSubInv, Pub!TypeOK
<1>7. QED BY <1>1, <1>2, <1>3, <1>4, <1>5, <1>6 DEF Pub!Next

LEMMA PubSubStepOK == PubSubInv /\ [Pub!Next]_(Pub!vars) => PubSubInv'
BY PubSubTurns

LEMMA PubSubFocus == [ServicesNext]_servicesVars => [Pub!Next]_(Pub!vars)
<1>1. ServicesNext => Pub!Next \/ UNCHANGED psVars
  BY DEF ServicesNext
<1>2. UNCHANGED servicesVars => UNCHANGED psVars
  BY DEF servicesVars
<1>3. UNCHANGED psVars => UNCHANGED Pub!vars
  BY DEF psVars, Pub!vars, Pub!callVars, Pub!castVars
<1>4. QED BY <1>1, <1>2, <1>3

LEMMA PubSubInFocus == PubSubInv /\ [ServicesNext]_servicesVars => PubSubInv'
  BY PubSubFocus, PubSubStepOK

(* pubsub: a broadcast reaches every subscriber of its own node, and who has     *)
(* unsubscribed hears no more of the topic.                                        *)
THEOREM PubSubCorrect == ServicesSpec => []PubSubSafe
<1>1. ServicesInit => PubSubInv
  BY PubSubInitOK DEF ServicesInit
<1>2. PubSubInv => (focus = "pubsub" => Pub!TypeOK /\ Pub!LocalHears)
  BY PubSubSafeOK DEF PubSubInv
<1>3. PubSubInv /\ [ServicesNext]_servicesVars =>
          [\A c \in ps_reached' \ ps_reached : <<c[2], ps_topicOf[c[1]]>> \notin ps_silent]_(Pub!vars)
  BY PubSubFocus, PubSubTurns
<1>4. QED BY <1>1, <1>2, <1>3, PubSubInFocus, PTL DEF ServicesSpec, PubSubSafe, Pub!UnsubscribedSilent

=============================================================================
