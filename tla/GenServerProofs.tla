---------------------------- MODULE GenServerProofs ----------------------------
(***************************************************************************)
(* GenServer implements RemoteCall, and the name is never that of a server *)
(* that has stopped: proved for any servers, clients and bounds.  With it  *)
(* the job queue, an example that is made of servers: its queue keeps      *)
(* track of its workers and of the jobs, for any number of both.  And the  *)
(* applications: they start after what they depend on, and stop before it. *)
(***************************************************************************)
EXTENDS Services, SequenceTheorems, TLAPS

Bounds == MaxCalls \in Nat /\ MaxSends \in Nat /\ MaxLater \in Nat

-----------------------------------------------------------------------------
(* The inductive invariant, by the variables it is about. *)

(* The calls that were made, and the messages that can be under way: a     *)
(* request is that of a call that was made.                                *)
Asked == {r \in Call : outcome[r] # "idle"}
Sent == {m \in Message : m.type = "call" => m.ref \in Asked}

ServerInv ==
    /\ phase \in [Server -> {"none", "init", "check", "insert", "loop", "unregister", "gone", "panicked"}]
    /\ started \in [Server -> {"none", "ok", "ignore", "stop", "already"}]
    /\ name \in Server \cup {NoServer}
    /\ NameAlive

LaterInv ==
    /\ later \in [Server -> [LaterKind -> Nat]]
    /\ sends \in 0 .. MaxSends /\ scheduled \in 0 .. MaxLater

(* A client waits for a call of its own that has not returned; numbers     *)
(* that were not given out yet stand for no call.                          *)
CallInv ==
    /\ nextCall \in 1 .. MaxCalls + 1
    /\ from \in [Call -> Client \cup {NoClient}]
    /\ waiting \in [Client -> Call \cup {NoCall}]
    /\ outcome \in [Call -> {"idle", "pending", "answered", "timeout"}]
    /\ \A r \in Call : r >= nextCall => outcome[r] = "idle"
    /\ \A c \in Client : waiting[c] # NoCall =>
          outcome[waiting[c]] = "pending" /\ from[waiting[c]] = c

QueueInv ==
    /\ mailbox \in [Server -> Seq(Sent)]
    /\ deferred \in [Server -> SUBSET Asked]

(* What a client finds in its mailbox was sent as a reply. *)
ReplyInv ==
    /\ served \subseteq Call
    /\ inbox \in [Client -> Seq(served)]

IInv == ServerInv /\ LaterInv /\ CallInv /\ QueueInv /\ ReplyInv

Allowed == [Promise!Next]_(Promise!vars)

-----------------------------------------------------------------------------
LEMMA SeqGrows ==
    ASSUME NEW S, NEW T, S \subseteq T
    PROVE  Seq(S) \subseteq Seq(T)
  OBVIOUS

LEMMA InvImpliesType == IInv => TypeOK
<1> SUFFICES ASSUME IInv PROVE TypeOK
  OBVIOUS
<1>1. Seq(Sent) \subseteq Seq(Message) /\ Seq(served) \subseteq Seq(Call)
  BY SeqGrows DEF Sent, IInv, ReplyInv
<1>2. mailbox \in [Server -> Seq(Message)] /\ inbox \in [Client -> Seq(Call)]
  BY <1>1 DEF IInv, QueueInv, ReplyInv
<1>3. deferred \in [Server -> SUBSET Call]
  BY DEF IInv, QueueInv, Asked
<1>4. QED
  BY <1>2, <1>3 DEF TypeOK, IInv, ServerInv, LaterInv, CallInv, ReplyInv

LEMMA InitOK == Bounds /\ Init => IInv /\ Promise!Init
<1> SUFFICES ASSUME Bounds, Init PROVE IInv /\ Promise!Init
  OBVIOUS
<1>1. ServerInv
  BY DEF Init, ServerInv, NameAlive
<1>2. LaterInv
  BY DEF Bounds, Init, LaterInv
<1>3. CallInv
  BY DEF Bounds, Init, CallInv, Call
<1>4. QueueInv
  BY DEF Init, QueueInv
<1>5. ReplyInv /\ Promise!Init
  BY DEF Init, ReplyInv, Promise!Init
<1>6. QED BY <1>1, <1>2, <1>3, <1>4, <1>5 DEF IInv

(* Calls that stay as they are leave what may be under way as it is. *)
LEMMA CallsStay ==
    ASSUME CallInv, UNCHANGED clientVars
    PROVE  CallInv' /\ Asked' = Asked /\ Sent' = Sent
  BY DEF CallInv, clientVars, Asked, Sent

LEMMA RepliesStay ==
    ASSUME ReplyInv, UNCHANGED answerVars
    PROVE  ReplyInv'
  BY DEF ReplyInv, answerVars

LEMMA Stutters ==
    ASSUME UNCHANGED <<clientVars, answerVars>>
    PROVE  Allowed
  BY DEF Allowed, Promise!vars, clientVars, answerVars

-----------------------------------------------------------------------------
(* The life of a server. *)
LifeStep(s) ==
    \/ Start(s) \/ InitReturns(s) \/ InitRefuses(s) \/ InitPanics(s) \/ Panic(s)
    \/ NameTaken(s) \/ NameFree(s) \/ InsertName(s) \/ UnregisterName(s)

LEMMA SchedulesOK ==
    ASSUME Bounds, LaterInv, NEW s \in Server, Schedules(s), UNCHANGED sends
    PROVE  LaterInv'
<1>1. CASE UNCHANGED laterVars
  BY <1>1 DEF LaterInv, laterVars
<1>2. CASE ~UNCHANGED laterVars
  <2>1. PICK k \in LaterKind : later' = [later EXCEPT ![s][k] = @ + 1]
    BY <1>2 DEF Schedules
  <2>2. later' \in [Server -> [LaterKind -> Nat]]
    BY <2>1 DEF LaterInv
  <2>3. scheduled' \in 0 .. MaxLater
    BY <1>2 DEF Bounds, Schedules, LaterInv
  <2>4. QED BY <2>2, <2>3 DEF LaterInv
<1>3. QED BY <1>1, <1>2

LEMMA MovesOK ==
    ASSUME IInv, NEW s \in Server, NEW before, NEW after, Moves(s, before, after)
    PROVE  CallInv' /\ QueueInv' /\ ReplyInv' /\ Allowed /\ UNCHANGED sends
<1>1. UNCHANGED <<sends, clientVars, answerVars>>
  BY DEF Moves
<1>2. CallInv' /\ Asked' = Asked /\ Sent' = Sent /\ ReplyInv'
  BY <1>1, CallsStay, RepliesStay DEF IInv
<1>3. QueueInv'
  <2>1. mailbox' \in [Server -> Seq(Sent)]
    <3>1. <<>> \in Seq(Sent)
      OBVIOUS
    <3>2. QED BY <3>1 DEF IInv, QueueInv, Moves
  <2>2. deferred' \in [Server -> SUBSET Asked]
    BY DEF IInv, QueueInv, Moves
  <2>3. QED BY <1>2, <2>1, <2>2 DEF QueueInv
<1>4. QED BY <1>1, <1>2, <1>3, Stutters

LEMMA LifeOK ==
    ASSUME Bounds, IInv, NEW s \in Server, LifeStep(s)
    PROVE  IInv' /\ Allowed
<1> USE DEF IInv
<1>1. ServerInv'
  BY DEF ServerInv, NameAlive, LifeStep, Start, InitReturns, InitRefuses, Refuses, InitPanics,
         Panic, NameTaken, NameFree, InsertName, UnregisterName, Moves
<1>2. \E before, after : Moves(s, before, after)
  BY DEF LifeStep, Start, InitReturns, InitRefuses, Refuses, InitPanics,
         Panic, NameTaken, NameFree, InsertName, UnregisterName
<1>3. CallInv' /\ QueueInv' /\ ReplyInv' /\ Allowed /\ UNCHANGED sends
  BY <1>2, MovesOK
<1>4. LaterInv'
  <2>1. CASE InsertName(s)
    BY <1>3, <2>1, SchedulesOK DEF InsertName
  <2>2. CASE ~InsertName(s)
    BY <1>3, <2>2 DEF LaterInv, laterVars, LifeStep, Start, InitReturns, InitRefuses, Refuses,
                      InitPanics, Panic, NameTaken, NameFree, UnregisterName
  <2>3. QED BY <2>1, <2>2
<1>5. QED BY <1>1, <1>3, <1>4

-----------------------------------------------------------------------------
(* What is sent to a server. *)
LEMMA PostOK ==
    ASSUME QueueInv, NEW s \in Server, NEW msg, Post(s, msg),
           msg \in Sent', Sent \subseteq Sent', Asked \subseteq Asked', UNCHANGED deferred
    PROVE  QueueInv'
<1>1. Seq(Sent) \subseteq Seq(Sent')
  BY SeqGrows
<1>2. mailbox' \in [Server -> Seq(Sent')]
  BY <1>1 DEF QueueInv, Post
<1>3. QED BY <1>2 DEF QueueInv

LEMMA PlainSent == ASSUME NEW type \in Handled \cup {"stop"} PROVE Plain(type) \in Sent'
  BY DEF Plain, Sent, Message, Handled, LaterKind

LEMMA SendOK ==
    ASSUME Bounds, IInv, NEW s \in Server,
           \/ \E type \in {"cast", "info", "stop"} : SendTo(s, type)
           \/ \E kind \in LaterKind : Fire(s, kind)
    PROVE  IInv' /\ Allowed
<1> USE DEF IInv
<1>1. UNCHANGED <<serverVars, deferred, clientVars, answerVars>>
  BY DEF SendTo, Fire
<1>2. PICK type \in Handled \cup {"stop"} : Post(s, Plain(type))
  BY DEF SendTo, Fire, Handled, LaterKind
<1>3. CallInv' /\ Asked' = Asked /\ Sent' = Sent
  BY <1>1, CallsStay
<1>4. QueueInv'
  BY <1>1, <1>2, <1>3, PlainSent, PostOK
<1>5. ServerInv'
  BY <1>1 DEF ServerInv, NameAlive, serverVars
<1>6. LaterInv'
  <2>1. CASE \E kind \in LaterKind : Fire(s, kind)
    BY <2>1 DEF LaterInv, Fire
  <2>2. CASE \E kind \in {"cast", "info", "stop"} : SendTo(s, kind)
    BY <2>2 DEF Bounds, LaterInv, SendTo, laterVars
  <2>3. QED BY <2>1, <2>2
<1>7. QED BY <1>1, <1>3, <1>4, <1>5, <1>6, RepliesStay, Stutters

LEMMA MakeCallOK ==
    ASSUME Bounds, IInv, NEW s \in Server, NEW c \in Client, MakeCall(c, s)
    PROVE  IInv' /\ Allowed
<1> USE DEF IInv
<1>1. nextCall \in Call /\ outcome[nextCall] = "idle"
  BY DEF MakeCall, CallInv, Call
<1>2. CallInv'
  <2>1. /\ from' \in [Call -> Client \cup {NoClient}]
        /\ waiting' \in [Client -> Call \cup {NoCall}]
        /\ outcome' \in [Call -> {"idle", "pending", "answered", "timeout"}]
    BY <1>1 DEF MakeCall, CallInv
  <2>2. nextCall' \in 1 .. MaxCalls + 1
    BY <1>1 DEF Bounds, MakeCall, CallInv, Call
  <2>3. \A r \in Call : r >= nextCall' => outcome'[r] = "idle"
    BY <1>1 DEF MakeCall, CallInv, Call
  <2>4. ASSUME NEW d \in Client, waiting'[d] # NoCall
        PROVE  outcome'[waiting'[d]] = "pending" /\ from'[waiting'[d]] = d
    <3>1. CASE d = c
      BY <1>1, <3>1 DEF MakeCall, CallInv
    <3>2. CASE d # c
      BY <1>1, <2>4, <3>2 DEF MakeCall, CallInv
    <3>3. QED BY <3>1, <3>2
  <2>5. QED BY <2>1, <2>2, <2>3, <2>4 DEF CallInv
<1>3. Asked \subseteq Asked' /\ Sent \subseteq Sent' /\ Request(nextCall) \in Sent'
  <2>1. Asked \subseteq Asked' /\ nextCall \in Asked'
    BY <1>1 DEF MakeCall, CallInv, Asked
  <2>2. Request(nextCall) \in Message
    BY <1>1 DEF Request, Message
  <2>3. QED BY <2>1, <2>2 DEF Sent, Request
<1>4. QueueInv'
  BY <1>3, PostOK DEF MakeCall
<1>5. ServerInv'
  BY DEF ServerInv, NameAlive, serverVars, MakeCall
<1>6. LaterInv'
  BY DEF LaterInv, laterVars, MakeCall
<1>7. ReplyInv'
  BY RepliesStay DEF MakeCall
<1>8. Promise!Issue(nextCall)
  BY <1>1 DEF MakeCall, Promise!Issue, Promise!Step, answerVars
<1>9. QED BY <1>1, <1>2, <1>4, <1>5, <1>6, <1>7, <1>8 DEF Allowed, Promise!Next

-----------------------------------------------------------------------------
(* What a client that waits finds, or does not find. *)
LEMMA ReturnsOK ==
    ASSUME IInv, NEW c \in Client, waiting[c] # NoCall,
           NEW what \in {"answered", "timeout"}, Returns(c, what),
           UNCHANGED <<mailbox, deferred, nextCall, from>>
    PROVE  /\ CallInv' /\ QueueInv'
           /\ waiting[c] \in Call /\ outcome[waiting[c]] = "pending"
<1> USE DEF IInv
<1>1. waiting[c] \in Call /\ outcome[waiting[c]] = "pending"
  BY DEF CallInv
<1>2. CallInv'
  <2>1. /\ waiting' \in [Client -> Call \cup {NoCall}]
        /\ outcome' \in [Call -> {"idle", "pending", "answered", "timeout"}]
    BY <1>1 DEF Returns, CallInv
  <2>2. \A r \in Call : r >= nextCall' => outcome'[r] = "idle"
    BY <1>1 DEF Returns, CallInv, Call
  <2>3. ASSUME NEW d \in Client, waiting'[d] # NoCall
        PROVE  outcome'[waiting'[d]] = "pending" /\ from'[waiting'[d]] = d
    <3>1. d # c /\ waiting'[d] = waiting[d]
      BY <2>3 DEF Returns, CallInv
    <3>2. waiting[d] # waiting[c] /\ waiting[d] \in Call
      BY <2>3, <3>1 DEF CallInv
    <3>3. QED BY <1>1, <2>3, <3>1, <3>2 DEF Returns, CallInv
  <2>4. QED BY <2>1, <2>2, <2>3 DEF CallInv
<1>3. Asked' = Asked
  BY <1>1 DEF Returns, CallInv, Asked
<1>4. Sent' = Sent
  BY <1>3 DEF Sent
<1>5. QED BY <1>1, <1>2, <1>3, <1>4 DEF QueueInv

LEMMA WaitOK ==
    ASSUME IInv, NEW c \in Client, WaitForReply(c) \/ CallTimesOut(c)
    PROVE  IInv' /\ Allowed
<1> USE DEF IInv
<1>1. ServerInv'
  BY DEF ServerInv, NameAlive, serverVars, WaitForReply, CallTimesOut
<1>2. LaterInv'
  BY DEF LaterInv, laterVars, WaitForReply, CallTimesOut
<1>3. CASE CallTimesOut(c)
  <2>1. CallInv' /\ QueueInv' /\ waiting[c] \in Call /\ outcome[waiting[c]] = "pending"
    BY <1>3, ReturnsOK DEF CallTimesOut
  <2>2. ReplyInv'
    BY <1>3, RepliesStay DEF CallTimesOut
  <2>3. Promise!GiveUp(waiting[c])
    BY <1>3, <2>1 DEF CallTimesOut, Returns, answerVars, Promise!GiveUp, Promise!Step
  <2>4. QED BY <1>1, <1>2, <2>1, <2>2, <2>3 DEF Allowed, Promise!Next
<1>4. CASE WaitForReply(c)
  <2>1. ReplyInv' /\ Head(inbox[c]) \in served
    BY <1>4 DEF WaitForReply, ReplyInv
  <2>2. CASE Returns(c, "answered") /\ Head(inbox[c]) = waiting[c]
    <3>1. CallInv' /\ QueueInv' /\ waiting[c] \in Call /\ outcome[waiting[c]] = "pending"
      BY <1>4, <2>2, ReturnsOK DEF WaitForReply
    <3>2. Promise!Return(waiting[c])
      BY <1>4, <2>1, <2>2, <3>1 DEF WaitForReply, Returns, Promise!Return, Promise!Step
    <3>3. QED BY <1>1, <1>2, <2>1, <3>1, <3>2 DEF Allowed, Promise!Next
  <2>3. CASE UNCHANGED <<waiting, outcome>>
    <3>1. CallInv' /\ Asked' = Asked /\ Sent' = Sent
      BY <1>4, <2>3, CallsStay DEF WaitForReply, clientVars
    <3>2. QueueInv'
      BY <1>4, <3>1 DEF WaitForReply, QueueInv
    <3>3. Allowed
      BY <1>4, <2>3 DEF WaitForReply, Allowed, Promise!vars
    <3>4. QED BY <1>1, <1>2, <2>1, <3>1, <3>2, <3>3
  <2>4. QED BY <1>4, <2>2, <2>3 DEF WaitForReply
<1>5. QED BY <1>3, <1>4

-----------------------------------------------------------------------------
(* One turn of the loop. *)
LEMMA TakesOK ==
    ASSUME IInv, NEW s \in Server, NEW types, Takes(s, types)
    PROVE  /\ CallInv' /\ Asked' = Asked /\ Sent' = Sent
           /\ mailbox' \in [Server -> Seq(Sent)]
           /\ Head(mailbox[s]) \in Sent
           /\ phase[s] = "loop"
<1>1. CallInv' /\ Asked' = Asked /\ Sent' = Sent
  BY CallsStay DEF IInv, Takes
<1>2. mailbox[s] \in Seq(Sent) /\ mailbox[s] # <<>>
  BY DEF IInv, QueueInv, Takes
<1>3. Head(mailbox[s]) \in Sent /\ Tail(mailbox[s]) \in Seq(Sent)
  BY <1>2
<1>4. mailbox' \in [Server -> Seq(Sent)]
  BY <1>3 DEF IInv, QueueInv, Takes
<1>5. QED BY <1>1, <1>3, <1>4 DEF Takes

LEMMA AfterTurn ==
    ASSUME Bounds, IInv, NEW s \in Server, phase[s] = "loop", UNCHANGED sends,
           Goes(s) \/ Stops(s) \/ UNCHANGED <<serverVars, laterVars>>
    PROVE  ServerInv' /\ LaterInv'
<1>1. ServerInv'
  BY DEF IInv, ServerInv, NameAlive, Goes, Stops, serverVars
<1>2. LaterInv'
  <2>1. CASE Goes(s)
    BY <2>1, SchedulesOK DEF IInv, Goes
  <2>2. CASE UNCHANGED laterVars
    BY <2>2 DEF IInv, LaterInv, laterVars
  <2>3. QED BY <2>1, <2>2 DEF Stops
<1>3. QED BY <1>1, <1>2

LEMMA ReplyOK ==
    ASSUME IInv, NEW r \in Asked, Reply(r), UNCHANGED outcome
    PROVE  ReplyInv' /\ Allowed
<1>1. r \in Call /\ served' \subseteq Call /\ outcome[r] # "idle"
  BY DEF IInv, ReplyInv, Reply, Asked
<1>2. Seq(served) \subseteq Seq(served')
  BY SeqGrows DEF Reply
<1>3. inbox' \in [Client -> Seq(served')]
  <2>1. inbox \in [Client -> Seq(served')] /\ r \in served'
    BY <1>2 DEF IInv, ReplyInv, Reply
  <2>2. \A q \in Seq(served') : Append(q, r) \in Seq(served')
    BY <2>1
  <2>3. QED BY <2>1, <2>2 DEF Reply
<1>4. Allowed
  <2>1. CASE r \in served
    BY <2>1 DEF Reply, Allowed, Promise!vars
  <2>2. CASE r \notin served
    BY <1>1, <2>2 DEF Reply, Allowed, Promise!Next, Promise!Serve
  <2>3. QED BY <2>1, <2>2
<1>5. QED BY <1>1, <1>3, <1>4 DEF ReplyInv

LEMMA TurnOK ==
    ASSUME Bounds, IInv, NEW s \in Server, Turn(s)
    PROVE  IInv' /\ Allowed
<1>1. CASE HandleCall(s)
  <2>1. Takes(s, {"call"}) /\ Head(mailbox[s]).type = "call"
    BY <1>1 DEF HandleCall, Takes
  <2>2. Head(mailbox[s]).ref \in Asked
    BY <2>1, TakesOK DEF Sent
  <2>3. ReplyInv' /\ Allowed
    BY <1>1, <2>1, <2>2, ReplyOK DEF HandleCall, Takes, clientVars
  <2>4. ServerInv' /\ LaterInv'
    BY <1>1, <2>1, AfterTurn DEF HandleCall, Takes
  <2>5. CallInv' /\ QueueInv'
    BY <1>1, <2>1, TakesOK DEF HandleCall, IInv, QueueInv
  <2>6. QED BY <2>3, <2>4, <2>5 DEF IInv
<1>2. CASE DeferCall(s)
  <2>1. Takes(s, {"call"}) /\ Head(mailbox[s]).type = "call"
    BY <1>2 DEF DeferCall, Takes
  <2>2. Head(mailbox[s]).ref \in Asked
    BY <2>1, TakesOK DEF Sent
  <2>3. ServerInv' /\ LaterInv'
    BY <1>2, <2>1, AfterTurn DEF DeferCall, Takes
  <2>4. deferred' \in [Server -> SUBSET Asked]
    BY <1>2, <2>2 DEF DeferCall, IInv, QueueInv
  <2>5. CallInv' /\ QueueInv'
    BY <2>1, <2>4, TakesOK DEF QueueInv
  <2>6. ReplyInv' /\ Allowed
    BY <1>2, <2>1, RepliesStay, Stutters DEF DeferCall, Takes, IInv
  <2>7. QED BY <2>3, <2>5, <2>6 DEF IInv
<1>3. CASE HandleOther(s)
  <2>1. Takes(s, Handled) /\ UNCHANGED outcome
    BY <1>3 DEF HandleOther, Takes, clientVars
  <2>2. ServerInv' /\ LaterInv'
    BY <1>3, <2>1, AfterTurn DEF HandleOther, Takes
  <2>3. CASE UNCHANGED <<deferred, answerVars>>
    <3>1. CallInv' /\ QueueInv'
      BY <2>1, <2>3, TakesOK DEF IInv, QueueInv
    <3>2. ReplyInv' /\ Allowed
      BY <2>1, <2>3, RepliesStay, Stutters DEF Takes, IInv
    <3>3. QED BY <2>2, <3>1, <3>2 DEF IInv
  <2>4. ASSUME NEW r \in deferred[s], deferred' = [deferred EXCEPT ![s] = @ \ {r}], Reply(r)
        PROVE  IInv' /\ Allowed
    <3>1. r \in Asked
      BY DEF IInv, QueueInv
    <3>2. deferred' \in [Server -> SUBSET Asked]
      BY <2>4 DEF IInv, QueueInv
    <3>3. CallInv' /\ QueueInv'
      BY <2>1, <3>2, TakesOK DEF QueueInv
    <3>4. ReplyInv' /\ Allowed
      BY <2>1, <2>4, <3>1, ReplyOK
    <3>5. QED BY <2>2, <3>3, <3>4 DEF IInv
  <2>5. QED BY <1>3, <2>3, <2>4 DEF HandleOther
<1>4. CASE HandleStop(s)
  <2>1. Takes(s, {"stop"})
    BY <1>4 DEF HandleStop
  <2>2. ServerInv' /\ LaterInv'
    BY <1>4, <2>1, AfterTurn DEF HandleStop, Takes
  <2>3. CallInv' /\ QueueInv'
    BY <1>4, <2>1, TakesOK DEF HandleStop, IInv, QueueInv
  <2>4. ReplyInv' /\ Allowed
    BY <1>4, <2>1, RepliesStay, Stutters DEF HandleStop, Takes, IInv
  <2>5. QED BY <2>2, <2>3, <2>4 DEF IInv
<1>5. QED BY <1>1, <1>2, <1>3, <1>4 DEF Turn

-----------------------------------------------------------------------------
LEMMA StepOK == ASSUME Bounds, IInv, [Next]_vars PROVE IInv' /\ Allowed
<1>1. CASE UNCHANGED vars
  <2>1. UNCHANGED <<serverVars, mailbox, laterVars, deferred, sends, clientVars, answerVars>>
    BY <1>1 DEF vars
  <2>2. CallInv' /\ QueueInv'
    BY <2>1, CallsStay DEF IInv, QueueInv
  <2>3. ServerInv' /\ LaterInv'
    BY <2>1 DEF IInv, ServerInv, NameAlive, LaterInv, serverVars, laterVars
  <2>4. QED BY <2>1, <2>2, <2>3, RepliesStay, Stutters DEF IInv
<1>2. ASSUME NEW s \in Server, LifeStep(s) PROVE IInv' /\ Allowed
  BY <1>2, LifeOK
<1>3. ASSUME NEW s \in Server, NEW c \in Client, MakeCall(c, s) PROVE IInv' /\ Allowed
  BY <1>3, MakeCallOK
<1>4. ASSUME NEW s \in Server,
             \/ \E type \in {"cast", "info", "stop"} : SendTo(s, type)
             \/ \E kind \in LaterKind : Fire(s, kind)
      PROVE  IInv' /\ Allowed
  BY <1>4, SendOK
<1>5. ASSUME NEW c \in Client, WaitForReply(c) \/ CallTimesOut(c) PROVE IInv' /\ Allowed
  BY <1>5, WaitOK
<1>6. ASSUME NEW s \in Server, Turn(s) PROVE IInv' /\ Allowed
  BY <1>6, TurnOK
<1>7. QED BY <1>1, <1>2, <1>3, <1>4, <1>5, <1>6 DEF Next, Progress, LifeStep

(* call() and wait_for_reply(): a call returns Ok only with the reply to    *)
(* that very call, however late replies and time limits interleave.         *)
THEOREM CallsCorrect == ASSUME Bounds PROVE Spec => CallsImplement
<1>1. Init => IInv /\ Promise!Init
  BY InitOK
<1>2. IInv /\ [Next]_vars => IInv' /\ [Promise!Next]_(Promise!vars)
  BY StepOK DEF Allowed
<1>3. QED BY <1>1, <1>2, PTL DEF Spec, CallsImplement, Promise!Spec

(* start_named() and the end of gen_server_loop: a server found under the   *)
(* name has not stopped, whoever competes for the name.                     *)
THEOREM NameCorrect == ASSUME Bounds PROVE Spec => []NameAlive
<1>1. Init => IInv
  BY InitOK
<1>2. IInv /\ [Next]_vars => IInv'
  BY StepOK
<1>3. IInv => NameAlive
  BY DEF IInv, ServerInv
<1>4. QED BY <1>1, <1>2, <1>3, PTL DEF Spec

(* Every reachable state of servers, clients and their mailboxes is well   *)
(* formed.                                                                  *)
THEOREM TypeCorrect == ASSUME Bounds PROVE Spec => []TypeOK
<1>1. Init => IInv
  BY InitOK
<1>2. IInv /\ [Next]_vars => IInv'
  BY StepOK
<1>3. IInv => TypeOK
  BY InvImpliesType
<1>4. QED BY <1>1, <1>2, <1>3, PTL DEF Spec

-----------------------------------------------------------------------------
(* The job queue.                                                          *)
(*                                                                         *)
(* A worker that is idle is bare: the queue has nothing down for it, it has *)
(* no job in hand or in its mailbox, and no result of it is on the way.    *)
Bare(w) ==
    /\ jq_working[w] = Job!NoJob /\ jq_inFlight[w] = Job!NoJob
    /\ ~Job!HasJob(w) /\ ~Job!Expected("finished", w)
IdleBare == \A i \in DOMAIN jq_idle : Bare(jq_idle[i]) /\ jq_idle[i] < jq_nextWorker

(* The workers that were not started yet, and those that have ended: one that *)
(* ends does so between two jobs.                                          *)
Fresh ==
    \A w \in Job!Worker : w >= jq_nextWorker =>
        jq_worker[w] = "none" /\ jq_wbox[w] = <<>> /\ Bare(w) /\ w \notin jq_all
GoneBare == \A w \in Job!Worker : jq_worker[w] = "gone" => jq_working[w] = Job!NoJob /\ ~Job!HasJob(w)

(* A worker has one result on the way, and it is ahead of the DOWN messages: *)
(* the queue hears of a job before it hears of the end of who did it.      *)
MailOrder ==
    \A i \in DOMAIN jq_mailbox :
        /\ jq_mailbox[i].type \in {"finished", "down"} => jq_mailbox[i].worker \in Job!Worker
        /\ jq_mailbox[i].type = "down" => jq_worker[jq_mailbox[i].worker] = "gone"
        /\ jq_mailbox[i].type = "finished" =>
              \A j \in DOMAIN jq_mailbox :
                  /\ jq_mailbox[j].type = "finished" /\ jq_mailbox[j].worker = jq_mailbox[i].worker => j = i
                  /\ jq_mailbox[j].type = "down" /\ jq_mailbox[j].worker = jq_mailbox[i].worker => j > i

(* What the messages carry; a job that is reported done is done.           *)
Shapes ==
    \A i \in DOMAIN jq_mailbox :
        /\ jq_mailbox[i].type \notin {"enqueue", "retry"} => jq_mailbox[i].jobs = <<>>
        /\ jq_mailbox[i].type = "retry" => Len(jq_mailbox[i].jobs) = 1
        /\ jq_mailbox[i].type = "finished" /\ jq_mailbox[i].ok => jq_inFlight[jq_mailbox[i].worker].id \in jq_done

JobInv ==
    /\ Job!TypeOK /\ Job!JobsTracked /\ Job!EndsAnnounced /\ Job!JobsKept
    /\ IdleBare /\ Fresh /\ GoneBare /\ MailOrder /\ Shapes

LEMMA JobTypes ==
    ASSUME Job!TypeOK
    PROVE  /\ Len(jq_mailbox) \in Nat /\ DOMAIN jq_mailbox = 1 .. Len(jq_mailbox)
           /\ \A i \in DOMAIN jq_mailbox :
                 /\ jq_mailbox[i] \in Job!Message /\ jq_mailbox[i].jobs \in Seq(Job!Job) /\ jq_mailbox[i].ok \in BOOLEAN
                 /\ jq_mailbox[i].worker \in Job!Worker \cup {Job!NoWorker}
           /\ Len(jq_idle) \in Nat /\ DOMAIN jq_idle = 1 .. Len(jq_idle) /\ \A i \in DOMAIN jq_idle : jq_idle[i] \in Job!Worker
           /\ Len(jq_pending) \in Nat /\ DOMAIN jq_pending = 1 .. Len(jq_pending) /\ \A i \in DOMAIN jq_pending : jq_pending[i] \in Job!Job
           /\ Len(jq_batch) \in Nat /\ DOMAIN jq_batch = 1 .. Len(jq_batch) /\ \A i \in DOMAIN jq_batch : jq_batch[i] \in Job!Job
           /\ \A w \in Job!Worker : jq_inFlight[w] \in Job!Job \cup {Job!NoJob} /\ jq_working[w] \in Job!Job \cup {Job!NoJob}
           /\ \A w \in Job!Worker : jq_wbox[w] \in Seq(Job!Job \cup {Job!NoJob}) /\ DOMAIN jq_wbox[w] = 1 .. Len(jq_wbox[w])
           /\ jq_nextWorker \in Nat /\ jq_nextJob \in Nat /\ Job!Worker \subseteq Nat /\ 0 \notin Job!Worker
<1>1. \A m \in Job!Message : m.jobs \in Seq(Job!Job) /\ m.ok \in BOOLEAN /\ m.worker \in Job!Worker \cup {Job!NoWorker}
  BY DEF Job!Message
<1>2. Job!Worker \subseteq Nat /\ 0 \notin Job!Worker
  BY JobAssumption DEF Job!Worker
<1>3. QED BY <1>1, <1>2, LenProperties, JobAssumption DEF Job!TypeOK, Job!StopMessage

LEMMA JobIds == /\ \A job \in Job!Job : job.id \in Job!JobId /\ job.id # 0 /\ job.retry \in 0 .. Job!MaxRetries + 1
                /\ Job!NoJob \notin Job!Job /\ Job!NoJob.id = 0 /\ Job!StopMessage = Job!NoJob
                /\ \A job \in Job!Job : job.retry + 1 <= Job!MaxRetries => [job EXCEPT !.retry = @ + 1] \in Job!Job
                /\ \A job \in Job!Job : [job EXCEPT !.retry = @ + 1].id = job.id
  BY JobAssumption DEF Job!Job, Job!JobId, Job!NoJob, Job!StopMessage, Job!MaxRetries

LEMMA JobHoldsTail ==
    ASSUME NEW S, NEW s \in Seq(S), s # <<>>, NEW j, Job!Holds(s, j)
    PROVE  Head(s).id = j \/ Job!Holds(Tail(s), j)
<1>1. PICK i \in DOMAIN s : s[i].id = j
  BY DEF Job!Holds
<1>2. i = 1 \/ (i - 1 \in DOMAIN Tail(s) /\ Tail(s)[i - 1] = s[i])
  OBVIOUS
<1>3. s[1] = Head(s)
  OBVIOUS
<1>4. QED BY <1>1, <1>2, <1>3 DEF Job!Holds

LEMMA JobHoldsAppend ==
    ASSUME NEW S, NEW s \in Seq(S), NEW x \in S, NEW j, Job!Holds(s, j) \/ x.id = j
    PROVE  Job!Holds(Append(s, x), j)
<1>1. /\ \A i \in DOMAIN s : i \in DOMAIN Append(s, x) /\ Append(s, x)[i] = s[i]
      /\ Len(s) + 1 \in DOMAIN Append(s, x) /\ Append(s, x)[Len(s) + 1] = x
  OBVIOUS
<1>2. QED BY <1>1 DEF Job!Holds

(* A message is taken. *)
LEMMA JobTakes ==
    ASSUME Job!TypeOK, jq_mailbox # <<>>, jq_mailbox' = Tail(jq_mailbox)
    PROVE  /\ jq_mailbox' \in Seq(Job!Message) /\ Head(jq_mailbox) \in Job!Message /\ Head(jq_mailbox) = jq_mailbox[1]
           /\ 1 \in DOMAIN jq_mailbox
           /\ DOMAIN jq_mailbox' = 1 .. Len(jq_mailbox) - 1
           /\ \A i \in DOMAIN jq_mailbox' : jq_mailbox'[i] = jq_mailbox[i + 1] /\ i + 1 \in DOMAIN jq_mailbox
           /\ \A i \in DOMAIN jq_mailbox : i # 1 => i - 1 \in DOMAIN jq_mailbox' /\ jq_mailbox'[i - 1] = jq_mailbox[i]
<1>1. jq_mailbox \in Seq(Job!Message) /\ Len(jq_mailbox) \in Nat /\ DOMAIN jq_mailbox = 1 .. Len(jq_mailbox)
  BY JobTypes DEF Job!TypeOK
<1>2. Head(jq_mailbox) = jq_mailbox[1] /\ Head(jq_mailbox) \in Job!Message /\ 1 \in DOMAIN jq_mailbox
  BY <1>1
<1>3. Tail(jq_mailbox) \in Seq(Job!Message) /\ Len(Tail(jq_mailbox)) = Len(jq_mailbox) - 1
      /\ \A i \in 1 .. Len(jq_mailbox) - 1 : Tail(jq_mailbox)[i] = jq_mailbox[i + 1]
  BY <1>1
<1>4. DOMAIN Tail(jq_mailbox) = 1 .. Len(jq_mailbox) - 1
  BY <1>3, LenProperties
<1>5. QED BY <1>1, <1>2, <1>3, <1>4

(* A message is posted. *)
LEMMA JobPosts ==
    ASSUME Job!TypeOK, NEW m \in Job!Message, jq_mailbox' = Append(jq_mailbox, m)
    PROVE  /\ jq_mailbox' \in Seq(Job!Message)
           /\ DOMAIN jq_mailbox' = 1 .. Len(jq_mailbox) + 1 /\ DOMAIN jq_mailbox = 1 .. Len(jq_mailbox) /\ Len(jq_mailbox) \in Nat
           /\ \A i \in DOMAIN jq_mailbox : jq_mailbox'[i] = jq_mailbox[i] /\ i \in DOMAIN jq_mailbox'
           /\ jq_mailbox'[Len(jq_mailbox) + 1] = m
  BY JobTypes DEF Job!TypeOK

(* What is left of the idle workers. *)
LEMMA JobFrontOf ==
    ASSUME NEW s \in Seq(Job!Worker), s # <<>>
    PROVE  /\ Job!Front(s) \in Seq(Job!Worker) /\ Job!Last(s) \in Job!Worker /\ Job!Last(s) = s[Len(s)] /\ Len(s) \in DOMAIN s
           /\ DOMAIN Job!Front(s) = 1 .. Len(s) - 1 /\ DOMAIN s = 1 .. Len(s) /\ Len(s) \in Nat \ {0}
           /\ \A i \in DOMAIN Job!Front(s) : Job!Front(s)[i] = s[i] /\ i \in DOMAIN s /\ i # Len(s)
  BY DEF Job!Front, Job!Last

LEMMA JobWithoutOf ==
    ASSUME NEW s \in Seq(Job!Worker), NEW w,
           \A i, j \in DOMAIN s : s[i] = s[j] => i = j
    PROVE  /\ Job!Without(s, w) \in Seq(Job!Worker)
           /\ \A i \in DOMAIN Job!Without(s, w) : Job!Without(s, w)[i] # w
           /\ \A i, j \in DOMAIN Job!Without(s, w) : Job!Without(s, w)[i] = Job!Without(s, w)[j] => i = j
           /\ \A i \in DOMAIN Job!Without(s, w) : \E j \in DOMAIN s : Job!Without(s, w)[i] = s[j]
<1>1. CASE ~Job!Has(s, w)
  BY <1>1 DEF Job!Without, Job!Has
<1>2. CASE Job!Has(s, w)
  <2> DEFINE at == CHOOSE i \in DOMAIN s : s[i] = w
             t == [i \in 1 .. Len(s) - 1 |-> s[IF i < at THEN i ELSE i + 1]]
  <2>1. at \in DOMAIN s /\ s[at] = w
    BY <1>2 DEF Job!Has
  <2>2. Job!Without(s, w) = t
    BY <1>2 DEF Job!Without
  <2>3. Len(s) \in Nat /\ DOMAIN s = 1 .. Len(s) /\ at \in 1 .. Len(s)
    BY <2>1, LenProperties
  <2> HIDE DEF at
  <2>4. \A i \in 1 .. Len(s) - 1 : /\ (IF i < at THEN i ELSE i + 1) \in DOMAIN s
                                   /\ (IF i < at THEN i ELSE i + 1) # at
    BY <2>3
  <2>5. DOMAIN t = 1 .. Len(s) - 1 /\ Len(s) - 1 \in Nat
    BY <2>3
  <2>6. t \in Seq(Job!Worker)
    BY <2>4, <2>5
  <2>7. \A i \in DOMAIN t : t[i] # w /\ \E j \in DOMAIN s : t[i] = s[j]
    BY <2>1, <2>4, <2>5
  <2>8. \A i, j \in DOMAIN t : t[i] = t[j] => i = j
    <3> SUFFICES ASSUME NEW i \in DOMAIN t, NEW j \in DOMAIN t, t[i] = t[j] PROVE i = j
      OBVIOUS
    <3>1. (IF i < at THEN i ELSE i + 1) = (IF j < at THEN j ELSE j + 1)
      BY <2>4, <2>5
    <3>2. QED BY <2>3, <2>5, <3>1
  <2> HIDE DEF t
  <2>9. QED BY <2>2, <2>6, <2>7, <2>8
<1>3. QED BY <1>1, <1>2

Settled(j) == j \in jq_done \cup jq_lost \cup jq_dead \cup jq_refused
Flies(j) == \E w \in Job!Worker : jq_inFlight[w].id = j
Timed(j) == \E job \in jq_timers : job.id = j
Mailed(j) == \E i \in DOMAIN jq_mailbox : Job!Holds(jq_mailbox[i].jobs, j)
Place(j) == Settled(j) \/ Job!Holds(jq_pending, j) \/ Job!Holds(jq_batch, j) \/ Flies(j) \/ Timed(j) \/ Mailed(j)

LEMMA JobKeptPlaces ==
    /\ Job!JobsKept <=> \A j \in 1 .. jq_nextJob - 1 : Place(j)
    /\ Job!JobsKept' <=> \A j \in 1 .. jq_nextJob' - 1 : Place(j)'
  BY DEF Job!JobsKept, Place, Settled, Flies, Timed, Mailed

LEMMA JobMailTaken ==
    ASSUME Job!TypeOK, MailOrder, jq_mailbox # <<>>, jq_mailbox' = Tail(jq_mailbox)
    PROVE  /\ \A type, w : Job!Expected(type, w)' => Job!Expected(type, w)
           /\ \A type, w : Job!Expected(type, w) =>
                 Job!Expected(type, w)' \/ (Head(jq_mailbox).type = type /\ Head(jq_mailbox).worker = w)
           /\ \A j : Mailed(j) => Mailed(j)' \/ Job!Holds(Head(jq_mailbox).jobs, j)
           /\ \A w : Head(jq_mailbox).type \in {"finished", "down"} /\ Head(jq_mailbox).worker = w
                     => ~Job!Expected("finished", w)'
           /\ (\A w \in Job!Worker : jq_worker[w] = "gone" => jq_worker'[w] = "gone") => MailOrder'
<1>1. /\ Head(jq_mailbox) = jq_mailbox[1] /\ 1 \in DOMAIN jq_mailbox
      /\ DOMAIN jq_mailbox' = 1 .. Len(jq_mailbox) - 1 /\ DOMAIN jq_mailbox = 1 .. Len(jq_mailbox) /\ Len(jq_mailbox) \in Nat
      /\ \A i \in DOMAIN jq_mailbox' : jq_mailbox'[i] = jq_mailbox[i + 1] /\ i + 1 \in DOMAIN jq_mailbox
      /\ \A i \in DOMAIN jq_mailbox : i # 1 => i - 1 \in DOMAIN jq_mailbox' /\ jq_mailbox'[i - 1] = jq_mailbox[i]
  BY JobTakes, JobTypes
<1>2. \A type, w : Job!Expected(type, w)' => Job!Expected(type, w)
  BY <1>1 DEF Job!Expected
<1>3. \A type, w : Job!Expected(type, w) =>
         Job!Expected(type, w)' \/ (Head(jq_mailbox).type = type /\ Head(jq_mailbox).worker = w)
  BY <1>1 DEF Job!Expected
<1>4. \A j : Mailed(j) => Mailed(j)' \/ Job!Holds(Head(jq_mailbox).jobs, j)
  BY <1>1 DEF Mailed
<1>5. ASSUME NEW w, Head(jq_mailbox).type \in {"finished", "down"}, Head(jq_mailbox).worker = w,
             NEW i \in DOMAIN jq_mailbox', jq_mailbox'[i].type = "finished", jq_mailbox'[i].worker = w
      PROVE  FALSE
  <2>1. /\ jq_mailbox[i + 1].type = "finished" /\ i + 1 \in DOMAIN jq_mailbox /\ i + 1 > 1
        /\ jq_mailbox[i + 1].worker = jq_mailbox[1].worker
    BY <1>1, <1>5
  <2>2. QED BY <1>1, <1>5, <2>1 DEF MailOrder
<1>6. (\A w \in Job!Worker : jq_worker[w] = "gone" => jq_worker'[w] = "gone") => MailOrder'
  <2> SUFFICES ASSUME \A w \in Job!Worker : jq_worker[w] = "gone" => jq_worker'[w] = "gone", NEW i \in DOMAIN jq_mailbox'
               PROVE  /\ jq_mailbox'[i].type \in {"finished", "down"} => jq_mailbox'[i].worker \in Job!Worker
                      /\ jq_mailbox'[i].type = "down" => jq_worker'[jq_mailbox'[i].worker] = "gone"
                      /\ jq_mailbox'[i].type = "finished" =>
                            \A j \in DOMAIN jq_mailbox' :
                                /\ jq_mailbox'[j].type = "finished" /\ jq_mailbox'[j].worker = jq_mailbox'[i].worker => j = i
                                /\ jq_mailbox'[j].type = "down" /\ jq_mailbox'[j].worker = jq_mailbox'[i].worker => j > i
    BY DEF MailOrder
  <2>1. jq_mailbox'[i].type \in {"finished", "down"} => jq_mailbox'[i].worker \in Job!Worker
    BY <1>1 DEF MailOrder
  <2>2. jq_mailbox'[i].type = "down" => jq_worker'[jq_mailbox'[i].worker] = "gone"
    BY <1>1, <2>1 DEF MailOrder
  <2>3. ASSUME jq_mailbox'[i].type = "finished", NEW j \in DOMAIN jq_mailbox',
               jq_mailbox'[j].worker = jq_mailbox'[i].worker
        PROVE  (jq_mailbox'[j].type = "finished" => j = i) /\ (jq_mailbox'[j].type = "down" => j > i)
    BY <1>1, <2>3 DEF MailOrder
  <2>4. QED BY <2>1, <2>2, <2>3
<1>7. QED BY <1>2, <1>3, <1>4, <1>5, <1>6 DEF Job!Expected

LEMMA JobShapesTaken ==
    ASSUME Job!TypeOK, MailOrder, Shapes, jq_mailbox # <<>>, jq_mailbox' = Tail(jq_mailbox), jq_done \subseteq jq_done',
           \A w \in Job!Worker : Job!Expected("finished", w)' => jq_inFlight'[w] = jq_inFlight[w]
    PROVE  Shapes'
<1>1. /\ DOMAIN jq_mailbox' = 1 .. Len(jq_mailbox) - 1 /\ DOMAIN jq_mailbox = 1 .. Len(jq_mailbox) /\ Len(jq_mailbox) \in Nat
      /\ \A i \in DOMAIN jq_mailbox' : jq_mailbox'[i] = jq_mailbox[i + 1] /\ i + 1 \in DOMAIN jq_mailbox
  BY JobTakes, JobTypes
<1>2. \A i \in DOMAIN jq_mailbox' : jq_mailbox'[i].type = "finished" =>
          jq_mailbox'[i].worker \in Job!Worker /\ jq_inFlight'[jq_mailbox'[i].worker] = jq_inFlight[jq_mailbox'[i].worker]
  BY <1>1 DEF Job!Expected, MailOrder
<1>3. QED BY <1>1, <1>2 DEF Shapes

LEMMA JobMailPosted ==
    ASSUME Job!TypeOK, NEW m \in Job!Message, jq_mailbox' = Append(jq_mailbox, m)
    PROVE  /\ \A type, w : Job!Expected(type, w)' => Job!Expected(type, w) \/ (m.type = type /\ m.worker = w)
           /\ \A type, w : Job!Expected(type, w) => Job!Expected(type, w)'
           /\ m.type \in {"down", "finished"} => Job!Expected(m.type, m.worker)'
           /\ \A j : Mailed(j) \/ Job!Holds(m.jobs, j) => Mailed(j)'
  BY JobPosts DEF Job!Expected, Mailed

(* What is neither a result nor a DOWN changes nothing about these. *)
LEMMA JobMailPostedOther ==
    ASSUME Job!TypeOK, MailOrder, Shapes, NEW m \in Job!Message, jq_mailbox' = Append(jq_mailbox, m),
           m.type \notin {"finished", "down"}, UNCHANGED <<jq_worker, jq_inFlight, jq_done>>,
           m.type \notin {"enqueue", "retry"} => m.jobs = <<>>, m.type = "retry" => Len(m.jobs) = 1
    PROVE  MailOrder' /\ Shapes'
<1>1. /\ DOMAIN jq_mailbox' = 1 .. Len(jq_mailbox) + 1 /\ DOMAIN jq_mailbox = 1 .. Len(jq_mailbox) /\ Len(jq_mailbox) \in Nat
      /\ \A i \in DOMAIN jq_mailbox : jq_mailbox'[i] = jq_mailbox[i] /\ i \in DOMAIN jq_mailbox'
      /\ jq_mailbox'[Len(jq_mailbox) + 1] = m
      /\ \A i \in DOMAIN jq_mailbox' : i \in DOMAIN jq_mailbox \/ i = Len(jq_mailbox) + 1
  BY JobPosts
<1>2. MailOrder'
  BY <1>1 DEF MailOrder
<1>3. Shapes'
  BY <1>1 DEF Shapes
<1>4. QED BY <1>2, <1>3

Tracked == Job!JobsTracked /\ IdleBare /\ Fresh /\ GoneBare

(* Nothing new is known of the workers. *)
LEMMA JobWorkersQuiet ==
    ASSUME Tracked, UNCHANGED <<jq_inFlight, jq_idle, jq_all, jq_worker, jq_wbox, jq_working, jq_nextWorker>>,
           \A w \in Job!Worker : Job!Expected("finished", w)' => Job!Expected("finished", w), Job!TypeOK
    PROVE  Tracked'
<1>1. \A w \in Job!Worker : (Bare(w) => Bare(w)') /\ Job!HasJob(w)' = Job!HasJob(w)
  BY DEF Bare, Job!HasJob
<1>2. IdleBare'
  BY <1>1, JobTypes DEF Tracked, IdleBare
<1>3. Fresh' /\ GoneBare'
  BY <1>1 DEF Tracked, Fresh, GoneBare
<1>4. Job!JobsTracked'
  BY <1>1 DEF Tracked, Job!JobsTracked
<1>5. QED BY <1>2, <1>3, <1>4 DEF Tracked

LEMMA JobNoticesQuiet ==
    ASSUME Job!EndsAnnounced, UNCHANGED <<jq_all, jq_worker>>,
           \A w \in jq_all : jq_worker[w] = "gone" /\ Job!Expected("down", w) => Job!Expected("down", w)'
    PROVE  Job!EndsAnnounced'
  BY DEF Job!EndsAnnounced

LEMMA JobMailQuiet ==
    ASSUME MailOrder, UNCHANGED <<jq_mailbox, jq_worker>>
    PROVE  /\ MailOrder'
           /\ Shapes /\ UNCHANGED <<jq_inFlight, jq_done>> => Shapes'
           /\ \A type, w : Job!Expected(type, w)' = Job!Expected(type, w)
           /\ \A j : Mailed(j)' = Mailed(j)
  BY DEF MailOrder, Shapes, Job!Expected, Mailed

LEMMA JobEnqueueOK == ASSUME JobInv, Job!Enqueue PROVE JobInv'
<1>1. jq_batch \in Seq(Job!Job) /\ jq_batch # <<>> /\ jq_batch' = Tail(jq_batch) /\ Head(jq_batch) \in Job!Job /\ jq_nextJob' = jq_nextJob
  BY DEF JobInv, Job!TypeOK, Job!Enqueue, Job!counters
<1>2. Job!TypeOK'
  <2>1. Head(jq_batch).id \in Job!JobId
    BY <1>1, JobIds
  <2>5. Append(jq_pending, Head(jq_batch)) \in Seq(Job!Job) /\ Tail(jq_batch) \in Seq(Job!Job)
    BY <1>1 DEF JobInv, Job!TypeOK
  <2>2. jq_pending' \in Seq(Job!Job) /\ jq_batch' \in Seq(Job!Job)
    BY <1>1, <2>5 DEF JobInv, Job!TypeOK, Job!Enqueue
  <2>3. jq_refused' \subseteq Job!JobId /\ jq_dispatching' \in BOOLEAN
    BY <2>1 DEF JobInv, Job!TypeOK, Job!Enqueue
  <2>4. QED BY <2>2, <2>3 DEF JobInv, Job!TypeOK, Job!Enqueue, Job!workerVars, Job!counters
<1>3. Tracked' /\ Job!EndsAnnounced' /\ MailOrder' /\ Shapes'
  BY JobMailQuiet, JobWorkersQuiet, JobNoticesQuiet DEF JobInv, Tracked, Job!Enqueue, Job!workerVars, Job!counters
<1>4. Job!JobsKept'
  <2> SUFFICES ASSUME NEW j \in 1 .. jq_nextJob - 1, Place(j) PROVE Place(j)'
    BY <1>1, JobKeptPlaces DEF JobInv
  <2>5. Job!Holds(Tail(jq_batch), j) => Job!Holds(jq_batch, j)'
    BY <1>1 DEF Job!Holds
  <2>6. ASSUME jq_pending' = Append(jq_pending, Head(jq_batch))
        PROVE  Job!Holds(jq_pending, j) \/ Head(jq_batch).id = j => Job!Holds(jq_pending, j)'
    <3>1. Job!Holds(jq_pending, j) \/ Head(jq_batch).id = j => Job!Holds(Append(jq_pending, Head(jq_batch)), j)
      BY <1>1, JobHoldsAppend DEF JobInv, Job!TypeOK
    <3>2. Job!Holds(Append(jq_pending, Head(jq_batch)), j) => Job!Holds(jq_pending, j)'
      BY <2>6 DEF Job!Holds
    <3>3. QED BY <3>1, <3>2
  <2>7. ASSUME jq_pending' = jq_pending PROVE Job!Holds(jq_pending, j) => Job!Holds(jq_pending, j)'
    BY <2>7 DEF Job!Holds
  <2>1. CASE Job!Holds(jq_batch, j)
    <3>1. Head(jq_batch).id = j \/ Job!Holds(Tail(jq_batch), j)
      BY <1>1, <2>1, JobHoldsTail
    <3>2. Head(jq_batch).id = j => j \in jq_refused' \/ Job!Holds(jq_pending, j)'
      BY <2>6, <2>7 DEF Job!Enqueue
    <3>3. QED BY <2>5, <3>1, <3>2 DEF Place, Settled
  <2>2. Job!Holds(jq_pending, j) => Job!Holds(jq_pending, j)'
    BY <2>6, <2>7 DEF Job!Enqueue
  <2>3. (Settled(j) => Settled(j)') /\ (Flies(j) => Flies(j)') /\ (Timed(j) => Timed(j)') /\ (Mailed(j) => Mailed(j)')
    BY DEF Job!Enqueue, Settled, Flies, Timed, Mailed
  <2>4. QED BY <2>1, <2>2, <2>3 DEF Place
<1>5. QED BY <1>2, <1>3, <1>4 DEF JobInv, Tracked

LEMMA JobDispatchDeadOK == ASSUME JobInv, Job!DispatchDead PROVE JobInv'
<1>1. jq_idle \in Seq(Job!Worker) /\ jq_idle # <<>> /\ jq_idle' = Job!Front(jq_idle)
  BY DEF JobInv, Job!TypeOK, Job!DispatchDead, Job!Popped
<1>2. Job!TypeOK'
  BY <1>1, JobFrontOf DEF JobInv, Job!TypeOK, Job!DispatchDead, Job!workerVars, Job!counters, Job!fates
<1>3. MailOrder' /\ Shapes' /\ \A type, w : Job!Expected(type, w)' = Job!Expected(type, w)
  BY JobMailQuiet DEF JobInv, Job!DispatchDead, Job!workerVars, Job!fates
<1>4. \A w \in Job!Worker : Bare(w)' = Bare(w) /\ Job!HasJob(w)' = Job!HasJob(w)
  BY <1>3 DEF Bare, Job!HasJob, Job!DispatchDead, Job!workerVars
<1>5. IdleBare' /\ Fresh' /\ GoneBare'
  BY <1>1, <1>4, JobFrontOf, JobTypes DEF JobInv, IdleBare, Fresh, GoneBare, Job!DispatchDead, Job!workerVars, Job!counters
<1>6. Job!JobsTracked'
  BY <1>1, <1>3, <1>4, JobFrontOf DEF JobInv, Job!JobsTracked, Job!DispatchDead, Job!workerVars
<1>7. Job!EndsAnnounced'
  BY <1>3 DEF JobInv, Job!EndsAnnounced, Job!DispatchDead, Job!workerVars
<1>8. Job!JobsKept'
  BY DEF JobInv, Job!JobsKept, Job!DispatchDead, Job!fates, Job!counters, Job!Holds
<1>9. QED BY <1>2, <1>3, <1>5, <1>6, <1>7, <1>8 DEF JobInv

LEMMA JobDispatchJobTo ==
    ASSUME JobInv, Job!DispatchJob, NEW w, w = Job!Last(jq_idle), NEW job, job = Head(jq_pending)
    PROVE  JobInv'
<1>1. jq_idle \in Seq(Job!Worker) /\ jq_idle # <<>> /\ jq_idle' = Job!Front(jq_idle)
  BY DEF JobInv, Job!TypeOK, Job!DispatchJob, Job!Popped
<1>2. w \in Job!Worker /\ w = jq_idle[Len(jq_idle)] /\ Len(jq_idle) \in DOMAIN jq_idle /\ job \in Job!Job /\ job # Job!NoJob
  BY <1>1, JobFrontOf, JobIds DEF JobInv, Job!TypeOK, Job!DispatchJob
<1>3. Bare(w) /\ w < jq_nextWorker /\ jq_worker[w] # "gone"
  BY <1>2 DEF JobInv, IdleBare, Job!DispatchJob
<1>4. /\ jq_inFlight' = [jq_inFlight EXCEPT ![w] = job] /\ jq_wbox' = [jq_wbox EXCEPT ![w] = Append(jq_wbox[w], job)]
      /\ jq_pending' = Tail(jq_pending) /\ jq_pending # <<>>
      /\ UNCHANGED <<jq_all, jq_batch, jq_dispatching, jq_mailbox, jq_worker, jq_working, jq_timers, jq_dead, jq_refused, jq_done, jq_lost,
                     jq_nextJob, jq_nextWorker, jq_commands>>
  BY DEF Job!DispatchJob, Job!fates, Job!counters
<1>5. Job!TypeOK'
  <2>1. jq_pending' \in Seq(Job!Job) /\ jq_idle' \in Seq(Job!Worker)
    BY <1>1, <1>4, JobFrontOf DEF JobInv, Job!TypeOK
  <2>2. jq_inFlight' \in [Job!Worker -> Job!Job \cup {Job!NoJob}]
    BY <1>2, <1>4 DEF JobInv, Job!TypeOK
  <2>3. Append(jq_wbox[w], job) \in Seq(Job!Job \cup {Job!StopMessage})
    BY <1>2 DEF JobInv, Job!TypeOK
  <2>4. jq_wbox' \in [Job!Worker -> Seq(Job!Job \cup {Job!StopMessage})]
    BY <1>2, <1>4, <2>3 DEF JobInv, Job!TypeOK
  <2>5. QED BY <1>4, <2>1, <2>2, <2>4 DEF JobInv, Job!TypeOK
<1>6. \A v \in Job!Worker : v # w =>
          /\ jq_inFlight'[v] = jq_inFlight[v] /\ jq_wbox'[v] = jq_wbox[v] /\ jq_working'[v] = jq_working[v]
          /\ Bare(v)' = Bare(v) /\ Job!HasJob(v)' = Job!HasJob(v)
  BY <1>4 DEF Bare, Job!HasJob, Job!Expected, JobInv, Job!TypeOK
<1>7. jq_inFlight'[w] = job /\ jq_working'[w] = Job!NoJob /\ jq_wbox'[w] = Append(jq_wbox[w], job)
  BY <1>2, <1>3, <1>4 DEF Bare, JobInv, Job!TypeOK
<1>8. ~Job!Expected("finished", w)' /\ \A v \in Job!Worker : Job!Expected("finished", v)' = Job!Expected("finished", v)
  BY <1>3, <1>4 DEF Bare, Job!Expected
<1>9. \A i \in DOMAIN jq_wbox'[w] : Job!IsJob(jq_wbox'[w][i]) => i = Len(jq_wbox[w]) + 1 /\ jq_wbox'[w][i] = job
  <2>1. jq_wbox[w] \in Seq(Job!Job \cup {Job!NoJob})
    BY <1>2, JobTypes DEF JobInv
  <2>2. \A i \in DOMAIN jq_wbox'[w] : i = Len(jq_wbox[w]) + 1 \/ (i \in DOMAIN jq_wbox[w] /\ jq_wbox'[w][i] = jq_wbox[w][i])
    BY <1>2, <1>7, <2>1
  <2>3. jq_wbox'[w][Len(jq_wbox[w]) + 1] = job
    BY <1>2, <1>7, <2>1
  <2>4. QED BY <1>3, <2>2, <2>3 DEF Bare, Job!HasJob
<1>10. /\ DOMAIN jq_idle' = 1 .. Len(jq_idle) - 1 /\ DOMAIN jq_idle = 1 .. Len(jq_idle) /\ Len(jq_idle) \in Nat
       /\ \A i \in DOMAIN jq_idle' : jq_idle'[i] = jq_idle[i] /\ i \in DOMAIN jq_idle /\ jq_idle[i] # w /\ jq_idle[i] \in Job!Worker
  <2>1. \A i \in DOMAIN jq_idle' : jq_idle'[i] = jq_idle[i] /\ i \in DOMAIN jq_idle /\ i # Len(jq_idle)
    BY <1>1, JobFrontOf
  <2>2. \A i \in DOMAIN jq_idle : jq_idle[i] = w => i = Len(jq_idle)
    BY <1>2 DEF JobInv, Job!JobsTracked
  <2>3. QED BY <1>1, <2>1, <2>2, JobFrontOf, JobTypes DEF JobInv
<1>11. Job!JobsTracked'
  <2>1. ASSUME NEW v \in Job!Worker
        PROVE  /\ jq_working'[v] # Job!NoJob => jq_inFlight'[v] = jq_working'[v] /\ ~Job!HasJob(v)'
               /\ Job!Expected("finished", v)' => jq_inFlight'[v] # Job!NoJob /\ jq_working'[v] = Job!NoJob /\ ~Job!HasJob(v)'
               /\ \A i \in DOMAIN jq_wbox'[v] : Job!IsJob(jq_wbox'[v][i]) =>
                      /\ jq_wbox'[v][i] = jq_inFlight'[v]
                      /\ \A j \in DOMAIN jq_wbox'[v] : Job!IsJob(jq_wbox'[v][j]) => j = i
    <3>1. CASE v = w
      BY <1>7, <1>8, <1>9, <3>1
    <3>2. CASE v # w
      BY <1>6, <1>8, <3>2 DEF JobInv, Job!JobsTracked
    <3>3. QED BY <3>1, <3>2
  <2>2. \A i, j \in DOMAIN jq_idle' : jq_inFlight'[jq_idle'[i]] = Job!NoJob /\ (jq_idle'[j] = jq_idle'[i] => j = i)
    BY <1>6, <1>10 DEF JobInv, Job!JobsTracked
  <2>3. QED BY <2>1, <2>2 DEF Job!JobsTracked
<1>12. IdleBare'
  BY <1>4, <1>6, <1>10 DEF JobInv, IdleBare
<1>13. Fresh' /\ GoneBare'
  <2>1. \A v \in Job!Worker : v >= jq_nextWorker \/ jq_worker[v] = "gone" => v # w
    BY <1>2, <1>3, JobTypes DEF JobInv
  <2>2. Fresh'
    BY <1>4, <1>6, <2>1 DEF JobInv, Fresh
  <2>3. GoneBare'
    BY <1>4, <1>6, <2>1 DEF JobInv, GoneBare
  <2>4. QED BY <2>2, <2>3
<1>14. MailOrder' /\ Job!EndsAnnounced'
  BY <1>4, JobMailQuiet DEF JobInv, Job!EndsAnnounced
<1>15. Shapes'
  <2>1. \A i \in DOMAIN jq_mailbox : jq_mailbox[i].type = "finished" => jq_mailbox[i].worker \in Job!Worker /\ jq_mailbox[i].worker # w
    BY <1>3 DEF Bare, Job!Expected, JobInv, MailOrder
  <2>2. QED BY <1>4, <1>6, <2>1 DEF JobInv, Shapes
<1>16. Job!JobsKept'
  <2> SUFFICES ASSUME NEW j \in 1 .. jq_nextJob - 1, Place(j) PROVE Place(j)'
    BY <1>4, JobKeptPlaces DEF JobInv
  <2>5. Job!Holds(Tail(jq_pending), j) => Job!Holds(jq_pending, j)'
    BY <1>4 DEF Job!Holds
  <2>1. CASE Job!Holds(jq_pending, j)
    <3>1. job.id = j \/ Job!Holds(jq_pending, j)'
      BY <1>4, <2>1, <2>5, JobHoldsTail DEF JobInv, Job!TypeOK
    <3>2. QED BY <1>2, <1>7, <3>1 DEF Place, Flies
  <2>2. Flies(j) => Flies(j)'
    BY <1>3, <1>6, JobIds DEF Flies, Bare, JobInv
  <2>3. (Settled(j) => Settled(j)') /\ (Job!Holds(jq_batch, j) => Job!Holds(jq_batch, j)') /\ (Timed(j) => Timed(j)') /\ (Mailed(j) => Mailed(j)')
    BY <1>4 DEF Settled, Timed, Mailed, Job!Holds
  <2>4. QED BY <2>1, <2>2, <2>3 DEF Place
<1>17. QED BY <1>5, <1>11, <1>12, <1>13, <1>14, <1>15, <1>16 DEF JobInv

LEMMA JobDispatchJobOK == ASSUME JobInv, Job!DispatchJob PROVE JobInv'
  BY JobDispatchJobTo

LEMMA JobDispatchEndsOK == ASSUME JobInv, Job!DispatchEnds PROVE JobInv'
<1>1. Job!TypeOK'
  BY DEF JobInv, Job!TypeOK, Job!DispatchEnds, Job!workerVars, Job!fates, Job!counters
<1>2. Tracked' /\ Job!EndsAnnounced' /\ MailOrder' /\ Shapes'
  BY JobMailQuiet, JobWorkersQuiet, JobNoticesQuiet DEF JobInv, Tracked, Job!DispatchEnds, Job!workerVars, Job!counters, Job!fates
<1>3. Job!JobsKept'
  BY DEF JobInv, Job!JobsKept, Job!DispatchEnds, Job!fates, Job!counters, Job!Holds
<1>4. QED BY <1>1, <1>2, <1>3 DEF JobInv, Tracked

(* Workers are taken off the list of the idle, or put on it with nothing to do. *)
LEMMA JobIdleChanges ==
    ASSUME Job!TypeOK, Tracked, UNCHANGED <<jq_wbox, jq_working>>,
           \A v \in Job!Worker : Job!Expected("finished", v)' => Job!Expected("finished", v),
           \A v \in Job!Worker :
               \/ jq_inFlight'[v] = jq_inFlight[v]
               \/ jq_inFlight'[v] = Job!NoJob /\ jq_working[v] = Job!NoJob /\ ~Job!HasJob(v) /\ ~Job!Expected("finished", v)',
           jq_idle' \in Seq(Job!Worker), \A i, j \in DOMAIN jq_idle' : jq_idle'[i] = jq_idle'[j] => i = j,
           \A v \in Job!Worker : Job!Has(jq_idle', v) => Job!Has(jq_idle, v) \/ (Bare(v)' /\ v < jq_nextWorker'),
           jq_nextWorker' \in Nat, jq_nextWorker' >= jq_nextWorker,
           \A v \in Job!Worker : v >= jq_nextWorker' => jq_worker'[v] = jq_worker[v],
           \A v \in Job!Worker : jq_worker'[v] = "gone" => jq_worker[v] = "gone",
           \A v \in jq_all' : v \in jq_all \/ v < jq_nextWorker'
    PROVE  Tracked'
<1>1. \A v \in Job!Worker : (Bare(v) => Bare(v)') /\ Job!HasJob(v)' = Job!HasJob(v)
  BY DEF Bare, Job!HasJob
<1>2. IdleBare'
  <2>1. \A i \in DOMAIN jq_idle' : jq_idle'[i] \in Job!Worker /\ Job!Has(jq_idle', jq_idle'[i])
    BY DEF Job!Has
  <2>2. \A v \in Job!Worker : Job!Has(jq_idle, v) => Bare(v) /\ v < jq_nextWorker
    BY DEF Job!Has, Tracked, IdleBare
  <2>3. \A v \in Job!Worker : Job!Has(jq_idle', v) => Bare(v)' /\ v < jq_nextWorker'
    BY <1>1, <2>2, JobTypes
  <2>4. \A i \in DOMAIN jq_idle' : jq_inFlight'[jq_idle'[i]] = Job!NoJob /\ jq_working'[jq_idle'[i]] = Job!NoJob /\ jq_idle'[i] < jq_nextWorker'
    BY <2>1, <2>3 DEF Bare
  <2>5. \A v \in Job!Worker : Job!Has(jq_idle', v) => ~Job!HasJob(v)' /\ ~Job!Expected("finished", v)'
    BY <2>3 DEF Bare
  <2>6. QED BY <2>1, <2>3 DEF IdleBare, Bare
<1>3. Fresh'
  <2>1. \A v \in Job!Worker : v >= jq_nextWorker' => v >= jq_nextWorker /\ ~(v < jq_nextWorker')
    BY JobTypes
  <2>2. QED BY <1>1, <2>1 DEF Tracked, Fresh
<1>4. GoneBare'
  BY <1>1 DEF Tracked, GoneBare
<1>5. Job!JobsTracked'
  <2>1. \A i \in DOMAIN jq_idle' : jq_inFlight'[jq_idle'[i]] = Job!NoJob
    BY <1>2 DEF IdleBare, Bare
  <2>2. ASSUME NEW v \in Job!Worker
        PROVE  /\ jq_working'[v] # Job!NoJob => jq_inFlight'[v] = jq_working'[v] /\ ~Job!HasJob(v)'
               /\ Job!Expected("finished", v)' => jq_inFlight'[v] # Job!NoJob /\ jq_working'[v] = Job!NoJob /\ ~Job!HasJob(v)'
               /\ \A i \in DOMAIN jq_wbox'[v] : Job!IsJob(jq_wbox'[v][i]) =>
                      /\ jq_wbox'[v][i] = jq_inFlight'[v]
                      /\ \A j \in DOMAIN jq_wbox'[v] : Job!IsJob(jq_wbox'[v][j]) => j = i
    <3>1. CASE jq_inFlight'[v] = jq_inFlight[v]
      BY <1>1, <3>1 DEF Tracked, Job!JobsTracked
    <3>2. CASE jq_inFlight'[v] = Job!NoJob /\ jq_working[v] = Job!NoJob /\ ~Job!HasJob(v) /\ ~Job!Expected("finished", v)'
      BY <1>1, <3>2 DEF Job!HasJob
    <3>3. QED BY <3>1, <3>2
  <2>3. QED BY <2>1, <2>2 DEF Job!JobsTracked
<1>6. QED BY <1>2, <1>3, <1>4, <1>5 DEF Tracked

LEMMA JobRetryKeeps ==
    ASSUME Job!TypeOK, NEW job \in Job!Job \cup {Job!NoJob}, Job!SendToRetry(job)
    PROVE  /\ jq_timers' \subseteq Job!Job /\ jq_dead' \subseteq Job!JobId
           /\ \A j : Timed(j) => Timed(j)'
           /\ jq_dead \subseteq jq_dead'
           /\ \A j : job.id = j /\ j # 0 => Timed(j)' \/ j \in jq_dead'
<1>1. CASE job = Job!NoJob
  BY <1>1, JobIds DEF Job!SendToRetry, Timed, Job!TypeOK
<1>2. CASE job # Job!NoJob /\ job.retry + 1 <= Job!MaxRetries
  <2> DEFINE again == [job EXCEPT !.retry = @ + 1]
  <2>1. again \in Job!Job /\ again.id = job.id
    BY <1>2, JobIds
  <2>2. jq_timers' = jq_timers \cup {again} /\ ~(job.retry + 1 > Job!MaxRetries)
    BY <1>2, JobIds DEF Job!SendToRetry, Job!MaxRetries
  <2> HIDE DEF again
  <2>3. jq_dead' = jq_dead
    BY <2>2 DEF Job!SendToRetry
  <2>4. QED BY <2>1, <2>2, <2>3 DEF Timed, Job!TypeOK
<1>3. CASE job # Job!NoJob /\ ~(job.retry + 1 <= Job!MaxRetries)
  <2>1. job.retry + 1 > Job!MaxRetries
    BY <1>3, JobIds DEF Job!MaxRetries
  <2>2. jq_timers' = jq_timers /\ jq_dead' = jq_dead \cup {job.id}
    BY <1>3, <2>1 DEF Job!SendToRetry
  <2>3. QED BY <1>3, <2>2, JobIds DEF Timed, Job!TypeOK
<1>4. QED BY <1>1, <1>2, <1>3

LEMMA JobHandleEnqueueOK == ASSUME JobInv, Job!HandleEnqueue PROVE JobInv'
<1>1. jq_mailbox # <<>> /\ jq_mailbox' = Tail(jq_mailbox) /\ Head(jq_mailbox).type = "enqueue"
      /\ jq_batch = <<>> /\ jq_batch' = Head(jq_mailbox).jobs
      /\ UNCHANGED <<jq_pending, jq_inFlight, jq_idle, jq_all, jq_dispatching, jq_worker, jq_wbox, jq_working, jq_timers, jq_dead, jq_refused, jq_done, jq_lost,
                     jq_nextJob, jq_nextWorker, jq_commands>>
  BY DEF Job!HandleEnqueue, Job!Takes, Job!workerVars, Job!fates, Job!counters
<1>2. Job!TypeOK'
  <2>1. jq_mailbox' \in Seq(Job!Message) /\ jq_batch' \in Seq(Job!Job)
    BY <1>1, JobTakes, JobTypes DEF JobInv
  <2>2. QED BY <1>1, <2>1 DEF JobInv, Job!TypeOK
<1>3. Tracked' /\ Job!EndsAnnounced' /\ MailOrder' /\ Shapes'
  BY <1>1, JobMailTaken, JobShapesTaken, JobWorkersQuiet, JobNoticesQuiet DEF JobInv, Tracked
<1>4. Job!JobsKept'
  <2> SUFFICES ASSUME NEW j \in 1 .. jq_nextJob - 1, Place(j) PROVE Place(j)'
    BY <1>1, JobKeptPlaces DEF JobInv
  <2>1. ~Job!Holds(jq_batch, j)
    BY <1>1 DEF Job!Holds
  <2>2. Job!Holds(Head(jq_mailbox).jobs, j) => Job!Holds(jq_batch, j)'
    BY <1>1 DEF Job!Holds
  <2>3. Mailed(j) => Mailed(j)' \/ Job!Holds(jq_batch, j)'
    BY <1>1, <2>2, JobMailTaken DEF JobInv
  <2>4. (Settled(j) => Settled(j)') /\ (Job!Holds(jq_pending, j) => Job!Holds(jq_pending, j)') /\ (Flies(j) => Flies(j)') /\ (Timed(j) => Timed(j)')
    BY <1>1 DEF Settled, Timed, Flies, Job!Holds
  <2>5. QED BY <2>1, <2>3, <2>4 DEF Place
<1>5. QED BY <1>2, <1>3, <1>4 DEF JobInv, Tracked

LEMMA JobIgnoreRetryOK == ASSUME JobInv, Job!IgnoreRetry PROVE JobInv'
<1>1. jq_mailbox # <<>> /\ jq_mailbox' = Tail(jq_mailbox) /\ Head(jq_mailbox).type = "retry"
      /\ jq_lost' = jq_lost \cup {Head(jq_mailbox).jobs[1].id}
      /\ UNCHANGED <<jq_pending, jq_batch, jq_inFlight, jq_idle, jq_all, jq_dispatching, jq_worker, jq_wbox, jq_working, jq_timers, jq_dead, jq_refused, jq_done,
                     jq_nextJob, jq_nextWorker, jq_commands>>
  BY DEF Job!IgnoreRetry, Job!Takes, Job!queueVars, Job!workerVars, Job!fates, Job!counters
<1>2. Head(jq_mailbox).jobs \in Seq(Job!Job) /\ Len(Head(jq_mailbox).jobs) = 1
  BY <1>1, JobTakes, JobTypes DEF JobInv, Shapes
<1>3. DOMAIN Head(jq_mailbox).jobs = {1} /\ Head(jq_mailbox).jobs[1] \in Job!Job
  BY <1>2
<1>4. Job!TypeOK'
  <2>1. jq_mailbox' \in Seq(Job!Message)
    BY <1>1, JobTakes DEF JobInv
  <2>2. jq_lost' \subseteq Job!JobId
    BY <1>1, <1>3, JobIds DEF JobInv, Job!TypeOK
  <2>3. QED BY <1>1, <2>1, <2>2 DEF JobInv, Job!TypeOK
<1>5. Tracked' /\ Job!EndsAnnounced' /\ MailOrder' /\ Shapes'
  BY <1>1, JobMailTaken, JobShapesTaken, JobWorkersQuiet, JobNoticesQuiet DEF JobInv, Tracked
<1>6. Job!JobsKept'
  <2> SUFFICES ASSUME NEW j \in 1 .. jq_nextJob - 1, Place(j) PROVE Place(j)'
    BY <1>1, JobKeptPlaces DEF JobInv
  <2>2. Job!Holds(Head(jq_mailbox).jobs, j) => Settled(j)'
    BY <1>1, <1>3 DEF Job!Holds, Settled
  <2>3. Mailed(j) => Mailed(j)' \/ Settled(j)'
    BY <1>1, <2>2, JobMailTaken DEF JobInv
  <2>4. (Settled(j) => Settled(j)') /\ (Job!Holds(jq_pending, j) => Job!Holds(jq_pending, j)') /\ (Job!Holds(jq_batch, j) => Job!Holds(jq_batch, j)')
        /\ (Flies(j) => Flies(j)') /\ (Timed(j) => Timed(j)')
    BY <1>1 DEF Settled, Timed, Flies, Job!Holds
  <2>5. QED BY <2>3, <2>4 DEF Place
<1>7. QED BY <1>4, <1>5, <1>6 DEF JobInv, Tracked

LEMMA JobHandleRemoveWorkerOK == ASSUME JobInv, Job!HandleRemoveWorker PROVE JobInv'
<1>1. jq_mailbox # <<>> /\ jq_mailbox' = Tail(jq_mailbox) /\ Head(jq_mailbox).type = "remove"
      /\ UNCHANGED <<jq_pending, jq_batch, jq_inFlight, jq_dispatching, jq_worker, jq_wbox, jq_working, jq_timers, jq_dead, jq_refused, jq_done, jq_lost,
                     jq_nextJob, jq_nextWorker, jq_commands>>
  BY DEF Job!HandleRemoveWorker, Job!Takes, Job!workerVars, Job!fates, Job!counters
<1>2. /\ jq_idle' \in Seq(Job!Worker) /\ jq_all' \subseteq jq_all
      /\ \A i \in DOMAIN jq_idle' : i \in DOMAIN jq_idle /\ jq_idle'[i] = jq_idle[i]
  <2>1. CASE jq_idle = <<>>
    BY <2>1 DEF Job!HandleRemoveWorker, JobInv, Job!TypeOK
  <2>2. CASE jq_idle # <<>>
    <3>1. jq_idle' = Job!Front(jq_idle) /\ jq_all' \subseteq jq_all /\ jq_idle \in Seq(Job!Worker)
      BY <2>2 DEF Job!HandleRemoveWorker, JobInv, Job!TypeOK
    <3>2. QED BY <2>2, <3>1, JobFrontOf
  <2>3. QED BY <2>1, <2>2
<1>3. Job!TypeOK'
  <2>1. jq_mailbox' \in Seq(Job!Message)
    BY <1>1, JobTakes DEF JobInv
  <2>2. QED BY <1>1, <1>2, <2>1 DEF JobInv, Job!TypeOK
<1>4. MailOrder' /\ Shapes' /\ \A type, v : Job!Expected(type, v)' => Job!Expected(type, v)
  BY <1>1, JobMailTaken, JobShapesTaken DEF JobInv
<1>5. Tracked'
  <2>1. \A i, j \in DOMAIN jq_idle' : jq_idle'[i] = jq_idle'[j] => i = j
    BY <1>2 DEF JobInv, Job!JobsTracked
  <2>2. \A v \in Job!Worker : Job!Has(jq_idle', v) => Job!Has(jq_idle, v)
    BY <1>2 DEF Job!Has
  <2>3. QED BY <1>1, <1>2, <1>4, <2>1, <2>2, JobIdleChanges, JobTypes DEF JobInv, Tracked
<1>6. Job!EndsAnnounced'
  <2>1. \A v : Job!Expected("down", v) => Job!Expected("down", v)'
    BY <1>1, JobMailTaken DEF JobInv
  <2>2. QED BY <1>1, <1>2, <2>1 DEF JobInv, Job!EndsAnnounced
<1>7. Job!JobsKept'
  <2> SUFFICES ASSUME NEW j \in 1 .. jq_nextJob - 1, Place(j) PROVE Place(j)'
    BY <1>1, JobKeptPlaces DEF JobInv
  <2>1. Head(jq_mailbox).jobs = <<>>
    BY <1>1, JobTakes DEF JobInv, Shapes
  <2>2. Mailed(j) => Mailed(j)'
    BY <1>1, <2>1, JobMailTaken DEF JobInv, Job!Holds
  <2>3. (Settled(j) => Settled(j)') /\ (Job!Holds(jq_pending, j) => Job!Holds(jq_pending, j)') /\ (Job!Holds(jq_batch, j) => Job!Holds(jq_batch, j)')
        /\ (Flies(j) => Flies(j)') /\ (Timed(j) => Timed(j)')
    BY <1>1 DEF Settled, Timed, Flies, Job!Holds
  <2>4. QED BY <2>2, <2>3 DEF Place
<1>8. QED BY <1>3, <1>4, <1>5, <1>6, <1>7 DEF JobInv, Tracked

(* A new worker: the others of idlers and known were so before. *)
LEMMA JobSpawnTypes ==
    ASSUME Job!TypeOK, Fresh, NEW idlers \in Seq(Job!Worker), NEW known \in SUBSET Job!Worker,
           Job!SpawnWorker(idlers, known)
    PROVE  /\ jq_idle' \in Seq(Job!Worker) /\ jq_all' \subseteq Job!Worker /\ jq_dispatching' \in BOOLEAN
           /\ jq_nextWorker' \in 2 .. MaxWorkers + 1 /\ jq_nextWorker' \in Nat /\ jq_nextWorker' >= jq_nextWorker
           /\ jq_worker' \in [Job!Worker -> {"none", "alive", "gone", "panicked"}]
           /\ \A v \in Job!Worker : jq_worker'[v] = jq_worker[v] \/ (v < jq_nextWorker' /\ jq_worker'[v] = "alive" /\ jq_worker[v] = "none")
           /\ \A v \in jq_all' : v \in known \/ (v < jq_nextWorker' /\ jq_worker'[v] = "alive")
<1>1. CASE UNCHANGED <<jq_nextWorker, jq_worker, jq_dispatching>> /\ jq_idle' = idlers /\ jq_all' = known
  BY <1>1, JobTypes DEF Job!TypeOK
<1>2. CASE /\ jq_nextWorker \in Job!Worker /\ jq_nextWorker' = jq_nextWorker + 1
           /\ jq_worker' = [jq_worker EXCEPT ![jq_nextWorker] = "alive"]
           /\ jq_all' = known \cup {jq_nextWorker} /\ jq_idle' = Append(idlers, jq_nextWorker)
           /\ jq_dispatching' = TRUE
  <2>1. jq_nextWorker' \in 2 .. MaxWorkers + 1 /\ jq_nextWorker' \in Nat /\ jq_nextWorker' >= jq_nextWorker /\ jq_nextWorker < jq_nextWorker'
    BY <1>2, JobAssumption DEF Job!TypeOK, Job!Worker
  <2>2. jq_worker' \in [Job!Worker -> {"none", "alive", "gone", "panicked"}] /\ jq_worker'[jq_nextWorker] = "alive"
        /\ \A v \in Job!Worker : v # jq_nextWorker => jq_worker'[v] = jq_worker[v]
    BY <1>2 DEF Job!TypeOK
  <2>3. jq_worker[jq_nextWorker] = "none"
    BY <1>2, JobTypes DEF Fresh
  <2>4. jq_idle' \in Seq(Job!Worker)
    BY <1>2
  <2>5. QED BY <1>2, <2>1, <2>2, <2>3, <2>4
<1>3. QED BY <1>1, <1>2 DEF Job!SpawnWorker

LEMMA JobSpawnIdle ==
    ASSUME Job!TypeOK, Fresh, NEW idlers \in Seq(Job!Worker), NEW known \in SUBSET Job!Worker,
           Job!SpawnWorker(idlers, known), UNCHANGED <<jq_wbox, jq_working>>,
           \A i, j \in DOMAIN idlers : idlers[i] = idlers[j] => i = j,
           \A i \in DOMAIN idlers : idlers[i] < jq_nextWorker,
           \A v \in Job!Worker : Job!Expected("finished", v)' => Job!Expected("finished", v),
           \A v \in Job!Worker : jq_inFlight[v] = Job!NoJob => jq_inFlight'[v] = Job!NoJob
    PROVE  /\ \A i, j \in DOMAIN jq_idle' : jq_idle'[i] = jq_idle'[j] => i = j
           /\ \A v \in Job!Worker : Job!Has(jq_idle', v) => Job!Has(idlers, v) \/ (Bare(v)' /\ v < jq_nextWorker')
<1>1. CASE jq_idle' = idlers
  BY <1>1
<1>2. CASE jq_nextWorker \in Job!Worker /\ jq_nextWorker' = jq_nextWorker + 1 /\ jq_idle' = Append(idlers, jq_nextWorker)
  <2>1. /\ \A i \in DOMAIN jq_idle' : i = Len(idlers) + 1 \/ (i \in DOMAIN idlers /\ jq_idle'[i] = idlers[i])
        /\ jq_idle'[Len(idlers) + 1] = jq_nextWorker
    BY <1>2
  <2>2. \A v : Job!Has(jq_idle', v) => Job!Has(idlers, v) \/ v = jq_nextWorker
    BY <2>1 DEF Job!Has
  <2>3. Bare(jq_nextWorker) /\ jq_nextWorker < jq_nextWorker' /\ jq_wbox[jq_nextWorker] = <<>>
    BY <1>2, JobTypes DEF Fresh
  <2>4. \A v \in Job!Worker : v = jq_nextWorker => Bare(v)'
    BY <1>2, <2>3 DEF Bare, Job!HasJob
  <2>5. \A i \in DOMAIN idlers : idlers[i] # jq_nextWorker
    BY <1>2, JobTypes
  <2>6. QED BY <2>1, <2>2, <2>3, <2>4, <2>5
<1>3. QED BY <1>1, <1>2 DEF Job!SpawnWorker

LEMMA JobHandleAddWorkerOK == ASSUME JobInv, Job!HandleAddWorker PROVE JobInv'
<1>1. jq_mailbox # <<>> /\ jq_mailbox' = Tail(jq_mailbox) /\ Head(jq_mailbox).type = "add" /\ Job!SpawnWorker(jq_idle, jq_all)
      /\ UNCHANGED <<jq_pending, jq_batch, jq_inFlight, jq_wbox, jq_working, jq_timers, jq_dead, jq_refused, jq_done, jq_lost, jq_nextJob, jq_commands>>
  BY DEF Job!HandleAddWorker, Job!Takes, Job!fates
<1>2. /\ jq_idle \in Seq(Job!Worker) /\ jq_all \in SUBSET Job!Worker
      /\ \A i, j \in DOMAIN jq_idle : jq_idle[i] = jq_idle[j] => i = j
      /\ \A i \in DOMAIN jq_idle : jq_idle[i] < jq_nextWorker
  BY DEF JobInv, Job!TypeOK, Job!JobsTracked, IdleBare
<1>3. Job!TypeOK'
  <2>1. jq_mailbox' \in Seq(Job!Message)
    BY <1>1, JobTakes DEF JobInv
  <2>2. QED BY <1>1, <1>2, <2>1, JobSpawnTypes DEF JobInv, Job!TypeOK
<1>4. \A v \in Job!Worker : jq_worker[v] = "gone" => jq_worker'[v] = "gone"
  BY <1>1, <1>2, JobSpawnTypes DEF JobInv
<1>5. MailOrder' /\ Shapes' /\ \A type, v : Job!Expected(type, v)' => Job!Expected(type, v)
  BY <1>1, <1>4, JobMailTaken, JobShapesTaken DEF JobInv
<1>6. Tracked'
  <2>1. /\ \A i, j \in DOMAIN jq_idle' : jq_idle'[i] = jq_idle'[j] => i = j
        /\ \A v \in Job!Worker : Job!Has(jq_idle', v) => Job!Has(jq_idle, v) \/ (Bare(v)' /\ v < jq_nextWorker')
    BY <1>1, <1>2, <1>5, JobSpawnIdle DEF JobInv
  <2>2. /\ jq_idle' \in Seq(Job!Worker) /\ jq_nextWorker' \in Nat /\ jq_nextWorker' >= jq_nextWorker
        /\ \A v \in Job!Worker : v >= jq_nextWorker' => jq_worker'[v] = jq_worker[v]
        /\ \A v \in Job!Worker : jq_worker'[v] = "gone" => jq_worker[v] = "gone"
        /\ \A v \in jq_all' : v \in jq_all \/ v < jq_nextWorker'
    <3>1. /\ jq_idle' \in Seq(Job!Worker) /\ jq_nextWorker' \in Nat /\ jq_nextWorker' >= jq_nextWorker
          /\ \A v \in Job!Worker : jq_worker'[v] = jq_worker[v] \/ (v < jq_nextWorker' /\ jq_worker'[v] = "alive" /\ jq_worker[v] = "none")
          /\ \A v \in jq_all' : v \in jq_all \/ v < jq_nextWorker'
      BY <1>1, <1>2, JobSpawnTypes DEF JobInv
    <3>2. Job!Worker \subseteq Nat
      BY JobTypes DEF JobInv
    <3>3. \A v \in Job!Worker : v >= jq_nextWorker' => jq_worker'[v] = jq_worker[v]
      BY <3>1, <3>2
    <3>4. QED BY <3>1, <3>3
  <2>3. QED BY <1>1, <1>5, <2>1, <2>2, JobIdleChanges DEF JobInv, Tracked
<1>7. Job!EndsAnnounced'
  <2>1. \A v : Job!Expected("down", v) => Job!Expected("down", v)'
    BY <1>1, JobMailTaken DEF JobInv
  <2>2. \A v \in jq_all' : jq_worker'[v] = "gone" => v \in jq_all /\ jq_worker[v] = "gone"
    BY <1>1, <1>2, JobSpawnTypes DEF JobInv
  <2>3. QED BY <2>1, <2>2 DEF JobInv, Job!EndsAnnounced
<1>8. Job!JobsKept'
  <2> SUFFICES ASSUME NEW j \in 1 .. jq_nextJob - 1, Place(j) PROVE Place(j)'
    BY <1>1, JobKeptPlaces DEF JobInv
  <2>1. Head(jq_mailbox).jobs = <<>>
    BY <1>1, JobTakes DEF JobInv, Shapes
  <2>2. Mailed(j) => Mailed(j)'
    BY <1>1, <2>1, JobMailTaken DEF JobInv, Job!Holds
  <2>3. (Settled(j) => Settled(j)') /\ (Job!Holds(jq_pending, j) => Job!Holds(jq_pending, j)') /\ (Job!Holds(jq_batch, j) => Job!Holds(jq_batch, j)')
        /\ (Flies(j) => Flies(j)') /\ (Timed(j) => Timed(j)')
    BY <1>1 DEF Settled, Timed, Flies, Job!Holds
  <2>4. QED BY <2>2, <2>3 DEF Place
<1>9. QED BY <1>3, <1>5, <1>6, <1>7, <1>8 DEF JobInv, Tracked

LEMMA JobHandleJobFinishedBy ==
    ASSUME JobInv, Job!HandleJobFinished, NEW w, w = Head(jq_mailbox).worker
    PROVE  JobInv'
<1> DEFINE job == IF Head(jq_mailbox).ok THEN Job!NoJob ELSE jq_inFlight[w]
<1>1. jq_mailbox # <<>> /\ jq_mailbox' = Tail(jq_mailbox) /\ Head(jq_mailbox).type = "finished" /\ Job!SendToRetry(job)
      /\ jq_inFlight' = [jq_inFlight EXCEPT ![w] = Job!NoJob] /\ jq_idle' = Append(jq_idle, w) /\ jq_dispatching' = TRUE
      /\ UNCHANGED <<jq_pending, jq_batch, jq_all, jq_worker, jq_wbox, jq_working, jq_refused, jq_done, jq_lost, jq_nextJob, jq_nextWorker, jq_commands>>
  BY DEF Job!HandleJobFinished, Job!Takes, Job!workerVars, Job!counters
<1>2. w \in Job!Worker /\ jq_inFlight[w] # Job!NoJob /\ jq_working[w] = Job!NoJob /\ ~Job!HasJob(w) /\ ~Job!Expected("finished", w)'
      /\ Job!Expected("finished", w)
  <2>1. w \in Job!Worker /\ Job!Expected("finished", w)
    BY <1>1, JobTakes DEF JobInv, MailOrder, Job!Expected
  <2>2. QED BY <1>1, <2>1, JobMailTaken DEF JobInv, Job!JobsTracked
<1>3. w < jq_nextWorker /\ ~Job!Has(jq_idle, w)
  <2>1. w < jq_nextWorker
    BY <1>2, JobTypes DEF JobInv, Fresh, Bare
  <2>2. ~Job!Has(jq_idle, w)
    BY <1>2 DEF JobInv, IdleBare, Bare, Job!Has
  <2>3. QED BY <2>1, <2>2
<1>4. jq_inFlight' \in [Job!Worker -> Job!Job \cup {Job!NoJob}] /\ jq_inFlight'[w] = Job!NoJob
      /\ \A v \in Job!Worker : v # w => jq_inFlight'[v] = jq_inFlight[v]
  BY <1>1, <1>2 DEF JobInv, Job!TypeOK
<1>5. job \in Job!Job \cup {Job!NoJob}
  BY <1>2, JobTypes DEF JobInv
<1>6. /\ jq_timers' \subseteq Job!Job /\ jq_dead' \subseteq Job!JobId
      /\ \A j : Timed(j) => Timed(j)'
      /\ jq_dead \subseteq jq_dead'
      /\ \A j : job.id = j /\ j # 0 => Timed(j)' \/ j \in jq_dead'
  BY <1>1, <1>5, JobRetryKeeps DEF JobInv
<1>7. /\ jq_idle' \in Seq(Job!Worker) /\ jq_idle'[Len(jq_idle) + 1] = w
      /\ \A i \in DOMAIN jq_idle' : i = Len(jq_idle) + 1 \/ (i \in DOMAIN jq_idle /\ jq_idle'[i] = jq_idle[i])
  BY <1>1, <1>2 DEF JobInv, Job!TypeOK
<1>8. Job!TypeOK'
  <2>1. jq_mailbox' \in Seq(Job!Message)
    BY <1>1, JobTakes DEF JobInv
  <2>2. QED BY <1>1, <1>4, <1>6, <1>7, <2>1 DEF JobInv, Job!TypeOK
<1>9. MailOrder' /\ Shapes' /\ \A type, v : Job!Expected(type, v)' => Job!Expected(type, v)
  <2>1. \A v \in Job!Worker : Job!Expected("finished", v)' => jq_inFlight'[v] = jq_inFlight[v]
    BY <1>2, <1>4
  <2>2. QED BY <1>1, <2>1, JobMailTaken, JobShapesTaken DEF JobInv
<1>10. Tracked'
  <2>1. \A i, j \in DOMAIN jq_idle' : jq_idle'[i] = jq_idle'[j] => i = j
    BY <1>3, <1>7 DEF Job!Has, JobInv, Job!JobsTracked
  <2>2. \A v \in Job!Worker : v = w => Bare(v)'
    BY <1>1, <1>2, <1>4 DEF Bare, Job!HasJob
  <2>3. \A v \in Job!Worker : Job!Has(jq_idle', v) => Job!Has(jq_idle, v) \/ (Bare(v)' /\ v < jq_nextWorker')
    BY <1>1, <1>3, <1>7, <2>2 DEF Job!Has
  <2>4. \A v \in Job!Worker :
            \/ jq_inFlight'[v] = jq_inFlight[v]
            \/ jq_inFlight'[v] = Job!NoJob /\ jq_working[v] = Job!NoJob /\ ~Job!HasJob(v) /\ ~Job!Expected("finished", v)'
    BY <1>2, <1>4
  <2>5. QED BY <1>1, <1>7, <1>9, <2>1, <2>3, <2>4, JobIdleChanges, JobTypes DEF JobInv, Tracked
<1>11. Job!EndsAnnounced'
  <2>1. \A v : Job!Expected("down", v) => Job!Expected("down", v)'
    BY <1>1, JobMailTaken DEF JobInv
  <2>2. QED BY <1>1, <2>1 DEF JobInv, Job!EndsAnnounced
<1>12. Job!JobsKept'
  <2> SUFFICES ASSUME NEW j \in 1 .. jq_nextJob - 1, Place(j) PROVE Place(j)'
    BY <1>1, JobKeptPlaces DEF JobInv
  <2>1. Head(jq_mailbox).jobs = <<>>
    BY <1>1, JobTakes DEF JobInv, Shapes
  <2>2. Mailed(j) => Mailed(j)'
    BY <1>1, <2>1, JobMailTaken DEF JobInv, Job!Holds
  <2>3. jq_inFlight[w].id = j => Settled(j)' \/ Timed(j)'
    <3>1. CASE Head(jq_mailbox).ok
      BY <1>1, <3>1, JobTakes DEF JobInv, Shapes, Settled
    <3>2. CASE ~Head(jq_mailbox).ok
      BY <1>6, <3>2 DEF Settled
    <3>3. QED BY <3>1, <3>2
  <2>4. Flies(j) => Flies(j)' \/ Settled(j)' \/ Timed(j)'
    BY <1>4, <2>3 DEF Flies
  <2>5. (Settled(j) => Settled(j)') /\ (Job!Holds(jq_pending, j) => Job!Holds(jq_pending, j)') /\ (Job!Holds(jq_batch, j) => Job!Holds(jq_batch, j)')
    BY <1>1, <1>6 DEF Settled, Job!Holds
  <2>6. QED BY <1>6, <2>2, <2>4, <2>5 DEF Place
<1>13. QED BY <1>8, <1>9, <1>10, <1>11, <1>12 DEF JobInv, Tracked

LEMMA JobHandleJobFinishedOK == ASSUME JobInv, Job!HandleJobFinished PROVE JobInv'
  BY JobHandleJobFinishedBy

LEMMA JobHandleDownTracked ==
    ASSUME JobInv, NEW w \in Job!Worker, w = Head(jq_mailbox).worker, Job!Takes("down"), w \in jq_all,
           jq_inFlight' = [jq_inFlight EXCEPT ![w] = Job!NoJob], Job!SendToRetry(jq_inFlight[w]),
           Job!SpawnWorker(Job!Without(jq_idle, w), jq_all \ {w}),
           UNCHANGED <<jq_pending, jq_batch, jq_wbox, jq_working, jq_refused, jq_done, jq_lost, jq_nextJob, jq_commands>>
    PROVE  JobInv'
<1> DEFINE idlers == Job!Without(jq_idle, w)
           known == jq_all \ {w}
           job == jq_inFlight[w]
<1>1. jq_mailbox # <<>> /\ jq_mailbox' = Tail(jq_mailbox) /\ Head(jq_mailbox).type = "down"
  BY DEF Job!Takes
<1>2. jq_worker[w] = "gone" /\ jq_working[w] = Job!NoJob /\ ~Job!HasJob(w) /\ ~Job!Expected("finished", w)'
  <2>1. jq_worker[w] = "gone"
    BY <1>1, JobTakes DEF JobInv, MailOrder
  <2>2. QED BY <1>1, <2>1, JobMailTaken DEF JobInv, GoneBare
<1>3. jq_inFlight' \in [Job!Worker -> Job!Job \cup {Job!NoJob}] /\ jq_inFlight'[w] = Job!NoJob
      /\ \A v \in Job!Worker : v # w => jq_inFlight'[v] = jq_inFlight[v]
  BY DEF JobInv, Job!TypeOK
<1>4. job \in Job!Job \cup {Job!NoJob}
  BY JobTypes DEF JobInv
<1>5. /\ jq_timers' \subseteq Job!Job /\ jq_dead' \subseteq Job!JobId
      /\ \A j : Timed(j) => Timed(j)'
      /\ jq_dead \subseteq jq_dead'
      /\ \A j : job.id = j /\ j # 0 => Timed(j)' \/ j \in jq_dead'
  BY <1>4, JobRetryKeeps DEF JobInv
<1>6. /\ idlers \in Seq(Job!Worker) /\ known \in SUBSET Job!Worker
      /\ \A i \in DOMAIN idlers : idlers[i] # w
      /\ \A i, j \in DOMAIN idlers : idlers[i] = idlers[j] => i = j
      /\ \A i \in DOMAIN idlers : \E j \in DOMAIN jq_idle : idlers[i] = jq_idle[j]
  BY JobWithoutOf DEF JobInv, Job!TypeOK, Job!JobsTracked
<1>7. Job!SpawnWorker(idlers, known)
  OBVIOUS
<1>8. (\A i \in DOMAIN idlers : idlers[i] < jq_nextWorker) /\ \A v : Job!Has(idlers, v) => Job!Has(jq_idle, v)
  BY <1>6 DEF JobInv, IdleBare, Job!Has
<1> HIDE DEF idlers, known, job
<1>9. Job!TypeOK'
  <2>1. jq_mailbox' \in Seq(Job!Message)
    BY <1>1, JobTakes DEF JobInv
  <2>2. QED BY <1>3, <1>5, <1>6, <1>7, <2>1, JobSpawnTypes DEF JobInv, Job!TypeOK
<1>10. \A v \in Job!Worker : jq_worker[v] = "gone" => jq_worker'[v] = "gone"
  BY <1>6, <1>7, JobSpawnTypes DEF JobInv
<1>11. MailOrder' /\ Shapes' /\ \A type, v : Job!Expected(type, v)' => Job!Expected(type, v)
  <2>1. \A v \in Job!Worker : Job!Expected("finished", v)' => jq_inFlight'[v] = jq_inFlight[v]
    BY <1>2, <1>3
  <2>2. QED BY <1>1, <1>10, <2>1, JobMailTaken, JobShapesTaken DEF JobInv
<1>12. Tracked'
  <2>1. /\ \A i, j \in DOMAIN jq_idle' : jq_idle'[i] = jq_idle'[j] => i = j
        /\ \A v \in Job!Worker : Job!Has(jq_idle', v) => Job!Has(jq_idle, v) \/ (Bare(v)' /\ v < jq_nextWorker')
    BY <1>3, <1>6, <1>7, <1>8, <1>11, JobSpawnIdle DEF JobInv
  <2>2. /\ jq_idle' \in Seq(Job!Worker) /\ jq_nextWorker' \in Nat /\ jq_nextWorker' >= jq_nextWorker
        /\ \A v \in Job!Worker : v >= jq_nextWorker' => jq_worker'[v] = jq_worker[v]
        /\ \A v \in Job!Worker : jq_worker'[v] = "gone" => jq_worker[v] = "gone"
        /\ \A v \in jq_all' : v \in known \/ v < jq_nextWorker'
    <3>1. /\ jq_idle' \in Seq(Job!Worker) /\ jq_nextWorker' \in Nat /\ jq_nextWorker' >= jq_nextWorker
          /\ \A v \in Job!Worker : jq_worker'[v] = jq_worker[v] \/ (v < jq_nextWorker' /\ jq_worker'[v] = "alive" /\ jq_worker[v] = "none")
          /\ \A v \in jq_all' : v \in known \/ (v < jq_nextWorker' /\ jq_worker'[v] = "alive")
      BY <1>6, <1>7, JobSpawnTypes DEF JobInv
    <3>2. \A v \in Job!Worker : v >= jq_nextWorker' => ~(v < jq_nextWorker')
      BY <3>1, JobTypes DEF JobInv
    <3>3. QED BY <3>1, <3>2
  <2>3. known \subseteq jq_all
    BY DEF known
  <2>4. \A v \in Job!Worker :
            \/ jq_inFlight'[v] = jq_inFlight[v]
            \/ jq_inFlight'[v] = Job!NoJob /\ jq_working[v] = Job!NoJob /\ ~Job!HasJob(v) /\ ~Job!Expected("finished", v)'
    BY <1>2, <1>3
  <2>5. QED BY <1>11, <2>1, <2>2, <2>3, <2>4, JobIdleChanges DEF JobInv, Tracked
<1>13. Job!EndsAnnounced'
  <2>1. \A v : Job!Expected("down", v) => Job!Expected("down", v)' \/ v = w
    BY <1>1, JobMailTaken DEF JobInv
  <2>2. \A v \in jq_all' : jq_worker'[v] = "gone" => v \in known /\ jq_worker[v] = "gone"
    BY <1>6, <1>7, JobSpawnTypes DEF JobInv
  <2>3. known \subseteq jq_all /\ w \notin known
    BY DEF known
  <2>4. QED BY <2>1, <2>2, <2>3 DEF JobInv, Job!EndsAnnounced
<1>14. Job!JobsKept'
  <2> SUFFICES ASSUME NEW j \in 1 .. jq_nextJob - 1, Place(j) PROVE Place(j)'
    BY JobKeptPlaces DEF JobInv
  <2>1. Head(jq_mailbox).jobs = <<>>
    BY <1>1, JobTakes DEF JobInv, Shapes
  <2>2. Mailed(j) => Mailed(j)'
    BY <1>1, <2>1, JobMailTaken DEF JobInv, Job!Holds
  <2>3. jq_inFlight[w].id = j => Settled(j)' \/ Timed(j)'
    BY <1>5 DEF Settled, job
  <2>4. Flies(j) => Flies(j)' \/ Settled(j)' \/ Timed(j)'
    BY <1>3, <2>3 DEF Flies
  <2>5. (Settled(j) => Settled(j)') /\ (Job!Holds(jq_pending, j) => Job!Holds(jq_pending, j)') /\ (Job!Holds(jq_batch, j) => Job!Holds(jq_batch, j)')
    BY <1>5 DEF Settled, Job!Holds
  <2>6. QED BY <1>5, <2>2, <2>4, <2>5 DEF Place
<1>15. QED BY <1>9, <1>11, <1>12, <1>13, <1>14 DEF JobInv, Tracked

LEMMA JobHandleDownOK == ASSUME JobInv, Job!HandleDown PROVE JobInv'
<1>1. CASE Head(jq_mailbox).worker \in jq_all
  <2>1. Head(jq_mailbox).worker \in Job!Worker
    BY <1>1 DEF JobInv, Job!TypeOK
  <2>2. QED BY <1>1, <2>1, JobHandleDownTracked DEF Job!HandleDown
<1>2. CASE Head(jq_mailbox).worker \notin jq_all
  <2>1. jq_mailbox # <<>> /\ jq_mailbox' = Tail(jq_mailbox) /\ Head(jq_mailbox).type = "down"
        /\ UNCHANGED <<jq_pending, jq_batch, jq_inFlight, jq_idle, jq_all, jq_dispatching, jq_worker, jq_wbox, jq_working, jq_timers, jq_dead, jq_refused, jq_done, jq_lost,
                       jq_nextJob, jq_nextWorker, jq_commands>>
    BY <1>2 DEF Job!HandleDown, Job!Takes
  <2>2. Job!TypeOK'
    <3>1. jq_mailbox' \in Seq(Job!Message)
      BY <2>1, JobTakes DEF JobInv
    <3>2. QED BY <2>1, <3>1 DEF JobInv, Job!TypeOK
  <2>3. Tracked' /\ Job!EndsAnnounced' /\ MailOrder' /\ Shapes'
    BY <1>2, <2>1, JobMailTaken, JobShapesTaken, JobWorkersQuiet, JobNoticesQuiet DEF JobInv, Tracked
  <2>4. Job!JobsKept'
    <3> SUFFICES ASSUME NEW j \in 1 .. jq_nextJob - 1, Place(j) PROVE Place(j)'
      BY <2>1, JobKeptPlaces DEF JobInv
    <3>1. Head(jq_mailbox).jobs = <<>>
      BY <2>1, JobTakes DEF JobInv, Shapes
    <3>2. Mailed(j) => Mailed(j)'
      BY <2>1, <3>1, JobMailTaken DEF JobInv, Job!Holds
    <3>3. (Settled(j) => Settled(j)') /\ (Job!Holds(jq_pending, j) => Job!Holds(jq_pending, j)') /\ (Job!Holds(jq_batch, j) => Job!Holds(jq_batch, j)')
          /\ (Flies(j) => Flies(j)') /\ (Timed(j) => Timed(j)')
      BY <2>1 DEF Settled, Timed, Flies, Job!Holds
    <3>4. QED BY <3>2, <3>3 DEF Place
  <2>5. QED BY <2>2, <2>3, <2>4 DEF JobInv, Tracked
<1>3. QED BY <1>1, <1>2

(* A message that is no result and no DOWN. *)
LEMMA JobPostsOther ==
    ASSUME JobInv, NEW m \in Job!Message, jq_mailbox' = Append(jq_mailbox, m),
           UNCHANGED <<jq_inFlight, jq_idle, jq_all, jq_worker, jq_wbox, jq_working, jq_nextWorker, jq_done>>,
           m.type \notin {"finished", "down"},
           m.type \notin {"enqueue", "retry"} => m.jobs = <<>>, m.type = "retry" => Len(m.jobs) = 1
    PROVE  /\ Tracked' /\ Job!EndsAnnounced' /\ MailOrder' /\ Shapes' /\ jq_mailbox' \in Seq(Job!Message)
           /\ \A j : Mailed(j) \/ Job!Holds(m.jobs, j) => Mailed(j)'
<1>1. /\ \A v : Job!Expected("finished", v)' => Job!Expected("finished", v)
      /\ \A v : Job!Expected("down", v) => Job!Expected("down", v)'
      /\ \A j : Mailed(j) \/ Job!Holds(m.jobs, j) => Mailed(j)'
  BY JobMailPosted DEF JobInv
<1>2. Tracked' /\ Job!EndsAnnounced'
  BY <1>1, JobWorkersQuiet, JobNoticesQuiet DEF JobInv, Tracked
<1>3. MailOrder' /\ Shapes' /\ jq_mailbox' \in Seq(Job!Message)
  BY JobMailPostedOther, JobPosts DEF JobInv
<1>4. QED BY <1>1, <1>2, <1>3

LEMMA JobProduceOK == ASSUME JobInv, Job!Produce PROVE JobInv'
<1>1. PICK n \in 1 .. 2 :
          /\ jq_nextJob + n <= MaxJobs + 1 /\ jq_nextJob' = jq_nextJob + n
          /\ Job!Post(Job!Msg("enqueue", [i \in 1 .. n |-> [id |-> jq_nextJob + i - 1, retry |-> 0]], Job!NoWorker, TRUE))
  BY DEF Job!Produce
<1> DEFINE jobs == [i \in 1 .. n |-> [id |-> jq_nextJob + i - 1, retry |-> 0]]
           m == Job!Msg("enqueue", jobs, Job!NoWorker, TRUE)
<1>2. UNCHANGED <<jq_pending, jq_batch, jq_inFlight, jq_idle, jq_all, jq_dispatching, jq_worker, jq_wbox, jq_working, jq_timers, jq_dead, jq_refused, jq_done, jq_lost,
                  jq_nextWorker, jq_commands>>
  BY DEF Job!Produce, Job!queueVars, Job!workerVars, Job!fates
<1>3. n \in Nat /\ jq_nextJob \in Nat \ {0} /\ jq_nextJob' \in 1 .. MaxJobs + 1
  BY <1>1, JobAssumption DEF JobInv, Job!TypeOK
<1>4. \A i \in 1 .. n : [id |-> jq_nextJob + i - 1, retry |-> 0] \in Job!Job
  BY <1>1, <1>3, JobAssumption DEF Job!Job, Job!JobId, Job!MaxRetries
<1>5. jobs \in Seq(Job!Job)
  <2>1. jobs \in [1 .. n -> Job!Job]
    BY <1>4
  <2>2. QED BY <1>3, <2>1
<1>6. \A j \in jq_nextJob .. jq_nextJob + n - 1 : Job!Holds(jobs, j)
  <2>1. \A j \in jq_nextJob .. jq_nextJob + n - 1 : j - jq_nextJob + 1 \in 1 .. n /\ jobs[j - jq_nextJob + 1].id = j
    BY <1>3
  <2>2. QED BY <2>1 DEF Job!Holds
<1>7. m \in Job!Message /\ m.type = "enqueue" /\ m.jobs = jobs
  BY <1>5 DEF Job!Message, Job!Msg, Job!NoWorker
<1>8. jq_mailbox' = Append(jq_mailbox, m)
  BY <1>1 DEF Job!Post
<1> HIDE DEF m, jobs
<1>9. /\ Tracked' /\ Job!EndsAnnounced' /\ MailOrder' /\ Shapes' /\ jq_mailbox' \in Seq(Job!Message)
      /\ \A j : Mailed(j) \/ Job!Holds(jobs, j) => Mailed(j)'
  BY <1>2, <1>7, <1>8, JobPostsOther
<1>10. Job!TypeOK'
  BY <1>2, <1>3, <1>9 DEF JobInv, Job!TypeOK
<1>11. Job!JobsKept'
  <2> SUFFICES ASSUME NEW j \in 1 .. jq_nextJob' - 1 PROVE Place(j)'
    BY JobKeptPlaces
  <2>1. CASE j \in 1 .. jq_nextJob - 1
    <3>1. Place(j)
      BY <2>1, JobKeptPlaces DEF JobInv
    <3>2. (Settled(j) => Settled(j)') /\ (Job!Holds(jq_pending, j) => Job!Holds(jq_pending, j)') /\ (Job!Holds(jq_batch, j) => Job!Holds(jq_batch, j)')
          /\ (Flies(j) => Flies(j)') /\ (Timed(j) => Timed(j)')
      BY <1>2 DEF Settled, Timed, Flies, Job!Holds
    <3>3. QED BY <1>9, <3>1, <3>2 DEF Place
  <2>2. CASE j \notin 1 .. jq_nextJob - 1
    <3>1. j \in jq_nextJob .. jq_nextJob + n - 1
      BY <1>1, <1>3, <2>2
    <3>2. QED BY <1>6, <1>9, <3>1 DEF Place
  <2>3. QED BY <2>1, <2>2
<1>12. QED BY <1>9, <1>10, <1>11 DEF JobInv, Tracked

LEMMA JobCommandOK == ASSUME JobInv, Job!Command PROVE JobInv'
<1>1. PICK type \in {"add", "remove"} : Job!Post(Job!Msg(type, <<>>, Job!NoWorker, TRUE))
  BY DEF Job!Command
<1> DEFINE m == Job!Msg(type, <<>>, Job!NoWorker, TRUE)
<1>2. UNCHANGED <<jq_pending, jq_batch, jq_inFlight, jq_idle, jq_all, jq_dispatching, jq_worker, jq_wbox, jq_working, jq_timers, jq_dead, jq_refused, jq_done, jq_lost,
                  jq_nextJob, jq_nextWorker>>
  BY DEF Job!Command, Job!queueVars, Job!workerVars, Job!fates
<1>3. m \in Job!Message /\ m.type \in {"add", "remove"} /\ m.jobs = <<>>
  BY DEF Job!Message, Job!Msg, Job!NoWorker
<1>4. jq_mailbox' = Append(jq_mailbox, m)
  BY <1>1 DEF Job!Post
<1> HIDE DEF m
<1>5. /\ Tracked' /\ Job!EndsAnnounced' /\ MailOrder' /\ Shapes' /\ jq_mailbox' \in Seq(Job!Message)
      /\ \A j : Mailed(j) => Mailed(j)'
  BY <1>2, <1>3, <1>4, JobPostsOther
<1>6. jq_commands' \in 0 .. MaxJobCommands
  BY JobAssumption DEF JobInv, Job!TypeOK, Job!Command, Job!Spend
<1>7. Job!TypeOK'
  BY <1>2, <1>5, <1>6 DEF JobInv, Job!TypeOK
<1>8. Job!JobsKept'
  <2> SUFFICES ASSUME NEW j \in 1 .. jq_nextJob - 1, Place(j) PROVE Place(j)'
    BY <1>2, JobKeptPlaces DEF JobInv
  <2>1. (Settled(j) => Settled(j)') /\ (Job!Holds(jq_pending, j) => Job!Holds(jq_pending, j)') /\ (Job!Holds(jq_batch, j) => Job!Holds(jq_batch, j)')
        /\ (Flies(j) => Flies(j)') /\ (Timed(j) => Timed(j)')
    BY <1>2 DEF Settled, Timed, Flies, Job!Holds
  <2>2. QED BY <1>5, <2>1 DEF Place
<1>9. QED BY <1>5, <1>7, <1>8 DEF JobInv, Tracked

LEMMA JobTimerFiresOK == ASSUME JobInv, NEW job \in jq_timers, Job!TimerFires(job) PROVE JobInv'
<1> DEFINE m == Job!Msg("retry", <<job>>, Job!NoWorker, TRUE)
<1>1. jq_timers' = jq_timers \ {job} /\ job \in Job!Job
      /\ UNCHANGED <<jq_pending, jq_batch, jq_inFlight, jq_idle, jq_all, jq_dispatching, jq_worker, jq_wbox, jq_working, jq_dead, jq_refused, jq_done, jq_lost,
                     jq_nextJob, jq_nextWorker, jq_commands>>
  BY DEF Job!TimerFires, Job!queueVars, Job!workerVars, Job!counters, JobInv, Job!TypeOK
<1>2. <<job>> \in Seq(Job!Job) /\ Len(<<job>>) = 1 /\ Job!Holds(<<job>>, job.id)
  BY <1>1 DEF Job!Holds
<1>3. m \in Job!Message /\ m.type = "retry" /\ m.jobs = <<job>>
  BY <1>2 DEF Job!Message, Job!Msg, Job!NoWorker
<1>4. jq_mailbox' = Append(jq_mailbox, m)
  BY DEF Job!Post, Job!TimerFires
<1> HIDE DEF m
<1>5. /\ Tracked' /\ Job!EndsAnnounced' /\ MailOrder' /\ Shapes' /\ jq_mailbox' \in Seq(Job!Message)
      /\ \A j : Mailed(j) \/ j = job.id => Mailed(j)'
  BY <1>1, <1>2, <1>3, <1>4, JobPostsOther
<1>6. Job!TypeOK'
  BY <1>1, <1>5 DEF JobInv, Job!TypeOK
<1>7. Job!JobsKept'
  <2> SUFFICES ASSUME NEW j \in 1 .. jq_nextJob - 1, Place(j) PROVE Place(j)'
    BY <1>1, JobKeptPlaces DEF JobInv
  <2>1. (Settled(j) => Settled(j)') /\ (Job!Holds(jq_pending, j) => Job!Holds(jq_pending, j)') /\ (Job!Holds(jq_batch, j) => Job!Holds(jq_batch, j)')
        /\ (Flies(j) => Flies(j)')
    BY <1>1 DEF Settled, Flies, Job!Holds
  <2>2. Timed(j) => Timed(j)' \/ j = job.id
    BY <1>1 DEF Timed
  <2>3. QED BY <1>5, <2>1, <2>2 DEF Place
<1>8. QED BY <1>5, <1>6, <1>7 DEF JobInv, Tracked

(* One worker moves: the others, and what the queue has, stay. *)
LEMMA JobWorkerMoves ==
    ASSUME Job!TypeOK, Tracked, NEW w \in Job!Worker, w < jq_nextWorker, UNCHANGED <<jq_inFlight, jq_idle, jq_all, jq_nextWorker>>,
           jq_worker' \in [Job!Worker -> {"none", "alive", "gone", "panicked"}],
           \A v \in Job!Worker : v # w =>
               /\ jq_worker'[v] = jq_worker[v] /\ jq_wbox'[v] = jq_wbox[v] /\ jq_working'[v] = jq_working[v]
               /\ Job!Expected("finished", v)' => Job!Expected("finished", v),
           Bare(w) => Bare(w)',
           jq_worker'[w] = "gone" => jq_working'[w] = Job!NoJob /\ ~Job!HasJob(w)',
           jq_working'[w] # Job!NoJob => jq_inFlight[w] = jq_working'[w] /\ ~Job!HasJob(w)',
           Job!Expected("finished", w)' => jq_inFlight[w] # Job!NoJob /\ jq_working'[w] = Job!NoJob /\ ~Job!HasJob(w)',
           \A i \in DOMAIN jq_wbox'[w] : Job!IsJob(jq_wbox'[w][i]) =>
               /\ jq_wbox'[w][i] = jq_inFlight[w]
               /\ \A j \in DOMAIN jq_wbox'[w] : Job!IsJob(jq_wbox'[w][j]) => j = i
    PROVE  Tracked'
<1>1. \A v \in Job!Worker : (Bare(v) => Bare(v)') /\ (v # w => Job!HasJob(v)' = Job!HasJob(v))
  <2>1. \A v \in Job!Worker : v # w => Job!HasJob(v)' = Job!HasJob(v)
    BY DEF Job!HasJob
  <2>2. \A v \in Job!Worker : v # w /\ Bare(v) => Bare(v)'
    BY <2>1 DEF Bare
  <2>3. \A v \in Job!Worker : v = w /\ Bare(v) => Bare(v)'
    OBVIOUS
  <2>4. QED BY <2>1, <2>2, <2>3
<1>2. IdleBare'
  BY <1>1, JobTypes DEF Tracked, IdleBare
<1>3. Fresh' /\ GoneBare'
  <2>1. \A v \in Job!Worker : v >= jq_nextWorker => v # w
    BY JobTypes
  <2>2. Fresh'
    BY <1>1, <2>1 DEF Tracked, Fresh
  <2>3. ASSUME NEW v \in Job!Worker, jq_worker'[v] = "gone" PROVE jq_working'[v] = Job!NoJob /\ ~Job!HasJob(v)'
    <3>1. CASE v = w
      BY <2>3, <3>1
    <3>2. CASE v # w
      BY <1>1, <2>3, <3>2 DEF Tracked, GoneBare
    <3>3. QED BY <3>1, <3>2
  <2>4. QED BY <2>2, <2>3 DEF GoneBare
<1>4. Job!JobsTracked'
  <2>1. ASSUME NEW v \in Job!Worker
        PROVE  /\ jq_working'[v] # Job!NoJob => jq_inFlight'[v] = jq_working'[v] /\ ~Job!HasJob(v)'
               /\ Job!Expected("finished", v)' => jq_inFlight'[v] # Job!NoJob /\ jq_working'[v] = Job!NoJob /\ ~Job!HasJob(v)'
               /\ \A i \in DOMAIN jq_wbox'[v] : Job!IsJob(jq_wbox'[v][i]) =>
                      /\ jq_wbox'[v][i] = jq_inFlight'[v]
                      /\ \A j \in DOMAIN jq_wbox'[v] : Job!IsJob(jq_wbox'[v][j]) => j = i
    <3>1. CASE v = w
      BY <3>1
    <3>2. CASE v # w
      BY <1>1, <3>2 DEF Tracked, Job!JobsTracked
    <3>3. QED BY <3>1, <3>2
  <2>2. \A i, j \in DOMAIN jq_idle' : jq_inFlight'[jq_idle'[i]] = Job!NoJob /\ (jq_idle'[j] = jq_idle'[i] => j = i)
    BY DEF Tracked, Job!JobsTracked
  <2>3. QED BY <2>1, <2>2 DEF Job!JobsTracked
<1>5. QED BY <1>2, <1>3, <1>4 DEF Tracked

LEMMA JobActsStarted ==
    ASSUME JobInv, NEW w \in Job!Worker, jq_worker[w] # "none" \/ jq_working[w] # Job!NoJob
    PROVE  w < jq_nextWorker
  BY JobTypes DEF JobInv, Fresh, Bare

LEMMA JobKeptByWorkers ==
    ASSUME JobInv, UNCHANGED <<jq_pending, jq_batch, jq_inFlight, jq_timers, jq_dead, jq_refused, jq_lost, jq_nextJob>>, jq_done \subseteq jq_done',
           \A j : Mailed(j) => Mailed(j)'
    PROVE  Job!JobsKept'
<1> SUFFICES ASSUME NEW j \in 1 .. jq_nextJob - 1, Place(j) PROVE Place(j)'
  BY JobKeptPlaces DEF JobInv
<1>1. (Settled(j) => Settled(j)') /\ (Job!Holds(jq_pending, j) => Job!Holds(jq_pending, j)') /\ (Job!Holds(jq_batch, j) => Job!Holds(jq_batch, j)')
      /\ (Flies(j) => Flies(j)') /\ (Timed(j) => Timed(j)')
  BY DEF Settled, Timed, Flies, Job!Holds
<1>2. QED BY <1>1 DEF Place

LEMMA JobStopWorkerOK == ASSUME JobInv, NEW w \in Job!Worker, Job!StopWorker(w) PROVE JobInv'
<1>1. jq_worker[w] = "alive" /\ jq_wbox' = [jq_wbox EXCEPT ![w] = Append(jq_wbox[w], Job!StopMessage)]
      /\ UNCHANGED <<jq_pending, jq_batch, jq_inFlight, jq_idle, jq_all, jq_dispatching, jq_mailbox, jq_worker, jq_working, jq_timers, jq_dead, jq_refused, jq_done, jq_lost,
                     jq_nextJob, jq_nextWorker>>
  BY DEF Job!StopWorker, Job!queueVars, Job!fates
<1>2. jq_wbox[w] \in Seq(Job!Job \cup {Job!StopMessage}) /\ Append(jq_wbox[w], Job!StopMessage) \in Seq(Job!Job \cup {Job!StopMessage})
  BY DEF JobInv, Job!TypeOK
<1>3. jq_wbox'[w] = Append(jq_wbox[w], Job!StopMessage) /\ \A v \in Job!Worker : v # w => jq_wbox'[v] = jq_wbox[v]
  BY <1>1 DEF JobInv, Job!TypeOK
<1>4. \A i \in DOMAIN jq_wbox'[w] : Job!IsJob(jq_wbox'[w][i]) => i \in DOMAIN jq_wbox[w] /\ jq_wbox'[w][i] = jq_wbox[w][i]
  BY <1>2, <1>3 DEF Job!IsJob
<1>5. Job!TypeOK'
  <2>1. jq_wbox' \in [Job!Worker -> Seq(Job!Job \cup {Job!StopMessage})] /\ jq_commands' \in 0 .. MaxJobCommands
    BY <1>1, <1>2, JobAssumption DEF JobInv, Job!TypeOK, Job!StopWorker, Job!Spend
  <2>2. QED BY <1>1, <2>1 DEF JobInv, Job!TypeOK
<1>6. /\ \A type, v : Job!Expected(type, v)' = Job!Expected(type, v)
      /\ \A j : Mailed(j)' = Mailed(j)
      /\ MailOrder' /\ Shapes'
  BY <1>1, JobMailQuiet DEF JobInv
<1>7. Job!HasJob(w)' => Job!HasJob(w)
  BY <1>4 DEF Job!HasJob
<1>8. Tracked'
  <2>1. Bare(w) => Bare(w)'
    BY <1>1, <1>6, <1>7 DEF Bare
  <2>2. /\ jq_working'[w] # Job!NoJob => jq_inFlight[w] = jq_working'[w] /\ ~Job!HasJob(w)'
        /\ Job!Expected("finished", w)' => jq_inFlight[w] # Job!NoJob /\ jq_working'[w] = Job!NoJob /\ ~Job!HasJob(w)'
        /\ \A i \in DOMAIN jq_wbox'[w] : Job!IsJob(jq_wbox'[w][i]) =>
               /\ jq_wbox'[w][i] = jq_inFlight[w]
               /\ \A j \in DOMAIN jq_wbox'[w] : Job!IsJob(jq_wbox'[w][j]) => j = i
    BY <1>1, <1>4, <1>6, <1>7 DEF JobInv, Job!JobsTracked
  <2>3. jq_worker' \in [Job!Worker -> {"none", "alive", "gone", "panicked"}] /\ w < jq_nextWorker /\ jq_worker'[w] # "gone"
    BY <1>1, JobActsStarted DEF JobInv, Job!TypeOK
  <2>4. QED BY <1>1, <1>3, <1>6, <2>1, <2>2, <2>3, JobWorkerMoves DEF JobInv, Tracked
<1>9. Job!EndsAnnounced'
  BY <1>1, <1>6, JobNoticesQuiet DEF JobInv
<1>10. Job!JobsKept'
  BY <1>1, <1>6, JobKeptByWorkers
<1>11. QED BY <1>5, <1>6, <1>8, <1>9, <1>10 DEF JobInv, Tracked

LEMMA JobProcessOK == ASSUME JobInv, NEW w \in Job!Worker, Job!Process(w) PROVE JobInv'
<1>1. /\ jq_worker[w] = "alive" /\ jq_working[w] = Job!NoJob /\ jq_wbox[w] # <<>> /\ Head(jq_wbox[w]) # Job!StopMessage
      /\ jq_working' = [jq_working EXCEPT ![w] = Head(jq_wbox[w])] /\ jq_wbox' = [jq_wbox EXCEPT ![w] = Tail(jq_wbox[w])]
      /\ UNCHANGED <<jq_pending, jq_batch, jq_inFlight, jq_idle, jq_all, jq_dispatching, jq_mailbox, jq_worker, jq_timers, jq_dead, jq_refused, jq_done, jq_lost,
                     jq_nextJob, jq_nextWorker, jq_commands>>
  BY DEF Job!Process, Job!queueVars, Job!fates, Job!counters
<1>2. /\ jq_wbox[w] \in Seq(Job!Job \cup {Job!StopMessage}) /\ Tail(jq_wbox[w]) \in Seq(Job!Job \cup {Job!StopMessage})
      /\ Head(jq_wbox[w]) \in Job!Job /\ Head(jq_wbox[w]) = jq_wbox[w][1] /\ 1 \in DOMAIN jq_wbox[w]
  BY <1>1 DEF JobInv, Job!TypeOK
<1>3. /\ jq_wbox'[w] = Tail(jq_wbox[w]) /\ jq_working'[w] = jq_wbox[w][1]
      /\ \A v \in Job!Worker : v # w => jq_wbox'[v] = jq_wbox[v] /\ jq_working'[v] = jq_working[v]
  BY <1>1, <1>2 DEF JobInv, Job!TypeOK
<1>4. \A i \in DOMAIN jq_wbox'[w] : i + 1 \in DOMAIN jq_wbox[w] /\ jq_wbox'[w][i] = jq_wbox[w][i + 1] /\ i + 1 # 1
  <2>1. /\ Len(Tail(jq_wbox[w])) = Len(jq_wbox[w]) - 1 /\ Len(jq_wbox[w]) \in Nat
        /\ \A i \in 1 .. Len(jq_wbox[w]) - 1 : Tail(jq_wbox[w])[i] = jq_wbox[w][i + 1]
    BY <1>1, <1>2
  <2>2. DOMAIN Tail(jq_wbox[w]) = 1 .. Len(jq_wbox[w]) - 1 /\ DOMAIN jq_wbox[w] = 1 .. Len(jq_wbox[w])
    BY <1>2, <2>1, LenProperties
  <2>3. QED BY <1>3, <2>1, <2>2
<1>5. Job!IsJob(jq_wbox[w][1]) /\ Job!HasJob(w)
  BY <1>1, <1>2 DEF Job!IsJob, Job!HasJob
<1>6. jq_inFlight[w] = jq_wbox[w][1] /\ ~Job!HasJob(w)' /\ ~Job!Expected("finished", w)
  <2>1. jq_inFlight[w] = jq_wbox[w][1] /\ \A j \in DOMAIN jq_wbox[w] : Job!IsJob(jq_wbox[w][j]) => j = 1
    BY <1>2, <1>5 DEF JobInv, Job!JobsTracked
  <2>2. ~Job!HasJob(w)'
    BY <1>4, <2>1 DEF Job!HasJob
  <2>3. QED BY <1>5, <2>1, <2>2 DEF JobInv, Job!JobsTracked
<1>7. Job!TypeOK'
  <2>1. jq_wbox' \in [Job!Worker -> Seq(Job!Job \cup {Job!StopMessage})] /\ jq_working' \in [Job!Worker -> Job!Job \cup {Job!NoJob}]
    BY <1>1, <1>2 DEF JobInv, Job!TypeOK
  <2>2. QED BY <1>1, <2>1 DEF JobInv, Job!TypeOK
<1>8. /\ \A type, v : Job!Expected(type, v)' = Job!Expected(type, v)
      /\ \A j : Mailed(j)' = Mailed(j)
      /\ MailOrder' /\ Shapes'
  BY <1>1, JobMailQuiet DEF JobInv
<1>9. Tracked'
  <2>1. jq_worker' \in [Job!Worker -> {"none", "alive", "gone", "panicked"}] /\ w < jq_nextWorker /\ jq_worker'[w] # "gone"
    BY <1>1, JobActsStarted DEF JobInv, Job!TypeOK
  <2>2. ~Bare(w) /\ \A i \in DOMAIN jq_wbox'[w] : ~Job!IsJob(jq_wbox'[w][i])
    BY <1>5, <1>6 DEF Bare, Job!HasJob
  <2>3. QED BY <1>1, <1>3, <1>6, <1>8, <2>1, <2>2, JobWorkerMoves DEF JobInv, Tracked
<1>10. Job!EndsAnnounced'
  BY <1>1, <1>8, JobNoticesQuiet DEF JobInv
<1>11. Job!JobsKept'
  BY <1>1, <1>8, JobKeptByWorkers
<1>12. QED BY <1>7, <1>8, <1>9, <1>10, <1>11 DEF JobInv, Tracked

LEMMA JobWorkerPanicsOK == ASSUME JobInv, NEW w \in Job!Worker, Job!WorkerPanics(w) PROVE JobInv'
<1>1. /\ jq_working[w] # Job!NoJob /\ jq_working' = [jq_working EXCEPT ![w] = Job!NoJob]
      /\ jq_worker' = [jq_worker EXCEPT ![w] = "panicked"] /\ jq_wbox' = [jq_wbox EXCEPT ![w] = <<>>]
      /\ UNCHANGED <<jq_pending, jq_batch, jq_inFlight, jq_idle, jq_all, jq_dispatching, jq_mailbox, jq_timers, jq_dead, jq_refused, jq_done, jq_lost,
                     jq_nextJob, jq_nextWorker, jq_commands>>
  BY DEF Job!WorkerPanics, Job!queueVars, Job!fates, Job!counters
<1>2. Job!TypeOK'
  <2>1. <<>> \in Seq(Job!Job \cup {Job!StopMessage})
    OBVIOUS
  <2>2. jq_wbox' \in [Job!Worker -> Seq(Job!Job \cup {Job!StopMessage})] /\ jq_working' \in [Job!Worker -> Job!Job \cup {Job!NoJob}]
        /\ jq_worker' \in [Job!Worker -> {"none", "alive", "gone", "panicked"}]
    BY <1>1, <2>1 DEF JobInv, Job!TypeOK
  <2>3. QED BY <1>1, <2>2 DEF JobInv, Job!TypeOK
<1>3. /\ jq_wbox'[w] = <<>> /\ jq_working'[w] = Job!NoJob /\ jq_worker'[w] = "panicked" /\ jq_worker[w] # "gone"
      /\ \A v \in Job!Worker : v # w => jq_wbox'[v] = jq_wbox[v] /\ jq_working'[v] = jq_working[v] /\ jq_worker'[v] = jq_worker[v]
  BY <1>1 DEF JobInv, Job!TypeOK, GoneBare
<1>4. /\ \A type, v : Job!Expected(type, v)' = Job!Expected(type, v)
      /\ \A j : Mailed(j)' = Mailed(j)
  BY <1>1 DEF Job!Expected, Mailed
<1>5. MailOrder' /\ Shapes'
  <2>1. \A v \in Job!Worker : jq_worker[v] = "gone" => jq_worker'[v] = "gone"
    BY <1>3
  <2>2. QED BY <1>1, <2>1 DEF JobInv, MailOrder, Shapes
<1>6. ~Job!HasJob(w)' /\ ~Job!Expected("finished", w)'
  <2>1. DOMAIN jq_wbox'[w] = {}
    BY <1>3
  <2>2. QED BY <1>1, <1>4, <2>1 DEF Job!HasJob, JobInv, Job!JobsTracked
<1>7. Tracked'
  <2>1. jq_worker' \in [Job!Worker -> {"none", "alive", "gone", "panicked"}] /\ w < jq_nextWorker /\ jq_worker'[w] # "gone"
    BY <1>1, <1>2, <1>3, JobActsStarted DEF Job!TypeOK
  <2>2. ~Bare(w) /\ DOMAIN jq_wbox'[w] = {}
    BY <1>1, <1>3 DEF Bare
  <2>3. QED BY <1>1, <1>3, <1>4, <1>6, <2>1, <2>2, JobWorkerMoves DEF JobInv, Tracked
<1>8. Job!EndsAnnounced'
  BY <1>1, <1>3, <1>4 DEF JobInv, Job!EndsAnnounced, Job!TypeOK
<1>9. Job!JobsKept'
  BY <1>1, <1>4, JobKeptByWorkers
<1>10. QED BY <1>2, <1>5, <1>7, <1>8, <1>9 DEF JobInv, Tracked

LEMMA JobFinishOK == ASSUME JobInv, NEW w \in Job!Worker, NEW ok \in BOOLEAN, Job!Finish(w, ok) PROVE JobInv'
<1> DEFINE m == Job!Msg("finished", <<>>, w, ok)
<1>1. /\ jq_working[w] # Job!NoJob /\ jq_working' = [jq_working EXCEPT ![w] = Job!NoJob] /\ jq_mailbox' = Append(jq_mailbox, m)
      /\ jq_done' = IF ok THEN jq_done \cup {jq_working[w].id} ELSE jq_done
      /\ UNCHANGED <<jq_pending, jq_batch, jq_inFlight, jq_idle, jq_all, jq_dispatching, jq_worker, jq_wbox, jq_timers, jq_dead, jq_refused, jq_lost,
                     jq_nextJob, jq_nextWorker, jq_commands>>
  BY DEF Job!Finish, Job!Post, Job!queueVars, Job!counters
<1>2. m \in Job!Message /\ m.type = "finished" /\ m.jobs = <<>> /\ m.worker = w /\ m.ok = ok
  BY DEF Job!Message, Job!Msg, Job!NoWorker
<1> HIDE DEF m
<1>3. jq_working[w] \in Job!Job /\ jq_inFlight[w] = jq_working[w] /\ ~Job!HasJob(w) /\ ~Job!Expected("finished", w) /\ jq_worker[w] # "gone"
      /\ w < jq_nextWorker
  <2>1. jq_working[w] \in Job!Job /\ jq_inFlight[w] = jq_working[w] /\ ~Job!HasJob(w) /\ ~Job!Expected("finished", w)
    BY <1>1, JobTypes DEF JobInv, Job!JobsTracked
  <2>2. QED BY <1>1, <2>1, JobActsStarted DEF JobInv, GoneBare
<1>4. jq_working'[w] = Job!NoJob /\ \A v \in Job!Worker : v # w => jq_working'[v] = jq_working[v]
  BY <1>1 DEF JobInv, Job!TypeOK
<1>5. jq_done \subseteq jq_done' /\ jq_done' \subseteq Job!JobId /\ (ok => jq_inFlight[w].id \in jq_done')
  BY <1>1, <1>3, JobIds DEF JobInv, Job!TypeOK
<1>6. Job!TypeOK'
  <2>1. jq_mailbox' \in Seq(Job!Message)
    BY <1>1, <1>2, JobPosts DEF JobInv
  <2>2. jq_working' \in [Job!Worker -> Job!Job \cup {Job!NoJob}]
    BY <1>1 DEF JobInv, Job!TypeOK
  <2>3. QED BY <1>1, <1>5, <2>1, <2>2 DEF JobInv, Job!TypeOK
<1>7. /\ \A type, v : Job!Expected(type, v)' => Job!Expected(type, v) \/ (type = "finished" /\ v = w)
      /\ \A v : Job!Expected("down", v) => Job!Expected("down", v)'
      /\ \A j : Mailed(j) => Mailed(j)'
  BY <1>1, <1>2, JobMailPosted DEF JobInv
<1>8. /\ DOMAIN jq_mailbox' = 1 .. Len(jq_mailbox) + 1 /\ DOMAIN jq_mailbox = 1 .. Len(jq_mailbox) /\ Len(jq_mailbox) \in Nat
      /\ \A i \in DOMAIN jq_mailbox : jq_mailbox'[i] = jq_mailbox[i] /\ i \in DOMAIN jq_mailbox'
      /\ jq_mailbox'[Len(jq_mailbox) + 1] = m
      /\ \A i \in DOMAIN jq_mailbox' : i \in DOMAIN jq_mailbox \/ i = Len(jq_mailbox) + 1
  BY <1>1, <1>2, JobPosts DEF JobInv
<1>9. MailOrder'
  <2>1. \A i \in DOMAIN jq_mailbox : ~(jq_mailbox[i].type = "finished" /\ jq_mailbox[i].worker = w)
    BY <1>3 DEF Job!Expected
  <2>2. \A i \in DOMAIN jq_mailbox : ~(jq_mailbox[i].type = "down" /\ jq_mailbox[i].worker = w)
    BY <1>3 DEF JobInv, MailOrder
  <2>3. ASSUME NEW i \in DOMAIN jq_mailbox
        PROVE  /\ jq_mailbox'[i].type \in {"finished", "down"} => jq_mailbox'[i].worker \in Job!Worker
               /\ jq_mailbox'[i].type = "down" => jq_worker'[jq_mailbox'[i].worker] = "gone"
               /\ jq_mailbox'[i].type = "finished" =>
                     \A j \in DOMAIN jq_mailbox' :
                         /\ jq_mailbox'[j].type = "finished" /\ jq_mailbox'[j].worker = jq_mailbox'[i].worker => j = i
                         /\ jq_mailbox'[j].type = "down" /\ jq_mailbox'[j].worker = jq_mailbox'[i].worker => j > i
    BY <1>1, <1>2, <1>8, <2>1 DEF JobInv, MailOrder
  <2>4. \A j \in DOMAIN jq_mailbox' :
            /\ jq_mailbox'[j].type = "finished" /\ jq_mailbox'[j].worker = w => j = Len(jq_mailbox) + 1
            /\ ~(jq_mailbox'[j].type = "down" /\ jq_mailbox'[j].worker = w)
    BY <1>2, <1>8, <2>1, <2>2
  <2>5. QED BY <1>2, <1>8, <2>3, <2>4 DEF MailOrder
<1>10. Shapes'
  BY <1>1, <1>2, <1>5, <1>8 DEF JobInv, Shapes
<1>11. Tracked'
  <2>1. Job!HasJob(w)' = Job!HasJob(w)
    BY <1>1 DEF Job!HasJob
  <2>2. ~Bare(w) /\ jq_inFlight[w] # Job!NoJob /\ \A i \in DOMAIN jq_wbox'[w] : ~Job!IsJob(jq_wbox'[w][i])
    BY <1>1, <1>3 DEF Bare, Job!HasJob
  <2>3. jq_worker' \in [Job!Worker -> {"none", "alive", "gone", "panicked"}]
    BY <1>1 DEF JobInv, Job!TypeOK
  <2>4. QED BY <1>1, <1>3, <1>4, <1>7, <2>1, <2>2, <2>3, JobWorkerMoves DEF JobInv, Tracked
<1>12. Job!EndsAnnounced'
  BY <1>1, <1>7, JobNoticesQuiet DEF JobInv
<1>13. Job!JobsKept'
  BY <1>1, <1>5, <1>7, JobKeptByWorkers
<1>14. QED BY <1>6, <1>9, <1>10, <1>11, <1>12, <1>13 DEF JobInv, Tracked

LEMMA JobWorkerEndsOK == ASSUME JobInv, NEW w \in Job!Worker, Job!WorkerEnds(w) PROVE JobInv'
<1> DEFINE m == Job!Msg("down", <<>>, w, TRUE)
<1>1. /\ jq_worker[w] = "alive" /\ jq_working[w] = Job!NoJob
      /\ jq_worker' = [jq_worker EXCEPT ![w] = "gone"] /\ jq_wbox' = [jq_wbox EXCEPT ![w] = <<>>]
      /\ jq_mailbox' = jq_mailbox \o <<m, m>>
      /\ UNCHANGED <<jq_pending, jq_batch, jq_inFlight, jq_idle, jq_all, jq_dispatching, jq_working, jq_timers, jq_dead, jq_refused, jq_done, jq_lost,
                     jq_nextJob, jq_nextWorker, jq_commands>>
  BY DEF Job!WorkerEnds, Job!queueVars, Job!fates, Job!counters
<1>2. m \in Job!Message /\ m.type = "down" /\ m.jobs = <<>> /\ m.worker = w
  BY DEF Job!Message, Job!Msg, Job!NoWorker
<1> HIDE DEF m
<1>3. /\ jq_mailbox' \in Seq(Job!Message)
      /\ DOMAIN jq_mailbox' = 1 .. Len(jq_mailbox) + 2 /\ DOMAIN jq_mailbox = 1 .. Len(jq_mailbox) /\ Len(jq_mailbox) \in Nat
      /\ \A i \in DOMAIN jq_mailbox : jq_mailbox'[i] = jq_mailbox[i] /\ i \in DOMAIN jq_mailbox'
      /\ \A i \in DOMAIN jq_mailbox' : i \in DOMAIN jq_mailbox \/ (i > Len(jq_mailbox) /\ jq_mailbox'[i] = m)
      /\ Len(jq_mailbox) + 1 \in DOMAIN jq_mailbox' /\ jq_mailbox'[Len(jq_mailbox) + 1] = m
  <2>1. jq_mailbox \in Seq(Job!Message) /\ <<m, m>> \in Seq(Job!Message) /\ Len(<<m, m>>) = 2
    BY <1>2 DEF JobInv, Job!TypeOK
  <2>2. jq_mailbox' \in Seq(Job!Message) /\ Len(jq_mailbox') = Len(jq_mailbox) + 2
        /\ \A i \in 1 .. Len(jq_mailbox) + 2 : jq_mailbox'[i] = IF i <= Len(jq_mailbox) THEN jq_mailbox[i] ELSE <<m, m>>[i - Len(jq_mailbox)]
    BY <1>1, <2>1, ConcatProperties
  <2>3. \A i \in 1 .. 2 : <<m, m>>[i] = m
    OBVIOUS
  <2>4. DOMAIN jq_mailbox' = 1 .. Len(jq_mailbox) + 2 /\ DOMAIN jq_mailbox = 1 .. Len(jq_mailbox) /\ Len(jq_mailbox) \in Nat
    BY <2>1, <2>2, LenProperties
  <2>5. \A i \in 1 .. Len(jq_mailbox) + 2 : i > Len(jq_mailbox) => jq_mailbox'[i] = m
    <3>1. \A i \in 1 .. Len(jq_mailbox) + 2 : i > Len(jq_mailbox) => i - Len(jq_mailbox) \in 1 .. 2 /\ ~(i <= Len(jq_mailbox))
      BY <2>4
    <3>2. QED BY <2>2, <2>3, <3>1
  <2>6. QED BY <2>2, <2>4, <2>5
<1>4. /\ jq_wbox'[w] = <<>> /\ jq_worker'[w] = "gone"
      /\ \A v \in Job!Worker : v # w => jq_wbox'[v] = jq_wbox[v] /\ jq_worker'[v] = jq_worker[v]
  BY <1>1 DEF JobInv, Job!TypeOK
<1>5. Job!TypeOK'
  <2>1. <<>> \in Seq(Job!Job \cup {Job!StopMessage})
    OBVIOUS
  <2>2. jq_wbox' \in [Job!Worker -> Seq(Job!Job \cup {Job!StopMessage})] /\ jq_worker' \in [Job!Worker -> {"none", "alive", "gone", "panicked"}]
    BY <1>1, <2>1 DEF JobInv, Job!TypeOK
  <2>3. QED BY <1>1, <1>3, <2>2 DEF JobInv, Job!TypeOK
<1>6. /\ \A v : Job!Expected("finished", v)' => Job!Expected("finished", v)
      /\ \A v : Job!Expected("down", v) => Job!Expected("down", v)'
      /\ Job!Expected("down", w)'
      /\ \A j : Mailed(j) => Mailed(j)'
  <2>1. \A v : Job!Expected("finished", v)' => Job!Expected("finished", v)
    BY <1>2, <1>3 DEF Job!Expected
  <2>2. (\A v : Job!Expected("down", v) => Job!Expected("down", v)') /\ Job!Expected("down", w)'
    BY <1>2, <1>3 DEF Job!Expected
  <2>3. \A j : Mailed(j) => Mailed(j)'
    BY <1>3 DEF Mailed
  <2>4. QED BY <2>1, <2>2, <2>3
<1>7. MailOrder'
  <2>1. ASSUME NEW i \in DOMAIN jq_mailbox
        PROVE  /\ jq_mailbox'[i].type \in {"finished", "down"} => jq_mailbox'[i].worker \in Job!Worker
               /\ jq_mailbox'[i].type = "down" => jq_worker'[jq_mailbox'[i].worker] = "gone"
               /\ jq_mailbox'[i].type = "finished" =>
                     \A j \in DOMAIN jq_mailbox' :
                         /\ jq_mailbox'[j].type = "finished" /\ jq_mailbox'[j].worker = jq_mailbox'[i].worker => j = i
                         /\ jq_mailbox'[j].type = "down" /\ jq_mailbox'[j].worker = jq_mailbox'[i].worker => j > i
    <3>1. jq_mailbox'[i] = jq_mailbox[i] /\ (jq_mailbox[i].type \in {"finished", "down"} => jq_mailbox[i].worker \in Job!Worker)
      BY <1>3 DEF JobInv, MailOrder
    <3>2. jq_mailbox[i].type = "down" => jq_worker'[jq_mailbox[i].worker] = "gone"
      BY <1>4, <3>1 DEF JobInv, MailOrder
    <3>3. ASSUME jq_mailbox[i].type = "finished", NEW j \in DOMAIN jq_mailbox', jq_mailbox'[j].worker = jq_mailbox[i].worker
          PROVE  (jq_mailbox'[j].type = "finished" => j = i) /\ (jq_mailbox'[j].type = "down" => j > i)
      <4>1. CASE j \in DOMAIN jq_mailbox
        BY <1>3, <3>3, <4>1 DEF JobInv, MailOrder
      <4>2. CASE j \notin DOMAIN jq_mailbox
        BY <1>2, <1>3, <4>2
      <4>3. QED BY <4>1, <4>2
    <3>4. QED BY <3>1, <3>2, <3>3
  <2>2. \A i \in DOMAIN jq_mailbox' : i \notin DOMAIN jq_mailbox =>
            jq_mailbox'[i].type = "down" /\ jq_mailbox'[i].worker = w
    BY <1>2, <1>3
  <2>3. QED BY <1>4, <2>1, <2>2 DEF MailOrder
<1>8. Shapes'
  BY <1>1, <1>2, <1>3 DEF JobInv, Shapes
<1>9. ~Job!HasJob(w)' /\ DOMAIN jq_wbox'[w] = {}
  BY <1>4 DEF Job!HasJob
<1>10. Tracked'
  <2>1. jq_worker' \in [Job!Worker -> {"none", "alive", "gone", "panicked"}] /\ w < jq_nextWorker
    BY <1>1, <1>5, JobActsStarted DEF Job!TypeOK
  <2>2. Bare(w) => Bare(w)'
    BY <1>1, <1>6, <1>9 DEF Bare
  <2>3. Job!Expected("finished", w)' => jq_inFlight[w] # Job!NoJob
    BY <1>6 DEF JobInv, Job!JobsTracked
  <2>4. QED BY <1>1, <1>4, <1>6, <1>9, <2>1, <2>2, <2>3, JobWorkerMoves DEF JobInv, Tracked
<1>11. Job!EndsAnnounced'
  <2>1. \A v \in jq_all : jq_worker'[v] = "gone" => Job!Expected("down", v)'
    BY <1>4, <1>6 DEF JobInv, Job!EndsAnnounced, Job!TypeOK
  <2>2. QED BY <1>1, <2>1 DEF Job!EndsAnnounced
<1>12. Job!JobsKept'
  BY <1>1, <1>6, JobKeptByWorkers
<1>13. QED BY <1>5, <1>7, <1>8, <1>10, <1>11, <1>12 DEF JobInv, Tracked

LEMMA JobInitOK == Job!Init => JobInv
<1> SUFFICES ASSUME Job!Init PROVE JobInv
  OBVIOUS
<1>1. 1 \in Job!Worker /\ (\A w \in Job!Worker : w >= 2 => w # 1) /\ 2 \in 2 .. MaxWorkers + 1
  BY JobAssumption DEF Job!Worker
<1>2. Job!TypeOK
  <2>1. jq_pending \in Seq(Job!Job) /\ jq_batch \in Seq(Job!Job) /\ jq_idle \in Seq(Job!Worker) /\ jq_mailbox \in Seq(Job!Message)
    BY <1>1 DEF Job!Init
  <2>2. /\ jq_inFlight \in [Job!Worker -> Job!Job \cup {Job!NoJob}] /\ jq_working \in [Job!Worker -> Job!Job \cup {Job!NoJob}]
        /\ jq_worker \in [Job!Worker -> {"none", "alive", "gone", "panicked"}]
        /\ jq_wbox \in [Job!Worker -> Seq(Job!Job \cup {Job!StopMessage})]
    <3>1. <<>> \in Seq(Job!Job \cup {Job!StopMessage})
      OBVIOUS
    <3>2. QED BY <3>1 DEF Job!Init
  <2>3. jq_nextJob \in 1 .. MaxJobs + 1 /\ jq_nextWorker \in 2 .. MaxWorkers + 1 /\ jq_commands \in 0 .. MaxJobCommands
    BY <1>1, JobAssumption DEF Job!Init
  <2>4. QED BY <1>1, <2>1, <2>2, <2>3 DEF Job!Init, Job!TypeOK
<1>3. DOMAIN jq_mailbox = {} /\ \A w \in Job!Worker : DOMAIN jq_wbox[w] = {} /\ Bare(w)
  <2>1. DOMAIN jq_mailbox = {} /\ \A w \in Job!Worker : DOMAIN jq_wbox[w] = {}
    BY DEF Job!Init
  <2>2. QED BY <2>1 DEF Job!Init, Bare, Job!HasJob, Job!Expected
<1>4. IdleBare /\ Fresh /\ GoneBare
  BY <1>1, <1>3 DEF Job!Init, IdleBare, Fresh, GoneBare, Bare
<1>5. MailOrder /\ Shapes
  BY <1>3 DEF MailOrder, Shapes
<1>6. Job!EndsAnnounced
  BY <1>1 DEF Job!Init, Job!EndsAnnounced
<1>7. Job!JobsKept
  BY DEF Job!Init, Job!JobsKept
<1>8. Job!JobsTracked
  <2>1. DOMAIN jq_idle = {1} /\ jq_idle[1] = 1
    BY DEF Job!Init
  <2>2. \A w \in Job!Worker : jq_working[w] = Job!NoJob /\ jq_inFlight[w] = Job!NoJob /\ ~Job!Expected("finished", w)
    BY <1>3 DEF Bare
  <2>3. QED BY <1>1, <1>3, <2>1, <2>2 DEF Job!JobsTracked
<1>9. QED BY <1>2, <1>4, <1>5, <1>6, <1>7, <1>8 DEF JobInv

LEMMA JobStutterOK == ASSUME JobInv, UNCHANGED Job!vars PROVE JobInv'
<1>1. UNCHANGED <<jq_pending, jq_batch, jq_inFlight, jq_idle, jq_all, jq_dispatching, jq_mailbox, jq_worker, jq_wbox, jq_working, jq_timers, jq_dead, jq_refused, jq_done, jq_lost,
                  jq_nextJob, jq_nextWorker, jq_commands>>
  BY DEF Job!vars, Job!queueVars, Job!workerVars, Job!fates, Job!counters
<1>2. Job!TypeOK'
  BY <1>1 DEF JobInv, Job!TypeOK
<1>3. Tracked' /\ Job!EndsAnnounced' /\ MailOrder' /\ Shapes'
  BY <1>1, JobMailQuiet, JobWorkersQuiet, JobNoticesQuiet DEF JobInv, Tracked
<1>4. Job!JobsKept'
  <2>1. \A j : Mailed(j) => Mailed(j)'
    BY <1>1 DEF Mailed
  <2>2. QED BY <1>1, <2>1, JobKeptByWorkers
<1>5. QED BY <1>2, <1>3, <1>4 DEF JobInv, Tracked

LEMMA JobStepOK == JobInv /\ [Job!Next]_(Job!vars) => JobInv'
<1> SUFFICES ASSUME JobInv, [Job!Next]_(Job!vars) PROVE JobInv'
  OBVIOUS
<1>1. ASSUME NEW w \in Job!Worker, NEW ok \in BOOLEAN,
             Job!StopWorker(w) \/ Job!WorkerEnds(w) \/ Job!Process(w) \/ Job!WorkerPanics(w) \/ Job!Finish(w, ok)
      PROVE  JobInv'
  BY <1>1, JobStopWorkerOK, JobWorkerEndsOK, JobProcessOK, JobWorkerPanicsOK, JobFinishOK
<1>2. ASSUME Job!Enqueue \/ Job!DispatchDead \/ Job!DispatchJob \/ Job!DispatchEnds PROVE JobInv'
  BY <1>2, JobEnqueueOK, JobDispatchDeadOK, JobDispatchJobOK, JobDispatchEndsOK
<1>3. ASSUME Job!HandleEnqueue \/ Job!HandleJobFinished \/ Job!HandleAddWorker \/ Job!HandleRemoveWorker \/ Job!HandleDown \/ Job!IgnoreRetry
      PROVE  JobInv'
  BY <1>3, JobHandleEnqueueOK, JobHandleJobFinishedOK, JobHandleAddWorkerOK, JobHandleRemoveWorkerOK, JobHandleDownOK, JobIgnoreRetryOK
<1>4. ASSUME Job!Produce \/ Job!Command \/ \E job \in jq_timers : Job!TimerFires(job) PROVE JobInv'
  BY <1>4, JobProduceOK, JobCommandOK, JobTimerFiresOK
<1>5. QED BY <1>1, <1>2, <1>3, <1>4, JobStutterOK DEF Job!Next

LEMMA JobInFocus == JobInv /\ [ServicesNext]_servicesVars => JobInv'
<1>1. ServicesNext => Job!Next \/ UNCHANGED jqVars
  BY DEF ServicesNext
<1>2. UNCHANGED servicesVars => UNCHANGED jqVars
  BY DEF servicesVars
<1>3. UNCHANGED jqVars => UNCHANGED Job!vars
  BY DEF jqVars, Job!vars, Job!queueVars, Job!workerVars, Job!fates, Job!counters
<1>4. QED BY <1>1, <1>2, <1>3, JobStepOK

(* job_queue: the queue knows what each worker is at, hears of every one that    *)
(* ends, and a job that was made is lost in no other way than as a retry.        *)
THEOREM JobsCorrect == ServicesSpec => []JobsSafe
<1>1. ServicesInit => JobInv
  BY JobInitOK DEF ServicesInit
<1>2. JobInv => JobsSafe
  BY DEF JobInv, JobsSafe
<1>3. QED BY <1>1, <1>2, JobInFocus, PTL DEF ServicesSpec

-----------------------------------------------------------------------------
(* The applications.                                                       *)
(*                                                                         *)
(* An order in which applications can be started: each is there once, and  *)
(* what it depends on is there before it.                                  *)
Ordered(s) ==
    /\ \A i \in DOMAIN s : s[i] \in ap_registered
    /\ \A i, j \in DOMAIN s : s[i] = s[j] => i = j
    /\ \A i \in DOMAIN s : \A d \in Appl!ToSet(ap_spec[s[i]]) : \E j \in 1 .. i - 1 : s[j] = d
Resolvable(a) == \E s \in Seq(App) : Ordered(s) /\ Appl!Contains(s, a)

Calm ==
    /\ ap_resolver = Appl!NoUser => ap_roots = {} /\ ap_path = <<>> /\ ap_order = <<>>
    /\ ap_resolver # Appl!NoUser => ap_doing[ap_resolver] \in {"start", "stop_all"}
    /\ ap_resolver # Appl!NoUser /\ ap_doing[ap_resolver] = "start" =>
          IF ap_path = <<>> THEN \A a, b \in ap_roots : a = b ELSE ap_roots = {}
    /\ \A u \in User : ap_doing[u] = "idle" \/ ap_resolver = u => ap_todo[u] = <<>> /\ ap_launching[u] = Appl!NoApp

(* What is on the path is not in the order yet, and each dependency of it  *)
(* is, or is left, or is the next on the path.                             *)
OnPath ==
    /\ \A i, j \in DOMAIN ap_path : ap_path[i] = ap_path[j] => i = j
    /\ \A i \in DOMAIN ap_path : ~Appl!Contains(ap_order, ap_path[i]) /\ ap_path[i] \in ap_registered
    /\ \A i \in DOMAIN ap_path : \A d \in Appl!ToSet(ap_spec[ap_path[i]]) :
          Appl!Contains(ap_order, d) \/ Appl!Contains(ap_left[ap_path[i]], d) \/ (i < Len(ap_path) /\ d = ap_path[i + 1])
    /\ \A i \in DOMAIN ap_path : Appl!ToSet(ap_left[ap_path[i]]) \subseteq Appl!ToSet(ap_spec[ap_path[i]])

(* In an order of what it began with, the path goes down: it meets no ring *)
(* when it begins with what runs.                                          *)
Descends(s) ==
    /\ \A i \in DOMAIN ap_path : Appl!Contains(s, ap_path[i])
    /\ \A i, j \in DOMAIN ap_path : i < j => \A p, q \in DOMAIN s : s[p] = ap_path[i] /\ s[q] = ap_path[j] => q < p
Reaches ==
    ap_resolver # Appl!NoUser /\ ap_doing[ap_resolver] = "stop_all" =>
        /\ ap_roots \subseteq ap_up
        /\ \A a \in ap_up : a \in ap_roots \/ Appl!Contains(ap_order, a) \/ (ap_path # <<>> /\ ap_path[1] = a)
        /\ ap_path # <<>> => \E s \in Seq(App) : Ordered(s) /\ Descends(s)

(* What a start has yet to launch comes in an order, but for what has begun. *)
Ahead ==
    \A u \in User :
        /\ \A a \in App :
              /\ ap_launching[u] = a => ap_doing[u] = "start" /\ Resolvable(a) /\ Appl!ToSet(ap_spec[a]) \subseteq ap_began
              /\ ap_doing[u] = "start" /\ Appl!Contains(ap_todo[u], a) => Resolvable(a)
        /\ ap_doing[u] = "start" => \A i \in DOMAIN ap_todo[u] : \A d \in Appl!ToSet(ap_spec[ap_todo[u][i]]) :
              d \in ap_began \/ ap_launching[u] = d \/ \E j \in 1 .. i - 1 : ap_todo[u][j] = d
Known == ap_up \subseteq ap_began /\ \A a \in ap_began : Resolvable(a)
AppInv == Appl!TypeOK /\ Ordered(ap_order) /\ Calm /\ OnPath /\ Reaches /\ Ahead /\ Known

LEMMA AppTypes ==
    ASSUME Appl!TypeOK
    PROVE  /\ ap_path \in Seq(App) /\ ap_order \in Seq(App)
           /\ \A a \in App : ap_spec[a] \in Seq(App) /\ ap_left[a] \in Seq(App)
           /\ \A u \in User : ap_todo[u] \in Seq(App) /\ ap_launching[u] \in App \cup {Appl!NoApp}
           /\ Appl!NoApp \notin App /\ Appl!NoUser \notin User
  BY ApplicationAssumption DEF Appl!TypeOK

LEMMA AppElements ==
    ASSUME NEW s \in Seq(App)
    PROVE  /\ Len(s) \in Nat /\ DOMAIN s = 1 .. Len(s)
           /\ \A i \in DOMAIN s : s[i] \in App /\ s[i] \in Appl!ToSet(s) /\ Appl!Contains(s, s[i])
           /\ \A x : Appl!Contains(s, x) <=> \E i \in DOMAIN s : s[i] = x
           /\ \A x : x \in Appl!ToSet(s) <=> \E i \in DOMAIN s : s[i] = x
           /\ \A x : Appl!Contains(s, x) <=> x \in Appl!ToSet(s)
           /\ Appl!ToSet(s) \subseteq App
<1>1. Len(s) \in Nat /\ DOMAIN s = 1 .. Len(s) /\ \A i \in DOMAIN s : s[i] \in App
  OBVIOUS
<1>2. \A x : Appl!Contains(s, x) <=> \E i \in DOMAIN s : s[i] = x
  BY <1>1 DEF Appl!Contains
<1>3. \A x : x \in Appl!ToSet(s) <=> \E i \in DOMAIN s : s[i] = x
  BY <1>1 DEF Appl!ToSet
<1>4. QED BY <1>1, <1>2, <1>3

LEMMA AppendOf ==
    ASSUME NEW s \in Seq(App), NEW a \in App
    PROVE  /\ Append(s, a) \in Seq(App) /\ Len(Append(s, a)) = Len(s) + 1 /\ DOMAIN Append(s, a) = 1 .. Len(s) + 1
           /\ \A i \in DOMAIN s : Append(s, a)[i] = s[i] /\ i \in DOMAIN Append(s, a)
           /\ \A i \in DOMAIN Append(s, a) : i \in DOMAIN s \/ i = Len(s) + 1
           /\ Append(s, a)[Len(s) + 1] = a /\ Append(s, a) # <<>>
           /\ Appl!Last(Append(s, a)) = a
           /\ \A x : Appl!Contains(Append(s, a), x) <=> Appl!Contains(s, x) \/ x = a
<1>1. /\ Append(s, a) \in Seq(App) /\ Len(Append(s, a)) = Len(s) + 1 /\ DOMAIN Append(s, a) = 1 .. Len(s) + 1
      /\ DOMAIN s = 1 .. Len(s) /\ Len(s) \in Nat
      /\ \A i \in DOMAIN s : Append(s, a)[i] = s[i]
      /\ Append(s, a)[Len(s) + 1] = a /\ Append(s, a) # <<>>
  OBVIOUS
<1>2. /\ \A i \in DOMAIN Append(s, a) : i \in DOMAIN s \/ i = Len(s) + 1
      /\ \A i \in DOMAIN s : i \in DOMAIN Append(s, a)
      /\ Len(s) + 1 \in DOMAIN Append(s, a)
  BY <1>1
<1>3. \A x : Appl!Contains(Append(s, a), x) <=> Appl!Contains(s, x) \/ x = a
  <2>1. \A x : Appl!Contains(Append(s, a), x) <=> \E i \in DOMAIN Append(s, a) : Append(s, a)[i] = x
    BY <1>1, AppElements
  <2>2. \A x : Appl!Contains(s, x) <=> \E i \in DOMAIN s : s[i] = x
    BY AppElements
  <2>3. QED BY <1>1, <1>2, <2>1, <2>2
<1>4. Appl!Last(Append(s, a)) = a
  BY <1>1 DEF Appl!Last
<1>5. QED BY <1>1, <1>2, <1>3, <1>4

LEMMA AppTailOf ==
    ASSUME NEW s \in Seq(App), s # <<>>
    PROVE  /\ Tail(s) \in Seq(App) /\ Head(s) \in App /\ Head(s) = s[1] /\ 1 \in DOMAIN s
           /\ DOMAIN Tail(s) = 1 .. Len(s) - 1
           /\ \A i \in DOMAIN Tail(s) : Tail(s)[i] = s[i + 1] /\ i + 1 \in DOMAIN s
           /\ \A x : Appl!Contains(s, x) <=> Appl!Contains(Tail(s), x) \/ x = Head(s)
<1>1. /\ Tail(s) \in Seq(App) /\ Head(s) \in App /\ Head(s) = s[1] /\ 1 \in DOMAIN s
      /\ DOMAIN Tail(s) = 1 .. Len(s) - 1 /\ DOMAIN s = 1 .. Len(s) /\ Len(s) \in Nat
      /\ \A i \in DOMAIN Tail(s) : Tail(s)[i] = s[i + 1]
  OBVIOUS
<1>2. /\ \A i \in DOMAIN Tail(s) : i + 1 \in DOMAIN s
      /\ \A i \in DOMAIN s : i = 1 \/ (i - 1 \in DOMAIN Tail(s) /\ Tail(s)[i - 1] = s[i])
  BY <1>1
<1>3. /\ \A x : Appl!Contains(s, x) <=> \E i \in DOMAIN s : s[i] = x
      /\ \A x : Appl!Contains(Tail(s), x) <=> \E i \in DOMAIN Tail(s) : Tail(s)[i] = x
  BY <1>1, AppElements
<1>4. \A x : Appl!Contains(s, x) <=> Appl!Contains(Tail(s), x) \/ x = Head(s)
  BY <1>1, <1>2, <1>3
<1>5. QED BY <1>1, <1>2, <1>4

LEMMA AppFrontOf ==
    ASSUME NEW s \in Seq(App), s # <<>>
    PROVE  /\ Appl!Front(s) \in Seq(App) /\ Appl!Last(s) \in App /\ Appl!Last(s) = s[Len(s)] /\ Len(s) \in DOMAIN s
           /\ DOMAIN Appl!Front(s) = 1 .. Len(s) - 1 /\ Len(Appl!Front(s)) = Len(s) - 1
           /\ \A i \in DOMAIN Appl!Front(s) : Appl!Front(s)[i] = s[i] /\ i \in DOMAIN s /\ i # Len(s)
           /\ \A i \in DOMAIN s : i = Len(s) \/ i \in DOMAIN Appl!Front(s)
<1>1. Len(s) \in Nat /\ DOMAIN s = 1 .. Len(s) /\ Len(s) # 0 /\ \A i \in DOMAIN s : s[i] \in App
  OBVIOUS
<1>2. Appl!Front(s) = SubSeq(s, 1, Len(s) - 1)
  BY DEF Appl!Front
<1>3. /\ Appl!Front(s) \in Seq(App) /\ Len(Appl!Front(s)) = Len(s) - 1 /\ DOMAIN Appl!Front(s) = 1 .. Len(s) - 1
      /\ \A i \in 1 .. Len(s) - 1 : Appl!Front(s)[i] = s[i]
  BY <1>1, <1>2
<1>4. QED BY <1>1, <1>3 DEF Appl!Last

LEMMA AppReverseOf ==
    ASSUME NEW s \in Seq(App)
    PROVE  /\ Appl!Reverse(s) \in Seq(App) /\ DOMAIN Appl!Reverse(s) = DOMAIN s
           /\ \A i \in DOMAIN s : Appl!Reverse(s)[i] = s[Len(s) - i + 1] /\ Len(s) - i + 1 \in DOMAIN s
           /\ \A x : Appl!Contains(Appl!Reverse(s), x) <=> Appl!Contains(s, x)
<1>1. Len(s) \in Nat /\ DOMAIN s = 1 .. Len(s) /\ \A i \in DOMAIN s : s[i] \in App
  OBVIOUS
<1>2. \A i \in 1 .. Len(s) : Len(s) - i + 1 \in 1 .. Len(s) /\ Len(s) - (Len(s) - i + 1) + 1 = i
  BY <1>1
<1>3. Appl!Reverse(s) = [i \in 1 .. Len(s) |-> s[(Len(s) - i) + 1]]
  BY DEF Appl!Reverse
<1>4. Appl!Reverse(s) \in Seq(App) /\ DOMAIN Appl!Reverse(s) = 1 .. Len(s)
      /\ \A i \in 1 .. Len(s) : Appl!Reverse(s)[i] = s[Len(s) - i + 1]
  BY <1>1, <1>2, <1>3
<1>5. /\ \A x : Appl!Contains(s, x) <=> \E i \in DOMAIN s : s[i] = x
      /\ \A x : Appl!Contains(Appl!Reverse(s), x) <=> \E i \in DOMAIN Appl!Reverse(s) : Appl!Reverse(s)[i] = x
  BY <1>4, AppElements
<1>6. ASSUME NEW x, NEW i \in DOMAIN s, s[i] = x PROVE \E j \in DOMAIN Appl!Reverse(s) : Appl!Reverse(s)[j] = x
  <2>1. Len(s) - i + 1 \in DOMAIN Appl!Reverse(s) /\ Appl!Reverse(s)[Len(s) - i + 1] = s[i]
    BY <1>1, <1>2, <1>4
  <2>2. QED BY <1>6, <2>1
<1>7. QED BY <1>1, <1>2, <1>4, <1>5, <1>6

LEMMA AppSpecQuiet ==
    ASSUME UNCHANGED <<ap_spec, ap_registered>>
    PROVE  /\ \A s : Ordered(s)' = Ordered(s)
           /\ \A a : Resolvable(a)' = Resolvable(a)
  BY DEF Ordered, Resolvable

(* Nothing is visited, and no visit begins. *)
LEMMA AppResting ==
    ASSUME Calm, ap_resolver = Appl!NoUser, UNCHANGED <<ap_spec, ap_registered, Appl!visitVars>>
    PROVE  Ordered(ap_order)' /\ OnPath' /\ Reaches' /\ ap_path' = <<>> /\ ap_order' = <<>> /\ ap_roots' = {}
<1>1. ap_resolver' = Appl!NoUser /\ ap_order' = <<>> /\ ap_path' = <<>> /\ ap_roots' = {}
  BY DEF Calm, Appl!visitVars
<1>2. QED BY <1>1 DEF Ordered, OnPath, Reaches

(* A visit leaves alone what the calls have to do. *)
LEMMA AppVisiting ==
    ASSUME Ahead, Known, UNCHANGED <<ap_spec, ap_registered, ap_up, ap_began, ap_todo, ap_launching>>,
           \A u \in User : ap_doing'[u] = "start" \/ ap_launching[u] # Appl!NoApp => ap_doing'[u] = ap_doing[u],
           \A u \in User : ap_launching[u] = Appl!NoApp \/ ap_launching[u] \in App, Appl!NoApp \notin App
    PROVE  Ahead' /\ Known'
<1>1. \A a : Resolvable(a)' = Resolvable(a)
  BY AppSpecQuiet
<1>2. Known'
  BY <1>1 DEF Known
<1>3. Ahead'
  BY <1>1 DEF Ahead
<1>4. QED BY <1>2, <1>3

LEMMA AppInitOK == Appl!Init => AppInv
<1> SUFFICES ASSUME Appl!Init PROVE AppInv
  OBVIOUS
<1>1. Appl!TypeOK
  BY ApplicationAssumption DEF Appl!Init, Appl!TypeOK
<1>2. Ordered(ap_order) /\ OnPath /\ Reaches /\ Calm
  BY DEF Appl!Init, Ordered, OnPath, Reaches, Calm
<1>3. Known
  BY DEF Appl!Init, Known
<1>4. Ahead
  <2>1. \A u \in User : ap_doing[u] # "start" /\ \A a \in App : ap_launching[u] # a
    BY ApplicationAssumption DEF Appl!Init
  <2>2. QED BY <2>1 DEF Ahead
<1>5. QED BY <1>1, <1>2, <1>3, <1>4 DEF AppInv

(* The name a visit comes to. *)
LEMMA AppVisits ==
    ASSUME AppInv, NEW a \in App, Appl!Visits(a)
    PROVE  /\ ap_resolver \in User /\ ap_doing[ap_resolver] \in {"start", "stop_all"}
           /\ Appl!Others \in [App -> Seq(App)]
           /\ ap_roots' \subseteq ap_roots /\ (ap_path # <<>> => ap_roots' = ap_roots)
           /\ \A b \in ap_roots : b \in ap_roots' \/ (ap_path = <<>> /\ b = a)
           /\ ap_path = <<>> => a \in ap_roots
           /\ ap_path # <<>> => Appl!Contains(ap_spec[Appl!Last(ap_path)], a)
           /\ \A i \in DOMAIN ap_path : ap_path[i] \in App /\ Appl!ToSet(Appl!Others[ap_path[i]]) \subseteq Appl!ToSet(ap_spec[ap_path[i]])
           /\ \A i \in DOMAIN ap_path : \A d : Appl!Contains(ap_left[ap_path[i]], d) =>
                 Appl!Contains(Appl!Others[ap_path[i]], d) \/ (d = a /\ i = Len(ap_path))
<1>1. ap_resolver \in User /\ ap_doing[ap_resolver] \in {"start", "stop_all"}
  BY DEF AppInv, Appl!TypeOK, Calm, Appl!Visits
<1>2. ap_roots' \subseteq ap_roots /\ (ap_path # <<>> => ap_roots' = ap_roots)
      /\ (\A b \in ap_roots : b \in ap_roots' \/ (ap_path = <<>> /\ b = a))
      /\ (ap_path = <<>> => a \in ap_roots)
  BY DEF Appl!Visits
<1>3. CASE ap_path = <<>>
  <2>1. Appl!Others = ap_left /\ DOMAIN ap_path = {}
    BY <1>3 DEF Appl!Others
  <2>2. QED BY <1>1, <1>2, <1>3, <2>1 DEF AppInv, Appl!TypeOK
<1>4. CASE ap_path # <<>>
  <2> DEFINE x == Appl!Last(ap_path)
  <2>1. ap_path \in Seq(App) /\ x \in App /\ x = ap_path[Len(ap_path)] /\ Len(ap_path) \in DOMAIN ap_path
    BY <1>4, AppFrontOf DEF AppInv, Appl!TypeOK
  <2>2. ap_left[x] \in Seq(App) /\ ap_left[x] # <<>> /\ a = Head(ap_left[x])
    BY <1>4, <2>1 DEF AppInv, Appl!TypeOK, Appl!Visits
  <2>3. Tail(ap_left[x]) \in Seq(App) /\ \A d : Appl!Contains(ap_left[x], d) <=> Appl!Contains(Tail(ap_left[x]), d) \/ d = a
    BY <2>2, AppTailOf
  <2>4. Appl!Others = [ap_left EXCEPT ![x] = Tail(ap_left[x])]
    BY <1>4 DEF Appl!Others
  <2> HIDE DEF x
  <2>5. /\ Appl!Others \in [App -> Seq(App)] /\ Appl!Others[x] = Tail(ap_left[x])
        /\ \A b \in App : b # x => Appl!Others[b] = ap_left[b]
    BY <2>1, <2>3, <2>4 DEF AppInv, Appl!TypeOK
  <2>6. \A i \in DOMAIN ap_path : ap_path[i] \in App /\ (ap_path[i] = x => i = Len(ap_path))
    BY <2>1, AppElements DEF AppInv, OnPath
  <2>7. \A i \in DOMAIN ap_path : ap_left[ap_path[i]] \in Seq(App) /\ Appl!ToSet(ap_left[ap_path[i]]) \subseteq Appl!ToSet(ap_spec[ap_path[i]])
    BY <2>6, AppTypes DEF AppInv, OnPath
  <2>8. Appl!ToSet(Tail(ap_left[x])) \subseteq Appl!ToSet(ap_left[x]) /\ Appl!Contains(ap_left[x], a) /\ a \in Appl!ToSet(ap_left[x])
    BY <2>2, <2>3, AppElements
  <2>9. Appl!Contains(ap_spec[x], a)
    BY <2>1, <2>7, <2>8, AppTypes, AppElements DEF AppInv
  <2>10. \A i \in DOMAIN ap_path : Appl!ToSet(Appl!Others[ap_path[i]]) \subseteq Appl!ToSet(ap_spec[ap_path[i]])
    BY <2>1, <2>5, <2>6, <2>7, <2>8
  <2>11. \A i \in DOMAIN ap_path : \A d : Appl!Contains(ap_left[ap_path[i]], d) =>
                 Appl!Contains(Appl!Others[ap_path[i]], d) \/ (d = a /\ i = Len(ap_path))
    BY <2>3, <2>5, <2>6
  <2>12. QED BY <1>1, <1>2, <1>4, <2>5, <2>6, <2>9, <2>10, <2>11 DEF x
<1>5. QED BY <1>3, <1>4

LEMMA AppSkipVisitedOK == ASSUME AppInv, NEW a \in App, Appl!SkipVisited(a) PROVE AppInv'
<1>1. /\ Appl!Visits(a) /\ Appl!Contains(ap_order, a) /\ ap_left' = Appl!Others
      /\ UNCHANGED <<ap_spec, ap_registered, ap_up, ap_began, ap_todo, ap_doing, ap_launching, ap_appCalls, ap_resolver, ap_path, ap_order>>
  BY DEF Appl!SkipVisited, Appl!callVars
<1>2. Appl!TypeOK'
  BY <1>1, AppVisits DEF AppInv, Appl!TypeOK
<1>3. Ordered(ap_order)'
  BY <1>1 DEF AppInv, Ordered
<1>4. Calm'
  BY <1>1, AppVisits DEF AppInv, Calm, Appl!Visits
<1>5. OnPath'
  <2> DEFINE Kept(i) == Appl!Others[ap_path[i]]
  <2>1. \A i \in DOMAIN ap_path :
            /\ Appl!ToSet(Kept(i)) \subseteq Appl!ToSet(ap_spec[ap_path[i]])
            /\ \A d : Appl!Contains(ap_left[ap_path[i]], d) => Appl!Contains(Kept(i), d) \/ d = a
            /\ ap_left'[ap_path[i]] = Kept(i)
    BY <1>1, AppVisits
  <2> HIDE DEF Kept
  <2>2. \A i \in DOMAIN ap_path : \A d \in Appl!ToSet(ap_spec[ap_path[i]]) :
            Appl!Contains(ap_order, d) \/ Appl!Contains(ap_left'[ap_path[i]], d) \/ (i < Len(ap_path) /\ d = ap_path[i + 1])
    BY <1>1, <2>1 DEF AppInv, OnPath
  <2>3. \A i \in DOMAIN ap_path : Appl!ToSet(ap_left'[ap_path[i]]) \subseteq Appl!ToSet(ap_spec[ap_path[i]])
    BY <2>1
  <2>4. QED BY <1>1, <2>2, <2>3 DEF AppInv, OnPath
<1>6. Reaches'
  <2>1. \A s : Ordered(s)' = Ordered(s) /\ Descends(s)' = Descends(s)
    BY <1>1, AppSpecQuiet DEF Descends
  <2>2. QED BY <1>1, <2>1, AppVisits DEF AppInv, Reaches
<1>7. Ahead' /\ Known'
  BY <1>1, AppVisiting, AppTypes DEF AppInv
<1>8. QED BY <1>2, <1>3, <1>4, <1>5, <1>6, <1>7 DEF AppInv

(* In an order what it depends on comes before an application. *)
LEMMA AppBelow ==
    ASSUME NEW s \in Seq(App), Ordered(s), Appl!TypeOK, NEW x \in App, NEW a \in App,
           Appl!Contains(s, x), Appl!Contains(ap_spec[x], a)
    PROVE  /\ a \in ap_registered /\ Appl!Contains(s, a)
           /\ \A p, q \in DOMAIN s : s[p] = x /\ s[q] = a => q < p
<1>1. DOMAIN s = 1 .. Len(s) /\ Len(s) \in Nat
  BY AppElements
<1>2. PICK i \in DOMAIN s : s[i] = x
  BY AppElements
<1>3. a \in Appl!ToSet(ap_spec[x])
  BY AppTypes, AppElements
<1>4. PICK j \in 1 .. i - 1 : s[j] = a
  BY <1>2, <1>3 DEF Ordered
<1>5. j \in DOMAIN s /\ j < i
  BY <1>1, <1>4
<1>6. QED BY <1>2, <1>4, <1>5, AppElements DEF Ordered

(* The path of stop_all() goes on downwards. *)
LEMMA AppDeeper ==
    ASSUME AppInv, NEW a \in App, Appl!Visits(a), ap_doing[ap_resolver] = "stop_all"
    PROVE  \E s \in Seq(App) :
              /\ Ordered(s) /\ Descends(s) /\ Appl!Contains(s, a) /\ a \in ap_registered
              /\ \A i \in DOMAIN ap_path : \A p, q \in DOMAIN s : s[p] = ap_path[i] /\ s[q] = a => q < p
<1>1. ap_resolver # Appl!NoUser
  BY DEF Appl!Visits
<1>2. CASE ap_path = <<>>
  <2>1. a \in ap_up /\ Resolvable(a)
    BY <1>1, <1>2, AppVisits DEF AppInv, Reaches, Known
  <2>2. PICK s \in Seq(App) : Ordered(s) /\ Appl!Contains(s, a)
    BY <2>1 DEF Resolvable
  <2>3. a \in ap_registered
    BY <2>2, AppElements DEF Ordered
  <2>4. QED BY <1>2, <2>2, <2>3 DEF Descends
<1>3. CASE ap_path # <<>>
  <2>1. PICK s \in Seq(App) : Ordered(s) /\ Descends(s)
    BY <1>1, <1>3 DEF AppInv, Reaches
  <2>2. Appl!Last(ap_path) = ap_path[Len(ap_path)] /\ Len(ap_path) \in DOMAIN ap_path /\ Appl!Last(ap_path) \in App /\ Appl!Contains(ap_spec[Appl!Last(ap_path)], a)
        /\ DOMAIN ap_path = 1 .. Len(ap_path) /\ Len(ap_path) \in Nat
    BY <1>3, AppFrontOf, AppVisits, AppElements DEF AppInv, Appl!TypeOK
  <2>3. Appl!Contains(s, Appl!Last(ap_path))
    BY <2>1, <2>2 DEF Descends
  <2>4. /\ a \in ap_registered /\ Appl!Contains(s, a)
        /\ \A p, q \in DOMAIN s : s[p] = Appl!Last(ap_path) /\ s[q] = a => q < p
    BY <2>1, <2>2, <2>3, AppBelow DEF AppInv
  <2>5. ASSUME NEW i \in DOMAIN ap_path, NEW p \in DOMAIN s, NEW q \in DOMAIN s, s[p] = ap_path[i], s[q] = a
        PROVE  q < p
    <3>1. CASE i = Len(ap_path)
      BY <2>2, <2>4, <2>5, <3>1
    <3>2. CASE i < Len(ap_path)
      <4>1. PICK m \in DOMAIN s : s[m] = Appl!Last(ap_path)
        BY <2>3, AppElements
      <4>2. m < p /\ q < m
        BY <2>1, <2>2, <2>4, <2>5, <3>2, <4>1 DEF Descends
      <4>3. p \in Nat /\ q \in Nat /\ m \in Nat
        BY AppElements
      <4>4. QED BY <4>2, <4>3
    <3>3. QED BY <2>2, <3>1, <3>2
  <2>6. QED BY <2>1, <2>4, <2>5
<1>4. QED BY <1>2, <1>3

LEMMA AppVisitOK == ASSUME AppInv, NEW a \in App, Appl!Visit(a) PROVE AppInv'
<1>1. /\ Appl!Visits(a) /\ ~Appl!Contains(ap_order, a) /\ ~Appl!Contains(ap_path, a) /\ a \in ap_registered
      /\ ap_path' = Append(ap_path, a) /\ ap_left' = [Appl!Others EXCEPT ![a] = ap_spec[a]]
      /\ UNCHANGED <<ap_spec, ap_registered, ap_up, ap_began, ap_todo, ap_doing, ap_launching, ap_appCalls, ap_resolver, ap_order>>
  BY DEF Appl!Visit, Appl!callVars
<1>2. ap_path \in Seq(App) /\ ap_order \in Seq(App) /\ ap_spec[a] \in Seq(App) /\ ap_resolver # Appl!NoUser
  BY <1>1, AppTypes DEF AppInv, Appl!Visits
<1>3. /\ ap_path' \in Seq(App) /\ Len(ap_path') = Len(ap_path) + 1 /\ ap_path' # <<>>
      /\ \A i \in DOMAIN ap_path : ap_path'[i] = ap_path[i] /\ i \in DOMAIN ap_path'
      /\ \A i \in DOMAIN ap_path' : i \in DOMAIN ap_path \/ i = Len(ap_path) + 1
      /\ ap_path'[Len(ap_path) + 1] = a
      /\ DOMAIN ap_path = 1 .. Len(ap_path) /\ Len(ap_path) \in Nat
  BY <1>1, <1>2, AppendOf, AppElements
<1>4. Appl!TypeOK'
  BY <1>1, <1>2, <1>3, AppVisits DEF AppInv, Appl!TypeOK
<1>5. Ordered(ap_order)'
  <2>1. UNCHANGED <<ap_spec, ap_registered, ap_order>>
    BY <1>1
  <2>2. QED BY <2>1 DEF AppInv, Ordered
<1>6. Calm'
  <2>1. ap_doing[ap_resolver] = "start" => ap_roots' = {}
    BY <1>1, <1>2 DEF AppInv, Calm, Appl!Visits
  <2>2. QED BY <1>1, <1>2, <1>3, <2>1 DEF AppInv, Calm
<1>7. \A i \in DOMAIN ap_path : ap_path[i] # a /\ ap_path[i] \in App
  BY <1>1, <1>2, AppElements
<1>8. ap_left'[a] = ap_spec[a] /\ \A i \in DOMAIN ap_path : ap_left'[ap_path[i]] = Appl!Others[ap_path[i]]
  BY <1>1, <1>7, AppVisits
<1>9. OnPath'
  <2> DEFINE Kept(i) == Appl!Others[ap_path[i]]
  <2>7. \A i \in DOMAIN ap_path :
            /\ Appl!ToSet(Kept(i)) \subseteq Appl!ToSet(ap_spec[ap_path[i]])
            /\ \A d : Appl!Contains(ap_left[ap_path[i]], d) => Appl!Contains(Kept(i), d) \/ (d = a /\ i = Len(ap_path))
            /\ ap_left'[ap_path[i]] = Kept(i)
    BY <1>1, <1>8, AppVisits
  <2> HIDE DEF Kept
  <2>1. \A i, j \in DOMAIN ap_path' : ap_path'[i] = ap_path'[j] => i = j
    BY <1>3, <1>7 DEF AppInv, OnPath
  <2>2. \A i \in DOMAIN ap_path' : ~Appl!Contains(ap_order, ap_path'[i]) /\ ap_path'[i] \in ap_registered
    BY <1>1, <1>3 DEF AppInv, OnPath
  <2>3. ASSUME NEW i \in DOMAIN ap_path, NEW d \in Appl!ToSet(ap_spec[ap_path[i]])
        PROVE  Appl!Contains(ap_order, d) \/ Appl!Contains(ap_left'[ap_path[i]], d) \/ (i < Len(ap_path') /\ d = ap_path'[i + 1])
    <3>1. CASE Appl!Contains(ap_left[ap_path[i]], d)
      BY <1>3, <2>7, <3>1
    <3>2. CASE i < Len(ap_path) /\ d = ap_path[i + 1]
      <4>1. i + 1 \in DOMAIN ap_path
        BY <1>3, <3>2
      <4>2. QED BY <1>3, <3>2, <4>1
    <3>3. QED BY <3>1, <3>2 DEF AppInv, OnPath
  <2>4. \A d \in Appl!ToSet(ap_spec[a]) : Appl!Contains(ap_left'[a], d)
    BY <1>2, <1>8, AppElements
  <2>5. \A i \in DOMAIN ap_path' : Appl!ToSet(ap_left'[ap_path'[i]]) \subseteq Appl!ToSet(ap_spec[ap_path'[i]])
    BY <1>3, <1>8, <2>7
  <2>6. QED BY <1>1, <1>3, <2>1, <2>2, <2>3, <2>4, <2>5 DEF OnPath
<1>10. Reaches'
  <2> SUFFICES ASSUME ap_doing[ap_resolver] = "stop_all"
               PROVE  /\ ap_roots' \subseteq ap_up
                      /\ \A b \in ap_up : b \in ap_roots' \/ Appl!Contains(ap_order, b) \/ ap_path'[1] = b
                      /\ \E s \in Seq(App) : Ordered(s)' /\ Descends(s)'
    BY <1>1, <1>3 DEF Reaches
  <2>1. ap_roots' \subseteq ap_up /\ \A b \in ap_up : b \in ap_roots' \/ Appl!Contains(ap_order, b) \/ ap_path'[1] = b
    <3>1. CASE ap_path = <<>>
      <4>1. ap_path'[1] = a
        BY <1>3, <3>1
      <4>2. QED BY <1>1, <1>2, <3>1, <4>1, AppVisits DEF AppInv, Reaches
    <3>2. CASE ap_path # <<>>
      <4>1. ap_path'[1] = ap_path[1]
        BY <1>2, <1>3, <3>2
      <4>2. QED BY <1>1, <1>2, <3>2, <4>1, AppVisits DEF AppInv, Reaches
    <3>3. QED BY <3>1, <3>2
  <2>2. PICK s \in Seq(App) :
              /\ Ordered(s) /\ Descends(s) /\ Appl!Contains(s, a)
              /\ \A i \in DOMAIN ap_path : \A p, q \in DOMAIN s : s[p] = ap_path[i] /\ s[q] = a => q < p
    BY <1>1, AppDeeper
  <2>3. Ordered(s)'
    BY <1>1, <2>2, AppSpecQuiet
  <2>4. Descends(s)'
    BY <1>3, <2>2 DEF Descends
  <2>5. QED BY <2>1, <2>3, <2>4
<1>11. Ahead' /\ Known'
  BY <1>1, AppVisiting, AppTypes DEF AppInv
<1>12. QED BY <1>4, <1>5, <1>6, <1>9, <1>10, <1>11 DEF AppInv
LEMMA AppVisitFailsOK == ASSUME AppInv, NEW a \in App, Appl!VisitFails(a) PROVE AppInv'
<1>1. /\ Appl!Visits(a)
      /\ Appl!Contains(ap_path, a) \/ (~Appl!Contains(ap_order, a) /\ a \notin ap_registered)
      /\ ap_path' = <<>> /\ ap_left' = [b \in App |-> <<>>]
      /\ UNCHANGED <<ap_spec, ap_registered, ap_up, ap_began, ap_todo, ap_launching, ap_appCalls>>
  BY DEF Appl!VisitFails
<1>2. ap_resolver \in User /\ ap_resolver # Appl!NoUser /\ ap_path \in Seq(App)
  BY <1>1, AppVisits DEF AppInv, Appl!TypeOK, Appl!Visits
<1>3. ap_doing[ap_resolver] # "stop_all"
  <2> SUFFICES ASSUME ap_doing[ap_resolver] = "stop_all" PROVE FALSE
    OBVIOUS
  <2>1. PICK s \in Seq(App) :
              /\ Ordered(s) /\ Descends(s) /\ Appl!Contains(s, a) /\ a \in ap_registered
              /\ \A i \in DOMAIN ap_path : \A p, q \in DOMAIN s : s[p] = ap_path[i] /\ s[q] = a => q < p
    BY <1>1, AppDeeper
  <2>2. PICK i \in DOMAIN ap_path : ap_path[i] = a
    BY <1>1, <1>2, <2>1, AppElements
  <2>3. PICK q \in DOMAIN s : s[q] = a
    BY <2>1, AppElements
  <2>4. q < q /\ q \in Nat
    BY <2>1, <2>2, <2>3, AppElements
  <2>5. QED BY <2>4
<1>4. /\ ap_doing' = [ap_doing EXCEPT ![ap_resolver] = "idle"] /\ ap_doing[ap_resolver] = "start"
      /\ ap_resolver' = Appl!NoUser /\ ap_order' = <<>>
  BY <1>3 DEF Appl!VisitFails
<1>5. ap_roots' = {}
  BY <1>1, <1>2, <1>4 DEF AppInv, Calm, Appl!Visits
<1>6. Appl!TypeOK'
  BY <1>1, <1>2, <1>4, <1>5 DEF AppInv, Appl!TypeOK
<1>7. Ordered(ap_order)' /\ OnPath' /\ Reaches'
  BY <1>1, <1>4 DEF Ordered, OnPath, Reaches
<1>8. ap_launching[ap_resolver] = Appl!NoApp /\ ap_todo[ap_resolver] = <<>>
  BY <1>2 DEF AppInv, Calm
<1>9. ap_doing'[ap_resolver] = "idle" /\ \A u \in User : u # ap_resolver => ap_doing'[u] = ap_doing[u]
  BY <1>2, <1>4 DEF AppInv, Appl!TypeOK
<1>10. Calm'
  BY <1>1, <1>2, <1>4, <1>5, <1>8, <1>9, AppTypes DEF AppInv, Calm
<1>11. Ahead' /\ Known'
  BY <1>1, <1>8, <1>9, AppVisiting, AppTypes DEF AppInv
<1>12. QED BY <1>6, <1>7, <1>10, <1>11 DEF AppInv

LEMMA AppLeaveOK == ASSUME AppInv, Appl!Leave PROVE AppInv'
<1> DEFINE x == Appl!Last(ap_path)
<1>1. /\ ap_path # <<>> /\ ap_left[x] = <<>> /\ ap_order' = Append(ap_order, x) /\ ap_path' = Appl!Front(ap_path)
      /\ UNCHANGED <<ap_spec, ap_registered, ap_up, ap_began, ap_todo, ap_doing, ap_launching, ap_appCalls, ap_resolver, ap_roots, ap_left>>
  BY DEF Appl!Leave, Appl!callVars
<1>2. ap_path \in Seq(App) /\ ap_order \in Seq(App) /\ ap_resolver # Appl!NoUser
  BY <1>1 DEF AppInv, Appl!TypeOK, Calm
<1>3. /\ ap_path' \in Seq(App) /\ x \in App /\ x = ap_path[Len(ap_path)] /\ Len(ap_path) \in DOMAIN ap_path
      /\ DOMAIN ap_path' = 1 .. Len(ap_path) - 1 /\ Len(ap_path') = Len(ap_path) - 1
      /\ \A i \in DOMAIN ap_path' : ap_path'[i] = ap_path[i] /\ i \in DOMAIN ap_path /\ i # Len(ap_path)
      /\ \A i \in DOMAIN ap_path : i = Len(ap_path) \/ i \in DOMAIN ap_path'
      /\ DOMAIN ap_path = 1 .. Len(ap_path) /\ Len(ap_path) \in Nat
  BY <1>1, <1>2, AppFrontOf, AppElements
<1>6. /\ x \in ap_registered /\ ~Appl!Contains(ap_order, x)
      /\ \A d \in Appl!ToSet(ap_spec[x]) : Appl!Contains(ap_order, d)
  <2>1. \A d : ~Appl!Contains(ap_left[x], d)
    BY <1>1 DEF Appl!Contains
  <2>2. QED BY <1>3, <2>1 DEF AppInv, OnPath
<1> HIDE DEF x
<1>4. /\ ap_order' \in Seq(App) /\ DOMAIN ap_order' = 1 .. Len(ap_order) + 1
      /\ \A i \in DOMAIN ap_order : ap_order'[i] = ap_order[i] /\ i \in DOMAIN ap_order'
      /\ \A i \in DOMAIN ap_order' : i \in DOMAIN ap_order \/ i = Len(ap_order) + 1
      /\ ap_order'[Len(ap_order) + 1] = x
      /\ \A y : Appl!Contains(ap_order', y) <=> Appl!Contains(ap_order, y) \/ y = x
      /\ DOMAIN ap_order = 1 .. Len(ap_order) /\ Len(ap_order) \in Nat
      /\ \A y : Appl!Contains(ap_order, y) <=> \E i \in DOMAIN ap_order : ap_order[i] = y
  BY <1>1, <1>2, <1>3, AppendOf, AppElements
<1>5. Appl!TypeOK'
  BY <1>1, <1>3, <1>4 DEF AppInv, Appl!TypeOK
<1>7. Ordered(ap_order)'
  <2>1. \A i \in DOMAIN ap_order' : ap_order'[i] \in ap_registered
    BY <1>4, <1>6 DEF AppInv, Ordered
  <2>2. \A i, j \in DOMAIN ap_order' : ap_order'[i] = ap_order'[j] => i = j
    BY <1>4, <1>6 DEF AppInv, Ordered
  <2>3. ASSUME NEW i \in DOMAIN ap_order', NEW d \in Appl!ToSet(ap_spec[ap_order'[i]])
        PROVE  \E j \in 1 .. i - 1 : ap_order'[j] = d
    <3>1. CASE i \in DOMAIN ap_order
      <4>1. PICK j \in 1 .. i - 1 : ap_order[j] = d
        BY <1>4, <2>3, <3>1 DEF AppInv, Ordered
      <4>2. j \in DOMAIN ap_order
        BY <1>4, <3>1
      <4>3. QED BY <1>4, <4>1, <4>2
    <3>2. CASE i = Len(ap_order) + 1
      <4>1. PICK j \in DOMAIN ap_order : ap_order[j] = d
        BY <1>4, <1>6, <2>3, <3>2
      <4>2. QED BY <1>4, <3>2, <4>1
    <3>3. QED BY <1>4, <3>1, <3>2
  <2>4. UNCHANGED <<ap_spec, ap_registered>>
    BY <1>1
  <2>5. QED BY <2>1, <2>2, <2>3, <2>4 DEF Ordered
<1>8. Calm'
  <2>1. ap_path # <<>> /\ ap_doing[ap_resolver] = "start" => ap_roots = {}
    BY <1>2 DEF AppInv, Calm
  <2>2. QED BY <1>1, <1>2, <2>1 DEF AppInv, Calm
<1>9. OnPath'
  <2>1. \A i, j \in DOMAIN ap_path' : ap_path'[i] = ap_path'[j] => i = j
    BY <1>3 DEF AppInv, OnPath
  <2>2. \A i \in DOMAIN ap_path' : ~Appl!Contains(ap_order', ap_path'[i]) /\ ap_path'[i] \in ap_registered
    BY <1>3, <1>4 DEF AppInv, OnPath
  <2>3. ASSUME NEW i \in DOMAIN ap_path', NEW d \in Appl!ToSet(ap_spec[ap_path'[i]])
        PROVE  Appl!Contains(ap_order', d) \/ Appl!Contains(ap_left[ap_path'[i]], d) \/ (i < Len(ap_path') /\ d = ap_path'[i + 1])
    <3>1. CASE Appl!Contains(ap_order, d) \/ Appl!Contains(ap_left[ap_path[i]], d)
      BY <1>3, <1>4, <3>1
    <3>2. CASE i < Len(ap_path) /\ d = ap_path[i + 1]
      <4>1. CASE i + 1 = Len(ap_path)
        BY <1>3, <1>4, <3>2, <4>1
      <4>2. CASE i + 1 # Len(ap_path)
        <5>1. i + 1 \in DOMAIN ap_path' /\ i < Len(ap_path')
          BY <1>3, <3>2, <4>2
        <5>2. QED BY <1>3, <3>2, <5>1
      <4>3. QED BY <4>1, <4>2
    <3>3. QED BY <1>3, <2>3, <3>1, <3>2 DEF AppInv, OnPath
  <2>4. \A i \in DOMAIN ap_path' : Appl!ToSet(ap_left[ap_path'[i]]) \subseteq Appl!ToSet(ap_spec[ap_path'[i]])
    BY <1>3 DEF AppInv, OnPath
  <2>5. UNCHANGED <<ap_spec, ap_registered, ap_left>>
    BY <1>1
  <2>6. QED BY <2>1, <2>2, <2>3, <2>4, <2>5 DEF OnPath
<1>10. Reaches'
  <2> SUFFICES ASSUME ap_doing[ap_resolver] = "stop_all"
               PROVE  /\ ap_roots \subseteq ap_up
                      /\ \A b \in ap_up : b \in ap_roots \/ Appl!Contains(ap_order', b) \/ (ap_path' # <<>> /\ ap_path'[1] = b)
                      /\ \E s \in Seq(App) : Ordered(s)' /\ Descends(s)'
    BY <1>1 DEF Reaches
  <2>1. ap_roots \subseteq ap_up /\ (\A b \in ap_up : b \in ap_roots \/ Appl!Contains(ap_order, b) \/ ap_path[1] = b)
    BY <1>2 DEF AppInv, Reaches
  <2>2. PICK s \in Seq(App) : Ordered(s) /\ Descends(s)
    BY <1>1, <1>2 DEF AppInv, Reaches
  <2>3. Ordered(s)'
    BY <1>1, <2>2, AppSpecQuiet
  <2>4. Descends(s)'
    BY <1>3, <2>2 DEF Descends
  <2>5. ap_path[1] = x \/ (ap_path' # <<>> /\ ap_path'[1] = ap_path[1])
    <3>1. CASE Len(ap_path) = 1
      BY <1>3, <3>1
    <3>2. CASE Len(ap_path) # 1
      <4>1. 1 \in DOMAIN ap_path'
        BY <1>3, <3>2
      <4>2. ap_path' # <<>>
        BY <4>1
      <4>3. QED BY <1>3, <4>1, <4>2
    <3>3. QED BY <3>1, <3>2
  <2>6. QED BY <1>4, <2>1, <2>3, <2>4, <2>5
<1>11. Ahead' /\ Known'
  BY <1>1, AppVisiting, AppTypes DEF AppInv
<1>12. QED BY <1>5, <1>7, <1>8, <1>9, <1>10, <1>11 DEF AppInv

LEMMA AppResolvedOK == ASSUME AppInv, Appl!Resolved PROVE AppInv'
<1>1. /\ ap_resolver # Appl!NoUser /\ ap_path = <<>> /\ ap_roots = {}
      /\ ap_todo' = [ap_todo EXCEPT ![ap_resolver] = IF ap_doing[ap_resolver] = "start" THEN ap_order ELSE Appl!Reverse(ap_order)]
      /\ ap_resolver' = Appl!NoUser /\ ap_order' = <<>>
      /\ UNCHANGED <<ap_spec, ap_registered, ap_up, ap_began, ap_doing, ap_launching, ap_appCalls, ap_roots, ap_path, ap_left>>
  BY DEF Appl!Resolved
<1>2. ap_resolver \in User /\ ap_order \in Seq(App) /\ Appl!Reverse(ap_order) \in Seq(App) /\ ap_doing[ap_resolver] \in {"start", "stop_all"}
  BY <1>1, AppReverseOf DEF AppInv, Appl!TypeOK, Calm
<1>3. /\ ap_todo'[ap_resolver] = IF ap_doing[ap_resolver] = "start" THEN ap_order ELSE Appl!Reverse(ap_order)
      /\ \A u \in User : u # ap_resolver => ap_todo'[u] = ap_todo[u]
  BY <1>1, <1>2 DEF AppInv, Appl!TypeOK
<1>4. Appl!TypeOK'
  BY <1>1, <1>2 DEF AppInv, Appl!TypeOK
<1>5. Ordered(ap_order)' /\ OnPath' /\ Reaches'
  BY <1>1 DEF Ordered, OnPath, Reaches
<1>6. Calm'
  <2>1. \A u \in User : ap_doing[u] = "idle" => u # ap_resolver
    BY <1>2
  <2>2. QED BY <1>1, <1>3, <2>1, AppTypes DEF AppInv, Calm
<1>7. Known'
  <2>1. \A a : Resolvable(a)' = Resolvable(a)
    BY <1>1, AppSpecQuiet
  <2>2. QED BY <1>1, <2>1 DEF AppInv, Known
<1>8. Ahead'
  <2>1. \A a : Resolvable(a)' = Resolvable(a)
    BY <1>1, AppSpecQuiet
  <2>2. \A a \in App : Appl!Contains(ap_order, a) => Resolvable(a)
    BY <1>2 DEF AppInv, Resolvable
  <2>3. \A i \in DOMAIN ap_order : \A d \in Appl!ToSet(ap_spec[ap_order[i]]) : \E j \in 1 .. i - 1 : ap_order[j] = d
    BY DEF AppInv, Ordered
  <2> SUFFICES ASSUME NEW u \in User
               PROVE  /\ \A a \in App :
                            /\ ap_launching[u] = a => ap_doing[u] = "start" /\ Resolvable(a) /\ Appl!ToSet(ap_spec[a]) \subseteq ap_began
                            /\ ap_doing[u] = "start" /\ Appl!Contains(ap_todo'[u], a) => Resolvable(a)
                      /\ ap_doing[u] = "start" => \A i \in DOMAIN ap_todo'[u] : \A d \in Appl!ToSet(ap_spec[ap_todo'[u][i]]) :
                            d \in ap_began \/ ap_launching[u] = d \/ \E j \in 1 .. i - 1 : ap_todo'[u][j] = d
    BY <1>1, <2>1 DEF Ahead
  <2>4. CASE u # ap_resolver
    BY <1>3, <2>4 DEF AppInv, Ahead
  <2>5. CASE u = ap_resolver
    <3>1. \A a \in App : ap_launching[u] # a
      BY <1>1, <2>5, AppTypes DEF AppInv, Calm
    <3>2. CASE ap_doing[u] = "start"
      <4>1. ap_todo'[u] = ap_order
        BY <1>3, <2>5, <3>2
      <4>2. QED BY <2>2, <2>3, <3>1, <3>2, <4>1
    <3>3. QED BY <3>1, <3>2
  <2>6. QED BY <2>4, <2>5
<1>9. QED BY <1>4, <1>5, <1>6, <1>7, <1>8 DEF AppInv

(* stop_all() has all that runs in its order, which is an order reversed. *)
LEMMA AppResolvedReaches ==
    ASSUME AppInv, Appl!Resolved, ap_doing[ap_resolver] = "stop_all"
    PROVE  /\ ap_up \subseteq Appl!ToSet(ap_todo'[ap_resolver])
           /\ \A i, j \in DOMAIN ap_todo'[ap_resolver] :
                 Appl!Contains(ap_spec[ap_todo'[ap_resolver][i]], ap_todo'[ap_resolver][j]) => i < j
<1>1. ap_order \in Seq(App) /\ ap_todo'[ap_resolver] = Appl!Reverse(ap_order) /\ ap_resolver # Appl!NoUser /\ ap_path = <<>> /\ ap_roots = {}
  BY DEF AppInv, Appl!TypeOK, Appl!Resolved, Calm
<1>2. /\ Appl!Reverse(ap_order) \in Seq(App) /\ DOMAIN Appl!Reverse(ap_order) = DOMAIN ap_order
      /\ \A i \in DOMAIN ap_order : Appl!Reverse(ap_order)[i] = ap_order[Len(ap_order) - i + 1] /\ Len(ap_order) - i + 1 \in DOMAIN ap_order
      /\ \A x : Appl!Contains(Appl!Reverse(ap_order), x) <=> Appl!Contains(ap_order, x)
      /\ DOMAIN ap_order = 1 .. Len(ap_order) /\ Len(ap_order) \in Nat
  BY <1>1, AppReverseOf, AppElements
<1>3. \A a \in ap_up : Appl!Contains(ap_order, a)
  BY <1>1 DEF AppInv, Reaches
<1>4. ap_up \subseteq Appl!ToSet(Appl!Reverse(ap_order))
  BY <1>2, <1>3, AppElements
<1>5. ASSUME NEW i \in DOMAIN ap_order, NEW j \in DOMAIN ap_order, Appl!Contains(ap_spec[Appl!Reverse(ap_order)[i]], Appl!Reverse(ap_order)[j])
      PROVE  i < j
  <2> DEFINE p == Len(ap_order) - i + 1
             q == Len(ap_order) - j + 1
  <2>1. p \in DOMAIN ap_order /\ q \in DOMAIN ap_order /\ Appl!Reverse(ap_order)[i] = ap_order[p] /\ Appl!Reverse(ap_order)[j] = ap_order[q]
    BY <1>2
  <2>2. ap_order[p] \in App /\ ap_order[q] \in App /\ Appl!Contains(ap_order, ap_order[p]) /\ Appl!Contains(ap_spec[ap_order[p]], ap_order[q])
    BY <1>1, <1>5, <2>1, AppElements
  <2>3. q < p
    BY <1>1, <2>1, <2>2, AppBelow DEF AppInv
  <2>4. QED BY <1>2, <2>3
<1>6. QED BY <1>1, <1>2, <1>4, <1>5
LEMMA AppCallsOK == ASSUME AppInv, NEW u \in User, NEW a \in App, Appl!Start(u, a) \/ Appl!Stop(u, a) \/ Appl!StopAll(u) PROVE AppInv'
<1>1. PICK what \in {"start", "stop", "stop_all"} :
          /\ ap_resolver = Appl!NoUser /\ ap_doing[u] = "idle" /\ ap_appCalls < MaxAppCalls /\ ap_appCalls' = ap_appCalls + 1
          /\ ap_doing' = [ap_doing EXCEPT ![u] = what]
          /\ UNCHANGED <<ap_spec, ap_registered, ap_up, ap_began, ap_launching, ap_path, ap_left, ap_order>>
          /\ \/ /\ what = "start" /\ ap_resolver' = u /\ ap_roots' = {a} /\ ap_todo' = ap_todo
             \/ /\ what = "stop_all" /\ ap_resolver' = u /\ ap_roots' = ap_up /\ ap_todo' = ap_todo
             \/ /\ what = "stop" /\ ap_resolver' = ap_resolver /\ ap_roots' = ap_roots
                /\ ap_todo' = [ap_todo EXCEPT ![u] = <<a>>]
  BY DEF Appl!Start, Appl!Stop, Appl!StopAll, Appl!Calls, Appl!Resolve, Appl!visitVars
<1>2. /\ ap_doing'[u] = what /\ \A v \in User : v # u => ap_doing'[v] = ap_doing[v]
      /\ ap_path = <<>> /\ ap_order = <<>> /\ ap_roots = {} /\ ap_todo[u] = <<>> /\ ap_launching[u] = Appl!NoApp
  BY <1>1 DEF AppInv, Appl!TypeOK, Calm
<1>3. Appl!TypeOK'
  <2>1. ap_todo' \in [User -> Seq(App)] /\ ap_doing' \in [User -> {"idle", "start", "stop", "stop_all"}]
    <3>1. <<a>> \in Seq(App)
      OBVIOUS
    <3>2. ap_todo \in [User -> Seq(App)] /\ ap_doing \in [User -> {"idle", "start", "stop", "stop_all"}]
      BY DEF AppInv, Appl!TypeOK
    <3>3. ap_todo' = ap_todo \/ ap_todo' = [ap_todo EXCEPT ![u] = <<a>>]
      BY <1>1
    <3>4. QED BY <1>1, <3>1, <3>2, <3>3
  <2>2. ap_appCalls' \in 0 .. MaxAppCalls
    BY <1>1, ApplicationAssumption DEF AppInv, Appl!TypeOK
  <2>3. ap_resolver' \in User \cup {Appl!NoUser} /\ ap_roots' \subseteq App
    BY <1>1 DEF AppInv, Appl!TypeOK
  <2>4. QED BY <1>1, <2>1, <2>2, <2>3 DEF AppInv, Appl!TypeOK
<1>4. Ordered(ap_order)' /\ OnPath'
  BY <1>1, <1>2 DEF Ordered, OnPath
<1>5. Reaches'
  BY <1>1, <1>2 DEF Reaches
<1>6. Calm'
  <2>1. u # Appl!NoUser
    BY AppTypes DEF AppInv
  <2>2. \A v \in User : ap_doing'[v] = "idle" \/ ap_resolver' = v => ap_todo'[v] = <<>> /\ ap_launching[v] = Appl!NoApp
    BY <1>1, <1>2, <2>1, AppTypes DEF AppInv, Appl!TypeOK, Calm
  <2>3. QED BY <1>1, <1>2, <2>1, <2>2 DEF Calm
<1>7. \A b : Resolvable(b)' = Resolvable(b)
  BY <1>1, AppSpecQuiet
<1>8. Known'
  BY <1>1, <1>7 DEF AppInv, Known
<1>9. Ahead'
  <2>1. ASSUME NEW v \in User, v # u
        PROVE  ap_todo'[v] = ap_todo[v] /\ ap_doing'[v] = ap_doing[v] /\ ap_launching'[v] = ap_launching[v]
    BY <1>1, <1>2, <2>1 DEF AppInv, Appl!TypeOK
  <2>2. /\ \A b \in App : ap_launching'[u] # b
        /\ ap_doing'[u] = "start" => ap_todo'[u] = <<>>
    BY <1>1, <1>2, AppTypes DEF AppInv
  <2>3. ~\E b \in App : Appl!Contains(<<>>, b)
    BY DEF Appl!Contains
  <2>4. QED BY <1>1, <1>7, <2>1, <2>2, <2>3 DEF AppInv, Ahead
<1>10. QED BY <1>3, <1>4, <1>5, <1>6, <1>8, <1>9 DEF AppInv

(* One call of a start or a stop goes on; of the others nothing is changed. *)
LEMMA AppGoes ==
    ASSUME AppInv, NEW u \in User, ap_resolver = Appl!NoUser, ap_doing[u] # "idle",
           UNCHANGED <<ap_spec, ap_registered, ap_appCalls, Appl!visitVars>>,
           ap_todo' \in [User -> Seq(App)], ap_launching' \in [User -> App \cup {Appl!NoApp}],
           ap_doing' \in [User -> {"idle", "start", "stop", "stop_all"}],
           ap_up' \subseteq ap_began', ap_began' \subseteq App, ap_began \subseteq ap_began',
           \A v \in User : v # u => ap_todo'[v] = ap_todo[v] /\ ap_launching'[v] = ap_launching[v] /\ ap_doing'[v] = ap_doing[v],
           \A a \in ap_began' : Resolvable(a),
           ap_doing'[u] \in {"idle", ap_doing[u]},
           ap_doing'[u] = "idle" => ap_todo'[u] = <<>> /\ ap_launching'[u] = Appl!NoApp,
           \A a \in App : ap_launching'[u] = a => ap_doing[u] = "start" /\ Resolvable(a) /\ Appl!ToSet(ap_spec[a]) \subseteq ap_began',
           ap_doing'[u] = "start" =>
              /\ \A a \in App : Appl!Contains(ap_todo'[u], a) => Resolvable(a)
              /\ \A i \in DOMAIN ap_todo'[u] : \A d \in Appl!ToSet(ap_spec[ap_todo'[u][i]]) :
                    d \in ap_began' \/ ap_launching'[u] = d \/ \E j \in 1 .. i - 1 : ap_todo'[u][j] = d
    PROVE  AppInv'
<1>1. UNCHANGED <<ap_resolver, ap_roots, ap_path, ap_left, ap_order>>
  BY DEF Appl!visitVars
<1>2. Appl!TypeOK'
  BY <1>1 DEF AppInv, Appl!TypeOK
<1>3. Ordered(ap_order)' /\ OnPath' /\ Reaches' /\ ap_path' = <<>> /\ ap_order' = <<>> /\ ap_roots' = {}
  BY AppResting DEF AppInv
<1>4. Calm'
  <2>1. \A v \in User : v # Appl!NoUser
    BY AppTypes DEF AppInv
  <2>2. QED BY <1>1, <1>3, <2>1 DEF AppInv, Calm
<1>5. \A a : Resolvable(a)' = Resolvable(a)
  BY AppSpecQuiet
<1>6. Known'
  BY <1>5 DEF AppInv, Known
<1>7. Ahead'
  <2> SUFFICES ASSUME NEW v \in User
               PROVE  /\ \A a \in App :
                            /\ ap_launching'[v] = a => ap_doing'[v] = "start" /\ Resolvable(a) /\ Appl!ToSet(ap_spec[a]) \subseteq ap_began'
                            /\ ap_doing'[v] = "start" /\ Appl!Contains(ap_todo'[v], a) => Resolvable(a)
                      /\ ap_doing'[v] = "start" => \A i \in DOMAIN ap_todo'[v] : \A d \in Appl!ToSet(ap_spec[ap_todo'[v][i]]) :
                            d \in ap_began' \/ ap_launching'[v] = d \/ \E j \in 1 .. i - 1 : ap_todo'[v][j] = d
    BY <1>5 DEF Ahead
  <2>1. CASE v # u
    <3>1. /\ \A a \in App :
                /\ ap_launching[v] = a => ap_doing[v] = "start" /\ Resolvable(a) /\ Appl!ToSet(ap_spec[a]) \subseteq ap_began
                /\ ap_doing[v] = "start" /\ Appl!Contains(ap_todo[v], a) => Resolvable(a)
          /\ ap_doing[v] = "start" => \A i \in DOMAIN ap_todo[v] : \A d \in Appl!ToSet(ap_spec[ap_todo[v][i]]) :
                d \in ap_began \/ ap_launching[v] = d \/ \E j \in 1 .. i - 1 : ap_todo[v][j] = d
      BY DEF AppInv, Ahead
    <3>2. ap_todo'[v] = ap_todo[v] /\ ap_launching'[v] = ap_launching[v] /\ ap_doing'[v] = ap_doing[v]
      BY <2>1
    <3>3. QED BY <3>1, <3>2
  <2>2. CASE v = u
    <3>1. \A a \in App : ap_launching'[u] = a => ap_doing'[u] = "start"
      BY AppTypes DEF AppInv
    <3>2. QED BY <2>2, <3>1
  <2>3. QED BY <2>1, <2>2
<1>8. QED BY <1>2, <1>3, <1>4, <1>6, <1>7 DEF AppInv

(* What a start has left when the first of it is taken. *)
LEMMA AppTakes ==
    ASSUME AppInv, NEW u \in User, ap_doing[u] = "start", ap_launching[u] = Appl!NoApp, ap_todo[u] # <<>>,
           ap_todo' = [ap_todo EXCEPT ![u] = Tail(@)]
    PROVE  /\ ap_todo' \in [User -> Seq(App)] /\ Head(ap_todo[u]) \in App
           /\ \A v \in User : v # u => ap_todo'[v] = ap_todo[v]
           /\ Resolvable(Head(ap_todo[u])) /\ Appl!ToSet(ap_spec[Head(ap_todo[u])]) \subseteq ap_began
           /\ \A a \in App : Appl!Contains(ap_todo'[u], a) => Resolvable(a)
           /\ \A i \in DOMAIN ap_todo'[u] : \A d \in Appl!ToSet(ap_spec[ap_todo'[u][i]]) :
                 d \in ap_began \/ d = Head(ap_todo[u]) \/ \E j \in 1 .. i - 1 : ap_todo'[u][j] = d
<1> DEFINE s == ap_todo[u]
<1>1. s \in Seq(App) /\ s # <<>> /\ Appl!NoApp \notin App
  BY AppTypes DEF AppInv
<1>2. ap_todo'[u] = Tail(s) /\ ap_todo' \in [User -> Seq(App)] /\ \A v \in User : v # u => ap_todo'[v] = ap_todo[v]
  BY <1>1, AppTailOf DEF AppInv, Appl!TypeOK
<1>3. /\ Tail(s) \in Seq(App) /\ Head(s) \in App /\ Head(s) = s[1] /\ 1 \in DOMAIN s
      /\ DOMAIN Tail(s) = 1 .. Len(s) - 1 /\ Len(s) \in Nat
      /\ \A i \in DOMAIN Tail(s) : Tail(s)[i] = s[i + 1] /\ i + 1 \in DOMAIN s
      /\ \A x : Appl!Contains(s, x) <=> Appl!Contains(Tail(s), x) \/ x = Head(s)
  BY <1>1, AppTailOf, AppElements
<1>4. /\ \A a \in App : Appl!Contains(s, a) => Resolvable(a)
      /\ \A i \in DOMAIN s : \A d \in Appl!ToSet(ap_spec[s[i]]) : d \in ap_began \/ d = Appl!NoApp \/ \E j \in 1 .. i - 1 : s[j] = d
  BY DEF AppInv, Ahead
<1>5. \A a \in App : Appl!ToSet(ap_spec[a]) \subseteq App
  BY AppTypes, AppElements DEF AppInv
<1> HIDE DEF s
<1>6. Appl!ToSet(ap_spec[s[1]]) \subseteq ap_began
  BY <1>1, <1>3, <1>4, <1>5
<1>7. ASSUME NEW i \in DOMAIN Tail(s), NEW d \in Appl!ToSet(ap_spec[Tail(s)[i]])
      PROVE  d \in ap_began \/ d = Head(s) \/ \E j \in 1 .. i - 1 : Tail(s)[j] = d
  <2>1. Tail(s)[i] = s[i + 1] /\ i + 1 \in DOMAIN s /\ Tail(s)[i] \in App /\ i \in 1 .. Len(s) - 1
    BY <1>3, AppElements
  <2>2. d \in ap_began \/ \E j \in 1 .. i : s[j] = d
    BY <1>1, <1>4, <1>5, <1>7, <2>1
  <2>3. ASSUME NEW j \in 1 .. i, s[j] = d PROVE d = Head(s) \/ \E k \in 1 .. i - 1 : Tail(s)[k] = d
    <3>1. CASE j = 1
      BY <1>3, <2>3, <3>1
    <3>2. CASE j # 1
      <4>1. j - 1 \in 1 .. i - 1 /\ j - 1 \in DOMAIN Tail(s) /\ (j - 1) + 1 = j
        BY <1>3, <2>1, <3>2
      <4>2. QED BY <1>3, <2>3, <4>1
    <3>3. QED BY <3>1, <3>2
  <2>4. QED BY <2>2, <2>3
<1>8. QED BY <1>2, <1>3, <1>4, <1>6, <1>7 DEF s

LEMMA AppSkipRunningOK == ASSUME AppInv, NEW u \in User, Appl!SkipRunning(u) PROVE AppInv'
<1>1. /\ ap_resolver = Appl!NoUser /\ ap_doing[u] = "start" /\ ap_launching[u] = Appl!NoApp /\ ap_todo[u] # <<>>
      /\ Head(ap_todo[u]) \in ap_up /\ ap_todo' = [ap_todo EXCEPT ![u] = Tail(@)]
      /\ UNCHANGED <<ap_spec, ap_registered, ap_up, ap_began, ap_doing, ap_launching, ap_appCalls, Appl!visitVars>>
  BY DEF Appl!SkipRunning, Appl!Goes
<1>2. Head(ap_todo[u]) \in ap_began
  BY <1>1 DEF AppInv, Known
<1>3. /\ ap_todo' \in [User -> Seq(App)]
      /\ \A v \in User : v # u => ap_todo'[v] = ap_todo[v]
      /\ \A a \in App : Appl!Contains(ap_todo'[u], a) => Resolvable(a)
      /\ \A i \in DOMAIN ap_todo'[u] : \A d \in Appl!ToSet(ap_spec[ap_todo'[u][i]]) :
             d \in ap_began \/ \E j \in 1 .. i - 1 : ap_todo'[u][j] = d
  <2>1. \A i \in DOMAIN ap_todo'[u] : \A d \in Appl!ToSet(ap_spec[ap_todo'[u][i]]) :
             d \in ap_began \/ d = Head(ap_todo[u]) \/ \E j \in 1 .. i - 1 : ap_todo'[u][j] = d
    BY <1>1, AppTakes
  <2>2. \A i \in DOMAIN ap_todo'[u] : \A d \in Appl!ToSet(ap_spec[ap_todo'[u][i]]) :
             d \in ap_began \/ \E j \in 1 .. i - 1 : ap_todo'[u][j] = d
    BY <1>2, <2>1
  <2>3. QED BY <1>1, <2>2, AppTakes
<1>4. \A a \in App : ap_launching[u] # a
  BY <1>1, AppTypes DEF AppInv
<1>5. /\ ap_launching' \in [User -> App \cup {Appl!NoApp}] /\ ap_doing' \in [User -> {"idle", "start", "stop", "stop_all"}]
      /\ ap_up' \subseteq ap_began' /\ ap_began' = ap_began /\ ap_began' \subseteq App /\ \A a \in ap_began' : Resolvable(a)
      /\ UNCHANGED <<ap_launching, ap_doing>>
  BY <1>1 DEF AppInv, Appl!TypeOK, Known
<1>6. /\ ap_doing'[u] = ap_doing[u] /\ ap_doing[u] = "start"
      /\ \A v \in User : v # u => ap_todo'[v] = ap_todo[v] /\ ap_launching'[v] = ap_launching[v] /\ ap_doing'[v] = ap_doing[v]
  BY <1>1, <1>3
<1>7. \A a \in App : ap_launching'[u] # a
  BY <1>4, <1>5
<1>8. \A i \in DOMAIN ap_todo'[u] : \A d \in Appl!ToSet(ap_spec[ap_todo'[u][i]]) :
             d \in ap_began' \/ ap_launching'[u] = d \/ \E j \in 1 .. i - 1 : ap_todo'[u][j] = d
  BY <1>3, <1>5
<1>9. QED BY <1>1, <1>3, <1>5, <1>6, <1>7, <1>8, AppGoes

LEMMA AppLaunchOK == ASSUME AppInv, NEW u \in User, Appl!Launch(u) PROVE AppInv'
<1> DEFINE x == Head(ap_todo[u])
<1>1. /\ ap_resolver = Appl!NoUser /\ ap_doing[u] = "start" /\ ap_launching[u] = Appl!NoApp /\ ap_todo[u] # <<>>
      /\ ap_launching' = [ap_launching EXCEPT ![u] = x] /\ ap_todo' = [ap_todo EXCEPT ![u] = Tail(@)]
      /\ UNCHANGED <<ap_spec, ap_registered, ap_up, ap_began, ap_doing, ap_appCalls, Appl!visitVars>>
  BY DEF Appl!Launch, Appl!Goes
<1>2. /\ ap_todo' \in [User -> Seq(App)] /\ x \in App
      /\ \A v \in User : v # u => ap_todo'[v] = ap_todo[v]
      /\ Resolvable(x) /\ Appl!ToSet(ap_spec[x]) \subseteq ap_began
      /\ \A a \in App : Appl!Contains(ap_todo'[u], a) => Resolvable(a)
      /\ \A i \in DOMAIN ap_todo'[u] : \A d \in Appl!ToSet(ap_spec[ap_todo'[u][i]]) :
             d \in ap_began \/ d = x \/ \E j \in 1 .. i - 1 : ap_todo'[u][j] = d
  BY <1>1, AppTakes
<1> HIDE DEF x
<1>3. /\ ap_launching' \in [User -> App \cup {Appl!NoApp}] /\ ap_launching'[u] = x
      /\ \A v \in User : v # u => ap_launching'[v] = ap_launching[v]
  BY <1>1, <1>2 DEF AppInv, Appl!TypeOK
<1>4. /\ ap_doing' \in [User -> {"idle", "start", "stop", "stop_all"}]
      /\ ap_up' \subseteq ap_began' /\ ap_began' = ap_began /\ ap_began' \subseteq App /\ \A a \in ap_began' : Resolvable(a)
  BY <1>1 DEF AppInv, Appl!TypeOK, Known
<1>5. \A i \in DOMAIN ap_todo'[u] : \A d \in Appl!ToSet(ap_spec[ap_todo'[u][i]]) :
             d \in ap_began' \/ ap_launching'[u] = d \/ \E j \in 1 .. i - 1 : ap_todo'[u][j] = d
  BY <1>2, <1>3, <1>4
<1>6. \A a \in App : ap_launching'[u] = a => ap_doing[u] = "start" /\ Resolvable(a) /\ Appl!ToSet(ap_spec[a]) \subseteq ap_began'
  <2>1. \A a \in App : ap_launching'[u] = a => a = x
    BY <1>3
  <2>2. ap_doing[u] = "start" /\ Resolvable(x) /\ Appl!ToSet(ap_spec[x]) \subseteq ap_began'
    BY <1>1, <1>2, <1>4
  <2>3. QED BY <2>1, <2>2
<1>7. ap_doing'[u] = ap_doing[u] /\ ap_doing[u] = "start" /\ \A v \in User : ap_doing'[v] = ap_doing[v]
  BY <1>1
<1>8. \A v \in User : v # u => ap_todo'[v] = ap_todo[v] /\ ap_launching'[v] = ap_launching[v]
  BY <1>2, <1>3
<1>9. QED BY <1>1, <1>2, <1>3, <1>4, <1>5, <1>6, <1>7, <1>8, AppGoes

LEMMA AppLaunchedOK == ASSUME AppInv, NEW u \in User, Appl!Launched(u) PROVE AppInv'
<1> DEFINE x == ap_launching[u]
<1>1. /\ ap_resolver = Appl!NoUser /\ ap_doing[u] = "start" /\ x # Appl!NoApp
      /\ ap_launching' = [ap_launching EXCEPT ![u] = Appl!NoApp]
      /\ ap_up' = ap_up \cup {x} /\ ap_began' = ap_began \cup {x}
      /\ UNCHANGED <<ap_spec, ap_registered, ap_todo, ap_doing, ap_appCalls, Appl!visitVars>>
  BY DEF Appl!Launched, Appl!Goes
<1>2. x \in App /\ Resolvable(x)
  BY <1>1, AppTypes DEF AppInv, Ahead
<1>3. /\ \A a \in App : Appl!Contains(ap_todo[u], a) => Resolvable(a)
      /\ \A i \in DOMAIN ap_todo[u] : \A d \in Appl!ToSet(ap_spec[ap_todo[u][i]]) :
             d \in ap_began \/ x = d \/ \E j \in 1 .. i - 1 : ap_todo[u][j] = d
  BY <1>1 DEF AppInv, Ahead
<1> HIDE DEF x
<1>4. /\ ap_launching' \in [User -> App \cup {Appl!NoApp}] /\ ap_launching'[u] = Appl!NoApp /\ Appl!NoApp \notin App
      /\ \A v \in User : v # u => ap_launching'[v] = ap_launching[v]
  BY <1>1, ApplicationAssumption DEF AppInv, Appl!TypeOK
<1>5. /\ ap_up' \subseteq ap_began' /\ ap_began' \subseteq App /\ ap_began \subseteq ap_began'
      /\ \A a \in ap_began' : Resolvable(a)
  BY <1>1, <1>2 DEF AppInv, Appl!TypeOK, Known
<1>6. \A a \in App : ap_launching'[u] # a
  BY <1>4
<1>7. \A i \in DOMAIN ap_todo'[u] : \A d \in Appl!ToSet(ap_spec[ap_todo'[u][i]]) :
             d \in ap_began' \/ \E j \in 1 .. i - 1 : ap_todo'[u][j] = d
  BY <1>1, <1>3
<1>8. ap_todo' \in [User -> Seq(App)] /\ ap_doing' \in [User -> {"idle", "start", "stop", "stop_all"}] /\ UNCHANGED <<ap_todo, ap_doing>>
  BY <1>1 DEF AppInv, Appl!TypeOK
<1>9. QED BY <1>1, <1>3, <1>4, <1>5, <1>6, <1>7, <1>8, AppGoes

LEMMA AppLaunchFailsOK == ASSUME AppInv, NEW u \in User, Appl!LaunchFails(u) PROVE AppInv'
<1>1. /\ ap_resolver = Appl!NoUser /\ ap_doing[u] = "start"
      /\ ap_launching' = [ap_launching EXCEPT ![u] = Appl!NoApp] /\ ap_doing' = [ap_doing EXCEPT ![u] = "idle"]
      /\ ap_todo' = [ap_todo EXCEPT ![u] = <<>>]
      /\ UNCHANGED <<ap_spec, ap_registered, ap_up, ap_began, ap_appCalls, Appl!visitVars>>
  BY DEF Appl!LaunchFails, Appl!Goes
<1>2. /\ ap_launching' \in [User -> App \cup {Appl!NoApp}] /\ ap_todo' \in [User -> Seq(App)]
      /\ ap_doing' \in [User -> {"idle", "start", "stop", "stop_all"}]
      /\ ap_launching'[u] = Appl!NoApp /\ ap_todo'[u] = <<>> /\ ap_doing'[u] = "idle"
      /\ \A v \in User : v # u => ap_todo'[v] = ap_todo[v] /\ ap_launching'[v] = ap_launching[v] /\ ap_doing'[v] = ap_doing[v]
  BY <1>1 DEF AppInv, Appl!TypeOK
<1>3. \A a \in App : ap_launching'[u] # a
  BY <1>2, ApplicationAssumption
<1>4. QED BY <1>1, <1>2, <1>3, AppGoes DEF AppInv, Appl!TypeOK, Known

LEMMA AppStopNextOK == ASSUME AppInv, NEW u \in User, Appl!StopNext(u) PROVE AppInv'
<1>1. /\ ap_resolver = Appl!NoUser /\ ap_doing[u] \in {"stop", "stop_all"} /\ ap_todo[u] # <<>>
      /\ ap_up' = ap_up \ {Head(ap_todo[u])} /\ ap_todo' = [ap_todo EXCEPT ![u] = Tail(@)]
      /\ UNCHANGED <<ap_spec, ap_registered, ap_began, ap_doing, ap_launching, ap_appCalls, Appl!visitVars>>
  BY DEF Appl!StopNext, Appl!Goes
<1>2. Tail(ap_todo[u]) \in Seq(App)
  BY <1>1, AppTypes, AppTailOf DEF AppInv
<1>3. ap_todo' \in [User -> Seq(App)] /\ \A v \in User : v # u => ap_todo'[v] = ap_todo[v]
  BY <1>1, <1>2 DEF AppInv, Appl!TypeOK
<1>4. \A a \in App : ap_launching[u] # a
  BY <1>1 DEF AppInv, Ahead
<1>5. QED BY <1>1, <1>3, <1>4, AppGoes DEF AppInv, Appl!TypeOK, Known

LEMMA AppDoneOK == ASSUME AppInv, NEW u \in User, Appl!Done(u) PROVE AppInv'
<1>1. /\ ap_resolver = Appl!NoUser /\ ap_doing[u] # "idle" /\ ap_todo[u] = <<>> /\ ap_launching[u] = Appl!NoApp
      /\ ap_doing' = [ap_doing EXCEPT ![u] = "idle"]
      /\ UNCHANGED <<ap_spec, ap_registered, ap_up, ap_began, ap_todo, ap_launching, ap_appCalls, Appl!visitVars>>
  BY DEF Appl!Done, Appl!Goes
<1>2. /\ ap_doing' \in [User -> {"idle", "start", "stop", "stop_all"}] /\ ap_doing'[u] = "idle"
      /\ \A v \in User : v # u => ap_doing'[v] = ap_doing[v]
  BY <1>1 DEF AppInv, Appl!TypeOK
<1>3. \A a \in App : ap_launching[u] # a
  BY <1>1, ApplicationAssumption
<1>4. QED BY <1>1, <1>2, <1>3, AppGoes DEF AppInv, Appl!TypeOK, Known

LEMMA AppStutterOK == ASSUME AppInv, UNCHANGED Appl!vars PROVE AppInv'
<1>1. UNCHANGED <<ap_spec, ap_registered, ap_up, ap_began, ap_todo, ap_doing, ap_launching, ap_appCalls, ap_resolver, ap_roots, ap_path, ap_left, ap_order>>
  BY DEF Appl!vars, Appl!callVars, Appl!visitVars
<1>2. /\ \A a : Resolvable(a)' = Resolvable(a)
      /\ \A s : Ordered(s)' = Ordered(s) /\ Descends(s)' = Descends(s)
  BY <1>1, AppSpecQuiet DEF Descends
<1>3. Appl!TypeOK' /\ Calm' /\ OnPath'
  BY <1>1 DEF AppInv, Appl!TypeOK, Calm, OnPath
<1>4. Reaches' /\ Ahead' /\ Known'
  BY <1>1, <1>2 DEF AppInv, Reaches, Ahead, Known
<1>5. Ordered(ap_order)'
  BY <1>1 DEF AppInv, Ordered
<1>6. QED BY <1>3, <1>4, <1>5 DEF AppInv

LEMMA AppStepOK == AppInv /\ [Appl!Next]_(Appl!vars) => AppInv'
<1> SUFFICES ASSUME AppInv, [Appl!Next]_(Appl!vars) PROVE AppInv'
  OBVIOUS
<1>1. ASSUME NEW a \in App, Appl!SkipVisited(a) \/ Appl!Visit(a) \/ Appl!VisitFails(a) PROVE AppInv'
  BY <1>1, AppSkipVisitedOK, AppVisitOK, AppVisitFailsOK
<1>2. ASSUME NEW u \in User, NEW a \in App, Appl!Start(u, a) \/ Appl!Stop(u, a) PROVE AppInv'
  BY <1>2, AppCallsOK
<1>3. ASSUME NEW u \in User, Appl!StopAll(u) PROVE AppInv'
  <2>1. PICK a : a \in ap_up
    BY <1>3 DEF Appl!StopAll
  <2>2. a \in App
    BY <2>1 DEF AppInv, Appl!TypeOK
  <2>3. QED BY <1>3, <2>2, AppCallsOK
<1>4. ASSUME NEW u \in User,
             Appl!SkipRunning(u) \/ Appl!Launch(u) \/ Appl!Launched(u) \/ Appl!LaunchFails(u) \/ Appl!StopNext(u) \/ Appl!Done(u)
      PROVE  AppInv'
  BY <1>4, AppSkipRunningOK, AppLaunchOK, AppLaunchedOK, AppLaunchFailsOK, AppStopNextOK, AppDoneOK
<1>5. QED BY <1>1, <1>2, <1>3, <1>4, AppLeaveOK, AppResolvedOK, AppStutterOK DEF Appl!Next

LEMMA AppSafeOK == AppInv => Appl!TypeOK /\ Appl!DependenciesFirst
<1> SUFFICES ASSUME AppInv, NEW u \in User, ap_launching[u] # Appl!NoApp PROVE Appl!ToSet(ap_spec[ap_launching[u]]) \subseteq ap_began
  BY DEF AppInv, Appl!DependenciesFirst
<1>1. ap_launching[u] \in App
  BY AppTypes DEF AppInv
<1>2. QED BY <1>1 DEF AppInv, Ahead

(* An order is made by Resolved alone. *)
LEMMA AppReaches ==
    AppInv /\ [Appl!Next]_(Appl!vars) =>
        [\A u \in User :
            ap_resolver = u /\ ap_resolver' = Appl!NoUser /\ ap_doing[u] = "stop_all"
            => /\ ap_up \subseteq Appl!ToSet(ap_todo'[u])
               /\ \A i, j \in DOMAIN ap_todo'[u] :
                     Appl!Contains(ap_spec[ap_todo'[u][i]], ap_todo'[u][j]) => i < j]_(Appl!vars)
<1> SUFFICES ASSUME AppInv, Appl!Next, NEW u \in User, ap_resolver = u, ap_resolver' = Appl!NoUser, ap_doing[u] = "stop_all"
             PROVE  /\ ap_up \subseteq Appl!ToSet(ap_todo'[u])
                    /\ \A i, j \in DOMAIN ap_todo'[u] :
                          Appl!Contains(ap_spec[ap_todo'[u][i]], ap_todo'[u][j]) => i < j
  OBVIOUS
<1>1. ap_resolver # Appl!NoUser /\ ap_resolver' # ap_resolver
  BY AppTypes DEF AppInv
<1>2. CASE Appl!Resolved
  BY <1>2, AppResolvedReaches
<1>3. ~Appl!Leave /\ \A a \in App : ~Appl!SkipVisited(a) /\ ~Appl!Visit(a)
  BY <1>1 DEF Appl!Leave, Appl!SkipVisited, Appl!Visit
<1>4. ASSUME NEW a \in App, Appl!VisitFails(a) PROVE FALSE
  BY <1>1, <1>4 DEF Appl!VisitFails
<1>5. ASSUME NEW v \in User,
             \/ \E a \in App : Appl!Start(v, a) \/ Appl!Stop(v, a)
             \/ Appl!StopAll(v) \/ Appl!SkipRunning(v) \/ Appl!Launch(v) \/ Appl!Launched(v) \/ Appl!LaunchFails(v) \/ Appl!StopNext(v) \/ Appl!Done(v)
      PROVE  FALSE
  BY <1>1, <1>5 DEF Appl!Start, Appl!Stop, Appl!StopAll, Appl!Calls, Appl!SkipRunning, Appl!Launch, Appl!Launched, Appl!LaunchFails, Appl!StopNext, Appl!Done, Appl!Goes
<1>6. QED BY <1>2, <1>3, <1>4, <1>5 DEF Appl!Next

LEMMA AppFocus == [ServicesNext]_servicesVars => [Appl!Next]_(Appl!vars)
<1>1. ServicesNext => Appl!Next \/ UNCHANGED apVars
  BY DEF ServicesNext
<1>2. UNCHANGED servicesVars => UNCHANGED apVars
  BY DEF servicesVars
<1>3. UNCHANGED apVars => UNCHANGED Appl!vars
  BY DEF apVars, Appl!vars, Appl!callVars, Appl!visitVars
<1>4. QED BY <1>1, <1>2, <1>3

LEMMA AppInFocus == AppInv /\ [ServicesNext]_servicesVars => AppInv'
  BY AppFocus, AppStepOK

(* application: nothing starts before all it depends on has, and stop_all()      *)
(* reaches all that runs, each before what it depends on.                        *)
THEOREM ApplicationCorrect == ServicesSpec => ApplicationSafe
<1>1. ServicesInit => AppInv
  BY AppInitOK DEF ServicesInit
<1>2. AppInv => (focus = "application" => Appl!TypeOK /\ Appl!DependenciesFirst)
  BY AppSafeOK
<1>3. AppInv /\ [ServicesNext]_servicesVars =>
          [\A u \in User :
              ap_resolver = u /\ ap_resolver' = Appl!NoUser /\ ap_doing[u] = "stop_all"
              => /\ ap_up \subseteq Appl!ToSet(ap_todo'[u])
                 /\ \A i, j \in DOMAIN ap_todo'[u] :
                       Appl!Contains(ap_spec[ap_todo'[u][i]], ap_todo'[u][j]) => i < j]_(Appl!vars)
  BY AppFocus, AppReaches
<1>4. QED BY <1>1, <1>2, <1>3, AppInFocus, PTL DEF ServicesSpec, ApplicationSafe, Appl!StopAllReaches

=============================================================================
