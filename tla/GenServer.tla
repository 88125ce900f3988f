------------------------------- MODULE GenServer -------------------------------
(***************************************************************************)
(* gen_server/{server,types,server_ref,via}.rs: servers that are started   *)
(* under one name, and the clients that call, cast to and stop them.       *)
(*                                                                         *)
(* A server is one task: it takes a message, runs the handler to its end   *)
(* and acts on the result, so that one turn of its loop is one action; the *)
(* outcome of a callback is chosen freely.  Timeouts and continues are     *)
(* tasks of their own that put a message into the mailbox later.  A client *)
(* that waits for a reply takes every message out of its mailbox.          *)
(***************************************************************************)
EXTENDS Naturals, Sequences

CONSTANTS
    Server, Client,
    MaxCalls,  \* bound: calls made by all clients together
    MaxSends,  \* bound: casts, plain messages and stops sent
    MaxLater   \* bound: timeouts and continues scheduled

Call == 1 .. MaxCalls
NoCall == 0
NoServer == "no_server"
NoClient == "no_client"
LaterKind == {"timeout", "continue"}
Handled == {"cast", "info"} \cup LaterKind

Request(ref) == [type |-> "call", ref |-> ref]
Plain(type) == [type |-> type, ref |-> NoCall]
Message == [type : Handled \cup {"call", "stop"}, ref : Call \cup {NoCall}]

VARIABLES
    phase,     \* where the task of each server is; "panicked": it ended without the runtime
    started,   \* what start() returned to whoever started the server
    name,      \* the server registered under the name
    mailbox,   \* what each server has yet to take
    later,     \* messages that spawned tasks will still send each server
    deferred,  \* calls answered NoReply whose From the server keeps
    nextCall, sends, scheduled,  \* counters of the bounds
    from,      \* the client that made each call
    waiting,   \* the call each client waits for
    inbox,     \* the mailbox of each client: references of replies
    outcome,   \* what each call has come to
    served     \* calls a reply was sent for

clientVars == <<nextCall, from, waiting, outcome>>
serverVars == <<phase, started, name>>
laterVars == <<later, scheduled>>
answerVars == <<inbox, served>>
vars == <<serverVars, mailbox, laterVars, deferred, sends, clientVars, answerVars>>

TypeOK ==
    /\ phase \in [Server -> {"none", "init", "check", "insert", "loop", "unregister", "gone", "panicked"}]
    /\ started \in [Server -> {"none", "ok", "ignore", "stop", "already"}]
    /\ name \in Server \cup {NoServer}
    /\ mailbox \in [Server -> Seq(Message)]
    /\ later \in [Server -> [LaterKind -> Nat]]
    /\ deferred \in [Server -> SUBSET Call]
    /\ nextCall \in 1 .. MaxCalls + 1 /\ sends \in 0 .. MaxSends /\ scheduled \in 0 .. MaxLater
    /\ from \in [Call -> Client \cup {NoClient}]
    /\ waiting \in [Client -> Call \cup {NoCall}]
    /\ inbox \in [Client -> Seq(Call)]
    /\ outcome \in [Call -> {"idle", "pending", "answered", "timeout"}]
    /\ served \subseteq Call

Init ==
    /\ phase = [s \in Server |-> "none"] /\ started = phase
    /\ name = NoServer
    /\ mailbox = [s \in Server |-> <<>>]
    /\ later = [s \in Server |-> [k \in LaterKind |-> 0]]
    /\ deferred = [s \in Server |-> {}]
    /\ nextCall = 1 /\ sends = 0 /\ scheduled = 0
    /\ from = [r \in Call |-> NoClient]
    /\ waiting = [c \in Client |-> NoCall]
    /\ inbox = [c \in Client |-> <<>>]
    /\ outcome = [r \in Call |-> "idle"]
    /\ served = {}

-----------------------------------------------------------------------------
(* Starting: init() runs in the new process, then the name is looked up    *)
(* and inserted, in two accesses to the registry; the starter is told.     *)
(* The mailbox and what the server keeps go with its process.              *)
Moves(s, before, after) ==
    /\ phase[s] = before
    /\ phase' = [phase EXCEPT ![s] = after]
    /\ IF after \in {"gone", "panicked"}
       THEN /\ mailbox' = [mailbox EXCEPT ![s] = <<>>]
            /\ deferred' = [deferred EXCEPT ![s] = {}]
       ELSE UNCHANGED <<mailbox, deferred>>
    /\ UNCHANGED <<sends, clientVars, answerVars>>

Start(s) == Moves(s, "none", "init") /\ UNCHANGED <<started, name, laterVars>>

InitReturns(s) == Moves(s, "init", "check") /\ UNCHANGED <<started, name, laterVars>>

Refuses(s, before, why) ==
    /\ Moves(s, before, "gone")
    /\ started' = [started EXCEPT ![s] = why]
    /\ UNCHANGED <<name, laterVars>>

InitRefuses(s) == \E why \in {"ignore", "stop"} : Refuses(s, "init", why)

NameTaken(s) == name # NoServer /\ Refuses(s, "check", "already")

NameFree(s) ==
    /\ name = NoServer
    /\ Moves(s, "check", "insert")
    /\ UNCHANGED <<started, name, laterVars>>

(* schedule_timeout and schedule_continue: a task that sends one message. *)
Schedules(s) ==
    \/ UNCHANGED laterVars
    \/ /\ scheduled < MaxLater
       /\ scheduled' = scheduled + 1
       /\ \E k \in LaterKind : later' = [later EXCEPT ![s][k] = @ + 1]

(* The registry looks again before it inserts, in two accesses: who comes  *)
(* second takes the name over or is refused it.  The answer is dropped, so *)
(* the server runs and its starter hears Ok either way.                    *)
InsertName(s) ==
    /\ Moves(s, "insert", "loop")
    /\ name' \in {s, IF name = NoServer THEN s ELSE name}
    /\ started' = [started EXCEPT ![s] = "ok"]
    /\ Schedules(s)

(* Mutant of UnregisterName: a server that stops keeps its name. *)
UnregisterNameNot(s) ==
    /\ Moves(s, "unregister", "gone")
    /\ UNCHANGED <<started, name, laterVars>>

(* After the loop the name goes, whoever is registered under it by then.   *)
UnregisterName(s) ==
    /\ Moves(s, "unregister", "gone")
    /\ name' = NoServer
    /\ UNCHANGED <<started, laterVars>>

(* A callback panics: the task ends and its mailbox with it, and nothing   *)
(* else happens, so that the process keeps its name.                       *)
Panic(s) ==
    /\ Moves(s, "loop", "panicked")
    /\ UNCHANGED <<started, name, laterVars>>

(* A panic in init(): the starter hears that the channel is closed.        *)
InitPanics(s) ==
    /\ Moves(s, "init", "panicked")
    /\ started' = [started EXCEPT ![s] = "stop"]
    /\ UNCHANGED <<name, laterVars>>

-----------------------------------------------------------------------------
(* The clients. *)
Post(s, msg) ==
    mailbox' = IF phase[s] \in {"gone", "panicked"} THEN mailbox
               ELSE [mailbox EXCEPT ![s] = Append(@, msg)]

(* A server is addressed by its pid or by the name (ServerRef::resolve).   *)
Resolves(s) == name = s \/ started[s] = "ok"

(* call(): what becomes of the send is ignored, the caller waits anyway.   *)
MakeCall(c, s) ==
    /\ waiting[c] = NoCall /\ nextCall \in Call
    /\ Resolves(s)
    /\ Post(s, Request(nextCall))
    /\ from' = [from EXCEPT ![nextCall] = c]
    /\ waiting' = [waiting EXCEPT ![c] = nextCall]
    /\ outcome' = [outcome EXCEPT ![nextCall] = "pending"]
    /\ nextCall' = nextCall + 1
    /\ UNCHANGED <<serverVars, laterVars, deferred, sends, answerVars>>

Returns(c, what) ==
    /\ outcome' = [outcome EXCEPT ![waiting[c]] = what]
    /\ waiting' = [waiting EXCEPT ![c] = NoCall]

(* Mutant of WaitForReply: the reference of the reply is not looked at. *)
WaitForAnyReply(c) ==
    /\ waiting[c] # NoCall /\ inbox[c] # <<>>
    /\ inbox' = [inbox EXCEPT ![c] = Tail(@)]
    /\ Returns(c, "answered")
    /\ UNCHANGED <<serverVars, mailbox, laterVars, deferred, sends, nextCall, from, served>>

(* wait_for_reply: everything that is not the reply is thrown away. *)
WaitForReply(c) ==
    /\ waiting[c] # NoCall /\ inbox[c] # <<>>
    /\ inbox' = [inbox EXCEPT ![c] = Tail(@)]
    /\ \/ Head(inbox[c]) = waiting[c] /\ Returns(c, "answered")
       \/ Head(inbox[c]) # waiting[c] /\ UNCHANGED <<waiting, outcome>>
    /\ UNCHANGED <<serverVars, mailbox, laterVars, deferred, sends, nextCall, from, served>>

CallTimesOut(c) ==
    /\ waiting[c] # NoCall
    /\ Returns(c, "timeout")
    /\ UNCHANGED <<serverVars, mailbox, laterVars, deferred, sends, nextCall, from, answerVars>>

(* cast(), stop() and messages that are neither. *)
SendTo(s, type) ==
    /\ sends < MaxSends
    /\ sends' = sends + 1
    /\ Resolves(s)
    /\ Post(s, Plain(type))
    /\ UNCHANGED <<serverVars, laterVars, deferred, clientVars, answerVars>>

(* The task of a timeout or continue sends; nothing takes it back before.  *)
Fire(s, kind) ==
    /\ later[s][kind] > 0
    /\ later' = [later EXCEPT ![s][kind] = @ - 1]
    /\ Post(s, Plain(kind))
    /\ UNCHANGED <<serverVars, scheduled, deferred, sends, clientVars, answerVars>>

-----------------------------------------------------------------------------
(* gen_server_loop: one turn takes one message. *)
Takes(s, types) ==
    /\ phase[s] = "loop" /\ mailbox[s] # <<>>
    /\ Head(mailbox[s]).type \in types
    /\ mailbox' = [mailbox EXCEPT ![s] = Tail(@)]
    /\ UNCHANGED <<sends, clientVars>>

Goes(s) == UNCHANGED serverVars /\ Schedules(s)

Stops(s) ==
    /\ phase' = [phase EXCEPT ![s] = "unregister"]
    /\ UNCHANGED <<started, name, laterVars>>

(* A reply goes to the process that called, whether it still waits or not. *)
Reply(r) ==
    /\ inbox' = [inbox EXCEPT ![from[r]] = Append(@, r)]
    /\ served' = served \cup {r}

(* Reply::{Ok, Continue, Timeout}, or an error for a request that does not *)
(* decode; Reply::{Stop, StopNoReply} answer before the server stops.      *)
HandleCall(s) ==
    /\ Takes(s, {"call"})
    /\ Reply(Head(mailbox[s]).ref)
    /\ Goes(s) \/ Stops(s)
    /\ UNCHANGED deferred

(* Reply::NoReply: the handler has kept the From. *)
DeferCall(s) ==
    /\ Takes(s, {"call"})
    /\ deferred' = [deferred EXCEPT ![s] = @ \cup {Head(mailbox[s]).ref}]
    /\ UNCHANGED <<serverVars, laterVars, answerVars>>

(* handle_cast, handle_info, handle_timeout and handle_continue; each may  *)
(* answer a call that was left open, which uses up its From.               *)
HandleOther(s) ==
    /\ Takes(s, Handled)
    /\ \/ UNCHANGED <<deferred, answerVars>>
       \/ \E r \in deferred[s] :
             deferred' = [deferred EXCEPT ![s] = @ \ {r}] /\ Reply(r)
    /\ Goes(s) \/ Stops(s)

(* Mutant of HandleStop: the loop goes on after terminate(). *)
HandleStopGoesOn(s) ==
    /\ Takes(s, {"stop"})
    /\ UNCHANGED <<serverVars, laterVars, deferred, answerVars>>

HandleStop(s) == Takes(s, {"stop"}) /\ Stops(s) /\ UNCHANGED <<deferred, answerVars>>

-----------------------------------------------------------------------------
Turn(s) == HandleCall(s) \/ DeferCall(s) \/ HandleOther(s) \/ HandleStop(s)

Progress ==
    \E s \in Server :
        \/ InitReturns(s) \/ NameTaken(s) \/ NameFree(s) \/ InsertName(s)
        \/ Turn(s) \/ UnregisterName(s)

Next ==
    \/ Progress
    \/ \E s \in Server :
          \/ Start(s) \/ InitRefuses(s) \/ InitPanics(s) \/ Panic(s)
          \/ \E c \in Client : MakeCall(c, s)
          \/ \E type \in {"cast", "info", "stop"} : SendTo(s, type)
          \/ \E kind \in LaterKind : Fire(s, kind)
    \/ \E c \in Client : WaitForReply(c) \/ CallTimesOut(c)

Spec == Init /\ [][Next]_vars

(* The runtime polls every task that is ready; clients, callers and timers *)
(* owe nothing.                                                            *)
FairSpec == Spec /\ WF_vars(Progress)

-----------------------------------------------------------------------------
(* What a call promises, whoever serves it. *)
Promise == INSTANCE RemoteCall

(* call() returns Ok only with the reply to that very call, and each call  *)
(* is answered once: late replies, and replies sent long after             *)
(* Reply::NoReply, never reach another call of the same client.            *)
CallsImplement == Promise!Spec

(* A server that has stopped is not found under the name, however starts   *)
(* and ends of servers that compete for it interleave; only one that has   *)
(* panicked leaves its name behind.                                        *)
NameAlive == name # NoServer => phase[name] \in {"loop", "unregister", "panicked"}

(* A server that has a stop message in its mailbox ends, whatever its      *)
(* callbacks return before they come to it.                                *)
StopEnds ==
    \A s \in Server :
        phase[s] = "loop" /\ Plain("stop") \in {mailbox[s][i] : i \in DOMAIN mailbox[s]}
        ~> phase[s] \in {"gone", "panicked"}
=============================================================================
