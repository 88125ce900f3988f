----------------------------- MODULE RemoteSpawn -----------------------------
(***************************************************************************)
(* node.rs, distribution/spawn.rs and the tables of pending requests of    *)
(* manager.rs: ping(), spawn(), spawn_link() and spawn_monitor() of one    *)
(* node, answered by another.                                              *)
(*                                                                         *)
(* A caller registers its request, queues it and waits with a time limit   *)
(* for the receiver of the connection to complete it by its reference.     *)
(***************************************************************************)
EXTENDS Naturals

CONSTANTS
    MaxRequests,  \* bound: requests made
    MaxLosses     \* bound: connections lost

Call == 1 .. MaxRequests
Kind == {"ping", "spawn", "spawn_link", "spawn_monitor"}
Spawns == Kind \ {"ping"}

VARIABLES
    kind,       \* what each request asks for
    outcome,    \* what each request has come to
    pending,    \* pending_pings and pending_spawns
    requests,   \* requests under way to the other node
    answers,    \* <<request, whether it succeeded>> under way back
    served,     \* requests the other node has answered
    ok,         \* requests completed with success
    up,         \* the connection stands
    losses,     \* counter of a bound
    function,   \* the function is registered for remote spawn
    process,    \* the process each request spawned: none, alive, gone
    incoming,   \* requests whose process the other node knows to be monitored
    downs       \* requests whose caller was told of the end of the process

netVars == <<up, losses>>
remoteVars == <<served, function, process, incoming>>
vars == <<kind, outcome, pending, requests, answers, ok, netVars, remoteVars, downs>>

TypeOK ==
    /\ kind \in [Call -> Kind]
    /\ outcome \in [Call -> {"idle", "refused", "pending", "answered", "timeout"}]
    /\ pending \subseteq Call /\ requests \subseteq Call
    /\ answers \subseteq Call \X BOOLEAN
    /\ served \subseteq Call /\ ok \subseteq Call
    /\ incoming \subseteq Call /\ downs \subseteq incoming
    /\ process \in [Call -> {"none", "alive", "gone"}]

Init ==
    /\ kind \in [Call -> Kind]
    /\ outcome = [r \in Call |-> "idle"]
    /\ pending = {} /\ requests = {} /\ answers = {}
    /\ served = {} /\ ok = {}
    /\ up = TRUE /\ losses = 0
    /\ function \in BOOLEAN
    /\ process = [r \in Call |-> "none"]
    /\ incoming = {} /\ downs = {}

Becomes(r, before, after) ==
    /\ outcome[r] = before
    /\ outcome' = [outcome EXCEPT ![r] = after]

(* ping_impl and spawn_impl: nothing is registered without a connection;   *)
(* where the queue is full the entry stays.                                *)
NotConnected(r) ==
    /\ ~up /\ Becomes(r, "idle", "refused")
    /\ UNCHANGED <<kind, pending, requests, answers, ok, netVars, remoteVars, downs>>

QueueFull(r) ==
    /\ up /\ Becomes(r, "idle", "refused")
    /\ pending' = pending \cup {r}
    /\ UNCHANGED <<kind, requests, answers, ok, netVars, remoteVars, downs>>

Request(r) ==
    /\ up /\ Becomes(r, "idle", "pending")
    /\ pending' = pending \cup {r}
    /\ requests' = requests \cup {r}
    /\ UNCHANGED <<kind, answers, ok, netVars, remoteVars, downs>>

(* The waiter gives up; its entry stays. *)
TimesOut(r) ==
    /\ Becomes(r, "pending", "timeout")
    /\ UNCHANGED <<kind, pending, requests, answers, ok, netVars, remoteVars, downs>>

(* The other node: a ping is answered, and so is a spawn, with the pid or  *)
(* with the error of a function that is not registered.  execute_spawn     *)
(* makes a reference for a monitor and sets up neither monitor nor link.   *)
Answer(r, success) ==
    /\ r \in requests
    /\ requests' = requests \ {r}
    /\ answers' = answers \cup {<<r, success>>}
    /\ served' = served \cup {r}
    /\ UNCHANGED <<kind, outcome, pending, ok, netVars, function, incoming, downs>>

(* The heartbeat numbers its pings by a counter of its own, and its pongs  *)
(* come to the same table.                                                 *)
HeartbeatPong(r) ==
    /\ up /\ kind[r] = "ping" /\ r \in pending
    /\ answers' = answers \cup {<<r, TRUE>>}
    /\ UNCHANGED <<kind, outcome, pending, requests, ok, netVars, remoteVars, downs>>

HandlePing(r) == kind[r] = "ping" /\ Answer(r, TRUE) /\ UNCHANGED process

ExecuteSpawn(r) ==
    /\ kind[r] \in Spawns
    /\ Answer(r, function)
    /\ process' = IF function THEN [process EXCEPT ![r] = "alive"] ELSE process

(* register() and unregister() of the spawn registry. *)
Register ==
    /\ function' = ~function
    /\ UNCHANGED <<kind, outcome, pending, requests, answers, ok, netVars, served, process, incoming, downs>>

(* Mutant of Complete: the answer goes to whoever waits. *)
CompleteAny(r, success) ==
    /\ <<r, success>> \in answers
    /\ answers' = answers \ {<<r, success>>}
    /\ pending' = {}
    /\ outcome' = [c \in Call |-> IF c \in pending /\ outcome[c] = "pending" THEN "answered" ELSE outcome[c]]
    /\ ok' = IF success THEN ok \cup {r} ELSE ok
    /\ UNCHANGED <<kind, requests, netVars, remoteVars, downs>>

(* complete_ping and complete_spawn: the entry goes, whoever waits or not. *)
Complete(r, success) ==
    /\ <<r, success>> \in answers
    /\ answers' = answers \ {<<r, success>>}
    /\ pending' = pending \ {r}
    /\ IF r \in pending /\ outcome[r] = "pending"
       THEN /\ outcome' = [outcome EXCEPT ![r] = "answered"]
            /\ ok' = IF success THEN ok \cup {r} ELSE ok
       ELSE UNCHANGED <<outcome, ok>>
    /\ UNCHANGED <<kind, requests, netVars, remoteVars, downs>>

(* The spawned process ends and its node tells those that monitor it. *)
ProcessExits(r) ==
    /\ process[r] = "alive"
    /\ process' = [process EXCEPT ![r] = "gone"]
    /\ downs' = downs \cup ({r} \cap incoming)
    /\ UNCHANGED <<kind, outcome, pending, requests, answers, ok, netVars, served, function, incoming>>

(* What is under way is lost with the connection; no waiter is told. *)
Lose ==
    /\ up /\ losses < MaxLosses
    /\ up' = FALSE /\ losses' = losses + 1
    /\ requests' = {} /\ answers' = {}
    /\ UNCHANGED <<kind, outcome, pending, ok, remoteVars, downs>>

Reconnect ==
    /\ ~up /\ up' = TRUE
    /\ UNCHANGED <<kind, outcome, pending, requests, answers, ok, losses, remoteVars, downs>>

Next ==
    \/ \E r \in Call :
          \/ NotConnected(r) \/ QueueFull(r) \/ Request(r) \/ TimesOut(r)
          \/ HandlePing(r) \/ HeartbeatPong(r) \/ ExecuteSpawn(r) \/ ProcessExits(r)
          \/ \E success \in BOOLEAN : Complete(r, success)
    \/ Register \/ Lose \/ Reconnect

Spec == Init /\ [][Next]_vars

-----------------------------------------------------------------------------
(* The spawns keep what RemoteCall promises: one answer each, to the       *)
(* request it belongs to, though requests time out, connections are lost   *)
(* and late answers find entries nobody waits for any more.                *)
Promise == INSTANCE RemoteCall WITH
    outcome <- [r \in Call |-> IF outcome[r] = "refused" \/ kind[r] = "ping" THEN "idle" ELSE outcome[r]],
    served <- {r \in served : kind[r] # "ping"}
SpawnsImplement == Promise!Spec

=============================================================================
