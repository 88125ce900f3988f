------------------------------ MODULE BeamLink ------------------------------
(***************************************************************************)
(* manager.rs, connect_erlang and send_to_erlang: connections to one node  *)
(* of the BEAM.  The two tasks of a connection share it under a fair       *)
(* mutex, and the receiver holds the mutex while it waits for a message.   *)
(* The entry of the node is written and removed without regard to which    *)
(* connection it is of.                                                    *)
(***************************************************************************)
EXTENDS Naturals

CONSTANTS
    Conn,      \* connections that may be made, one after another or at once
    Capacity   \* messages a channel holds

NoConn == "no_conn"

VARIABLES
    stage,     \* how far each connect_erlang() has come
    entry,     \* erlang_nodes: the connection under the node's name
    queue,     \* messages in the channel of each connection
    sender,    \* the sender task: rest, waits for the mutex, sends, ended
    receiver,  \* the receiver task: waits for the mutex, receives, handles, ended
    inbound    \* a message of the BEAM node lies in the socket

vars == <<stage, entry, queue, sender, receiver, inbound>>

TypeOK ==
    /\ stage \in [Conn -> {"idle", "connecting", "refused", "done"}]
    /\ entry \in Conn \cup {NoConn}
    /\ queue \in [Conn -> 0 .. Capacity]
    /\ sender \in [Conn -> {"rest", "waits", "sends", "ended"}]
    /\ receiver \in [Conn -> {"none", "waits", "receives", "handles", "cleans", "ended"}]
    /\ inbound \in [Conn -> BOOLEAN]

Init ==
    /\ stage = [c \in Conn |-> "idle"]
    /\ entry = NoConn
    /\ queue = [c \in Conn |-> 0]
    /\ sender = [c \in Conn |-> "rest"]
    /\ receiver = [c \in Conn |-> "none"]
    /\ inbound = [c \in Conn |-> FALSE]

(* The look at the table, the handshake, and the entry afterwards. *)
ConnectErlang(c) ==
    /\ stage[c] = "idle"
    /\ stage' = [stage EXCEPT ![c] = IF entry = NoConn THEN "connecting" ELSE "refused"]
    /\ UNCHANGED <<entry, queue, sender, receiver, inbound>>

Connected(c) ==
    /\ stage[c] = "connecting"
    /\ \/ /\ stage' = [stage EXCEPT ![c] = "done"]
          /\ entry' = c
          /\ receiver' = [receiver EXCEPT ![c] = "waits"]
       \/ /\ stage' = [stage EXCEPT ![c] = "refused"]
          /\ UNCHANGED <<entry, receiver>>
    /\ UNCHANGED <<queue, sender, inbound>>

(* send_to_erlang: what the channel cannot hold is dropped, with Ok. *)
SendToErlang ==
    /\ entry # NoConn /\ queue[entry] < Capacity
    /\ queue' = [queue EXCEPT ![entry] = @ + 1]
    /\ UNCHANGED <<stage, entry, sender, receiver, inbound>>

Arrives(c) ==
    /\ receiver[c] \notin {"none", "ended"} /\ ~inbound[c]
    /\ inbound' = [inbound EXCEPT ![c] = TRUE]
    /\ UNCHANGED <<stage, entry, queue, sender, receiver>>

-----------------------------------------------------------------------------
(* Who waits for the mutex gets it in the order of asking: with two tasks, *)
(* who holds it passes it to the other one if that one waits.              *)
Held(c) == sender[c] = "sends" \/ receiver[c] = "receives"

Receiver(c, before, after) ==
    /\ receiver[c] = before
    /\ receiver' = [receiver EXCEPT ![c] = after]

ReceiverLocks(c) ==
    /\ ~Held(c)
    /\ Receiver(c, "waits", "receives")
    /\ UNCHANGED <<stage, entry, queue, sender, inbound>>

(* Mutant of Passes: the receiver may take the mutex again at once. *)
PassesToAny(c) == UNCHANGED sender

Passes(c) == sender' = IF sender[c] = "waits" THEN [sender EXCEPT ![c] = "sends"] ELSE sender

(* receive() under the guard, which is then dropped; a SpawnRequest is     *)
(* answered before that.                                                   *)
Receives(c) ==
    /\ inbound[c]
    /\ Receiver(c, "receives", "handles")
    /\ inbound' = [inbound EXCEPT ![c] = FALSE]
    /\ Passes(c)
    /\ UNCHANGED <<stage, entry, queue>>

ReceiverLoops(c) ==
    /\ Receiver(c, "handles", "waits")
    /\ UNCHANGED <<stage, entry, queue, sender, inbound>>

ReceiveFails(c) ==
    /\ Receiver(c, "receives", "cleans")
    /\ Passes(c)
    /\ UNCHANGED <<stage, entry, queue, inbound>>

(* The clean-up at its end takes the entry of the node, whoever's it is.   *)
ReceiverEnds(c) ==
    /\ Receiver(c, "cleans", "ended")
    /\ entry' = NoConn
    /\ inbound' = [inbound EXCEPT ![c] = FALSE]
    /\ UNCHANGED <<stage, queue, sender>>

SenderTakes(c) ==
    /\ sender[c] = "rest" /\ queue[c] > 0
    /\ queue' = [queue EXCEPT ![c] = @ - 1]
    /\ sender' = [sender EXCEPT ![c] = IF Held(c) THEN "waits" ELSE "sends"]
    /\ UNCHANGED <<stage, entry, receiver, inbound>>

(* A send that fails is logged; the guard is dropped.                      *)
Sends(c) ==
    /\ sender[c] = "sends"
    /\ sender' = [sender EXCEPT ![c] = "rest"]
    /\ UNCHANGED <<stage, entry, queue, receiver, inbound>>

(* The channel is closed once the entry that holds its sender is gone.     *)
SenderEnds(c) ==
    /\ sender[c] = "rest" /\ stage[c] = "done" /\ entry # c /\ queue[c] = 0
    /\ sender' = [sender EXCEPT ![c] = "ended"]
    /\ UNCHANGED <<stage, entry, queue, receiver, inbound>>

Progress ==
    \E c \in Conn :
        \/ ReceiverLocks(c) \/ Receives(c) \/ ReceiverLoops(c) \/ ReceiverEnds(c)
        \/ SenderTakes(c) \/ Sends(c) \/ SenderEnds(c)

Next ==
    \/ Progress
    \/ \E c \in Conn : ConnectErlang(c) \/ Connected(c) \/ Arrives(c) \/ ReceiveFails(c)
    \/ SendToErlang

Spec == Init /\ [][Next]_vars

-----------------------------------------------------------------------------
(* A message that waits for the mutex of its connection waits for at most  *)
(* one message of the other side: once the receiver has given the mutex up *)
(* it does not get it again before the sender has.                         *)
SenderHasItsTurn ==
    [][\A c \in Conn :
          receiver[c] = "waits" /\ receiver'[c] = "receives" => sender[c] # "waits"]_vars
=============================================================================
