-------------------------------- MODULE GenFsm --------------------------------
(***************************************************************************)
(* gen_fsm/{server,types}.rs: one state machine and one client of it.      *)
(*                                                                         *)
(* run_fsm is one task; each turn of its loop takes a postponed event, a   *)
(* timeout that has fired or a message, runs the handler and applies its   *)
(* result.  Timeouts are tasks of their own that race their cancellation.  *)
(* What a handler returns is chosen freely, with at most one action.       *)
(***************************************************************************)
EXTENDS Naturals, Sequences

CONSTANTS
    State,         \* states of the machine
    Name,          \* names of generic timeouts
    MaxEvents,     \* bound: events the client sends
    MaxFsmCalls,   \* bound: calls the client makes
    MaxTimers      \* bound: timeouts set

StateSlot == "state_timeout"
Slot == {StateSlot} \cup Name
FsmCall == 1 .. MaxFsmCalls
NoTimer == 0

Event == [type |-> "event", ref |-> 0]
TimeoutEvent == [type |-> "timeout", ref |-> 0]  \* Event(b"state_timeout"), Event(name)
Request(ref) == [type |-> "call", ref |-> ref]
Message == {Event, TimeoutEvent} \cup {Request(r) : r \in FsmCall}
Task == [slot : Slot, serial : Nat, sending : BOOLEAN, old : BOOLEAN]

VARIABLES
    loop,       \* "none" before init, then "running", "ended" or "refused"
    state,
    terminated, \* how often the terminate callback ran
    queue,      \* the mailbox of the process
    postponed,  \* postponed_events
    fired,      \* timeout_rx: slots whose timeout has fired
    armed,      \* the handle the manager keeps per slot: a serial number
    tasks,      \* timeout tasks that have neither ended nor been cancelled
    serial, events, fsmCalls,  \* counters of the bounds
    open,       \* calls whose From a handler keeps
    waits,      \* the call the client waits for
    replies,    \* the mailbox of the client
    result      \* what each call came to

timerVars == <<fired, armed, tasks, serial>>
clientVars == <<events, fsmCalls, waits, result>>
vars == <<loop, state, terminated, queue, postponed, timerVars, open, clientVars, replies>>

TypeOK ==
    /\ loop \in {"none", "running", "ended", "refused"} /\ state \in State
    /\ terminated \in Nat
    /\ queue \in Seq(Message) /\ postponed \in Seq(Message) /\ fired \in Seq(Slot)
    /\ armed \in [Slot -> Nat] /\ serial \in Nat /\ tasks \subseteq Task
    /\ events \in Nat /\ fsmCalls \in Nat
    /\ open \subseteq FsmCall /\ waits \in FsmCall \cup {0} /\ replies \in Seq(FsmCall)
    /\ result \in [FsmCall -> {"none", "reply", "foreign_reply", "timeout", "not_found"}]

Init ==
    /\ loop = "none" /\ state \in State /\ terminated = 0
    /\ queue = <<>> /\ postponed = <<>> /\ fired = <<>>
    /\ armed = [x \in Slot |-> NoTimer] /\ tasks = {}
    /\ serial = 0 /\ events = 0 /\ fsmCalls = 0
    /\ open = {} /\ waits = 0 /\ replies = <<>>
    /\ result = [r \in FsmCall |-> "none"]

-----------------------------------------------------------------------------
(* TimeoutManager. *)

(* The tasks that a cancellation of these slots still reaches: a task that *)
(* has left its select! sends, whatever happens.                           *)
Reached(slots) ==
    {t \in tasks : t.slot \in slots /\ ~t.sending /\ t.serial = armed[t.slot]}

(* Mutant of CancelAll: the named timeouts stay. *)
CancelState == {StateSlot}

(* cancel_all(): the slots a change of state clears. *)
CancelAll == Slot

(* Cancels the slots of `cancel`, then sets those of `set`, each of which  *)
(* is cancelled first; `change` is true when a new state is entered.       *)
Timers(change, cancel, set) ==
    LET kept == tasks \ Reached(cancel \cup set)
        aged == {[t EXCEPT !.old = @ \/ change] : t \in kept}
        new == {[slot |-> x, serial |-> serial + 1, sending |-> FALSE, old |-> FALSE] : x \in set}
    IN /\ set # {} => serial < MaxTimers
       /\ tasks' = aged \cup new
       /\ armed' = [x \in Slot |-> IF x \in set THEN serial + 1
                                   ELSE IF x \in cancel THEN NoTimer ELSE armed[x]]
       /\ serial' = IF set = {} THEN serial ELSE serial + 1

(* The delay of a task runs out, and later the task sends. *)
Elapse(t) ==
    /\ ~t.sending
    /\ tasks' = (tasks \ {t}) \cup {[t EXCEPT !.sending = TRUE]}
    /\ UNCHANGED <<loop, state, terminated, queue, postponed, fired, armed, serial, open,
                   clientVars, replies>>

SendTimeout(t) ==
    /\ t.sending
    /\ tasks' = tasks \ {t}
    /\ fired' = IF loop = "ended" THEN fired ELSE Append(fired, t.slot)
    /\ UNCHANGED <<loop, state, terminated, queue, postponed, armed, serial, open,
                   clientVars, replies>>

-----------------------------------------------------------------------------
(* init(): Ok, OkTimeout, or Ignore and Stop. *)
StartFsm ==
    /\ loop = "none"
    /\ \/ loop' = "refused" /\ UNCHANGED timerVars
       \/ /\ loop' = "running" /\ UNCHANGED fired
          /\ \E set \in {{}, {StateSlot}} : Timers(FALSE, {}, set)
    /\ UNCHANGED <<state, terminated, queue, postponed, open, clientVars, replies>>

(* The client. *)
Post(msg) == queue' = IF loop = "running" THEN Append(queue, msg) ELSE queue

SendEvent ==
    /\ loop # "none" /\ events < MaxEvents /\ waits = 0
    /\ events' = events + 1
    /\ Post(Event)
    /\ UNCHANGED <<loop, state, terminated, postponed, timerVars, open, fsmCalls, waits,
                   result, replies>>

(* call(): the send fails when the process is gone. *)
MakeCall ==
    /\ loop # "none" /\ waits = 0 /\ fsmCalls < MaxFsmCalls
    /\ fsmCalls' = fsmCalls + 1
    /\ Post(Request(fsmCalls + 1))
    /\ \/ loop = "running" /\ waits' = fsmCalls + 1 /\ UNCHANGED result
       \/ /\ loop # "running" /\ UNCHANGED waits
          /\ result' = [result EXCEPT ![fsmCalls + 1] = "not_found"]
    /\ UNCHANGED <<loop, state, terminated, postponed, timerVars, open, events, replies>>

(* The first message that arrives decides, whatever its reference. *)
TakeReply ==
    /\ waits # 0 /\ replies # <<>>
    /\ replies' = Tail(replies) /\ waits' = 0
    /\ result' = [result EXCEPT ![waits] =
                     IF Head(replies) = waits THEN "reply" ELSE "foreign_reply"]
    /\ UNCHANGED <<loop, state, terminated, queue, postponed, timerVars, open, events, fsmCalls>>

CallTimesOut ==
    /\ waits # 0
    /\ waits' = 0
    /\ result' = [result EXCEPT ![waits] = "timeout"]
    /\ UNCHANGED <<loop, state, terminated, queue, postponed, timerVars, open, events,
                   fsmCalls, replies>>

-----------------------------------------------------------------------------
(* The message of this turn: postponed events come first, then timeouts.   *)
TakesTimeout ==
    /\ loop = "running" /\ postponed = <<>> /\ fired # <<>>
    /\ fired' = Tail(fired)

NextMessage ==
    IF postponed # <<>> THEN {Head(postponed)}
    ELSE IF fired = <<>> /\ queue # <<>> THEN {Head(queue)} ELSE {}

(* The message leaves its queue; a postponed one goes to the back.         *)
Consumes(again) ==
    LET rest == IF postponed # <<>> THEN Tail(postponed) ELSE postponed
    IN /\ postponed' = IF again THEN Append(rest, CHOOSE msg \in NextMessage : TRUE)
                      ELSE rest
       /\ queue' = IF postponed # <<>> THEN queue ELSE Tail(queue)

Turn(types) ==
    /\ loop = "running"
    /\ \E msg \in NextMessage : msg.type \in types
    /\ UNCHANGED <<fired, clientVars>>

(* A timeout becomes an event that the process sends to itself. *)
HandleTimeout ==
    /\ TakesTimeout
    /\ Post(TimeoutEvent)
    /\ UNCHANGED <<loop, state, terminated, postponed, armed, tasks, serial, open, clientVars,
                   replies>>

(* An event, or call, that does not decode is skipped. *)
Skip ==
    /\ Turn({"timeout", "call"})
    /\ Consumes(FALSE)
    /\ UNCHANGED <<loop, state, terminated, armed, tasks, serial, open, replies>>

Replying(rs) ==
    /\ replies' = IF rs = {} THEN replies ELSE Append(replies, CHOOSE r \in rs : TRUE)
    /\ open' = open \ rs

(* EventResult::{NextState, NextStateTimeout, NextStateActions}: timeouts  *)
(* are cancelled before the state is left, an action may set one anew.     *)
EventNextState ==
    /\ Turn({"event", "timeout"})
    /\ state' \in State
    /\ \E again \in BOOLEAN, rs \in {{}} \cup {{r} : r \in open}, set \in {{}} \cup {{x} : x \in Slot} :
          /\ (IF again THEN 1 ELSE 0) + (IF rs = {} THEN 0 ELSE 1) + (IF set = {} THEN 0 ELSE 1) <= 1
          /\ Consumes(again) /\ Replying(rs)
          /\ Timers(TRUE, CancelAll, set)
    /\ UNCHANGED <<loop, terminated>>

(* EventResult::{KeepState, KeepStateTimeout, KeepStateActions}: the state *)
(* timeout is cancelled.                                                   *)
EventKeepState ==
    /\ Turn({"event", "timeout"})
    /\ \E again \in BOOLEAN, rs \in {{}} \cup {{r} : r \in open},
          cancel \in {{}} \cup {{x} : x \in Name}, set \in {{}} \cup {{x} : x \in Slot} :
          /\ (IF again THEN 1 ELSE 0) + (IF rs = {} THEN 0 ELSE 1)
             + (IF cancel = {} THEN 0 ELSE 1) + (IF set = {} THEN 0 ELSE 1) <= 1
          /\ Consumes(again) /\ Replying(rs)
          /\ Timers(FALSE, {StateSlot} \cup cancel, set)
    /\ UNCHANGED <<loop, state, terminated>>

(* EventResult::{Stop, StopReply}: terminate runs, and the loop goes on.   *)
EventStop ==
    /\ Turn({"event", "timeout"})
    /\ terminated' = terminated + 1
    /\ \E rs \in {{}} \cup {{r} : r \in open} : Replying(rs)
    /\ Consumes(FALSE)
    /\ UNCHANGED <<loop, state, armed, tasks, serial>>

(* CallResult: a reply or none, and a new state with or without a timeout, *)
(* or neither the state nor a timeout changes.                             *)
CallNextState ==
    /\ Turn({"call"})
    /\ \E msg \in NextMessage, answers \in BOOLEAN :
          /\ replies' = IF answers THEN Append(replies, msg.ref) ELSE replies
          /\ open' = IF answers THEN open ELSE open \cup {msg.ref}
    /\ Consumes(FALSE)
    /\ \/ /\ state' \in State
          /\ \E set \in {{}, {StateSlot}} : Timers(TRUE, CancelAll, set)
       \/ UNCHANGED <<state, armed, tasks, serial>>
    /\ UNCHANGED <<loop, terminated>>

(* The process ends: its timeouts are cancelled with the manager, and the  *)
(* terminate callback runs once in the handler and once after the loop.    *)
CallStop ==
    /\ Turn({"call"})
    /\ loop' = "ended" /\ state' \in State
    /\ terminated' = terminated + 2
    /\ \E msg \in NextMessage, answers \in BOOLEAN :
          replies' = IF answers THEN Append(replies, msg.ref) ELSE replies
    /\ queue' = <<>> /\ postponed' = <<>> /\ open' = {}
    /\ armed' = [x \in Slot |-> NoTimer] /\ tasks' = tasks \ Reached(Slot)
    /\ UNCHANGED serial

-----------------------------------------------------------------------------
FsmTurn ==
    \/ HandleTimeout \/ Skip
    \/ EventNextState \/ EventKeepState \/ EventStop
    \/ CallNextState \/ CallStop

Next ==
    \/ StartFsm \/ FsmTurn
    \/ SendEvent \/ MakeCall \/ TakeReply \/ CallTimesOut
    \/ \E t \in tasks : Elapse(t) \/ SendTimeout(t)

Spec == Init /\ [][Next]_vars

-----------------------------------------------------------------------------
(* A timeout that can still go off was set in the state the machine is in  *)
(* and is the one its slot names, so that the manager can still cancel it; *)
(* when the machine has ended there is none.                               *)
TimersOfState ==
    \A t \in tasks :
        ~t.sending => loop = "running" /\ ~t.old /\ armed[t.slot] = t.serial

=============================================================================
