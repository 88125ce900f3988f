----------------------------- MODULE Supervisor -----------------------------
(***************************************************************************)
(* One supervisor and its children: supervisor/core.rs.                    *)
(*                                                                         *)
(* The supervisor is one task.  What a message makes it do is a list of    *)
(* starts and stops, and it awaits between any two of them, and within     *)
(* each, while its children go on running and leaving.  Children are       *)
(* processes as ProcessRuntime has them, reduced to what the supervisor    *)
(* can tell apart: a mark_terminated() that does not stop the task, the    *)
(* two halves of handle_process_exit, and panics that reach neither.       *)
(***************************************************************************)
EXTENDS Integers, Sequences, FiniteSets

CONSTANTS
    Child,        \* ids of the child specifications
    InitialOrder, \* the ids in the order of SupervisorInit.children
    Strategy,     \* SupervisorFlags.strategy
    MaxRestarts,  \* SupervisorFlags.max_restarts
    MaxSeconds,   \* SupervisorFlags.max_seconds
    Restart,      \* ChildSpec.restart of each child
    Shutdown,     \* ChildSpec.shutdown of each child
    Trapping,     \* children that trap exits
    Leaves,       \* reasons children leave with
    Commands,     \* commands that clients may send
    Hazards,      \* what else may happen, see HazardKinds
    MaxPid,       \* bound: processes started as children
    MaxTime,      \* bound: the clock
    MaxCommands   \* bound: commands sent

HazardKinds == {"start_fails", "name_taken", "struck", "panic", "exit_signal"}
CommandKinds == {"terminate", "delete", "restart"}

ASSUME ChildAssumption ==
    /\ InitialOrder \in Seq(Child)
    /\ \A i, j \in DOMAIN InitialOrder : InitialOrder[i] = InitialOrder[j] => i = j
    /\ Restart \in [Child -> {"permanent", "transient", "temporary"}]
    /\ Shutdown \in [Child -> {"brutal_kill", "timeout", "infinity"}]
    /\ Trapping \subseteq Child
ASSUME FlagsAssumption ==
    /\ Strategy \in {"one_for_one", "one_for_all", "rest_for_one"}
    /\ MaxRestarts \in Nat /\ MaxSeconds \in Nat
ASSUME BoundsAssumption ==
    /\ Leaves \subseteq {"normal", "abnormal"}
    /\ Commands \subseteq CommandKinds /\ Hazards \subseteq HazardKinds
    /\ MaxPid \in Nat /\ MaxTime \in Nat /\ MaxCommands \in Nat

NoPid == 0
Pid == 1 .. MaxPid
Reason == {"normal", "abnormal"}

VARIABLES
    now,         \* the clock, in the unit of MaxSeconds
    commands,    \* commands sent so far, bounded by MaxCommands
    nextPid,     \* pids below it have been handed out
    childOf,     \* the id each process was started for
    task,        \* where the task of each process is
    why,         \* the reason each process function left with
    registered,  \* the runtime's registry
    terminated,  \* ProcessState.terminated of each process
    asked,       \* processes with the supervisor's EXIT in their mailbox
    monitored,   \* processes with the supervisor's monitor installed
    tells,       \* processes whose exit will send the supervisor a DOWN
    phase,       \* where supervisor_loop is
    order,       \* SupervisorState.child_order; children has the same ids
    pidOf,       \* ChildState.pid of each child
    pidToId,     \* the domain of SupervisorState.pid_to_id
    restartAt,   \* when each restart was admitted, never forgotten
    counted,     \* SupervisorState.restart_times, as indices into restartAt
    inbox,       \* the supervisor's mailbox
    plan,        \* starts and stops the current handler still has to do
    current,     \* the process the first of them is waiting for, or NoPid
    view         \* SUPERVISOR_STATES: what which_children() answers with

childVars == <<childOf, task, why, registered, terminated, asked, monitored, tells>>
loopVars == <<phase, order, pidOf, pidToId, restartAt, counted, plan, current, view>>
vars == <<now, commands, nextPid, childVars, loopVars, inbox>>

Down(p, reason) == [type |-> "down", pid |-> p, reason |-> reason]
ExitSignal == [type |-> "exit"]
Command(kind, id) == [type |-> kind, id |-> id]
Message == [type : {"down"}, pid : Pid, reason : Reason]
           \cup {ExitSignal} \cup [type : CommandKinds, id : Child]

Job(op, id) == [op |-> op, id |-> id]
JobSet == [op : {"start", "stop"}, id : Child]

Phase == {"starting", "idle", "restarting", "command", "stopping", "gone",
          "init_failed"}

TypeOK ==
    /\ now \in 0 .. MaxTime
    /\ commands \in 0 .. MaxCommands
    /\ nextPid \in 1 .. (MaxPid + 1)
    /\ childOf \in [Pid -> Child \cup {"none"}]
    /\ task \in [Pid -> {"unborn", "running", "leaving", "notifying", "gone", "panicked"}]
    /\ why \in [Pid -> Reason]
    /\ terminated \in [Pid -> BOOLEAN]
    /\ registered \subseteq Pid /\ asked \subseteq Pid
    /\ monitored \subseteq Pid /\ tells \subseteq Pid
    /\ phase \in Phase
    /\ order \in Seq(Child)
    /\ pidOf \in [Child -> Pid \cup {NoPid}]
    /\ pidToId \subseteq Pid
    /\ restartAt \in Seq(0 .. MaxTime)
    /\ counted \subseteq DOMAIN restartAt
    /\ inbox \in Seq(Message)
    /\ plan \in Seq(JobSet)
    /\ current \in Pid \cup {NoPid}
    /\ view \in [Child -> Pid \cup {NoPid}]

-----------------------------------------------------------------------------
Jobs(op, ids) == [i \in DOMAIN ids |-> Job(op, ids[i])]

(* Mutant of Backwards: children are stopped in the order of their start. *)
Forwards(ids) == ids

Backwards(ids) == [i \in DOMAIN ids |-> ids[Len(ids) + 1 - i]]
From(i, ids) == SubSeq(ids, i, Len(ids))
Position(id) == CHOOSE i \in DOMAIN order : order[i] = id

Init ==
    /\ now = 0 /\ commands = 0 /\ nextPid = 1
    /\ childOf = [p \in Pid |-> "none"]
    /\ task = [p \in Pid |-> "unborn"]
    /\ why = [p \in Pid |-> "normal"]
    /\ terminated = [p \in Pid |-> FALSE]
    /\ registered = {} /\ asked = {} /\ monitored = {} /\ tells = {}
    /\ phase = "starting"
    /\ order = InitialOrder
    /\ pidOf = [c \in Child |-> NoPid]
    /\ pidToId = {}
    /\ restartAt = <<>> /\ counted = {}
    /\ inbox = <<>>
    /\ plan = Jobs("start", InitialOrder)
    /\ current = NoPid
    /\ view = [c \in Child |-> NoPid]

Registered(p) == p \in registered
IsAlive(p) == p \in registered /\ ~terminated[p]
Listening == phase \notin {"gone", "init_failed"}
Post(msg) == inbox' = IF Listening THEN Append(inbox, msg) ELSE inbox

-----------------------------------------------------------------------------
(* Starting and stopping one child. *)

(* The start function of the child spawned its process. *)
StartChild ==
    /\ plan # <<>> /\ Head(plan).op = "start" /\ current = NoPid
    /\ nextPid \in Pid
    /\ nextPid' = nextPid + 1
    /\ childOf' = [childOf EXCEPT ![nextPid] = Head(plan).id]
    /\ task' = [task EXCEPT ![nextPid] = "running"]
    /\ registered' = registered \cup {nextPid}
    /\ current' = nextPid
    /\ UNCHANGED <<now, commands, why, terminated, asked, monitored, tells, phase,
                   order, pidOf, pidToId, restartAt, counted, inbox, plan, view>>

(* It returned an error.  Only the first start of all children gives up    *)
(* without terminating those already started.                              *)
StartFails ==
    /\ "start_fails" \in Hazards
    /\ plan # <<>> /\ Head(plan).op = "start" /\ current = NoPid
    /\ \/ /\ phase = "starting"
          /\ phase' = "init_failed" /\ plan' = <<>>
          /\ UNCHANGED view
       \/ /\ phase = "restarting"
          /\ phase' = "stopping" /\ plan' = Jobs("stop", Backwards(order))
          /\ UNCHANGED view
       \/ /\ phase = "command"
          /\ phase' = "idle" /\ plan' = <<>>
          /\ view' = pidOf
    /\ UNCHANGED <<now, commands, nextPid, childVars, order, pidOf, pidToId,
                   restartAt, counted, inbox, current>>

(* Mutant of MonitorChild: the process is not entered in pid_to_id. *)
MonitorUnknownChild ==
    LET c == Head(plan).id IN
    /\ plan # <<>> /\ Head(plan).op = "start" /\ current # NoPid
    /\ Registered(current)
    /\ monitored' = monitored \cup {current}
    /\ pidOf' = [pidOf EXCEPT ![c] = current]
    /\ plan' = Tail(plan) /\ current' = NoPid
    /\ UNCHANGED <<now, commands, nextPid, childOf, task, why, registered, inbox,
                   terminated, asked, tells, phase, order, pidToId, restartAt,
                   counted, view>>

(* Monitoring what start() returned: answered noproc when it is gone.      *)
MonitorChild ==
    LET c == Head(plan).id IN
    /\ plan # <<>> /\ Head(plan).op = "start" /\ current # NoPid
    /\ \/ /\ Registered(current)
          /\ monitored' = monitored \cup {current}
          /\ UNCHANGED inbox
       \/ /\ ~Registered(current)
          /\ Post(Down(current, "abnormal"))
          /\ UNCHANGED monitored
    /\ pidOf' = [pidOf EXCEPT ![c] = current]
    /\ pidToId' = pidToId \cup {current}
    /\ plan' = Tail(plan) /\ current' = NoPid
    /\ UNCHANGED <<now, commands, nextPid, childOf, task, why, registered,
                   terminated, asked, tells, phase, order, restartAt, counted, view>>

(* Mutant of StopChild: the shutdown signal is sent and not waited for. *)
StopChildAtOnce ==
    LET c == Head(plan).id
        p == pidOf[c]
    IN
    /\ plan # <<>> /\ Head(plan).op = "stop" /\ current = NoPid
    /\ pidOf' = [pidOf EXCEPT ![c] = NoPid]
    /\ pidToId' = pidToId \ {p}
    /\ monitored' = monitored \ {p}
    /\ asked' = IF Registered(p) /\ c \in Trapping THEN asked \cup {p} ELSE asked
    /\ plan' = Tail(plan)
    /\ UNCHANGED <<now, commands, nextPid, childOf, task, why, registered, tells,
                   terminated, phase, order, restartAt, counted, inbox, current, view>>

(* terminate_child_by_id up to its wait: the child is forgotten, no longer *)
(* monitored and signalled.  Shutdown is a normal reason: a child that     *)
(* does not trap exits takes no notice.                                    *)
StopChild ==
    LET c == Head(plan).id
        p == pidOf[c]
    IN
    /\ plan # <<>> /\ Head(plan).op = "stop" /\ current = NoPid
    /\ pidOf' = [pidOf EXCEPT ![c] = NoPid]
    /\ pidToId' = pidToId \ {p}
    /\ monitored' = monitored \ {p}
    /\ \/ /\ p = NoPid
          /\ plan' = Tail(plan)
          /\ UNCHANGED <<terminated, asked, current>>
       \/ /\ p # NoPid /\ Shutdown[c] = "brutal_kill"
          /\ terminated' = [terminated EXCEPT ![p] = TRUE]
          /\ plan' = Tail(plan)
          /\ UNCHANGED <<asked, current>>
       \/ /\ p # NoPid /\ Shutdown[c] # "brutal_kill"
          /\ asked' = IF Registered(p) /\ c \in Trapping THEN asked \cup {p} ELSE asked
          /\ current' = p
          /\ UNCHANGED <<terminated, plan>>
    /\ UNCHANGED <<now, commands, nextPid, childOf, task, why, registered, tells,
                   phase, order, restartAt, counted, inbox, view>>

(* wait_for_termination saw the child dead ... *)
Terminated ==
    /\ plan # <<>> /\ Head(plan).op = "stop" /\ current # NoPid
    /\ ~IsAlive(current)
    /\ plan' = Tail(plan) /\ current' = NoPid
    /\ UNCHANGED <<now, commands, nextPid, childVars, phase, order, pidOf, pidToId,
                   restartAt, counted, inbox, view>>

(* Mutant of TimedOut: the wait never gives up. *)
NeverTimedOut ==
    /\ FALSE
    /\ UNCHANGED vars

(* ... or timed out: the kill marks it and nobody waits for its task.      *)
TimedOut ==
    /\ plan # <<>> /\ Head(plan).op = "stop" /\ current # NoPid
    /\ Shutdown[Head(plan).id] = "timeout"
    /\ IsAlive(current)
    /\ terminated' = [terminated EXCEPT ![current] = TRUE]
    /\ plan' = Tail(plan) /\ current' = NoPid
    /\ UNCHANGED <<now, commands, nextPid, childOf, task, why, registered, asked,
                   monitored, tells, phase, order, pidOf, pidToId, restartAt,
                   counted, inbox, view>>

-----------------------------------------------------------------------------
(* The message loop. *)
Receive(type) ==
    /\ phase = "idle" /\ inbox # <<>>
    /\ Head(inbox).type = type
    /\ inbox' = Tail(inbox)

(* Mutant of Recent: restarts are forgotten one second too early. *)
RecentTooShort == {i \in counted : restartAt[i] > now - MaxSeconds + 1}

(* restart_times after retain(). *)
Recent == {i \in counted : restartAt[i] > now - MaxSeconds}

ShouldRestart(c, reason) ==
    \/ Restart[c] = "permanent"
    \/ Restart[c] = "transient" /\ reason = "abnormal"

(* Mutant of RestartPlan: the children stopped last are started first. *)
RestartPlanReversed(c) ==
    LET later == From(Position(c), order) IN
    Jobs("stop", Backwards(later)) \o Jobs("start", Backwards(later))

RestartPlan(c) ==
    LET later == From(Position(c), order) IN
    CASE Strategy = "one_for_one" -> <<Job("start", c)>>
      [] Strategy = "one_for_all" ->
            Jobs("stop", Backwards(order)) \o Jobs("start", order)
      [] Strategy = "rest_for_one" ->
            Jobs("stop", Backwards(later)) \o Jobs("start", later)

(* A DOWN of a process that is no longer a child is ignored. *)
IgnoreDown ==
    /\ Receive("down")
    /\ Head(inbox).pid \notin pidToId
    /\ view' = pidOf
    /\ UNCHANGED <<now, commands, nextPid, childVars, phase, order, pidOf, pidToId,
                   restartAt, counted, plan, current>>

HandleChildExit ==
    LET p == Head(inbox).pid
        c == childOf[p]
    IN
    /\ Receive("down")
    /\ p \in pidToId
    /\ pidToId' = pidToId \ {p}
    /\ pidOf' = [pidOf EXCEPT ![c] = NoPid]
    /\ \/ /\ ~ShouldRestart(c, Head(inbox).reason)
          /\ view' = pidOf'
          /\ UNCHANGED <<phase, plan, restartAt, counted>>
       \/ /\ ShouldRestart(c, Head(inbox).reason)
          /\ Cardinality(Recent) >= MaxRestarts
          /\ counted' = Recent
          /\ phase' = "stopping" /\ plan' = Jobs("stop", Backwards(order))
          /\ UNCHANGED <<restartAt, view>>
       \/ /\ ShouldRestart(c, Head(inbox).reason)
          /\ Cardinality(Recent) < MaxRestarts
          /\ restartAt' = Append(restartAt, now)
          /\ counted' = Recent \cup {Len(restartAt) + 1}
          /\ phase' = "restarting" /\ plan' = RestartPlan(c)
          /\ UNCHANGED view
    /\ UNCHANGED <<now, commands, nextPid, childVars, order, current>>

(* Mutant of HandleExit: the loop is left without a look at the children. *)
HandleExitAtOnce ==
    /\ Receive("exit")
    /\ phase' = "stopping" /\ plan' = <<>>
    /\ UNCHANGED <<now, commands, nextPid, childVars, order, pidOf, pidToId,
                   restartAt, counted, current, view>>

(* Any exit signal ends the supervisor, which traps exits. *)
HandleExit ==
    /\ Receive("exit")
    /\ phase' = "stopping" /\ plan' = Jobs("stop", Backwards(order))
    /\ UNCHANGED <<now, commands, nextPid, childVars, order, pidOf, pidToId,
                   restartAt, counted, current, view>>

HasSpec(c) == \E i \in DOMAIN order : order[i] = c

HandleTerminate ==
    /\ Receive("terminate")
    /\ phase' = "command"
    /\ plan' = IF HasSpec(Head(inbox).id)
               THEN <<Job("stop", Head(inbox).id)>> ELSE <<>>
    /\ UNCHANGED <<now, commands, nextPid, childVars, order, pidOf, pidToId,
                   restartAt, counted, current, view>>

(* child_order.retain(|i| i != id): an id is there once. *)
Without(c) == [i \in 1 .. Len(order) - 1 |-> order[IF i < Position(c) THEN i ELSE i + 1]]

(* Mutant of HandleDelete: the pid of a running child is dropped with it. *)
HandleDeleteRunning ==
    LET c == Head(inbox).id IN
    /\ Receive("delete")
    /\ order' = IF HasSpec(c) THEN Without(c) ELSE order
    /\ pidOf' = [pidOf EXCEPT ![c] = NoPid]
    /\ view' = pidOf'
    /\ UNCHANGED <<now, commands, nextPid, childVars, phase, pidToId,
                   restartAt, counted, plan, current>>

HandleDelete ==
    LET c == Head(inbox).id IN
    /\ Receive("delete")
    /\ order' = IF HasSpec(c) /\ pidOf[c] = NoPid THEN Without(c) ELSE order
    /\ view' = pidOf
    /\ UNCHANGED <<now, commands, nextPid, childVars, phase, pidOf, pidToId,
                   restartAt, counted, plan, current>>

HandleRestart ==
    LET c == Head(inbox).id IN
    /\ Receive("restart")
    /\ phase' = "command"
    /\ plan' = IF HasSpec(c) /\ pidOf[c] = NoPid THEN <<Job("start", c)>> ELSE <<>>
    /\ UNCHANGED <<now, commands, nextPid, childVars, order, pidOf, pidToId,
                   restartAt, counted, current, view>>

(* The handler is done: back to the loop, or out of it.  The name is       *)
(* registered only once all children run.                                  *)
HandlerDone ==
    /\ plan = <<>>
    /\ \/ /\ phase \in {"starting", "restarting", "command"}
          /\ phase' = "idle"
          /\ view' = pidOf
          /\ UNCHANGED plan
       \/ /\ phase = "starting" /\ "name_taken" \in Hazards
          /\ phase' = "stopping"
          /\ plan' = Jobs("stop", Backwards(order))
          /\ UNCHANGED view
       \/ /\ phase = "stopping"
          /\ phase' = "gone"
          /\ view' = [c \in Child |-> NoPid]
          /\ UNCHANGED plan
    /\ UNCHANGED <<now, commands, nextPid, childVars, order, pidOf, pidToId,
                   restartAt, counted, inbox, current>>

Loop ==
    \/ StartChild \/ StartFails \/ MonitorChild
    \/ StopChild \/ Terminated \/ TimedOut
    \/ IgnoreDown \/ HandleChildExit \/ HandleExit
    \/ HandleTerminate \/ HandleDelete \/ HandleRestart
    \/ HandlerDone

-----------------------------------------------------------------------------
(* The children, and everybody else. *)

(* The process function returns, for any reason and at any time.           *)
Leave(p, reason) ==
    /\ task[p] = "running"
    /\ task' = [task EXCEPT ![p] = "leaving"]
    /\ why' = [why EXCEPT ![p] = reason]
    /\ UNCHANGED <<now, commands, nextPid, childOf, registered, terminated, asked,
                   monitored, tells, loopVars, inbox>>

(* handle_process_exit, first half: nobody is told about a process that    *)
(* was marked terminated before.                                           *)
ExitBegin(p) ==
    /\ task[p] = "leaving"
    /\ \/ /\ terminated[p]
          /\ task' = [task EXCEPT ![p] = "gone"]
          /\ UNCHANGED <<terminated, tells>>
       \/ /\ ~terminated[p]
          /\ task' = [task EXCEPT ![p] = "notifying"]
          /\ terminated' = [terminated EXCEPT ![p] = TRUE]
          /\ tells' = IF p \in monitored THEN tells \cup {p} ELSE tells
    /\ UNCHANGED <<now, commands, nextPid, childOf, why, registered, asked,
                   monitored, loopVars, inbox>>

ExitEnd(p) ==
    /\ task[p] = "notifying"
    /\ task' = [task EXCEPT ![p] = "gone"]
    /\ registered' = registered \ {p}
    /\ IF p \in tells THEN Post(Down(p, why[p])) ELSE UNCHANGED inbox
    /\ UNCHANGED <<now, commands, nextPid, childOf, why, terminated, asked,
                   monitored, tells, loopVars>>

Panic(p) ==
    /\ "panic" \in Hazards
    /\ task[p] = "running"
    /\ task' = [task EXCEPT ![p] = "panicked"]
    /\ UNCHANGED <<now, commands, nextPid, childOf, why, registered, terminated,
                   asked, monitored, tells, loopVars, inbox>>

(* Someone else's exit signal, or that of a linked process, marks a child. *)
Struck(p) ==
    /\ "struck" \in Hazards
    /\ IsAlive(p)
    /\ terminated' = [terminated EXCEPT ![p] = TRUE]
    /\ UNCHANGED <<now, commands, nextPid, childOf, task, why, registered, asked,
                   monitored, tells, loopVars, inbox>>

SendExit ==
    /\ "exit_signal" \in Hazards
    /\ \A i \in DOMAIN inbox : inbox[i] # ExitSignal
    /\ Listening
    /\ Post(ExitSignal)
    /\ UNCHANGED <<now, commands, nextPid, childVars, loopVars>>

SendCommand(kind, c) ==
    /\ kind \in Commands
    /\ commands < MaxCommands
    /\ commands' = commands + 1
    /\ Post(Command(kind, c))
    /\ UNCHANGED <<now, nextPid, childVars, loopVars>>

Tick ==
    /\ now < MaxTime
    /\ now' = now + 1
    /\ UNCHANGED <<commands, nextPid, childVars, loopVars, inbox>>

Next ==
    \/ Loop
    \/ \E p \in Pid :
           \/ \E reason \in Leaves : Leave(p, reason)
           \/ ExitBegin(p) \/ ExitEnd(p) \/ Panic(p) \/ Struck(p)
    \/ SendExit
    \/ \E kind \in CommandKinds, c \in Child : SendCommand(kind, c)
    \/ Tick

Spec == Init /\ [][Next]_vars
(* What has no await before it is polled, timeouts run out, and a child    *)
(* that traps exits leaves when it finds the EXIT message.                 *)
FairSpec ==
    /\ Spec
    /\ WF_vars(Loop)
    /\ \A p \in Pid : /\ WF_vars(ExitBegin(p) \/ ExitEnd(p))
                      /\ WF_vars(p \in asked /\ \E reason \in Leaves : Leave(p, reason))

-----------------------------------------------------------------------------
Incarnations(c) == {p \in Pid : childOf[p] = c}
Before(c, d) == Position(c) < Position(d)

(* pid_to_id and the pids of the children are inverse to each other, also  *)
(* in the middle of a restart, so that a stale DOWN finds no child.        *)
ChildTables ==
    /\ TypeOK
    /\ \A c \in Child : pidOf[c] # NoPid => pidOf[c] \in pidToId \cap Incarnations(c)
    /\ \A p \in pidToId : pidOf[childOf[p]] = p

(* At most one process of each child is alive, however restarts, commands  *)
(* and the child's own exit interleave: is_alive(), not the task, decides. *)
OneAlive ==
    \A c \in Child : Cardinality({p \in Incarnations(c) : IsAlive(p)}) <= 1

(* No child is older than one started before it: after a rest_for_one or   *)
(* one_for_all restart nobody depends on a process that was replaced.      *)
DependencyOrder ==
    \A c, d \in Child :
        /\ HasSpec(c) /\ HasSpec(d) /\ Before(c, d)
        /\ pidOf[c] # NoPid /\ pidOf[d] # NoPid
        => pidOf[c] < pidOf[d]

(* Children are terminated in reverse order: when a child is signalled,    *)
(* no child started after it is alive any more.                            *)
StopOrder ==
    [][\A c, d \in Child :
          /\ phase \in {"restarting", "stopping"}
          /\ plan # <<>> /\ Head(plan) = Job("stop", c)
          /\ pidOf[c] # NoPid /\ pidOf'[c] = NoPid
          /\ HasSpec(d) /\ Before(c, d)
          => \A p \in Incarnations(d) : ~IsAlive(p)]_vars

(* The restarts admitted in the max_seconds up to and including t. *)
Window(t) == {i \in DOMAIN restartAt : t - MaxSeconds < restartAt[i] /\ restartAt[i] <= t}

(* No max_seconds long window sees more than max_restarts restarts.        *)
RestartIntensity == \A t \in 0 .. MaxTime : Cardinality(Window(t)) <= MaxRestarts

(* A supervisor that got through its start leaves no child alive behind,   *)
(* whichever way it ends.                                                  *)
NoOrphans == phase = "gone" => \A p \in Pid : ~IsAlive(p)

(* A monitored child that leaves is acted upon, or the supervisor ends.    *)
FailureHandled ==
    \A c \in Child, p \in Pid :
        (task[p] = "notifying" /\ p \in tells /\ pidOf[c] = p)
        ~> (pidOf[c] # p \/ ~Listening)

(* An exit signal ends the supervisor, whatever its children do.           *)
ShutdownCompletes ==
    (\E i \in DOMAIN inbox : inbox[i] = ExitSignal) ~> ~Listening

=============================================================================
