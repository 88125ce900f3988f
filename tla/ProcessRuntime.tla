--------------------------- MODULE ProcessRuntime ---------------------------
(***************************************************************************)
(* Processes, links, monitors, exit signals and local names of one node:   *)
(* runtime/{context,process_handle,registry,mailbox}.rs and                *)
(* process/runtime.rs.                                                     *)
(*                                                                         *)
(* Every process is a task of its own and the tables are shared, so each   *)
(* lock acquisition on another process's state is a step of its own: a     *)
(* call that touches first the caller's ProcessState and then the peer's   *)
(* is two actions, and handle_process_exit is one action per notified      *)
(* process.  What a process writes to its own tables before it looks at    *)
(* the peer is taken with the start of the call.                           *)
(***************************************************************************)
EXTENDS Naturals, Sequences

CONSTANTS
    MaxProc,     \* bound: processes spawned, the root included
    MaxRef,      \* bound: monitor references created
    MaxCalls,    \* bound: runtime calls made by all user code together
    Name,        \* names that may be registered
    Calls,       \* the runtime calls that user code may make
    ExitWith,    \* reasons a process function may leave with
    SignalWith   \* reasons user code may pass to exit()

NoPid == 0
NoRef == 0
Proc == 1 .. MaxProc
Ref == 1 .. MaxRef

ExitReason == {"normal", "shutdown", "killed", "error", "noproc"}
IsNormal(reason) == reason \in {"normal", "shutdown"}

CallNames == {"spawn", "spawn_link", "spawn_monitor", "link", "unlink",
              "monitor", "demonitor", "trap_exit", "exit", "handle_exit",
              "register", "register_other", "unregister", "panic"}

ASSUME BoundsAssumption ==
    /\ MaxProc \in Nat \ {0}
    /\ MaxRef \in Nat
    /\ MaxCalls \in Nat
ASSUME InputsAssumption ==
    /\ Calls \subseteq CallNames
    /\ ExitWith \subseteq ExitReason
    /\ SignalWith \subseteq ExitReason

(* Where the task of a process is: not spawned, in user code, half way     *)
(* through a call that has yet to touch the peer, or on its way out.       *)
CallPoint == {"spawn_link", "spawn_monitor", "link", "unlink", "monitor",
              "demonitor", "register"}
ExitPoint == {"exit", "notify", "drop_process", "gone", "panicked"}
Point == {"unborn", "run"} \cup CallPoint \cup ExitPoint

VARIABLES
    nextPid,      \* PID_COUNTER: pids below it have been handed out
    nextRef,      \* the next fresh monitor reference
    calls,        \* calls made so far, bounded by MaxCalls
    processes,    \* ProcessRegistry.processes: registered pids
    names,        \* ProcessRegistry.names: the pid of each name, or NoPid
    at,           \* where each task is
    arg,          \* operands of the call each task is in
    why,          \* the reason each process function left with
    trap,         \* ProcessState.trap_exit
    links,        \* ProcessState.links
    monitors,     \* ProcessState.monitors as <<reference, target>> pairs
    monitoredBy,  \* ProcessState.monitored_by as <<reference, owner>> pairs
    terminated,   \* ProcessState.terminated
    exitReason,   \* ProcessState.exit_reason ("normal" until terminated)
    mailbox,      \* the system messages each mailbox accepted, in order
    linkQ,        \* links snapshotted by an exit and not yet signalled
    monitorQ      \* monitors snapshotted by an exit and not yet told

stateVars == <<trap, links, monitors, monitoredBy, terminated, exitReason>>
exitVars == <<why, linkQ, monitorQ>>
counters == <<nextPid, nextRef, calls>>
vars == <<counters, processes, names, at, arg, mailbox, stateVars, exitVars>>

Born == 1 .. (nextPid - 1)

Operands == [pid : Proc \cup {NoPid}, ref : Ref \cup {NoRef},
             name : Name \cup {"none"}]
NoArg == [pid |-> NoPid, ref |-> NoRef, name |-> "none"]

ExitMsg(from, reason) ==
    [type |-> "exit", ref |-> NoRef, pid |-> from, reason |-> reason]
DownMsg(ref, pid, reason) ==
    [type |-> "down", ref |-> ref, pid |-> pid, reason |-> reason]
SystemMessage ==
    [type : {"exit"}, ref : {NoRef}, pid : Proc, reason : ExitReason]
    \cup [type : {"down"}, ref : Ref, pid : Proc, reason : ExitReason]

(* A process in the middle of a call knows its operands. *)
OperandsOK ==
    \A p \in Proc :
        /\ at[p] \in CallPoint => arg[p].pid \in Proc
        /\ at[p] \in {"spawn_monitor", "monitor", "demonitor"} => arg[p].ref \in Ref
        /\ at[p] = "register" => arg[p].name \in Name

TypeOK ==
    /\ nextPid \in 1 .. (MaxProc + 1)
    /\ nextRef \in 1 .. (MaxRef + 1)
    /\ calls \in 0 .. MaxCalls
    /\ processes \subseteq Proc
    /\ names \in [Name -> Proc \cup {NoPid}]
    /\ at \in [Proc -> Point]
    /\ arg \in [Proc -> Operands]
    /\ why \in [Proc -> ExitReason]
    /\ trap \in [Proc -> BOOLEAN]
    /\ links \in [Proc -> SUBSET Proc]
    /\ monitors \in [Proc -> SUBSET (Ref \X Proc)]
    /\ monitoredBy \in [Proc -> SUBSET (Ref \X Proc)]
    /\ terminated \in [Proc -> BOOLEAN]
    /\ exitReason \in [Proc -> ExitReason]
    /\ mailbox \in [Proc -> Seq(SystemMessage)]
    /\ linkQ \in [Proc -> SUBSET Proc]
    /\ monitorQ \in [Proc -> SUBSET (Ref \X Proc)]
    /\ OperandsOK

-----------------------------------------------------------------------------
(* One root process runs; it was spawned by the code that built the runtime. *)
Init ==
    /\ nextPid = 2
    /\ nextRef = 1
    /\ calls = 0
    /\ processes = {1}
    /\ names = [n \in Name |-> NoPid]
    /\ at = [p \in Proc |-> IF p = 1 THEN "run" ELSE "unborn"]
    /\ arg = [p \in Proc |-> NoArg]
    /\ why = [p \in Proc |-> "normal"]
    /\ trap = [p \in Proc |-> FALSE]
    /\ links = [p \in Proc |-> {}]
    /\ monitors = [p \in Proc |-> {}]
    /\ monitoredBy = [p \in Proc |-> {}]
    /\ terminated = [p \in Proc |-> FALSE]
    /\ exitReason = [p \in Proc |-> "normal"]
    /\ mailbox = [p \in Proc |-> <<>>]
    /\ linkQ = [p \in Proc |-> {}]
    /\ monitorQ = [p \in Proc |-> {}]

(* The receiver was dropped with the Context when the function returned.   *)
Closed(p) == at[p] \in ExitPoint

(* A send on an unbounded channel: refused only when the receiver is gone. *)
Deliver(p, msg) ==
    mailbox' = IF Closed(p) THEN mailbox
               ELSE [mailbox EXCEPT ![p] = Append(@, msg)]

(* mark_terminated: nothing but the flag and the reason; the task runs on. *)
MarkTerminated(p, reason) ==
    /\ terminated' = [terminated EXCEPT ![p] = TRUE]
    /\ exitReason' = [exitReason EXCEPT ![p] = reason]

(* Mutant of Signal: whether the reason is abnormal is asked first. *)
SignalAbnormalFirst(p, from, reason) ==
    \/ /\ ~IsNormal(reason)
       /\ MarkTerminated(p, reason)
       /\ UNCHANGED mailbox
    \/ /\ IsNormal(reason) /\ trap[p]
       /\ Deliver(p, ExitMsg(from, reason))
       /\ UNCHANGED <<terminated, exitReason>>
    \/ /\ IsNormal(reason) /\ ~trap[p]
       /\ UNCHANGED <<mailbox, terminated, exitReason>>

(* What an exit signal does to a registered process. *)
Signal(p, from, reason) ==
    \/ /\ reason = "killed"
       /\ MarkTerminated(p, reason)
       /\ UNCHANGED mailbox
    \/ /\ reason # "killed" /\ trap[p]
       /\ Deliver(p, ExitMsg(from, reason))
       /\ UNCHANGED <<terminated, exitReason>>
    \/ /\ reason # "killed" /\ ~trap[p] /\ ~IsNormal(reason)
       /\ MarkTerminated(p, reason)
       /\ UNCHANGED mailbox
    \/ /\ ~trap[p] /\ IsNormal(reason)
       /\ UNCHANGED <<mailbox, terminated, exitReason>>

NoSignal == UNCHANGED <<mailbox, terminated, exitReason>>

-----------------------------------------------------------------------------
(* Calls of user code.  A process that was marked terminated still makes   *)
(* them: no call looks at the flag.                                        *)
UserCall(p, name) ==
    /\ at[p] = "run"
    /\ name \in Calls
    /\ calls < MaxCalls
    /\ calls' = calls + 1

Enter(p, point, q, r, n) ==
    /\ at' = [at EXCEPT ![p] = point]
    /\ arg' = [arg EXCEPT ![p] = [pid |-> q, ref |-> r, name |-> n]]

(* The peer's half of a call is done: back to user code. *)
Finish(p) ==
    /\ at' = [at EXCEPT ![p] = "run"]
    /\ arg' = [arg EXCEPT ![p] = NoArg]

(* The child is registered and its task runs before the spawner goes on. *)
SpawnInternal(c) ==
    /\ c \in Proc
    /\ nextPid' = nextPid + 1
    /\ processes' = processes \cup {c}

Spawn(p) ==
    /\ UserCall(p, "spawn")
    /\ SpawnInternal(nextPid)
    /\ at' = [at EXCEPT ![nextPid] = "run"]
    /\ UNCHANGED <<nextRef, names, arg, mailbox, stateVars, exitVars>>

SpawnLink(p) ==
    /\ UserCall(p, "spawn_link")
    /\ SpawnInternal(nextPid)
    /\ at' = [at EXCEPT ![nextPid] = "run", ![p] = "spawn_link"]
    /\ arg' = [arg EXCEPT ![p] = [NoArg EXCEPT !.pid = nextPid]]
    /\ links' = [links EXCEPT ![p] = @ \cup {nextPid}]
    /\ UNCHANGED <<nextRef, names, mailbox, trap, monitors, monitoredBy,
                   terminated, exitReason, exitVars>>

(* Mutant of SpawnLinkChild: the second half goes to the parent again. *)
SpawnLinkParentTwice(p) ==
    /\ at[p] = "spawn_link"
    /\ Finish(p)
    /\ links' = [links EXCEPT ![p] = @ \cup {arg[p].pid}]
    /\ UNCHANGED <<counters, processes, names, mailbox, trap, monitors,
                   monitoredBy, terminated, exitReason, exitVars>>

SpawnLinkChild(p) ==
    /\ at[p] = "spawn_link"
    /\ Finish(p)
    /\ links' = IF arg[p].pid \in processes
                THEN [links EXCEPT ![arg[p].pid] = @ \cup {p}] ELSE links
    /\ UNCHANGED <<counters, processes, names, mailbox, trap, monitors,
                   monitoredBy, terminated, exitReason, exitVars>>

SpawnMonitor(p) ==
    /\ UserCall(p, "spawn_monitor")
    /\ SpawnInternal(nextPid)
    /\ nextRef \in Ref
    /\ nextRef' = nextRef + 1
    /\ at' = [at EXCEPT ![nextPid] = "run", ![p] = "spawn_monitor"]
    /\ arg' = [arg EXCEPT ![p] = [NoArg EXCEPT !.pid = nextPid, !.ref = nextRef]]
    /\ monitors' = [monitors EXCEPT ![p] = @ \cup {<<nextRef, nextPid>>}]
    /\ UNCHANGED <<names, mailbox, trap, links, monitoredBy, terminated,
                   exitReason, exitVars>>

SpawnMonitorChild(p) ==
    /\ at[p] = "spawn_monitor"
    /\ Finish(p)
    /\ monitoredBy' = IF arg[p].pid \in processes
                      THEN [monitoredBy EXCEPT ![arg[p].pid] =
                                @ \cup {<<arg[p].ref, p>>}]
                      ELSE monitoredBy
    /\ UNCHANGED <<counters, processes, names, mailbox, trap, links, monitors,
                   terminated, exitReason, exitVars>>

Link(p, q) ==
    /\ UserCall(p, "link")
    /\ q \in Born \ {p}
    /\ Enter(p, "link", q, NoRef, "none")
    /\ links' = [links EXCEPT ![p] = @ \cup {q}]
    /\ UNCHANGED <<nextPid, nextRef, processes, names, mailbox, trap, monitors,
                   monitoredBy, terminated, exitReason, exitVars>>

LinkPeer(p) ==
    LET q == arg[p].pid IN
    /\ at[p] = "link"
    /\ Finish(p)
    /\ links' = IF q \in processes
                THEN [links EXCEPT ![q] = @ \cup {p}]
                ELSE [links EXCEPT ![p] = @ \ {q}]
    /\ UNCHANGED <<counters, processes, names, mailbox, trap, monitors,
                   monitoredBy, terminated, exitReason, exitVars>>

Unlink(p, q) ==
    /\ UserCall(p, "unlink")
    /\ q \in Born \ {p}
    /\ Enter(p, "unlink", q, NoRef, "none")
    /\ links' = [links EXCEPT ![p] = @ \ {q}]
    /\ UNCHANGED <<nextPid, nextRef, processes, names, mailbox, trap, monitors,
                   monitoredBy, terminated, exitReason, exitVars>>

UnlinkPeer(p) ==
    LET q == arg[p].pid IN
    /\ at[p] = "unlink"
    /\ Finish(p)
    /\ links' = IF q \in processes
                THEN [links EXCEPT ![q] = @ \ {p}] ELSE links
    /\ UNCHANGED <<counters, processes, names, mailbox, trap, monitors,
                   monitoredBy, terminated, exitReason, exitVars>>

Monitor(p, q) ==
    /\ UserCall(p, "monitor")
    /\ q \in Born \ {p}
    /\ nextRef \in Ref
    /\ nextRef' = nextRef + 1
    /\ Enter(p, "monitor", q, nextRef, "none")
    /\ monitors' = [monitors EXCEPT ![p] = @ \cup {<<nextRef, q>>}]
    /\ UNCHANGED <<nextPid, processes, names, mailbox, trap, links,
                   monitoredBy, terminated, exitReason, exitVars>>

(* Mutant of MonitorPeer: a target marked terminated is answered noproc. *)
MonitorPeerIfAlive(p) ==
    LET q == arg[p].pid
        r == arg[p].ref
    IN
    /\ at[p] = "monitor"
    /\ Finish(p)
    /\ \/ /\ q \in processes /\ ~terminated[q]
          /\ monitoredBy' = [monitoredBy EXCEPT ![q] = @ \cup {<<r, p>>}]
          /\ UNCHANGED <<monitors, mailbox>>
       \/ /\ q \notin processes \/ terminated[q]
          /\ monitors' = [monitors EXCEPT ![p] = @ \ {<<r, q>>}]
          /\ Deliver(p, DownMsg(r, q, "noproc"))
          /\ UNCHANGED monitoredBy
    /\ UNCHANGED <<counters, processes, names, trap, links, terminated,
                   exitReason, exitVars>>

(* Mutant of MonitorPeer: a registered target whose mailbox is closed is   *)
(* answered noproc on top of being monitored.                              *)
MonitorPeerTwice(p) ==
    LET q == arg[p].pid
        r == arg[p].ref
    IN
    /\ at[p] = "monitor"
    /\ Finish(p)
    /\ monitoredBy' = [monitoredBy EXCEPT ![q] = @ \cup {<<r, p>>}]
    /\ IF Closed(q) THEN Deliver(p, DownMsg(r, q, "noproc"))
       ELSE UNCHANGED mailbox
    /\ UNCHANGED <<counters, processes, names, trap, links, monitors,
                   terminated, exitReason, exitVars>>

(* A target that is no longer registered is answered at once with noproc. *)
MonitorPeer(p) ==
    LET q == arg[p].pid
        r == arg[p].ref
    IN
    /\ at[p] = "monitor"
    /\ Finish(p)
    /\ \/ /\ q \in processes
          /\ monitoredBy' = [monitoredBy EXCEPT ![q] = @ \cup {<<r, p>>}]
          /\ UNCHANGED <<monitors, mailbox>>
       \/ /\ q \notin processes
          /\ monitors' = [monitors EXCEPT ![p] = @ \ {<<r, q>>}]
          /\ Deliver(p, DownMsg(r, q, "noproc"))
          /\ UNCHANGED monitoredBy
    /\ UNCHANGED <<counters, processes, names, trap, links, terminated,
                   exitReason, exitVars>>

Demonitor(p, r, q) ==
    /\ UserCall(p, "demonitor")
    /\ <<r, q>> \in monitors[p]
    /\ Enter(p, "demonitor", q, r, "none")
    /\ monitors' = [monitors EXCEPT ![p] = @ \ {<<r, q>>}]
    /\ UNCHANGED <<nextPid, nextRef, processes, names, mailbox, trap, links,
                   monitoredBy, terminated, exitReason, exitVars>>

DemonitorPeer(p) ==
    LET q == arg[p].pid IN
    /\ at[p] = "demonitor"
    /\ Finish(p)
    /\ monitoredBy' = IF q \in processes
                      THEN [monitoredBy EXCEPT ![q] = @ \ {<<arg[p].ref, p>>}]
                      ELSE monitoredBy
    /\ UNCHANGED <<counters, processes, names, mailbox, trap, links, monitors,
                   terminated, exitReason, exitVars>>

SetTrapExit(p, value) ==
    /\ UserCall(p, "trap_exit")
    /\ trap' = [trap EXCEPT ![p] = value]
    /\ UNCHANGED <<nextPid, nextRef, processes, names, at, arg, mailbox, links,
                   monitors, monitoredBy, terminated, exitReason, exitVars>>

Exit(p, q, reason) ==
    /\ UserCall(p, "exit")
    /\ q \in processes
    /\ Signal(q, p, reason)
    /\ UNCHANGED <<nextPid, nextRef, processes, names, at, arg, trap, links,
                   monitors, monitoredBy, exitVars>>

(* RuntimeHandle::exit, which timer::exit_after repeats, does not ask      *)
(* whether the target traps exits or whether the reason is abnormal.       *)
HandleExit(p, q, reason) ==
    /\ UserCall(p, "handle_exit")
    /\ q \in processes
    /\ MarkTerminated(q, reason)
    /\ UNCHANGED <<nextPid, nextRef, processes, names, at, arg, mailbox, trap,
                   links, monitors, monitoredBy, exitVars>>

(* register_name looks the name up and inserts it in two operations on the *)
(* shared map; a caller may name itself or, like start(name: ..), another. *)
Register(p, n, q) ==
    /\ \/ UserCall(p, "register") /\ q = p
       \/ UserCall(p, "register_other") /\ q \in Born \ {p}
    /\ names[n] = NoPid
    /\ Enter(p, "register", q, NoRef, n)
    /\ UNCHANGED <<nextPid, nextRef, processes, names, mailbox, stateVars,
                   exitVars>>

RegisterInsert(p) ==
    /\ at[p] = "register"
    /\ Finish(p)
    /\ names' = [names EXCEPT ![arg[p].name] = arg[p].pid]
    /\ UNCHANGED <<counters, processes, mailbox, stateVars, exitVars>>

Unregister(p, n) ==
    /\ UserCall(p, "unregister")
    /\ names[n] # NoPid
    /\ names' = [names EXCEPT ![n] = NoPid]
    /\ UNCHANGED <<nextPid, nextRef, processes, at, arg, mailbox, stateVars,
                   exitVars>>

-----------------------------------------------------------------------------
(* The way out of a process. *)

(* The function returns; the Context, and with it the mailbox, is dropped. *)
Return(p, reason) ==
    /\ at[p] = "run"
    /\ reason \in ExitWith
    /\ at' = [at EXCEPT ![p] = "exit"]
    /\ why' = [why EXCEPT ![p] = reason]
    /\ UNCHANGED <<counters, processes, names, arg, mailbox, stateVars, linkQ,
                   monitorQ>>

(* Nothing catches a panic: handle_process_exit is never reached. *)
Panic(p) ==
    /\ UserCall(p, "panic")
    /\ at' = [at EXCEPT ![p] = "panicked"]
    /\ UNCHANGED <<nextPid, nextRef, processes, names, arg, mailbox, stateVars,
                   exitVars>>

(* Mutant of ExitBegin: the monitors the process owns are snapshotted. *)
ExitBeginOwnMonitors(p) ==
    /\ at[p] = "exit"
    /\ \/ /\ terminated[p]
          /\ at' = [at EXCEPT ![p] = "gone"]
          /\ UNCHANGED <<terminated, exitReason, linkQ, monitorQ>>
       \/ /\ ~terminated[p]
          /\ at' = [at EXCEPT ![p] = "notify"]
          /\ MarkTerminated(p, why[p])
          /\ linkQ' = [linkQ EXCEPT ![p] = links[p]]
          /\ monitorQ' = [monitorQ EXCEPT ![p] = monitors[p]]
    /\ UNCHANGED <<counters, processes, names, arg, mailbox, trap, links,
                   monitors, monitoredBy, why>>

(* handle_process_exit under the write lock; returns at once when someone  *)
(* else marked the process terminated.                                     *)
ExitBegin(p) ==
    /\ at[p] = "exit"
    /\ \/ /\ terminated[p]
          /\ at' = [at EXCEPT ![p] = "gone"]
          /\ UNCHANGED <<terminated, exitReason, linkQ, monitorQ>>
       \/ /\ ~terminated[p]
          /\ at' = [at EXCEPT ![p] = "notify"]
          /\ MarkTerminated(p, why[p])
          /\ linkQ' = [linkQ EXCEPT ![p] = links[p]]
          /\ monitorQ' = [monitorQ EXCEPT ![p] = monitoredBy[p]]
    /\ UNCHANGED <<counters, processes, names, arg, mailbox, trap, links,
                   monitors, monitoredBy, why>>

(* Mutant of NotifyLink: a trapping peer is unlinked and not told. *)
NotifyLinkUntrapped(p, q) ==
    /\ at[p] = "notify"
    /\ q \in linkQ[p]
    /\ linkQ' = [linkQ EXCEPT ![p] = @ \ {q}]
    /\ \/ /\ q \in processes
          /\ links' = [links EXCEPT ![q] = @ \ {p}]
          /\ IF trap[q] THEN NoSignal ELSE Signal(q, p, why[p])
       \/ /\ q \notin processes
          /\ UNCHANGED links
          /\ NoSignal
    /\ UNCHANGED <<counters, processes, names, at, arg, trap, monitors,
                   monitoredBy, why, monitorQ>>

NotifyLink(p, q) ==
    /\ at[p] = "notify"
    /\ q \in linkQ[p]
    /\ linkQ' = [linkQ EXCEPT ![p] = @ \ {q}]
    /\ \/ /\ q \in processes
          /\ links' = [links EXCEPT ![q] = @ \ {p}]
          /\ Signal(q, p, why[p])
       \/ /\ q \notin processes
          /\ UNCHANGED links
          /\ NoSignal
    /\ UNCHANGED <<counters, processes, names, at, arg, trap, monitors,
                   monitoredBy, why, monitorQ>>

(* Monitors are told after all links. *)
NotifyMonitor(p, r, m) ==
    /\ at[p] = "notify"
    /\ linkQ[p] = {}
    /\ <<r, m>> \in monitorQ[p]
    /\ monitorQ' = [monitorQ EXCEPT ![p] = @ \ {<<r, m>>}]
    /\ \/ /\ m \in processes
          /\ monitors' = [monitors EXCEPT ![m] = @ \ {<<r, p>>}]
          /\ Deliver(m, DownMsg(r, p, why[p]))
       \/ /\ m \notin processes
          /\ UNCHANGED <<monitors, mailbox>>
    /\ UNCHANGED <<counters, processes, names, at, arg, trap, links,
                   monitoredBy, terminated, exitReason, why, linkQ>>

(* Mutant of DropNames: the names are left as they are. *)
KeepNames(p) ==
    /\ at[p] = "notify"
    /\ linkQ[p] = {} /\ monitorQ[p] = {}
    /\ at' = [at EXCEPT ![p] = "drop_process"]
    /\ UNCHANGED <<counters, processes, names, arg, mailbox, stateVars, exitVars>>

(* ProcessRegistry::unregister: first the names, then the process. *)
DropNames(p) ==
    /\ at[p] = "notify"
    /\ linkQ[p] = {} /\ monitorQ[p] = {}
    /\ at' = [at EXCEPT ![p] = "drop_process"]
    /\ names' = [n \in Name |-> IF names[n] = p THEN NoPid ELSE names[n]]
    /\ UNCHANGED <<counters, processes, arg, mailbox, stateVars, exitVars>>

DropProcess(p) ==
    /\ at[p] = "drop_process"
    /\ at' = [at EXCEPT ![p] = "gone"]
    /\ processes' = processes \ {p}
    /\ UNCHANGED <<counters, names, arg, mailbox, stateVars, exitVars>>

-----------------------------------------------------------------------------
User(p) ==
    \/ Spawn(p) \/ SpawnLink(p) \/ SpawnMonitor(p)
    \/ \E q \in Proc : Link(p, q) \/ Unlink(p, q) \/ Monitor(p, q)
    \/ \E r \in Ref, q \in Proc : Demonitor(p, r, q)
    \/ \E value \in BOOLEAN : SetTrapExit(p, value)
    \/ \E q \in Proc, reason \in SignalWith :
           Exit(p, q, reason) \/ HandleExit(p, q, reason)
    \/ \E n \in Name : Unregister(p, n) \/ \E q \in Proc : Register(p, n, q)
    \/ \E reason \in ExitWith : Return(p, reason)
    \/ Panic(p)

(* The rest of a call or of an exit: no await point lies before it. *)
Continue(p) ==
    \/ SpawnLinkChild(p) \/ SpawnMonitorChild(p)
    \/ LinkPeer(p) \/ UnlinkPeer(p)
    \/ MonitorPeer(p) \/ DemonitorPeer(p)
    \/ RegisterInsert(p)
    \/ ExitBegin(p)
    \/ \E q \in Proc : NotifyLink(p, q)
    \/ \E r \in Ref, m \in Proc : NotifyMonitor(p, r, m)
    \/ DropNames(p) \/ DropProcess(p)

Next == \E p \in Proc : User(p) \/ Continue(p)

Spec == Init /\ [][Next]_vars

(* The executor polls every runnable task: what has no await is finished. *)
FairSpec == Spec /\ \A p \in Proc : WF_vars(Continue(p))

-----------------------------------------------------------------------------
Received(p, type, ref, from) ==
    \E i \in 1 .. Len(mailbox[p]) :
        /\ mailbox[p][i].type = type
        /\ mailbox[p][i].ref = ref
        /\ mailbox[p][i].pid = from

LinkCallOn(p, q) ==
    at[p] \in {"link", "unlink", "spawn_link"} /\ arg[p].pid = q
Live(p) == p \in processes /\ ~terminated[p]

(* handle_process_exit was left early: nobody was told, nothing removed. *)
Abandoned(p) == at[p] = "gone" /\ p \in processes

(* A DOWN message, whether from an exit or the noproc answer of monitor(), *)
(* is only ever sent about a process whose function has returned: nobody   *)
(* is told that a process is down while it still executes user code.       *)
DownMeansReturned ==
    \A p \in Proc : \A i \in 1 .. Len(mailbox[p]) :
        mailbox[p][i].type = "down" =>
            at[mailbox[p][i].pid] \in {"notify", "drop_process", "gone"}

(* However monitor(), demonitor(), spawn_monitor() and the exit of the     *)
(* target interleave, one monitor reference yields at most one DOWN.       *)
DownAtMostOnce ==
    \A p, q \in Proc :
        \A i \in 1 .. Len(mailbox[p]) : \A j \in 1 .. Len(mailbox[q]) :
            /\ mailbox[p][i].type = "down"
            /\ mailbox[q][j].type = "down"
            /\ mailbox[p][i].ref = mailbox[q][j].ref
            => p = q /\ i = j

(* Links are bidirectional: between two live processes, neither of which   *)
(* is half way through a link call on the other, either both know of the   *)
(* link or neither does.                                                   *)
LinksSymmetric ==
    \A p, q \in Proc :
        /\ Live(p) /\ Live(q)
        /\ ~LinkCallOn(p, q) /\ ~LinkCallOn(q, p)
        => (q \in links[p] <=> p \in links[q])

(* whereis() never returns the pid of an unregistered process, at any      *)
(* point of an exit, when processes register only themselves.              *)
NameOwnerRegistered ==
    \A n \in Name : names[n] # NoPid => names[n] \in processes

(* A process is marked terminated by another one only for an abnormal      *)
(* reason, and only by a kill when it traps exits.                         *)
MarkedJustly ==
    [][\A p \in Proc :
          /\ ~terminated[p] /\ terminated'[p]
          /\ at'[p] # "notify"
          => /\ ~IsNormal(exitReason'[p])
             /\ trap[p] => exitReason'[p] = "killed"]_vars

(* Linked processes share their fate: when a process leaves abnormally,    *)
(* each process linked to it is terminated or gets an EXIT message, unless *)
(* it leaves itself or the exit was abandoned.                             *)
LinkedFate ==
    \A p, q \in Proc :
        (/\ q \in links[p] /\ p \in links[q]
         /\ at[q] = "exit" /\ ~IsNormal(why[q]))
        ~> (\/ terminated[p] \/ Received(p, "exit", NoRef, q)
            \/ Closed(p) \/ Abandoned(q))

(* The owner of a monitor gets the DOWN message after the target left,     *)
(* unless it leaves itself or the exit was abandoned.                      *)
MonitorFate ==
    \A p, q \in Proc, r \in Ref :
        (/\ <<r, q>> \in monitors[p] /\ <<r, p>> \in monitoredBy[q]
         /\ at[q] = "exit")
        ~> (Received(p, "down", r, q) \/ Closed(p) \/ Abandoned(q))

=============================================================================
