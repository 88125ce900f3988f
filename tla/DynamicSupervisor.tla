--------------------------- MODULE DynamicSupervisor ---------------------------
(***************************************************************************)
(* supervisor/dynamic_supervisor.rs: one dynamic supervisor, the processes *)
(* that start, terminate and stop through its public functions, and the    *)
(* children.                                                               *)
(*                                                                         *)
(* The functions do not send to the supervisor: they run in the caller,    *)
(* on state that is shared through the table SUPERVISORS, and so do the    *)
(* monitors they make.  start_child() holds its entry of that table until  *)
(* it returns, so that stop(), which takes the entry out, waits for it.    *)
(***************************************************************************)
EXTENDS Naturals, Sequences

CONSTANTS
    Caller,       \* processes that use the supervisor
    MaxChild,     \* bound: children ever started
    MaxRestarts   \* opts.max_restarts; the time window never passes

Sup == "supervisor"
Child == 1 .. MaxChild
NoChild == 0
Restart == {"permanent", "transient", "temporary"}
Message == [down : Child \cup {NoChild}, abnormal : BOOLEAN]
ExitSignal == [down |-> NoChild, abnormal |-> FALSE]

VARIABLES
    sup,         \* the task of the supervisor
    entry,       \* SUPERVISORS has it
    shutdown,
    children,    \* the keys of `children`
    mapped,      \* the children with an entry in monitor_to_pid
    restart,     \* the restart type in the specification of each child
    watcher,     \* whose context monitors each child
    living,      \* children that run
    told,        \* children that an exit signal was sent to
    tabled,      \* history: children that were in the table
    box,         \* the mailbox of the supervisor
    starting,    \* the child that a caller is in the middle of starting
    step,        \* ... and what it has done last
    nextChild, restarts

tables == <<children, mapped, told, tabled>>
callVars == <<starting, step>>
childVars == <<restart, watcher, nextChild>>
vars == <<sup, entry, shutdown, tables, childVars, living, box, callVars, restarts>>

TypeOK ==
    /\ sup \in {"none", "naming", "running", "ended"}
    /\ entry \in BOOLEAN /\ shutdown \in BOOLEAN
    /\ \A s \in {children, mapped, living, told, tabled} : s \subseteq Child
    /\ restart \in [Child -> Restart] /\ watcher \in [Child -> Caller \cup {Sup}]
    /\ box \in Seq(Message)
    /\ starting \in [Caller -> Child \cup {NoChild}]
    /\ step \in [Caller -> {"idle", "started", "monitored", "inserted"}]
    /\ nextChild \in Nat \ {0} /\ restarts \in Nat

Init ==
    /\ sup = "none" /\ entry = FALSE /\ shutdown = FALSE
    /\ children = {} /\ mapped = {} /\ living = {} /\ told = {} /\ tabled = {}
    /\ restart \in [Child -> Restart]
    /\ watcher = [p \in Child |-> Sup]
    /\ box = <<>>
    /\ starting = [c \in Caller |-> NoChild]
    /\ step = [c \in Caller |-> "idle"]
    /\ nextChild = 1 /\ restarts = 0

-----------------------------------------------------------------------------
(* start() and start_link(): the process, then the entry. *)
StartSup ==
    /\ sup = "none"
    /\ sup' = "naming" /\ entry' = TRUE
    /\ UNCHANGED <<shutdown, tables, childVars, living, box, callVars, restarts>>

(* The loop starts with the name; when it is taken the process just ends,  *)
(* and the entry stays.                                                    *)
RegisterName ==
    /\ sup = "naming"
    /\ sup' \in {"running", "ended"}
    /\ UNCHANGED <<entry, shutdown, tables, childVars, living, box, callVars, restarts>>

-----------------------------------------------------------------------------
(* start_child(), in four steps: the check and the start function, the     *)
(* monitor, and the two tables.                                            *)
Moves(c, before, after) ==
    /\ step[c] = before
    /\ step' = [step EXCEPT ![c] = after]
    /\ UNCHANGED <<sup, entry, shutdown, restart, box, restarts>>

StartChild(c) ==
    /\ Moves(c, "idle", "started")
    /\ entry /\ ~shutdown /\ nextChild \in Child
    /\ nextChild' = nextChild + 1
    /\ living' = living \cup {nextChild}
    /\ starting' = [starting EXCEPT ![c] = nextChild]
    /\ UNCHANGED <<tables, watcher>>

Monitor(c) ==
    /\ Moves(c, "started", "monitored")
    /\ watcher' = [watcher EXCEPT ![starting[c]] = c]
    /\ UNCHANGED <<tables, living, starting, nextChild>>

Insert(c) ==
    /\ Moves(c, "monitored", "inserted")
    /\ children' = children \cup {starting[c]}
    /\ tabled' = tabled \cup {starting[c]}
    /\ UNCHANGED <<mapped, told, watcher, living, starting, nextChild>>

Map(c) ==
    /\ Moves(c, "inserted", "idle")
    /\ mapped' = mapped \cup {starting[c]}
    /\ starting' = [starting EXCEPT ![c] = NoChild]
    /\ UNCHANGED <<children, told, tabled, watcher, living, nextChild>>

-----------------------------------------------------------------------------
(* Mutant of TakesOut: the children leave the table untold. *)
TakesOutSilently(ps) ==
    /\ children' = children \ ps
    /\ mapped' = mapped \ ps
    /\ UNCHANGED <<told, tabled>>

(* do_terminate_child and terminate_all_children: out of both tables, then *)
(* the exit signal.                                                        *)
TakesOut(ps) ==
    /\ children' = children \ ps
    /\ mapped' = mapped \ ps
    /\ told' = told \cup ps
    /\ UNCHANGED tabled

TerminateChild(c, p) ==
    /\ step[c] = "idle" /\ entry
    /\ p \in children
    /\ TakesOut({p})
    /\ UNCHANGED <<sup, entry, shutdown, childVars, living, box, callVars, restarts>>

(* stop(): without an entry only the signal is sent. *)
Stop(c) ==
    /\ step[c] = "idle" /\ sup # "none"
    /\ \A d \in Caller : step[d] = "idle"
    /\ box = <<>>
    /\ entry' = FALSE
    /\ \/ entry /\ shutdown' = TRUE /\ TakesOut(children)
       \/ ~entry /\ UNCHANGED <<shutdown, tables>>
    /\ box' = IF sup = "ended" THEN box ELSE Append(box, ExitSignal)
    /\ UNCHANGED <<sup, childVars, living, callVars, restarts>>

-----------------------------------------------------------------------------
(* A child ends, told to or not; whoever monitors it hears of it.          *)
ChildExits(p) ==
    /\ p \in living
    /\ living' = living \ {p}
    /\ \E abnormal \in BOOLEAN :
          box' = IF watcher[p] = Sup /\ p \in mapped
                 THEN Append(box, [down |-> p, abnormal |-> abnormal]) ELSE box
    /\ UNCHANGED <<sup, entry, shutdown, tables, childVars, callVars, restarts>>

(* An exit signal of the parent, or of anyone else. *)
Signalled ==
    /\ sup = "running" /\ box = <<>>
    /\ box' = Append(box, ExitSignal)
    /\ UNCHANGED <<sup, entry, shutdown, tables, childVars, living, callVars, restarts>>

Restarts(msg) ==
    \/ restart[msg.down] = "permanent"
    \/ restart[msg.down] = "transient" /\ msg.abnormal

(* handle_child_exit for a DOWN that reaches the supervisor.  The child is *)
(* started anew, within the intensity, by the supervisor itself.           *)
HandleDown(msg) ==
    LET again == Restarts(msg) /\ nextChild \in Child
        ends == again /\ (shutdown \/ restarts = MaxRestarts)
        starts == again /\ ~ends
        gone == IF ends THEN children ELSE {msg.down}
        new == IF starts THEN {nextChild} ELSE {}
    IN /\ children' = (children \ gone) \cup new
       /\ mapped' = (mapped \ gone) \cup new
       /\ told' = told \cup (gone \ {msg.down})
       /\ tabled' = tabled \cup new
       /\ living' = living \cup new
       /\ watcher' = IF starts THEN [watcher EXCEPT ![nextChild] = Sup] ELSE watcher
       /\ restart' = IF starts THEN [restart EXCEPT ![nextChild] = restart[msg.down]] ELSE restart
       /\ nextChild' = IF starts THEN nextChild + 1 ELSE nextChild
       /\ restarts' = IF starts THEN restarts + 1 ELSE restarts
       /\ shutdown' = (shutdown \/ ends)
       /\ sup' = IF ends THEN "ended" ELSE "running"

(* A turn of the loop: a DOWN, or an exit signal, which ends it.           *)
SupTurn ==
    /\ sup = "running" /\ box # <<>>
    /\ box' = Tail(box)
    /\ IF Head(box) = ExitSignal
       THEN /\ sup' = "ended" /\ shutdown' = TRUE
            /\ TakesOut(children)
            /\ UNCHANGED <<childVars, living, restarts>>
       ELSE IF Head(box).down \in mapped THEN HandleDown(Head(box))
       ELSE UNCHANGED <<sup, shutdown, tables, childVars, living, restarts>>
    /\ UNCHANGED <<entry, callVars>>

-----------------------------------------------------------------------------
Progress ==
    RegisterName \/ SupTurn \/ \E c \in Caller : Monitor(c) \/ Insert(c) \/ Map(c)

Next ==
    \/ Progress \/ StartSup \/ Signalled
    \/ \E c \in Caller :
          \/ StartChild(c) \/ Stop(c)
          \/ \E p \in Child : TerminateChild(c, p)
    \/ \E p \in Child : ChildExits(p)

Spec == Init /\ [][Next]_vars

-----------------------------------------------------------------------------
(* A child leaves the table only with an exit signal sent to it or after   *)
(* it has ended, whoever of several callers and the supervisor removes it. *)
LeavesTold == \A p \in tabled \ children : p \in told \/ p \notin living

=============================================================================
