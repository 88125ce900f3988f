-------------------------------- MODULE Timer --------------------------------
(***************************************************************************)
(* timer/mod.rs: one-shot and interval timers, each a task of its own and  *)
(* an entry in the global table, which cancel() takes out.                 *)
(*                                                                         *)
(* A task that waits in its select! and a caller of cancel() run on        *)
(* different threads: the task commits to the tick, does its work and only *)
(* then touches the table again.  Time is not modelled: a delay may run    *)
(* out at any moment after the timer was started.                          *)
(***************************************************************************)
EXTENDS Naturals

CONSTANTS
    TimerRef,
    Target,    \* processes that timers are aimed at
    MaxTicks   \* bound: ticks of one interval timer

OneShot == {"send_after", "apply_after", "exit_after"}
Interval == {"send_interval", "apply_interval"}
NoKind == "none"

VARIABLES
    kind,      \* which call started the timer
    target,    \* the process a timer is aimed at
    timers,    \* TIMERS: the references with an entry
    task,      \* where the task of each timer is
    signalled, \* a cancellation lies in the task's channel
    ticks,     \* how often the task did its work
    late,      \* history: how often it did so after a cancel() that returned Ok
    answer,    \* history: what cancel() said first
    registered,\* targets in the process registry
    marked     \* targets some exit timer marked terminated

timerVars == <<kind, target, timers, task, signalled, ticks, late, answer>>
vars == <<timerVars, registered, marked>>

TypeOK ==
    /\ kind \in [TimerRef -> OneShot \cup Interval \cup {NoKind}]
    /\ target \in [TimerRef -> Target]
    /\ timers \subseteq TimerRef
    /\ task \in [TimerRef -> {"none", "waiting", "ticking", "cleaning", "done", "dead"}]
    /\ signalled \subseteq TimerRef
    /\ ticks \in [TimerRef -> Nat] /\ late \in [TimerRef -> Nat]
    /\ answer \in [TimerRef -> {"none", "ok", "not_found"}]
    /\ registered \subseteq Target /\ marked \subseteq Target

Init ==
    /\ kind = [t \in TimerRef |-> NoKind]
    /\ target \in [TimerRef -> Target]
    /\ timers = {} /\ signalled = {}
    /\ task = [t \in TimerRef |-> "none"]
    /\ ticks = [t \in TimerRef |-> 0] /\ late = ticks
    /\ answer = [t \in TimerRef |-> "none"]
    /\ registered = Target /\ marked = {}

(* Every call inserts the entry before it spawns the task. *)
Start(t, k) ==
    /\ kind[t] = NoKind
    /\ kind' = [kind EXCEPT ![t] = k]
    /\ timers' = timers \cup {t}
    /\ task' = [task EXCEPT ![t] = "waiting"]
    /\ UNCHANGED <<target, signalled, ticks, late, answer, registered, marked>>

(* cancel(): takes the entry out, then signals the task.  Only who removed *)
(* the entry gets Ok.                                                      *)
Cancel(t) ==
    /\ kind[t] # NoKind /\ answer[t] = "none"
    /\ timers' = timers \ {t}
    /\ \/ /\ t \in timers
          /\ signalled' = signalled \cup {t}
          /\ answer' = [answer EXCEPT ![t] = "ok"]
       \/ /\ t \notin timers
          /\ answer' = [answer EXCEPT ![t] = "not_found"]
          /\ UNCHANGED signalled
    /\ UNCHANGED <<kind, target, task, ticks, late, registered, marked>>

(* Mutant of Elapse: select! without biased may prefer the tick. *)
ElapseUnbiased(t) ==
    /\ task[t] = "waiting"
    /\ ticks[t] < MaxTicks
    /\ task' = [task EXCEPT ![t] = "ticking"]
    /\ UNCHANGED <<kind, target, timers, signalled, ticks, late, answer, registered, marked>>

(* The delay runs out.  select! is biased: a cancellation that is there    *)
(* when the task is polled comes first.                                    *)
Elapse(t) ==
    /\ task[t] = "waiting" /\ t \notin signalled
    /\ ticks[t] < MaxTicks
    /\ task' = [task EXCEPT ![t] = "ticking"]
    /\ UNCHANGED <<kind, target, timers, signalled, ticks, late, answer, registered, marked>>

TakeCancellation(t) ==
    /\ task[t] = "waiting" /\ t \in signalled
    /\ task' = [task EXCEPT ![t] = "cleaning"]
    /\ UNCHANGED <<kind, target, timers, signalled, ticks, late, answer, registered, marked>>

(* An interval that cannot reach its process ends; one that applies a      *)
(* function goes on for ever.                                              *)
Goes(t) ==
    \/ kind[t] = "apply_interval"
    \/ kind[t] = "send_interval" /\ target[t] \in registered

(* The work: send_raw through the registry, the function, or the mark that *)
(* exit_after() and kill_after() put on a registered process.              *)
Tick(t) ==
    /\ task[t] = "ticking"
    /\ ticks' = [ticks EXCEPT ![t] = @ + 1]
    /\ late' = [late EXCEPT ![t] = @ + IF answer[t] = "ok" THEN 1 ELSE 0]
    /\ task' = [task EXCEPT ![t] = IF Goes(t) THEN "waiting" ELSE "cleaning"]
    /\ marked' = IF kind[t] = "exit_after" THEN marked \cup ({target[t]} \cap registered)
                 ELSE marked
    /\ UNCHANGED <<kind, target, timers, signalled, answer, registered>>

(* The function of an apply timer panics: its task dies with the entry left. *)
Panic(t) ==
    /\ task[t] = "ticking" /\ kind[t] \in {"apply_after", "apply_interval"}
    /\ task' = [task EXCEPT ![t] = "dead"]
    /\ UNCHANGED <<kind, target, timers, signalled, ticks, late, answer, registered, marked>>

CleanUp(t) ==
    /\ task[t] = "cleaning"
    /\ task' = [task EXCEPT ![t] = "done"]
    /\ timers' = timers \ {t}
    /\ UNCHANGED <<kind, target, signalled, ticks, late, answer, registered, marked>>

(* A target leaves the registry when its exit has been handled. *)
Gone(p) ==
    /\ p \in registered
    /\ registered' = registered \ {p}
    /\ UNCHANGED <<timerVars, marked>>

Work(t) == Elapse(t) \/ TakeCancellation(t) \/ Tick(t) \/ CleanUp(t)

Next ==
    \/ \E t \in TimerRef :
          \/ \E k \in OneShot \cup Interval : Start(t, k)
          \/ Cancel(t) \/ Work(t) \/ Panic(t)
    \/ \E p \in Target : Gone(p)

Spec == Init /\ [][Next]_vars

-----------------------------------------------------------------------------
(* cancel() promises silence, up to the one tick the task had already       *)
(* committed to: an interval never outlives its cancellation by two.       *)
LateAtMostOnce == \A t \in TimerRef : late[t] <= 1

(* The entry of a timer goes with it: once its task has run to the end     *)
(* nothing is left to cancel or to read, and as long as the task can still *)
(* go off uncancelled the entry is there to cancel it.                     *)
EntryMeansTask ==
    \A t \in TimerRef :
        /\ task[t] = "done" => t \notin timers
        /\ task[t] \in {"waiting", "ticking"} /\ t \notin signalled => t \in timers

=============================================================================
