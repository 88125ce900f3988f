------------------------------ MODULE Services ------------------------------
(* The services of a node: the servers of GenServer, and each of the others in  *)
(* an instance of its own. In the code they share the runtime, which each       *)
(* module has as far as it needs it, and nothing else: a behaviour is one of    *)
(* the component in focus.                                                      *)
EXTENDS GenServer, FiniteSets

CONSTANTS
    Focus,                                     \* the components of a run
    Key, RegProcess, MaxRegCalls,              \* Registry
    Owner, Table, MaxStoreCalls,               \* Store
    Session, Transport, ChannelTopic, HandledTopic, MaxRequests, MaxNotices,   \* Channel
    ProcA, ProcB, Topic, CallBudgets, MaxBroadcasts,                      \* PubSub
    State, TimeoutName, MaxEvents, MaxFsmCalls, MaxTimers,                \* GenFsm
    TimerRef, Target, MaxTicks,                \* Timer
    Caller, MaxChild, MaxRestarts,             \* DynamicSupervisor
    Room, Nick, MaxHistory, MaxCommands,       \* Chat, with the sessions of Channel
    MaxJobs, MaxWorkers, MaxJobCommands, MaxDepth,                        \* JobQueue
    App, DependencyList, User, MaxAppCalls     \* Application

VARIABLE focus  \* the component of a behaviour

VARIABLES
    rg_mode, rg_present, rg_entries, rg_keysOf, rg_running, rg_at, rg_regCalls, rg_named

Reg == INSTANCE Registry WITH
    mode <- rg_mode, present <- rg_present, entries <- rg_entries, keysOf <- rg_keysOf,
    running <- rg_running, at <- rg_at, regCalls <- rg_regCalls, named <- rg_named,
    Process <- RegProcess
rgVars ==
    <<rg_mode, rg_present, rg_entries, rg_keysOf, rg_running, rg_at, rg_regCalls,
      rg_named>>

VARIABLES
    st_kind, st_private, st_maker, st_named, st_meta, st_heir, st_names, st_byOwner,
    st_content, st_writes, st_updating, st_alive, st_cleaning, st_leaving, st_inherited,
    st_storeCalls

Sto == INSTANCE Store WITH
    kind <- st_kind, private <- st_private, maker <- st_maker, named <- st_named,
    meta <- st_meta, heir <- st_heir, names <- st_names, byOwner <- st_byOwner,
    content <- st_content, writes <- st_writes, updating <- st_updating,
    alive <- st_alive, cleaning <- st_cleaning, leaving <- st_leaving,
    inherited <- st_inherited, storeCalls <- st_storeCalls
stVars ==
    <<st_kind, st_private, st_maker, st_named, st_meta, st_heir, st_names, st_byOwner,
      st_content, st_writes, st_updating, st_alive, st_cleaning, st_leaving,
      st_inherited, st_storeCalls>>

VARIABLES
    ch_stage, ch_doing, ch_joined, ch_group, ch_mailbox, ch_told, ch_stopped,
    ch_requests, ch_sends

Chan == INSTANCE Channel WITH
    stage <- ch_stage, doing <- ch_doing, joined <- ch_joined, group <- ch_group,
    mailbox <- ch_mailbox, told <- ch_told, stopped <- ch_stopped,
    requests <- ch_requests, sends <- ch_sends,
    Topic <- ChannelTopic, Handled <- HandledTopic, MaxSends <- MaxNotices
chVars ==
    <<ch_stage, ch_doing, ch_joined, ch_group, ch_mailbox, ch_told, ch_stopped,
      ch_requests, ch_sends>>

VARIABLES
    ps_mailbox, ps_wire, ps_named, ps_known, ps_entries, ps_calling, ps_replied,
    ps_budget, ps_nextMsg, ps_topicOf, ps_origin, ps_reached, ps_subscribed, ps_silent,
    ps_due, ps_awaited

Pub == INSTANCE PubSub WITH
    mailbox <- ps_mailbox, wire <- ps_wire, named <- ps_named, known <- ps_known,
    entries <- ps_entries, calling <- ps_calling, replied <- ps_replied,
    budget <- ps_budget, nextMsg <- ps_nextMsg, topicOf <- ps_topicOf,
    origin <- ps_origin, reached <- ps_reached, subscribed <- ps_subscribed,
    silent <- ps_silent, due <- ps_due, awaited <- ps_awaited
psVars ==
    <<ps_mailbox, ps_wire, ps_named, ps_known, ps_entries, ps_calling, ps_replied,
      ps_budget, ps_nextMsg, ps_topicOf, ps_origin, ps_reached, ps_subscribed,
      ps_silent, ps_due, ps_awaited>>

VARIABLES
    gf_loop, gf_state, gf_terminated, gf_queue, gf_postponed, gf_fired, gf_armed,
    gf_tasks, gf_serial, gf_events, gf_fsmCalls, gf_open, gf_waits, gf_replies,
    gf_result

Fsm == INSTANCE GenFsm WITH
    loop <- gf_loop, state <- gf_state, terminated <- gf_terminated, queue <- gf_queue,
    postponed <- gf_postponed, fired <- gf_fired, armed <- gf_armed, tasks <- gf_tasks,
    serial <- gf_serial, events <- gf_events, fsmCalls <- gf_fsmCalls, open <- gf_open,
    waits <- gf_waits, replies <- gf_replies, result <- gf_result,
    Name <- TimeoutName
gfVars ==
    <<gf_loop, gf_state, gf_terminated, gf_queue, gf_postponed, gf_fired, gf_armed,
      gf_tasks, gf_serial, gf_events, gf_fsmCalls, gf_open, gf_waits, gf_replies,
      gf_result>>

VARIABLES
    tm_kind, tm_target, tm_timers, tm_task, tm_signalled, tm_ticks, tm_late, tm_answer,
    tm_registered, tm_marked

Tmr == INSTANCE Timer WITH
    kind <- tm_kind, target <- tm_target, timers <- tm_timers, task <- tm_task,
    signalled <- tm_signalled, ticks <- tm_ticks, late <- tm_late, answer <- tm_answer,
    registered <- tm_registered, marked <- tm_marked
tmVars ==
    <<tm_kind, tm_target, tm_timers, tm_task, tm_signalled, tm_ticks, tm_late,
      tm_answer, tm_registered, tm_marked>>

VARIABLES
    ds_sup, ds_entry, ds_shutdown, ds_children, ds_mapped, ds_restart, ds_watcher,
    ds_living, ds_told, ds_tabled, ds_box, ds_starting, ds_step, ds_nextChild,
    ds_restarts

Dyn == INSTANCE DynamicSupervisor WITH
    sup <- ds_sup, entry <- ds_entry, shutdown <- ds_shutdown, children <- ds_children,
    mapped <- ds_mapped, restart <- ds_restart, watcher <- ds_watcher,
    living <- ds_living, told <- ds_told, tabled <- ds_tabled, box <- ds_box,
    starting <- ds_starting, step <- ds_step, nextChild <- ds_nextChild,
    restarts <- ds_restarts
dsVars ==
    <<ds_sup, ds_entry, ds_shutdown, ds_children, ds_mapped, ds_restart, ds_watcher,
      ds_living, ds_told, ds_tabled, ds_box, ds_starting, ds_step, ds_nextChild,
      ds_restarts>>

VARIABLES
    ct_stage, ct_doing, ct_nick, ct_channels, ct_group, ct_mailbox, ct_name,
    ct_alive, ct_box, ct_history, ct_commands, ct_shown, ct_view, ct_caughtUp,
    ct_lost

Talk == INSTANCE Chat WITH
    stage <- ct_stage, doing <- ct_doing, nick <- ct_nick, channels <- ct_channels,
    group <- ct_group, mailbox <- ct_mailbox, name <- ct_name, alive <- ct_alive,
    box <- ct_box, history <- ct_history, commands <- ct_commands,
    shown <- ct_shown, view <- ct_view, caughtUp <- ct_caughtUp, lost <- ct_lost
ctVars ==
    <<ct_stage, ct_doing, ct_nick, ct_channels, ct_group, ct_mailbox, ct_name,
      ct_alive, ct_box, ct_history, ct_commands, ct_shown, ct_view, ct_caughtUp,
      ct_lost>>

VARIABLES
    jq_pending, jq_inFlight, jq_idle, jq_all, jq_batch, jq_dispatching, jq_mailbox,
    jq_worker, jq_wbox, jq_working, jq_timers, jq_dead, jq_refused, jq_done, jq_lost,
    jq_nextJob, jq_nextWorker, jq_commands

Job == INSTANCE JobQueue WITH
    pending <- jq_pending, inFlight <- jq_inFlight, idle <- jq_idle, all <- jq_all,
    batch <- jq_batch, dispatching <- jq_dispatching, mailbox <- jq_mailbox,
    worker <- jq_worker, wbox <- jq_wbox, working <- jq_working, timers <- jq_timers,
    dead <- jq_dead, refused <- jq_refused, done <- jq_done, lost <- jq_lost,
    nextJob <- jq_nextJob, nextWorker <- jq_nextWorker, commands <- jq_commands
jqVars ==
    <<jq_pending, jq_inFlight, jq_idle, jq_all, jq_batch, jq_dispatching, jq_mailbox,
      jq_worker, jq_wbox, jq_working, jq_timers, jq_dead, jq_refused, jq_done, jq_lost,
      jq_nextJob, jq_nextWorker, jq_commands>>

VARIABLES
    ap_spec, ap_registered, ap_up, ap_todo, ap_doing, ap_launching, ap_began,
    ap_appCalls, ap_resolver, ap_roots, ap_path, ap_left, ap_order

Appl == INSTANCE Application WITH
    spec <- ap_spec, registered <- ap_registered, up <- ap_up, todo <- ap_todo,
    doing <- ap_doing, launching <- ap_launching, began <- ap_began,
    appCalls <- ap_appCalls, resolver <- ap_resolver, roots <- ap_roots,
    path <- ap_path, left <- ap_left, order <- ap_order
apVars ==
    <<ap_spec, ap_registered, ap_up, ap_todo, ap_doing, ap_launching, ap_began,
      ap_appCalls, ap_resolver, ap_roots, ap_path, ap_left, ap_order>>

servicesVars ==
    <<focus, rgVars, stVars, chVars, psVars, gfVars, tmVars, dsVars, ctVars, jqVars,
      apVars, vars>>

(* The marks for "no key" and "nobody" are not among the keys and the owners.   *)
ASSUME KeyAssumption == Reg!NoKey \notin Key
ASSUME OwnerAssumption == Sto!Nobody \notin Owner
ASSUME FsmAssumption == MaxFsmCalls \in Nat
ASSUME PubSubAssumption ==
    CallBudgets \subseteq [ProcA \cup ProcB -> Nat] /\ MaxBroadcasts \in Nat
(* Handlers match topics, of which there are finitely many.                     *)
ASSUME ChannelAssumption ==
    /\ HandledTopic \subseteq ChannelTopic /\ IsFiniteSet(ChannelTopic)
    /\ MaxRequests \in Nat /\ MaxNotices \in Nat
(* The bounds of the chat; no nick is the mark for "none", no session "nobody". *)
ASSUME ChatAssumption ==
    /\ MaxHistory \in Nat /\ MaxCommands \in Nat
    /\ Talk!NoNick \notin Nick /\ Talk!Nobody \notin Session
(* The job queue starts with one worker.                                        *)
ASSUME JobAssumption ==
    MaxJobs \in Nat /\ MaxWorkers \in Nat \ {0} /\ MaxJobCommands \in Nat /\ MaxDepth \in Nat
(* Dependencies are lists of names; the marks are neither applications nor users. *)
ASSUME ApplicationAssumption ==
    /\ DependencyList \subseteq Seq(App) /\ MaxAppCalls \in Nat
    /\ Appl!NoApp \notin App /\ Appl!NoUser \notin User

(* The components that are not in focus stay in one initial state. *)
ServicesInit ==
    /\ focus \in Focus
    /\ Reg!Init
    /\ \/ focus = "registry"
       \/ rg_mode = CHOOSE m \in Reg!Mode : TRUE
    /\ Sto!Init
    /\ Chan!Init
    /\ Pub!Init
    /\ \/ focus = "pubsub"
       \/ ps_budget = CHOOSE b \in CallBudgets : TRUE
    /\ Fsm!Init
    /\ \/ focus = "genfsm"
       \/ gf_state = CHOOSE s \in State : TRUE
    /\ Tmr!Init
    /\ Dyn!Init
    /\ \/ focus = "dynsup"
       \/ \A p \in DOMAIN ds_restart : ds_restart[p] = "permanent"
    /\ Init
    /\ Talk!Init
    /\ ct_nick = [c \in Session |-> CHOOSE n \in Nick : TRUE]
    /\ Job!Init
    /\ Appl!Init
    /\ \/ focus = "application"
       \/ /\ ap_spec = [a \in App |-> CHOOSE d \in DependencyList : TRUE]
          /\ ap_registered = App

ServicesNext ==
    \/ focus = "registry" /\ Reg!Next
       /\ UNCHANGED <<focus, stVars, chVars, psVars, gfVars, tmVars, dsVars, vars, ctVars, jqVars, apVars>>
    \/ focus = "store" /\ Sto!Next
       /\ UNCHANGED <<focus, rgVars, chVars, psVars, gfVars, tmVars, dsVars, vars, ctVars, jqVars, apVars>>
    \/ focus = "channel" /\ Chan!Next
       /\ UNCHANGED <<focus, rgVars, stVars, psVars, gfVars, tmVars, dsVars, vars, ctVars, jqVars, apVars>>
    \/ focus = "pubsub" /\ Pub!Next
       /\ UNCHANGED <<focus, rgVars, stVars, chVars, gfVars, tmVars, dsVars, vars, ctVars, jqVars, apVars>>
    \/ focus = "genfsm" /\ Fsm!Next
       /\ UNCHANGED <<focus, rgVars, stVars, chVars, psVars, tmVars, dsVars, vars, ctVars, jqVars, apVars>>
    \/ focus = "timer" /\ Tmr!Next
       /\ UNCHANGED <<focus, rgVars, stVars, chVars, psVars, gfVars, dsVars, vars, ctVars, jqVars, apVars>>
    \/ focus = "dynsup" /\ Dyn!Next
       /\ UNCHANGED <<focus, rgVars, stVars, chVars, psVars, gfVars, tmVars, vars, ctVars, jqVars, apVars>>
    \/ focus = "calls" /\ Next
       /\ UNCHANGED <<focus, rgVars, stVars, chVars, psVars, gfVars, tmVars, dsVars, ctVars, jqVars, apVars>>
    \/ focus = "chat" /\ Talk!Next
       /\ UNCHANGED <<focus, rgVars, stVars, chVars, psVars, gfVars, tmVars, dsVars, vars, jqVars, apVars>>
    \/ focus = "jobs" /\ Job!Next
       /\ UNCHANGED <<focus, rgVars, stVars, chVars, psVars, gfVars, tmVars, dsVars, vars, ctVars, apVars>>
    \/ focus = "application" /\ Appl!Next
       /\ UNCHANGED <<focus, rgVars, stVars, chVars, psVars, gfVars, tmVars, dsVars, vars, ctVars, jqVars>>

ServicesSpec == ServicesInit /\ [][ServicesNext]_servicesVars

-----------------------------------------------------------------------------
(* What the components promise. Each part is stated, with the code it is     *)
(* about, in the module of its component. One that is not in focus is in an   *)
(* initial state, of which there is nothing to say.                          *)

(* registry: every entry of a running process is among the keys it will take  *)
(* away with it.                                                             *)
RegistrySafe == focus = "registry" => Reg!TypeOK /\ Reg!ReverseCovers

(* store: concurrent updates of an ordered table do not lose one another, and *)
(* a name leads to a table that is there and carries it.                     *)
StoreSafe == focus = "store" => Sto!TypeOK /\ Sto!OrderedUpdates /\ Sto!NameRegistered

(* channel: a member of a topic's group has joined the topic, and a client    *)
(* was told so.                                                              *)
ChannelSafe == focus = "channel" => Chan!TypeOK /\ Chan!MembersAreJoined /\ Chan!ToldTruly

(* pubsub/server.rs: a broadcast reaches every subscriber of its own node,   *)
(* and who has unsubscribed hears no more of the topic.                      *)
PubSubSafe ==
    /\ [](focus = "pubsub" => Pub!TypeOK /\ Pub!LocalHears)
    /\ Pub!UnsubscribedSilent

(* pubsub/server.rs, of a broadcast: "to all subscribers of a topic (local +  *)
(* remote)".                                                                *)
RemoteHears == Pub!RemoteHears

(* gen_fsm: the timers that can fire are those of the state the machine is in. *)
FsmSafe == focus = "genfsm" => Fsm!TypeOK /\ Fsm!TimersOfState

(* timer: at most one message arrives after a cancel, and every timer in the  *)
(* table has a task that takes it out.                                       *)
TimerSafe == focus = "timer" => Tmr!TypeOK /\ Tmr!LateAtMostOnce /\ Tmr!EntryMeansTask

(* dynamic_supervisor: a child leaves the tables only when it ended or was    *)
(* told to.                                                                  *)
DynamicSafe == focus = "dynsup" => Dyn!TypeOK /\ Dyn!LeavesTold

(* chat: a room has one process, a client that was given the history of a     *)
(* room misses no message of it, and knows who is there.                     *)
ChatSafe ==
    focus = "chat" => Talk!TypeOK /\ Talk!OneRoom /\ Talk!NoGap /\ Talk!ViewsTrue

(* job_queue: the queue knows what each worker is at, hears of one that ends,  *)
(* and no job is lost but in a retry.                                        *)
JobsSafe ==
    focus = "jobs" =>
        Job!TypeOK /\ Job!JobsTracked /\ Job!EndsAnnounced /\ Job!JobsKept

(* application: an application starts after all it depends on, and stop_all()  *)
(* reaches every application that runs, each before what it depends on.      *)
ApplicationSafe ==
    /\ [](focus = "application" => Appl!TypeOK /\ Appl!DependenciesFirst)
    /\ Appl!StopAllReaches

=============================================================================
